---------------------------- MODULE SceneCompile ----------------------------
(***************************************************************************)
(* From the accepted scene list to scene contracts.  A parse reads the     *)
(* accepted records, the scenes they are linked to and the proposals it    *)
(* will supersede, each on its own, and then stores a new generation of    *)
(* proposals in one transaction.  The author accepts a batch of proposals  *)
(* in one BEGIN IMMEDIATE transaction, or rejects them, and edits, adds    *)
(* and deletes scenes beside that.  Records go on changing (Commit).       *)
(*                                                                         *)
(* A plan is named by the record revision it was compiled from and by the  *)
(* author's edit that wrote it last (0: none since).  Proposals the parser *)
(* blocks are ones nobody can accept.  A replay of a stored run changes    *)
(* nothing and is no action.                                               *)
(***************************************************************************)
EXTENDS AcceptedScenes, Integers, FiniteSets

CONSTANTS Scenes,        \* ids: a free one may be used again
          Parses,        \* parse requests that can be in progress together
          NoRecord,      \* the source of a scene the author wrote by hand
          MaxProposals,  \* bound: proposals of the project
          MaxEdits       \* bound: edits by the author

ASSUME SceneCompileAssumption ==
    MaxProposals \in Nat /\ MaxEdits \in Nat /\ NoRecord \notin Records

VARIABLES scene,     \* scene_contracts
          proposal,  \* scene_proposals, in the order of their creation
          parse,     \* progress of each parse request
          edits,     \* edits by the author so far
          failed     \* a validated batch met a constraint of the store

vars == <<accepted, scene, proposal, parse, edits, failed>>

Ids == 1..MaxProposals
Planned == [sequence : Positions, record : Records \cup {NoRecord},
            revision : Nat, edit : 0..MaxEdits, version : Nat \ {0}]
NoScene == [version |-> 0]
SceneTypes == {NoScene} \cup Planned
Exists(s) == scene[s] # NoScene

Absent == [status |-> "absent"]
\* A decided proposal keeps its status; nothing reads the rest again.  "closed"
\* stands for rejected and superseded, which no guard tells apart.
Decided == [status : {"accepted", "closed"}]
Proposed == [status : {"pending_review"}, record : Records, revision : Nat \ {0}, sequence : Positions,
             target : SUBSET Scenes, compared : SceneTypes]
Pending == {p \in Ids : proposal[p].status = "pending_review"}

Idle == [pc |-> "idle", records |-> [r \in Records |-> Unaccepted],
         creates |-> {}, stale |-> {}]

\* Type invariant.
TypeOK ==
    /\ AcceptedType
    /\ scene \in [Scenes -> SceneTypes]
    /\ proposal \in [Ids -> {Absent} \cup Decided \cup Proposed]
    /\ parse \in [Parses ->
            [pc : {"idle", "records", "linked", "stale"},
             records : [Records -> Heads],
             creates : SUBSET Proposed, stale : SUBSET Ids]]
    /\ edits \in 0..MaxEdits
    /\ failed \in BOOLEAN

Init ==
    /\ AcceptedInit
    /\ scene = [s \in Scenes |-> NoScene]
    /\ proposal = [p \in Ids |-> Absent]
    /\ parse = [q \in Parses |-> Idle]
    /\ edits = 0
    /\ failed = FALSE

-----------------------------------------------------------------------------
(* parse_scene_proposals *)

\* list_accepted_snowflake_records; without records the request fails.
ReadRecords(q) ==
    /\ parse[q].pc = "idle"
    /\ \E r \in Records : accepted[r] # Unaccepted
    /\ parse' = [parse EXCEPT ![q].pc = "records", ![q].records = accepted]
    /\ UNCHANGED <<accepted, scene, proposal, edits, failed>>

\* The scene compiled from a record.
Linked(r) == {s \in Scenes : Exists(s) /\ scene[s].record = r}

\* parse_scene_records: one scene for each record, at its position.
SceneOf(r, head) ==
    [status |-> "pending_review", record |-> r, revision |-> head.revision,
     sequence |-> head.position, target |-> {}, compared |-> NoScene]

\* A create of a linked record is an update of its scene: it names the scene,
\* and the plan and version it was compared with.
Targeted(create) ==
    [create EXCEPT !.target = Linked(create.record),
                   !.compared = IF Linked(create.record) = {} THEN NoScene
                                ELSE scene[CHOOSE s \in Linked(create.record) : TRUE]]

\* A record whose scene has its revision already needs no proposal.
Compiled(records) ==
    {Targeted(SceneOf(r, records[r])) :
        r \in {r \in Records :
                /\ records[r] # Unaccepted
                /\ \A s \in Linked(r) : scene[s].revision # records[r].revision}}

\* The linked scenes are read after the records, and what to propose is settled.
ReadLinked(q) ==
    /\ parse[q].pc = "records"
    /\ parse' = [parse EXCEPT ![q] =
            [Idle EXCEPT !.pc = "linked", !.creates = Compiled(parse[q].records)]]
    /\ UNCHANGED <<accepted, scene, proposal, edits, failed>>

\* supersede_pending selects before its UPDATE opens the transaction.
SelectStale(q) ==
    /\ parse[q].pc = "linked"
    /\ parse' = [parse EXCEPT ![q].pc = "stale", ![q].stale = Pending]
    /\ UNCHANGED <<accepted, scene, proposal, edits, failed>>

\* supersede_pending updates by id, whatever the status is by then.
Superseded(stale) ==
    [p \in Ids |-> IF p \in stale THEN [status |-> "closed"] ELSE proposal[p]]

\* create_batch gives ids nobody has, in the records' order.
Fresh(n) ==
    LET used == {p \in Ids : proposal[p] # Absent}
    IN {p \in Ids \ used : p <= Cardinality(used) + n}

\* One transaction from the UPDATE on.
Store(q) ==
    LET fresh == Fresh(Cardinality(parse[q].creates)) IN
    /\ parse[q].pc = "stale"
    /\ Cardinality(fresh) = Cardinality(parse[q].creates)
    /\ \E row \in [fresh -> parse[q].creates] :
        /\ \A p1, p2 \in fresh : p1 < p2 => row[p1].sequence < row[p2].sequence
        /\ proposal' = [p \in Ids |->
                IF p \in fresh THEN row[p] ELSE Superseded(parse[q].stale)[p]]
    /\ parse' = [parse EXCEPT ![q] = Idle]
    /\ UNCHANGED <<accepted, scene, edits, failed>>

\* The records do not parse, an id is taken meanwhile, or the process dies.
Abandon(q) ==
    /\ parse[q].pc # "idle"
    /\ parse' = [parse EXCEPT ![q] = Idle]
    /\ UNCHANGED <<accepted, scene, proposal, edits, failed>>

-----------------------------------------------------------------------------
(* accept_scene_proposals *)

\* Seeded fault: the place of the record is compared instead of its revision.
SourceAtPosition(p) == accepted[proposal[p].record].position = proposal[p].sequence

\* The source record still has the revision the proposal was compiled from.
SourceIsHead(p) == accepted[proposal[p].record].revision = proposal[p].revision

\* Seeded fault: the version the proposal was compared with is ignored.
TargetExists(p) ==
    IF proposal[p].target = {}
    THEN \A s \in Scenes : Exists(s) => scene[s].record # proposal[p].record
    ELSE \A s \in proposal[p].target : Exists(s) /\ scene[s].record = proposal[p].record

\* A create finds no scene of its record, an update the plan it was compared with.
TargetIsAsCompared(p) ==
    IF proposal[p].target = {}
    THEN \A s \in Scenes : Exists(s) => scene[s].record # proposal[p].record
    ELSE \A s \in proposal[p].target :
            /\ Exists(s)
            /\ scene[s].record = proposal[p].record
            /\ scene[s].version = proposal[p].compared.version

TargetsOf(batch) == UNION {proposal[p].target : p \in batch}

\* The checks before the first write of the batch.
Validated(batch) ==
    /\ \A p \in batch : SourceIsHead(p) /\ TargetIsAsCompared(p)
    /\ \A p1, p2 \in batch : p1 # p2 =>
        /\ proposal[p1].sequence # proposal[p2].sequence
        /\ proposal[p1].target \cap proposal[p2].target = {}
    /\ \A p \in batch, s \in Scenes \ TargetsOf(batch) :
        Exists(s) => scene[s].sequence # proposal[p].sequence

\* Seeded fault: targets keep their sequence until they are written.
Kept(s) == scene[s].sequence

\* Every target first moves to a negative sequence of its own.
Vacated(s) == -100000

\* The sequences taken by other scenes when a proposal of the batch is written:
\* the batch is written in the order of its sequences.
Taken(batch, p) ==
    {scene[s].sequence : s \in {s \in Scenes \ TargetsOf(batch) : Exists(s)}}
    \cup {proposal[q].sequence : q \in {q \in batch : proposal[q].sequence < proposal[p].sequence}}
    \cup {Vacated(s) : s \in
            TargetsOf({q \in batch : proposal[q].sequence > proposal[p].sequence})}

\* UNIQUE(project_id, sequence) and one scene of a source record.
Writable(batch) ==
    /\ \A p \in batch : proposal[p].sequence \notin Taken(batch, p)
    /\ \A p1, p2 \in batch : p1 # p2 => proposal[p1].record # proposal[p2].record

\* update, or insert, and bind_source
Written(p, version) ==
    [sequence |-> proposal[p].sequence, record |-> proposal[p].record,
     revision |-> proposal[p].revision, edit |-> 0, version |-> version]

\* Accepted proposals in the request are replayed and change nothing; another
\* decided one refuses the request.
Accept(batch) ==
    LET creates == {p \in batch : proposal[p].target = {}} IN
    /\ batch # {} /\ batch \subseteq Pending
    /\ Validated(batch)
    /\ IF Writable(batch)
       THEN \E at \in [creates -> {s \in Scenes : ~Exists(s)}] :
            /\ \A p1, p2 \in creates : p1 # p2 => at[p1] # at[p2]
            /\ scene' = [s \in Scenes |->
                    IF \E p \in creates : at[p] = s
                    THEN Written(CHOOSE p \in creates : at[p] = s, 1)
                    ELSE IF s \in TargetsOf(batch)
                    THEN Written(CHOOSE p \in batch : s \in proposal[p].target, scene[s].version + 1)
                    ELSE scene[s]]
            /\ proposal' = [p \in Ids |->
                    IF p \in batch THEN [status |-> "accepted"] ELSE proposal[p]]
            /\ UNCHANGED failed
       ELSE failed' = TRUE /\ UNCHANGED <<scene, proposal>>
    /\ UNCHANGED <<accepted, parse, edits>>

\* update_status: a compare-and-set on the pending status; this route accepts
\* without applying anything.
Decide(p, status) ==
    /\ p \in Pending
    /\ proposal' = [proposal EXCEPT ![p] = [status |-> status]]
    /\ UNCHANGED <<accepted, scene, parse, edits, failed>>

-----------------------------------------------------------------------------
(* The author's own changes to scenes *)

FreeSequence(s, n) == \A o \in Scenes \ {s} : Exists(o) => scene[o].sequence # n

AddScene(s, n) ==
    /\ ~Exists(s) /\ FreeSequence(s, n) /\ edits < MaxEdits
    /\ edits' = edits + 1
    /\ scene' = [scene EXCEPT ![s] =
            [sequence |-> n, record |-> NoRecord, revision |-> 0, edit |-> edits + 1, version |-> 1]]
    /\ UNCHANGED <<accepted, proposal, parse, failed>>

\* update: the source stays, the plan and its version do not.
EditScene(s, n) ==
    /\ Exists(s) /\ FreeSequence(s, n) /\ edits < MaxEdits
    /\ edits' = edits + 1
    /\ scene' = [scene EXCEPT ![s] =
            [scene[s] EXCEPT !.sequence = n, !.edit = edits + 1, !.version = @ + 1]]
    /\ UNCHANGED <<accepted, proposal, parse, failed>>

DeleteScene(s) ==
    /\ Exists(s)
    /\ scene' = [scene EXCEPT ![s] = NoScene]
    /\ UNCHANGED <<accepted, proposal, parse, edits, failed>>

\* decide_snowflake_record_revision accepts a revision of a record.
AcceptRecord(r, n, position) ==
    /\ Commit(r, n, position)
    /\ UNCHANGED <<scene, proposal, parse, edits, failed>>

Next ==
    \/ \E r \in Records, position \in Positions :
        \E n \in 1..MaxRevision[r] : AcceptRecord(r, n, position)
    \/ \E q \in Parses :
        ReadRecords(q) \/ ReadLinked(q) \/ SelectStale(q) \/ Store(q) \/ Abandon(q)
    \/ \E batch \in SUBSET Ids : Accept(batch)
    \/ \E p \in Ids, status \in {"accepted", "closed"} : Decide(p, status)
    \/ \E s \in Scenes : DeleteScene(s) \/ \E n \in Positions : AddScene(s, n) \/ EditScene(s, n)

Spec == Init /\ [][Next]_vars

-----------------------------------------------------------------------------
(* Properties *)

\* A batch that passed the checks never meets a constraint of the store, also
\* when it moves scenes onto each other's numbers or holds proposals of two
\* parses: nobody sees a server error, and nothing is half applied.
BatchApplies == ~failed

\* A batch replaces a plan only by a proposal that was compared with it, unless
\* the scene has the revision of the proposal already.  A scene deleted and
\* created again can: its versions start from 1, so one version may name two plans.
UpdatesReplaceWhatWasCompared ==
    [][\A s \in Scenes :
        scene[s] # NoScene /\ scene'[s] # NoScene /\ scene'[s] # scene[s] /\ edits' = edits =>
            \E p \in Pending :
                /\ proposal'[p].status = "accepted"
                /\ scene'[s] = Written(p, scene[s].version + 1)
                /\ \/ proposal[p].compared = scene[s]
                   \/ proposal[p].revision = scene[s].revision]_vars

\* A scene never goes back to an earlier revision of its record, however many
\* parses read the list before, while and after it was revised.
PlanNeverGoesBack ==
    [][\A s \in Scenes :
        scene[s] # NoScene /\ scene'[s] # NoScene /\ scene'[s].record = scene[s].record =>
            scene[s].revision <= scene'[s].revision]_vars

\* What the review state machine says of every proposal: a decided state is final.
DecisionsAreFinal ==
    [][\A p \in Ids :
        proposal[p] \in Decided => proposal'[p] = proposal[p]]_vars
=============================================================================
