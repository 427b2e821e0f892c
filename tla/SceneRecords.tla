---------------------------- MODULE SceneRecords ----------------------------
(***************************************************************************)
(* The records of one planning step (the scene list, step 8): an append-   *)
(* only history per record, one accepted revision of each, and a snapshot  *)
(* of the accepted list that other steps and the index read.  An author    *)
(* composes a revision against the head he sees; a generation reads its    *)
(* targets, calls the model, reads the heads and stores a batch.  Both     *)
(* kinds of request interleave with each other and with decisions, which   *)
(* run in one BEGIN IMMEDIATE transaction.                                 *)
(*                                                                         *)
(* A revision is named by its revision_no (0: none).  Payloads are left    *)
(* out: one that breaks its contract, or names canon or a thread that is   *)
(* missing, is refused where it is made or decided, which changes nothing. *)
(***************************************************************************)
EXTENDS Naturals

CONSTANTS Records,
          Positions,    \* scene numbers: 1..999 in the code
          Requests,     \* editors and generations in progress together
          MaxRevision   \* bound: revisions of one record

ASSUME SceneRecordsAssumption ==
    Positions \subseteq Nat \ {0} /\ MaxRevision \in Nat

VARIABLES revision,  \* snowflake_record_revisions
          head,      \* snowflake_record_heads: the accepted revision of each record
          snapshot,  \* the accepted artifact derived from the records
          request    \* progress of each request

vars == <<revision, head, snapshot, request>>

\* "pending" stands for draft and pending_review, which no guard tells apart.
Committed == {"accepted", "superseded"}
Absent == [status |-> "absent", position |-> 0, base |-> 0]
Row == [status : {"pending", "rejected"} \cup Committed, position : Positions, base : 0..MaxRevision]

Numbers == 1..MaxRevision
Rows(r) == {n \in Numbers : revision[r][n] # Absent}

\* MAX(revision_no) + 1
IsNext(r, n) == (\A m \in Rows(r) : m < n) /\ (n = 1 \/ n - 1 \in Rows(r))

\* The revisions a request is going to insert: at most one for each record.
NoRow == [position |-> 0, base |-> 0]
Drafts == [Records -> {NoRow} \cup [position : Positions, base : 0..MaxRevision]]
NoDraft == [r \in Records |-> NoRow]
Drafted(draft) == {r \in Records : draft[r] # NoRow}

Idle == [pc |-> "idle", draft |-> NoDraft, no |-> 0]

\* Type invariant.
TypeOK ==
    /\ revision \in [Records -> [Numbers -> {Absent} \cup Row]]
    /\ head \in [Records -> 0..MaxRevision]
    /\ snapshot \subseteq [record : Records, revision : Numbers, position : Positions]
    /\ request \in [Requests ->
            [pc : {"idle", "composed", "numbered", "generating", "generated"},
             draft : Drafts, no : 0..MaxRevision]]

Init ==
    /\ revision = [r \in Records |-> [n \in Numbers |-> Absent]]
    /\ head = [r \in Records |-> 0]
    /\ snapshot = {}
    /\ request = [q \in Requests |-> Idle]

End(q) == request' = [request EXCEPT ![q] = Idle]

-----------------------------------------------------------------------------
(* An author's revision: create under a connection without a transaction *)

Compose(q, r, position) ==
    /\ request[q] = Idle
    /\ request' = [request EXCEPT ![q] =
            [pc |-> "composed", no |-> 0,
             draft |-> [NoDraft EXCEPT ![r] = [position |-> position, base |-> head[r]]]]]
    /\ UNCHANGED <<revision, head, snapshot>>

\* The base is compared with the head, and the next number is read.
Numbered(q, r, n) ==
    /\ request[q].pc = "composed" /\ r \in Drafted(request[q].draft)
    /\ request[q].draft[r].base = head[r]
    /\ IsNext(r, n)
    /\ request' = [request EXCEPT ![q].pc = "numbered", ![q].no = n]
    /\ UNCHANGED <<revision, head, snapshot>>

Inserted(row) == [status |-> "pending", position |-> row.position, base |-> row.base]

Insert(q, r) ==
    /\ request[q].pc = "numbered" /\ r \in Drafted(request[q].draft)
    /\ revision[r][request[q].no] = Absent
    /\ revision' = [revision EXCEPT ![r][request[q].no] = Inserted(request[q].draft[r])]
    /\ End(q)
    /\ UNCHANGED <<head, snapshot>>

\* The head moved on, the number was taken in between (a constraint of the
\* table), the model failed or answered for other records, or the process died.
Fail(q) ==
    /\ request[q] # Idle
    /\ End(q)
    /\ UNCHANGED <<revision, head, snapshot>>

-----------------------------------------------------------------------------
(* A generation: _generate_record_revisions *)

\* The positions of the records to regenerate are read before the model call;
\* without targets the model lists records of its own.
Generate(q, targets) ==
    /\ request[q] = Idle
    /\ \A r \in targets : head[r] # 0
    /\ request' = [request EXCEPT ![q] =
            [pc |-> "generating", no |-> 0,
             draft |-> [r \in Records |->
                IF r \in targets
                THEN [position |-> revision[r][head[r]].position, base |-> head[r]]
                ELSE NoRow]]]
    /\ UNCHANGED <<revision, head, snapshot>>

\* The heads are read again for the bases.  A target keeps the position read
\* before the call; another record the one it has, or one the model gave.
ReadBases(q, listed, given) ==
    LET targets == Drafted(request[q].draft)
        PositionOf(r) == IF r \in targets THEN request[q].draft[r].position
                         ELSE IF head[r] # 0 THEN revision[r][head[r]].position
                         ELSE given[r]
    IN
    /\ request[q].pc = "generating"
    /\ targets # {} => listed = targets
    /\ request' = [request EXCEPT ![q] =
            [pc |-> "generated", no |-> 0,
             draft |-> [r \in Records |->
                IF r \in listed THEN [position |-> PositionOf(r), base |-> head[r]] ELSE NoRow]]]
    /\ UNCHANGED <<revision, head, snapshot>>

\* One BEGIN IMMEDIATE transaction stores the whole batch, or nothing.
StoreBatch(q, no) ==
    LET draft == request[q].draft IN
    /\ request[q].pc = "generated"
    /\ \A r \in Drafted(draft) : draft[r].base = head[r] /\ IsNext(r, no[r])
    /\ revision' = [r \in Records |->
            IF r \in Drafted(draft)
            THEN [revision[r] EXCEPT ![no[r]] = Inserted(draft[r])]
            ELSE revision[r]]
    /\ End(q)
    /\ UNCHANGED <<head, snapshot>>

-----------------------------------------------------------------------------
(* decide_snowflake_record_revision *)

\* Seeded fault: the base of the revision is not compared with the head.
Undecided(r, n) == revision[r][n].status = "pending"

\* The head the author names is the head, and the revision was made against it.
Current(r, n) == revision[r][n].status = "pending" /\ revision[r][n].base = head[r]

\* Seeded fault: the record itself is looked up instead of the others.
FreeForItself(r, position) == head[r] # 0 => revision[r][head[r]].position # position

\* validate_scene_record_set_context: no other accepted record has the position.
FreePosition(r, position) ==
    \A o \in Records \ {r} : head[o] # 0 => revision[o][head[o]].position # position

Decided(r, n, status) ==
    [revision EXCEPT ![r] = [m \in Numbers |->
        IF m = n THEN [@[m] EXCEPT !.status = status]
        ELSE IF status = "accepted" /\ m = head[r] THEN [@[m] EXCEPT !.status = "superseded"]
        ELSE @[m]]]

\* Seeded fault: the list is read without the decision.
EarlierList(rows, heads) ==
    {[record |-> r, revision |-> head[r], position |-> revision[r][head[r]].position] :
        r \in {r \in Records : head[r] # 0}}

\* list_accepted
AcceptedList(rows, heads) ==
    {[record |-> r, revision |-> heads[r], position |-> rows[r][heads[r]].position] :
        r \in {r \in Records : heads[r] # 0}}

Accept(r, n) ==
    /\ Current(r, n)
    /\ FreePosition(r, revision[r][n].position)
    /\ revision' = Decided(r, n, "accepted")
    /\ head' = [head EXCEPT ![r] = n]
    /\ snapshot' = AcceptedList(revision', head')
    /\ UNCHANGED request

\* A rejection compares the heads too: a revision whose record moved on stays
\* pending.
Reject(r, n) ==
    /\ Current(r, n)
    /\ revision' = Decided(r, n, "rejected")
    /\ UNCHANGED <<head, snapshot, request>>

Next ==
    \/ \E q \in Requests :
        \/ \E r \in Records :
            \/ \E position \in Positions : Compose(q, r, position)
            \/ \E n \in Numbers : Numbered(q, r, n)
            \/ Insert(q, r)
        \/ \E targets \in SUBSET Records : Generate(q, targets)
        \/ \E listed \in SUBSET Records \ {{}}, given \in [Records -> Positions] :
            ReadBases(q, listed, given)
        \/ \E no \in [Records -> Numbers] : StoreBatch(q, no)
        \/ Fail(q)
    \/ \E r \in Records, n \in Numbers : Accept(r, n) \/ Reject(r, n)

Spec == Init /\ [][Next]_vars

-----------------------------------------------------------------------------
(* Properties *)

\* The committed revisions of a record are one line: each was made against the
\* one before it, so no acceptance lost another, whoever composed, generated
\* and decided at the same time.
CommittedLineage ==
    \A r \in Records, n \in Numbers : revision[r][n].status \in Committed =>
        /\ revision[r][n].base < n /\ n <= head[r]
        /\ \A m \in Numbers : m < n /\ revision[r][m].status \in Committed =>
            m <= revision[r][n].base
        /\ revision[r][n].base # 0 => revision[r][revision[r][n].base].status \in Committed

\* Readers of the derived artifact get the accepted list, record by record.
SnapshotIsTheList ==
    \A r \in Records, n \in Numbers, p \in Positions :
        [record |-> r, revision |-> n, position |-> p] \in snapshot
            <=> head[r] = n /\ revision[r][n].position = p

\* The promise the compiler of scenes relies on.
Abstract == INSTANCE AcceptedScenes WITH
    MaxRevision <- [r \in Records |-> MaxRevision],
    accepted <- [r \in Records |->
        IF head[r] = 0 THEN [revision |-> 0, position |-> 0]
        ELSE [revision |-> head[r], position |-> revision[r][head[r]].position]]

\* The records implement it: every acceptance is a newer revision at a free
\* position, and nothing else changes what is accepted.
ImplementsAcceptedScenes == Abstract!AcceptedSpec
=============================================================================
