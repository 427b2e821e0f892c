----------------------------- MODULE Snowflake -----------------------------
(***************************************************************************)
(* The planning steps of one project.  Every step holds a history of       *)
(* revisions, one accepted head, and a projection of the accepted text     *)
(* that generation and the wiki read.  A revision is composed against the  *)
(* head its author saw, inserted, perhaps patched, then accepted or        *)
(* rejected; an acceptance supersedes the old head, marks every dependent  *)
(* step stale and enqueues the indexing of the new text, all in one        *)
(* BEGIN IMMEDIATE transaction.  Inserts and patches read before their     *)
(* first write opens a transaction, so those reads are steps of their own. *)
(*                                                                         *)
(* A revision is named by its step and its revision_no (0: no revision).   *)
(* `changed` is a history variable: the steps accepted since a step was    *)
(* last decided; so is the head `seen` by a request.  Steps 6 to 9 have a  *)
(* record path besides, which is not here.                                 *)
(***************************************************************************)
EXTENDS Integers, FiniteSets

CONSTANTS LastStep,      \* 10 in the code
          DependsOn,     \* the direct dependencies of each step
          Optional,      \* the steps that may be skipped
          Virtual,       \* the steps without revisions
          Authors,       \* concurrent requests: editors and generations
          Texts,
          None,
          MaxRevision,   \* bound: revisions of one step
          MaxRows        \* bound: no request goes on to insert beyond these

Steps == 1..LastStep

\* step_spec.validate_step_graph, which runs when the module is imported.
ASSUME StepGraphAssumption ==
    /\ LastStep \in Nat \ {0}
    /\ DependsOn \in [Steps -> SUBSET Steps]
    /\ \A s \in Steps : \A d \in DependsOn[s] : d < s

ASSUME SnowflakeAssumption ==
    /\ Optional \subseteq Steps /\ Virtual \subseteq Steps /\ Optional \cap Virtual = {}
    /\ LastStep \in Virtual
    /\ None \notin Texts
    /\ MaxRevision \in Nat \ {0} /\ MaxRows \in Nat

VARIABLES revision,      \* snowflake_artifact_revisions
          head,          \* snowflake_artifact_heads
          projection,    \* snowflake_artifacts
          currentStep,   \* projects.current_step
          jobs,          \* the llm_wiki_ingest rows of the outbox
          author,        \* the request each author has under way
          changed        \* history

vars == <<revision, head, projection, currentStep, jobs, author, changed>>

Numbers == 1..MaxRevision
Heads == 0..MaxRevision

\* "pending" stands for draft and pending_review, which no guard tells apart.
Committed == {"accepted", "superseded"}

Absent == [status |-> "absent"]
RevisionType ==
    [status : {"pending", "rejected"} \cup Committed, text : Texts,
     base : Heads]       \* base_head_revision_id

JobType == [step : Steps, no : Numbers, text : Texts]

Idle == [op |-> "idle"]
AuthorType ==
    {Idle}
    \cup [op : {"compose"}, step : Steps, claims : Heads, seen : Heads]
    \cup [op : {"insert"}, step : Steps, no : Numbers, row : RevisionType, seen : Heads]
    \cup [op : {"patch"}, step : Steps, no : Numbers, text : Texts]

Rows(s) == {n \in Numbers : revision[s][n] # Absent}

\* Every step a step consumes, directly or through others.
UpstreamOf[s \in Steps] == DependsOn[s] \cup UNION {UpstreamOf[d] : d \in DependsOn[s]}

\* Seeded fault: only the direct consumers.
DirectConsumers(s) == {d \in Steps : s \in DependsOn[d]}

\* downstream_steps: every transitive consumer.
Downstream(s) == {d \in Steps : s \in UpstreamOf[d]}

Later(a, b) == IF a < b THEN b ELSE a

\* advance_current_step: min(step + 1, 10), never backwards.
AdvanceCurrentStep(s) ==
    currentStep' = Later(currentStep, IF s < LastStep THEN s + 1 ELSE LastStep)

-----------------------------------------------------------------------------
Init ==
    /\ revision = [s \in Steps |-> [n \in Numbers |-> Absent]]
    /\ head = [s \in Steps |-> [accepted |-> 0, state |-> "missing"]]
    /\ projection = [s \in Steps |-> None]
    /\ currentStep = 1
    /\ jobs = {}
    /\ author = [a \in Authors |-> Idle]
    /\ changed = [s \in Steps |-> {}]

-----------------------------------------------------------------------------
(* Composing a revision *)

\* An author opens a step, or a generation loads its context.  The editor
\* sends the head it shows as its base; generations and the deprecated save
\* send none.
Compose(a, s, claims) ==
    /\ author[a] = Idle
    /\ s \notin Virtual
    /\ claims \in {0, head[s].accepted}
    /\ author' = [author EXCEPT ![a] =
            [op |-> "compose", step |-> s, claims |-> claims, seen |-> head[s].accepted]]
    /\ UNCHANGED <<revision, head, projection, currentStep, jobs, changed>>

\* create_revision up to its INSERT: the next revision_no and, when the author
\* sent no base, the head of this moment.
ReadForInsert(a, t) ==
    LET q == author[a]
    IN  /\ q.op = "compose"
        /\ Cardinality({x \in Steps \X Numbers : x[2] \in Rows(x[1])}) < MaxRows
        /\ \E last \in 0..(MaxRevision - 1) :
            /\ last = 0 \/ last \in Rows(q.step)
            /\ \A m \in Rows(q.step) : m <= last
            /\ author' = [author EXCEPT ![a] =
                    [op |-> "insert", step |-> q.step, no |-> last + 1, seen |-> q.seen,
                     row |-> [status |-> "pending", text |-> t,
                              base |-> IF q.claims # 0 THEN q.claims
                                       ELSE head[q.step].accepted]]]
        /\ UNCHANGED <<revision, head, projection, currentStep, jobs, changed>>

\* The INSERT; UNIQUE (project, step, revision_no) refuses a taken number.
InsertRevision(a) ==
    LET q == author[a]
    IN  /\ q.op = "insert"
        /\ IF q.no \in Rows(q.step) THEN UNCHANGED revision
           ELSE revision' = [revision EXCEPT ![q.step][q.no] = q.row]
        /\ author' = [author EXCEPT ![a] = Idle]
        /\ UNCHANGED <<head, projection, currentStep, jobs, changed>>

\* patch_revision: the status is checked in one read...
OpenPatch(a, s, n, t) ==
    /\ author[a] = Idle
    /\ revision[s][n].status = "pending"
    /\ revision[s][n].text # t
    /\ author' = [author EXCEPT ![a] = [op |-> "patch", step |-> s, no |-> n, text |-> t]]
    /\ UNCHANGED <<revision, head, projection, currentStep, jobs, changed>>

\* ...and the text written by an UPDATE that names only the revision.
WritePatch(a) ==
    LET q == author[a]
    IN  /\ q.op = "patch"
        /\ revision' = [revision EXCEPT ![q.step][q.no].text = q.text]
        /\ author' = [author EXCEPT ![a] = Idle]
        /\ UNCHANGED <<head, projection, currentStep, jobs, changed>>

-----------------------------------------------------------------------------
(* Deciding *)

\* Seeded fault: the head check trusts the caller's expectation alone.
CurrentExpectedOnly(s, n, expected) == head[s].accepted = expected

\* The accepted head is still the one the caller expects and the revision was
\* composed against.
Current(s, n, expected) ==
    /\ head[s].accepted = expected
    /\ revision[s][n].base = expected

\* set_revision_status and accept_revision on the rows of the step.
SupersedeHead(s, n) ==
    revision' = [revision EXCEPT ![s] = [m \in Numbers |->
        IF m = n THEN [revision[s][m] EXCEPT !.status = "accepted"]
        ELSE IF m = head[s].accepted /\ revision[s][m].status = "accepted"
             THEN [revision[s][m] EXCEPT !.status = "superseded"]
        ELSE revision[s][m]]]

\* mark_stale: a step without a decision stays missing, the virtual one does not.
MarkStale(d) ==
    IF head[d].state # "missing" \/ d \in Virtual
    THEN [head[d] EXCEPT !.state = "stale"] ELSE head[d]

\* Seeded fault: the idempotency key names the step, not the revision.
EnqueueOncePerStep(s, n, t) ==
    jobs' = IF \E j \in jobs : j.step = s THEN jobs
            ELSE jobs \cup {[step |-> s, no |-> n, text |-> t]}

\* OutboxRepository.insert under the key of the revision.
EnqueueIndex(s, n, t) ==
    jobs' = IF \E j \in jobs : j.step = s /\ j.no = n THEN jobs
            ELSE jobs \cup {[step |-> s, no |-> n, text |-> t]}

\* Seeded fault: the projection is written only once.
ProjectFirst(s, t) ==
    projection' = [projection EXCEPT ![s] = IF projection[s] = None THEN t ELSE projection[s]]

\* update_accepted_projection: an upsert of the step's row.
UpdateAcceptedProjection(s, t) == projection' = [projection EXCEPT ![s] = t]

\* decide_snowflake_revision, decision "accepted".  A repeated acceptance of
\* the current head and one the validator refuses end without a write; any text
\* may be one the validator passes.
Accept(s, n, expected) ==
    /\ n \in Rows(s)
    /\ Current(s, n, expected)
    /\ revision[s][n].status = "pending"
    /\ SupersedeHead(s, n)
    /\ head' = [d \in Steps |->
            IF d = s THEN [accepted |-> n, state |-> "approved"]
            ELSE IF d \in Downstream(s) THEN MarkStale(d)
            ELSE head[d]]
    /\ UpdateAcceptedProjection(s, revision[s][n].text)
    /\ AdvanceCurrentStep(s)
    /\ EnqueueIndex(s, n, revision[s][n].text)
    /\ changed' = [d \in Steps |-> IF d = s THEN {} ELSE changed[d] \cup {s}]
    /\ UNCHANGED author

\* Decision "rejected", whatever the head.
Reject(s, n) ==
    /\ revision[s][n].status = "pending"
    /\ revision' = [revision EXCEPT ![s][n].status = "rejected"]
    /\ UNCHANGED <<head, projection, currentStep, jobs, author, changed>>

\* skip_step: the head is emptied; revisions and projection stay as they are.
Skip(s) ==
    /\ s \in Optional
    /\ head' = [head EXCEPT ![s] = [accepted |-> 0, state |-> "skipped"]]
    /\ AdvanceCurrentStep(s)
    /\ changed' = [changed EXCEPT ![s] = {}]
    /\ UNCHANGED <<revision, projection, jobs, author>>

-----------------------------------------------------------------------------
Next ==
    \/ \E a \in Authors :
        \/ \E s \in Steps, claims \in Heads : Compose(a, s, claims)
        \/ \E t \in Texts : ReadForInsert(a, t)
        \/ InsertRevision(a)
        \/ \E s \in Steps, n \in Numbers, t \in Texts : OpenPatch(a, s, n, t)
        \/ WritePatch(a)
    \/ \E s \in Steps, n \in Numbers :
        \/ \E expected \in Heads : Accept(s, n, expected)
        \/ Reject(s, n)
    \/ \E s \in Steps : Skip(s)

Spec == Init /\ [][Next]_vars

-----------------------------------------------------------------------------
(* Properties *)

\* Every variable keeps its shape, and rows never appear on a virtual step.
TypeOK ==
    /\ revision \in [Steps -> [Numbers -> RevisionType \cup {Absent}]]
    /\ head \in [Steps -> [accepted : Heads,
                           state : {"missing", "approved", "stale", "skipped"}]]
    /\ projection \in [Steps -> Texts \cup {None}]
    /\ currentStep \in Steps
    /\ jobs \subseteq JobType
    /\ author \in [Authors -> AuthorType]
    /\ changed \in [Steps -> SUBSET Steps]
    /\ \A s \in Virtual : Rows(s) = {} /\ head[s].accepted = 0

\* Numbers are dense and heads name accepted rows: a race for a revision_no
\* loses one request, never leaves a gap, and a head never dangles.
HistoryIsDense ==
    \A s \in Steps :
        /\ \A n \in Rows(s) : \A m \in 1..n : m \in Rows(s)
        /\ head[s].accepted # 0 => revision[s][head[s].accepted].status = "accepted"

\* However decisions interleave, the committed revisions of a step that is
\* never skipped form one line: no two replaced the same head, and the only
\* one still "accepted" is the head.
CommittedLineage ==
    \A s \in Steps \ Optional :
        LET committed == {n \in Rows(s) : revision[s][n].status \in Committed}
        IN  /\ \A m, n \in committed : revision[s][m].base = revision[s][n].base => m = n
            /\ {n \in committed : revision[s][n].status = "accepted"}
                    = {head[s].accepted} \ {0}

\* A decided step is stale exactly when a step it rests on, at any distance,
\* was accepted after it was last decided; the virtual step from the first
\* acceptance it rests on.  (Undecided steps are "missing".)
StalenessIsExact ==
    \A s \in Steps :
        head[s].state = "stale"
            <=> /\ changed[s] \cap UpstreamOf[s] # {}
                /\ head[s].state # "missing" \/ s \in Virtual

\* What generation and the index are given for a step is the text its head was
\* accepted with, even when a patch that was checked before the acceptance lands
\* after it.
ProjectionIsAcceptedText ==
    \A s \in Steps :
        /\ projection[s] = None <=> ~\E j \in jobs : j.step = s
        /\ head[s].accepted # 0 =>
                [step |-> s, no |-> head[s].accepted, text |-> projection[s]] \in jobs

\* Every committed revision is indexed once, and nothing else is.
EveryCommitIsIndexed ==
    /\ \A s \in Steps, n \in Numbers :
            (revision[s][n].status \in Committed)
                <=> (\E j \in jobs : j.step = s /\ j.no = n)
    /\ \A i, j \in jobs : i.step = j.step /\ i.no = j.no => i = j

\* The project's current step is just past the furthest step ever decided, in
\* whatever order the steps are decided and skipped.
CurrentStepIsFurthest ==
    LET decided == {s \in Steps \ Virtual : head[s].state # "missing"}
    IN  /\ \A s \in decided : currentStep > s \/ currentStep = LastStep
        /\ currentStep # 1 => \E s \in decided : s + 1 = currentStep

=============================================================================
