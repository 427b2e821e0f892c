---------------------------- MODULE AnalysisRuns ----------------------------
(***************************************************************************)
(* Analysis runs and the write-back proposals they create: one row per      *)
(* exact input, replayed when it succeeded, replaced by a forced re-run.    *)
(* Requests of authors and of the outbox run concurrently; generation is a  *)
(* slow call that may raise, and nothing holds a transaction around it.     *)
(***************************************************************************)
EXTENDS Integers

CONSTANTS
    Requests,    \* requests and jobs that can be in progress at the same time
    Inputs,      \* input hashes of one source and processor
    Proposals,   \* identities of write-back proposals
    MaxRuns      \* bound: runs recorded per input

ASSUME AnalysisAssumption == MaxRuns \in Nat

VARIABLES
    run,      \* analysis_runs: the row of each input
    writeback, \* writeback_proposals
    request,  \* progress of each request
    disturbed \* history: inputs whose result was replaced by a run that did not know it

analysisVars == <<run, writeback, request, disturbed>>

NoRun == [status |-> "absent", ids |-> {}, version |-> 0]
NoProposal == [status |-> "absent", input |-> {}]
Modes == {"replay", "rerun", "rerun_source"}

FreeRequest == [pc |-> "free", input |-> {}, mode |-> "replay", prior |-> {}, taken |-> {}]

\* Type invariant of rows, proposals and requests.
AnalysisType ==
    /\ run \in [Inputs -> [status: {"absent", "failed", "succeeded"},
                           ids: SUBSET Proposals, version: Nat]]
    /\ writeback \in [Proposals ->
            [status: {"absent", "pending_review", "accepted", "rejected", "superseded"},
             input: Inputs \cup {{}}]]
    /\ request \in [Requests ->
            [pc: {"free", "generating", "failing", "generated", "naming", "storing"},
             input: Inputs \cup {{}}, mode: Modes,
             prior: SUBSET Proposals, taken: SUBSET Proposals]]
    /\ disturbed \subseteq Inputs

-----------------------------------------------------------------------------
(* State predicates *)

Existing == {p \in Proposals : writeback[p].status # "absent"}

PendingOf(i) == {p \in Proposals : /\ writeback[p].status = "pending_review"
                                 /\ writeback[p].input = i}

\* _replay: the run succeeded and all its proposals still resolve.
Replays(i) == run[i].status = "succeeded" /\ run[i].ids \subseteq Existing

AnalysisInit ==
    /\ run = [i \in Inputs |-> NoRun]
    /\ writeback = [p \in Proposals |-> NoProposal]
    /\ request = [r \in Requests |-> FreeRequest]
    /\ disturbed = {}

-----------------------------------------------------------------------------
(* Requests *)

\* Without force an unchanged request is answered from the row; otherwise the
\* generator is called, outside of any transaction.  The extractor of planning
\* records extends a forced run to the pending proposals of all its inputs.
Begin(r, i, mode) ==
    /\ request[r].pc = "free"
    /\ mode # "replay" \/ ~Replays(i)
    /\ run[i].version < MaxRuns
    /\ request' = [request EXCEPT ![r] = [FreeRequest EXCEPT !.pc = "generating",
                                                      !.input = i, !.mode = mode]]
    /\ UNCHANGED <<run, writeback, disturbed>>

\* The generator or the gate on its candidates raises, or candidates are ready.
Generate(r, raises) ==
    /\ request[r].pc = "generating"
    /\ request' = [request EXCEPT ![r].pc = IF raises THEN "failing" ELSE "generated"]
    /\ UNCHANGED <<run, writeback, disturbed>>

\* record: insert the row or replace its result.
Record(r, status, ids) ==
    LET i == request[r].input IN
    /\ run' = [run EXCEPT ![i] = [status |-> status, ids |-> ids, version |-> @.version + 1]]
    /\ disturbed' = IF run[i].ids = request[r].prior THEN disturbed ELSE disturbed \cup {i}

End(r) == request' = [request EXCEPT ![r] = FreeRequest]

\* A failure replaces whatever the row held.
RecordFailure(r) ==
    /\ request[r].pc = "failing"
    /\ Record(r, "failed", {})
    /\ End(r)
    /\ UNCHANGED writeback

\* A forced run reads the prior result on a connection of its own.
ReadPrior(r) ==
    LET i == request[r].input IN
    /\ request[r].pc = "generated"
    /\ request' = [request EXCEPT
            ![r].pc = "naming",
            ![r].prior = IF request[r].mode # "replay" /\ run[i].status = "succeeded" THEN run[i].ids ELSE {}]
    /\ UNCHANGED <<run, writeback, disturbed>>

\* An UPDATE of earlier proposals opens the transaction.
OpensTransaction(r) == request[r].prior # {} \/ request[r].mode = "rerun_source"

\* The ids in use are read; without such an UPDATE no transaction is open yet.
ReadIds(r) ==
    /\ request[r].pc = "naming"
    /\ ~OpensTransaction(r)
    /\ request' = [request EXCEPT ![r].pc = "storing", ![r].taken = Existing]
    /\ UNCHANGED <<run, writeback, disturbed>>

\* Seeded fault: the update of the prior proposals does not look at their status.
SupersedesDecided(r) == request[r].prior

\* Seeded fault: only a run over the whole source supersedes.
SupersedesBySource(r) ==
    {p \in Existing : writeback[p].status = "pending_review" /\ request[r].mode = "rerun_source"}

\* _supersede_prior_proposals, supersede_pending_for_source
Supersedes(r) ==
    {p \in Existing : /\ writeback[p].status = "pending_review"
                      /\ p \in request[r].prior \/ request[r].mode = "rerun_source"}

\* The proposals are inserted and the run is recorded in one transaction.
StoreResult(r, new) ==
    LET i == request[r].input IN
    /\ \/ request[r].pc = "storing"
       \/ request[r].pc = "naming" /\ OpensTransaction(r)
    /\ new \cap Existing = {}
    /\ Record(r, "succeeded", new)
    /\ writeback' = [p \in Proposals |->
            IF p \in new THEN [status |-> "pending_review", input |-> i]
            ELSE IF p \in Supersedes(r) THEN [writeback[p] EXCEPT !.status = "superseded"]
            ELSE writeback[p]]
    /\ End(r)

\* Seeded fault: the run is recorded although its proposals are not inserted.
CollideRecorded(r) ==
    /\ request[r].pc = "storing"
    /\ request[r].taken # Existing
    /\ Record(r, "succeeded", Proposals \ request[r].taken)
    /\ End(r)
    /\ UNCHANGED writeback

\* Another request has inserted one of the ids in the meantime: the insert
\* violates the primary key, the transaction is rolled back, nothing is recorded.
Collide(r) ==
    /\ request[r].pc = "storing"
    /\ request[r].taken # Existing
    /\ End(r)
    /\ UNCHANGED <<run, writeback, disturbed>>

\* Accepting or rejecting; accepting a sibling update supersedes a proposal too.
Review(p, status) ==
    /\ writeback[p].status = "pending_review"
    /\ writeback' = [writeback EXCEPT ![p].status = status]
    /\ UNCHANGED <<run, request, disturbed>>

\* The process dies: requests are gone.
Crash ==
    /\ request' = [r \in Requests |-> FreeRequest]
    /\ UNCHANGED <<run, writeback, disturbed>>

AnalysisNext ==
    \/ \E r \in Requests :
        \/ \E i \in Inputs, mode \in Modes : Begin(r, i, mode)
        \/ \E raises \in BOOLEAN : Generate(r, raises)
        \/ RecordFailure(r) \/ ReadPrior(r) \/ ReadIds(r) \/ Collide(r)
        \/ \E new \in SUBSET Proposals : StoreResult(r, new)
    \/ \E p \in Proposals, status \in {"accepted", "rejected", "superseded"} : Review(p, status)
    \/ Crash

AnalysisSpec == AnalysisInit /\ [][AnalysisNext]_analysisVars

-----------------------------------------------------------------------------
(* Properties *)

\* A succeeded row can be replayed: its proposals exist and came from its input,
\* whatever ran beside it, collided with it or crashed.
ResultsResolve ==
    \A i \in Inputs : run[i].status = "succeeded" =>
        \A p \in run[i].ids : writeback[p].status # "absent" /\ writeback[p].input = i

\* Proposals an input left pending are the ones its row lists, so the next
\* replay returns them and the next forced run supersedes them.  The exceptions
\* are inputs whose result was overwritten by a run that had not read it: two
\* requests at the same time, or a forced run that failed.
PendingIsCurrent ==
    \A i \in Inputs \ disturbed : PendingOf(i) \subseteq run[i].ids

\* A decided proposal never changes again, also when a forced run read it as a
\* prior result before it was decided.
WritebackDecisionsAreFinal ==
    [][\A p \in Proposals :
        writeback[p].status \in {"accepted", "rejected", "superseded"} =>
            writeback'[p] = writeback[p]]_analysisVars

=============================================================================
