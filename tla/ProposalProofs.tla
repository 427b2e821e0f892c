--------------------------- MODULE ProposalProofs ---------------------------
(***************************************************************************)
(* Proofs about the proposals an author reviews: the write-back proposals   *)
(* of AnalysisRuns and the scene proposals of SceneCompile.  The two parts  *)
(* share no state.                                                          *)
(***************************************************************************)
EXTENDS AnalysisRuns, SceneCompile, TLAPS

-----------------------------------------------------------------------------
(* AnalysisRuns, for every set of requests, inputs and proposals: succeeded  *)
(* rows resolve, proposals outlive their row only through an overlap or a    *)
(* failed forced run, and decisions are final.                               *)

\* A request under way works on an input; it reads a prior result after generating.
ProperRequest(q) ==
    /\ q.pc # "free" => q.input \in Inputs
    /\ q.pc \in {"generating", "failing", "generated"} => q.prior = {}

RequestsAreProper == \A r \in Requests : ProperRequest(request[r])

\* The inductive invariant.
AnalysisInv == AnalysisType /\ RequestsAreProper /\ ResultsResolve /\ PendingIsCurrent

-----------------------------------------------------------------------------

\* No request between its reads and its commit changes a stored row.
LEMMA RowsUntouched ==
    ASSUME ResultsResolve, PendingIsCurrent, UNCHANGED <<run, writeback, disturbed>>
    PROVE  ResultsResolve' /\ PendingIsCurrent'
BY DEF ResultsResolve, PendingIsCurrent, PendingOf

\* An empty table resolves.
LEMMA AnalysisInitGood == AnalysisInit => AnalysisInv
BY DEF AnalysisInit, AnalysisInv, AnalysisType, RequestsAreProper, ProperRequest, NoRun, NoProposal, FreeRequest, Modes, ResultsResolve, PendingIsCurrent, PendingOf

\* Recording a result keeps the types of rows and history.
LEMMA RecordType ==
    ASSUME AnalysisType, NEW r \in Requests, request[r].input \in Inputs,
           NEW status \in {"failed", "succeeded"}, NEW ids \in SUBSET Proposals,
           Record(r, status, ids)
    PROVE  /\ run' \in [Inputs -> [status: {"absent", "failed", "succeeded"},
                                   ids: SUBSET Proposals, version: Nat]]
           /\ disturbed' \subseteq Inputs
<1> DEFINE i == request[r].input
           new == [status |-> status, ids |-> ids, version |-> run[i].version + 1]
<1>1. new \in [status: {"absent", "failed", "succeeded"}, ids: SUBSET Proposals, version: Nat]
      BY DEF AnalysisType
<1>2. run' = [run EXCEPT ![i] = new] /\ disturbed' \subseteq disturbed \cup {i}
      BY DEF Record
<1> QED
    BY <1>1, <1>2 DEF AnalysisType

\* The rows of requests, as AnalysisType has them.
RequestRows ==
    [pc: {"free", "generating", "failing", "generated", "naming", "storing"},
     input: Inputs \cup {{}}, mode: Modes,
     prior: SUBSET Proposals, taken: SUBSET Proposals]

\* A step that leaves the tables alone and gives one request a proper new state.
LEMMA OneRequestMoves ==
    ASSUME AnalysisInv, UNCHANGED <<run, writeback, disturbed>>,
           NEW r \in Requests, NEW q \in RequestRows, ProperRequest(q),
           request' = [request EXCEPT ![r] = q]
    PROVE  AnalysisInv'
<1>1. ResultsResolve' /\ PendingIsCurrent'
      BY RowsUntouched DEF AnalysisInv
<1>2. AnalysisType'
      BY DEF AnalysisInv, AnalysisType, RequestRows
<1>3. RequestsAreProper'
      BY DEF AnalysisInv, AnalysisType, RequestsAreProper
<1> QED
    BY <1>1, <1>2, <1>3 DEF AnalysisInv

\* A free request is a request.
LEMMA FreeType == FreeRequest \in RequestRows /\ ProperRequest(FreeRequest)
BY DEF FreeRequest, RequestRows, Modes, ProperRequest

\* Steps of a request before it commits, and the death of the process.
LEMMA RequestInv ==
    ASSUME AnalysisInv,
           \/ \E r \in Requests :
                \/ \E i \in Inputs, mode \in Modes : Begin(r, i, mode)
                \/ \E raises \in BOOLEAN : Generate(r, raises)
                \/ ReadPrior(r) \/ ReadIds(r) \/ Collide(r)
           \/ Crash
    PROVE  AnalysisInv'
<1>1. \A r \in Requests : request[r] \in RequestRows
      BY DEF AnalysisInv, AnalysisType, RequestRows
<1>2. \A r \in Requests : ProperRequest(request[r])
      BY DEF AnalysisInv, RequestsAreProper
<1>3. ASSUME NEW r \in Requests, NEW i \in Inputs, NEW mode \in Modes, Begin(r, i, mode)
      PROVE  AnalysisInv'
  <2> DEFINE q == [FreeRequest EXCEPT !.pc = "generating", !.input = i, !.mode = mode]
  <2>1. q \in RequestRows /\ ProperRequest(q)
        BY DEF RequestRows, FreeRequest, ProperRequest
  <2>2. request' = [request EXCEPT ![r] = q] /\ UNCHANGED <<run, writeback, disturbed>>
        BY <1>3 DEF Begin
  <2> HIDE DEF q
  <2> QED BY <2>1, <2>2, OneRequestMoves
<1>4. ASSUME NEW r \in Requests, NEW raises \in BOOLEAN, Generate(r, raises)
      PROVE  AnalysisInv'
  <2> DEFINE q == [request[r] EXCEPT !.pc = IF raises THEN "failing" ELSE "generated"]
  <2>1. q \in RequestRows /\ ProperRequest(q)
        BY <1>1, <1>2, <1>4 DEF RequestRows, Generate, ProperRequest
  <2>2. request' = [request EXCEPT ![r] = q] /\ UNCHANGED <<run, writeback, disturbed>>
        BY <1>4 DEF Generate
  <2> HIDE DEF q
  <2> QED BY <2>1, <2>2, OneRequestMoves
<1>5. ASSUME NEW r \in Requests, ReadPrior(r)
      PROVE  AnalysisInv'
  <2> DEFINE ids == IF request[r].mode # "replay" /\ run[request[r].input].status = "succeeded"
                    THEN run[request[r].input].ids ELSE {}
             q == [request[r] EXCEPT !.pc = "naming", !.prior = ids]
  <2>1. request[r].input \in Inputs
        BY <1>2, <1>5 DEF ReadPrior, ProperRequest
  <2>2. ids \subseteq Proposals
        BY <2>1 DEF AnalysisInv, AnalysisType
  <2>3. request' = [request EXCEPT ![r] = q] /\ UNCHANGED <<run, writeback, disturbed>>
        BY <1>5 DEF ReadPrior
  <2> HIDE DEF ids
  <2>4. q \in RequestRows /\ ProperRequest(q)
        BY <1>1, <2>1, <2>2 DEF RequestRows, ProperRequest
  <2> HIDE DEF q
  <2> QED BY <2>3, <2>4, OneRequestMoves
<1>6. ASSUME NEW r \in Requests, ReadIds(r)
      PROVE  AnalysisInv'
  <2> DEFINE q == [request[r] EXCEPT !.pc = "storing", !.taken = Existing]
  <2>1. Existing \subseteq Proposals
        BY DEF Existing
  <2>2. q \in RequestRows /\ ProperRequest(q)
        BY <1>1, <1>2, <1>6, <2>1 DEF RequestRows, ReadIds, ProperRequest
  <2>3. request' = [request EXCEPT ![r] = q] /\ UNCHANGED <<run, writeback, disturbed>>
        BY <1>6 DEF ReadIds
  <2> HIDE DEF q
  <2> QED BY <2>2, <2>3, OneRequestMoves
<1>7. ASSUME NEW r \in Requests, Collide(r)
      PROVE  AnalysisInv'
      BY <1>7, FreeType, OneRequestMoves DEF Collide, End
<1>8. CASE Crash
  <2>1. /\ request' = [r \in Requests |-> FreeRequest]
        /\ UNCHANGED <<run, writeback, disturbed>>
        BY <1>8 DEF Crash
  <2>2. ResultsResolve' /\ PendingIsCurrent'
        BY <2>1, RowsUntouched DEF AnalysisInv
  <2> QED BY <2>1, <2>2, FreeType DEF AnalysisInv, AnalysisType, RequestRows, RequestsAreProper
<1> QED
    BY <1>3, <1>4, <1>5, <1>6, <1>7, <1>8

\* A recorded failure lists no proposals, and says so where it forgets some.
LEMMA FailureInv ==
    ASSUME AnalysisInv, NEW r \in Requests, RecordFailure(r)
    PROVE  AnalysisInv'
<1> PICK i \in Inputs : i = request[r].input
    BY DEF RecordFailure, AnalysisInv, RequestsAreProper, ProperRequest
<1>1. /\ Record(r, "failed", {})
      /\ request' = [request EXCEPT ![r] = FreeRequest]
      /\ UNCHANGED writeback
      /\ request[r].prior = {}
      BY DEF RecordFailure, End, AnalysisInv, RequestsAreProper, ProperRequest
<1>2. /\ run'[i].status = "failed"
      /\ \A k \in Inputs : k # i => run'[k] = run[k]
      /\ disturbed \subseteq disturbed'
      /\ i \notin disturbed' => run[i].ids = {}
      BY <1>1 DEF Record, AnalysisInv, AnalysisType
<1>3. AnalysisType'
      BY <1>1, RecordType, FreeType DEF AnalysisInv, AnalysisType, RequestRows
<1>4. RequestsAreProper'
      BY <1>1, FreeType DEF AnalysisInv, AnalysisType, RequestsAreProper
<1>5. ResultsResolve'
      BY <1>1, <1>2 DEF AnalysisInv, ResultsResolve
<1>6. PendingIsCurrent'
  <2> SUFFICES ASSUME NEW k \in Inputs, k \notin disturbed'
               PROVE  PendingOf(k)' \subseteq run'[k].ids
      BY DEF PendingIsCurrent
  <2>1. PendingOf(k)' = PendingOf(k) /\ PendingOf(k) \subseteq run[k].ids
        BY <1>1, <1>2 DEF PendingOf, AnalysisInv, PendingIsCurrent
  <2> QED BY <1>2, <2>1
<1> QED
    BY <1>3, <1>4, <1>5, <1>6 DEF AnalysisInv

\* A stored result lists exactly what it created, and supersedes what it had read.
LEMMA StoreInv ==
    ASSUME AnalysisInv, NEW r \in Requests, NEW new \in SUBSET Proposals, StoreResult(r, new)
    PROVE  AnalysisInv'
<1> PICK i \in Inputs : i = request[r].input
    BY DEF StoreResult, AnalysisInv, RequestsAreProper, ProperRequest
<1>1. /\ new \cap Existing = {}
      /\ Record(r, "succeeded", new)
      /\ request' = [request EXCEPT ![r] = FreeRequest]
      /\ writeback' = [p \in Proposals |->
            IF p \in new THEN [status |-> "pending_review", input |-> i]
            ELSE IF p \in Supersedes(r) THEN [writeback[p] EXCEPT !.status = "superseded"]
            ELSE writeback[p]]
      BY DEF StoreResult, End
<1>2. /\ run'[i].status = "succeeded" /\ run'[i].ids = new
      /\ \A k \in Inputs : k # i => run'[k] = run[k]
      /\ disturbed \subseteq disturbed'
      /\ i \notin disturbed' => run[i].ids = request[r].prior
      BY <1>1 DEF Record, AnalysisInv, AnalysisType
<1>3. \A p \in new : writeback'[p].status = "pending_review" /\ writeback'[p].input = i
      BY <1>1
<1>4. \A p \in Supersedes(r) \ new :
        writeback'[p].status = "superseded" /\ writeback'[p].input = writeback[p].input
      BY <1>1 DEF Supersedes, Existing, AnalysisInv, AnalysisType
<1>5. \A p \in Proposals \ (new \cup Supersedes(r)) : writeback'[p] = writeback[p]
      BY <1>1
<1>6. AnalysisType'
  <2>1. \A p \in Proposals : writeback'[p] \in
            [status: {"absent", "pending_review", "accepted", "rejected", "superseded"},
             input: Inputs \cup {{}}]
        BY <1>1 DEF AnalysisInv, AnalysisType
  <2>2. writeback' \in [Proposals ->
            [status: {"absent", "pending_review", "accepted", "rejected", "superseded"},
             input: Inputs \cup {{}}]]
        BY <1>1, <2>1
  <2> QED BY <1>1, <2>2, RecordType, FreeType DEF AnalysisInv, AnalysisType, RequestRows
<1>7. RequestsAreProper'
      BY <1>1, FreeType DEF AnalysisInv, AnalysisType, RequestsAreProper
<1>8. ResultsResolve'
  <2> SUFFICES ASSUME NEW k \in Inputs, run'[k].status = "succeeded", NEW p \in run'[k].ids
               PROVE  writeback'[p].status # "absent" /\ writeback'[p].input = k
      BY DEF ResultsResolve
  <2>1. CASE k = i
        BY <1>2, <1>3, <2>1
  <2>2. CASE k # i
    <3>1. p \in Proposals /\ writeback[p].status # "absent" /\ writeback[p].input = k
          BY <1>2, <2>2 DEF AnalysisInv, AnalysisType, ResultsResolve
    <3>2. p \notin new
          BY <1>1, <3>1 DEF Existing
    <3> QED BY <1>4, <1>5, <3>1, <3>2
  <2> QED BY <2>1, <2>2
<1>9. PendingIsCurrent'
  <2> SUFFICES ASSUME NEW k \in Inputs, k \notin disturbed',
                      NEW p \in Proposals, writeback'[p].status = "pending_review",
                      writeback'[p].input = k
               PROVE  p \in run'[k].ids
      BY DEF PendingIsCurrent, PendingOf
  <2>1. CASE p \in new
        BY <1>2, <1>3, <2>1
  <2>2. CASE p \notin new
    <3>1. p \notin Supersedes(r) /\ writeback'[p] = writeback[p]
          BY <1>4, <1>5, <2>2
    <3>2. p \in run[k].ids
          BY <1>2, <3>1 DEF AnalysisInv, PendingIsCurrent, PendingOf
    <3>3. k # i
          BY <1>2, <3>1, <3>2 DEF Supersedes, Existing
    <3> QED BY <1>2, <3>2, <3>3
  <2> QED BY <2>1, <2>2
<1> QED
    BY <1>6, <1>7, <1>8, <1>9 DEF AnalysisInv

\* A review takes a proposal out of the pending ones and touches no row.
LEMMA ReviewInv ==
    ASSUME AnalysisInv, NEW p \in Proposals, NEW status \in {"accepted", "rejected", "superseded"},
           Review(p, status)
    PROVE  AnalysisInv'
<1>1. /\ writeback' = [writeback EXCEPT ![p].status = status]
      /\ UNCHANGED <<run, request, disturbed>>
      BY DEF Review
<1>2. \A k \in Proposals : /\ writeback'[k].input = writeback[k].input
                           /\ writeback'[k].status = IF k = p THEN status ELSE writeback[k].status
      BY <1>1 DEF AnalysisInv, AnalysisType
<1>3. AnalysisType'
      BY <1>1 DEF AnalysisInv, AnalysisType
<1>4. RequestsAreProper'
      BY <1>1 DEF AnalysisInv, RequestsAreProper
<1>5. ResultsResolve'
      BY <1>1, <1>2 DEF AnalysisInv, AnalysisType, ResultsResolve
<1>6. PendingIsCurrent'
  <2>1. \A k \in Inputs : PendingOf(k)' \subseteq PendingOf(k)
        BY <1>2 DEF PendingOf
  <2> QED BY <1>1, <2>1 DEF AnalysisInv, PendingIsCurrent
<1> QED
    BY <1>3, <1>4, <1>5, <1>6 DEF AnalysisInv

\* Every step keeps the inductive invariant.
LEMMA AnalysisNextGood == AnalysisInv /\ [AnalysisNext]_analysisVars => AnalysisInv'
<1> SUFFICES ASSUME AnalysisInv, [AnalysisNext]_analysisVars
             PROVE  AnalysisInv'
    OBVIOUS
<1>1. CASE UNCHANGED analysisVars
  <2>1. UNCHANGED <<run, writeback, disturbed>> /\ UNCHANGED request
        BY <1>1 DEF analysisVars
  <2>2. ResultsResolve' /\ PendingIsCurrent'
        BY <2>1, RowsUntouched DEF AnalysisInv
  <2> QED BY <2>1, <2>2 DEF AnalysisInv, AnalysisType, RequestsAreProper
<1>2. CASE AnalysisNext
      BY <1>2, RequestInv, FailureInv, StoreInv, ReviewInv DEF AnalysisNext
<1> QED
    BY <1>1, <1>2

-----------------------------------------------------------------------------
(* Theorems of the specification *)

\* The inductive invariant holds in every reachable state.
THEOREM AnalysisInvariance == AnalysisSpec => []AnalysisInv
<1>1. AnalysisInit => AnalysisInv
      BY AnalysisInitGood
<1>2. AnalysisInv /\ [AnalysisNext]_analysisVars => AnalysisInv'
      BY AnalysisNextGood
<1> QED
    BY <1>1, <1>2, PTL DEF AnalysisSpec

\* Rows, proposals and requests keep their types.
THEOREM AnalysisTypeCorrect == AnalysisSpec => []AnalysisType
<1>1. AnalysisInv => AnalysisType
      BY DEF AnalysisInv
<1> QED
    BY <1>1, AnalysisInvariance, PTL

\* AnalysisService._replay of a succeeded run finds every proposal it lists,
\* and finds it filed under the run's own input.
THEOREM RowsResolve == AnalysisSpec => []ResultsResolve
<1>1. AnalysisInv => ResultsResolve
      BY DEF AnalysisInv
<1> QED
    BY <1>1, AnalysisInvariance, PTL

\* A pending proposal its input's row does not list comes from a run that
\* replaced a result it had not read, and from nothing else.
THEOREM LeftoversAreExplained == AnalysisSpec => []PendingIsCurrent
<1>1. AnalysisInv => PendingIsCurrent
      BY DEF AnalysisInv
<1> QED
    BY <1>1, AnalysisInvariance, PTL

\* create_writeback_batch and the supersession of a forced run test the status
\* at the moment of their UPDATE, so no decision is ever changed.
THEOREM DecisionsStayFinal == AnalysisSpec => WritebackDecisionsAreFinal
<1> DEFINE Final == \A p \in Proposals :
        writeback[p].status \in {"accepted", "rejected", "superseded"} =>
            writeback'[p] = writeback[p]
<1>1. AnalysisType /\ [AnalysisNext]_analysisVars => [Final]_analysisVars
  <2> SUFFICES ASSUME AnalysisType, AnalysisNext
               PROVE  Final
      OBVIOUS
  <2>1. ASSUME NEW r \in Requests, NEW new \in SUBSET Proposals, StoreResult(r, new)
        PROVE  Final
        BY <2>1 DEF StoreResult, Existing, Supersedes
  <2>2. ASSUME NEW q \in Proposals, NEW status \in {"accepted", "rejected", "superseded"},
               Review(q, status)
        PROVE  Final
        BY <2>2 DEF Review, AnalysisType
  <2>3. CASE UNCHANGED writeback
        BY <2>3
  <2>4. \/ UNCHANGED writeback
        \/ \E r \in Requests, new \in SUBSET Proposals : StoreResult(r, new)
        \/ \E q \in Proposals, status \in {"accepted", "rejected", "superseded"} : Review(q, status)
        BY DEF AnalysisNext, Begin, Generate, RecordFailure, ReadPrior, ReadIds, Collide, Crash
  <2> QED BY <2>1, <2>2, <2>3, <2>4
<1> QED
    BY <1>1, AnalysisTypeCorrect, PTL DEF AnalysisSpec, WritebackDecisionsAreFinal

-----------------------------------------------------------------------------
(* SceneCompile, for every set of records, scenes and parses and every bound. *)
(* The position of a record is fixed by its revision, a record has one scene, *)
(* and what a pending proposal was compared with is still there, or is older  *)
(* than what replaced it.                                                     *)

\* A revision and position read from the head of a record: a record has one
\* position at each of its accepted revisions.
Fits(r, revision, position) ==
    /\ revision <= accepted[r].revision
    /\ revision = accepted[r].revision => position = accepted[r].position

Carries(s, r) == Exists(s) /\ scene[s].record = r

\* Where a proposal stands: its target still has the plan it was compared with,
\* or a later version of it, or a plan at least as new as the proposal.
Compared(c, s) ==
    /\ c.compared \in Planned
    /\ c.compared.record = c.record
    /\ Carries(s, c.record) =>
        \/ scene[s] = c.compared
        \/ scene[s].version > c.compared.version
        \/ scene[s].revision >= c.revision

Stands(c) ==
    /\ Fits(c.record, c.revision, c.sequence)
    /\ \A s \in c.target : Compared(c, s)

\* A record has one scene, which is not ahead of its head.
RecordsHaveOneScene ==
    \A s, t \in Scenes :
        (Exists(s) /\ Exists(t) /\ scene[s].record = scene[t].record /\ scene[s].record # NoRecord)
            => s = t

Sourced(plan) ==
    IF plan.record = NoRecord THEN plan.revision = 0
    ELSE plan.revision <= accepted[plan.record].revision

ScenesAreSourced == \A s \in Scenes : Exists(s) => Sourced(scene[s])

ProposalsStand == \A p \in Pending : Stands(proposal[p])

ParsesStand ==
    \A q \in Parses :
        /\ \A r \in Records : Fits(r, parse[q].records[r].revision, parse[q].records[r].position)
        /\ \A c \in parse[q].creates : Stands(c)

\* The inductive invariant.
SceneInv ==
    /\ TypeOK
    /\ RecordsHaveOneScene
    /\ ScenesAreSourced
    /\ ProposalsStand
    /\ ParsesStand
    /\ BatchApplies

-----------------------------------------------------------------------------

\* A pending proposal has all the fields of one.
LEMMA PendingRows ==
    ASSUME TypeOK, NEW p \in Pending
    PROVE  /\ p \in Ids /\ proposal[p] \in Proposed /\ proposal[p].status = "pending_review"
           /\ proposal[p].record \in Records /\ proposal[p].record # NoRecord
           /\ proposal[p].revision \in Nat \ {0} /\ proposal[p].sequence \in Positions
           /\ proposal[p].target \subseteq Scenes
<1>1. p \in Ids /\ proposal[p].status = "pending_review"
      BY DEF Pending
<1>2. proposal[p] \in {Absent} \cup Decided \cup Proposed
      BY <1>1 DEF TypeOK
<1>3. proposal[p] \in Proposed
      BY <1>1, <1>2 DEF Absent, Decided
<1> QED
    BY <1>1, <1>3, SceneCompileAssumption DEF Proposed

\* A planned scene is no absent one, and has its fields.
LEMMA PlannedRows ==
    /\ \A plan \in Planned : plan # NoScene
    /\ TypeOK => \A s \in Scenes : Exists(s) => scene[s] \in Planned
<1>1. \A plan \in Planned : plan # NoScene
      BY DEF Planned, NoScene
<1>2. TypeOK => \A s \in Scenes : Exists(s) => scene[s] \in Planned
      BY DEF TypeOK, SceneTypes, Exists
<1> QED
    BY <1>1, <1>2

\* Accepted heads: revisions are numbers, and positions are positive.
LEMMA HeadRows ==
    ASSUME TypeOK, NEW r \in Records
    PROVE  /\ accepted[r] \in Heads /\ accepted[r].revision \in Nat
           /\ accepted[r] # Unaccepted => accepted[r].position \in Positions /\ accepted[r].revision # 0
<1>1. accepted[r] \in Heads
      BY DEF TypeOK, AcceptedType
<1> QED
    BY <1>1 DEF Heads, Unaccepted

\* The empty store satisfies the invariant.
LEMMA SceneInitGood == Init => SceneInv
<1> SUFFICES ASSUME Init PROVE SceneInv
    OBVIOUS
<1>1. AcceptedType /\ Unaccepted \in Heads
      BY DEF Init, AcceptedInit, AcceptedType, Heads
<1>2. Idle \in [pc : {"idle", "records", "linked", "stale"}, records : [Records -> Heads],
                creates : SUBSET Proposed, stale : SUBSET Ids]
      BY <1>1 DEF Idle
<1>3. 0 \in 0..MaxEdits
      BY SceneCompileAssumption
<1>4. TypeOK
      BY <1>1, <1>2, <1>3 DEF Init, TypeOK, SceneTypes
<1>5. RecordsHaveOneScene /\ ScenesAreSourced
      BY DEF Init, RecordsHaveOneScene, ScenesAreSourced, Exists
<1>6. Pending = {}
      BY DEF Init, Pending, Absent
<1>7. ParsesStand
      <2> SUFFICES ASSUME NEW q \in Parses
                   PROVE  /\ \A r \in Records : Fits(r, parse[q].records[r].revision, parse[q].records[r].position)
                          /\ \A c \in parse[q].creates : Stands(c)
          BY DEF ParsesStand
      <2>1. parse[q].records = [r \in Records |-> Unaccepted] /\ parse[q].creates = {}
            BY DEF Init, Idle
      <2> QED
          BY <2>1 DEF Init, AcceptedInit, Unaccepted, Fits
<1> QED
    BY <1>4, <1>5, <1>6, <1>7 DEF SceneInv, ProposalsStand, BatchApplies, Init

-----------------------------------------------------------------------------
(* What a step does to the proposals that are already there *)

\* What a step makes of a scene: nothing, no scene, a later version that is not
\* older, a scene at the head of its record, or one without a record.
Advances(s) ==
    \/ scene'[s] = scene[s]
    \/ scene'[s] = NoScene
    \/ scene'[s] \in Planned /\ scene'[s].record = NoRecord
    \/ /\ scene'[s] \in Planned /\ scene'[s].record \in Records
       /\ scene'[s].revision = accepted[scene'[s].record].revision
    \/ /\ scene'[s] \in Planned /\ Exists(s) /\ scene'[s].record = scene[s].record
       /\ scene'[s].revision = scene[s].revision /\ scene'[s].version = scene[s].version + 1

\* A proposal stands as long as scenes advance.
LEMMA StandsBesideScenes ==
    ASSUME TypeOK, UNCHANGED accepted, \A s \in Scenes : Advances(s),
           NEW c \in Proposed, Stands(c)
    PROVE  Stands(c)'
<1>1. c.record \in Records /\ c.revision \in Nat /\ c.target \subseteq Scenes
      BY DEF Proposed
<1>2. Fits(c.record, c.revision, c.sequence)'
      BY DEF Stands, Fits
<1>3. ASSUME NEW s \in c.target, Carries(s, c.record)'
      PROVE  \/ scene'[s] = c.compared
             \/ scene'[s].version > c.compared.version
             \/ scene'[s].revision >= c.revision
      <2>1. s \in Scenes /\ c.compared \in Planned /\ c.compared.version \in Nat
            BY <1>1, <1>3 DEF Stands, Compared, Planned
      <2>2. scene'[s] # NoScene /\ scene'[s].record = c.record
            BY <1>3 DEF Carries, Exists
      <2>3. CASE scene'[s] = scene[s]
            BY <2>2, <2>3, <1>3 DEF Stands, Compared, Carries, Exists
      <2>4. CASE scene'[s] \in Planned /\ scene'[s].record = NoRecord
            BY <2>2, <2>4, <1>1, SceneCompileAssumption
      <2>5. CASE /\ scene'[s] \in Planned /\ scene'[s].record \in Records
                 /\ scene'[s].revision = accepted[scene'[s].record].revision
            <3>1. accepted[c.record].revision \in Nat
                  BY <1>1, HeadRows
            <3> QED
                BY <2>2, <2>5, <1>1, <3>1 DEF Stands, Fits
      <2>6. CASE /\ scene'[s] \in Planned /\ Exists(s) /\ scene'[s].record = scene[s].record
                 /\ scene'[s].revision = scene[s].revision /\ scene'[s].version = scene[s].version + 1
            <3>1. scene[s].version \in Nat
                  BY <2>1, <2>6, PlannedRows DEF Planned
            <3>2. \/ scene[s] = c.compared
                  \/ scene[s].version > c.compared.version
                  \/ scene[s].revision >= c.revision
                  BY <2>2, <2>6, <1>3 DEF Stands, Compared, Carries
            <3> QED
                BY <2>1, <2>6, <3>1, <3>2
      <2> QED
          BY <2>1, <2>2, <2>3, <2>4, <2>5, <2>6 DEF Advances
<1>4. \A s \in c.target : Compared(c, s)'
      BY <1>3 DEF Stands, Compared
<1> QED
    BY <1>2, <1>4 DEF Stands

\* A new head of a record leaves every reading of an older one behind.
LEMMA FitsBesideCommits ==
    ASSUME TypeOK, NEW r \in Records, NEW n \in Nat, NEW position \in Positions, Commit(r, n, position),
           NEW o \in Records, NEW revision \in Nat, NEW at, Fits(o, revision, at)
    PROVE  Fits(o, revision, at)'
<1>1. accepted[o].revision \in Nat /\ accepted \in [Records -> Heads]
      BY HeadRows DEF TypeOK, AcceptedType
<1>2. CASE o = r
      BY <1>1, <1>2 DEF Fits, Commit
<1>3. CASE o # r
      BY <1>1, <1>3 DEF Fits, Commit
<1> QED
    BY <1>2, <1>3

\* A proposal stands when the head of a record moves on.
LEMMA StandsBesideCommits ==
    ASSUME TypeOK, NEW r \in Records, NEW n \in Nat, NEW position \in Positions,
           Commit(r, n, position), UNCHANGED scene,
           NEW c \in Proposed, Stands(c)
    PROVE  Stands(c)'
<1>1. c.record \in Records /\ c.revision \in Nat
      BY DEF Proposed
<1>2. Fits(c.record, c.revision, c.sequence)'
      BY <1>1, FitsBesideCommits DEF Stands
<1>3. \A s \in c.target : Compared(c, s)'
      BY DEF Stands, Compared, Carries, Exists
<1> QED
    BY <1>2, <1>3 DEF Stands

\* Pending proposals stand after a step that makes none.
LEMMA ReadingsStand ==
    ASSUME SceneInv, TypeOK',
           \A c \in Proposed : Stands(c) => Stands(c)',
           \A p \in Ids : proposal'[p] = proposal[p] \/ proposal'[p].status # "pending_review"
    PROVE  ProposalsStand'
<1> SUFFICES ASSUME NEW p \in Pending' PROVE Stands(proposal[p])'
    BY DEF ProposalsStand
<1>1. p \in Ids /\ proposal'[p].status = "pending_review"
      BY DEF Pending
<1>2. proposal'[p] = proposal[p] /\ p \in Pending
      BY <1>1 DEF Pending
<1>3. PICK c \in Proposed : c = proposal[p]
      BY <1>2, PendingRows DEF SceneInv
<1>4. Stands(c)'
      BY <1>2, <1>3 DEF SceneInv, ProposalsStand
<1> QED
    BY <1>2, <1>3, <1>4 DEF Stands, Compared, Carries, Fits, Exists

\* What the parses hold stands, when a step leaves them alone.
LEMMA ParsesStay ==
    ASSUME SceneInv, UNCHANGED parse,
           \A c \in Proposed : Stands(c) => Stands(c)',
           \A o \in Records : \A revision \in Nat : \A at :
               Fits(o, revision, at) => Fits(o, revision, at)'
    PROVE  ParsesStand'
<1> SUFFICES ASSUME NEW q \in Parses
             PROVE  /\ \A r \in Records : Fits(r, parse[q].records[r].revision, parse[q].records[r].position)'
                    /\ \A c \in parse'[q].creates : Stands(c)'
    BY DEF ParsesStand
<1>1. parse[q].creates \subseteq Proposed /\ parse[q].records \in [Records -> Heads]
      BY DEF SceneInv, TypeOK
<1>2. \A c \in parse'[q].creates : Stands(c)'
      BY <1>1 DEF SceneInv, ParsesStand
<1>3. ASSUME NEW r \in Records
      PROVE  Fits(r, parse[q].records[r].revision, parse[q].records[r].position)'
      <2>1. parse[q].records[r].revision \in Nat
            BY <1>1 DEF Heads, Unaccepted
      <2>2. Fits(r, parse[q].records[r].revision, parse[q].records[r].position)
            BY DEF SceneInv, ParsesStand
      <2> QED
          BY <2>1, <2>2 DEF Fits
<1> QED
    BY <1>2, <1>3

-----------------------------------------------------------------------------
(* Parses *)

ParseRows == [pc : {"idle", "records", "linked", "stale"}, records : [Records -> Heads],
              creates : SUBSET Proposed, stale : SUBSET Ids]

\* What a parse holds stands.
Holds(row) ==
    /\ \A r \in Records : Fits(r, row.records[r].revision, row.records[r].position)
    /\ \A c \in row.creates : Stands(c)

\* An idle parse holds nothing.
LEMMA IdleHolds == TypeOK => Idle \in ParseRows /\ Holds(Idle)
<1> SUFFICES ASSUME TypeOK PROVE Idle \in ParseRows /\ Holds(Idle)
    OBVIOUS
<1>1. Unaccepted \in Heads
      BY DEF Heads
<1>2. Idle \in ParseRows
      BY <1>1 DEF Idle, ParseRows
<1>3. \A r \in Records : Fits(r, 0, 0)
      <2> SUFFICES ASSUME NEW r \in Records PROVE Fits(r, 0, 0)
          OBVIOUS
      <2>1. accepted[r] \in Heads
            BY HeadRows
      <2> QED
          BY <2>1 DEF Heads, Unaccepted, Fits
<1> QED
    BY <1>2, <1>3 DEF Idle, Holds, Unaccepted

\* A step of a parse that stores nothing.
LEMMA OneParseMoves ==
    ASSUME SceneInv, NEW q \in Parses, NEW row \in ParseRows, Holds(row),
           parse' = [parse EXCEPT ![q] = row],
           UNCHANGED <<accepted, scene, proposal, edits, failed>>
    PROVE  SceneInv'
<1>1. TypeOK'
      BY DEF SceneInv, TypeOK, AcceptedType, ParseRows
<1>2. \A o \in Parses : parse'[o] = IF o = q THEN row ELSE parse[o]
      BY DEF SceneInv, TypeOK
<1>3. ParsesStand'
      BY <1>2 DEF SceneInv, ParsesStand, Holds, Fits, Stands, Compared, Carries, Exists
<1>4. RecordsHaveOneScene' /\ ScenesAreSourced' /\ BatchApplies'
      BY DEF SceneInv, RecordsHaveOneScene, ScenesAreSourced, BatchApplies, Sourced, Exists
<1>5. ProposalsStand'
      BY DEF SceneInv, ProposalsStand, Pending, Stands, Compared, Carries, Fits, Exists
<1> QED
    BY <1>1, <1>3, <1>4, <1>5 DEF SceneInv

\* A proposal of a record with a linked scene takes that scene and its plan.
LEMMA TargetedStands ==
    ASSUME SceneInv, NEW r \in Records, NEW head \in Heads, head # Unaccepted,
           Fits(r, head.revision, head.position),
           \A s \in Linked(r) : scene[s].revision # head.revision
    PROVE  Targeted(SceneOf(r, head)) \in Proposed /\ Stands(Targeted(SceneOf(r, head)))
<1> DEFINE c == Targeted(SceneOf(r, head))
           plan == IF Linked(r) = {} THEN NoScene ELSE scene[CHOOSE s \in Linked(r) : TRUE]
<1>1. c = [status |-> "pending_review", record |-> r, revision |-> head.revision,
           sequence |-> head.position, target |-> Linked(r), compared |-> plan]
      <2> DEFINE base == SceneOf(r, head)
      <2>1. base.record = r
            BY DEF SceneOf
      <2>2. c = [base EXCEPT !.target = Linked(r), !.compared = plan]
            BY <2>1 DEF Targeted
      <2> HIDE DEF c, plan
      <2> QED
          BY <2>2 DEF SceneOf
<1>2. head.revision \in Nat \ {0} /\ head.position \in Positions
      BY DEF Heads, Unaccepted
<1>3. \A s \in Linked(r) : s \in Scenes /\ Exists(s) /\ scene[s].record = r /\ plan = scene[s]
      <2> SUFFICES ASSUME NEW s \in Linked(r)
                   PROVE  s \in Scenes /\ Exists(s) /\ scene[s].record = r /\ plan = scene[s]
          OBVIOUS
      <2>1. s \in Scenes /\ Exists(s) /\ scene[s].record = r
            BY DEF Linked
      <2>2. (CHOOSE t \in Linked(r) : TRUE) \in Linked(r)
            OBVIOUS
      <2>3. (CHOOSE t \in Linked(r) : TRUE) = s
            BY <2>1, <2>2, SceneCompileAssumption DEF SceneInv, RecordsHaveOneScene, Linked
      <2> QED
          BY <2>1, <2>3
<1>4. \A s \in Linked(r) : scene[s] \in Planned
      BY <1>3, PlannedRows DEF SceneInv
<1>5. plan \in SceneTypes
      BY <1>3, <1>4 DEF SceneTypes
<1>6. c \in Proposed
      BY <1>1, <1>2, <1>3, <1>5 DEF Proposed
<1>7. c.record = r /\ c.revision = head.revision /\ c.sequence = head.position
      /\ c.target = Linked(r) /\ c.compared = plan
      BY <1>1
<1> HIDE DEF c, plan
<1>8. \A s \in c.target : Compared(c, s)
      BY <1>3, <1>4, <1>7 DEF Compared
<1>9. Stands(c)
      BY <1>7, <1>8 DEF Stands
<1> QED
    BY <1>6, <1>9 DEF c

\* The steps of a parse before it stores.
LEMMA ParseKeeps ==
    ASSUME SceneInv, NEW q \in Parses,
           ReadRecords(q) \/ ReadLinked(q) \/ SelectStale(q) \/ Abandon(q)
    PROVE  SceneInv'
<1>1. parse[q] \in ParseRows /\ Holds(parse[q]) /\ TypeOK
      BY DEF SceneInv, TypeOK, ParseRows, ParsesStand, Holds
<1>2. Idle \in ParseRows /\ Holds(Idle)
      BY <1>1, IdleHolds
<1>3. CASE ReadRecords(q)
      <2> DEFINE row == [parse[q] EXCEPT !.pc = "records", !.records = accepted]
      <2>1. parse' = [parse EXCEPT ![q] = row]
            BY <1>3 DEF ReadRecords, SceneInv, TypeOK
      <2>2. row \in ParseRows
            BY <1>1 DEF ParseRows, TypeOK, AcceptedType
      <2>3. row.records = accepted /\ row.creates = parse[q].creates
            BY <1>1 DEF ParseRows
      <2>4. \A r \in Records : accepted[r].revision \in Nat
            BY <1>1, HeadRows
      <2>5. Holds(row)
            BY <1>1, <2>3, <2>4 DEF Holds, Fits
      <2> HIDE DEF row
      <2> QED
          BY <1>3, <2>1, <2>2, <2>5, OneParseMoves DEF ReadRecords
<1>4. CASE ReadLinked(q)
      <2> DEFINE made == Compiled(parse[q].records)
                 row == [Idle EXCEPT !.pc = "linked", !.creates = made]
      <2>1. \A c \in made : c \in Proposed /\ Stands(c)
            <3> SUFFICES ASSUME NEW c \in made PROVE c \in Proposed /\ Stands(c)
                OBVIOUS
            <3>1. PICK r \in Records :
                    /\ parse[q].records[r] # Unaccepted
                    /\ \A s \in Linked(r) : scene[s].revision # parse[q].records[r].revision
                    /\ c = Targeted(SceneOf(r, parse[q].records[r]))
                  BY DEF Compiled
            <3>2. parse[q].records[r] \in Heads
                  BY <1>1 DEF ParseRows
            <3>3. Fits(r, parse[q].records[r].revision, parse[q].records[r].position)
                  BY <1>1 DEF Holds
            <3> QED
                BY <3>1, <3>2, <3>3, TargetedStands
      <2> HIDE DEF made
      <2>2. row \in ParseRows
            BY <1>2, <2>1 DEF ParseRows
      <2>3. row.records = Idle.records /\ row.creates = made
            BY DEF Idle
      <2>4. Holds(row)
            BY <1>2, <2>1, <2>3 DEF Holds
      <2>5. parse' = [parse EXCEPT ![q] = row]
            BY <1>4 DEF ReadLinked, made
      <2> HIDE DEF row
      <2> QED
          BY <1>4, <2>2, <2>4, <2>5, OneParseMoves DEF ReadLinked
<1>5. CASE SelectStale(q)
      <2> DEFINE row == [parse[q] EXCEPT !.pc = "stale", !.stale = Pending]
      <2>1. parse' = [parse EXCEPT ![q] = row]
            BY <1>5 DEF SelectStale, SceneInv, TypeOK
      <2>2. row \in ParseRows /\ row.records = parse[q].records /\ row.creates = parse[q].creates
            BY <1>1 DEF ParseRows, Pending
      <2>3. Holds(row)
            BY <1>1, <2>2 DEF Holds
      <2> HIDE DEF row
      <2> QED
          BY <1>5, <2>1, <2>2, <2>3, OneParseMoves DEF SelectStale
<1>6. CASE Abandon(q)
      BY <1>2, <1>6, OneParseMoves DEF Abandon
<1> QED
    BY <1>3, <1>4, <1>5, <1>6

\* Storing a generation.
LEMMA StoreKeeps ==
    ASSUME SceneInv, NEW q \in Parses, Store(q)
    PROVE  SceneInv'
<1> DEFINE fresh == Fresh(Cardinality(parse[q].creates))
<1>1. PICK row \in [fresh -> parse[q].creates] :
        proposal' = [p \in Ids |->
            IF p \in fresh THEN row[p] ELSE Superseded(parse[q].stale)[p]]
      BY DEF Store
<1>2. parse[q] \in ParseRows /\ TypeOK /\ fresh \subseteq Ids
      BY DEF SceneInv, TypeOK, ParseRows, Fresh
<1> HIDE DEF fresh
<1>3. \A p \in Ids : IF p \in fresh THEN proposal'[p] \in parse[q].creates
                     ELSE proposal'[p] = [status |-> "closed"] \/ proposal'[p] = proposal[p]
      BY <1>1 DEF Superseded
<1>4. parse[q].creates \subseteq Proposed /\ [status |-> "closed"] \in Decided
      BY <1>2 DEF ParseRows, Decided
<1>5. proposal' \in [Ids -> {Absent} \cup Decided \cup Proposed]
      <2>1. \A p \in Ids : proposal'[p] \in {Absent} \cup Decided \cup Proposed
            BY <1>2, <1>3, <1>4 DEF TypeOK
      <2> QED
          BY <1>1, <2>1
<1>6. parse' \in [Parses -> ParseRows]
      <2>1. Idle \in ParseRows
            BY <1>2, IdleHolds
      <2> QED
          BY <2>1 DEF Store, SceneInv, TypeOK, ParseRows
<1>7. TypeOK'
      BY <1>2, <1>5, <1>6 DEF Store, TypeOK, ParseRows, AcceptedType
<1>8. RecordsHaveOneScene' /\ ScenesAreSourced' /\ BatchApplies'
      BY DEF Store, SceneInv, RecordsHaveOneScene, ScenesAreSourced, BatchApplies, Sourced, Exists
<1>9. ProposalsStand'
      <2> SUFFICES ASSUME NEW p \in Pending' PROVE Stands(proposal[p])'
          BY DEF ProposalsStand
      <2>1. p \in Ids /\ proposal'[p].status = "pending_review"
            BY DEF Pending
      <2>2. CASE p \in fresh
            <3>1. Stands(proposal'[p])
                  BY <1>3, <2>1, <2>2 DEF SceneInv, ParsesStand
            <3> QED
                BY <3>1 DEF Store, Stands, Compared, Carries, Fits, Exists
      <2>3. CASE p \notin fresh
            <3>1. proposal'[p] = proposal[p] /\ p \in Pending
                  BY <1>3, <2>1, <2>3 DEF Pending
            <3> QED
                BY <3>1 DEF Store, SceneInv, ProposalsStand, Stands, Compared, Carries, Fits, Exists
      <2> QED
          BY <2>2, <2>3
<1>10. ParsesStand'
      <2>1. \A o \in Parses : parse'[o] = IF o = q THEN Idle ELSE parse[o]
            BY DEF Store, SceneInv, TypeOK
      <2>2. Holds(Idle)
            BY <1>2, IdleHolds
      <2> QED
          BY <2>1, <2>2 DEF Store, SceneInv, ParsesStand, Holds, Stands, Compared, Carries, Fits, Exists
<1> QED
    BY <1>7, <1>8, <1>9, <1>10 DEF SceneInv

-----------------------------------------------------------------------------
(* Acceptance of a batch *)

\* Proposals of one record that match its head and name the same scene are one:
\* they have the same position or share their target.
LEMMA BatchRecordsDiffer ==
    ASSUME SceneInv, NEW batch, batch \subseteq Pending, Validated(batch),
           NEW p1 \in batch, NEW p2 \in batch, p1 # p2
    PROVE  proposal[p1].record # proposal[p2].record
<1> SUFFICES ASSUME proposal[p1].record = proposal[p2].record PROVE FALSE
    OBVIOUS
<1>1. /\ proposal[p1].record \in Records /\ proposal[p1].record # NoRecord
      /\ proposal[p1].target \subseteq Scenes /\ proposal[p2].target \subseteq Scenes
      BY PendingRows DEF SceneInv
<1>2. /\ Fits(proposal[p1].record, proposal[p1].revision, proposal[p1].sequence)
      /\ Fits(proposal[p2].record, proposal[p2].revision, proposal[p2].sequence)
      BY DEF SceneInv, ProposalsStand, Stands
<1>3. SourceIsHead(p1) /\ SourceIsHead(p2) /\ TargetIsAsCompared(p1) /\ TargetIsAsCompared(p2)
      BY DEF Validated
<1>4. proposal[p1].sequence = proposal[p2].sequence
      BY <1>2, <1>3 DEF SourceIsHead, Fits
<1> QED
    BY <1>4 DEF Validated

\* The checks leave no constraint of the store to meet.
LEMMA ValidatedIsWritable ==
    ASSUME SceneInv, NEW batch, batch \subseteq Pending, Validated(batch)
    PROVE  Writable(batch)
<1>1. \A p1, p2 \in batch : p1 # p2 => proposal[p1].record # proposal[p2].record
      BY BatchRecordsDiffer
<1>2. ASSUME NEW p \in batch, proposal[p].sequence \in Taken(batch, p)
      PROVE  FALSE
      <2>1. p \in Pending /\ proposal[p].sequence \in Nat
            BY PendingRows, AcceptedScenesAssumption DEF SceneInv
      <2>2. CASE proposal[p].sequence \in
                    {scene[s].sequence : s \in {s \in Scenes \ TargetsOf(batch) : Exists(s)}}
            BY <2>2 DEF Validated
      <2>3. CASE proposal[p].sequence \in
                    {proposal[q].sequence : q \in {q \in batch : proposal[q].sequence < proposal[p].sequence}}
            BY <2>1, <2>3
      <2>4. CASE proposal[p].sequence \in {Vacated(s) : s \in
                    TargetsOf({q \in batch : proposal[q].sequence > proposal[p].sequence})}
            <3> DEFINE S == TargetsOf({q \in batch : proposal[q].sequence > proposal[p].sequence})
            <3> HIDE DEF S
            <3>1. PICK s \in S : proposal[p].sequence = Vacated(s)
                  BY <2>4 DEF S
            <3> QED
                BY <2>1, <3>1 DEF Vacated
      <2> QED
          BY <1>2, <2>2, <2>3, <2>4 DEF Taken
<1> QED
    BY <1>1, <1>2 DEF Writable

\* A plan written by a proposal of the batch.
LEMMA WrittenRows ==
    ASSUME SceneInv, NEW p \in Pending, SourceIsHead(p), NEW version \in Nat \ {0}
    PROVE  /\ Written(p, version) \in Planned
           /\ Written(p, version).record = proposal[p].record
           /\ Written(p, version).version = version
           /\ Written(p, version).revision = proposal[p].revision
           /\ Written(p, version).record \in Records
           /\ Written(p, version).revision = accepted[Written(p, version).record].revision
<1>1. 0 \in 0..MaxEdits
      BY SceneCompileAssumption
<1> QED
    BY <1>1, PendingRows DEF SceneInv, Written, Planned, SourceIsHead

\* A scene after an accepted batch: created, updated, or as it was.
Created(batch, s) ==
    /\ ~Exists(s)
    /\ \E p \in batch : proposal[p].target = {} /\ scene'[s] = Written(p, 1)

Updated(batch, s) ==
    /\ Exists(s)
    /\ \E p \in batch : s \in proposal[p].target /\ scene'[s] = Written(p, scene[s].version + 1)

\* What an accepted batch does, as far as the store is concerned.
LEMMA AcceptApplies ==
    ASSUME SceneInv, NEW batch \in SUBSET Ids, Accept(batch)
    PROVE  /\ batch \subseteq Pending /\ Validated(batch) /\ failed' = failed
           /\ scene' \in [Scenes -> SceneTypes]
           /\ \A s \in Scenes : Created(batch, s) \/ Updated(batch, s) \/ scene'[s] = scene[s]
           /\ \A s, t \in Scenes : \A p \in batch :
                (scene'[s] = Written(p, 1) /\ Created(batch, s) /\ scene'[t] = Written(p, 1) /\ Created(batch, t)) => s = t
           /\ proposal' = [p \in Ids |-> IF p \in batch THEN [status |-> "accepted"] ELSE proposal[p]]
<1> DEFINE creates == {p \in batch : proposal[p].target = {}}
<1>1. batch \subseteq Pending /\ Validated(batch)
      BY DEF Accept
<1>2. Writable(batch)
      BY <1>1, ValidatedIsWritable
<1>3. PICK at \in [creates -> {s \in Scenes : ~Exists(s)}] :
        /\ \A p1, p2 \in creates : p1 # p2 => at[p1] # at[p2]
        /\ scene' = [s \in Scenes |->
                IF \E p \in creates : at[p] = s
                THEN Written(CHOOSE p \in creates : at[p] = s, 1)
                ELSE IF s \in TargetsOf(batch)
                THEN Written(CHOOSE p \in batch : s \in proposal[p].target, scene[s].version + 1)
                ELSE scene[s]]
        /\ proposal' = [p \in Ids |-> IF p \in batch THEN [status |-> "accepted"] ELSE proposal[p]]
        /\ UNCHANGED failed
      BY <1>2 DEF Accept
<1>4. ASSUME NEW s \in Scenes, NEW p \in creates, at[p] = s
      PROVE  Created(batch, s) /\ scene'[s] = Written(p, 1)
      <2>1. (CHOOSE o \in creates : at[o] = s) = p
            BY <1>3, <1>4
      <2>2. scene'[s] = Written(p, 1)
            BY <1>3, <1>4, <2>1
      <2> QED
          BY <1>3, <1>4, <2>2 DEF Created
<1>5. ASSUME NEW s \in Scenes, ~\E p \in creates : at[p] = s, s \in TargetsOf(batch)
      PROVE  Updated(batch, s)
      <2>1. PICK p \in batch : s \in proposal[p].target
            BY <1>5 DEF TargetsOf
      <2>2. Exists(s)
            BY <1>1, <2>1 DEF Validated, TargetIsAsCompared
      <2> DEFINE o == CHOOSE o \in batch : s \in proposal[o].target
      <2>3. o \in batch /\ s \in proposal[o].target
            BY <2>1
      <2>4. scene'[s] = Written(o, scene[s].version + 1)
            BY <1>3, <1>5
      <2> QED
          BY <2>2, <2>3, <2>4 DEF Updated
<1>6. ASSUME NEW s \in Scenes, ~\E p \in creates : at[p] = s, s \notin TargetsOf(batch)
      PROVE  scene'[s] = scene[s]
      BY <1>3, <1>6
<1>7. \A s \in Scenes : Created(batch, s) \/ Updated(batch, s) \/ scene'[s] = scene[s]
      BY <1>4, <1>5, <1>6
<1>8. \A p \in batch : p \in Pending /\ SourceIsHead(p)
      BY <1>1 DEF Validated
<1>9. \A s \in Scenes : scene'[s] \in SceneTypes
      <2> SUFFICES ASSUME NEW s \in Scenes PROVE scene'[s] \in SceneTypes
          OBVIOUS
      <2>1. CASE Created(batch, s)
            BY <2>1, <1>8, WrittenRows DEF Created, SceneTypes
      <2>2. CASE Updated(batch, s)
            <3>1. scene[s].version + 1 \in Nat \ {0}
                  BY <2>2, PlannedRows DEF SceneInv, Updated, Planned
            <3> QED
                BY <2>2, <3>1, <1>8, WrittenRows DEF Updated, SceneTypes
      <2>3. CASE scene'[s] = scene[s]
            BY <2>3 DEF SceneInv, TypeOK
      <2> QED
          BY <1>7, <2>1, <2>2, <2>3
<1>10. ASSUME NEW s \in Scenes, NEW t \in Scenes, NEW p \in batch,
              scene'[s] = Written(p, 1), Created(batch, s), scene'[t] = Written(p, 1), Created(batch, t)
       PROVE  s = t
      <2>1. ASSUME NEW u \in Scenes, Created(batch, u), scene'[u] = Written(p, 1)
            PROVE  \E o \in creates : at[o] = u /\ o = p
            <3>1. scene'[u] \in Planned
                  BY <2>1, <1>8, WrittenRows
            <3>2. ~Exists(u) /\ u \notin TargetsOf(batch)
                  <4>1. ~Exists(u)
                        BY <2>1 DEF Created
                  <4> QED
                      BY <4>1, <1>1 DEF Validated, TargetIsAsCompared, TargetsOf
            <3>3. scene'[u] # scene[u]
                  BY <3>1, <3>2, PlannedRows DEF Exists
            <3>4. PICK o \in creates : at[o] = u
                  BY <3>2, <3>3, <1>6
            <3>5. scene'[u] = Written(o, 1)
                  BY <3>4, <1>4
            <3>6. Written(o, 1).record = proposal[o].record /\ Written(p, 1).record = proposal[p].record
                  BY <1>8, WrittenRows
            <3>7. proposal[o].record = proposal[p].record
                  BY <2>1, <3>5, <3>6
            <3>8. o = p
                  BY <3>7, <1>1, BatchRecordsDiffer
            <3> QED
                BY <3>4, <3>8
      <2> QED
          BY <1>10, <2>1
<1>11. scene' \in [Scenes -> SceneTypes]
      BY <1>3, <1>9
<1> QED
    BY <1>1, <1>3, <1>7, <1>10, <1>11

\* A changed scene has the record it had, or is new to its record.
LEMMA AcceptKeepsRecords ==
    ASSUME SceneInv, NEW batch \in SUBSET Ids, Accept(batch), NEW s \in Scenes, scene'[s] # scene[s]
    PROVE  \E p \in batch :
             /\ p \in Pending /\ SourceIsHead(p)
             /\ scene'[s] \in Planned /\ scene'[s] # NoScene
             /\ scene'[s].record = proposal[p].record /\ proposal[p].record \in Records
             /\ scene'[s].revision = accepted[proposal[p].record].revision
             /\ scene'[s].revision = proposal[p].revision
             /\ \/ /\ Created(batch, s) /\ scene'[s] = Written(p, 1)
                   /\ \A t \in Scenes : Exists(t) => scene[t].record # proposal[p].record
                \/ /\ Exists(s) /\ scene[s].record = proposal[p].record /\ s \in proposal[p].target
                   /\ scene'[s] = Written(p, scene[s].version + 1)
                   /\ scene[s].version = proposal[p].compared.version
<1>1. batch \subseteq Pending /\ Validated(batch) /\ (Created(batch, s) \/ Updated(batch, s))
      BY AcceptApplies
<1>2. ASSUME NEW p \in batch, NEW version \in Nat \ {0}, scene'[s] = Written(p, version)
      PROVE  /\ p \in Pending /\ SourceIsHead(p)
             /\ scene'[s] \in Planned /\ scene'[s] # NoScene
             /\ scene'[s].record = proposal[p].record /\ proposal[p].record \in Records
             /\ scene'[s].revision = accepted[proposal[p].record].revision
             /\ scene'[s].revision = proposal[p].revision
      <2>1. p \in Pending /\ SourceIsHead(p)
            BY <1>1 DEF Validated
      <2> QED
          BY <1>2, <2>1, WrittenRows, PlannedRows
<1>3. CASE Created(batch, s)
      <2>1. PICK p \in batch : proposal[p].target = {} /\ scene'[s] = Written(p, 1)
            BY <1>3 DEF Created
      <2>2. \A t \in Scenes : Exists(t) => scene[t].record # proposal[p].record
            BY <1>1, <2>1 DEF Validated, TargetIsAsCompared
      <2> QED
          BY <1>2, <1>3, <2>1, <2>2
<1>4. CASE Updated(batch, s)
      <2>1. PICK p \in batch : s \in proposal[p].target /\ scene'[s] = Written(p, scene[s].version + 1)
            BY <1>4 DEF Updated
      <2>2. Exists(s) /\ scene[s].record = proposal[p].record /\ scene[s].version = proposal[p].compared.version
            BY <1>1, <2>1 DEF Validated, TargetIsAsCompared
      <2>3. scene[s].version + 1 \in Nat \ {0}
            BY <2>2, PlannedRows DEF SceneInv, Planned
      <2> QED
          BY <1>2, <2>1, <2>2, <2>3
<1> QED
    BY <1>1, <1>3, <1>4

\* Accepting a batch.
LEMMA AcceptKeeps ==
    ASSUME SceneInv, NEW batch \in SUBSET Ids, Accept(batch)
    PROVE  SceneInv'
<1>1. /\ failed' = failed /\ scene' \in [Scenes -> SceneTypes]
      /\ proposal' = [p \in Ids |-> IF p \in batch THEN [status |-> "accepted"] ELSE proposal[p]]
      /\ UNCHANGED <<accepted, parse, edits>>
      BY AcceptApplies DEF Accept
<1>2. TypeOK'
      BY <1>1 DEF SceneInv, TypeOK, AcceptedType, Decided
<1>3. RecordsHaveOneScene'
      <2> SUFFICES ASSUME NEW s \in Scenes, NEW t \in Scenes, scene'[s] # NoScene, scene'[t] # NoScene,
                          scene'[s].record = scene'[t].record, scene'[s].record # NoRecord
                   PROVE  s = t
          BY DEF RecordsHaveOneScene, Exists
      <2>1. CASE scene'[s] = scene[s] /\ scene'[t] = scene[t]
            BY <2>1 DEF SceneInv, RecordsHaveOneScene, Exists
      <2>2. CASE scene'[s] # scene[s] /\ scene'[t] = scene[t]
            BY <2>2, AcceptKeepsRecords, SceneCompileAssumption DEF SceneInv, RecordsHaveOneScene, Exists
      <2>3. CASE scene'[s] = scene[s] /\ scene'[t] # scene[t]
            BY <2>3, AcceptKeepsRecords, SceneCompileAssumption DEF SceneInv, RecordsHaveOneScene, Exists
      <2>4. CASE scene'[s] # scene[s] /\ scene'[t] # scene[t]
            <3>1. PICK p \in batch :
                    /\ scene'[s].record = proposal[p].record /\ proposal[p].record \in Records
                    /\ \/ /\ Created(batch, s) /\ scene'[s] = Written(p, 1)
                          /\ \A u \in Scenes : Exists(u) => scene[u].record # proposal[p].record
                       \/ Exists(s) /\ scene[s].record = proposal[p].record
                  BY <2>4, AcceptKeepsRecords
            <3>2. PICK q \in batch :
                    /\ scene'[t].record = proposal[q].record
                    /\ \/ /\ Created(batch, t) /\ scene'[t] = Written(q, 1)
                          /\ \A u \in Scenes : Exists(u) => scene[u].record # proposal[q].record
                       \/ Exists(t) /\ scene[t].record = proposal[q].record
                  BY <2>4, AcceptKeepsRecords
            <3>3. p = q
                  <4>1. proposal[p].record = proposal[q].record
                        BY <3>1, <3>2
                  <4>2. batch \subseteq Pending /\ Validated(batch)
                        BY AcceptApplies
                  <4> QED
                      BY <4>1, <4>2, BatchRecordsDiffer
            <3>4. CASE Exists(s) \/ Exists(t)
                  BY <3>1, <3>2, <3>3, <3>4, SceneCompileAssumption DEF SceneInv, RecordsHaveOneScene, Created
            <3>5. CASE ~Exists(s) /\ ~Exists(t)
                  BY <3>1, <3>2, <3>3, <3>5, AcceptApplies
            <3> QED
                BY <3>4, <3>5
      <2> QED
          BY <2>1, <2>2, <2>3, <2>4
<1>4. ScenesAreSourced'
      <2> SUFFICES ASSUME NEW s \in Scenes, scene'[s] # NoScene PROVE Sourced(scene[s])'
          BY DEF ScenesAreSourced, Exists
      <2>1. CASE scene'[s] = scene[s]
            BY <1>1, <2>1 DEF SceneInv, ScenesAreSourced, Sourced, Exists
      <2>2. CASE scene'[s] # scene[s]
            <3>1. PICK p \in batch :
                    /\ scene'[s].record = proposal[p].record /\ proposal[p].record \in Records
                    /\ scene'[s].revision = accepted[proposal[p].record].revision
                  BY <2>2, AcceptKeepsRecords
            <3>2. accepted[proposal[p].record].revision \in Nat /\ proposal[p].record # NoRecord
                  BY <3>1, HeadRows, SceneCompileAssumption DEF SceneInv
            <3> QED
                BY <1>1, <3>1, <3>2 DEF Sourced
      <2> QED
          BY <2>1, <2>2
<1>5. \A s \in Scenes : Advances(s)
      <2> SUFFICES ASSUME NEW s \in Scenes, scene'[s] # scene[s] PROVE Advances(s)
          BY DEF Advances
      <2> QED
          BY AcceptKeepsRecords DEF Advances
<1>6. \A c \in Proposed : Stands(c) => Stands(c)'
      BY <1>1, <1>5, StandsBesideScenes DEF SceneInv
<1>7. ProposalsStand'
      <2>1. \A p \in Ids : proposal'[p] = proposal[p] \/ proposal'[p].status # "pending_review"
            BY <1>1
      <2> QED
          BY <2>1, <1>2, <1>6, ReadingsStand
<1>8. ParsesStand'
      BY <1>1, <1>6, ParsesStay DEF Fits
<1> QED
    BY <1>1, <1>2, <1>3, <1>4, <1>7, <1>8 DEF SceneInv, BatchApplies

-----------------------------------------------------------------------------
(* Decisions, the author's own changes and new heads *)

\* Deciding a proposal without applying it.
LEMMA DecideKeeps ==
    ASSUME SceneInv, NEW p \in Ids, NEW status \in {"accepted", "closed"}, Decide(p, status)
    PROVE  SceneInv'
<1>1. /\ UNCHANGED <<accepted, scene, parse, edits, failed>>
      /\ \A o \in Ids : proposal'[o] = IF o = p THEN [status |-> status] ELSE proposal[o]
      BY DEF Decide, SceneInv, TypeOK
<1>2. TypeOK'
      BY <1>1 DEF Decide, SceneInv, TypeOK, AcceptedType, Decided
<1>3. RecordsHaveOneScene' /\ ScenesAreSourced' /\ BatchApplies'
      BY <1>1 DEF SceneInv, RecordsHaveOneScene, ScenesAreSourced, BatchApplies, Sourced, Exists
<1>4. \A c \in Proposed : Stands(c) => Stands(c)'
      BY <1>1 DEF Stands, Compared, Carries, Fits, Exists
<1>5. ProposalsStand'
      BY <1>1, <1>2, <1>4, ReadingsStand
<1>6. ParsesStand'
      BY <1>1, <1>4, ParsesStay DEF Fits
<1> QED
    BY <1>2, <1>3, <1>5, <1>6 DEF SceneInv

\* A step of the author changes one scene.
LEMMA AuthorKeeps ==
    ASSUME SceneInv, NEW s \in Scenes,
           DeleteScene(s) \/ \E n \in Positions : AddScene(s, n) \/ EditScene(s, n)
    PROVE  SceneInv'
<1>1. /\ UNCHANGED <<accepted, proposal, parse, failed>>
      /\ \A o \in Scenes : o # s => scene'[o] = scene[o]
      /\ scene' = [scene EXCEPT ![s] = scene'[s]] /\ edits' \in 0..MaxEdits
      <2>1. scene \in [Scenes -> SceneTypes] /\ edits \in 0..MaxEdits /\ MaxEdits \in Nat
            BY SceneCompileAssumption DEF SceneInv, TypeOK
      <2>2. CASE DeleteScene(s)
            BY <2>1, <2>2 DEF DeleteScene
      <2>3. ASSUME NEW n \in Positions, AddScene(s, n)
            PROVE  /\ UNCHANGED <<accepted, proposal, parse, failed>>
                   /\ \A o \in Scenes : o # s => scene'[o] = scene[o]
                   /\ scene' = [scene EXCEPT ![s] = scene'[s]] /\ edits' \in 0..MaxEdits
            BY <2>1, <2>3 DEF AddScene
      <2>4. ASSUME NEW n \in Positions, EditScene(s, n)
            PROVE  /\ UNCHANGED <<accepted, proposal, parse, failed>>
                   /\ \A o \in Scenes : o # s => scene'[o] = scene[o]
                   /\ scene' = [scene EXCEPT ![s] = scene'[s]] /\ edits' \in 0..MaxEdits
            <3>1. scene' = [scene EXCEPT ![s] =
                    [scene[s] EXCEPT !.sequence = n, !.edit = edits + 1, !.version = scene[s].version + 1]]
                  BY <2>4 DEF EditScene
            <3>2. edits' = edits + 1 /\ edits < MaxEdits /\ UNCHANGED <<accepted, proposal, parse, failed>>
                  BY <2>4 DEF EditScene
            <3> DEFINE plan == [scene[s] EXCEPT !.sequence = n, !.edit = edits + 1, !.version = scene[s].version + 1]
            <3> HIDE DEF plan
            <3> QED
                BY <2>1, <3>1, <3>2 DEF plan
      <2> QED
          BY <2>2, <2>3, <2>4
<1>2. \/ scene'[s] = NoScene
      \/ scene'[s] \in Planned /\ scene'[s].record = NoRecord /\ scene'[s].revision = 0
      \/ /\ scene'[s] \in Planned /\ Exists(s) /\ scene'[s].record = scene[s].record
         /\ scene'[s].revision = scene[s].revision /\ scene'[s].version = scene[s].version + 1
      <2>1. CASE DeleteScene(s)
            BY <2>1 DEF DeleteScene, SceneInv, TypeOK
      <2>2. ASSUME NEW n \in Positions, AddScene(s, n)
            PROVE  scene'[s] \in Planned /\ scene'[s].record = NoRecord /\ scene'[s].revision = 0
            BY <2>2, <1>1 DEF AddScene, SceneInv, TypeOK, Planned
      <2>3. ASSUME NEW n \in Positions, EditScene(s, n)
            PROVE  /\ scene'[s] \in Planned /\ Exists(s) /\ scene'[s].record = scene[s].record
                   /\ scene'[s].revision = scene[s].revision /\ scene'[s].version = scene[s].version + 1
            <3>1. scene[s] \in Planned /\ Exists(s)
                  BY <2>3, PlannedRows DEF EditScene, SceneInv
            <3>2. scene'[s] = [scene[s] EXCEPT !.sequence = n, !.edit = edits + 1, !.version = scene[s].version + 1]
                  BY <2>3 DEF EditScene, SceneInv, TypeOK
            <3>3. edits + 1 \in 0..MaxEdits
                  BY <2>3, <1>1 DEF EditScene
            <3>4. PICK plan \in Planned : plan = scene[s]
                  BY <3>1
            <3>5. PICK edit \in 0..MaxEdits : edit = edits + 1
                  BY <3>3
            <3>6. plan.version + 1 \in Nat \ {0}
                  BY DEF Planned
            <3>7. PICK version \in Nat \ {0} : version = plan.version + 1
                  BY <3>6
            <3>8. scene'[s] = [plan EXCEPT !.sequence = n, !.edit = edit, !.version = version]
                  BY <3>2, <3>4, <3>5, <3>7
            <3>9. [plan EXCEPT !.sequence = n, !.edit = edit, !.version = version] \in Planned
                  BY DEF Planned
            <3> QED
                BY <3>1, <3>4, <3>7, <3>8, <3>9 DEF Planned
      <2> QED
          BY <2>1, <2>2, <2>3
<1>3. scene' \in [Scenes -> SceneTypes]
      BY <1>1, <1>2 DEF SceneInv, TypeOK, SceneTypes
<1>4. TypeOK'
      BY <1>1, <1>3 DEF SceneInv, TypeOK, AcceptedType
<1>5. \A o \in Scenes : Advances(o)
      BY <1>1, <1>2 DEF Advances
<1>6. RecordsHaveOneScene'
      BY <1>1, <1>2 DEF SceneInv, RecordsHaveOneScene, Exists
<1>7. ScenesAreSourced'
      BY <1>1, <1>2 DEF SceneInv, ScenesAreSourced, Sourced, Exists
<1>8. \A c \in Proposed : Stands(c) => Stands(c)'
      BY <1>1, <1>5, StandsBesideScenes DEF SceneInv
<1>9. ProposalsStand' /\ ParsesStand'
      BY <1>1, <1>4, <1>8, ReadingsStand, ParsesStay DEF Fits
<1> QED
    BY <1>1, <1>4, <1>6, <1>7, <1>9 DEF SceneInv, BatchApplies

\* A revision of a record becomes its head.
LEMMA AcceptRecordKeeps ==
    ASSUME SceneInv, NEW r \in Records, NEW position \in Positions, NEW n \in 1..MaxRevision[r],
           AcceptRecord(r, n, position)
    PROVE  SceneInv'
<1>1. UNCHANGED <<scene, proposal, parse, edits, failed>> /\ Commit(r, n, position) /\ n \in Nat \ {0}
      BY AcceptedScenesAssumption DEF AcceptRecord
<1>2. TypeOK'
      BY <1>1 DEF SceneInv, TypeOK, AcceptedType, Commit, Heads
<1>3. RecordsHaveOneScene' /\ BatchApplies'
      BY <1>1 DEF SceneInv, RecordsHaveOneScene, BatchApplies, Exists
<1>4. ScenesAreSourced'
      <2> SUFFICES ASSUME NEW s \in Scenes, Exists(s) PROVE Sourced(scene[s])'
          BY <1>1 DEF ScenesAreSourced, Exists
      <2>1. scene[s] \in Planned /\ Sourced(scene[s])
            BY PlannedRows DEF SceneInv, ScenesAreSourced
      <2>2. scene[s].record \in Records \cup {NoRecord} /\ scene[s].revision \in Nat
            BY <2>1 DEF Planned
      <2>3. \A o \in Records : accepted[o].revision \in Nat /\ accepted'[o].revision >= accepted[o].revision
            BY <1>1, HeadRows DEF SceneInv, TypeOK, AcceptedType, Commit
      <2>4. \A o \in Records : accepted'[o].revision \in Nat
            BY <1>1, <2>3 DEF SceneInv, TypeOK, AcceptedType, Commit
      <2> QED
          BY <1>1, <2>1, <2>2, <2>3, <2>4 DEF Sourced
<1>5. \A c \in Proposed : Stands(c) => Stands(c)'
      BY <1>1, StandsBesideCommits DEF SceneInv
<1>6. \A o \in Records : \A revision \in Nat : \A at : Fits(o, revision, at) => Fits(o, revision, at)'
      BY <1>1, FitsBesideCommits DEF SceneInv
<1>7. ProposalsStand' /\ ParsesStand'
      BY <1>1, <1>2, <1>5, <1>6, ReadingsStand, ParsesStay
<1> QED
    BY <1>2, <1>3, <1>4, <1>7 DEF SceneInv

\* Every step keeps the invariant.
LEMMA SceneNextGood == SceneInv /\ [Next]_vars => SceneInv'
<1> SUFFICES ASSUME SceneInv, [Next]_vars PROVE SceneInv'
    OBVIOUS
<1>1. CASE UNCHANGED vars
      BY <1>1 DEF vars, SceneInv, TypeOK, AcceptedType, RecordsHaveOneScene, ScenesAreSourced, Sourced,
         ProposalsStand, ParsesStand, Stands, Compared, Carries, Fits, Exists, Pending, BatchApplies
<1>2. CASE Next
      BY <1>2, AcceptRecordKeeps, ParseKeeps, StoreKeeps, AcceptKeeps, DecideKeeps, AuthorKeeps DEF Next
<1> QED
    BY <1>1, <1>2

\* The inductive invariant holds in every reachable state.
LEMMA SceneInvariance == Spec => []SceneInv
BY SceneInitGood, SceneNextGood, PTL DEF Spec

-----------------------------------------------------------------------------

\* Heads, scenes, proposals and what parses hold have their types.
THEOREM SceneTypeCorrect == Spec => []TypeOK
<1>1. SceneInv => TypeOK
      BY DEF SceneInv
<1> QED
    BY <1>1, SceneInvariance, PTL

\* The checks of accept_scene_proposals cover every constraint of the store: two
\* proposals of a record that match its head have one position or one target.
THEOREM BatchesApply == Spec => []BatchApplies
<1>1. SceneInv => BatchApplies
      BY DEF SceneInv
<1> QED
    BY <1>1, SceneInvariance, PTL

\* accept_scene_proposals compares versions, not plans: it replaces the plan the
\* proposal was compared with, or one of the proposal's own revision, which a scene
\* created again under its old id has.
THEOREM UpdatesWereCompared == Spec => UpdatesReplaceWhatWasCompared
<1> DEFINE A == \A s \in Scenes :
        scene[s] # NoScene /\ scene'[s] # NoScene /\ scene'[s] # scene[s] /\ edits' = edits =>
            \E p \in Pending :
                /\ proposal'[p].status = "accepted"
                /\ scene'[s] = Written(p, scene[s].version + 1)
                /\ \/ proposal[p].compared = scene[s]
                   \/ proposal[p].revision = scene[s].revision
<1>1. SceneInv /\ [Next]_vars => [A]_vars
      <2> SUFFICES ASSUME SceneInv, Next, NEW s \in Scenes,
                          scene[s] # NoScene, scene'[s] # NoScene, scene'[s] # scene[s], edits' = edits
                   PROVE  \E p \in Pending :
                            /\ proposal'[p].status = "accepted"
                            /\ scene'[s] = Written(p, scene[s].version + 1)
                            /\ \/ proposal[p].compared = scene[s]
                               \/ proposal[p].revision = scene[s].revision
          OBVIOUS
      <2>1. PICK batch \in SUBSET Ids : Accept(batch)
            <3>1. ASSUME NEW o \in Scenes, DeleteScene(o)
                  PROVE  FALSE
                  BY <3>1 DEF DeleteScene, SceneInv, TypeOK
            <3>2. ASSUME NEW o \in Scenes, NEW n \in Positions, AddScene(o, n) \/ EditScene(o, n)
                  PROVE  FALSE
                  BY <3>2 DEF AddScene, EditScene, SceneInv, TypeOK
            <3> QED
                BY <3>1, <3>2 DEF Next, AcceptRecord, ReadRecords, ReadLinked, SelectStale, Store, Abandon, Decide
      <2>2. PICK p \in batch :
              /\ p \in Pending /\ SourceIsHead(p) /\ proposal[p].record \in Records
              /\ scene[s].record = proposal[p].record /\ s \in proposal[p].target
              /\ scene'[s] = Written(p, scene[s].version + 1)
              /\ scene[s].version = proposal[p].compared.version
            BY <2>1, AcceptKeepsRecords DEF Created, Exists
      <2>3. proposal'[p].status = "accepted"
            BY <2>1, AcceptApplies
      <2>4. scene[s] \in Planned /\ Sourced(scene[s]) /\ scene[s].revision \in Nat /\ scene[s].version \in Nat
            BY PlannedRows DEF SceneInv, ScenesAreSourced, Exists, Planned
      <2>5. proposal[p].revision \in Nat /\ accepted[proposal[p].record].revision = proposal[p].revision
            BY <2>2, PendingRows DEF SceneInv, SourceIsHead
      <2>6. scene[s].revision <= proposal[p].revision
            BY <2>2, <2>4, <2>5, SceneCompileAssumption DEF Sourced
      <2>7. \/ scene[s] = proposal[p].compared
            \/ scene[s].version > proposal[p].compared.version
            \/ scene[s].revision >= proposal[p].revision
            BY <2>2 DEF SceneInv, ProposalsStand, Stands, Compared, Carries, Exists
      <2>8. proposal[p].compared = scene[s] \/ proposal[p].revision = scene[s].revision
            BY <2>2, <2>4, <2>5, <2>6, <2>7
      <2> QED
          BY <2>2, <2>3, <2>8
<1> QED
    BY <1>1, SceneInvariance, PTL DEF Spec, UpdatesReplaceWhatWasCompared

\* The head is read again inside the transaction of the batch, so no overlap of
\* parses, acceptances and revisions brings an earlier revision back.
THEOREM PlansOnlyAdvance == Spec => PlanNeverGoesBack
<1> DEFINE A == \A s \in Scenes :
        scene[s] # NoScene /\ scene'[s] # NoScene /\ scene'[s].record = scene[s].record =>
            scene[s].revision <= scene'[s].revision
<1>1. SceneInv /\ [Next]_vars => [A]_vars
      <2> SUFFICES ASSUME SceneInv, Next, NEW s \in Scenes,
                          scene[s] # NoScene, scene'[s] # NoScene, scene'[s].record = scene[s].record
                   PROVE  scene[s].revision <= scene'[s].revision
          OBVIOUS
      <2>1. scene[s] \in Planned /\ Sourced(scene[s]) /\ scene[s].revision \in Nat
            BY PlannedRows DEF SceneInv, ScenesAreSourced, Exists, Planned
      <2>2. CASE scene'[s] = scene[s]
            BY <2>1, <2>2
      <2>3. ASSUME NEW batch \in SUBSET Ids, Accept(batch), scene'[s] # scene[s]
            PROVE  scene[s].revision <= scene'[s].revision
            <3>1. PICK p \in batch :
                    /\ proposal[p].record \in Records /\ scene'[s].record = proposal[p].record
                    /\ scene'[s].revision = accepted[proposal[p].record].revision
                  BY <2>3, AcceptKeepsRecords
            <3> QED
                BY <2>1, <3>1, SceneCompileAssumption DEF Sourced
      <2>4. ASSUME NEW o \in Scenes, NEW n \in Positions, DeleteScene(o) \/ AddScene(o, n) \/ EditScene(o, n)
            PROVE  scene'[s] = scene[s] \/ scene'[s].revision = scene[s].revision
            <3>1. CASE DeleteScene(o)
                  BY <3>1 DEF DeleteScene, SceneInv, TypeOK
            <3>2. CASE AddScene(o, n)
                  BY <3>2 DEF AddScene, SceneInv, TypeOK, Exists
            <3>3. CASE EditScene(o, n) /\ o = s
                  <4>1. scene'[s] = [scene[s] EXCEPT !.sequence = n, !.edit = edits + 1, !.version = scene[s].version + 1]
                        BY <3>3 DEF EditScene, SceneInv, TypeOK
                  <4> QED
                      BY <4>1, <2>1 DEF Planned
            <3>4. CASE EditScene(o, n) /\ o # s
                  BY <3>4 DEF EditScene, SceneInv, TypeOK
            <3> QED
                BY <2>4, <3>1, <3>2, <3>3, <3>4
      <2>5. ASSUME NEW o \in Scenes, DeleteScene(o)
            PROVE  scene'[s] = scene[s]
            BY <2>5 DEF DeleteScene, SceneInv, TypeOK
      <2>6. \/ scene' = scene
            \/ \E batch \in SUBSET Ids : Accept(batch)
            \/ \E o \in Scenes : DeleteScene(o)
            \/ \E o \in Scenes, n \in Positions : AddScene(o, n) \/ EditScene(o, n)
            BY DEF Next, AcceptRecord, ReadRecords, ReadLinked, SelectStale, Store, Abandon, Decide
      <2> QED
          BY <2>1, <2>2, <2>3, <2>4, <2>5, <2>6
<1> QED
    BY <1>1, SceneInvariance, PTL DEF Spec, PlanNeverGoesBack

-----------------------------------------------------------------------------
(* Decided proposals, and scenes that stay while they are under review *)

\* What a step does to a proposal: it keeps it, stores one where none was,
\* decides a pending one, or closes one a parse selected.
LEMMA ProposalSteps ==
    ASSUME SceneInv, Next, NEW p \in Ids, proposal'[p] # proposal[p]
    PROVE  \/ p \in Pending /\ proposal'[p] \in Decided
           \/ proposal[p] = Absent /\ \E q \in Parses : proposal'[p] \in parse[q].creates
           \/ \E q \in Parses :
                parse[q].pc = "stale" /\ p \in parse[q].stale /\ proposal'[p] = [status |-> "closed"]
<1>1. CASE \E batch \in SUBSET Ids : Accept(batch)
      BY <1>1, AcceptApplies DEF Decided
<1>2. ASSUME NEW o \in Ids, NEW status \in {"accepted", "closed"}, Decide(o, status)
      PROVE  p \in Pending /\ proposal'[p] \in Decided
      BY <1>2 DEF Decide, Decided, SceneInv, TypeOK
<1>3. ASSUME NEW q \in Parses, Store(q)
      PROVE  \/ proposal[p] = Absent /\ proposal'[p] \in parse[q].creates
             \/ parse[q].pc = "stale" /\ p \in parse[q].stale /\ proposal'[p] = [status |-> "closed"]
      <2> DEFINE fresh == Fresh(Cardinality(parse[q].creates))
      <2>1. PICK row \in [fresh -> parse[q].creates] :
              proposal' = [o \in Ids |->
                  IF o \in fresh THEN row[o] ELSE Superseded(parse[q].stale)[o]]
            BY <1>3 DEF Store
      <2>2. p \in fresh => proposal[p] = Absent
            BY DEF Fresh
      <2> HIDE DEF fresh
      <2>3. p \notin fresh => p \in parse[q].stale /\ proposal'[p] = [status |-> "closed"]
            BY <2>1 DEF Superseded
      <2> QED
          BY <1>3, <2>1, <2>2, <2>3 DEF Store
<1>4. ASSUME NEW s \in Scenes, NEW n \in Positions, DeleteScene(s) \/ AddScene(s, n) \/ EditScene(s, n)
      PROVE  proposal' = proposal
      BY <1>4 DEF DeleteScene, AddScene, EditScene
<1>5. ASSUME NEW s \in Scenes, DeleteScene(s)
      PROVE  proposal' = proposal
      BY <1>5 DEF DeleteScene
<1> QED
    BY <1>1, <1>2, <1>3, <1>4, <1>5 DEF Next, AcceptRecord, ReadRecords, ReadLinked, SelectStale, Abandon

\* What the disagreement about decided proposals comes down to: nothing but the
\* UPDATE of supersede_pending, over ids it selected before, changes a decided
\* scene proposal, and it can only close it.
THEOREM OnlyLateSupersessionReopens ==
    Spec => [][\A p \in Ids : proposal[p] \in Decided /\ proposal'[p] # proposal[p] =>
                 \E q \in Parses : /\ parse[q].pc = "stale" /\ p \in parse[q].stale
                                   /\ proposal'[p] = [status |-> "closed"]]_vars
<1> DEFINE A == \A p \in Ids : proposal[p] \in Decided /\ proposal'[p] # proposal[p] =>
                 \E q \in Parses : /\ parse[q].pc = "stale" /\ p \in parse[q].stale
                                   /\ proposal'[p] = [status |-> "closed"]
<1>1. SceneInv /\ [Next]_vars => [A]_vars
      <2> SUFFICES ASSUME SceneInv, Next, NEW p \in Ids,
                          proposal[p] \in Decided, proposal'[p] # proposal[p]
                   PROVE  \E q \in Parses : /\ parse[q].pc = "stale" /\ p \in parse[q].stale
                                            /\ proposal'[p] = [status |-> "closed"]
          OBVIOUS
      <2>1. proposal[p] # Absent /\ p \notin Pending
            BY DEF Decided, Absent, Pending
      <2> QED
          BY <2>1, ProposalSteps
<1> QED
    BY <1>1, SceneInvariance, PTL DEF Spec

\* The scenes that a pending proposal, or one a parse is about to store, updates.
UnderReview ==
    UNION ({proposal[p].target : p \in Pending}
           \cup UNION {{c.target : c \in parse[q].creates} : q \in Parses})

\* A scene is deleted while an update of it is under review.
DropsUnderReview == \E s \in UnderReview : DeleteScene(s)

\* The scene is still there with the plan it was compared with, or a later one.
AsCompared(c) ==
    \A s \in c.target :
        /\ Exists(s) /\ scene[s].record = c.record
        /\ scene[s] = c.compared \/ scene[s].version > c.compared.version

ReviewedInv ==
    /\ \A p \in Pending : AsCompared(proposal[p])
    /\ \A q \in Parses : \A c \in parse[q].creates : AsCompared(c)

\* A scene that is not deleted keeps its record and its versions grow.
LEMMA VersionsGrow ==
    ASSUME SceneInv, Next, NEW s \in Scenes, Exists(s), ~DeleteScene(s)
    PROVE  \/ scene'[s] = scene[s]
           \/ /\ scene'[s] \in Planned /\ scene'[s].record = scene[s].record
              /\ scene'[s].version = scene[s].version + 1
<1>1. scene[s] \in Planned
      BY PlannedRows DEF SceneInv
<1>2. ASSUME NEW batch \in SUBSET Ids, Accept(batch), scene'[s] # scene[s]
      PROVE  /\ scene'[s] \in Planned /\ scene'[s].record = scene[s].record
             /\ scene'[s].version = scene[s].version + 1
      <2>1. PICK p \in batch :
              /\ p \in Pending /\ SourceIsHead(p) /\ scene'[s] \in Planned
              /\ scene'[s].record = proposal[p].record /\ scene[s].record = proposal[p].record
              /\ scene'[s] = Written(p, scene[s].version + 1)
            BY <1>2, AcceptKeepsRecords DEF Created
      <2> QED
          BY <2>1 DEF Written
<1>3. ASSUME NEW o \in Scenes, NEW n \in Positions, EditScene(o, n), scene'[s] # scene[s]
      PROVE  /\ scene'[s] \in Planned /\ scene'[s].record = scene[s].record
             /\ scene'[s].version = scene[s].version + 1
      <2>1. o = s
            BY <1>3 DEF EditScene, SceneInv, TypeOK
      <2>2. scene'[s] = [scene[s] EXCEPT !.sequence = n, !.edit = edits + 1, !.version = scene[s].version + 1]
            BY <1>3, <2>1 DEF EditScene, SceneInv, TypeOK
      <2>3. scene' \in [Scenes -> SceneTypes]
            BY SceneNextGood DEF SceneInv, TypeOK
      <2>4. scene'[s].record = scene[s].record /\ scene'[s].version = scene[s].version + 1
            BY <1>1, <2>2 DEF Planned
      <2>5. scene[s].version + 1 # 0
            BY <1>1 DEF Planned
      <2>6. scene'[s] # NoScene
            BY <2>4, <2>5 DEF NoScene
      <2> QED
          BY <2>3, <2>4, <2>6 DEF SceneTypes
<1>4. ASSUME NEW o \in Scenes, DeleteScene(o)
      PROVE  scene'[s] = scene[s]
      BY <1>4 DEF DeleteScene, SceneInv, TypeOK
<1>5. ASSUME NEW o \in Scenes, NEW n \in Positions, AddScene(o, n)
      PROVE  scene'[s] = scene[s]
      BY <1>5 DEF AddScene, SceneInv, TypeOK
<1>6. \/ scene' = scene
      \/ \E batch \in SUBSET Ids : Accept(batch)
      \/ \E o \in Scenes : DeleteScene(o)
      \/ \E o \in Scenes, n \in Positions : AddScene(o, n) \/ EditScene(o, n)
      BY DEF Next, AcceptRecord, ReadRecords, ReadLinked, SelectStale, Store, Abandon, Decide
<1> QED
    BY <1>2, <1>3, <1>4, <1>5, <1>6

\* An update under review stays as compared.
LEMMA StaysAsCompared ==
    ASSUME SceneInv, Next, ~DropsUnderReview,
           NEW c \in Proposed, Stands(c), AsCompared(c), c.target \subseteq UnderReview
    PROVE  AsCompared(c)'
<1> SUFFICES ASSUME NEW s \in c.target
             PROVE  /\ scene'[s] # NoScene /\ scene'[s].record = c.record
                    /\ scene'[s] = c.compared \/ scene'[s].version > c.compared.version
    BY DEF AsCompared, Exists
<1>1. s \in Scenes /\ Exists(s) /\ scene[s].record = c.record /\ c.compared \in Planned
      /\ (scene[s] = c.compared \/ scene[s].version > c.compared.version)
      BY DEF Proposed, AsCompared, Stands, Compared
<1>2. ~DeleteScene(s)
      BY DEF DropsUnderReview
<1>3. CASE scene'[s] = scene[s]
      BY <1>1, <1>3 DEF Exists
<1>4. CASE /\ scene'[s] \in Planned /\ scene'[s].record = scene[s].record
           /\ scene'[s].version = scene[s].version + 1
      <2>1. scene[s].version \in Nat /\ c.compared.version \in Nat
            BY <1>1, PlannedRows DEF SceneInv, Planned
      <2>2. scene'[s] # NoScene
            BY <1>4, PlannedRows
      <2> QED
          BY <1>1, <1>4, <2>1, <2>2
<1> QED
    BY <1>1, <1>2, <1>3, <1>4, VersionsGrow

\* What a parse holds after a step it held before, or has just read.
LEMMA ReadAsCompared ==
    ASSUME SceneInv, Next, NEW q \in Parses, NEW c \in parse'[q].creates
    PROVE  c \in parse[q].creates \/ AsCompared(c)'
<1>1. ASSUME ReadLinked(q)
      PROVE  AsCompared(c)'
      <2>1. c \in Compiled(parse[q].records)
            <3>1. parse' = [parse EXCEPT ![q] =
                    [Idle EXCEPT !.pc = "linked", !.creates = Compiled(parse[q].records)]]
                  BY <1>1 DEF ReadLinked
            <3> DEFINE made == Compiled(parse[q].records)
            <3> HIDE DEF made
            <3>2. parse'[q].creates = made
                  BY <3>1 DEF made, Idle, SceneInv, TypeOK
            <3> QED
                BY <3>2 DEF made
      <2>2. PICK r \in Records : c = Targeted(SceneOf(r, parse[q].records[r]))
            BY <2>1 DEF Compiled
      <2> DEFINE plan == IF Linked(r) = {} THEN NoScene ELSE scene[CHOOSE s \in Linked(r) : TRUE]
                 base == SceneOf(r, parse[q].records[r])
      <2>3. base.record = r
            BY DEF SceneOf
      <2>4. c = [base EXCEPT !.target = Linked(r), !.compared = plan]
            BY <2>2, <2>3 DEF Targeted
      <2> HIDE DEF plan
      <2>5. c.target = Linked(r) /\ c.compared = plan /\ c.record = r
            BY <2>4 DEF SceneOf
      <2>6. \A s \in Linked(r) : s \in Scenes /\ Exists(s) /\ scene[s].record = r /\ plan = scene[s]
            <3> SUFFICES ASSUME NEW s \in Linked(r)
                         PROVE  s \in Scenes /\ Exists(s) /\ scene[s].record = r /\ plan = scene[s]
                OBVIOUS
            <3>1. s \in Scenes /\ Exists(s) /\ scene[s].record = r
                  BY DEF Linked
            <3>2. (CHOOSE t \in Linked(r) : TRUE) \in Linked(r)
                  OBVIOUS
            <3>3. (CHOOSE t \in Linked(r) : TRUE) = s
                  BY <3>1, <3>2, SceneCompileAssumption DEF SceneInv, RecordsHaveOneScene, Linked
            <3> QED
                BY <3>1, <3>3 DEF plan
      <2>7. scene' = scene
            BY <1>1 DEF ReadLinked
      <2> QED
          BY <2>5, <2>6, <2>7 DEF AsCompared, Exists
<1>2. ASSUME NEW o \in Parses, ReadRecords(o) \/ SelectStale(o) \/ Store(o) \/ Abandon(o)
                               \/ (ReadLinked(o) /\ o # q)
      PROVE  c \in parse[q].creates
      <2>1. parse \in [Parses -> ParseRows]
            BY DEF SceneInv, TypeOK, ParseRows
      <2>2. CASE ReadRecords(o) \/ SelectStale(o)
            BY <2>1, <2>2 DEF ReadRecords, SelectStale, ParseRows
      <2>3. CASE Store(o) \/ Abandon(o)
            <3>1. parse' = [parse EXCEPT ![o] = Idle] /\ Idle.creates = {}
                  BY <2>3 DEF Store, Abandon, Idle
            <3> QED
                BY <2>1, <3>1
      <2>4. CASE ReadLinked(o) /\ o # q
            BY <2>1, <2>4 DEF ReadLinked
      <2> QED
          BY <1>2, <2>2, <2>3, <2>4
<1>3. CASE parse' = parse
      BY <1>3
<1>4. parse' = parse \/ \E o \in Parses :
        ReadRecords(o) \/ ReadLinked(o) \/ SelectStale(o) \/ Store(o) \/ Abandon(o)
      BY DEF Next, AcceptRecord, Accept, Decide, DeleteScene, AddScene, EditScene
<1> QED
    BY <1>1, <1>2, <1>3, <1>4

\* As long as nothing under review is deleted, everything under review is as compared.
LEMMA ReviewKeeps ==
    ASSUME SceneInv, ReviewedInv, Next, ~DropsUnderReview
    PROVE  ReviewedInv'
<1>1. \A q \in Parses : \A c \in parse[q].creates : AsCompared(c)'
      <2> SUFFICES ASSUME NEW q \in Parses, NEW c \in parse[q].creates PROVE AsCompared(c)'
          OBVIOUS
      <2>1. c \in Proposed /\ Stands(c) /\ AsCompared(c)
            BY DEF SceneInv, TypeOK, ParsesStand, ReviewedInv
      <2>2. c.target \subseteq UnderReview
            BY DEF UnderReview
      <2> QED
          BY <2>1, <2>2, StaysAsCompared
<1>2. \A p \in Pending : AsCompared(proposal[p]) /\ \A c \in Proposed : c = proposal[p] => AsCompared(c)'
      <2> SUFFICES ASSUME NEW p \in Pending, NEW c \in Proposed, c = proposal[p] PROVE AsCompared(c)'
          BY DEF ReviewedInv
      <2>1. Stands(c) /\ AsCompared(c) /\ c.target \subseteq UnderReview
            BY DEF SceneInv, ProposalsStand, ReviewedInv, UnderReview
      <2> QED
          BY <2>1, StaysAsCompared
<1>3. ASSUME NEW p \in Pending' PROVE AsCompared(proposal[p])'
      <2>1. p \in Ids /\ proposal'[p].status = "pending_review"
            BY DEF Pending
      <2>2. CASE proposal'[p] = proposal[p]
            <3>1. p \in Pending /\ proposal[p] \in Proposed
                  BY <2>1, <2>2, PendingRows DEF Pending, SceneInv
            <3>2. PICK c \in Proposed : c = proposal[p]
                  BY <3>1
            <3>3. AsCompared(c)'
                  BY <1>2, <3>1, <3>2
            <3> QED
                BY <2>2, <3>2, <3>3 DEF AsCompared, Exists
      <2>3. CASE proposal'[p] # proposal[p]
            <3>1. proposal'[p] \notin Decided /\ proposal'[p] # [status |-> "closed"]
                  BY <2>1 DEF Decided
            <3>2. PICK q \in Parses : proposal'[p] \in parse[q].creates
                  BY <2>1, <2>3, <3>1, ProposalSteps
            <3>3. PICK c \in parse[q].creates : c = proposal'[p]
                  BY <3>2
            <3>4. AsCompared(c)'
                  BY <1>1, <3>3
            <3> QED
                BY <3>3, <3>4 DEF AsCompared, Exists
      <2> QED
          BY <2>2, <2>3
<1>4. ASSUME NEW q \in Parses, NEW c \in parse'[q].creates PROVE AsCompared(c)'
      BY <1>1, <1>4, ReadAsCompared
<1> QED
    BY <1>3, <1>4 DEF ReviewedInv

\* As long as no scene is deleted while an update of it is under review, an
\* accepted update replaces exactly the plan its parse compared: the check of
\* accept_scene_proposals has no other way to be deceived.
THEOREM ComparedPlansAreReplaced ==
    Spec /\ [][~DropsUnderReview]_vars =>
        [][\A s \in Scenes :
             scene[s] # NoScene /\ scene'[s] # NoScene /\ scene'[s] # scene[s] /\ edits' = edits =>
                \E p \in Pending : /\ proposal'[p].status = "accepted"
                                   /\ scene'[s] = Written(p, scene[s].version + 1)
                                   /\ proposal[p].compared = scene[s]]_vars
<1> DEFINE A == \A s \in Scenes :
             scene[s] # NoScene /\ scene'[s] # NoScene /\ scene'[s] # scene[s] /\ edits' = edits =>
                \E p \in Pending : /\ proposal'[p].status = "accepted"
                                   /\ scene'[s] = Written(p, scene[s].version + 1)
                                   /\ proposal[p].compared = scene[s]
<1>1. Init => SceneInv /\ ReviewedInv
      BY SceneInitGood DEF Init, ReviewedInv, Pending, Absent, Idle
<1>2. SceneInv /\ ReviewedInv /\ [Next]_vars /\ [~DropsUnderReview]_vars => SceneInv' /\ ReviewedInv'
      <2>1. CASE UNCHANGED vars
            BY <2>1, SceneNextGood DEF vars, ReviewedInv, AsCompared, Pending, Exists
      <2>2. CASE Next /\ ~DropsUnderReview
            BY <2>2, SceneNextGood, ReviewKeeps
      <2> QED
          BY <2>1, <2>2
<1>3. SceneInv /\ ReviewedInv /\ [Next]_vars => [A]_vars
      <2> SUFFICES ASSUME SceneInv, ReviewedInv, Next, NEW s \in Scenes,
                          scene[s] # NoScene, scene'[s] # NoScene, scene'[s] # scene[s], edits' = edits
                   PROVE  \E p \in Pending : /\ proposal'[p].status = "accepted"
                                             /\ scene'[s] = Written(p, scene[s].version + 1)
                                             /\ proposal[p].compared = scene[s]
          OBVIOUS
      <2>1. PICK batch \in SUBSET Ids : Accept(batch)
            <3>1. ASSUME NEW o \in Scenes, DeleteScene(o)
                  PROVE  FALSE
                  BY <3>1 DEF DeleteScene, SceneInv, TypeOK
            <3>2. ASSUME NEW o \in Scenes, NEW n \in Positions, AddScene(o, n) \/ EditScene(o, n)
                  PROVE  FALSE
                  BY <3>2 DEF AddScene, EditScene, SceneInv, TypeOK
            <3> QED
                BY <3>1, <3>2 DEF Next, AcceptRecord, ReadRecords, ReadLinked, SelectStale, Store, Abandon, Decide
      <2>2. PICK p \in batch :
              /\ p \in Pending /\ s \in proposal[p].target
              /\ scene'[s] = Written(p, scene[s].version + 1)
              /\ scene[s].version = proposal[p].compared.version
            BY <2>1, AcceptKeepsRecords DEF Created, Exists
      <2>3. proposal'[p].status = "accepted"
            BY <2>1, <2>2, AcceptApplies
      <2>4. scene[s].version \in Nat
            BY PlannedRows DEF SceneInv, Exists, Planned
      <2>5. proposal[p].compared = scene[s]
            BY <2>2, <2>4 DEF ReviewedInv, AsCompared
      <2> QED
          BY <2>2, <2>3, <2>5
<1> QED
    BY <1>1, <1>2, <1>3, PTL DEF Spec
=============================================================================
