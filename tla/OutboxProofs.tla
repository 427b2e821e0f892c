---------------------------- MODULE OutboxProofs ----------------------------
(***************************************************************************)
(* Proofs about Outbox for every set of projects, jobs, payloads and       *)
(* threads and every bound: handlers of a project are serial, an execution *)
(* completes the claim it made, a success stands on its effect, and the    *)
(* dispatcher implements SerialJobs.                                       *)
(***************************************************************************)
EXTENDS Outbox, TLAPS

\* A thread in a handler works on a job and holds the lock of its project.
HandlerHoldsLock ==
    \A w \in Workers : InHandler(w) =>
        worker[w].job \in Jobs /\ lock[ProjectOf[worker[w].job]] = w

\* A handler that returned normally has written its effect.
ReturnedMeansWritten ==
    \A w \in Workers : worker[w].pc = "completing" /\ worker[w].ok =>
        effect[worker[w].job] = worker[w].payload

\* What ties threads, rows, locks and effects together.
HandlerInv ==
    /\ HandlerHoldsLock
    /\ HandlerOwnsItsClaim
    /\ ReturnedMeansWritten
    /\ SuccessMeansEffect

\* The inductive invariant.
IInv == TypeOK /\ HandlerInv

-----------------------------------------------------------------------------

\* Locks make the handlers of a project serial.
LEMMA LocksExclude ==
    ASSUME HandlerHoldsLock
    PROVE  OneHandlerPerProject
BY DEF HandlerHoldsLock, OneHandlerPerProject

\* While nobody holds a project's lock, none of its jobs is in a handler.
LEMMA UnlockedMeansUnhandled ==
    ASSUME HandlerHoldsLock, NEW p \in Projects, lock[p] = None
    PROVE  \A w \in Workers : InHandler(w) => ProjectOf[worker[w].job] # p
BY OutboxAssumption DEF HandlerHoldsLock

\* A thread in a handler works on a row of the table.
LEMMA HandlerTypes ==
    ASSUME TypeOK, HandlerHoldsLock, NEW w \in Workers, InHandler(w)
    PROVE  /\ worker[w] \in WorkerType /\ worker[w].job \in Jobs
           /\ ProjectOf[worker[w].job] \in Projects
           /\ row[worker[w].job] \in RowType
BY OutboxAssumption DEF TypeOK, HandlerHoldsLock

-----------------------------------------------------------------------------
(* Type correctness *)

\* A thread between sweeps is a thread.
LEMMA ParkedType == Parked \in WorkerType
BY DEF Parked, WorkerType, MaybePayload

\* The absent row is a row.
LEMMA NoRowType == NoRow \in RowType
BY DEF NoRow, RowType, Statuses, MaybePayload

\* The initial table, locks and threads are well typed.
LEMMA InitType == Init => TypeOK
BY ParkedType, NoRowType DEF Init, TypeOK, MaybePayload

\* The initial table, with nothing enqueued and no thread at work.
LEMMA InitInv == Init => IInv
<1> SUFFICES ASSUME Init
             PROVE  IInv
    OBVIOUS
<1>1. TypeOK
      BY InitType
<1>2. \A w \in Workers : ~InHandler(w) /\ worker[w].pc # "completing"
      BY DEF Init, InHandler, Parked
<1>3. \A j \in Jobs : row[j].status # "succeeded"
      BY DEF Init, NoRow
<1> QED
    BY <1>1, <1>2, <1>3 DEF IInv, HandlerInv, HandlerHoldsLock, HandlerOwnsItsClaim, ReturnedMeansWritten,
       SuccessMeansEffect

\* What import_package writes into the table are rows of the table.
LEMMA RestoredRowsType ==
    ASSUME NEW p \in Projects, NEW rows \in RestoredRows(p), NEW j \in Jobs, ProjectOf[j] = p
    PROVE  /\ rows[j] \in RowType
           /\ rows[j].status \in {"absent", "pending", "succeeded"}
<1>1. rows \in [JobsOf(p) -> {NoRow} \cup
                [status: {"pending", "succeeded"}, payload: PackagePayloads,
                 attempt: {0, 1}, lease: {"none"}]]
      BY DEF RestoredRows
<1>2. j \in JobsOf(p)
      BY DEF JobsOf
<1>3. CASE rows[j] = NoRow
      BY <1>3, NoRowType DEF NoRow
<1>4. CASE rows[j] \in [status: {"pending", "succeeded"}, payload: PackagePayloads,
                        attempt: {0, 1}, lease: {"none"}]
      BY <1>4 DEF RowType, Statuses, MaybePayload
<1> QED
    BY <1>1, <1>2, <1>3, <1>4

\* Commits, retries, lease expiry and restores keep the types.
LEMMA RequestType ==
    ASSUME TypeOK,
           \/ \E j \in Jobs, d \in Payloads : Enqueue(j, d)
           \/ \E j \in Jobs : Retry(j) \/ ExpireLease(j)
           \/ \E p \in Projects : \E rows \in RestoredRows(p) : Restore(p, rows)
    PROVE  TypeOK'
<1> USE DEF TypeOK
<1>1. ASSUME NEW j \in Jobs, NEW d \in Payloads, Enqueue(j, d)
      PROVE  TypeOK'
  <2>1. [NoRow EXCEPT !.status = "pending", !.payload = d] \in RowType
        BY DEF NoRow, RowType, Statuses, MaybePayload
  <2> QED BY <1>1, <2>1 DEF Enqueue
<1>2. ASSUME NEW j \in Jobs, Retry(j) \/ ExpireLease(j)
      PROVE  TypeOK'
  <2>1. /\ [row[j] EXCEPT !.status = "pending", !.lease = "none"] \in RowType
        /\ [row[j] EXCEPT !.lease = "expired"] \in RowType
        BY DEF RowType, Statuses
  <2> QED BY <1>2, <2>1 DEF Retry, ExpireLease
<1>3. ASSUME NEW p \in Projects, NEW rows \in RestoredRows(p), Restore(p, rows)
      PROVE  TypeOK'
  <2>1. \A j \in Jobs : ProjectOf[j] = p => rows[j] \in RowType
        BY RestoredRowsType
  <2>2. row' \in [Jobs -> RowType]
        BY <1>3, <2>1 DEF Restore
  <2>3. \A j \in Jobs : ProjectOf[j] = p => rows[j].payload \in MaybePayload
        BY <2>1 DEF RowType
  <2>4. None \in MaybePayload
        BY DEF MaybePayload
  <2>5. effect' \in [Jobs -> MaybePayload]
        BY <1>3, <2>3, <2>4 DEF Restore
  <2> QED BY <1>3, <2>2, <2>5 DEF Restore
<1> QED
    BY <1>1, <1>2, <1>3

\* Every step of a sweep keeps the types.
LEMMA SweepType ==
    ASSUME TypeOK, HandlerHoldsLock, NEW w \in Workers, Sweep(w)
    PROVE  TypeOK'
<1> USE DEF TypeOK
<1> DEFINE k == worker[w]
<1>1. k \in WorkerType
      OBVIOUS
<1>2. /\ [Parked EXCEPT !.pc = "resuming"] \in WorkerType
      /\ [Parked EXCEPT !.pc = "draining", !.projects = k.projects, !.listed = k.listed] \in WorkerType
      BY <1>1 DEF Parked, WorkerType, MaybePayload
<1>3. CASE BeginSweep(w)
  <2> DEFINE expired == {j \in Jobs : row[j].status = "processing" /\ row[j].lease = "expired"}
  <2>1. [k EXCEPT !.pc = "recovering", !.stale = expired] \in WorkerType
        BY <1>1 DEF WorkerType
  <2> QED BY <1>3, <2>1 DEF BeginSweep
<1>4. CASE RecoverStale(w)
  <2>1. \A j \in Jobs : [row[j] EXCEPT !.status = "pending", !.lease = "none"] \in RowType
        BY DEF RowType, Statuses
  <2> QED BY <1>4, <2>1, <1>2, ParkedType DEF RecoverStale
<1>5. CASE ListProjects(w)
  <2> DEFINE found == {p \in Projects : \E j \in JobsOf(p) : Pending(j)}
  <2>1. [k EXCEPT !.pc = "draining", !.projects = found] \in WorkerType
        BY <1>1 DEF WorkerType
  <2> QED BY <1>5, <2>1 DEF ListProjects
<1>6. CASE EndSweep(w)
      BY <1>6, ParkedType DEF EndSweep
<1>7. ASSUME NEW p \in Projects, ListJobs(w, p)
      PROVE  TypeOK'
  <2> DEFINE found == {j \in JobsOf(p) : Pending(j)}
  <2>1. found \subseteq Jobs
        BY DEF JobsOf
  <2>2. [k EXCEPT !.projects = @ \ {p}, !.listed = found] \in WorkerType
        BY <1>1, <2>1 DEF WorkerType
  <2> QED BY <1>7, <2>2 DEF ListJobs
<1>8. ASSUME NEW j \in Jobs, ClaimJob(w, j)
      PROVE  TypeOK'
  <2> DEFINE claimed == [row[j] EXCEPT !.status = "processing", !.lease = "fresh",
                                       !.attempt = row[j].attempt + 1]
             busy == [k EXCEPT !.pc = "handling", !.listed = k.listed \ {j}, !.job = j,
                               !.payload = row[j].payload, !.attempt = row[j].attempt + 1]
             passed == [k EXCEPT !.listed = k.listed \ {j}]
  <2>1. row[j] \in RowType
        OBVIOUS
  <2>2. row[j].attempt + 1 \in Nat /\ row[j].payload \in MaybePayload
        BY <2>1 DEF RowType
  <2>3. claimed \in RowType
        BY <2>1, <2>2 DEF RowType, Statuses
  <2>6. k.listed \ {j} \subseteq Jobs
        BY <1>1 DEF WorkerType
  <2>7. busy \in WorkerType
        BY <1>1, <2>2, <2>6 DEF WorkerType
  <2>8. passed \in WorkerType
        BY <1>1, <2>6 DEF WorkerType
  <2>4. CASE Pending(j)
    <3>1. /\ row' = [row EXCEPT ![j] = claimed]
          /\ worker' = [worker EXCEPT ![w] = busy]
          /\ lock' = [lock EXCEPT ![ProjectOf[j]] = w]
          BY <1>8, <2>4 DEF ClaimJob
    <3> HIDE DEF claimed, busy
    <3> QED BY <1>8, <2>3, <2>7, <3>1 DEF ClaimJob
  <2>5. CASE ~Pending(j)
    <3>1. worker' = [worker EXCEPT ![w] = passed] /\ UNCHANGED <<row, lock>>
          BY <1>8, <2>5 DEF ClaimJob
    <3> HIDE DEF passed
    <3> QED BY <1>8, <2>8, <3>1 DEF ClaimJob
  <2> QED BY <2>4, <2>5
<1>9. ASSUME NEW ok \in BOOLEAN, NEW wrote \in BOOLEAN, RunHandler(w, ok, wrote)
      PROVE  TypeOK'
  <2>1. [k EXCEPT !.pc = "completing", !.ok = ok] \in WorkerType
        BY <1>1 DEF WorkerType
  <2>2. k.payload \in MaybePayload
        BY <1>1 DEF WorkerType
  <2>3. effect' \in [Jobs -> MaybePayload]
        BY <1>9, <2>2 DEF RunHandler
  <2> QED BY <1>9, <2>1, <2>3 DEF RunHandler
<1>10. CASE CompleteJob(w)
  <2>1. k.job \in Jobs
        BY <1>10, HandlerTypes DEF CompleteJob, InHandler
  <2>2. row[k.job] \in RowType
        BY <2>1
  <2>3. /\ [row[k.job] EXCEPT !.status = "succeeded", !.lease = "none"] \in RowType
        /\ [row[k.job] EXCEPT !.status = "failed", !.lease = "none"] \in RowType
        BY <2>2 DEF RowType, Statuses
  <2>4. row' \in [Jobs -> RowType]
        BY <1>10, <2>1, <2>3 DEF CompleteJob
  <2> QED BY <1>10, <2>4, <1>2 DEF CompleteJob
<1> QED
    BY <1>3, <1>4, <1>5, <1>6, <1>7, <1>8, <1>9, <1>10 DEF Sweep

\* Store errors, starts, stops and crashes keep the types.
LEMMA LifeCycleType ==
    ASSUME TypeOK,
           \/ \E w \in Workers : StoreError(w) \/ Start(w)
           \/ Stop \/ StopReturns \/ Crash
    PROVE  TypeOK'
<1> USE DEF TypeOK
<1>1. ASSUME NEW w \in Workers, StoreError(w)
      PROVE  TypeOK'
      BY <1>1, ParkedType DEF StoreError, Release
<1>2. ASSUME NEW w \in Workers, Start(w)
      PROVE  TypeOK'
      BY <1>2 DEF Start
<1>3. CASE Stop
      BY <1>3 DEF Stop
<1>4. CASE StopReturns
      BY <1>4 DEF StopReturns
<1>5. CASE Crash
      BY <1>5, ParkedType DEF Crash
<1> QED
    BY <1>1, <1>2, <1>3, <1>4, <1>5

-----------------------------------------------------------------------------
(* The rest of the inductive invariant *)

\* A step that leaves rows, effects and locks alone and every thread that ends
\* up in a handler as it was.
LEMMA HandlersUntouched ==
    ASSUME HandlerInv, UNCHANGED <<row, effect, lock>>,
           \A w \in Workers : InHandler(w)' => worker'[w] = worker[w]
    PROVE  HandlerInv'
<1>1. \A w \in Workers : InHandler(w)' => InHandler(w)
      BY DEF InHandler
<1>2. \A w \in Workers : worker'[w].pc = "completing" => InHandler(w)'
      BY DEF InHandler
<1> QED
    BY <1>1, <1>2 DEF HandlerInv, HandlerHoldsLock, HandlerOwnsItsClaim, ReturnedMeansWritten,
       SuccessMeansEffect, Unfinished

\* A thread in a handler is on a row that a commit or a retry cannot touch.
LEMMA RequestInv ==
    ASSUME TypeOK, HandlerInv,
           \/ \E j \in Jobs, d \in Payloads : Enqueue(j, d)
           \/ \E j \in Jobs : Retry(j) \/ ExpireLease(j)
           \/ \E p \in Projects : \E rows \in RestoredRows(p) : Restore(p, rows)
    PROVE  HandlerInv'
<1>1. \A w \in Workers : InHandler(w) => worker[w].job \in Jobs /\ Unfinished(worker[w].job)
      BY DEF HandlerInv, HandlerHoldsLock, HandlerOwnsItsClaim
<1>2. ASSUME NEW j \in Jobs, NEW d \in Payloads, Enqueue(j, d)
      PROVE  HandlerInv'
  <2>1. /\ row[j].status = "absent"
        /\ row' = [row EXCEPT ![j] = [NoRow EXCEPT !.status = "pending", !.payload = d]]
        /\ UNCHANGED <<effect, lock, worker>>
        BY <1>2 DEF Enqueue
  <2>2. \A w \in Workers : InHandler(w) => worker[w].job # j
        BY <1>1, <2>1 DEF Unfinished
  <2>3. row'[j].status # "succeeded"
        BY <2>1 DEF TypeOK, NoRow
  <2>4. \A i \in Jobs : i # j => row'[i] = row[i]
        BY <2>1 DEF TypeOK
  <2>5. HandlerHoldsLock' /\ ReturnedMeansWritten'
        BY <2>1 DEF HandlerInv, HandlerHoldsLock, ReturnedMeansWritten, InHandler
  <2>6. HandlerOwnsItsClaim'
    <3> SUFFICES ASSUME NEW v \in Workers, InHandler(v)'
                 PROVE  /\ Unfinished(worker[v].job)'
                        /\ row'[worker'[v].job].attempt = worker'[v].attempt
                        /\ row'[worker'[v].job].payload = worker'[v].payload
        BY DEF HandlerOwnsItsClaim
    <3>1. InHandler(v) /\ worker'[v] = worker[v]
          BY <2>1 DEF InHandler
    <3> QED BY <1>1, <2>2, <2>4, <3>1 DEF HandlerInv, HandlerOwnsItsClaim, Unfinished
  <2>7. SuccessMeansEffect'
        BY <2>1, <2>3, <2>4 DEF HandlerInv, SuccessMeansEffect
  <2> QED BY <2>5, <2>6, <2>7 DEF HandlerInv
<1>3. ASSUME NEW j \in Jobs, Retry(j)
      PROVE  HandlerInv'
  <2>1. /\ row[j].status = "failed"
        /\ row' = [row EXCEPT ![j].status = "pending", ![j].lease = "none"]
        /\ UNCHANGED <<effect, lock, worker>>
        BY <1>3 DEF Retry
  <2>2. \A w \in Workers : InHandler(w) => worker[w].job # j
        BY <1>1, <2>1 DEF Unfinished
  <2>3. row'[j].status # "succeeded"
        BY <2>1 DEF TypeOK, RowType
  <2>4. \A i \in Jobs : i # j => row'[i] = row[i]
        BY <2>1 DEF TypeOK
  <2>5. HandlerHoldsLock' /\ ReturnedMeansWritten'
        BY <2>1 DEF HandlerInv, HandlerHoldsLock, ReturnedMeansWritten, InHandler
  <2>6. HandlerOwnsItsClaim'
    <3> SUFFICES ASSUME NEW v \in Workers, InHandler(v)'
                 PROVE  /\ Unfinished(worker[v].job)'
                        /\ row'[worker'[v].job].attempt = worker'[v].attempt
                        /\ row'[worker'[v].job].payload = worker'[v].payload
        BY DEF HandlerOwnsItsClaim
    <3>1. InHandler(v) /\ worker'[v] = worker[v]
          BY <2>1 DEF InHandler
    <3> QED BY <1>1, <2>2, <2>4, <3>1 DEF HandlerInv, HandlerOwnsItsClaim, Unfinished
  <2>7. SuccessMeansEffect'
        BY <2>1, <2>3, <2>4 DEF HandlerInv, SuccessMeansEffect
  <2> QED BY <2>5, <2>6, <2>7 DEF HandlerInv
<1>4. ASSUME NEW j \in Jobs, ExpireLease(j)
      PROVE  HandlerInv'
  <2>1. /\ row' = [row EXCEPT ![j].lease = "expired"]
        /\ UNCHANGED <<effect, lock, worker>>
        BY <1>4 DEF ExpireLease
  <2>2. \A i \in Jobs : /\ row'[i].status = row[i].status
                        /\ row'[i].attempt = row[i].attempt
                        /\ row'[i].payload = row[i].payload
        BY <2>1 DEF TypeOK, RowType
  <2>3. HandlerHoldsLock' /\ ReturnedMeansWritten'
        BY <2>1 DEF HandlerInv, HandlerHoldsLock, ReturnedMeansWritten, InHandler
  <2>4. HandlerOwnsItsClaim'
    <3> SUFFICES ASSUME NEW v \in Workers, InHandler(v)'
                 PROVE  /\ Unfinished(worker[v].job)'
                        /\ row'[worker'[v].job].attempt = worker'[v].attempt
                        /\ row'[worker'[v].job].payload = worker'[v].payload
        BY DEF HandlerOwnsItsClaim
    <3>1. InHandler(v) /\ worker'[v] = worker[v]
          BY <2>1 DEF InHandler
    <3> QED BY <1>1, <2>1, <2>2, <3>1 DEF HandlerInv, HandlerOwnsItsClaim, Unfinished
  <2>5. SuccessMeansEffect'
        BY <2>1, <2>2 DEF HandlerInv, SuccessMeansEffect
  <2> QED BY <2>3, <2>4, <2>5 DEF HandlerInv
<1>5. ASSUME NEW p \in Projects, NEW rows \in RestoredRows(p), Restore(p, rows)
      PROVE  HandlerInv'
  <2>1. /\ lock[p] = None
        /\ row' = [j \in Jobs |-> IF ProjectOf[j] = p THEN rows[j] ELSE row[j]]
        /\ effect' = [j \in Jobs |->
                        IF ProjectOf[j] # p THEN effect[j]
                        ELSE IF rows[j].status = "succeeded" THEN rows[j].payload ELSE None]
        /\ UNCHANGED <<lock, worker>>
        BY <1>5 DEF Restore
  <2>2. \A w \in Workers : InHandler(w) => ProjectOf[worker[w].job] # p
        BY <2>1, UnlockedMeansUnhandled DEF HandlerInv
  <2>3. \A w \in Workers : InHandler(w) => /\ row'[worker[w].job] = row[worker[w].job]
                                           /\ effect'[worker[w].job] = effect[worker[w].job]
        BY <1>1, <2>1, <2>2
  <2>4. HandlerHoldsLock' /\ HandlerOwnsItsClaim' /\ ReturnedMeansWritten'
        BY <1>1, <2>1, <2>3 DEF HandlerInv, HandlerHoldsLock, HandlerOwnsItsClaim,
           ReturnedMeansWritten, InHandler, Unfinished
  <2>5. SuccessMeansEffect'
        BY <2>1 DEF HandlerInv, SuccessMeansEffect
  <2> QED BY <2>4, <2>5 DEF HandlerInv
<1> QED
    BY <1>2, <1>3, <1>4, <1>5

\* A sweep takes the lock before it claims and releases it after it completes, so its
\* steps disturb no other thread's claim.
LEMMA SweepInv ==
    ASSUME TypeOK, HandlerInv, NEW w \in Workers, Sweep(w)
    PROVE  HandlerInv'
<1> DEFINE k == worker[w]
<1>1. \A v \in Workers : InHandler(v) => worker[v].job \in Jobs /\ Unfinished(worker[v].job)
      BY DEF HandlerInv, HandlerHoldsLock, HandlerOwnsItsClaim
<1>2. /\ \A j \in Jobs : ProjectOf[j] \in Projects
      /\ k \in WorkerType
      BY OutboxAssumption DEF TypeOK
<1>3. CASE BeginSweep(w) \/ ListProjects(w) \/ EndSweep(w) \/ \E p \in Projects : ListJobs(w, p)
  <2>1. UNCHANGED <<row, effect, lock>>
        BY <1>3 DEF BeginSweep, ListProjects, EndSweep, ListJobs
  <2>2. worker'[w].pc \notin {"handling", "completing"}
    <3>1. CASE BeginSweep(w)
          BY <3>1, <1>2 DEF BeginSweep, TypeOK, WorkerType
    <3>2. CASE ListProjects(w)
          BY <3>2, <1>2 DEF ListProjects, TypeOK, WorkerType
    <3>3. CASE EndSweep(w)
          BY <3>3 DEF EndSweep, TypeOK, Parked
    <3>4. ASSUME NEW p \in Projects, ListJobs(w, p)
          PROVE  worker'[w].pc = "draining"
          BY <3>4, <1>2 DEF ListJobs, TypeOK, WorkerType
    <3> QED BY <1>3, <3>1, <3>2, <3>3, <3>4
  <2>3. \A v \in Workers : v # w => worker'[v] = worker[v]
        BY <1>3 DEF BeginSweep, ListProjects, EndSweep, ListJobs, TypeOK
  <2> QED BY <2>1, <2>2, <2>3, HandlersUntouched DEF InHandler
<1>4. CASE RecoverStale(w)
  <2>1. /\ UNCHANGED <<effect, lock>>
        /\ \A v \in Workers : v # w => worker'[v] = worker[v]
        /\ worker'[w].pc \notin {"handling", "completing"}
        BY <1>4 DEF RecoverStale, TypeOK, Parked
  <2>2. \A j \in Jobs :
            \/ row'[j] = row[j]
            \/ /\ row[j].status = "processing" /\ row'[j].status = "pending"
               /\ row'[j].attempt = row[j].attempt /\ row'[j].payload = row[j].payload
        BY <1>4 DEF RecoverStale, TypeOK, RowType
  <2>3. HandlerHoldsLock' /\ ReturnedMeansWritten'
        BY <2>1 DEF HandlerInv, HandlerHoldsLock, ReturnedMeansWritten, InHandler
  <2>4. HandlerOwnsItsClaim'
        BY <1>1, <2>1, <2>2 DEF HandlerInv, HandlerOwnsItsClaim, InHandler, Unfinished
  <2>5. SuccessMeansEffect'
        BY <2>1, <2>2 DEF HandlerInv, SuccessMeansEffect
  <2> QED BY <2>3, <2>4, <2>5 DEF HandlerInv
<1>5. ASSUME NEW j \in Jobs, ClaimJob(w, j)
      PROVE  HandlerInv'
  <2>1. CASE ~Pending(j)
    <3>1. /\ UNCHANGED <<row, effect, lock>>
          /\ worker[w].pc = "draining"
          /\ worker' = [worker EXCEPT ![w].listed = @ \ {j}]
          BY <1>5, <2>1 DEF ClaimJob
    <3>2. \A v \in Workers : InHandler(v)' => worker'[v] = worker[v]
          BY <3>1, <1>2 DEF InHandler, TypeOK, WorkerType
    <3> QED BY <3>1, <3>2, HandlersUntouched
  <2>2. CASE Pending(j)
    <3>1. /\ lock[ProjectOf[j]] = None
          /\ lock' = [lock EXCEPT ![ProjectOf[j]] = w]
          /\ row' = [row EXCEPT ![j].status = "processing", ![j].lease = "fresh",
                                ![j].attempt = @ + 1]
          /\ worker' = [worker EXCEPT ![w].pc = "handling", ![w].listed = @ \ {j}, ![w].job = j,
                                      ![w].payload = row[j].payload,
                                      ![w].attempt = row[j].attempt + 1]
          /\ UNCHANGED effect
          /\ k.pc = "draining"
          BY <1>5, <2>2 DEF ClaimJob
    <3>2. /\ worker'[w].pc = "handling" /\ worker'[w].job = j
          /\ worker'[w].payload = row[j].payload /\ worker'[w].attempt = row[j].attempt + 1
          BY <3>1, <1>2 DEF TypeOK, WorkerType
    <3>3. /\ row'[j].status = "processing" /\ row'[j].payload = row[j].payload
          /\ row'[j].attempt = row[j].attempt + 1
          BY <3>1 DEF TypeOK, RowType
    <3>4. /\ \A v \in Workers : v # w => worker'[v] = worker[v]
          /\ \A i \in Jobs : i # j => row'[i] = row[i]
          /\ \A p \in Projects : p # ProjectOf[j] => lock'[p] = lock[p]
          /\ lock'[ProjectOf[j]] = w
          BY <3>1, <1>2 DEF TypeOK
    <3>5. \A v \in Workers : v # w /\ InHandler(v) =>
              /\ ProjectOf[worker[v].job] # ProjectOf[j]
              /\ worker[v].job # j
          BY <3>1, <1>1, <1>2, UnlockedMeansUnhandled DEF HandlerInv
    <3>6. HandlerHoldsLock'
          BY <3>2, <3>4, <3>5, <1>1, <1>2 DEF HandlerInv, HandlerHoldsLock, InHandler
    <3>7. HandlerOwnsItsClaim'
          BY <3>2, <3>3, <3>4, <3>5, <1>1 DEF HandlerInv, HandlerOwnsItsClaim, InHandler, Unfinished
    <3>8. ReturnedMeansWritten'
      <4>1. \A v \in Workers : worker'[v].pc = "completing" => worker'[v] = worker[v]
            BY <3>2, <3>4
      <4> QED BY <3>1, <4>1 DEF HandlerInv, ReturnedMeansWritten
    <3>9. SuccessMeansEffect'
          BY <3>1, <3>3, <3>4 DEF HandlerInv, SuccessMeansEffect
    <3> QED BY <3>6, <3>7, <3>8, <3>9 DEF HandlerInv
  <2> QED BY <2>1, <2>2
<1>6. ASSUME NEW ok \in BOOLEAN, NEW wrote \in BOOLEAN, RunHandler(w, ok, wrote)
      PROVE  HandlerInv'
  <2>1. /\ k.pc = "handling"
        /\ ok => wrote
        /\ effect' = IF wrote THEN [effect EXCEPT ![k.job] = k.payload] ELSE effect
        /\ worker' = [worker EXCEPT ![w].pc = "completing", ![w].ok = ok]
        /\ UNCHANGED <<row, lock>>
        BY <1>6 DEF RunHandler
  <2>2. /\ InHandler(w)
        /\ worker'[w].pc = "completing" /\ worker'[w].job = k.job /\ worker'[w].ok = ok
        /\ worker'[w].payload = k.payload /\ worker'[w].attempt = k.attempt
        BY <2>1, <1>2 DEF TypeOK, WorkerType, InHandler
  <2>3. \A v \in Workers : v # w => worker'[v] = worker[v]
        BY <2>1 DEF TypeOK
  <2>4. \A v \in Workers : v # w /\ InHandler(v) => worker[v].job # k.job
        BY <2>2, LocksExclude DEF HandlerInv, OneHandlerPerProject
  <2>5. /\ wrote => effect'[k.job] = k.payload
        /\ \A i \in Jobs : i # k.job => effect'[i] = effect[i]
        BY <2>1, <2>2, <1>1 DEF TypeOK
  <2>6. HandlerHoldsLock' /\ HandlerOwnsItsClaim'
    <3>1. \A v \in Workers : InHandler(v)' =>
              /\ InHandler(v) /\ worker'[v].job = worker[v].job
              /\ worker'[v].payload = worker[v].payload /\ worker'[v].attempt = worker[v].attempt
          BY <2>2, <2>3 DEF InHandler
    <3>2. HandlerHoldsLock'
          BY <2>1, <3>1 DEF HandlerInv, HandlerHoldsLock
    <3>3. HandlerOwnsItsClaim'
      <4> SUFFICES ASSUME NEW v \in Workers, InHandler(v)'
                   PROVE  /\ Unfinished(worker[v].job)'
                          /\ row'[worker'[v].job].attempt = worker'[v].attempt
                          /\ row'[worker'[v].job].payload = worker'[v].payload
          BY DEF HandlerOwnsItsClaim
      <4> QED BY <2>1, <3>1 DEF HandlerInv, HandlerOwnsItsClaim, Unfinished
    <3> QED BY <3>2, <3>3
  <2>7. ReturnedMeansWritten'
    <3>1. \A v \in Workers : v # w /\ worker'[v].pc = "completing" =>
              /\ worker'[v] = worker[v]
              /\ effect'[worker[v].job] = effect[worker[v].job]
          BY <2>3, <2>4, <2>5, <1>1 DEF InHandler
    <3>2. worker'[w].ok => effect'[worker'[w].job] = worker'[w].payload
          BY <2>1, <2>2, <2>5
    <3> QED BY <3>1, <3>2 DEF HandlerInv, ReturnedMeansWritten
  <2>8. SuccessMeansEffect'
        BY <2>1, <2>2, <2>5, <1>1 DEF HandlerInv, SuccessMeansEffect, Unfinished
  <2> QED BY <2>6, <2>7, <2>8 DEF HandlerInv
<1>7. CASE CompleteJob(w)
  <2>1. /\ k.pc = "completing"
        /\ row' = IF row[k.job].status = "processing"
                  THEN [row EXCEPT ![k.job].status = IF k.ok THEN "succeeded" ELSE "failed",
                                   ![k.job].lease = "none"]
                  ELSE row
        /\ lock' = [lock EXCEPT ![ProjectOf[k.job]] = None]
        /\ UNCHANGED effect
        /\ worker'[w].pc = "draining"
        /\ \A v \in Workers : v # w => worker'[v] = worker[v]
        BY <1>7 DEF CompleteJob, TypeOK, Parked
  <2>2. InHandler(w) /\ k.job \in Jobs /\ ProjectOf[k.job] \in Projects
        BY <2>1, <1>1, <1>2 DEF InHandler
  <2>3. \A v \in Workers : v # w /\ InHandler(v) =>
            /\ ProjectOf[worker[v].job] # ProjectOf[k.job]
            /\ worker[v].job # k.job
        BY <2>2, LocksExclude DEF HandlerInv, OneHandlerPerProject
  <2>4. \A i \in Jobs : i # k.job => row'[i] = row[i]
        BY <2>1, <2>2 DEF TypeOK
  <2>5. HandlerHoldsLock'
        BY <2>1, <2>2, <2>3, <1>1, <1>2 DEF HandlerInv, HandlerHoldsLock, InHandler, TypeOK
  <2>8. \A v \in Workers : InHandler(v)' =>
            v # w /\ InHandler(v) /\ worker'[v] = worker[v]
        BY <2>1 DEF InHandler
  <2>9. HandlerOwnsItsClaim'
        BY <2>8, <2>3, <2>4, <1>1 DEF HandlerInv, HandlerOwnsItsClaim, Unfinished
  <2>10. ReturnedMeansWritten'
    <3>1. \A v \in Workers : worker'[v].pc = "completing" => InHandler(v)'
          BY DEF InHandler
    <3> QED BY <2>1, <2>8, <3>1 DEF HandlerInv, ReturnedMeansWritten
  <2>7. SuccessMeansEffect'
    <3>1. row'[k.job].payload = row[k.job].payload
          BY <2>1, <2>2 DEF TypeOK, RowType
    <3>2. row'[k.job].status = "succeeded" => k.ok \/ row'[k.job].status = row[k.job].status
          BY <2>1, <2>2 DEF TypeOK, RowType
    <3>3. k.ok => effect[k.job] = row[k.job].payload
          BY <2>1, <2>2 DEF HandlerInv, ReturnedMeansWritten, HandlerOwnsItsClaim
    <3> QED BY <2>1, <2>2, <2>4, <3>1, <3>2, <3>3 DEF HandlerInv, SuccessMeansEffect
  <2> QED BY <2>5, <2>9, <2>10, <2>7 DEF HandlerInv
<1> QED
    BY <1>3, <1>4, <1>5, <1>6, <1>7 DEF Sweep

\* An interrupted thread leaves its handler and its lock together.
LEMMA LifeCycleInv ==
    ASSUME TypeOK, HandlerInv,
           \/ \E w \in Workers : StoreError(w) \/ Start(w)
           \/ Stop \/ StopReturns \/ Crash
    PROVE  HandlerInv'
<1>1. ASSUME NEW w \in Workers, StoreError(w)
      PROVE  HandlerInv'
  <2>1. /\ UNCHANGED <<row, effect>>
        /\ lock' = [p \in Projects |-> IF lock[p] = w THEN None ELSE lock[p]]
        /\ worker'[w].pc = "idle"
        /\ \A v \in Workers : v # w => worker'[v] = worker[v]
        BY <1>1 DEF StoreError, Release, TypeOK, Parked
  <2>2. \A v \in Workers : InHandler(v)' => v # w /\ InHandler(v)
        BY <2>1 DEF InHandler
  <2>3. HandlerHoldsLock'
        BY <2>1, <2>2, OutboxAssumption DEF HandlerInv, HandlerHoldsLock
  <2>4. HandlerOwnsItsClaim' /\ ReturnedMeansWritten' /\ SuccessMeansEffect'
        BY <2>1, <2>2 DEF HandlerInv, HandlerOwnsItsClaim, ReturnedMeansWritten,
           SuccessMeansEffect, Unfinished
  <2> QED BY <2>3, <2>4 DEF HandlerInv
<1>2. CASE Stop \/ StopReturns \/ \E w \in Workers : Start(w)
  <2>1. UNCHANGED <<row, effect, lock, worker>>
        BY <1>2 DEF Stop, StopReturns, Start
  <2> QED BY <2>1, HandlersUntouched
<1>3. CASE Crash
  <2>1. /\ UNCHANGED <<row, effect>>
        /\ \A w \in Workers : worker'[w].pc = "idle"
        BY <1>3 DEF Crash, Parked
  <2> QED
      BY <2>1 DEF HandlerInv, HandlerHoldsLock, HandlerOwnsItsClaim, ReturnedMeansWritten,
         SuccessMeansEffect, InHandler
<1> QED
    BY <1>1, <1>2, <1>3

-----------------------------------------------------------------------------
(* Theorems of the specification *)

\* Every step of the dispatcher, of a request and of the application's life
\* cycle keeps the inductive invariant.
LEMMA NextInv == IInv /\ [Next]_vars => IInv'
<1> SUFFICES ASSUME TypeOK, HandlerInv, [Next]_vars
             PROVE  TypeOK' /\ HandlerInv'
    BY DEF IInv
<1>1. CASE \/ \E j \in Jobs, d \in Payloads : Enqueue(j, d)
           \/ \E j \in Jobs : Retry(j) \/ ExpireLease(j)
           \/ \E p \in Projects : \E rows \in RestoredRows(p) : Restore(p, rows)
      BY <1>1, RequestType, RequestInv
<1>2. ASSUME NEW w \in Workers, Sweep(w)
      PROVE  TypeOK' /\ HandlerInv'
      BY <1>2, SweepType, SweepInv DEF HandlerInv
<1>3. CASE \/ \E w \in Workers : StoreError(w) \/ Start(w)
           \/ Stop \/ StopReturns \/ Crash
      BY <1>3, LifeCycleType, LifeCycleInv
<1>4. CASE UNCHANGED vars
  <2>1. TypeOK'
        BY <1>4 DEF TypeOK, vars
  <2> QED BY <1>4, <2>1, HandlersUntouched DEF vars
<1> QED
    BY <1>1, <1>2, <1>3, <1>4 DEF Next

\* The inductive invariant holds in every reachable state.
THEOREM Inductive == Spec => []IInv
<1>1. Init => IInv
      BY InitInv
<1>2. IInv /\ [Next]_vars => IInv'
      BY NextInv
<1> QED
    BY <1>1, <1>2, PTL DEF Spec

\* Rows, locks, threads and the loop keep their types.
THEOREM TypeCorrect == Spec => []TypeOK
<1>1. IInv => TypeOK
      BY DEF IInv
<1> QED
    BY <1>1, Inductive, PTL

\* OutboxService._run under project_operation: however many threads of stopped
\* loops are still at work, a project's handlers run one after the other.
THEOREM HandlersAreSerial == Spec => []OneHandlerPerProject
<1>1. IInv => OneHandlerPerProject
      BY LocksExclude DEF IInv, HandlerInv
<1> QED
    BY <1>1, Inductive, PTL

\* complete_outbox_job's test of the status is enough: the row a handler
\* completes is the claim it made, and nobody finished it in between.
THEOREM ClaimsAreOwned == Spec => []HandlerOwnsItsClaim
<1>1. IInv => HandlerOwnsItsClaim
      BY DEF IInv, HandlerInv
<1> QED
    BY <1>1, Inductive, PTL

\* A succeeded row has its effect in the files, whatever was restored,
\* recovered, retried or crashed.
THEOREM SuccessIsReal == Spec => []SuccessMeansEffect
<1>1. IInv => SuccessMeansEffect
      BY DEF IInv, HandlerInv
<1> QED
    BY <1>1, Inductive, PTL

-----------------------------------------------------------------------------
(* The dispatcher implements the serial executor *)

\* A job in a handler has an unfinished row.
LEMMA HandledIsUnfinished ==
    ASSUME IInv, NEW j \in Jobs, Handled(j)
    PROVE  Unfinished(j)
BY DEF IInv, HandlerInv, HandlerOwnsItsClaim, Handled

\* The phase of a job changes only with its handler or with the end of its row.
LEMMA SamePhase ==
    ASSUME NEW j \in Jobs, Handled(j)' <=> Handled(j),
           row'[j].status = row[j].status \/ (Unfinished(j) /\ Unfinished(j)')
    PROVE  PhaseOf(j)' = PhaseOf(j)
BY DEF PhaseOf, Unfinished

\* A job is running in the executor exactly while a thread is in its handler.
LEMMA PhaseIsPhase ==
    ASSUME TypeOK, NEW j \in Jobs
    PROVE  /\ PhaseOf(j) \in Executor!Phases
           /\ PhaseOf(j) = "running" <=> Handled(j)
BY DEF TypeOK, RowType, Statuses, PhaseOf, Unfinished, Executor!Phases

\* While a project's lock is free, none of its jobs is running.
LEMMA UnlockedMeansNotRunning ==
    ASSUME IInv, NEW p \in Projects, lock[p] = None
    PROVE  Executor!Running(p) = {}
<1>1. \A j \in Jobs : ProjectOf[j] = p => ~Handled(j)
      BY UnlockedMeansUnhandled DEF IInv, HandlerInv, Handled
<1>2. \A j \in Jobs : ProjectOf[j] = p => PhaseOf(j) # "running"
      BY <1>1, PhaseIsPhase DEF IInv
<1> QED
    BY <1>2 DEF Executor!Running

\* The empty table is the executor with nothing submitted.
LEMMA InitRefines == Init => Executor!Init
<1> SUFFICES ASSUME Init
             PROVE  Executor!Init
    OBVIOUS
<1>1. \A j \in Jobs : PhaseOf(j) = "absent" /\ row[j].payload = None
      BY DEF Init, NoRow, PhaseOf, Handled, InHandler, Unfinished, Parked
<1> QED
    BY <1>1 DEF Init, Executor!Init

\* A step that leaves the rows' payloads, the effects and every phase alone.
LEMMA StutterRefines ==
    ASSUME \A j \in Jobs : PhaseOf(j)' = PhaseOf(j) /\ row'[j].payload = row[j].payload,
           UNCHANGED effect
    PROVE  UNCHANGED Executor!vars
BY DEF Executor!vars

\* A step that moves one job to another phase.
LEMMA OnePhaseMoves ==
    ASSUME NEW j \in Jobs, NEW q, PhaseOf(j)' = q,
           \A i \in Jobs : i # j => PhaseOf(i)' = PhaseOf(i)
    PROVE  [i \in Jobs |-> PhaseOf(i)'] = [[i \in Jobs |-> PhaseOf(i)] EXCEPT ![j] = q]
OBVIOUS

\* A step that gives one job another payload.
LEMMA OneContentMoves ==
    ASSUME NEW j \in Jobs, NEW d, row'[j].payload = d,
           \A i \in Jobs : i # j => row'[i].payload = row[i].payload
    PROVE  [i \in Jobs |-> row'[i].payload] = [[i \in Jobs |-> row[i].payload] EXCEPT ![j] = d]
OBVIOUS

\* A step after which every payload is what it was.
LEMMA SameContent ==
    ASSUME \A i \in Jobs : row'[i].payload = row[i].payload
    PROVE  [i \in Jobs |-> row'[i].payload] = [i \in Jobs |-> row[i].payload]
OBVIOUS

\* Commits submit, retries requeue, restores replace; an expiring lease is not seen.
LEMMA RequestRefines ==
    ASSUME IInv,
           \/ \E j \in Jobs, d \in Payloads : Enqueue(j, d)
           \/ \E j \in Jobs : Retry(j) \/ ExpireLease(j)
           \/ \E p \in Projects : \E rows \in RestoredRows(p) : Restore(p, rows)
    PROVE  Executor!Next \/ UNCHANGED Executor!vars
<1>1. ASSUME NEW j \in Jobs, NEW d \in Payloads, Enqueue(j, d)
      PROVE  Executor!Submit(j, d)
  <2>1. /\ row[j].status = "absent"
        /\ row' = [row EXCEPT ![j] = [NoRow EXCEPT !.status = "pending", !.payload = d]]
        /\ UNCHANGED <<effect, worker>>
        BY <1>1 DEF Enqueue
  <2>2. /\ row'[j].status = "pending" /\ row'[j].payload = d
        /\ \A i \in Jobs : i # j => row'[i] = row[i]
        BY <2>1 DEF IInv, TypeOK, NoRow
  <2>3. \A i \in Jobs : Handled(i)' <=> Handled(i)
        BY <2>1 DEF Handled, InHandler
  <2>4. ~Handled(j)
        BY <2>1, HandledIsUnfinished DEF Unfinished
  <2>5. PhaseOf(j) = "absent" /\ PhaseOf(j)' = "queued"
        BY <2>1, <2>2, <2>3, <2>4 DEF PhaseOf, Unfinished
  <2>6. \A i \in Jobs : i # j => PhaseOf(i)' = PhaseOf(i)
        BY <2>2, <2>3, SamePhase
  <2>7. [i \in Jobs |-> PhaseOf(i)'] = [[i \in Jobs |-> PhaseOf(i)] EXCEPT ![j] = "queued"]
        BY <2>5, <2>6, OnePhaseMoves
  <2>8. [i \in Jobs |-> row'[i].payload] = [[i \in Jobs |-> row[i].payload] EXCEPT ![j] = d]
        BY <2>2, OneContentMoves
  <2> QED BY <2>1, <2>5, <2>7, <2>8 DEF Executor!Submit
<1>2. ASSUME NEW j \in Jobs, Retry(j)
      PROVE  Executor!Requeue(j)
  <2>1. /\ row[j].status = "failed"
        /\ row' = [row EXCEPT ![j].status = "pending", ![j].lease = "none"]
        /\ UNCHANGED <<effect, worker>>
        BY <1>2 DEF Retry
  <2>2. /\ row'[j].status = "pending" /\ row'[j].payload = row[j].payload
        /\ \A i \in Jobs : i # j => row'[i] = row[i]
        BY <2>1 DEF IInv, TypeOK, RowType
  <2>3. \A i \in Jobs : Handled(i)' <=> Handled(i)
        BY <2>1 DEF Handled, InHandler
  <2>4. ~Handled(j)
        BY <2>1, HandledIsUnfinished DEF Unfinished
  <2>5. PhaseOf(j) = "failed" /\ PhaseOf(j)' = "queued"
        BY <2>1, <2>2, <2>3, <2>4 DEF PhaseOf, Unfinished
  <2>6. \A i \in Jobs : i # j => PhaseOf(i)' = PhaseOf(i)
        BY <2>2, <2>3, SamePhase
  <2>7. [i \in Jobs |-> PhaseOf(i)'] = [[i \in Jobs |-> PhaseOf(i)] EXCEPT ![j] = "queued"]
        BY <2>5, <2>6, OnePhaseMoves
  <2>8. [i \in Jobs |-> row'[i].payload] = [i \in Jobs |-> row[i].payload]
        BY <2>2, SameContent
  <2> QED BY <2>1, <2>5, <2>7, <2>8 DEF Executor!Requeue
<1>3. ASSUME NEW j \in Jobs, ExpireLease(j)
      PROVE  UNCHANGED Executor!vars
  <2>1. /\ row' = [row EXCEPT ![j].lease = "expired"]
        /\ UNCHANGED <<effect, worker>>
        BY <1>3 DEF ExpireLease
  <2>2. \A i \in Jobs : row'[i].status = row[i].status /\ row'[i].payload = row[i].payload
        BY <2>1 DEF IInv, TypeOK, RowType
  <2>3. \A i \in Jobs : Handled(i)' <=> Handled(i)
        BY <2>1 DEF Handled, InHandler
  <2> QED BY <2>1, <2>2, <2>3, SamePhase, StutterRefines
<1>4. ASSUME NEW p \in Projects, NEW rows \in RestoredRows(p), Restore(p, rows)
      PROVE  Executor!Replace(p)
  <2>1. /\ lock[p] = None
        /\ row' = [j \in Jobs |-> IF ProjectOf[j] = p THEN rows[j] ELSE row[j]]
        /\ effect' = [j \in Jobs |->
                        IF ProjectOf[j] # p THEN effect[j]
                        ELSE IF rows[j].status = "succeeded" THEN rows[j].payload ELSE None]
        /\ UNCHANGED worker
        BY <1>4 DEF Restore
  <2>2. Executor!Running(p) = {}
        BY <2>1, UnlockedMeansNotRunning
  <2>3. \A i \in Jobs : Handled(i)' <=> Handled(i)
        BY <2>1 DEF Handled, InHandler
  <2>4. \A j \in Jobs : ProjectOf[j] = p => ~Handled(j)
        BY <2>1, UnlockedMeansUnhandled DEF IInv, HandlerInv, Handled
  <2>5. \A j \in Jobs : ProjectOf[j] # p =>
            PhaseOf(j)' = PhaseOf(j) /\ row'[j] = row[j] /\ effect'[j] = effect[j]
        BY <2>1, <2>3, SamePhase
  <2>6. ASSUME NEW j \in Jobs, ProjectOf[j] = p
        PROVE  /\ PhaseOf(j)' \in Executor!Phases \ {"running"}
               /\ PhaseOf(j)' = "succeeded" => effect'[j] = row'[j].payload
    <3>1. row'[j] = rows[j] /\ rows[j].status \in {"absent", "pending", "succeeded"}
          BY <2>1, <2>6, RestoredRowsType
    <3>2. ~Handled(j)'
          BY <2>3, <2>4, <2>6
    <3>3. PhaseOf(j)' \in Executor!Phases \ {"running"}
          BY <3>1, <3>2 DEF PhaseOf, Unfinished, Executor!Phases
    <3>4. PhaseOf(j)' = "succeeded" => rows[j].status = "succeeded"
          BY <3>1, <3>2 DEF PhaseOf, Unfinished
    <3> QED BY <2>1, <2>6, <3>1, <3>3, <3>4
  <2>7. \A j \in Jobs : PhaseOf(j)' \in Executor!Phases
        BY <2>5, <2>6, PhaseIsPhase DEF IInv
  <2> QED BY <2>2, <2>5, <2>6, <2>7 DEF Executor!Replace
<1> QED
    BY <1>1, <1>2, <1>3, <1>4 DEF Executor!Next

\* A step of one thread outside handlers, before and after, hides from the executor.
LEMMA OutsideHandlersHides ==
    ASSUME IInv, NEW w \in Workers, ~InHandler(w), ~InHandler(w)',
           \A v \in Workers : v # w => worker'[v] = worker[v],
           \A j \in Jobs : /\ row'[j].payload = row[j].payload
                           /\ \/ row'[j].status = row[j].status
                              \/ Unfinished(j) /\ Unfinished(j)',
           UNCHANGED effect
    PROVE  UNCHANGED Executor!vars
<1>1. \A j \in Jobs : Handled(j)' <=> Handled(j)
      BY DEF Handled, InHandler
<1> QED
    BY <1>1, SamePhase, StutterRefines

\* The end of one execution, as the executor sees it.
LEMMA HandlerLeaves ==
    ASSUME IInv, NEW w \in Workers, InHandler(w), ~InHandler(w)',
           NEW j \in Jobs, j = worker[w].job,
           \A v \in Workers : v # w => worker'[v] = worker[v],
           \A i \in Jobs : i # j => row'[i] = row[i]
    PROVE  /\ PhaseOf(j) = "running"
           /\ ~Handled(j)'
           /\ \A i \in Jobs : i # j => PhaseOf(i)' = PhaseOf(i)
<1>1. Handled(j)
      BY DEF Handled
<1>2. \A v \in Workers : v # w /\ InHandler(v) => worker[v].job # j
      BY LocksExclude DEF IInv, HandlerInv, OneHandlerPerProject
<1>3. ~Handled(j)'
      BY <1>2 DEF Handled, InHandler
<1>4. \A i \in Jobs : i # j => (Handled(i)' <=> Handled(i))
      BY DEF Handled, InHandler
<1>5. \A i \in Jobs : i # j => PhaseOf(i)' = PhaseOf(i)
      BY <1>4, SamePhase
<1> QED
    BY <1>1, <1>3, <1>5, PhaseIsPhase DEF IInv

\* An execution that ends with its row still to be done was interrupted.
LEMMA LeavingUnfinishedInterrupts ==
    ASSUME NEW j \in Jobs, PhaseOf(j) = "running", PhaseOf(j)' = "queued",
           \A i \in Jobs : i # j => PhaseOf(i)' = PhaseOf(i),
           \A i \in Jobs : row'[i].payload = row[i].payload,
           UNCHANGED effect
    PROVE  Executor!Interrupt({j})
<1>1. [i \in Jobs |-> PhaseOf(i)'] =
        [i \in Jobs |-> IF i \in {j} THEN "queued" ELSE [k \in Jobs |-> PhaseOf(k)][i]]
      OBVIOUS
<1>2. [i \in Jobs |-> row'[i].payload] = [i \in Jobs |-> row[i].payload]
      BY SameContent
<1> QED
    BY <1>1, <1>2 DEF Executor!Interrupt

\* A claim begins an execution, a write works, a completion succeeds, fails or, when
\* recovery took the claim back, interrupts; everything else of a sweep is not seen.
LEMMA SweepRefines ==
    ASSUME IInv, NEW w \in Workers, Sweep(w)
    PROVE  Executor!Next \/ UNCHANGED Executor!vars
<1> DEFINE k == worker[w]
<1>1. k \in WorkerType /\ (InHandler(w) => k.job \in Jobs)
      BY HandlerTypes DEF IInv, HandlerInv, TypeOK
<1>2. CASE BeginSweep(w) \/ ListProjects(w) \/ EndSweep(w) \/ \E p \in Projects : ListJobs(w, p)
  <2>1. /\ UNCHANGED <<row, effect>>
        /\ ~InHandler(w)
        /\ \A v \in Workers : v # w => worker'[v] = worker[v]
        BY <1>2 DEF BeginSweep, ListProjects, EndSweep, ListJobs, IInv, TypeOK, InHandler
  <2>2. ~InHandler(w)'
    <3>1. CASE BeginSweep(w)
          BY <3>1, <1>1 DEF BeginSweep, IInv, TypeOK, WorkerType, InHandler
    <3>2. CASE ListProjects(w)
          BY <3>2, <1>1 DEF ListProjects, IInv, TypeOK, WorkerType, InHandler
    <3>3. CASE EndSweep(w)
          BY <3>3 DEF EndSweep, IInv, TypeOK, Parked, InHandler
    <3>4. ASSUME NEW p \in Projects, ListJobs(w, p)
          PROVE  ~InHandler(w)'
          BY <3>4, <1>1 DEF ListJobs, IInv, TypeOK, WorkerType, InHandler
    <3> QED BY <1>2, <3>1, <3>2, <3>3, <3>4
  <2> QED BY <2>1, <2>2, OutsideHandlersHides
<1>3. CASE RecoverStale(w)
  <2>1. /\ ~InHandler(w) /\ ~InHandler(w)'
        /\ \A v \in Workers : v # w => worker'[v] = worker[v]
        /\ UNCHANGED effect
        BY <1>3 DEF RecoverStale, IInv, TypeOK, Parked, InHandler
  <2>2. \A j \in Jobs :
            /\ row'[j].payload = row[j].payload
            /\ row'[j].status = row[j].status
               \/ (row[j].status = "processing" /\ row'[j].status = "pending")
        BY <1>3 DEF RecoverStale, IInv, TypeOK, RowType
  <2> QED BY <2>1, <2>2, OutsideHandlersHides DEF Unfinished
<1>4. ASSUME NEW j \in Jobs, ClaimJob(w, j), ~Pending(j)
      PROVE  UNCHANGED Executor!vars
  <2>1. /\ UNCHANGED <<row, effect>>
        /\ worker[w].pc = "draining"
        /\ worker' = [worker EXCEPT ![w].listed = @ \ {j}]
        BY <1>4 DEF ClaimJob
  <2>2. /\ ~InHandler(w) /\ ~InHandler(w)'
        /\ \A v \in Workers : v # w => worker'[v] = worker[v]
        BY <2>1, <1>1 DEF IInv, TypeOK, WorkerType, InHandler
  <2> QED BY <2>1, <2>2, OutsideHandlersHides
<1>5. ASSUME NEW j \in Jobs, ClaimJob(w, j), Pending(j)
      PROVE  Executor!Begin(j)
  <2>1. /\ lock[ProjectOf[j]] = None
        /\ row' = [row EXCEPT ![j].status = "processing", ![j].lease = "fresh",
                              ![j].attempt = @ + 1]
        /\ worker' = [worker EXCEPT ![w].pc = "handling", ![w].listed = @ \ {j}, ![w].job = j,
                                    ![w].payload = row[j].payload,
                                    ![w].attempt = row[j].attempt + 1]
        /\ UNCHANGED effect
        /\ k.pc = "draining"
        BY <1>5 DEF ClaimJob
  <2>2. /\ worker'[w].pc = "handling" /\ worker'[w].job = j
        /\ \A v \in Workers : v # w => worker'[v] = worker[v]
        BY <2>1, <1>1 DEF IInv, TypeOK, WorkerType
  <2>3. /\ row'[j].payload = row[j].payload /\ row'[j].status = "processing"
        /\ \A i \in Jobs : i # j => row'[i] = row[i]
        BY <2>1 DEF IInv, TypeOK, RowType
  <2>4. Executor!Running(ProjectOf[j]) = {}
        BY <2>1, UnlockedMeansNotRunning, OutboxAssumption
  <2>5. ~Handled(j)
        BY <2>1, UnlockedMeansUnhandled, OutboxAssumption DEF IInv, HandlerInv, Handled
  <2>6. PhaseOf(j) = "queued"
        BY <1>5, <2>5 DEF PhaseOf, Unfinished, Pending
  <2>7. Handled(j)' /\ \A i \in Jobs : i # j => (Handled(i)' <=> Handled(i))
        BY <2>1, <2>2 DEF Handled, InHandler
  <2>8. PhaseOf(j)' = "running" /\ \A i \in Jobs : i # j => PhaseOf(i)' = PhaseOf(i)
        BY <2>3, <2>7, SamePhase DEF PhaseOf
  <2>9. [i \in Jobs |-> PhaseOf(i)'] = [[i \in Jobs |-> PhaseOf(i)] EXCEPT ![j] = "running"]
        BY <2>8, OnePhaseMoves
  <2>10. [i \in Jobs |-> row'[i].payload] = [i \in Jobs |-> row[i].payload]
        BY <2>3, SameContent
  <2> QED BY <2>1, <2>4, <2>6, <2>9, <2>10 DEF Executor!Begin
<1>6. ASSUME NEW ok \in BOOLEAN, NEW wrote \in BOOLEAN, RunHandler(w, ok, wrote)
      PROVE  Executor!Work(k.job) \/ UNCHANGED Executor!vars
  <2>1. /\ k.pc = "handling"
        /\ effect' = IF wrote THEN [effect EXCEPT ![k.job] = k.payload] ELSE effect
        /\ worker' = [worker EXCEPT ![w].pc = "completing", ![w].ok = ok]
        /\ UNCHANGED row
        BY <1>6 DEF RunHandler
  <2>2. \A v \in Workers : (InHandler(v)' <=> InHandler(v)) /\ worker'[v].job = worker[v].job
        BY <2>1, <1>1 DEF IInv, TypeOK, WorkerType, InHandler
  <2>3. \A i \in Jobs : PhaseOf(i)' = PhaseOf(i) /\ row'[i].payload = row[i].payload
        BY <2>1, <2>2, SamePhase DEF Handled
  <2>4. InHandler(w) /\ k.job \in Jobs
        BY <2>1, <1>1 DEF InHandler
  <2>5. PhaseOf(k.job) = "running" /\ k.payload = row[k.job].payload
        BY <2>4, PhaseIsPhase DEF Handled, IInv, HandlerInv, HandlerOwnsItsClaim
  <2>6. CASE wrote
    <3>1. effect' = [effect EXCEPT ![k.job] = [i \in Jobs |-> row[i].payload][k.job]]
          BY <2>1, <2>4, <2>5, <2>6
    <3> QED BY <2>3, <2>4, <2>5, <3>1 DEF Executor!Work
  <2>7. CASE ~wrote
        BY <2>1, <2>3, <2>7, StutterRefines
  <2> QED BY <2>6, <2>7
<1>7. CASE CompleteJob(w)
  <2> PICK j \in Jobs : j = k.job
      BY <1>1, <1>7 DEF CompleteJob, InHandler
  <2>1. /\ k.pc = "completing"
        /\ row' = IF row[j].status = "processing"
                  THEN [row EXCEPT ![j].status = IF k.ok THEN "succeeded" ELSE "failed",
                                   ![j].lease = "none"]
                  ELSE row
        /\ UNCHANGED effect
        /\ worker'[w].pc = "draining"
        /\ \A v \in Workers : v # w => worker'[v] = worker[v]
        BY <1>7 DEF CompleteJob, IInv, TypeOK, Parked
  <2>2. InHandler(w) /\ ~InHandler(w)'
        BY <2>1 DEF InHandler
  <2>3. \A i \in Jobs : row'[i].payload = row[i].payload /\ (i # j => row'[i] = row[i])
        BY <2>1, <2>2 DEF IInv, TypeOK, RowType
  <2>4. /\ PhaseOf(j) = "running" /\ ~Handled(j)'
        /\ \A i \in Jobs : i # j => PhaseOf(i)' = PhaseOf(i)
        BY <2>1, <2>2, <2>3, HandlerLeaves
  <2>5. [i \in Jobs |-> row'[i].payload] = [i \in Jobs |-> row[i].payload]
        BY <2>3, SameContent
  <2>6. CASE row[j].status = "processing" /\ k.ok
    <3>1. row'[j].status = "succeeded"
          BY <2>1, <2>2, <2>6 DEF IInv, TypeOK, RowType
    <3>2. PhaseOf(j)' = "succeeded"
          BY <2>4, <3>1 DEF PhaseOf, Unfinished
    <3>3. effect[j] = row[j].payload
          BY <2>1, <2>2, <2>6 DEF IInv, HandlerInv, ReturnedMeansWritten, HandlerOwnsItsClaim
    <3>4. [i \in Jobs |-> PhaseOf(i)'] = [[i \in Jobs |-> PhaseOf(i)] EXCEPT ![j] = "succeeded"]
          BY <2>2, <2>4, <3>2, OnePhaseMoves
    <3>5. Executor!Succeed(j)
          BY <2>1, <2>2, <2>4, <2>5, <3>3, <3>4 DEF Executor!Succeed
    <3> QED BY <2>2, <3>5 DEF Executor!Next
  <2>7. CASE row[j].status = "processing" /\ ~k.ok
    <3>1. row'[j].status = "failed"
          BY <2>1, <2>2, <2>7 DEF IInv, TypeOK, RowType
    <3>2. PhaseOf(j)' = "failed"
          BY <2>4, <3>1 DEF PhaseOf, Unfinished
    <3>4. [i \in Jobs |-> PhaseOf(i)'] = [[i \in Jobs |-> PhaseOf(i)] EXCEPT ![j] = "failed"]
          BY <2>2, <2>4, <3>2, OnePhaseMoves
    <3>5. Executor!Fail(j)
          BY <2>1, <2>2, <2>4, <2>5, <3>4 DEF Executor!Fail
    <3> QED BY <2>2, <3>5 DEF Executor!Next
  <2>8. CASE row[j].status # "processing"
    <3>1. Unfinished(j)'
          BY <2>1, <2>2, <2>8 DEF IInv, HandlerInv, HandlerOwnsItsClaim, Unfinished
    <3>2. PhaseOf(j)' = "queued"
          BY <2>4, <3>1 DEF PhaseOf
    <3>3. Executor!Interrupt({j})
          BY <2>1, <2>2, <2>3, <2>4, <3>2, LeavingUnfinishedInterrupts
    <3> QED BY <2>2, <3>3 DEF Executor!Next
  <2> QED BY <2>6, <2>7, <2>8
<1>8. ASSUME NEW j \in Jobs, ClaimJob(w, j)
      PROVE  Executor!Next \/ UNCHANGED Executor!vars
      BY <1>4, <1>5, <1>8 DEF Executor!Next
<1>9. ASSUME NEW ok \in BOOLEAN, NEW wrote \in BOOLEAN, RunHandler(w, ok, wrote)
      PROVE  Executor!Next \/ UNCHANGED Executor!vars
  <2>1. k.job \in Jobs
        BY <1>9, <1>1 DEF RunHandler, InHandler
  <2> QED BY <2>1, <1>6, <1>9 DEF Executor!Next
<1> QED
    BY <1>2, <1>3, <1>7, <1>8, <1>9 DEF Sweep

\* Store errors and crashes interrupt executions; starts and stops are not seen.
LEMMA LifeCycleRefines ==
    ASSUME IInv,
           \/ \E w \in Workers : StoreError(w) \/ Start(w)
           \/ Stop \/ StopReturns \/ Crash
    PROVE  Executor!Next \/ UNCHANGED Executor!vars
<1>1. ASSUME NEW w \in Workers, StoreError(w)
      PROVE  Executor!Next \/ UNCHANGED Executor!vars
  <2>1. /\ UNCHANGED <<row, effect>>
        /\ worker'[w].pc = "idle"
        /\ \A v \in Workers : v # w => worker'[v] = worker[v]
        BY <1>1 DEF StoreError, IInv, TypeOK, Parked
  <2>2. CASE ~InHandler(w)
        BY <2>1, <2>2, OutsideHandlersHides DEF InHandler
  <2>3. CASE InHandler(w)
    <3> PICK j \in Jobs : j = worker[w].job
        BY <2>3, HandlerTypes DEF IInv, HandlerInv
    <3>1. ~InHandler(w)'
          BY <2>1 DEF InHandler
    <3>2. /\ PhaseOf(j) = "running" /\ ~Handled(j)'
          /\ \A i \in Jobs : i # j => PhaseOf(i)' = PhaseOf(i)
          BY <2>1, <2>3, <3>1, HandlerLeaves
    <3>3. Unfinished(j)'
          BY <2>1, <2>3 DEF IInv, HandlerInv, HandlerOwnsItsClaim, Unfinished
    <3>4. PhaseOf(j)' = "queued"
          BY <3>2, <3>3 DEF PhaseOf
    <3>5. Executor!Interrupt({j})
          BY <2>1, <3>1, <3>2, <3>4, LeavingUnfinishedInterrupts
    <3> QED BY <3>5 DEF Executor!Next
  <2> QED BY <2>2, <2>3
<1>2. CASE Stop \/ StopReturns \/ \E w \in Workers : Start(w)
  <2>1. UNCHANGED <<row, effect, worker>>
        BY <1>2 DEF Stop, StopReturns, Start
  <2>2. \A j \in Jobs : Handled(j)' <=> Handled(j)
        BY <2>1 DEF Handled, InHandler
  <2> QED BY <2>1, <2>2, SamePhase, StutterRefines
<1>3. CASE Crash
  <2> DEFINE S == {j \in Jobs : Handled(j)}
  <2>1. /\ UNCHANGED <<row, effect>>
        /\ \A w \in Workers : worker'[w].pc = "idle"
        BY <1>3 DEF Crash, Parked
  <2>2. \A j \in Jobs : ~Handled(j)'
        BY <2>1 DEF Handled, InHandler
  <2>3. \A j \in Jobs : Unfinished(j)' <=> Unfinished(j)
        BY <2>1 DEF Unfinished
  <2>4. \A j \in Jobs : PhaseOf(j)' = IF j \in S THEN "queued" ELSE PhaseOf(j)
    <3> SUFFICES ASSUME NEW j \in Jobs
                 PROVE  PhaseOf(j)' = IF j \in S THEN "queued" ELSE PhaseOf(j)
        OBVIOUS
    <3>1. CASE Handled(j)
      <4>1. Unfinished(j)'
            BY <2>3, <3>1, HandledIsUnfinished
      <4>2. PhaseOf(j)' = "queued"
            BY <2>2, <4>1 DEF PhaseOf
      <4> QED BY <3>1, <4>2
    <3>2. CASE ~Handled(j)
      <4>1. PhaseOf(j)' = PhaseOf(j)
            BY <2>1, <2>2, <3>2, SamePhase
      <4> QED BY <3>2, <4>1
    <3> QED BY <3>1, <3>2
  <2>5. \A j \in S : PhaseOf(j) = "running"
        BY PhaseIsPhase DEF IInv
  <2>6. [j \in Jobs |-> PhaseOf(j)'] =
          [j \in Jobs |-> IF j \in S THEN "queued" ELSE [i \in Jobs |-> PhaseOf(i)][j]]
        BY <2>4
  <2>7. [i \in Jobs |-> row'[i].payload] = [i \in Jobs |-> row[i].payload]
        BY <2>1, SameContent
  <2> HIDE DEF S
  <2>8. S \in SUBSET Jobs
        BY DEF S
  <2>9. Executor!Interrupt(S)
        BY <2>1, <2>5, <2>6, <2>7, <2>8 DEF Executor!Interrupt
  <2> QED BY <2>8, <2>9 DEF Executor!Next
<1> QED
    BY <1>1, <1>2, <1>3

\* The dispatcher, its threads, restores and restarts implement the serial
\* executor of SerialJobs, which is what the rest of the application relies on.
THEOREM DispatcherIsSerial == Spec => RunsSerially
<1>1. Init => Executor!Init
      BY InitRefines
<1>2. IInv /\ [Next]_vars => [Executor!Next]_(Executor!vars)
  <2> SUFFICES ASSUME IInv, [Next]_vars
               PROVE  Executor!Next \/ UNCHANGED Executor!vars
      OBVIOUS
  <2>1. ASSUME NEW w \in Workers, Sweep(w)
        PROVE  Executor!Next \/ UNCHANGED Executor!vars
        BY <2>1, SweepRefines
  <2>2. CASE \/ \E j \in Jobs, d \in Payloads : Enqueue(j, d)
             \/ \E j \in Jobs : Retry(j) \/ ExpireLease(j)
             \/ \E p \in Projects : \E rows \in RestoredRows(p) : Restore(p, rows)
        BY <2>2, RequestRefines
  <2>3. CASE \/ \E w \in Workers : StoreError(w) \/ Start(w)
             \/ Stop \/ StopReturns \/ Crash
        BY <2>3, LifeCycleRefines
  <2>4. CASE UNCHANGED vars
    <3>1. UNCHANGED <<row, effect, worker>>
          BY <2>4 DEF vars
    <3>2. \A j \in Jobs : Handled(j)' <=> Handled(j)
          BY <3>1 DEF Handled, InHandler
    <3> QED BY <3>1, <3>2, SamePhase, StutterRefines
  <2> QED BY <2>1, <2>2, <2>3, <2>4 DEF Next
<1> QED
    BY <1>1, <1>2, Inductive, PTL DEF Spec, RunsSerially, Executor!Spec

=============================================================================
