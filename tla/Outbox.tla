------------------------------- MODULE Outbox -------------------------------
(***************************************************************************)
(* The outbox of post-commit jobs and the dispatcher that drains it:       *)
(* job rows with claim, lease, completion and retry as compare-and-set     *)
(* updates; sweeps on worker threads, of which an abandoned one may outlive *)
(* the loop that started it; the per-project lock; backup restores that     *)
(* replace a project's rows and files; crashes, restarts and store errors.  *)
(***************************************************************************)
EXTENDS Integers, FiniteSets

CONSTANTS
    Projects,
    Jobs,           \* job ids
    ProjectOf,      \* the project of each job
    Payloads,       \* what commits enqueue
    PackagePayloads, \* what the rows of backup packages hold
    Workers,        \* sweep threads: the loop's current one and abandoned ones
    None,
    MaxAttempts,    \* bound: attempts after which nobody retries a job by hand
    MaxOutages,     \* bound: stops and crashes of the application
    MaxStoreErrors  \* bound: store calls that raise (a locked or failing database)

ASSUME OutboxAssumption ==
    /\ ProjectOf \in [Jobs -> Projects]
    /\ None \notin Projects \cup Jobs \cup Payloads \cup PackagePayloads \cup Workers
    /\ MaxAttempts \in Nat /\ MaxOutages \in Nat /\ MaxStoreErrors \in Nat

VARIABLES
    row,     \* outbox_jobs
    effect,  \* what the handlers have written for each job (wiki files, analysis rows)
    lock,    \* project_operation: the worker holding each project's lock
    worker,  \* the sweep threads
    loop,    \* the dispatcher task: its state and the thread of its current sweep
    outages, storeErrors

vars == <<row, effect, lock, worker, loop, outages, storeErrors>>

-----------------------------------------------------------------------------
(* Types *)

Statuses == {"absent", "pending", "processing", "succeeded", "failed"}

MaybePayload == Payloads \cup PackagePayloads \cup {None}

RowType == [status: Statuses, payload: MaybePayload, attempt: Nat,
            lease: {"none", "fresh", "expired"}]

NoRow == [status |-> "absent", payload |-> None, attempt |-> 0, lease |-> "none"]

\* A sweep first selects stale rows (stale), then walks the projects that had
\* pending jobs, and of each project the jobs it listed.
WorkerType == [pc: {"idle", "recovering", "resuming", "draining", "handling", "completing"},
               stale: SUBSET Jobs, projects: SUBSET Projects, listed: SUBSET Jobs,
               job: Jobs \cup {None}, payload: MaybePayload,
               attempt: Nat, ok: BOOLEAN]

Parked == [pc |-> "idle", stale |-> {}, projects |-> {}, listed |-> {},
           job |-> None, payload |-> None, attempt |-> 0, ok |-> FALSE]

\* Type invariant of rows, locks, threads and loop.
TypeOK ==
    /\ row \in [Jobs -> RowType]
    /\ effect \in [Jobs -> MaybePayload]
    /\ lock \in [Projects -> Workers \cup {None}]
    /\ worker \in [Workers -> WorkerType]
    /\ loop \in [state: {"stopped", "running", "stopping", "dead"}, thread: Workers \cup {None}]
    /\ outages \in Nat /\ storeErrors \in Nat

-----------------------------------------------------------------------------
(* State predicates *)

Pending(j) == row[j].status = "pending"
Unfinished(j) == row[j].status \in {"pending", "processing"}
JobsOf(p) == {j \in Jobs : ProjectOf[j] = p}
InHandler(w) == worker[w].pc \in {"handling", "completing"}

\* The loop still waits for the thread's result.
Attended(w) == loop.thread = w /\ loop.state \in {"running", "stopping"}

Init ==
    /\ row = [j \in Jobs |-> NoRow]
    /\ effect = [j \in Jobs |-> None]
    /\ lock = [p \in Projects |-> None]
    /\ worker = [w \in Workers |-> Parked]
    /\ loop = [state |-> "stopped", thread |-> None]
    /\ outages = 0 /\ storeErrors = 0

-----------------------------------------------------------------------------
(* Requests *)

\* insert, inside the transaction that commits the revision.
Enqueue(j, d) ==
    /\ row[j].status = "absent"
    /\ row' = [row EXCEPT ![j] = [NoRow EXCEPT !.status = "pending", !.payload = d]]
    /\ UNCHANGED <<effect, lock, worker, loop, outages, storeErrors>>

\* retry and reset_failed: only a failed job, once; it runs in a later sweep.
Retry(j) ==
    /\ row[j].status = "failed"
    /\ row[j].attempt < MaxAttempts
    /\ row' = [row EXCEPT ![j].status = "pending", ![j].lease = "none"]
    /\ UNCHANGED <<effect, lock, worker, loop, outages, storeErrors>>

\* A package holds a project as some export saw it: a succeeded job has its
\* effect.  Claimed rows of the package become pending, whatever their attempts.
RestoredRows(p) ==
    {r \in [JobsOf(p) -> {NoRow} \cup
                [status: {"pending", "succeeded"}, payload: PackagePayloads, attempt: {0, 1}, lease: {"none"}]] :
        \A j \in JobsOf(p) : r[j].status # "absent" =>
            (r[j].attempt = 0 => r[j].status = "pending")}

\* import_package: rows and files of the project are replaced under its lock.
Restore(p, rows) ==
    /\ lock[p] = None
    /\ row' = [j \in Jobs |-> IF ProjectOf[j] = p THEN rows[j] ELSE row[j]]
    /\ effect' = [j \in Jobs |->
                    IF ProjectOf[j] # p THEN effect[j]
                    ELSE IF rows[j].status = "succeeded" THEN rows[j].payload ELSE None]
    /\ UNCHANGED <<lock, worker, loop, outages, storeErrors>>

\* The lease of a claim runs out, whether or not its handler still runs.
ExpireLease(j) ==
    /\ row[j].status = "processing" /\ row[j].lease = "fresh"
    /\ row' = [row EXCEPT ![j].lease = "expired"]
    /\ UNCHANGED <<effect, lock, worker, loop, outages, storeErrors>>

-----------------------------------------------------------------------------
(* A sweep *)

\* Seeded fault: recovery sees only rows without a stamp.
BeginSweepUnstamped(w) ==
    /\ loop.state = "running" /\ loop.thread = w
    /\ worker[w].pc = "idle"
    /\ worker' = [worker EXCEPT ![w].pc = "recovering",
                    ![w].stale = {j \in Jobs : /\ row[j].status = "processing"
                                               /\ row[j].lease = "none"}]
    /\ UNCHANGED <<row, effect, lock, loop, outages, storeErrors>>

\* _run_loop wakes (a signal or the poll interval) and recover_stale selects.
BeginSweep(w) ==
    /\ loop.state = "running" /\ loop.thread = w
    /\ worker[w].pc = "idle"
    /\ worker' = [worker EXCEPT ![w].pc = "recovering",
                    ![w].stale = {j \in Jobs : /\ row[j].status = "processing"
                                               /\ row[j].lease = "expired"}]
    /\ UNCHANGED <<row, effect, lock, loop, outages, storeErrors>>

\* Seeded fault: the reset does not look at the status again.
RecoverStaleBlind(w) ==
    /\ worker[w].pc = "recovering"
    /\ row' = [j \in Jobs |->
                IF j \in worker[w].stale
                THEN [row[j] EXCEPT !.status = "pending", !.lease = "none"]
                ELSE row[j]]
    /\ worker' = [worker EXCEPT ![w] =
                    IF Attended(w) THEN [Parked EXCEPT !.pc = "resuming"] ELSE Parked]
    /\ UNCHANGED <<effect, lock, loop, outages, storeErrors>>

\* recover_stale resets what it selected, if it is still processing; an abandoned
\* thread ends here because the cancelled loop does not start the second part.
RecoverStale(w) ==
    /\ worker[w].pc = "recovering"
    /\ row' = [j \in Jobs |->
                IF j \in worker[w].stale /\ row[j].status = "processing"
                THEN [row[j] EXCEPT !.status = "pending", !.lease = "none"]
                ELSE row[j]]
    /\ worker' = [worker EXCEPT ![w] =
                    IF Attended(w) THEN [Parked EXCEPT !.pc = "resuming"] ELSE Parked]
    /\ UNCHANGED <<effect, lock, loop, outages, storeErrors>>

\* resume_pending_jobs lists the projects with pending jobs.
ListProjects(w) ==
    /\ worker[w].pc = "resuming"
    /\ worker' = [worker EXCEPT ![w].pc = "draining",
                    ![w].projects = {p \in Projects : \E j \in JobsOf(p) : Pending(j)}]
    /\ UNCHANGED <<row, effect, lock, loop, outages, storeErrors>>

\* process_pending lists the pending jobs of the next project.
ListJobs(w, p) ==
    /\ worker[w].pc = "draining"
    /\ worker[w].listed = {}
    /\ p \in worker[w].projects
    /\ worker' = [worker EXCEPT ![w].projects = @ \ {p},
                                ![w].listed = {j \in JobsOf(p) : Pending(j)}]
    /\ UNCHANGED <<row, effect, lock, loop, outages, storeErrors>>

\* Seeded fault: the sweep claims and runs without the project lock.
ClaimJobUnlocked(w, j) ==
    /\ worker[w].pc = "draining"
    /\ j \in worker[w].listed
    /\ IF Pending(j)
       THEN /\ row' = [row EXCEPT ![j].status = "processing", ![j].lease = "fresh",
                                  ![j].attempt = @ + 1]
            /\ worker' = [worker EXCEPT ![w].pc = "handling", ![w].listed = @ \ {j}, ![w].job = j,
                                        ![w].payload = row[j].payload,
                                        ![w].attempt = row[j].attempt + 1]
       ELSE /\ worker' = [worker EXCEPT ![w].listed = @ \ {j}]
            /\ UNCHANGED row
    /\ UNCHANGED <<lock, effect, loop, outages, storeErrors>>

\* _run takes the project lock; claim is a compare-and-set from pending.  The
\* handler gets the claimed row, not the listed one.
ClaimJob(w, j) ==
    LET p == ProjectOf[j] IN
    /\ worker[w].pc = "draining"
    /\ j \in worker[w].listed
    /\ lock[p] = None
    /\ IF Pending(j)
       THEN /\ row' = [row EXCEPT ![j].status = "processing", ![j].lease = "fresh",
                                  ![j].attempt = @ + 1]
            /\ lock' = [lock EXCEPT ![p] = w]
            /\ worker' = [worker EXCEPT ![w].pc = "handling", ![w].listed = @ \ {j}, ![w].job = j,
                                        ![w].payload = row[j].payload,
                                        ![w].attempt = row[j].attempt + 1]
       ELSE /\ worker' = [worker EXCEPT ![w].listed = @ \ {j}]
            /\ UNCHANGED <<row, lock>>
    /\ UNCHANGED <<effect, loop, outages, storeErrors>>

\* The handler: it succeeds with its effect written, or raises before or after.
RunHandler(w, ok, wrote) ==
    LET k == worker[w] IN
    /\ k.pc = "handling"
    /\ ok => wrote
    /\ effect' = IF wrote THEN [effect EXCEPT ![k.job] = k.payload] ELSE effect
    /\ worker' = [worker EXCEPT ![w].pc = "completing", ![w].ok = ok]
    /\ UNCHANGED <<row, lock, loop, outages, storeErrors>>

\* Seeded fault: an outcome is recorded as a success whatever the handler did.
CompleteJobOptimistic(w) ==
    LET k == worker[w] IN
    /\ k.pc = "completing"
    /\ row' = IF row[k.job].status = "processing"
              THEN [row EXCEPT ![k.job].status = "succeeded", ![k.job].lease = "none"]
              ELSE row
    /\ lock' = [lock EXCEPT ![ProjectOf[k.job]] = None]
    /\ worker' = [worker EXCEPT ![w] =
                    [Parked EXCEPT !.pc = "draining", !.projects = k.projects, !.listed = k.listed]]
    /\ UNCHANGED <<effect, loop, outages, storeErrors>>

\* complete is a compare-and-set from processing; then the lock is released.
CompleteJob(w) ==
    LET k == worker[w] IN
    /\ k.pc = "completing"
    /\ row' = IF row[k.job].status = "processing"
              THEN [row EXCEPT ![k.job].status = IF k.ok THEN "succeeded" ELSE "failed",
                               ![k.job].lease = "none"]
              ELSE row
    /\ lock' = [lock EXCEPT ![ProjectOf[k.job]] = None]
    /\ worker' = [worker EXCEPT ![w] =
                    [Parked EXCEPT !.pc = "draining", !.projects = k.projects, !.listed = k.listed]]
    /\ UNCHANGED <<effect, loop, outages, storeErrors>>

EndSweep(w) ==
    /\ worker[w].pc = "draining"
    /\ worker[w].projects = {} /\ worker[w].listed = {}
    /\ worker' = [worker EXCEPT ![w] = Parked]
    /\ UNCHANGED <<row, effect, lock, loop, outages, storeErrors>>

Sweep(w) ==
    \/ BeginSweep(w) \/ RecoverStale(w) \/ ListProjects(w) \/ EndSweep(w)
    \/ \E p \in Projects : ListJobs(w, p)
    \/ \E j \in Jobs : ClaimJob(w, j)
    \/ \E ok, wrote \in BOOLEAN : RunHandler(w, ok, wrote)
    \/ CompleteJob(w)

-----------------------------------------------------------------------------
(* The application's life cycle *)

Release(w) == lock' = [p \in Projects |-> IF lock[p] = w THEN None ELSE lock[p]]

\* A store call of the sweep raises; the handler's own errors never get here.
\* _run_loop has no handler for it, so the task ends and nothing restarts it; a
\* stop that is waiting for it returns.
StoreError(w) ==
    /\ storeErrors < MaxStoreErrors
    /\ worker[w].pc \in {"recovering", "resuming", "draining", "completing"}
    /\ storeErrors' = storeErrors + 1
    /\ Release(w)
    /\ worker' = [worker EXCEPT ![w] = Parked]
    /\ loop' = IF ~Attended(w) THEN loop
               ELSE IF loop.state = "running" THEN [loop EXCEPT !.state = "dead"]
               ELSE [state |-> "stopped", thread |-> None]
    /\ UNCHANGED <<row, effect, outages>>

\* lifespan starts the loop; its sweeps run on a thread that is not busy.
Start(w) ==
    /\ loop.state = "stopped"
    /\ worker[w].pc = "idle"
    /\ loop' = [state |-> "running", thread |-> w]
    /\ UNCHANGED <<row, effect, lock, worker, outages, storeErrors>>

Stop ==
    /\ outages < MaxOutages
    /\ loop.state \in {"running", "dead"}
    /\ outages' = outages + 1
    /\ loop' = IF loop.state = "dead" THEN [state |-> "stopped", thread |-> None]
               ELSE [loop EXCEPT !.state = "stopping"]
    /\ UNCHANGED <<row, effect, lock, worker, storeErrors>>

\* The bounded wait of stop ends: the sweep is over, or its thread is abandoned.
StopReturns ==
    /\ loop.state = "stopping"
    /\ loop' = [state |-> "stopped", thread |-> None]
    /\ UNCHANGED <<row, effect, lock, worker, outages, storeErrors>>

\* The process dies: threads and locks are gone, rows and files stay.
Crash ==
    /\ outages < MaxOutages
    /\ outages' = outages + 1
    /\ loop' = [state |-> "stopped", thread |-> None]
    /\ worker' = [w \in Workers |-> Parked]
    /\ lock' = [p \in Projects |-> None]
    /\ UNCHANGED <<row, effect, storeErrors>>

Next ==
    \/ \E j \in Jobs, d \in Payloads : Enqueue(j, d)
    \/ \E j \in Jobs : Retry(j) \/ ExpireLease(j)
    \/ \E p \in Projects : \E rows \in RestoredRows(p) : Restore(p, rows)
    \/ \E w \in Workers : Sweep(w) \/ StoreError(w) \/ Start(w)
    \/ Stop \/ StopReturns \/ Crash

Spec == Init /\ [][Next]_vars

\* The threads run, handlers end (every call they make has a timeout), leases
\* expire with time, stop is bounded, and a stopped application is started again.
Fairness ==
    /\ \A w \in Workers : WF_vars(Sweep(w))
    /\ \A j \in Jobs : WF_vars(ExpireLease(j))
    /\ WF_vars(StopReturns)
    /\ WF_vars(\E w \in Workers : Start(w))

FairSpec == Spec /\ Fairness

-----------------------------------------------------------------------------
(* Properties *)

\* Side effects of one project are serial: two threads, one of them abandoned by
\* a stop, are never in handlers of the same project.
OneHandlerPerProject ==
    \A v, w \in Workers :
        v # w /\ InHandler(v) /\ InHandler(w) =>
            ProjectOf[worker[v].job] # ProjectOf[worker[w].job]

\* While a handler runs, its row is still the one it claimed: same payload, same
\* attempt, and not yet finished by anybody else, so completing it records the
\* outcome of this execution and of no other.  Only lease recovery may have
\* taken the claim back to pending.
HandlerOwnsItsClaim ==
    \A w \in Workers : InHandler(w) =>
        LET r == row[worker[w].job] IN
        /\ Unfinished(worker[w].job)
        /\ r.attempt = worker[w].attempt
        /\ r.payload = worker[w].payload

\* A job reported as succeeded has its effect in place, for the payload the row
\* holds now, across restores, lease recoveries and crashes.
SuccessMeansEffect ==
    \A j \in Jobs : row[j].status = "succeeded" => effect[j] = row[j].payload

\* The dispatcher implements the serial executor the application relies on: a
\* job runs while a thread is in its handler, and a claimed row nobody handles
\* is still queued.
Handled(j) == \E w \in Workers : InHandler(w) /\ worker[w].job = j

PhaseOf(j) ==
    IF Handled(j) THEN "running"
    ELSE IF Unfinished(j) THEN "queued"
    ELSE row[j].status

Executor == INSTANCE SerialJobs WITH
    phase <- [j \in Jobs |-> PhaseOf(j)],
    content <- [j \in Jobs |-> row[j].payload]

RunsSerially == Executor!Spec

\* The one thing that stops it is a dispatch task ended by a store error, which
\* lasts until the application is restarted.
OnlyADeadLoopStallsJobs ==
    \A j \in Jobs : Unfinished(j) ~> (~Unfinished(j) \/ loop.state = "dead")

=============================================================================
