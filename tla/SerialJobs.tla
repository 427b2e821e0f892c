---------------------------- MODULE SerialJobs ----------------------------
(***************************************************************************)
(* What the outbox promises to the rest of the application: jobs are        *)
(* executed one at a time per project, an interrupted execution leaves its  *)
(* job queued, a success is final and stands on a written effect, and a     *)
(* backup restore replaces a project between two executions.                *)
(***************************************************************************)
CONSTANTS Projects, Jobs, ProjectOf, Payloads, None

VARIABLES
    phase,    \* of each job
    content,  \* the payload each job holds
    effect    \* the payload its last writing execution left in the files

vars == <<phase, content, effect>>

Phases == {"absent", "queued", "running", "succeeded", "failed"}

Running(p) == {j \in Jobs : ProjectOf[j] = p /\ phase[j] = "running"}

Init ==
    /\ phase = [j \in Jobs |-> "absent"]
    /\ content = [j \in Jobs |-> None]
    /\ effect = [j \in Jobs |-> None]

Submit(j, d) ==
    /\ phase[j] = "absent"
    /\ phase' = [phase EXCEPT ![j] = "queued"]
    /\ content' = [content EXCEPT ![j] = d]
    /\ UNCHANGED effect

Begin(j) ==
    /\ phase[j] = "queued"
    /\ Running(ProjectOf[j]) = {}
    /\ phase' = [phase EXCEPT ![j] = "running"]
    /\ UNCHANGED <<content, effect>>

Work(j) ==
    /\ phase[j] = "running"
    /\ effect' = [effect EXCEPT ![j] = content[j]]
    /\ UNCHANGED <<phase, content>>

Succeed(j) ==
    /\ phase[j] = "running"
    /\ effect[j] = content[j]
    /\ phase' = [phase EXCEPT ![j] = "succeeded"]
    /\ UNCHANGED <<content, effect>>

Fail(j) ==
    /\ phase[j] = "running"
    /\ phase' = [phase EXCEPT ![j] = "failed"]
    /\ UNCHANGED <<content, effect>>

\* Executions are interrupted: one by one, or all by a crash.
Interrupt(S) ==
    /\ \A j \in S : phase[j] = "running"
    /\ phase' = [j \in Jobs |-> IF j \in S THEN "queued" ELSE phase[j]]
    /\ UNCHANGED <<content, effect>>

Requeue(j) ==
    /\ phase[j] = "failed"
    /\ phase' = [phase EXCEPT ![j] = "queued"]
    /\ UNCHANGED <<content, effect>>

\* A restore: only between executions of the project, with what a package holds.
Replace(p) ==
    /\ Running(p) = {}
    /\ phase' \in [Jobs -> Phases]
    /\ \A j \in Jobs :
        IF ProjectOf[j] = p
        THEN /\ phase'[j] # "running"
             /\ phase'[j] = "succeeded" => effect'[j] = content'[j]
        ELSE phase'[j] = phase[j] /\ content'[j] = content[j] /\ effect'[j] = effect[j]

Next ==
    \/ \E j \in Jobs, d \in Payloads : Submit(j, d)
    \/ \E j \in Jobs : Begin(j) \/ Work(j) \/ Succeed(j) \/ Fail(j) \/ Requeue(j)
    \/ \E S \in SUBSET Jobs : Interrupt(S)
    \/ \E p \in Projects : Replace(p)

Spec == Init /\ [][Next]_vars

=============================================================================
