----------------------------- MODULE WikiIndex -----------------------------
(***************************************************************************)
(* The retrieval index built from accepted text: commits enqueue one ingest *)
(* job per revision, the dispatcher drains them newest first, one at a time *)
(* (Outbox), and each ingest rewrites source files that retrieval reads.    *)
(* A scene has one source per revision, chained by supersedes; a planning   *)
(* step has one source that every revision overwrites.                      *)
(***************************************************************************)
EXTENDS Integers, FiniteSets, Sequences

CONSTANTS
    Scenes,       \* chains with a source per revision
    Steps,        \* chains whose revisions share one source
    SceneRevisions, StepRevisions, \* bounds: revisions per chain
    ListLimit,    \* pending jobs one sweep lists (100 in the code)
    MaxInterruptions  \* bound: crashes and file operations that raise

Chains == Scenes \cup Steps
Refs == {<<c, v>> : c \in Scenes, v \in 1..SceneRevisions}
        \cup {<<c, v>> : c \in Steps, v \in 1..StepRevisions}
MaxVersion == IF SceneRevisions > StepRevisions THEN SceneRevisions ELSE StepRevisions

ASSUME WikiIndexAssumption ==
    /\ Scenes \cap Steps = {}
    /\ SceneRevisions \in Nat \ {0} /\ StepRevisions \in Nat \ {0}
    /\ ListLimit \in Nat \ {0}
    /\ MaxInterruptions \in Nat

VARIABLES
    queue,    \* ingest jobs in the order they were inserted
    job,      \* status of each revision's ingest job
    file,     \* the source files
    sweep,    \* the dispatcher: the listed jobs, the current one and its progress
    ran,      \* history: the newest revision ingested so far in each chain
    inverted, \* history: chains where an older revision was ingested after a newer one
    interruptions

wikiVars == <<queue, job, file, sweep, ran, inverted, interruptions>>

Idle == [pc |-> "idle", list |-> <<>>, at |-> <<>>]

JobStatuses == {"absent", "pending", "processing", "succeeded", "failed"}
SourceType == [state: {"absent", "approved", "superseded", "torn"}, holds: 0..MaxVersion]
Ingesting == {"claimed", "marking", "marked", "writing", "written"}
SweepType == [pc: {"idle", "sweeping"} \cup Ingesting, list: Seq(Refs), at: Refs \cup {<<>>}]

\* Type invariant of jobs, files and dispatcher.
WikiType ==
    /\ queue \in Seq(Refs)
    /\ job \in [Refs -> JobStatuses]
    /\ file \in [Refs -> SourceType]
    /\ sweep \in SweepType
    /\ ran \in [Chains -> 0..MaxVersion]
    /\ inverted \subseteq Chains
    /\ interruptions \in 0..MaxInterruptions

-----------------------------------------------------------------------------
(* Helpers *)

RevisionsOf(c) == {r \in Refs : r[1] = c}

HeadVersion(c) == Cardinality({r \in RevisionsOf(c) : job[r] # "absent"})

\* Seeded fault: every revision of a scene is written to one source.
SourceByChain(ref) == <<ref[1], 1>>

\* source_ref: of the revision for scenes, of the step for planning artifacts.
SourceOf(ref) == IF ref[1] \in Scenes THEN ref ELSE <<ref[1], 1>>

\* Seeded fault: a revision supersedes the first one instead of its predecessor.
SupersededFirst(ref) == IF ref[1] \in Scenes /\ ref[2] > 1 THEN {<<ref[1], 1>>} ELSE {}

\* supersedes: only a scene's later revision names its predecessor.
Superseded(ref) == IF ref[1] \in Scenes /\ ref[2] > 1 THEN {<<ref[1], ref[2] - 1>>} ELSE {}

Pending == {i \in DOMAIN queue : job[queue[i]] = "pending"}

\* The n-th job from the newest on has n - 1 newer ones among those at the places.
NewestFirst(places) ==
    [n \in 1..Cardinality(places) |->
        queue[CHOOSE i \in places : Cardinality({k \in places : k >= i}) = n]]

\* Seeded fault: the limit is applied before the status filter.
NewestThenPending == NewestFirst({i \in Pending : i > Len(queue) - ListLimit})

\* list_jobs: pending jobs, newest first, at most ListLimit of them.
PendingNewestFirst ==
    LET newest == NewestFirst(Pending) IN
    SubSeq(newest, 1, IF Len(newest) < ListLimit THEN Len(newest) ELSE ListLimit)

Torn == {r \in Refs : file[r].state = "torn"}

\* retrieve_context: the revisions whose text is returned as evidence.
Evidence(c) == {file[r].holds : r \in {q \in RevisionsOf(c) : file[q].state = "approved"}}

WikiInit ==
    /\ queue = <<>>
    /\ job = [r \in Refs |-> "absent"]
    /\ file = [r \in Refs |-> [state |-> "absent", holds |-> 0]]
    /\ sweep = Idle
    /\ ran = [c \in Chains |-> 0]
    /\ inverted = {}
    /\ interruptions = 0

-----------------------------------------------------------------------------
(* Requests *)

\* A revision is committed together with its ingest job.
CommitRevision(c) ==
    /\ HeadVersion(c) < Cardinality(RevisionsOf(c))
    /\ LET r == <<c, HeadVersion(c) + 1>> IN
        /\ job' = [job EXCEPT ![r] = "pending"]
        /\ queue' = Append(queue, r)
    /\ UNCHANGED <<file, sweep, ran, inverted, interruptions>>

Retry(r) ==
    /\ job[r] = "failed"
    /\ job' = [job EXCEPT ![r] = "pending"]
    /\ UNCHANGED <<queue, file, sweep, ran, inverted, interruptions>>

-----------------------------------------------------------------------------
(* The dispatcher *)

\* A sweep recovers stale claims (nobody handles them: the sweep is idle) and
\* lists the pending jobs.
ListJobs ==
    /\ sweep.pc = "idle"
    /\ PendingNewestFirst # <<>>
    /\ sweep' = [Idle EXCEPT !.pc = "sweeping", !.list = PendingNewestFirst]
    /\ UNCHANGED <<queue, job, file, ran, inverted, interruptions>>

Recover(r) ==
    /\ sweep.pc = "idle"
    /\ job[r] = "processing"
    /\ job' = [job EXCEPT ![r] = "pending"]
    /\ UNCHANGED <<queue, file, sweep, ran, inverted, interruptions>>

Claim ==
    /\ sweep.pc = "sweeping"
    /\ sweep.list # <<>>
    /\ LET r == Head(sweep.list) IN
        /\ job[r] = "pending"
        /\ job' = [job EXCEPT ![r] = "processing"]
        /\ sweep' = [pc |-> "claimed", list |-> Tail(sweep.list), at |-> r]
    /\ UNCHANGED <<queue, file, ran, inverted, interruptions>>

EndSweep ==
    /\ sweep.pc = "sweeping"
    /\ sweep.list = <<>>
    /\ sweep' = Idle
    /\ UNCHANGED <<queue, job, file, ran, inverted, interruptions>>

Advance(pc) == sweep' = [sweep EXCEPT !.pc = pc]

Finish(status) ==
    /\ job' = [job EXCEPT ![sweep.at] = status]
    /\ sweep' = [sweep EXCEPT !.pc = "sweeping", !.at = <<>>]

\* _mark_superseded reads every source up to the named one, in directory order,
\* and rewrites that one; a torn file on the way makes it raise.
MarkRaises(old) ==
    IF old \in Torn \/ file[old].state = "absent" THEN {Torn # {}}
    ELSE IF Torn = {} THEN {FALSE} ELSE BOOLEAN

Mark ==
    /\ sweep.pc = "claimed"
    /\ IF Superseded(sweep.at) = {}
       THEN Advance("marked") /\ UNCHANGED <<job, file>>
       ELSE \E old \in Superseded(sweep.at) : \E raises \in MarkRaises(old) :
                \/ raises /\ Finish("failed") /\ UNCHANGED file
                \/ ~raises /\ file[old].state = "absent"
                   /\ Advance("marked") /\ UNCHANGED <<job, file>>
                \/ ~raises /\ file[old].state # "absent"
                   /\ file' = [file EXCEPT ![old].state = "torn"]
                   /\ Advance("marking") /\ UNCHANGED job
    /\ UNCHANGED <<queue, ran, inverted, interruptions>>

FinishMark ==
    /\ sweep.pc = "marking"
    /\ file' = [r \in Refs |-> IF r \in Superseded(sweep.at)
                               THEN [file[r] EXCEPT !.state = "superseded"] ELSE file[r]]
    /\ Advance("marked")
    /\ UNCHANGED <<queue, job, ran, inverted, interruptions>>

\* write_text truncates the file, then fills it.
Truncate ==
    /\ sweep.pc = "marked"
    /\ file' = [file EXCEPT ![SourceOf(sweep.at)].state = "torn"]
    /\ Advance("writing")
    /\ UNCHANGED <<queue, job, ran, inverted, interruptions>>

WriteSource ==
    LET c == sweep.at[1] v == sweep.at[2] IN
    /\ sweep.pc = "writing"
    /\ file' = [file EXCEPT ![SourceOf(sweep.at)] = [state |-> "approved", holds |-> v]]
    /\ ran' = [ran EXCEPT ![c] = IF v > @ THEN v ELSE @]
    /\ inverted' = IF v < ran[c] THEN inverted \cup {c} ELSE inverted
    /\ Advance("written")
    /\ UNCHANGED <<queue, job, interruptions>>

Complete ==
    /\ sweep.pc = "written"
    /\ Finish("succeeded")
    /\ UNCHANGED <<queue, file, ran, inverted, interruptions>>

Interrupted ==
    /\ interruptions < MaxInterruptions
    /\ interruptions' = interruptions + 1

\* A file operation raises; the job is recorded as failed.
IoError ==
    /\ sweep.pc \in Ingesting
    /\ Interrupted
    /\ Finish("failed")
    /\ UNCHANGED <<queue, file, ran, inverted>>

DispatcherDies ==
    /\ sweep.pc # "idle"
    /\ Interrupted
    /\ sweep' = Idle
    /\ UNCHANGED <<queue, job, file, ran, inverted>>

Dispatch ==
    \/ ListJobs \/ Claim \/ EndSweep \/ Mark \/ FinishMark \/ Truncate \/ WriteSource \/ Complete

WikiNext ==
    \/ \E c \in Chains : CommitRevision(c)
    \/ \E r \in Refs : Retry(r) \/ Recover(r)
    \/ Dispatch \/ IoError \/ DispatcherDies

WikiSpec == WikiInit /\ [][WikiNext]_wikiVars

\* The dispatcher runs, and claims whose lease has expired are recovered between
\* two sweeps.  Nobody need commit a revision or retry a failed job.
WikiFairness ==
    /\ WF_wikiVars(Dispatch)
    /\ SF_wikiVars(\E r \in Refs : Recover(r))

FairWikiSpec == WikiSpec /\ WikiFairness

-----------------------------------------------------------------------------
(* Properties *)

Settled(c) == \A r \in RevisionsOf(c) : job[r] \in {"absent", "succeeded"}

\* The same wherever no older revision was ingested after a newer one: crashes
\* between the two file writes, failures and repeated ingests do no harm.
InOrderIndexIsCurrent ==
    \A c \in Chains \ inverted : HeadVersion(c) > 0 /\ Settled(c) => Evidence(c) = {HeadVersion(c)}

\* A scene's newest revision stays evidence after its ingest, whatever runs late.
NewestSceneTextIsEvidence ==
    \A c \in Scenes :
        HeadVersion(c) > 0 /\ job[<<c, HeadVersion(c)>>] = "succeeded" => HeadVersion(c) \in Evidence(c)

\* A pending ingest does not wait for ever: unless one more crash or file error
\* comes first, it is executed, and that of a plan succeeds.  That of a scene may
\* fail at a torn source; a failed job then waits for its author.  Newest-first
\* listing starves no older job as long as a sweep lists more jobs than there are
\* newer ones that fail on every retry (see Torn).
PendingIsIngested ==
    \A r \in Refs : \A n \in 0..MaxInterruptions :
        (job[r] = "pending" /\ interruptions = n) ~>
            \/ job[r] = "succeeded"
            \/ job[r] = "failed" /\ r[1] \in Scenes
            \/ interruptions > n

=============================================================================
