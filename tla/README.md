# A verification project for ai-writing

`ai-writing` is a local application with which one author plans and writes a
long novel together with language models. A FastAPI backend keeps everything in
one SQLite database and a directory of module files; a Vue client edits and
reviews. Nothing a model produces becomes part of the novel without a decision
of the author: generated text, plan revisions and canon changes are *proposals*,
and accepting one is a transaction that files a revision and enqueues background
jobs (indexing, analysis) which a dispatcher thread executes later.

This directory holds TLA+ models of the parts of the backend where that flow can
go wrong - concurrent requests over several transactions, background execution,
crashes, retries, restores - with TLC runs that check them on small instances and
TLAPS proofs of the main properties for all values of the constants.

Contents

1. The system (inventory)
2. The modules and their correspondence with the code
3. The runs: what each checks, its bounds, its fairness
4. A disagreement between the code and its documentation
5. Remarks: what the models show besides
6. What is proved
7. What is only model-checked, what is not modelled

Paths below are relative to `src/`; `backend/app/` is left out where the file name
is unambiguous. To run: `tlc -workers 2 -config Outbox.cfg MCOutbox.tla`,
`tlapm OutboxProofs.tla`. A module `X` that is run comes with `MCX.tla` (definitions
for the small instance) and `X.cfg`. Three modules have no run of their own:
`SerialJobs` and `AcceptedScenes` are abstract specifications, `ModelRuntime` is a part
of `Suggestions`. The proofs of a module are in `XProofs.tla`, except where two
components are close enough to share one: `FilesProofs` (`BackupRestore`, `WikiIndex`),
`ProposalProofs` (`AnalysisRuns`, `SceneCompile`) and `CanonProofs` (`Narrative`,
`Writeback`). One component of each pair carries its name in its specification
(`WikiSpec`, `AnalysisSpec`, `NarrativeSpec` beside `Spec`), so that one module can
extend both.


## 1. The system

### 1.1 Where atomicity comes from

The store opens a connection per call. A *write transaction* is either an explicit
`BEGIN IMMEDIATE` (`data/unit_of_work.py`), which excludes every other writer from
its first statement on, or Python's implicit transaction, which begins with the
first INSERT or UPDATE: whatever a repository method reads *before* its first
write, it reads outside of the transaction. FastAPI runs synchronous handlers in a
thread pool, so any two requests may interleave between their transactions. The
rule used throughout is:

- statements inside `BEGIN IMMEDIATE` are one step;
- reads before the first write of an implicit transaction are a step of their own,
  and so is the write;
- reads in a service (a status check, a consistency report, the state a generation
  starts from) are steps of their own, with everything they return kept in the
  request's local state;
- file operations are steps of their own, and a file write is truncation followed
  by content.

### 1.2 Components

| Component | State | Operations | Interacts with | Hard behaviour | Correct when |
|---|---|---|---|---|---|
| **Manuscript review and history** (`data/transactions/manuscript.py`, `data/repositories/manuscript.py`, `services/manuscript_service.py`) | scene rows, proposals, revisions, plan versions of contracts | create proposal, accept (with draft and consistency gate), reject, supersede, edit with expected version, restore | enqueues four outbox jobs per revision; reads canon through the consistency analysis | two accepts, or accept and edit, of one scene; lost answers and repeats; context edited between check and commit | history is gapless, no edit is lost, one acceptance per proposal, every revision has its pipeline |
| **Outbox and dispatcher** (`outbox/*.py`, `data/repositories/outbox.py`, `data/project_operations.py`) | job rows with status, attempt, lease; the lock of each project; sweep threads; the loop | insert, claim, complete, retry, recover stale, list; start, stop, sweep | runs the handlers of wiki, analysis and extraction; shares the project lock with imports | abandoned threads, lease expiry under a running handler, restore between listing and claim, crash, store errors | executions of a project are serial, an outcome belongs to the execution that produced it, every job is executed |
| **LLM wiki index** (`llm_wiki/local_backend.py`, `outbox/events.py`) | source files, their status | ingest (mark the superseded source, write the new one), retrieve | fed by outbox jobs, read by generation | dispatch order, interrupted writes, repeats | evidence is the newest accepted text and nothing replaced |
| **Backup import and recovery** (`services/backup_*.py`) | rows, commit markers, module directory, staging directories with a journal | import, recover at start / before an import / at its end | holds the project lock; replaces what every other component stores | crash or error at any of about a dozen steps, deferred cleanup | rows and files belong together whenever the application serves; nothing is lost |
| **Analysis runs** (`analysis/service.py`, `data/repositories/analysis.py`, `services/writeback_service.py`) | one row per exact input, write-back proposals | run with replay, forced re-run, record failure, supersede | called by routes and by outbox handlers; creates what write-back review decides | concurrent runs of one input, failures after successes, id collisions | a replay resolves, a re-run supersedes what it replaces |
| **Snowflake artifacts** (`data/transactions/snowflake.py`, `data/repositories/snowflake.py`, `snowflake/dependencies.py`) | revisions, heads, projections, current step | compose, generate, patch, accept, reject, skip | an acceptance marks dependents stale and enqueues indexing; generation reads the projections | races for numbers and heads, patch against acceptance, staleness over the graph | one line of commits per step, exact staleness, readers get accepted text |
| **Narrative facts and knowledge** (`data/repositories/narrative.py`, `narrative_maintenance.py`) | facts, knowledge rows of the world, the reader and each character, rosters, revisions | create, correct, retract a fact; assign, correct, retract knowledge | prompts and the leak check of the consistency analysis read different rows of it | two copies of one truth, knowledge of replaced content, rows older than the revision table | both copies agree, knowledge is of what the fact says, history misses nothing |
| **Write-back review, canon, threads** (`data/transactions/writeback.py`, `review/`, `data/repositories/review.py`, `canon.py`, `narrative.py`) | canon rows with versions, threads, scenes, write-back proposals | check, store, apply, reject; editor update with compare-and-set, deletion; thread status and events | decides what analysis proposes; feeds prompts and checks | editor against write-back on one row, reviews in flight together, recreated records | a proposal has its effect once if accepted and never otherwise, on the value its author read |
| **Snowflake records** (`data/repositories/snowflake_records.py`, `data/transactions/snowflake.py`) | record revisions and heads of steps 6-9, the derived artifact | compose, generate a batch, accept, reject | on top of the artifacts; its accepted list is what scenes are compiled from | bases read at other moments than targets, positions exchanged between records | one line of commits per record, the derived artifact is the accepted list |
| **Scene proposals and compilation** (`services/snowflake_compile_service.py`, `data/transactions/scene_compile.py`, `data/repositories/scene_proposals.py`) | generations of scene proposals, scene contracts with sequence and source | parse, accept a batch, reject; author adds, edits, deletes scenes | reads the records; creates what Manuscript calls contracts | three reads before one transaction, batches that exchange sequence numbers, two parses | a validated batch applies as a whole, nothing unseen is overwritten, no plan goes back |
| **Model runtime** (`llm/runtime.py`, `llm/registry.py`, `data/repositories/generation_runs.py`) | generation runs and attempts | one call with repair, failover and its records | called by every generation; modelled under the suggestions | each record a transaction, recorder failures, crash in a call | records are true, attempts follow the policy, no answer without its record |
| **Reference and copilot suggestions** (`services/reference_service.py`, `data/repositories/review.py`) | suggestions, the editor's target | ask, check the target, call, check again, store, decide | calls the runtime beside an editing author | a target that moves during a call of unbounded length | an answer to an outdated question is dropped |
| Client drafts (`frontend/src/services/draftSessions.ts`, `draftCache.ts`) | drafts, sessions | autosave, acknowledge, switch | what it sends is what request actions allow | late acknowledgements, timers after a switch | the newest typing is never overwritten |

The remaining parts - package format, workflows and prompts, narrative direction,
volumes and export, projects, cognition, integrations, style and consistency rules,
migrations, configuration, the rest of the client - are pure functions, formatting, I/O
with external services, or independent rows edited in one transaction. `PROJECT.json`
lists each with its files and the reason.

### 1.3 How the parts meet

```
 client --> routes --> Manuscript ----------+   accept / edit / restore:
              |        Snowflake  ----------+-> rows + jobs in one transaction
              |        Writeback, Narrative |
              |                             v
              |                   outbox rows  <---- import replaces them
              |                             |              ^
              |    dispatcher: sweep, claim, run under the project lock
              |                             |
              |    +------------------------+------------------+
              |    v                        v                  v
              |  WikiIndex             AnalysisRuns        extraction
              |  (source files)        (proposals) --> Writeback
              |
              +--> SceneRecords --(AcceptedScenes)--> SceneCompile --> contracts
              |    (steps 6-9)                        (proposals)      of Manuscript
              |
              +--> Suggestions --> ModelRuntime --> models
```

`Manuscript` and `Snowflake` end where a job row is inserted; `Outbox` takes such
a row and promises `SerialJobs`; `WikiIndex` and `AnalysisRuns` are what two kinds
of handlers do, and take from `SerialJobs` exactly what it promises: one execution
at a time per project, possibly interrupted, possibly repeated, in the order the
listing gives. `BackupRestore` models the import as it looks from the disk; `Outbox`
contains the same import as one action under the project lock, as it looks from
the dispatcher. `SceneRecords` implements `AcceptedScenes`, and `SceneCompile` extends
`AcceptedScenes`: what the compiler is checked over is what the records are proved to
be. `Suggestions` extends `ModelRuntime` and calls its actions, so a request and the
model call inside it interleave as they do in the code.

### 1.4 Hazards

`PROJECT.json` lists forty places where the code is hard to test, each at its line
with the properties that would catch it going wrong. The two without a property say
why.


## 2. The modules

A definition carries the name of the method or column it stands for where TLA+
allows; `PROJECT.json` "map" names the lines. Variables marked *history* are not in
the code: they record what happened, so that a property can speak about it. No
guard of an action reads one. Definitions commented "Seeded fault" are variants of
the definition that follows them, as a plausible bug would have it; they are used
by no specification and show which properties notice it.

### 2.1 Manuscript

Requests (`author`) move through the code's steps: an editor opens a scene and later
saves (`OpenScene`, `SaveScene`); a reviewer opens a proposal, submits the draft, the
service reads the status, computes the consistency preview, and only then commits
(`OpenProposal`/`SubmitStatusAccepted`, `SubmitDraft`, `DefaultDraft`, `CheckDraft`,
`CommitAccept`); the other decisions read a status and then run an UPDATE guarded by
it (`ReadForDecision`, `WriteDecision`). `CommitRevision` is what accept, edit and
restore share: the next version, the scene row, the revision with its UNIQUE
constraint, the contract's `drawn` plan version, and the four jobs with their
idempotency keys. Contracts change plan version, are deleted and come back under the
same id; canon edits are `EditCanon`, which changes the set of texts the rules
find critical (`critical`).

Abstractions: a text stands for title and prose; a finding report for whether it has
a critical finding; proposals of all sources (local, provider, legacy import) enter by
`CreateProposal`. History: `kind`, `base` and `plan` of a revision.

### 2.2 Outbox and SerialJobs

`row` is the table; `worker` the sweep threads with what they listed and claimed;
`lock` the per-project lock; `loop` the asyncio task. A sweep selects stale rows,
resets them, lists the projects, lists each project's jobs, takes the lock, claims,
runs the handler, completes - every one an action, because the code makes each in a
transaction of its own. `Stop` waits for a bounded time; `StopReturns` may abandon
the thread, which goes on in its sweep; a later `Start` uses another thread. `Restore`
replaces rows and effects of a project under its lock. `StoreError` is a store call
that raises in a sweep: the task ends and nothing restarts it. `Crash` keeps rows and
effects only.

A handler is `RunHandler`: it writes its effect or not, and raises or not; success
implies the effect. A lease has two states besides none: the clock may expire it at
any time. `Start` after `Stop` happens inside one process, which is more than the
application does today (it stops once, at the end of its lifespan), so the model has
abandoned threads beside new sweeps on purpose.

`SerialJobs` is the abstract promise: jobs that are absent, queued, running, succeeded
or failed; at most one running per project; success only over a written effect;
interruption puts a job back into the queue; a restore replaces a project only
between executions. `Outbox` implements it under the mapping `PhaseOf`: *running*
means a thread is in the job's handler, and a claimed row nobody handles is *queued*.

### 2.3 WikiIndex

Ingest jobs in insertion order (`queue`), their status, and the source `file` of each
revision: a scene revision has a file of its own and names its predecessor as
superseded; all revisions of a planning step share one file. The dispatcher lists
pending jobs newest first with the code's LIMIT, and ingests one at a time (that is
`SerialJobs`): `Mark`/`FinishMark` rewrite the predecessor, `Truncate`/`WriteSource`
the new source. An interrupted write leaves a file `torn`; `_mark_superseded` reads
every source in directory order up to the one it wants, so a torn file may make it
raise (`MarkRaises`). `Evidence` is what retrieval returns: the texts of approved
sources. `CommitRevision` is what a request does, `DispatcherDies` a crash of the sweep.
History: `ran` and `inverted`.

### 2.4 BackupRestore

`db` names the files that the committed rows belong to, `target` the project's module
directory, `stage` the staging directories with journal, `new`, `old` and `failed`
parts, `marker` the commit markers. An import is a sequence of steps (journal,
prepare, rows, journal, two renames, commit); `Fault` makes any of them raise,
including a commit that raises after SQLite committed and a step of the rollback of an
import whose request then goes on (`RollingBack`); recovery (`Scan`, `Discard`,
`Decide*`, `RestoreOld`, `MarkRolledBack`, `Clean`, `ForgetCommit`) runs at start,
before an import and at its end, with the same code as the source. `AuthorWrite` is any
handler that writes a module file and its row while the application serves. History:
`gaveUp`, that such a rollback raised.

### 2.5 AnalysisRuns

`run` is the row of each input hash, `writeback` the write-back proposals, `request`
the services under way. A request replays or generates (outside any transaction),
reads the prior result on a connection of its own, reads the proposal ids in use, and
stores proposals and run in one transaction (`StoreResult`). The order of the last two
reads and the transaction depends on whether an UPDATE has opened it
(`OpensTransaction`). Two requests may pick the same id; the second insert fails
(`Collide`). A failure is recorded over whatever the row held. History: `disturbed`,
the inputs whose row was replaced by a run that had not read it.

Abstractions: what a processor proposes is any set of new proposals; two first inserts
of the same row collide like two ids do; the consistency processor stores findings on
the row and creates no proposals.

### 2.6 Snowflake

Every step has revisions (named by `revision_no`), a head, a projection and the indexing
jobs. A request composes against a head it saw, reads number and base, inserts
(`Compose`, `ReadForInsert`, `InsertRevision`); a patch checks the status in one read and
writes in a later UPDATE (`OpenPatch`, `WritePatch`); `Accept`, `Reject` and `Skip` are
single `BEGIN IMMEDIATE` transactions. `Downstream` is the transitive closure of the
dependency graph, `UpstreamOf` a recursive function over it. History: `changed`, and the
head `seen` by a request.

Abstractions: "pending" stands for `draft` and `pending_review`; a validator may pass any
text; the expected head is an input. Reads inside `create_revision` are one step.
Not here: the record path of steps 6-9 (`SceneRecords`), the backfill of legacy
artifacts at migration, the `upstream_snapshot` column (stored, never compared).

### 2.7 Narrative

`story` is, per fact, its row, the knowledge rows of the world, the reader and each
character, the recorded versions of all of them, and the roster. One request is one
step, because every handler runs in one `BEGIN IMMEDIATE`: `CreateFact`,
`CorrectFact`, `RetractFact`, `CreateKnowledge`, `CorrectKnowledge` (also for
retraction) and `SetCharacterKnowledge`. Each builds the whole next story with
operators named for what the repository writes: `Corrected` replaces the rows of the
world and the reader and takes other knowledge back, `Assigned` upserts a row with its
roster entry, `Resynced` moves the fact's visibility with the reader's knowledge,
`Recorded` files a baseline of a row that was never recorded and then the new version.
`NarrativeInit` starts from empty tables or from what migration 7 leaves (`Legacy`): facts
that nobody validated, knowledge rows of the world, the reader and the old roster's
characters, all under the fact's own status, the roster as it was, and no revisions.
`FactsAt`, `KnownAt`, `HiddenAt` and `PromptFacts` are what prompts and the leak check
read. History: `about`, what the fact said when a knowledge row was confirmed.

Abstractions: a text stands for subject, predicate and value; sources and evidence are
left out. Characters are names up to letter case, as knowledge rows compare them; an old
roster that spells one name in two ways, of which the migration takes one row, is not
modelled. Nor are rows that an earlier version of the program wrote between that migration
and the revision table: the repository no longer has the code that wrote them.

### 2.8 Writeback

Canon rows, threads and scenes come and go under the author. The author of a proposal, a
client or a provider, reads the data and writes it (`DraftProposal`), with any expected
version, whether or not it is the one that was read. It is checked on the data of a later
moment (`CheckProposal`, whose `Acceptable` compares existence and version and never the
"before" values, as the code does), stored in a later transaction (`StoreProposal`), and
accepted in one `BEGIN IMMEDIATE` (`Accept`, with `Apply` per kind and `Sibling` for what
it supersedes) or rejected in two steps (`ReadForReject`, `Reject`). The canon editor reads and builds its row (`ReadForUpdate`) and writes with a
compare-and-set that is repeated (`WriteUpdate`, `Written`): the first attempt that
misses leaves the connection holding the writer, so the second reads a row nobody can
change. A deleted record's identity is free, and the same name takes it again. History:
`seen` (the row the author of an update had read), `gone` (the target was deleted since)
and `effects` (how often a proposal was applied).

Abstractions: a value stands for all fields of a canon record; memory records and
relations are rows of their own; thread events are kept as what they change; renaming a
record is left out, because a collision only rolls the request back.

### 2.9 SceneRecords and AcceptedScenes

`SceneRecords` is the scene list of step 8, the instance of the record path that others
read. An author's revision is composed, compared and numbered, inserted (`Compose`,
`Numbered`, `Insert`: the connection has no transaction before the INSERT). A generation
reads its targets, calls the model, reads the heads for its bases and stores one batch in
one transaction (`Generate`, `ReadBases`, `StoreBatch`). `Accept` and `Reject` compare
base and head; an acceptance also checks that its position is free and rewrites the
derived artifact (`snapshot`).

`AcceptedScenes` is the promise: a record's accepted revision is only ever replaced by a
newer one, at a position no other record has. `SceneRecords` implements it under the
mapping that reads revision and position off the head.

### 2.10 SceneCompile

A parse reads the accepted records, then the linked scenes, then the proposals it will
supersede, and only then opens its transaction (`ReadRecords`, `ReadLinked`,
`SelectStale`, `Store`). `Accept(batch)` is the whole batch: `Validated` for the checks
before the first write, `Writable` for the two UNIQUE constraints as the batch moves all
its targets to negative numbers (`Vacated`) and writes them in order. `Decide` is the
status route, which applies nothing. `AddScene`, `EditScene` and `DeleteScene` are the
author's, `AcceptRecord` the step of `AcceptedScenes`. A plan is named by its record
revision and by the author's edit that wrote it last, which is what "the plan it was
compared with" can tell apart. History: `failed`, that a batch met a constraint after
its checks, and the names of edits.

### 2.11 ModelRuntime and Suggestions

`ModelRuntime` is one call: `Start` creates the run and settles the candidates; `Ask`,
`Repair`, `Record` and `Finish` are the loop of `ModelRuntime.execute` with a record
after each attempt; `RecorderFails` is any of these writes raising; `LoseCalls` is a
crash. A model's answer is its outcome (`Outcomes`): valid, invalid, or an error of the
kinds the runtime distinguishes.

`Suggestions` is the caller with the most at stake, because its author goes on typing:
`AskForHelp` takes the editor's target, `ReadScene` and `ReadDraft` are the check before
and after the answer (two transactions each), `CallModel` advances the runtime,
`WriteLocally` is the generator without a model, `StoreSuggestion` and
`DecideSuggestion` the rows. `AcceptDraft`, `RejectDraft` and `EditScene` are what
`Manuscript` does, reduced to the version and the draft's status. History: `moved`, the
requests whose target changed during the call.


## 3. The runs

All passing runs are exhaustive over the instances below. Distinct states are those
of the current configuration files.

| Run | Instance | States | Shows |
|---|---|---|---|
| `manuscript` | 1 scene, 2 proposals, 2 requests, 1 text, 3 versions, 2 plan versions | 1.35 M | gapless history, complete pipeline, no lost edit, single acceptance, visible plan drift |
| `outbox` | 1 project, 2 jobs, 2 threads, 2 attempts, 1 outage, 1 store error | 280 k | serial handlers, real successes, refinement of `SerialJobs`, only a dead loop stalls a job |
| `wiki` | a scene with 3 revisions, a step with 2, list limit 3, 1 interruption | 140 k | in order, the index is current whatever is interrupted; a scene's newest text stays evidence in any order; no pending ingest waits for ever |
| `backup` | 3 operations, 2 author writes, 2 errors, 2 crashes | 167 k | unless a rollback raised, rows and files agree while serving, author writes survive, nothing is lost; starts serve but for two states |
| `analysis` | 2 requests, 2 inputs, 3 proposals, 2 recorded runs per input | 888 k | rows resolve, leftovers are explained by overlap or failure, decisions are final |
| `snowflake` | a chain of a plain, an optional and a virtual step, 2 requests, 2 texts, 2 revisions per step, 3 in all | 1.77 M | one line of commits, exact staleness, true projection, complete index |
| `narrative` | 1 fact, 1 character, 2 texts, 2 positions, versions to 3, any migrated row | 32 k | prompts and leak check agree, no knowledge of replaced content, roster and history complete |
| `writeback` | 1 record, 2 values, 1 thread, 1 scene, 2 proposals, 1 editor | 2.11 M | effects exactly once, updates on the value their author read |
| `compile` | 2 scenes, 2 records with 2 and 1 revisions, 2 parses, 2 numbers, 3 proposals, 1 edit | 3.15 M | a validated batch applies, replaces what was compared or a plan of the same revision, takes no plan back |
| `records` | 2 records with 2 revisions each, 2 positions, 2 requests | 430 k | one line of commits per record, derived artifact, refinement of `AcceptedScenes` |
| `runtime` | 1 request, 3 models that fall back to each other, 3 versions | 452 k | true records, attempts as the policy says, stored answers accounted for, late answers dropped |
| `compile_decided` | as `compile`, with one parse and no edit | violation | section 4 |

### Why the bounds are enough to be worth running

- *Manuscript.* Rows of different scenes share no state, so one scene has every
  conflict. Two requests cover each pair of paths; restores and contract changes come
  from outside of them. Three versions are needed for a predecessor that is not the
  first and a restore of a version two below; two plan versions for drift and return.
- *Outbox.* The lock is per project, so two jobs of one project are the conflict. Two
  threads are an abandoned one and a live one. Two attempts are a first execution and a
  repeated one after recovery. Restored packages hold another payload than commits, so
  a stale payload is visible.
- *WikiIndex.* Three scene revisions give a superseded source that is itself a
  successor; two revisions of a step are enough for overwriting. The list limit of 3
  is below the five jobs that may be pending, so that later sweeps matter, and above the
  two scene ingests that one torn source can make fail for good: with a limit of 2 these
  two, retried again and again, starve the rest, and `PendingIsIngested` is false.
- *BackupRestore.* Three operations allow a deferred cleanup, a rolled back import and
  a new one at once; two crashes allow a crash in the recovery of a crash; two writes
  separate those before from those after an import. Two errors are needed for every
  exception the properties name: an import and its rollback that both raise, and a
  cleanup that is put off twice before the next import.
- *AnalysisRuns.* Two inputs are needed for a run over a whole source; three proposals
  for a prior set, its replacement and a third one.
- *Snowflake.* The chain has a dependency that is only transitive. Two revisions of a
  step are a head and its challenger. Three rows in all allow a challenged head and a
  dependent; `MaxRows` guards the read before an insert, so an insert already under
  way may add one row more.
- *Narrative.* Facts share no row, so one has every conflict, from every story a migration
  can leave; two positions are a boundary and a scene on either side of it; three versions
  are a correction of a
  correction, with retraction and revival between.
- *Writeback.* Two proposals are an update and the sibling or thread change it meets;
  the record may be deleted and recreated, and one editor is enough to stand between a
  check and an acceptance. `MaxVersion` bounds requests, not effects, so versions above
  it occur.
- *SceneCompile.* Two records that exchange two numbers are the swap; a revised record
  separates an old parse from a new one; three proposals are two generations that
  overlap; the edit is the author between comparison and acceptance.
- *SceneRecords.* Two revisions are a head and its challenger, two records compete for
  a position.
- *Suggestions.* Calls share no row. Three models are a primary and two fallbacks, each
  of which names models that were asked before.

Symmetry is declared only over sets whose members no definition distinguishes
(requests, proposals, texts, values, inputs, scenes, parses; records in `records`), and
only in runs that check safety; the runs with liveness properties (`outbox`, `wiki`,
`backup`) use none.

`CHECK_DEADLOCK FALSE` appears where the system may stop: everything may be ingested
with all revisions committed (`wiki`), every input may have used its bounded number of
runs with all proposals decided (`analysis`), and in the other runs that say so every
row may have reached its bound of versions or revisions with nothing left to decide.

### Fairness

Safety properties need none. Liveness assumes:

- *Outbox*: a sweep thread goes on (`WF Sweep`; the handlers' calls to models and other
  processes carry timeouts), a lease expires (`WF ExpireLease`; it is a clock), `stop`
  returns (`WF StopReturns`; its wait is bounded) and a stopped application is started
  again (`WF Start`). Nothing is assumed about commits, retries or store errors. There
  is no fairness for restarting a loop that died, because no code does.
- *WikiIndex*: the dispatcher makes progress (`WF Dispatch`), and a claim left by a crash
  is recovered (`SF Recover`: it needs an idle moment between sweeps, which keeps
  recurring). Nothing is assumed about people: revisions need not be committed, and a
  failed job may wait for its retry for ever.
- *BackupRestore*: the process runs, and is started when it is down.

The other modules promise no progress, because the code has none to promise: every step
is a request that a person sends, or the one loop of a call that ends by itself.


## 4. A disagreement between the code and its documentation

**A decided scene proposal changes again** (`compile_decided`,
`data/repositories/scene_proposals.py:297`). A forced parse supersedes what is pending:
`supersede_pending` selects the pending ids and then updates them by id. Its connection
has no transaction before the UPDATE, and the UPDATE does not ask for the status, so a
proposal accepted between the two statements ends *superseded* although its scene was
written. `review/state_machine.py:8` says of every reviewable object "Leaving a decided
state is forbidden." (also `README.md:121`). The counterexample needs one parse and an
author; `update_status`, a few lines below, has the condition that is missing. The scene
itself is not harmed: `compile` checks that with the same actions. And nothing else
does it: `OnlyLateSupersessionReopens` proves that this UPDATE, over ids selected before,
is the only step that changes a decided scene proposal.


## 5. Remarks: what the models show besides

Behaviours of the code that the models have, and no property above forbids. Those of
the first list contradict an expectation somebody wrote down or would have; those of
the second are consequences to know.

Worth a decision:

- *Acceptance* (`services/manuscript_service.py:242`). "Critical consistency findings
  must be resolved before acceptance", but the report is computed before the
  transaction, which re-checks only status and scene version. In `Manuscript`,
  `CheckDraft` - `EditCanon` - `CommitAccept` commits prose that is critical by then.
- *Dispatcher* (`outbox/dispatcher.py:136`). A store call that raises in a sweep ends
  the task; nothing catches it and `start()` refuses to start a second one. Jobs wait
  until the application restarts. `OnlyADeadLoopStallsJobs` shows that this is the only
  cause.
- *Dispatch order* (`data/repositories/outbox.py:124`). Two revisions of a planning step
  that are pending in one sweep are ingested newest first, and the older text ends as
  the only evidence, against `step-llm-wiki.md:36`. `InOrderIndexIsCurrent` shows that
  without such an inversion nothing else does this. The same order starves old jobs once
  as many newer ones fail for good as a sweep lists and are retried again and again;
  `PendingIsIngested` is checked with a limit above that number.
- *Torn sources* (`llm_wiki/local_backend.py:195`). A source truncated by a crash makes
  every later ingest that meets it before its target fail, on each retry, and retrieval
  raise; the index may not heal by itself.
- *Forced re-runs* (`analysis/service.py:105`). A forced run that fails replaces the
  succeeded row, and the next success finds nothing to supersede: two sets of proposals
  stay pending, against `README.md:124`. `PendingIsCurrent` names this case.
- *Base of a revision* (`data/repositories/snowflake.py:238`). A generation sends no
  base, so its revision is stored with the head of the moment of insertion and not the
  one the generation read.
- *Two errors in one import* (`services/backup_recovery.py:147`). When a rename and its
  rollback both raise, the application serves over a journal in phase *installing*;
  what is written meanwhile is later renamed to `failed` and deleted, against the comment
  at line 161. If the rollback raised between its own renames, a file the author writes
  meanwhile makes the module directory again, and every later start refuses with
  "Ambiguous rollback directories" (`Ambiguous`). The invariants of `BackupRestore`
  except a history in which this happened by `gaveUp`; it takes two errors.
- *Two deferred cleanups* (`services/backup_recovery.py:141`). A committed operation whose
  cleanup was put off at its end and again before the next import, and whose directory
  sorts before that import's: when a crash strikes the import between its two renames, every
  start meets the committed operation first and refuses, because its target no longer
  looks installed (`LeftBehind`). `StartsAgain` names this state and `Ambiguous`; the run
  reaches both and shows that nothing else keeps the application from starting.
- *Recreated scenes* (`data/transactions/scene_compile.py:99`). An update proposal is
  compared with its target by source revision and plan version. A scene's identity is
  made of its project, number and title, and its versions start from 1 again when it is
  deleted and created under it once more. So an update that was compared with version 2
  of a plan is applied to another version 2: a parse compares a plan that the author
  edited once; the scene is deleted; a second parse's proposal for the next revision of
  the record creates it again; the author edits it once; the first proposal, now of the
  same revision, is accepted and replaces that edit unseen. It takes two edits
  of an author and was met while proving that an update replaces only what was compared,
  which is not so; `UpdatesReplaceWhatWasCompared` says what is: the compared plan,
  or a plan of the same revision of the record. `ComparedPlansAreReplaced` proves that a
  deletion of a scene under review is the only cause. The `compile` run has one edit.
- *Recreated canon* (`README.md:122`). A record deleted and created again under its name
  has the same identity and version 1, so an update drafted for the old record may
  apply to the new one. `AcceptedChangesAreCurrent` excepts it by `gone`.
- *Unread versions* (`review/service.py:82`). The check before a proposal is stored compares
  the expected version with the row and never the "before" values, which a client or a
  model may have made up. An author who names a version he has not read, because he
  guessed it or the row moved on, replaces a value he never saw; `AcceptedChangesAreCurrent`
  is about an update that expects the version that was read.
- *Open runs* (`llm/runtime.py:487`). A recorder that fails after a valid answer loses
  the answer to the caller, and the run stays "running": nothing closes runs later, also
  not after a crash.

To know:

- *Snowflake.* A late patch may change the text of an accepted revision; readers get the
  projection, which does not change (`ProjectionIsAcceptedText`). A skip leaves the
  revision it replaces "accepted" and marks no dependent stale. The last step stays
  stale from the first acceptance it rests on.
- *Narrative.* A correction of a fact leaves what characters know of it "planned", also
  knowledge that had been retracted; the interval of a retracted
  fact is not validated; `set_character_knowledge` names no expected version and
  replaces whatever is there. Migration 7 validates nothing: a backfilled row may lie
  outside of its fact's interval, and the roster goes on listing what a planned or
  retracted fact's character "knew" until a request writes that row.
  `KnowledgeIsOfThisFact` and `RosterIsConfirmedKnowledge` name these rows (`Untouched`).
- *Writeback.* The editor writes its whole form, so it replaces what a write-back
  accepted between its read and its write. The first planting of a thread keeps its
  scene; deleting a scene drops its events but not the status they gave. Two threads of
  one title make an event that names the title unacceptable.
- *Records.* A pending revision whose record moved on can neither be accepted nor
  rejected. A generation compares with the head at the time it is stored, not the one
  its targets were read from. Exchanging two positions needs a free one in between.
- *Compilation.* The status route accepts a proposal without creating its scene. Two
  first parses at once leave two pending generations; an unforced parse after a scene
  was deleted answers with the old proposals.
- *Suggestions.* A change after the second check is not noticed: the suggestion is stored
  about a text that is no longer there. It is advice, and applying it is an edit with an
  expected version of its own.


## 6. What is proved

Proofs are machine-checked by TLAPS for every value of the constants that satisfies the
named assumptions of the module: any number of scenes, requests, jobs, threads, steps,
records, models, and any bound. There are no unproved leaves. **Every invariant and every
action property of the passing runs, and both refinements, are theorems**; the runs show
them on a small instance, with the mutants that break them.

Each proof follows the same argument: an inductive invariant contains the properties and
what they rest on; TLC confirmed it on small instances first; one lemma per action shows
that the action keeps it; `Spec => []IInv` follows, and the theorems are its
consequences. Theorems without a run (the type theorems, `ClaimsAreOwned`,
`HistoryStaysDense`, `ProgressIsFurthest`, and `DecisionsStayFinal` and
`SiblingsAreSuperseded` of Manuscript) need no small instance any more.

One theorem, on `SceneCompile`, has a hypothesis about the steps taken. It is part of its
statement and explained there. All others hold of every behaviour of their specification
(`DownstreamIsLeast`: of every graph).

**ManuscriptProofs** (from `ManuscriptAssumption`). `TypeCorrect`, `HistoryCorrect`,
`PipelineCorrect`, `NoEditIsLost`, `AcceptanceIsIdempotent`, `DriftIsVisible`,
`DecisionsStayFinal`, `SiblingsAreSuperseded`. The properties need each other: that a
new version is one above all filed ones is the gapless history; that no job of the new
version exists yet, so that its idempotency keys insert, is the last conjunct of the
pipeline; a request that carries a draft knows a proposal that exists. Plan drift needs
one fact of its own: no text is drawn from a plan version that does not exist yet.

**OutboxProofs** (from `OutboxAssumption`). `TypeCorrect`, `HandlersAreSerial`,
`ClaimsAreOwned`, `SuccessIsReal` and the refinement `DispatcherIsSerial`
(`Spec => RunsSerially`). The strengthening is `HandlerInv`: a thread in a handler holds
its project's lock; its row is the claim it made, except that lease recovery may have
set it back to pending; a handler that returned success has written the claimed
payload; a succeeded row has its effect. Serial execution follows from the lock alone,
but ownership needs both: only the lock keeps a restore and a second claim away from
the row of a running handler. For the refinement every action of `Outbox` is mapped to a
step of `SerialJobs` or a stutter; recovery of a row whose handler runs is a stutter
because *running* is defined by the thread and not by the row.

**FilesProofs, BackupRestore** (from `BackupRestoreAssumption` and
`NoFilesAssumption`). `RestoreTypeCorrect`, `SoundUntilARollbackRaises`,
`ServedFilesAgree`, `WritesSurviveImports`, `FilesAreNeverLost`,
`OneErrorIsRecovered`. The invariant `Sound` is a table of what each position of the
process implies about directory, journal and rows: `Shape` (what a staging directory
holds, by its journal and its marker), `Undoable` (the three places in which the files
of the rows can be while an install is unfinished), `ImportInv` and `StepInv` (how far
an import and a recovery are), `ReasonInv` (why a recovery runs, and that at most one
directory is unfinished), `ServingInv` (the application serves over deferred cleanups,
never over an unfinished install). `Sound` is not invariant for two errors in one
import (section 5): a rename raises, then the rollback raises, and the request answers
over an unfinished install. `RollbackRaises` is exactly that step, an error in the
rollback of an import whose request goes on, and `gaveUp` remembers it. What is
inductive is `gaveUp \/ Sound`, with every other error and every crash, any number of
them, at any step, in any recovery. A rollback runs only after a first error, so `gaveUp`
takes two: `OneErrorIsRecovered` has no exception.

**FilesProofs, WikiIndex** (from `WikiIndexAssumption`). `NewestTextStaysEvidence`,
`IndexIsCurrentInOrder` and their invariant `IndexInvariant`. `HeadsInv`: the
committed revisions of a chain are its first so many, and only they run. `ProgressInv`:
from the mark on, the predecessor of the revision being ingested is no evidence, and its
own source is complete once written. `SceneFile` and `StepFile` say of each source which
text it holds, that a torn one of a step has a job that will write it again, and that in a
scene ingested in order an older text is approved only while its successor was never
written - which is what a crash between the two file writes leaves behind. The list of a
sweep enters with one fact: each of its members is a job that exists (`NthExists`,
counted from the newest).

**ProposalProofs, AnalysisRuns** (from `AnalysisAssumption`). `AnalysisTypeCorrect`,
`RowsResolve`, `LeftoversAreExplained`, `DecisionsStayFinal`. The strengthening says that
a request has no prior result before it read one, and that it works on an input.

**ProposalProofs, SceneCompile** (from `SceneCompileAssumption` and
`AcceptedScenesAssumption`). `SceneTypeCorrect`, `BatchesApply`, `UpdatesWereCompared`,
`PlansOnlyAdvance`, `OnlyLateSupersessionReopens`, `ComparedPlansAreReplaced`. A batch
applies because the second half of acceptance cannot fail where the first passed: numbers
are distinct and taken by nobody outside of the batch, and no record has two proposals in
it, because proposals at the head of one record have one position. That needs an invariant
over scenes, proposals and parses under way, `SceneInv`: a revision of a record fixes its
position (`Fits`), a record has at most one scene (`RecordsHaveOneScene`), what scenes,
proposals and parses carry are revisions the record had (`ScenesAreSourced`,
`ProposalsStand`, `ParsesStand`), and what an update was compared with is still there, or
has a later version, or the scene has a revision at least as new (`Compared`). The last
alternative is where a scene was created again, and is why an update may replace a plan of
its own revision that its parse never saw (section 5). `ComparedPlansAreReplaced` assumes
that no scene is deleted while an update of it is under review (`DropsUnderReview`), and
then has the property without that exception.

**SnowflakeProofs** (from `StepGraphAssumption` and `SnowflakeAssumption`, the latter
including that the last step is virtual). `TypeCorrect`, `HistoryStaysDense`,
`LineageIsOneLine`, `StalenessStaysExact`, `ProjectionIsTrue`, `CommitsAreIndexed`,
`ProgressIsFurthest`, `DownstreamIsLeast`. That no two commits replace one head needs
three more facts: `BasesAreCommitted` (a base is a committed revision, so nothing can
already rest on a revision that is still pending), `HeadEndsTheLine` (no commit has
the current head as its base) and `RequestsAreSound` (what a waiting request has read
still holds when it writes: commits are never undone and rows never removed). Steps
that commit nothing are treated once, as `Quiet` steps; the acceptance has lemmas for
rows, heads, line and derived tables. Staleness has its own small invariant: its proof
never looks inside `UpstreamOf`, and relies on an acceptance using the closure that
the property names. What that closure is, is a theorem of its own.
`DownstreamIsLeast`: in every graph that `validate_step_graph` admits, the steps an
acceptance marks are the least set that holds each consumer of the step and of its own
members - what the worklist of `downstream_steps` collects - and the step is not among
them.

**CanonProofs, Narrative** (from `NarrativeAssumption`). `NarrativeTypeCorrect`,
`PromptsAgree`, `KnowledgeIsCurrent`, `RosterIsTrue`, `HistoryStaysComplete`,
`VersionsAreContents`. Facts are independent, so the invariant is a predicate `Good`
of one story, and the lemmas are about the operators that build stories: each yields a
good one from a good one. Agreement of prompt and leak check comes from
`ReaderFollows` (the reader's row and the fact's visibility are two forms of one
statement) and `WorldFollows`; currency of characters' knowledge from corrections
taking back whatever they do not restate. A backfilled row is covered from the start
(`LegacyGood`): its status is the fact's, so if it is confirmed then the fact is, and it
leaves its exception with the first request that writes it, because that request records
it. Completeness of the history allows for the same rows.

**CanonProofs, Writeback** (from `WritebackAssumption`). `TypeCorrect`, `EffectsHappenOnce`,
`AcceptedUpdatesAreCurrent`. The strengthening is `SawCurrent`: versions only grow while
a record exists, so the version the author of an update read is at most the record's, and
if it still is the record's then the value is the one he read. The check plays no part in
it: what holds the property is the comparison of the version in the accepting
transaction. Deletion is where this breaks, hence the history variable `gone`.

**SceneRecordsProofs** (from `SceneRecordsAssumption`). `TypeCorrect`,
`LineageIsOneLine`, `SnapshotIsTrue` and the refinement `RecordsImplementAcceptedScenes`.
`IInv` says that bases are committed and earlier (`RowsSound`), a head is the newest
commit (`HeadsSound`), no commit lies between another and its base (`LineSound`), and a
waiting request was read from committed heads (`RequestSound`). Steps that only add
rows are treated together; an acceptance is the only step `AcceptedScenes` sees.

**SuggestionsProofs** (from `ModelRuntimeAssumption` and `SuggestionsAssumption`).
`SuggestionsTypeCorrect`, `RunsTellTheTruth`, `AnswersAreAccountedFor`,
`AttemptsFollowPolicy`, `OutdatedAnswersAreDropped`. `Tally` compares the counters of a
call with the rows it has written, one attempt apart between an answer and its record,
which is what makes the closed run's `Summary` true whenever the recorder fails. A moved
target is `Outdated`, stays so, and cannot pass the checks that remain. That no model is
asked again after another needs that the deduplicated candidates have no repeats, for any
catalog, and that the loop walks them once: `Walk` puts the profiles of the recorded
attempts at the places of the candidates the loop has passed, in order.

**On induction.** The library's induction theorems take operators as parameters, which
the installed provers cannot instantiate. Where a fact needs induction, the proofs take a
least counterexample instead: `WFMin` is about a set, and says that a non-empty set of
numbers has a least member. This is how the first of several directories is one of them
(`FirstIsOne`), a listing has an n-th job (`NthExists`), the first occurrences of the
candidates are found, and the recursive function `UpstreamOf` satisfies the equation that
defines it (`TablesExist`, `UpstreamEquation`). It is also why `NewestFirst` and
`FirstPlaces` count places where the code loops.


## 7. What is only model-checked, and what is not modelled

Only model-checked:

- all liveness (`OnlyADeadLoopStallsJobs`, `PendingIsIngested`, `StartsAgain`), which rests
  on fairness and ENABLED, and the violation: both are beyond the prover;
- `BackupRestore` after a rollback inside a request raised: the invariants except it (section
  5), and of such histories the run shows only when the application starts again.

Not modelled, by component, with the reason: see "components" in `PROJECT.json`. The
main groups are

- pure functions: prompts, parsing, validation, scoring and filtering of retrieval,
  consistency and style rules, projections, package format, exports;
- external services: the models, the Hermes and knowledge-compiler processes - a
  handler that calls one is an effect that may fail before or after it;
- independent rows edited in one transaction: memory, relations, chapters, volumes,
  projects;
- migrations, which run once inside `BEGIN IMMEDIATE` before any request;
- the client: drafts, timers and stores of one browser tab. What it may send, and when,
  is what the request actions allow in any order; that the newest typing survives in
  the tab is not covered;
- a second process over one data root. The project lock lives in a process, and the
  source states that it supports one.

Left out inside modelled components: chapters and volumes beside scenes; the fields of a
query in the wiki (stage policy, spoiler horizon); reads of the wiki that race with a
write and raise once; rows whose project is deleted by hand; chapters and thread
proposals of a parse; imports during a model call.
