--------------------------- MODULE BackupRestore ---------------------------
(***************************************************************************)
(* Importing a backup over a project: rows are replaced in one SQLite       *)
(* transaction, module files by renames that a journal in a staging         *)
(* directory records, and the commit marker decides after a crash or an     *)
(* error which of the two versions of the files belongs to the rows.        *)
(***************************************************************************)
EXTENDS Integers, FiniteSets, FiniteSetsExt

CONSTANTS
    Ops,        \* restore operations, ordered as their staging directories sort
    None,
    MaxWrites,  \* bound: author writes
    MaxFaults,  \* bound: file or database operations that raise
    MaxCrashes  \* bound: kills of the process

ASSUME BackupRestoreAssumption ==
    /\ Ops \subseteq Nat \ {0} /\ IsFiniteSet(Ops)
    /\ MaxWrites \in Nat /\ MaxFaults \in Nat /\ MaxCrashes \in Nat

VARIABLES
    db,      \* the module files the committed rows belong to
    marker,  \* backup_restore_commits
    target,  \* the project's module directory
    stage,   \* the staging directories .restore-v1-<operation>
    proc,    \* what the process is doing
    writes, faults, crashes,
    gaveUp   \* history: the rollback of an import raised, and its request went on

vars == <<db, marker, target, stage, proc, writes, faults, crashes, gaveUp>>

-----------------------------------------------------------------------------
(* Types *)

\* Module files: the package they came from (0: the original) and what the
\* author's work has added since.
Files == [base: Ops \cup {0}, added: SUBSET (1..MaxWrites)]
MaybeFiles == Files \cup {None}

ASSUME NoFilesAssumption == None \notin Files

StageType == [exists: BOOLEAN, journal: {"none", "staging", "installing", "rolled_back"},
              had: BOOLEAN, new: MaybeFiles, old: MaybeFiles, failed: MaybeFiles]

NoStage == [exists |-> FALSE, journal |-> "none", had |-> FALSE,
            new |-> None, old |-> None, failed |-> None]

Importing == {"journal", "prepare", "begin", "install", "moveOld", "moveNew", "commit"}
Recovering == {"scan", "decide", "restoreOld", "mark", "clean", "forget", "discard"}

\* mode: why the process recovers, and so where it goes on.
ProcType == [pc: {"down", "serving", "ready"} \cup Importing \cup Recovering,
             mode: {"startup", "import", "finish"}, op: Ops \cup {0}, todo: SUBSET Ops]

\* Type invariant of rows, directories and process.
TypeOK ==
    /\ db \in MaybeFiles /\ target \in MaybeFiles
    /\ marker \subseteq Ops
    /\ stage \in [Ops -> StageType]
    /\ proc \in ProcType
    /\ writes \in 0..MaxWrites /\ faults \in 0..MaxFaults /\ crashes \in 0..MaxCrashes
    /\ gaveUp \in BOOLEAN

Serve == [pc |-> "serving", mode |-> "startup", op |-> 0, todo |-> {}]
Down == [Serve EXCEPT !.pc = "down"]

\* The original project has module files or has none yet.
Init ==
    /\ db \in {None, [base |-> 0, added |-> {}]}
    /\ target = db
    /\ marker = {}
    /\ stage = [o \in Ops |-> NoStage]
    /\ proc = Down
    /\ writes = 0 /\ faults = 0 /\ crashes = 0
    /\ gaveUp = FALSE

-----------------------------------------------------------------------------
(* The author at work *)

Add(files, n) ==
    IF files = None THEN [base |-> 0, added |-> {n}]
    ELSE [files EXCEPT !.added = @ \cup {n}]

\* A background handler writes a module file and its row records the success.
AuthorWrite ==
    /\ proc.pc \in {"serving", "ready"}
    /\ writes < MaxWrites
    /\ writes' = writes + 1
    /\ target' = Add(target, writes + 1)
    /\ db' = Add(db, writes + 1)
    /\ UNCHANGED <<marker, stage, proc, faults, crashes, gaveUp>>

-----------------------------------------------------------------------------
(* Steps of an import *)

o == proc.op
Go(pc) == proc' = [proc EXCEPT !.pc = pc]

\* import_package recovers earlier operations first; so does the start.
StartRecovery ==
    /\ \/ proc.pc = "down" /\ proc' = [Down EXCEPT !.pc = "scan", !.todo = Ops]
       \/ /\ proc.pc = "serving"
          /\ proc' = [Serve EXCEPT !.pc = "scan", !.mode = "import", !.todo = Ops]
    /\ UNCHANGED <<db, marker, target, stage, writes, faults, crashes, gaveUp>>

\* ModuleRestore; an operation id is a fresh uuid.
MakeStaging(n) ==
    /\ proc.pc = "ready"
    /\ ~stage[n].exists /\ n \notin marker
    /\ \A files \in {db, target} \ {None} : files.base # n
    /\ stage' = [stage EXCEPT ![n] = [NoStage EXCEPT !.exists = TRUE, !.had = target # None]]
    /\ proc' = [proc EXCEPT !.pc = "journal", !.mode = "finish", !.op = n]
    /\ UNCHANGED <<db, marker, target, writes, faults, crashes, gaveUp>>

\* ModuleRestore refuses a project whose module directory is a link.
RefuseImport ==
    /\ proc.pc = "ready"
    /\ proc' = Serve
    /\ UNCHANGED <<db, marker, target, stage, writes, faults, crashes, gaveUp>>

WriteStagingJournal ==
    /\ proc.pc = "journal"
    /\ stage' = [stage EXCEPT ![o].journal = "staging"]
    /\ Go("prepare")
    /\ UNCHANGED <<db, marker, target, writes, faults, crashes, gaveUp>>

PrepareFiles ==
    /\ proc.pc = "prepare"
    /\ stage' = [stage EXCEPT ![o].new = [base |-> o, added |-> {}]]
    /\ Go("begin")
    /\ UNCHANGED <<db, marker, target, writes, faults, crashes, gaveUp>>

\* BEGIN IMMEDIATE, the rows and the marker; or the import is refused (no
\* confirmation to overwrite, a legacy package).
ReplaceRows ==
    /\ proc.pc = "begin"
    /\ Go("install") \/ Go("decide")
    /\ UNCHANGED <<db, marker, target, stage, writes, faults, crashes, gaveUp>>

\* Seeded fault: the renames start under the staging journal.
InstallUnderStagingJournal ==
    /\ proc.pc = "install"
    /\ Go("moveOld")
    /\ UNCHANGED <<db, marker, target, stage, writes, faults, crashes, gaveUp>>

WriteInstallingJournal ==
    /\ proc.pc = "install"
    /\ stage' = [stage EXCEPT ![o].journal = "installing"]
    /\ Go("moveOld")
    /\ UNCHANGED <<db, marker, target, writes, faults, crashes, gaveUp>>

MoveOldAway ==
    /\ proc.pc = "moveOld"
    /\ stage' = [stage EXCEPT ![o].old = target]
    /\ target' = None
    /\ Go("moveNew")
    /\ UNCHANGED <<db, marker, writes, faults, crashes, gaveUp>>

MoveNewIn ==
    /\ proc.pc = "moveNew"
    /\ target' = stage[o].new
    /\ stage' = [stage EXCEPT ![o].new = None]
    /\ Go("commit")
    /\ UNCHANGED <<db, marker, writes, faults, crashes, gaveUp>>

CommitRows ==
    /\ db' = [base |-> o, added |-> {}]
    /\ marker' = marker \cup {o}

Commit ==
    /\ proc.pc = "commit"
    /\ CommitRows
    /\ Go("decide")
    /\ UNCHANGED <<target, stage, writes, faults, crashes, gaveUp>>

-----------------------------------------------------------------------------
(* Recovery, at the start, before an import and at the end of one *)

Raise == proc' = IF proc.mode = "startup" THEN Down ELSE Serve

Recovered ==
    proc' = IF proc.mode = "finish" THEN Serve
            ELSE [proc EXCEPT !.pc = "scan", !.op = 0, !.todo = @ \ {o}]

\* recover_pending takes the staging directories in order, then drops markers
\* that have no directory.
Scan ==
    /\ proc.pc = "scan"
    /\ IF proc.todo = {}
       THEN /\ marker' = {m \in marker : stage[m].exists}
            /\ proc' = IF proc.mode = "startup" THEN Serve ELSE [proc EXCEPT !.pc = "ready"]
       ELSE LET n == Min(proc.todo) IN
            /\ UNCHANGED marker
            /\ CASE ~stage[n].exists -> proc' = [proc EXCEPT !.todo = @ \ {n}]
                 [] stage[n].exists /\ stage[n].journal # "none" ->
                        proc' = [proc EXCEPT !.pc = "decide", !.op = n]
                 [] stage[n].exists /\ stage[n].journal = "none" ->
                        proc' = [proc EXCEPT !.pc = "discard", !.op = n]
    /\ UNCHANGED <<db, target, stage, writes, faults, crashes, gaveUp>>

\* Seeded fault: a directory without a journal is always unsafe.
DiscardRefuses ==
    /\ proc.pc = "discard"
    /\ Raise
    /\ UNCHANGED <<db, marker, target, stage, writes, faults, crashes, gaveUp>>

\* A directory without a journal: stopped before the first one or after cleanup.
Discard ==
    /\ proc.pc = "discard"
    /\ IF stage[o].new = None /\ stage[o].old = None /\ stage[o].failed = None
       THEN /\ stage' = [stage EXCEPT ![o] = NoStage]
            /\ marker' = marker \ {o}
            /\ Recovered
       ELSE Raise /\ UNCHANGED <<stage, marker>>
    /\ UNCHANGED <<db, target, writes, faults, crashes, gaveUp>>

\* Seeded fault: the files, not the marker, decide whether the import committed.
CommittedByFiles == stage[o].journal = "installing" /\ stage[o].new = None /\ target # None

Committed == o \in marker

\* The renames of a rollback, each a step of its own.
DecideCommitted ==
    /\ Committed
    /\ IF stage[o].journal = "installing" /\ target # None /\ stage[o].new = None
       THEN Go("clean") ELSE Raise
    /\ UNCHANGED <<target, stage>>

DecideInstalling ==
    LET s == stage[o] IN
    /\ ~Committed /\ s.journal = "installing"
    /\ \/ /\ s.had /\ s.old # None /\ target # None /\ s.failed = None
          /\ stage' = [stage EXCEPT ![o].failed = target]
          /\ target' = None
          /\ Go("restoreOld")
       \/ /\ s.had /\ s.old # None /\ target = None
          /\ Go("restoreOld")
          /\ UNCHANGED <<target, stage>>
       \/ /\ s.had /\ s.old = None /\ target # None
          /\ Go("mark")
          /\ UNCHANGED <<target, stage>>
       \/ /\ s.had
          /\ IF s.old # None THEN target # None /\ s.failed # None ELSE target = None
          /\ Raise
          /\ UNCHANGED <<target, stage>>
       \/ /\ ~s.had /\ s.new = None /\ s.failed = None /\ target # None
          /\ stage' = [stage EXCEPT ![o].failed = target]
          /\ target' = None
          /\ Go("mark")
       \/ /\ ~s.had /\ (s.new # None \/ s.failed # None \/ target = None)
          /\ Go("mark")
          /\ UNCHANGED <<target, stage>>

Decide ==
    /\ proc.pc = "decide"
    /\ \/ DecideCommitted
       \/ DecideInstalling
       \/ /\ ~Committed /\ stage[o].journal \in {"staging", "rolled_back"}
          /\ Go("clean")
          /\ UNCHANGED <<target, stage>>
    /\ UNCHANGED <<db, marker, writes, faults, crashes, gaveUp>>

RestoreOld ==
    /\ proc.pc = "restoreOld"
    /\ target' = stage[o].old
    /\ stage' = [stage EXCEPT ![o].old = None]
    /\ Go("mark")
    /\ UNCHANGED <<db, marker, writes, faults, crashes, gaveUp>>

\* Seeded fault: the end of a rollback is not recorded.
MarkNothing ==
    /\ proc.pc = "mark"
    /\ Go("clean")
    /\ UNCHANGED <<db, marker, target, stage, writes, faults, crashes, gaveUp>>

MarkRolledBack ==
    /\ proc.pc = "mark"
    /\ stage' = [stage EXCEPT ![o].journal = "rolled_back"]
    /\ Go("clean")
    /\ UNCHANGED <<db, marker, target, writes, faults, crashes, gaveUp>>

\* cleanup_staging: the directories in any order, the journal last, then rmdir.
Clean ==
    LET s == stage[o] IN
    /\ proc.pc = "clean"
    /\ \/ s.new # None /\ stage' = [stage EXCEPT ![o].new = None] /\ UNCHANGED proc
       \/ s.old # None /\ stage' = [stage EXCEPT ![o].old = None] /\ UNCHANGED proc
       \/ s.failed # None /\ stage' = [stage EXCEPT ![o].failed = None] /\ UNCHANGED proc
       \/ /\ s.new = None /\ s.old = None /\ s.failed = None
          /\ IF s.journal # "none"
             THEN stage' = [stage EXCEPT ![o].journal = "none"] /\ UNCHANGED proc
             ELSE stage' = [stage EXCEPT ![o] = NoStage] /\ Go("forget")
    /\ UNCHANGED <<db, marker, target, writes, faults, crashes, gaveUp>>

ForgetCommit ==
    /\ proc.pc = "forget"
    /\ marker' = marker \ {o}
    /\ Recovered
    /\ UNCHANGED <<db, target, stage, writes, faults, crashes, gaveUp>>

-----------------------------------------------------------------------------
(* Errors and crashes *)

\* An install that was journalled and has neither committed nor been rolled back.
Unfinished(n) == stage[n].journal = "installing" /\ n \notin marker

\* Under way is the rollback of an import whose request goes on to answer.
RollingBack == proc.mode = "finish" /\ proc.pc \in Recovering /\ Unfinished(o)

\* An operation raises: an import goes to its recovery, a recovery gives up, a
\* cleanup is deferred.  A commit that raises may have committed.
Fault ==
    /\ faults < MaxFaults
    /\ faults' = faults + 1
    /\ gaveUp' = (gaveUp \/ RollingBack)
    /\ CASE proc.pc = "journal" -> Go("discard") /\ UNCHANGED <<db, marker>>
         [] proc.pc = "commit" -> Go("decide") /\ (CommitRows \/ UNCHANGED <<db, marker>>)
         [] proc.pc \in Importing \ {"journal", "commit"} -> Go("decide") /\ UNCHANGED <<db, marker>>
         [] proc.pc \in {"clean", "forget"} -> Recovered /\ UNCHANGED <<db, marker>>
         [] proc.pc \in Recovering \ {"clean", "forget"} -> Raise /\ UNCHANGED <<db, marker>>
         [] OTHER -> FALSE
    /\ UNCHANGED <<target, stage, writes, crashes>>

Crash ==
    /\ crashes < MaxCrashes
    /\ proc.pc # "down"
    /\ crashes' = crashes + 1
    /\ proc' = Down
    /\ UNCHANGED <<db, marker, target, stage, writes, faults, gaveUp>>

Recovery ==
    \/ Scan \/ Discard \/ Decide \/ RestoreOld \/ MarkRolledBack \/ Clean \/ ForgetCommit

Import ==
    \/ \E n \in Ops : MakeStaging(n)
    \/ RefuseImport \/ WriteStagingJournal \/ PrepareFiles \/ ReplaceRows \/ WriteInstallingJournal
    \/ MoveOldAway \/ MoveNewIn \/ Commit

Next ==
    \/ AuthorWrite \/ StartRecovery \/ Import \/ Recovery \/ Fault \/ Crash

Spec == Init /\ [][Next]_vars

\* The process runs, and is started again when it is down.
Fairness ==
    /\ WF_vars(Recovery)
    /\ WF_vars(Import)
    /\ WF_vars(proc.pc = "down" /\ StartRecovery)

FairSpec == Spec /\ Fairness

-----------------------------------------------------------------------------
(* Properties *)

\* Whenever the application serves its author, the module files are those the
\* rows belong to: all of one package with everything written since, whatever
\* was killed, raised or deferred before - unless an import and then its rollback
\* raised, and its request answered over what they left.
ServedStateAgrees == proc.pc = "serving" /\ ~gaveUp => target = db

AddedTo(files) == IF files = None THEN {} ELSE files.added

\* A write acknowledged to the author stays in the module directory, or in the
\* old directory recovery goes back to: with the same exception it is never taken
\* for part of an uncommitted import and thrown away with it.
AuthorWritesSurvive ==
    ~gaveUp => AddedTo(db) \subseteq AddedTo(target) \cup UNION {AddedTo(stage[n].old) : n \in Ops}

\* The files the rows belong to exist somewhere on disk at every moment, so
\* recovery always has them to go back to, with the same exception.
NothingIsLost ==
    \/ gaveUp
    \/ target = db
    \/ \E n \in Ops : db \in {stage[n].old, stage[n].new}
    \/ db = None

\* What recovery refuses for good.  A committed operation whose cleanup was put off
\* comes before an install that was stopped between its renames: its files are not
\* where it left them.
LeftBehind ==
    /\ target = None
    /\ \E m \in marker, n \in Ops :
          m < n /\ stage[m].journal = "installing" /\ Unfinished(n)

\* And a rollback raised between its renames, and the author wrote into the gap.
Ambiguous ==
    /\ gaveUp /\ target # None
    /\ \E n \in Ops : Unfinished(n) /\ stage[n].old # None /\ stage[n].failed # None

\* After any crash the application serves again, after one start or, where an
\* error stops that one, a later one - unless it finds one of the two.
StartsAgain == (proc.pc = "down") ~> (proc.pc = "serving" \/ LeftBehind \/ Ambiguous)

=============================================================================
