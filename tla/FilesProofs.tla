----------------------------- MODULE FilesProofs -----------------------------
(***************************************************************************)
(* Proofs about the two components that keep files beside the rows.        *)
(*                                                                         *)
(* BackupRestore: the module files are those of the rows whenever the      *)
(* author is served, and nothing is lost on the way, whatever is killed    *)
(* and whatever raises outside of the rollback of a request's own import;  *)
(* one error does no harm there either.                                    *)
(*                                                                         *)
(* WikiIndex: a scene's newest text stays evidence once it is ingested,    *)
(* and a chain ingested in order answers with its newest text alone.       *)
(***************************************************************************)
EXTENDS BackupRestore, WikiIndex, FiniteSetTheorems, SequenceTheorems, WellFoundedInduction, TLAPS

(***************************************************************************)
(* Backup import and recovery                                              *)
(***************************************************************************)

\* What a package unpacks to.
Package(n) == [base |-> n, added |-> {}]

Empty(s) == s.new = None /\ s.old = None /\ s.failed = None

NoneUnfinished == \A n \in Ops : ~Unfinished(n)
OthersSettled(n) == \A m \in Ops \ {n} : ~Unfinished(m)

\* The three places the files of the rows can be in while an install is
\* unfinished: still there, put away, or put away and replaced.
Undoable(n) ==
    LET s == stage[n] IN
    /\ s.had <=> db # None
    /\ \/ target = db /\ s.old = None
       \/ target = None /\ s.old = db
       \/ target = Package(n) /\ s.old = db /\ s.new = None /\ s.failed = None

\* What a staging directory holds, by its journal and the commit marker.
Shape(n) ==
    LET s == stage[n] IN
    /\ ~s.exists => s.journal = "none"
    /\ s.journal = "none" => Empty(s)
    /\ s.journal = "staging" => n \notin marker /\ s.old = None /\ s.failed = None
    /\ s.journal = "rolled_back" => n \notin marker /\ s.old = None
    /\ s.journal = "installing" /\ n \in marker => s.new = None
    /\ n \in marker => db # None
    /\ Unfinished(n) => Undoable(n) /\ OthersSettled(n)

Directories == \A n \in Ops : Shape(n)

Agrees == target = db \/ ~NoneUnfinished

\* The staging directory of the import under way.
Prepared(journal, new, old) ==
    LET s == stage[o] IN
    /\ proc.mode = "finish" /\ OthersSettled(o) /\ o \notin marker
    /\ s.exists /\ s.journal = journal /\ s.new = new /\ s.old = old /\ s.failed = None
    /\ s.had <=> db # None

\* How far an import is.
ImportInv ==
    /\ proc.pc = "journal" => Prepared("none", None, None) /\ target = db
    /\ proc.pc = "prepare" => Prepared("staging", None, None) /\ target = db
    /\ proc.pc \in {"begin", "install"} => Prepared("staging", Package(o), None) /\ target = db
    /\ proc.pc = "moveOld" => Prepared("installing", Package(o), None) /\ target = db
    /\ proc.pc = "moveNew" => Prepared("installing", Package(o), db) /\ target = None
    /\ proc.pc = "commit" => Prepared("installing", None, db) /\ target = Package(o)

\* Why a recovery runs, and what it can still meet.
ReasonInv ==
    proc.pc \in Recovering =>
        /\ proc.mode = "finish" =>
            proc.pc # "scan" /\ OthersSettled(o) /\ (Unfinished(o) => faults > 0)
        /\ proc.mode = "import" => NoneUnfinished /\ target = db
        /\ proc.mode = "startup" => \A n \in Ops \ proc.todo : ~Unfinished(n)
        /\ proc.pc # "scan" /\ proc.mode # "finish" => o \in proc.todo

\* How far the recovery of a directory is.
StepInv ==
    /\ proc.pc = "discard" => stage[o].exists /\ stage[o].journal = "none"
    /\ proc.pc = "decide" => stage[o].exists /\ stage[o].journal # "none"
    /\ proc.pc = "restoreOld" => Unfinished(o) /\ stage[o].had /\ target = None /\ stage[o].old = db
    /\ proc.pc = "mark" => Unfinished(o) /\ target = db /\ stage[o].old = None
    /\ proc.pc = "clean" => stage[o].exists /\ ~Unfinished(o)
    /\ proc.pc = "forget" => ~stage[o].exists

\* The application serves, and imports begin, over cleanups that were put off,
\* never over an unfinished install.
ServingInv == proc.pc \in {"serving", "ready"} => target = db /\ NoneUnfinished

Sound == Directories /\ Agrees /\ ImportInv /\ ReasonInv /\ StepInv /\ ServingInv

OperationKnown == proc.pc \in Importing \cup (Recovering \ {"scan"}) => o \in Ops

\* An error in the rollback of an import whose request goes on to answer.
RollbackRaises == Fault /\ RollingBack

-----------------------------------------------------------------------------
(* Types *)

\* The numbers below another one, as a relation.
Below == {pair \in Nat \X Nat : pair[1] < pair[2]}

\* The first of several directories is one of them.
LEMMA FirstIsOne ==
    ASSUME NEW S, S \subseteq Nat, S # {}
    PROVE  Min(S) \in S
  <1>1. IsWellFoundedOn(Below, Nat)
    BY NatLessThanWellFounded DEF OpToRel, Below
  <1>2. PICK x \in S : \A y \in S : ~ (<<y, x>> \in Below)
    BY <1>1, WFMin
  <1>3. ASSUME NEW y \in S PROVE x <= y
    <2>1. ~ (<<y, x>> \in Below) BY <1>2
    <2>2. x \in Nat /\ y \in Nat OBVIOUS
    <2>3. ~ (y < x) BY <2>1, <2>2 DEF Below
    <2> QED BY <2>2, <2>3
  <1> QED BY <1>3 DEF Min

\* What the process does after a recovery is one of the things it can do.
LEMMA ProcTypes ==
    ASSUME TypeOK
    PROVE  /\ Serve \in ProcType /\ Down \in ProcType
           /\ \A pc \in {"down", "serving", "ready"} \cup Importing \cup Recovering :
                [proc EXCEPT !.pc = pc] \in ProcType
           /\ Recovered => proc' \in ProcType
           /\ Raise => proc' \in ProcType
  <1>1. Serve \in ProcType /\ Down \in ProcType
    BY DEF Serve, Down, ProcType
  <1>2. \A pc \in {"down", "serving", "ready"} \cup Importing \cup Recovering :
                [proc EXCEPT !.pc = pc] \in ProcType
    BY DEF TypeOK, ProcType
  <1>3. [proc EXCEPT !.pc = "scan", !.op = 0, !.todo = @ \ {o}] \in ProcType
    BY DEF TypeOK, ProcType, Recovering
  <1> QED BY <1>1, <1>2, <1>3 DEF Recovered, Raise

\* A change of one directory that keeps its type.
LEMMA StageTypes ==
    ASSUME TypeOK, NEW n \in Ops
    PROVE  /\ stage[n] \in StageType
           /\ \A s \in StageType : [stage EXCEPT ![n] = s] \in [Ops -> StageType]
           /\ \A f \in MaybeFiles :
                /\ [stage EXCEPT ![n].new = f] \in [Ops -> StageType]
                /\ [stage EXCEPT ![n].old = f] \in [Ops -> StageType]
                /\ [stage EXCEPT ![n].failed = f] \in [Ops -> StageType]
           /\ \A j \in {"none", "staging", "installing", "rolled_back"} :
                [stage EXCEPT ![n].journal = j] \in [Ops -> StageType]
           /\ NoStage \in StageType /\ None \in MaybeFiles
           /\ [base |-> n, added |-> {}] \in MaybeFiles
  BY DEF TypeOK, StageType, NoStage, MaybeFiles, Files

\* Every change of a directory is one of these.
LEMMA StageStep ==
    ASSUME TypeOK, NEW n \in Ops, NEW f \in MaybeFiles,
           NEW j \in {"none", "staging", "installing", "rolled_back"},
           \/ UNCHANGED stage
           \/ stage' = [stage EXCEPT ![n].new = f]
           \/ stage' = [stage EXCEPT ![n].old = f]
           \/ stage' = [stage EXCEPT ![n].failed = f]
           \/ stage' = [stage EXCEPT ![n].journal = j]
           \/ stage' = [stage EXCEPT ![n] = NoStage]
    PROVE  stage' \in [Ops -> StageType]
  <1>1. CASE UNCHANGED stage BY <1>1 DEF TypeOK
  <1>2. CASE stage' = [stage EXCEPT ![n].new = f] BY <1>2, StageTypes
  <1>3. CASE stage' = [stage EXCEPT ![n].old = f] BY <1>3, StageTypes
  <1>4. CASE stage' = [stage EXCEPT ![n].failed = f] BY <1>4, StageTypes
  <1>5. CASE stage' = [stage EXCEPT ![n].journal = j] BY <1>5, StageTypes
  <1>6. CASE stage' = [stage EXCEPT ![n] = NoStage] BY <1>6, StageTypes
  <1> QED BY <1>1, <1>2, <1>3, <1>4, <1>5, <1>6

\* A write adds to files what files can hold.
LEMMA AddType ==
    ASSUME NEW f \in MaybeFiles, NEW n \in 1..MaxWrites
    PROVE  Add(f, n) \in Files
  <1>1. CASE f = None
    BY <1>1 DEF Add, Files
  <1>2. CASE f \in Files
    BY <1>2, NoFilesAssumption DEF Add, Files
  <1> QED BY <1>1, <1>2 DEF MaybeFiles

\* Rows, directories and the process keep their types.
LEMMA TypeStep ==
    ASSUME TypeOK, OperationKnown, Next
    PROVE  TypeOK' /\ OperationKnown'
  <1> USE BackupRestoreAssumption DEF Importing, Recovering, o
  <1>1. CASE AuthorWrite
    <2>1. writes + 1 \in 1..MaxWrites
      BY <1>1 DEF AuthorWrite, TypeOK
    <2> QED BY <1>1, <2>1, AddType DEF AuthorWrite, TypeOK, MaybeFiles, OperationKnown
  <1>2. CASE StartRecovery
    <2>1. proc' \in ProcType
      BY <1>2 DEF StartRecovery, Serve, Down, ProcType
    <2> QED BY <1>2, <2>1 DEF StartRecovery, Serve, Down, TypeOK, OperationKnown
  <1>3. ASSUME NEW n \in Ops, MakeStaging(n)
        PROVE  TypeOK' /\ OperationKnown'
    <2>1. [NoStage EXCEPT !.exists = TRUE, !.had = target # None] \in StageType
      BY DEF NoStage, StageType, MaybeFiles
    <2>2. proc' \in ProcType /\ proc'.op = n
      BY <1>3 DEF MakeStaging, TypeOK, ProcType
    <2> QED BY <1>3, <2>1, <2>2, StageTypes DEF MakeStaging, TypeOK, OperationKnown
  <1>4. CASE RefuseImport
    BY <1>4, ProcTypes DEF RefuseImport, Serve, TypeOK, OperationKnown
  <1>5. ASSUME o \in Ops, NEW pc \in {"down", "serving", "ready"} \cup Importing \cup Recovering, Go(pc),
               UNCHANGED <<db, marker, target, writes, faults, crashes, gaveUp>>,
               stage' \in [Ops -> StageType]
        PROVE  TypeOK' /\ OperationKnown'
    <2>1. proc' \in ProcType /\ proc'.op = proc.op
      BY <1>5, ProcTypes DEF Go, TypeOK, ProcType
    <2> QED BY <1>5, <2>1 DEF TypeOK, OperationKnown
  <1>6. CASE proc.pc \in Importing /\ (WriteStagingJournal \/ PrepareFiles \/ ReplaceRows
                                        \/ WriteInstallingJournal)
    <2>1. o \in Ops
      BY <1>6 DEF OperationKnown
    <2>2. stage' \in [Ops -> StageType]
      <3>1. CASE WriteStagingJournal BY <2>1, <3>1, StageTypes DEF WriteStagingJournal
      <3>2. CASE PrepareFiles BY <2>1, <3>2, StageTypes DEF PrepareFiles
      <3>3. CASE ReplaceRows BY <3>3 DEF ReplaceRows, TypeOK
      <3>4. CASE WriteInstallingJournal BY <2>1, <3>4, StageTypes DEF WriteInstallingJournal
      <3> QED BY <1>6, <3>1, <3>2, <3>3, <3>4
    <2> QED
      BY <1>5, <1>6, <2>1, <2>2 DEF WriteStagingJournal, PrepareFiles, ReplaceRows, WriteInstallingJournal
  <1>7. ASSUME o \in Ops, NEW pc \in Importing \cup Recovering, Go(pc),
               UNCHANGED <<db, marker, writes, faults, crashes, gaveUp>>,
               stage' \in [Ops -> StageType], target' \in MaybeFiles
        PROVE  TypeOK' /\ OperationKnown'
    <2>1. proc' \in ProcType /\ proc'.op = proc.op
      BY <1>7, ProcTypes DEF Go, TypeOK, ProcType
    <2> QED BY <1>7, <2>1 DEF TypeOK, OperationKnown
  <1>8. CASE MoveOldAway
    <2>1. o \in Ops /\ target \in MaybeFiles
      BY <1>8 DEF MoveOldAway, OperationKnown, TypeOK
    <2> QED BY <1>7, <1>8, <2>1, StageTypes DEF MoveOldAway
  <1>9. CASE MoveNewIn
    <2>1. o \in Ops /\ stage[o].new \in MaybeFiles
      BY <1>9 DEF MoveNewIn, OperationKnown, TypeOK, StageType
    <2> QED BY <1>7, <1>9, <2>1, StageTypes DEF MoveNewIn
  <1>10. CASE RestoreOld
    <2>1. o \in Ops /\ stage[o].old \in MaybeFiles
      BY <1>10 DEF RestoreOld, OperationKnown, TypeOK, StageType
    <2> QED BY <1>7, <1>10, <2>1, StageTypes DEF RestoreOld
  <1>11. CASE MarkRolledBack
    <2>1. o \in Ops /\ target \in MaybeFiles
      BY <1>11 DEF MarkRolledBack, OperationKnown, TypeOK
    <2> QED BY <1>7, <1>11, <2>1, StageTypes DEF MarkRolledBack
  <1>12. ASSUME o \in Ops, UNCHANGED <<writes, crashes>>, faults' \in 0..MaxFaults, gaveUp' \in BOOLEAN,
                db' \in MaybeFiles, target' \in MaybeFiles, marker' \subseteq Ops,
                stage' \in [Ops -> StageType], proc' \in ProcType, proc'.op \in Ops \/ proc'.pc \in {"down", "serving", "scan"}
         PROVE  TypeOK' /\ OperationKnown'
    BY <1>12 DEF TypeOK, OperationKnown
  <1>13. Recovered \/ Raise => proc' \in ProcType /\ proc'.pc \in {"down", "serving", "scan"}
    <2>1. Serve.pc = "serving" /\ Down.pc = "down"
      BY DEF Serve, Down
    <2>2. [proc EXCEPT !.pc = "scan", !.op = 0, !.todo = @ \ {o}].pc = "scan"
      BY DEF TypeOK, ProcType
    <2> QED BY <2>1, <2>2, ProcTypes DEF Recovered, Raise
  <1>14. CASE Commit
    <2>1. o \in Ops /\ CommitRows /\ Go("decide") /\ UNCHANGED <<target, stage, writes, faults, crashes, gaveUp>>
      BY <1>14 DEF Commit, OperationKnown
    <2>2. db' \in MaybeFiles /\ marker' \subseteq Ops
      BY <2>1, StageTypes DEF CommitRows, TypeOK
    <2>3. proc' \in ProcType /\ proc'.op = proc.op
      BY <2>1, ProcTypes DEF Go, TypeOK, ProcType
    <2> QED BY <1>12, <2>1, <2>2, <2>3 DEF TypeOK
  <1>15. CASE Scan
    <2>1. CASE proc.todo = {}
      <3>1. proc' \in ProcType /\ proc'.pc \in {"serving", "ready"}
        <4>1. Serve.pc = "serving" /\ [proc EXCEPT !.pc = "ready"].pc = "ready"
          BY DEF Serve, TypeOK, ProcType
        <4>2. proc' = Serve \/ proc' = [proc EXCEPT !.pc = "ready"]
          BY <1>15, <2>1 DEF Scan
        <4> QED BY <4>1, <4>2, ProcTypes
      <3>2. marker' \subseteq Ops
        BY <1>15, <2>1 DEF Scan, TypeOK
      <3> QED BY <1>15, <3>1, <3>2 DEF Scan, TypeOK, OperationKnown
    <2>2. CASE proc.todo # {}
      <3>1. PICK n \in proc.todo : n = Min(proc.todo)
        BY <2>2, FirstIsOne DEF TypeOK, ProcType
      <3>2. n \in Ops
        BY <3>1 DEF TypeOK, ProcType
      <3>3. /\ \/ proc' = [proc EXCEPT !.todo = @ \ {n}]
               \/ proc' = [proc EXCEPT !.pc = "decide", !.op = n]
               \/ proc' = [proc EXCEPT !.pc = "discard", !.op = n]
            /\ proc.pc = "scan"
            /\ UNCHANGED <<db, marker, target, stage, writes, faults, crashes, gaveUp>>
        BY <1>15, <2>2, <3>1 DEF Scan
      <3>4. proc' \in ProcType /\ (proc'.op \in Ops \/ proc'.pc = "scan")
        BY <3>2, <3>3 DEF TypeOK, ProcType
      <3> QED BY <3>3, <3>4 DEF TypeOK, OperationKnown
    <2> QED BY <2>1, <2>2
  <1>16. CASE Discard
    <2>1. o \in Ops /\ (Recovered \/ Raise) /\ UNCHANGED <<db, target, writes, faults, crashes, gaveUp>>
      BY <1>16 DEF Discard, OperationKnown
    <2>2. /\ marker' = marker \/ marker' = marker \ {o}
          /\ stage' = stage \/ stage' = [stage EXCEPT ![o] = NoStage]
      BY <1>16 DEF Discard
    <2>3. marker' \subseteq Ops /\ stage' \in [Ops -> StageType]
      BY <2>1, <2>2, StageTypes, StageStep DEF TypeOK
    <2> QED BY <1>12, <1>13, <2>1, <2>3 DEF TypeOK
  <1>17. CASE Decide
    <2>1. o \in Ops /\ stage[o] \in StageType /\ UNCHANGED <<db, marker, writes, faults, crashes, gaveUp>>
      BY <1>17, StageTypes DEF Decide, OperationKnown
    <2>2. \/ Raise
          \/ \E pc \in {"clean", "restoreOld", "mark"} : Go(pc)
      BY <1>17 DEF Decide, DecideCommitted, DecideInstalling
    <2>3. proc' \in ProcType /\ (proc'.op \in Ops \/ proc'.pc \in {"down", "serving", "scan"})
      BY <1>13, <2>1, <2>2, ProcTypes DEF Go, TypeOK, ProcType
    <2>4. \/ UNCHANGED <<target, stage>>
          \/ stage' = [stage EXCEPT ![o].failed = target] /\ target' = None
      BY <1>17 DEF Decide, DecideCommitted, DecideInstalling
    <2>5. target \in MaybeFiles /\ stage \in [Ops -> StageType]
      BY DEF TypeOK
    <2>6. target' \in MaybeFiles /\ stage' \in [Ops -> StageType]
      BY <2>1, <2>4, <2>5, StageTypes, StageStep
    <2> QED BY <1>12, <2>1, <2>3, <2>6 DEF TypeOK
  <1>18. CASE Clean
    <2>1. o \in Ops /\ UNCHANGED <<db, marker, target, writes, faults, crashes, gaveUp>>
      BY <1>18 DEF Clean, OperationKnown
    <2>2. \/ stage' = [stage EXCEPT ![o].new = None]
          \/ stage' = [stage EXCEPT ![o].old = None]
          \/ stage' = [stage EXCEPT ![o].failed = None]
          \/ stage' = [stage EXCEPT ![o].journal = "none"]
          \/ stage' = [stage EXCEPT ![o] = NoStage]
      BY <1>18 DEF Clean
    <2>4. stage' \in [Ops -> StageType]
      BY <2>1, <2>2, StageTypes, StageStep
    <2>3. proc' \in ProcType /\ proc'.op = proc.op
      <3>1. UNCHANGED proc \/ Go("forget") BY <1>18 DEF Clean
      <3> QED BY <3>1, ProcTypes DEF Go, TypeOK, ProcType
    <2> QED BY <1>12, <2>1, <2>3, <2>4 DEF TypeOK
  <1>19. CASE ForgetCommit
    <2>1. o \in Ops /\ Recovered /\ marker' \subseteq Ops /\ UNCHANGED <<db, target, stage, writes, faults, crashes, gaveUp>>
      BY <1>19 DEF ForgetCommit, OperationKnown, TypeOK
    <2> QED BY <1>12, <1>13, <2>1 DEF TypeOK
  <1>20. CASE Fault
    <2>1. /\ faults' \in 0..MaxFaults /\ gaveUp' \in BOOLEAN
          /\ UNCHANGED <<target, stage, writes, crashes>>
      BY <1>20 DEF Fault, RollingBack, TypeOK
    <2>2. \/ Recovered \/ Raise
          \/ proc.pc \in Importing /\ \E pc \in {"discard", "decide"} : Go(pc)
      BY <1>20 DEF Fault
    <2>3. \/ UNCHANGED <<db, marker>>
          \/ proc.pc = "commit" /\ CommitRows
      BY <1>20 DEF Fault
    <2>4. db' \in MaybeFiles /\ marker' \subseteq Ops
      BY <2>3, StageTypes DEF CommitRows, OperationKnown, TypeOK
    <2>5. proc' \in ProcType /\ (proc'.op \in Ops \/ proc'.pc \in {"down", "serving", "scan"})
      BY <1>13, <2>2, ProcTypes DEF Go, TypeOK, ProcType, OperationKnown
    <2> QED BY <2>1, <2>4, <2>5 DEF TypeOK, OperationKnown
  <1>21. CASE Crash
    BY <1>21, ProcTypes DEF Crash, Down, Serve, TypeOK, OperationKnown
  <1>22. /\ WriteStagingJournal \/ PrepareFiles \/ ReplaceRows \/ WriteInstallingJournal => proc.pc \in Importing
    BY DEF WriteStagingJournal, PrepareFiles, ReplaceRows, WriteInstallingJournal
  <1> QED
    BY <1>1, <1>2, <1>3, <1>4, <1>6, <1>8, <1>9, <1>10, <1>11, <1>14, <1>15, <1>16, <1>17, <1>18, <1>19, <1>20, <1>21, <1>22
       DEF Next, Import, Recovery

-----------------------------------------------------------------------------
(* Steps that leave rows and files alone *)

\* What is said of directories and rows is said of these four variables.
LEMMA Frame ==
    ASSUME UNCHANGED <<db, marker, target, stage>>
    PROVE  /\ Directories' = Directories /\ Agrees' = Agrees
           /\ NoneUnfinished' = NoneUnfinished
           /\ \A n : Unfinished(n)' = Unfinished(n) /\ OthersSettled(n)' = OthersSettled(n)
  BY DEF Directories, Agrees, NoneUnfinished, Unfinished, OthersSettled, Shape, Undoable

\* A directory that a step leaves alone, with nothing unfinished in it, holds
\* what it held.
LEMMA OtherShape ==
    ASSUME NEW m \in Ops, Shape(m), ~Unfinished(m), stage'[m] = stage[m],
           m \in marker' <=> m \in marker, db # None => db' # None
    PROVE  Shape(m)' /\ ~Unfinished(m)'
  BY DEF Shape, Unfinished, Empty

\* A directory that a step leaves alone, with rows and files, holds what it held.
LEMMA SameShape ==
    ASSUME NEW m \in Ops, Shape(m), stage'[m] = stage[m], m \in marker' <=> m \in marker,
           UNCHANGED <<db, target>>, \A n \in Ops : Unfinished(n)' => Unfinished(n)
    PROVE  Shape(m)'
  BY DEF Shape, Unfinished, Empty, Undoable, OthersSettled

\* A process that is down promises nothing but that it can recover.
LEMMA GoesDown ==
    ASSUME Directories', Agrees', proc' = Down
    PROVE  Sound'
  <1>1. proc'.pc = "down" BY DEF Down, Serve
  <1> QED BY <1>1 DEF Sound, ImportInv, ReasonInv, StepInv, ServingInv, Recovering

\* A process that serves has the files of its rows.
LEMMA GoesServing ==
    ASSUME Directories', target' = db', NoneUnfinished', proc' = Serve
    PROVE  Sound'
  <1>1. proc'.pc = "serving" BY DEF Serve
  <1> QED BY <1>1 DEF Sound, Agrees, ImportInv, ReasonInv, StepInv, ServingInv, Recovering

\* A recovery that gives up: the next start tries again, a request leaves what
\* had been served.
LEMMA GivesUp ==
    ASSUME TypeOK, Directories', Agrees', Raise,
           proc.mode # "startup" => target' = db' /\ NoneUnfinished'
    PROVE  Sound'
  BY GoesDown, GoesServing DEF Raise

\* A recovery that is through with a directory, or leaves its cleanup for later.
LEMMA GoesOn ==
    ASSUME TypeOK, OperationKnown, Sound, Recovered, Directories', Agrees',
           NEW k \in Ops, k = o, proc.pc \in Recovering \ {"scan"},
           UNCHANGED <<db, target>>,
           \A n \in Ops \ {k} : stage'[n] = stage[n] /\ (n \in marker' <=> n \in marker),
           ~Unfinished(k)'
    PROVE  Sound'
  <1>1. \A n \in Ops \ {k} : Unfinished(n)' <=> Unfinished(n)
    BY DEF Unfinished
  <1>2. CASE proc.mode = "finish"
    <2>1. OthersSettled(k) BY <1>2 DEF Sound, ReasonInv
    <2>2. NoneUnfinished'
      BY <1>1, <2>1 DEF OthersSettled, NoneUnfinished
    <2>3. proc' = Serve BY <1>2 DEF Recovered
    <2> QED BY <2>2, <2>3, GoesServing DEF Agrees
  <1>3. CASE proc.mode # "finish"
    <2>1. proc' = [proc EXCEPT !.pc = "scan", !.op = 0, !.todo = @ \ {k}]
      BY <1>3 DEF Recovered
    <2>2. proc'.pc = "scan" /\ proc'.mode = proc.mode /\ proc'.todo = proc.todo \ {k}
      BY <2>1 DEF TypeOK, ProcType
    <2>3. ReasonInv'
      <3>1. CASE proc.mode = "import"
        <4>1. NoneUnfinished /\ target = db
          BY <3>1 DEF Sound, ReasonInv
        <4>2. \A n \in Ops : ~Unfinished(n)' BY <1>1, <4>1 DEF NoneUnfinished
        <4>3. NoneUnfinished' BY <4>2 DEF NoneUnfinished
        <4> QED BY <2>2, <3>1, <4>1, <4>3 DEF ReasonInv
      <3>2. CASE proc.mode = "startup"
        <4>1. \A n \in Ops \ proc.todo : ~Unfinished(n)
          BY <3>2 DEF Sound, ReasonInv
        <4>2. \A n \in Ops \ proc'.todo : ~Unfinished(n)'
          BY <1>1, <2>2, <4>1 DEF TypeOK
        <4> QED BY <2>2, <3>2, <4>2 DEF ReasonInv
      <3> QED BY <1>3, <3>1, <3>2 DEF TypeOK, ProcType
    <2>4. ImportInv' /\ StepInv' /\ ServingInv'
      BY <2>2 DEF ImportInv, StepInv, ServingInv
    <2> QED BY <2>3, <2>4 DEF Sound
  <1> QED BY <1>2, <1>3

\* A restart or a request begins to look through the directories.
LEMMA StartKeeps ==
    ASSUME Sound, StartRecovery
    PROVE  Sound'
  <1>1. UNCHANGED <<db, marker, target, stage, faults>>
    BY DEF StartRecovery
  <1>2. proc'.pc = "scan" /\ proc'.todo = Ops
    BY DEF StartRecovery, Serve, Down
  <1>3. \/ proc'.mode = "startup"
        \/ proc'.mode = "import" /\ proc.pc = "serving"
    BY DEF StartRecovery, Serve, Down
  <1>4. ReasonInv'
    BY <1>1, <1>2, <1>3, Frame DEF Sound, ServingInv, ReasonInv
  <1> QED
    BY <1>1, <1>2, <1>4, Frame DEF Sound, ImportInv, StepInv, ServingInv

\* A kill leaves the disk as it is.
LEMMA CrashKeeps ==
    ASSUME Sound, Crash
    PROVE  Sound'
  BY Frame, GoesDown DEF Sound, Crash

-----------------------------------------------------------------------------
(* Steps of an import *)

\* A step of an import or a recovery names the next one.
LEMMA Next1 ==
    ASSUME TypeOK, NEW pc, Go(pc)
    PROVE  proc'.pc = pc /\ proc'.mode = proc.mode /\ proc'.op = proc.op /\ proc'.todo = proc.todo
  BY DEF TypeOK, ProcType, Go

\* An import that goes on importing.
LEMMA ImportGoesOn ==
    ASSUME Directories', Agrees', ImportInv', proc'.pc \in Importing
    PROVE  Sound'
  BY DEF Sound, ReasonInv, StepInv, ServingInv, Importing, Recovering

\* The author writes where the files of the rows are.
LEMMA AuthorWriteKeeps ==
    ASSUME TypeOK, Sound, AuthorWrite
    PROVE  Sound'
  <1>1. target = db /\ NoneUnfinished /\ proc.pc \in {"serving", "ready"}
    BY DEF Sound, ServingInv, AuthorWrite
  <1>2. target' = db' /\ db' # None /\ UNCHANGED <<marker, stage, proc, faults>>
    <2>1. writes + 1 \in 1..MaxWrites /\ db \in MaybeFiles
      BY BackupRestoreAssumption DEF AuthorWrite, TypeOK
    <2>2. db' \in Files
      BY <2>1, AddType DEF AuthorWrite
    <2> QED BY <1>1, <2>2, NoFilesAssumption DEF AuthorWrite
  <1>3. NoneUnfinished' = NoneUnfinished
    BY <1>2 DEF NoneUnfinished, Unfinished
  <1>4. Directories'
    BY <1>1, <1>2 DEF Sound, Directories, Shape, NoneUnfinished, Unfinished, Empty
  <1> QED
    BY <1>1, <1>2, <1>3, <1>4 DEF Sound, Agrees, ImportInv, ReasonInv, StepInv, ServingInv, Importing, Recovering

\* A new directory is alone.
LEMMA MakeStagingKeeps ==
    ASSUME TypeOK, Sound, NEW k \in Ops, MakeStaging(k)
    PROVE  Sound'
  <1>1. target = db /\ NoneUnfinished /\ ~Unfinished(k)
    BY DEF Sound, ServingInv, MakeStaging, NoneUnfinished
  <1>2. /\ stage'[k].exists /\ stage'[k].journal = "none" /\ Empty(stage'[k])
        /\ stage'[k].had <=> target # None
        /\ \A m \in Ops \ {k} : stage'[m] = stage[m]
        /\ UNCHANGED <<db, marker, target>> /\ k \notin marker
    BY DEF MakeStaging, TypeOK, NoStage, Empty
  <1>3. proc'.pc = "journal" /\ proc'.mode = "finish" /\ proc'.op = k
    BY DEF MakeStaging, TypeOK, ProcType
  <1>4. Directories'
    <2>1. ASSUME NEW m \in Ops \ {k} PROVE Shape(m)'
      BY <1>1, <1>2, <2>1, OtherShape DEF Sound, Directories, NoneUnfinished
    <2>2. Shape(k)'
      BY <1>2 DEF Shape, Unfinished
    <2> QED BY <2>1, <2>2 DEF Directories
  <1>5. ImportInv'
    BY <1>1, <1>2, <1>3 DEF ImportInv, Prepared, OthersSettled, NoneUnfinished, Unfinished, Empty, o
  <1> QED
    BY <1>1, <1>2, <1>3, <1>4, <1>5, ImportGoesOn DEF Agrees, Importing

\* A refused import leaves nothing behind.
LEMMA RefuseImportKeeps ==
    ASSUME Sound, RefuseImport
    PROVE  Sound'
  <1>1. target = db /\ NoneUnfinished
    BY DEF Sound, ServingInv, RefuseImport
  <1> QED BY <1>1, Frame, GoesServing DEF RefuseImport, Sound

\* The steps that fill the directory before the first rename.
LEMMA PreparationKeeps ==
    ASSUME TypeOK, OperationKnown, Sound, WriteStagingJournal \/ PrepareFiles \/ WriteInstallingJournal
    PROVE  Sound'
  <1>1. PICK k \in Ops : k = proc.op
    BY DEF OperationKnown, WriteStagingJournal, PrepareFiles, WriteInstallingJournal, Importing, o
  <1> USE DEF o
  <1>2. /\ UNCHANGED <<db, marker, target>> /\ target = db /\ k \notin marker /\ OthersSettled(k)
        /\ \A m \in Ops \ {k} : stage'[m] = stage[m]
        /\ stage'[k].exists /\ stage'[k].had = stage[k].had /\ (stage[k].had <=> db # None)
        /\ stage'[k].old = None /\ stage'[k].failed = None
        /\ proc'.op = k /\ proc'.mode = "finish"
    BY <1>1, Next1 DEF WriteStagingJournal, PrepareFiles, WriteInstallingJournal, Sound, ImportInv, Prepared, TypeOK, StageType
  <1>3. \/ proc'.pc = "prepare" /\ stage'[k].journal = "staging" /\ stage'[k].new = None
        \/ proc'.pc = "begin" /\ stage'[k].journal = "staging" /\ stage'[k].new = Package(k)
        \/ proc'.pc = "moveOld" /\ stage'[k].journal = "installing" /\ stage'[k].new = Package(k)
    <2>1. CASE WriteStagingJournal
      BY <1>1, <2>1, Next1 DEF WriteStagingJournal, Sound, ImportInv, Prepared, TypeOK, StageType
    <2>2. CASE PrepareFiles
      BY <1>1, <2>2, Next1 DEF PrepareFiles, Sound, ImportInv, Prepared, TypeOK, StageType, Package
    <2>3. CASE WriteInstallingJournal
      BY <1>1, <2>3, Next1 DEF WriteInstallingJournal, Sound, ImportInv, Prepared, TypeOK, StageType
    <2> QED BY <2>1, <2>2, <2>3
  <1>4. Directories'
    <2>1. ASSUME NEW m \in Ops \ {k} PROVE Shape(m)'
      BY <1>2, <2>1, OtherShape DEF Sound, Directories, OthersSettled
    <2>2. Shape(k)'
      BY <1>2, <1>3 DEF Shape, Unfinished, Undoable, OthersSettled
    <2> QED BY <2>1, <2>2 DEF Directories
  <1>5. ImportInv'
    BY <1>2, <1>3 DEF ImportInv, Prepared, OthersSettled, Unfinished
  <1> QED
    BY <1>2, <1>3, <1>4, <1>5, ImportGoesOn DEF Agrees, Importing

\* The rows are ready in an open transaction, or the import is refused.
LEMMA ReplaceRowsKeeps ==
    ASSUME TypeOK, Sound, ReplaceRows
    PROVE  Sound'
  <1>1. UNCHANGED <<db, marker, target, stage, faults>>
        /\ proc'.pc \in {"install", "decide"} /\ proc'.op = proc.op /\ proc'.mode = proc.mode
    BY Next1 DEF ReplaceRows
  <1>2. Prepared("staging", Package(o), None) /\ target = db
    BY DEF Sound, ImportInv, ReplaceRows
  <1>3. ImportInv' /\ ServingInv'
    BY <1>1, <1>2 DEF ImportInv, ServingInv, Prepared, OthersSettled, Unfinished, o
  <1>4. ReasonInv' /\ StepInv'
    BY <1>1, <1>2 DEF ReasonInv, StepInv, Prepared, OthersSettled, Unfinished, o
  <1> QED BY <1>1, <1>3, <1>4, Frame DEF Sound

\* The two renames, each of which leaves an install that can be undone.
LEMMA RenamesKeep ==
    ASSUME TypeOK, OperationKnown, Sound, MoveOldAway \/ MoveNewIn
    PROVE  Sound'
  <1>1. PICK k \in Ops : k = proc.op
    BY DEF OperationKnown, MoveOldAway, MoveNewIn, Importing, o
  <1> USE DEF o
  <1>2. /\ UNCHANGED <<db, marker>> /\ k \notin marker /\ OthersSettled(k)
        /\ \A m \in Ops \ {k} : stage'[m] = stage[m]
        /\ stage'[k].exists /\ stage'[k].had = stage[k].had /\ (stage[k].had <=> db # None)
        /\ stage'[k].journal = "installing" /\ stage'[k].failed = None
        /\ proc'.op = k /\ proc'.mode = "finish"
    BY <1>1, Next1 DEF MoveOldAway, MoveNewIn, Sound, ImportInv, Prepared, TypeOK, StageType
  <1>3. \/ /\ proc'.pc = "moveNew" /\ stage'[k].new = Package(k)
           /\ stage'[k].old = db /\ target' = None
        \/ /\ proc'.pc = "commit" /\ stage'[k].new = None
           /\ stage'[k].old = db /\ target' = Package(k)
    <2>1. CASE MoveOldAway
      BY <1>1, <2>1, Next1 DEF MoveOldAway, Sound, ImportInv, Prepared, TypeOK, StageType
    <2>2. CASE MoveNewIn
      BY <1>1, <2>2, Next1 DEF MoveNewIn, Sound, ImportInv, Prepared, TypeOK, StageType
    <2> QED BY <2>1, <2>2
  <1>4. Directories'
    <2>1. ASSUME NEW m \in Ops \ {k} PROVE Shape(m)'
      BY <1>2, <2>1, OtherShape DEF Sound, Directories, OthersSettled
    <2>2. Unfinished(k)' /\ Undoable(k)' /\ OthersSettled(k)'
      BY <1>2, <1>3 DEF Unfinished, Undoable, OthersSettled
    <2>3. Shape(k)'
      BY <1>2, <2>2 DEF Shape, Unfinished
    <2> QED BY <2>1, <2>3 DEF Directories
  <1>5. ImportInv'
    BY <1>2, <1>3 DEF ImportInv, Prepared, OthersSettled, Unfinished
  <1>6. ~NoneUnfinished'
    BY <1>2 DEF NoneUnfinished, Unfinished
  <1> QED
    BY <1>3, <1>4, <1>5, <1>6, ImportGoesOn DEF Agrees, Importing

\* Whether or not the commit of the rows raises: when they are committed the
\* files are theirs.
LEMMA CommitRowsKeep ==
    ASSUME TypeOK, OperationKnown, Sound, proc.pc = "commit", CommitRows, Go("decide"),
           UNCHANGED <<target, stage>>
    PROVE  Sound'
  <1>1. PICK k \in Ops : k = proc.op
    BY DEF OperationKnown, Importing, o
  <1> USE DEF o
  <1>2. /\ db' = Package(k) /\ marker' = marker \cup {k} /\ target = Package(k)
        /\ OthersSettled(k) /\ stage[k].exists /\ stage[k].journal = "installing"
        /\ stage[k].new = None /\ stage[k].failed = None
        /\ proc'.pc = "decide" /\ proc'.op = k /\ proc'.mode = "finish"
    BY <1>1, Next1 DEF CommitRows, Package, Sound, ImportInv, Prepared
  <1>3. Package(k) # None
    BY NoFilesAssumption DEF Package, Files
  <1>4. Directories'
    <2>1. ASSUME NEW m \in Ops \ {k} PROVE Shape(m)'
      BY <1>2, <1>3, <2>1, OtherShape DEF Sound, Directories, OthersSettled
    <2>2. Shape(k)'
      BY <1>2, <1>3 DEF Shape, Unfinished
    <2> QED BY <2>1, <2>2 DEF Directories
  <1>5. ~Unfinished(k)' /\ OthersSettled(k)'
    BY <1>2 DEF Unfinished, OthersSettled
  <1> QED
    BY <1>2, <1>4, <1>5 DEF Sound, Agrees, ImportInv, ReasonInv, StepInv, ServingInv

LEMMA CommitStepKeeps ==
    ASSUME TypeOK, OperationKnown, Sound, Commit
    PROVE  Sound'
  BY CommitRowsKeep DEF Commit

-----------------------------------------------------------------------------
(* Steps of a recovery *)

\* The recovery goes from directory to directory and ends by forgetting markers.
LEMMA ScanKeeps ==
    ASSUME TypeOK, Sound, Scan
    PROVE  Sound'
  <1> USE DEF o
  <1>1. /\ UNCHANGED <<db, target, stage, faults>> /\ proc.pc = "scan"
        /\ proc.mode \in {"startup", "import"}
    BY DEF Scan, Sound, ReasonInv, Recovering, TypeOK, ProcType
  <1>2. CASE proc.todo = {}
    <2>1. marker' = {m \in marker : stage[m].exists}
      BY <1>2 DEF Scan
    <2>2. \A n \in Ops : n \in marker' => n \in marker
      BY <2>1
    <2>3. \A n \in Ops : stage[n].journal # "none" => (n \in marker' <=> n \in marker)
      BY <2>1 DEF Sound, Directories, Shape
    <2>4. \A n \in Ops : Unfinished(n)' <=> Unfinished(n)
      BY <1>1, <2>3 DEF Unfinished
    <2>5. Directories'
      BY <1>1, <2>2, <2>3, <2>4 DEF Sound, Directories, Shape, OthersSettled, Undoable
    <2>6. NoneUnfinished
      BY <1>1, <1>2 DEF Sound, ReasonInv, Recovering, NoneUnfinished
    <2>7. target = db
      BY <2>6 DEF Sound, Agrees
    <2>8. NoneUnfinished'
      BY <2>4, <2>6 DEF NoneUnfinished
    <2>9. CASE proc.mode = "startup"
      <3>1. proc' = Serve BY <1>2, <2>9 DEF Scan
      <3> QED BY <1>1, <2>5, <2>7, <2>8, <3>1, GoesServing
    <2>10. CASE proc.mode = "import"
      <3>1. proc'.pc = "ready" BY <1>2, <2>10 DEF Scan, TypeOK, ProcType
      <3> QED BY <1>1, <2>5, <2>7, <2>8, <3>1
              DEF Sound, Agrees, ImportInv, ReasonInv, StepInv, ServingInv, Recovering
    <2> QED BY <1>1, <2>9, <2>10
  <1>3. CASE proc.todo # {}
    <2>1. PICK k \in proc.todo : k = Min(proc.todo)
      BY <1>3, FirstIsOne, BackupRestoreAssumption DEF TypeOK, ProcType
    <2>2. UNCHANGED marker
      BY <1>3 DEF Scan
    <2>3. \/ ~stage[k].exists /\ proc' = [proc EXCEPT !.todo = @ \ {k}]
          \/ stage[k].exists /\ stage[k].journal # "none" /\ proc' = [proc EXCEPT !.pc = "decide", !.op = k]
          \/ stage[k].exists /\ stage[k].journal = "none" /\ proc' = [proc EXCEPT !.pc = "discard", !.op = k]
      BY <1>3, <2>1 DEF Scan
    <2>4. \/ /\ ~stage[k].exists
             /\ proc'.pc = "scan" /\ proc'.mode = proc.mode /\ proc'.todo = proc.todo \ {k}
          \/ /\ stage[k].exists /\ stage[k].journal # "none"
             /\ proc'.pc = "decide" /\ proc'.mode = proc.mode /\ proc'.todo = proc.todo /\ proc'.op = k
          \/ /\ stage[k].exists /\ stage[k].journal = "none"
             /\ proc'.pc = "discard" /\ proc'.mode = proc.mode /\ proc'.todo = proc.todo /\ proc'.op = k
      BY <1>1, <2>3 DEF TypeOK, ProcType
    <2>5. Directories' /\ Agrees'
      BY <1>1, <2>2, Frame DEF Sound
    <2>6. ImportInv' /\ StepInv' /\ ServingInv'
      BY <1>1, <2>4 DEF ImportInv, StepInv, ServingInv
    <2>7. ReasonInv'
      <3>1. /\ proc'.mode = proc.mode /\ proc'.mode \in {"startup", "import"}
            /\ \A n \in Ops \ proc'.todo : n \in proc.todo => ~Unfinished(n)
            /\ proc'.pc # "scan" => proc'.op \in proc'.todo
        BY <1>1, <2>1, <2>4 DEF Sound, Directories, Shape, Unfinished
      <3>2. NoneUnfinished' = NoneUnfinished /\ \A n \in Ops : Unfinished(n)' = Unfinished(n)
        BY <1>1, <2>2, Frame
      <3>3. CASE proc.mode = "startup"
        BY <1>1, <3>1, <3>2, <3>3 DEF Sound, ReasonInv, Recovering
      <3>4. CASE proc.mode = "import"
        BY <1>1, <3>1, <3>2, <3>4 DEF Sound, ReasonInv, Recovering
      <3> QED BY <1>1, <3>3, <3>4
    <2> QED BY <2>5, <2>6, <2>7 DEF Sound
  <1> QED BY <1>2, <1>3

\* A directory without a journal is empty, so nothing is refused.
LEMMA DiscardKeeps ==
    ASSUME TypeOK, OperationKnown, Sound, Discard, faults' = faults
    PROVE  Sound'
  <1>1. PICK k \in Ops : k = proc.op
    BY DEF OperationKnown, Discard, Recovering, o
  <1> USE DEF o
  <1>2. stage[k].exists /\ stage[k].journal = "none" /\ Empty(stage[k]) /\ proc.pc = "discard"
    BY <1>1 DEF Discard, Sound, StepInv, Directories, Shape
  <1>3. /\ stage' = [stage EXCEPT ![k] = NoStage] /\ marker' = marker \ {k} /\ Recovered
        /\ UNCHANGED <<db, target>>
    BY <1>1, <1>2 DEF Discard, Empty
  <1>4. /\ \A n \in Ops \ {k} : stage'[n] = stage[n] /\ (n \in marker' <=> n \in marker)
        /\ ~stage'[k].exists /\ stage'[k].journal = "none" /\ Empty(stage'[k]) /\ k \notin marker'
    BY <1>3 DEF TypeOK, NoStage, Empty
  <1>5. Directories'
    <2>1. ASSUME NEW m \in Ops \ {k} PROVE Shape(m)'
      BY <1>2, <1>3, <1>4, <2>1 DEF Sound, Directories, Shape, OthersSettled, Undoable, Unfinished
    <2>2. Shape(k)'
      BY <1>4 DEF Shape, Unfinished
    <2> QED BY <2>1, <2>2 DEF Directories
  <1>6. Agrees'
    <2>1. \A n \in Ops : Unfinished(n) => Unfinished(n)'
      BY <1>2, <1>4 DEF Unfinished
    <2> QED BY <1>3, <2>1 DEF Sound, Agrees, NoneUnfinished
  <1>7. ~Unfinished(k)'
    BY <1>4 DEF Unfinished
  <1> QED
    BY <1>1, <1>2, <1>3, <1>4, <1>5, <1>6, <1>7, GoesOn DEF Recovering

\* A recovery that goes on with the same directory.
LEMMA SameDirectory ==
    ASSUME TypeOK, OperationKnown, Sound, NEW k \in Ops, k = o,
           proc.pc \in Recovering \ {"scan"}, NEW pc \in Recovering \ {"scan"}, Go(pc),
           UNCHANGED <<db, marker, faults>>,
           \A n \in Ops \ {k} : stage'[n] = stage[n],
           Unfinished(k)' => Unfinished(k),
           target' = target \/ Unfinished(k),
           Directories', Agrees', StepInv'
    PROVE  Sound'
  <1>1. /\ proc'.pc = pc /\ proc'.mode = proc.mode /\ proc'.op = k /\ proc'.todo = proc.todo
        /\ proc.mode \in {"startup", "import", "finish"}
    BY Next1 DEF o, TypeOK, ProcType
  <1>2. ImportInv' /\ ServingInv'
    BY <1>1 DEF ImportInv, ServingInv, Recovering
  <1>3. \A n \in Ops \ {k} : Unfinished(n)' <=> Unfinished(n)
    BY DEF Unfinished
  <1>4. CASE proc.mode = "finish"
    <2>1. OthersSettled(k)' /\ (Unfinished(k)' => faults > 0)
      BY <1>3, <1>4 DEF Sound, ReasonInv, OthersSettled
    <2>2. ReasonInv'
      BY <1>1, <1>4, <2>1 DEF ReasonInv, o
    <2> QED BY <1>2, <2>2 DEF Sound
  <1>5. CASE proc.mode = "startup"
    <2>1. k \in proc.todo /\ \A n \in Ops \ proc.todo : ~Unfinished(n)
      BY <1>5 DEF Sound, ReasonInv
    <2>2. \A n \in Ops \ proc.todo : ~Unfinished(n)'
      BY <1>3, <2>1
    <2>3. ReasonInv'
      BY <1>1, <1>5, <2>1, <2>2 DEF ReasonInv, o
    <2> QED BY <1>2, <2>3 DEF Sound
  <1>6. CASE proc.mode = "import"
    <2>1. k \in proc.todo /\ NoneUnfinished /\ target = db
      BY <1>6 DEF Sound, ReasonInv
    <2>2. target' = db
      BY <2>1 DEF NoneUnfinished
    <2>3. NoneUnfinished'
      <3>1. ~Unfinished(k)
        BY <2>1 DEF NoneUnfinished
      <3>2. ASSUME NEW n \in Ops PROVE ~Unfinished(n)'
        <4>1. CASE n = k
          BY <3>1, <4>1
        <4>2. CASE n # k
          BY <1>3, <2>1, <4>2 DEF NoneUnfinished
        <4> QED BY <4>1, <4>2
      <3> QED BY <3>2 DEF NoneUnfinished
    <2>4. ReasonInv'
      BY <1>1, <1>6, <2>1, <2>2, <2>3 DEF ReasonInv, o
    <2> QED BY <1>2, <2>4 DEF Sound
  <1> QED BY <1>1, <1>4, <1>5, <1>6

\* What recovery decides for an uncommitted install brings the files back.
LEMMA UndoKeeps ==
    ASSUME TypeOK, OperationKnown, Sound, proc.pc = "decide", DecideInstalling,
           UNCHANGED <<db, marker, faults>>
    PROVE  Sound'
  <1>1. PICK k \in Ops : k = proc.op
    BY DEF OperationKnown, Recovering, o
  <1> USE DEF o
  <1>2. /\ Unfinished(k) /\ stage[k].exists /\ Undoable(k) /\ OthersSettled(k)
    BY <1>1 DEF DecideInstalling, Committed, Unfinished, Sound, StepInv, Directories, Shape
  <1>3. /\ \A m \in Ops \ {k} : stage'[m] = stage[m]
        /\ stage'[k].exists /\ stage'[k].journal = "installing"
        /\ stage'[k].had = stage[k].had /\ stage'[k].old = stage[k].old
        /\ stage'[k].new = stage[k].new
        /\ stage[k].failed # None => stage'[k].failed # None
    BY <1>1, <1>2 DEF DecideInstalling, TypeOK, StageType, Unfinished
  <1>4. Package(k) # None
    BY NoFilesAssumption DEF Package, Files
  <1>5. \/ Go("restoreOld") /\ stage[k].had /\ target' = None /\ stage[k].old = db
        \/ Go("mark") /\ target' = db /\ stage[k].old = None
    <2>1. /\ stage[k].had <=> db # None
          /\ \/ target = db /\ stage[k].old = None
             \/ target = None /\ stage[k].old = db
             \/ target = Package(k) /\ stage[k].old = db /\ stage[k].new = None /\ stage[k].failed = None
      BY <1>2 DEF Undoable
    <2>2. CASE stage[k].had
      BY <1>1, <1>4, <2>1, <2>2 DEF DecideInstalling
    <2>3. CASE ~stage[k].had
      BY <1>1, <1>4, <2>1, <2>3 DEF DecideInstalling
    <2> QED BY <2>2, <2>3
  <1>6. Undoable(k)'
    BY <1>2, <1>3, <1>5 DEF Undoable
  <1>7. Unfinished(k)' /\ OthersSettled(k)'
    BY <1>2, <1>3 DEF Unfinished, OthersSettled
  <1>8. Directories'
    <2>1. ASSUME NEW m \in Ops \ {k} PROVE Shape(m)'
      BY <1>2, <1>3, <2>1, OtherShape DEF Sound, Directories, OthersSettled
    <2>2. Shape(k)'
      BY <1>3, <1>6, <1>7 DEF Shape, Unfinished
    <2> QED BY <2>1, <2>2 DEF Directories
  <1>9. Agrees'
    BY <1>7 DEF Agrees, NoneUnfinished
  <1>10. CASE Go("restoreOld") /\ stage[k].had /\ target' = None /\ stage[k].old = db
    <2>0. proc'.pc = "restoreOld" /\ proc'.op = k /\ db' = db
      BY <1>1, <1>10, Next1
    <2>1. StepInv'
      BY <1>3, <1>7, <1>10, <2>0 DEF StepInv, Unfinished
    <2> QED BY <1>1, <1>2, <1>3, <1>8, <1>9, <1>10, <2>1, SameDirectory DEF Recovering
  <1>11. CASE Go("mark") /\ target' = db /\ stage[k].old = None
    <2>1. StepInv'
      BY <1>1, <1>3, <1>7, <1>11, Next1 DEF StepInv
    <2> QED BY <1>1, <1>2, <1>3, <1>8, <1>9, <1>11, <2>1, SameDirectory DEF Recovering
  <1> QED BY <1>5, <1>10, <1>11

\* The decision for a directory, whatever its import had reached.
LEMMA DecideKeeps ==
    ASSUME TypeOK, OperationKnown, Sound, Decide, faults' = faults
    PROVE  Sound'
  <1>1. PICK k \in Ops : k = proc.op
    BY DEF OperationKnown, Decide, Recovering, o
  <1> USE DEF o
  <1>2. proc.pc = "decide" /\ UNCHANGED <<db, marker>>
    BY DEF Decide
  <1>3. CASE DecideInstalling
    BY <1>2, <1>3, UndoKeeps
  <1>4. CASE ~DecideInstalling
    <2>1. ~Unfinished(k) /\ UNCHANGED <<target, stage>>
      BY <1>1, <1>2, <1>4 DEF Decide, DecideCommitted, Committed, Unfinished
    <2>2. stage[k].exists
      BY <1>1, <1>2 DEF Sound, StepInv
    <2>3. Directories' /\ Agrees' /\ ~Unfinished(k)' /\ NoneUnfinished' = NoneUnfinished
      BY <1>2, <2>1, Frame DEF Sound, Unfinished
    <2>4. CASE Go("clean")
      <3>1. StepInv'
        BY <1>1, <2>1, <2>2, <2>3, <2>4, Next1 DEF StepInv
      <3> QED BY <1>1, <1>2, <2>1, <2>2, <2>3, <2>4, <3>1, SameDirectory DEF Recovering
    <2>5. CASE Raise
      <3>1. ASSUME proc.mode # "startup" PROVE target = db /\ NoneUnfinished
        <4>1. CASE proc.mode = "finish"
          <5>1. NoneUnfinished
            BY <1>1, <1>2, <2>1, <4>1 DEF Sound, ReasonInv, Recovering, OthersSettled, NoneUnfinished
          <5> QED BY <5>1 DEF Sound, Agrees
        <4>2. CASE proc.mode = "import"
          BY <1>2, <4>2 DEF Sound, ReasonInv, Recovering
        <4> QED BY <3>1, <4>1, <4>2 DEF TypeOK, ProcType
      <3> QED BY <1>2, <2>1, <2>3, <2>5, <3>1, GivesUp
    <2> QED BY <1>2, <1>4, <2>4, <2>5 DEF Decide, DecideCommitted
  <1> QED BY <1>3, <1>4

\* The old files come back, and the journal says so before anything is cleaned.
LEMMA RollbackKeeps ==
    ASSUME TypeOK, OperationKnown, Sound, RestoreOld \/ MarkRolledBack, faults' = faults
    PROVE  Sound'
  <1>1. PICK k \in Ops : k = proc.op
    BY DEF OperationKnown, RestoreOld, MarkRolledBack, Recovering, o
  <1> USE DEF o
  <1>2. /\ Unfinished(k) /\ stage[k].exists /\ Undoable(k) /\ OthersSettled(k)
        /\ UNCHANGED <<db, marker>> /\ proc.pc \in {"restoreOld", "mark"}
    BY <1>1 DEF RestoreOld, MarkRolledBack, Sound, StepInv, Directories, Shape, Unfinished
  <1>3. /\ \A m \in Ops \ {k} : stage'[m] = stage[m]
        /\ stage'[k].exists /\ stage'[k].had = stage[k].had
        /\ stage'[k].old = None /\ target' = db
    BY <1>1, <1>2 DEF RestoreOld, MarkRolledBack, Sound, StepInv, TypeOK, StageType
  <1>4. \/ Go("mark") /\ stage'[k].journal = "installing"
        \/ Go("clean") /\ stage'[k].journal = "rolled_back"
    BY <1>1, <1>2 DEF RestoreOld, MarkRolledBack, TypeOK, StageType, Unfinished
  <1>5. Undoable(k)' /\ OthersSettled(k)'
    BY <1>2, <1>3 DEF Undoable, OthersSettled, Unfinished
  <1>6. Directories'
    <2>1. ASSUME NEW m \in Ops \ {k} PROVE Shape(m)'
      BY <1>2, <1>3, <2>1, OtherShape DEF Sound, Directories, OthersSettled
    <2>2. k \notin marker
      BY <1>2 DEF Unfinished
    <2>3. Shape(k)'
      BY <1>2, <1>3, <1>4, <1>5, <2>2 DEF Shape, Unfinished
    <2> QED BY <2>1, <2>3 DEF Directories
  <1>7. Agrees'
    BY <1>2, <1>3 DEF Agrees
  <1>8. StepInv'
    BY <1>1, <1>2, <1>3, <1>4, Next1 DEF StepInv, Unfinished
  <1> QED
    BY <1>1, <1>2, <1>3, <1>4, <1>6, <1>7, <1>8, SameDirectory DEF Recovering

\* Cleanup removes what nobody goes back to, and the journal last.
LEMMA CleanKeeps ==
    ASSUME TypeOK, OperationKnown, Sound, Clean, faults' = faults
    PROVE  Sound'
  <1>1. PICK k \in Ops : k = proc.op
    BY DEF OperationKnown, Clean, Recovering, o
  <1> USE DEF o
  <1>2. /\ stage[k].exists /\ ~Unfinished(k) /\ Shape(k) /\ proc.pc = "clean"
        /\ UNCHANGED <<db, marker, target>>
    BY <1>1 DEF Clean, Sound, StepInv, Directories
  <1>3. \A m \in Ops \ {k} : stage'[m] = stage[m]
    BY <1>1 DEF Clean, TypeOK
  <1>4. \/ /\ UNCHANGED proc /\ stage'[k].exists /\ stage'[k].journal = stage[k].journal
           /\ stage'[k].new \in {None, stage[k].new} /\ stage'[k].old \in {None, stage[k].old}
           /\ stage'[k].failed \in {None, stage[k].failed}
        \/ /\ UNCHANGED proc /\ stage'[k].exists /\ stage'[k].journal = "none" /\ Empty(stage'[k])
        \/ Go("forget") /\ ~stage'[k].exists /\ stage'[k].journal = "none" /\ Empty(stage'[k])
    <2>1. stage[k] \in StageType /\ stage \in [Ops -> StageType]
      BY DEF TypeOK
    <2>2. CASE UNCHANGED proc /\ \/ stage' = [stage EXCEPT ![k].new = None]
                                 \/ stage' = [stage EXCEPT ![k].old = None]
                                 \/ stage' = [stage EXCEPT ![k].failed = None]
      BY <1>2, <2>1, <2>2 DEF StageType
    <2>3. CASE UNCHANGED proc /\ stage' = [stage EXCEPT ![k].journal = "none"] /\ Empty(stage[k])
      BY <1>2, <2>1, <2>3 DEF StageType, Empty
    <2>4. CASE Go("forget") /\ stage' = [stage EXCEPT ![k] = NoStage]
      BY <2>1, <2>4 DEF NoStage, Empty
    <2> QED BY <1>1, <2>2, <2>3, <2>4 DEF Clean, Empty
  <1>5. Shape(k)' /\ ~Unfinished(k)'
    BY <1>2, <1>4 DEF Shape, Unfinished, Empty
  <1>6. Directories'
    <2>1. \A n \in Ops : Unfinished(n)' => Unfinished(n)
      BY <1>2, <1>3, <1>5 DEF Unfinished
    <2>2. ASSUME NEW m \in Ops \ {k} PROVE Shape(m)'
      BY <1>2, <1>3, <2>1, <2>2, SameShape DEF Sound, Directories
    <2> QED BY <1>5, <2>2 DEF Directories
  <1>7. Agrees'
    <2>1. \A n \in Ops : Unfinished(n) => Unfinished(n)'
      BY <1>2, <1>3 DEF Unfinished
    <2> QED BY <1>2, <2>1 DEF Sound, Agrees, NoneUnfinished
  <1>8. CASE UNCHANGED proc /\ stage'[k].exists
    <2>1. Go("clean")
      BY <1>2, <1>8 DEF Go, TypeOK, ProcType
    <2>2. StepInv'
      BY <1>1, <1>2, <1>5, <1>8 DEF StepInv, Unfinished
    <2> QED BY <1>1, <1>2, <1>3, <1>5, <1>6, <1>7, <2>1, <2>2, SameDirectory DEF Recovering
  <1>9. CASE Go("forget") /\ ~stage'[k].exists
    <2>1. proc'.pc = "forget" /\ proc'.op = k
      BY <1>1, <1>9, Next1
    <2>2. StepInv'
      BY <1>9, <2>1 DEF StepInv
    <2> QED BY <1>1, <1>2, <1>3, <1>5, <1>6, <1>7, <1>9, <2>2, SameDirectory DEF Recovering
  <1> QED BY <1>4, <1>8, <1>9

\* A marker without a directory is not needed any more.
LEMMA ForgetKeeps ==
    ASSUME TypeOK, OperationKnown, Sound, ForgetCommit, faults' = faults
    PROVE  Sound'
  <1>1. PICK k \in Ops : k = proc.op
    BY DEF OperationKnown, ForgetCommit, Recovering, o
  <1> USE DEF o
  <1>2. /\ ~stage[k].exists /\ stage[k].journal = "none" /\ proc.pc = "forget"
        /\ marker' = marker \ {k} /\ Recovered /\ UNCHANGED <<db, target, stage>>
    BY <1>1 DEF ForgetCommit, Sound, StepInv, Directories, Shape
  <1>3. \A n \in Ops : Unfinished(n)' <=> Unfinished(n)
    BY <1>2 DEF Unfinished
  <1>4. Directories'
    BY <1>2, <1>3 DEF Sound, Directories, Shape, OthersSettled, Undoable
  <1>5. Agrees'
    BY <1>2, <1>3 DEF Sound, Agrees, NoneUnfinished
  <1>6. ~Unfinished(k)' /\ \A n \in Ops \ {k} : n \in marker' <=> n \in marker
    BY <1>2 DEF Unfinished
  <1> QED
    BY <1>1, <1>2, <1>4, <1>5, <1>6, GoesOn DEF Recovering

-----------------------------------------------------------------------------
(* An error *)

\* An error anywhere but in the rollback of a request's own import: what it
\* interrupts is recovered, or nothing was touched yet that is not the rows'.
LEMMA FaultKeeps ==
    ASSUME TypeOK, OperationKnown, Sound, Fault, ~RollbackRaises
    PROVE  Sound'
  <1> USE DEF o
  <1>1. UNCHANGED <<target, stage>> /\ faults' = faults + 1 /\ faults' > 0
    BY BackupRestoreAssumption DEF Fault, TypeOK
  <1>2. CASE proc.pc = "commit" /\ CommitRows /\ Go("decide")
    BY <1>1, <1>2, CommitRowsKeep
  <1>3. CASE proc.pc \in Importing /\ UNCHANGED <<db, marker>>
    <2>1. PICK k \in Ops : k = proc.op
      BY <1>3 DEF OperationKnown
    <2>2. /\ UNCHANGED <<db, marker, target, stage>>
          /\ \/ proc.pc = "journal" /\ Go("discard")
             \/ proc.pc # "journal" /\ Go("decide")
      BY <1>1, <1>3 DEF Fault, Importing, Recovering
    <2>3. /\ OthersSettled(k) /\ stage[k].exists /\ proc.mode = "finish"
          /\ proc.pc = "journal" <=> stage[k].journal = "none"
      BY <1>3, <2>1 DEF Sound, ImportInv, Prepared, Importing
    <2>4. proc'.pc \in {"discard", "decide"} /\ proc'.mode = "finish" /\ proc'.op = k
      BY <2>1, <2>2, <2>3, Next1
    <2>5. Directories' /\ Agrees' /\ OthersSettled(k)'
      BY <2>2, <2>3, Frame DEF Sound
    <2>6. proc'.pc = "discard" <=> proc.pc = "journal"
      BY <2>2, Next1
    <2>7. StepInv'
      BY <2>2, <2>3, <2>4, <2>6 DEF StepInv
    <2>8. ReasonInv' /\ ImportInv' /\ ServingInv'
      BY <1>1, <2>4, <2>5 DEF ReasonInv, ImportInv, ServingInv
    <2> QED BY <2>5, <2>7, <2>8 DEF Sound
  <1>4. CASE proc.pc \in {"clean", "forget"}
    <2>1. PICK k \in Ops : k = proc.op
      BY <1>4 DEF OperationKnown, Recovering
    <2>2. Recovered /\ UNCHANGED <<db, marker, target, stage>>
      BY <1>1, <1>4 DEF Fault, Importing
    <2>3. ~Unfinished(k)
      BY <1>4, <2>1 DEF Sound, StepInv, Directories, Shape, Unfinished
    <2>4. Directories' /\ Agrees' /\ ~Unfinished(k)'
      BY <2>2, <2>3, Frame DEF Sound, Unfinished
    <2> QED BY <1>4, <2>1, <2>2, <2>4, GoesOn DEF Recovering
  <1>5. CASE proc.pc \in Recovering \ {"clean", "forget"}
    <2>1. Raise /\ UNCHANGED <<db, marker, target, stage>>
      BY <1>1, <1>5 DEF Fault, Importing, Recovering
    <2>2. Directories' /\ Agrees' /\ NoneUnfinished' = NoneUnfinished
      BY <2>1, Frame DEF Sound
    <2>3. CASE proc.mode = "startup"
      BY <2>1, <2>2, <2>3, GivesUp
    <2>4. CASE proc.mode = "import"
      BY <1>5, <2>1, <2>2, <2>4, GivesUp DEF Sound, ReasonInv
    <2>5. CASE proc.mode = "finish"
      <3>1. PICK k \in Ops : k = proc.op
        BY <1>5, <2>5 DEF OperationKnown, Sound, ReasonInv
      <3>2. OthersSettled(k) /\ ~Unfinished(k)
        BY <1>5, <2>5, <3>1 DEF Sound, ReasonInv, RollbackRaises, RollingBack
      <3>3. NoneUnfinished /\ target = db
        BY <3>2 DEF Sound, Agrees, OthersSettled, NoneUnfinished
      <3> QED BY <2>1, <2>2, <2>5, <3>3, GivesUp
    <2> QED BY <2>3, <2>4, <2>5 DEF TypeOK, ProcType
  <1>6. \/ proc.pc = "commit" /\ CommitRows /\ Go("decide")
        \/ proc.pc \in Importing /\ UNCHANGED <<db, marker>>
        \/ proc.pc \in {"clean", "forget"} \/ proc.pc \in Recovering \ {"clean", "forget"}
    BY DEF Fault, Importing
  <1> QED BY <1>2, <1>3, <1>4, <1>5, <1>6

-----------------------------------------------------------------------------
(* The inductive invariants *)

\* Rows and types, with an operation wherever one is needed.
Typed == TypeOK /\ OperationKnown

\* A project without any import.
LEMMA InitSound ==
    ASSUME Init
    PROVE  Typed /\ Sound
  <1>1. TypeOK
    <2>1. db \in MaybeFiles
      BY DEF Init, MaybeFiles, Files
    <2>2. NoStage \in StageType
      BY DEF NoStage, StageType, MaybeFiles
    <2>3. Down \in ProcType
      BY DEF Down, Serve, ProcType
    <2>4. 0 \in 0..MaxWrites /\ 0 \in 0..MaxFaults /\ 0 \in 0..MaxCrashes
      BY BackupRestoreAssumption
    <2>5. stage \in [Ops -> StageType]
      BY <2>2 DEF Init
    <2> QED BY <2>1, <2>3, <2>4, <2>5 DEF Init, TypeOK
  <1>2. proc.pc = "down"
    BY DEF Init, Down, Serve
  <1>3. Directories /\ Agrees
    BY DEF Init, NoStage, Directories, Agrees, Shape, Empty, Unfinished
  <1> QED
    BY <1>1, <1>2, <1>3
       DEF Typed, OperationKnown, Sound, ImportInv, ReasonInv, StepInv, ServingInv, Importing, Recovering

\* Every step keeps the types, and only an error counts one and may give up.
LEMMA NextTyped ==
    ASSUME Typed, [Next]_vars
    PROVE  Typed' /\ faults \in Nat
           /\ \/ faults' = faults /\ gaveUp' = gaveUp
              \/ Fault /\ faults' = faults + 1 /\ gaveUp' = (gaveUp \/ RollingBack)
  <1>1. TypeOK /\ OperationKnown
    BY DEF Typed
  <1>2. faults \in Nat
    BY <1>1, BackupRestoreAssumption DEF TypeOK
  <1>3. CASE UNCHANGED vars
    <2>1. /\ UNCHANGED <<db, marker, target, stage>> /\ UNCHANGED proc
          /\ UNCHANGED <<writes, faults, crashes, gaveUp>>
      BY <1>3 DEF vars
    <2>2. TypeOK' /\ OperationKnown'
      BY <1>1, <2>1 DEF TypeOK, OperationKnown, o
    <2> QED BY <1>2, <2>1, <2>2 DEF Typed
  <1>4. CASE Next
    <2>1. TypeOK' /\ OperationKnown'
      BY <1>1, <1>4, TypeStep
    <2>2. Fault => faults' = faults + 1 /\ gaveUp' = (gaveUp \/ RollingBack)
      BY DEF Fault
    <2>3. (faults' = faults /\ gaveUp' = gaveUp) \/ Fault
      BY <1>4 DEF Next, AuthorWrite, StartRecovery, Import, Recovery, MakeStaging, RefuseImport,
                  WriteStagingJournal, PrepareFiles, ReplaceRows, WriteInstallingJournal, MoveOldAway,
                  MoveNewIn, Commit, Scan, Discard, Decide, RestoreOld, MarkRolledBack, Clean,
                  ForgetCommit, Crash
    <2> QED BY <1>2, <2>1, <2>2, <2>3 DEF Typed
  <1> QED BY <1>3, <1>4

\* Every other step keeps directories, rows and process sound.
LEMMA NextSound ==
    ASSUME Typed, Sound, [Next]_vars, ~RollbackRaises
    PROVE  Sound'
  <1>1. TypeOK /\ OperationKnown
    BY DEF Typed
  <1>2. CASE UNCHANGED vars
    <2>1. UNCHANGED <<db, marker, target, stage>> /\ UNCHANGED proc /\ UNCHANGED faults
      BY <1>2 DEF vars
    <2>2. ImportInv' = ImportInv /\ ReasonInv' = ReasonInv /\ StepInv' = StepInv /\ ServingInv' = ServingInv
      BY <2>1 DEF ImportInv, ReasonInv, StepInv, ServingInv, Prepared, OthersSettled, NoneUnfinished, Unfinished, o
    <2> QED BY <2>1, <2>2, Frame DEF Sound
  <1>3. CASE Recovery
    <2>1. faults' = faults
      BY <1>3 DEF Recovery, Scan, Discard, Decide, RestoreOld, MarkRolledBack, Clean, ForgetCommit
    <2> QED
      BY <1>1, <1>3, <2>1, ScanKeeps, DiscardKeeps, DecideKeeps, RollbackKeeps, CleanKeeps, ForgetKeeps
         DEF Recovery
  <1>4. CASE Import
    BY <1>1, <1>4, MakeStagingKeeps, RefuseImportKeeps, PreparationKeeps, ReplaceRowsKeeps,
       RenamesKeep, CommitStepKeeps DEF Import
  <1> QED
    BY <1>1, <1>2, <1>3, <1>4, AuthorWriteKeeps, StartKeeps, FaultKeeps, CrashKeeps DEF Next

\* The first error cannot strike a rollback: a rollback has an error behind it.
LEMMA FirstErrorIsElsewhere ==
    ASSUME Typed, Sound, RollbackRaises
    PROVE  faults > 0
  BY DEF Sound, ReasonInv, RollbackRaises, RollingBack

\* What the author is promised follows.
LEMMA WhatFollows ==
    ASSUME Sound
    PROVE  ServedStateAgrees /\ AuthorWritesSurvive /\ NothingIsLost
  <1>1. target = db \/ \E n \in Ops : stage[n].old = db
    BY DEF Sound, Agrees, NoneUnfinished, Directories, Shape, Undoable
  <1>2. AuthorWritesSurvive
    BY <1>1 DEF AuthorWritesSurvive
  <1>3. NothingIsLost
    BY <1>1 DEF NothingIsLost
  <1>4. ServedStateAgrees
    BY DEF Sound, ServingInv, ServedStateAgrees
  <1> QED BY <1>2, <1>3, <1>4

\* Rows, directories and process keep their types, whatever raises.
THEOREM RestoreTypeCorrect == Spec => []TypeOK
  <1>1. Init => Typed
    BY InitSound
  <1>2. Typed /\ [Next]_vars => Typed'
    BY NextTyped
  <1>3. Typed => TypeOK
    BY DEF Typed
  <1> QED BY <1>1, <1>2, <1>3, PTL DEF Spec

\* The inductive invariant: everything is sound until the rollback of a request's
\* own import raises, whatever else does and however often; and that takes a
\* second error.
THEOREM SoundUntilARollbackRaises ==
    Spec => [](Typed /\ (gaveUp \/ Sound) /\ (faults <= 1 => ~gaveUp))
  <1> DEFINE Inv == Typed /\ (gaveUp \/ Sound) /\ (faults <= 1 => ~gaveUp)
  <1>1. Init => Inv
    BY InitSound DEF Init
  <1>2. ASSUME Inv, [Next]_vars PROVE Inv'
    <2>1. Typed' /\ faults \in Nat
      BY <1>2, NextTyped
    <2>2. CASE RollbackRaises
      <3>1. faults' = faults + 1 /\ gaveUp'
        BY <2>2 DEF RollbackRaises, Fault
      <3>2. faults > 0
        BY <1>2, <2>1, <2>2, FirstErrorIsElsewhere
      <3> QED BY <2>1, <3>1, <3>2
    <2>3. CASE ~RollbackRaises
      <3>1. gaveUp' = gaveUp /\ (faults' = faults \/ faults' = faults + 1)
        BY <1>2, <2>3, NextTyped DEF RollbackRaises, Typed, TypeOK
      <3>2. gaveUp \/ Sound'
        BY <1>2, <2>3, NextSound
      <3> QED BY <1>2, <2>1, <3>1, <3>2
    <2> QED BY <2>2, <2>3
  <1> QED BY <1>1, <1>2, PTL DEF Spec

\* The module files are those of the rows whenever the author is served, unless
\* the rollback of an import raised.
THEOREM ServedFilesAgree == Spec => []ServedStateAgrees
  <1>1. gaveUp \/ Sound => ServedStateAgrees
    BY WhatFollows DEF ServedStateAgrees
  <1> QED BY <1>1, SoundUntilARollbackRaises, PTL

\* What the author added is never thrown away with an import, with the same
\* exception.
THEOREM WritesSurviveImports == Spec => []AuthorWritesSurvive
  <1>1. gaveUp \/ Sound => AuthorWritesSurvive
    BY WhatFollows DEF AuthorWritesSurvive
  <1> QED BY <1>1, SoundUntilARollbackRaises, PTL

\* The files of the rows are on the disk at every moment, with the same exception.
THEOREM FilesAreNeverLost == Spec => []NothingIsLost
  <1>1. gaveUp \/ Sound => NothingIsLost
    BY WhatFollows DEF NothingIsLost
  <1> QED BY <1>1, SoundUntilARollbackRaises, PTL

\* One error, wherever it strikes and with any number of kills before and after
\* it, makes no exception: while serving, the files are those of the rows.
THEOREM OneErrorIsRecovered == Spec => [](faults <= 1 /\ proc.pc = "serving" => target = db)
  <1>1. (gaveUp \/ Sound) /\ (faults <= 1 => ~gaveUp) =>
          (faults <= 1 /\ proc.pc = "serving" => target = db)
    BY DEF Sound, ServingInv
  <1> QED BY <1>1, SoundUntilARollbackRaises, PTL

(***************************************************************************)
(* The retrieval index                                                     *)
(***************************************************************************)

\* The revisions a chain can have.
Last(c) == IF c \in Scenes THEN SceneRevisions ELSE StepRevisions

\* The committed revisions of a chain are the first so many, and only they run.
HeadsInv ==
    \A c \in Chains :
        /\ HeadVersion(c) \in 0..Last(c)
        /\ \A v \in 1..Last(c) : job[<<c, v>>] # "absent" <=> v <= HeadVersion(c)
        /\ ran[c] <= HeadVersion(c)

\* The revision being ingested: its predecessor is no evidence from its mark on,
\* and its own source is complete when it is written.
ProgressInv ==
    sweep.pc \in Ingesting =>
        /\ sweep.at \in Refs /\ job[sweep.at] = "processing"
        /\ sweep.pc \in {"marking", "marked", "writing"} =>
            \A old \in Superseded(sweep.at) : file[old].state # "approved"
        /\ sweep.pc = "written" =>
            /\ file[SourceOf(sweep.at)] = [state |-> "approved", holds |-> sweep.at[2]]
            /\ ran[sweep.at[1]] >= sweep.at[2]

\* The source of one revision of a scene.
SceneFile(c, v) ==
    LET f == file[<<c, v>>] IN
    /\ f.holds \in {0, v} /\ f.holds <= ran[c]
    /\ f.state = "approved" => f.holds = v
    /\ job[<<c, v>>] = "succeeded" => f.holds = v /\ (f.state = "approved" \/ v < HeadVersion(c))
    /\ c \notin inverted /\ f.state = "approved" /\ v < ran[c] => file[<<c, v + 1>>].holds = 0

SceneFiles == \A c \in Scenes : \A v \in 1..SceneRevisions : SceneFile(c, v)

Open(c) == \E v \in 1..StepRevisions : job[<<c, v>>] \in {"pending", "processing", "failed"}

\* The one source of a planning step.
StepFile(c) ==
    LET f == file[<<c, 1>>] IN
    /\ \A v \in 2..StepRevisions : file[<<c, v>>].state = "absent"
    /\ f.state # "superseded"
    /\ f.state = "absent" => ran[c] = 0
    /\ c \notin inverted => f.holds = ran[c]
    /\ f.state = "torn" => Open(c)
    /\ \A v \in 1..StepRevisions : job[<<c, v>>] = "succeeded" => v <= ran[c]

StepFiles == \A c \in Steps : StepFile(c)

IndexInv == WikiType /\ HeadsInv /\ ProgressInv /\ SceneFiles /\ StepFiles

-----------------------------------------------------------------------------
(* Revisions *)

\* A revision is a chain and a version of it.
LEMMA RefShape ==
    ASSUME NEW r \in Refs
    PROVE  r = <<r[1], r[2]>> /\ r[1] \in Chains /\ r[2] \in 1..Last(r[1])
  BY WikiIndexAssumption DEF Refs, Chains, Last

LEMMA RefIntro ==
    ASSUME NEW c \in Chains, NEW v \in 1..Last(c)
    PROVE  <<c, v>> \in Refs
  BY DEF Refs, Chains, Last

LEMMA RevisionsAre ==
    ASSUME NEW c \in Chains
    PROVE  RevisionsOf(c) = {<<c, v>> : v \in 1..Last(c)}
  BY RefShape, RefIntro DEF RevisionsOf

\* So many versions of a chain are so many revisions.
LEMMA VersionsCounted ==
    ASSUME NEW c, NEW h \in Nat
    PROVE  IsFiniteSet({<<c, v>> : v \in 1..h}) /\ Cardinality({<<c, v>> : v \in 1..h}) = h
  <1> DEFINE T == {<<c, v>> : v \in 1..h}
             f == [v \in 1..h |-> <<c, v>>]
  <1>1. IsFiniteSet(1..h) /\ Cardinality(1..h) = h
    BY FS_Interval
  <1>2. f \in [1..h -> T] /\ \A v \in 1..h : f[v] = <<c, v>>
    OBVIOUS
  <1>2a. f \in Surjection(1..h, T) /\ f \in Injection(1..h, T)
    <2>1. \A t \in T : \E v \in 1..h : f[v] = t
      BY <1>2
    <2>2. \A v, w \in 1..h : f[v] = f[w] => v = w
      BY <1>2
    <2> HIDE DEF f, T
    <2> QED BY <1>2, <2>1, <2>2 DEF Surjection, Injection, IsInjective
  <1>3. IsFiniteSet(T) /\ Cardinality(T) = Cardinality(1..h)
    <2> HIDE DEF f, T
    <2> QED BY <1>1, <1>2a, FS_Surjection
  <1> QED BY <1>1, <1>3

\* The number of jobs is the head when the jobs are those of the first versions.
LEMMA HeadOf ==
    ASSUME NEW c \in Chains, NEW j, NEW h \in 0..Last(c),
           \A v \in 1..Last(c) : j[<<c, v>>] # "absent" <=> v <= h
    PROVE  Cardinality({r \in RevisionsOf(c) : j[r] # "absent"}) = h
  <1>1. Last(c) \in Nat
    BY WikiIndexAssumption DEF Last
  <1>2. {r \in RevisionsOf(c) : j[r] # "absent"} = {<<c, v>> : v \in 1..h}
    <2>1. \A v \in 1..Last(c) : j[<<c, v>>] # "absent" <=> v \in 1..h
      BY <1>1
    <2>2. 1..h \subseteq 1..Last(c)
      BY <1>1
    <2>3. {r \in {<<c, v>> : v \in 1..Last(c)} : j[r] # "absent"} = {<<c, v>> : v \in 1..h}
      BY <2>1, <2>2
    <2> QED BY <2>3, RevisionsAre
  <1>3. h \in Nat BY <1>1
  <1> QED BY <1>2, <1>3, VersionsCounted

\* A step that adds no job leaves the heads where they are.
LEMMA HeadsStay ==
    ASSUME \A r \in Refs : job'[r] = "absent" <=> job[r] = "absent"
    PROVE  \A c \in Chains : HeadVersion(c)' = HeadVersion(c)
  <1>1. ASSUME NEW c \in Chains PROVE HeadVersion(c)' = HeadVersion(c)
    <2>1. {r \in RevisionsOf(c) : job'[r] # "absent"} = {r \in RevisionsOf(c) : job[r] # "absent"}
      BY DEF RevisionsOf
    <2> QED BY <2>1 DEF HeadVersion, RevisionsOf
  <1> QED BY <1>1

-----------------------------------------------------------------------------
(* The list of a sweep *)

\* Some place has exactly so many places from it on.
LEMMA NthExists ==
    ASSUME NEW P, P \subseteq Nat, IsFiniteSet(P), NEW top \in Nat, \A i \in P : i <= top,
           NEW n \in 1..Cardinality(P)
    PROVE  \E i \in P : Cardinality({k \in P : k >= i}) = n
  <1> DEFINE From(i) == {k \in P : k >= i}
             B == {i \in Nat : Cardinality(From(i)) < n}
  <1>0. Cardinality(P) \in Nat /\ n \in Nat
    BY FS_CardinalityType
  <1>1. ASSUME NEW i \in Nat PROVE IsFiniteSet(From(i)) /\ Cardinality(From(i)) \in Nat
    <2>1. From(i) \in SUBSET P OBVIOUS
    <2> HIDE DEF From
    <2> QED BY <2>1, FS_Subset, FS_CardinalityType
  <1>a. \A k \in P : k \in Nat /\ k <= top
    OBVIOUS
  <1>2. From(top + 1) = {}
    <2>1. \A k \in P : ~(k >= top + 1)
      BY <1>a
    <2> QED BY <2>1
  <1>3. top + 1 \in B
    BY <1>0, <1>2, FS_EmptySet
  <1>4. IsWellFoundedOn(Below, Nat)
    BY NatLessThanWellFounded DEF OpToRel, Below
  <1>5. B # {} /\ B \subseteq Nat
    BY <1>3
  <1> HIDE DEF B
  <1>6. PICK i \in B : \A y \in B : ~ (<<y, i>> \in Below)
    BY <1>4, <1>5, WFMin
  <1>7. i \in Nat /\ Cardinality(From(i)) < n
    BY <1>6 DEF B
  <1>8. i # 0
    <2>1. \A k \in P : k >= 0
      BY <1>a
    <2>2. From(0) = P BY <2>1
    <2> QED BY <1>0, <1>7, <2>2
  <1>9. i - 1 \in Nat
    BY <1>7, <1>8
  <1>10. i - 1 \notin B
    <2>1. <<i - 1, i>> \in Below
      BY <1>7, <1>9 DEF Below
    <2> QED BY <1>6, <2>1
  <1>11. Cardinality(From(i - 1)) >= n
    <2>1. Cardinality(From(i - 1)) \in Nat /\ ~(Cardinality(From(i - 1)) < n)
      BY <1>1, <1>9, <1>10 DEF B
    <2> QED BY <1>0, <2>1
  <1>12. CASE i - 1 \notin P
    <2>1. \A k \in P : k >= i - 1 <=> k >= i
      BY <1>a, <1>7, <1>12
    <2>2. From(i - 1) = From(i) BY <2>1
    <2> QED BY <1>0, <1>1, <1>7, <1>11, <2>2
  <1>13. CASE i - 1 \in P
    <2>1. \A k \in P : k >= i - 1 <=> (k >= i \/ k = i - 1)
      BY <1>a, <1>7
    <2>2. From(i - 1) = From(i) \cup {i - 1} /\ i - 1 \notin From(i)
      <3>1. From(i - 1) = {k \in P : k >= i \/ k = i - 1}
        BY <2>1
      <3>2. ~(i - 1 >= i)
        BY <1>7
      <3> QED BY <1>13, <3>1, <3>2
    <2>3. IsFiniteSet(From(i)) /\ Cardinality(From(i)) \in Nat
      BY <1>1, <1>7
    <2> HIDE DEF From
    <2>4. Cardinality(From(i - 1)) = Cardinality(From(i)) + 1
      BY <2>2, <2>3, FS_AddElement
    <2>5. Cardinality(From(i - 1)) = n
      BY <1>0, <1>7, <1>11, <2>3, <2>4
    <2> QED BY <1>13, <2>5 DEF From
  <1> QED BY <1>12, <1>13

\* A sweep lists revisions.
LEMMA ListType ==
    ASSUME WikiType
    PROVE  PendingNewestFirst \in Seq(Refs)
  <1> DEFINE len == Len(queue)
  <1>1. len \in Nat /\ queue \in [1..len -> Refs] /\ DOMAIN queue = 1..len
    BY DEF WikiType
  <1>2. Pending \subseteq 1..len
    BY <1>1 DEF Pending
  <1>3. IsFiniteSet(Pending) /\ Pending \subseteq Nat /\ \A i \in Pending : i <= len
    <2>1. IsFiniteSet(1..len) /\ Pending \in SUBSET (1..len)
      BY <1>1, <1>2, FS_Interval
    <2>2. IsFiniteSet(Pending)
      BY <2>1, FS_Subset
    <2> QED BY <1>1, <1>2, <2>2
  <1>4. Cardinality(Pending) \in Nat
    BY <1>3, FS_CardinalityType
  <1>5. NewestFirst(Pending) \in Seq(Refs) /\ Len(NewestFirst(Pending)) = Cardinality(Pending)
    <2>1. ASSUME NEW n \in 1..Cardinality(Pending)
          PROVE  queue[CHOOSE i \in Pending : Cardinality({k \in Pending : k >= i}) = n] \in Refs
      <3>1. \E i \in Pending : Cardinality({k \in Pending : k >= i}) = n
        BY <1>1, <1>3, NthExists
      <3> QED BY <1>1, <1>2, <3>1
    <2>2. NewestFirst(Pending) \in [1..Cardinality(Pending) -> Refs]
      BY <2>1 DEF NewestFirst
    <2> QED BY <1>4, <2>2
  <1> QED BY <1>4, <1>5, WikiIndexAssumption DEF PendingNewestFirst
-----------------------------------------------------------------------------
(* Steps that leave the sources alone *)

\* The source of a revision is a place in the index, and what it supersedes too.
LEMMA Sources ==
    ASSUME NEW r \in Refs
    PROVE  /\ SourceOf(r) \in Refs /\ SourceOf(r)[1] = r[1]
           /\ \A old \in Superseded(r) :
                old \in Refs /\ r[1] \in Scenes /\ old = <<r[1], r[2] - 1>> /\ r[2] - 1 \in 1..SceneRevisions
           /\ r[2] \in 0..MaxVersion /\ r[2] \in Nat /\ r[1] \in Chains
  <1>1. r = <<r[1], r[2]>> /\ r[1] \in Chains /\ r[2] \in 1..Last(r[1])
    BY RefShape
  <1>2. <<r[1], 1>> \in Refs
    BY <1>1, RefIntro, WikiIndexAssumption DEF Last
  <1>3. ASSUME NEW old \in Superseded(r)
        PROVE  old \in Refs /\ r[1] \in Scenes /\ old = <<r[1], r[2] - 1>> /\ r[2] - 1 \in 1..SceneRevisions
    <2>1. r[1] \in Scenes /\ r[2] > 1 /\ old = <<r[1], r[2] - 1>>
      BY <1>3 DEF Superseded
    <2>2. r[2] - 1 \in 1..SceneRevisions /\ Last(r[1]) = SceneRevisions
      BY <1>1, <2>1, WikiIndexAssumption DEF Last
    <2> QED BY <1>1, <2>1, <2>2, RefIntro
  <1>4. r[2] \in 0..MaxVersion /\ r[2] \in Nat
    BY <1>1, WikiIndexAssumption DEF Last, MaxVersion
  <1> QED BY <1>1, <1>2, <1>3, <1>4 DEF SourceOf

\* A job that changes its status without being completed changes nothing that is
\* said of heads and sources.
LEMMA JobsMove ==
    ASSUME IndexInv, UNCHANGED <<file, ran, inverted>>,
           \A r \in Refs : job'[r] = "absent" <=> job[r] = "absent",
           \A r \in Refs : job'[r] = "succeeded" => job[r] = "succeeded",
           job' \in [Refs -> JobStatuses]
    PROVE  HeadsInv' /\ SceneFiles' /\ StepFiles'
  <1>1. \A c \in Chains : HeadVersion(c)' = HeadVersion(c)
    BY HeadsStay
  <1>2. \A c \in Chains : \A v \in 1..Last(c) : <<c, v>> \in Refs
    BY RefIntro
  <1>3. HeadsInv'
    BY <1>1, <1>2 DEF IndexInv, HeadsInv
  <1>4. Scenes \subseteq Chains /\ Steps \subseteq Chains /\ (\A c \in Scenes : Last(c) = SceneRevisions)
        /\ \A c \in Steps : Last(c) = StepRevisions
    BY WikiIndexAssumption DEF Chains, Last
  <1>5. SceneFiles'
    <2>1. ASSUME NEW c \in Scenes, NEW v \in 1..SceneRevisions PROVE SceneFile(c, v)'
      <3>1. SceneFile(c, v) /\ HeadVersion(c)' = HeadVersion(c) /\ <<c, v>> \in Refs
        BY <1>1, <1>2, <1>4 DEF IndexInv, SceneFiles
      <3> QED BY <3>1 DEF SceneFile
    <2> QED BY <2>1 DEF SceneFiles
  <1>6. StepFiles'
    <2>1. ASSUME NEW c \in Steps PROVE StepFile(c)'
      <3>1. StepFile(c) /\ \A v \in 1..StepRevisions : <<c, v>> \in Refs
        BY <1>2, <1>4 DEF IndexInv, StepFiles
      <3>2. Open(c) => Open(c)'
        BY <3>1 DEF Open, IndexInv, WikiType, JobStatuses
      <3> QED BY <3>1, <3>2 DEF StepFile
    <2> QED BY <2>1 DEF StepFiles
  <1> QED BY <1>3, <1>5, <1>6

\* A revision that was never seen changes nothing for the others.
LEMMA RevisionKeeps ==
    ASSUME IndexInv, NEW c \in Chains, CommitRevision(c)
    PROVE  IndexInv'
  <1> DEFINE h == HeadVersion(c)
             r == <<c, h + 1>>
  <1>1. Last(c) \in Nat /\ Cardinality(RevisionsOf(c)) = Last(c)
    <2>1. Last(c) \in Nat
      BY WikiIndexAssumption DEF Last
    <2>2. Cardinality({<<c, v>> : v \in 1..Last(c)}) = Last(c)
      BY <2>1, VersionsCounted
    <2> QED BY <2>1, <2>2, RevisionsAre
  <1>2. h \in 0..Last(c) /\ h < Last(c) /\ h + 1 \in 1..Last(c)
    BY <1>1 DEF CommitRevision, IndexInv, HeadsInv
  <1>3. r \in Refs
    BY <1>2, RefIntro
  <1>4. /\ job' = [job EXCEPT ![r] = "pending"] /\ queue' = Append(queue, r)
        /\ UNCHANGED <<file, sweep, ran, inverted, interruptions>>
    BY DEF CommitRevision
  <1>5. job[r] = "absent"
    BY <1>2 DEF IndexInv, HeadsInv
  <1> HIDE DEF r, h
  <1>6. /\ job'[r] = "pending" /\ \A q \in Refs \ {r} : job'[q] = job[q]
        /\ WikiType'
    BY <1>3, <1>4 DEF IndexInv, WikiType, JobStatuses
  <1>7. HeadVersion(c)' = h + 1
    <2>1. \A v \in 1..Last(c) : job'[<<c, v>>] # "absent" <=> v <= h + 1
      <3>1. ASSUME NEW v \in 1..Last(c) PROVE job'[<<c, v>>] # "absent" <=> v <= h + 1
        <4>1. <<c, v>> \in Refs /\ (<<c, v>> = r <=> v = h + 1)
          BY RefIntro DEF r
        <4>2. job[<<c, v>>] # "absent" <=> v <= h
          BY DEF IndexInv, HeadsInv, h
        <4> QED BY <1>2, <1>6, <4>1, <4>2
      <3> QED BY <3>1
    <2>2. h + 1 \in 0..Last(c)
      BY <1>2
    <2> QED BY <2>1, <2>2, HeadOf DEF HeadVersion, RevisionsOf
  <1>8. \A d \in Chains \ {c} : HeadVersion(d)' = HeadVersion(d)
    <2>1. ASSUME NEW d \in Chains \ {c} PROVE HeadVersion(d)' = HeadVersion(d)
      <3>1. \A q \in RevisionsOf(d) : q \in Refs /\ q # r
        BY <2>1 DEF RevisionsOf, r
      <3>2. {q \in RevisionsOf(d) : job'[q] # "absent"} = {q \in RevisionsOf(d) : job[q] # "absent"}
        BY <1>6, <3>1
      <3> QED BY <3>2 DEF HeadVersion, RevisionsOf
    <2> QED BY <2>1
  <1>9. \A d \in Chains : HeadVersion(d)' >= HeadVersion(d) /\ HeadVersion(d) \in Nat /\ HeadVersion(d)' \in Nat
    <2>1. \A d \in Chains : HeadVersion(d) \in Nat
      BY WikiIndexAssumption DEF IndexInv, HeadsInv, Last
    <2> QED BY <1>1, <1>2, <1>7, <1>8, <2>1 DEF h
  <1>10. HeadsInv'
    <2>1. ASSUME NEW d \in Chains
          PROVE  /\ HeadVersion(d)' \in 0..Last(d)
                 /\ \A v \in 1..Last(d) : job'[<<d, v>>] # "absent" <=> v <= HeadVersion(d)'
                 /\ ran'[d] <= HeadVersion(d)'
      <3>1. CASE d = c
        <4>1. \A v \in 1..Last(c) : <<c, v>> \in Refs /\ (<<c, v>> = r <=> v = h + 1)
          BY RefIntro DEF r
        <4>2. \A v \in 1..Last(c) : job[<<c, v>>] # "absent" <=> v <= h
          BY DEF IndexInv, HeadsInv, h
        <4>3. ran[c] <= h /\ ran[c] \in Int
          BY DEF IndexInv, HeadsInv, h, WikiType
        <4> QED BY <1>1, <1>2, <1>4, <1>6, <1>7, <3>1, <4>1, <4>2, <4>3
      <3>2. CASE d # c
        <4>1. \A v \in 1..Last(d) : <<d, v>> \in Refs /\ <<d, v>> # r
          BY <3>2, RefIntro DEF r
        <4> QED BY <1>4, <1>6, <1>8, <3>2, <4>1 DEF IndexInv, HeadsInv
      <3> QED BY <3>1, <3>2
    <2> QED BY <2>1 DEF HeadsInv
  <1>11. Scenes \subseteq Chains /\ Steps \subseteq Chains /\ (\A d \in Scenes : Last(d) = SceneRevisions)
         /\ \A d \in Steps : Last(d) = StepRevisions
    BY WikiIndexAssumption DEF Chains, Last
  <1>12. SceneFiles'
    <2>1. ASSUME NEW d \in Scenes, NEW v \in 1..SceneRevisions PROVE SceneFile(d, v)'
      <3>1. SceneFile(d, v) /\ <<d, v>> \in Refs /\ HeadVersion(d)' >= HeadVersion(d)
            /\ HeadVersion(d) \in Nat /\ HeadVersion(d)' \in Nat
        BY <1>9, <1>11, RefIntro DEF IndexInv, SceneFiles
      <3>2. job'[<<d, v>>] = "succeeded" => job[<<d, v>>] = "succeeded"
        BY <1>6, <3>1
      <3> QED BY <1>4, <3>1, <3>2 DEF SceneFile
    <2> QED BY <2>1 DEF SceneFiles
  <1>13. StepFiles'
    <2>1. ASSUME NEW d \in Steps PROVE StepFile(d)'
      <3>1. StepFile(d) /\ \A v \in 1..StepRevisions : <<d, v>> \in Refs
        BY <1>11, RefIntro DEF IndexInv, StepFiles
      <3>2. Open(d) => Open(d)'
        BY <1>5, <1>6, <3>1 DEF Open
      <3>3. \A v \in 1..StepRevisions : job'[<<d, v>>] = "succeeded" => job[<<d, v>>] = "succeeded"
        BY <1>6, <3>1
      <3> QED BY <1>4, <3>1, <3>2, <3>3 DEF StepFile
    <2> QED BY <2>1 DEF StepFiles
  <1>14. ProgressInv'
    BY <1>4, <1>5, <1>6 DEF IndexInv, ProgressInv, Ingesting
  <1> QED BY <1>6, <1>10, <1>12, <1>13, <1>14 DEF IndexInv

\* Retries, recoveries and the steps of a sweep between two jobs.
LEMMA QueueStepKeeps ==
    ASSUME IndexInv, (\E r \in Refs : Retry(r) \/ Recover(r)) \/ ListJobs \/ Claim \/ EndSweep
    PROVE  IndexInv'
  <1>1. UNCHANGED <<queue, file, ran, inverted, interruptions>>
    BY DEF Retry, Recover, ListJobs, Claim, EndSweep
  <1>2. CASE \E r \in Refs : Retry(r) \/ Recover(r)
    <2>1. PICK r \in Refs : Retry(r) \/ Recover(r)
      BY <1>2
    <2>2. /\ job' = [job EXCEPT ![r] = "pending"] /\ UNCHANGED sweep
          /\ job[r] \in {"failed", "processing"} /\ (sweep.pc = "idle" \/ job[r] = "failed")
      BY <2>1 DEF Retry, Recover
    <2>3. job'[r] = "pending" /\ (\A q \in Refs \ {r} : job'[q] = job[q]) /\ WikiType'
      BY <1>1, <2>2 DEF IndexInv, WikiType, JobStatuses
    <2>4. HeadsInv' /\ SceneFiles' /\ StepFiles'
      BY <1>1, <2>2, <2>3, JobsMove DEF WikiType
    <2>5. ProgressInv'
      BY <1>1, <2>2, <2>3 DEF IndexInv, ProgressInv, Ingesting
    <2> QED BY <2>3, <2>4, <2>5 DEF IndexInv
  <1>3. CASE ListJobs \/ EndSweep
    <2>1. UNCHANGED job /\ sweep'.pc \in {"idle", "sweeping"} /\ sweep' \in SweepType
      <3>1. <<>> \in Seq(Refs) OBVIOUS
      <3>2. CASE ListJobs
        BY <3>1, <3>2, ListType DEF ListJobs, Idle, SweepType, IndexInv
      <3>3. CASE EndSweep
        BY <3>1, <3>3 DEF EndSweep, Idle, SweepType
      <3> QED BY <1>3, <3>2, <3>3
    <2>2. WikiType'
      BY <1>1, <2>1 DEF IndexInv, WikiType
    <2>3. HeadsInv' /\ SceneFiles' /\ StepFiles'
      BY <1>1, <2>1, <2>2, JobsMove DEF WikiType
    <2>4. ProgressInv'
      BY <2>1 DEF ProgressInv, Ingesting
    <2> QED BY <2>2, <2>3, <2>4 DEF IndexInv
  <1>4. CASE Claim
    <2>1. PICK r : r = Head(sweep.list)
      OBVIOUS
    <2>2. r \in Refs /\ Tail(sweep.list) \in Seq(Refs)
      BY <1>4, <2>1 DEF Claim, IndexInv, WikiType, SweepType
    <2>3. /\ job[r] = "pending" /\ job' = [job EXCEPT ![r] = "processing"]
          /\ sweep' = [pc |-> "claimed", list |-> Tail(sweep.list), at |-> r]
      BY <1>4, <2>1 DEF Claim
    <2>4. job'[r] = "processing" /\ (\A q \in Refs \ {r} : job'[q] = job[q]) /\ WikiType'
      BY <1>1, <2>2, <2>3 DEF IndexInv, WikiType, JobStatuses, SweepType, Ingesting
    <2>5. HeadsInv' /\ SceneFiles' /\ StepFiles'
      BY <1>1, <2>2, <2>3, <2>4, JobsMove DEF WikiType
    <2>6. ProgressInv'
      BY <2>2, <2>3, <2>4 DEF ProgressInv
    <2> QED BY <2>4, <2>5, <2>6 DEF IndexInv
  <1> QED BY <1>2, <1>3, <1>4

\* A job that fails, and a dispatcher that dies, leave the files as they are.
LEMMA FailureKeeps ==
    ASSUME IndexInv, UNCHANGED <<queue, file, ran, inverted>>, interruptions' \in 0..MaxInterruptions,
           \/ sweep.pc \in Ingesting /\ Finish("failed")
           \/ UNCHANGED job /\ sweep' = Idle
    PROVE  IndexInv'
  <1>1. CASE sweep.pc \in Ingesting /\ Finish("failed")
    <2>1. sweep.at \in Refs /\ job[sweep.at] = "processing"
      BY <1>1 DEF IndexInv, ProgressInv
    <2>2. /\ job'[sweep.at] = "failed" /\ (\A q \in Refs \ {sweep.at} : job'[q] = job[q])
          /\ sweep'.pc = "sweeping" /\ WikiType'
      BY <1>1, <2>1 DEF Finish, IndexInv, WikiType, JobStatuses, SweepType
    <2>3. HeadsInv' /\ SceneFiles' /\ StepFiles'
      BY <2>1, <2>2, JobsMove DEF WikiType
    <2>4. ProgressInv'
      BY <2>2 DEF ProgressInv, Ingesting
    <2> QED BY <2>2, <2>3, <2>4 DEF IndexInv
  <1>2. CASE UNCHANGED job /\ sweep' = Idle
    <2>1. WikiType' /\ sweep'.pc = "idle"
      BY <1>2 DEF IndexInv, WikiType, SweepType, Idle
    <2>2. HeadsInv' /\ SceneFiles' /\ StepFiles'
      BY <1>2, <2>1, JobsMove DEF WikiType
    <2>3. ProgressInv'
      BY <2>1 DEF ProgressInv, Ingesting
    <2> QED BY <2>1, <2>2, <2>3 DEF IndexInv
  <1> QED BY <1>1, <1>2

-----------------------------------------------------------------------------
(* Steps that write sources *)

\* The predecessor of a revision under way leaves the evidence, not the index.
LEMMA MarksKeep ==
    ASSUME IndexInv, sweep.pc \in {"claimed", "marking"}, sweep.at \in Refs,
           UNCHANGED <<queue, job, ran, inverted, interruptions>>,
           NEW pc \in {"marking", "marked"}, Advance(pc), file' \in [Refs -> SourceType],
           \A q \in Refs \ Superseded(sweep.at) : file'[q] = file[q],
           \A q \in Superseded(sweep.at) :
                file'[q].holds = file[q].holds /\ file'[q].state \in {"torn", "superseded", "absent"}
    PROVE  IndexInv'
  <1> DEFINE r == sweep.at
             c == r[1]
             v == r[2]
  <1>1. sweep'.pc = pc /\ sweep'.at = sweep.at /\ sweep' \in SweepType
    BY DEF Advance, IndexInv, WikiType, SweepType, Ingesting
  <1>2. WikiType'
    BY <1>1 DEF IndexInv, WikiType
  <1>3. r \in Refs /\ job[r] = "processing" /\ r = <<c, v>> /\ c \in Chains /\ v \in 1..Last(c)
    BY RefShape DEF IndexInv, ProgressInv, Ingesting
  <1>4. v <= HeadVersion(c)
    BY <1>3 DEF IndexInv, HeadsInv
  <1>5. \A q \in Superseded(r) : q[1] \in Scenes /\ q = <<c, v - 1>>
    BY Sources
  <1>6. \A d : HeadVersion(d)' = HeadVersion(d)
    BY DEF HeadVersion, RevisionsOf
  <1>7. HeadsInv'
    BY <1>6 DEF IndexInv, HeadsInv
  <1> HIDE DEF r, c, v
  <1>8. Scenes \subseteq Chains /\ Steps \subseteq Chains /\ (\A d \in Scenes : Last(d) = SceneRevisions)
         /\ \A d \in Steps : Last(d) = StepRevisions
    BY WikiIndexAssumption DEF Chains, Last
  <1>9. SceneFiles'
    <2>1. ASSUME NEW d \in Scenes, NEW w \in 1..SceneRevisions PROVE SceneFile(d, w)'
      <3>1. SceneFile(d, w) /\ <<d, w>> \in Refs /\ (w + 1 <= SceneRevisions => <<d, w + 1>> \in Refs)
        BY <1>8, RefIntro, WikiIndexAssumption DEF IndexInv, SceneFiles
      <3>2. <<d, w>> \in Superseded(r) => w < HeadVersion(d)
        <4>1. HeadVersion(c) \in Nat /\ v \in Nat
          BY <1>3, WikiIndexAssumption DEF IndexInv, HeadsInv, Last
        <4> QED BY <1>4, <1>5, <4>1
      <3>3. file'[<<d, w>>].holds = file[<<d, w>>].holds
            /\ (file'[<<d, w>>].state = "approved" => file[<<d, w>>].state = "approved")
            /\ (file'[<<d, w>>] # file[<<d, w>>] => w < HeadVersion(d))
        BY <3>1, <3>2 DEF r
      <3>4. w < ran[d] => file'[<<d, w + 1>>].holds = file[<<d, w + 1>>].holds
        <4>1. ran[d] \in Int /\ HeadVersion(d) \in Int /\ ran[d] <= HeadVersion(d) /\ HeadVersion(d) <= SceneRevisions
          BY <1>8, WikiIndexAssumption DEF IndexInv, HeadsInv, WikiType
        <4>2. w < ran[d] => <<d, w + 1>> \in Refs
          BY <3>1, <4>1, WikiIndexAssumption
        <4> QED BY <4>2 DEF r
      <3> QED BY <1>6, <3>1, <3>3, <3>4 DEF SceneFile
    <2> QED BY <2>1 DEF SceneFiles
  <1>10. StepFiles'
    <2>1. ASSUME NEW d \in Steps PROVE StepFile(d)'
      <3>1. StepFile(d) /\ \A w \in 1..StepRevisions : <<d, w>> \in Refs /\ <<d, w>> \notin Superseded(r)
        BY <1>5, <1>8, RefIntro, WikiIndexAssumption DEF IndexInv, StepFiles
      <3>2. \A w \in 1..StepRevisions : file'[<<d, w>>] = file[<<d, w>>]
        BY <3>1 DEF r
      <3>3. 1 \in 1..StepRevisions /\ 2..StepRevisions \subseteq 1..StepRevisions
        BY WikiIndexAssumption
      <3>4. Open(d)' = Open(d)
        BY DEF Open
      <3> QED BY <3>1, <3>2, <3>3, <3>4 DEF StepFile
    <2> QED BY <2>1 DEF StepFiles
  <1>11. ProgressInv'
    <2>1. \A q \in Superseded(r) : file'[q].state # "approved"
      BY DEF r
    <2>2. Superseded(r)' = Superseded(r)
      BY <1>1 DEF Superseded, r
    <2> QED BY <1>1, <1>3, <2>1 DEF ProgressInv, r
  <1> QED BY <1>2, <1>7, <1>9, <1>10, <1>11 DEF IndexInv

\* Before the text is written its predecessor is out of the evidence.
LEMMA MarkKeeps ==
    ASSUME IndexInv, Mark \/ FinishMark
    PROVE  IndexInv'
  <1>1. sweep.at \in Refs /\ UNCHANGED <<queue, ran, inverted, interruptions>>
    BY DEF IndexInv, ProgressInv, Ingesting, Mark, FinishMark
  <1>2. \A q \in Superseded(sweep.at) : q \in Refs
    BY <1>1, Sources
  <1>3. file \in [Refs -> SourceType] /\ \A q \in Refs : file[q] \in SourceType
    BY DEF IndexInv, WikiType
  <1>4. CASE FinishMark
    <2>1. /\ file' \in [Refs -> SourceType]
          /\ \A q \in Refs \ Superseded(sweep.at) : file'[q] = file[q]
          /\ \A q \in Superseded(sweep.at) : file'[q].holds = file[q].holds /\ file'[q].state = "superseded"
      BY <1>2, <1>3, <1>4 DEF FinishMark, SourceType
    <2> QED BY <1>1, <1>4, <2>1, MarksKeep DEF FinishMark
  <1>5. CASE Mark
    <2>1. sweep.pc = "claimed"
      BY <1>5 DEF Mark
    <2>2. CASE Superseded(sweep.at) = {}
      <3>1. Advance("marked") /\ UNCHANGED <<job, file>>
        BY <1>5, <2>2 DEF Mark
      <3> QED BY <1>1, <1>3, <2>1, <2>2, <3>1, MarksKeep
    <2>3. CASE Superseded(sweep.at) # {}
      <3>1. PICK old \in Superseded(sweep.at) : \E raises \in MarkRaises(old) :
                \/ raises /\ Finish("failed") /\ UNCHANGED file
                \/ ~raises /\ file[old].state = "absent"
                   /\ Advance("marked") /\ UNCHANGED <<job, file>>
                \/ ~raises /\ file[old].state # "absent"
                   /\ file' = [file EXCEPT ![old].state = "torn"]
                   /\ Advance("marking") /\ UNCHANGED job
        BY <1>5, <2>3 DEF Mark
      <3>2. \A q \in Superseded(sweep.at) : q = old
        BY <3>1, Sources, <1>1
      <3>3. CASE Finish("failed") /\ UNCHANGED file
        <4>1. interruptions' \in 0..MaxInterruptions
          BY <1>1 DEF IndexInv, WikiType
        <4> QED BY <1>1, <2>1, <3>3, <4>1, FailureKeeps DEF Ingesting
      <3>4. CASE file[old].state = "absent" /\ Advance("marked") /\ UNCHANGED <<job, file>>
        BY <1>1, <1>3, <2>1, <3>2, <3>4, MarksKeep
      <3>5. CASE file' = [file EXCEPT ![old].state = "torn"] /\ Advance("marking") /\ UNCHANGED job
        <4>1. /\ file' \in [Refs -> SourceType]
              /\ \A q \in Refs \ Superseded(sweep.at) : file'[q] = file[q]
              /\ \A q \in Superseded(sweep.at) : file'[q].holds = file[q].holds /\ file'[q].state = "torn"
          BY <1>2, <1>3, <3>1, <3>2, <3>5 DEF SourceType
        <4> QED BY <1>1, <2>1, <3>5, <4>1, MarksKeep
      <3> QED BY <3>1, <3>3, <3>4, <3>5
    <2> QED BY <2>2, <2>3
  <1> QED BY <1>4, <1>5

\* What the three steps of a write have in common.
LEMMA UnderWay ==
    ASSUME IndexInv, sweep.pc \in Ingesting
    PROVE  /\ sweep.at \in Refs /\ job[sweep.at] = "processing"
           /\ sweep.at = <<sweep.at[1], sweep.at[2]>>
           /\ sweep.at[1] \in Chains /\ sweep.at[2] \in 1..Last(sweep.at[1]) /\ sweep.at[2] \in Nat
           /\ sweep.at[2] <= HeadVersion(sweep.at[1])
           /\ sweep.at[1] \in Scenes => SourceOf(sweep.at) = sweep.at
           /\ sweep.at[1] \in Steps => SourceOf(sweep.at) = <<sweep.at[1], 1>>
           /\ SourceOf(sweep.at) \in Refs /\ SourceOf(sweep.at)[1] = sweep.at[1]
           /\ sweep.at[2] \in 0..MaxVersion
  <1>1. sweep.at \in Refs /\ job[sweep.at] = "processing"
    BY DEF IndexInv, ProgressInv
  <1>2. /\ sweep.at = <<sweep.at[1], sweep.at[2]>>
        /\ sweep.at[1] \in Chains /\ sweep.at[2] \in 1..Last(sweep.at[1])
    BY <1>1, RefShape
  <1>3. sweep.at[2] <= HeadVersion(sweep.at[1])
    BY <1>1, <1>2 DEF IndexInv, HeadsInv
  <1>4. /\ sweep.at[1] \in Scenes => SourceOf(sweep.at) = sweep.at
        /\ sweep.at[1] \in Steps => SourceOf(sweep.at) = <<sweep.at[1], 1>>
    BY WikiIndexAssumption DEF SourceOf
  <1> QED BY <1>1, <1>2, <1>3, <1>4, Sources

\* A truncated file is no evidence.
LEMMA TruncateKeeps ==
    ASSUME IndexInv, Truncate
    PROVE  IndexInv'
  <1> DEFINE r == sweep.at
             c == r[1]
             v == r[2]
             src == SourceOf(r)
  <1>1. /\ sweep.pc = "marked" /\ file' = [file EXCEPT ![src].state = "torn"] /\ Advance("writing")
        /\ UNCHANGED <<queue, job, ran, inverted, interruptions>>
    BY DEF Truncate
  <1>2. /\ r \in Refs /\ job[r] = "processing" /\ r = <<c, v>> /\ c \in Chains /\ v \in 1..Last(c)
        /\ (c \in Scenes => src = r) /\ (c \in Steps => src = <<c, 1>>) /\ src \in Refs /\ src[1] = c
    BY <1>1, UnderWay DEF Ingesting
  <1>3. sweep'.pc = "writing" /\ sweep'.at = sweep.at /\ sweep' \in SweepType
    BY <1>1 DEF Advance, IndexInv, WikiType, SweepType, Ingesting
  <1> HIDE DEF r, c, v, src
  <1>4. /\ file' \in [Refs -> SourceType]
        /\ \A q \in Refs \ {src} : file'[q] = file[q]
        /\ file'[src].state = "torn" /\ file'[src].holds = file[src].holds
    BY <1>1, <1>2 DEF IndexInv, WikiType, SourceType
  <1>5. WikiType'
    BY <1>1, <1>3, <1>4 DEF IndexInv, WikiType
  <1>6. \A d : HeadVersion(d)' = HeadVersion(d)
    BY <1>1 DEF HeadVersion, RevisionsOf
  <1>7. HeadsInv'
    BY <1>1, <1>6 DEF IndexInv, HeadsInv
  <1>8. Scenes \subseteq Chains /\ Steps \subseteq Chains /\ (\A d \in Scenes : Last(d) = SceneRevisions)
         /\ \A d \in Steps : Last(d) = StepRevisions
    BY WikiIndexAssumption DEF Chains, Last
  <1>9. SceneFiles'
    <2>1. ASSUME NEW d \in Scenes, NEW w \in 1..SceneRevisions PROVE SceneFile(d, w)'
      <3>1. SceneFile(d, w) /\ <<d, w>> \in Refs /\ (w + 1 <= SceneRevisions => <<d, w + 1>> \in Refs)
        BY <1>8, RefIntro, WikiIndexAssumption DEF IndexInv, SceneFiles
      <3>2. <<d, w>> = src => job[<<d, w>>] # "succeeded"
        BY <1>2
      <3>3. file'[<<d, w>>].holds = file[<<d, w>>].holds
            /\ (file'[<<d, w>>].state = "approved" => file[<<d, w>>].state = "approved")
            /\ (job[<<d, w>>] = "succeeded" => file'[<<d, w>>] = file[<<d, w>>])
        BY <1>4, <3>1, <3>2
      <3>4. w < ran[d] => file'[<<d, w + 1>>].holds = file[<<d, w + 1>>].holds
        <4>1. ran[d] \in Int /\ HeadVersion(d) \in Int /\ ran[d] <= HeadVersion(d) /\ HeadVersion(d) <= SceneRevisions
          BY <1>8, WikiIndexAssumption DEF IndexInv, HeadsInv, WikiType
        <4>2. w < ran[d] => <<d, w + 1>> \in Refs
          BY <3>1, <4>1, WikiIndexAssumption
        <4> QED BY <1>4, <4>2
      <3> QED BY <1>1, <1>6, <3>1, <3>3, <3>4 DEF SceneFile
    <2> QED BY <2>1 DEF SceneFiles
  <1>10. StepFiles'
    <2>1. ASSUME NEW d \in Steps PROVE StepFile(d)'
      <3>1. StepFile(d) /\ (\A w \in 1..StepRevisions : <<d, w>> \in Refs)
            /\ 1 \in 1..StepRevisions /\ 2..StepRevisions \subseteq 1..StepRevisions
        BY <1>8, RefIntro, WikiIndexAssumption DEF IndexInv, StepFiles
      <3>2. \A w \in 2..StepRevisions : file'[<<d, w>>] = file[<<d, w>>]
        <4>1. ASSUME NEW w \in 2..StepRevisions PROVE <<d, w>> # src
          BY <1>2
        <4> QED BY <1>4, <3>1, <4>1
      <3>3. file'[<<d, 1>>].holds = file[<<d, 1>>].holds
            /\ file'[<<d, 1>>].state \in {"torn", file[<<d, 1>>].state}
        BY <1>4, <3>1
      <3>4. <<d, 1>> = src => Open(d)
        <4>1. ASSUME <<d, 1>> = src PROVE Open(d)
          <5>1. d = c
            BY <1>2, <4>1
          <5> QED BY <1>2, <1>8, <5>1 DEF Open
        <4> QED BY <4>1
      <3>5. file'[<<d, 1>>].state = "torn" => Open(d)
        BY <1>4, <3>1, <3>4 DEF StepFile
      <3>6. Open(d)' = Open(d)
        BY <1>1 DEF Open
      <3> QED BY <1>1, <3>1, <3>2, <3>3, <3>5, <3>6 DEF StepFile
    <2> QED BY <2>1 DEF StepFiles
  <1>11. ProgressInv'
    <2>1. \A q \in Superseded(r) : q \in Refs /\ file[q].state # "approved"
      BY <1>1, <1>2, Sources DEF IndexInv, ProgressInv, Ingesting, r
    <2>2. \A q \in Superseded(r) : file'[q].state # "approved"
      BY <1>4, <2>1
    <2> QED BY <1>1, <1>2, <1>3, <2>2 DEF ProgressInv, r
  <1> QED BY <1>5, <1>7, <1>9, <1>10, <1>11 DEF IndexInv

\* A revision that comes late is noticed; one that does not leaves one text.
LEMMA WriteKeeps ==
    ASSUME IndexInv, WriteSource
    PROVE  IndexInv'
  <1> DEFINE r == sweep.at
             c == r[1]
             v == r[2]
             src == SourceOf(r)
  <1>1. /\ sweep.pc = "writing" /\ file' = [file EXCEPT ![src] = [state |-> "approved", holds |-> v]]
        /\ ran' = [ran EXCEPT ![c] = IF v > @ THEN v ELSE @]
        /\ inverted' = IF v < ran[c] THEN inverted \cup {c} ELSE inverted
        /\ Advance("written") /\ UNCHANGED <<queue, job, interruptions>>
    BY DEF WriteSource
  <1>2. /\ r \in Refs /\ job[r] = "processing" /\ r = <<c, v>> /\ c \in Chains /\ v \in 1..Last(c) /\ v \in Nat
        /\ (c \in Scenes => src = r) /\ (c \in Steps => src = <<c, 1>>) /\ src \in Refs /\ src[1] = c
        /\ v \in 0..MaxVersion /\ v <= HeadVersion(c)
    BY <1>1, UnderWay DEF Ingesting
  <1>3. sweep'.pc = "written" /\ sweep'.at = sweep.at /\ sweep' \in SweepType
    BY <1>1 DEF Advance, IndexInv, WikiType, SweepType, Ingesting
  <1>4. \A q \in Superseded(r) : file[q].state # "approved"
    BY <1>1, <1>2 DEF IndexInv, ProgressInv, Ingesting, r
  <1> HIDE DEF r, c, v, src
  <1>5. /\ file' \in [Refs -> SourceType]
        /\ \A q \in Refs \ {src} : file'[q] = file[q]
        /\ file'[src] = [state |-> "approved", holds |-> v]
    BY <1>1, <1>2 DEF IndexInv, WikiType, SourceType
  <1>6. /\ ran' \in [Chains -> 0..MaxVersion] /\ ran \in [Chains -> 0..MaxVersion]
        /\ \A d \in Chains \ {c} : ran'[d] = ran[d]
        /\ ran'[c] = IF v > ran[c] THEN v ELSE ran[c]
    BY <1>1, <1>2 DEF IndexInv, WikiType
  <1>7. \A d \in Chains : ran[d] \in Nat /\ ran'[d] \in Nat /\ ran[d] <= ran'[d]
    BY <1>2, <1>6, WikiIndexAssumption DEF MaxVersion
  <1>8. inverted \subseteq inverted' /\ inverted' \subseteq Chains /\ (c \notin inverted' => ran[c] <= v /\ ran'[c] = v)
    BY <1>1, <1>2, <1>6, <1>7 DEF IndexInv, WikiType
  <1>9. WikiType'
    BY <1>1, <1>3, <1>5, <1>6, <1>8 DEF IndexInv, WikiType
  <1>10. \A d : HeadVersion(d)' = HeadVersion(d)
    BY <1>1 DEF HeadVersion, RevisionsOf
  <1>11. Scenes \subseteq Chains /\ Steps \subseteq Chains /\ (\A d \in Scenes : Last(d) = SceneRevisions)
         /\ \A d \in Steps : Last(d) = StepRevisions
    BY WikiIndexAssumption DEF Chains, Last
  <1>12. HeadsInv'
    <2>1. ASSUME NEW d \in Chains PROVE ran'[d] <= HeadVersion(d)
      BY <1>2, <1>6 DEF IndexInv, HeadsInv
    <2> QED BY <1>1, <1>10, <2>1 DEF IndexInv, HeadsInv
  <1>13. SceneFiles'
    <2>1. ASSUME NEW d \in Scenes, NEW w \in 1..SceneRevisions PROVE SceneFile(d, w)'
      <3>1. SceneFile(d, w) /\ <<d, w>> \in Refs /\ (w + 1 <= SceneRevisions => SceneFile(d, w + 1) /\ <<d, w + 1>> \in Refs)
        BY <1>11, RefIntro, WikiIndexAssumption DEF IndexInv, SceneFiles
      <3>2. ran[d] \in Nat /\ ran'[d] \in Nat /\ ran[d] <= ran'[d] /\ ran'[d] <= SceneRevisions /\ w \in Nat
        <4>1. ran'[d] <= HeadVersion(d)' /\ HeadVersion(d)' \in 0..SceneRevisions
          BY <1>11, <1>12 DEF HeadsInv, Last
        <4> QED BY <1>7, <1>11, <4>1, WikiIndexAssumption
      <3>3. CASE <<d, w>> = src
        <4>1. d = c /\ w = v
          BY <1>2, <3>3
        <4>2. file'[<<d, w>>] = [state |-> "approved", holds |-> v] /\ job[<<d, w>>] # "succeeded"
          BY <1>2, <1>5, <3>3, <4>1
        <4>3. v <= ran'[c]
          BY <1>2, <1>6, <1>7
        <4> QED BY <1>1, <1>2, <1>8, <3>2, <4>1, <4>2, <4>3 DEF SceneFile
      <3>4. CASE <<d, w>> # src
        <4>1. file'[<<d, w>>] = file[<<d, w>>]
          BY <1>5, <3>1, <3>4
        <4>2. ASSUME d \notin inverted', file[<<d, w>>].state = "approved", w < ran'[d]
              PROVE  file'[<<d, w + 1>>].holds = 0
          <5>1. w + 1 <= SceneRevisions /\ d \notin inverted
            BY <1>8, <3>2, <4>2, WikiIndexAssumption
          <5>2. CASE d # c
            <6>1. file'[<<d, w + 1>>] = file[<<d, w + 1>>] /\ ran'[d] = ran[d]
              BY <1>2, <1>5, <1>6, <1>11, <3>1, <5>1, <5>2
            <6> QED BY <3>1, <4>2, <5>1, <6>1 DEF SceneFile
          <5>3. CASE d = c
            <6>1. ran[c] <= v /\ ran'[c] = v /\ w < v
              BY <1>8, <4>2, <5>3
            <6>2. w + 1 # v
              <7>1. w + 1 = v => <<d, w>> \in Superseded(r)
                BY <1>2, <3>2, <5>3 DEF Superseded, c, v
              <7> QED BY <1>4, <4>2, <7>1
            <6>3. file'[<<d, w + 1>>] = file[<<d, w + 1>>]
              BY <1>2, <1>5, <3>1, <5>1, <5>3, <6>2
            <6>4. CASE w < ran[c]
              BY <3>1, <4>2, <5>1, <5>3, <6>3, <6>4 DEF SceneFile
            <6>5. CASE ~(w < ran[c])
              <7>1. file[<<d, w>>].holds = w /\ w <= ran[c]
                BY <3>1, <4>2, <5>3 DEF SceneFile
              <7>2. file[<<d, w + 1>>].holds \in {0, w + 1} /\ file[<<d, w + 1>>].holds <= ran[c]
                BY <3>1, <5>1, <5>3 DEF SceneFile
              <7> QED BY <3>2, <5>3, <6>3, <6>5, <7>1, <7>2
            <6> QED BY <6>4, <6>5
          <5> QED BY <5>2, <5>3
        <4>3. file[<<d, w>>].holds \in {0, w}
          BY <3>1 DEF SceneFile
        <4> QED BY <1>1, <1>10, <3>1, <3>2, <4>1, <4>2, <4>3 DEF SceneFile
      <3> QED BY <3>3, <3>4
    <2> QED BY <2>1 DEF SceneFiles
  <1>14. StepFiles'
    <2>1. ASSUME NEW d \in Steps PROVE StepFile(d)'
      <3>1. StepFile(d) /\ (\A w \in 1..StepRevisions : <<d, w>> \in Refs)
            /\ 1 \in 1..StepRevisions /\ 2..StepRevisions \subseteq 1..StepRevisions
        BY <1>11, RefIntro, WikiIndexAssumption DEF IndexInv, StepFiles
      <3>2. \A w \in 2..StepRevisions : file'[<<d, w>>] = file[<<d, w>>]
        <4>1. ASSUME NEW w \in 2..StepRevisions PROVE <<d, w>> # src
          BY <1>2, WikiIndexAssumption DEF Chains
        <4> QED BY <1>5, <3>1, <4>1
      <3>3. \A w \in 1..StepRevisions : job[<<d, w>>] = "succeeded" => w <= ran'[d]
        BY <1>7, <1>11, <3>1 DEF StepFile
      <3>4. CASE d = c
        <4>1. file'[<<d, 1>>] = [state |-> "approved", holds |-> v]
          BY <1>2, <1>5, <3>4
        <4> QED BY <1>1, <1>8, <3>1, <3>2, <3>3, <3>4, <4>1 DEF StepFile
      <3>5. CASE d # c
        <4>1. file'[<<d, 1>>] = file[<<d, 1>>] /\ ran'[d] = ran[d] /\ (d \notin inverted' => d \notin inverted)
          BY <1>2, <1>5, <1>6, <1>8, <1>11, <3>1, <3>5
        <4>2. Open(d)' = Open(d)
          BY <1>1 DEF Open
        <4> QED BY <1>1, <3>1, <3>2, <3>3, <4>1, <4>2 DEF StepFile
      <3> QED BY <3>4, <3>5
    <2> QED BY <2>1 DEF StepFiles
  <1>15. ProgressInv'
    <2>1. ran'[c] >= v
      BY <1>2, <1>6, <1>7
    <2>2. SourceOf(r)' = src
      BY <1>3 DEF SourceOf, r, src
    <2> QED BY <1>1, <1>2, <1>3, <1>5, <2>1, <2>2 DEF ProgressInv, r, c, v
  <1> QED BY <1>9, <1>12, <1>13, <1>14, <1>15 DEF IndexInv

\* A job succeeds when its text is in the index.
LEMMA CompleteKeeps ==
    ASSUME IndexInv, Complete
    PROVE  IndexInv'
  <1> DEFINE r == sweep.at
             c == r[1]
             v == r[2]
  <1>1. /\ sweep.pc = "written" /\ Finish("succeeded") /\ UNCHANGED <<queue, file, ran, inverted, interruptions>>
    BY DEF Complete
  <1>2. /\ r \in Refs /\ job[r] = "processing" /\ r = <<c, v>> /\ c \in Chains /\ v \in Nat
        /\ (c \in Scenes => SourceOf(r) = r) /\ (c \in Steps => SourceOf(r) = <<c, 1>>)
    BY <1>1, UnderWay DEF Ingesting
  <1>3. file[SourceOf(r)] = [state |-> "approved", holds |-> v] /\ ran[c] >= v
    BY <1>1 DEF IndexInv, ProgressInv, Ingesting
  <1>4. /\ job'[r] = "succeeded" /\ (\A q \in Refs \ {r} : job'[q] = job[q])
        /\ sweep'.pc = "sweeping" /\ WikiType'
    BY <1>1, <1>2 DEF Finish, IndexInv, WikiType, JobStatuses, SweepType
  <1> HIDE DEF r, c, v
  <1>5. \A q \in Refs : job'[q] = "absent" <=> job[q] = "absent"
    BY <1>2, <1>4
  <1>6. \A d \in Chains : HeadVersion(d)' = HeadVersion(d)
    BY <1>5, HeadsStay
  <1>7. HeadsInv'
    BY <1>1, <1>5, <1>6, RefIntro DEF IndexInv, HeadsInv
  <1>8. Scenes \subseteq Chains /\ Steps \subseteq Chains /\ (\A d \in Scenes : Last(d) = SceneRevisions)
         /\ \A d \in Steps : Last(d) = StepRevisions
    BY WikiIndexAssumption DEF Chains, Last
  <1>9. SceneFiles'
    <2>1. ASSUME NEW d \in Scenes, NEW w \in 1..SceneRevisions PROVE SceneFile(d, w)'
      <3>1. SceneFile(d, w) /\ <<d, w>> \in Refs /\ HeadVersion(d)' = HeadVersion(d)
        BY <1>6, <1>8, RefIntro DEF IndexInv, SceneFiles
      <3>2. CASE <<d, w>> = r
        <4>1. d = c /\ w = v
          BY <1>2, <3>2
        <4>2. file[<<d, w>>] = [state |-> "approved", holds |-> w]
          BY <1>2, <1>3, <3>2, <4>1
        <4> QED BY <1>1, <3>1, <4>2 DEF SceneFile
      <3>3. CASE <<d, w>> # r
        <4>1. job'[<<d, w>>] = job[<<d, w>>]
          BY <1>4, <3>1, <3>3
        <4> QED BY <1>1, <3>1, <4>1 DEF SceneFile
      <3> QED BY <3>2, <3>3
    <2> QED BY <2>1 DEF SceneFiles
  <1>10. StepFiles'
    <2>1. ASSUME NEW d \in Steps PROVE StepFile(d)'
      <3>1. StepFile(d) /\ \A w \in 1..StepRevisions : <<d, w>> \in Refs
        BY <1>8, RefIntro DEF IndexInv, StepFiles
      <3>2. ASSUME NEW w \in 1..StepRevisions, job'[<<d, w>>] = "succeeded" PROVE w <= ran[d]
        <4>1. CASE <<d, w>> = r
          BY <1>2, <1>3, <4>1
        <4>2. CASE <<d, w>> # r
          BY <1>4, <3>1, <3>2, <4>2 DEF StepFile
        <4> QED BY <4>1, <4>2
      <3>3. file[<<d, 1>>].state = "torn" => Open(d)'
        <4>1. CASE d = c
          BY <1>2, <1>3, <4>1
        <4>2. CASE d # c
          <5>1. \A w \in 1..StepRevisions : <<d, w>> # r
            BY <1>2, <4>2
          <5>2. \A w \in 1..StepRevisions : job'[<<d, w>>] = job[<<d, w>>]
            BY <1>4, <3>1, <5>1
          <5> QED BY <3>1, <5>2 DEF StepFile, Open
        <4> QED BY <4>1, <4>2
      <3> QED BY <1>1, <3>1, <3>2, <3>3 DEF StepFile
    <2> QED BY <2>1 DEF StepFiles
  <1>11. ProgressInv'
    BY <1>4 DEF ProgressInv, Ingesting
  <1> QED BY <1>4, <1>7, <1>9, <1>10, <1>11 DEF IndexInv

-----------------------------------------------------------------------------
(* The inductive invariant *)

LEMMA IndexInit ==
    ASSUME WikiInit
    PROVE  IndexInv
  <1>1. \A r \in Refs : job[r] = "absent" /\ file[r] = [state |-> "absent", holds |-> 0]
    BY DEF WikiInit
  <1>2. Scenes \subseteq Chains /\ Steps \subseteq Chains /\ (\A d \in Scenes : Last(d) = SceneRevisions)
         /\ (\A d \in Steps : Last(d) = StepRevisions) /\ \A d \in Chains : Last(d) \in Nat \ {0}
    BY WikiIndexAssumption DEF Chains, Last
  <1>3. WikiType
    <2>1. Idle \in SweepType
      BY DEF Idle, SweepType
    <2>2. 0 \in 0..MaxVersion /\ 0 \in 0..MaxInterruptions
      BY WikiIndexAssumption DEF MaxVersion
    <2>3. [state |-> "absent", holds |-> 0] \in SourceType
      BY <2>2 DEF SourceType
    <2> QED BY <2>1, <2>2, <2>3 DEF WikiInit, WikiType, JobStatuses
  <1>4. \A c \in Chains : HeadVersion(c) = 0
    <2>1. ASSUME NEW c \in Chains PROVE HeadVersion(c) = 0
      <3>1. \A v \in 1..Last(c) : job[<<c, v>>] # "absent" <=> v <= 0
        BY <1>1, <1>2, RefIntro
      <3>2. 0 \in 0..Last(c)
        BY <1>2
      <3> QED BY <3>1, <3>2, HeadOf DEF HeadVersion
    <2> QED BY <2>1
  <1>5. HeadsInv
    <2>1. ASSUME NEW c \in Chains, NEW v \in 1..Last(c) PROVE job[<<c, v>>] = "absent" /\ ~(v <= 0)
      BY <1>1, <1>2, RefIntro
    <2> QED BY <1>2, <1>4, <2>1 DEF WikiInit, HeadsInv
  <1>6. ProgressInv
    BY DEF WikiInit, Idle, ProgressInv, Ingesting
  <1>7. SceneFiles
    <2>1. ASSUME NEW d \in Scenes, NEW w \in 1..SceneRevisions PROVE SceneFile(d, w)
      <3>1. <<d, w>> \in Refs /\ ran[d] = 0
        BY <1>2, RefIntro DEF WikiInit
      <3> QED BY <1>1, <3>1 DEF SceneFile
    <2> QED BY <2>1 DEF SceneFiles
  <1>8. StepFiles
    <2>1. ASSUME NEW d \in Steps PROVE StepFile(d)
      <3>1. (\A w \in 1..StepRevisions : <<d, w>> \in Refs) /\ ran[d] = 0
            /\ 1 \in 1..StepRevisions /\ 2..StepRevisions \subseteq 1..StepRevisions
        BY <1>2, RefIntro, WikiIndexAssumption DEF WikiInit
      <3> QED BY <1>1, <3>1 DEF StepFile
    <2> QED BY <2>1 DEF StepFiles
  <1> QED BY <1>3, <1>5, <1>6, <1>7, <1>8 DEF IndexInv

LEMMA IndexNext ==
    ASSUME IndexInv, [WikiNext]_wikiVars
    PROVE  IndexInv'
  <1>1. CASE UNCHANGED wikiVars
    <2>1. UNCHANGED <<queue, job, file, ran, inverted, interruptions>> /\ UNCHANGED sweep
      BY <1>1 DEF wikiVars
    <2>2. WikiType' /\ (ProgressInv <=> ProgressInv')
      BY <2>1 DEF IndexInv, WikiType, ProgressInv, Superseded, SourceOf
    <2>3. HeadsInv' /\ SceneFiles' /\ StepFiles'
      BY <2>1, <2>2, JobsMove DEF WikiType
    <2> QED BY <2>2, <2>3 DEF IndexInv
  <1>2. CASE IoError \/ DispatcherDies
    <2>1. interruptions' \in 0..MaxInterruptions
      BY <1>2, WikiIndexAssumption DEF IoError, DispatcherDies, Interrupted, IndexInv, WikiType
    <2> QED BY <1>2, <2>1, FailureKeeps DEF IoError, DispatcherDies
  <1> QED
    BY <1>1, <1>2, RevisionKeeps, QueueStepKeeps, MarkKeeps, TruncateKeeps, WriteKeeps, CompleteKeeps
       DEF WikiNext, Dispatch

\* Which files the index consists of, in every reachable state.
THEOREM IndexInvariant == WikiSpec => []IndexInv
  <1> QED BY IndexInit, IndexNext, PTL DEF WikiSpec

\* The newest text of a scene is evidence from its ingest on, whatever runs late.
THEOREM NewestTextStaysEvidence == WikiSpec => []NewestSceneTextIsEvidence
  <1>1. ASSUME IndexInv PROVE NewestSceneTextIsEvidence
    <2>1. ASSUME NEW c \in Scenes, HeadVersion(c) > 0, job[<<c, HeadVersion(c)>>] = "succeeded"
          PROVE  HeadVersion(c) \in Evidence(c)
      <3>1. HeadVersion(c) \in 1..SceneRevisions /\ c \in Chains /\ Last(c) = SceneRevisions
        BY <1>1, <2>1, WikiIndexAssumption DEF IndexInv, HeadsInv, Chains, Last
      <3>2. file[<<c, HeadVersion(c)>>].holds = HeadVersion(c) /\ file[<<c, HeadVersion(c)>>].state = "approved"
        <4>1. PICK h \in 1..SceneRevisions : h = HeadVersion(c)
          BY <3>1
        <4>2. SceneFile(c, h) /\ job[<<c, h>>] = "succeeded" /\ ~(h < HeadVersion(c))
          BY <1>1, <2>1, <4>1 DEF IndexInv, SceneFiles
        <4>3. file[<<c, h>>].holds = h /\ file[<<c, h>>].state = "approved"
          BY <4>2 DEF SceneFile
        <4> QED BY <4>1, <4>3
      <3>3. <<c, HeadVersion(c)>> \in RevisionsOf(c)
        BY <3>1, RefIntro DEF RevisionsOf
      <3> QED BY <3>2, <3>3 DEF Evidence
    <2> QED BY <2>1 DEF NewestSceneTextIsEvidence
  <1> QED BY <1>1, IndexInvariant, PTL

\* A chain whose revisions were ingested in order, and whose jobs are through,
\* answers with its newest text and nothing else, whatever was interrupted.
THEOREM IndexIsCurrentInOrder == WikiSpec => []InOrderIndexIsCurrent
  <1>1. ASSUME IndexInv PROVE InOrderIndexIsCurrent
    <2>1. ASSUME NEW c \in Chains \ inverted, HeadVersion(c) > 0, Settled(c)
          PROVE  Evidence(c) = {HeadVersion(c)}
      <3> DEFINE h == HeadVersion(c)
      <3>1. h \in 1..Last(c) /\ ran[c] <= h /\ ran[c] \in Int /\ Last(c) \in Nat /\ h \in Nat
        BY <1>1, <2>1, WikiIndexAssumption DEF IndexInv, HeadsInv, Last, WikiType
      <3>2. \A v \in 1..Last(c) : <<c, v>> \in Refs /\ <<c, v>> \in RevisionsOf(c)
        BY RefIntro DEF RevisionsOf
      <3>3. \A v \in 1..Last(c) : job[<<c, v>>] # "absent" <=> v <= h
        BY <1>1 DEF IndexInv, HeadsInv
      <3> HIDE DEF h
      <3>4. \A v \in 1..h : job[<<c, v>>] = "succeeded"
        BY <2>1, <3>1, <3>2, <3>3 DEF Settled
      <3>5. CASE c \in Scenes
        <4>1. Last(c) = SceneRevisions
          BY <3>5 DEF Last
        <4>2. file[<<c, h>>].holds = h /\ ran[c] = h /\ file[<<c, h>>].state = "approved"
          <5>1. SceneFile(c, h) /\ HeadVersion(c) = h /\ job[<<c, h>>] = "succeeded"
            BY <1>1, <3>1, <3>4, <3>5, <4>1 DEF IndexInv, SceneFiles, h
          <5> QED BY <3>1, <5>1 DEF SceneFile
        <4>3. ASSUME NEW v \in 1..Last(c), file[<<c, v>>].state = "approved" PROVE v = h
          <5>1. SceneFile(c, v)
            BY <1>1, <3>5, <4>1 DEF IndexInv, SceneFiles
          <5>2. v <= h
            BY <3>1, <4>2, <4>3, <5>1 DEF SceneFile
          <5>3. ASSUME v < h PROVE FALSE
            <6>1. v + 1 \in 1..h /\ v + 1 \in 1..SceneRevisions
              BY <3>1, <4>1, <5>3
            <6>2. SceneFile(c, v + 1) /\ job[<<c, v + 1>>] = "succeeded"
              BY <1>1, <3>4, <3>5, <6>1 DEF IndexInv, SceneFiles
            <6>3. file[<<c, v + 1>>].holds = v + 1
              BY <6>2 DEF SceneFile
            <6>4. file[<<c, v + 1>>].holds = 0
              BY <2>1, <4>2, <4>3, <5>1, <5>3 DEF SceneFile
            <6> QED BY <6>1, <6>3, <6>4
          <5> QED BY <3>1, <5>2, <5>3
        <4>4. {q \in RevisionsOf(c) : file[q].state = "approved"} = {<<c, h>>}
          BY <3>1, <3>2, <4>2, <4>3, RevisionsAre
        <4> QED BY <4>2, <4>4 DEF Evidence, h
      <3>6. CASE c \in Steps
        <4>1. Last(c) = StepRevisions /\ StepFile(c)
          BY <1>1, <3>6, WikiIndexAssumption DEF Last, IndexInv, StepFiles
        <4>2. ran[c] = h
          <5>1. h \in 1..StepRevisions /\ job[<<c, h>>] = "succeeded"
            BY <3>1, <3>4, <4>1
          <5>2. h <= ran[c]
            BY <4>1, <5>1 DEF StepFile
          <5> QED BY <3>1, <5>2
        <4>3. ~Open(c)
          BY <2>1, <3>2, <4>1 DEF Open, Settled
        <4>4. file[<<c, 1>>].holds = h /\ file[<<c, 1>>].state = "approved"
          <5>1. <<c, 1>> \in Refs
            BY <3>1, <3>2
          <5>2. file[<<c, 1>>].state \in {"absent", "approved", "superseded", "torn"}
            BY <1>1, <5>1 DEF IndexInv, WikiType, SourceType
          <5> QED BY <2>1, <3>1, <4>1, <4>2, <4>3, <5>2 DEF StepFile
        <4>5. \A v \in 2..Last(c) : file[<<c, v>>].state # "approved"
          BY <4>1 DEF StepFile
        <4>6. {q \in RevisionsOf(c) : file[q].state = "approved"} = {<<c, 1>>}
          <5>1. \A v \in 1..Last(c) : v = 1 \/ v \in 2..Last(c)
            BY <3>1
          <5> QED BY <3>1, <3>2, <4>4, <4>5, <5>1, RevisionsAre
        <4> QED BY <4>4, <4>6 DEF Evidence, h
      <3> QED BY <2>1, <3>5, <3>6 DEF Chains
    <2> QED BY <2>1 DEF InOrderIndexIsCurrent
  <1> QED BY <1>1, IndexInvariant, PTL

=============================================================================
