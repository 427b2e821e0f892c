----------------------------- MODULE ModelRuntime -----------------------------
(***************************************************************************)
(* One generation call against the remote models: the candidates of the    *)
(* request are asked in turn, an answer that fails its contract is sent    *)
(* back once for repair, an error is followed by the next candidate if it  *)
(* may be, and every attempt and the outcome are recorded as they happen,  *)
(* each in a transaction of its own.  The recorder may fail between any    *)
(* two of them, and the process may die.                                   *)
(*                                                                         *)
(* Prompts and texts are left out.  A usage report counts one token for    *)
(* each answer, whatever it is worth.  Several calls run concurrently.     *)
(***************************************************************************)
EXTENDS Naturals, Sequences, FiniteSets

CONSTANTS Calls,      \* generation calls: each has one run of the same name
          Profiles,   \* allowlisted model profiles
          Catalog,    \* the profiles in the catalog's order
          Fallbacks,  \* fallback_profile_ids of each profile
          NoProfile   \* the request leaves the choice to the catalog

ASSUME ModelRuntimeAssumption ==
    /\ Catalog \in Seq(Profiles) /\ Len(Catalog) > 0
    /\ Fallbacks \in [Profiles -> Seq(Profiles)]
    /\ NoProfile \notin Profiles

VARIABLES run,       \* generation_runs
          attempts,  \* generation_attempts of each run, in their order
          exec       \* progress of each call of ModelRuntime.execute

runtimeVars == <<run, attempts, exec>>

\* What an attempt ends with.  "unavailable" stands for the codes that differ
\* in nothing the runtime looks at (timeout, rate_limit, execution, ...), and
\* "configuration" for a profile that cannot be used at all.
Outcomes == {"valid", "invalid_response", "unavailable", "authentication", "configuration"}
Answered == {"valid", "invalid_response"}

\* Seeded fault: a refused credential is passed over like a busy provider.
AnyErrorCode == Outcomes \ {"valid"}

\* FALLBACK_ERROR_CODES
FallbackCodes == Outcomes \ {"valid", "authentication"}

Kinds == {"primary", "repair", "fallback"}
Options == [profile : Profiles \cup {NoProfile}, fallback : BOOLEAN, repair : BOOLEAN]

NoRun == [status |-> "none"]
Running == [status |-> "running"]
Closed == [status : {"succeeded", "failed"}, profile : Profiles \cup {NoProfile}, error : Outcomes,
           attempts : Nat, repairs : Nat, fallbacks : Nat, tokens : Nat]

Idle == [pc |-> "idle"]
Executing == [pc : {"ask", "repair", "record", "finish"}, options : Options, candidates : Seq(Profiles),
              at : Nat \ {0}, kind : Kinds, outcome : Outcomes,
              attempts : Nat, repairs : Nat, fallbacks : Nat, tokens : Nat]
Ended == [pc : {"returned"}, profile : Profiles] \cup [pc : {"raised", "lost"}]

\* Type invariant.
RuntimeType ==
    /\ run \in [Calls -> {NoRun, Running} \cup Closed]
    /\ attempts \in [Calls -> Seq([index : Nat \ {0}, kind : Kinds, profile : Profiles, outcome : Outcomes])]
    /\ exec \in [Calls -> {Idle} \cup Executing \cup Ended]

RuntimeInit ==
    /\ run = [c \in Calls |-> NoRun]
    /\ attempts = [c \in Calls |-> <<>>]
    /\ exec = [c \in Calls |-> Idle]

-----------------------------------------------------------------------------

\* The places of a list where a profile is seen for the first time.
FirstPlaces(ids) == {i \in DOMAIN ids : \A j \in 1..(i - 1) : ids[j] # ids[i]}

\* A profile listed twice is asked where it comes first.
Deduplicated(ids) ==
    [n \in 1..Cardinality(FirstPlaces(ids)) |->
        ids[CHOOSE i \in FirstPlaces(ids) : Cardinality({j \in FirstPlaces(ids) : j <= i}) = n]]

\* ModelCatalog.candidates
Candidates(options) ==
    LET ids == IF options.profile = NoProfile THEN Catalog
               ELSE <<options.profile>> \o Fallbacks[options.profile]
    IN IF options.fallback THEN Deduplicated(ids) ELSE <<ids[1]>>

\* create_generation_run; when it fails nothing was asked and the call raises.
Start(c, options) ==
    /\ exec[c] = Idle
    /\ run' = [run EXCEPT ![c] = Running]
    /\ exec' = [exec EXCEPT ![c] =
            [pc |-> "ask", options |-> options, candidates |-> Candidates(options), at |-> 1,
             kind |-> "primary", outcome |-> "configuration",
             attempts |-> 0, repairs |-> 0, fallbacks |-> 0, tokens |-> 0]]
    /\ UNCHANGED attempts

\* Seeded fault: the usage of the last answer stands for the usage of the call.
CountedLast(e, outcome) == IF outcome \in Answered THEN 1 ELSE e.tokens

\* The usage of every answer counts, also of one that fails its contract.
Counted(e, outcome) == IF outcome \in Answered THEN e.tokens + 1 ELSE e.tokens

\* The next candidate is set up and asked; the answer is checked locally.
Ask(c, outcome) ==
    /\ exec[c].pc = "ask"
    /\ exec' = [exec EXCEPT ![c] =
            [exec[c] EXCEPT !.pc = "record", !.outcome = outcome,
                !.kind = IF exec[c].at = 1 THEN "primary" ELSE "fallback",
                !.attempts = exec[c].attempts + 1,
                !.fallbacks = IF exec[c].at = 1 THEN exec[c].fallbacks ELSE exec[c].fallbacks + 1,
                !.tokens = Counted(exec[c], outcome)]]
    /\ UNCHANGED <<run, attempts>>

\* The same model is sent its answer back.
Repair(c, outcome) ==
    /\ exec[c].pc = "repair"
    /\ exec' = [exec EXCEPT ![c] =
            [exec[c] EXCEPT !.pc = "record", !.outcome = outcome, !.kind = "repair",
                !.attempts = exec[c].attempts + 1, !.repairs = exec[c].repairs + 1,
                !.tokens = Counted(exec[c], outcome)]]
    /\ UNCHANGED <<run, attempts>>

Profile(e) == e.candidates[e.at]

Repairable(e) ==
    e.outcome = "invalid_response" /\ e.kind # "repair" /\ e.options.repair

MayFallBack(e) ==
    e.options.fallback /\ e.outcome \in FallbackCodes /\ e.at < Len(e.candidates)

\* Where the call goes on when its attempt is recorded.
AfterAttempt(e) ==
    IF Repairable(e) THEN [e EXCEPT !.pc = "repair"]
    ELSE IF MayFallBack(e) THEN [e EXCEPT !.pc = "ask", !.at = @ + 1]
    ELSE [e EXCEPT !.pc = "finish"]

\* add_generation_attempt
Record(c) ==
    /\ exec[c].pc = "record"
    /\ attempts' = [attempts EXCEPT ![c] =
            Append(@, [index |-> exec[c].attempts, kind |-> exec[c].kind,
                       profile |-> Profile(exec[c]), outcome |-> exec[c].outcome])]
    /\ exec' = [exec EXCEPT ![c] = AfterAttempt(@)]
    /\ UNCHANGED run

\* The row of a call that is over; a failed one names no profile.
Outcome(e) ==
    [status |-> IF e.outcome = "valid" THEN "succeeded" ELSE "failed",
     profile |-> IF e.outcome = "valid" THEN Profile(e) ELSE NoProfile,
     error |-> e.outcome, attempts |-> e.attempts, repairs |-> e.repairs,
     fallbacks |-> e.fallbacks, tokens |-> e.tokens]

\* finish_generation_run, and the answer is returned or the last error raised.
Finish(c) ==
    /\ exec[c].pc = "finish"
    /\ run' = [run EXCEPT ![c] = Outcome(exec[c])]
    /\ exec' = [exec EXCEPT ![c] =
            IF exec[c].outcome = "valid" THEN [pc |-> "returned", profile |-> Profile(exec[c])]
            ELSE [pc |-> "raised"]]
    /\ UNCHANGED attempts

\* Seeded fault: an answer is handed on although it could not be recorded.
AnsweredAnyway(e) ==
    IF e.outcome = "valid" THEN [pc |-> "returned", profile |-> Profile(e)] ELSE [pc |-> "raised"]

\* The recorder's error goes to the caller, in place of the answer if there is one.
AfterRecorderError(e) == [pc |-> "raised"]

\* A full disk or a busy database; the run stays open.
RecorderFails(c) ==
    /\ exec[c].pc \in {"record", "finish"}
    /\ exec' = [exec EXCEPT ![c] = AfterRecorderError(@)]
    /\ UNCHANGED <<run, attempts>>

\* Calls in progress are lost with the process; nothing closes their runs later.
LoseCalls ==
    /\ exec' = [c \in Calls |->
            IF exec[c].pc \in {"ask", "repair", "record", "finish"} THEN [pc |-> "lost"] ELSE exec[c]]
    /\ UNCHANGED <<run, attempts>>

Execute(c) ==
    \/ \E outcome \in Outcomes : Ask(c, outcome) \/ Repair(c, outcome)
    \/ Record(c) \/ Finish(c) \/ RecorderFails(c)

-----------------------------------------------------------------------------
(* Properties *)

CountOf(c, kind) == Cardinality({i \in DOMAIN attempts[c] : attempts[c][i].kind = kind})

\* A closed run says what its attempts say: their number in an unbroken order,
\* the repairs and fallbacks among them, the usage of every answer, and whether
\* the last of them succeeded and with which profile.
RecordsAreTrue ==
    \A c \in Calls : run[c] \in Closed =>
        LET n == Len(attempts[c]) IN
        /\ run[c].attempts = n /\ n > 0
        /\ \A i \in 1..n : attempts[c][i].index = i
        /\ run[c].repairs = CountOf(c, "repair")
        /\ run[c].fallbacks = CountOf(c, "fallback")
        /\ run[c].tokens = Cardinality({i \in 1..n : attempts[c][i].outcome \in {"valid", "invalid_response"}})
        /\ run[c].status = "succeeded" <=> attempts[c][n].outcome = "valid"
        /\ run[c].status = "succeeded" => run[c].profile = attempts[c][n].profile

\* What a sequence of attempts may look like: a repair follows an invalid answer
\* of the same model, once; another model follows a failure that is not a
\* refused credential, once; and nothing follows a valid answer.
AttemptsFollowThePolicy ==
    \A c \in Calls : \A i \in 2..Len(attempts[c]) :
        LET before == attempts[c][i - 1]
            this == attempts[c][i]
        IN
        /\ before.outcome \notin {"valid", "authentication"}
        /\ this.kind = "repair" =>
            before.kind # "repair" /\ before.outcome = "invalid_response" /\ before.profile = this.profile
        /\ this.kind # "repair" =>
            this.kind = "fallback" /\ \A j \in 1..(i - 1) : attempts[c][j].profile # this.profile
=============================================================================
