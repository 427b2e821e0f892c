-------------------------- MODULE SuggestionsProofs --------------------------
(***************************************************************************)
(* Proofs about Suggestions and the ModelRuntime it calls: runs say what   *)
(* their attempts say, a stored answer of a model belongs to a run that    *)
(* succeeded, and an answer to an outdated question is not stored.  The    *)
(* counters of a call are compared with the rows it has written so far,    *)
(* one attempt apart between an answer and its record.  On top of that the *)
(* attempts of a call are in the order of the policy: its candidates hold  *)
(* no profile twice, and it walks through them once.                       *)
(***************************************************************************)
EXTENDS Suggestions, FiniteSetTheorems, SequenceTheorems, WellFoundedInduction, TLAPS

\* The profiles a call may ask: what the catalog answers for its options.
Asked == {Candidates(options)[i] : options \in Options, i \in Nat \ {0}}

InProgress == {"ask", "repair", "record", "finish"}

ExecutingType ==
    [pc : InProgress, options : Options, candidates : {Candidates(options) : options \in Options},
     at : Nat \ {0}, kind : Kinds, outcome : Outcomes,
     attempts : Nat, repairs : Nat, fallbacks : Nat, tokens : Nat]

EndedType == [pc : {"returned"}, profile : Asked] \cup [pc : {"raised", "lost"}]

AttemptType == [index : Nat \ {0}, kind : Kinds, profile : Asked, outcome : Outcomes]

ClosedType ==
    [status : {"succeeded", "failed"}, profile : Asked \cup {NoProfile}, error : Outcomes,
     attempts : Nat, repairs : Nat, fallbacks : Nat, tokens : Nat]

\* RuntimeType without the order of the candidates.
Shape ==
    /\ run \in [Calls -> {NoRun, Running} \cup ClosedType]
    /\ attempts \in [Calls -> Seq(AttemptType)]
    /\ exec \in [Calls -> {Idle} \cup ExecutingType \cup EndedType]

-----------------------------------------------------------------------------
(* Counting attempts *)

One(b) == IF b THEN 1 ELSE 0

KindCount(s, kind) == Cardinality({i \in DOMAIN s : s[i].kind = kind})
AnswerCount(s) == Cardinality({i \in 1..Len(s) : s[i].outcome \in Answered})

\* One more row counts once where it belongs, and nowhere else.
LEMMA CountsAppend ==
    ASSUME NEW s \in Seq(AttemptType), NEW x \in AttemptType
    PROVE  /\ \A kind : KindCount(Append(s, x), kind) = KindCount(s, kind) + One(x.kind = kind)
           /\ AnswerCount(Append(s, x)) = AnswerCount(s) + One(x.outcome \in Answered)
           /\ \A kind : KindCount(s, kind) \in Nat
           /\ AnswerCount(s) \in Nat
  <1>1. PICK n \in Nat : n = Len(s) OBVIOUS
  <1>2. PICK t : t = Append(s, x) OBVIOUS
  <1>3. /\ Len(t) = n + 1 /\ DOMAIN t = 1..(n + 1) /\ DOMAIN s = 1..n
        /\ \A i \in 1..n : t[i] = s[i]
        /\ t[n + 1] = x
    BY <1>1, <1>2
  <1>4. IsFiniteSet(1..n)
    BY FS_Interval
  <1>5. ASSUME NEW kind
        PROVE  KindCount(t, kind) = KindCount(s, kind) + One(x.kind = kind) /\ KindCount(s, kind) \in Nat
    <2> DEFINE S == {i \in 1..n : s[i].kind = kind}
               T == {i \in 1..(n + 1) : t[i].kind = kind}
    <2>1. IsFiniteSet(S) /\ Cardinality(S) \in Nat BY <1>4, FS_Subset, FS_CardinalityType
    <2>2. T = IF x.kind = kind THEN S \cup {n + 1} ELSE S BY <1>3
    <2>3. (n + 1) \notin S OBVIOUS
    <2>4. KindCount(s, kind) = Cardinality(S) /\ KindCount(t, kind) = Cardinality(T)
      BY <1>3 DEF KindCount
    <2> HIDE DEF S, T
    <2>5. Cardinality(T) = Cardinality(S) + One(x.kind = kind)
      <3>1. CASE x.kind = kind
        <4>1. Cardinality(S \cup {n + 1}) = Cardinality(S) + 1 BY <2>1, <2>3, FS_AddElement
        <4> QED BY <2>2, <3>1, <4>1 DEF One
      <3>2. CASE x.kind # kind BY <2>1, <2>2, <3>2 DEF One
      <3> QED BY <3>1, <3>2
    <2> QED BY <2>1, <2>4, <2>5
  <1>6. AnswerCount(t) = AnswerCount(s) + One(x.outcome \in Answered) /\ AnswerCount(s) \in Nat
    <2> DEFINE S == {i \in 1..n : s[i].outcome \in Answered}
               T == {i \in 1..(n + 1) : t[i].outcome \in Answered}
    <2>1. IsFiniteSet(S) /\ Cardinality(S) \in Nat BY <1>4, FS_Subset, FS_CardinalityType
    <2>2. T = IF x.outcome \in Answered THEN S \cup {n + 1} ELSE S BY <1>3
    <2>3. (n + 1) \notin S OBVIOUS
    <2>4. AnswerCount(s) = Cardinality(S) /\ AnswerCount(t) = Cardinality(T)
      BY <1>1, <1>3 DEF AnswerCount
    <2> HIDE DEF S, T
    <2>5. Cardinality(T) = Cardinality(S) + One(x.outcome \in Answered)
      <3>1. CASE x.outcome \in Answered
        <4>1. Cardinality(S \cup {n + 1}) = Cardinality(S) + 1 BY <2>1, <2>3, FS_AddElement
        <4> QED BY <2>2, <3>1, <4>1 DEF One
      <3>2. CASE x.outcome \notin Answered BY <2>1, <2>2, <3>2 DEF One
      <3> QED BY <3>1, <3>2
    <2> QED BY <2>1, <2>4, <2>5
  <1> QED BY <1>2, <1>5, <1>6

\* No rows, no counts.
LEMMA CountsEmpty ==
    (\A kind : KindCount(<<>>, kind) = 0) /\ AnswerCount(<<>>) = 0
  <1>1. \A kind : {i \in DOMAIN <<>> : <<>>[i].kind = kind} = {} OBVIOUS
  <1>2. {i \in 1..Len(<<>>) : <<>>[i].outcome \in Answered} = {} OBVIOUS
  <1> QED BY <1>1, <1>2, FS_EmptySet DEF KindCount, AnswerCount

-----------------------------------------------------------------------------
(* Calls *)

\* What a call has counted is what it has written, and the attempt it is about
\* to write.
Tally(s, e) ==
    /\ \A i \in 1..Len(s) : s[i].index = i
    /\ e.attempts = Len(s) + One(e.pc = "record")
    /\ e.repairs = KindCount(s, "repair") + One(e.pc = "record" /\ e.kind = "repair")
    /\ e.fallbacks = KindCount(s, "fallback") + One(e.pc = "record" /\ e.kind = "fallback")
    /\ e.tokens = AnswerCount(s) + One(e.pc = "record" /\ e.outcome \in Answered)
    /\ e.pc = "finish" =>
        Len(s) > 0 /\ s[Len(s)].outcome = e.outcome /\ s[Len(s)].profile = Profile(e)

\* What a closed run says of its attempts.
Summary(r, s) ==
    LET n == Len(s) IN
    /\ r.attempts = n /\ n > 0
    /\ \A i \in 1..n : s[i].index = i
    /\ r.repairs = KindCount(s, "repair")
    /\ r.fallbacks = KindCount(s, "fallback")
    /\ r.tokens = AnswerCount(s)
    /\ r.status = "succeeded" <=> s[n].outcome = "valid"
    /\ r.status = "succeeded" => r.profile = s[n].profile
    /\ r.status = "failed" => r.profile = NoProfile

CallSound(r, s, e) ==
    /\ e = Idle => s = <<>> /\ r = NoRun
    /\ e.pc \in InProgress => r = Running /\ Tally(s, e)
    /\ e.pc = "returned" => r.status = "succeeded"
    /\ r.status \in {"succeeded", "failed"} => e.pc \in {"returned", "raised"} /\ Summary(r, s)

CallsSound == \A c \in Calls : CallSound(run[c], attempts[c], exec[c])

\* A call in progress has all the fields of one.
LEMMA ExecCases ==
    ASSUME Shape, NEW c \in Calls
    PROVE  /\ exec[c].pc \in InProgress => exec[c] \in ExecutingType
           /\ exec[c].pc = "idle" => exec[c] = Idle
           /\ exec[c].pc \in InProgress \cup {"idle", "returned", "raised", "lost"}
  <1>1. exec[c] \in {Idle} \cup ExecutingType \cup EndedType BY DEF Shape
  <1> QED BY <1>1 DEF Idle, ExecutingType, EndedType, InProgress

\* Calls share nothing: a step of one that leaves it sound leaves all sound.
LEMMA OneCall ==
    ASSUME Shape, CallsSound, NEW c \in Calls,
           NEW r \in {NoRun, Running} \cup ClosedType, NEW s \in Seq(AttemptType),
           NEW e \in ExecutingType \cup EndedType,
           run' = [run EXCEPT ![c] = r], attempts' = [attempts EXCEPT ![c] = s],
           exec' = [exec EXCEPT ![c] = e],
           CallSound(r, s, e)
    PROVE  Shape' /\ CallsSound'
  <1>1. Shape' BY DEF Shape
  <1>2. ASSUME NEW d \in Calls PROVE CallSound(run'[d], attempts'[d], exec'[d])
    <2>1. CASE d = c
      <3>1. run'[d] = r /\ attempts'[d] = s /\ exec'[d] = e BY <2>1 DEF Shape
      <3> QED BY <3>1
    <2>2. CASE d # c
      <3>1. run'[d] = run[d] /\ attempts'[d] = attempts[d] /\ exec'[d] = exec[d]
        BY <2>2 DEF Shape
      <3> QED BY <3>1 DEF CallsSound
    <2> QED BY <2>1, <2>2
  <1> QED BY <1>1, <1>2 DEF CallsSound

\* A call begins with nothing counted.
LEMMA StartKeeps ==
    ASSUME Shape, CallsSound, NEW c \in Calls, NEW options \in Options, Start(c, options)
    PROVE  Shape' /\ CallsSound'
  <1>1. PICK cs \in {Candidates(o) : o \in Options} : cs = Candidates(options) OBVIOUS
  <1>2. PICK e : e = [pc |-> "ask", options |-> options, candidates |-> cs, at |-> 1,
                      kind |-> "primary", outcome |-> "configuration",
                      attempts |-> 0, repairs |-> 0, fallbacks |-> 0, tokens |-> 0]
    OBVIOUS
  <1>3. e \in ExecutingType BY <1>2 DEF ExecutingType, InProgress, Kinds, Outcomes
  <1>4. attempts[c] = <<>> BY DEF CallsSound, CallSound, Start
  <1>5. /\ run' = [run EXCEPT ![c] = Running] /\ attempts' = attempts
        /\ exec' = [exec EXCEPT ![c] = e]
    BY <1>1, <1>2 DEF Start
  <1>6. CallSound(Running, <<>>, e)
    <2>1. /\ e.pc = "ask" /\ e.attempts = 0 /\ e.repairs = 0 /\ e.fallbacks = 0 /\ e.tokens = 0
      BY <1>2
    <2>2. Len(<<>>) = 0 OBVIOUS
    <2>3. PICK s : s = <<>> OBVIOUS
    <2>4. /\ Len(s) = 0 /\ KindCount(s, "repair") = 0 /\ KindCount(s, "fallback") = 0
          /\ AnswerCount(s) = 0
      BY <2>2, <2>3, CountsEmpty
    <2>5. Tally(s, e) BY <2>1, <2>4 DEF Tally, One
    <2> QED BY <2>1, <2>3, <2>5 DEF CallSound, Running, Idle, InProgress
  <1>7. attempts' = [attempts EXCEPT ![c] = <<>>] BY <1>4, <1>5 DEF Shape
  <1>8. PICK s \in Seq(AttemptType) : s = <<>> BY <1>4 DEF Shape
  <1> QED BY <1>3, <1>5, <1>6, <1>7, <1>8, OneCall

\* An attempt is counted when its answer is there.
LEMMA AttemptKeeps ==
    ASSUME Shape, CallsSound, NEW c \in Calls, NEW outcome \in Outcomes,
           Ask(c, outcome) \/ Repair(c, outcome)
    PROVE  Shape' /\ CallsSound'
  <1>1. exec[c].pc \in InProgress /\ exec[c].pc \notin {"record", "finish"}
    BY DEF Ask, Repair, InProgress
  <1>2. PICK e \in ExecutingType : e = exec[c] BY <1>1, ExecCases
  <1>3. PICK s \in Seq(AttemptType) : s = attempts[c] BY DEF Shape
  <1>4. run[c] = Running /\ Tally(s, e) BY <1>1, <1>2, <1>3 DEF CallsSound, CallSound
  <1>5. PICK f \in ExecutingType :
            /\ exec' = [exec EXCEPT ![c] = f]
            /\ f.pc = "record" /\ f.outcome = outcome /\ f.attempts = e.attempts + 1
            /\ f.repairs = e.repairs + One(f.kind = "repair")
            /\ f.fallbacks = e.fallbacks + One(f.kind = "fallback")
            /\ f.tokens = e.tokens + One(outcome \in Answered)
    <2>0. PICK k \in Nat : k = Counted(e, outcome) /\ k = e.tokens + One(outcome \in Answered)
      BY DEF Counted, One, ExecutingType
    <2>1. CASE Ask(c, outcome)
      <3>1. PICK kind \in Kinds : kind = IF e.at = 1 THEN "primary" ELSE "fallback" BY DEF Kinds
      <3>2. PICK b \in Nat : b = IF e.at = 1 THEN e.fallbacks ELSE e.fallbacks + 1
        BY DEF ExecutingType
      <3>3. PICK m \in Nat : m = e.attempts + 1 BY DEF ExecutingType
      <3>4. PICK f : f = [e EXCEPT !.pc = "record", !.outcome = outcome, !.kind = kind,
                          !.attempts = m, !.fallbacks = b, !.tokens = k]
        OBVIOUS
      <3>5. exec' = [exec EXCEPT ![c] = f]
        BY <1>2, <2>0, <2>1, <3>1, <3>2, <3>3, <3>4 DEF Ask
      <3>8. f \in ExecutingType BY <3>4 DEF ExecutingType, InProgress
      <3>6. /\ f.pc = "record" /\ f.outcome = outcome /\ f.kind = kind /\ f.attempts = m
            /\ f.repairs = e.repairs /\ f.fallbacks = b /\ f.tokens = k
        BY <3>4 DEF ExecutingType
      <3>7. b = e.fallbacks + One(kind = "fallback") /\ e.repairs = e.repairs + One(kind = "repair")
        BY <3>1, <3>2 DEF One, ExecutingType
      <3> QED BY <2>0, <3>3, <3>5, <3>6, <3>7, <3>8
    <2>2. CASE Repair(c, outcome)
      <3>1. PICK m \in Nat : m = e.attempts + 1 BY DEF ExecutingType
      <3>2. PICK b \in Nat : b = e.repairs + 1 BY DEF ExecutingType
      <3>3. PICK f : f = [e EXCEPT !.pc = "record", !.outcome = outcome, !.kind = "repair",
                          !.attempts = m, !.repairs = b, !.tokens = k]
        OBVIOUS
      <3>6. exec' = [exec EXCEPT ![c] = f]
        BY <1>2, <2>0, <2>2, <3>1, <3>2, <3>3 DEF Repair
      <3>7. f \in ExecutingType BY <3>3 DEF ExecutingType, InProgress, Kinds
      <3>4. /\ f.pc = "record" /\ f.outcome = outcome /\ f.kind = "repair" /\ f.attempts = m
            /\ f.repairs = b /\ f.fallbacks = e.fallbacks /\ f.tokens = k
        BY <3>3 DEF ExecutingType
      <3>5. e.fallbacks = e.fallbacks + One(FALSE) /\ One(TRUE) = 1 BY DEF One, ExecutingType
      <3> QED BY <2>0, <3>1, <3>2, <3>4, <3>5, <3>6, <3>7 DEF One
    <2> QED BY <2>1, <2>2
  <1>6. Tally(s, f)
    <2>1. /\ Len(s) \in Nat /\ KindCount(s, "repair") \in Nat /\ KindCount(s, "fallback") \in Nat
          /\ AnswerCount(s) \in Nat
      <3>1. PICK x : x \in ExecutingType OBVIOUS
      <3>2. AttemptType # {} => KindCount(s, "repair") \in Nat /\ KindCount(s, "fallback") \in Nat
                                 /\ AnswerCount(s) \in Nat
        BY CountsAppend
      <3>3. AttemptType # {}
        <4>1. [index |-> 1, kind |-> f.kind, profile |-> f.candidates[f.at], outcome |-> f.outcome] \in AttemptType
          BY DEF AttemptType, Asked, ExecutingType
        <4> QED BY <4>1
      <3> QED BY <3>2, <3>3
    <2>2. e.pc # "record" BY <1>1, <1>2
    <2> QED BY <1>4, <1>5, <2>1, <2>2 DEF Tally, One
  <1>7. CallSound(Running, s, f) BY <1>5, <1>6 DEF CallSound, Running, Idle, InProgress
  <1>8. run' = [run EXCEPT ![c] = Running] /\ attempts' = [attempts EXCEPT ![c] = s]
    BY <1>3, <1>4 DEF Ask, Repair, Shape
  <1> QED BY <1>5, <1>7, <1>8, OneCall

\* An attempt is recorded as it was counted.
LEMMA RecordKeeps ==
    ASSUME Shape, CallsSound, NEW c \in Calls, Record(c)
    PROVE  Shape' /\ CallsSound'
  <1>1. exec[c].pc = "record" BY DEF Record
  <1>2. PICK e \in ExecutingType : e = exec[c] BY <1>1, ExecCases DEF InProgress
  <1>3. PICK s \in Seq(AttemptType) : s = attempts[c] BY DEF Shape
  <1>4. run[c] = Running /\ Tally(s, e) /\ e.pc = "record"
    BY <1>1, <1>2, <1>3 DEF CallsSound, CallSound, InProgress
  <1>5. PICK x : x = [index |-> e.attempts, kind |-> e.kind, profile |-> Profile(e), outcome |-> e.outcome]
    OBVIOUS
  <1>6. x \in AttemptType
    <2>0. PICK n \in Nat : n = Len(s) OBVIOUS
    <2>1. e.attempts \in Nat \ {0}
      <3>1. e.attempts = n + 1 BY <1>4, <2>0 DEF Tally, One
      <3> QED BY <3>1
    <2>2. Profile(e) \in Asked BY DEF Profile, Asked, ExecutingType
    <2>3. e.kind \in Kinds /\ e.outcome \in Outcomes BY DEF ExecutingType
    <2> QED BY <1>5, <2>1, <2>2, <2>3 DEF AttemptType
  <1>7. PICK t \in Seq(AttemptType) : t = Append(s, x)
    <2>1. Append(s, x) \in Seq(AttemptType) BY <1>6
    <2> QED BY <2>1, Zenon
  <1>8. PICK f : f = AfterAttempt(e) OBVIOUS
  <1>9. /\ f \in ExecutingType /\ f.pc \in {"repair", "ask", "finish"}
        /\ f.attempts = e.attempts /\ f.repairs = e.repairs /\ f.fallbacks = e.fallbacks
        /\ f.tokens = e.tokens /\ f.outcome = e.outcome
        /\ f.pc = "finish" => Profile(f) = Profile(e)
    <2>1. CASE Repairable(e)
      <3>1. f = [e EXCEPT !.pc = "repair"] BY <1>8, <2>1 DEF AfterAttempt
      <3> QED BY <3>1 DEF ExecutingType, InProgress
    <2>2. CASE ~Repairable(e) /\ MayFallBack(e)
      <3>1. PICK at \in Nat \ {0} : at = e.at + 1 BY DEF ExecutingType
      <3>2. f = [e EXCEPT !.pc = "ask", !.at = at] BY <1>8, <2>2, <3>1 DEF AfterAttempt
      <3> QED BY <3>2 DEF ExecutingType, InProgress
    <2>3. CASE ~Repairable(e) /\ ~MayFallBack(e)
      <3>1. f = [e EXCEPT !.pc = "finish"] BY <1>8, <2>3 DEF AfterAttempt
      <3>2. /\ f \in ExecutingType /\ f.candidates = e.candidates /\ f.at = e.at
            /\ f.pc = "finish" /\ f.attempts = e.attempts /\ f.repairs = e.repairs
            /\ f.fallbacks = e.fallbacks /\ f.tokens = e.tokens /\ f.outcome = e.outcome
        BY <3>1 DEF ExecutingType, InProgress
      <3> QED BY <3>2 DEF Profile
    <2> QED BY <2>1, <2>2, <2>3
  <1>10. Tally(t, f)
    <2>1. /\ Len(t) = Len(s) + 1 /\ Len(s) \in Nat /\ t[Len(t)] = x
          /\ \A i \in 1..Len(s) : t[i] = s[i]
      BY <1>6, <1>7
    <2>2. /\ KindCount(t, "repair") = KindCount(s, "repair") + One(x.kind = "repair")
          /\ KindCount(t, "fallback") = KindCount(s, "fallback") + One(x.kind = "fallback")
          /\ AnswerCount(t) = AnswerCount(s) + One(x.outcome \in Answered)
          /\ KindCount(s, "repair") \in Nat /\ KindCount(s, "fallback") \in Nat /\ AnswerCount(s) \in Nat
      BY <1>6, <1>7, CountsAppend
    <2>3. /\ x.index = e.attempts /\ x.kind = e.kind /\ x.profile = Profile(e) /\ x.outcome = e.outcome
      BY <1>5
    <2>4. \A i \in 1..Len(t) : t[i].index = i
      BY <1>4, <2>1, <2>3 DEF Tally, One
    <2>5. e.attempts = Len(t) BY <1>4, <2>1 DEF Tally, One
    <2>6. /\ e.repairs = KindCount(t, "repair") /\ e.fallbacks = KindCount(t, "fallback")
          /\ e.tokens = AnswerCount(t)
      BY <1>4, <2>2, <2>3 DEF Tally, One
    <2>7. f.pc # "record" BY <1>9
    <2>8. One(f.pc = "record") = 0 /\ One(f.pc = "record" /\ f.kind = "repair") = 0
          /\ One(f.pc = "record" /\ f.kind = "fallback") = 0
          /\ One(f.pc = "record" /\ f.outcome \in Answered) = 0
      BY <2>7 DEF One
    <2>9. /\ KindCount(t, "repair") \in Nat /\ KindCount(t, "fallback") \in Nat /\ AnswerCount(t) \in Nat
      BY <2>2 DEF One
    <2> QED BY <1>9, <2>1, <2>3, <2>4, <2>5, <2>6, <2>8, <2>9 DEF Tally
  <1>11. CallSound(Running, t, f) BY <1>9, <1>10 DEF CallSound, Running, Idle, InProgress
  <1>12. /\ run' = [run EXCEPT ![c] = Running] /\ attempts' = [attempts EXCEPT ![c] = t]
         /\ exec' = [exec EXCEPT ![c] = f]
    BY <1>2, <1>3, <1>4, <1>5, <1>7, <1>8 DEF Record, Shape
  <1> QED BY <1>9, <1>11, <1>12, OneCall

\* A call is closed with what it has counted.
LEMMA FinishKeeps ==
    ASSUME Shape, CallsSound, NEW c \in Calls, Finish(c)
    PROVE  Shape' /\ CallsSound'
  <1>1. exec[c].pc = "finish" BY DEF Finish
  <1>2. PICK e \in ExecutingType : e = exec[c] BY <1>1, ExecCases DEF InProgress
  <1>3. PICK s \in Seq(AttemptType) : s = attempts[c] BY DEF Shape
  <1>4. run[c] = Running /\ Tally(s, e) /\ e.pc = "finish"
    BY <1>1, <1>2, <1>3 DEF CallsSound, CallSound, InProgress
  <1>5. Profile(e) \in Asked BY DEF Profile, Asked, ExecutingType
  <1>6. PICK r : r = Outcome(e) OBVIOUS
  <1>7. /\ r \in ClosedType /\ r.attempts = e.attempts /\ r.repairs = e.repairs
        /\ r.fallbacks = e.fallbacks /\ r.tokens = e.tokens
        /\ r.status = "succeeded" <=> e.outcome = "valid"
        /\ r.status = "succeeded" => r.profile = Profile(e)
        /\ r.status = "failed" => r.profile = NoProfile
    BY <1>5, <1>6 DEF Outcome, ClosedType, ExecutingType
  <1>8. PICK f : f = IF e.outcome = "valid" THEN [pc |-> "returned", profile |-> Profile(e)]
                     ELSE [pc |-> "raised"]
    OBVIOUS
  <1>9. f \in EndedType /\ f.pc = IF e.outcome = "valid" THEN "returned" ELSE "raised"
    BY <1>5, <1>8 DEF EndedType
  <1>10. Summary(r, s)
    <2>1. One(e.pc = "record") = 0 /\ One(e.pc = "record" /\ e.kind = "repair") = 0
          /\ One(e.pc = "record" /\ e.kind = "fallback") = 0
          /\ One(e.pc = "record" /\ e.outcome \in Answered) = 0
      BY <1>4 DEF One
    <2>2. s[Len(s)] \in AttemptType BY <1>4 DEF Tally
    <2>3. KindCount(s, "repair") \in Nat /\ KindCount(s, "fallback") \in Nat /\ AnswerCount(s) \in Nat
      BY <2>2, CountsAppend
    <2> QED BY <1>4, <1>7, <2>1, <2>3 DEF Tally, Summary
  <1>11. CallSound(r, s, f) BY <1>7, <1>9, <1>10 DEF CallSound, Idle, InProgress
  <1>12. /\ run' = [run EXCEPT ![c] = r] /\ attempts' = [attempts EXCEPT ![c] = s]
         /\ exec' = [exec EXCEPT ![c] = f]
    BY <1>2, <1>3, <1>6, <1>8 DEF Finish, Shape
  <1> QED BY <1>7, <1>9, <1>11, <1>12, OneCall

\* A recorder's error ends the call and leaves its run open.
LEMMA RecorderFailsKeeps ==
    ASSUME Shape, CallsSound, NEW c \in Calls, RecorderFails(c)
    PROVE  Shape' /\ CallsSound'
  <1>1. exec[c].pc \in InProgress BY DEF RecorderFails, InProgress
  <1>2. PICK s \in Seq(AttemptType) : s = attempts[c] BY DEF Shape
  <1>3. run[c] = Running BY <1>1 DEF CallsSound, CallSound
  <1>4. PICK f : f = [pc |-> "raised"] OBVIOUS
  <1>5. f \in EndedType /\ f.pc = "raised" BY <1>4 DEF EndedType
  <1>6. CallSound(Running, s, f) BY <1>5 DEF CallSound, Running, Idle, InProgress
  <1>7. /\ run' = [run EXCEPT ![c] = Running] /\ attempts' = [attempts EXCEPT ![c] = s]
        /\ exec' = [exec EXCEPT ![c] = f]
    BY <1>2, <1>3, <1>4 DEF RecorderFails, AfterRecorderError, Shape
  <1> QED BY <1>5, <1>6, <1>7, OneCall

\* A crash ends the calls in progress.
LEMMA LoseCallsKeeps ==
    ASSUME Shape, CallsSound, LoseCalls
    PROVE  Shape' /\ CallsSound'
  <1>1. \A c \in Calls : exec'[c] = IF exec[c].pc \in InProgress THEN [pc |-> "lost"] ELSE exec[c]
    BY DEF LoseCalls, InProgress
  <1>2. [pc |-> "lost"] \in EndedType BY DEF EndedType
  <1>3. exec' \in [Calls -> {Idle} \cup ExecutingType \cup EndedType]
    <2>1. exec' = [c \in Calls |-> exec'[c]] BY DEF LoseCalls
    <2> QED BY <1>1, <1>2, <2>1 DEF Shape
  <1>4. Shape' BY <1>3 DEF LoseCalls, Shape
  <1>5. ASSUME NEW c \in Calls PROVE CallSound(run[c], attempts[c], exec'[c])
    <2>1. CASE exec[c].pc \in InProgress
      <3>1. run[c] = Running BY <2>1 DEF CallsSound, CallSound
      <3>2. PICK f : f = [pc |-> "lost"] OBVIOUS
      <3>3. exec'[c] = f /\ f.pc = "lost" /\ f # Idle BY <1>1, <2>1, <3>2 DEF Idle
      <3> QED BY <3>1, <3>3 DEF CallSound, Running, InProgress
    <2>2. CASE exec[c].pc \notin InProgress BY <1>1, <2>2 DEF CallsSound
    <2> QED BY <2>1, <2>2
  <1> QED BY <1>4, <1>5 DEF CallsSound, LoseCalls

\* The steps of a call.
LEMMA CallKeeps ==
    ASSUME Shape, CallsSound, NEW c \in Calls,
           (\E options \in Options : Start(c, options)) \/ Execute(c)
    PROVE  Shape' /\ CallsSound'
  BY StartKeeps, AttemptKeeps, RecordKeeps, FinishKeeps, RecorderFailsKeeps DEF Execute

-----------------------------------------------------------------------------
(* Requests *)

RequestType ==
    [pc : {"unasked", "asked", "read", "calling", "answered", "reread", "checked", "over"},
     editor : Editors, mode : Modes]

SceneType ==
    /\ version \in 0..MaxVersion
    /\ draft \in {"pending_review", "decided"}
    /\ request \in [Calls -> RequestType]
    /\ suggestion \in [Calls -> {Unstored} \cup Stored]
    /\ moved \in [Calls -> BOOLEAN]

\* The target of the editor has gone: it shows an older version or a draft that
\* is decided.
Outdated(editor, v, d) ==
    /\ editor # NoEditor
    /\ editor.version < v \/ (editor.source = "proposal_draft" /\ d = "decided")

\* A request, its suggestion and its call: what has moved is outdated and can
\* pass neither of the checks that follow; a model's answer has been returned.
Sound(q, s, m, pc, v, d) ==
    /\ q.editor # NoEditor => q.editor.version <= v
    /\ q.pc \in {"unasked", "asked", "read", "checked"} => ~m
    /\ m => Outdated(q.editor, v, d) /\ s = Unstored
    /\ m /\ q.pc = "reread" => q.editor.source = "proposal_draft" /\ d = "decided"
    /\ q.pc # "over" => s = Unstored
    /\ q.mode = "provider" /\ q.pc \in {"answered", "reread", "checked"} => pc = "returned"
    /\ s # Unstored /\ s.mode = "provider" => pc = "returned"

RequestSound(c) == Sound(request[c], suggestion[c], moved[c], exec[c].pc, version, draft)

\* The inductive invariant.
IInv ==
    /\ Shape /\ CallsSound
    /\ SceneType
    /\ \A c \in Calls : RequestSound(c) /\ (suggestion[c] # Unstored => suggestion[c].run = c)

\* A step of one request.
LEMMA OneRequest ==
    ASSUME IInv, NEW c \in Calls, NEW q \in RequestType,
           request' = [request EXCEPT ![c] = q],
           UNCHANGED <<run, attempts, exec, suggestion>>, UNCHANGED sceneVars,
           Sound(q, suggestion[c], moved[c], exec[c].pc, version, draft)
    PROVE  IInv'
  <1>1. UNCHANGED <<run, attempts, exec, suggestion, version, draft, moved>> BY DEF sceneVars
  <1>2. SceneType' BY <1>1 DEF IInv, SceneType
  <1>3. Shape' /\ CallsSound' BY <1>1 DEF IInv, Shape, CallsSound
  <1>4. ASSUME NEW d \in Calls
        PROVE  Sound(request'[d], suggestion[d], moved[d], exec[d].pc, version, draft)
    <2>1. request'[d] = IF d = c THEN q ELSE request[d] BY DEF IInv, SceneType
    <2> QED BY <2>1 DEF IInv, RequestSound
  <1> QED BY <1>1, <1>2, <1>3, <1>4 DEF IInv, RequestSound

\* The fields of a request.
LEMMA RequestCases ==
    ASSUME SceneType, NEW c \in Calls
    PROVE  /\ request[c] \in RequestType
           /\ request[c].editor # NoEditor => request[c].editor.version \in Nat
           /\ version \in Nat
  BY SuggestionsAssumption DEF SceneType, RequestType, Editors, NoEditor

\* The author asks: the editor shows what there is.
LEMMA AskKeeps ==
    ASSUME IInv, NEW c \in Calls, NEW source \in {"none", "accepted_manuscript", "proposal_draft"},
           NEW mode \in Modes, AskForHelp(c, source, mode)
    PROVE  IInv'
  <1>1. PICK editor : editor = IF source = "none" THEN NoEditor
                               ELSE [source |-> source, version |-> version]
    OBVIOUS
  <1>2. editor \in Editors /\ (editor # NoEditor => editor.version = version)
    BY <1>1 DEF Editors, IInv, SceneType
  <1>3. PICK q \in RequestType : q = [pc |-> "asked", mode |-> mode, editor |-> editor]
    BY <1>2 DEF RequestType
  <1>4. request[c].pc = "unasked" BY DEF AskForHelp, Unasked
  <1>5. RequestSound(c) /\ version \in Nat BY RequestCases DEF IInv
  <1>6. q.pc = "asked" /\ q.editor = editor BY <1>3
  <1>7. Sound(q, suggestion[c], moved[c], exec[c].pc, version, draft)
    BY <1>2, <1>4, <1>5, <1>6 DEF RequestSound, Sound
  <1>8. request' = [request EXCEPT ![c] = q] BY <1>1, <1>3 DEF AskForHelp
  <1> QED BY <1>7, <1>8, OneRequest DEF AskForHelp

\* A request goes on to where it is sound.
LEMMA GotoKeeps ==
    ASSUME IInv, NEW c \in Calls,
           NEW pc \in {"read", "calling", "answered", "reread", "checked", "over"}, Goto(c, pc),
           UNCHANGED <<run, attempts, exec, suggestion>>, UNCHANGED sceneVars,
           pc \in {"read", "checked"} => ~moved[c],
           moved[c] /\ pc = "reread" => request[c].editor.source = "proposal_draft" /\ draft = "decided",
           request[c].pc # "over",
           request[c].mode = "provider" /\ pc \in {"answered", "reread", "checked"} =>
                exec[c].pc = "returned"
    PROVE  IInv'
  <1>1. PICK q : q = [request[c] EXCEPT !.pc = pc] OBVIOUS
  <1>2. q \in RequestType /\ q.pc = pc /\ q.editor = request[c].editor /\ q.mode = request[c].mode
    BY <1>1, RequestCases DEF IInv, RequestType
  <1>3. request' = [request EXCEPT ![c] = q] BY <1>1 DEF Goto, IInv, SceneType
  <1>4. RequestSound(c) BY DEF IInv
  <1>5. Sound(q, suggestion[c], moved[c], exec[c].pc, version, draft)
    BY <1>2, <1>4 DEF RequestSound, Sound
  <1> QED BY <1>2, <1>3, <1>5, OneRequest

\* A request whose target has moved passes the version check only if its draft
\* is decided ...
LEMMA ReadSceneKeeps ==
    ASSUME IInv, NEW c \in Calls, ReadScene(c)
    PROVE  IInv'
  <1>1. RequestSound(c) /\ request[c].pc \in {"asked", "answered"} BY DEF IInv, ReadScene
  <1>2. moved[c] => request[c].editor.source = "proposal_draft" /\ draft = "decided"
    BY <1>1, RequestCases DEF RequestSound, Sound, Outdated, ReadScene, VersionIsExpected, IInv
  <1>3. CASE request[c].pc = "asked"
    BY <1>1, <1>3, GotoKeeps DEF ReadScene, RequestSound, Sound
  <1>4. CASE request[c].pc = "answered"
    BY <1>1, <1>2, <1>4, GotoKeeps DEF ReadScene, RequestSound, Sound
  <1> QED BY <1>1, <1>3, <1>4

\* ... and then fails the check of the draft.
LEMMA ReadDraftKeeps ==
    ASSUME IInv, NEW c \in Calls, ReadDraft(c)
    PROVE  IInv'
  <1>1. RequestSound(c) /\ request[c].pc \in {"read", "reread"} BY DEF IInv, ReadDraft
  <1>2. ~moved[c]
    BY <1>1 DEF RequestSound, Sound, ReadDraft, DraftIsPending
  <1>3. CASE request[c].pc = "read"
    BY <1>1, <1>2, <1>3, GotoKeeps DEF ReadDraft, RequestSound, Sound
  <1>4. CASE request[c].pc = "reread"
    BY <1>1, <1>2, <1>4, GotoKeeps DEF ReadDraft, RequestSound, Sound
  <1> QED BY <1>1, <1>3, <1>4

\* The other steps that only move a request.
LEMMA OtherRequestsKeep ==
    ASSUME IInv, NEW c \in Calls, Refuse(c) \/ WriteLocally(c) \/ TakeAnswer(c)
    PROVE  IInv'
  <1>1. CASE Refuse(c) BY <1>1, GotoKeeps DEF Refuse
  <1>2. CASE WriteLocally(c) BY <1>2, GotoKeeps DEF WriteLocally
  <1>3. CASE TakeAnswer(c)
    <2>1. CASE exec[c].pc = "returned" BY <1>3, <2>1, GotoKeeps DEF TakeAnswer
    <2>2. CASE exec[c].pc # "returned" BY <1>3, <2>2, GotoKeeps DEF TakeAnswer
    <2> QED BY <2>1, <2>2
  <1> QED BY <1>1, <1>2, <1>3

\* The model is called for a request that has stored nothing.
LEMMA CallModelKeeps ==
    ASSUME IInv, NEW c \in Calls, CallModel(c)
    PROVE  IInv'
  <1>1. /\ request[c].pc = "calling" /\ UNCHANGED <<request, suggestion, version, draft, moved>>
        /\ (\E options \in Options : Start(c, options)) \/ Execute(c)
    BY DEF CallModel, sceneVars
  <1>2. Shape' /\ CallsSound' BY <1>1, CallKeeps DEF IInv
  <1>3. SceneType' BY <1>1 DEF IInv, SceneType
  <1>4. \A d \in Calls \ {c} : exec'[d] = exec[d]
    BY <1>1 DEF Start, Execute, Ask, Repair, Record, Finish, RecorderFails, IInv, Shape
  <1>5. ASSUME NEW d \in Calls
        PROVE  Sound(request[d], suggestion[d], moved[d], exec'[d].pc, version, draft)
    <2>1. CASE d = c BY <1>1, <2>1 DEF IInv, RequestSound, Sound
    <2>2. CASE d # c BY <1>4, <2>2 DEF IInv, RequestSound
    <2> QED BY <2>1, <2>2
  <1> QED BY <1>1, <1>2, <1>3, <1>5 DEF IInv, RequestSound

\* A suggestion that changes, and its request with it.
LEMMA OneSuggestion ==
    ASSUME IInv, NEW c \in Calls, NEW q \in RequestType, NEW s \in Stored,
           request' = [request EXCEPT ![c] = q], suggestion' = [suggestion EXCEPT ![c] = s],
           UNCHANGED <<run, attempts, exec>>, UNCHANGED sceneVars, s.run = c,
           Sound(q, s, moved[c], exec[c].pc, version, draft)
    PROVE  IInv'
  <1>1. UNCHANGED <<run, attempts, exec, version, draft, moved>> BY DEF sceneVars
  <1>2. SceneType' BY <1>1 DEF IInv, SceneType
  <1>3. Shape' /\ CallsSound' BY <1>1 DEF IInv, Shape, CallsSound
  <1>4. ASSUME NEW d \in Calls
        PROVE  /\ Sound(request'[d], suggestion'[d], moved[d], exec[d].pc, version, draft)
               /\ suggestion'[d] # Unstored => suggestion'[d].run = d
    <2>1. /\ request'[d] = IF d = c THEN q ELSE request[d]
          /\ suggestion'[d] = IF d = c THEN s ELSE suggestion[d]
      BY DEF IInv, SceneType
    <2> QED BY <2>1 DEF IInv, RequestSound
  <1> QED BY <1>1, <1>2, <1>3, <1>4 DEF IInv, RequestSound

\* An answer is stored for a request that passed both checks.
LEMMA StoreKeeps ==
    ASSUME IInv, NEW c \in Calls, StoreSuggestion(c)
    PROVE  IInv'
  <1>1. RequestSound(c) /\ request[c].pc = "checked" BY DEF IInv, StoreSuggestion
  <1>2. PICK q : q = [request[c] EXCEPT !.pc = "over"] OBVIOUS
  <1>3. q \in RequestType /\ q.pc = "over" /\ q.editor = request[c].editor /\ q.mode = request[c].mode
    BY <1>2, RequestCases DEF IInv, RequestType
  <1>4. PICK s : s = [status |-> "pending_review", run |-> c, mode |-> request[c].mode] OBVIOUS
  <1>5. s \in Stored /\ s.run = c /\ s.mode = request[c].mode
    BY <1>4, RequestCases DEF IInv, RequestType, Stored
  <1>6. request' = [request EXCEPT ![c] = q] BY <1>2 DEF StoreSuggestion, Goto, IInv, SceneType
  <1>7. suggestion' = [suggestion EXCEPT ![c] = s] BY <1>4 DEF StoreSuggestion
  <1>8. Sound(q, s, moved[c], exec[c].pc, version, draft)
    BY <1>1, <1>3, <1>5 DEF RequestSound, Sound
  <1> QED BY <1>3, <1>5, <1>6, <1>7, <1>8, OneSuggestion DEF StoreSuggestion

\* A decision keeps what the suggestion says of its run.
LEMMA DecideKeeps ==
    ASSUME IInv, NEW c \in Calls, NEW status \in {"accepted", "rejected", "superseded"},
           DecideSuggestion(c, status)
    PROVE  IInv'
  <1>1. PICK old : old = suggestion[c] OBVIOUS
  <1>2. old \in Stored /\ old # Unstored /\ old.run = c
    BY <1>1 DEF DecideSuggestion, IInv, SceneType, Unstored
  <1>3. PICK s : s = [old EXCEPT !.status = status] OBVIOUS
  <1>4. s \in Stored /\ s.run = c /\ s.mode = old.mode BY <1>2, <1>3 DEF Stored
  <1>5. request[c] \in RequestType /\ RequestSound(c) BY RequestCases DEF IInv
  <1>6. Sound(request[c], s, moved[c], exec[c].pc, version, draft)
    BY <1>1, <1>2, <1>4, <1>5 DEF RequestSound, Sound
  <1>7. request' = [request EXCEPT ![c] = request[c]] BY DEF DecideSuggestion, IInv, SceneType
  <1>8. suggestion' = [suggestion EXCEPT ![c] = s] BY <1>1, <1>3 DEF DecideSuggestion, IInv, SceneType
  <1> QED BY <1>4, <1>5, <1>6, <1>7, <1>8, OneSuggestion DEF DecideSuggestion

\* The manuscript moves on: versions grow, and a decided draft stays decided.
LEMMA SceneMovesKeep ==
    ASSUME IInv, AcceptDraft \/ RejectDraft \/ EditScene
    PROVE  IInv'
  <1>1. UNCHANGED <<run, attempts, exec, request, suggestion>>
    BY DEF AcceptDraft, RejectDraft, EditScene
  <1>2. PICK decides \in BOOLEAN, commits \in BOOLEAN :
            /\ Moving(decides, commits)
            /\ draft' = IF decides THEN "decided" ELSE draft
            /\ version' = IF commits THEN version + 1 ELSE version
            /\ version' \in 0..MaxVersion
    <2>1. CASE AcceptDraft
      <3>1. Moving(TRUE, TRUE) /\ draft' = "decided" /\ version' = version + 1 /\ version < MaxVersion
        BY <2>1 DEF AcceptDraft
      <3>2. version' \in 0..MaxVersion BY <3>1, SuggestionsAssumption DEF IInv, SceneType
      <3> QED BY <3>1, <3>2
    <2>2. CASE RejectDraft
      <3>1. /\ Moving(TRUE, FALSE) /\ draft' = "decided" /\ version' = version
            /\ version' \in 0..MaxVersion
        BY <2>2 DEF RejectDraft, IInv, SceneType
      <3> QED BY <3>1
    <2>3. CASE EditScene
      <3>1. Moving(FALSE, TRUE) /\ draft' = draft /\ version' = version + 1
        BY <2>3 DEF EditScene
      <3>2. version \in 1..(MaxVersion - 1) BY <2>3 DEF EditScene
      <3>3. version' \in 0..MaxVersion BY <3>1, <3>2, SuggestionsAssumption
      <3> QED BY <3>1, <3>3
    <2> QED BY <2>1, <2>2, <2>3
  <1>3. \A c \in Calls :
            moved'[c] <=> (moved[c] \/ (/\ request[c].pc = "calling" /\ request[c].editor # NoEditor
                                        /\ commits \/ (decides /\ request[c].editor.source = "proposal_draft")))
    BY <1>2 DEF Moving
  <1>4. moved' \in [Calls -> BOOLEAN] BY <1>2 DEF Moving, IInv, SceneType
  <1>5. SceneType' BY <1>1, <1>2, <1>4 DEF IInv, SceneType
  <1>6. Shape' /\ CallsSound' BY <1>1 DEF IInv, Shape, CallsSound
  <1>7. ASSUME NEW c \in Calls
        PROVE  Sound(request[c], suggestion[c], moved'[c], exec[c].pc, version', draft')
    <2>1. RequestSound(c) /\ version \in Nat /\ (request[c].editor # NoEditor => request[c].editor.version \in Nat)
      BY RequestCases DEF IInv
    <2>2. version' \in Nat /\ version <= version' /\ (commits => version < version')
      BY <1>2, <2>1
    <2>3. CASE moved[c]
      BY <1>2, <1>3, <2>1, <2>2, <2>3 DEF RequestSound, Sound, Outdated
    <2>4. CASE ~moved[c] /\ ~moved'[c]
      BY <1>2, <2>1, <2>2, <2>4 DEF RequestSound, Sound
    <2>5. CASE ~moved[c] /\ moved'[c]
      <3>1. /\ request[c].pc = "calling" /\ request[c].editor # NoEditor
            /\ commits \/ (decides /\ request[c].editor.source = "proposal_draft")
        BY <1>3, <2>5
      <3>2. Outdated(request[c].editor, version', draft')
        BY <1>2, <2>1, <2>2, <3>1 DEF Outdated, RequestSound, Sound
      <3> QED BY <2>1, <2>2, <3>1, <3>2 DEF RequestSound, Sound
    <2> QED BY <2>3, <2>4, <2>5
  <1> QED BY <1>1, <1>5, <1>6, <1>7 DEF IInv, RequestSound

\* A crash ends the requests and loses the calls; a returned answer that was
\* stored stays.
LEMMA CrashKeeps ==
    ASSUME IInv, Crash
    PROVE  IInv'
  <1>1. /\ LoseCalls /\ UNCHANGED <<suggestion, version, draft, moved>>
        /\ request' = [c \in Calls |->
              IF request[c].pc = "unasked" THEN request[c] ELSE [request[c] EXCEPT !.pc = "over"]]
    BY DEF Crash, sceneVars
  <1>2. Shape' /\ CallsSound' BY <1>1, LoseCallsKeeps DEF IInv
  <1>3. \A c \in Calls :
            /\ request'[c] \in RequestType /\ request'[c].editor = request[c].editor
            /\ request'[c].mode = request[c].mode
            /\ request'[c].pc = IF request[c].pc = "unasked" THEN "unasked" ELSE "over"
    BY <1>1, RequestCases DEF IInv, RequestType
  <1>4. SceneType'
    <2>1. request' \in [Calls -> RequestType] BY <1>1, <1>3
    <2> QED BY <1>1, <2>1 DEF IInv, SceneType
  <1>5. \A c \in Calls : exec[c].pc = "returned" => exec'[c].pc = "returned"
    BY <1>1 DEF LoseCalls
  <1>6. ASSUME NEW c \in Calls
        PROVE  Sound(request'[c], suggestion[c], moved[c], exec'[c].pc, version, draft)
    BY <1>3, <1>5 DEF IInv, RequestSound, Sound
  <1> QED BY <1>1, <1>2, <1>4, <1>6 DEF IInv, RequestSound

-----------------------------------------------------------------------------
(* The invariant holds in every state *)

\* Nothing asked, nothing stored, no run.
LEMMA InitGood == Init => IInv
  <1> SUFFICES ASSUME Init PROVE IInv OBVIOUS
  <1>1. Shape
    <2>1. attempts \in [Calls -> Seq(AttemptType)] BY DEF Init, RuntimeInit
    <2> QED BY <2>1 DEF Init, RuntimeInit, Shape
  <1>2. CallsSound
    <2> SUFFICES ASSUME NEW c \in Calls PROVE CallSound(run[c], attempts[c], exec[c])
      BY DEF CallsSound
    <2>1. run[c] = NoRun /\ attempts[c] = <<>> /\ exec[c] = Idle BY DEF Init, RuntimeInit
    <2>2. NoRun.status = "none" /\ Idle.pc = "idle" BY DEF NoRun, Idle
    <2>3. exec[c].pc \notin InProgress /\ exec[c].pc # "returned"
      BY <2>1, <2>2 DEF InProgress
    <2>4. run[c].status \notin {"succeeded", "failed"} BY <2>1, <2>2
    <2> QED BY <2>1, <2>3, <2>4, Zenon DEF CallSound
  <1>3. SceneType
    <2>1. Unasked \in RequestType BY DEF Unasked, RequestType, Editors, Modes
    <2>2. version \in 0..MaxVersion BY SuggestionsAssumption DEF Init
    <2> QED BY <2>1, <2>2 DEF Init, SceneType
  <1>4. ASSUME NEW c \in Calls
        PROVE  RequestSound(c) /\ (suggestion[c] # Unstored => suggestion[c].run = c)
    <2>1. request[c] = Unasked /\ suggestion[c] = Unstored /\ ~moved[c] BY DEF Init
    <2> QED BY <2>1 DEF RequestSound, Sound, Unasked
  <1> QED BY <1>1, <1>2, <1>3, <1>4 DEF IInv

\* Every step keeps it.
LEMMA NextGood == IInv /\ [Next]_vars => IInv'
  <1> SUFFICES ASSUME IInv, [Next]_vars PROVE IInv' OBVIOUS
  <1>1. CASE UNCHANGED vars
    <2>1. UNCHANGED <<run, attempts, exec, version, draft, request, suggestion, moved>>
      BY <1>1 DEF vars
    <2>2. Shape' /\ CallsSound' /\ SceneType' BY <2>1 DEF IInv, Shape, CallsSound, SceneType
    <2>3. \A c \in Calls : RequestSound(c)' BY <2>1 DEF IInv, RequestSound
    <2> QED BY <2>1, <2>2, <2>3 DEF IInv
  <1>2. CASE Next
    BY <1>2, AskKeeps, ReadSceneKeeps, ReadDraftKeeps, OtherRequestsKeep, CallModelKeeps, StoreKeeps,
       DecideKeeps, SceneMovesKeep, CrashKeeps DEF Next
  <1> QED BY <1>1, <1>2

\* The invariant of requests and calls.
LEMMA Invariance == Spec => []IInv
  BY InitGood, NextGood, PTL DEF Spec

\* A closed run says what its attempts say, for any catalog, any options and any
\* number of calls.
THEOREM RunsTellTheTruth == Spec => []RecordsAreTrue
  <1>1. IInv => RecordsAreTrue
    <2> SUFFICES ASSUME IInv, NEW c \in Calls, run[c] \in Closed
                 PROVE  Summary(run[c], attempts[c])
      BY DEF RecordsAreTrue, Summary, KindCount, AnswerCount, CountOf, Answered
    <2>1. run[c].status \in {"succeeded", "failed"} BY DEF Closed
    <2> QED BY <2>1 DEF IInv, CallsSound, CallSound
  <1> QED BY <1>1, Invariance, PTL

\* Every stored answer of a model belongs to a run closed as succeeded.
THEOREM AnswersAreAccountedFor == Spec => []StoredAnswersAreAccountedFor
  <1>1. IInv => StoredAnswersAreAccountedFor
    BY DEF IInv, StoredAnswersAreAccountedFor, RequestSound, Sound, CallsSound, CallSound
  <1> QED BY <1>1, Invariance, PTL

\* An answer to a question that is outdated when it arrives is not stored.
THEOREM OutdatedAnswersAreDropped == Spec => []StaleAnswersAreDropped
  <1>1. IInv => StaleAnswersAreDropped
    BY DEF IInv, StaleAnswersAreDropped, RequestSound, Sound
  <1> QED BY <1>1, Invariance, PTL

-----------------------------------------------------------------------------
(* Candidates *)

Below == {pair \in Nat \X Nat : pair[1] < pair[2]}

\* Some place has exactly so many places up to it: the least one that has as many.
LEMMA PlaceExists ==
    ASSUME NEW P, P \subseteq Nat \ {0}, IsFiniteSet(P), NEW top \in Nat, \A i \in P : i <= top,
           NEW n \in 1..Cardinality(P)
    PROVE  \E i \in P : Cardinality({j \in P : j <= i}) = n
  <1> DEFINE UpTo(i) == {j \in P : j <= i}
             B == {i \in Nat : Cardinality(UpTo(i)) >= n}
  <1>0. Cardinality(P) \in Nat /\ n \in Nat \ {0} BY FS_CardinalityType
  <1>1. ASSUME NEW i \in Nat PROVE IsFiniteSet(UpTo(i)) /\ Cardinality(UpTo(i)) \in Nat
    <2>1. UpTo(i) \in SUBSET P OBVIOUS
    <2> HIDE DEF UpTo
    <2> QED BY <2>1, FS_Subset, FS_CardinalityType
  <1>2. UpTo(top) = P OBVIOUS
  <1>3. top \in B BY <1>0, <1>2
  <1>4. IsWellFoundedOn(Below, Nat) BY NatLessThanWellFounded DEF OpToRel, Below
  <1>5. B # {} /\ B \subseteq Nat BY <1>3
  <1> HIDE DEF B
  <1>6. PICK i \in B : \A y \in B : ~ (<<y, i>> \in Below) BY <1>4, <1>5, WFMin
  <1>7. i \in Nat /\ Cardinality(UpTo(i)) >= n BY <1>6 DEF B
  <1>8. i # 0
    <2>0. \A j \in P : ~(j <= 0) OBVIOUS
    <2>1. UpTo(0) = {} BY <2>0
    <2> QED BY <1>0, <1>7, <2>1, FS_EmptySet
  <1>9. i - 1 \in Nat BY <1>7, <1>8
  <1>10. i - 1 \notin B
    <2>1. <<i - 1, i>> \in Below BY <1>7, <1>9 DEF Below
    <2> QED BY <1>6, <2>1
  <1>11. Cardinality(UpTo(i - 1)) \in Nat /\ Cardinality(UpTo(i - 1)) < n
    <2>1. Cardinality(UpTo(i - 1)) \in Nat /\ ~(Cardinality(UpTo(i - 1)) >= n)
      BY <1>1, <1>9, <1>10 DEF B
    <2> QED BY <1>0, <2>1
  <1>12. i \in P
    <2> SUFFICES ASSUME i \notin P PROVE FALSE OBVIOUS
    <2>1. \A j \in P : j \in Nat /\ (j <= i - 1 <=> j <= i) BY <1>7
    <2>2. UpTo(i - 1) = UpTo(i) BY <2>1
    <2> HIDE DEF UpTo
    <2> QED BY <1>0, <1>7, <1>11, <2>2
  <1>13. UpTo(i) = UpTo(i - 1) \cup {i} /\ i \notin UpTo(i - 1)
    <2>1. \A j \in P : j <= i <=> (j <= i - 1 \/ j = i) BY <1>7
    <2>2. UpTo(i) = {j \in P : j <= i - 1 \/ j = i} BY <2>1
    <2>3. ~(i <= i - 1) BY <1>7
    <2> QED BY <1>12, <2>2, <2>3
  <1>14. IsFiniteSet(UpTo(i - 1)) BY <1>1, <1>9
  <1> HIDE DEF UpTo
  <1>15. Cardinality(UpTo(i)) = Cardinality(UpTo(i - 1)) + 1 BY <1>13, <1>14, FS_AddElement
  <1>16. Cardinality(UpTo(i)) = n BY <1>0, <1>7, <1>11, <1>15
  <1> QED BY <1>12, <1>16 DEF UpTo

NoRepeats(cs) == \A i, j \in 1..Len(cs) : i # j => cs[i] # cs[j]

\* The list without repetitions has profiles of the list, each once.
LEMMA DeduplicatedOnce ==
    ASSUME NEW ids \in Seq(Profiles), Len(ids) > 0
    PROVE  /\ Deduplicated(ids) \in Seq(Profiles)
           /\ Len(Deduplicated(ids)) > 0
           /\ NoRepeats(Deduplicated(ids))
  <1> DEFINE P == FirstPlaces(ids)
             At(n) == CHOOSE i \in P : Cardinality({j \in P : j <= i}) = n
             d == Deduplicated(ids)
  <1>1. PICK len \in Nat \ {0} : len = Len(ids) OBVIOUS
  <1>2. DOMAIN ids = 1..len /\ \A i \in 1..len : ids[i] \in Profiles BY <1>1
  <1>3. P \subseteq 1..len /\ 1 \in P /\ \A i, k \in P : i < k => ids[i] # ids[k]
    <2>1. P \subseteq 1..len BY <1>2 DEF FirstPlaces
    <2>2. 1 \in P BY <1>2 DEF FirstPlaces
    <2>3. \A i, k \in P : i < k => ids[i] # ids[k] BY <1>2 DEF FirstPlaces
    <2> QED BY <2>1, <2>2, <2>3
  <1>4. d = [n \in 1..Cardinality(P) |-> ids[At(n)]] BY DEF Deduplicated
  <1> HIDE DEF P, d
  <1>5. IsFiniteSet(P) /\ Cardinality(P) \in Nat
    <2>1. IsFiniteSet(1..len) BY FS_Interval
    <2> QED BY <1>3, <2>1, FS_Subset, FS_CardinalityType
  <1>6. Cardinality(P) > 0 BY <1>3, <1>5, FS_EmptySet
  <1>7. ASSUME NEW n \in 1..Cardinality(P)
        PROVE  At(n) \in P /\ Cardinality({j \in P : j <= At(n)}) = n
    <2>1. \E i \in P : Cardinality({j \in P : j <= i}) = n
      <3>1. P \subseteq Nat \ {0} /\ \A i \in P : i <= len BY <1>1, <1>3
      <3> QED BY <1>1, <1>5, <3>1, PlaceExists
    <2> QED BY <2>1
  <1> HIDE DEF At
  <1>8. \A n \in 1..Cardinality(P) : d[n] = ids[At(n)] /\ d[n] \in Profiles BY <1>2, <1>3, <1>4, <1>7
  <1>9. d \in Seq(Profiles) /\ Len(d) = Cardinality(P) BY <1>4, <1>5, <1>8
  <1>10. ASSUME NEW n \in 1..Cardinality(P), NEW m \in 1..Cardinality(P), n # m PROVE d[n] # d[m]
    <2>1. At(n) # At(m) BY <1>7, <1>10
    <2>2. At(n) \in Nat /\ At(m) \in Nat
      <3>1. At(n) \in 1..len /\ At(m) \in 1..len BY <1>3, <1>7
      <3> QED BY <1>1, <3>1
    <2>3. At(n) < At(m) \/ At(m) < At(n) BY <2>1, <2>2
    <2> QED BY <1>3, <1>7, <1>8, <2>3
  <1> QED BY <1>6, <1>9, <1>10 DEF NoRepeats, d

\* A request is offered at least one profile, and none twice.
LEMMA CandidatesOnce ==
    ASSUME NEW options \in Options
    PROVE  /\ Candidates(options) \in Seq(Profiles)
           /\ Len(Candidates(options)) > 0
           /\ NoRepeats(Candidates(options))
  <1> DEFINE ids == IF options.profile = NoProfile THEN Catalog
                    ELSE <<options.profile>> \o Fallbacks[options.profile]
  <1>1. options.profile \in Profiles \cup {NoProfile} BY DEF Options
  <1>2. ids \in Seq(Profiles) /\ Len(ids) > 0
    <2>1. CASE options.profile = NoProfile BY <2>1, ModelRuntimeAssumption
    <2>2. CASE options.profile # NoProfile
      <3>1. PICK rest \in Seq(Profiles) : rest = Fallbacks[options.profile]
        BY <1>1, <2>2, ModelRuntimeAssumption
      <3> QED BY <1>1, <2>2, <3>1
    <2> QED BY <2>1, <2>2
  <1>3. Candidates(options) = IF options.fallback THEN Deduplicated(ids) ELSE <<ids[1]>>
    BY DEF Candidates
  <1> HIDE DEF ids
  <1>4. CASE options.fallback BY <1>2, <1>3, <1>4, DeduplicatedOnce
  <1>5. CASE ~options.fallback
    <2>1. ids[1] \in Profiles BY <1>2
    <2> QED BY <1>3, <1>5, <2>1 DEF NoRepeats
  <1> QED BY <1>4, <1>5

-----------------------------------------------------------------------------
(* The order of attempts *)

\* What may be recorded after the attempts s.
MayFollow(s, kind, profile) ==
    Len(s) > 0 =>
        /\ s[Len(s)].outcome \notin {"valid", "authentication"}
        /\ kind = "repair" =>
            s[Len(s)].kind # "repair" /\ s[Len(s)].outcome = "invalid_response" /\ s[Len(s)].profile = profile
        /\ kind # "repair" => kind = "fallback" /\ \A j \in 1..Len(s) : s[j].profile # profile

InOrder(s) ==
    \A i \in 2..Len(s) :
        /\ s[i - 1].outcome \notin {"valid", "authentication"}
        /\ s[i].kind = "repair" =>
            s[i - 1].kind # "repair" /\ s[i - 1].outcome = "invalid_response" /\ s[i - 1].profile = s[i].profile
        /\ s[i].kind # "repair" =>
            s[i].kind = "fallback" /\ \A j \in 1..(i - 1) : s[j].profile # s[i].profile

\* The kind of the attempt a call makes next, or has made and not recorded.
NextKind(e) ==
    IF e.pc = "ask" THEN IF e.at = 1 THEN "primary" ELSE "fallback"
    ELSE IF e.pc = "repair" THEN "repair"
    ELSE e.kind

\* How many of its candidates a call has recorded an attempt of, at most.
Reached(e) == IF e.pc = "ask" THEN e.at - 1 ELSE e.at

\* A call walks once through its candidates, and what comes next may follow.
Walk(s, e) ==
    /\ e.candidates \in Seq(Profiles) /\ NoRepeats(e.candidates)
    /\ e.at \in 1..Len(e.candidates)
    /\ \A j \in 1..Len(s) : \E k \in 1..Reached(e) : s[j].profile = e.candidates[k]
    /\ e.pc # "finish" => MayFollow(s, NextKind(e), Profile(e))

CallOrdered(s, e) ==
    /\ InOrder(s)
    /\ \A j \in 1..Len(s) : s[j].profile \in Profiles
    /\ e.pc \in InProgress => Walk(s, e)
    /\ e.pc = "returned" => e.profile \in Profiles

CallsOrdered == \A c \in Calls : CallOrdered(attempts[c], exec[c])

\* One more attempt that may follow leaves them in order.
LEMMA AppendInOrder ==
    ASSUME NEW s \in Seq(AttemptType), NEW x \in AttemptType, InOrder(s), MayFollow(s, x.kind, x.profile)
    PROVE  InOrder(Append(s, x))
  <1>1. PICK n \in Nat : n = Len(s) OBVIOUS
  <1>2. PICK t : t = Append(s, x) OBVIOUS
  <1>3. Len(t) = n + 1 /\ (\A i \in 1..n : t[i] = s[i]) /\ t[n + 1] = x BY <1>1, <1>2
  <1>4. ASSUME NEW i \in 2..n
        PROVE  /\ t[i - 1].outcome \notin {"valid", "authentication"}
               /\ t[i].kind = "repair" =>
                    t[i - 1].kind # "repair" /\ t[i - 1].outcome = "invalid_response" /\ t[i - 1].profile = t[i].profile
               /\ t[i].kind # "repair" =>
                    t[i].kind = "fallback" /\ \A j \in 1..(i - 1) : t[j].profile # t[i].profile
    <2>1. t[i] = s[i] /\ t[i - 1] = s[i - 1] /\ \A j \in 1..(i - 1) : t[j] = s[j] BY <1>1, <1>3
    <2> QED BY <1>1, <2>1 DEF InOrder
  <1>5. ASSUME n + 1 >= 2
        PROVE  /\ t[n].outcome \notin {"valid", "authentication"}
               /\ t[n + 1].kind = "repair" =>
                    t[n].kind # "repair" /\ t[n].outcome = "invalid_response" /\ t[n].profile = t[n + 1].profile
               /\ t[n + 1].kind # "repair" =>
                    t[n + 1].kind = "fallback" /\ \A j \in 1..n : t[j].profile # t[n + 1].profile
    BY <1>1, <1>3, <1>5 DEF MayFollow
  <1>6. \A i \in 2..(n + 1) : i \in 2..n \/ (i = n + 1 /\ n + 1 >= 2 /\ i - 1 = n) BY <1>1
  <1> QED BY <1>1, <1>2, <1>3, <1>4, <1>5, <1>6 DEF InOrder

\* A step of one call that leaves it ordered leaves all ordered.
LEMMA OneCallOrdered ==
    ASSUME Shape, CallsOrdered, NEW c \in Calls, NEW s, NEW e,
           attempts' = [attempts EXCEPT ![c] = s], exec' = [exec EXCEPT ![c] = e], CallOrdered(s, e)
    PROVE  CallsOrdered'
  <1> SUFFICES ASSUME NEW d \in Calls PROVE CallOrdered(attempts'[d], exec'[d]) BY DEF CallsOrdered
  <1>1. CASE d = c
    <2>1. attempts'[d] = s /\ exec'[d] = e BY <1>1 DEF Shape
    <2> QED BY <2>1
  <1>2. CASE d # c
    <2>1. attempts'[d] = attempts[d] /\ exec'[d] = exec[d] BY <1>2 DEF Shape
    <2> QED BY <2>1 DEF CallsOrdered
  <1> QED BY <1>1, <1>2

\* A call begins at its first candidate.
LEMMA StartOrdered ==
    ASSUME Shape, CallsSound, CallsOrdered, NEW c \in Calls, NEW options \in Options, Start(c, options)
    PROVE  CallsOrdered'
  <1>1. PICK cs : cs = Candidates(options) OBVIOUS
  <1>2. cs \in Seq(Profiles) /\ Len(cs) > 0 /\ NoRepeats(cs) BY <1>1, CandidatesOnce
  <1>3. PICK e : e = [pc |-> "ask", options |-> options, candidates |-> cs, at |-> 1,
                      kind |-> "primary", outcome |-> "configuration",
                      attempts |-> 0, repairs |-> 0, fallbacks |-> 0, tokens |-> 0]
    OBVIOUS
  <1>4. attempts[c] = <<>> BY DEF CallsSound, CallSound, Start
  <1>5. e.pc = "ask" /\ e.candidates = cs /\ e.at = 1 BY <1>3
  <1>6. PICK s : s = <<>> OBVIOUS
  <1>7. Len(s) = 0 BY <1>6
  <1>8. CallOrdered(s, e)
    <2>1. 1 \in 1..Len(cs) BY <1>2
    <2> QED BY <1>2, <1>5, <1>7, <2>1 DEF CallOrdered, InOrder, Walk, MayFollow
  <1>9. attempts' = [attempts EXCEPT ![c] = s] /\ exec' = [exec EXCEPT ![c] = e]
    BY <1>1, <1>3, <1>4, <1>6 DEF Start, Shape
  <1> QED BY <1>8, <1>9, OneCallOrdered

\* What is asked may follow.
LEMMA AttemptOrdered ==
    ASSUME Shape, CallsOrdered, NEW c \in Calls, NEW outcome \in Outcomes,
           Ask(c, outcome) \/ Repair(c, outcome)
    PROVE  CallsOrdered'
  <1>1. exec[c].pc \in {"ask", "repair"} BY DEF Ask, Repair
  <1>2. PICK e \in ExecutingType : e = exec[c] BY <1>1, ExecCases DEF InProgress
  <1>3. PICK s : s = attempts[c] OBVIOUS
  <1>4. InOrder(s) /\ Walk(s, e) /\ \A j \in 1..Len(s) : s[j].profile \in Profiles
    BY <1>1, <1>2, <1>3 DEF CallsOrdered, CallOrdered, InProgress
  <1>5. PICK f :
            /\ exec' = [exec EXCEPT ![c] = f]
            /\ f.pc = "record" /\ f.candidates = e.candidates /\ f.at = e.at /\ f.kind = NextKind(e)
    <2>1. CASE Ask(c, outcome)
      <3>1. PICK kind : kind = IF e.at = 1 THEN "primary" ELSE "fallback" OBVIOUS
      <3>2. PICK b : b = IF e.at = 1 THEN e.fallbacks ELSE e.fallbacks + 1 OBVIOUS
      <3>3. PICK m : m = e.attempts + 1 OBVIOUS
      <3>4. PICK k : k = Counted(e, outcome) OBVIOUS
      <3>5. PICK f : f = [e EXCEPT !.pc = "record", !.outcome = outcome, !.kind = kind,
                          !.attempts = m, !.fallbacks = b, !.tokens = k]
        OBVIOUS
      <3>6. exec' = [exec EXCEPT ![c] = f]
        BY <1>2, <2>1, <3>1, <3>2, <3>3, <3>4, <3>5 DEF Ask
      <3>7. f.pc = "record" /\ f.candidates = e.candidates /\ f.at = e.at /\ f.kind = kind
        BY <3>5 DEF ExecutingType
      <3>8. kind = NextKind(e) BY <1>2, <2>1, <3>1 DEF NextKind, Ask
      <3> QED BY <3>6, <3>7, <3>8
    <2>2. CASE Repair(c, outcome)
      <3>1. PICK m : m = e.attempts + 1 OBVIOUS
      <3>2. PICK b : b = e.repairs + 1 OBVIOUS
      <3>3. PICK k : k = Counted(e, outcome) OBVIOUS
      <3>4. PICK f : f = [e EXCEPT !.pc = "record", !.outcome = outcome, !.kind = "repair",
                          !.attempts = m, !.repairs = b, !.tokens = k]
        OBVIOUS
      <3>5. exec' = [exec EXCEPT ![c] = f] BY <1>2, <2>2, <3>1, <3>2, <3>3, <3>4 DEF Repair
      <3>6. f.pc = "record" /\ f.candidates = e.candidates /\ f.at = e.at /\ f.kind = "repair"
        BY <3>4 DEF ExecutingType
      <3>7. NextKind(e) = "repair" BY <1>2, <2>2 DEF NextKind, Repair
      <3> QED BY <3>5, <3>6, <3>7
    <2> QED BY <2>1, <2>2
  <1>6. Walk(s, f)
    <2>1. MayFollow(s, NextKind(f), Profile(f)) BY <1>1, <1>2, <1>4, <1>5 DEF Walk, NextKind, Profile
    <2>2. \A k \in 1..Reached(e) : k \in 1..Reached(f)
      BY <1>1, <1>2, <1>4, <1>5 DEF Reached, ExecutingType
    <2> QED BY <1>4, <1>5, <2>1, <2>2 DEF Walk
  <1>7. attempts' = [attempts EXCEPT ![c] = s] BY <1>3 DEF Ask, Repair, Shape
  <1> QED BY <1>4, <1>5, <1>6, <1>7, OneCallOrdered DEF CallOrdered

\* A recorded attempt is followed by what may follow it.
LEMMA RecordOrdered ==
    ASSUME Shape, CallsOrdered, NEW c \in Calls, Record(c), attempts' \in [Calls -> Seq(AttemptType)]
    PROVE  CallsOrdered'
  <1>1. exec[c].pc = "record" BY DEF Record
  <1>2. PICK e \in ExecutingType : e = exec[c] BY <1>1, ExecCases DEF InProgress
  <1>3. PICK s \in Seq(AttemptType) : s = attempts[c] BY DEF Shape
  <1>4. InOrder(s) /\ Walk(s, e) /\ e.pc = "record" /\ e.at \in Nat \ {0}
    BY <1>1, <1>2, <1>3 DEF CallsOrdered, CallOrdered, InProgress, ExecutingType
  <1>5. PICK x : x = [index |-> e.attempts, kind |-> e.kind, profile |-> Profile(e), outcome |-> e.outcome]
    OBVIOUS
  <1>6. PICK t : t = Append(s, x) OBVIOUS
  <1>7. attempts' = [attempts EXCEPT ![c] = t] BY <1>2, <1>3, <1>5, <1>6 DEF Record
  <1>8. PICK n \in Nat : n = Len(s) OBVIOUS
  <1>9. Len(t) = n + 1 /\ (\A i \in 1..n : t[i] = s[i]) /\ t[n + 1] = x BY <1>6, <1>8
  <1>10. x \in AttemptType
    <2>1. t \in Seq(AttemptType) BY <1>7 DEF Shape
    <2>2. n + 1 \in 1..Len(t) BY <1>8, <1>9
    <2> QED BY <1>9, <2>1, <2>2
  <1>11. MayFollow(s, x.kind, x.profile) BY <1>4, <1>5 DEF Walk, NextKind
  <1>12. InOrder(t) BY <1>4, <1>6, <1>10, <1>11, AppendInOrder
  <1>13. PICK f : f = AfterAttempt(e) OBVIOUS
  <1>14. exec' = [exec EXCEPT ![c] = f] BY <1>2, <1>13 DEF Record, Shape
  <1>15. PICK len \in Nat : /\ len = Len(e.candidates) /\ e.at <= len /\ e.candidates \in Seq(Profiles)
    BY <1>4 DEF Walk
  <1>16. \A j \in 1..(n + 1) : \E k \in 1..e.at : t[j].profile = e.candidates[k]
    <2>1. \A j \in 1..n : \E k \in 1..e.at : s[j].profile = e.candidates[k]
      BY <1>4, <1>8 DEF Walk, Reached
    <2>2. x.profile = e.candidates[e.at] BY <1>5 DEF Profile
    <2>3. e.at \in 1..e.at BY <1>4
    <2>4. ASSUME NEW j \in 1..n PROVE \E k \in 1..e.at : t[j].profile = e.candidates[k]
      <3>1. t[j] = s[j] BY <1>9
      <3> QED BY <2>1, <3>1
    <2>5. \E k \in 1..e.at : t[n + 1].profile = e.candidates[k] BY <1>9, <2>2, <2>3
    <2>6. \A j \in 1..(n + 1) : j \in 1..n \/ j = n + 1 BY <1>8
    <2> QED BY <2>4, <2>5, <2>6
  <1>17. f.pc \in InProgress => Walk(t, f)
    <2>1. CASE Repairable(e)
      <3>1. f = [e EXCEPT !.pc = "repair"] BY <1>13, <2>1 DEF AfterAttempt
      <3>2. f.pc = "repair" /\ f.candidates = e.candidates /\ f.at = e.at BY <3>1 DEF ExecutingType
      <3>3. /\ t[Len(t)].outcome = "invalid_response" /\ t[Len(t)].kind # "repair"
            /\ t[Len(t)].profile = Profile(f)
        BY <1>5, <1>9, <2>1, <3>2 DEF Repairable, Profile
      <3>4. MayFollow(t, NextKind(f), Profile(f)) BY <3>2, <3>3 DEF MayFollow, NextKind
      <3>5. Reached(f) = e.at BY <3>2 DEF Reached
      <3> QED BY <1>4, <1>9, <1>16, <3>2, <3>4, <3>5 DEF Walk
    <2>2. CASE ~Repairable(e) /\ MayFallBack(e)
      <3>1. PICK at \in Nat \ {0} : at = e.at + 1 BY <1>4
      <3>2. f = [e EXCEPT !.pc = "ask", !.at = at] BY <1>13, <2>2, <3>1 DEF AfterAttempt
      <3>3. f.pc = "ask" /\ f.candidates = e.candidates /\ f.at = at BY <3>2 DEF ExecutingType
      <3>4. at \in 1..len /\ at # 1 BY <1>4, <1>15, <2>2, <3>1 DEF MayFallBack
      <3>5. \A k \in 1..e.at : e.candidates[k] # e.candidates[at]
        <4>1. \A k \in 1..e.at : k \in 1..len /\ k # at BY <1>4, <1>15, <3>1
        <4> QED BY <1>4, <1>15, <3>4, <4>1 DEF Walk, NoRepeats
      <3>6. \A j \in 1..(n + 1) : t[j].profile # Profile(f) BY <1>16, <3>3, <3>5 DEF Profile
      <3>7. t[Len(t)].outcome \notin {"valid", "authentication"}
        BY <1>5, <1>9, <2>2 DEF MayFallBack, FallbackCodes
      <3>8. MayFollow(t, NextKind(f), Profile(f))
        BY <1>9, <3>3, <3>4, <3>6, <3>7 DEF MayFollow, NextKind
      <3>9. Reached(f) = e.at BY <1>4, <3>1, <3>3 DEF Reached
      <3> QED BY <1>4, <1>9, <1>15, <1>16, <3>3, <3>4, <3>8, <3>9 DEF Walk
    <2>3. CASE ~Repairable(e) /\ ~MayFallBack(e)
      <3>1. f = [e EXCEPT !.pc = "finish"] BY <1>13, <2>3 DEF AfterAttempt
      <3>2. f.pc = "finish" /\ f.candidates = e.candidates /\ f.at = e.at BY <3>1 DEF ExecutingType
      <3> QED BY <1>4, <1>9, <1>16, <3>2 DEF Walk, Reached
    <2> QED BY <2>1, <2>2, <2>3
  <1>18. f.pc \in InProgress
    BY <1>13 DEF AfterAttempt, ExecutingType, InProgress
  <1>19. \A j \in 1..Len(t) : t[j].profile \in Profiles
    <2>1. \A k \in 1..e.at : e.candidates[k] \in Profiles BY <1>4, <1>15
    <2> QED BY <1>9, <1>16, <2>1
  <1>20. CallOrdered(t, f) BY <1>12, <1>17, <1>18, <1>19 DEF CallOrdered, InProgress
  <1> QED BY <1>7, <1>14, <1>20, OneCallOrdered

\* A call that ends records nothing more.
LEMMA EndOrdered ==
    ASSUME Shape, CallsOrdered, NEW c \in Calls, Finish(c) \/ RecorderFails(c)
    PROVE  CallsOrdered'
  <1>1. exec[c].pc \in InProgress BY DEF Finish, RecorderFails, InProgress
  <1>2. PICK s : s = attempts[c] OBVIOUS
  <1>3. CallOrdered(s, exec[c]) BY <1>2 DEF CallsOrdered
  <1>4. Profile(exec[c]) \in Profiles BY <1>1, <1>3 DEF CallOrdered, Walk, Profile
  <1>5. PICK f : /\ exec' = [exec EXCEPT ![c] = f]
                 /\ f.pc \in {"returned", "raised"} /\ (f.pc = "returned" => f.profile \in Profiles)
    <2>1. CASE Finish(c)
      <3>1. PICK f : f = IF exec[c].outcome = "valid" THEN [pc |-> "returned", profile |-> Profile(exec[c])]
                         ELSE [pc |-> "raised"]
        OBVIOUS
      <3>2. f.pc \in {"returned", "raised"} /\ (f.pc = "returned" => f.profile \in Profiles) BY <1>4, <3>1
      <3>3. exec' = [exec EXCEPT ![c] = f] BY <2>1, <3>1 DEF Finish
      <3> QED BY <3>2, <3>3
    <2>2. CASE RecorderFails(c)
      <3>1. PICK f : f = [pc |-> "raised"] OBVIOUS
      <3>2. f.pc = "raised" BY <3>1
      <3>3. exec' = [exec EXCEPT ![c] = f] BY <2>2, <3>1 DEF RecorderFails, AfterRecorderError
      <3> QED BY <3>2, <3>3
    <2> QED BY <2>1, <2>2
  <1>6. attempts' = [attempts EXCEPT ![c] = s] BY <1>2 DEF Finish, RecorderFails, Shape
  <1>7. CallOrdered(s, f) BY <1>3, <1>5 DEF CallOrdered, InProgress
  <1> QED BY <1>5, <1>6, <1>7, OneCallOrdered

\* Nothing is asked yet.
LEMMA InitOrdered == Init => CallsOrdered
  <1> SUFFICES ASSUME Init, NEW c \in Calls PROVE CallOrdered(attempts[c], exec[c])
    BY DEF CallsOrdered
  <1>1. attempts[c] = <<>> /\ exec[c].pc = "idle" BY DEF Init, RuntimeInit, Idle
  <1>2. PICK s : s = <<>> OBVIOUS
  <1>3. Len(s) = 0 BY <1>2
  <1> QED BY <1>1, <1>2, <1>3 DEF CallOrdered, InOrder, InProgress

\* Every step keeps the order.
LEMMA NextOrdered == IInv /\ CallsOrdered /\ [Next]_vars => CallsOrdered'
  <1> SUFFICES ASSUME IInv, CallsOrdered, [Next]_vars PROVE CallsOrdered' OBVIOUS
  <1>1. Shape /\ CallsSound BY DEF IInv
  <1>2. \/ UNCHANGED <<attempts, exec>>
        \/ LoseCalls
        \/ \E c \in Calls : (\E options \in Options : Start(c, options)) \/ Execute(c)
    BY DEF Next, vars, sceneVars, Crash, AskForHelp, ReadScene, ReadDraft, Refuse, WriteLocally, CallModel,
       TakeAnswer, StoreSuggestion, DecideSuggestion, AcceptDraft, RejectDraft, EditScene, Goto
  <1>3. CASE UNCHANGED <<attempts, exec>> BY <1>3 DEF CallsOrdered
  <1>4. CASE LoseCalls
    <2> SUFFICES ASSUME NEW c \in Calls PROVE CallOrdered(attempts'[c], exec'[c]) BY DEF CallsOrdered
    <2>1. attempts'[c] = attempts[c] /\ (exec'[c].pc = "lost" \/ exec'[c] = exec[c]) BY <1>4 DEF LoseCalls
    <2> QED BY <2>1 DEF CallsOrdered, CallOrdered, InProgress
  <1>5. ASSUME NEW c \in Calls, (\E options \in Options : Start(c, options)) \/ Execute(c)
        PROVE  CallsOrdered'
    <2>1. Shape' BY <1>1, <1>5, CallKeeps
    <2>2. attempts' \in [Calls -> Seq(AttemptType)] BY <2>1 DEF Shape
    <2> QED BY <1>1, <1>5, <2>2, StartOrdered, AttemptOrdered, RecordOrdered, EndOrdered DEF Execute
  <1> QED BY <1>2, <1>3, <1>4, <1>5

\* ModelRuntime.execute asks a model once more only for a repair, another model
\* only after a failure that allows it, and none twice, for any catalog, any
\* fallback lists and any number of calls.
THEOREM AttemptsFollowPolicy == Spec => []AttemptsFollowThePolicy
  <1>1. IInv /\ CallsOrdered => AttemptsFollowThePolicy
    BY DEF CallsOrdered, CallOrdered, InOrder, AttemptsFollowThePolicy
  <1>2. Init => IInv /\ CallsOrdered BY InitGood, InitOrdered
  <1>3. IInv /\ CallsOrdered /\ [Next]_vars => (IInv /\ CallsOrdered)' BY NextGood, NextOrdered
  <1> QED BY <1>1, <1>2, <1>3, PTL DEF Spec

\* Runs, attempts, calls, requests and suggestions have their types: every
\* profile named in a record is one of the catalog's.
THEOREM SuggestionsTypeCorrect == Spec => []TypeOK
  <1>1. IInv /\ CallsOrdered => TypeOK
    <2> SUFFICES ASSUME IInv, CallsOrdered PROVE TypeOK OBVIOUS
    <2> DEFINE Row == [index : Nat \ {0}, kind : Kinds, profile : Profiles, outcome : Outcomes]
    <2>1. ASSUME NEW c \in Calls PROVE attempts[c] \in Seq(Row)
      <3>1. PICK s \in Seq(AttemptType) : s = attempts[c] BY DEF IInv, Shape
      <3>2. \A j \in 1..Len(s) : s[j].profile \in Profiles BY <3>1 DEF CallsOrdered, CallOrdered
      <3>3. ASSUME NEW j \in 1..Len(s) PROVE s[j] \in Row
        <4>1. s[j] \in AttemptType OBVIOUS
        <4> QED BY <3>2, <4>1 DEF AttemptType
      <3>4. PICK n \in Nat : n = Len(s) /\ s = [j \in 1..n |-> s[j]] OBVIOUS
      <3> HIDE DEF Row
      <3>5. s \in [1..n -> Row]
        <4>1. \A j \in 1..n : s[j] \in Row BY <3>3, <3>4
        <4> QED BY <3>4, <4>1
      <3>6. s \in Seq(Row) BY <3>5, SeqDef
      <3> QED BY <3>1, <3>6
    <2>2. ASSUME NEW c \in Calls PROVE exec[c] \in {Idle} \cup Executing \cup Ended
      <3>1. PICK e \in {Idle} \cup ExecutingType \cup EndedType : e = exec[c] BY DEF IInv, Shape
      <3>2. CallOrdered(attempts[c], e) BY <3>1 DEF CallsOrdered
      <3>3. CASE e \in ExecutingType
        <4>1. e.candidates \in Seq(Profiles) BY <3>2, <3>3 DEF ExecutingType, CallOrdered, Walk
        <4> QED BY <3>1, <3>3, <4>1 DEF ExecutingType, Executing, InProgress
      <3>4. CASE e \in EndedType
        <4>1. e.pc = "returned" => e.profile \in Profiles BY <3>2 DEF CallOrdered
        <4> QED BY <3>1, <3>4, <4>1 DEF EndedType, Ended
      <3> QED BY <3>1, <3>3, <3>4
    <2>3. ASSUME NEW c \in Calls PROVE run[c] \in {NoRun, Running} \cup Closed
      <3>1. PICK r \in {NoRun, Running} \cup ClosedType : r = run[c] BY DEF IInv, Shape
      <3>2. CASE r \in ClosedType
        <4>1. Summary(r, attempts[c]) BY <3>1, <3>2 DEF IInv, CallsSound, CallSound, ClosedType
        <4>2. r.profile \in Profiles \cup {NoProfile}
          <5>1. CASE r.status = "failed" BY <4>1, <5>1 DEF Summary
          <5>2. CASE r.status = "succeeded"
            <6>1. PICK n \in Nat : n = Len(attempts[c]) BY <2>1
            <6>2. n > 0 /\ r.profile = attempts[c][n].profile BY <4>1, <5>2, <6>1 DEF Summary
            <6> QED BY <6>1, <6>2 DEF CallsOrdered, CallOrdered
          <5> QED BY <3>2, <5>1, <5>2 DEF ClosedType
        <4> QED BY <3>1, <3>2, <4>2 DEF ClosedType, Closed
      <3> QED BY <3>1, <3>2
    <2>4. RuntimeType BY <2>1, <2>2, <2>3 DEF RuntimeType, IInv, Shape
    <2> QED BY <2>4 DEF TypeOK, IInv, SceneType, RequestType
  <1>2. Init => IInv /\ CallsOrdered BY InitGood, InitOrdered
  <1>3. IInv /\ CallsOrdered /\ [Next]_vars => (IInv /\ CallsOrdered)' BY NextGood, NextOrdered
  <1> QED BY <1>1, <1>2, <1>3, PTL DEF Spec

=============================================================================
