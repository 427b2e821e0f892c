-------------------------- MODULE SnowflakeProofs --------------------------
(***************************************************************************)
(* Proofs about Snowflake for every step graph, every number of requests   *)
(* and every bound: dense histories, one line of commits per step, the     *)
(* index and the projection beside the rows, and the project's progress.   *)
(* The graph may be any: the proofs about the store do not look inside     *)
(* UpstreamOf; the last section proves what it is.                         *)
(***************************************************************************)
EXTENDS Snowflake, WellFoundedInduction, TLAPS

IsCommitted(s, n) == revision[s][n].status \in Committed

\* A base that is 0 or a committed revision of the step.
Rooted(s, b) == b = 0 \/ (b \in Numbers /\ IsCommitted(s, b))

\* What a request under way has read still holds: its base stays committed, the
\* numbers below its own stay taken and the row it patches stays in the table.
Sound(q) ==
    /\ q.op = "compose" => q.step \notin Virtual /\ Rooted(q.step, q.claims)
    /\ q.op = "insert" => /\ q.step \notin Virtual
                          /\ q.row.status = "pending"
                          /\ Rooted(q.step, q.row.base)
                          /\ \A m \in 1..(q.no - 1) : m \in Rows(q.step)
    /\ q.op = "patch" => q.no \in Rows(q.step)

RequestsAreSound == \A a \in Authors : Sound(author[a])

BasesAreCommitted == \A s \in Steps : \A n \in Rows(s) : Rooted(s, revision[s][n].base)

\* Nothing has replaced the head yet.
HeadEndsTheLine ==
    \A s \in Steps \ Optional : \A n \in Rows(s) :
        IsCommitted(s, n) => revision[s][n].base # head[s].accepted

\* The inductive invariant.
IInv ==
    /\ TypeOK
    /\ RequestsAreSound
    /\ HistoryIsDense
    /\ BasesAreCommitted
    /\ CommittedLineage
    /\ HeadEndsTheLine
    /\ EveryCommitIsIndexed
    /\ ProjectionIsAcceptedText
    /\ CurrentStepIsFurthest

-----------------------------------------------------------------------------
(* Rows and what a step may do to them *)

\* A row is in the table exactly when it has a status of a revision.
LEMMA RowFacts ==
    ASSUME TypeOK, NEW s \in Steps, NEW n \in Numbers
    PROVE  /\ n \in Rows(s) <=> revision[s][n].status # "absent"
           /\ n \in Rows(s) <=> revision[s][n] \in RevisionType
           /\ n \notin Rows(s) => revision[s][n] = Absent
BY DEF TypeOK, Rows, Absent, RevisionType, Committed

\* No row disappears and no commit is undone.
Grows ==
    \A s \in Steps, n \in Numbers :
        /\ n \in Rows(s) => n \in Rows(s)'
        /\ IsCommitted(s, n) => IsCommitted(s, n)'

\* What a waiting request has read survives every step that only grows.
LEMMA SoundKept ==
    ASSUME NEW q \in AuthorType, Sound(q), Grows
    PROVE  Sound(q)'
<1>1. CASE q.op = "idle"
      BY <1>1 DEF Sound
<1>2. CASE q.op = "compose"
      BY <1>2 DEF Sound, Rooted, Grows, AuthorType, Idle, Heads, Numbers
<1>3. CASE q.op = "insert"
  <2>1. q.step \in Steps /\ q.no \in Numbers
        BY <1>3 DEF AuthorType, Idle
  <2>2. Rooted(q.step, q.row.base)'
        BY <1>3, <2>1 DEF Sound, Rooted, Grows
  <2>3. \A m \in 1..(q.no - 1) : m \in Rows(q.step)'
    <3> SUFFICES ASSUME NEW m \in 1..(q.no - 1) PROVE m \in Rows(q.step)'
        OBVIOUS
    <3>1. m \in Rows(q.step) /\ m \in Numbers
          BY <1>3, <2>1 DEF Sound, Rows
    <3> QED
        BY <2>1, <3>1 DEF Grows
  <2> QED
      BY <1>3, <2>2, <2>3 DEF Sound
<1>4. CASE q.op = "patch"
      BY <1>4 DEF Sound, Grows, AuthorType, Idle
<1> QED
    BY <1>1, <1>2, <1>3, <1>4 DEF AuthorType, Idle

\* Requests that go on waiting or end are sound after a step that only grows.
LEMMA RequestsKept ==
    ASSUME TypeOK, RequestsAreSound, Grows,
           \A a \in Authors : author'[a] = author[a] \/ author'[a] = Idle
    PROVE  RequestsAreSound'
<1> SUFFICES ASSUME NEW a \in Authors PROVE Sound(author[a])'
    BY DEF RequestsAreSound
<1>1. CASE author'[a] = Idle
      BY <1>1 DEF Sound, Idle
<1>2. CASE author'[a] = author[a]
  <2>1. PICK q \in AuthorType : q = author[a]
        BY DEF TypeOK
  <2>2. Sound(q)
        BY <2>1 DEF RequestsAreSound
  <2>3. Sound(q)'
        BY <2>2, SoundKept
  <2> QED
      BY <1>2, <2>1, <2>3 DEF Sound
<1> QED
    BY <1>1, <1>2

\* A step that commits nothing: rows keep their base and whether they are
\* committed, and a new row is the next one of its step.
Quiet ==
    /\ UNCHANGED <<head, projection, currentStep, jobs>>
    /\ \A s \in Steps, n \in Numbers :
        /\ n \in Rows(s) => n \in Rows(s)' /\ revision'[s][n].base = revision[s][n].base
        /\ IsCommitted(s, n)' <=> IsCommitted(s, n)
        /\ revision'[s][n].status = "accepted" <=> revision[s][n].status = "accepted"
        /\ n \in Rows(s)' /\ n \notin Rows(s) =>
            /\ Rooted(s, revision'[s][n].base)
            /\ \A m \in 1..(n - 1) : m \in Rows(s)

\* What the invariant says of the tables alone.
Tables ==
    /\ HistoryIsDense
    /\ BasesAreCommitted
    /\ CommittedLineage
    /\ HeadEndsTheLine
    /\ EveryCommitIsIndexed
    /\ ProjectionIsAcceptedText
    /\ CurrentStepIsFurthest

\* A step that commits nothing keeps all of it.
LEMMA QuietKeepsTables == ASSUME TypeOK, TypeOK', Tables, Quiet PROVE Tables'
<1> USE DEF Tables
<1>1. \A s \in Steps : Rows(s) \subseteq Numbers /\ Rows(s)' \subseteq Numbers
      BY DEF Rows
<1>2. \A s \in Steps, n \in Numbers : IsCommitted(s, n) => n \in Rows(s)
      BY RowFacts DEF IsCommitted, Committed
<1>3. HistoryIsDense'
  <2> SUFFICES ASSUME NEW s \in Steps
               PROVE  /\ \A n \in Rows(s)' : \A m \in 1..n : m \in Rows(s)'
                      /\ head'[s].accepted # 0
                            => revision'[s][head'[s].accepted].status = "accepted"
      BY DEF HistoryIsDense
  <2>1. \A n \in Rows(s)' : \A m \in 1..n : m \in Rows(s)'
    <3> SUFFICES ASSUME NEW n \in Rows(s)', NEW m \in 1..n PROVE m \in Rows(s)'
        OBVIOUS
    <3>0. n \in Numbers /\ m \in Numbers
          BY <1>1, SnowflakeAssumption DEF Numbers
    <3>1. CASE n \in Rows(s)
          BY <3>0, <3>1 DEF HistoryIsDense, Quiet
    <3>2. CASE n \notin Rows(s) /\ m # n
      <4>1. m \in 1..(n - 1)
            BY <3>0, <3>2 DEF Numbers
      <4> QED
          BY <3>0, <3>2, <4>1 DEF Quiet
    <3> QED
        BY <3>1, <3>2
  <2>2. head[s].accepted \in Heads
        BY DEF TypeOK
  <2>3. head'[s].accepted # 0 => revision'[s][head'[s].accepted].status = "accepted"
        BY <2>2 DEF HistoryIsDense, Quiet, Heads, Numbers
  <2> QED
      BY <2>1, <2>3
<1>4. BasesAreCommitted'
  <2> SUFFICES ASSUME NEW s \in Steps, NEW n \in Rows(s)'
               PROVE  Rooted(s, revision[s][n].base)'
      BY DEF BasesAreCommitted
  <2>0. n \in Numbers
        BY <1>1
  <2>1. Rooted(s, revision'[s][n].base)
        BY <2>0 DEF BasesAreCommitted, Quiet
  <2>2. PICK b : b = revision'[s][n].base
        OBVIOUS
  <2>3. Rooted(s, b)'
        BY <2>1, <2>2 DEF Rooted, Quiet
  <2> QED
      BY <2>2, <2>3 DEF Rooted
<1>5. CommittedLineage'
  <2> SUFFICES ASSUME NEW s \in Steps \ Optional
               PROVE  LET committed == {n \in Rows(s)' : revision'[s][n].status \in Committed}
                      IN  /\ \A m, n \in committed :
                                revision'[s][m].base = revision'[s][n].base => m = n
                          /\ {n \in committed : revision'[s][n].status = "accepted"}
                                = {head'[s].accepted} \ {0}
      BY DEF CommittedLineage
  <2>1. {n \in Rows(s)' : revision'[s][n].status \in Committed}
            = {n \in Rows(s) : revision[s][n].status \in Committed}
        BY <1>1, <1>2 DEF Quiet, IsCommitted
  <2>2. \A n \in {m \in Rows(s) : revision[s][m].status \in Committed} :
            /\ revision'[s][n].base = revision[s][n].base
            /\ revision'[s][n].status = "accepted" <=> revision[s][n].status = "accepted"
        BY <1>1 DEF Quiet
  <2>3. head' = head
        BY DEF Quiet
  <2> QED
      BY <2>1, <2>2, <2>3 DEF CommittedLineage
<1>6. HeadEndsTheLine'
  <2> SUFFICES ASSUME NEW s \in Steps \ Optional, NEW n \in Rows(s)', IsCommitted(s, n)'
               PROVE  revision'[s][n].base # head'[s].accepted
      BY DEF HeadEndsTheLine
  <2>1. n \in Numbers /\ IsCommitted(s, n)
        BY <1>1 DEF Quiet
  <2> QED
      BY <1>2, <2>1 DEF HeadEndsTheLine, Quiet
<1>7. EveryCommitIsIndexed'
      BY DEF EveryCommitIsIndexed, Quiet, IsCommitted
<1>8. ProjectionIsAcceptedText'
      BY DEF ProjectionIsAcceptedText, Quiet
<1>9. CurrentStepIsFurthest'
      BY DEF CurrentStepIsFurthest, Quiet
<1> QED
    BY <1>3, <1>4, <1>5, <1>6, <1>7, <1>8, <1>9

-----------------------------------------------------------------------------
(* The actions that commit nothing *)

\* One row is written: what the nested update means cell by cell.
LEMMA OneRowWritten ==
    ASSUME TypeOK, NEW s \in Steps, NEW n \in Numbers, NEW r \in RevisionType,
           revision' = [revision EXCEPT ![s][n] = r]
    PROVE  /\ revision' \in [Steps -> [Numbers -> RevisionType \cup {Absent}]]
           /\ revision'[s][n] = r
           /\ \A t \in Steps, m \in Numbers : t # s \/ m # n => revision'[t][m] = revision[t][m]
           /\ \A t \in Steps, m \in Numbers : m \in Rows(t)' <=> m \in Rows(t) \/ (t = s /\ m = n)
<1>1. revision' \in [Steps -> [Numbers -> RevisionType \cup {Absent}]]
      BY DEF TypeOK
<1>2. revision'[s][n] = r
      BY DEF TypeOK
<1>3. \A t \in Steps, m \in Numbers : t # s \/ m # n => revision'[t][m] = revision[t][m]
      BY DEF TypeOK
<1>4. r # Absent
      BY DEF RevisionType, Absent, Committed
<1>5. \A t \in Steps, m \in Numbers : m \in Rows(t)' <=> m \in Rows(t) \/ (t = s /\ m = n)
      BY <1>2, <1>3, <1>4 DEF Rows
<1> QED
    BY <1>1, <1>2, <1>3, <1>5

\* A request that only reads.
LEMMA ReaderStep ==
    ASSUME IInv, UNCHANGED <<revision, head, projection, currentStep, jobs, changed>>,
           NEW a \in Authors, NEW q \in AuthorType, Sound(q),
           author' = [author EXCEPT ![a] = q]
    PROVE  IInv'
<1>1. TypeOK'
      BY DEF IInv, TypeOK, Rows
<1>2. RequestsAreSound'
      BY DEF IInv, TypeOK, RequestsAreSound, Sound, Rooted, IsCommitted, Rows
<1>3. Quiet
      BY DEF Quiet, IsCommitted, Rows
<1>4. Tables'
      BY <1>1, <1>3, QuietKeepsTables DEF IInv, Tables
<1> QED
    BY <1>1, <1>2, <1>4 DEF IInv, Tables

\* The accepted head is a base a request may carry.
LEMMA HeadIsRooted ==
    ASSUME IInv, NEW s \in Steps
    PROVE  head[s].accepted \in Heads /\ Rooted(s, head[s].accepted)
BY DEF IInv, TypeOK, HistoryIsDense, Rooted, IsCommitted, Committed, Heads, Numbers

\* Opening a step or loading a context.
LEMMA ComposeStep ==
    ASSUME IInv, NEW a \in Authors, NEW s \in Steps, NEW claims \in Heads, Compose(a, s, claims)
    PROVE  IInv'
<1> DEFINE q == [op |-> "compose", step |-> s, claims |-> claims, seen |-> head[s].accepted]
<1>1. Rooted(s, claims)
      BY HeadIsRooted DEF Compose, Rooted
<1>2. q \in AuthorType
      BY HeadIsRooted DEF AuthorType
<1>3. Sound(q)
      BY <1>1 DEF Sound, Compose
<1>4. author' = [author EXCEPT ![a] = q] /\ UNCHANGED <<revision, head, projection, currentStep, jobs, changed>>
      BY DEF Compose
<1> HIDE DEF q
<1>5. PICK r \in AuthorType : r = q
      BY <1>2
<1>6. Sound(r)
      BY <1>3, <1>5 DEF Sound
<1> QED
    BY <1>4, <1>5, <1>6, ReaderStep

\* The reads of create_revision.
LEMMA ReadForInsertStep ==
    ASSUME IInv, NEW a \in Authors, NEW t \in Texts, ReadForInsert(a, t)
    PROVE  IInv'
<1>1. PICK c \in AuthorType : c = author[a]
      BY DEF IInv, TypeOK
<1>2. c.op = "compose"
      BY <1>1 DEF ReadForInsert
<1>3. c.step \in Steps /\ c.claims \in Heads /\ c.seen \in Heads
      BY <1>2 DEF AuthorType, Idle
<1>4. c.step \notin Virtual /\ Rooted(c.step, c.claims)
      BY <1>1, <1>2 DEF IInv, RequestsAreSound, Sound
<1> DEFINE base == IF c.claims # 0 THEN c.claims ELSE head[c.step].accepted
<1>5. base \in Heads /\ Rooted(c.step, base)
      BY <1>3, <1>4, HeadIsRooted
<1>6. PICK last \in 0..(MaxRevision - 1) :
            /\ last = 0 \/ last \in Rows(c.step)
            /\ author' = [author EXCEPT ![a] =
                    [op |-> "insert", step |-> c.step, no |-> last + 1, seen |-> c.seen,
                     row |-> [status |-> "pending", text |-> t, base |-> base]]]
      BY <1>1 DEF ReadForInsert
<1>7. \A m \in 1..last : m \in Rows(c.step)
      BY <1>3, <1>6 DEF IInv, HistoryIsDense
<1> DEFINE q == [op |-> "insert", step |-> c.step, no |-> last + 1, seen |-> c.seen,
                 row |-> [status |-> "pending", text |-> t, base |-> base]]
<1>8. q \in AuthorType
  <2>1. last + 1 \in Numbers
        BY SnowflakeAssumption DEF Numbers
  <2> QED
      BY <1>3, <1>5, <2>1 DEF AuthorType, RevisionType
<1>9. Sound(q)
  <2>1. \A m \in 1..((last + 1) - 1) : m \in Rows(c.step)
        BY <1>7
  <2> QED
      BY <1>4, <1>5, <2>1 DEF Sound
<1>10. author' = [author EXCEPT ![a] = q]
       BY <1>6
<1> HIDE DEF q
<1>11. PICK r \in AuthorType : r = q
       BY <1>8
<1>12. Sound(r)
       BY <1>9, <1>11 DEF Sound
<1> QED
    BY <1>10, <1>11, <1>12, ReaderStep DEF ReadForInsert

\* The status check of a patch.
LEMMA OpenPatchStep ==
    ASSUME IInv, NEW a \in Authors, NEW s \in Steps, NEW n \in Numbers, NEW t \in Texts,
           OpenPatch(a, s, n, t)
    PROVE  IInv'
<1> DEFINE q == [op |-> "patch", step |-> s, no |-> n, text |-> t]
<1>1. q \in AuthorType
      BY DEF AuthorType
<1>2. n \in Rows(s)
      BY RowFacts DEF OpenPatch, IInv
<1>3. Sound(q)
      BY <1>2 DEF Sound
<1> QED
    BY <1>1, <1>3, ReaderStep DEF OpenPatch

\* The INSERT, or the refusal of a taken number.
LEMMA InsertRevisionStep ==
    ASSUME IInv, NEW a \in Authors, InsertRevision(a)
    PROVE  IInv'
<1>1. PICK q \in AuthorType : q = author[a]
      BY DEF IInv, TypeOK
<1>2. q.op = "insert"
      BY <1>1 DEF InsertRevision
<1>3. q.step \in Steps /\ q.no \in Numbers /\ q.row \in RevisionType
      BY <1>2 DEF AuthorType, Idle
<1>4. Sound(q)
      BY <1>1 DEF IInv, RequestsAreSound
<1>5. author' = [author EXCEPT ![a] = Idle]
      BY DEF InsertRevision
<1>6. author' \in [Authors -> AuthorType] /\ \A b \in Authors : author'[b] = author[b] \/ author'[b] = Idle
      BY <1>5 DEF IInv, TypeOK, AuthorType
<1>7. CASE q.no \in Rows(q.step)
  <2>1. UNCHANGED <<revision, head, projection, currentStep, jobs, changed>>
        BY <1>1, <1>7 DEF InsertRevision
  <2>2. Idle \in AuthorType /\ Sound(Idle)
        BY DEF AuthorType, Sound, Idle
  <2> QED
      BY <1>5, <2>1, <2>2, ReaderStep
<1>8. CASE q.no \notin Rows(q.step)
  <2>1. revision' = [revision EXCEPT ![q.step][q.no] = q.row]
        BY <1>1, <1>8 DEF InsertRevision
  <2>2. UNCHANGED <<head, projection, currentStep, jobs, changed>>
        BY DEF InsertRevision
  <2>3. /\ revision' \in [Steps -> [Numbers -> RevisionType \cup {Absent}]]
        /\ revision'[q.step][q.no] = q.row
        /\ \A t \in Steps, m \in Numbers : t # q.step \/ m # q.no => revision'[t][m] = revision[t][m]
        /\ \A t \in Steps, m \in Numbers :
                m \in Rows(t)' <=> m \in Rows(t) \/ (t = q.step /\ m = q.no)
        BY <1>3, <2>1, OneRowWritten DEF IInv
  <2>4. revision[q.step][q.no].status = "absent" /\ q.row.status = "pending"
        BY <1>2, <1>3, <1>4, <1>8, RowFacts DEF IInv, Sound
  <2>5. \A t \in Steps, m \in Numbers :
            /\ IsCommitted(t, m)' <=> IsCommitted(t, m)
            /\ revision'[t][m].status = "accepted" <=> revision[t][m].status = "accepted"
        BY <1>3, <2>3, <2>4 DEF IsCommitted, Committed
  <2>6. TypeOK'
    <3>1. \A t \in Virtual : Rows(t)' = Rows(t)
          BY <1>2, <1>4, <2>3, SnowflakeAssumption DEF Sound, Rows
    <3> QED
        BY <1>6, <2>2, <2>3, <3>1 DEF IInv, TypeOK
  <2>7. Quiet
        BY <1>2, <1>3, <1>4, <1>8, <2>2, <2>3, <2>5 DEF Quiet, Sound
  <2>8. Grows
        BY <2>3, <2>5 DEF Grows
  <2> QED
      BY <1>6, <2>6, <2>7, <2>8, QuietKeepsTables, RequestsKept DEF IInv, Tables
<1> QED
    BY <1>7, <1>8

\* A row of the table gets another text, or is rejected while it is pending.
LEMMA RowChanges ==
    ASSUME IInv, NEW s \in Steps, NEW n \in Rows(s), NEW r \in RevisionType,
           r.base = revision[s][n].base,
           r.status = revision[s][n].status
                \/ (revision[s][n].status = "pending" /\ r.status = "rejected"),
           revision' = [revision EXCEPT ![s][n] = r],
           UNCHANGED <<head, projection, currentStep, jobs, changed>>,
           author' \in [Authors -> AuthorType],
           \A b \in Authors : author'[b] = author[b] \/ author'[b] = Idle
    PROVE  IInv'
<1>0. n \in Numbers
      BY DEF Rows
<1>1. /\ revision' \in [Steps -> [Numbers -> RevisionType \cup {Absent}]]
      /\ revision'[s][n] = r
      /\ \A t \in Steps, m \in Numbers : t # s \/ m # n => revision'[t][m] = revision[t][m]
      /\ \A t \in Steps, m \in Numbers : m \in Rows(t)' <=> m \in Rows(t) \/ (t = s /\ m = n)
      BY <1>0, OneRowWritten DEF IInv
<1>2. \A t \in Steps : Rows(t)' = Rows(t)
      BY <1>1 DEF Rows
<1>3. \A t \in Steps, m \in Numbers :
            /\ IsCommitted(t, m)' <=> IsCommitted(t, m)
            /\ revision'[t][m].status = "accepted" <=> revision[t][m].status = "accepted"
            /\ revision'[t][m].base = revision[t][m].base
      BY <1>1 DEF IsCommitted, Committed
<1>4. TypeOK'
      BY <1>1, <1>2, SnowflakeAssumption DEF IInv, TypeOK
<1>5. Quiet
      BY <1>2, <1>3 DEF Quiet
<1>6. Grows
      BY <1>2, <1>3 DEF Grows
<1> QED
    BY <1>4, <1>5, <1>6, QuietKeepsTables, RequestsKept DEF IInv, Tables

\* The UPDATE of a patch, wherever its row stands by now.
LEMMA WritePatchStep ==
    ASSUME IInv, NEW a \in Authors, WritePatch(a)
    PROVE  IInv'
<1>1. PICK q \in AuthorType : q = author[a]
      BY DEF IInv, TypeOK
<1>2. q.op = "patch"
      BY <1>1 DEF WritePatch
<1>3. q.step \in Steps /\ q.no \in Numbers /\ q.text \in Texts
      BY <1>2 DEF AuthorType, Idle
<1>4. q.no \in Rows(q.step)
      BY <1>1, <1>2 DEF IInv, RequestsAreSound, Sound
<1>5. revision[q.step][q.no] \in RevisionType
      BY <1>3, <1>4, RowFacts DEF IInv
<1>6. PICK r \in RevisionType : r = [revision[q.step][q.no] EXCEPT !.text = q.text]
      BY <1>3, <1>5 DEF RevisionType
<1>7. r.base = revision[q.step][q.no].base /\ r.status = revision[q.step][q.no].status
      BY <1>5, <1>6 DEF RevisionType
<1>8. revision' = [revision EXCEPT ![q.step][q.no] = r]
      BY <1>1, <1>6 DEF WritePatch
<1>9. author' \in [Authors -> AuthorType] /\ \A b \in Authors : author'[b] = author[b] \/ author'[b] = Idle
      BY DEF IInv, TypeOK, AuthorType, WritePatch
<1>10. UNCHANGED <<head, projection, currentStep, jobs, changed>>
       BY DEF WritePatch
<1> QED
    BY <1>3, <1>4, <1>7, <1>8, <1>9, <1>10, RowChanges

\* A rejection.
LEMMA RejectStep ==
    ASSUME IInv, NEW s \in Steps, NEW n \in Numbers, Reject(s, n)
    PROVE  IInv'
<1>1. revision[s][n].status = "pending" /\ n \in Rows(s) /\ revision[s][n] \in RevisionType
      BY RowFacts DEF IInv, Reject
<1>2. PICK r \in RevisionType : r = [revision[s][n] EXCEPT !.status = "rejected"]
      BY <1>1 DEF RevisionType
<1>3. r.base = revision[s][n].base /\ r.status = "rejected"
      BY <1>1, <1>2 DEF RevisionType
<1>4. revision' = [revision EXCEPT ![s][n] = r]
      BY <1>2 DEF Reject
<1>5. author' \in [Authors -> AuthorType] /\ \A b \in Authors : author'[b] = author[b] \/ author'[b] = Idle
      BY DEF IInv, TypeOK, Reject
<1>6. UNCHANGED <<head, projection, currentStep, jobs, changed>>
      BY DEF Reject
<1> QED
    BY <1>1, <1>3, <1>4, <1>5, <1>6, RowChanges

-----------------------------------------------------------------------------
(* Acceptance *)

\* What the guard of an acceptance rests on.
LEMMA AcceptReads ==
    ASSUME IInv, NEW s \in Steps, NEW n \in Numbers, NEW expected \in Heads, Accept(s, n, expected)
    PROVE  /\ n \in Rows(s) /\ s \notin Virtual /\ s # LastStep
           /\ revision[s][n].status = "pending"
           /\ revision[s][n].base = head[s].accepted
           /\ n # head[s].accepted
           /\ head[s].accepted # 0 => revision[s][head[s].accepted].status = "accepted"
<1>1. /\ n \in Rows(s) /\ revision[s][n].status = "pending"
      /\ revision[s][n].base = head[s].accepted
      BY DEF Accept, Current
<1>2. s \notin Virtual
      BY <1>1 DEF IInv, TypeOK
<1>3. head[s].accepted # 0 => revision[s][head[s].accepted].status = "accepted"
      BY DEF IInv, HistoryIsDense
<1>4. n # 0
      BY SnowflakeAssumption DEF Numbers
<1> QED
    BY <1>1, <1>2, <1>3, <1>4, SnowflakeAssumption

\* What an acceptance does to the rows, cell by cell.
LEMMA AcceptWrites ==
    ASSUME IInv, NEW s \in Steps, NEW n \in Numbers, NEW expected \in Heads, Accept(s, n, expected)
    PROVE  /\ revision' \in [Steps -> [Numbers -> RevisionType \cup {Absent}]]
           /\ \A t \in Steps, m \in Numbers :
                /\ m \in Rows(t)' <=> m \in Rows(t)
                /\ m \in Rows(t) => revision'[t][m].base = revision[t][m].base
                /\ IsCommitted(t, m)' <=> IsCommitted(t, m) \/ (t = s /\ m = n)
                /\ t # s => revision'[t][m] = revision[t][m]
                /\ revision'[s][m].status = "accepted" <=>
                        \/ m = n
                        \/ revision[s][m].status = "accepted" /\ m # head[s].accepted
<1> DEFINE cell(m) ==
        IF m = n THEN [revision[s][m] EXCEPT !.status = "accepted"]
        ELSE IF m = head[s].accepted /\ revision[s][m].status = "accepted"
             THEN [revision[s][m] EXCEPT !.status = "superseded"]
        ELSE revision[s][m]
<1>1. revision' = [revision EXCEPT ![s] = [m \in Numbers |-> cell(m)]]
      BY DEF Accept, SupersedeHead
<1>2. \A m \in Rows(s) : m \in Numbers /\ revision[s][m] \in RevisionType
      BY RowFacts DEF IInv, Rows
<1>3. \A m \in Numbers : m \notin Rows(s) => revision[s][m] = Absent /\ m # n /\ cell(m) = Absent
  <2> SUFFICES ASSUME NEW m \in Numbers, m \notin Rows(s)
               PROVE  revision[s][m] = Absent /\ m # n /\ cell(m) = Absent
      OBVIOUS
  <2>1. revision[s][m] = Absent /\ m # n
        BY RowFacts, AcceptReads DEF IInv
  <2>2. revision[s][m].status # "accepted"
        BY <2>1 DEF Absent
  <2> QED
      BY <2>1, <2>2
<1>4. \A m \in Rows(s) :
        /\ cell(m) \in RevisionType
        /\ cell(m).base = revision[s][m].base
        /\ cell(m).status = IF m = n THEN "accepted"
                            ELSE IF m = head[s].accepted /\ revision[s][m].status = "accepted"
                                 THEN "superseded"
                            ELSE revision[s][m].status
      BY <1>2 DEF RevisionType, Committed
<1>5. \A m \in Numbers : cell(m) \in RevisionType \cup {Absent}
      BY <1>3, <1>4
<1>6. \A m \in Numbers : m \in Rows(s) <=> cell(m) # Absent
      BY <1>3, <1>4 DEF RevisionType, Absent, Committed
<1>7. \A m \in Numbers : cell(m).status \in Committed <=> IsCommitted(s, m) \/ m = n
  <2> SUFFICES ASSUME NEW m \in Numbers
               PROVE  cell(m).status \in Committed <=> IsCommitted(s, m) \/ m = n
      OBVIOUS
  <2>1. CASE m \in Rows(s)
        BY <1>4, <2>1 DEF IsCommitted, Committed
  <2>2. CASE m \notin Rows(s)
        BY <1>3, <2>2 DEF IsCommitted, Committed, Absent
  <2> QED
      BY <2>1, <2>2
<1>8. \A m \in Numbers : cell(m).status = "accepted" <=>
            \/ m = n
            \/ revision[s][m].status = "accepted" /\ m # head[s].accepted
  <2> SUFFICES ASSUME NEW m \in Numbers
               PROVE  cell(m).status = "accepted" <=>
                        \/ m = n
                        \/ revision[s][m].status = "accepted" /\ m # head[s].accepted
      OBVIOUS
  <2>1. CASE m \in Rows(s)
        BY <1>4, <2>1
  <2>2. CASE m \notin Rows(s)
        BY <1>3, <2>2 DEF Absent
  <2> QED
      BY <2>1, <2>2
<1> HIDE DEF cell
<1>9. /\ \A t \in Steps : t # s => revision'[t] = revision[t]
      /\ \A m \in Numbers : revision'[s][m] = cell(m)
      BY <1>1 DEF IInv, TypeOK
<1>10. revision' \in [Steps -> [Numbers -> RevisionType \cup {Absent}]]
       BY <1>1, <1>5 DEF IInv, TypeOK
<1>11. \A t \in Steps, m \in Numbers : m \in Rows(t)' <=> m \in Rows(t)
       BY <1>6, <1>9 DEF Rows
<1>12. \A t \in Steps, m \in Numbers : m \in Rows(t) => revision'[t][m].base = revision[t][m].base
       BY <1>4, <1>9
<1>13. \A t \in Steps, m \in Numbers : IsCommitted(t, m)' <=> IsCommitted(t, m) \/ (t = s /\ m = n)
       BY <1>7, <1>9 DEF IsCommitted
<1> QED
    BY <1>8, <1>9, <1>10, <1>11, <1>12, <1>13

\* What an acceptance does to the heads: only the step's own moves.
LEMMA AcceptMovesHead ==
    ASSUME IInv, NEW s \in Steps, NEW n \in Numbers, NEW expected \in Heads, Accept(s, n, expected)
    PROVE  /\ head' \in [Steps -> [accepted : Heads, state : {"missing", "approved", "stale", "skipped"}]]
           /\ head'[s].accepted = n /\ head'[s].state = "approved"
           /\ \A t \in Steps : t # s => head'[t].accepted = head[t].accepted
           /\ \A t \in Steps \ Virtual : t # s =>
                    (head'[t].state = "missing" <=> head[t].state = "missing")
<1>1. \A t \in Steps :
        /\ MarkStale(t) \in [accepted : Heads, state : {"missing", "approved", "stale", "skipped"}]
        /\ MarkStale(t).accepted = head[t].accepted
        /\ t \notin Virtual => (MarkStale(t).state = "missing" <=> head[t].state = "missing")
      BY DEF IInv, TypeOK, MarkStale
<1>2. n \in Heads
      BY SnowflakeAssumption DEF Heads, Numbers
<1>3. head' = [d \in Steps |->
            IF d = s THEN [accepted |-> n, state |-> "approved"]
            ELSE IF d \in Downstream(s) THEN MarkStale(d)
            ELSE head[d]]
      BY DEF Accept
<1> HIDE DEF MarkStale, Downstream
<1>4. head' \in [Steps -> [accepted : Heads, state : {"missing", "approved", "stale", "skipped"}]]
      BY <1>1, <1>2, <1>3 DEF IInv, TypeOK
<1>5. head'[s].accepted = n /\ head'[s].state = "approved"
      BY <1>3
<1>6. \A t \in Steps : t # s => head'[t].accepted = head[t].accepted
      BY <1>1, <1>3
<1>7. \A t \in Steps \ Virtual : t # s =>
            (head'[t].state = "missing" <=> head[t].state = "missing")
      BY <1>1, <1>3
<1> QED
    BY <1>4, <1>5, <1>6, <1>7

\* The project's step only moves forward, to just past the decided one.
LEMMA Advances ==
    ASSUME TypeOK, NEW s \in Steps, s # LastStep, AdvanceCurrentStep(s)
    PROVE  /\ currentStep' \in Steps
           /\ currentStep' >= currentStep /\ currentStep' > s
           /\ currentStep' = currentStep \/ currentStep' = s + 1
BY StepGraphAssumption DEF TypeOK, AdvanceCurrentStep, Later, Steps

\* Deciding a step keeps the project's step just past the furthest one.
LEMMA ProgressKept ==
    ASSUME TypeOK, CurrentStepIsFurthest,
           NEW s \in Steps \ Virtual, AdvanceCurrentStep(s), head'[s].state # "missing",
           \A t \in Steps \ Virtual : t # s =>
                (head'[t].state = "missing" <=> head[t].state = "missing")
    PROVE  CurrentStepIsFurthest'
<1>1. s # LastStep
      BY SnowflakeAssumption
<1>2. /\ currentStep' \in Steps
      /\ currentStep' >= currentStep /\ currentStep' > s
      /\ currentStep' = currentStep \/ currentStep' = s + 1
      BY <1>1, Advances
<1>3. \A t \in Steps \ Virtual : head'[t].state # "missing" =>
            currentStep' > t \/ currentStep' = LastStep
      BY <1>2, StepGraphAssumption DEF TypeOK, CurrentStepIsFurthest, Steps
<1>4. currentStep' # 1 => \E t \in Steps \ Virtual : head'[t].state # "missing" /\ t + 1 = currentStep'
  <2>1. CASE currentStep' = s + 1
        BY <2>1
  <2>2. CASE currentStep' = currentStep
        BY <2>2 DEF CurrentStepIsFurthest
  <2> QED
      BY <1>2, <2>1, <2>2
<1> QED
    BY <1>3, <1>4 DEF CurrentStepIsFurthest

\* An acceptance keeps types and requests.
LEMMA AcceptKeepsShape ==
    ASSUME IInv, NEW s \in Steps, NEW n \in Numbers, NEW expected \in Heads, Accept(s, n, expected)
    PROVE  TypeOK' /\ RequestsAreSound'
<1>1. revision[s][n] \in RevisionType
      BY AcceptReads, RowFacts DEF IInv
<1>2. revision[s][n].text \in Texts
      BY <1>1 DEF RevisionType
<1>3. projection' \in [Steps -> Texts \cup {None}]
      BY <1>2 DEF IInv, TypeOK, Accept, UpdateAcceptedProjection
<1>4. jobs' \subseteq JobType
      BY <1>2 DEF IInv, TypeOK, Accept, EnqueueIndex, JobType
<1>5. currentStep' \in Steps
      BY AcceptReads, Advances DEF IInv, Accept
<1>6. changed' \in [Steps -> SUBSET Steps]
      BY DEF IInv, TypeOK, Accept
<1>7. author' = author /\ author' \in [Authors -> AuthorType]
      BY DEF IInv, TypeOK, Accept
<1>8. \A t \in Virtual : Rows(t)' = {} /\ head'[t].accepted = 0
  <2> SUFFICES ASSUME NEW t \in Virtual PROVE Rows(t)' = {} /\ head'[t].accepted = 0
      OBVIOUS
  <2>1. t \in Steps /\ t # s /\ Rows(t) = {} /\ head[t].accepted = 0
        BY SnowflakeAssumption, AcceptReads DEF IInv, TypeOK
  <2>2. Rows(t)' = {}
        BY <2>1, AcceptWrites DEF Rows
  <2> QED
      BY <2>1, <2>2, AcceptMovesHead
<1>9. TypeOK'
      BY <1>3, <1>4, <1>5, <1>6, <1>7, <1>8, AcceptWrites, AcceptMovesHead DEF TypeOK
<1>10. Grows
       BY AcceptWrites DEF Grows
<1> QED
    BY <1>7, <1>9, <1>10, RequestsKept DEF IInv

\* An acceptance extends the line of its step by one.
LEMMA AcceptKeepsLine ==
    ASSUME IInv, NEW s \in Steps, NEW n \in Numbers, NEW expected \in Heads, Accept(s, n, expected)
    PROVE  HistoryIsDense' /\ BasesAreCommitted' /\ CommittedLineage' /\ HeadEndsTheLine'
<1>0. \A t \in Steps : Rows(t) \subseteq Numbers /\ Rows(t)' = Rows(t)
      BY AcceptWrites DEF Rows
<1>1. HistoryIsDense'
  <2>1. \A t \in Steps : \A k \in Rows(t)' : \A m \in 1..k : m \in Rows(t)'
        BY <1>0 DEF IInv, HistoryIsDense
  <2>2. ASSUME NEW t \in Steps, head'[t].accepted # 0
        PROVE  revision'[t][head'[t].accepted].status = "accepted"
    <3>1. CASE t = s
          BY <3>1, AcceptWrites, AcceptMovesHead
    <3>2. CASE t # s
      <4>1. head'[t].accepted = head[t].accepted /\ head[t].accepted \in Numbers
            BY <2>2, <3>2, AcceptMovesHead DEF IInv, TypeOK, Heads, Numbers
      <4> QED
          BY <2>2, <3>2, <4>1, AcceptWrites DEF IInv, HistoryIsDense
    <3> QED
        BY <3>1, <3>2
  <2> QED
      BY <2>1, <2>2 DEF HistoryIsDense
<1>2. BasesAreCommitted'
  <2> SUFFICES ASSUME NEW t \in Steps, NEW m \in Rows(t)
               PROVE  Rooted(t, revision[t][m].base)'
      BY <1>0 DEF BasesAreCommitted
  <2>1. revision'[t][m].base = revision[t][m].base
        BY <1>0, AcceptWrites
  <2>2. PICK b : b = revision[t][m].base
        OBVIOUS
  <2>3. Rooted(t, b)
        BY <2>2 DEF IInv, BasesAreCommitted
  <2>4. Rooted(t, b)'
        BY <2>3, AcceptWrites DEF Rooted
  <2> QED
      BY <2>1, <2>2, <2>4 DEF Rooted
<1>3. HeadEndsTheLine'
  <2> SUFFICES ASSUME NEW t \in Steps \ Optional, NEW m \in Rows(t), IsCommitted(t, m)'
               PROVE  revision'[t][m].base # head'[t].accepted
      BY <1>0 DEF HeadEndsTheLine
  <2>0. m \in Numbers /\ revision'[t][m].base = revision[t][m].base
        BY <1>0, AcceptWrites
  <2>1. CASE t # s
        BY <2>0, <2>1, AcceptWrites, AcceptMovesHead DEF IInv, HeadEndsTheLine
  <2>2. CASE t = s
    <3>1. Rooted(s, revision[s][m].base)
          BY <2>2 DEF IInv, BasesAreCommitted
    <3>2. ~IsCommitted(s, n)
          BY AcceptReads DEF IsCommitted, Committed
    <3>3. n # 0
          BY SnowflakeAssumption DEF Numbers
    <3> QED
        BY <2>0, <2>2, <3>1, <3>2, <3>3, AcceptMovesHead DEF Rooted
  <2> QED
      BY <2>1, <2>2
<1>4. CommittedLineage'
  <2> SUFFICES ASSUME NEW t \in Steps \ Optional
               PROVE  LET committed == {m \in Rows(t)' : revision'[t][m].status \in Committed}
                      IN  /\ \A l, m \in committed :
                                revision'[t][l].base = revision'[t][m].base => l = m
                          /\ {m \in committed : revision'[t][m].status = "accepted"}
                                = {head'[t].accepted} \ {0}
      BY DEF CommittedLineage
  <2> DEFINE before == {m \in Rows(t) : revision[t][m].status \in Committed}
             after == {m \in Rows(t)' : revision'[t][m].status \in Committed}
  <2>1. /\ \A l, m \in before : revision[t][l].base = revision[t][m].base => l = m
        /\ {m \in before : revision[t][m].status = "accepted"} = {head[t].accepted} \ {0}
        BY DEF IInv, CommittedLineage
  <2>2. \A m \in Rows(t) : m \in Numbers /\ revision'[t][m].base = revision[t][m].base
        BY <1>0, AcceptWrites
  <2>3. CASE t # s
    <3>1. after = before /\ \A m \in before : revision'[t][m] = revision[t][m]
          BY <1>0, <2>3, AcceptWrites
    <3> QED
        BY <2>1, <2>3, <3>1, AcceptMovesHead
  <2>4. CASE t = s
    <3>1. after = before \cup {n}
          BY <1>0, <2>4, AcceptWrites, AcceptReads DEF IsCommitted
    <3>2. \A m \in before : revision[t][m].base # head[s].accepted
          BY <2>4 DEF IInv, HeadEndsTheLine, IsCommitted
    <3>3. \A l, m \in after : revision'[t][l].base = revision'[t][m].base => l = m
          BY <1>0, <2>1, <2>2, <2>4, <3>1, <3>2, AcceptReads
    <3>4. n # 0 /\ head'[t].accepted = n
          BY <2>4, SnowflakeAssumption, AcceptMovesHead DEF Numbers
    <3>5. ASSUME NEW m \in after, revision'[t][m].status = "accepted" PROVE m = n
      <4>1. m \in Numbers /\ m \in Rows(s)
            BY <1>0, <2>4
      <4>2. m = n \/ (revision[s][m].status = "accepted" /\ m # head[s].accepted)
            BY <2>4, <3>5, <4>1, AcceptWrites
      <4>3. revision[s][m].status = "accepted" => m \in before
            BY <2>4, <4>1 DEF Committed
      <4> QED
          BY <2>1, <2>4, <4>2, <4>3
    <3>6. revision'[t][n].status = "accepted"
          BY <2>4, AcceptWrites
    <3>7. {m \in after : revision'[t][m].status = "accepted"} = {head'[t].accepted} \ {0}
          BY <3>1, <3>4, <3>5, <3>6
    <3> QED
        BY <3>3, <3>7
  <2> QED
      BY <2>3, <2>4
<1> QED
    BY <1>1, <1>2, <1>3, <1>4

\* An acceptance is indexed, projected and counted.
LEMMA AcceptKeepsDerived ==
    ASSUME IInv, NEW s \in Steps, NEW n \in Numbers, NEW expected \in Heads, Accept(s, n, expected)
    PROVE  EveryCommitIsIndexed' /\ ProjectionIsAcceptedText' /\ CurrentStepIsFurthest'
<1> DEFINE new == [step |-> s, no |-> n, text |-> revision[s][n].text]
<1>1. ~IsCommitted(s, n)
      BY AcceptReads DEF IsCommitted, Committed
<1>2. ~\E j \in jobs : j.step = s /\ j.no = n
      BY <1>1 DEF IInv, EveryCommitIsIndexed, IsCommitted
<1>3. jobs' = jobs \cup {new}
      BY <1>2 DEF Accept, EnqueueIndex
<1>4. EveryCommitIsIndexed'
  <2>1. \A t \in Steps, m \in Numbers :
            IsCommitted(t, m)' <=> (\E j \in jobs' : j.step = t /\ j.no = m)
    <3> SUFFICES ASSUME NEW t \in Steps, NEW m \in Numbers
                 PROVE  IsCommitted(t, m)' <=> (\E j \in jobs' : j.step = t /\ j.no = m)
        OBVIOUS
    <3>1. IsCommitted(t, m)' <=> IsCommitted(t, m) \/ (t = s /\ m = n)
          BY AcceptWrites
    <3>2. IsCommitted(t, m) <=> (\E j \in jobs : j.step = t /\ j.no = m)
          BY DEF IInv, EveryCommitIsIndexed, IsCommitted
    <3>3. new.step = s /\ new.no = n
          OBVIOUS
    <3> HIDE DEF new
    <3> QED
        BY <1>3, <3>1, <3>2, <3>3
  <2>2. \A i, j \in jobs' : i.step = j.step /\ i.no = j.no => i = j
        BY <1>2, <1>3 DEF IInv, EveryCommitIsIndexed
  <2> QED
      BY <2>1, <2>2 DEF EveryCommitIsIndexed, IsCommitted
<1>5. revision[s][n].text \in Texts
      BY AcceptReads, RowFacts DEF IInv, RevisionType
<1>6. projection' = [projection EXCEPT ![s] = revision[s][n].text]
      BY DEF Accept, UpdateAcceptedProjection
<1>7. ProjectionIsAcceptedText'
  <2> SUFFICES ASSUME NEW t \in Steps
               PROVE  /\ projection'[t] = None <=> ~\E j \in jobs' : j.step = t
                      /\ head'[t].accepted # 0 =>
                            [step |-> t, no |-> head'[t].accepted, text |-> projection'[t]] \in jobs'
      BY DEF ProjectionIsAcceptedText
  <2>1. CASE t = s
    <3>1. projection'[t] = revision[s][n].text /\ projection'[t] # None
          BY <1>5, <1>6, <2>1, SnowflakeAssumption DEF IInv, TypeOK
    <3> QED
        BY <1>3, <2>1, <3>1, AcceptMovesHead
  <2>2. CASE t # s
    <3>1. projection'[t] = projection[t] /\ head'[t].accepted = head[t].accepted
          BY <1>6, <2>2, AcceptMovesHead DEF IInv, TypeOK
    <3> QED
        BY <1>3, <2>2, <3>1 DEF IInv, ProjectionIsAcceptedText
  <2> QED
      BY <2>1, <2>2
<1>8. CurrentStepIsFurthest'
      BY AcceptReads, AcceptMovesHead, ProgressKept DEF IInv, Accept
<1> QED
    BY <1>4, <1>7, <1>8

-----------------------------------------------------------------------------
(* Skips, and the theorems *)

\* Skipping an optional step.
LEMMA SkipStep ==
    ASSUME IInv, NEW s \in Steps, Skip(s)
    PROVE  IInv'
<1>0. /\ s \in Optional /\ s \notin Virtual
      /\ UNCHANGED <<revision, projection, jobs, author>>
      /\ head' = [head EXCEPT ![s] = [accepted |-> 0, state |-> "skipped"]]
      /\ AdvanceCurrentStep(s)
      BY SnowflakeAssumption DEF Skip
<1>1. /\ head'[s].accepted = 0 /\ head'[s].state = "skipped"
      /\ \A t \in Steps : t # s => head'[t] = head[t]
      BY <1>0 DEF IInv, TypeOK
<1>2. head' \in [Steps -> [accepted : Heads, state : {"missing", "approved", "stale", "skipped"}]]
      BY <1>0, SnowflakeAssumption DEF IInv, TypeOK, Heads
<1>3. changed' \in [Steps -> SUBSET Steps]
      BY DEF IInv, TypeOK, Skip
<1>4. currentStep' \in Steps
      BY <1>0, Advances, SnowflakeAssumption DEF IInv
<1>5. TypeOK'
      BY <1>0, <1>1, <1>2, <1>3, <1>4, SnowflakeAssumption DEF IInv, TypeOK, Rows
<1>6. RequestsAreSound' /\ BasesAreCommitted'
      BY <1>0 DEF IInv, RequestsAreSound, BasesAreCommitted, Sound, Rooted, IsCommitted, Rows
<1>7. HistoryIsDense'
      BY <1>0, <1>1 DEF IInv, HistoryIsDense, Rows
<1>8. CommittedLineage'
      BY <1>0, <1>1 DEF IInv, CommittedLineage, Rows
<1>9. HeadEndsTheLine'
      BY <1>0, <1>1 DEF IInv, HeadEndsTheLine, IsCommitted, Rows
<1>10. EveryCommitIsIndexed'
       BY <1>0 DEF IInv, EveryCommitIsIndexed
<1>11. ProjectionIsAcceptedText'
  <2> SUFFICES ASSUME NEW t \in Steps
               PROVE  /\ projection'[t] = None <=> ~\E j \in jobs' : j.step = t
                      /\ head'[t].accepted # 0 =>
                            [step |-> t, no |-> head'[t].accepted, text |-> projection'[t]] \in jobs'
      BY DEF ProjectionIsAcceptedText
  <2>1. CASE t = s
        BY <1>0, <1>1, <2>1 DEF IInv, ProjectionIsAcceptedText
  <2>2. CASE t # s
        BY <1>0, <1>1, <2>2 DEF IInv, ProjectionIsAcceptedText
  <2> QED
      BY <2>1, <2>2
<1>12. CurrentStepIsFurthest'
       BY <1>0, <1>1, ProgressKept DEF IInv
<1> QED
    BY <1>5, <1>6, <1>7, <1>8, <1>9, <1>10, <1>11, <1>12 DEF IInv

\* Every step decided, written or read keeps the invariant.
LEMMA NextKeepsInv == IInv /\ [Next]_vars => IInv'
<1> SUFFICES ASSUME IInv, [Next]_vars PROVE IInv'
    OBVIOUS
<1>1. CASE UNCHANGED vars
      BY <1>1 DEF vars, IInv, TypeOK, RequestsAreSound, Sound, Rooted, IsCommitted, HistoryIsDense,
          BasesAreCommitted, CommittedLineage, HeadEndsTheLine, EveryCommitIsIndexed,
          ProjectionIsAcceptedText, CurrentStepIsFurthest, Rows
<1>2. ASSUME NEW a \in Authors, NEW s \in Steps, NEW claims \in Heads, Compose(a, s, claims) PROVE IInv'
      BY <1>2, ComposeStep
<1>3. ASSUME NEW a \in Authors, NEW t \in Texts, ReadForInsert(a, t) PROVE IInv'
      BY <1>3, ReadForInsertStep
<1>4. ASSUME NEW a \in Authors, InsertRevision(a) PROVE IInv'
      BY <1>4, InsertRevisionStep
<1>5. ASSUME NEW a \in Authors, NEW s \in Steps, NEW n \in Numbers, NEW t \in Texts,
             OpenPatch(a, s, n, t)
      PROVE  IInv'
      BY <1>5, OpenPatchStep
<1>6. ASSUME NEW a \in Authors, WritePatch(a) PROVE IInv'
      BY <1>6, WritePatchStep
<1>7. ASSUME NEW s \in Steps, NEW n \in Numbers, NEW expected \in Heads, Accept(s, n, expected)
      PROVE  IInv'
      BY <1>7, AcceptKeepsShape, AcceptKeepsLine, AcceptKeepsDerived DEF IInv
<1>8. ASSUME NEW s \in Steps, NEW n \in Numbers, Reject(s, n) PROVE IInv'
      BY <1>8, RejectStep
<1>9. ASSUME NEW s \in Steps, Skip(s) PROVE IInv'
      BY <1>9, SkipStep
<1> QED
    BY <1>1, <1>2, <1>3, <1>4, <1>5, <1>6, <1>7, <1>8, <1>9 DEF Next

-----------------------------------------------------------------------------
(* Staleness *)

\* A decision resets what was accepted upstream of its own step and adds itself
\* upstream of all the others; nothing else touches either side.
LEMMA StalenessKept == TypeOK /\ StalenessIsExact /\ [Next]_vars => StalenessIsExact'
<1> SUFFICES ASSUME TypeOK, StalenessIsExact, [Next]_vars PROVE StalenessIsExact'
    OBVIOUS
<1>1. CASE UNCHANGED <<head, changed>>
      BY <1>1 DEF StalenessIsExact
<1>2. ASSUME NEW s \in Steps, NEW n \in Numbers, NEW expected \in Heads, Accept(s, n, expected)
      PROVE  StalenessIsExact'
  <2>1. s \notin Virtual
        BY <1>2 DEF Accept, TypeOK
  <2>2. \A d \in Steps :
            /\ head'[d] = IF d = s THEN [accepted |-> n, state |-> "approved"]
                          ELSE IF d \in Downstream(s) THEN MarkStale(d) ELSE head[d]
            /\ changed'[d] = IF d = s THEN {} ELSE changed[d] \cup {s}
        BY <1>2 DEF Accept
  <2> SUFFICES ASSUME NEW d \in Steps
               PROVE  head'[d].state = "stale"
                        <=> /\ changed'[d] \cap UpstreamOf[d] # {}
                            /\ head'[d].state # "missing" \/ d \in Virtual
      BY DEF StalenessIsExact
  <2>3. CASE d = s
    <3>1. head'[d].state = "approved"
      <4>1. head'[d] = [accepted |-> n, state |-> "approved"]
            BY <2>2, <2>3, Zenon
      <4> QED
          BY <4>1
    <3>2. changed'[d] \cap UpstreamOf[d] = {}
          BY <2>2, <2>3
    <3> QED
        BY <3>1, <3>2
  <2>4. CASE d # s /\ d \in Downstream(s)
    <3>1. changed'[d] \cap UpstreamOf[d] # {}
          BY <2>2, <2>4 DEF Downstream
    <3>2. head'[d] = MarkStale(d)
          BY <2>2, <2>4
    <3>3. CASE head[d].state # "missing" \/ d \in Virtual
          BY <3>1, <3>2, <3>3 DEF MarkStale, TypeOK
    <3>4. CASE ~(head[d].state # "missing" \/ d \in Virtual)
          BY <3>2, <3>4 DEF MarkStale
    <3> QED
        BY <3>3, <3>4
  <2>5. CASE d # s /\ d \notin Downstream(s)
    <3>1. s \notin UpstreamOf[d]
          BY <2>5 DEF Downstream
    <3>2. changed'[d] \cap UpstreamOf[d] = changed[d] \cap UpstreamOf[d] /\ head'[d] = head[d]
          BY <2>2, <2>5, <3>1
    <3> QED
        BY <3>2 DEF StalenessIsExact
  <2> QED
      BY <2>3, <2>4, <2>5
<1>3. ASSUME NEW s \in Steps, Skip(s) PROVE StalenessIsExact'
      BY <1>3 DEF Skip, StalenessIsExact, TypeOK
<1>4. CASE Next
  <2>1. ASSUME NEW a \in Authors, NEW s \in Steps, NEW claims \in Heads, Compose(a, s, claims)
        PROVE  StalenessIsExact'
        BY <1>1, <2>1 DEF Compose
  <2>2. ASSUME NEW a \in Authors, NEW t \in Texts, ReadForInsert(a, t) PROVE StalenessIsExact'
        BY <1>1, <2>2 DEF ReadForInsert
  <2>3. ASSUME NEW a \in Authors, InsertRevision(a) PROVE StalenessIsExact'
        BY <1>1, <2>3 DEF InsertRevision
  <2>4. ASSUME NEW a \in Authors, NEW s \in Steps, NEW n \in Numbers, NEW t \in Texts,
               OpenPatch(a, s, n, t)
        PROVE  StalenessIsExact'
        BY <1>1, <2>4 DEF OpenPatch
  <2>5. ASSUME NEW a \in Authors, WritePatch(a) PROVE StalenessIsExact'
        BY <1>1, <2>5 DEF WritePatch
  <2>6. ASSUME NEW s \in Steps, NEW n \in Numbers, Reject(s, n) PROVE StalenessIsExact'
        BY <1>1, <2>6 DEF Reject
  <2> QED
      BY <1>2, <1>3, <1>4, <2>1, <2>2, <2>3, <2>4, <2>5, <2>6 DEF Next
<1> QED
    BY <1>1, <1>4 DEF vars


\* A project without revisions.
LEMMA InitInv == Init => IInv
<1> SUFFICES ASSUME Init PROVE IInv
    OBVIOUS
<1>1. \A s \in Steps : Rows(s) = {} /\ head[s].accepted = 0
      BY DEF Init, Rows
<1>2. TypeOK
      BY <1>1, StepGraphAssumption, SnowflakeAssumption
      DEF Init, TypeOK, Steps, Heads, Idle, AuthorType
<1>3. RequestsAreSound
      BY DEF Init, RequestsAreSound, Sound, Idle
<1>4. HistoryIsDense /\ BasesAreCommitted /\ CommittedLineage /\ HeadEndsTheLine
      BY <1>1 DEF HistoryIsDense, BasesAreCommitted, CommittedLineage, HeadEndsTheLine
<1>5. EveryCommitIsIndexed
      BY DEF Init, EveryCommitIsIndexed, Committed, Absent
<1>6. ProjectionIsAcceptedText
      BY <1>1 DEF Init, ProjectionIsAcceptedText
<1>7. CurrentStepIsFurthest
      BY DEF Init, CurrentStepIsFurthest
<1> QED
    BY <1>2, <1>3, <1>4, <1>5, <1>6, <1>7 DEF IInv

\* The strengthened invariant holds in every reachable state.
THEOREM Inductive == Spec => []IInv
<1> QED
    BY InitInv, NextKeepsInv, PTL DEF Spec

\* Rows, heads, jobs and requests keep their types, and the virtual step never
\* gets a revision (create_revision refuses it).
THEOREM TypeCorrect == Spec => []TypeOK
<1>1. IInv => TypeOK
      BY DEF IInv
<1> QED
    BY <1>1, Inductive, PTL

\* Revision numbers stay dense under any race for them, and no head dangles.
THEOREM HistoryStaysDense == Spec => []HistoryIsDense
<1>1. IInv => HistoryIsDense
      BY DEF IInv
<1> QED
    BY <1>1, Inductive, PTL

\* Two revisions never replace the same head of a step that is not skipped, and
\* the head is its only accepted revision.
THEOREM LineageIsOneLine == Spec => []CommittedLineage
<1>1. IInv => CommittedLineage
      BY DEF IInv
<1> QED
    BY <1>1, Inductive, PTL

\* Exactly the committed revisions are indexed, each once.
THEOREM CommitsAreIndexed == Spec => []EveryCommitIsIndexed
<1>1. IInv => EveryCommitIsIndexed
      BY DEF IInv
<1> QED
    BY <1>1, Inductive, PTL

\* Readers get the text a head was accepted with, whatever patch lands late.
THEOREM ProjectionIsTrue == Spec => []ProjectionIsAcceptedText
<1>1. IInv => ProjectionIsAcceptedText
      BY DEF IInv
<1> QED
    BY <1>1, Inductive, PTL

\* The project's step is just past the furthest decided step.
THEOREM ProgressIsFurthest == Spec => []CurrentStepIsFurthest
<1>1. IInv => CurrentStepIsFurthest
      BY DEF IInv
<1> QED
    BY <1>1, Inductive, PTL

\* A decided step is stale exactly when something it rests on was accepted after
\* it was last decided, in every graph of steps.
THEOREM StalenessStaysExact == Spec => []StalenessIsExact
<1>1. Init => StalenessIsExact
      BY DEF Init, StalenessIsExact
<1> QED
    BY <1>1, TypeCorrect, StalenessKept, PTL DEF Spec

-----------------------------------------------------------------------------
(* The closure over the step graph *)

\* The numbers below another one, as a relation.
Below == {pair \in Nat \X Nat : pair[1] < pair[2]}

\* A set of numbers has a least member.
LEMMA LeastMember ==
    ASSUME NEW S, S \subseteq Nat, S # {}
    PROVE  \E x \in S : \A y \in S : x <= y
<1>1. IsWellFoundedOn(Below, Nat)
      BY NatLessThanWellFounded DEF OpToRel, Below
<1>2. PICK x \in S : \A y \in S : ~ (<<y, x>> \in Below)
      BY <1>1, WFMin
<1>3. ASSUME NEW y \in S PROVE x <= y
      <2>1. x \in Nat /\ y \in Nat /\ ~ (<<y, x>> \in Below)
            BY <1>2
      <2>2. ~ (y < x)
            BY <2>1 DEF Below
      <2> QED
          BY <2>1, <2>2
<1> QED
    BY <1>3

\* A table of the first n steps that satisfies the equation of UpstreamOf.
Closes(f, n) ==
    \A s \in 1..n : f[s] = DependsOn[s] \cup UNION {f[d] : d \in DependsOn[s]}

\* There is one for every n: dependencies are earlier steps, so a table of n - 1
\* steps has everything the n-th needs.
LEMMA TablesExist ==
    ASSUME NEW n \in 0..LastStep
    PROVE  \E f \in [1..n -> SUBSET Steps] : Closes(f, n)
<1> DEFINE Missing == {m \in 0..LastStep : ~ \E f \in [1..m -> SUBSET Steps] : Closes(f, m)}
<1> SUFFICES ASSUME Missing # {} PROVE FALSE
    OBVIOUS
<1>0. LastStep \in Nat /\ Missing \subseteq Nat
      BY StepGraphAssumption
<1> HIDE DEF Missing
<1>1. PICK m \in Missing : \A k \in Missing : m <= k
      BY <1>0, LeastMember
<1>2. m \in 0..LastStep /\ ~ \E f \in [1..m -> SUBSET Steps] : Closes(f, m)
      BY <1>1 DEF Missing
<1>3. m # 0
      <2> SUFFICES ASSUME m = 0 PROVE FALSE
          OBVIOUS
      <2>1. [s \in 1..0 |-> {}] \in [1..0 -> SUBSET Steps] /\ Closes([s \in 1..0 |-> {}], 0)
            BY DEF Closes
      <2> QED
          BY <1>2, <2>1
<1>4. m - 1 \in 0..LastStep /\ m - 1 \notin Missing
      BY <1>0, <1>1, <1>2, <1>3
<1>5. PICK f \in [1..(m - 1) -> SUBSET Steps] : Closes(f, m - 1)
      BY <1>4 DEF Missing
<1> DEFINE last == DependsOn[m] \cup UNION {f[d] : d \in DependsOn[m]}
           g == [s \in 1..m |-> IF s = m THEN last ELSE f[s]]
<1>6. m \in Steps /\ 1..m \subseteq Steps /\ \A s \in 1..m : DependsOn[s] \subseteq 1..(s - 1)
      <2>1. m \in Nat /\ LastStep \in Nat /\ m <= LastStep /\ m >= 1
            BY <1>0, <1>2, <1>3
      <2>2. m \in Steps /\ 1..m \subseteq Steps
            BY <2>1 DEF Steps
      <2>3. ASSUME NEW s \in 1..m, NEW d \in DependsOn[s] PROVE d \in 1..(s - 1)
            <3>1. s \in Steps /\ d \in Steps /\ d < s
                  BY <2>2, StepGraphAssumption
            <3> QED
                BY <3>1, <2>1 DEF Steps
      <2> QED
          BY <2>2, <2>3
<1>7. \A s \in 1..m : \A d \in DependsOn[s] : d \in 1..(m - 1) /\ d # m
      <2> SUFFICES ASSUME NEW s \in 1..m, NEW d \in DependsOn[s] PROVE d \in 1..(m - 1) /\ d # m
          OBVIOUS
      <2>1. d \in 1..(s - 1) /\ m \in Nat
            BY <1>0, <1>2, <1>6
      <2> QED
          BY <2>1
<1>8. last \in SUBSET Steps
      <2>1. DependsOn[m] \subseteq Steps
            BY <1>6, StepGraphAssumption
      <2>2. \A d \in DependsOn[m] : f[d] \subseteq Steps
            <3>1. m \in 1..m
                  BY <1>0, <1>2, <1>3
            <3> QED
                BY <3>1, <1>5, <1>7
      <2> QED
          BY <2>1, <2>2
<1> HIDE DEF last
<1>9. \A s \in 1..m : s # m => s \in 1..(m - 1)
      BY <1>0, <1>2
<1>10. g \in [1..m -> SUBSET Steps]
      BY <1>5, <1>8, <1>9
<1>11. ASSUME NEW s \in 1..m
       PROVE  g[s] = DependsOn[s] \cup UNION {g[d] : d \in DependsOn[s]}
      <2>1. \A d \in DependsOn[s] : g[d] = f[d]
            <3> SUFFICES ASSUME NEW d \in DependsOn[s] PROVE g[d] = f[d]
                OBVIOUS
            <3>1. d \in 1..m /\ d # m
                  BY <1>0, <1>2, <1>7
            <3> QED
                BY <3>1
      <2>2. {g[d] : d \in DependsOn[s]} = {f[d] : d \in DependsOn[s]}
            BY <2>1
      <2>3. CASE s = m
            BY <2>2, <2>3 DEF last
      <2>4. CASE s # m
            <3>1. s \in 1..(m - 1) /\ g[s] = f[s]
                  BY <1>9, <2>4
            <3> QED
                BY <2>2, <3>1, <1>5 DEF Closes
      <2> QED
          BY <2>3, <2>4
<1> HIDE DEF g
<1> QED
    BY <1>2, <1>10, <1>11 DEF Closes

\* So UpstreamOf satisfies the equation it is defined by.
LEMMA UpstreamEquation ==
    /\ DOMAIN UpstreamOf = Steps
    /\ \A s \in Steps : UpstreamOf[s] = DependsOn[s] \cup UNION {UpstreamOf[d] : d \in DependsOn[s]}
<1>1. PICK f \in [Steps -> SUBSET Steps] : Closes(f, LastStep)
      <2>1. LastStep \in 0..LastStep
            BY StepGraphAssumption
      <2> QED
          BY <2>1, TablesExist DEF Steps
<1>2. f = [s \in Steps |-> DependsOn[s] \cup UNION {f[d] : d \in DependsOn[s]}]
      <2>1. \A s \in Steps : f[s] = DependsOn[s] \cup UNION {f[d] : d \in DependsOn[s]}
            BY <1>1 DEF Closes, Steps
      <2> QED
          BY <2>1
<1>3. UpstreamOf = [s \in Steps |-> DependsOn[s] \cup UNION {UpstreamOf[d] : d \in DependsOn[s]}]
      BY <1>2, Zenon DEF UpstreamOf
<1> QED
    BY <1>3

\* No step rests on itself or on a later one, so none marks itself stale.
LEMMA UpstreamIsEarlier ==
    ASSUME NEW s \in Steps, NEW d \in UpstreamOf[s]
    PROVE  d \in Steps /\ d < s
<1> DEFINE Bad == {t \in Steps : \E e \in UpstreamOf[t] : ~ (e \in Steps /\ e < t)}
<1> SUFFICES ASSUME Bad # {} PROVE FALSE
    OBVIOUS
<1>1. Bad \subseteq Nat
      BY StepGraphAssumption DEF Steps
<1> HIDE DEF Bad
<1>2. PICK t \in Bad : \A u \in Bad : t <= u
      BY <1>1, LeastMember
<1>3. t \in Steps
      BY <1>2 DEF Bad
<1>4. PICK e \in UpstreamOf[t] : ~ (e \in Steps /\ e < t)
      BY <1>2 DEF Bad
<1>5. CASE e \in DependsOn[t]
      BY <1>3, <1>4, <1>5, StepGraphAssumption
<1>6. CASE \E c \in DependsOn[t] : e \in UpstreamOf[c]
      <2>1. PICK c \in DependsOn[t] : e \in UpstreamOf[c]
            BY <1>6
      <2>2. c \in Steps /\ c < t /\ c \in Nat /\ t \in Nat
            BY <1>3, StepGraphAssumption DEF Steps
      <2>3. c \notin Bad
            BY <1>2, <2>2
      <2>4. e \in Steps /\ e < c
            BY <2>1, <2>2, <2>3 DEF Bad
      <2> QED
          BY <1>4, <2>2, <2>4 DEF Steps
<1>7. e \in DependsOn[t] \cup UNION {UpstreamOf[c] : c \in DependsOn[t]}
      BY <1>3, <1>4, UpstreamEquation
<1> QED
    BY <1>5, <1>6, <1>7

\* Every step that consumes s or one of T is in T: the frontier of
\* downstream_steps has nothing left to add.
HoldsConsumers(s, T) ==
    \A d \in Steps : s \in DependsOn[d] \/ DependsOn[d] \cap T # {} => d \in T

\* An acceptance marks what the worklist of downstream_steps collects: the least
\* set that holds every consumer of the step and of its own members, whatever
\* the graph.  The step itself is not among them.
THEOREM DownstreamIsLeast ==
    \A s \in Steps :
        /\ s \notin Downstream(s)
        /\ HoldsConsumers(s, Downstream(s))
        /\ \A T : HoldsConsumers(s, T) => Downstream(s) \subseteq T
<1> SUFFICES ASSUME NEW s \in Steps
             PROVE  /\ s \notin Downstream(s)
                    /\ HoldsConsumers(s, Downstream(s))
                    /\ \A T : HoldsConsumers(s, T) => Downstream(s) \subseteq T
    OBVIOUS
<1>1. s \notin Downstream(s)
      <2> SUFFICES ASSUME s \in UpstreamOf[s] PROVE FALSE
          BY DEF Downstream
      <2>1. s < s /\ s \in Nat
            BY UpstreamIsEarlier, StepGraphAssumption DEF Steps
      <2> QED
          BY <2>1
<1>2. HoldsConsumers(s, Downstream(s))
      <2> SUFFICES ASSUME NEW d \in Steps, s \in DependsOn[d] \/ DependsOn[d] \cap Downstream(s) # {}
                   PROVE  s \in UpstreamOf[d]
          BY DEF HoldsConsumers, Downstream
      <2>1. s \in DependsOn[d] \/ \E c \in DependsOn[d] : s \in UpstreamOf[c]
            BY DEF Downstream
      <2>2. UpstreamOf[d] = DependsOn[d] \cup UNION {UpstreamOf[c] : c \in DependsOn[d]}
            BY UpstreamEquation
      <2> QED
          BY <2>1, <2>2
<1>3. ASSUME NEW T, HoldsConsumers(s, T), ~ (Downstream(s) \subseteq T)
      PROVE  FALSE
      <2> DEFINE Left == Downstream(s) \ T
      <2>1. Left # {} /\ Left \subseteq Nat
            BY <1>3, StepGraphAssumption DEF Downstream, Steps
      <2> HIDE DEF Left
      <2>2. PICK d \in Left : \A e \in Left : d <= e
            BY <2>1, LeastMember
      <2>3. d \in Steps /\ s \in UpstreamOf[d] /\ d \notin T
            BY <2>2 DEF Left, Downstream
      <2>4. s \in DependsOn[d] \cup UNION {UpstreamOf[c] : c \in DependsOn[d]}
            BY <2>3, UpstreamEquation
      <2>5. CASE s \in DependsOn[d]
            BY <1>3, <2>3, <2>5 DEF HoldsConsumers
      <2>6. CASE \E c \in DependsOn[d] : s \in UpstreamOf[c]
            <3>1. PICK c \in DependsOn[d] : s \in UpstreamOf[c]
                  BY <2>6
            <3>2. c \in Steps /\ c < d /\ c \in Nat /\ d \in Nat
                  BY <2>3, StepGraphAssumption DEF Steps
            <3>3. c \notin Left /\ c \in Downstream(s)
                  BY <2>2, <3>1, <3>2 DEF Downstream
            <3>4. c \in T
                  BY <3>3 DEF Left
            <3> QED
                BY <1>3, <2>3, <3>4 DEF HoldsConsumers
      <2> QED
          BY <2>4, <2>5, <2>6
<1> QED
    BY <1>1, <1>2, <1>3

=============================================================================
