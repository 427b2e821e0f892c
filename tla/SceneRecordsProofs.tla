-------------------------- MODULE SceneRecordsProofs --------------------------
(***************************************************************************)
(* Proofs about SceneRecords: one line of commits per record, a derived    *)
(* artifact that is the accepted list, and the implementation of           *)
(* AcceptedScenes.  Rows are only ever added and decided, so most steps    *)
(* keep every row there is; the proof treats those steps together.         *)
(***************************************************************************)
EXTENDS SceneRecords, TLAPS

IsCommitted(r, n) == revision[r][n].status \in Committed

\* A revision was made against an earlier one that is or was the head.
RowsSound ==
    \A r \in Records, n \in Numbers : revision[r][n] # Absent =>
        /\ revision[r][n].base < n
        /\ revision[r][n].base # 0 => IsCommitted(r, revision[r][n].base)

\* The head is the newest committed revision.
HeadsSound ==
    \A r \in Records :
        /\ head[r] # 0 => IsCommitted(r, head[r])
        /\ \A n \in Numbers : IsCommitted(r, n) => n <= head[r]

\* No committed revision lies between another one and its base.
LineSound ==
    \A r \in Records, m, n \in Numbers :
        m < n /\ IsCommitted(r, m) /\ IsCommitted(r, n) => m <= revision[r][n].base

RequestType == [pc : {"idle", "composed", "numbered", "generating", "generated"},
                draft : Drafts, no : 0..MaxRevision]

\* What a request will insert was read from committed heads; an author's number
\* comes after the head it is based on, and he writes about one record.
Sound(x) ==
    /\ \A r \in Drafted(x.draft) : x.draft[r].base # 0 => IsCommitted(r, x.draft[r].base)
    /\ x.pc = "numbered" =>
        /\ x.no \in Numbers
        /\ \A r \in Drafted(x.draft) : x.draft[r].base < x.no
    /\ x.pc \in {"composed", "numbered"} => \A r, s \in Drafted(x.draft) : r = s

RequestSound(q) == Sound(request[q])

\* The inductive invariant.
IInv ==
    /\ TypeOK
    /\ RowsSound
    /\ HeadsSound
    /\ LineSound
    /\ \A q \in Requests : RequestSound(q)
    /\ snapshot = AcceptedList(revision, head)

-----------------------------------------------------------------------------
(* Steps that keep every row and decide none *)

\* A row is absent or has a position, a base and a status of its own.
LEMMA RowCases ==
    ASSUME TypeOK, NEW r \in Records, NEW n \in Numbers
    PROVE  /\ revision[r][n] \in {Absent} \cup Row
           /\ revision[r][n] # Absent => /\ revision[r][n] \in Row
                                         /\ revision[r][n].position \in Positions
                                         /\ revision[r][n].base \in 0..MaxRevision
           /\ revision[r][n] = Absent <=> revision[r][n].status = "absent"
           /\ IsCommitted(r, n) => revision[r][n] # Absent
  <1>1. revision[r][n] \in {Absent} \cup Row BY DEF TypeOK
  <1> QED BY <1>1 DEF Absent, Row, IsCommitted, Committed

\* What the steps before a decision do to the rows: they add pending ones that
\* are based on earlier commits.
Adds ==
    \A r \in Records, n \in Numbers :
        \/ revision'[r][n] = revision[r][n]
        \/ /\ revision[r][n] = Absent
           /\ revision'[r][n].status = "pending"
           /\ revision'[r][n].base < n
           /\ revision'[r][n].base # 0 => IsCommitted(r, revision'[r][n].base)

\* Such a step leaves the same rows committed.
LEMMA SameCommits ==
    ASSUME TypeOK, Adds, NEW r \in Records, NEW n \in Numbers
    PROVE  /\ IsCommitted(r, n)' <=> IsCommitted(r, n)
           /\ IsCommitted(r, n) => revision'[r][n] = revision[r][n]
  BY RowCases DEF Adds, IsCommitted, Committed, Absent

\* Such a step keeps the invariant if its request stays sound.
LEMMA AddsKeeps ==
    ASSUME IInv, TypeOK', Adds, UNCHANGED <<head, snapshot>>, NEW q \in Requests,
           RequestSound(q)', \A p \in Requests \ {q} : request'[p] = request[p]
    PROVE  IInv'
  <1>1. TypeOK BY DEF IInv
  <1>2. \A r \in Records, n \in 0..MaxRevision : n # 0 => n \in Numbers
    BY SceneRecordsAssumption DEF Numbers
  <1>3. RowsSound'
    <2> SUFFICES ASSUME NEW r \in Records, NEW n \in Numbers, revision'[r][n] # Absent
                 PROVE  /\ revision'[r][n].base < n
                        /\ revision'[r][n].base # 0 => revision'[r][revision'[r][n].base].status \in Committed
      BY DEF RowsSound, IsCommitted, Absent, Numbers
    <2>1. revision'[r][n].base \in 0..MaxRevision
      <3>1. revision'[r][n] \in Row BY DEF TypeOK
      <3> QED BY <3>1 DEF Row
    <2>2. PICK b \in 0..MaxRevision : b = revision'[r][n].base BY <2>1
    <2>3. b < n /\ (b # 0 => IsCommitted(r, b))
      BY <2>2 DEF Adds, IInv, RowsSound
    <2>4. b # 0 => IsCommitted(r, b)' BY <1>1, <1>2, <2>3, SameCommits
    <2> QED BY <2>2, <2>3, <2>4 DEF IsCommitted
  <1>4. HeadsSound'
    <2> SUFFICES ASSUME NEW r \in Records
                 PROVE  /\ head[r] # 0 => IsCommitted(r, head[r])'
                        /\ \A n \in Numbers : IsCommitted(r, n)' => n <= head[r]
      BY DEF HeadsSound, IsCommitted, Numbers
    <2>1. head[r] \in 0..MaxRevision BY <1>1 DEF TypeOK
    <2>2. PICK h \in 0..MaxRevision : h = head[r] BY <2>1
    <2>3. h # 0 => IsCommitted(r, h) BY <2>2 DEF IInv, HeadsSound
    <2>4. h # 0 => IsCommitted(r, h)' BY <1>1, <1>2, <2>3, SameCommits
    <2>5. \A n \in Numbers : IsCommitted(r, n)' => n <= head[r]
      BY <1>1, SameCommits DEF IInv, HeadsSound
    <2> QED BY <2>2, <2>4, <2>5 DEF IsCommitted
  <1>5. LineSound'
    <2> SUFFICES ASSUME NEW r \in Records, NEW m \in Numbers, NEW n \in Numbers,
                        m < n, IsCommitted(r, m)', IsCommitted(r, n)'
                 PROVE  m <= revision'[r][n].base
      BY DEF LineSound, IsCommitted, Numbers
    <2>1. IsCommitted(r, m) /\ IsCommitted(r, n) /\ revision'[r][n] = revision[r][n]
      BY <1>1, SameCommits
    <2> QED BY <2>1 DEF IInv, LineSound
  <1>6. ASSUME NEW p \in Requests PROVE RequestSound(p)'
    <2>1. CASE p = q BY <2>1
    <2>2. CASE p # q
      <3>1. request'[p] = request[p] /\ RequestSound(p) BY <2>2 DEF IInv
      <3>2. ASSUME NEW r \in Drafted(request[p].draft)
            PROVE  request[p].draft[r].base # 0 =>
                      revision'[r][request[p].draft[r].base].status \in Committed
        <4>1. r \in Records /\ request[p].draft \in Drafts BY <1>1 DEF TypeOK, Drafted
        <4>2. PICK b \in 0..MaxRevision : b = request[p].draft[r].base
          BY <4>1, SceneRecordsAssumption DEF Drafts, NoRow
        <4>3. b # 0 => IsCommitted(r, b) BY <3>1, <4>2 DEF RequestSound, Sound
        <4>4. b # 0 => IsCommitted(r, b)' BY <1>1, <1>2, <4>1, <4>3, SameCommits
        <4> QED BY <4>2, <4>4 DEF IsCommitted
      <3> QED BY <3>1, <3>2 DEF RequestSound, Sound, IsCommitted, Drafted, NoRow, Numbers
    <2> QED BY <2>1, <2>2
  <1>7. snapshot' = AcceptedList(revision', head')
    <2>1. \A r \in Records : head[r] # 0 => revision'[r][head[r]] = revision[r][head[r]]
      <3> SUFFICES ASSUME NEW r \in Records, head[r] # 0
                   PROVE  revision'[r][head[r]] = revision[r][head[r]]
        OBVIOUS
      <3>1. PICK h \in Numbers : h = head[r] BY <1>1, <1>2 DEF TypeOK
      <3>2. IsCommitted(r, h) BY <3>1 DEF IInv, HeadsSound
      <3> QED BY <1>1, <3>1, <3>2, SameCommits
    <2>2. AcceptedList(revision', head) = AcceptedList(revision, head)
      BY <2>1 DEF AcceptedList
    <2> QED BY <2>2 DEF IInv
  <1> QED BY <1>3, <1>4, <1>5, <1>6, <1>7 DEF IInv


\* A step of a request that leaves the rows alone.
LEMMA RequestKeeps ==
    ASSUME IInv, NEW q \in Requests, NEW x \in RequestType, Sound(x),
           request' = [request EXCEPT ![q] = x], UNCHANGED <<revision, head, snapshot>>
    PROVE  IInv'
  <1>1. TypeOK' BY DEF IInv, TypeOK, RequestType
  <1>2. Adds BY DEF Adds
  <1>3. request'[q] = x /\ \A p \in Requests \ {q} : request'[p] = request[p]
    BY DEF IInv, TypeOK
  <1>4. RequestSound(q)'
    BY <1>3 DEF RequestSound, Sound, IsCommitted, Drafted, NoRow, Numbers
  <1> QED BY <1>1, <1>2, <1>3, <1>4, AddsKeeps

\* A request that has ended plans nothing.
LEMMA IdleSound == Idle \in RequestType /\ Sound(Idle)
  <1>1. Drafted(NoDraft) = {} BY DEF Drafted, NoDraft
  <1>2. NoDraft \in Drafts BY DEF NoDraft, Drafts
  <1> QED BY <1>1, <1>2, SceneRecordsAssumption DEF Idle, RequestType, Sound

\* The head of a record is 0 or a committed row.
LEMMA HeadCases ==
    ASSUME IInv, NEW r \in Records
    PROVE  /\ head[r] \in 0..MaxRevision
           /\ head[r] # 0 => /\ head[r] \in Numbers
                             /\ IsCommitted(r, head[r])
                             /\ revision[r][head[r]].position \in Positions
                             /\ head[r] \in Rows(r)
  <1>1. PICK h \in 0..MaxRevision : h = head[r] BY DEF IInv, TypeOK
  <1>2. CASE h # 0
    <2>1. h \in Numbers /\ IsCommitted(r, h)
      BY <1>1, <1>2, SceneRecordsAssumption DEF Numbers, IInv, HeadsSound
    <2> QED BY <1>1, <2>1, RowCases DEF IInv, Rows
  <1> QED BY <1>1, <1>2

\* The next number of a record is behind its head, and its row is absent.
LEMMA NextNumber ==
    ASSUME IInv, NEW r \in Records, NEW n \in Numbers, IsNext(r, n)
    PROVE  head[r] < n /\ revision[r][n] = Absent
  <1>1. \A m \in Rows(r) : m < n BY DEF IsNext
  <1>2. head[r] < n BY <1>1, HeadCases DEF Numbers
  <1>3. n \notin Rows(r) BY <1>1 DEF Numbers
  <1> QED BY <1>2, <1>3 DEF Rows

\* An author begins a revision against the head.
LEMMA ComposeKeeps ==
    ASSUME IInv, NEW q \in Requests, NEW r \in Records, NEW p \in Positions, Compose(q, r, p)
    PROVE  IInv'
  <1> DEFINE row == [position |-> p, base |-> head[r]]
             draft == [NoDraft EXCEPT ![r] = row]
             x == [pc |-> "composed", no |-> 0, draft |-> draft]
  <1>1. row \in [position : Positions, base : 0..MaxRevision] BY HeadCases
  <1>2. /\ draft \in Drafts /\ draft[r] = row
        /\ \A s \in Records \ {r} : draft[s] = NoRow
    <2> HIDE DEF row
    <2> QED BY <1>1 DEF NoDraft, Drafts
  <1>3. \A s \in Drafted(draft) : s = r BY <1>2 DEF Drafted
  <1>4. x \in RequestType BY <1>2, SceneRecordsAssumption DEF RequestType
  <1>5. draft[r].base # 0 => IsCommitted(r, draft[r].base) BY <1>2, HeadCases
  <1>6. Sound(x)
    <2>1. x.draft = draft /\ x.pc = "composed" OBVIOUS
    <2> HIDE DEF x, draft
    <2> QED BY <1>3, <1>5, <2>1 DEF Sound
  <1>7. request' = [request EXCEPT ![q] = x] BY DEF Compose
  <1> HIDE DEF x
  <1> QED BY <1>4, <1>6, <1>7, RequestKeeps DEF Compose

\* His revision gets its number.
LEMMA NumberedKeeps ==
    ASSUME IInv, NEW q \in Requests, NEW r \in Records, NEW n \in Numbers, Numbered(q, r, n)
    PROVE  IInv'
  <1> DEFINE x == [pc |-> "numbered", draft |-> request[q].draft, no |-> n]
  <1>1. request[q] \in RequestType BY DEF IInv, TypeOK, RequestType
  <1>2. x \in RequestType BY <1>1 DEF RequestType, Numbers
  <1>3. request' = [request EXCEPT ![q] = x]
    <2>1. request \in [Requests -> RequestType] BY DEF IInv, TypeOK, RequestType
    <2>2. request'[q] = x BY <1>1, <2>1 DEF Numbered, RequestType
    <2>3. request' = [request EXCEPT ![q] = request'[q]] BY <2>1 DEF Numbered
    <2> QED BY <2>2, <2>3
  <1>4. Sound(x)
    <2>1. RequestSound(q) /\ request[q].pc = "composed" BY DEF IInv, Numbered
    <2>2. request[q].draft[r].base = head[r] /\ head[r] < n BY NextNumber DEF Numbered
    <2>3. \A s \in Drafted(request[q].draft) : s = r BY <2>1 DEF RequestSound, Sound, Numbered
    <2> QED BY <2>1, <2>2, <2>3 DEF RequestSound, Sound
  <1> HIDE DEF x
  <1> QED BY <1>2, <1>3, <1>4, RequestKeeps DEF Numbered

\* A request ends without effect.
LEMMA FailKeeps ==
    ASSUME IInv, NEW q \in Requests, Fail(q)
    PROVE  IInv'
  BY IdleSound, RequestKeeps DEF Fail, End

\* A generation reads its targets.
LEMMA GenerateKeeps ==
    ASSUME IInv, NEW q \in Requests, NEW targets \in SUBSET Records, Generate(q, targets)
    PROVE  IInv'
  <1> DEFINE draft == [r \in Records |->
                IF r \in targets
                THEN [position |-> revision[r][head[r]].position, base |-> head[r]]
                ELSE NoRow]
             x == [pc |-> "generating", no |-> 0, draft |-> draft]
  <1>1. \A r \in targets : head[r] # 0 BY DEF Generate
  <1>2. draft \in Drafts BY <1>1, HeadCases DEF Drafts
  <1>3. \A r \in Drafted(draft) : r \in Records /\ draft[r].base = head[r]
    BY DEF Drafted
  <1>4. x \in RequestType BY <1>2, SceneRecordsAssumption DEF RequestType
  <1>5. Sound(x)
    <2>1. x.draft = draft /\ x.pc = "generating" OBVIOUS
    <2> HIDE DEF x, draft
    <2> QED BY <1>3, <2>1, HeadCases DEF Sound
  <1>6. request' = [request EXCEPT ![q] = x] BY DEF Generate
  <1> HIDE DEF x
  <1> QED BY <1>4, <1>5, <1>6, RequestKeeps DEF Generate

\* A generation reads the heads after the model call.
LEMMA ReadBasesKeeps ==
    ASSUME IInv, NEW q \in Requests, NEW listed \in SUBSET Records,
           NEW given \in [Records -> Positions], ReadBases(q, listed, given)
    PROVE  IInv'
  <1> DEFINE targets == Drafted(request[q].draft)
             PositionOf(r) == IF r \in targets THEN request[q].draft[r].position
                              ELSE IF head[r] # 0 THEN revision[r][head[r]].position
                              ELSE given[r]
             draft == [r \in Records |->
                IF r \in listed THEN [position |-> PositionOf(r), base |-> head[r]] ELSE NoRow]
             x == [pc |-> "generated", no |-> 0, draft |-> draft]
  <1>1. \A r \in Records : PositionOf(r) \in Positions
    <2> TAKE r \in Records
    <2>1. CASE r \in targets
      <3>1. request[q].draft \in Drafts BY DEF IInv, TypeOK
      <3> QED BY <2>1, <3>1 DEF Drafts, Drafted
    <2>2. CASE r \notin targets BY <2>2, HeadCases
    <2> QED BY <2>1, <2>2
  <1>2. draft \in Drafts
    <2> HIDE DEF PositionOf
    <2> QED BY <1>1, HeadCases DEF Drafts
  <1>3. \A r \in Drafted(draft) : r \in Records /\ draft[r].base = head[r]
    BY DEF Drafted
  <1>4. x \in RequestType BY <1>2, SceneRecordsAssumption DEF RequestType
  <1>5. Sound(x)
    <2>1. x.draft = draft /\ x.pc = "generated" OBVIOUS
    <2> HIDE DEF x, draft
    <2> QED BY <1>3, <2>1, HeadCases DEF Sound
  <1>6. request' = [request EXCEPT ![q] = x] BY DEF ReadBases
  <1> HIDE DEF x
  <1> QED BY <1>4, <1>5, <1>6, RequestKeeps DEF ReadBases

\* An author's revision is stored.
LEMMA InsertKeeps ==
    ASSUME IInv, NEW q \in Requests, NEW r \in Records, Insert(q, r)
    PROVE  IInv'
  <1>1. RequestSound(q) /\ request[q].pc = "numbered" /\ r \in Drafted(request[q].draft)
    BY DEF IInv, Insert
  <1>2. PICK n \in Numbers : n = request[q].no BY <1>1 DEF RequestSound, Sound
  <1>3. PICK d : d = request[q].draft[r] OBVIOUS
  <1>4. /\ d \in [position : Positions, base : 0..MaxRevision] /\ d.base < n
        /\ d.base # 0 => IsCommitted(r, d.base)
    <2>1. request[q].draft \in Drafts BY DEF IInv, TypeOK
    <2>2. d # NoRow /\ d \in {NoRow} \cup [position : Positions, base : 0..MaxRevision]
      BY <1>1, <1>3, <2>1 DEF Drafts, Drafted
    <2> QED BY <1>1, <1>2, <1>3, <2>2 DEF RequestSound, Sound
  <1>5. PICK new : new = Inserted(d) OBVIOUS
  <1>6. new \in Row /\ new.status = "pending" /\ new.base = d.base
    BY <1>4, <1>5 DEF Inserted, Row
  <1>7. revision' = [revision EXCEPT ![r][n] = new] /\ revision[r][n] = Absent
    BY <1>2, <1>3, <1>5 DEF Insert
  <1>8. \A s \in Records, m \in Numbers :
            revision'[s][m] = IF s = r /\ m = n THEN new ELSE revision[s][m]
    BY <1>7 DEF IInv, TypeOK
  <1>9. revision' \in [Records -> [Numbers -> {Absent} \cup Row]]
    BY <1>6, <1>7 DEF IInv, TypeOK
  <1>10. Adds BY <1>4, <1>6, <1>7, <1>8 DEF Adds
  <1>11. /\ request'[q] = Idle /\ request' \in [Requests -> RequestType]
         /\ \A p \in Requests \ {q} : request'[p] = request[p]
    BY IdleSound DEF Insert, End, IInv, TypeOK, RequestType
  <1>12. TypeOK' BY <1>9, <1>11 DEF Insert, IInv, TypeOK, RequestType
  <1>13. RequestSound(q)'
    <2>1. Drafted(Idle.draft) = {} /\ Idle.pc = "idle" BY DEF Drafted, Idle, NoDraft
    <2> QED BY <1>11, <2>1 DEF RequestSound, Sound, Drafted, NoRow
  <1> QED BY <1>10, <1>11, <1>12, <1>13, AddsKeeps DEF Insert

\* A generation stores its batch.
LEMMA StoreBatchKeeps ==
    ASSUME IInv, NEW q \in Requests, NEW no \in [Records -> Numbers], StoreBatch(q, no)
    PROVE  IInv'
  <1> DEFINE draft == request[q].draft
             drafted == Drafted(draft)
  <1>1. draft \in Drafts BY DEF IInv, TypeOK
  <1>2. ASSUME NEW r \in drafted
        PROVE  /\ r \in Records /\ Inserted(draft[r]) \in Row
               /\ Inserted(draft[r]).status = "pending" /\ Inserted(draft[r]).base = head[r]
               /\ head[r] < no[r] /\ revision[r][no[r]] = Absent
    <2>1. r \in Records /\ draft[r] \in [position : Positions, base : 0..MaxRevision]
      BY <1>1 DEF Drafts, Drafted
    <2>2. draft[r].base = head[r] /\ IsNext(r, no[r]) BY DEF StoreBatch
    <2>3. head[r] < no[r] /\ revision[r][no[r]] = Absent BY <2>1, <2>2, NextNumber
    <2> QED BY <2>1, <2>2, <2>3 DEF Inserted, Row
  <1>3. revision' = [r \in Records |->
            IF r \in drafted THEN [revision[r] EXCEPT ![no[r]] = Inserted(draft[r])]
            ELSE revision[r]]
    BY DEF StoreBatch
  <1> HIDE DEF drafted, draft
  <1>4. \A s \in Records, m \in Numbers :
            revision'[s][m] = IF s \in drafted /\ m = no[s] THEN Inserted(draft[s]) ELSE revision[s][m]
    BY <1>3 DEF IInv, TypeOK
  <1>5. revision' \in [Records -> [Numbers -> {Absent} \cup Row]]
    <2>1. ASSUME NEW r \in Records PROVE revision'[r] \in [Numbers -> {Absent} \cup Row]
      <3>1. CASE r \in drafted
        <4>1. revision'[r] = [revision[r] EXCEPT ![no[r]] = Inserted(draft[r])] BY <1>3, <3>1
        <4> QED BY <1>2, <3>1, <4>1 DEF IInv, TypeOK
      <3>2. CASE r \notin drafted BY <1>3, <3>2 DEF IInv, TypeOK
      <3> QED BY <3>1, <3>2
    <2> QED BY <1>3, <2>1
  <1>6. Adds
    <2> SUFFICES ASSUME NEW s \in Records, NEW m \in Numbers, s \in drafted, m = no[s]
                 PROVE  /\ revision[s][m] = Absent
                        /\ revision'[s][m].status = "pending"
                        /\ revision'[s][m].base < m
                        /\ revision'[s][m].base # 0 => IsCommitted(s, revision'[s][m].base)
      BY <1>4 DEF Adds
    <2>1. revision'[s][m] = Inserted(draft[s]) BY <1>4
    <2> QED BY <1>2, <2>1, HeadCases
  <1>7. /\ request'[q] = Idle /\ request' \in [Requests -> RequestType]
        /\ \A p \in Requests \ {q} : request'[p] = request[p]
    BY IdleSound DEF StoreBatch, End, IInv, TypeOK, RequestType
  <1>8. TypeOK' BY <1>5, <1>7 DEF StoreBatch, IInv, TypeOK, RequestType
  <1>9. RequestSound(q)'
    <2>1. Drafted(Idle.draft) = {} /\ Idle.pc = "idle" BY DEF Drafted, Idle, NoDraft
    <2> QED BY <1>7, <2>1 DEF RequestSound, Sound, Drafted, NoRow
  <1> QED BY <1>6, <1>7, <1>8, <1>9, AddsKeeps DEF StoreBatch


-----------------------------------------------------------------------------
(* Decisions *)

\* The cells a decision changes: the status of the row, and of the head that an
\* acceptance replaces.
LEMMA DecidedCells ==
    ASSUME IInv, NEW r \in Records, NEW n \in Numbers, NEW status \in {"accepted", "rejected"},
           Current(r, n), revision' = Decided(r, n, status)
    PROVE  /\ revision' \in [Records -> [Numbers -> {Absent} \cup Row]]
           /\ \A s \in Records, m \in Numbers :
                /\ revision'[s][m].position = revision[s][m].position
                /\ revision'[s][m].base = revision[s][m].base
                /\ revision'[s][m].status =
                     IF s = r /\ m = n THEN status
                     ELSE IF status = "accepted" /\ s = r /\ m = head[r] THEN "superseded"
                     ELSE revision[s][m].status
  <1> DEFINE cell(m) == IF m = n THEN [revision[r][m] EXCEPT !.status = status]
                        ELSE IF status = "accepted" /\ m = head[r]
                        THEN [revision[r][m] EXCEPT !.status = "superseded"]
                        ELSE revision[r][m]
  <1>1. revision \in [Records -> [Numbers -> {Absent} \cup Row]] BY DEF IInv, TypeOK
  <1>2. revision' = [revision EXCEPT ![r] = [m \in Numbers |-> cell(m)]] BY DEF Decided
  <1>3. ASSUME NEW m \in Numbers
        PROVE  /\ cell(m) \in {Absent} \cup Row
               /\ cell(m).position = revision[r][m].position /\ cell(m).base = revision[r][m].base
               /\ cell(m).status = IF m = n THEN status
                                   ELSE IF status = "accepted" /\ m = head[r] THEN "superseded"
                                   ELSE revision[r][m].status
    <2>1. PICK old : old = revision[r][m] OBVIOUS
    <2>2. old \in {Absent} \cup Row BY <1>1, <2>1
    <2>3. ASSUME NEW st \in {"accepted", "rejected", "superseded"}, old \in Row
          PROVE  /\ [old EXCEPT !.status = st] \in Row
                 /\ [old EXCEPT !.status = st].position = old.position
                 /\ [old EXCEPT !.status = st].base = old.base
                 /\ [old EXCEPT !.status = st].status = st
      BY <2>3 DEF Row, Committed
    <2>4. CASE m = n
      <3>1. old \in Row BY <2>1, <2>2, <2>4 DEF Current, Absent
      <3> QED BY <2>1, <2>3, <2>4, <3>1
    <2>5. CASE m # n /\ status = "accepted" /\ m = head[r]
      <3>1. IsCommitted(r, m) BY <2>5, HeadCases DEF Numbers
      <3>2. old \in Row BY <2>1, <2>2, <3>1 DEF IsCommitted, Committed, Absent
      <3> QED BY <2>1, <2>3, <2>5, <3>2
    <2>6. CASE m # n /\ ~(status = "accepted" /\ m = head[r]) BY <2>1, <2>2, <2>6
    <2> QED BY <2>4, <2>5, <2>6
  <1> HIDE DEF cell
  <1>4. revision'[r] = [m \in Numbers |-> cell(m)] /\ \A s \in Records \ {r} : revision'[s] = revision[s]
    BY <1>1, <1>2
  <1>5. \A m \in Numbers : revision'[r][m] = cell(m) BY <1>4
  <1>6. [m \in Numbers |-> cell(m)] \in [Numbers -> {Absent} \cup Row] BY <1>3
  <1>7. revision' \in [Records -> [Numbers -> {Absent} \cup Row]] BY <1>1, <1>2, <1>6
  <1>8. ASSUME NEW s \in Records, NEW m \in Numbers
        PROVE  /\ revision'[s][m].position = revision[s][m].position
               /\ revision'[s][m].base = revision[s][m].base
               /\ revision'[s][m].status =
                    IF s = r /\ m = n THEN status
                    ELSE IF status = "accepted" /\ s = r /\ m = head[r] THEN "superseded"
                    ELSE revision[s][m].status
    <2>1. CASE s = r BY <1>3, <1>5, <2>1
    <2>2. CASE s # r BY <1>4, <2>2
    <2> QED BY <2>1, <2>2
  <1> QED BY <1>7, <1>8

\* After an acceptance the row is committed beside those that were; after a
\* rejection those that were.
LEMMA DecidedCommits ==
    ASSUME IInv, NEW r \in Records, NEW n \in Numbers, NEW status \in {"accepted", "rejected"},
           Current(r, n), revision' = Decided(r, n, status),
           NEW s \in Records, NEW m \in Numbers
    PROVE  /\ (revision'[s][m].status \in Committed)
                 <=> IsCommitted(s, m) \/ (status = "accepted" /\ s = r /\ m = n)
           /\ revision'[s][m] = Absent <=> revision[s][m] = Absent
  <1>1. /\ revision'[s][m].status =
             IF s = r /\ m = n THEN status
             ELSE IF status = "accepted" /\ s = r /\ m = head[r] THEN "superseded"
             ELSE revision[s][m].status
        /\ revision'[s][m] \in {Absent} \cup Row
    BY DecidedCells
  <1>2. revision'[s][m] = Absent <=> revision'[s][m].status = "absent"
    BY <1>1 DEF Absent, Row, Committed
  <1>3. revision[s][m] = Absent <=> revision[s][m].status = "absent" BY RowCases DEF IInv
  <1>4. revision[r][n].status = "pending" BY DEF Current
  <1>5. head[r] # 0 => IsCommitted(r, head[r]) BY HeadCases
  <1>6. m # 0 BY DEF Numbers
  <1> QED BY <1>1, <1>2, <1>3, <1>4, <1>5, <1>6 DEF IsCommitted, Committed

\* The parts of the invariant that any decision keeps.
LEMMA DecisionKeeps ==
    ASSUME IInv, NEW r \in Records, NEW n \in Numbers, NEW status \in {"accepted", "rejected"},
           Current(r, n), revision' = Decided(r, n, status), request' = request
    PROVE  /\ RowsSound' /\ \A q \in Requests : RequestSound(q)'
           /\ \A b \in Numbers, s \in Records : IsCommitted(s, b) => revision'[s][b].status \in Committed
  <1>1. \A b \in Numbers, s \in Records : IsCommitted(s, b) => revision'[s][b].status \in Committed
    BY DecidedCommits
  <1>2. \A b \in 0..MaxRevision : b # 0 => b \in Numbers BY SceneRecordsAssumption DEF Numbers
  <1>3. RowsSound'
    <2> SUFFICES ASSUME NEW s \in Records, NEW m \in Numbers, revision'[s][m] # Absent
                 PROVE  /\ revision'[s][m].base < m
                        /\ revision'[s][m].base # 0 => revision'[s][revision'[s][m].base].status \in Committed
      BY DEF RowsSound, IsCommitted, Absent, Numbers
    <2>1. revision[s][m] # Absent BY DecidedCommits
    <2>2. PICK b \in 0..MaxRevision : b = revision[s][m].base BY <2>1, RowCases DEF IInv
    <2>3. revision'[s][m].base = b BY <2>2, DecidedCells
    <2>4. b < m /\ (b # 0 => IsCommitted(s, b)) BY <2>1, <2>2 DEF IInv, RowsSound
    <2> QED BY <1>1, <1>2, <2>3, <2>4
  <1>4. ASSUME NEW q \in Requests PROVE RequestSound(q)'
    <2>1. request[q].draft \in Drafts /\ RequestSound(q) BY DEF IInv, TypeOK
    <2>2. ASSUME NEW s \in Drafted(request[q].draft)
          PROVE  request[q].draft[s].base # 0 =>
                    revision'[s][request[q].draft[s].base].status \in Committed
      <3>1. s \in Records /\ request[q].draft[s].base \in 0..MaxRevision
        BY <2>1, SceneRecordsAssumption DEF Drafts, Drafted, NoRow
      <3> QED BY <1>1, <1>2, <2>1, <3>1 DEF RequestSound, Sound
    <2> QED BY <2>1, <2>2 DEF RequestSound, Sound, IsCommitted, Drafted, NoRow, Numbers
  <1> QED BY <1>1, <1>3, <1>4

\* A rejection keeps the invariant.
LEMMA RejectKeeps ==
    ASSUME IInv, NEW r \in Records, NEW n \in Numbers, Reject(r, n)
    PROVE  IInv'
  <1>1. /\ Current(r, n) /\ revision' = Decided(r, n, "rejected")
        /\ head' = head /\ snapshot' = snapshot /\ request' = request
    BY DEF Reject
  <1>2. RowsSound' /\ \A q \in Requests : RequestSound(q)' BY <1>1, DecisionKeeps
  <1>3. \A s \in Records, m \in Numbers :
            /\ (revision'[s][m].status \in Committed) <=> IsCommitted(s, m)
            /\ revision'[s][m].base = revision[s][m].base
            /\ revision'[s][m].position = revision[s][m].position
    BY <1>1, DecidedCommits, DecidedCells
  <1>4. TypeOK' BY <1>1, DecidedCells DEF IInv, TypeOK
  <1>5. HeadsSound'
    <2> SUFFICES ASSUME NEW s \in Records
                 PROVE  /\ head[s] # 0 => revision'[s][head[s]].status \in Committed
                        /\ \A m \in Numbers : revision'[s][m].status \in Committed => m <= head[s]
      BY <1>1 DEF HeadsSound, IsCommitted, Numbers
    <2> QED BY <1>3, HeadCases DEF IInv, HeadsSound
  <1>6. LineSound'
    <2> SUFFICES ASSUME NEW s \in Records, NEW l \in Numbers, NEW m \in Numbers, l < m,
                        revision'[s][l].status \in Committed, revision'[s][m].status \in Committed
                 PROVE  l <= revision'[s][m].base
      BY DEF LineSound, IsCommitted, Numbers
    <2> QED BY <1>3 DEF IInv, LineSound
  <1>7. snapshot' = AcceptedList(revision', head')
    <2>1. \A s \in Records : head[s] # 0 =>
            revision'[s][head[s]].position = revision[s][head[s]].position
      BY <1>3, HeadCases
    <2>2. AcceptedList(revision', head) = AcceptedList(revision, head) BY <2>1 DEF AcceptedList
    <2> QED BY <1>1, <2>2 DEF IInv
  <1> QED BY <1>2, <1>4, <1>5, <1>6, <1>7 DEF IInv

\* An acceptance commits a row that is newer than the head, at a free position.
LEMMA AcceptCommits ==
    ASSUME IInv, NEW r \in Records, NEW n \in Numbers, Accept(r, n)
    PROVE  /\ head[r] < n /\ revision[r][n].position \in Positions
           /\ \A s \in Records : head'[s] = IF s = r THEN n ELSE head[s]
           /\ head' \in [Records -> 0..MaxRevision]
  <1>1. revision[r][n] # Absent /\ revision[r][n].base = head[r]
    BY RowCases DEF Accept, Current, Absent
  <1>2. head[r] < n BY <1>1 DEF IInv, RowsSound
  <1> QED BY <1>1, <1>2, RowCases DEF Accept, IInv, TypeOK, Numbers

\* An acceptance keeps the invariant.
LEMMA AcceptKeeps ==
    ASSUME IInv, NEW r \in Records, NEW n \in Numbers, Accept(r, n)
    PROVE  IInv'
  <1>1. /\ Current(r, n) /\ revision' = Decided(r, n, "accepted") /\ request' = request
        /\ snapshot' = AcceptedList(revision', head')
    BY DEF Accept
  <1>2. RowsSound' /\ \A q \in Requests : RequestSound(q)' BY <1>1, DecisionKeeps
  <1>3. \A s \in Records, m \in Numbers :
            /\ (revision'[s][m].status \in Committed) <=> IsCommitted(s, m) \/ (s = r /\ m = n)
            /\ revision'[s][m].base = revision[s][m].base
            /\ revision'[s][m].position = revision[s][m].position
    BY <1>1, DecidedCommits, DecidedCells
  <1>4. /\ head[r] < n /\ revision[r][n].base = head[r]
        /\ \A s \in Records : head'[s] = IF s = r THEN n ELSE head[s]
        /\ head' \in [Records -> 0..MaxRevision]
    BY <1>1, AcceptCommits DEF Current
  <1>5. HeadsSound'
    <2> SUFFICES ASSUME NEW s \in Records
                 PROVE  /\ head'[s] # 0 => revision'[s][head'[s]].status \in Committed
                        /\ \A m \in Numbers : revision'[s][m].status \in Committed => m <= head'[s]
      BY DEF HeadsSound, IsCommitted, Numbers
    <2>1. CASE s = r
      <3>1. \A m \in Numbers : IsCommitted(r, m) => m <= head[r] BY DEF IInv, HeadsSound
      <3>2. head[r] \in 0..MaxRevision BY HeadCases
      <3> QED BY <1>3, <1>4, <2>1, <3>1, <3>2 DEF Numbers
    <2>2. CASE s # r BY <1>3, <1>4, <2>2, HeadCases DEF IInv, HeadsSound
    <2> QED BY <2>1, <2>2
  <1>6. LineSound'
    <2> SUFFICES ASSUME NEW s \in Records, NEW l \in Numbers, NEW m \in Numbers, l < m,
                        revision'[s][l].status \in Committed, revision'[s][m].status \in Committed
                 PROVE  l <= revision'[s][m].base
      BY DEF LineSound, IsCommitted, Numbers
    <2>1. CASE s = r /\ m = n
      <3>1. IsCommitted(r, l) BY <1>3, <2>1 DEF Numbers
      <3>2. l <= head[r] BY <3>1 DEF IInv, HeadsSound
      <3> QED BY <1>3, <1>4, <2>1, <3>2
    <2>2. CASE ~(s = r /\ m = n)
      <3>1. IsCommitted(s, m) BY <1>3, <2>2
      <3>2. CASE s = r /\ l = n
        <4>1. m <= head[r] BY <3>1, <3>2 DEF IInv, HeadsSound
        <4>2. head[r] \in 0..MaxRevision BY HeadCases
        <4> QED BY <1>4, <3>2, <4>1, <4>2 DEF Numbers
      <3>3. CASE ~(s = r /\ l = n) BY <1>3, <3>1, <3>3 DEF IInv, LineSound
      <3> QED BY <3>2, <3>3
    <2> QED BY <2>1, <2>2
  <1>7. TypeOK'
    <2>1. revision' \in [Records -> [Numbers -> {Absent} \cup Row]] BY <1>1, DecidedCells
    <2>2. \A s \in Records : head'[s] # 0 =>
            head'[s] \in Numbers /\ revision'[s][head'[s]].position \in Positions
      <3>1. revision[r][n].position \in Positions BY AcceptCommits
      <3> QED BY <1>3, <1>4, <3>1, HeadCases
    <2>3. snapshot' \subseteq [record : Records, revision : Numbers, position : Positions]
      BY <1>1, <2>2 DEF AcceptedList
    <2> QED BY <1>1, <1>4, <2>1, <2>3 DEF IInv, TypeOK, Numbers
  <1> QED BY <1>1, <1>2, <1>5, <1>6, <1>7 DEF IInv

-----------------------------------------------------------------------------
(* The invariant holds in every state *)

\* No record, no head, no request.
LEMMA InitGood == Init => IInv
  <1> SUFFICES ASSUME Init PROVE IInv OBVIOUS
  <1>1. \A r \in Records, n \in Numbers : revision[r][n] = Absent /\ ~IsCommitted(r, n)
    BY DEF Init, IsCommitted, Committed, Absent
  <1>2. TypeOK
    <2>1. \A q \in Requests : request[q] = Idle BY DEF Init
    <2>2. request \in [Requests -> RequestType] BY <2>1, IdleSound DEF Init
    <2> QED BY <2>2, SceneRecordsAssumption DEF Init, TypeOK, RequestType
  <1>3. \A q \in Requests : RequestSound(q) BY IdleSound DEF Init, RequestSound
  <1>4. AcceptedList(revision, head) = {} BY DEF Init, AcceptedList
  <1>5. HeadsSound BY <1>1 DEF Init, HeadsSound
  <1> QED BY <1>1, <1>2, <1>3, <1>4, <1>5 DEF Init, IInv, RowsSound, LineSound

\* Every step keeps it.
LEMMA NextGood == IInv /\ [Next]_vars => IInv'
  <1> SUFFICES ASSUME IInv, [Next]_vars PROVE IInv' OBVIOUS
  <1>1. ASSUME NEW q \in Requests, NEW r \in Records,
               \/ \E position \in Positions : Compose(q, r, position)
               \/ \E n \in Numbers : Numbered(q, r, n)
               \/ Insert(q, r)
        PROVE  IInv'
    BY <1>1, ComposeKeeps, NumberedKeeps, InsertKeeps
  <1>2. ASSUME NEW q \in Requests, NEW targets \in SUBSET Records, Generate(q, targets)
        PROVE  IInv'
    BY <1>2, GenerateKeeps
  <1>3. ASSUME NEW q \in Requests, NEW listed \in SUBSET Records,
               NEW given \in [Records -> Positions], ReadBases(q, listed, given)
        PROVE  IInv'
    BY <1>3, ReadBasesKeeps
  <1>4. ASSUME NEW q \in Requests, NEW no \in [Records -> Numbers], StoreBatch(q, no)
        PROVE  IInv'
    BY <1>4, StoreBatchKeeps
  <1>5. ASSUME NEW q \in Requests, Fail(q) PROVE IInv' BY <1>5, FailKeeps
  <1>6. ASSUME NEW r \in Records, NEW n \in Numbers, Accept(r, n) \/ Reject(r, n)
        PROVE  IInv'
    BY <1>6, AcceptKeeps, RejectKeeps
  <1>7. CASE UNCHANGED vars
    BY <1>7 DEF vars, IInv, TypeOK, RowsSound, HeadsSound, LineSound, RequestSound, Sound,
                IsCommitted, AcceptedList, Drafted
  <1> QED BY <1>1, <1>2, <1>3, <1>4, <1>5, <1>6, <1>7 DEF Next

\* The invariant of the records.
LEMMA Invariance == Spec => []IInv
  BY InitGood, NextGood, PTL DEF Spec

\* Types: in particular a record never has two rows under one number, and the
\* derived artifact names rows that exist.
THEOREM TypeCorrect == Spec => []TypeOK
  <1>1. IInv => TypeOK BY DEF IInv
  <1> QED BY <1>1, Invariance, PTL

\* The committed revisions of each record are one line, however many authors and
\* generations work on how many records.
THEOREM LineageIsOneLine == Spec => []CommittedLineage
  <1>1. IInv => CommittedLineage
    <2> SUFFICES ASSUME IInv, NEW r \in Records, NEW n \in Numbers, IsCommitted(r, n)
                 PROVE  /\ revision[r][n].base < n /\ n <= head[r]
                        /\ \A m \in Numbers : m < n /\ IsCommitted(r, m) => m <= revision[r][n].base
                        /\ revision[r][n].base # 0 => IsCommitted(r, revision[r][n].base)
      BY DEF CommittedLineage, IsCommitted
    <2>1. revision[r][n] # Absent BY RowCases DEF IInv
    <2>2. /\ revision[r][n].base < n
          /\ revision[r][n].base # 0 => IsCommitted(r, revision[r][n].base)
      BY <2>1 DEF IInv, RowsSound
    <2>3. n <= head[r] BY DEF IInv, HeadsSound
    <2>4. \A m \in Numbers : m < n /\ IsCommitted(r, m) => m <= revision[r][n].base
      BY DEF IInv, LineSound
    <2> QED BY <2>2, <2>3, <2>4
  <1> QED BY <1>1, Invariance, PTL

\* Readers of the derived artifact get the accepted list.
THEOREM SnapshotIsTrue == Spec => []SnapshotIsTheList
  <1>1. IInv => SnapshotIsTheList
    <2> SUFFICES ASSUME IInv, NEW r \in Records, NEW n \in Numbers, NEW p \in Positions
                 PROVE  [record |-> r, revision |-> n, position |-> p] \in snapshot
                            <=> head[r] = n /\ revision[r][n].position = p
      BY DEF SnapshotIsTheList
    <2> DEFINE entry(s) == [record |-> s, revision |-> head[s], position |-> revision[s][head[s]].position]
    <2>1. snapshot = {entry(s) : s \in {s \in Records : head[s] # 0}}
      BY DEF IInv, AcceptedList
    <2>2. ASSUME [record |-> r, revision |-> n, position |-> p] \in snapshot
          PROVE  head[r] = n /\ revision[r][n].position = p
      <3>1. PICK s \in Records : [record |-> r, revision |-> n, position |-> p] = entry(s)
        BY <2>1, <2>2
      <3> QED BY <3>1
    <2>3. ASSUME head[r] = n, revision[r][n].position = p
          PROVE  [record |-> r, revision |-> n, position |-> p] \in snapshot
      <3>1. n # 0 BY DEF Numbers
      <3>2. [record |-> r, revision |-> n, position |-> p] = entry(r) BY <2>3
      <3> QED BY <2>1, <2>3, <3>1, <3>2
    <2> QED BY <2>2, <2>3
  <1> QED BY <1>1, Invariance, PTL

-----------------------------------------------------------------------------
(* The records implement the accepted list *)

\* What readers see of a record.
AcceptedOf(r) ==
    IF head[r] = 0 THEN [revision |-> 0, position |-> 0]
    ELSE [revision |-> head[r], position |-> revision[r][head[r]].position]

AcceptedMap == [r \in Records |-> AcceptedOf(r)]

\* A step that keeps the heads and their positions is not seen by readers.
LEMMA Unseen ==
    ASSUME head' = head,
           \A r \in Records : head[r] # 0 =>
                revision'[r][head[r]].position = revision[r][head[r]].position
    PROVE  AcceptedMap' = AcceptedMap
  <1>1. \A r \in Records : AcceptedOf(r)' = AcceptedOf(r) BY DEF AcceptedOf
  <1> QED BY <1>1 DEF AcceptedMap

\* Requests and rejections are not seen by readers.
LEMMA OnlyAcceptancesAreSeen ==
    ASSUME IInv, [Next]_vars, ~\E r \in Records, n \in Numbers : Accept(r, n)
    PROVE  AcceptedMap' = AcceptedMap
  <1>1. CASE revision' = revision /\ head' = head BY <1>1, Unseen
  <1>2. ASSUME NEW q \in Requests, NEW r \in Records, Insert(q, r)
        PROVE  AcceptedMap' = AcceptedMap
    <2>1. \A s \in Records : head[s] # 0 => revision'[s][head[s]] = revision[s][head[s]]
      <3> SUFFICES ASSUME NEW s \in Records, head[s] # 0
                   PROVE  revision'[s][head[s]] = revision[s][head[s]]
        OBVIOUS
      <3>1. revision[s][head[s]] # Absent /\ head[s] \in Numbers BY HeadCases DEF Rows
      <3>2. revision[r][request[q].no] = Absent BY <1>2 DEF Insert
      <3> QED BY <1>2, <3>1, <3>2 DEF Insert, IInv, TypeOK
    <2>2. head' = head BY <1>2 DEF Insert
    <2> QED BY <2>1, <2>2, Unseen
  <1>3. ASSUME NEW q \in Requests, NEW no \in [Records -> Numbers], StoreBatch(q, no)
        PROVE  AcceptedMap' = AcceptedMap
    <2>1. \A s \in Records : head[s] # 0 => revision'[s][head[s]] = revision[s][head[s]]
      <3> SUFFICES ASSUME NEW s \in Records, head[s] # 0
                   PROVE  revision'[s][head[s]] = revision[s][head[s]]
        OBVIOUS
      <3>1. CASE s \in Drafted(request[q].draft)
        <4>1. head[s] < no[s] BY <1>3, <3>1, NextNumber DEF StoreBatch
        <4>2. revision'[s] = [revision[s] EXCEPT ![no[s]] = Inserted(request[q].draft[s])]
          BY <1>3, <3>1 DEF StoreBatch
        <4>3. head[s] \in Numbers BY HeadCases
        <4> QED BY <4>1, <4>2, <4>3 DEF IInv, TypeOK, Numbers
      <3>2. CASE s \notin Drafted(request[q].draft) BY <1>3, <3>2 DEF StoreBatch
      <3> QED BY <3>1, <3>2
    <2>2. head' = head BY <1>3 DEF StoreBatch
    <2> QED BY <2>1, <2>2, Unseen
  <1>4. ASSUME NEW r \in Records, NEW n \in Numbers, Reject(r, n)
        PROVE  AcceptedMap' = AcceptedMap
    <2>1. Current(r, n) /\ revision' = Decided(r, n, "rejected") /\ head' = head
      BY <1>4 DEF Reject
    <2>2. \A s \in Records, m \in Numbers : revision'[s][m].position = revision[s][m].position
      BY <2>1, DecidedCells
    <2> QED BY <2>1, <2>2, HeadCases, Unseen
  <1> QED BY <1>1, <1>2, <1>3, <1>4
    DEF Next, vars, Compose, Numbered, Generate, ReadBases, Fail

\* An acceptance is a newer revision at a position no other record has.
LEMMA AcceptanceIsCommit ==
    ASSUME IInv, NEW r \in Records, NEW n \in Numbers, Accept(r, n)
    PROVE  LET p == revision[r][n].position IN
           /\ p \in Positions /\ n > AcceptedMap[r].revision
           /\ \A o \in Records \ {r} : AcceptedMap[o].position # p
           /\ AcceptedMap' = [AcceptedMap EXCEPT ![r] = [revision |-> n, position |-> p]]
  <1> DEFINE p == revision[r][n].position
  <1>1. /\ head[r] < n /\ p \in Positions
        /\ \A s \in Records : head'[s] = IF s = r THEN n ELSE head[s]
    BY AcceptCommits
  <1>2. \A s \in Records, m \in Numbers : revision'[s][m].position = revision[s][m].position
    BY DecidedCells DEF Accept
  <1>3. n > AcceptedMap[r].revision
    BY <1>1 DEF AcceptedMap, AcceptedOf, Numbers
  <1>4. ASSUME NEW o \in Records \ {r} PROVE AcceptedMap[o].position # p
    <2>1. head[o] # 0 => revision[o][head[o]].position # p BY DEF Accept, FreePosition
    <2>2. p # 0 BY <1>1, SceneRecordsAssumption
    <2> HIDE DEF p
    <2> QED BY <2>1, <2>2 DEF AcceptedMap, AcceptedOf
  <1>5. AcceptedOf(r)' = [revision |-> n, position |-> p]
    BY <1>1, <1>2 DEF AcceptedOf, Numbers
  <1>6. ASSUME NEW o \in Records \ {r} PROVE AcceptedOf(o)' = AcceptedOf(o)
    BY <1>1, <1>2, HeadCases DEF AcceptedOf
  <1>7. AcceptedMap' = [AcceptedMap EXCEPT ![r] = [revision |-> n, position |-> p]]
    <2> HIDE DEF p
    <2> QED BY <1>5, <1>6 DEF AcceptedMap
  <1> QED BY <1>1, <1>3, <1>4, <1>7

\* The records implement the accepted list the compiler of scenes reads: no two
\* accepted records share a position, and no acceptance is ever taken back.
THEOREM RecordsImplementAcceptedScenes == Spec => ImplementsAcceptedScenes
  <1>1. Init => Abstract!AcceptedInit
    BY DEF Init, Abstract!AcceptedInit, Abstract!Unaccepted
  <1>2. IInv /\ [Next]_vars => [Abstract!AcceptedNext]_AcceptedMap
    <2> SUFFICES ASSUME IInv, [Next]_vars
                 PROVE  Abstract!AcceptedNext \/ AcceptedMap' = AcceptedMap
      OBVIOUS
    <2>1. ASSUME NEW r \in Records, NEW n \in Numbers, Accept(r, n)
          PROVE  Abstract!AcceptedNext
      <3>1. PICK p \in Positions : p = revision[r][n].position BY <2>1, AcceptanceIsCommit
      <3>2. /\ n > AcceptedMap[r].revision
            /\ \A o \in Records \ {r} : AcceptedMap[o].position # p
            /\ AcceptedMap' = [AcceptedMap EXCEPT ![r] = [revision |-> n, position |-> p]]
        BY <2>1, <3>1, AcceptanceIsCommit
      <3>3. Abstract!Commit(r, n, p)
        BY <3>2 DEF Abstract!Commit, Abstract!Free, AcceptedMap, AcceptedOf
      <3>4. n \in 1..([s \in Records |-> MaxRevision][r]) BY DEF Numbers
      <3>5. \E m \in 1..([s \in Records |-> MaxRevision][r]) : Abstract!Commit(r, m, p)
        BY <3>3, <3>4
      <3> QED BY <3>5 DEF Abstract!AcceptedNext
    <2> QED BY <2>1, OnlyAcceptancesAreSeen
  <1> QED BY <1>1, <1>2, Invariance, PTL
    DEF Spec, ImplementsAcceptedScenes, Abstract!AcceptedSpec, AcceptedMap, AcceptedOf

=============================================================================
