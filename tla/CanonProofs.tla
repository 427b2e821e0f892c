----------------------------- MODULE CanonProofs -----------------------------
(***************************************************************************)
(* Proofs about what becomes canon: the facts of Narrative, and the records *)
(* and threads of Writeback.  The two parts share no state.                 *)
(***************************************************************************)
EXTENDS Narrative, Writeback, TLAPS

-----------------------------------------------------------------------------
(* Narrative.  Facts are independent, so the inductive invariant is a        *)
(* predicate of one fact's story, and each operator that builds a story gets *)
(* a lemma: it yields a good story from a good one.                          *)

\* A history is complete, or its row is still as it was before there was one.
Complete(revs, version) == revs = 1 .. version \/ (version = 1 /\ revs = {})

\* The world's row repeats the fact's.
WorldFollows(s) ==
    /\ s.know[World].status = s.fact.status
    /\ s.know[World].from = s.fact.from
    /\ s.know[World].status = "confirmed" => s.know[World].about = s.fact.text

\* The reader's row and the visibility of a confirmed fact are two forms of one fact.
ReaderFollows(s) ==
    /\ s.know[Reader].status = "confirmed" <=>
          (s.fact.status = "confirmed" /\ s.fact.visible # NoPosition)
    /\ s.know[Reader].status = "confirmed" => /\ s.know[Reader].from = s.fact.visible
                                              /\ s.know[Reader].about = s.fact.text

CharactersFollow(s) ==
    \A c \in Characters :
        /\ s.know[c].status = "confirmed" =>
              /\ s.fact.status = "confirmed"
              /\ s.know[c].about = s.fact.text
        /\ s.roster[c] = IF Untouched(s, c) THEN s.know[c].from
                         ELSE RosterEntry(s.know[c].from, s.know[c].status)

\* Confirmed rows that a request has written lie inside the fact's interval.
Settled(s) ==
    \A h \in Holders : s.know[h].status = "confirmed" =>
        Untouched(s, h) \/ Inside(s.fact, s.know[h].from)

Recording(s) ==
    /\ Complete(s.factRevs, s.fact.version)
    /\ \A h \in Holders : Complete(s.knowRevs[h], s.know[h].version)

\* The inductive invariant of one fact's story.
Good(s) ==
    /\ s \in Stories
    /\ Exists(s) <=> s.fact \in FactRows
    /\ WorldFollows(s)
    /\ ReaderFollows(s)
    /\ CharactersFollow(s)
    /\ Settled(s)
    /\ Recording(s)
    /\ ~Exists(s) => s.fact = NoFact /\ \A h \in Holders : ~Known(s, h)

\* The versions that story n has beside s are the next ones.
Advances(s, n) ==
    /\ n.fact # s.fact => n.fact.version = s.fact.version + 1
    /\ \A h \in Holders : n.know[h] # s.know[h] => n.know[h].version = s.know[h].version + 1

NarrativeInv == NarrativeType /\ \A f \in Facts : Good(story[f])

-----------------------------------------------------------------------------
(* Rows *)

\* The named holders are distinct from each other and from the characters.
LEMMA HoldersDistinct ==
    /\ World # Reader /\ World \in Holders /\ Reader \in Holders
    /\ \A c \in Characters : c \in Holders /\ c # World /\ c # Reader
  BY NarrativeAssumption DEF World, Reader, Holders

\* A row the repository writes is a row, and repeats what it was given.
LEMMA RowType ==
    ASSUME NEW text \in Texts, NEW p \in Positions, NEW status \in FactStatuses,
           NEW version \in Nat \ {0}
    PROVE  /\ Row(text, p, status, version) \in KnowledgeRows
           /\ Row(text, p, status, version).status = status
           /\ Row(text, p, status, version).from = p
           /\ Row(text, p, status, version).version = version
           /\ status = "confirmed" => Row(text, p, status, version).about = text
  BY DEF Row, KnowledgeRows

\* A knowledge row that exists has a status of its own and a positive version.
LEMMA KnowledgeCases ==
    ASSUME NEW k \in KnowledgeRows \cup {NoKnowledge}
    PROVE  /\ k.version \in Nat
           /\ k.status # "absent" => k \in KnowledgeRows
           /\ k.status = "absent" => k = NoKnowledge
           /\ k.status = "confirmed" => k \in KnowledgeRows
  BY DEF KnowledgeRows, NoKnowledge, FactStatuses

\* Recording the replaced and the replacing version keeps a history complete.
LEMMA RecordedComplete ==
    ASSUME NEW revs, NEW v \in Nat, Complete(revs, v)
    PROVE  /\ Complete(Recorded(revs, v, v + 1), v + 1)
           /\ Recorded(revs, v, v + 1) \in SUBSET Nat
           /\ Recorded(revs, v, v + 1) = 1 .. (v + 1)
  <1>1. CASE v = 0 BY <1>1 DEF Complete, Recorded
  <1>2. CASE v # 0 BY <1>2 DEF Complete, Recorded
  <1> QED BY <1>1, <1>2

\* Positions are never the mark of a missing one.
LEMMA PositionsAreReal == \A p \in Positions : p \in Nat /\ p # NoPosition
  BY NarrativeAssumption DEF NoPosition

-----------------------------------------------------------------------------
(* Stories *)

\* What a fact states for each holder, as far as it states anything.
LEMMA StatedPositions ==
    ASSUME NEW row \in FactRows, NEW h \in Holders
    PROVE  /\ Stated(row, h) \in Positions \cup {NoPosition}
           /\ Stated(row, World) = row.from /\ row.from # NoPosition
           /\ Stated(row, Reader) = row.visible
           /\ \A c \in Characters : Stated(row, c) = NoPosition
  BY HoldersDistinct, PositionsAreReal DEF Stated, FactRows

\* What a fact and a roster state for each holder.
Sources(row, roster) ==
    [h \in Holders |-> IF h \in Characters THEN roster[h] ELSE Stated(row, h)]

\* Story s has a row for every holder something is stated for, with histories revs.
Repeats(s, row, roster, revs) ==
    s = [fact |-> row,
         know |-> [h \in Holders |-> IF Sources(row, roster)[h] # NoPosition
                                     THEN Row(row.text, Sources(row, roster)[h], row.status, 1)
                                     ELSE NoKnowledge],
         factRevs |-> revs,
         knowRevs |-> [h \in Holders |-> IF Sources(row, roster)[h] # NoPosition THEN revs ELSE {}],
         roster |-> roster]

\* Such a story is good without histories; with them if the fact is valid and
\* nobody is on the roster.
LEMMA StatedGood ==
    ASSUME NEW row \in FactRows, row.version = 1,
           NEW roster \in [Characters -> Positions \cup {NoPosition}],
           NEW revs \in {{}, {1}}, NEW s, Repeats(s, row, roster, revs),
           revs = {} \/ (ValidFact(row) /\ \A c \in Characters : roster[c] = NoPosition)
    PROVE  /\ Good(s)
           /\ \A o : Good(o) /\ ~Exists(o) => Advances(o, s)
  <1> DEFINE from == Sources(row, roster)
  <1>0. /\ s.fact = row /\ s.factRevs = revs /\ s.roster = roster
        /\ s.know = [h \in Holders |-> IF from[h] # NoPosition
                                       THEN Row(row.text, from[h], row.status, 1) ELSE NoKnowledge]
        /\ s.knowRevs = [h \in Holders |-> IF from[h] # NoPosition THEN revs ELSE {}]
        /\ s = [fact |-> s.fact, know |-> s.know, factRevs |-> s.factRevs,
                knowRevs |-> s.knowRevs, roster |-> s.roster]
    BY DEF Repeats
  <1>00. /\ from = [h \in Holders |-> IF h \in Characters THEN roster[h] ELSE Stated(row, h)]
        /\ from \in [Holders -> Positions \cup {NoPosition}]
    BY StatedPositions DEF Sources
  <1> HIDE DEF from
  <1> USE <1>0, <1>00
  <1>1. /\ row.text \in Texts /\ row.status \in FactStatuses /\ row.from \in Positions
        /\ row.status # "absent"
    BY DEF FactRows, FactStatuses
  <1>2. /\ from[World] = row.from /\ from[Reader] = row.visible
        /\ \A c \in Characters : from[c] = roster[c]
        /\ from[World] # NoPosition
    BY StatedPositions, HoldersDistinct DEF Holders, World, Reader, NarrativeAssumption
  <1>3. ASSUME NEW h \in Holders, from[h] # NoPosition
        PROVE  /\ s.know[h] \in KnowledgeRows
               /\ s.know[h].status = row.status /\ s.know[h].from = from[h]
               /\ s.know[h].version = 1
               /\ row.status = "confirmed" => s.know[h].about = row.text
               /\ s.knowRevs[h] = revs
    <2>1. from[h] \in Positions BY <1>3
    <2>2. s.know[h] = Row(row.text, from[h], row.status, 1) BY <1>3
    <2> QED BY <1>1, <1>3, <2>1, <2>2, RowType
  <1>4. ASSUME NEW h \in Holders, from[h] = NoPosition
        PROVE  /\ s.know[h] = NoKnowledge /\ s.knowRevs[h] = {}
               /\ s.know[h].status = "absent" /\ s.know[h].from = NoPosition
               /\ s.know[h].version = 0
    BY <1>4 DEF NoKnowledge
  <1>5. s \in Stories
    <2>1. s.know \in [Holders -> KnowledgeRows \cup {NoKnowledge}] BY <1>3, <1>4
    <2>2. s.knowRevs \in [Holders -> SUBSET Nat] OBVIOUS
    <2> QED BY <2>1, <2>2 DEF Stories
  <1>6. WorldFollows(s) BY <1>2, <1>3, HoldersDistinct DEF WorldFollows
  <1>7. ReaderFollows(s)
    <2>1. CASE row.visible # NoPosition
      BY <1>2, <1>3, <2>1, HoldersDistinct DEF ReaderFollows
    <2>2. CASE row.visible = NoPosition
      BY <1>2, <1>4, <2>2, HoldersDistinct DEF ReaderFollows
    <2> QED BY <2>1, <2>2
  <1>8. CharactersFollow(s)
    <2> SUFFICES ASSUME NEW c \in Characters
                 PROVE  /\ s.know[c].status = "confirmed" =>
                              row.status = "confirmed" /\ s.know[c].about = row.text
                        /\ s.roster[c] = IF Untouched(s, c) THEN s.know[c].from
                                         ELSE RosterEntry(s.know[c].from, s.know[c].status)
      BY DEF CharactersFollow
    <2>1. c \in Holders /\ from[c] = s.roster[c] BY <1>2, HoldersDistinct
    <2>2. CASE from[c] # NoPosition
      <3>1. s.know[c].status = row.status /\ s.know[c].from = s.roster[c] /\ s.knowRevs[c] = {}
        BY <1>2, <1>3, <2>1, <2>2
      <3>2. Untouched(s, c) BY <1>1, <3>1 DEF Untouched, Known
      <3> QED BY <1>3, <2>1, <2>2, <3>1, <3>2
    <2>3. CASE from[c] = NoPosition
      BY <1>4, <2>1, <2>3 DEF RosterEntry
    <2> QED BY <2>2, <2>3
  <1>9. Settled(s)
    <2> SUFFICES ASSUME NEW h \in Holders, s.know[h].status = "confirmed", ~Untouched(s, h)
                 PROVE  Inside(row, s.know[h].from)
      BY DEF Settled
    <2>1. from[h] # NoPosition BY <1>4
    <2>2. s.know[h].from = from[h] /\ s.knowRevs[h] # {} BY <1>3, <2>1 DEF Untouched, Known
    <2>3. ValidFact(row) /\ h \notin Characters BY <1>2, <1>3, <2>1, <2>2
    <2>4. CASE h = World
      <3>1. row.from \in Nat BY <1>1, PositionsAreReal
      <3> QED BY <1>2, <2>2, <2>3, <2>4, <3>1 DEF ValidFact, Inside
    <2>5. CASE h = Reader BY <1>2, <2>1, <2>2, <2>3, <2>5 DEF ValidFact
    <2> QED BY <2>3, <2>4, <2>5 DEF Holders
  <1>10. Recording(s)
    <2>0. Complete(revs, 1) BY DEF Complete
    <2>1. Complete(s.factRevs, s.fact.version) BY <2>0
    <2>2. ASSUME NEW h \in Holders PROVE Complete(s.knowRevs[h], s.know[h].version)
      <3>1. CASE from[h] # NoPosition BY <1>3, <2>0, <3>1
      <3>2. CASE from[h] = NoPosition
        <4>1. s.know[h].version = 0 /\ s.knowRevs[h] = {} BY <1>4, <3>2
        <4>2. Complete({}, 0) BY DEF Complete
        <4> QED BY <4>1, <4>2
      <3> QED BY <3>1, <3>2
    <2> QED BY <2>1, <2>2 DEF Recording
  <1>11. Good(s)
    BY <1>1, <1>5, <1>6, <1>7, <1>8, <1>9, <1>10 DEF Good, Exists
  <1>12. ASSUME NEW o, Good(o), ~Exists(o) PROVE Advances(o, s)
    <2>1. o.fact.version = 0 BY <1>12 DEF Good, NoFact
    <2>2. \A h \in Holders : o.know[h] = NoKnowledge
      BY <1>12, KnowledgeCases DEF Good, Stories, Known
    <2>3. NoKnowledge.version = 0 BY DEF NoKnowledge
    <2>4. ASSUME NEW h \in Holders, s.know[h] # o.know[h] PROVE s.know[h].version = o.know[h].version + 1
      BY <1>3, <1>4, <2>2, <2>3, <2>4
    <2> QED BY <2>1, <2>4 DEF Advances
  <1> QED BY <1>11, <1>12

\* A fact as it is created is good.
LEMMA CreatedGood ==
    ASSUME NEW row \in FactRows, ValidFact(row), row.version = 1
    PROVE  /\ Good(Created(row))
           /\ \A s : Good(s) /\ ~Exists(s) => Advances(s, Created(row))
  <1> DEFINE roster == [c \in Characters |-> NoPosition]
             from == Sources(row, roster)
             fromRow(h) == Row(row.text, Stated(row, h), row.status, 1)
  <1>1. \A h \in Holders : from[h] = Stated(row, h)
    BY StatedPositions DEF Sources
  <1>2. roster \in [Characters -> Positions \cup {NoPosition}] /\ \A c \in Characters : roster[c] = NoPosition
    OBVIOUS
  <1>3. Created(row) =
            [fact |-> row,
             know |-> [h \in Holders |-> IF Stated(row, h) # NoPosition THEN fromRow(h) ELSE NoKnowledge],
             factRevs |-> {1},
             knowRevs |-> [h \in Holders |-> IF Stated(row, h) # NoPosition THEN {1} ELSE {}],
             roster |-> roster]
    BY Zenon DEF Created
  <1> HIDE DEF roster, from
  <1>4. /\ [h \in Holders |-> IF Stated(row, h) # NoPosition THEN fromRow(h) ELSE NoKnowledge]
             = [h \in Holders |-> IF from[h] # NoPosition
                                  THEN Row(row.text, from[h], row.status, 1) ELSE NoKnowledge]
        /\ [h \in Holders |-> IF Stated(row, h) # NoPosition THEN {1} ELSE {}]
             = [h \in Holders |-> IF from[h] # NoPosition THEN {1} ELSE {}]
    BY <1>1
  <1>5. Repeats(Created(row), row, roster, {1}) BY <1>3, <1>4 DEF Repeats, from
  <1> QED BY <1>2, <1>5, StatedGood

\* A fact as the migrations leave it is good, whatever its interval and roster.
LEMMA LegacyGood ==
    ASSUME NEW row \in FactRows, row.version = 1,
           NEW roster \in [Characters -> Positions \cup {NoPosition}]
    PROVE  Good(Legacy(row, roster))
  <1>1. Repeats(Legacy(row, roster), row, roster, {}) BY DEF Legacy, Repeats, Sources
  <1> QED BY <1>1, StatedGood

\* A correction, to any row whose interval is sound while it is confirmed, is
\* good and records every version it makes.
LEMMA CorrectedGood ==
    ASSUME NEW s, Good(s), Exists(s), NEW row \in FactRows,
           row.version = s.fact.version + 1,
           row.status = "confirmed" => ValidFact(row)
    PROVE  Good(Corrected(s, row)) /\ Advances(s, Corrected(s, row))
  <1> DEFINE n == Corrected(s, row)
             know == [h \in Holders |-> CorrectedRow(s, row, h)]
             recs == [h \in Holders |-> Recorded(s.knowRevs[h], s.know[h].version, know[h].version)]
             roster == [c \in Characters |-> IF Known(s, c) THEN NoPosition ELSE s.roster[c]]
  <1>1. /\ n = [fact |-> row, know |-> know,
                factRevs |-> Recorded(s.factRevs, s.fact.version, row.version),
                knowRevs |-> recs, roster |-> roster]
    BY DEF Corrected
  <1>2. /\ n.fact = row /\ n.know = know /\ n.knowRevs = recs /\ n.roster = roster
        /\ n.factRevs = Recorded(s.factRevs, s.fact.version, row.version)
    BY <1>1
  <1>3. /\ row.text \in Texts /\ row.status \in FactStatuses /\ row.from \in Positions
        /\ s.fact \in FactRows /\ s.fact.version \in Nat /\ s \in Stories
    BY DEF FactRows, Good
  <1>4. /\ s.know \in [Holders -> KnowledgeRows \cup {NoKnowledge}]
        /\ s.knowRevs \in [Holders -> SUBSET Nat] /\ s.factRevs \in SUBSET Nat
        /\ s.roster \in [Characters -> Positions \cup {NoPosition}]
    BY <1>3 DEF Stories
  <1>5. ASSUME NEW h \in Holders, Stated(row, h) # NoPosition
        PROVE  /\ know[h] \in KnowledgeRows
               /\ know[h].status = row.status /\ know[h].from = Stated(row, h)
               /\ know[h].version = s.know[h].version + 1
               /\ row.status = "confirmed" => know[h].about = row.text
    <2>1. Stated(row, h) \in Positions BY <1>5, StatedPositions
    <2>2. s.know[h].version + 1 \in Nat \ {0} BY <1>4, KnowledgeCases
    <2>3. know[h] = Row(row.text, Stated(row, h), row.status, s.know[h].version + 1)
      BY <1>5 DEF CorrectedRow
    <2> HIDE DEF know
    <2> QED BY <1>3, <2>1, <2>2, <2>3, RowType
  <1>6. ASSUME NEW h \in Holders, Stated(row, h) = NoPosition, Known(s, h)
        PROVE  /\ know[h] \in KnowledgeRows
               /\ know[h].status \in {"retracted", "planned"}
               /\ know[h].version = s.know[h].version + 1
    <2>1. s.know[h] \in KnowledgeRows BY <1>4, <1>6, KnowledgeCases DEF Known
    <2>2. s.know[h].from \in Positions /\ s.know[h].version + 1 \in Nat \ {0}
      BY <2>1 DEF KnowledgeRows
    <2>3. TakenBack(row) \in {"retracted", "planned"} /\ TakenBack(row) \in FactStatuses
      BY DEF TakenBack, FactStatuses
    <2>4. know[h] = Row(row.text, s.know[h].from, TakenBack(row), s.know[h].version + 1)
      BY <1>6 DEF CorrectedRow
    <2> HIDE DEF know
    <2> QED BY <1>3, <2>2, <2>3, <2>4, RowType
  <1>7. ASSUME NEW h \in Holders, Stated(row, h) = NoPosition, ~Known(s, h)
        PROVE  know[h] = NoKnowledge /\ s.know[h] = NoKnowledge
    <2>1. s.know[h] = NoKnowledge BY <1>4, <1>7, KnowledgeCases DEF Known
    <2>2. know[h] = s.know[h] BY <1>7 DEF CorrectedRow
    <2> QED BY <2>1, <2>2
  <1>8. \A h \in Holders : recs[h] = Recorded(s.knowRevs[h], s.know[h].version, know[h].version)
    OBVIOUS
  <1>9. \A c \in Characters : roster[c] = IF Known(s, c) THEN NoPosition ELSE s.roster[c]
    OBVIOUS
  <1>10. know \in [Holders -> KnowledgeRows \cup {NoKnowledge}]
    <2> SUFFICES ASSUME NEW h \in Holders
                 PROVE  CorrectedRow(s, row, h) \in KnowledgeRows \cup {NoKnowledge}
      OBVIOUS
    <2>1. know[h] = CorrectedRow(s, row, h) OBVIOUS
    <2> HIDE DEF know
    <2> QED BY <1>5, <1>6, <1>7, <2>1
  <1>11. recs = [h \in Holders |-> recs[h]] /\ roster = [c \in Characters |-> roster[c]]
    OBVIOUS
  <1> HIDE DEF n, know, recs, roster
  <1>12. Complete(n.factRevs, row.version) /\ n.factRevs \in SUBSET Nat
    BY <1>2, <1>3, RecordedComplete DEF Good, Recording
  <1>13. ASSUME NEW h \in Holders
         PROVE  recs[h] \in SUBSET Nat /\ Complete(recs[h], know[h].version)
    <2>1. s.know[h].version \in Nat /\ Complete(s.knowRevs[h], s.know[h].version)
      BY <1>4, KnowledgeCases DEF Good, Recording
    <2>2. CASE know[h].version = s.know[h].version + 1
      BY <1>8, <2>1, <2>2, RecordedComplete
    <2>3. CASE know[h] = NoKnowledge /\ s.know[h] = NoKnowledge
      <3>1. s.know[h].version = 0 /\ know[h].version = 0 BY <2>3 DEF NoKnowledge
      <3>2. s.knowRevs[h] = {} BY <2>1, <3>1 DEF Complete
      <3> QED BY <1>8, <3>1, <3>2 DEF Recorded, Complete
    <2> QED BY <1>5, <1>6, <1>7, <2>2, <2>3
  <1>14. n \in Stories
    <2>1. recs \in [Holders -> SUBSET Nat] BY <1>11, <1>13
    <2>2. roster \in [Characters -> Positions \cup {NoPosition}]
      BY <1>4, <1>9, <1>11
    <2> QED BY <1>1, <1>2, <1>10, <1>12, <2>1, <2>2 DEF Stories
  <1>15. row.status # "absent" BY DEF FactRows, FactStatuses
  <1>16. WorldFollows(n)
    <2>1. Stated(row, World) = row.from /\ row.from # NoPosition BY StatedPositions, HoldersDistinct
    <2> QED BY <1>2, <1>5, <2>1, HoldersDistinct DEF WorldFollows
  <1>17. ReaderFollows(n)
    <2>1. Stated(row, Reader) = row.visible BY StatedPositions, HoldersDistinct
    <2>2. CASE row.visible # NoPosition
      BY <1>2, <1>5, <2>1, <2>2, HoldersDistinct DEF ReaderFollows
    <2>3. CASE row.visible = NoPosition
      <3>1. know[Reader].status # "confirmed"
        BY <1>6, <1>7, <2>1, <2>3, HoldersDistinct DEF NoKnowledge
      <3> QED BY <1>2, <2>3, <3>1 DEF ReaderFollows
    <2> QED BY <2>2, <2>3
  <1>18. ASSUME NEW h \in Holders PROVE ~Untouched(n, h)
    <2>1. CASE know[h] = NoKnowledge BY <1>2, <2>1 DEF Untouched, Known, NoKnowledge
    <2>2. CASE know[h].version = s.know[h].version + 1
      <3>1. s.know[h].version \in Nat /\ Complete(s.knowRevs[h], s.know[h].version)
        BY <1>4, KnowledgeCases DEF Good, Recording
      <3>2. recs[h] = 1 .. (s.know[h].version + 1) BY <1>8, <2>2, <3>1, RecordedComplete
      <3>3. 1 \in recs[h] BY <3>1, <3>2
      <3> QED BY <1>2, <3>3 DEF Untouched
    <2> QED BY <1>5, <1>6, <1>7, <2>1, <2>2
  <1>19. CharactersFollow(n)
    <2> SUFFICES ASSUME NEW c \in Characters
                 PROVE  know[c].status # "confirmed" /\ roster[c] = NoPosition /\ ~Untouched(n, c)
      BY <1>2 DEF CharactersFollow, RosterEntry
    <2>1. c \in Holders /\ Stated(row, c) = NoPosition BY StatedPositions, HoldersDistinct
    <2>2. know[c].status # "confirmed" BY <1>6, <1>7, <2>1 DEF NoKnowledge
    <2>3. CASE Known(s, c)
      <3>1. ~Untouched(n, c) BY <1>18, <2>1
      <3> QED BY <1>9, <2>2, <2>3, <3>1
    <2>4. CASE ~Known(s, c)
      <3>1. s.know[c].status # "confirmed" /\ ~Untouched(s, c) BY <2>4 DEF Known, Untouched
      <3>2. s.roster[c] = NoPosition BY <3>1 DEF Good, CharactersFollow, RosterEntry
      <3>3. ~Untouched(n, c) BY <1>18, <2>1
      <3> QED BY <1>9, <2>2, <2>4, <3>2, <3>3
    <2> QED BY <2>3, <2>4
  <1>20. Settled(n)
    <2> SUFFICES ASSUME NEW h \in Holders, know[h].status = "confirmed"
                 PROVE  Inside(row, know[h].from)
      BY <1>2 DEF Settled
    <2>1. Stated(row, h) # NoPosition BY <1>6, <1>7 DEF NoKnowledge
    <2>2. know[h].from = Stated(row, h) /\ ValidFact(row) BY <1>5, <2>1
    <2>3. h = World \/ h = Reader BY <2>1, StatedPositions DEF Holders
    <2>4. row.from \in Nat BY <1>3, PositionsAreReal
    <2> QED BY <2>1, <2>2, <2>3, <2>4, StatedPositions, HoldersDistinct DEF ValidFact, Inside
  <1>21. Recording(n) BY <1>2, <1>12, <1>13 DEF Recording
  <1>22. Good(n)
    BY <1>2, <1>14, <1>15, <1>16, <1>17, <1>19, <1>21, <1>20 DEF Good, Exists
  <1>23. Advances(s, n) BY <1>2, <1>5, <1>6, <1>7 DEF Advances
  <1> QED BY <1>22, <1>23 DEF n


\* The fact a knowledge row is written to: only its visibility follows, under a
\* version of its own.
LEMMA ResyncedRow ==
    ASSUME NEW s, s.fact \in FactRows, NEW h \in Holders, NEW p \in Positions, NEW status \in FactStatuses,
           Visibility(s, h, p, status) \in Positions \cup {NoPosition}
    PROVE  LET fact == Resynced(s, h, p, status) IN
           /\ fact \in FactRows
           /\ fact.text = s.fact.text /\ fact.status = s.fact.status
           /\ fact.from = s.fact.from /\ fact.to = s.fact.to
           /\ fact.visible = Visibility(s, h, p, status)
           /\ fact = s.fact \/ fact.version = s.fact.version + 1
  <1> DEFINE visible == Visibility(s, h, p, status)
             moved == [s.fact EXCEPT !.visible = visible, !.version = s.fact.version + 1]
             fact == Resynced(s, h, p, status)
  <1>1. CASE s.fact.visible = visible
    <2>1. fact = s.fact BY <1>1 DEF Resynced
    <2> QED BY <1>1, <2>1
  <1>2. CASE s.fact.visible # visible
    <2>1. fact = moved BY <1>2 DEF Resynced
    <2> HIDE DEF visible, fact
    <2>2. /\ s.fact.version + 1 \in Nat \ {0} /\ visible \in Positions \cup {NoPosition}
      BY DEF FactRows, visible
    <2>3. PICK old : old = s.fact /\ old \in FactRows OBVIOUS
    <2>4. PICK v : v = visible OBVIOUS
    <2>5. PICK k : k = s.fact.version + 1 OBVIOUS
    <2>6. moved = [old EXCEPT !.visible = v, !.version = k] BY <2>3, <2>4, <2>5
    <2>7. /\ moved.text = old.text /\ moved.status = old.status
          /\ moved.from = old.from /\ moved.to = old.to
          /\ moved.visible = v /\ moved.version = k
      BY <2>3, <2>6 DEF FactRows
    <2>8. moved \in FactRows
      BY <2>2, <2>3, <2>4, <2>5, <2>6 DEF FactRows
    <2>9. /\ moved.text = s.fact.text /\ moved.status = s.fact.status
          /\ moved.from = s.fact.from /\ moved.to = s.fact.to
          /\ moved.visible = visible /\ moved.version = s.fact.version + 1
      BY <2>3, <2>4, <2>5, <2>7
    <2> HIDE DEF moved
    <2> QED BY <2>1, <2>8, <2>9 DEF fact, visible
  <1> QED BY <1>1, <1>2

\* Knowledge that passes the checks leaves a good story, and records the new
\* versions of both rows.
LEMMA AssignedGood ==
    ASSUME NEW s, Good(s), Exists(s), NEW h \in Holders, h # World,
           NEW p \in Positions, NEW status \in FactStatuses, ValidKnowledge(s.fact, p, status)
    PROVE  Good(Assigned(s, h, p, status)) /\ Advances(s, Assigned(s, h, p, status))
  <1> DEFINE n == Assigned(s, h, p, status)
             fact == Resynced(s, h, p, status)
             new == Row(s.fact.text, p, status, s.know[h].version + 1)
             know == [s.know EXCEPT ![h] = new]
             recs == [s.knowRevs EXCEPT ![h] = Recorded(s.knowRevs[h], s.know[h].version, new.version)]
             factRecs == IF fact = s.fact THEN s.factRevs
                         ELSE Recorded(s.factRevs, s.fact.version, fact.version)
             roster == [c \in Characters |-> IF c # h THEN s.roster[c] ELSE RosterEntry(p, status)]
  <1>1. n = [fact |-> fact, know |-> know, factRevs |-> factRecs, knowRevs |-> recs, roster |-> roster]
    BY DEF Assigned
  <1>2. /\ n.fact = fact /\ n.know = know /\ n.factRevs = factRecs /\ n.knowRevs = recs
        /\ n.roster = roster
    BY <1>1
  <1>3. s \in Stories /\ s.fact \in FactRows BY DEF Good
  <1>4. /\ s.know \in [Holders -> KnowledgeRows \cup {NoKnowledge}]
        /\ s.knowRevs \in [Holders -> SUBSET Nat] /\ s.factRevs \in SUBSET Nat
        /\ s.roster \in [Characters -> Positions \cup {NoPosition}]
        /\ s.fact.text \in Texts /\ s.fact.version \in Nat
    BY <1>3 DEF Stories, FactRows
  <1>5. Visibility(s, h, p, status) \in Positions \cup {NoPosition}
    BY <1>3 DEF Visibility, FactRows
  <1>6. /\ fact \in FactRows
        /\ fact.text = s.fact.text /\ fact.status = s.fact.status
        /\ fact.from = s.fact.from /\ fact.to = s.fact.to
        /\ fact.visible = Visibility(s, h, p, status)
        /\ fact = s.fact \/ fact.version = s.fact.version + 1
    <2> HIDE DEF fact
    <2> QED BY <1>3, <1>5, ResyncedRow DEF fact
  <1>7. s.know[h].version \in Nat BY <1>4, KnowledgeCases
  <1>8. /\ new \in KnowledgeRows /\ new.status = status /\ new.from = p
        /\ new.version = s.know[h].version + 1
        /\ status = "confirmed" => new.about = s.fact.text
    <2>1. s.know[h].version + 1 \in Nat \ {0} BY <1>7
    <2> QED BY <1>4, <2>1, RowType
  <1>9. /\ know \in [Holders -> KnowledgeRows \cup {NoKnowledge}]
        /\ know[h] = new /\ \A g \in Holders \ {h} : know[g] = s.know[g]
    <2> HIDE DEF new
    <2> QED BY <1>4, <1>8
  <1>10. /\ recs[h] = Recorded(s.knowRevs[h], s.know[h].version, new.version)
         /\ \A g \in Holders \ {h} : recs[g] = s.knowRevs[g]
         /\ recs = [g \in Holders |-> recs[g]]
    <2> HIDE DEF new
    <2> QED BY <1>4
  <1>11. /\ \A c \in Characters : roster[c] = IF c # h THEN s.roster[c] ELSE RosterEntry(p, status)
         /\ roster = [c \in Characters |-> roster[c]]
    OBVIOUS
  <1>12. factRecs = IF fact = s.fact THEN s.factRevs ELSE Recorded(s.factRevs, s.fact.version, fact.version)
    OBVIOUS
  <1> HIDE DEF n, fact, new, know, recs, factRecs, roster
  <1>13. factRecs \in SUBSET Nat /\ Complete(factRecs, fact.version)
    <2>1. Complete(s.factRevs, s.fact.version) BY DEF Good, Recording
    <2>2. CASE fact = s.fact BY <1>4, <1>12, <2>1, <2>2
    <2>3. CASE fact # s.fact
      <3>1. fact.version = s.fact.version + 1 BY <1>6, <2>3
      <3> QED BY <1>4, <1>12, <2>1, <2>3, <3>1, RecordedComplete
    <2> QED BY <2>2, <2>3
  <1>14. ASSUME NEW g \in Holders
         PROVE  recs[g] \in SUBSET Nat /\ Complete(recs[g], know[g].version)
    <2>1. Complete(s.knowRevs[g], s.know[g].version) BY DEF Good, Recording
    <2>2. CASE g = h BY <1>7, <1>8, <1>9, <1>10, <2>1, <2>2, RecordedComplete
    <2>3. CASE g # h BY <1>4, <1>9, <1>10, <2>1, <2>3
    <2> QED BY <2>2, <2>3
  <1>15. n \in Stories
    <2>1. recs \in [Holders -> SUBSET Nat] BY <1>10, <1>14
    <2>2. RosterEntry(p, status) \in Positions \cup {NoPosition} BY DEF RosterEntry
    <2>3. roster \in [Characters -> Positions \cup {NoPosition}] BY <1>4, <1>11, <2>2
    <2> QED BY <1>1, <1>6, <1>9, <1>13, <2>1, <2>3 DEF Stories
  <1>16. fact.status # "absent" BY <1>6 DEF FactRows, FactStatuses
  <1>17. WorldFollows(n)
    BY <1>2, <1>6, <1>9, HoldersDistinct DEF WorldFollows, Good
  <1>18. /\ status = "confirmed" => s.fact.status = "confirmed" /\ Inside(s.fact, p)
    BY DEF ValidKnowledge
  <1>19. ReaderFollows(n)
    <2>1. CASE h = Reader
      <3>1. fact.visible = IF status = "confirmed" THEN p ELSE NoPosition
        BY <1>6, <2>1 DEF Visibility
      <3> QED BY <1>2, <1>6, <1>8, <1>9, <1>18, <2>1, <3>1, PositionsAreReal DEF ReaderFollows
    <2>2. CASE h # Reader
      <3>1. fact.visible = s.fact.visible BY <1>6, <2>2 DEF Visibility
      <3>2. know[Reader] = s.know[Reader] BY <1>9, <2>2, HoldersDistinct
      <3> QED BY <1>2, <1>6, <3>1, <3>2 DEF ReaderFollows, Good
    <2> QED BY <2>1, <2>2
  <1>20. /\ \A g \in Holders \ {h} : Untouched(n, g) <=> Untouched(s, g)
         /\ ~Untouched(n, h)
    <2>1. recs[h] = 1 .. (s.know[h].version + 1)
      BY <1>7, <1>8, <1>10, RecordedComplete DEF Good, Recording
    <2>2. recs[h] # {} BY <1>7, <2>1
    <2> QED BY <1>2, <1>9, <1>10, <2>2 DEF Untouched, Known
  <1>21. CharactersFollow(n)
    <2> SUFFICES ASSUME NEW c \in Characters
                 PROVE  /\ know[c].status = "confirmed" =>
                              fact.status = "confirmed" /\ know[c].about = fact.text
                        /\ roster[c] = IF Untouched(n, c) THEN know[c].from
                                       ELSE RosterEntry(know[c].from, know[c].status)
      BY <1>2 DEF CharactersFollow
    <2>1. CASE c = h BY <1>6, <1>8, <1>9, <1>11, <1>18, <1>20, <2>1
    <2>2. CASE c # h
      <3>1. /\ know[c] = s.know[c] /\ roster[c] = s.roster[c]
            /\ Untouched(n, c) <=> Untouched(s, c)
        BY <1>9, <1>11, <1>20, <2>2, HoldersDistinct
      <3> QED BY <1>6, <3>1 DEF Good, CharactersFollow
    <2> QED BY <2>1, <2>2
  <1>22. Settled(n)
    <2> SUFFICES ASSUME NEW g \in Holders, know[g].status = "confirmed", ~Untouched(n, g)
                 PROVE  Inside(s.fact, know[g].from)
      BY <1>2, <1>6 DEF Settled, Inside
    <2>1. CASE g = h BY <1>8, <1>9, <1>18, <2>1
    <2>2. CASE g # h BY <1>9, <1>20, <2>2 DEF Good, Settled
    <2> QED BY <2>1, <2>2
  <1>23. Recording(n) BY <1>2, <1>13, <1>14 DEF Recording
  <1>24. Good(n)
    BY <1>2, <1>6, <1>15, <1>16, <1>17, <1>19, <1>21, <1>23, <1>22 DEF Good, Exists
  <1>25. Advances(s, n) BY <1>2, <1>6, <1>8, <1>9 DEF Advances
  <1> QED BY <1>24, <1>25 DEF n

\* A fact that was never created is good.
LEMMA NoStoryGood == Good(NoStory)
  <1> DEFINE s == NoStory
             know == [h \in Holders |-> NoKnowledge]
             recs == [h \in Holders |-> {}]
             roster == [c \in Characters |-> NoPosition]
  <1>1. /\ s.fact = NoFact /\ s.know = know /\ s.factRevs = {} /\ s.knowRevs = recs /\ s.roster = roster
        /\ s = [fact |-> NoFact, know |-> know, factRevs |-> {}, knowRevs |-> recs, roster |-> roster]
    BY DEF NoStory
  <1>2. /\ \A h \in Holders : know[h] = NoKnowledge /\ recs[h] = {}
        /\ \A c \in Characters : roster[c] = NoPosition
        /\ know \in [Holders -> {NoKnowledge}] /\ recs \in [Holders -> SUBSET Nat]
        /\ roster \in [Characters -> {NoPosition}]
    OBVIOUS
  <1> HIDE DEF s, know, recs, roster
  <1>3. /\ NoFact.status = "absent" /\ NoFact.version = 0 /\ NoFact.from = NoPosition
        /\ NoKnowledge.status = "absent" /\ NoKnowledge.version = 0 /\ NoKnowledge.from = NoPosition
    BY DEF NoFact, NoKnowledge
  <1>4. NoFact \notin FactRows BY <1>3 DEF FactRows, FactStatuses
  <1>5. s \in Stories BY <1>1, <1>2 DEF Stories
  <1>6. WorldFollows(s) BY <1>1, <1>2, <1>3, HoldersDistinct DEF WorldFollows
  <1>7. ReaderFollows(s) BY <1>1, <1>2, <1>3, HoldersDistinct DEF ReaderFollows
  <1>8. CharactersFollow(s) /\ Settled(s)
    BY <1>1, <1>2, <1>3, HoldersDistinct DEF CharactersFollow, RosterEntry, Settled, Untouched, Known
  <1>9. Recording(s)
    <2>1. 1 .. 0 = {} OBVIOUS
    <2> QED BY <1>1, <1>2, <1>3, <2>1, Zenon DEF Recording, Complete
  <1>10. Good(s)
    BY <1>1, <1>2, <1>3, <1>4, <1>5, <1>6, <1>7, <1>8, <1>9 DEF Good, Exists, Known
  <1> QED BY <1>10 DEF s


-----------------------------------------------------------------------------
(* The invariant *)

\* A form that an author may submit is a row of a fact.
LEMMA FormsAreRows ==
    ASSUME NEW status \in FactStatuses, NEW version \in Nat \ {0}, NEW row \in Forms(status, version)
    PROVE  row \in FactRows /\ row.status = status /\ row.version = version
  BY DEF Forms, FactRows

\* A retraction changes status and version of a fact, nothing else.
LEMMA RetractedRow ==
    ASSUME NEW old \in FactRows
    PROVE  LET row == [old EXCEPT !.status = "retracted", !.version = old.version + 1] IN
           row \in FactRows /\ row.status = "retracted" /\ row.version = old.version + 1
  <1>1. PICK v \in Nat \ {0} : v = old.version + 1 BY DEF FactRows
  <1>2. /\ [old EXCEPT !.status = "retracted", !.version = v] \in FactRows
        /\ [old EXCEPT !.status = "retracted", !.version = v].status = "retracted"
        /\ [old EXCEPT !.status = "retracted", !.version = v].version = v
    BY DEF FactRows, FactStatuses
  <1> QED BY <1>1, <1>2

\* The invariant holds of an empty database and of one without a history.
LEMMA NarrativeInitGood == NarrativeInit => NarrativeInv
  <1> SUFFICES ASSUME NarrativeInit PROVE NarrativeInv OBVIOUS
  <1>1. ASSUME NEW f \in Facts PROVE Good(story[f])
    <2>1. CASE story[f] = NoStory BY <2>1, NoStoryGood
    <2>2. CASE story[f] # NoStory
      <3>1. PICK row \in UNION {Forms(st, 1) : st \in FactStatuses},
                 roster \in [Characters -> Positions \cup {NoPosition}] : story[f] = Legacy(row, roster)
        BY <2>2 DEF NarrativeInit
      <3>2. PICK st \in FactStatuses : row \in Forms(st, 1) BY <3>1
      <3>3. row \in FactRows /\ row.version = 1 BY <3>2, FormsAreRows
      <3> QED BY <3>1, <3>3, LegacyGood
    <2> QED BY <2>1, <2>2
  <1>2. \A f \in Facts : story[f] \in Stories BY <1>1 DEF Good
  <1>3. DOMAIN story = Facts /\ story = [f \in Facts |-> story[f]] BY DEF NarrativeInit
  <1> QED BY <1>1, <1>2, <1>3 DEF NarrativeInv, NarrativeType

\* What a request does to the story of its fact; every request is one of these.
Step(f) ==
    \/ \E row \in FactRows :
        /\ ~Exists(story[f]) /\ ValidFact(row) /\ row.version = 1
        /\ story' = [story EXCEPT ![f] = Created(row)]
    \/ \E row \in FactRows :
        /\ Exists(story[f]) /\ row.version = story[f].fact.version + 1
        /\ row.status = "confirmed" => ValidFact(row)
        /\ story' = [story EXCEPT ![f] = Corrected(story[f], row)]
    \/ \E h \in Holders, p \in Positions, status \in FactStatuses :
        /\ Exists(story[f]) /\ h # World /\ ValidKnowledge(story[f].fact, p, status)
        /\ story' = [story EXCEPT ![f] = Assigned(story[f], h, p, status)]

\* Requests are creations, corrections and assignments.
LEMMA RequestsAreSteps ==
    ASSUME NarrativeInv, NarrativeNext
    PROVE  \E f \in Facts : Step(f)
  <1>1. PICK f \in Facts :
            \/ CreateFact(f)
            \/ \E expected \in 1 .. MaxRowVersion :
                  \/ CorrectFact(f, expected)
                  \/ RetractFact(f, expected)
                  \/ \E h \in Holders : CorrectKnowledge(f, h, expected)
            \/ \E h \in Holders : CreateKnowledge(f, h)
            \/ \E c \in Characters : SetCharacterKnowledge(f, c)
    BY DEF NarrativeNext
  <1>2. CASE CreateFact(f)
    <2>1. PICK status \in FactStatuses : \E row \in Forms(status, 1) :
            ~Exists(story[f]) /\ ValidFact(row) /\ story' = [story EXCEPT ![f] = Created(row)]
      BY <1>2 DEF CreateFact
    <2>1a. PICK row \in Forms(status, 1) :
            ~Exists(story[f]) /\ ValidFact(row) /\ story' = [story EXCEPT ![f] = Created(row)]
      BY <2>1
    <2>2. row \in FactRows /\ row.version = 1 BY FormsAreRows
    <2> QED BY <2>1a, <2>2 DEF Step
  <1>3. ASSUME Exists(story[f])
        PROVE  story[f].fact \in FactRows /\ story[f].fact.version + 1 \in Nat \ {0}
    BY <1>3 DEF NarrativeInv, Good, FactRows
  <1>4. ASSUME NEW expected \in 1 .. MaxRowVersion, CorrectFact(f, expected) PROVE Step(f)
    <2>1. PICK status \in FactStatuses : \E row \in Forms(status, story[f].fact.version + 1) :
            /\ MayChange(story[f]) /\ (status # "retracted" => ValidFact(row))
            /\ story' = [story EXCEPT ![f] = Corrected(story[f], row)]
      BY <1>4 DEF CorrectFact
    <2>1a. PICK row \in Forms(status, story[f].fact.version + 1) :
            /\ MayChange(story[f]) /\ (status # "retracted" => ValidFact(row))
            /\ story' = [story EXCEPT ![f] = Corrected(story[f], row)]
      BY <2>1
    <2>2. Exists(story[f]) BY <2>1a DEF MayChange
    <2>3. row \in FactRows /\ row.status = status /\ row.version = story[f].fact.version + 1
      BY <1>3, <2>2, FormsAreRows
    <2> QED BY <2>1a, <2>2, <2>3 DEF Step
  <1>5. ASSUME NEW expected \in 1 .. MaxRowVersion, RetractFact(f, expected) PROVE Step(f)
    <2> DEFINE row == [story[f].fact EXCEPT !.status = "retracted",
                                            !.version = story[f].fact.version + 1]
    <2>1. MayChange(story[f]) /\ story' = [story EXCEPT ![f] = Corrected(story[f], row)]
      BY <1>5 DEF RetractFact
    <2>2. Exists(story[f]) BY <2>1 DEF MayChange
    <2>3. row \in FactRows /\ row.status = "retracted" /\ row.version = story[f].fact.version + 1
      BY <1>3, <2>2, RetractedRow
    <2> HIDE DEF row
    <2> QED BY <2>1, <2>2, <2>3 DEF Step
  <1>6. ASSUME NEW expected \in 1 .. MaxRowVersion, NEW h \in Holders, CorrectKnowledge(f, h, expected)
        PROVE  Step(f)
    BY <1>6 DEF CorrectKnowledge, Step, MayChange
  <1>7. ASSUME NEW h \in Holders, CreateKnowledge(f, h) PROVE Step(f)
    BY <1>7 DEF CreateKnowledge, Step, MayChange
  <1>8. ASSUME NEW c \in Characters, SetCharacterKnowledge(f, c) PROVE Step(f)
    <2>1. c \in Holders /\ c # World /\ "confirmed" \in FactStatuses BY HoldersDistinct DEF FactStatuses
    <2> QED BY <1>8, <2>1 DEF SetCharacterKnowledge, Step, MayChange
  <1> QED BY <1>1, <1>2, <1>4, <1>5, <1>6, <1>7, <1>8

\* A step replaces one story by a good one, with the versions it makes.
LEMMA StepStory ==
    ASSUME NarrativeInv, NEW f \in Facts, Step(f)
    PROVE  \E new : /\ Good(new) /\ Advances(story[f], new)
                    /\ story' = [story EXCEPT ![f] = new]
  <1>1. Good(story[f]) BY DEF NarrativeInv
  <1> QED BY <1>1, CreatedGood, CorrectedGood, AssignedGood DEF Step

\* Requests keep the invariant, and the stories of other facts.
LEMMA NarrativeNextGood == NarrativeInv /\ [NarrativeNext]_narrativeVars => NarrativeInv'
  <1> SUFFICES ASSUME NarrativeInv, [NarrativeNext]_narrativeVars PROVE NarrativeInv' OBVIOUS
  <1>1. CASE UNCHANGED narrativeVars BY <1>1 DEF narrativeVars, NarrativeInv, NarrativeType
  <1>2. CASE NarrativeNext
    <2>1. PICK f \in Facts : Step(f) BY <1>2, RequestsAreSteps
    <2>2. PICK new : Good(new) /\ story' = [story EXCEPT ![f] = new] BY <2>1, StepStory
    <2>3. new \in Stories BY <2>2 DEF Good
    <2>4. NarrativeType' BY <2>2, <2>3 DEF NarrativeInv, NarrativeType
    <2>5. \A g \in Facts : Good(story'[g]) BY <2>2 DEF NarrativeInv, NarrativeType
    <2> QED BY <2>4, <2>5 DEF NarrativeInv
  <1> QED BY <1>1, <1>2


\* The invariant holds in every state of every behaviour.
LEMMA NarrativeInvariance == NarrativeSpec => []NarrativeInv
  BY NarrativeInitGood, NarrativeNextGood, PTL DEF NarrativeSpec

-----------------------------------------------------------------------------
(* Theorems *)

\* The narrative tables keep their types, for all constants.
THEOREM NarrativeTypeCorrect == NarrativeSpec => []NarrativeType
<1>1. NarrativeInv => NarrativeType BY DEF NarrativeInv
<1> QED BY <1>1, NarrativeInvariance, PTL

\* Prompts and the leak check agree about what the reader knows at every scene,
\* for any facts, characters and positions.
THEOREM PromptsAgree == NarrativeSpec => []PromptAndLeakCheckAgree
<1>1. NarrativeInv => PromptAndLeakCheckAgree
  <2> SUFFICES ASSUME NarrativeInv, NEW p \in Positions
               PROVE  KnownAt(Reader, p) = FactsAt(p) \ HiddenAt(p)
    BY DEF PromptAndLeakCheckAgree, PromptFacts
  <2>1. ASSUME NEW f \in FactsAt(p)
        PROVE  f \in KnownAt(Reader, p) <=> f \notin HiddenAt(p)
    <3>1. f \in Facts /\ story[f].fact.status = "confirmed" BY DEF FactsAt
    <3>2. ReaderFollows(story[f]) BY <3>1 DEF NarrativeInv, Good
    <3> QED BY <3>1, <3>2 DEF KnownAt, HiddenAt, ReaderFollows
  <2>2. KnownAt(Reader, p) \subseteq FactsAt(p) BY DEF KnownAt
  <2> QED BY <2>1, <2>2
<1> QED BY <1>1, NarrativeInvariance, PTL

\* Confirmed knowledge is of the fact as it is now, for every holder, and inside
\* its interval once a request has written the row.
THEOREM KnowledgeIsCurrent == NarrativeSpec => []KnowledgeIsOfThisFact
<1>1. NarrativeInv => KnowledgeIsOfThisFact
  <2> SUFFICES ASSUME NarrativeInv, NEW f \in Facts, NEW h \in Holders,
                      story[f].know[h].status = "confirmed"
               PROVE  /\ story[f].fact.status = "confirmed"
                      /\ story[f].know[h].about = story[f].fact.text
                      /\ Untouched(story[f], h) \/ Inside(story[f].fact, story[f].know[h].from)
    BY DEF KnowledgeIsOfThisFact
  <2>1. Good(story[f]) BY DEF NarrativeInv
  <2>2. Untouched(story[f], h) \/ Inside(story[f].fact, story[f].know[h].from)
    BY <2>1 DEF Good, Settled
  <2>3. story[f].fact.status = "confirmed" /\ story[f].know[h].about = story[f].fact.text
    <3>1. CASE h = World BY <2>1, <3>1 DEF Good, WorldFollows
    <3>2. CASE h = Reader BY <2>1, <3>2 DEF Good, ReaderFollows
    <3>3. CASE h \in Characters BY <2>1, <3>3 DEF Good, CharactersFollow
    <3> QED BY <3>1, <3>2, <3>3 DEF Holders
  <2> QED BY <2>2, <2>3
<1> QED BY <1>1, NarrativeInvariance, PTL

\* The roster repeats the characters' confirmed knowledge and what was backfilled
\* from it and not written since.
THEOREM RosterIsTrue == NarrativeSpec => []RosterIsConfirmedKnowledge
<1>1. NarrativeInv => RosterIsConfirmedKnowledge
  <2> SUFFICES ASSUME NarrativeInv, NEW f \in Facts, NEW c \in Characters
               PROVE  story[f].roster[c] =
                         IF story[f].know[c].status = "confirmed" \/ Untouched(story[f], c)
                         THEN story[f].know[c].from ELSE NoPosition
    BY DEF RosterIsConfirmedKnowledge
  <2>1. CharactersFollow(story[f]) BY DEF NarrativeInv, Good
  <2> QED BY <2>1 DEF CharactersFollow, RosterEntry
<1> QED BY <1>1, NarrativeInvariance, PTL

\* Every version of every row is in the history, once the row has changed.
THEOREM HistoryStaysComplete == NarrativeSpec => []HistoryIsComplete
<1>1. NarrativeInv => HistoryIsComplete
  <2> SUFFICES ASSUME NarrativeInv, NEW f \in Facts
               PROVE  /\ story[f].fact.version > 1 => story[f].factRevs = 1 .. story[f].fact.version
                      /\ \A h \in Holders : story[f].know[h].version > 1 =>
                            story[f].knowRevs[h] = 1 .. story[f].know[h].version
    BY DEF HistoryIsComplete
  <2>1. Recording(story[f]) BY DEF NarrativeInv, Good
  <2> QED BY <2>1 DEF Recording, Complete
<1> QED BY <1>1, NarrativeInvariance, PTL

\* No two contents of a row share a version.
THEOREM VersionsAreContents == NarrativeSpec => VersionsIdentifyContents
<1>1. ASSUME NarrativeInv, [NarrativeNext]_narrativeVars
      PROVE  [\A f \in Facts :
                /\ story'[f].fact # story[f].fact => story'[f].fact.version = story[f].fact.version + 1
                /\ \A h \in Holders : story'[f].know[h] # story[f].know[h] =>
                      story'[f].know[h].version = story[f].know[h].version + 1]_narrativeVars
  <2>1. CASE UNCHANGED narrativeVars BY <2>1
  <2>2. CASE NarrativeNext
    <3>1. PICK g \in Facts : Step(g) BY <1>1, <2>2, RequestsAreSteps
    <3>2. PICK new : Advances(story[g], new) /\ story' = [story EXCEPT ![g] = new]
      BY <1>1, <3>1, StepStory
    <3>3. \A f \in Facts : story'[f] = IF f = g THEN new ELSE story[f]
      BY <1>1, <3>2 DEF NarrativeInv, NarrativeType
    <3> QED BY <3>2, <3>3 DEF Advances
  <2> QED BY <1>1, <2>1, <2>2
<1> QED BY <1>1, NarrativeInvariance, PTL DEF NarrativeSpec, VersionsIdentifyContents

-----------------------------------------------------------------------------
(* Writeback.  Effects happen exactly once, and an accepted update replaces  *)
(* the value its author read.  The version of a record only grows while the  *)
(* record exists, so a version it still has names the value that was read    *)
(* under it.                                                                 *)

\* The author of an update of a record that has not been deleted since, and was
\* there to be read, read a version the record has or had; while it has it, it
\* says what he read.
SawCurrent(p) ==
    LET b == proposals[p].body
        seen == proposals[p].seen
    IN  b.kind = "canon_update" /\ ~proposals[p].gone /\ seen.version # 0 =>
        /\ Here(b.id)
        /\ seen.version <= canon[b.id].version
        /\ seen.version = canon[b.id].version => seen.state = canon[b.id].state

\* The inductive invariant.
IInv ==
    /\ TypeOK
    /\ EffectIffAccepted
    /\ \A p \in Proposals : SawCurrent(p)

ProposalType ==
    [status: ProposalStatuses, body: Bodies \cup {[kind |-> "none"]},
     seen: Rows \cup {NoRow}, gone: BOOLEAN, effects: Nat, rejecting: BOOLEAN]

-----------------------------------------------------------------------------
(* Bodies *)

\* The body of an update names a record and a version of it.
LEMMA UpdateBody ==
    ASSUME TypeOK, NEW p \in Proposals, proposals[p].body.kind = "canon_update"
    PROVE  /\ proposals[p].body.id \in Ids
           /\ proposals[p].body.expected \in Nat \ {0}
           /\ proposals[p].body.after \in Values
  <1>1. PICK b : b = proposals[p].body OBVIOUS
  <1>2. b \in Bodies \cup {[kind |-> "none"]} BY <1>1 DEF TypeOK
  <1>3. b \in UpdateBodies BY <1>1, <1>2 DEF Bodies, ThreadBodies
  <1> QED BY <1>1, <1>3 DEF UpdateBodies

\* The body of a creation names a free identity.
LEMMA CreateBody ==
    ASSUME TypeOK, NEW p \in Proposals, proposals[p].body.kind = "canon_create"
    PROVE  proposals[p].body.id \in Ids /\ proposals[p].body.state \in Values
  <1>1. PICK b : b = proposals[p].body OBVIOUS
  <1>2. b \in Bodies \cup {[kind |-> "none"]} BY <1>1 DEF TypeOK
  <1>3. b \in [kind: {"canon_create"}, id: Ids, state: Values]
    BY <1>1, <1>2 DEF Bodies, ThreadBodies, UpdateBodies
  <1> QED BY <1>1, <1>3

\* What clients and providers send are bodies.
LEMMA RequestBodies ==
    ASSUME NEW b \in Requests
    PROVE  b \in Bodies /\ (b.kind = "canon_update" => b.id \in Ids)
  <1>1. CASE b \in [kind: {"canon_update"}, id: Ids, expected: 1 .. (MaxVersion - 1), after: Values]
    <2>1. 1 .. (MaxVersion - 1) \subseteq Nat \ {0} BY WritebackAssumption
    <2>2. b \in UpdateBodies BY <1>1, <2>1 DEF UpdateBodies
    <2> QED BY <1>1, <2>2 DEF Bodies
  <1>2. CASE b \in ThreadBodies
    <2>1. b.kind # "canon_update" BY <1>2 DEF ThreadBodies
    <2> QED BY <1>2, <2>1 DEF Bodies
  <1>3. CASE b \in [kind: {"canon_create"}, id: Ids, state: Values]
    BY <1>3 DEF Bodies
  <1>4. CASE b \in [kind: {"record"}]
    BY <1>4 DEF Bodies
  <1> QED BY <1>1, <1>2, <1>3, <1>4 DEF Requests

-----------------------------------------------------------------------------
(* Threads *)

\* A thread row stays one after an event.
LEMMA AfterEventType ==
    ASSUME NEW row \in ThreadRows, NEW action \in Actions, NEW s \in Scenes
    PROVE  AfterEvent(row, action, s) \in ThreadRows
  BY DEF AfterEvent, ThreadRows, Actions, AllStatuses

\* An accepted thread proposal leaves thread rows, and the canon alone.
LEMMA ThreadsStayTyped ==
    ASSUME TypeOK, NEW p \in Proposals, Apply(proposals[p].body)
    PROVE  /\ threads' \in [Threads -> ThreadRows \cup {NoThread}]
           /\ proposals[p].body.kind \notin {"canon_update", "canon_create"} => canon' = canon
  <1>1. PICK b : b = proposals[p].body OBVIOUS
  <1>2. b \in Bodies \cup {[kind |-> "none"]} BY <1>1 DEF TypeOK
  <1>3. NewThreads \subseteq ThreadRows BY WritebackAssumption DEF NewThreads, ThreadRows
  <1>4. CASE b.kind = "story_thread_status"
    <2>1. b \in [kind: {"story_thread_status"}, thread: Threads, from: AllStatuses, to: Statuses]
      BY <1>2, <1>4 DEF Bodies, ThreadBodies, UpdateBodies
    <2>2. threads[b.thread].status = b.from /\ canon' = canon
          /\ threads' = [threads EXCEPT ![b.thread].status = b.to]
      BY <1>1, <1>4 DEF Apply, ApplyThreadStatus
    <2>3. b.from # "none" /\ b.to \in AllStatuses BY <2>1, WritebackAssumption DEF AllStatuses
    <2>4. PICK row : row = threads[b.thread] OBVIOUS
    <2>5. row \in ThreadRows BY <2>1, <2>2, <2>3, <2>4 DEF TypeOK, NoThread
    <2>6. [row EXCEPT !.status = b.to] \in ThreadRows BY <2>3, <2>5 DEF ThreadRows
    <2>7. threads' = [threads EXCEPT ![b.thread] = [row EXCEPT !.status = b.to]]
      BY <2>1, <2>2, <2>4 DEF TypeOK
    <2> QED BY <1>1, <2>1, <2>2, <2>6, <2>7 DEF TypeOK
  <1>5. CASE b.kind = "story_thread"
    BY <1>1, <1>3, <1>5 DEF Apply, ApplyThread, TypeOK
  <1>6. CASE b.kind = "story_thread_event"
    <2>1. b.action \in Actions /\ b.scene \in Scenes
      BY <1>2, <1>6 DEF Bodies, ThreadBodies, UpdateBodies
    <2>2. PICK t \in Threads :
            /\ Told(t) /\ canon' = canon
            /\ threads' = [threads EXCEPT ![t] = AfterEvent(threads[t], b.action, b.scene)]
      BY <1>1, <1>6 DEF Apply, ApplyEvent
    <2>3. threads[t] \in ThreadRows BY <2>2 DEF TypeOK, Told
    <2>4. AfterEvent(threads[t], b.action, b.scene) \in ThreadRows BY <2>1, <2>3, AfterEventType
    <2> QED BY <1>1, <2>2, <2>4 DEF TypeOK
  <1>7. CASE b.kind \in {"canon_update", "canon_create", "record"}
    BY <1>1, <1>7 DEF Apply, ApplyUpdate, ApplyCreate, TypeOK
  <1> QED BY <1>1, <1>4, <1>5, <1>6, <1>7 DEF Apply

-----------------------------------------------------------------------------
(* Steps *)

\* Records that exist stay, with a greater version if they change.
CanonGrows ==
    \A i \in Ids : Here(i) =>
        \/ canon'[i] = canon[i]
        \/ canon'[i].version \in Nat /\ canon[i].version < canon'[i].version

\* No proposal becomes another one, is not gone after it was, or forgets what
\* its author read.
BodiesStay ==
    \A p \in Proposals :
        /\ proposals'[p].body = proposals[p].body /\ proposals'[p].gone = proposals[p].gone
        /\ proposals'[p].seen = proposals[p].seen

\* Such a step leaves what was seen of the records sound.
LEMMA SawKeeps ==
    ASSUME IInv, CanonGrows, BodiesStay, NEW p \in Proposals
    PROVE  SawCurrent(p)'
  <1> DEFINE saw == /\ proposals[p].body.kind = "canon_update" /\ ~proposals[p].gone
                    /\ proposals[p].seen.version # 0
  <1>1. CASE saw
    <2>1. PICK b, seen : b = proposals[p].body /\ seen = proposals[p].seen OBVIOUS
    <2>2. b.id \in Ids /\ b.kind = "canon_update" /\ seen.version \in Nat /\ seen.version # 0
      BY <1>1, <2>1, UpdateBody DEF IInv, TypeOK, Rows, NoRow
    <2>3. /\ Here(b.id) /\ seen.version <= canon[b.id].version
          /\ seen.version = canon[b.id].version => seen.state = canon[b.id].state
      BY <1>1, <2>1 DEF IInv, SawCurrent
    <2>4. canon[b.id].version \in Nat BY <2>2 DEF IInv, TypeOK, Rows, NoRow
    <2>5. proposals'[p].body = b /\ ~proposals'[p].gone /\ proposals'[p].seen = seen
      BY <1>1, <2>1 DEF BodiesStay
    <2>6. \/ canon'[b.id] = canon[b.id]
          \/ canon'[b.id].version \in Nat /\ canon[b.id].version < canon'[b.id].version
      BY <2>2, <2>3 DEF CanonGrows
    <2>7. /\ canon'[b.id].version # 0 /\ seen.version <= canon'[b.id].version
          /\ seen.version = canon'[b.id].version => seen.state = canon'[b.id].state
      BY <2>2, <2>3, <2>4, <2>6 DEF Here
    <2> QED BY <2>5, <2>7 DEF SawCurrent, Here
  <1>2. CASE ~saw
    BY <1>2 DEF BodiesStay, SawCurrent
  <1> QED BY <1>1, <1>2

\* A row of the table, or none.
LEMMA RowCases ==
    ASSUME TypeOK, NEW i \in Ids
    PROVE  /\ canon[i].version \in Nat
           /\ Here(i) => canon[i] \in Rows
           /\ ~Here(i) => canon[i] = NoRow
  BY DEF TypeOK, Rows, NoRow, Here

\* The editor creates a record where there is none.
LEMMA CreateKeeps ==
    ASSUME IInv, NEW i \in Ids, NEW v \in Values, CreateCanon(i, v)
    PROVE  IInv'
  <1>1. [state |-> v, version |-> 1] \in Rows BY DEF Rows
  <1>2. TypeOK' BY <1>1 DEF CreateCanon, IInv, TypeOK
  <1>3. CanonGrows /\ BodiesStay BY DEF CreateCanon, CanonGrows, BodiesStay, IInv, TypeOK
  <1>4. EffectIffAccepted' BY DEF CreateCanon, IInv, EffectIffAccepted
  <1> QED BY <1>2, <1>3, <1>4, SawKeeps DEF IInv

\* The editor deletes a record: proposals to update it are told.
LEMMA DeleteKeeps ==
    ASSUME IInv, NEW i \in Ids, DeleteCanon(i)
    PROVE  IInv'
  <1>1. /\ canon' = [canon EXCEPT ![i] = NoRow]
        /\ proposals \in [Proposals -> ProposalType]
        /\ proposals' = [p \in Proposals |->
              IF Updates(p, i) THEN [proposals[p] EXCEPT !.gone = TRUE] ELSE proposals[p]]
    BY DEF DeleteCanon, IInv, TypeOK, ProposalType
  <1>2. \A p \in Proposals :
            /\ proposals'[p] \in ProposalType
            /\ proposals'[p].body = proposals[p].body
            /\ proposals'[p].seen = proposals[p].seen
            /\ proposals'[p].status = proposals[p].status
            /\ proposals'[p].effects = proposals[p].effects
            /\ proposals'[p].gone = (proposals[p].gone \/ Updates(p, i))
    BY <1>1 DEF ProposalType
  <1>3. TypeOK'
    <2>1. proposals' \in [Proposals -> ProposalType] BY <1>1, <1>2
    <2> QED BY <1>1, <2>1 DEF DeleteCanon, IInv, TypeOK, ProposalType
  <1>4. EffectIffAccepted' BY <1>2 DEF IInv, EffectIffAccepted
  <1>5. ASSUME NEW p \in Proposals PROVE SawCurrent(p)'
    <2>1. CASE proposals[p].body.kind = "canon_update" /\ ~proposals[p].gone /\ ~Updates(p, i)
      <3>1. proposals[p].body.id # i /\ proposals[p].body.id \in Ids
        BY <2>1, UpdateBody DEF Updates, IInv
      <3>2. canon'[proposals[p].body.id] = canon[proposals[p].body.id]
        BY <1>1, <3>1 DEF IInv, TypeOK
      <3> QED BY <1>2, <3>2 DEF IInv, SawCurrent, Here
    <2>2. CASE ~(proposals[p].body.kind = "canon_update" /\ ~proposals[p].gone /\ ~Updates(p, i))
      BY <1>2, <2>2 DEF SawCurrent
    <2> QED BY <2>1, <2>2
  <1> QED BY <1>3, <1>4, <1>5 DEF IInv

\* An editor reads a record into his form.
LEMMA ReadForUpdateKeeps ==
    ASSUME IInv, NEW e \in Editors, NEW i \in Ids, ReadForUpdate(e, i)
    PROVE  IInv'
  <1>1. PICK v \in Values :
            editors' = [editors EXCEPT ![e] = [id |-> i, form |-> FormRead(i, v)]]
    BY DEF ReadForUpdate
  <1>2. [id |-> i, form |-> FormRead(i, v)] \in [id: Ids, form: Rows]
    <2>1. FormRead(i, v) \in Rows BY RowCases DEF IInv, FormRead, Rows
    <2> QED BY <2>1
  <1>3. TypeOK' BY <1>1, <1>2 DEF ReadForUpdate, IInv, TypeOK
  <1>4. CanonGrows /\ BodiesStay BY DEF ReadForUpdate, CanonGrows, BodiesStay
  <1>5. EffectIffAccepted' BY DEF ReadForUpdate, IInv, EffectIffAccepted
  <1> QED BY <1>3, <1>4, <1>5, SawKeeps DEF IInv

\* He writes it; the version grows whether or not it was the one he read.
LEMMA WriteUpdateKeeps ==
    ASSUME IInv, NEW e \in Editors, WriteUpdate(e)
    PROVE  IInv'
  <1>1. PICK x \in [id: Ids, form: Rows] : x = editors[e]
    BY DEF WriteUpdate, IInv, TypeOK
  <1>2. PICK i \in Ids, form \in Rows : i = editors[e].id /\ form = editors[e].form
    BY <1>1
  <1>3. canon' = IF Here(i) THEN [canon EXCEPT ![i] = Written(i, form)] ELSE canon
    BY <1>2 DEF WriteUpdate
  <1>4. ASSUME Here(i)
        PROVE  Written(i, form) \in Rows /\ Written(i, form).version = canon[i].version + 1
    <2>1. canon[i].version \in Nat \ {0} BY <1>4, RowCases DEF IInv, Here
    <2> QED BY <2>1 DEF Written, Rows
  <1>5. TypeOK'
    <2>1. canon' \in [Ids -> Rows \cup {NoRow}] BY <1>3, <1>4 DEF IInv, TypeOK
    <2> QED BY <2>1 DEF WriteUpdate, IInv, TypeOK
  <1>6. CanonGrows
    <2> SUFFICES ASSUME NEW j \in Ids, Here(j), canon'[j] # canon[j]
                 PROVE  canon'[j].version \in Nat /\ canon[j].version < canon'[j].version
      BY DEF CanonGrows
    <2>1. j = i /\ Here(i) /\ canon'[i] = Written(i, form) BY <1>3 DEF IInv, TypeOK
    <2>2. canon[i].version \in Nat BY RowCases DEF IInv
    <2> QED BY <1>4, <2>1, <2>2
  <1>7. BodiesStay BY DEF WriteUpdate, BodiesStay
  <1>8. EffectIffAccepted' BY DEF WriteUpdate, IInv, EffectIffAccepted
  <1> QED BY <1>5, <1>6, <1>7, <1>8, SawKeeps DEF IInv

\* Threads and scenes change without canon and proposals.
LEMMA ThreadRequestsKeep ==
    ASSUME IInv, ThreadRequests \/ \E s \in Scenes : SceneComesOrGoes(s)
    PROVE  IInv'
  <1>1. UNCHANGED <<canon, proposals, editors>>
    BY DEF ThreadRequests, AuthorCreatesThread, AuthorSetsStatus, AuthorAddsEvent, SceneComesOrGoes
  <1>2. scenes' \in SUBSET Scenes
    BY DEF ThreadRequests, AuthorCreatesThread, AuthorSetsStatus, AuthorAddsEvent,
           SceneComesOrGoes, IInv, TypeOK
  <1>3. threads' \in [Threads -> ThreadRows \cup {NoThread}]
    <2>1. ASSUME NEW t \in Threads, AuthorCreatesThread(t)
          PROVE  threads' \in [Threads -> ThreadRows \cup {NoThread}]
      <3>1. NewThreads \subseteq ThreadRows BY WritebackAssumption DEF NewThreads, ThreadRows
      <3> QED BY <2>1, <3>1 DEF AuthorCreatesThread, IInv, TypeOK
    <2>2. ASSUME NEW t \in Threads, NEW status \in Statuses, AuthorSetsStatus(t, status)
          PROVE  threads' \in [Threads -> ThreadRows \cup {NoThread}]
      <3>1. PICK row : row = threads[t] OBVIOUS
      <3>2. row \in ThreadRows BY <2>2, <3>1 DEF AuthorSetsStatus, Told, IInv, TypeOK
      <3>3. [row EXCEPT !.status = status] \in ThreadRows
        BY <3>2, WritebackAssumption DEF ThreadRows
      <3>4. threads' = [threads EXCEPT ![t] = [row EXCEPT !.status = status]]
        BY <2>2, <3>1 DEF AuthorSetsStatus, IInv, TypeOK
      <3> QED BY <3>3, <3>4 DEF IInv, TypeOK
    <2>3. ASSUME NEW t \in Threads, NEW action \in Actions, NEW s \in Scenes,
                 AuthorAddsEvent(t, action, s)
          PROVE  threads' \in [Threads -> ThreadRows \cup {NoThread}]
      <3>1. threads[t] \in ThreadRows BY <2>3 DEF AuthorAddsEvent, Told, IInv, TypeOK
      <3>2. AfterEvent(threads[t], action, s) \in ThreadRows BY <3>1, AfterEventType
      <3> QED BY <2>3, <3>2 DEF AuthorAddsEvent, IInv, TypeOK
    <2>4. CASE \E s \in Scenes : SceneComesOrGoes(s)
      BY <2>4 DEF SceneComesOrGoes, IInv, TypeOK
    <2> QED BY <2>1, <2>2, <2>3, <2>4 DEF ThreadRequests
  <1>4. TypeOK' BY <1>1, <1>2, <1>3 DEF IInv, TypeOK
  <1>5. CanonGrows /\ BodiesStay BY <1>1 DEF CanonGrows, BodiesStay
  <1>6. EffectIffAccepted' BY <1>1 DEF IInv, EffectIffAccepted
  <1> QED BY <1>4, <1>5, <1>6, SawKeeps DEF IInv

\* A proposal that changes alone, and keeps its body, keeps the invariant.
LEMMA OneProposalKeeps ==
    ASSUME IInv, NEW p \in Proposals, NEW x \in ProposalType,
           proposals' = [proposals EXCEPT ![p] = x],
           x.body = proposals[p].body, x.gone = proposals[p].gone, x.seen = proposals[p].seen,
           x.effects = IF x.status = "accepted" THEN 1 ELSE 0,
           UNCHANGED <<canon, threads, scenes, editors>>
    PROVE  IInv'
  <1>1. /\ proposals' \in [Proposals -> ProposalType] /\ proposals'[p] = x
        /\ \A q \in Proposals \ {p} : proposals'[q] = proposals[q]
    BY DEF IInv, TypeOK, ProposalType
  <1>2. TypeOK' BY <1>1 DEF IInv, TypeOK, ProposalType
  <1>3. CanonGrows /\ BodiesStay BY <1>1 DEF CanonGrows, BodiesStay
  <1>4. EffectIffAccepted' BY <1>1 DEF IInv, EffectIffAccepted
  <1> QED BY <1>2, <1>3, <1>4, SawKeeps DEF IInv

\* The author of a new draft has just read the data.
LEMMA DraftKeeps ==
    ASSUME IInv, NEW p \in Proposals, DraftProposal(p)
    PROVE  IInv'
  <1>1. PICK b \in Requests :
            /\ proposals[p] = Unused
            /\ proposals' = [proposals EXCEPT
                  ![p].status = "drafted", ![p].body = b,
                  ![p].seen = IF b.kind = "canon_update" THEN canon[b.id] ELSE NoRow]
    BY DEF DraftProposal
  <1>2. PICK seen : seen = IF b.kind = "canon_update" THEN canon[b.id] ELSE NoRow OBVIOUS
  <1>3. seen \in Rows \cup {NoRow} BY <1>2, RequestBodies DEF IInv, TypeOK
  <1>4. PICK x : x = [Unused EXCEPT !.status = "drafted", !.body = b, !.seen = seen] OBVIOUS
  <1>5. /\ x \in ProposalType /\ x.status = "drafted" /\ x.body = b /\ x.seen = seen /\ ~x.gone
        /\ x.effects = 0
    <2>1. Unused \in ProposalType /\ ~Unused.gone /\ Unused.effects = 0
      BY DEF Unused, ProposalType, ProposalStatuses
    <2>2. b \in Bodies BY RequestBodies
    <2> QED BY <1>3, <1>4, <2>1, <2>2 DEF ProposalType, ProposalStatuses
  <1>6. proposals' = [proposals EXCEPT ![p] = x] BY <1>1, <1>2, <1>4 DEF IInv, TypeOK
  <1>7. /\ proposals' \in [Proposals -> ProposalType] /\ proposals'[p] = x
        /\ \A q \in Proposals \ {p} : proposals'[q] = proposals[q]
    BY <1>5, <1>6 DEF IInv, TypeOK, ProposalType
  <1>8. UNCHANGED <<canon, threads, scenes, editors>> BY DEF DraftProposal
  <1>9. TypeOK' BY <1>7, <1>8 DEF IInv, TypeOK, ProposalType
  <1>10. EffectIffAccepted' BY <1>5, <1>7 DEF IInv, EffectIffAccepted
  <1>11. SawCurrent(p)'
    <2>1. CASE b.kind = "canon_update" /\ seen.version # 0
      <3>1. b.id \in Ids /\ seen = canon[b.id] /\ Here(b.id)
        BY <1>2, <2>1, RequestBodies DEF Here
      <3>2. canon[b.id].version \in Nat BY <3>1, RowCases DEF IInv
      <3> QED BY <1>5, <1>7, <1>8, <3>1, <3>2 DEF SawCurrent, Here
    <2>2. CASE ~(b.kind = "canon_update" /\ seen.version # 0) BY <1>5, <1>7, <2>2 DEF SawCurrent
    <2> QED BY <2>1, <2>2
  <1>12. \A q \in Proposals \ {p} : SawCurrent(q)'
    BY <1>7, <1>8 DEF IInv, SawCurrent, Here
  <1> QED BY <1>9, <1>10, <1>11, <1>12 DEF IInv

\* A draft passes the check.
LEMMA CheckKeeps ==
    ASSUME IInv, NEW p \in Proposals, CheckProposal(p)
    PROVE  IInv'
  <1>1. proposals[p] \in ProposalType BY DEF IInv, TypeOK, ProposalType
  <1>2. PICK x : x = [proposals[p] EXCEPT !.status = "checked"] OBVIOUS
  <1>3. /\ x \in ProposalType /\ x.status = "checked" /\ x.body = proposals[p].body
        /\ x.seen = proposals[p].seen
        /\ x.gone = proposals[p].gone /\ x.effects = proposals[p].effects
    BY <1>1, <1>2 DEF ProposalType, ProposalStatuses
  <1>4. proposals' = [proposals EXCEPT ![p] = x] BY <1>2 DEF CheckProposal, IInv, TypeOK
  <1>5. proposals[p].effects = 0 BY DEF CheckProposal, IInv, EffectIffAccepted
  <1> QED BY <1>3, <1>4, <1>5, OneProposalKeeps DEF CheckProposal

\* A checked proposal is stored.
LEMMA StoreKeeps ==
    ASSUME IInv, NEW p \in Proposals, StoreProposal(p)
    PROVE  IInv'
  <1>1. proposals[p] \in ProposalType BY DEF IInv, TypeOK, ProposalType
  <1>2. PICK x : x = [proposals[p] EXCEPT !.status = "pending_review"] OBVIOUS
  <1>3. /\ x \in ProposalType /\ x.status = "pending_review" /\ x.body = proposals[p].body
        /\ x.seen = proposals[p].seen
        /\ x.gone = proposals[p].gone /\ x.effects = proposals[p].effects
    BY <1>1, <1>2 DEF ProposalType, ProposalStatuses
  <1>4. proposals' = [proposals EXCEPT ![p] = x] BY <1>2 DEF StoreProposal, IInv, TypeOK
  <1>5. proposals[p].effects = 0 BY DEF StoreProposal, IInv, EffectIffAccepted
  <1> QED BY <1>3, <1>4, <1>5, OneProposalKeeps DEF StoreProposal

\* A reviewer reads a proposal he is going to reject.
LEMMA ReadForRejectKeeps ==
    ASSUME IInv, NEW p \in Proposals, ReadForReject(p)
    PROVE  IInv'
  <1>1. proposals[p] \in ProposalType BY DEF IInv, TypeOK, ProposalType
  <1>2. PICK x : x = [proposals[p] EXCEPT !.rejecting = TRUE] OBVIOUS
  <1>3. /\ x \in ProposalType /\ x.status = proposals[p].status /\ x.body = proposals[p].body
        /\ x.seen = proposals[p].seen
        /\ x.gone = proposals[p].gone /\ x.effects = proposals[p].effects
    BY <1>1, <1>2 DEF ProposalType, ProposalStatuses
  <1>4. proposals' = [proposals EXCEPT ![p] = x] BY <1>2 DEF ReadForReject, IInv, TypeOK
  <1>5. x.effects = IF x.status = "accepted" THEN 1 ELSE 0 BY <1>3 DEF IInv, EffectIffAccepted
  <1> QED BY <1>3, <1>4, <1>5, OneProposalKeeps DEF ReadForReject

\* He rejects it, unless it has been decided since.
LEMMA RejectKeeps ==
    ASSUME IInv, NEW p \in Proposals, Reject(p)
    PROVE  IInv'
  <1>1. proposals[p] \in ProposalType BY DEF IInv, TypeOK, ProposalType
  <1>2. PICK status \in {"rejected", "superseded"} :
            proposals' = [proposals EXCEPT
              ![p].rejecting = FALSE,
              ![p].status = IF StillAsRead(p) THEN status ELSE proposals[p].status]
    BY DEF Reject
  <1>3. PICK new : new = IF StillAsRead(p) THEN status ELSE proposals[p].status OBVIOUS
  <1>4. PICK x : x = [proposals[p] EXCEPT !.rejecting = FALSE, !.status = new] OBVIOUS
  <1>5. new \in ProposalStatuses
    BY <1>1, <1>3 DEF ProposalType, ProposalStatuses
  <1>6. /\ x \in ProposalType /\ x.status = new /\ x.body = proposals[p].body
        /\ x.seen = proposals[p].seen
        /\ x.gone = proposals[p].gone /\ x.effects = proposals[p].effects
    BY <1>1, <1>4, <1>5 DEF ProposalType
  <1>7. proposals' = [proposals EXCEPT ![p] = x] BY <1>2, <1>3, <1>4 DEF IInv, TypeOK
  <1>8. proposals[p].effects = IF new = "accepted" THEN 1 ELSE 0
    BY <1>2, <1>3 DEF StillAsRead, Pending, IInv, EffectIffAccepted
  <1> QED BY <1>6, <1>7, <1>8, OneProposalKeeps DEF Reject

\* An accepted proposal changes one record to a greater version, creates one,
\* or leaves the canon alone.
LEMMA ApplyGrows ==
    ASSUME IInv, NEW p \in Proposals, Apply(proposals[p].body)
    PROVE  CanonGrows /\ canon' \in [Ids -> Rows \cup {NoRow}]
  <1>1. PICK b : b = proposals[p].body OBVIOUS
  <1>2. CASE b.kind = "canon_update"
    <2>1. b.id \in Ids /\ b.after \in Values BY <1>1, <1>2, UpdateBody DEF IInv
    <2>2. /\ Here(b.id)
          /\ canon' = [canon EXCEPT ![b.id] = Updated(canon[b.id], b)]
      BY <1>1, <1>2 DEF Apply, ApplyUpdate, Current
    <2>3. canon[b.id].version \in Nat BY <2>1, RowCases DEF IInv
    <2>4. Updated(canon[b.id], b) \in Rows /\ Updated(canon[b.id], b).version = canon[b.id].version + 1
      BY <2>1, <2>3 DEF Updated, Rows
    <2>5. \A i \in Ids : canon'[i] = IF i = b.id THEN Updated(canon[b.id], b) ELSE canon[i]
      BY <2>2 DEF IInv, TypeOK
    <2>6. CanonGrows BY <2>3, <2>4, <2>5 DEF CanonGrows
    <2>7. canon' \in [Ids -> Rows \cup {NoRow}] BY <2>2, <2>4 DEF IInv, TypeOK
    <2> QED BY <2>6, <2>7
  <1>3. CASE b.kind = "canon_create"
    <2>1. b.id \in Ids /\ b.state \in Values BY <1>1, <1>3, CreateBody DEF IInv
    <2>2. /\ ~Here(b.id)
          /\ canon' = [canon EXCEPT ![b.id] = [state |-> b.state, version |-> 1]]
      BY <1>1, <1>3 DEF Apply, ApplyCreate
    <2>3. [state |-> b.state, version |-> 1] \in Rows BY <2>1 DEF Rows
    <2>4. canon' \in [Ids -> Rows \cup {NoRow}] BY <2>2, <2>3 DEF IInv, TypeOK
    <2>5. \A i \in Ids : i # b.id => canon'[i] = canon[i] BY <2>2 DEF IInv, TypeOK
    <2>6. CanonGrows BY <2>2, <2>5 DEF CanonGrows
    <2> QED BY <2>4, <2>6
  <1>4. CASE b.kind \notin {"canon_update", "canon_create"}
    BY <1>1, <1>4, ThreadsStayTyped DEF CanonGrows, IInv, TypeOK
  <1> QED BY <1>2, <1>3, <1>4

\* What an acceptance does to the proposals.
LEMMA AcceptedProposals ==
    ASSUME IInv, NEW p \in Proposals, Accept(p), NEW q \in Proposals
    PROVE  /\ proposals'[q] \in ProposalType
           /\ proposals'[q].body = proposals[q].body /\ proposals'[q].gone = proposals[q].gone
           /\ proposals'[q].seen = proposals[q].seen
           /\ proposals'[q].status = IF q = p THEN "accepted"
                                     ELSE IF Sibling(p, q) THEN "superseded" ELSE proposals[q].status
           /\ proposals'[q].effects = IF q = p THEN 1 ELSE proposals[q].effects
  <1>1. PICK x : x = proposals[q] OBVIOUS
  <1>2. x \in ProposalType BY <1>1 DEF IInv, TypeOK, ProposalType
  <1>3. proposals'[q] =
          IF q = p THEN [x EXCEPT !.status = "accepted", !.effects = x.effects + 1]
          ELSE IF Sibling(p, q) THEN [x EXCEPT !.status = "superseded"] ELSE x
    BY <1>1 DEF Accept
  <1>4. q = p => x.effects = 0 BY <1>1 DEF Accept, Pending, IInv, EffectIffAccepted
  <1>5. [x EXCEPT !.status = "superseded"] \in ProposalType BY <1>2 DEF ProposalType, ProposalStatuses
  <1>6. [x EXCEPT !.status = "accepted", !.effects = x.effects + 1] \in ProposalType
    <2>1. PICK k \in Nat : k = x.effects + 1 BY <1>2 DEF ProposalType
    <2>2. [x EXCEPT !.status = "accepted", !.effects = k] \in ProposalType
      BY <1>2 DEF ProposalType, ProposalStatuses
    <2> QED BY <2>1, <2>2
  <1>7. CASE q = p
    <2>1. proposals'[q] = [x EXCEPT !.status = "accepted", !.effects = x.effects + 1] BY <1>3, <1>7
    <2> QED BY <1>1, <1>2, <1>4, <1>6, <1>7, <2>1 DEF ProposalType
  <1>8. CASE q # p /\ Sibling(p, q)
    <2>1. proposals'[q] = [x EXCEPT !.status = "superseded"] BY <1>3, <1>8
    <2> QED BY <1>1, <1>2, <1>5, <1>8, <2>1 DEF ProposalType
  <1>9. CASE q # p /\ ~Sibling(p, q) BY <1>1, <1>2, <1>3, <1>9
  <1> QED BY <1>7, <1>8, <1>9

\* An acceptance keeps the invariant.
LEMMA AcceptKeeps ==
    ASSUME IInv, NEW p \in Proposals, Accept(p)
    PROVE  IInv'
  <1>1. Apply(proposals[p].body) /\ UNCHANGED <<scenes, editors>> BY DEF Accept
  <1>2. CanonGrows /\ canon' \in [Ids -> Rows \cup {NoRow}] BY <1>1, ApplyGrows
  <1>3. threads' \in [Threads -> ThreadRows \cup {NoThread}] BY <1>1, ThreadsStayTyped DEF IInv
  <1>4. proposals' \in [Proposals -> ProposalType]
    <2>1. \A q \in Proposals : proposals'[q] \in ProposalType BY AcceptedProposals
    <2>2. proposals' = [q \in Proposals |-> proposals'[q]] BY DEF Accept
    <2> QED BY <2>1, <2>2
  <1>5. TypeOK' BY <1>1, <1>2, <1>3, <1>4 DEF IInv, TypeOK, ProposalType
  <1>6. BodiesStay BY AcceptedProposals DEF BodiesStay
  <1>7. EffectIffAccepted'
    <2> SUFFICES ASSUME NEW q \in Proposals
                 PROVE  proposals'[q].effects = IF proposals'[q].status = "accepted" THEN 1 ELSE 0
      BY DEF EffectIffAccepted
    <2>1. proposals[q].effects = IF proposals[q].status = "accepted" THEN 1 ELSE 0
      BY DEF IInv, EffectIffAccepted
    <2>2. Sibling(p, q) => proposals[q].status = "pending_review" BY DEF Sibling, Pending
    <2> QED BY <2>1, <2>2, AcceptedProposals
  <1> QED BY <1>2, <1>5, <1>6, <1>7, SawKeeps DEF IInv

-----------------------------------------------------------------------------
(* The invariant holds in every state *)

\* No record, no thread, no proposal.
LEMMA InitGood == Init => IInv
  <1> SUFFICES ASSUME Init PROVE IInv OBVIOUS
  <1>1. \A p \in Proposals : proposals[p] = Unused BY DEF Init
  <1>2. TypeOK
    <2>1. Unused \in ProposalType BY DEF Unused, ProposalType, ProposalStatuses
    <2>2. proposals \in [Proposals -> ProposalType] BY <2>1 DEF Init
    <2> QED BY <2>2 DEF Init, TypeOK, ProposalType
  <1>3. EffectIffAccepted BY <1>1 DEF EffectIffAccepted, Unused
  <1>4. \A p \in Proposals : SawCurrent(p) BY <1>1 DEF SawCurrent, Unused
  <1> QED BY <1>2, <1>3, <1>4 DEF IInv

\* Every step keeps it.
LEMMA NextGood == IInv /\ [Next]_vars => IInv'
  <1> SUFFICES ASSUME IInv, [Next]_vars PROVE IInv' OBVIOUS
  <1>1. CASE CanonRequests
    BY <1>1, CreateKeeps, DeleteKeeps, ReadForUpdateKeeps, WriteUpdateKeeps DEF CanonRequests
  <1>2. CASE ThreadRequests \/ \E s \in Scenes : SceneComesOrGoes(s)
    BY <1>2, ThreadRequestsKeep
  <1>3. CASE WritebackRequests
    BY <1>3, DraftKeeps, CheckKeeps, StoreKeeps, AcceptKeeps, ReadForRejectKeeps, RejectKeeps
    DEF WritebackRequests
  <1>4. CASE UNCHANGED vars
    BY <1>4 DEF vars, IInv, TypeOK, EffectIffAccepted, SawCurrent, Here
  <1> QED BY <1>1, <1>2, <1>3, <1>4 DEF Next

\* The invariant of write-backs.
LEMMA Invariance == Spec => []IInv
  BY InitGood, NextGood, PTL DEF Spec

\* Types of the tables and of the requests in flight.
THEOREM TypeCorrect == Spec => []TypeOK
  <1>1. IInv => TypeOK BY DEF IInv
  <1> QED BY <1>1, Invariance, PTL

\* A proposal has its effect exactly once if it is accepted and never otherwise,
\* however many reviewers and editors work on how many records.
THEOREM EffectsHappenOnce == Spec => []EffectIffAccepted
  <1>1. IInv => EffectIffAccepted BY DEF IInv
  <1> QED BY <1>1, Invariance, PTL

\* Only its own acceptance makes a proposal accepted.
LEMMA AcceptedByAccept ==
    ASSUME IInv, [Next]_vars, NEW p \in Proposals,
           proposals[p].status # "accepted", proposals'[p].status = "accepted"
    PROVE  Accept(p)
  <1>1. CASE proposals' = proposals BY <1>1
  <1>2. ASSUME NEW i \in Ids, DeleteCanon(i) PROVE FALSE
    BY <1>2 DEF DeleteCanon, IInv, TypeOK
  <1>3. ASSUME NEW q \in Proposals, Accept(q), q # p PROVE FALSE
    BY <1>3, AcceptedProposals
  <1>4. ASSUME NEW q \in Proposals, CheckProposal(q) \/ StoreProposal(q) \/ ReadForReject(q)
        PROVE  FALSE
    BY <1>4 DEF CheckProposal, StoreProposal, ReadForReject, IInv, TypeOK
  <1>6. ASSUME NEW q \in Proposals, DraftProposal(q) PROVE FALSE
    <2>1. PICK b \in Requests : proposals' = [proposals EXCEPT
              ![q].status = "drafted", ![q].body = b,
              ![q].seen = IF b.kind = "canon_update" THEN canon[b.id] ELSE NoRow]
      BY <1>6 DEF DraftProposal
    <2>4. PICK seen : seen = IF b.kind = "canon_update" THEN canon[b.id] ELSE NoRow OBVIOUS
    <2>2. CASE q = p
      <3>1. PICK x : x = proposals[p] OBVIOUS
      <3>2. proposals'[p] = [x EXCEPT !.status = "drafted", !.body = b, !.seen = seen]
        BY <2>1, <2>2, <2>4, <3>1 DEF IInv, TypeOK
      <3>3. x \in ProposalType BY <3>1 DEF IInv, TypeOK, ProposalType
      <3>4. proposals'[p].status = "drafted" BY <3>2, <3>3 DEF ProposalType
      <3> QED BY <3>4
    <2>3. CASE q # p
      <3>1. proposals'[p] = proposals[p] BY <2>1, <2>3 DEF IInv, TypeOK
      <3> QED BY <3>1
    <2> QED BY <2>2, <2>3
  <1>5. ASSUME NEW q \in Proposals, Reject(q) PROVE FALSE
    BY <1>5 DEF Reject, IInv, TypeOK
  <1> QED
    BY <1>1, <1>2, <1>3, <1>4, <1>5, <1>6
    DEF Next, vars, CanonRequests, ThreadRequests, WritebackRequests, CreateCanon, ReadForUpdate,
        WriteUpdate, AuthorCreatesThread, AuthorSetsStatus, AuthorAddsEvent, SceneComesOrGoes

\* An accepted update that expects the version its author read replaces the
\* value he read, unless the record was deleted in between.
THEOREM AcceptedUpdatesAreCurrent == Spec => AcceptedChangesAreCurrent
  <1>1. ASSUME IInv, [Next]_vars, NEW p \in Proposals,
               proposals[p].status # "accepted", proposals'[p].status = "accepted",
               proposals[p].body.kind = "canon_update", ~proposals[p].gone,
               proposals[p].body.expected = proposals[p].seen.version
        PROVE  canon[proposals[p].body.id].state = proposals[p].seen.state
    <2>1. Accept(p) BY <1>1, AcceptedByAccept
    <2>2. Current(proposals[p].body) BY <1>1, <2>1 DEF Accept, Apply, ApplyUpdate
    <2>3. proposals[p].seen.version # 0 BY <1>1, UpdateBody DEF IInv
    <2> QED BY <1>1, <2>2, <2>3 DEF Current, IInv, SawCurrent
  <1>2. IInv /\ [Next]_vars =>
          [\A p \in Proposals :
             (/\ proposals[p].status # "accepted" /\ proposals'[p].status = "accepted"
              /\ proposals[p].body.kind = "canon_update" /\ ~proposals[p].gone
              /\ proposals[p].body.expected = proposals[p].seen.version) =>
                 canon[proposals[p].body.id].state = proposals[p].seen.state]_vars
    BY <1>1
  <1> QED BY <1>2, Invariance, PTL DEF Spec, AcceptedChangesAreCurrent

=============================================================================
