------------------------------ MODULE Narrative ------------------------------
(***************************************************************************)
(* Story facts and who knows them.  A fact has an interval of scenes in      *)
(* which it is true and a scene from which the reader sees it; knowledge     *)
(* rows say from which scene the world, the reader and each character know   *)
(* it.  Authors correct facts and knowledge under an expected version, and   *)
(* every correction is audited.  The same information is kept twice: the     *)
(* prompt of a scene is filtered by knowledge rows, the leak check of the    *)
(* consistency analysis by the fact's own reader_visible_from.               *)
(***************************************************************************)
EXTENDS Integers

CONSTANTS
    Facts,       \* identities of story facts
    Characters,  \* characters with knowledge of their own
    Texts,       \* what a fact says (subject, predicate and value)
    Positions,   \* scene positions
    MaxRowVersion   \* bound: version up to which a fact and a knowledge row are changed

World == "world_truth"
Reader == "reader_knowledge"
Holders == {World, Reader} \cup Characters

NoPosition == -1
NoText == "none"

ASSUME NarrativeAssumption ==
    /\ Positions \subseteq Nat
    /\ MaxRowVersion \in Nat
    /\ World \notin Characters /\ Reader \notin Characters
    /\ NoText \notin Texts

VARIABLE story   \* per fact: its row, knowledge rows, revisions and roster entries

narrativeVars == story

FactStatuses == {"planned", "confirmed", "superseded", "retracted"}

NoKnowledge == [status |-> "absent", from |-> NoPosition, version |-> 0, about |-> NoText]

NoFact == [text |-> NoText, from |-> NoPosition, to |-> NoPosition,
           visible |-> NoPosition, status |-> "absent", version |-> 0]

NoStory == [fact |-> NoFact,
            know |-> [h \in Holders |-> NoKnowledge],
            factRevs |-> {},
            knowRevs |-> [h \in Holders |-> {}],
            roster |-> [c \in Characters |-> NoPosition]]

FactRows == [text: Texts, from: Positions, to: Positions \cup {NoPosition},
             visible: Positions \cup {NoPosition}, status: FactStatuses, version: Nat \ {0}]

KnowledgeRows == [status: FactStatuses, from: Positions, version: Nat \ {0},
                  about: Texts \cup {NoText}]

Stories == [fact: FactRows \cup {NoFact},
            know: [Holders -> KnowledgeRows \cup {NoKnowledge}],
            factRevs: SUBSET Nat,
            knowRevs: [Holders -> SUBSET Nat],
            roster: [Characters -> Positions \cup {NoPosition}]]

\* Type invariant of the narrative tables.
NarrativeType == story \in [Facts -> Stories]

Exists(s) == s.fact.status # "absent"
Known(s, h) == s.know[h].status # "absent"

-----------------------------------------------------------------------------
(* Validation *)

\* validate_position: the fact is true at position p.
Inside(row, p) == row.from <= p /\ (row.to = NoPosition \/ p <= row.to)

ValidFact(row) ==
    /\ row.to # NoPosition => row.from <= row.to
    /\ row.visible # NoPosition => Inside(row, row.visible)

ValidKnowledge(row, p, status) ==
    /\ status # "retracted" => Inside(row, p)
    /\ status = "confirmed" => row.status = "confirmed"

-----------------------------------------------------------------------------
(* Rows as the repository writes them *)

\* "about" is history: what the fact said when this knowledge was confirmed.
Row(text, p, status, version) ==
    [status |-> status, from |-> p, version |-> version,
     about |-> IF status = "confirmed" THEN text ELSE NoText]

\* The position the fact itself states for a holder: world truth starts with
\* the fact, the reader's knowledge where the fact becomes visible.
Stated(row, h) ==
    IF h = World THEN row.from
    ELSE IF h = Reader THEN row.visible
    ELSE NoPosition

\* Seeded fault: the replaced row is not recorded as a baseline.
RecordedNewOnly(revs, old, new) == revs \cup {new}

\* record_revision: the row that is replaced, unless it is already there, and
\* the row that replaces it.
Recorded(revs, old, new) == revs \cup ({old, new} \ {0})

\* create_fact, under version 1.
Created(row) ==
    LET stated == {h \in Holders : Stated(row, h) # NoPosition}
    IN [fact |-> row,
        know |-> [h \in Holders |->
                    IF h \in stated THEN Row(row.text, Stated(row, h), row.status, 1)
                    ELSE NoKnowledge],
        factRevs |-> {1},
        knowRevs |-> [h \in Holders |-> IF h \in stated THEN {1} ELSE {}],
        roster |-> [c \in Characters |-> NoPosition]]

\* A row as the migrations leave it: knowledge is derived from the fact and from
\* the roster, under the fact's own status, nothing is validated, the roster
\* stays and there are no revisions.  Characters are names up to letter case,
\* as knowledge_states compares them.
Legacy(row, roster) ==
    LET from == [h \in Holders |-> IF h \in Characters THEN roster[h] ELSE Stated(row, h)]
    IN [fact |-> row,
        know |-> [h \in Holders |-> IF from[h] # NoPosition
                                    THEN Row(row.text, from[h], row.status, 1) ELSE NoKnowledge],
        factRevs |-> {},
        knowRevs |-> [h \in Holders |-> {}],
        roster |-> roster]

\* correct_fact: what the corrected fact states replaces the rows of the world
\* and of the reader; other knowledge was of the old content and is taken back.
TakenBack(row) == IF row.status = "retracted" THEN "retracted" ELSE "planned"

\* Seeded fault: a correction leaves what characters know as it was.
CorrectedRowKept(s, row, h) ==
    IF Stated(row, h) # NoPosition
    THEN Row(row.text, Stated(row, h), row.status, s.know[h].version + 1)
    ELSE s.know[h]

CorrectedRow(s, row, h) ==
    LET old == s.know[h] IN
    IF Stated(row, h) # NoPosition
    THEN Row(row.text, Stated(row, h), row.status, old.version + 1)
    ELSE IF Known(s, h)
    THEN Row(row.text, old.from, TakenBack(row), old.version + 1)
    ELSE old

Corrected(s, row) ==
    LET know == [h \in Holders |-> CorrectedRow(s, row, h)]
    IN [fact |-> row,
        know |-> know,
        factRevs |-> Recorded(s.factRevs, s.fact.version, row.version),
        knowRevs |-> [h \in Holders |->
            Recorded(s.knowRevs[h], s.know[h].version, know[h].version)],
        roster |-> [c \in Characters |-> IF Known(s, c) THEN NoPosition ELSE s.roster[c]]]

\* Seeded fault: the visibility follows knowledge that is not confirmed.
VisibilityOfAnyRow(s, h, p, status) == IF h # Reader THEN s.fact.visible ELSE p

\* write_knowledge of a reader's row moves the fact's own visibility with it.
Visibility(s, h, p, status) ==
    IF h # Reader THEN s.fact.visible
    ELSE IF status = "confirmed" THEN p ELSE NoPosition

\* Seeded fault: the visibility of the fact moves under an unchanged version.
ResyncedSilently(s, h, p, status) ==
    [s.fact EXCEPT !.visible = Visibility(s, h, p, status)]

Resynced(s, h, p, status) ==
    LET visible == Visibility(s, h, p, status) IN
    IF s.fact.visible = visible THEN s.fact
    ELSE [s.fact EXCEPT !.visible = visible, !.version = s.fact.version + 1]

\* Seeded fault: a row that is not confirmed stays on the roster.
RosterEntryAlways(p, status) == p

\* story_fact_character_knowledge: upserted when confirmed, deleted otherwise.
RosterEntry(p, status) == IF status = "confirmed" THEN p ELSE NoPosition

\* set_knowledge_state with write_knowledge: insert or replace a holder's row.
Assigned(s, h, p, status) ==
    LET old == s.know[h]
        new == Row(s.fact.text, p, status, old.version + 1)
        fact == Resynced(s, h, p, status)
    IN [fact |-> fact,
        know |-> [s.know EXCEPT ![h] = new],
        factRevs |-> IF fact = s.fact THEN s.factRevs
                     ELSE Recorded(s.factRevs, s.fact.version, fact.version),
        knowRevs |-> [s.knowRevs EXCEPT ![h] = Recorded(s.knowRevs[h], old.version, new.version)],
        roster |-> [c \in Characters |->
            IF c # h THEN s.roster[c]
            ELSE RosterEntry(p, status)]]

-----------------------------------------------------------------------------
(* Requests; each runs in one IMMEDIATE transaction, a refused one changes nothing *)

Forms(status, version) ==
    [text: Texts, from: Positions, to: Positions \cup {NoPosition},
     visible: Positions \cup {NoPosition}, status: {status}, version: {version}]

CreateFact(f) ==
    \E status \in FactStatuses : \E row \in Forms(status, 1) :
        /\ ~Exists(story[f])
        /\ ValidFact(row)
        /\ story' = [story EXCEPT ![f] = Created(row)]

\* Bound: corrections stop at MaxVersion.
MayChange(s) ==
    /\ Exists(s)
    /\ s.fact.version < MaxRowVersion
    /\ \A h \in Holders : s.know[h].version < MaxRowVersion

\* correct_fact and, with the content kept, retract_fact.  The interval of a
\* retracted fact is not validated.
CorrectFact(f, expected) ==
    \E status \in FactStatuses : \E row \in Forms(status, story[f].fact.version + 1) :
        /\ MayChange(story[f])
        /\ story[f].fact.version = expected
        /\ status # "retracted" => ValidFact(row)
        /\ story' = [story EXCEPT ![f] = Corrected(story[f], row)]

RetractFact(f, expected) ==
    /\ MayChange(story[f])
    /\ story[f].fact.version = expected
    /\ LET row == [story[f].fact EXCEPT !.status = "retracted",
                                        !.version = story[f].fact.version + 1]
       IN story' = [story EXCEPT ![f] = Corrected(story[f], row)]

\* create_knowledge: an author adds what the reader or a character knows.
CreateKnowledge(f, h) ==
    \E p \in Positions, status \in FactStatuses :
        /\ MayChange(story[f])
        /\ h # World
        /\ ~Known(story[f], h)
        /\ ValidKnowledge(story[f].fact, p, status)
        /\ story' = [story EXCEPT ![f] = Assigned(story[f], h, p, status)]

\* correct_knowledge and retract_knowledge; world truth only follows its fact.
CorrectKnowledge(f, h, expected) ==
    \E p \in Positions, status \in FactStatuses :
        /\ MayChange(story[f])
        /\ h # World
        /\ Known(story[f], h)
        /\ story[f].know[h].version = expected
        /\ ValidKnowledge(story[f].fact, p, status)
        /\ story' = [story EXCEPT ![f] = Assigned(story[f], h, p, status)]

\* set_character_knowledge states no version: it replaces whatever is there.
SetCharacterKnowledge(f, c) ==
    \E p \in Positions :
        /\ MayChange(story[f])
        /\ ValidKnowledge(story[f].fact, p, "confirmed")
        /\ story' = [story EXCEPT ![f] = Assigned(story[f], c, p, "confirmed")]

\* Databases are empty or hold facts, and rosters, from before the tables of
\* knowledge and revisions.
NarrativeInit ==
    story \in [Facts -> {NoStory} \cup
        {Legacy(row, roster) : row \in UNION {Forms(st, 1) : st \in FactStatuses},
                               roster \in [Characters -> Positions \cup {NoPosition}]}]

NarrativeNext ==
    \E f \in Facts :
        \/ CreateFact(f)
        \/ \E expected \in 1 .. MaxRowVersion :
              \/ CorrectFact(f, expected)
              \/ RetractFact(f, expected)
              \/ \E h \in Holders : CorrectKnowledge(f, h, expected)
        \/ \E h \in Holders : CreateKnowledge(f, h)
        \/ \E c \in Characters : SetCharacterKnowledge(f, c)

NarrativeSpec == NarrativeInit /\ [][NarrativeNext]_narrativeVars

-----------------------------------------------------------------------------
(* What prompts and checks read *)

\* facts_at: true at position p.
FactsAt(p) == {f \in Facts : /\ story[f].fact.status = "confirmed"
                             /\ Inside(story[f].fact, p)}

KnownAt(h, p) == {f \in FactsAt(p) : /\ story[f].know[h].status = "confirmed"
                                     /\ story[f].know[h].from <= p}

\* check_revision: a true fact whose visibility boundary has not been reached.
HiddenAt(p) ==
    {f \in FactsAt(p) : ~(/\ story[f].fact.visible # NoPosition
                          /\ story[f].fact.visible <= p)}

\* render_generation_context: values a prompt of a scene told by c may contain.
PromptFacts(c, p) == FactsAt(p) \cap KnownAt(Reader, p) \cap KnownAt(c, p)

-----------------------------------------------------------------------------
(* Properties *)

\* What the reader is taken to know when a prompt is built is exactly what the
\* leak check lets through, although the two read different rows; no prompt
\* contains a fact whose appearance in the prose the check would then report.
PromptAndLeakCheckAgree ==
    \A p \in Positions :
        /\ KnownAt(Reader, p) = FactsAt(p) \ HiddenAt(p)
        /\ \A c \in Characters : PromptFacts(c, p) \cap HiddenAt(p) = {}

\* Backfilled by a migration and never written since.
Untouched(s, h) == Known(s, h) /\ s.knowRevs[h] = {}

\* Confirmed knowledge is of a confirmed fact and was confirmed of what the fact
\* says now: no correction carries knowledge of the old content over.  It lies
\* inside the fact's interval as that is now, unless it is a backfilled row
\* nobody has touched: the migrations compare it with nothing.
KnowledgeIsOfThisFact ==
    \A f \in Facts, h \in Holders :
        story[f].know[h].status = "confirmed" =>
            /\ story[f].fact.status = "confirmed"
            /\ story[f].know[h].about = story[f].fact.text
            /\ Untouched(story[f], h) \/ Inside(story[f].fact, story[f].know[h].from)

\* The roster that backups carry beside the knowledge rows lists the characters'
\* confirmed knowledge and, whatever its status, knowledge backfilled from the
\* roster itself until the first request that writes it; nothing else.
RosterIsConfirmedKnowledge ==
    \A f \in Facts, c \in Characters :
        story[f].roster[c] =
            IF story[f].know[c].status = "confirmed" \/ Untouched(story[f], c)
            THEN story[f].know[c].from ELSE NoPosition

\* Every version of a fact and of a knowledge row is in the history, from its
\* first change on, whichever request made it.
HistoryIsComplete ==
    \A f \in Facts :
        /\ story[f].fact.version > 1 => story[f].factRevs = 1 .. story[f].fact.version
        /\ \A h \in Holders : story[f].know[h].version > 1 =>
              story[f].knowRevs[h] = 1 .. story[f].know[h].version

\* A version number never stands for two contents, so a correction under an
\* expected version replaces only what its author has read.
VersionsIdentifyContents ==
    [][\A f \in Facts :
          /\ story'[f].fact # story[f].fact => story'[f].fact.version = story[f].fact.version + 1
          /\ \A h \in Holders : story'[f].know[h] # story[f].know[h] =>
                story'[f].know[h].version = story[f].know[h].version + 1]_narrativeVars
=============================================================================
