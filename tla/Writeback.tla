------------------------------ MODULE Writeback ------------------------------
(***************************************************************************)
(* Canon records, story threads and the write-back proposals that change   *)
(* them.  A proposal is drafted from what its author (a client or a        *)
(* provider) has read, checked against the data, stored in a later         *)
(* transaction, and applied when it is accepted; meanwhile the editor      *)
(* changes, deletes and recreates the same records.  Acceptance reads and  *)
(* writes in one IMMEDIATE transaction; the other requests read first and  *)
(* reserve the writer with their first write.                              *)
(***************************************************************************)
EXTENDS Integers

CONSTANTS
    Ids,         \* canon records, an identity being made from the record's name
    Values,      \* what a canon record says
    Threads,     \* identities of story threads, all of one title
    Scenes,      \* scenes, named by their sequence numbers
    Proposals,   \* identities of write-back proposals
    Editors,     \* requests of the canon editor in flight
    Statuses,    \* bound: statuses an author or a proposal gives a thread
    MaxVersion   \* bound: changes are requested of records below this version

AllStatuses == {"planned", "planted", "developing", "dormant", "paid_off", "abandoned"}
ByTitle == "by title"   \* an event proposal that names its thread by title

ASSUME WritebackAssumption ==
    /\ Scenes \subseteq Nat
    /\ MaxVersion \in Nat \ {0}
    /\ Statuses \subseteq AllStatuses
    /\ ByTitle \notin Threads

VARIABLES
    canon,       \* per identity: the row, or NoRow
    threads,     \* per identity: the row, or NoThread
    scenes,      \* scene contracts that exist
    proposals,   \* per identity: status, body and applied record
    editors      \* per request: what it has read and wants to write

vars == <<canon, threads, scenes, proposals, editors>>

\* A deleted record's identity is free: one of the same name takes it again.
NoRow == [state |-> "none", version |-> 0]
Rows == [state: Values, version: Nat \ {0}]
Here(i) == canon[i].version # 0

Actions == {"plant", "develop", "payoff"}
NoThread == [status |-> "none", planted |-> -1]
ThreadRows == [status: AllStatuses, planted: Scenes \cup {-1}]
Told(t) == threads[t] # NoThread

\* The "before" values of an update are stored for the reviewer's eyes: nothing
\* compares them.
UpdateBodies ==
    [kind: {"canon_update"}, id: Ids, expected: Nat \ {0}, after: Values]

ThreadBodies ==
    [kind: {"story_thread_status"}, thread: Threads, from: AllStatuses, to: Statuses]
    \cup [kind: {"story_thread"}]
    \cup [kind: {"story_thread_event"}, thread: Threads \cup {ByTitle},
          action: Actions, scene: Scenes]

\* A "record" is a memory record or a narrative relation: a row of its own.
Bodies ==
    UpdateBodies \cup ThreadBodies
    \cup [kind: {"canon_create"}, id: Ids, state: Values]
    \cup [kind: {"record"}]

\* History: "seen" is the row the author of an update had read when he drafted
\* it, "gone" says that the record was deleted since, "effects" how often the
\* proposal has been applied.
Unused == [status |-> "unused", body |-> [kind |-> "none"],
           seen |-> NoRow, gone |-> FALSE, effects |-> 0, rejecting |-> FALSE]

ProposalStatuses ==
    {"unused", "drafted", "checked", "pending_review", "accepted", "rejected", "superseded"}

Idle == [id |-> "none", form |-> NoRow]

\* Type invariant of the tables and of the requests in flight.
TypeOK ==
    /\ canon \in [Ids -> Rows \cup {NoRow}]
    /\ threads \in [Threads -> ThreadRows \cup {NoThread}]
    /\ scenes \in SUBSET Scenes
    /\ proposals \in [Proposals ->
          [status: ProposalStatuses, body: Bodies \cup {[kind |-> "none"]},
           seen: Rows \cup {NoRow}, gone: BOOLEAN, effects: Nat, rejecting: BOOLEAN]]
    /\ editors \in [Editors -> {Idle} \cup [id: Ids, form: Rows]]

Pending(p) == proposals[p].status = "pending_review"
Updates(p, i) == /\ proposals[p].body.kind = "canon_update"
                 /\ proposals[p].body.id = i

-----------------------------------------------------------------------------
(* The canon editor *)

\* One record per name; creating it twice is refused by the table.
CreateCanon(i, v) ==
    /\ ~Here(i)
    /\ canon' = [canon EXCEPT ![i] = [state |-> v, version |-> 1]]
    /\ UNCHANGED <<threads, scenes, proposals, editors>>

DeleteCanon(i) ==
    /\ Here(i)
    /\ canon' = [canon EXCEPT ![i] = NoRow]
    /\ proposals' = [p \in Proposals |->
          IF Updates(p, i) THEN [proposals[p] EXCEPT !.gone = TRUE] ELSE proposals[p]]
    /\ UNCHANGED <<threads, scenes, editors>>

\* The row update() builds from the form and the version it has read.
FormRead(i, v) == [state |-> v, version |-> canon[i].version + 1]

ReadForUpdate(e, i) ==
    \E v \in Values :
        /\ editors[e] = Idle
        /\ Here(i) /\ canon[i].version < MaxVersion
        /\ editors' = [editors EXCEPT ![e] = [id |-> i, form |-> FormRead(i, v)]]
        /\ UNCHANGED <<canon, threads, scenes, proposals>>

\* The first attempt compares the version it read.  Whether or not it matches,
\* it leaves the connection holding the writer, so the second attempt reads a
\* row nobody can change and cannot miss.
Written(i, form) ==
    IF canon[i].version = form.version - 1 THEN form
    ELSE [form EXCEPT !.version = canon[i].version + 1]

WriteUpdate(e) ==
    LET i == editors[e].id IN
    /\ editors[e] # Idle
    /\ canon' = IF Here(i)
                THEN [canon EXCEPT ![i] = Written(i, editors[e].form)]
                ELSE canon
    /\ editors' = [editors EXCEPT ![e] = Idle]
    /\ UNCHANGED <<threads, scenes, proposals>>

-----------------------------------------------------------------------------
(* Story threads and scenes *)

\* add_thread_event: the row a thread has after an event in scene s.
AfterEvent(row, action, s) ==
    CASE action = "payoff" -> [row EXCEPT !.status = "paid_off"]
      [] action = "plant" ->
            [status |-> "planted", planted |-> IF row.planted = -1 THEN s ELSE row.planted]
      [] action = "develop" ->
            IF row.status \in {"planned", "planted", "dormant"}
            THEN [row EXCEPT !.status = "developing"] ELSE row

NewThreads == [status: Statuses, planted: Scenes \cup {-1}]

AuthorCreatesThread(t) ==
    /\ ~Told(t)
    /\ \E row \in NewThreads : threads' = [threads EXCEPT ![t] = row]
    /\ UNCHANGED <<canon, scenes, proposals, editors>>

AuthorSetsStatus(t, status) ==
    /\ Told(t)
    /\ threads' = [threads EXCEPT ![t].status = status]
    /\ UNCHANGED <<canon, scenes, proposals, editors>>

AuthorAddsEvent(t, action, s) ==
    /\ Told(t) /\ s \in scenes
    /\ threads' = [threads EXCEPT ![t] = AfterEvent(threads[t], action, s)]
    /\ UNCHANGED <<canon, scenes, proposals, editors>>

\* A deleted scene takes its thread events with it, not what they changed.
SceneComesOrGoes(s) ==
    /\ scenes' = IF s \in scenes THEN scenes \ {s} ELSE scenes \cup {s}
    /\ UNCHANGED <<canon, threads, proposals, editors>>

-----------------------------------------------------------------------------
(* Proposals *)

\* ensure_writeback_proposals_acceptable, on the data as it is now.
Acceptable(b) ==
    \/ b.kind = "canon_update" /\ Here(b.id) /\ b.expected = canon[b.id].version
    \/ b.kind = "canon_create" /\ ~Here(b.id)
    \/ b.kind = "story_thread_status" /\ threads[b.thread].status = b.from /\ b.from # b.to
    \/ b.kind = "story_thread" /\ \A t \in Threads : ~Told(t)
    \/ b.kind = "story_thread_event" /\ (b.thread # ByTitle => Told(b.thread))
    \/ b.kind = "record"

\* What clients and providers send: any version, whether or not they read it.
Requests ==
    [kind: {"canon_update"}, id: Ids, expected: 1 .. (MaxVersion - 1), after: Values]
    \cup ThreadBodies
    \cup [kind: {"canon_create"}, id: Ids, state: Values]
    \cup [kind: {"record"}]

\* The author of a proposal reads the data and writes it.
DraftProposal(p) ==
    \E b \in Requests :
        /\ proposals[p] = Unused
        /\ proposals' = [proposals EXCEPT
              ![p].status = "drafted", ![p].body = b,
              ![p].seen = IF b.kind = "canon_update" THEN canon[b.id] ELSE NoRow]
        /\ UNCHANGED <<canon, threads, scenes, editors>>

\* create_proposal; a refused request stores nothing and may be sent again.
CheckProposal(p) ==
    /\ proposals[p].status = "drafted"
    /\ Acceptable(proposals[p].body)
    /\ proposals' = [proposals EXCEPT ![p].status = "checked"]
    /\ UNCHANGED <<canon, threads, scenes, editors>>

StoreProposal(p) ==
    /\ proposals[p].status = "checked"
    /\ proposals' = [proposals EXCEPT ![p].status = "pending_review"]
    /\ UNCHANGED <<canon, threads, scenes, editors>>

\* Seeded fault: acceptance trusts the check made when the proposal was stored.
CurrentUnchecked(b) == Here(b.id)

Current(b) == Here(b.id) /\ canon[b.id].version = b.expected

\* apply_canon_update
Updated(row, b) == [state |-> b.after, version |-> row.version + 1]

ApplyUpdate(b) ==
    /\ Current(b)
    /\ canon' = [canon EXCEPT ![b.id] = Updated(canon[b.id], b)]
    /\ UNCHANGED threads

ApplyCreate(b) ==
    /\ ~Here(b.id)
    /\ canon' = [canon EXCEPT ![b.id] = [state |-> b.state, version |-> 1]]
    /\ UNCHANGED threads

ApplyThreadStatus(b) ==
    /\ threads[b.thread].status = b.from
    /\ threads' = [threads EXCEPT ![b.thread].status = b.to]
    /\ UNCHANGED canon

ApplyThread ==
    /\ \E t \in Threads, row \in NewThreads :
          ~Told(t) /\ threads' = [threads EXCEPT ![t] = row]
    /\ UNCHANGED canon

\* A title must name exactly one thread; the event's scene must exist by now.
ApplyEvent(b) ==
    \E t \in {u \in Threads : Told(u)} :
        /\ b.thread = t \/ (b.thread = ByTitle /\ \A u \in Threads : Told(u) => u = t)
        /\ b.scene \in scenes
        /\ threads' = [threads EXCEPT ![t] = AfterEvent(threads[t], b.action, b.scene)]
        /\ UNCHANGED canon

Apply(b) ==
    \/ b.kind = "canon_update" /\ ApplyUpdate(b)
    \/ b.kind = "canon_create" /\ ApplyCreate(b)
    \/ b.kind = "story_thread_status" /\ ApplyThreadStatus(b)
    \/ b.kind = "story_thread" /\ ApplyThread
    \/ b.kind = "story_thread_event" /\ ApplyEvent(b)
    \/ b.kind = "record" /\ UNCHANGED <<canon, threads>>

\* supersede_pending_for_target: pending updates of the record p has changed.
Sibling(p, q) ==
    /\ q # p
    /\ Pending(q)
    /\ proposals[p].body.kind = "canon_update"
    /\ Updates(q, proposals[p].body.id)

\* accept_writeback_proposal.  A refused step rolls everything back; accepting
\* an accepted proposal again answers with it and does nothing.
Accept(p) ==
    /\ Pending(p)
    /\ Apply(proposals[p].body)
    /\ proposals' = [q \in Proposals |->
          IF q = p THEN [proposals[q] EXCEPT !.status = "accepted",
                                             !.effects = proposals[q].effects + 1]
          ELSE IF Sibling(p, q) THEN [proposals[q] EXCEPT !.status = "superseded"]
          ELSE proposals[q]]
    /\ UNCHANGED <<scenes, editors>>

\* update_writeback_status reads the proposal and decides ...
ReadForReject(p) ==
    /\ Pending(p) /\ ~proposals[p].rejecting
    /\ proposals' = [proposals EXCEPT ![p].rejecting = TRUE]
    /\ UNCHANGED <<canon, threads, scenes, editors>>

\* Seeded fault: the decision is written whatever happened since the read.
StillAsReadAlways(p) == TRUE

\* ... and writes under the status it has read.
StillAsRead(p) == Pending(p)

Reject(p) ==
    /\ proposals[p].rejecting
    /\ \E status \in {"rejected", "superseded"} :
          proposals' = [proposals EXCEPT
              ![p].rejecting = FALSE,
              ![p].status = IF StillAsRead(p) THEN status ELSE proposals[p].status]
    /\ UNCHANGED <<canon, threads, scenes, editors>>

Init ==
    /\ canon = [i \in Ids |-> NoRow]
    /\ threads = [t \in Threads |-> NoThread]
    /\ scenes = Scenes
    /\ proposals = [p \in Proposals |-> Unused]
    /\ editors = [e \in Editors |-> Idle]

CanonRequests ==
    \/ \E i \in Ids, v \in Values : CreateCanon(i, v)
    \/ \E i \in Ids : DeleteCanon(i)
    \/ \E e \in Editors, i \in Ids : ReadForUpdate(e, i)
    \/ \E e \in Editors : WriteUpdate(e)

ThreadRequests ==
    \E t \in Threads :
        \/ AuthorCreatesThread(t)
        \/ \E status \in Statuses : AuthorSetsStatus(t, status)
        \/ \E action \in Actions, s \in Scenes : AuthorAddsEvent(t, action, s)

WritebackRequests ==
    \E p \in Proposals :
        \/ DraftProposal(p) \/ CheckProposal(p) \/ StoreProposal(p)
        \/ Accept(p)
        \/ ReadForReject(p) \/ Reject(p)

Next ==
    \/ CanonRequests
    \/ ThreadRequests
    \/ WritebackRequests
    \/ \E s \in Scenes : SceneComesOrGoes(s)

Spec == Init /\ [][Next]_vars

-----------------------------------------------------------------------------
(* Properties *)

\* A proposal has had its effect exactly once if it is accepted and never
\* otherwise, whatever reviews of it are in flight together.
EffectIffAccepted ==
    \A p \in Proposals :
        proposals[p].effects = IF proposals[p].status = "accepted" THEN 1 ELSE 0

\* An accepted update that expects the version its author read replaces the
\* value he read, however long drafting, check and review took, unless the record
\* was deleted since he read it.
AcceptedChangesAreCurrent ==
    [][\A p \in Proposals :
          (/\ proposals[p].status # "accepted" /\ proposals'[p].status = "accepted"
           /\ proposals[p].body.kind = "canon_update" /\ ~proposals[p].gone
           /\ proposals[p].body.expected = proposals[p].seen.version) =>
              canon[proposals[p].body.id].state = proposals[p].seen.state]_vars

=============================================================================
