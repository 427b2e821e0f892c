----------------------------- MODULE Manuscript -----------------------------
(***************************************************************************)
(* The manuscript of one project: scene contracts, reviewable proposals,   *)
(* the accepted scene rows, their revision history and the outbox jobs     *)
(* that every committed revision enqueues.  Authors are HTTP requests that *)
(* interleave between their database transactions; each write transaction  *)
(* is BEGIN IMMEDIATE and therefore one atomic step.                       *)
(***************************************************************************)
EXTENDS Integers, FiniteSets

CONSTANTS
    Scenes,      \* scene contract ids
    Proposals,   \* manuscript proposal ids
    Authors,     \* concurrent requests of the author's clients
    Texts,       \* title and prose of a scene, as one value
    None,        \* an absent text or proposal
    MaxVersion,  \* bound: versions filed per scene
    MaxPlan      \* bound: plan versions per scene contract

ASSUME ManuscriptAssumption ==
    /\ None \notin Texts
    /\ None \notin Proposals
    /\ MaxVersion \in Nat
    /\ MaxPlan \in Nat \ {0}

VARIABLES
    contract,    \* scene_contracts: plan version (0: no row) and the plan version of the text
    scene,       \* manuscript_scenes: the accepted row of a contract (version 0: no row)
    proposal,    \* manuscript_proposals: scene, text and review status
    revisions,   \* manuscript_revisions
    jobs,        \* outbox_jobs enqueued for the revisions
    critical,    \* the texts that canon and contract make critically inconsistent
    author       \* where each request is, and what it has read

vars == <<contract, scene, proposal, revisions, jobs, critical, author>>

-----------------------------------------------------------------------------
(* Types *)

JobTypes == {"llm_wiki_ingest", "consistency_analysis", "writeback_analysis", "clp_extraction"}

ReviewStatuses == {"pending_review", "accepted", "rejected", "superseded"}
Decided == ReviewStatuses \ {"pending_review"}

\* REVIEW_TRANSITIONS: only a pending record moves, and only to a decision.
ReviewTransition(from, to) == from = "pending_review" /\ to \in Decided

\* kind, base and plan are history: which path filed the revision, which version
\* its author had read, and the plan version at the commit.
RevisionType == [scene: Scenes, version: Nat, proposal: Proposals, text: Texts,
                 kind: {"accept", "edit", "restore"}, base: Nat, plan: Nat]
JobType == [type: JobTypes, scene: Scenes, version: Nat, supersedes: Nat]

Idle == [pc |-> "idle", scene |-> None, proposal |-> None, text |-> None,
         seen |-> 0, target |-> "accepted"]

AuthorType == [pc: {"idle", "editing", "drafting", "defaulting", "checking", "checked", "deciding"},
               scene: Scenes \cup {None}, proposal: Proposals \cup {None},
               text: Texts \cup {None}, seen: Nat, target: Decided]

NoScene == [version |-> 0, proposal |-> None, text |-> None]
NoProposal == [scene |-> None, text |-> None, status |-> "none"]

\* Type invariant of the stored rows and of the requests in flight.
TypeOK ==
    /\ contract \in [Scenes -> [plan: Nat, drawn: Nat]]
    /\ scene \in [Scenes -> [version: Nat, proposal: Proposals \cup {None}, text: Texts \cup {None}]]
    /\ proposal \in [Proposals -> [scene: Scenes \cup {None}, text: Texts \cup {None},
                                   status: ReviewStatuses \cup {"none"}]]
    /\ revisions \subseteq RevisionType
    /\ jobs \subseteq JobType
    /\ critical \subseteq Texts
    /\ author \in [Authors -> AuthorType]

-----------------------------------------------------------------------------
(* The pieces of the write transactions *)

RevisionsOf(s) == {r \in revisions : r.scene = s}

\* previous_revision_id: the row one version below, or 0 when there is none.
PreviousVersion(s, v) ==
    IF \E r \in revisions : r.scene = s /\ r.version = v - 1 THEN v - 1 ELSE 0

RevisionJob(t, s, v) ==
    [type |-> t, scene |-> s, version |-> v,
     supersedes |-> IF t = "llm_wiki_ingest" THEN PreviousVersion(s, v) ELSE 0]

\* Seeded fault: the idempotency key names the scene instead of the revision.
EnqueueOncePerScene(s, v) ==
    jobs' = jobs \cup
        {RevisionJob(t, s, v) : t \in {u \in JobTypes : ~\E j \in jobs : j.type = u /\ j.scene = s}}

\* OutboxRepository.insert: an existing idempotency key inserts nothing.
EnqueueCommittedRevisionJobs(s, v) ==
    jobs' = jobs \cup
        {RevisionJob(t, s, v) :
            t \in {u \in JobTypes : ~\E j \in jobs : j.type = u /\ j.scene = s /\ j.version = v}}

\* insert_revision: UNIQUE (project, scene, version); the contract records the
\* plan version the text now stands for (no row, no update).
InsertRevision(rev) ==
    /\ \A r \in RevisionsOf(rev.scene) : r.version # rev.version
    /\ revisions' = revisions \cup {rev}
    /\ contract' = [contract EXCEPT ![rev.scene].drawn = contract[rev.scene].plan]

\* Seeded fault: a path that writes the scene row but files no revision.
CommitRevisionUnfiled(s, p, t, kind, base) ==
    LET v == scene[s].version + 1
    IN  /\ v <= MaxVersion
        /\ scene' = [scene EXCEPT ![s] = [version |-> v, proposal |-> p, text |-> t]]
        /\ UNCHANGED <<contract, revisions>>
        /\ EnqueueCommittedRevisionJobs(s, v)

\* What accept, edit and restore share: the next version becomes the scene row,
\* its revision is filed and its post-commit pipeline is enqueued.
CommitRevision(s, p, t, kind, base) ==
    LET v == scene[s].version + 1
    IN  /\ v <= MaxVersion
        /\ scene' = [scene EXCEPT ![s] = [version |-> v, proposal |-> p, text |-> t]]
        /\ InsertRevision([scene |-> s, version |-> v, proposal |-> p, text |-> t,
                           kind |-> kind, base |-> base, plan |-> contract[s].plan])
        /\ EnqueueCommittedRevisionJobs(s, v)

Return(a) == author' = [author EXCEPT ![a] = Idle]

-----------------------------------------------------------------------------
(* Scene contracts and canon, the context of a review *)

Init ==
    /\ contract = [s \in Scenes |-> [plan |-> 1, drawn |-> 0]]
    /\ scene = [s \in Scenes |-> NoScene]
    /\ proposal = [p \in Proposals |-> NoProposal]
    /\ revisions = {}
    /\ jobs = {}
    /\ critical = {}
    /\ author = [a \in Authors |-> Idle]

\* Seeded fault: the contract update rewrites the whole row.
UpdateContractWholeRow(s) ==
    /\ contract[s].plan \in 1..(MaxPlan - 1)
    /\ contract' = [contract EXCEPT ![s] = [plan |-> contract[s].plan + 1,
                                           drawn |-> contract[s].plan + 1]]
    /\ UNCHANGED <<scene, proposal, revisions, jobs, critical, author>>

UpdateContract(s) ==
    /\ contract[s].plan \in 1..(MaxPlan - 1)
    /\ contract' = [contract EXCEPT ![s].plan = @ + 1]
    /\ UNCHANGED <<scene, proposal, revisions, jobs, critical, author>>

\* Deleting a contract leaves its manuscript rows; a contract of the same
\* sequence and title gets the freed id back.
DeleteContract(s) ==
    /\ contract[s].plan > 0
    /\ contract' = [contract EXCEPT ![s] = [plan |-> 0, drawn |-> 0]]
    /\ UNCHANGED <<scene, proposal, revisions, jobs, critical, author>>

RecreateContract(s) ==
    /\ contract[s].plan = 0
    /\ contract' = [contract EXCEPT ![s] = [plan |-> 1, drawn |-> 0]]
    /\ UNCHANGED <<scene, proposal, revisions, jobs, critical, author>>

\* Canon, contract or fact edits change what the consistency rules forbid.
EditCanon(c) ==
    /\ critical' = c
    /\ UNCHANGED <<contract, scene, proposal, revisions, jobs, author>>

\* Local and provider generation, and the legacy import, end in create_proposal.
CreateProposal(p, s, t) ==
    /\ proposal[p].status = "none"
    /\ contract[s].plan > 0
    /\ proposal' = [proposal EXCEPT ![p] = [scene |-> s, text |-> t, status |-> "pending_review"]]
    /\ UNCHANGED <<contract, scene, revisions, jobs, critical, author>>

-----------------------------------------------------------------------------
(* Manual edits *)

\* The client loads the scene it will edit, with the version it saw.
OpenScene(a, s, t) ==
    /\ author[a].pc = "idle"
    /\ scene[s].version > 0
    /\ author' = [author EXCEPT ![a] =
                    [Idle EXCEPT !.pc = "editing", !.scene = s, !.text = t, !.seen = scene[s].version]]
    /\ UNCHANGED <<contract, scene, proposal, revisions, jobs, critical>>

\* update_manuscript_scene: the version read by the editor is the CAS token.
SaveScene(a) ==
    LET r == author[a] IN
    /\ r.pc = "editing"
    /\ Return(a)
    /\ IF r.seen = scene[r.scene].version
       THEN CommitRevision(r.scene, scene[r.scene].proposal, r.text, "edit", r.seen)
       ELSE UNCHANGED <<contract, scene, revisions, jobs>>
    /\ UNCHANGED <<proposal, critical>>

\* restore_manuscript_revision: no expected version, the newest scene is replaced.
RestoreRevision(r) ==
    /\ r \in revisions
    /\ CommitRevision(r.scene, r.proposal, r.text, "restore", r.version)
    /\ UNCHANGED <<proposal, critical, author>>

-----------------------------------------------------------------------------
(* Acceptance: draft, status read, consistency check, transaction *)

\* The review screen loads a proposal and the scene version beside it.
OpenProposal(a, p, t) ==
    /\ author[a].pc = "idle"
    /\ proposal[p].status # "none"
    /\ author' = [author EXCEPT ![a] =
                    [Idle EXCEPT !.pc = "drafting", !.proposal = p, !.text = t,
                                 !.seen = scene[proposal[p].scene].version]]
    /\ UNCHANGED <<contract, scene, proposal, revisions, jobs, critical>>

\* POST .../accept: the service reads the status; a decided proposal returns.
SubmitDraft(a) ==
    /\ author[a].pc = "drafting"
    /\ IF ReviewTransition(proposal[author[a].proposal].status, "accepted")
       THEN author' = [author EXCEPT ![a].pc = "checking"]
       ELSE Return(a)
    /\ UNCHANGED <<contract, scene, proposal, revisions, jobs, critical>>

\* PUT .../status with "accepted" carries no draft.
SubmitStatusAccepted(a, p) ==
    /\ author[a].pc = "idle"
    /\ ReviewTransition(proposal[p].status, "accepted")
    /\ author' = [author EXCEPT ![a] =
                    [Idle EXCEPT !.pc = "defaulting", !.proposal = p, !.text = proposal[p].text]]
    /\ UNCHANGED <<contract, scene, proposal, revisions, jobs, critical>>

\* ... so the service reads the scene version itself, in a later transaction.
DefaultDraft(a) ==
    /\ author[a].pc = "defaulting"
    /\ author' = [author EXCEPT ![a].pc = "checking",
                                ![a].seen = scene[proposal[author[a].proposal].scene].version]
    /\ UNCHANGED <<contract, scene, proposal, revisions, jobs, critical>>

\* preview_proposal_consistency: a missing contract or a critical finding ends the request.
CheckDraft(a) ==
    LET r == author[a] IN
    /\ r.pc = "checking"
    /\ IF contract[proposal[r.proposal].scene].plan > 0 /\ r.text \notin critical
       THEN author' = [author EXCEPT ![a].pc = "checked"]
       ELSE Return(a)
    /\ UNCHANGED <<contract, scene, proposal, revisions, jobs, critical>>

\* set_proposal_status and supersede_pending_for_scene.
AcceptAndSupersede(p) ==
    proposal' = [q \in Proposals |->
        CASE q = p -> [proposal[q] EXCEPT !.status = "accepted"]
          [] q # p /\ proposal[q].scene = proposal[p].scene
                   /\ proposal[q].status = "pending_review" ->
                [proposal[q] EXCEPT !.status = "superseded"]
          [] OTHER -> proposal[q]]

\* Seeded faults: the transaction relies on the service's earlier reads.
AcceptableByStatus(r) == proposal[r.proposal].status = "pending_review"
AcceptableByVersion(r) == r.seen = scene[proposal[r.proposal].scene].version

\* accept_manuscript_proposal re-reads the status and compares the version.
Acceptable(r) ==
    /\ proposal[r.proposal].status = "pending_review"
    /\ r.seen = scene[proposal[r.proposal].scene].version

CommitAccept(a) ==
    LET r == author[a] IN
    /\ r.pc = "checked"
    /\ Return(a)
    /\ IF Acceptable(r)
       THEN /\ CommitRevision(proposal[r.proposal].scene, r.proposal, r.text, "accept", r.seen)
            /\ AcceptAndSupersede(r.proposal)
       ELSE UNCHANGED <<contract, scene, proposal, revisions, jobs>>
    /\ UNCHANGED critical

-----------------------------------------------------------------------------
(* The other decisions: a read, then an UPDATE guarded by the status read *)

ReadForDecision(a, p, target) ==
    /\ author[a].pc = "idle"
    /\ target # "accepted"
    /\ ReviewTransition(proposal[p].status, target)
    /\ author' = [author EXCEPT ![a] =
                    [Idle EXCEPT !.pc = "deciding", !.proposal = p, !.target = target]]
    /\ UNCHANGED <<contract, scene, proposal, revisions, jobs, critical>>

WriteDecision(a) ==
    LET r == author[a] IN
    /\ r.pc = "deciding"
    /\ Return(a)
    /\ proposal' = IF proposal[r.proposal].status = "pending_review"
                   THEN [proposal EXCEPT ![r.proposal].status = r.target]
                   ELSE proposal
    /\ UNCHANGED <<contract, scene, revisions, jobs, critical>>

-----------------------------------------------------------------------------

Environment ==
    \/ \E s \in Scenes : UpdateContract(s) \/ DeleteContract(s) \/ RecreateContract(s)
    \/ \E c \in SUBSET Texts : EditCanon(c)
    \/ \E p \in Proposals, s \in Scenes, t \in Texts : CreateProposal(p, s, t)

Request(a) ==
    \/ \E s \in Scenes, t \in Texts : OpenScene(a, s, t)
    \/ \E p \in Proposals, t \in Texts : OpenProposal(a, p, t)
    \/ \E p \in Proposals : SubmitStatusAccepted(a, p)
    \/ \E p \in Proposals, target \in Decided : ReadForDecision(a, p, target)
    \/ SaveScene(a)
    \/ SubmitDraft(a)
    \/ DefaultDraft(a)
    \/ CheckDraft(a)
    \/ CommitAccept(a)
    \/ WriteDecision(a)

Next ==
    \/ Environment
    \/ \E r \in revisions : RestoreRevision(r)
    \/ \E a \in Authors : Request(a)

Spec == Init /\ [][Next]_vars

-----------------------------------------------------------------------------
(* Properties *)

\* The history of a scene has exactly the versions 1..current, each filed once,
\* whatever accepts, edits and restores interleave.
HistoryIsGapless ==
    \A s \in Scenes :
        /\ {r.version : r \in RevisionsOf(s)} = 1..scene[s].version
        /\ \A r1, r2 \in RevisionsOf(s) : r1.version = r2.version => r1 = r2

\* The accepted scene row is the newest revision: same prose, same proposal.
SceneIsNewestRevision ==
    \A s \in Scenes : \A r \in RevisionsOf(s) :
        r.version = scene[s].version => r.text = scene[s].text /\ r.proposal = scene[s].proposal

\* No committed revision skips indexing or analysis, none is queued twice, and
\* the wiki job of a later version names the version right before it.
PipelineIsComplete ==
    /\ \A r \in revisions, t \in JobTypes :
        \E j \in jobs :
            /\ j.type = t /\ j.scene = r.scene /\ j.version = r.version
            /\ t = "llm_wiki_ingest" => j.supersedes = r.version - 1
    /\ \A j1, j2 \in jobs :
        j1.type = j2.type /\ j1.scene = j2.scene /\ j1.version = j2.version => j1 = j2
    /\ \A j \in jobs : \E r \in revisions : r.scene = j.scene /\ r.version = j.version

\* No lost edit: prose saved or accepted by an author replaces exactly the
\* version that author was looking at.
NoLostEdit ==
    \A r \in revisions : r.kind \in {"accept", "edit"} => r.base = r.version - 1

\* A proposal is accepted once: it has one accepting revision when its status is
\* accepted and none otherwise, however often the accept is repeated or raced.
AcceptedExactlyOnce ==
    /\ \A p \in Proposals :
        proposal[p].status = "accepted" <=>
            \E r \in revisions : r.kind = "accept" /\ r.proposal = p
    /\ \A r1, r2 \in revisions :
        r1.kind = "accept" /\ r2.kind = "accept" /\ r1.proposal = r2.proposal => r1 = r2

\* A contract that claims its text is drawn from the current plan is right: the
\* newest revision was committed under that plan version.
PlanDriftIsVisible ==
    \A s \in Scenes :
        contract[s].plan > 0 /\ contract[s].drawn = contract[s].plan =>
            \E r \in RevisionsOf(s) : r.version = scene[s].version /\ r.plan = contract[s].plan

\* Decided review states are final.
DecisionsAreFinal ==
    [][\A p \in Proposals :
        proposal[p].status \in Decided => proposal'[p].status = proposal[p].status]_vars

\* An accepted proposal leaves no sibling of its scene pending behind it.
AcceptSupersedesSiblings ==
    [][\A p, q \in Proposals :
        /\ proposal[p].status # "accepted" /\ proposal'[p].status = "accepted"
        /\ proposal'[q].scene = proposal[p].scene
        => proposal'[q].status # "pending_review"]_vars

=============================================================================
