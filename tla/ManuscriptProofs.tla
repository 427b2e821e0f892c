-------------------------- MODULE ManuscriptProofs --------------------------
(***************************************************************************)
(* Proofs about Manuscript for every set of scenes, proposals, authors and *)
(* texts.  The inductive invariant is the conjunction of the checked       *)
(* invariants with what each row and each request in flight refers to.     *)
(***************************************************************************)
EXTENDS Manuscript, TLAPS

\* Rows that exist are complete, and requests name rows that exist.
References ==
    /\ \A s \in Scenes : scene[s].version > 0 => scene[s].proposal \in Proposals
                                             /\ scene[s].text \in Texts
    /\ \A p \in Proposals : proposal[p].status # "none" => proposal[p].scene \in Scenes
                                                       /\ proposal[p].text \in Texts
    /\ \A a \in Authors :
        /\ author[a].pc = "editing" =>
            author[a].scene \in Scenes /\ author[a].text \in Texts /\ author[a].seen > 0
        /\ author[a].pc \in {"drafting", "defaulting", "checking", "checked"} =>
            /\ author[a].proposal \in Proposals /\ author[a].text \in Texts
            /\ proposal[author[a].proposal].status # "none"
        /\ author[a].pc = "deciding" =>
            /\ author[a].target # "accepted"
            /\ author[a].proposal \in Proposals
            /\ proposal[author[a].proposal].status # "none"

\* The inductive invariant.
IInv ==
    /\ TypeOK
    /\ References
    /\ HistoryIsGapless
    /\ SceneIsNewestRevision
    /\ PipelineIsComplete
    /\ NoLostEdit
    /\ AcceptedExactlyOnce

-----------------------------------------------------------------------------

\* What one committed revision does to the stored rows, whichever path files it,
\* provided an accept or an edit was based on the current version.
LEMMA CommitRevisionPreserves ==
    ASSUME TypeOK, HistoryIsGapless, SceneIsNewestRevision, PipelineIsComplete, NoLostEdit,
           NEW s \in Scenes, NEW p \in Proposals, NEW t \in Texts,
           NEW kind \in {"accept", "edit", "restore"}, NEW base \in Nat,
           kind \in {"accept", "edit"} => base = scene[s].version,
           CommitRevision(s, p, t, kind, base)
    PROVE  /\ contract' \in [Scenes -> [plan: Nat, drawn: Nat]]
           /\ scene' \in [Scenes -> [version: Nat, proposal: Proposals \cup {None},
                                     text: Texts \cup {None}]]
           /\ revisions' \subseteq RevisionType
           /\ jobs' \subseteq JobType
           /\ HistoryIsGapless' /\ SceneIsNewestRevision' /\ PipelineIsComplete' /\ NoLostEdit'
<1> DEFINE v == scene[s].version + 1
           rev == [scene |-> s, version |-> v, proposal |-> p, text |-> t,
                   kind |-> kind, base |-> base, plan |-> contract[s].plan]
<1>1. /\ scene' = [scene EXCEPT ![s] = [version |-> v, proposal |-> p, text |-> t]]
      /\ revisions' = revisions \cup {rev}
      /\ contract' = [contract EXCEPT ![s].drawn = contract[s].plan]
      /\ EnqueueCommittedRevisionJobs(s, v)
      BY DEF CommitRevision, InsertRevision
<1>2. v \in Nat /\ v > 0 /\ scene[s].version = v - 1
      BY DEF TypeOK
<1>15. contract[s].plan \in Nat
      BY DEF TypeOK
<1>16. rev \in RevisionType
      BY <1>2, <1>15 DEF RevisionType
<1>3. revisions' \subseteq RevisionType
      BY <1>1, <1>16 DEF TypeOK
<1>4. contract' \in [Scenes -> [plan: Nat, drawn: Nat]]
      BY <1>1 DEF TypeOK
<1>5. scene' \in [Scenes -> [version: Nat, proposal: Proposals \cup {None},
                             text: Texts \cup {None}]]
      BY <1>1, <1>2 DEF TypeOK
<1>6. \A u \in JobTypes : PreviousVersion(s, v) = v - 1 /\ RevisionJob(u, s, v) \in JobType
  <2>1. PreviousVersion(s, v) = v - 1
    <3>1. CASE v = 1
          BY <3>1, <1>2 DEF PreviousVersion
    <3>2. CASE v > 1
      <4>1. v - 1 \in 1..scene[s].version
            BY <3>2, <1>2
      <4>2. \E r \in revisions : r.scene = s /\ r.version = v - 1
            BY <4>1 DEF HistoryIsGapless, RevisionsOf
      <4> QED BY <4>2 DEF PreviousVersion
    <3> QED BY <3>1, <3>2, <1>2
  <2> QED BY <2>1, <1>2 DEF RevisionJob, JobType
<1>7. \A j \in jobs : j.scene = s => j.version # v
  <2> SUFFICES ASSUME NEW j \in jobs, j.scene = s, j.version = v
               PROVE  FALSE
      OBVIOUS
  <2>1. PICK r \in revisions : r.scene = s /\ r.version = v
        BY DEF PipelineIsComplete
  <2>2. r.version \in 1..scene[s].version
        BY <2>1 DEF HistoryIsGapless, RevisionsOf
  <2> QED BY <2>1, <2>2, <1>2
<1>8. jobs' = jobs \cup {RevisionJob(u, s, v) : u \in JobTypes}
      BY <1>1, <1>7 DEF EnqueueCommittedRevisionJobs
<1>9. jobs' \subseteq JobType
      BY <1>6, <1>8 DEF TypeOK
<1>10. \A r \in revisions : r.scene = s => r.version \in 1..(v - 1)
      BY <1>2 DEF HistoryIsGapless, RevisionsOf
<1>11. HistoryIsGapless'
  <2> SUFFICES ASSUME NEW z \in Scenes
               PROVE  /\ {r.version : r \in RevisionsOf(z)'} = 1..(scene'[z].version)
                      /\ \A r1, r2 \in RevisionsOf(z)' : r1.version = r2.version => r1 = r2
      BY DEF HistoryIsGapless
  <2>1. CASE z = s
    <3>1. RevisionsOf(z)' = RevisionsOf(s) \cup {rev}
          BY <1>1, <2>1 DEF RevisionsOf
    <3>2. scene'[z].version = v
          BY <1>1, <2>1 DEF TypeOK
    <3>3. {r.version : r \in RevisionsOf(s)} = 1..(v - 1)
          BY <1>2 DEF HistoryIsGapless
    <3>4. {r.version : r \in RevisionsOf(z)'} = {r.version : r \in RevisionsOf(s)} \cup {v}
      <4>1. rev.version = v
            OBVIOUS
      <4> HIDE DEF rev, v
      <4> QED BY <4>1, <3>1
    <3>5. 1..(v - 1) \cup {v} = 1..v
          BY <1>2
    <3>6. \A r \in RevisionsOf(s) : r.version # v
          BY <1>10, <1>2 DEF RevisionsOf
    <3>7. \A r1, r2 \in RevisionsOf(z)' : r1.version = r2.version => r1 = r2
      <4>1. \A r1, r2 \in RevisionsOf(s) : r1.version = r2.version => r1 = r2
            BY DEF HistoryIsGapless
      <4>2. rev.version = v
            OBVIOUS
      <4> HIDE DEF rev, v
      <4> QED BY <4>1, <4>2, <3>1, <3>6
    <3> QED BY <3>2, <3>3, <3>4, <3>5, <3>7
  <2>2. CASE z # s
    <3>1. RevisionsOf(z)' = RevisionsOf(z) /\ scene'[z] = scene[z]
          BY <1>1, <2>2 DEF RevisionsOf, TypeOK
    <3> QED BY <3>1 DEF HistoryIsGapless
  <2> QED BY <2>1, <2>2
<1>12. SceneIsNewestRevision'
  <2> SUFFICES ASSUME NEW z \in Scenes, NEW r \in RevisionsOf(z)', r.version = scene'[z].version
               PROVE  r.text = scene'[z].text /\ r.proposal = scene'[z].proposal
      BY DEF SceneIsNewestRevision
  <2>1. CASE z = s
    <3>1. r.scene = s /\ r.version = v /\ r \in revisions \cup {rev}
          BY <1>1, <2>1 DEF RevisionsOf, TypeOK
    <3>2. r = rev
          BY <3>1, <1>10, <1>2
    <3> QED BY <3>2, <1>1, <2>1 DEF TypeOK
  <2>2. CASE z # s
        BY <1>1, <2>2 DEF RevisionsOf, TypeOK, SceneIsNewestRevision
  <2> QED BY <2>1, <2>2
<1>13. PipelineIsComplete'
  <2>1. \A r \in revisions', u \in JobTypes :
            \E j \in jobs' :
                /\ j.type = u /\ j.scene = r.scene /\ j.version = r.version
                /\ u = "llm_wiki_ingest" => j.supersedes = r.version - 1
    <3> SUFFICES ASSUME NEW r \in revisions', NEW u \in JobTypes
                 PROVE  \E j \in jobs' :
                            /\ j.type = u /\ j.scene = r.scene /\ j.version = r.version
                            /\ u = "llm_wiki_ingest" => j.supersedes = r.version - 1
        OBVIOUS
    <3>1. CASE r \in revisions
          BY <3>1, <1>8 DEF PipelineIsComplete
    <3>2. CASE r = rev
      <4>1. RevisionJob(u, s, v) \in jobs'
            BY <1>8
      <4> QED BY <4>1, <3>2, <1>6 DEF RevisionJob
    <3> QED BY <3>1, <3>2, <1>1
  <2>2. \A j1, j2 \in jobs' :
            j1.type = j2.type /\ j1.scene = j2.scene /\ j1.version = j2.version => j1 = j2
    <3> SUFFICES ASSUME NEW j1 \in jobs', NEW j2 \in jobs',
                        j1.type = j2.type, j1.scene = j2.scene, j1.version = j2.version
                 PROVE  j1 = j2
        OBVIOUS
    <3>1. \A u \in JobTypes : /\ RevisionJob(u, s, v).scene = s
                              /\ RevisionJob(u, s, v).version = v
                              /\ RevisionJob(u, s, v).type = u
          BY DEF RevisionJob
    <3>2. CASE j1 \in jobs /\ j2 \in jobs
          BY <3>2 DEF PipelineIsComplete
    <3>3. CASE j1 \notin jobs /\ j2 \notin jobs
          BY <3>3, <3>1, <1>8
    <3>4. CASE (j1 \in jobs) # (j2 \in jobs)
          BY <3>4, <3>1, <1>8, <1>7
    <3> QED BY <3>2, <3>3, <3>4
  <2>3. \A j \in jobs' : \E r \in revisions' : r.scene = j.scene /\ r.version = j.version
    <3> SUFFICES ASSUME NEW j \in jobs'
                 PROVE  \E r \in revisions' : r.scene = j.scene /\ r.version = j.version
        OBVIOUS
    <3>1. CASE j \in jobs
          BY <3>1, <1>1 DEF PipelineIsComplete
    <3>2. CASE j \notin jobs
      <4>1. j.scene = s /\ j.version = v
            BY <3>2, <1>8 DEF RevisionJob
      <4>2. rev \in revisions' /\ rev.scene = s /\ rev.version = v
            BY <1>1
      <4> QED BY <4>1, <4>2
    <3> QED BY <3>1, <3>2
  <2> QED BY <2>1, <2>2, <2>3 DEF PipelineIsComplete
<1>14. NoLostEdit'
  <2>1. rev.kind \in {"accept", "edit"} => rev.base = rev.version - 1
        BY <1>2
  <2> HIDE DEF rev
  <2> QED BY <1>1, <2>1 DEF NoLostEdit
<1> QED BY <1>3, <1>4, <1>5, <1>9, <1>11, <1>12, <1>13, <1>14

-----------------------------------------------------------------------------

\* An action that files nothing keeps the four history invariants.
LEMMA HistoryUnchanged ==
    ASSUME HistoryIsGapless, SceneIsNewestRevision, PipelineIsComplete, NoLostEdit,
           UNCHANGED <<scene, revisions, jobs>>
    PROVE  HistoryIsGapless' /\ SceneIsNewestRevision' /\ PipelineIsComplete' /\ NoLostEdit'
BY DEF HistoryIsGapless, SceneIsNewestRevision, PipelineIsComplete, NoLostEdit, RevisionsOf

\* The invariant holds initially.
LEMMA InitIInv == Init => IInv
<1> SUFFICES ASSUME Init PROVE IInv
    OBVIOUS
<1>1. TypeOK
      BY ManuscriptAssumption
      DEF Init, TypeOK, NoScene, NoProposal, Idle, AuthorType, Decided, ReviewStatuses
<1>2. References
      BY DEF Init, References, NoScene, NoProposal, Idle
<1>3. HistoryIsGapless
  <2>1. \A s \in Scenes : RevisionsOf(s) = {} /\ scene[s].version = 0
        BY DEF Init, RevisionsOf, NoScene
  <2> QED BY <2>1 DEF HistoryIsGapless
<1>4. SceneIsNewestRevision /\ PipelineIsComplete /\ NoLostEdit
      BY DEF Init, SceneIsNewestRevision, PipelineIsComplete, NoLostEdit, RevisionsOf
<1>5. AcceptedExactlyOnce
      BY DEF Init, AcceptedExactlyOnce, NoProposal
<1> QED BY <1>1, <1>2, <1>3, <1>4, <1>5 DEF IInv

\* Edits of contracts and canon, and new proposals, preserve the invariant.
LEMMA EnvironmentPreserves ==
    ASSUME IInv, Environment
    PROVE  IInv'
<1> USE DEF IInv
<1>1. CASE \E s \in Scenes : UpdateContract(s) \/ DeleteContract(s) \/ RecreateContract(s)
  <2>1. PICK s \in Scenes : UpdateContract(s) \/ DeleteContract(s) \/ RecreateContract(s)
        BY <1>1
  <2>2. UNCHANGED <<scene, proposal, revisions, jobs, critical, author>>
        BY <2>1 DEF UpdateContract, DeleteContract, RecreateContract
  <2>3. contract' \in [Scenes -> [plan: Nat, drawn: Nat]]
    <3>1. contract[s] \in [plan: Nat, drawn: Nat]
          BY DEF TypeOK
    <3>2. CASE UpdateContract(s)
          BY <3>1, <3>2 DEF TypeOK, UpdateContract
    <3>3. CASE DeleteContract(s) \/ RecreateContract(s)
          BY <3>3 DEF TypeOK, DeleteContract, RecreateContract
    <3> QED BY <2>1, <3>2, <3>3
  <2>4. TypeOK' /\ References' /\ AcceptedExactlyOnce'
        BY <2>2, <2>3 DEF TypeOK, References, AcceptedExactlyOnce
  <2> QED BY <2>2, <2>4, HistoryUnchanged
<1>2. CASE \E c \in SUBSET Texts : EditCanon(c)
  <2>1. PICK c \in SUBSET Texts : EditCanon(c)
        BY <1>2
  <2>2. TypeOK' /\ References' /\ AcceptedExactlyOnce'
        BY <2>1 DEF EditCanon, TypeOK, References, AcceptedExactlyOnce
  <2> QED BY <2>1, <2>2, HistoryUnchanged DEF EditCanon
<1>3. CASE \E p \in Proposals, s \in Scenes, t \in Texts : CreateProposal(p, s, t)
  <2>1. PICK p \in Proposals, s \in Scenes, t \in Texts : CreateProposal(p, s, t)
        BY <1>3
  <2>2. /\ UNCHANGED <<contract, scene, revisions, jobs, critical, author>>
        /\ proposal[p].status = "none"
        /\ proposal' = [proposal EXCEPT ![p] =
                          [scene |-> s, text |-> t, status |-> "pending_review"]]
        BY <2>1 DEF CreateProposal
  <2>3. TypeOK'
        BY <2>2 DEF TypeOK, ReviewStatuses
  <2>4. References'
        BY <2>2 DEF References, TypeOK
  <2>5. AcceptedExactlyOnce'
        BY <2>2 DEF AcceptedExactlyOnce, TypeOK
  <2> QED BY <2>2, <2>3, <2>4, <2>5, HistoryUnchanged
<1> QED BY <1>1, <1>2, <1>3 DEF Environment

\* A step that only moves one request to a state whose references hold.
LEMMA RequestMoves ==
    ASSUME IInv, NEW a \in Authors, NEW r \in AuthorType,
           author' = [author EXCEPT ![a] = r],
           UNCHANGED <<contract, scene, proposal, revisions, jobs, critical>>,
           r.pc = "editing" => r.scene \in Scenes /\ r.text \in Texts /\ r.seen > 0,
           r.pc \in {"drafting", "defaulting", "checking", "checked"} =>
                /\ r.proposal \in Proposals /\ r.text \in Texts
                /\ proposal[r.proposal].status # "none",
           r.pc = "deciding" =>
                /\ r.target # "accepted"
                /\ r.proposal \in Proposals /\ proposal[r.proposal].status # "none"
    PROVE  IInv'
<1>1. TypeOK'
      BY DEF IInv, TypeOK
<1>2. References'
      BY DEF IInv, References, TypeOK
<1>3. AcceptedExactlyOnce'
      BY DEF IInv, AcceptedExactlyOnce
<1> QED BY <1>1, <1>2, <1>3, HistoryUnchanged DEF IInv

LEMMA IdleTyped == Idle \in AuthorType /\ Idle.pc = "idle"
BY DEF Idle, AuthorType, Decided, ReviewStatuses

\* Reading a scene, a proposal or a status, and checking a draft.
LEMMA ReadsPreserve ==
    ASSUME IInv, NEW a \in Authors,
           \/ \E s \in Scenes, t \in Texts : OpenScene(a, s, t)
           \/ \E p \in Proposals, t \in Texts : OpenProposal(a, p, t)
           \/ \E p \in Proposals : SubmitStatusAccepted(a, p)
           \/ \E p \in Proposals, target \in Decided : ReadForDecision(a, p, target)
           \/ SubmitDraft(a) \/ DefaultDraft(a) \/ CheckDraft(a)
    PROVE  IInv'
<1>1. /\ author[a] \in AuthorType
      /\ \A s \in Scenes : scene[s].version \in Nat
      /\ \A p \in Proposals : proposal[p].status # "none" =>
            proposal[p].scene \in Scenes /\ proposal[p].text \in Texts
      BY DEF IInv, TypeOK, References
<1>2. CASE \E s \in Scenes, t \in Texts : OpenScene(a, s, t)
  <2>1. PICK s \in Scenes, t \in Texts : OpenScene(a, s, t)
        BY <1>2
  <2> DEFINE r == [Idle EXCEPT !.pc = "editing", !.scene = s, !.text = t, !.seen = scene[s].version]
  <2>2. /\ r \in AuthorType /\ r.pc = "editing"
        /\ r.scene \in Scenes /\ r.text \in Texts /\ r.seen > 0
        BY <1>1, <2>1 DEF OpenScene, Idle, AuthorType, Decided, ReviewStatuses
  <2>3. author' = [author EXCEPT ![a] = r]
        BY <2>1 DEF OpenScene
  <2> HIDE DEF r
  <2> QED BY <2>1, <2>2, <2>3, RequestMoves DEF OpenScene
<1>3. CASE \E p \in Proposals, t \in Texts : OpenProposal(a, p, t)
  <2>1. PICK p \in Proposals, t \in Texts : OpenProposal(a, p, t)
        BY <1>3
  <2> DEFINE r == [Idle EXCEPT !.pc = "drafting", !.proposal = p, !.text = t,
                               !.seen = scene[proposal[p].scene].version]
  <2>2. /\ r \in AuthorType /\ r.pc = "drafting"
        /\ r.proposal \in Proposals /\ r.text \in Texts
        /\ proposal[r.proposal].status # "none"
        BY <1>1, <2>1 DEF OpenProposal, Idle, AuthorType, Decided, ReviewStatuses
  <2>3. author' = [author EXCEPT ![a] = r]
        BY <2>1 DEF OpenProposal
  <2> HIDE DEF r
  <2> QED BY <2>1, <2>2, <2>3, RequestMoves DEF OpenProposal
<1>4. CASE \E p \in Proposals : SubmitStatusAccepted(a, p)
  <2>1. PICK p \in Proposals : SubmitStatusAccepted(a, p)
        BY <1>4
  <2> DEFINE r == [Idle EXCEPT !.pc = "defaulting", !.proposal = p, !.text = proposal[p].text]
  <2>2. /\ r \in AuthorType /\ r.pc = "defaulting"
        /\ r.proposal \in Proposals /\ r.text \in Texts
        /\ proposal[r.proposal].status # "none"
        BY <1>1, <2>1
        DEF SubmitStatusAccepted, ReviewTransition, Idle, AuthorType, Decided, ReviewStatuses
  <2>3. author' = [author EXCEPT ![a] = r]
        BY <2>1 DEF SubmitStatusAccepted
  <2> HIDE DEF r
  <2> QED BY <2>1, <2>2, <2>3, RequestMoves DEF SubmitStatusAccepted
<1>5. CASE \E p \in Proposals, target \in Decided : ReadForDecision(a, p, target)
  <2>1. PICK p \in Proposals, target \in Decided : ReadForDecision(a, p, target)
        BY <1>5
  <2> DEFINE r == [Idle EXCEPT !.pc = "deciding", !.proposal = p, !.target = target]
  <2>2. /\ r \in AuthorType /\ r.pc = "deciding" /\ r.target # "accepted"
        /\ r.proposal \in Proposals /\ proposal[r.proposal].status # "none"
        BY <1>1, <2>1
        DEF ReadForDecision, ReviewTransition, Idle, AuthorType, Decided, ReviewStatuses
  <2>3. author' = [author EXCEPT ![a] = r]
        BY <2>1 DEF ReadForDecision
  <2> HIDE DEF r
  <2> QED BY <2>1, <2>2, <2>3, RequestMoves DEF ReadForDecision
<1>6. CASE SubmitDraft(a) \/ DefaultDraft(a) \/ CheckDraft(a)
  <2>1. /\ author[a].proposal \in Proposals /\ author[a].text \in Texts
        /\ proposal[author[a].proposal].status # "none"
        BY <1>6 DEF SubmitDraft, DefaultDraft, CheckDraft, IInv, References
  <2>2. scene[proposal[author[a].proposal].scene].version \in Nat
        BY <2>1, <1>1
  <2>3. PICK r \in {Idle,
                    [author[a] EXCEPT !.pc = "checking"],
                    [author[a] EXCEPT !.pc = "checked"],
                    [author[a] EXCEPT !.pc = "checking",
                        !.seen = scene[proposal[author[a].proposal].scene].version]} :
            author' = [author EXCEPT ![a] = r]
        BY <1>6 DEF SubmitDraft, DefaultDraft, CheckDraft, Return
  <2>4. /\ r \in AuthorType
        /\ \/ r = Idle
           \/ /\ r.pc \in {"checking", "checked"}
              /\ r.proposal = author[a].proposal /\ r.text = author[a].text
        BY <1>1, <2>2, <2>3, IdleTyped DEF AuthorType
  <2>5. UNCHANGED <<contract, scene, proposal, revisions, jobs, critical>>
        BY <1>6 DEF SubmitDraft, DefaultDraft, CheckDraft
  <2> QED BY <2>1, <2>3, <2>4, <2>5, IdleTyped, RequestMoves
<1> QED BY <1>2, <1>3, <1>4, <1>5, <1>6

\* A request that returns without writing.
LEMMA ReturnPreserves ==
    ASSUME IInv, NEW a \in Authors, Return(a),
           UNCHANGED <<contract, scene, proposal, revisions, jobs, critical>>
    PROVE  IInv'
BY IdleTyped, RequestMoves DEF Return

\* Rejecting or superseding: the CAS lets it happen to a pending proposal only.
LEMMA WriteDecisionPreserves ==
    ASSUME IInv, NEW a \in Authors, WriteDecision(a)
    PROVE  IInv'
<1> DEFINE p == author[a].proposal
<1>1. /\ p \in Proposals /\ author[a].target \in Decided \ {"accepted"}
      /\ Return(a) /\ UNCHANGED <<contract, scene, revisions, jobs, critical>>
      BY DEF WriteDecision, IInv, References, TypeOK, AuthorType
<1>2. CASE proposal[p].status # "pending_review"
  <2>1. proposal' = proposal
        BY <1>2 DEF WriteDecision
  <2> QED BY <1>1, <2>1, ReturnPreserves
<1>3. CASE proposal[p].status = "pending_review"
  <2>1. proposal' = [proposal EXCEPT ![p].status = author[a].target]
        BY <1>3 DEF WriteDecision
  <2>2. author' = [author EXCEPT ![a] = Idle]
        BY <1>1 DEF Return
  <2>3. /\ proposal'[p] = [proposal[p] EXCEPT !.status = author[a].target]
        /\ \A q \in Proposals : q # p => proposal'[q] = proposal[q]
        /\ proposal' \in [Proposals -> [scene: Scenes \cup {None}, text: Texts \cup {None},
                                        status: ReviewStatuses \cup {"none"}]]
        BY <1>1, <2>1 DEF IInv, TypeOK, Decided
  <2>4. TypeOK'
        BY <1>1, <2>2, <2>3, IdleTyped DEF IInv, TypeOK
  <2>5. \A q \in Proposals : /\ proposal'[q].scene = proposal[q].scene
                             /\ proposal'[q].text = proposal[q].text
                             /\ proposal'[q].status # "none" <=> proposal[q].status # "none"
                             /\ proposal'[q].status = "accepted" <=> proposal[q].status = "accepted"
        BY <1>1, <1>3, <2>3 DEF IInv, TypeOK, Decided, ReviewStatuses
  <2>6. References'
        BY <1>1, <2>2, <2>5, IdleTyped DEF IInv, References, TypeOK
  <2>7. AcceptedExactlyOnce'
        BY <1>1, <2>5 DEF IInv, AcceptedExactlyOnce
  <2> QED BY <1>1, <2>4, <2>6, <2>7, HistoryUnchanged DEF IInv
<1> QED BY <1>2, <1>3

\* A manual edit or a restore: one more version, no review status changes.
LEMMA CommitWithoutReviewPreserves ==
    ASSUME IInv, NEW s \in Scenes, NEW p \in Proposals, NEW t \in Texts,
           NEW kind \in {"edit", "restore"}, NEW base \in Nat,
           kind = "edit" => base = scene[s].version,
           CommitRevision(s, p, t, kind, base),
           UNCHANGED <<proposal, critical>>,
           \/ UNCHANGED author
           \/ \E a \in Authors : Return(a)
    PROVE  IInv'
<1>1. /\ contract' \in [Scenes -> [plan: Nat, drawn: Nat]]
      /\ scene' \in [Scenes -> [version: Nat, proposal: Proposals \cup {None},
                                text: Texts \cup {None}]]
      /\ revisions' \subseteq RevisionType
      /\ jobs' \subseteq JobType
      /\ HistoryIsGapless' /\ SceneIsNewestRevision' /\ PipelineIsComplete' /\ NoLostEdit'
      BY CommitRevisionPreserves DEF IInv
<1>2. TypeOK'
      BY <1>1, IdleTyped DEF IInv, TypeOK, Return
<1>3. References'
  <2>1. scene' = [scene EXCEPT ![s] = [version |-> scene[s].version + 1, proposal |-> p, text |-> t]]
        BY DEF CommitRevision
  <2>2. \A z \in Scenes : scene'[z].version > 0 => scene'[z].proposal \in Proposals
                                                /\ scene'[z].text \in Texts
        BY <2>1 DEF IInv, References, TypeOK
  <2>3. \A a \in Authors : author'[a] = author[a] \/ author'[a] = Idle
        BY DEF Return, IInv, TypeOK
  <2> QED BY <2>2, <2>3, IdleTyped DEF IInv, References
<1>4. AcceptedExactlyOnce'
  <2> DEFINE rev == [scene |-> s, version |-> scene[s].version + 1, proposal |-> p, text |-> t,
                     kind |-> kind, base |-> base, plan |-> contract[s].plan]
  <2>1. revisions' = revisions \cup {rev} /\ rev.kind = kind
        BY DEF CommitRevision, InsertRevision
  <2> HIDE DEF rev
  <2> QED BY <2>1 DEF IInv, AcceptedExactlyOnce
<1> QED BY <1>1, <1>2, <1>3, <1>4 DEF IInv

\* Acceptance: one more version, and the statuses of the scene's proposals.
LEMMA AcceptPreserves ==
    ASSUME IInv, NEW a \in Authors, CommitAccept(a)
    PROVE  IInv'
<1> DEFINE r == author[a]
           p == author[a].proposal
           s == proposal[author[a].proposal].scene
<1>1. /\ p \in Proposals /\ r.text \in Texts /\ s \in Scenes /\ r.seen \in Nat
      /\ author' = [author EXCEPT ![a] = Idle] /\ critical' = critical
      BY DEF CommitAccept, IInv, References, TypeOK, AuthorType, Return
<1>2. CASE ~Acceptable(r)
      BY <1>2, ReturnPreserves DEF CommitAccept
<1>3. CASE Acceptable(r)
  <2>1. /\ CommitRevision(s, p, r.text, "accept", r.seen)
        /\ AcceptAndSupersede(p)
        /\ proposal[p].status = "pending_review" /\ r.seen = scene[s].version
        BY <1>3 DEF CommitAccept, Acceptable
  <2>2. /\ contract' \in [Scenes -> [plan: Nat, drawn: Nat]]
        /\ scene' \in [Scenes -> [version: Nat, proposal: Proposals \cup {None},
                                  text: Texts \cup {None}]]
        /\ revisions' \subseteq RevisionType
        /\ jobs' \subseteq JobType
        /\ HistoryIsGapless' /\ SceneIsNewestRevision' /\ PipelineIsComplete' /\ NoLostEdit'
    <3> HIDE DEF s, p, r
    <3> QED BY <1>1, <2>1, CommitRevisionPreserves DEF IInv
  <2>3. /\ proposal' \in [Proposals -> [scene: Scenes \cup {None}, text: Texts \cup {None},
                                        status: ReviewStatuses \cup {"none"}]]
        /\ proposal'[p].status = "accepted"
        /\ \A q \in Proposals :
            /\ proposal'[q].scene = proposal[q].scene
            /\ proposal'[q].text = proposal[q].text
            /\ proposal'[q].status # "none" <=> proposal[q].status # "none"
            /\ q # p => (proposal'[q].status = "accepted" <=> proposal[q].status = "accepted")
    <3> DEFINE Sibling(q) == proposal[q].scene = s /\ proposal[q].status = "pending_review"
    <3>1. proposal' = [q \in Proposals |->
              IF q = p THEN [proposal[q] EXCEPT !.status = "accepted"]
              ELSE IF Sibling(q) THEN [proposal[q] EXCEPT !.status = "superseded"]
              ELSE proposal[q]]
          BY <2>1 DEF AcceptAndSupersede
    <3>2. \A q \in Proposals : proposal[q] \in
            [scene: Scenes \cup {None}, text: Texts \cup {None}, status: ReviewStatuses \cup {"none"}]
          BY DEF IInv, TypeOK
    <3> QED BY <1>1, <2>1, <3>1, <3>2 DEF ReviewStatuses
  <2>4. TypeOK'
        BY <1>1, <2>2, <2>3, IdleTyped DEF IInv, TypeOK
  <2>5. References'
    <3>1. scene' = [scene EXCEPT ![s] =
                    [version |-> scene[s].version + 1, proposal |-> p, text |-> r.text]]
          BY <2>1 DEF CommitRevision
    <3>2. \A z \in Scenes : scene'[z].version > 0 => scene'[z].proposal \in Proposals
                                                  /\ scene'[z].text \in Texts
          BY <1>1, <3>1 DEF IInv, References, TypeOK
    <3> QED BY <1>1, <2>3, <3>2, IdleTyped DEF IInv, References, TypeOK
  <2>6. AcceptedExactlyOnce'
    <3> DEFINE rev == [scene |-> s, version |-> scene[s].version + 1, proposal |-> p,
                       text |-> r.text, kind |-> "accept", base |-> r.seen,
                       plan |-> contract[s].plan]
    <3>1. revisions' = revisions \cup {rev} /\ rev.kind = "accept" /\ rev.proposal = p
          BY <2>1 DEF CommitRevision, InsertRevision
    <3> HIDE DEF rev
    <3>2. ~\E x \in revisions : x.kind = "accept" /\ x.proposal = p
          BY <1>1, <2>1 DEF IInv, AcceptedExactlyOnce
    <3> HIDE DEF s, p, r
    <3> QED BY <1>1, <2>3, <3>1, <3>2 DEF IInv, AcceptedExactlyOnce
  <2> QED BY <2>2, <2>4, <2>5, <2>6 DEF IInv
<1> QED BY <1>2, <1>3

LEMMA NextPreserves == IInv /\ [Next]_vars => IInv'
<1> SUFFICES ASSUME IInv, [Next]_vars PROVE IInv'
    OBVIOUS
<1>1. CASE UNCHANGED vars
  <2>1. TypeOK' /\ References' /\ AcceptedExactlyOnce'
        BY <1>1 DEF IInv, vars, TypeOK, References, AcceptedExactlyOnce
  <2> QED BY <1>1, <2>1, HistoryUnchanged DEF IInv, vars
<1>2. CASE Environment
      BY <1>2, EnvironmentPreserves
<1>3. ASSUME NEW r \in revisions, RestoreRevision(r)
      PROVE  IInv'
  <2>1. /\ r.scene \in Scenes /\ r.proposal \in Proposals /\ r.text \in Texts
        /\ r.version \in Nat
        BY DEF IInv, TypeOK, RevisionType
  <2> QED BY <1>3, <2>1, CommitWithoutReviewPreserves DEF RestoreRevision
<1>4. ASSUME NEW a \in Authors, SaveScene(a)
      PROVE  IInv'
  <2>1. /\ author[a].scene \in Scenes /\ author[a].text \in Texts
        /\ author[a].seen \in Nat /\ author[a].seen > 0 /\ Return(a)
        BY <1>4 DEF SaveScene, IInv, References, TypeOK, AuthorType
  <2>2. CASE author[a].seen # scene[author[a].scene].version
        BY <1>4, <2>1, <2>2, ReturnPreserves DEF SaveScene
  <2>3. CASE author[a].seen = scene[author[a].scene].version
    <3>1. scene[author[a].scene].proposal \in Proposals
          BY <2>1, <2>3 DEF IInv, References
    <3>2. /\ CommitRevision(author[a].scene, scene[author[a].scene].proposal, author[a].text,
                            "edit", author[a].seen)
          /\ UNCHANGED <<proposal, critical>>
          BY <1>4, <2>3 DEF SaveScene
    <3> QED BY <2>1, <2>3, <3>1, <3>2, CommitWithoutReviewPreserves
  <2> QED BY <2>2, <2>3
<1>5. ASSUME NEW a \in Authors, Request(a), ~SaveScene(a)
      PROVE  IInv'
      BY <1>5, ReadsPreserve, AcceptPreserves, WriteDecisionPreserves DEF Request
<1> QED BY <1>1, <1>2, <1>3, <1>4, <1>5 DEF Next

\* Every reachable state satisfies the inductive invariant.
THEOREM Invariant == Spec => []IInv
BY InitIInv, NextPreserves, PTL DEF Spec

\* Type correctness of Manuscript.
THEOREM TypeCorrect == Spec => []TypeOK
<1>1. IInv => TypeOK
      BY DEF IInv
<1> QED BY <1>1, Invariant, PTL

\* Versions are gapless and the accepted scene is the newest of them, for every
\* interleaving of accepts, edits and restores.
THEOREM HistoryCorrect == Spec => [](HistoryIsGapless /\ SceneIsNewestRevision)
<1>1. IInv => HistoryIsGapless /\ SceneIsNewestRevision
      BY DEF IInv
<1> QED BY <1>1, Invariant, PTL

\* Each revision has its four jobs, once, chained to the version before it.
THEOREM PipelineCorrect == Spec => []PipelineIsComplete
<1>1. IInv => PipelineIsComplete
      BY DEF IInv
<1> QED BY <1>1, Invariant, PTL

\* Saving and accepting never overwrite a version the author had not read.
THEOREM NoEditIsLost == Spec => []NoLostEdit
<1>1. IInv => NoLostEdit
      BY DEF IInv
<1> QED BY <1>1, Invariant, PTL

\* However it is repeated or raced, an acceptance files exactly one revision.
THEOREM AcceptanceIsIdempotent == Spec => []AcceptedExactlyOnce
<1>1. IInv => AcceptedExactlyOnce
      BY DEF IInv
<1> QED BY <1>1, Invariant, PTL

\* The only step that accepts is the acceptance transaction, and the only ones
\* that touch a status at all start from a pending or an absent proposal.
LEMMA StatusSteps ==
    ASSUME IInv, Next
    PROVE  \/ proposal' = proposal
           \/ \E p \in Proposals, s \in Scenes, t \in Texts : CreateProposal(p, s, t)
           \/ \E a \in Authors : WriteDecision(a) /\ proposal[author[a].proposal].status = "pending_review"
           \/ \E a \in Authors : /\ proposal[author[a].proposal].status = "pending_review"
                                /\ author[a].proposal \in Proposals
                                /\ AcceptAndSupersede(author[a].proposal)
<1>1. CASE Environment
      BY <1>1 DEF Environment, UpdateContract, DeleteContract, RecreateContract, EditCanon
<1>2. CASE \E r \in revisions : RestoreRevision(r)
      BY <1>2 DEF RestoreRevision
<1>3. ASSUME NEW a \in Authors, Request(a)
      PROVE  \/ proposal' = proposal
             \/ WriteDecision(a) /\ proposal[author[a].proposal].status = "pending_review"
             \/ /\ proposal[author[a].proposal].status = "pending_review"
                /\ author[a].proposal \in Proposals
                /\ AcceptAndSupersede(author[a].proposal)
  <2>1. CASE CommitAccept(a)
    <3>1. author[a].proposal \in Proposals
          BY <2>1 DEF CommitAccept, IInv, References
    <3> QED BY <2>1, <3>1 DEF CommitAccept, Acceptable
  <2>2. CASE WriteDecision(a)
        BY <2>2 DEF WriteDecision
  <2>3. CASE ~CommitAccept(a) /\ ~WriteDecision(a)
        BY <1>3, <2>3 DEF Request, OpenScene, OpenProposal, SubmitStatusAccepted,
            ReadForDecision, SaveScene, SubmitDraft, DefaultDraft, CheckDraft
  <2> QED BY <2>1, <2>2, <2>3
<1> QED BY <1>1, <1>2, <1>3 DEF Next

\* A decided review status never changes again.
THEOREM DecisionsStayFinal == Spec => DecisionsAreFinal
<1> DEFINE Kept == \A p \in Proposals :
                proposal[p].status \in Decided => proposal'[p].status = proposal[p].status
<1>1. IInv /\ [Next]_vars => [Kept]_vars
  <2> SUFFICES ASSUME IInv, Next PROVE Kept
      OBVIOUS
  <2> SUFFICES ASSUME NEW p \in Proposals, proposal[p].status \in Decided
               PROVE  proposal'[p].status = proposal[p].status
      OBVIOUS
  <2>1. proposal[p].status # "pending_review" /\ proposal[p].status # "none"
        BY DEF Decided, ReviewStatuses
  <2>2. ASSUME NEW q \in Proposals, NEW s \in Scenes, NEW t \in Texts, CreateProposal(q, s, t)
        PROVE  proposal'[p].status = proposal[p].status
        BY <2>1, <2>2 DEF CreateProposal, IInv, TypeOK
  <2>3. ASSUME NEW a \in Authors, WriteDecision(a),
               proposal[author[a].proposal].status = "pending_review"
        PROVE  proposal'[p].status = proposal[p].status
        BY <2>1, <2>3 DEF WriteDecision, IInv, TypeOK
  <2>4. ASSUME NEW q \in Proposals, proposal[q].status = "pending_review", AcceptAndSupersede(q)
        PROVE  proposal'[p].status = proposal[p].status
    <3>1. p # q
          BY <2>1, <2>4
    <3>2. proposal'[p] = proposal[p]
          BY <2>1, <2>4, <3>1 DEF AcceptAndSupersede
    <3> QED BY <3>2
  <2> QED BY <2>2, <2>3, <2>4, StatusSteps
<1> QED BY <1>1, Invariant, PTL DEF Spec, DecisionsAreFinal

\* Accepting a proposal leaves none of its siblings pending.
THEOREM SiblingsAreSuperseded == Spec => AcceptSupersedesSiblings
<1> DEFINE Done == \A p, q \in Proposals :
                /\ proposal[p].status # "accepted" /\ proposal'[p].status = "accepted"
                /\ proposal'[q].scene = proposal[p].scene
                => proposal'[q].status # "pending_review"
<1>1. IInv /\ [Next]_vars => [Done]_vars
  <2> SUFFICES ASSUME IInv, Next,
                      NEW p \in Proposals, NEW q \in Proposals,
                      proposal[p].status # "accepted", proposal'[p].status = "accepted",
                      proposal'[q].scene = proposal[p].scene
               PROVE  proposal'[q].status # "pending_review"
      OBVIOUS
  <2>1. ASSUME NEW u \in Proposals, NEW s \in Scenes, NEW t \in Texts, CreateProposal(u, s, t)
        PROVE  FALSE
        BY <2>1 DEF CreateProposal, IInv, TypeOK
  <2>2. ASSUME NEW a \in Authors, WriteDecision(a),
               proposal[author[a].proposal].status = "pending_review"
        PROVE  FALSE
        BY <2>2 DEF WriteDecision, IInv, TypeOK, References
  <2>3. ASSUME NEW u \in Proposals, proposal[u].status = "pending_review", AcceptAndSupersede(u)
        PROVE  proposal'[q].status # "pending_review"
    <3> DEFINE Sibling(x) == proposal[x].scene = proposal[u].scene
                             /\ proposal[x].status = "pending_review"
    <3>1. proposal' = [x \in Proposals |->
              IF x = u THEN [proposal[x] EXCEPT !.status = "accepted"]
              ELSE IF Sibling(x) THEN [proposal[x] EXCEPT !.status = "superseded"]
              ELSE proposal[x]]
          BY <2>3 DEF AcceptAndSupersede
    <3>2. \A x \in Proposals : proposal[x] \in
            [scene: Scenes \cup {None}, text: Texts \cup {None}, status: ReviewStatuses \cup {"none"}]
          BY DEF IInv, TypeOK
    <3>3. p = u
          BY <3>1, <3>2
    <3>4. \A x \in Proposals : proposal'[x].scene = proposal[x].scene
          BY <3>1, <3>2
    <3> QED BY <3>1, <3>2, <3>3, <3>4
  <2> QED BY <2>1, <2>2, <2>3, StatusSteps
<1> QED BY <1>1, Invariant, PTL DEF Spec, AcceptSupersedesSiblings

-----------------------------------------------------------------------------
(* Plan drift *)

\* A text is never drawn from a plan that does not exist yet.
DrawnFromPast == \A s \in Scenes : contract[s].drawn <= contract[s].plan

\* A committed revision is drawn from the plan of its moment; other scenes keep theirs.
LEMMA CommitKeepsDrift ==
    ASSUME TypeOK, DrawnFromPast, PlanDriftIsVisible,
           NEW s \in Scenes, NEW p \in Proposals, NEW t \in Texts, NEW kind, NEW base,
           CommitRevision(s, p, t, kind, base)
    PROVE  DrawnFromPast' /\ PlanDriftIsVisible'
<1> DEFINE v == scene[s].version + 1
           rev == [scene |-> s, version |-> v, proposal |-> p, text |-> t,
                   kind |-> kind, base |-> base, plan |-> contract[s].plan]
<1>1. /\ scene' = [scene EXCEPT ![s] = [version |-> v, proposal |-> p, text |-> t]]
      /\ revisions' = revisions \cup {rev}
      /\ contract' = [contract EXCEPT ![s].drawn = contract[s].plan]
      BY DEF CommitRevision, InsertRevision
<1>2. rev.scene = s /\ rev.version = v /\ rev.plan = contract[s].plan
      OBVIOUS
<1> HIDE DEF rev
<1>3. /\ contract'[s].plan = contract[s].plan /\ contract'[s].drawn = contract[s].plan
      /\ scene'[s].version = v
      /\ \A u \in Scenes : u # s => contract'[u] = contract[u] /\ scene'[u] = scene[u]
      BY <1>1 DEF TypeOK
<1>4. DrawnFromPast'
      BY <1>3 DEF DrawnFromPast, TypeOK
<1>5. ASSUME NEW u \in Scenes, contract'[u].plan > 0, contract'[u].drawn = contract'[u].plan
      PROVE  \E r \in RevisionsOf(u)' : r.version = scene'[u].version /\ r.plan = contract'[u].plan
  <2>1. CASE u = s
        BY <1>1, <1>2, <1>3, <2>1 DEF RevisionsOf
  <2>2. CASE u # s
    <3>1. PICK r \in RevisionsOf(u) : r.version = scene[u].version /\ r.plan = contract[u].plan
          BY <1>3, <1>5, <2>2 DEF PlanDriftIsVisible
    <3> QED
        BY <1>1, <1>3, <2>2, <3>1 DEF RevisionsOf
  <2> QED
      BY <2>1, <2>2
<1> QED
    BY <1>4, <1>5 DEF PlanDriftIsVisible

\* Contract edits move the plan away from the text, deletion and re-creation
\* forget it, and every other step leaves contract and history alone.
LEMMA DriftKept ==
    IInv /\ DrawnFromPast /\ PlanDriftIsVisible /\ [Next]_vars => DrawnFromPast' /\ PlanDriftIsVisible'
<1> SUFFICES ASSUME IInv, DrawnFromPast, PlanDriftIsVisible, [Next]_vars
             PROVE  DrawnFromPast' /\ PlanDriftIsVisible'
    OBVIOUS
<1>1. CASE UNCHANGED <<contract, scene, revisions>>
      BY <1>1 DEF DrawnFromPast, PlanDriftIsVisible, RevisionsOf
<1>2. ASSUME NEW s \in Scenes,
             \A u \in Scenes : u # s => contract'[u] = contract[u],
             contract'[s].plan \in Nat, contract'[s].drawn \in Nat,
             contract'[s].drawn <= contract'[s].plan,
             contract'[s].plan = 0 \/ contract'[s].drawn # contract'[s].plan,
             UNCHANGED <<scene, revisions>>
      PROVE  DrawnFromPast' /\ PlanDriftIsVisible'
  <2>1. DrawnFromPast'
        BY <1>2 DEF DrawnFromPast
  <2>2. ASSUME NEW u \in Scenes, contract'[u].plan > 0, contract'[u].drawn = contract'[u].plan
        PROVE  \E r \in RevisionsOf(u)' : r.version = scene'[u].version /\ r.plan = contract'[u].plan
    <3>1. contract'[u] = contract[u]
          BY <1>2, <2>2
    <3> QED
        BY <1>2, <2>2, <3>1 DEF PlanDriftIsVisible, RevisionsOf
  <2> QED
      BY <2>1, <2>2 DEF PlanDriftIsVisible
<1>3. ASSUME NEW s \in Scenes, UpdateContract(s) PROVE DrawnFromPast' /\ PlanDriftIsVisible'
  <2>1. contract[s] \in [plan: Nat, drawn: Nat] /\ contract[s].drawn < contract[s].plan + 1
        BY DEF IInv, TypeOK, DrawnFromPast
  <2>2. /\ contract'[s].plan = contract[s].plan + 1 /\ contract'[s].drawn = contract[s].drawn
        /\ \A u \in Scenes : u # s => contract'[u] = contract[u]
        BY <1>3, <2>1 DEF UpdateContract, IInv, TypeOK
  <2>3. UNCHANGED <<scene, revisions>>
        BY <1>3 DEF UpdateContract
  <2>4. /\ contract'[s].plan \in Nat /\ contract'[s].drawn \in Nat
        /\ contract'[s].drawn <= contract'[s].plan /\ contract'[s].drawn # contract'[s].plan
        BY <2>1, <2>2
  <2> QED
      BY <1>2, <2>2, <2>3, <2>4
<1>4. ASSUME NEW s \in Scenes, DeleteContract(s) PROVE DrawnFromPast' /\ PlanDriftIsVisible'
  <2>1. /\ contract'[s].plan = 0 /\ contract'[s].drawn = 0
        /\ \A u \in Scenes : u # s => contract'[u] = contract[u]
        BY <1>4 DEF DeleteContract, IInv, TypeOK
  <2>2. UNCHANGED <<scene, revisions>>
        BY <1>4 DEF DeleteContract
  <2> QED
      BY <1>2, <2>1, <2>2
<1>5. ASSUME NEW s \in Scenes, RecreateContract(s) PROVE DrawnFromPast' /\ PlanDriftIsVisible'
  <2>1. /\ contract'[s].plan = 1 /\ contract'[s].drawn = 0
        /\ \A u \in Scenes : u # s => contract'[u] = contract[u]
        BY <1>5 DEF RecreateContract, IInv, TypeOK
  <2>2. UNCHANGED <<scene, revisions>>
        BY <1>5 DEF RecreateContract
  <2> QED
      BY <1>2, <2>1, <2>2
<1>6. ASSUME NEW r \in revisions, RestoreRevision(r) PROVE DrawnFromPast' /\ PlanDriftIsVisible'
  <2>1. r.scene \in Scenes /\ r.proposal \in Proposals /\ r.text \in Texts
        BY DEF IInv, TypeOK, RevisionType
  <2> QED
      BY <1>6, <2>1, CommitKeepsDrift DEF RestoreRevision, IInv
<1>7. ASSUME NEW a \in Authors, SaveScene(a) PROVE DrawnFromPast' /\ PlanDriftIsVisible'
  <2>1. CASE author[a].seen = scene[author[a].scene].version
    <3>1. /\ author[a].scene \in Scenes /\ author[a].text \in Texts
          /\ scene[author[a].scene].version > 0
          BY <1>7, <2>1 DEF SaveScene, IInv, References
    <3>2. scene[author[a].scene].proposal \in Proposals
          BY <3>1 DEF IInv, References
    <3> QED
        BY <1>7, <2>1, <3>1, <3>2, CommitKeepsDrift DEF SaveScene, IInv
  <2>2. CASE author[a].seen # scene[author[a].scene].version
        BY <1>1, <1>7, <2>2 DEF SaveScene
  <2> QED
      BY <2>1, <2>2
<1>8. ASSUME NEW a \in Authors, CommitAccept(a) PROVE DrawnFromPast' /\ PlanDriftIsVisible'
  <2>1. CASE Acceptable(author[a])
    <3>1. /\ author[a].proposal \in Proposals /\ author[a].text \in Texts
          /\ proposal[author[a].proposal].status # "none"
          BY <1>8 DEF CommitAccept, IInv, References
    <3>2. proposal[author[a].proposal].scene \in Scenes
          BY <3>1 DEF IInv, References
    <3> QED
        BY <1>8, <2>1, <3>1, <3>2, CommitKeepsDrift DEF CommitAccept, IInv
  <2>2. CASE ~Acceptable(author[a])
        BY <1>1, <1>8, <2>2 DEF CommitAccept
  <2> QED
      BY <2>1, <2>2
<1>9. ASSUME NEW a \in Authors, Request(a), ~SaveScene(a), ~CommitAccept(a)
      PROVE  DrawnFromPast' /\ PlanDriftIsVisible'
      BY <1>1, <1>9 DEF Request, OpenScene, OpenProposal, SubmitStatusAccepted, ReadForDecision,
          SubmitDraft, DefaultDraft, CheckDraft, WriteDecision
<1>10. CASE Environment
       BY <1>1, <1>3, <1>4, <1>5, <1>10 DEF Environment, EditCanon, CreateProposal
<1>11. CASE UNCHANGED vars
       BY <1>1, <1>11 DEF vars
<1> QED
    BY <1>6, <1>7, <1>8, <1>9, <1>10, <1>11 DEF Next

\* A contract that claims its text is drawn from the current plan is right, for
\* any sequence of commits, contract edits, deletions and re-creations.
THEOREM DriftIsVisible == Spec => []PlanDriftIsVisible
<1>1. Init => DrawnFromPast /\ PlanDriftIsVisible
      BY DEF Init, DrawnFromPast, PlanDriftIsVisible
<1> QED
    BY <1>1, Invariant, DriftKept, PTL DEF Spec

=============================================================================
