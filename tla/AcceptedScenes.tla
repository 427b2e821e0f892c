--------------------------- MODULE AcceptedScenes ---------------------------
(***************************************************************************)
(* What the scene list of the plan (the records of step 8) promises its    *)
(* readers: every record has at most one accepted revision, a newer one    *)
(* than any it had before, and no two records claim one position.  The     *)
(* compiler of scenes is modelled over this; SceneRecords implements it.   *)
(***************************************************************************)
EXTENDS Naturals

CONSTANTS Records,      \* record ids of step 8
          Positions,    \* scene numbers: 1..999 in the code
          MaxRevision   \* bound: revisions of each record

ASSUME AcceptedScenesAssumption ==
    Positions \subseteq Nat \ {0} /\ MaxRevision \in [Records -> Nat]

VARIABLE accepted       \* the accepted revision_no (0: none) and position of each record

Unaccepted == [revision |-> 0, position |-> 0]

Heads == {Unaccepted} \cup [revision : Nat \ {0}, position : Positions]

\* Type invariant.
AcceptedType == accepted \in [Records -> Heads]

\* validate_scene_record_set_context: the position is free among the others.
Free(r, position) == \A o \in Records \ {r} : accepted[o].position # position

AcceptedInit == accepted = [r \in Records |-> Unaccepted]

Commit(r, n, position) ==
    /\ n > accepted[r].revision
    /\ Free(r, position)
    /\ accepted' = [accepted EXCEPT ![r] = [revision |-> n, position |-> position]]

AcceptedNext ==
    \E r \in Records, position \in Positions : \E n \in 1..MaxRevision[r] : Commit(r, n, position)

AcceptedSpec == AcceptedInit /\ [][AcceptedNext]_accepted
=============================================================================
