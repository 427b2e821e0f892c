------------------------------ MODULE MCOutbox ------------------------------
(* Small instances of Outbox. *)
EXTENDS Outbox

CONSTANTS p1, p2, j1, j2

OneProject == [j \in Jobs |-> p1]
TwoProjects == [j \in Jobs |-> IF j = j1 THEN p1 ELSE p2]

=============================================================================
