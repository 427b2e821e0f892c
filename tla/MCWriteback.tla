---------------------------- MODULE MCWriteback ----------------------------
EXTENDS Writeback, TLC

CONSTANTS i1, v1, v2, t1, p1, p2, e1

MCStatuses == {"planned"}
Symmetric == Permutations({v1, v2}) \cup Permutations({p1, p2})
=============================================================================
