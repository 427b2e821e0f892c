---------------------------- MODULE MCManuscript ----------------------------
(* A small project for Manuscript: one scene contract is enough for every    *)
(* conflict, because rows of different contracts share no state.             *)
EXTENDS Manuscript, TLC

MCSymmetry == Permutations(Authors) \cup Permutations(Proposals) \cup Permutations(Texts)

=============================================================================
