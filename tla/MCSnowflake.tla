---------------------------- MODULE MCSnowflake ----------------------------
(* Three steps in the shape of the real graph: a chain whose end rests on    *)
(* the first step only through the second, an optional second and a virtual  *)
(* last step.                                                                *)
EXTENDS Snowflake, TLC

MCDependsOn == <<{}, {1}, {2}>>
MCOptional == {2}
MCVirtual == {3}
MCSymmetry == Permutations(Authors) \cup Permutations(Texts)

=============================================================================
