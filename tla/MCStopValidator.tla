-------------------------- MODULE MCStopValidator --------------------------
(***************************************************************************)
(* Instances of StopValidator for TLC: two sessions in one checkout, a     *)
(* source file 1 and a test file 2.                                        *)
(***************************************************************************)
EXTENDS StopValidator, TLC

CONSTANTS s1, s2

Symmetry == Permutations(Sessions)

=============================================================================
