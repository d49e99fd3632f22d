---------------------------- MODULE MCSessions ----------------------------
(***************************************************************************)
(* Sessions with interchangeable requests.                                 *)
(***************************************************************************)
EXTENDS Sessions, TLC

Symmetry == Permutations(Call)

=============================================================================
