---------------------------- MODULE MCAccounts ----------------------------
(***************************************************************************)
(* Accounts with interchangeable requests.                                 *)
(***************************************************************************)
EXTENDS Accounts, ListingChecks, TLC

CONSTANTS u1, u2

Symmetry == Permutations(Call)

=============================================================================
