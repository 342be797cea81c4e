----------------------------- MODULE MCAccounts -----------------------------
(***************************************************************************)
(* Symmetry for Accounts.                                                  *)
(***************************************************************************)
EXTENDS Accounts, TLC

Symmetry == Permutations(Workers) \union Permutations(People)

=============================================================================
