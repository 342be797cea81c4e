------------------------------ MODULE MCBoard ------------------------------
(***************************************************************************)
(* Symmetry for Board: its workers are interchangeable.                    *)
(***************************************************************************)
EXTENDS Board, TLC

Symmetry == Permutations(Workers)

=============================================================================
