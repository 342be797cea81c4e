----------------------------- MODULE MCContest -----------------------------
(***************************************************************************)
(* Values for the CONSTANTS of Contest: a dynamic challenge worth 4, 4, 2,  *)
(* 1 points after 0, 1, 2, 3 solves.                                       *)
(***************************************************************************)
EXTENDS Contest, TLC

MCDynamicParams == [c \in Challenges |->
               [dynamic |-> TRUE, max |-> 4, min |-> 1, decay |-> 2]]

Symmetry == Permutations(Workers) \union Permutations(Teams)

=============================================================================
