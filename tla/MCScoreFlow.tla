---------------------------- MODULE MCScoreFlow ----------------------------
(***************************************************************************)
(* Values for the CONSTANTS of ScoreFlow.  Prices are small: a dynamic     *)
(* challenge is worth 4, 4, 3, 1, 1, ... after 0, 1, 2, 3, 4 solves.       *)
(***************************************************************************)
EXTENDS ScoreLedger, TLC

CONSTANTS dyn,  \* a dynamic challenge
          fix   \* a static challenge, locked until dyn is solved

MCInitParams == [c \in Challenges |->
                   [dynamic |-> c = dyn, max |-> 4, min |-> 1, decay |-> 1]]
MCInitPoints == [c \in Challenges |-> IF c = dyn THEN 4 ELSE 2]

\* Created below the formula's price, which no one computes for a new challenge.
MCCheap == [c \in Challenges |-> IF c = dyn THEN 1 ELSE 2]

\* What admins may change the parameters to: nothing, or another flag type.
MCNoParams  == {}
MCNewParams == {[dynamic |-> b, max |-> 5, min |-> 1, decay |-> 1] : b \in BOOLEAN}
MCUndecay   == {[dynamic |-> FALSE, max |-> 4, min |-> 1, decay |-> 1]}

MCNoRequires == [c \in Challenges |-> NoChallenge]
MCRequires   == [c \in Challenges |-> IF c = fix /\ dyn \in Challenges
                                      THEN dyn ELSE NoChallenge]

\* Every hint belongs to the static challenge, or to the only one.
MCHintOf   == [k \in Hints |-> IF fix \in Challenges THEN fix ELSE dyn]
MCInitCost == [k \in Hints |-> 3]

TeamSymmetry == Permutations(Teams)
Symmetry     == Permutations(Teams) \union Permutations(Handlers)

=============================================================================
