------------------------------- MODULE Ledger -------------------------------
(***************************************************************************)
(* What the teams see of scoring, whatever the handlers do: a score column *)
(* that follows a total it is recomputed from.  The total is what the      *)
(* solves, prices, unlocks and disqualifications add up to, and may change *)
(* at any statement; the score is never adjusted by an amount, only set to *)
(* the whole total, and while it differs from the total somebody owes the  *)
(* recomputation.                                                          *)
(***************************************************************************)
VARIABLES
  total,  \* per team, what the tables add up to
  score,  \* per team, what is shown
  owed    \* a recomputation is due (or was, when its handler stopped)

vars == <<total, score, owed>>

Init == score = total /\ ~owed

\* The tables change, or somebody begins or ends what obliges it to recompute.
Change ==
  /\ score' = score
  /\ owed' \/ score' = total'

\* One statement sets every team's score to its total of that moment.
Recompute ==
  /\ score' = total
  /\ total' = total

Next == Change \/ Recompute

Safe == Init /\ [][Next]_vars

\* A difference does not stay.
Spec == Safe /\ (score # total ~> score = total)

=============================================================================
