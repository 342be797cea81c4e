------------------------------ MODULE Scoring ------------------------------
(***************************************************************************)
(* The arithmetic of src/src/scoring.rs, as operators on values.  They     *)
(* take every table they read as a parameter, so that a state that leaves  *)
(* the tables alone leaves the totals alone.                               *)
(***************************************************************************)
EXTENDS Integers, FiniteSets, FiniteSetsExt

(***************************************************************************)
(* dynamic_points: the value of a dynamic challenge after `solves` solves. *)
(* No solve and one solve are worth the same; i64 overflow is out of reach *)
(* of the parameters an admin can sensibly set and is not modelled.        *)
(***************************************************************************)
DynamicPoints(max, min, decay, solves) ==
  LET rank    == IF solves >= 1 THEN solves - 1 ELSE 0
      decayed == max - decay * (rank * rank)
  IN  IF decayed >= min THEN decayed ELSE min

(***************************************************************************)
(* The CASE expression of recalculate_all_team_scores for one team: zero   *)
(* when disqualified, else the current points of its solves of challenges  *)
(* that exist (the JOIN) minus what its hint unlocks were charged (no      *)
(* join: an unlock charges whether or not its hint still exists).          *)
(***************************************************************************)
Earned(team, challenges, points, solves) ==
  SumFunctionOnSet(points, {c \in challenges : <<team, c>> \in solves})

Charged(team, unlocks) ==
  MapThenSumSet(LAMBDA u : u.points, {u \in unlocks : u.team = team})

TotalOf(team, challenges, points, solves, unlocks, disqualified) ==
  IF team \in disqualified
  THEN 0
  ELSE Earned(team, challenges, points, solves) - Charged(team, unlocks)

(***************************************************************************)
(* The one UPDATE of recalculate_all_team_scores: every team's score is    *)
(* replaced in a single statement.                                         *)
(***************************************************************************)
Totals(teams, challenges, points, solves, unlocks, disqualified) ==
  [t \in teams |->
     TotalOf(t, challenges, points, solves, unlocks, disqualified)]

(***************************************************************************)
(* Challenge::solve_count and the COUNT of recalculate_challenge_points.   *)
(***************************************************************************)
SolveCount(teams, solves, c) == Cardinality({t \in teams : <<t, c>> \in solves})

=============================================================================
