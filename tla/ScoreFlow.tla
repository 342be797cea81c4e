----------------------------- MODULE ScoreFlow -----------------------------
(***************************************************************************)
(* The handlers of FeralCTF that change scores, run by several worker      *)
(* threads against one SQLite database.                                    *)
(*                                                                         *)
(* A handler is a sequence of SQL statements on one pooled connection with *)
(* no transaction around them (delete_challenge excepted).  Each statement *)
(* is atomic; between two statements of one handler any statement of       *)
(* another may run.  So every action below is one statement of one         *)
(* handler, with the Rust code around it up to the next statement; what a  *)
(* handler read earlier stays in its memory, mem[h], and may be stale when *)
(* it is used.                                                             *)
(*                                                                         *)
(* Left to other modules because no statement here reads it: the rate      *)
(* limiter, the scoreboard cache and its broadcasts, the competition's     *)
(* start and end, score_history, submissions and audit rows.               *)
(***************************************************************************)
EXTENDS Scoring

CONSTANTS
  Handlers,      \* worker threads, each serving one request at a time
  Teams,         \* rows of teams; the program never deletes one
  Challenges,    \* challenge ids
  Hints,         \* hint ids
  Operations,    \* the kinds of request the workers are given
  MayFail,       \* may a statement fail, or the process stop, midway?
  InitParams,    \* pricing parameters of each challenge, which set no price yet
  InitPoints,    \* points column, as create_challenge or an import set it
  InitRequires,  \* unlock_requires column when the run starts
  NoChallenge,   \* its NULL
  HintOf,        \* challenge_id column of hints
  InitCost,      \* cost_points column of hints when the run starts
  NewParams, NewPoints, NewRequires,  \* values an admin may set
  Keep,          \* a field the admin's request leaves out
  NewCosts       \* costs an admin may set

\* flag_type = "dynamic", max_points, min_points and decay_rate of a row.
Params == [dynamic : BOOLEAN, max : Int, min : Int, decay : Int]

Price(p, n) == DynamicPoints(p.max, p.min, p.decay, n)

ASSUME ConstantsAssumption ==
  /\ IsFiniteSet(Teams) /\ IsFiniteSet(Challenges)
  /\ Operations \subseteq {"submit", "unlock", "update_challenge",
                           "delete_challenge", "update_hint", "delete_hint",
                           "disqualify"}
  /\ MayFail \in BOOLEAN
  /\ InitParams \in [Challenges -> Params]
  /\ InitPoints \in [Challenges -> Int]
  /\ NoChallenge \notin Challenges
  /\ InitRequires \in [Challenges -> Challenges \union {NoChallenge}]
  /\ HintOf \in [Hints -> Challenges]
  /\ InitCost \in [Hints -> Nat]
  /\ NewParams \subseteq Params
  /\ NewPoints \subseteq Int
  /\ NewRequires \subseteq Challenges \union {NoChallenge}
  /\ Keep \notin Params \union Int \union Challenges \union {NoChallenge}
  /\ NewCosts \subseteq Nat

VARIABLES
  challenges,    \* ids of the challenge rows
  requires,      \* unlock_requires column
  params,        \* the columns a dynamic price is computed from
  points,        \* points column
  hints,         \* ids of the hint rows
  cost,          \* cost_points column
  solves,        \* solves: pairs <<team, challenge>>
  unlocks,       \* hint_unlocks: [team, hint, points] with points_deducted
  disqualified,  \* teams with is_disqualified = 1
  score,         \* score column of teams
  bloods,        \* NewSolve events sent with first_blood = true
  pc, req, mem,  \* per handler: next statement, request, values read
  lapsed         \* a handler stopped while it still owed a recalculation

catalog == <<challenges, requires, params, hints, cost>>
ledger  == <<solves, unlocks, disqualified>>
thread  == <<pc, req, mem>>
vars    == <<catalog, points, ledger, score, bloods, thread, lapsed>>

-----------------------------------------------------------------------------
(* Requests and what a handler remembers between two statements.           *)

Request ==
  [op : {"submit"}, team : Teams, challenge : Challenges]
    \union
  [op : {"unlock"}, team : Teams, challenge : Challenges, hint : Hints]
    \union
  [op : {"update_challenge"}, challenge : Challenges,
   params : NewParams \union {Keep}, points : NewPoints \union {Keep},
   requires : NewRequires \union {Keep}]
    \union
  [op : {"delete_challenge"}, challenge : Challenges]
    \union
  [op : {"update_hint"}, hint : Hints, cost : NewCosts \union {Keep}]
    \union
  [op : {"delete_hint"}, hint : Hints]
    \union
  [op : {"disqualify"}, team : Teams, disqualify : BOOLEAN]

NoRequest == [op |-> "none"]

Memory ==
  [requires : Challenges \union {NoChallenge}, \* visible_challenge / existing
   params   : Params,                          \* existing / recalculate_...
   points   : Int,                             \* existing.points
   cost     : Nat,                             \* hint.cost_points
   first    : BOOLEAN,                         \* first_blood
   count    : Nat,                             \* solves in recalculate_...
   refunded : BOOLEAN]                         \* refunded > 0 in delete_hint

Blank == [requires |-> NoChallenge,
          params |-> [dynamic |-> FALSE, max |-> 0, min |-> 0, decay |-> 0],
          points |-> 0, cost |-> 0,
          first |-> FALSE, count |-> 0, refunded |-> FALSE]

\* The statements of each handler, by name; a worker without a request is idle.
Repricing  == {"read_params", "count", "write_points"}
StepsOf ==
  [none   |-> {"idle"},
   submit |-> {"find", "locked", "solved", "count_solves", "insert_solve",
               "recalculate", "announce"} \union Repricing,
   unlock |-> {"find", "locked", "find_hint", "already_unlocked",
               "hint_solved", "read_score", "insert_unlock", "recalculate"},
   update_challenge |-> {"find_existing", "write_challenge", "recalculate"}
                          \union Repricing,
   delete_challenge |-> {"delete_challenge", "recalculate"},
   update_hint      |-> {"find_old_hint", "write_hint"},
   delete_hint      |-> {"find_deleted_hint", "drop_unlocks", "drop_hint",
                         "recalculate"},
   disqualify       |-> {"write_disqualified", "recalculate"}]

FirstStep(r) ==
  CASE r.op \in {"submit", "unlock"}  -> "find"
    [] r.op = "update_challenge"      -> "find_existing"
    [] r.op = "delete_challenge"      -> "delete_challenge"
    [] r.op = "update_hint"           -> "find_old_hint"
    [] r.op = "delete_hint"           -> "find_deleted_hint"
    [] r.op = "disqualify"            -> "write_disqualified"

At(h, step)   == pc[h] = step
Goto(h, step) == pc' = [pc EXCEPT ![h] = step]

\* The response is sent; the worker forgets the request.
Return(h) ==
  /\ pc'  = [pc  EXCEPT ![h] = "idle"]
  /\ req' = [req EXCEPT ![h] = NoRequest]
  /\ mem' = [mem EXCEPT ![h] = Blank]

Team(h)      == req[h].team
Challenge(h) == req[h].challenge
HintId(h)    == req[h].hint

Solved(t, c) == <<t, c>> \in solves

\* Mutant of Unlocked: no unlock is ever noticed, nor ignored as a duplicate.
NeverUnlocked(t, k) == FALSE

Unlocked(t, k) == \E u \in unlocks : u.team = t /\ u.hint = k

CurrentTotals ==
  Totals(Teams, challenges, points, solves, unlocks, disqualified)

Init ==
  /\ challenges   = Challenges
  /\ requires     = InitRequires
  /\ params       = InitParams
  /\ points       = InitPoints
  /\ hints        = Hints
  /\ cost         = InitCost
  /\ solves       = {}
  /\ unlocks      = {}
  /\ disqualified = {}
  /\ score        = CurrentTotals
  /\ bloods       = {}
  /\ pc  = [h \in Handlers |-> "idle"]
  /\ req = [h \in Handlers |-> NoRequest]
  /\ mem = [h \in Handlers |-> Blank]
  /\ lapsed = FALSE

\* A worker takes a request.
Accept(h) ==
  /\ At(h, "idle")
  /\ \E r \in Request :
       /\ r.op \in Operations
       /\ req' = [req EXCEPT ![h] = r]
       /\ Goto(h, FirstStep(r))
  /\ UNCHANGED <<catalog, points, ledger, score, bloods, mem, lapsed>>

-----------------------------------------------------------------------------
(* The checks submit_flag and unlock_hint begin with.                      *)

\* visible_challenge: the whole row is read once and kept.
FindChallenge(h) ==
  /\ At(h, "find")
  /\ IF Challenge(h) \in challenges
     THEN /\ mem' = [mem EXCEPT ![h].requires = requires[Challenge(h)]]
          /\ Goto(h, "locked")
          /\ UNCHANGED req
     ELSE Return(h)
  /\ UNCHANGED <<catalog, points, ledger, score, bloods, lapsed>>

\* ensure_unlocked, on the row read before.
CheckLocked(h) ==
  /\ At(h, "locked")
  /\ IF \/ mem[h].requires = NoChallenge
        \/ Solved(Team(h), mem[h].requires)
     THEN /\ Goto(h, IF req[h].op = "submit" THEN "solved" ELSE "find_hint")
          /\ UNCHANGED <<req, mem>>
     ELSE Return(h)
  /\ UNCHANGED <<catalog, points, ledger, score, bloods, lapsed>>

-----------------------------------------------------------------------------
(* submit_flag                                                             *)

\* is_solved_by_team, then verify_submission on the row read before: a wrong
\* flag is answered here, a right one goes on.
CheckSolved(h) ==
  /\ At(h, "solved")
  /\ \/ Return(h)
     \/ /\ ~Solved(Team(h), Challenge(h))
        /\ Goto(h, "count_solves")
        /\ UNCHANGED <<req, mem>>
  /\ UNCHANGED <<catalog, points, ledger, score, bloods, lapsed>>

\* Mutants of IsFirst: off by one, and the test of a count taken afterwards.
IsEarly(count)        == count <= 1
IsFirstCounted(count) == count = 1

\* first_blood, from the count taken before the solve is inserted.
IsFirst(count) == count = 0

CheckFirstBlood(h) ==
  /\ At(h, "count_solves")
  /\ mem' = [mem EXCEPT
       ![h].first = IsFirst(SolveCount(Teams, solves, Challenge(h)))]
  /\ Goto(h, "insert_solve")
  /\ UNCHANGED <<catalog, points, ledger, score, bloods, req, lapsed>>

\* insert_solve; UNIQUE(team_id, challenge_id) turns a second one into a 500.
InsertSolve(h) ==
  /\ At(h, "insert_solve")
  /\ IF Solved(Team(h), Challenge(h))
     THEN Return(h) /\ UNCHANGED solves
     ELSE /\ solves' = solves \union {<<Team(h), Challenge(h)>>}
          /\ Goto(h, "read_params")
          /\ UNCHANGED <<req, mem>>
  /\ UNCHANGED <<catalog, points, unlocks, disqualified, score, bloods, lapsed>>

\* points_earned is read back (an error once the row is gone), then NewSolve.
AnnounceSolve(h) ==
  /\ At(h, "announce")
  /\ bloods' = IF Challenge(h) \in challenges /\ mem[h].first
               THEN bloods \union {<<Team(h), Challenge(h)>>}
               ELSE bloods
  /\ Return(h)
  /\ UNCHANGED <<catalog, points, ledger, score, lapsed>>

-----------------------------------------------------------------------------
(* unlock_hint                                                             *)

FindHint(h) ==
  /\ At(h, "find_hint")
  /\ IF HintId(h) \in hints /\ HintOf[HintId(h)] = Challenge(h)
     THEN /\ mem' = [mem EXCEPT ![h].cost = cost[HintId(h)]]
          /\ Goto(h, "already_unlocked")
          /\ UNCHANGED req
     ELSE Return(h)
  /\ UNCHANGED <<catalog, points, ledger, score, bloods, lapsed>>

CheckUnlocked(h) ==
  /\ At(h, "already_unlocked")
  /\ IF Unlocked(Team(h), HintId(h))
     THEN Return(h)
     ELSE Goto(h, "hint_solved") /\ UNCHANGED <<req, mem>>
  /\ UNCHANGED <<catalog, points, ledger, score, bloods, lapsed>>

CheckHintSolved(h) ==
  /\ At(h, "hint_solved")
  /\ IF Solved(Team(h), Challenge(h))
     THEN Return(h)
     ELSE Goto(h, "read_score") /\ UNCHANGED <<req, mem>>
  /\ UNCHANGED <<catalog, points, ledger, score, bloods, lapsed>>

\* Mutant of Affordable: any team that is not below zero yet may unlock.
AffordableWhileSolvent(price, total) == price = 0 \/ total >= 0

\* "Hints may not push a team below zero (free hints are always allowed)."
Affordable(price, total) == ~(price > 0 /\ price > total)

CheckAffordable(h) ==
  /\ At(h, "read_score")
  /\ IF Affordable(mem[h].cost, score[Team(h)])
     THEN Goto(h, "insert_unlock") /\ UNCHANGED <<req, mem>>
     ELSE Return(h)
  /\ UNCHANGED <<catalog, points, ledger, score, bloods, lapsed>>

\* Hint::unlock, INSERT OR IGNORE: charged only when the row is new.
InsertUnlock(h) ==
  /\ At(h, "insert_unlock")
  /\ IF Unlocked(Team(h), HintId(h))
     THEN Return(h) /\ UNCHANGED unlocks
     ELSE /\ unlocks' = unlocks \union
               {[team |-> Team(h), hint |-> HintId(h), points |-> mem[h].cost]}
          /\ Goto(h, "recalculate")
          /\ UNCHANGED <<req, mem>>
  /\ UNCHANGED <<catalog, points, solves, disqualified, score, bloods, lapsed>>

-----------------------------------------------------------------------------
(* The admin handlers that change what scores are computed from.           *)

\* Mutant of Patched: a field the request leaves out is not taken from the row.
PatchedBlindly(new, existing) == new

\* What an update writes to a column: the admin's value, or the value the row
\* had when the handler read it.
Patched(new, existing) == IF new = Keep THEN existing ELSE new

\* update_challenge reads the whole row and refuses a challenge that would
\* require itself (validate_flag_settings) ...
FindExisting(h) ==
  /\ At(h, "find_existing")
  /\ IF /\ Challenge(h) \in challenges
        /\ Patched(req[h].requires, requires[Challenge(h)]) # Challenge(h)
     THEN /\ mem' = [mem EXCEPT ![h].params   = params[Challenge(h)],
                                ![h].points   = points[Challenge(h)],
                                ![h].requires = requires[Challenge(h)]]
          /\ Goto(h, "write_challenge")
          /\ UNCHANGED req
     ELSE Return(h)
  /\ UNCHANGED <<catalog, points, ledger, score, bloods, lapsed>>

\* ... and writes the whole row back: what the request leaves out, from the
\* row as it was read.  An UPDATE of a row deleted meanwhile changes nothing.
WriteChallenge(h) ==
  LET c == Challenge(h)
  IN  /\ At(h, "write_challenge")
      /\ IF c \in challenges
         THEN /\ params'   = [params EXCEPT
                   ![c] = Patched(req[h].params, mem[h].params)]
              /\ points'   = [points EXCEPT
                   ![c] = Patched(req[h].points, mem[h].points)]
              /\ requires' = [requires EXCEPT
                   ![c] = Patched(req[h].requires, mem[h].requires)]
         ELSE UNCHANGED <<params, points, requires>>
      /\ Goto(h, "read_params")
      /\ UNCHANGED <<challenges, hints, cost, ledger, score, bloods,
                     req, mem, lapsed>>

\* Mutant of SolvesWithout: the rows of solves are left behind.
SolvesKept(c) == solves

SolvesWithout(c) == {s \in solves : s[2] # c}

\* The transaction of delete_challenge: one step, as SQLite runs it.
DeleteChallenge(h) ==
  LET c     == Challenge(h)
      asked == {k \in hints : HintOf[k] = c}
  IN  /\ At(h, "delete_challenge")
      /\ IF c \in challenges
         THEN /\ challenges' = challenges \ {c}
              /\ unlocks'    = {u \in unlocks : u.hint \notin asked}
              /\ hints'      = hints \ asked
              /\ solves'     = SolvesWithout(c)
              /\ requires'   = [d \in Challenges |->
                   IF requires[d] = c THEN NoChallenge ELSE requires[d]]
              /\ Goto(h, "recalculate")
              /\ UNCHANGED <<req, mem>>
         ELSE /\ Return(h)
              /\ UNCHANGED <<challenges, unlocks, hints, solves, requires>>
      /\ UNCHANGED <<params, cost, points, disqualified, score, bloods,
                     lapsed>>

\* update_hint, a read and a write like update_challenge.
FindOldHint(h) ==
  /\ At(h, "find_old_hint")
  /\ IF HintId(h) \in hints
     THEN /\ mem' = [mem EXCEPT ![h].cost = cost[HintId(h)]]
          /\ Goto(h, "write_hint")
          /\ UNCHANGED req
     ELSE Return(h)
  /\ UNCHANGED <<catalog, points, ledger, score, bloods, lapsed>>

\* Past unlocks keep the deduction recorded at unlock time.
WriteHint(h) ==
  /\ At(h, "write_hint")
  /\ cost' = IF HintId(h) \in hints
             THEN [cost EXCEPT
                     ![HintId(h)] = Patched(req[h].cost, mem[h].cost)]
             ELSE cost
  /\ Return(h)
  /\ UNCHANGED <<challenges, requires, params, hints, points, ledger, score,
                 bloods, lapsed>>

FindDeletedHint(h) ==
  /\ At(h, "find_deleted_hint")
  /\ IF HintId(h) \in hints
     THEN Goto(h, "drop_unlocks") /\ UNCHANGED <<req, mem>>
     ELSE Return(h)
  /\ UNCHANGED <<catalog, points, ledger, score, bloods, lapsed>>

\* Hint::delete, first statement; the number of rows is the refund.
DropUnlocks(h) ==
  /\ At(h, "drop_unlocks")
  /\ mem' = [mem EXCEPT
       ![h].refunded = \E u \in unlocks : u.hint = HintId(h)]
  /\ unlocks' = {u \in unlocks : u.hint # HintId(h)}
  /\ Goto(h, "drop_hint")
  /\ UNCHANGED <<catalog, points, solves, disqualified, score, bloods, req,
                 lapsed>>

\* Hint::delete, second statement; scores are recomputed only for a refund.
DropHint(h) ==
  /\ At(h, "drop_hint")
  /\ hints' = hints \ {HintId(h)}
  /\ IF mem[h].refunded
     THEN Goto(h, "recalculate") /\ UNCHANGED <<req, mem>>
     ELSE Return(h)
  /\ UNCHANGED <<challenges, requires, params, cost, points, ledger, score,
                 bloods, lapsed>>

\* update_team_disqualified
WriteDisqualified(h) ==
  /\ At(h, "write_disqualified")
  /\ disqualified' = IF req[h].disqualify
                     THEN disqualified \union {Team(h)}
                     ELSE disqualified \ {Team(h)}
  /\ Goto(h, "recalculate")
  /\ UNCHANGED <<catalog, points, solves, unlocks, score, bloods, req, mem,
                 lapsed>>

-----------------------------------------------------------------------------
(* recalculate_challenge_points and recalculate_all_team_scores            *)

\* The row's parameters; an error once the challenge is deleted.
ReadParams(h) ==
  /\ At(h, "read_params")
  /\ IF Challenge(h) \in challenges
     THEN /\ mem' = [mem EXCEPT ![h].params = params[Challenge(h)]]
          /\ Goto(h, IF params[Challenge(h)].dynamic THEN "count"
                                                     ELSE "recalculate")
          /\ UNCHANGED req
     ELSE Return(h)
  /\ UNCHANGED <<catalog, points, ledger, score, bloods, lapsed>>

\* Mutant of Tally: the new solve is counted twice.
TallyOneMore(c) == SolveCount(Teams, solves, c) + 1

\* SELECT COUNT(*) FROM solves, in recalculate_challenge_points.
Tally(c) == SolveCount(Teams, solves, c)

CountSolves(h) ==
  /\ At(h, "count")
  /\ mem' = [mem EXCEPT ![h].count = Tally(Challenge(h))]
  /\ Goto(h, "write_points")
  /\ UNCHANGED <<catalog, points, ledger, score, bloods, req, lapsed>>

\* The price is computed from the parameters and the count read before.
WritePoints(h) ==
  LET c == Challenge(h)
  IN  /\ At(h, "write_points")
      /\ points' = IF c \in challenges
                   THEN [points EXCEPT ![c] = Price(mem[h].params, mem[h].count)]
                   ELSE points
      /\ Goto(h, "recalculate")
      /\ UNCHANGED <<catalog, ledger, score, bloods, req, mem, lapsed>>

\* Mutant of NewScores: charges and disqualifications are forgotten.
EarningsOnly == Totals(Teams, challenges, points, solves, {}, {})

\* The UPDATE of recalculate_all_team_scores.
NewScores == Totals(Teams, challenges, points, solves, unlocks, disqualified)

Recalculate(h) ==
  /\ At(h, "recalculate")
  /\ score'  = NewScores
  /\ lapsed' = FALSE
  /\ IF req[h].op = "submit"
     THEN Goto(h, "announce") /\ UNCHANGED <<req, mem>>
     ELSE Return(h)
  /\ UNCHANGED <<catalog, points, ledger, bloods>>

-----------------------------------------------------------------------------
(* A handler owes a recalculation from the statement that changes a total  *)
(* to the one that recomputes the scores.  At read_params it owes one only *)
(* while its challenge exists: once the row is gone the handler ends in an *)
(* error, and whoever deleted the row owes the recalculation.              *)

Owes(h) ==
  \/ pc[h] \in {"count", "write_points", "recalculate"}
  \/ pc[h] = "read_params" /\ Challenge(h) \in challenges
  \/ pc[h] = "drop_hint" /\ mem[h].refunded

\* A statement fails (busy timeout, disk) or the process stops: the statements
\* already run stay in the database, the rest of the handler never runs.
Abort(h) ==
  /\ MayFail
  /\ ~At(h, "idle")
  /\ lapsed' = (lapsed \/ Owes(h))
  /\ Return(h)
  /\ UNCHANGED <<catalog, points, ledger, score, bloods>>

SubmitStep(h) ==
  CheckSolved(h) \/ CheckFirstBlood(h) \/ InsertSolve(h) \/ AnnounceSolve(h)

UnlockStep(h) ==
  \/ FindHint(h) \/ CheckUnlocked(h) \/ CheckHintSolved(h)
  \/ CheckAffordable(h) \/ InsertUnlock(h)

AdminStep(h) ==
  \/ FindExisting(h) \/ WriteChallenge(h) \/ DeleteChallenge(h)
  \/ FindOldHint(h) \/ WriteHint(h) \/ FindDeletedHint(h) \/ DropUnlocks(h)
  \/ DropHint(h) \/ WriteDisqualified(h)

ScoringStep(h) ==
  ReadParams(h) \/ CountSolves(h) \/ WritePoints(h) \/ Recalculate(h)

Step(h) ==
  \/ FindChallenge(h) \/ CheckLocked(h)
  \/ SubmitStep(h) \/ UnlockStep(h) \/ AdminStep(h) \/ ScoringStep(h)

Next == \E h \in Handlers : Accept(h) \/ Step(h) \/ Abort(h)

Spec == Init /\ [][Next]_vars

\* A worker thread runs the handler it has accepted to its response.
Fairness == \A h \in Handlers : WF_vars(Step(h))

FairSpec == Spec /\ Fairness

-----------------------------------------------------------------------------
(* Properties                                                              *)

\* The tables hold rows of their kind; a score is a sum, so an integer whatever
\* the tables hold, and it suffices that every team has one.
TablesOK ==
  /\ challenges \subseteq Challenges
  /\ requires \in [Challenges -> Challenges \union {NoChallenge}]
  /\ params \in [Challenges -> Params]
  /\ points \in [Challenges -> Int]
  /\ hints \subseteq Hints
  /\ cost \in [Hints -> Nat]
  /\ solves \subseteq Teams \X Challenges
  /\ unlocks \subseteq [team : Teams, hint : Hints, points : Nat]
  /\ disqualified \subseteq Teams
  /\ score = [t \in Teams |-> score[t]]
  /\ bloods \subseteq Teams \X Challenges
  /\ lapsed \in BOOLEAN

\* A worker is at a statement of the handler of the request it serves.
ThreadsOK ==
  /\ pc = [h \in Handlers |-> pc[h]]
  /\ req \in [Handlers -> Request \union {NoRequest}]
  /\ mem \in [Handlers -> Memory]
  /\ \A h \in Handlers : pc[h] \in StepsOf[req[h].op]

TypeOK == TablesOK /\ ThreadsOK

Quiet   == \A h \in Handlers : At(h, "idle")
Settled == score = CurrentTotals

\* However the handlers overlap, stored scores differ from what the tables add
\* up to only while some handler still has its recalculation ahead of it (or
\* was stopped before reaching it): no handler ends its request leaving the
\* scores behind the solves, unlocks, prices and disqualifications.
ScoresSettled == lapsed \/ (\E h \in Handlers : Owes(h)) \/ Settled

\* Two requests that unlock the same hint for the same team, with the cost
\* edited between them or not, charge the team once.
ChargedOnce ==
  \A u, v \in unlocks : u.team = v.team /\ u.hint = v.hint => u = v

Unsolved(c) == \A t \in Teams : ~Solved(t, c)

\* h is between a solve of c, or writing c's row for an admin, and the price.
Pricing(h, c) == pc[h] \in Repricing /\ Challenge(h) = c

AdminPricing(h, c) == req[h].op = "update_challenge" /\ Pricing(h, c)

\* A dynamic price written from a stale count is never below the price of the
\* solves there are: while nobody edits the parameters and the price does not
\* rise with the solves, overlapping solves can only leave a challenge
\* overpriced.  What it was created with, at any price, ends with its first solve.
NeverUnderpriced ==
  ~MayFail /\ NewParams = {} =>
    \A c \in challenges : params[c].dynamic /\ params[c].decay >= 0 =>
       \/ \E h \in Handlers : AdminPricing(h, c)
       \/ points[c] >= Price(params[c], SolveCount(Teams, solves, c))
       \/ /\ points[c] = InitPoints[c]
          /\ Unsolved(c) \/ \E h \in Handlers : Pricing(h, c)

\* Every solved challenge has had a first blood announced once the handlers
\* are done: of overlapping first solvers at least one saw no solve before it.
FirstBloodAnnounced ==
  ~MayFail /\ Quiet =>
    \A c \in challenges :
       (\E t \in Teams : Solved(t, c)) => \E t \in Teams : <<t, c>> \in bloods

\* First blood is the "First team to solve a given challenge": one team.
OneFirstBlood ==
  \A c \in Challenges, t, u \in Teams :
     <<t, c>> \in bloods /\ <<u, c>> \in bloods => t = u

\* When no handler is at work a dynamic challenge costs what the formula gives
\* for the solves recorded, unless no one has solved or edited it since it was
\* created: nothing has priced it then, and it costs what its creator said.
DynamicPriceCurrent ==
  Quiet => \A c \in challenges : params[c].dynamic =>
             \/ points[c] = Price(params[c], SolveCount(Teams, solves, c))
             \/ /\ Unsolved(c)
                /\ points[c] = InitPoints[c] /\ params[c] = InitParams[c]

\* "Hints may not push a team below zero (free hints are always allowed)."
HintsKeepTeamsSolvent ==
  [][\A u \in unlocks' \ unlocks :
       u.points > 0 => CurrentTotals'[u.team] >= 0]_vars

\* "Delete a hint together with its unlocks (refunding those teams ...)": no
\* charge is left for a hint that is gone.
DeletedHintsRefunded == \A u \in unlocks : u.hint \in hints

\* delete_challenge removes the dependent rows: no solve is left of a challenge
\* that is gone ...
DeletedChallengesUnsolved == \A s \in solves : s[2] \in challenges

\* ... and no challenge is left requiring it, which nobody could then open.
NoDanglingRequirement ==
  \A c \in challenges :
     requires[c] = NoChallenge \/ requires[c] \in challenges

\* When the handlers are done, what an admin deleted has left nothing behind
\* that still charges, locks out or could be inherited by a reused id.
DeletionsComplete ==
  Quiet => /\ DeletedHintsRefunded
           /\ DeletedChallengesUnsolved
           /\ NoDanglingRequirement

=============================================================================
