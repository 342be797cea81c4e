-------------------------- MODULE ScoreFlow_proofs --------------------------
(***************************************************************************)
(* Theorems about ScoreFlow and ScoreLedger, for every value of their      *)
(* constants.                                                              *)
(***************************************************************************)
EXTENDS ScoreLedger, Scoring_proofs, TLAPS

-----------------------------------------------------------------------------
(* Control flow: what a request carries and where a worker may be.         *)

\* The fields the handler of each kind of request reads.
LEMMA RequestFields ==
  ASSUME NEW r \in Request \union {NoRequest}
  PROVE  /\ r.op \in {"submit", "unlock", "disqualify"} => r.team \in Teams
         /\ r.op \in {"submit", "unlock", "update_challenge",
                      "delete_challenge"} => r.challenge \in Challenges
         /\ r.op \in {"unlock", "update_hint", "delete_hint"}
              => r.hint \in Hints
         /\ r.op = "update_hint" => r.cost \in NewCosts \union {Keep}
         /\ r.op = "update_challenge" =>
              /\ r.params \in NewParams \union {Keep}
              /\ r.points \in NewPoints \union {Keep}
              /\ r.requires \in NewRequires \union {Keep}
         /\ r.op \in DOMAIN StepsOf
BY DEF Request, NoRequest, StepsOf

\* A step named for one kind of request tells which request is served.
LEMMA StepRequest ==
  ASSUME ThreadsOK, NEW h \in Handlers
  PROVE  /\ pc[h] \in {"find", "locked"} => req[h].op \in {"submit", "unlock"}
         /\ pc[h] \in {"solved", "count_solves", "insert_solve", "announce"}
              => req[h].op = "submit"
         /\ pc[h] \in {"find_hint", "already_unlocked", "hint_solved",
                       "read_score", "insert_unlock"} => req[h].op = "unlock"
         /\ pc[h] \in {"find_existing", "write_challenge"}
              => req[h].op = "update_challenge"
         /\ pc[h] = "delete_challenge" => req[h].op = "delete_challenge"
         /\ pc[h] \in {"find_old_hint", "write_hint"} => req[h].op = "update_hint"
         /\ pc[h] \in {"find_deleted_hint", "drop_unlocks", "drop_hint"}
              => req[h].op = "delete_hint"
         /\ pc[h] = "write_disqualified" => req[h].op = "disqualify"
         /\ pc[h] \in Repricing => req[h].op \in {"submit", "update_challenge"}
<1>1. req[h] \in Request \union {NoRequest} /\ pc[h] \in StepsOf[req[h].op]
  BY DEF ThreadsOK
<1>2. req[h].op \in DOMAIN StepsOf
  BY <1>1, RequestFields
<1> QED
  BY <1>1, <1>2 DEF StepsOf, Repricing

LEMMA ReturnThreads ==
  ASSUME ThreadsOK, NEW h \in Handlers, Return(h)
  PROVE  ThreadsOK'
<1>1. Blank \in Memory
  BY DEF Blank, Memory, Params
<1>2. /\ pc' = [g \in Handlers |-> pc'[g]]
      /\ req' \in [Handlers -> Request \union {NoRequest}]
      /\ mem' \in [Handlers -> Memory]
  <2>1. pc' = [g \in Handlers |-> pc'[g]]
    BY DEF ThreadsOK, Return
  <2>2. req' \in [Handlers -> Request \union {NoRequest}]
    BY DEF ThreadsOK, Return
  <2>3. mem' \in [Handlers -> Memory]
    BY <1>1 DEF ThreadsOK, Return
  <2> QED BY <2>1, <2>2, <2>3
<1>3. NoRequest.op = "none" /\ "idle" \in StepsOf["none"]
  BY DEF NoRequest, StepsOf
<1>4. ASSUME NEW g \in Handlers PROVE pc'[g] \in StepsOf[req'[g].op]
  <2>1. CASE g = h
    BY <1>3, <2>1 DEF ThreadsOK, Return
  <2>2. CASE g # h
    BY <2>2 DEF ThreadsOK, Return
  <2> QED BY <2>1, <2>2
<1> QED
  BY <1>2, <1>4 DEF ThreadsOK

LEMMA GotoThreads ==
  ASSUME ThreadsOK, NEW h \in Handlers,
         NEW s \in StepsOf[req[h].op], Goto(h, s),
         UNCHANGED req, mem' \in [Handlers -> Memory]
  PROVE  ThreadsOK'
BY DEF ThreadsOK, Goto

\* Remembering one more value of its kind keeps the memories typed.
LEMMA Remember ==
  ASSUME NEW M \in [Handlers -> Memory], NEW h \in Handlers
  PROVE  /\ \A r \in Challenges \union {NoChallenge} :
              [M EXCEPT ![h].requires = r] \in [Handlers -> Memory]
         /\ \A p \in Params : [M EXCEPT ![h].params = p] \in [Handlers -> Memory]
         /\ \A v \in Int : [M EXCEPT ![h].points = v] \in [Handlers -> Memory]
         /\ \A v \in Nat : [M EXCEPT ![h].cost = v] \in [Handlers -> Memory]
         /\ \A b \in BOOLEAN : [M EXCEPT ![h].first = b] \in [Handlers -> Memory]
         /\ \A n \in Nat : [M EXCEPT ![h].count = n] \in [Handlers -> Memory]
         /\ \A b \in BOOLEAN :
              [M EXCEPT ![h].refunded = b] \in [Handlers -> Memory]
<1>1. ASSUME NEW r \in Challenges \union {NoChallenge}
      PROVE  [M EXCEPT ![h].requires = r] \in [Handlers -> Memory]
  <2>1. [M[h] EXCEPT !.requires = r] \in Memory
    BY DEF Memory
  <2> QED BY <2>1
<1>2. ASSUME NEW p \in Params
      PROVE  [M EXCEPT ![h].params = p] \in [Handlers -> Memory]
  <2>1. [M[h] EXCEPT !.params = p] \in Memory
    BY DEF Memory
  <2> QED BY <2>1
<1>3. ASSUME NEW v \in Int
      PROVE  [M EXCEPT ![h].points = v] \in [Handlers -> Memory]
  <2>1. [M[h] EXCEPT !.points = v] \in Memory
    BY DEF Memory
  <2> QED BY <2>1
<1>4. ASSUME NEW v \in Nat
      PROVE  [M EXCEPT ![h].cost = v] \in [Handlers -> Memory]
  <2>1. [M[h] EXCEPT !.cost = v] \in Memory
    BY DEF Memory
  <2> QED BY <2>1
<1>5. ASSUME NEW b \in BOOLEAN
      PROVE  [M EXCEPT ![h].first = b] \in [Handlers -> Memory]
  <2>1. [M[h] EXCEPT !.first = b] \in Memory
    BY DEF Memory
  <2> QED BY <2>1
<1>6. ASSUME NEW n \in Nat
      PROVE  [M EXCEPT ![h].count = n] \in [Handlers -> Memory]
  <2>1. [M[h] EXCEPT !.count = n] \in Memory
    BY DEF Memory
  <2> QED BY <2>1
<1>7. ASSUME NEW b \in BOOLEAN
      PROVE  [M EXCEPT ![h].refunded = b] \in [Handlers -> Memory]
  <2>1. [M[h] EXCEPT !.refunded = b] \in Memory
    BY DEF Memory
  <2> QED BY <2>1
<1> QED
  BY <1>1, <1>2, <1>3, <1>4, <1>5, <1>6, <1>7

\* A count of solves is a natural number.
LEMMA SolveCountType ==
  ASSUME NEW S, NEW c
  PROVE  SolveCount(Teams, S, c) \in Nat
<1>1. IsFiniteSet({t \in Teams : <<t, c>> \in S})
  BY ConstantsAssumption, FS_Subset
<1> QED
  BY <1>1, FS_CardinalityType DEF SolveCount

\* A worker that takes a request starts the handler of that request.
LEMMA AcceptThreads ==
  ASSUME ThreadsOK, NEW h \in Handlers, Accept(h)
  PROVE  ThreadsOK'
<1>1. PICK r \in Request : req' = [req EXCEPT ![h] = r] /\ Goto(h, FirstStep(r))
  BY DEF Accept
<1>2. FirstStep(r) \in StepsOf[r.op]
  BY <1>1 DEF Request, FirstStep, StepsOf
<1>3. mem' = mem
  BY DEF Accept
<1> QED
  BY <1>1, <1>2, <1>3 DEF ThreadsOK, Goto

\* The checks before submit_flag and unlock_hint part ways.
LEMMA CheckThreads ==
  ASSUME TypeOK, NEW h \in Handlers, FindChallenge(h) \/ CheckLocked(h)
  PROVE  ThreadsOK'
<1> USE DEF TypeOK
<1>1. CASE FindChallenge(h)
  <2>1. CASE Challenge(h) \in challenges
    <3>1. Goto(h, "locked") /\ UNCHANGED req
      BY <1>1, <2>1 DEF FindChallenge
    <3>2. "locked" \in StepsOf[req[h].op]
      BY <1>1, StepRequest DEF FindChallenge, At, StepsOf
    <3>3. requires[Challenge(h)] \in Challenges \union {NoChallenge}
      BY <2>1 DEF TablesOK
    <3>4. mem \in [Handlers -> Memory]
      BY DEF ThreadsOK
    <3>5. [mem EXCEPT ![h].requires = requires[Challenge(h)]]
            \in [Handlers -> Memory]
      BY <3>3, <3>4, Remember
    <3>6. mem' = [mem EXCEPT ![h].requires = requires[Challenge(h)]]
      BY <1>1, <2>1 DEF FindChallenge
    <3> QED BY <3>1, <3>2, <3>5, <3>6, GotoThreads
  <2>2. CASE Challenge(h) \notin challenges
    BY <1>1, <2>2, ReturnThreads DEF FindChallenge
  <2> QED BY <2>1, <2>2
<1>2. CASE CheckLocked(h)
  <2>1. req[h].op \in {"submit", "unlock"}
    BY <1>2, StepRequest DEF CheckLocked, At
  <2>2. \/ Return(h)
        \/ /\ Goto(h, IF req[h].op = "submit" THEN "solved" ELSE "find_hint")
           /\ UNCHANGED <<req, mem>>
    BY <1>2 DEF CheckLocked
  <2>3. (IF req[h].op = "submit" THEN "solved" ELSE "find_hint")
           \in StepsOf[req[h].op]
    BY <2>1 DEF StepsOf
  <2>4. mem \in [Handlers -> Memory]
    BY DEF ThreadsOK
  <2> QED BY <2>2, <2>3, <2>4, ReturnThreads, GotoThreads
<1> QED BY <1>1, <1>2

LEMMA SubmitThreads ==
  ASSUME TypeOK, NEW h \in Handlers, SubmitStep(h)
  PROVE  ThreadsOK'
<1> USE DEF TypeOK
<1>1. req[h].op = "submit"
  BY StepRequest DEF SubmitStep, CheckSolved, CheckFirstBlood, InsertSolve,
                     AnnounceSolve, At
<1>2. {"count_solves", "insert_solve", "read_params"} \subseteq StepsOf[req[h].op]
  BY <1>1 DEF StepsOf, Repricing
<1>3. mem \in [Handlers -> Memory]
  BY DEF ThreadsOK
<1>4. CASE CheckSolved(h)
  BY <1>2, <1>3, <1>4, ReturnThreads, GotoThreads DEF CheckSolved
<1>5. CASE CheckFirstBlood(h)
  <2>1. mem' \in [Handlers -> Memory]
    BY <1>3, <1>5, Remember DEF CheckFirstBlood, IsFirst
  <2> QED BY <1>2, <1>5, <2>1, GotoThreads DEF CheckFirstBlood
<1>6. CASE InsertSolve(h)
  BY <1>2, <1>3, <1>6, ReturnThreads, GotoThreads DEF InsertSolve
<1>7. CASE AnnounceSolve(h)
  BY <1>7, ReturnThreads DEF AnnounceSolve
<1> QED BY <1>4, <1>5, <1>6, <1>7 DEF SubmitStep

LEMMA UnlockThreads ==
  ASSUME TypeOK, NEW h \in Handlers, UnlockStep(h)
  PROVE  ThreadsOK'
<1> USE DEF TypeOK
<1>1. req[h].op = "unlock"
  BY StepRequest DEF UnlockStep, FindHint, CheckUnlocked, CheckHintSolved,
                     CheckAffordable, InsertUnlock, At
<1>2. {"already_unlocked", "hint_solved", "read_score", "insert_unlock",
       "recalculate"} \subseteq StepsOf[req[h].op]
  BY <1>1 DEF StepsOf
<1>3. mem \in [Handlers -> Memory]
  BY DEF ThreadsOK
<1>4. CASE FindHint(h)
  <2>1. cost[HintId(h)] \in Nat
    BY <1>1, RequestFields DEF TablesOK, ThreadsOK, HintId
  <2>2. [mem EXCEPT ![h].cost = cost[HintId(h)]] \in [Handlers -> Memory]
    BY <1>3, <2>1, Remember
  <2> QED BY <1>2, <1>4, <2>2, ReturnThreads, GotoThreads DEF FindHint
<1>5. CASE CheckUnlocked(h)
  BY <1>2, <1>3, <1>5, ReturnThreads, GotoThreads DEF CheckUnlocked
<1>6. CASE CheckHintSolved(h)
  BY <1>2, <1>3, <1>6, ReturnThreads, GotoThreads DEF CheckHintSolved
<1>7. CASE CheckAffordable(h)
  BY <1>2, <1>3, <1>7, ReturnThreads, GotoThreads DEF CheckAffordable
<1>8. CASE InsertUnlock(h)
  BY <1>2, <1>3, <1>8, ReturnThreads, GotoThreads DEF InsertUnlock
<1> QED BY <1>4, <1>5, <1>6, <1>7, <1>8 DEF UnlockStep

LEMMA AdminThreads ==
  ASSUME TypeOK, NEW h \in Handlers, AdminStep(h)
  PROVE  ThreadsOK'
<1> USE DEF TypeOK
<1>1. mem \in [Handlers -> Memory]
  BY DEF ThreadsOK
<1>2. CASE FindExisting(h)
  <2>1. req[h].op = "update_challenge" /\ Challenge(h) \in Challenges
    BY <1>2, StepRequest, RequestFields
    DEF FindExisting, At, ThreadsOK, Challenge
  <2>2. "write_challenge" \in StepsOf[req[h].op]
    BY <2>1 DEF StepsOf
  <2>3. [mem EXCEPT ![h].params   = params[Challenge(h)],
                    ![h].points   = points[Challenge(h)],
                    ![h].requires = requires[Challenge(h)]]
          \in [Handlers -> Memory]
    <3>1. /\ params[Challenge(h)] \in Params
          /\ points[Challenge(h)] \in Int
          /\ requires[Challenge(h)] \in Challenges \union {NoChallenge}
      BY <2>1 DEF TablesOK
    <3> DEFINE one == [mem EXCEPT ![h].params = params[Challenge(h)]]
               two == [one EXCEPT ![h].points = points[Challenge(h)]]
    <3>2. one \in [Handlers -> Memory]
      BY <1>1, <3>1, Remember
    <3> HIDE DEF one
    <3>3. two \in [Handlers -> Memory]
      BY <3>1, <3>2, Remember
    <3> HIDE DEF two
    <3>4. [two EXCEPT ![h].requires = requires[Challenge(h)]]
            \in [Handlers -> Memory]
      BY <3>1, <3>3, Remember
    <3> QED BY <3>4 DEF one, two
  <2> QED BY <1>2, <2>2, <2>3, ReturnThreads, GotoThreads DEF FindExisting
<1>3. CASE WriteChallenge(h)
  <2>1. "read_params" \in StepsOf[req[h].op]
    BY <1>3, StepRequest DEF WriteChallenge, At, StepsOf, Repricing
  <2> QED BY <1>1, <1>3, <2>1, GotoThreads DEF WriteChallenge
<1>4. CASE DeleteChallenge(h)
  <2>1. "recalculate" \in StepsOf[req[h].op]
    BY <1>4, StepRequest DEF DeleteChallenge, At, StepsOf
  <2> QED BY <1>1, <1>4, <2>1, ReturnThreads, GotoThreads DEF DeleteChallenge
<1>5. CASE WriteHint(h)
  BY <1>5, ReturnThreads DEF WriteHint
<1>10. CASE FindOldHint(h)
  <2>1. req[h].op = "update_hint" /\ HintId(h) \in Hints
    BY <1>10, StepRequest, RequestFields
    DEF FindOldHint, At, ThreadsOK, HintId
  <2>2. "write_hint" \in StepsOf[req[h].op]
    BY <2>1 DEF StepsOf
  <2>3. cost[HintId(h)] \in Nat
    BY <2>1 DEF TablesOK
  <2>4. [mem EXCEPT ![h].cost = cost[HintId(h)]] \in [Handlers -> Memory]
    BY <1>1, <2>3, Remember
  <2> QED BY <1>10, <2>2, <2>4, ReturnThreads, GotoThreads DEF FindOldHint
<1>6. CASE FindDeletedHint(h)
  <2>1. "drop_unlocks" \in StepsOf[req[h].op]
    BY <1>6, StepRequest DEF FindDeletedHint, At, StepsOf
  <2> QED BY <1>1, <1>6, <2>1, ReturnThreads, GotoThreads DEF FindDeletedHint
<1>7. CASE DropUnlocks(h)
  <2>1. "drop_hint" \in StepsOf[req[h].op]
    BY <1>7, StepRequest DEF DropUnlocks, At, StepsOf
  <2>2. mem' \in [Handlers -> Memory]
    BY <1>1, <1>7, Remember DEF DropUnlocks
  <2> QED BY <1>7, <2>1, <2>2, GotoThreads DEF DropUnlocks
<1>8. CASE DropHint(h)
  <2>1. "recalculate" \in StepsOf[req[h].op]
    BY <1>8, StepRequest DEF DropHint, At, StepsOf
  <2> QED BY <1>1, <1>8, <2>1, ReturnThreads, GotoThreads DEF DropHint
<1>9. CASE WriteDisqualified(h)
  <2>1. "recalculate" \in StepsOf[req[h].op]
    BY <1>9, StepRequest DEF WriteDisqualified, At, StepsOf
  <2> QED BY <1>1, <1>9, <2>1, GotoThreads DEF WriteDisqualified
<1> QED
  BY <1>2, <1>3, <1>4, <1>5, <1>6, <1>7, <1>8, <1>9, <1>10 DEF AdminStep

LEMMA ScoringThreads ==
  ASSUME TypeOK, NEW h \in Handlers, ScoringStep(h)
  PROVE  ThreadsOK'
<1> USE DEF TypeOK
<1>1. mem \in [Handlers -> Memory]
  BY DEF ThreadsOK
<1>2. CASE ReadParams(h)
  <2>1. {"count", "recalculate"} \subseteq StepsOf[req[h].op]
    BY <1>2, StepRequest DEF ReadParams, At, StepsOf, Repricing
  <2>2. Challenge(h) \in challenges => params[Challenge(h)] \in Params
    BY DEF TablesOK
  <2>3. mem' \in [Handlers -> Memory] \/ Return(h)
    BY <1>1, <1>2, <2>2, Remember DEF ReadParams
  <2> QED BY <1>2, <2>1, <2>3, ReturnThreads, GotoThreads DEF ReadParams
<1>3. CASE CountSolves(h)
  <2>1. "write_points" \in StepsOf[req[h].op]
    BY <1>3, StepRequest DEF CountSolves, At, StepsOf, Repricing
  <2>2. SolveCount(Teams, solves, Challenge(h)) \in Nat
    BY SolveCountType
  <2>3. mem' \in [Handlers -> Memory]
    BY <1>1, <1>3, <2>2, Remember DEF CountSolves, Tally
  <2> QED BY <1>3, <2>1, <2>3, GotoThreads DEF CountSolves
<1>4. CASE WritePoints(h)
  <2>1. "recalculate" \in StepsOf[req[h].op]
    BY <1>4, StepRequest DEF WritePoints, At, StepsOf, Repricing
  <2> QED BY <1>1, <1>4, <2>1, GotoThreads DEF WritePoints
<1>5. CASE Recalculate(h)
  <2>1. req[h].op = "submit" => "announce" \in StepsOf[req[h].op]
    BY DEF StepsOf
  <2> QED BY <1>1, <1>5, <2>1, ReturnThreads, GotoThreads DEF Recalculate
<1> QED
  BY <1>2, <1>3, <1>4, <1>5 DEF ScoringStep

\* Every step, complete or cut short, leaves the workers at proper statements.
LEMMA ThreadsStep ==
  ASSUME TypeOK, [Next]_vars
  PROVE  ThreadsOK'
<1>1. CASE UNCHANGED vars
  BY <1>1 DEF TypeOK, ThreadsOK, vars, thread
<1>2. ASSUME NEW h \in Handlers, Accept(h) PROVE ThreadsOK'
  BY <1>2, AcceptThreads DEF TypeOK
<1>3. ASSUME NEW h \in Handlers, Step(h) PROVE ThreadsOK'
  BY <1>3, CheckThreads, SubmitThreads, UnlockThreads, AdminThreads,
     ScoringThreads DEF Step
<1>4. ASSUME NEW h \in Handlers, Abort(h) PROVE ThreadsOK'
  BY <1>4, ReturnThreads DEF TypeOK, Abort
<1> QED
  BY <1>1, <1>2, <1>3, <1>4 DEF Next

-----------------------------------------------------------------------------
(* The tables.                                                             *)

\* A price computed from integers is an integer.
LEMMA PriceType ==
  ASSUME NEW p \in Params, NEW n \in Nat
  PROVE  Price(p, n) \in Int
BY DEF Params, Price, DynamicPoints

\* A column an admin writes holds the admin's value or the one it had.
LEMMA PatchedIn ==
  ASSUME NEW S, NEW N \in SUBSET S, NEW new \in N \union {Keep},
         NEW existing \in S
  PROVE  Patched(new, existing) \in S
BY DEF Patched

\* The steps that write a table write rows of its kind.
LEMMA TablesStep ==
  ASSUME TypeOK, [Next]_vars
  PROVE  TablesOK'
<1> USE DEF TypeOK
<1>1. CASE UNCHANGED vars
  BY <1>1 DEF TablesOK, vars, catalog, ledger
<1>2. ASSUME NEW h \in Handlers, Accept(h) \/ Abort(h) PROVE TablesOK'
  BY <1>2 DEF TablesOK, Accept, Abort, catalog, ledger
<1>3. ASSUME NEW h \in Handlers, FindChallenge(h) \/ CheckLocked(h)
      PROVE  TablesOK'
  BY <1>3 DEF TablesOK, FindChallenge, CheckLocked, catalog, ledger
<1>4. ASSUME NEW h \in Handlers, SubmitStep(h) PROVE TablesOK'
  <2>1. Team(h) \in Teams /\ Challenge(h) \in Challenges
    BY <1>4, StepRequest, RequestFields
    DEF SubmitStep, CheckSolved, CheckFirstBlood, InsertSolve, AnnounceSolve,
        At, ThreadsOK, Team, Challenge
  <2>2. CASE CheckSolved(h) \/ CheckFirstBlood(h)
    BY <2>2 DEF TablesOK, CheckSolved, CheckFirstBlood, catalog, ledger
  <2>3. CASE InsertSolve(h)
    BY <2>1, <2>3 DEF TablesOK, InsertSolve, catalog
  <2>4. CASE AnnounceSolve(h)
    BY <2>1, <2>4 DEF TablesOK, AnnounceSolve, catalog, ledger
  <2> QED BY <1>4, <2>2, <2>3, <2>4 DEF SubmitStep
<1>5. ASSUME NEW h \in Handlers, UnlockStep(h) PROVE TablesOK'
  <2>1. CASE FindHint(h) \/ CheckUnlocked(h) \/ CheckHintSolved(h)
             \/ CheckAffordable(h)
    BY <2>1 DEF TablesOK, FindHint, CheckUnlocked, CheckHintSolved,
                CheckAffordable, catalog, ledger
  <2>2. CASE InsertUnlock(h)
    <3>1. Team(h) \in Teams /\ HintId(h) \in Hints
      BY <2>2, StepRequest, RequestFields
      DEF InsertUnlock, At, ThreadsOK, Team, HintId
    <3>2. mem[h].cost \in Nat
      BY DEF ThreadsOK, Memory
    <3> QED BY <2>2, <3>1, <3>2 DEF TablesOK, InsertUnlock, catalog
  <2> QED BY <1>5, <2>1, <2>2 DEF UnlockStep
<1>6. ASSUME NEW h \in Handlers, AdminStep(h) PROVE TablesOK'
  <2>1. CASE FindExisting(h) \/ FindOldHint(h) \/ FindDeletedHint(h)
    BY <2>1 DEF TablesOK, FindExisting, FindOldHint, FindDeletedHint, catalog,
                ledger
  <2>2. CASE WriteChallenge(h)
    <3>1. /\ req[h].params \in NewParams \union {Keep}
          /\ req[h].points \in NewPoints \union {Keep}
          /\ req[h].requires \in NewRequires \union {Keep}
      BY <2>2, StepRequest, RequestFields DEF WriteChallenge, At, ThreadsOK
    <3>2. /\ mem[h].params \in Params
          /\ mem[h].points \in Int
          /\ mem[h].requires \in Challenges \union {NoChallenge}
      BY DEF ThreadsOK, Memory
    <3>3. /\ Patched(req[h].params, mem[h].params) \in Params
          /\ Patched(req[h].points, mem[h].points) \in Int
          /\ Patched(req[h].requires, mem[h].requires)
               \in Challenges \union {NoChallenge}
      BY <3>1, <3>2, PatchedIn, ConstantsAssumption
    <3>4. /\ params' \in [Challenges -> Params]
          /\ points' \in [Challenges -> Int]
          /\ requires' \in [Challenges -> Challenges \union {NoChallenge}]
      BY <2>2, <3>3 DEF WriteChallenge, TablesOK
    <3> QED BY <2>2, <3>4 DEF TablesOK, WriteChallenge, ledger
  <2>3. CASE DeleteChallenge(h)
    <3>1. requires' \in [Challenges -> Challenges \union {NoChallenge}]
      BY <2>3 DEF DeleteChallenge, TablesOK
    <3> QED BY <2>3, <3>1 DEF TablesOK, DeleteChallenge, SolvesWithout
  <2>4. CASE WriteHint(h)
    <3>1. req[h].cost \in NewCosts \union {Keep} /\ mem[h].cost \in Nat
      BY <2>4, StepRequest, RequestFields
      DEF WriteHint, At, ThreadsOK, Memory
    <3>2. Patched(req[h].cost, mem[h].cost) \in Nat
      BY <3>1, PatchedIn, ConstantsAssumption
    <3> QED BY <2>4, <3>2 DEF TablesOK, WriteHint, ledger
  <2>5. CASE DropUnlocks(h)
    BY <2>5 DEF TablesOK, DropUnlocks, catalog
  <2>6. CASE DropHint(h)
    BY <2>6 DEF TablesOK, DropHint, ledger
  <2>7. CASE WriteDisqualified(h)
    <3>1. Team(h) \in Teams
      BY <2>7, StepRequest, RequestFields
      DEF WriteDisqualified, At, ThreadsOK, Team
    <3> QED BY <2>7, <3>1 DEF TablesOK, WriteDisqualified, catalog
  <2> QED
    BY <1>6, <2>1, <2>2, <2>3, <2>4, <2>5, <2>6, <2>7 DEF AdminStep
<1>7. ASSUME NEW h \in Handlers, ScoringStep(h) PROVE TablesOK'
  <2>1. CASE ReadParams(h) \/ CountSolves(h)
    BY <2>1 DEF TablesOK, ReadParams, CountSolves, catalog, ledger
  <2>2. CASE WritePoints(h)
    <3>1. mem[h].count \in Nat /\ mem[h].params \in Params
      BY DEF ThreadsOK, Memory
    <3>2. points' \in [Challenges -> Int]
      <4>1. CASE Challenge(h) \in challenges
        BY <2>2, <3>1, <4>1, PriceType DEF WritePoints, TablesOK
      <4>2. CASE Challenge(h) \notin challenges
        BY <2>2, <4>2 DEF WritePoints, TablesOK
      <4> QED BY <4>1, <4>2
    <3> QED BY <2>2, <3>2 DEF TablesOK, WritePoints, catalog, ledger
  <2>3. CASE Recalculate(h)
    <3>1. score' = [t \in Teams |-> score'[t]]
      BY <2>3 DEF Recalculate, NewScores, Totals
    <3> QED BY <2>3, <3>1 DEF TablesOK, Recalculate, catalog, ledger
  <2> QED BY <1>7, <2>1, <2>2, <2>3 DEF ScoringStep
<1> QED
  BY <1>1, <1>2, <1>3, <1>4, <1>5, <1>6, <1>7 DEF Next, Step

LEMMA InitTypes == Init => TypeOK
<1> SUFFICES ASSUME Init PROVE TypeOK
  OBVIOUS
<1>1. TablesOK
  BY ConstantsAssumption DEF Init, TablesOK, CurrentTotals, Totals
<1>2. Blank \in Memory
  BY DEF Blank, Memory, Params
<1>3. ThreadsOK
  BY <1>2 DEF Init, ThreadsOK, NoRequest, StepsOf
<1> QED
  BY <1>1, <1>3 DEF TypeOK

\* The tables hold rows of their kind, and every worker is at a statement of
\* the handler of the request it serves, whatever the handlers' interleaving.
THEOREM TypeCorrect == Spec => []TypeOK
<1>1. TypeOK /\ [Next]_vars => TypeOK'
  BY ThreadsStep, TablesStep DEF TypeOK
<1> QED
  BY InitTypes, <1>1, PTL DEF Spec

-----------------------------------------------------------------------------
(* Scores agree with the tables unless a recalculation is owed.            *)

\* Which statements write which column.
LEMMA Writers ==
  ASSUME NEW h \in Handlers, Accept(h) \/ Step(h) \/ Abort(h)
  PROVE  /\ UNCHANGED challenges \/ DeleteChallenge(h)
         /\ UNCHANGED params \/ WriteChallenge(h)
         /\ UNCHANGED points \/ WriteChallenge(h) \/ WritePoints(h)
         /\ UNCHANGED solves \/ InsertSolve(h) \/ DeleteChallenge(h)
         /\ \/ UNCHANGED unlocks \/ InsertUnlock(h)
            \/ DeleteChallenge(h) \/ DropUnlocks(h)
         /\ UNCHANGED bloods \/ AnnounceSolve(h)
<1>1. CASE Accept(h) \/ Abort(h) \/ FindChallenge(h) \/ CheckLocked(h)
  BY <1>1 DEF catalog, ledger, Accept, Abort, FindChallenge, CheckLocked
<1>2. CASE SubmitStep(h)
  BY <1>2 DEF catalog, ledger, SubmitStep, CheckSolved, CheckFirstBlood,
     InsertSolve, AnnounceSolve
<1>3. CASE UnlockStep(h)
  BY <1>3 DEF catalog, ledger, UnlockStep, FindHint, CheckUnlocked,
     CheckHintSolved, CheckAffordable, InsertUnlock
<1>4. CASE AdminStep(h)
  <2>1. CASE FindExisting(h) \/ FindOldHint(h) \/ FindDeletedHint(h)
    BY <2>1 DEF catalog, ledger, FindExisting, FindOldHint, FindDeletedHint
  <2>2. CASE WriteChallenge(h)
    BY <2>2 DEF ledger, WriteChallenge
  <2>3. CASE DeleteChallenge(h)
    BY <2>3 DEF DeleteChallenge
  <2>4. CASE WriteHint(h) \/ DropHint(h)
    BY <2>4 DEF ledger, WriteHint, DropHint
  <2>5. CASE DropUnlocks(h) \/ WriteDisqualified(h)
    BY <2>5 DEF catalog, DropUnlocks, WriteDisqualified
  <2> QED BY <1>4, <2>1, <2>2, <2>3, <2>4, <2>5 DEF AdminStep
<1>5. CASE ScoringStep(h)
  BY <1>5 DEF catalog, ledger, ScoringStep, ReadParams, CountSolves,
     WritePoints, Recalculate
<1> QED BY <1>1, <1>2, <1>3, <1>4, <1>5 DEF Step

\* The totals depend on five tables only.
LEMMA TotalsFrame ==
  ASSUME UNCHANGED <<challenges, points, solves, unlocks, disqualified>>
  PROVE  CurrentTotals' = CurrentTotals
BY DEF CurrentTotals

\* A solve of a challenge that is gone earns nothing.
LEMMA OrphanSolveEarnsNothing ==
  ASSUME UNCHANGED <<challenges, points, unlocks, disqualified>>,
         NEW t, NEW c, c \notin challenges, solves' = solves \union {<<t, c>>}
  PROVE  CurrentTotals' = CurrentTotals
<1>1. ASSUME NEW u \in Teams
      PROVE  {d \in challenges : <<u, d>> \in solves'}
               = {d \in challenges : <<u, d>> \in solves}
  OBVIOUS
<1>2. ASSUME NEW u \in Teams
      PROVE  TotalOf(u, challenges, points, solves', unlocks, disqualified)
               = TotalOf(u, challenges, points, solves, unlocks, disqualified)
  BY <1>1 DEF TotalOf, Earned
<1> QED
  BY <1>2 DEF CurrentTotals, Totals

\* A step of h leaves the other workers where they are.
OnlyMoves(h) ==
  \A g \in Handlers \ {h} :
     pc'[g] = pc[g] /\ req'[g] = req[g] /\ mem'[g] = mem[g]

LEMMA StepMovesOne ==
  ASSUME ThreadsOK, NEW h \in Handlers, Accept(h) \/ Step(h) \/ Abort(h)
  PROVE  OnlyMoves(h)
<1>1. CASE Return(h)
  BY <1>1 DEF ThreadsOK, Return, OnlyMoves
<1>2. ASSUME NEW s, Goto(h, s), UNCHANGED <<req, mem>> PROVE OnlyMoves(h)
  BY <1>2 DEF ThreadsOK, Goto, OnlyMoves
<1>3. CASE Accept(h)
  BY <1>3 DEF Accept, Goto, ThreadsOK, OnlyMoves
<1>4. CASE Abort(h)
  BY <1>1, <1>4 DEF Abort
<1>5. CASE FindChallenge(h)
  BY <1>1, <1>5 DEF FindChallenge, Goto, ThreadsOK, OnlyMoves
<1>6. CASE CheckLocked(h)
  BY <1>1, <1>2, <1>6 DEF CheckLocked
<1>7. CASE SubmitStep(h)
  <2>1. CASE CheckFirstBlood(h)
    BY <2>1 DEF CheckFirstBlood, Goto, ThreadsOK, OnlyMoves
  <2> QED
    BY <1>1, <1>2, <1>7, <2>1
    DEF SubmitStep, CheckSolved, InsertSolve, AnnounceSolve
<1>8. CASE UnlockStep(h)
  <2>1. CASE FindHint(h)
    BY <1>1, <2>1 DEF FindHint, Goto, ThreadsOK, OnlyMoves
  <2> QED
    BY <1>1, <1>2, <1>8, <2>1
    DEF UnlockStep, CheckUnlocked, CheckHintSolved, CheckAffordable,
        InsertUnlock
<1>9. CASE AdminStep(h)
  <2>1. CASE FindExisting(h)
    BY <1>1, <2>1 DEF FindExisting, Goto, ThreadsOK, OnlyMoves
  <2>2. CASE FindOldHint(h) \/ DropUnlocks(h)
    BY <1>1, <2>2 DEF FindOldHint, DropUnlocks, Goto, ThreadsOK, OnlyMoves
  <2>3. CASE WriteChallenge(h)
    BY <1>2, <2>3 DEF WriteChallenge
  <2>4. CASE DeleteChallenge(h)
    BY <1>1, <1>2, <2>4 DEF DeleteChallenge
  <2> QED
    BY <1>1, <1>2, <1>9, <2>1, <2>2, <2>3, <2>4
    DEF AdminStep, WriteHint, FindDeletedHint, DropHint, WriteDisqualified
<1>10. CASE ScoringStep(h)
  <2>1. CASE CountSolves(h)
    BY <2>1 DEF CountSolves, Goto, ThreadsOK, OnlyMoves
  <2>2. CASE WritePoints(h)
    BY <1>2, <2>2 DEF WritePoints
  <2>3. CASE ReadParams(h)
    BY <1>1, <2>3 DEF ReadParams, Goto, ThreadsOK, OnlyMoves
  <2> QED
    BY <1>1, <1>2, <1>10, <2>1, <2>2, <2>3 DEF ScoringStep, Recalculate
<1> QED
  BY <1>3, <1>4, <1>5, <1>6, <1>7, <1>8, <1>9, <1>10 DEF Step

\* A step that changes no total, of a worker that owed nothing.
LEMMA HarmlessStep ==
  ASSUME ScoresSettled, NEW h \in Handlers, ~Owes(h), OnlyMoves(h),
         UNCHANGED <<challenges, score>>, CurrentTotals' = CurrentTotals,
         lapsed => lapsed'
  PROVE  ScoresSettled'
<1>1. CASE lapsed
  BY <1>1 DEF ScoresSettled
<1>2. CASE \E g \in Handlers : Owes(g)
  <2>1. PICK g \in Handlers : Owes(g)
    BY <1>2
  <2>2. g # h
    BY <2>1
  <2>3. Owes(g)'
    BY <2>1, <2>2 DEF Owes, OnlyMoves, Challenge
  <2> QED BY <2>3 DEF ScoresSettled
<1>3. CASE Settled
  BY <1>3 DEF ScoresSettled, Settled
<1> QED
  BY <1>1, <1>2, <1>3 DEF ScoresSettled

\* A worker with a recalculation ahead of it excuses any difference.
LEMMA OwingStep ==
  ASSUME NEW h \in Handlers, Owes(h)'
  PROVE  ScoresSettled'
BY DEF ScoresSettled

\* Steps that only read, or write what no total depends on.
LEMMA ReadStepSettles ==
  ASSUME TypeOK, ScoresSettled, NEW h \in Handlers,
         \/ Accept(h) \/ FindChallenge(h) \/ CheckLocked(h) \/ CheckSolved(h)
         \/ CheckFirstBlood(h) \/ AnnounceSolve(h) \/ FindHint(h)
         \/ CheckUnlocked(h) \/ CheckHintSolved(h) \/ CheckAffordable(h)
         \/ FindExisting(h) \/ FindOldHint(h) \/ WriteHint(h)
         \/ FindDeletedHint(h)
  PROVE  ScoresSettled'
<1>1. OnlyMoves(h)
  BY StepMovesOne DEF TypeOK, Step, SubmitStep, UnlockStep, AdminStep
<1>2. ~Owes(h)
  BY DEF Owes, At, Accept, FindChallenge, CheckLocked, CheckSolved,
         CheckFirstBlood, AnnounceSolve, FindHint, CheckUnlocked,
         CheckHintSolved, CheckAffordable, FindExisting, FindOldHint,
         WriteHint, FindDeletedHint
<1>3. UNCHANGED <<challenges, points, solves, unlocks, disqualified, score,
                  lapsed>>
  BY DEF catalog, ledger, Accept, FindChallenge, CheckLocked, CheckSolved,
         CheckFirstBlood, AnnounceSolve, FindHint, CheckUnlocked,
         CheckHintSolved, CheckAffordable, FindExisting, FindOldHint,
         WriteHint, FindDeletedHint
<1> QED
  BY <1>1, <1>2, <1>3, TotalsFrame, HarmlessStep

\* insert_solve: a new solve is paid for by the recalculation that follows,
\* unless its challenge is gone, and then it earns nothing.
LEMMA InsertSolveSettles ==
  ASSUME TypeOK, ScoresSettled, NEW h \in Handlers, InsertSolve(h)
  PROVE  ScoresSettled'
<1>1. OnlyMoves(h)
  BY StepMovesOne DEF TypeOK, Step, SubmitStep
<1>2. ~Owes(h)
  BY DEF Owes, At, InsertSolve
<1>3. UNCHANGED <<challenges, points, unlocks, disqualified, score, lapsed>>
  BY DEF InsertSolve, catalog
<1>4. CASE Solved(Team(h), Challenge(h))
  <2>1. UNCHANGED solves
    BY <1>4 DEF InsertSolve
  <2> QED BY <1>1, <1>2, <1>3, <2>1, TotalsFrame, HarmlessStep
<1>5. CASE ~Solved(Team(h), Challenge(h))
  <2>1. /\ solves' = solves \union {<<Team(h), Challenge(h)>>}
        /\ Goto(h, "read_params")
        /\ UNCHANGED req
    BY <1>5 DEF InsertSolve
  <2>2. CASE Challenge(h) \in challenges
    <3>1. Owes(h)'
      BY <1>3, <2>1, <2>2 DEF Owes, Goto, Challenge, TypeOK, ThreadsOK
    <3> QED BY <3>1, OwingStep
  <2>3. CASE Challenge(h) \notin challenges
    <3>1. CurrentTotals' = CurrentTotals
      BY <1>3, <2>1, <2>3, OrphanSolveEarnsNothing
    <3> QED BY <1>1, <1>2, <1>3, <3>1, HarmlessStep
  <2> QED BY <2>2, <2>3
<1> QED BY <1>4, <1>5

LEMMA InsertUnlockSettles ==
  ASSUME TypeOK, ScoresSettled, NEW h \in Handlers, InsertUnlock(h)
  PROVE  ScoresSettled'
<1>1. CASE Unlocked(Team(h), HintId(h))
  <2>1. OnlyMoves(h) /\ ~Owes(h)
    BY StepMovesOne DEF TypeOK, Step, UnlockStep, InsertUnlock, Owes, At
  <2>2. UNCHANGED <<challenges, points, solves, unlocks, disqualified, score,
                    lapsed>>
    BY <1>1 DEF InsertUnlock, catalog
  <2> QED BY <2>1, <2>2, TotalsFrame, HarmlessStep
<1>2. CASE ~Unlocked(Team(h), HintId(h))
  <2>1. Owes(h)'
    BY <1>2 DEF InsertUnlock, Goto, Owes, TypeOK, ThreadsOK
  <2> QED BY <2>1, OwingStep
<1> QED BY <1>1, <1>2

\* The statements of the admin handlers that change what totals are made of.
LEMMA AdminWriteSettles ==
  ASSUME TypeOK, ScoresSettled, NEW h \in Handlers,
         \/ WriteChallenge(h) \/ DeleteChallenge(h) \/ DropUnlocks(h)
         \/ WriteDisqualified(h)
  PROVE  ScoresSettled'
<1>1. OnlyMoves(h) /\ ~Owes(h)
  BY StepMovesOne DEF TypeOK, Step, AdminStep, Owes, At, WriteChallenge,
     DeleteChallenge, DropUnlocks, WriteDisqualified
<1>2. CASE WriteChallenge(h)
  <2>1. CASE Challenge(h) \in challenges
    <3>1. Owes(h)'
      BY <1>2, <2>1 DEF WriteChallenge, Goto, Owes, Challenge, TypeOK, ThreadsOK
    <3> QED BY <3>1, OwingStep
  <2>2. CASE Challenge(h) \notin challenges
    <3>1. UNCHANGED <<challenges, points, solves, unlocks, disqualified, score,
                      lapsed>>
      BY <1>2, <2>2 DEF WriteChallenge, ledger
    <3> QED BY <1>1, <3>1, TotalsFrame, HarmlessStep
  <2> QED BY <2>1, <2>2
<1>3. CASE DeleteChallenge(h)
  <2>1. CASE Challenge(h) \in challenges
    <3>1. Owes(h)'
      BY <1>3, <2>1 DEF DeleteChallenge, Goto, Owes, TypeOK, ThreadsOK
    <3> QED BY <3>1, OwingStep
  <2>2. CASE Challenge(h) \notin challenges
    <3>1. UNCHANGED <<challenges, points, solves, unlocks, disqualified, score,
                      lapsed>>
      BY <1>3, <2>2 DEF DeleteChallenge
    <3> QED BY <1>1, <3>1, TotalsFrame, HarmlessStep
  <2> QED BY <2>1, <2>2
<1>4. CASE DropUnlocks(h)
  <2>1. CASE \E u \in unlocks : u.hint = HintId(h)
    <3>1. Owes(h)'
      BY <1>4, <2>1 DEF DropUnlocks, Goto, Owes, TypeOK, ThreadsOK, Memory
    <3> QED BY <3>1, OwingStep
  <2>2. CASE ~\E u \in unlocks : u.hint = HintId(h)
    <3>1. unlocks' = unlocks
      BY <1>4, <2>2 DEF DropUnlocks
    <3>2. UNCHANGED <<challenges, points, solves, disqualified, score, lapsed>>
      BY <1>4 DEF DropUnlocks, catalog
    <3> QED BY <1>1, <3>1, <3>2, TotalsFrame, HarmlessStep
  <2> QED BY <2>1, <2>2
<1>5. CASE WriteDisqualified(h)
  <2>1. Owes(h)'
    BY <1>5 DEF WriteDisqualified, Goto, Owes, TypeOK, ThreadsOK
  <2> QED BY <2>1, OwingStep
<1> QED BY <1>2, <1>3, <1>4, <1>5

\* A deleted hint's handler recalculates exactly when it refunded somebody.
LEMMA DropHintSettles ==
  ASSUME TypeOK, ScoresSettled, NEW h \in Handlers, DropHint(h)
  PROVE  ScoresSettled'
<1>1. CASE mem[h].refunded
  <2>1. Owes(h)'
    BY <1>1 DEF DropHint, Goto, Owes, TypeOK, ThreadsOK
  <2> QED BY <2>1, OwingStep
<1>2. CASE ~mem[h].refunded
  <2>1. OnlyMoves(h) /\ ~Owes(h)
    BY <1>2, StepMovesOne DEF TypeOK, Step, AdminStep, DropHint, Owes, At
  <2>2. UNCHANGED <<challenges, points, solves, unlocks, disqualified, score,
                    lapsed>>
    BY DEF DropHint, ledger
  <2> QED BY <2>1, <2>2, TotalsFrame, HarmlessStep
<1> QED BY <1>1, <1>2

\* The two recalculations: the worker stays in debt up to the statement that
\* recomputes every score.
LEMMA ScoringSettles ==
  ASSUME TypeOK, ScoresSettled, NEW h \in Handlers, ScoringStep(h)
  PROVE  ScoresSettled'
<1>1. CASE ReadParams(h)
  <2>1. CASE Challenge(h) \in challenges
    <3>1. Owes(h)'
      BY <1>1, <2>1 DEF ReadParams, Goto, Owes, TypeOK, ThreadsOK
    <3> QED BY <3>1, OwingStep
  <2>2. CASE Challenge(h) \notin challenges
    <3>1. OnlyMoves(h) /\ ~Owes(h)
      BY <1>1, <2>2, StepMovesOne
      DEF TypeOK, Step, ScoringStep, ReadParams, Owes, At
    <3>2. UNCHANGED <<challenges, points, solves, unlocks, disqualified, score,
                      lapsed>>
      BY <1>1 DEF ReadParams, catalog, ledger
    <3> QED BY <3>1, <3>2, TotalsFrame, HarmlessStep
  <2> QED BY <2>1, <2>2
<1>2. CASE CountSolves(h) \/ WritePoints(h)
  <2>1. Owes(h)'
    BY <1>2 DEF CountSolves, WritePoints, Goto, Owes, TypeOK, ThreadsOK
  <2> QED BY <2>1, OwingStep
<1>3. CASE Recalculate(h)
  <2>1. score' = CurrentTotals
    BY <1>3 DEF Recalculate, NewScores, CurrentTotals
  <2>2. CurrentTotals' = CurrentTotals
    BY <1>3, TotalsFrame DEF Recalculate, catalog, ledger
  <2> QED BY <2>1, <2>2 DEF ScoresSettled, Settled
<1> QED BY <1>1, <1>2, <1>3 DEF ScoringStep

\* A handler cut short leaves its debt in lapsed.
LEMMA AbortSettles ==
  ASSUME TypeOK, ScoresSettled, NEW h \in Handlers, Abort(h)
  PROVE  ScoresSettled'
<1>1. CASE Owes(h)
  BY <1>1 DEF Abort, ScoresSettled
<1>2. CASE ~Owes(h)
  <2>1. OnlyMoves(h)
    BY StepMovesOne DEF TypeOK
  <2>2. UNCHANGED <<challenges, points, solves, unlocks, disqualified, score>>
    BY DEF Abort, catalog, ledger
  <2>3. lapsed => lapsed'
    BY DEF Abort
  <2> QED BY <1>2, <2>1, <2>2, <2>3, TotalsFrame, HarmlessStep
<1> QED BY <1>1, <1>2

LEMMA SettledStep ==
  ASSUME TypeOK, ScoresSettled, [Next]_vars
  PROVE  ScoresSettled'
<1>1. CASE UNCHANGED vars
  <2>1. CurrentTotals' = CurrentTotals /\ UNCHANGED <<score, lapsed>>
    BY <1>1, TotalsFrame DEF vars, catalog, ledger
  <2>2. \A h \in Handlers : Owes(h)' <=> Owes(h)
    BY <1>1 DEF vars, catalog, thread, Owes, Challenge
  <2> QED BY <2>1, <2>2 DEF ScoresSettled, Settled
<1>2. ASSUME NEW h \in Handlers, Accept(h) \/ Step(h) \/ Abort(h)
      PROVE  ScoresSettled'
  BY <1>2, ReadStepSettles, InsertSolveSettles, InsertUnlockSettles,
     AdminWriteSettles, DropHintSettles, ScoringSettles, AbortSettles
  DEF Step, SubmitStep, UnlockStep, AdminStep
<1> QED
  BY <1>1, <1>2 DEF Next

\* For any number of workers, teams, challenges and hints, and wherever they
\* are cut short: a stored score differs from what the tables add up to only
\* while a recalculation is owed or has been lost with its handler.
THEOREM ScoresAlwaysSettled == Spec => []ScoresSettled
<1>1. Init => ScoresSettled
  BY DEF Init, ScoresSettled, Settled
<1>2. TypeOK /\ ScoresSettled /\ [Next]_vars => ScoresSettled'
  BY SettledStep
<1> QED
  BY <1>1, <1>2, TypeCorrect, PTL DEF Spec

-----------------------------------------------------------------------------
(* The handlers implement Ledger.                                          *)

\* Only recalculate_all_team_scores writes scores.
LEMMA ScoreWriter ==
  ASSUME NEW h \in Handlers, Accept(h) \/ Step(h) \/ Abort(h)
  PROVE  UNCHANGED score \/ Recalculate(h)
<1>1. CASE Accept(h) \/ Abort(h) \/ FindChallenge(h) \/ CheckLocked(h)
  BY <1>1 DEF Accept, Abort, FindChallenge, CheckLocked
<1>2. CASE SubmitStep(h)
  BY <1>2 DEF SubmitStep, CheckSolved, CheckFirstBlood, InsertSolve,
     AnnounceSolve
<1>3. CASE UnlockStep(h)
  BY <1>3 DEF UnlockStep, FindHint, CheckUnlocked, CheckHintSolved,
     CheckAffordable, InsertUnlock
<1>4. CASE AdminStep(h)
  <2>1. CASE FindExisting(h) \/ FindOldHint(h) \/ FindDeletedHint(h)
             \/ WriteHint(h) \/ DropHint(h) \/ DropUnlocks(h)
    BY <2>1 DEF FindExisting, FindOldHint, FindDeletedHint, WriteHint,
       DropHint, DropUnlocks
  <2>2. CASE WriteChallenge(h) \/ DeleteChallenge(h) \/ WriteDisqualified(h)
    BY <2>2 DEF WriteChallenge, DeleteChallenge, WriteDisqualified
  <2> QED BY <1>4, <2>1, <2>2 DEF AdminStep
<1>5. CASE ScoringStep(h)
  BY <1>5 DEF ScoringStep, ReadParams, CountSolves, WritePoints
<1> QED BY <1>1, <1>2, <1>3, <1>4, <1>5 DEF Step

\* Recalculate is Ledger's Recompute, every other statement a Change: that is
\* what ScoresSettled in the next state says of it.
LEMMA LedgerStep ==
  ASSUME ScoresSettled', [Next]_vars
  PROVE  [Promise!Next]_(Promise!vars)
<1>1. ASSUME UNCHANGED score PROVE Promise!Change
  BY <1>1 DEF ScoresSettled, Settled, Promise!Change, SomeoneOwes
<1>2. ASSUME NEW h \in Handlers, Recalculate(h) PROVE Promise!Recompute
  <2>1. CurrentTotals' = CurrentTotals
    BY <1>2, TotalsFrame DEF Recalculate, catalog, ledger
  <2> QED
    BY <1>2, <2>1 DEF Recalculate, NewScores, CurrentTotals, Promise!Recompute
<1>3. CASE UNCHANGED vars
  BY <1>1, <1>3 DEF vars, Promise!Next
<1>4. ASSUME NEW h \in Handlers, Accept(h) \/ Step(h) \/ Abort(h)
      PROVE  Promise!Next
  BY <1>1, <1>2, <1>4, ScoreWriter DEF Promise!Next
<1> QED
  BY <1>3, <1>4 DEF Next

\* Whatever the handlers' interleaving, with failures, the score column is what
\* Ledger says: set to the whole total or left alone, and different from it only
\* while somebody owes the recomputation or was stopped before it.
THEOREM LedgerKept == Spec => KeepsLedger
<1>1. Init => Promise!Init
  BY DEF Init, Promise!Init, SomeoneOwes, Owes
<1>2. ScoresSettled' /\ [Next]_vars => [Promise!Next]_(Promise!vars)
  BY LedgerStep
<1> QED
  BY <1>1, <1>2, ScoresAlwaysSettled, PTL DEF Spec, KeepsLedger, Promise!Safe

-----------------------------------------------------------------------------
(* One charge for one hint and team.                                       *)

\* Only insert_unlock adds a charge, and only where the team has none.
LEMMA ChargedOnceStep ==
  ASSUME TypeOK, ChargedOnce, [Next]_vars
  PROVE  ChargedOnce'
<1>1. CASE unlocks' \subseteq unlocks
  BY <1>1 DEF ChargedOnce
<1>2. ASSUME NEW h \in Handlers, InsertUnlock(h) PROVE ChargedOnce'
  <2>1. CASE Unlocked(Team(h), HintId(h))
    BY <1>1, <1>2, <2>1 DEF InsertUnlock
  <2>2. CASE ~Unlocked(Team(h), HintId(h))
    <3> DEFINE new == [team |-> Team(h), hint |-> HintId(h),
                       points |-> mem[h].cost]
    <3>1. unlocks' = unlocks \union {new}
      BY <1>2, <2>2 DEF InsertUnlock
    <3>2. \A u \in unlocks : ~(u.team = new.team /\ u.hint = new.hint)
      BY <2>2 DEF Unlocked
    <3> HIDE DEF new
    <3> QED BY <3>1, <3>2 DEF ChargedOnce
  <2> QED BY <2>1, <2>2
<1>3. ASSUME NEW h \in Handlers, DeleteChallenge(h) \/ DropUnlocks(h)
      PROVE  unlocks' \subseteq unlocks
  BY <1>3 DEF DeleteChallenge, DropUnlocks
<1>4. UNCHANGED vars => unlocks' \subseteq unlocks
  BY DEF vars, ledger
<1> QED BY <1>1, <1>2, <1>3, <1>4, Writers DEF Next

\* Whatever the workers interleave, and whatever cost each of them read, a team
\* is charged at most once for a hint.
THEOREM AlwaysChargedOnce == Spec => []ChargedOnce
<1>1. Init => ChargedOnce
  BY DEF Init, ChargedOnce
<1>2. TypeOK /\ ChargedOnce /\ [Next]_vars => ChargedOnce'
  BY ChargedOnceStep
<1> QED
  BY <1>1, <1>2, TypeCorrect, PTL DEF Spec

-----------------------------------------------------------------------------
(* A stale count never underprices a dynamic challenge.                    *)

\* The square of a larger rank decays at least as much.
LEMMA DecayGrows ==
  ASSUME NEW d \in Nat, NEW m \in Nat, NEW n \in Nat, m <= n
  PROVE  d * (m * m) <= d * (n * n)
<1>1. m * m <= n * n
  <2>1. PICK k \in Nat : n = m + k
    BY m <= n, n - m \in Nat, n = m + (n - m)
  <2>2. n * n = m * m + (2 * m * k + k * k)
    BY <2>1
  <2>3. 2 * m * k + k * k \in Nat
    BY <2>1
  <2> QED BY <2>2, <2>3
<1>2. PICK q \in Nat : n * n = m * m + q
  BY <1>1, n * n - m * m \in Nat, n * n = m * m + (n * n - m * m)
<1>3. d * (n * n) = d * (m * m) + d * q
  BY <1>2
<1>4. d * q \in Nat
  BY <1>2
<1> QED BY <1>3, <1>4

\* More solves never raise a price that decays.
LEMMA PriceFalls ==
  ASSUME NEW p \in Params, p.decay >= 0, NEW m \in Nat, NEW n \in Nat, m <= n
  PROVE  Price(p, m) >= Price(p, n)
<1> DEFINE d == p.decay
           i == IF m >= 1 THEN m - 1 ELSE 0
           j == IF n >= 1 THEN n - 1 ELSE 0
<1>1. d \in Nat /\ p.max \in Int /\ p.min \in Int
  BY p.decay >= 0 DEF Params
<1>2. i \in Nat /\ j \in Nat /\ i <= j
  OBVIOUS
<1>3. Price(p, m) = IF p.max - d * (i * i) >= p.min
                    THEN p.max - d * (i * i) ELSE p.min
  BY DEF Price, DynamicPoints
<1>4. Price(p, n) = IF p.max - d * (j * j) >= p.min
                    THEN p.max - d * (j * j) ELSE p.min
  BY DEF Price, DynamicPoints
<1> HIDE DEF d, i, j
<1>5. d * (i * i) <= d * (j * j)
  BY <1>1, <1>2, DecayGrows
<1>6. d * (i * i) \in Int /\ d * (j * j) \in Int
  BY <1>1, <1>2
<1> QED BY <1>1, <1>3, <1>4, <1>5, <1>6

\* Recording more solves never lowers a count.
LEMMA CountGrows ==
  ASSUME NEW S, NEW T, NEW c,
         \A t \in Teams : <<t, c>> \in S => <<t, c>> \in T
  PROVE  SolveCount(Teams, S, c) <= SolveCount(Teams, T, c)
<1>1. IsFiniteSet({t \in Teams : <<t, c>> \in T})
  BY ConstantsAssumption, FS_Subset
<1>2. {t \in Teams : <<t, c>> \in S} \subseteq {t \in Teams : <<t, c>> \in T}
  OBVIOUS
<1> QED
  BY <1>1, <1>2, FS_Subset DEF SolveCount

\* While a challenge exists its solves only accumulate, and a challenge that is
\* gone does not come back.
LEMMA SolvesGrow ==
  ASSUME [Next]_vars
  PROVE  /\ challenges' \subseteq challenges
         /\ \A c \in challenges', t \in Teams :
               <<t, c>> \in solves => <<t, c>> \in solves'
<1>1. CASE UNCHANGED <<challenges, solves>>
  BY <1>1
<1>2. ASSUME NEW h \in Handlers, InsertSolve(h)
      PROVE  UNCHANGED challenges /\ solves \subseteq solves'
  BY <1>2 DEF InsertSolve, catalog
<1>3. ASSUME NEW h \in Handlers, DeleteChallenge(h)
      PROVE  /\ challenges' \subseteq challenges
             /\ \A c \in challenges', t \in Teams :
                   <<t, c>> \in solves => <<t, c>> \in solves'
  BY <1>3 DEF DeleteChallenge, SolvesWithout
<1>4. \/ UNCHANGED <<challenges, solves>>
      \/ \E h \in Handlers : InsertSolve(h) \/ DeleteChallenge(h)
  BY Writers DEF vars, catalog, ledger, Next
<1> QED BY <1>1, <1>2, <1>3, <1>4

\* The count a worker prices a challenge with was true at some earlier moment,
\* so it is at most the count now.
CountsLag ==
  \A h \in Handlers :
     At(h, "write_points") /\ Challenge(h) \in challenges
       => mem[h].count <= SolveCount(Teams, solves, Challenge(h))

\* Only the COUNT statement leads to the one that writes the price.
LEMMA CountedBeforePricing ==
  ASSUME ThreadsOK, NEW h \in Handlers, Accept(h) \/ Step(h) \/ Abort(h),
         pc'[h] = "write_points"
  PROVE  CountSolves(h)
<1>1. ASSUME NEW s, Goto(h, s) PROVE s = "write_points"
  BY <1>1 DEF Goto, ThreadsOK
<1>2. ~Return(h)
  BY DEF Return, ThreadsOK
<1>3. ~Accept(h) /\ ~Abort(h)
  <2>1. \A r \in Request : FirstStep(r) # "write_points"
    BY DEF Request, FirstStep
  <2> QED BY <1>1, <1>2, <2>1 DEF Accept, Abort
<1>4. ~FindChallenge(h) /\ ~CheckLocked(h) /\ ~SubmitStep(h)
  BY <1>1, <1>2 DEF FindChallenge, CheckLocked, SubmitStep, CheckSolved,
     CheckFirstBlood, InsertSolve, AnnounceSolve
<1>5. ~UnlockStep(h)
  BY <1>1, <1>2 DEF UnlockStep, FindHint, CheckUnlocked, CheckHintSolved,
     CheckAffordable, InsertUnlock
<1>6. ~AdminStep(h)
  BY <1>1, <1>2 DEF AdminStep, FindExisting, WriteChallenge, DeleteChallenge,
     FindOldHint, WriteHint, FindDeletedHint, DropUnlocks, DropHint,
     WriteDisqualified
<1>7. ~ReadParams(h) /\ ~WritePoints(h) /\ ~Recalculate(h)
  BY <1>1, <1>2 DEF ReadParams, WritePoints, Recalculate
<1> QED BY <1>3, <1>4, <1>5, <1>6, <1>7 DEF Step, ScoringStep

LEMMA CountsLagStep ==
  ASSUME TypeOK, CountsLag, [Next]_vars
  PROVE  CountsLag'
<1> SUFFICES ASSUME NEW h \in Handlers, At(h, "write_points")',
                    Challenge(h)' \in challenges'
             PROVE  mem'[h].count <= SolveCount(Teams, solves', Challenge(h)')
  BY DEF CountsLag
<1>1. CASE UNCHANGED <<pc[h], req[h], mem[h]>>
  <2>1. Challenge(h)' = Challenge(h)
    BY <1>1 DEF Challenge
  <2>2. mem[h].count <= SolveCount(Teams, solves, Challenge(h))
    BY <1>1, <2>1, SolvesGrow DEF CountsLag, At
  <2>3. SolveCount(Teams, solves, Challenge(h))
          <= SolveCount(Teams, solves', Challenge(h))
    BY <2>1, SolvesGrow, CountGrows
  <2>4. /\ mem[h].count \in Nat
        /\ SolveCount(Teams, solves, Challenge(h)) \in Nat
        /\ SolveCount(Teams, solves', Challenge(h)) \in Nat
    BY SolveCountType DEF TypeOK, ThreadsOK, Memory
  <2> QED BY <1>1, <2>1, <2>2, <2>3, <2>4
<1>2. CASE CountSolves(h)
  <2>1. mem'[h].count = SolveCount(Teams, solves, Challenge(h))
    BY <1>2 DEF CountSolves, Tally, TypeOK, ThreadsOK, Memory
  <2>2. Challenge(h)' = Challenge(h) /\ UNCHANGED solves
    BY <1>2 DEF CountSolves, Challenge, ledger
  <2>3. SolveCount(Teams, solves, Challenge(h)) \in Nat
    BY SolveCountType
  <2> QED BY <2>1, <2>2, <2>3
<1>3. UNCHANGED <<pc[h], req[h], mem[h]>> \/ CountSolves(h)
  <2>1. CASE UNCHANGED vars
    BY <2>1 DEF vars, thread
  <2>2. ASSUME NEW g \in Handlers, Accept(g) \/ Step(g) \/ Abort(g)
        PROVE  UNCHANGED <<pc[h], req[h], mem[h]>> \/ CountSolves(h)
    <3>1. CASE g # h
      BY <2>2, <3>1, StepMovesOne DEF TypeOK, OnlyMoves
    <3>2. CASE g = h
      BY <2>2, <3>2, CountedBeforePricing DEF TypeOK, At
    <3> QED BY <3>1, <3>2
  <2> QED BY <2>1, <2>2 DEF Next
<1> QED BY <1>1, <1>2, <1>3

\* While no admin may edit them, the parameters and every copy a worker holds
\* of them are those the run started with.
ParamsFixed ==
  NewParams = {} =>
    /\ params = InitParams
    /\ \A h \in Handlers :
          pc[h] \in {"write_challenge", "count", "write_points"} =>
            mem[h].params = InitParams[Challenge(h)]

\* The worker that moves copies the row or keeps the copy it has.
LEMMA ParamsCopied ==
  ASSUME TypeOK, ParamsFixed, NewParams = {}, NEW h \in Handlers,
         Accept(h) \/ Step(h) \/ Abort(h),
         pc'[h] \in {"write_challenge", "count", "write_points"}
  PROVE  mem'[h].params = InitParams[Challenge(h)']
<1>1. ASSUME NEW s, Goto(h, s) PROVE pc'[h] = s
  BY <1>1 DEF Goto, TypeOK, ThreadsOK
<1>2. ~Return(h)
  BY DEF Return, TypeOK, ThreadsOK
<1>3. ~Accept(h) /\ ~Abort(h)
  <2>1. \A r \in Request :
           FirstStep(r) \notin {"write_challenge", "count", "write_points"}
    BY DEF Request, FirstStep
  <2> QED BY <1>1, <1>2, <2>1 DEF Accept, Abort
<1>4. ~FindChallenge(h) /\ ~CheckLocked(h) /\ ~SubmitStep(h)
  BY <1>1, <1>2 DEF FindChallenge, CheckLocked, SubmitStep, CheckSolved,
     CheckFirstBlood, InsertSolve, AnnounceSolve
<1>5. ~UnlockStep(h)
  BY <1>1, <1>2 DEF UnlockStep, FindHint, CheckUnlocked, CheckHintSolved,
     CheckAffordable, InsertUnlock
<1>6. ~WriteChallenge(h) /\ ~DeleteChallenge(h) /\ ~FindOldHint(h)
      /\ ~WriteHint(h) /\ ~FindDeletedHint(h) /\ ~DropUnlocks(h) /\ ~DropHint(h)
      /\ ~WriteDisqualified(h)
  BY <1>1, <1>2 DEF WriteChallenge, DeleteChallenge, FindOldHint, WriteHint,
     FindDeletedHint, DropUnlocks, DropHint, WriteDisqualified
<1>7. ~WritePoints(h) /\ ~Recalculate(h)
  BY <1>1, <1>2 DEF WritePoints, Recalculate
<1>8. CASE FindExisting(h) \/ ReadParams(h)
  <2>1. mem'[h].params = params[Challenge(h)] /\ UNCHANGED req
    BY <1>2, <1>8 DEF FindExisting, ReadParams, TypeOK, ThreadsOK, Memory
  <2> QED BY <2>1 DEF ParamsFixed, Challenge
<1>9. CASE CountSolves(h)
  <2>1. mem'[h].params = mem[h].params /\ UNCHANGED req
    BY <1>9 DEF CountSolves, TypeOK, ThreadsOK, Memory
  <2>2. pc[h] = "count"
    BY <1>9 DEF CountSolves, At
  <2> QED BY <2>1, <2>2 DEF ParamsFixed, Challenge
<1> QED
  BY <1>3, <1>4, <1>5, <1>6, <1>7, <1>8, <1>9 DEF Step, AdminStep, ScoringStep

LEMMA ParamsFixedStep ==
  ASSUME TypeOK, ParamsFixed, [Next]_vars
  PROVE  ParamsFixed'
<1> SUFFICES ASSUME NewParams = {} PROVE ParamsFixed'
  BY DEF ParamsFixed
<1>1. CASE UNCHANGED vars
  BY <1>1 DEF ParamsFixed, vars, catalog, thread, Challenge
<1>2. ASSUME NEW g \in Handlers, Accept(g) \/ Step(g) \/ Abort(g)
      PROVE  ParamsFixed'
  <2>1. params' = InitParams
    <3>1. CASE WriteChallenge(g)
      <4>1. /\ req[g].params = Keep
            /\ mem[g].params = InitParams[Challenge(g)]
            /\ Challenge(g) \in Challenges
        BY <3>1, StepRequest, RequestFields
        DEF WriteChallenge, At, TypeOK, ThreadsOK, ParamsFixed, Challenge
      <4>2. CASE Challenge(g) \in challenges
        <5>1. params' = [params EXCEPT ![Challenge(g)] =
                           InitParams[Challenge(g)]]
          BY <3>1, <4>1, <4>2 DEF WriteChallenge, Patched
        <5> QED BY <4>1, <5>1, ConstantsAssumption DEF ParamsFixed
      <4>3. CASE Challenge(g) \notin challenges
        BY <3>1, <4>3 DEF WriteChallenge, ParamsFixed
      <4> QED BY <4>2, <4>3
    <3>2. UNCHANGED params \/ WriteChallenge(g)
      BY <1>2, Writers
    <3> QED BY <3>1, <3>2 DEF ParamsFixed
  <2>2. ASSUME NEW h \in Handlers,
               pc'[h] \in {"write_challenge", "count", "write_points"}
        PROVE  mem'[h].params = InitParams[Challenge(h)']
    <3>1. CASE h = g
      BY <1>2, <2>2, <3>1, ParamsCopied
    <3>2. CASE h # g
      BY <1>2, <2>2, <3>2, StepMovesOne
      DEF TypeOK, OnlyMoves, ParamsFixed, Challenge
    <3> QED BY <3>1, <3>2
  <2> QED BY <2>1, <2>2 DEF ParamsFixed, Challenge
<1> QED BY <1>1, <1>2 DEF Next

\* Points that only a pricing that has been done or begun can have changed.
AsCreated(c) ==
  /\ points[c] = InitPoints[c]
  /\ Unsolved(c) \/ \E h \in Handlers : Pricing(h, c)

\* Only its own statements move a worker on from a pricing.
LEMMA PricingGoesOn ==
  ASSUME TypeOK, ~MayFail, NEW g \in Handlers, Accept(g) \/ Step(g) \/ Abort(g),
         NEW h \in Handlers, NEW c \in challenges, params[c].dynamic, Pricing(h, c)
  PROVE  \/ WritePoints(g) /\ g = h
         \/ Pricing(h, c)' /\ (AdminPricing(h, c) => AdminPricing(h, c)')
<1>1. CASE h # g
  <2>1. OnlyMoves(g)
    BY StepMovesOne DEF TypeOK
  <2> QED BY <1>1, <2>1 DEF OnlyMoves, Pricing, AdminPricing, Challenge
<1>2. CASE h = g
  <2>1. ReadParams(g) \/ CountSolves(g) \/ WritePoints(g)
    BY <1>2
    DEF Pricing, Repricing, At, Accept, Abort, Step, FindChallenge,
        CheckLocked, SubmitStep, CheckSolved, CheckFirstBlood,
        InsertSolve, AnnounceSolve, UnlockStep, FindHint, CheckUnlocked,
        CheckHintSolved, CheckAffordable, InsertUnlock, AdminStep,
        FindExisting, WriteChallenge, DeleteChallenge, FindOldHint,
        WriteHint, FindDeletedHint, DropUnlocks, DropHint, WriteDisqualified,
        ScoringStep, Recalculate
  <2>2. CASE ReadParams(g) \/ CountSolves(g)
    <3>1. pc'[g] \in Repricing /\ UNCHANGED req
      BY <1>2, <2>2
      DEF Pricing, ReadParams, CountSolves, Goto, Repricing, TypeOK, ThreadsOK
    <3> QED BY <1>2, <3>1 DEF Pricing, AdminPricing, Challenge
  <2> QED BY <1>2, <2>1, <2>2
<1> QED BY <1>1, <1>2

LEMMA UnderpricedStep ==
  ASSUME TypeOK, ParamsFixed, ParamsFixed', CountsLag, NeverUnderpriced,
         [Next]_vars
  PROVE  NeverUnderpriced'
<1> SUFFICES ASSUME ~MayFail, NewParams = {}, NEW c \in challenges',
                    InitParams[c].dynamic, InitParams[c].decay >= 0
             PROVE  \/ \E h \in Handlers : AdminPricing(h, c)'
                    \/ points'[c]
                         >= Price(InitParams[c], SolveCount(Teams, solves', c))
                    \/ AsCreated(c)'
  BY DEF NeverUnderpriced, ParamsFixed, AsCreated
<1> DEFINE p  == InitParams[c]
           n  == SolveCount(Teams, solves, c)
           n1 == SolveCount(Teams, solves', c)
<1>1. c \in Challenges /\ c \in challenges
  BY SolvesGrow DEF TypeOK, TablesOK
<1>p. p \in Params /\ p.dynamic /\ p.decay >= 0 /\ params[c] = p
  BY <1>1, ConstantsAssumption DEF ParamsFixed
<1>2. n \in Nat /\ n1 \in Nat
  BY SolveCountType
<1>3. n <= n1
  BY SolvesGrow, CountGrows
<1> HIDE DEF p, n, n1
<1>4. Price(p, n) >= Price(p, n1)
  BY <1>p, <1>2, <1>3, PriceFalls
<1>5. Price(p, n) \in Int /\ Price(p, n1) \in Int
  BY <1>p, <1>2, PriceType
<1>6. points \in [Challenges -> Int]
  BY DEF TypeOK, TablesOK
<1>b. \/ \E h \in Handlers : AdminPricing(h, c)
      \/ points[c] >= Price(p, n)
      \/ AsCreated(c)
  BY <1>1, <1>p DEF NeverUnderpriced, AsCreated, n
\* A price written from a lagging count is high enough.
<1>7. ASSUME NEW g \in Handlers, WritePoints(g), Challenge(g) = c
      PROVE  points'[c] >= Price(p, n1)
  <2>1. points'[c] = Price(p, mem[g].count)
    BY <1>1, <1>6, <1>7 DEF WritePoints, At, ParamsFixed, p
  <2>2. mem[g].count <= n /\ mem[g].count \in Nat
    BY <1>1, <1>7 DEF CountsLag, WritePoints, TypeOK, ThreadsOK, Memory, n
  <2>3. Price(p, mem[g].count) >= Price(p, n)
    BY <1>p, <1>2, <2>2, PriceFalls
  <2>4. Price(p, mem[g].count) \in Int
    BY <1>p, <2>2, PriceType
  <2> QED BY <1>4, <1>5, <2>1, <2>3, <2>4
<1>8. CASE UNCHANGED vars
  <2>1. UNCHANGED <<challenges, points, solves>>
    BY <1>8 DEF vars, catalog, ledger
  <2>2. \A h \in Handlers : /\ AdminPricing(h, c)' <=> AdminPricing(h, c)
                            /\ Pricing(h, c)' <=> Pricing(h, c)
    BY <1>8 DEF vars, thread, AdminPricing, Pricing, Challenge
  <2>3. n1 = n
    BY <2>1 DEF n, n1
  <2>4. AsCreated(c)' <=> AsCreated(c)
    BY <2>1, <2>2 DEF AsCreated, Unsolved, Solved
  <2> QED BY <1>b, <2>1, <2>2, <2>3, <2>4 DEF n1, p
<1>9. ASSUME NEW g \in Handlers, Accept(g) \/ Step(g) \/ Abort(g)
      PROVE  \/ \E h \in Handlers : AdminPricing(h, c)'
             \/ points'[c] >= Price(p, n1)
             \/ AsCreated(c)'
  \* A pricing of c that is not just done goes on.
  <2>1. ASSUME NEW h \in Handlers, Pricing(h, c)
        PROVE  \/ Pricing(h, c)' /\ (AdminPricing(h, c) => AdminPricing(h, c)')
               \/ points'[c] >= Price(p, n1)
    <3>1. CASE WritePoints(g) /\ g = h
      BY <1>7, <2>1, <3>1 DEF Pricing
    <3>2. CASE ~(WritePoints(g) /\ g = h)
      BY <1>1, <1>p, <1>9, <2>1, <3>2, PricingGoesOn
    <3> QED BY <3>1, <3>2
  \* An admin's row waits to be priced again.
  <2>2. ASSUME NEW h \in Handlers, AdminPricing(h, c)
        PROVE  AdminPricing(h, c)' \/ points'[c] >= Price(p, n1)
    BY <2>1, <2>2 DEF AdminPricing
  \* What else writes the points is followed by a pricing, or is one.
  <2>3. CASE WriteChallenge(g) /\ Challenge(g) = c
    <3>1. req[g].op = "update_challenge"
      BY <2>3, StepRequest DEF TypeOK, WriteChallenge, At
    <3>2. pc'[g] \in Repricing /\ UNCHANGED req
      BY <2>3 DEF WriteChallenge, Goto, Repricing, TypeOK, ThreadsOK
    <3> QED BY <2>3, <3>1, <3>2 DEF AdminPricing, Pricing, Challenge
  <2>4. \/ points'[c] = points[c]
        \/ WriteChallenge(g) /\ Challenge(g) = c
        \/ WritePoints(g) /\ Challenge(g) = c
    <3>1. ASSUME WriteChallenge(g) \/ WritePoints(g), Challenge(g) # c
          PROVE  points'[c] = points[c]
      BY <1>1, <1>6, <3>1 DEF WriteChallenge, WritePoints
    <3> QED BY <1>9, <3>1, Writers
  <2>5. CASE points'[c] = points[c] /\ points[c] >= Price(p, n)
    BY <1>1, <1>4, <1>5, <1>6, <2>5
  \* The first solve of a new challenge starts a pricing.
  <2>6. CASE points'[c] = points[c] /\ AsCreated(c)
    <3>1. ASSUME NEW h \in Handlers, Pricing(h, c)
          PROVE  points'[c] >= Price(p, n1) \/ AsCreated(c)'
      BY <2>1, <2>6, <3>1 DEF AsCreated
    <3>2. ASSUME Unsolved(c) PROVE AsCreated(c)'
      <4>1. CASE InsertSolve(g) /\ Challenge(g) = c /\ ~Solved(Team(g), c)
        <5>1. pc'[g] \in Repricing /\ Challenge(g)' = c
          BY <4>1 DEF InsertSolve, Goto, Repricing, Challenge, TypeOK, ThreadsOK
        <5> QED BY <2>6, <5>1 DEF AsCreated, Pricing
      <4>2. CASE ~(InsertSolve(g) /\ Challenge(g) = c /\ ~Solved(Team(g), c))
        <5>1. ASSUME InsertSolve(g) PROVE Unsolved(c)'
          BY <3>2, <4>2, <5>1 DEF InsertSolve, Unsolved, Solved
        <5>2. ASSUME ~InsertSolve(g) PROVE Unsolved(c)'
          <6>1. UNCHANGED solves \/ DeleteChallenge(g)
            BY <1>9, <5>2, Writers
          <6> QED BY <3>2, <6>1 DEF DeleteChallenge, SolvesWithout, Unsolved, Solved
        <5> QED BY <2>6, <5>1, <5>2 DEF AsCreated
      <4> QED BY <4>1, <4>2
    <3> QED BY <2>6, <3>1, <3>2 DEF AsCreated
  <2>7. CASE WritePoints(g) /\ Challenge(g) = c
    BY <1>7, <2>7
  <2> QED BY <1>b, <2>2, <2>3, <2>4, <2>5, <2>6, <2>7
<1> QED BY <1>8, <1>9 DEF Next, n1, p

\* As long as no handler is cut short and no parameters are edited, overlapping
\* solves leave a dynamic challenge that decays at the price of the solves there
\* are or above it, never below; a new one costs what it was created with until
\* its first solve is priced.
THEOREM AlwaysNeverUnderpriced == Spec => []NeverUnderpriced
<1>1. Init => ParamsFixed /\ CountsLag /\ NeverUnderpriced
  <2> SUFFICES ASSUME Init PROVE ParamsFixed /\ CountsLag /\ NeverUnderpriced
    OBVIOUS
  <2>1. CountsLag
    BY DEF Init, CountsLag, At
  <2>2. \A c \in challenges : points[c] = InitPoints[c] /\ Unsolved(c)
    BY DEF Init, Unsolved, Solved
  <2>3. ParamsFixed
    BY DEF Init, ParamsFixed
  <2> QED BY <2>1, <2>2, <2>3 DEF NeverUnderpriced
<1>2. TypeOK /\ ParamsFixed /\ CountsLag /\ NeverUnderpriced /\ [Next]_vars
        => ParamsFixed' /\ CountsLag' /\ NeverUnderpriced'
  BY ParamsFixedStep, CountsLagStep, UnderpricedStep
<1> QED
  BY <1>1, <1>2, TypeCorrect, PTL DEF Spec

-----------------------------------------------------------------------------
(* First blood is announced for every solved challenge.                    *)

\* A worker about to record the first solve of a challenge knows it is first.
FirstKnown ==
  \A h \in Handlers :
     At(h, "insert_solve") /\ Challenge(h) \in challenges
       /\ Unsolved(Challenge(h)) => mem[h].first

\* h has recorded the first solve of c and has yet to announce it.
Carrying(h, c) ==
  /\ req[h].op = "submit"
  /\ req[h].challenge = c
  /\ mem[h].first
  /\ pc[h] \in Repricing \union {"recalculate", "announce"}

\* Until it is announced, first blood is carried by the worker that drew it.
BloodCarried ==
  ~MayFail =>
    \A c \in challenges : ~Unsolved(c) =>
       \/ \E t \in Teams : <<t, c>> \in bloods
       \/ \E h \in Handlers : Carrying(h, c)

\* Only count_solves leads to insert_solve, and it tells whether a solve exists.
LEMMA FirstKnownStep ==
  ASSUME TypeOK, FirstKnown, [Next]_vars
  PROVE  FirstKnown'
<1> SUFFICES ASSUME NEW h \in Handlers, pc'[h] = "insert_solve",
                    Challenge(h)' \in challenges', Unsolved(Challenge(h))'
             PROVE  mem'[h].first
  BY DEF FirstKnown, At
<1>1. CASE UNCHANGED <<pc[h], req[h], mem[h]>>
  <2>1. Challenge(h)' = Challenge(h) /\ At(h, "insert_solve")
    BY <1>1 DEF Challenge, At
  <2>2. Challenge(h) \in challenges /\ Unsolved(Challenge(h))
    BY <2>1, SolvesGrow DEF Unsolved, Solved
  <2> QED BY <1>1, <2>1, <2>2 DEF FirstKnown
<1>2. CASE CheckFirstBlood(h)
  <2>1. Challenge(h)' = Challenge(h) /\ UNCHANGED solves
    BY <1>2 DEF CheckFirstBlood, Challenge, ledger
  <2>2. {t \in Teams : <<t, Challenge(h)>> \in solves} = {}
    BY <2>1 DEF Unsolved, Solved
  <2>3. SolveCount(Teams, solves, Challenge(h)) = 0
    BY <2>2, FS_EmptySet DEF SolveCount
  <2> QED
    BY <1>2, <2>3 DEF CheckFirstBlood, IsFirst, TypeOK, ThreadsOK, Memory
<1>3. ASSUME NEW g \in Handlers, Accept(g) \/ Step(g) \/ Abort(g)
      PROVE  UNCHANGED <<pc[h], req[h], mem[h]>> \/ CheckFirstBlood(h)
  <2>1. CASE g # h
    BY <1>3, <2>1, StepMovesOne DEF TypeOK, OnlyMoves
  <2>2. CASE g = h
    <3>1. ASSUME NEW s, Goto(h, s) PROVE s = "insert_solve"
      BY <3>1 DEF Goto, TypeOK, ThreadsOK
    <3>2. ~Return(h)
      BY DEF Return, TypeOK, ThreadsOK
    <3>3. ~Accept(h) /\ ~Abort(h)
      <4>1. \A r \in Request : FirstStep(r) # "insert_solve"
        BY DEF Request, FirstStep
      <4> QED BY <3>1, <3>2, <4>1 DEF Accept, Abort
    <3>4. /\ ~FindChallenge(h) /\ ~CheckLocked(h) /\ ~CheckSolved(h)
          /\ ~InsertSolve(h) /\ ~AnnounceSolve(h)
      BY <3>1, <3>2 DEF FindChallenge, CheckLocked, CheckSolved, InsertSolve,
         AnnounceSolve
    <3>5. ~UnlockStep(h) /\ ~ScoringStep(h)
      BY <3>1, <3>2 DEF UnlockStep, FindHint, CheckUnlocked, CheckHintSolved,
         CheckAffordable, InsertUnlock, ScoringStep, ReadParams, CountSolves,
         WritePoints, Recalculate
    <3>6. ~AdminStep(h)
      BY <3>1, <3>2 DEF AdminStep, FindExisting, WriteChallenge,
         DeleteChallenge, FindOldHint, WriteHint, FindDeletedHint,
         DropUnlocks, DropHint, WriteDisqualified
    <3> QED
      BY <1>3, <2>2, <3>3, <3>4, <3>5, <3>6 DEF Step, SubmitStep
  <2> QED BY <2>1, <2>2
<1>4. CASE UNCHANGED vars
  BY <1>1, <1>4 DEF vars, thread
<1> QED BY <1>1, <1>2, <1>3, <1>4 DEF Next

\* What is announced stays announced, and only insert_solve adds a solve.
LEMMA BloodsGrow ==
  ASSUME NEW h \in Handlers, Accept(h) \/ Step(h) \/ Abort(h)
  PROVE  /\ bloods \subseteq bloods'
         /\ solves' \subseteq solves \/ InsertSolve(h)
<1>1. CASE AnnounceSolve(h)
  BY <1>1 DEF AnnounceSolve, ledger
<1>2. CASE DeleteChallenge(h)
  BY <1>2 DEF DeleteChallenge, SolvesWithout
<1>3. CASE InsertSolve(h)
  BY <1>3 DEF InsertSolve
<1> QED BY <1>1, <1>2, <1>3, Writers

\* The worker that carries first blood goes on to announce it, unless the
\* challenge is deleted under it.
LEMMA CarriedOn ==
  ASSUME TypeOK, ~MayFail, NEW h \in Handlers, NEW c \in challenges,
         Carrying(h, c), Accept(h) \/ Step(h) \/ Abort(h)
  PROVE  Carrying(h, c)' \/ \E t \in Teams : <<t, c>> \in bloods'
<1>1. /\ req[h].op = "submit" /\ Challenge(h) = c /\ mem[h].first
      /\ Team(h) \in Teams
  BY RequestFields DEF Carrying, Challenge, Team, TypeOK, ThreadsOK
<1>2. ScoringStep(h) \/ AnnounceSolve(h)
  BY DEF Carrying, Repricing, At, Accept, Abort, Step, FindChallenge,
         CheckLocked, SubmitStep, CheckSolved, CheckFirstBlood, InsertSolve,
         UnlockStep, FindHint, CheckUnlocked, CheckHintSolved,
         CheckAffordable, InsertUnlock, AdminStep, FindExisting,
         WriteChallenge, DeleteChallenge, FindOldHint, WriteHint,
            FindDeletedHint,
         DropUnlocks, DropHint, WriteDisqualified
<1>3. CASE ScoringStep(h)
  <2>1. /\ pc'[h] \in Repricing \union {"recalculate", "announce"}
        /\ req' = req
    BY <1>1, <1>3
    DEF ScoringStep, ReadParams, CountSolves, WritePoints, Recalculate, Goto,
        Repricing, TypeOK, ThreadsOK
  <2>2. mem'[h].first = mem[h].first
    BY <1>1, <1>3
    DEF ScoringStep, ReadParams, CountSolves, WritePoints, Recalculate,
        TypeOK, ThreadsOK, Memory
  <2> QED BY <2>1, <2>2 DEF Carrying
<1>4. CASE AnnounceSolve(h)
  BY <1>1, <1>4 DEF AnnounceSolve
<1> QED BY <1>2, <1>3, <1>4

LEMMA BloodCarriedStep ==
  ASSUME TypeOK, FirstKnown, BloodCarried, [Next]_vars
  PROVE  BloodCarried'
<1> SUFFICES ASSUME ~MayFail, NEW c \in challenges', ~Unsolved(c)'
             PROVE  \/ \E t \in Teams : <<t, c>> \in bloods'
                    \/ \E h \in Handlers : Carrying(h, c)'
  BY DEF BloodCarried
<1>1. c \in challenges
  BY SolvesGrow
<1>2. CASE UNCHANGED vars
  BY <1>1, <1>2
  DEF BloodCarried, Unsolved, Solved, Carrying, vars, ledger, thread
<1>3. ASSUME NEW g \in Handlers, Accept(g) \/ Step(g) \/ Abort(g)
      PROVE  \/ \E t \in Teams : <<t, c>> \in bloods'
             \/ \E h \in Handlers : Carrying(h, c)'
  <2>1. CASE ~Unsolved(c)
    <3>1. CASE \E t \in Teams : <<t, c>> \in bloods
      BY <1>3, <3>1, BloodsGrow
    <3>2. ASSUME NEW h \in Handlers, Carrying(h, c)
          PROVE  Carrying(h, c)' \/ \E t \in Teams : <<t, c>> \in bloods'
      <4>1. CASE h = g
        BY <1>1, <1>3, <3>2, <4>1, CarriedOn
      <4>2. CASE h # g
        BY <1>3, <3>2, <4>2, StepMovesOne DEF TypeOK, OnlyMoves, Carrying
      <4> QED BY <4>1, <4>2
    <3> QED BY <1>1, <2>1, <3>1, <3>2 DEF BloodCarried
  <2>2. CASE Unsolved(c)
    <3>1. InsertSolve(g) /\ ~Solved(Team(g), Challenge(g))
      BY <1>3, <2>2, BloodsGrow DEF Unsolved, Solved, InsertSolve
    <3>2. Challenge(g) = c
      BY <2>2, <3>1 DEF InsertSolve, Unsolved, Solved
    <3>3. mem[g].first
      BY <1>1, <2>2, <3>1, <3>2 DEF FirstKnown, InsertSolve
    <3>4. /\ pc'[g] \in Repricing
          /\ UNCHANGED <<req, mem>>
      BY <3>1 DEF InsertSolve, Goto, Repricing, TypeOK, ThreadsOK
    <3>5. req[g].op = "submit"
      BY <3>1, StepRequest DEF TypeOK, InsertSolve, At
    <3>6. Carrying(g, c)'
      BY <3>2, <3>3, <3>4, <3>5 DEF Carrying, Challenge
    <3> QED BY <3>6
  <2> QED BY <2>1, <2>2
<1> QED BY <1>2, <1>3 DEF Next

\* However many teams solve a challenge at once, when the handlers are done
\* (none was cut short) a first blood has been announced for it.
THEOREM FirstBloodAlwaysAnnounced == Spec => []FirstBloodAnnounced
<1>1. Init => FirstKnown /\ BloodCarried
  BY DEF Init, FirstKnown, BloodCarried, Unsolved, Solved, At
<1>2. TypeOK /\ FirstKnown /\ BloodCarried /\ [Next]_vars
        => FirstKnown' /\ BloodCarried'
  BY FirstKnownStep, BloodCarriedStep
<1>3. BloodCarried => FirstBloodAnnounced
  BY DEF BloodCarried, FirstBloodAnnounced, Quiet, At, Carrying, Repricing,
         Unsolved, Solved
<1> QED
  BY <1>1, <1>2, <1>3, TypeCorrect, PTL DEF Spec

-----------------------------------------------------------------------------
(* One request at a time.  What several workers only keep approximately    *)
(* holds exactly where requests do not overlap, with any number of teams,  *)
(* challenges and hints.                                                   *)

OneAtATime == \A g, h \in Handlers : g = h

\* The row a player's or an admin's request is about stays while it is served.
Standing ==
  \A h \in Handlers :
     /\ req[h].op \in {"submit", "unlock", "update_challenge"}
          /\ pc[h] \notin {"idle", "find", "find_existing"}
        => Challenge(h) \in challenges
     /\ pc[h] \in {"already_unlocked", "hint_solved", "read_score",
                   "insert_unlock"}
        => HintId(h) \in hints
     /\ pc[h] = "drop_hint" => \A u \in unlocks : u.hint # HintId(h)

\* What update_challenge has read of the requirement is still what it is.
RequirementRead ==
  \A h \in Handlers :
     At(h, "write_challenge") => mem[h].requires = requires[Challenge(h)]

LEMMA StandingStep ==
  ASSUME OneAtATime, TypeOK, Standing, [Next]_vars
  PROVE  Standing'
<1>1. CASE UNCHANGED vars
  BY <1>1 DEF Standing, vars, catalog, ledger, thread, Challenge, HintId
<1> SUFFICES ASSUME NEW h \in Handlers, Accept(h) \/ Step(h) \/ Abort(h)
             PROVE  Standing'
  BY <1>1 DEF Next
<1>2. /\ pc = [g \in Handlers |-> pc[g]]
      /\ req = [g \in Handlers |-> req[g]]
      /\ \A g \in Handlers : g = h
  BY DEF OneAtATime, TypeOK, ThreadsOK
<1>3. CASE Return(h)
  BY <1>2, <1>3 DEF Return, Standing, NoRequest
<1>4. CASE Accept(h)
  <2>1. PICK r \in Request : req' = [req EXCEPT ![h] = r] /\ Goto(h, FirstStep(r))
    BY <1>4 DEF Accept
  <2>2. /\ r.op \in {"submit", "unlock", "update_challenge"}
             => FirstStep(r) \in {"find", "find_existing"}
        /\ FirstStep(r) \notin {"already_unlocked", "hint_solved",
                                "read_score", "insert_unlock", "drop_hint"}
    BY DEF Request, FirstStep
  <2> QED BY <1>2, <2>1, <2>2 DEF Goto, Standing
<1>5. CASE Abort(h)
  BY <1>3, <1>5 DEF Abort
<1>6. CASE FindChallenge(h) \/ CheckLocked(h)
  BY <1>2, <1>3, <1>6 DEF Standing, FindChallenge, CheckLocked, Goto, At,
     Challenge, HintId, catalog, ledger
<1>7. CASE SubmitStep(h)
  BY <1>2, <1>3, <1>7 DEF Standing, SubmitStep, CheckSolved, CheckFirstBlood,
     InsertSolve, AnnounceSolve, Goto, At, Challenge, HintId, catalog, ledger
<1>8. CASE UnlockStep(h)
  BY <1>2, <1>3, <1>8 DEF Standing, UnlockStep, FindHint, CheckUnlocked,
     CheckHintSolved, CheckAffordable, InsertUnlock, Goto, At, Challenge,
     HintId, catalog, ledger
<1>9. CASE AdminStep(h)
  <2>1. CASE FindExisting(h) \/ WriteChallenge(h)
    BY <1>2, <1>3, <2>1 DEF Standing, FindExisting, WriteChallenge, Goto, At,
       Challenge, HintId, catalog, ledger
  <2>2. CASE DeleteChallenge(h)
    <3>1. req[h].op = "delete_challenge"
      BY <2>2, StepRequest DEF DeleteChallenge, At, TypeOK
    <3> QED
      BY <1>2, <1>3, <2>2, <3>1 DEF Standing, DeleteChallenge, Goto
  <2>3. CASE FindOldHint(h) \/ FindDeletedHint(h) \/ DropUnlocks(h) \/ DropHint(h)
    <3>1. req[h].op \in {"update_hint", "delete_hint"}
      BY <2>3, StepRequest DEF FindOldHint, FindDeletedHint, DropUnlocks,
         DropHint, At, TypeOK
    <3> QED
      BY <1>2, <1>3, <2>3, <3>1 DEF Standing, FindOldHint, FindDeletedHint,
         DropUnlocks, DropHint, Goto, HintId, catalog, ledger
  <2>4. CASE WriteHint(h)
    BY <1>3, <2>4 DEF WriteHint
  <2>5. CASE WriteDisqualified(h)
    <3>1. req[h].op = "disqualify"
      BY <2>5, StepRequest DEF WriteDisqualified, At, TypeOK
    <3> QED BY <1>2, <2>5, <3>1 DEF Standing, WriteDisqualified, Goto
  <2> QED BY <1>9, <2>1, <2>2, <2>3, <2>4, <2>5 DEF AdminStep
<1>10. CASE ScoringStep(h)
  BY <1>2, <1>3, <1>10 DEF Standing, ScoringStep, ReadParams, CountSolves,
     WritePoints, Recalculate, Goto, At, Challenge, HintId, Repricing,
     catalog, ledger
<1> QED
  BY <1>4, <1>5, <1>6, <1>7, <1>8, <1>9, <1>10 DEF Step

LEMMA RequirementReadStep ==
  ASSUME OneAtATime, TypeOK, RequirementRead, [Next]_vars
  PROVE  RequirementRead'
<1>1. CASE UNCHANGED vars
  BY <1>1 DEF RequirementRead, vars, catalog, thread, Challenge, At
<1> SUFFICES ASSUME NEW h \in Handlers, Accept(h) \/ Step(h) \/ Abort(h),
                    pc'[h] = "write_challenge"
             PROVE  mem'[h].requires = requires'[Challenge(h)']
  BY <1>1 DEF Next, OneAtATime, RequirementRead, At
<1>2. FindExisting(h)
  <2>1. ASSUME NEW s, Goto(h, s) PROVE pc'[h] = s
    BY <2>1 DEF Goto, TypeOK, ThreadsOK
  <2>2. ~Return(h)
    BY DEF Return, TypeOK, ThreadsOK
  <2>3. ~Accept(h) /\ ~Abort(h)
    <3>1. \A r \in Request : FirstStep(r) # "write_challenge"
      BY DEF Request, FirstStep
    <3> QED BY <2>1, <2>2, <3>1 DEF Accept, Abort
  <2>4. ~FindChallenge(h) /\ ~CheckLocked(h) /\ ~SubmitStep(h)
    BY <2>1, <2>2 DEF FindChallenge, CheckLocked, SubmitStep, CheckSolved,
       CheckFirstBlood, InsertSolve, AnnounceSolve
  <2>5. ~UnlockStep(h)
    BY <2>1, <2>2 DEF UnlockStep, FindHint, CheckUnlocked, CheckHintSolved,
       CheckAffordable, InsertUnlock
  <2>6. ~WriteChallenge(h) /\ ~DeleteChallenge(h) /\ ~FindOldHint(h)
    BY <2>1, <2>2 DEF WriteChallenge, DeleteChallenge, FindOldHint
  <2>7. /\ ~WriteHint(h) /\ ~FindDeletedHint(h) /\ ~DropUnlocks(h)
        /\ ~DropHint(h) /\ ~WriteDisqualified(h)
    BY <2>1, <2>2 DEF WriteHint, FindDeletedHint, DropUnlocks, DropHint,
       WriteDisqualified
  <2>8. ~ScoringStep(h)
    BY <2>1, <2>2 DEF ScoringStep, ReadParams, CountSolves, WritePoints,
       Recalculate
  <2> QED BY <2>3, <2>4, <2>5, <2>6, <2>7, <2>8 DEF Step, AdminStep
<1>3. mem \in [Handlers -> Memory] /\ ~Return(h)
  BY DEF TypeOK, ThreadsOK, Return
<1> QED
  BY <1>2, <1>3 DEF FindExisting, Challenge, catalog, Memory

\* What DeletionsComplete says of a quiet moment holds at every moment.
NothingLeftBehind ==
  DeletedHintsRefunded /\ DeletedChallengesUnsolved /\ NoDanglingRequirement

\* Which statements write requirements and hints.
LEMMA CatalogWriters ==
  ASSUME NEW h \in Handlers, Accept(h) \/ Step(h) \/ Abort(h)
  PROVE  /\ UNCHANGED requires \/ WriteChallenge(h) \/ DeleteChallenge(h)
         /\ UNCHANGED hints \/ DeleteChallenge(h) \/ DropHint(h)
<1>1. CASE Accept(h) \/ Abort(h) \/ FindChallenge(h) \/ CheckLocked(h)
  BY <1>1 DEF catalog, Accept, Abort, FindChallenge, CheckLocked
<1>2. CASE SubmitStep(h)
  BY <1>2 DEF catalog, SubmitStep, CheckSolved, CheckFirstBlood, InsertSolve,
     AnnounceSolve
<1>3. CASE UnlockStep(h)
  BY <1>3 DEF catalog, UnlockStep, FindHint, CheckUnlocked, CheckHintSolved,
     CheckAffordable, InsertUnlock
<1>4. CASE AdminStep(h)
  BY <1>4 DEF catalog, AdminStep, FindExisting, WriteChallenge, FindOldHint,
     WriteHint, FindDeletedHint, DropUnlocks, DropHint, WriteDisqualified
<1>5. CASE ScoringStep(h)
  BY <1>5 DEF catalog, ScoringStep, ReadParams, CountSolves, WritePoints,
     Recalculate
<1> QED BY <1>1, <1>2, <1>3, <1>4, <1>5 DEF Step

LEMMA NothingLeftBehindStep ==
  ASSUME OneAtATime, NewRequires \subseteq {NoChallenge}, TypeOK, Standing,
         RequirementRead, NothingLeftBehind, [Next]_vars
  PROVE  NothingLeftBehind'
<1> USE DEF NothingLeftBehind
<1>1. CASE UNCHANGED vars
  BY <1>1 DEF vars, catalog, ledger, DeletedHintsRefunded,
     DeletedChallengesUnsolved, NoDanglingRequirement
<1> SUFFICES ASSUME NEW h \in Handlers, Accept(h) \/ Step(h) \/ Abort(h)
             PROVE  NothingLeftBehind'
  BY <1>1 DEF Next
<1>2. CASE DeleteChallenge(h)
  <2>1. CASE Challenge(h) \notin challenges
    BY <1>2, <2>1 DEF DeleteChallenge, DeletedHintsRefunded,
       DeletedChallengesUnsolved, NoDanglingRequirement
  <2>2. CASE Challenge(h) \in challenges
    <3>1. challenges' \subseteq Challenges
      BY <1>2, <2>2 DEF DeleteChallenge, TypeOK, TablesOK
    <3>2. DeletedHintsRefunded'
      BY <1>2, <2>2 DEF DeleteChallenge, DeletedHintsRefunded
    <3>3. DeletedChallengesUnsolved'
      BY <1>2, <2>2 DEF DeleteChallenge, DeletedChallengesUnsolved,
         SolvesWithout
    <3>4. NoDanglingRequirement'
      BY <1>2, <2>2, <3>1 DEF DeleteChallenge, NoDanglingRequirement
    <3> QED BY <3>2, <3>3, <3>4
  <2> QED BY <2>1, <2>2
<1>3. ASSUME ~DeleteChallenge(h) PROVE DeletedHintsRefunded'
  <2>1. CASE InsertUnlock(h)
    <3>1. HintId(h) \in hints
      BY <2>1 DEF InsertUnlock, At, Standing
    <3> QED BY <2>1, <3>1 DEF InsertUnlock, catalog, DeletedHintsRefunded
  <2>2. CASE DropHint(h)
    <3>1. \A u \in unlocks : u.hint # HintId(h)
      BY <2>2 DEF DropHint, At, Standing
    <3> QED BY <2>2, <3>1 DEF DropHint, ledger, DeletedHintsRefunded
  <2>3. CASE DropUnlocks(h)
    BY <2>3 DEF DropUnlocks, catalog, DeletedHintsRefunded
  <2> QED
    BY <1>3, <2>1, <2>2, <2>3, Writers, CatalogWriters DEF DeletedHintsRefunded
<1>4. ASSUME ~DeleteChallenge(h) PROVE DeletedChallengesUnsolved'
  <2>1. CASE InsertSolve(h)
    <3>1. Challenge(h) \in challenges
      BY <2>1, StepRequest DEF InsertSolve, At, Standing, TypeOK
    <3> QED BY <2>1, <3>1 DEF InsertSolve, catalog, DeletedChallengesUnsolved
  <2> QED BY <1>4, <2>1, Writers DEF DeletedChallengesUnsolved
<1>5. ASSUME ~DeleteChallenge(h) PROVE NoDanglingRequirement'
  <2>1. CASE WriteChallenge(h)
    <3>1. req[h].requires \in NewRequires \union {Keep}
      BY <2>1, StepRequest, RequestFields DEF WriteChallenge, At, TypeOK, ThreadsOK
    <3>2. mem[h].requires = requires[Challenge(h)]
      BY <2>1 DEF WriteChallenge, RequirementRead, At
    <3>3. Patched(req[h].requires, mem[h].requires)
            \in {NoChallenge, requires[Challenge(h)]}
      BY <3>1, <3>2 DEF Patched
    <3> QED
      BY <2>1, <3>3 DEF WriteChallenge, NoDanglingRequirement, TypeOK, TablesOK
  <2> QED BY <1>5, <2>1, Writers, CatalogWriters DEF NoDanglingRequirement
<1> QED BY <1>2, <1>3, <1>4, <1>5

\* Requests one at a time, admins setting no requirement but clearing some:
\* what is deleted leaves no charge, no solve and no requirement behind, also
\* when handlers are stopped midway.
THEOREM AloneDeletionsComplete ==
  ASSUME OneAtATime, NewRequires \subseteq {NoChallenge}
  PROVE  Spec => []DeletionsComplete
<1>1. Init => Standing /\ RequirementRead /\ NothingLeftBehind
  BY ConstantsAssumption
  DEF Init, Standing, RequirementRead, NothingLeftBehind, At, NoRequest,
      DeletedHintsRefunded, DeletedChallengesUnsolved, NoDanglingRequirement
<1>2. TypeOK /\ Standing /\ RequirementRead /\ NothingLeftBehind /\ [Next]_vars
        => Standing' /\ RequirementRead' /\ NothingLeftBehind'
  BY StandingStep, RequirementReadStep, NothingLeftBehindStep
<1>3. NothingLeftBehind => DeletionsComplete
  BY DEF NothingLeftBehind, DeletionsComplete
<1> QED
  BY <1>1, <1>2, <1>3, TypeCorrect, PTL DEF Spec

\* A worker about to insert a first solve knows that there is none.
FirstTrue ==
  \A h \in Handlers :
     At(h, "insert_solve") /\ mem[h].first => Unsolved(Challenge(h))

\* Of a standing challenge first blood is announced, or carried by a worker,
\* only once it is solved, and not announced while it is carried.
BloodsOnce ==
  \A c \in challenges :
     /\ \A t \in Teams : <<t, c>> \in bloods => ~Unsolved(c)
     /\ \A h \in Handlers : Carrying(h, c) =>
          ~Unsolved(c) /\ \A t \in Teams : <<t, c>> \notin bloods

\* Only count_solves leads to insert_solve.
LEMMA CountedBeforeInserting ==
  ASSUME TypeOK, NEW h \in Handlers, Accept(h) \/ Step(h) \/ Abort(h),
         pc'[h] = "insert_solve"
  PROVE  CheckFirstBlood(h)
<1>1. ASSUME NEW s, Goto(h, s) PROVE pc'[h] = s
  BY <1>1 DEF Goto, TypeOK, ThreadsOK
<1>2. ~Return(h)
  BY DEF Return, TypeOK, ThreadsOK
<1>3. ~Accept(h) /\ ~Abort(h)
  <2>1. \A r \in Request : FirstStep(r) # "insert_solve"
    BY DEF Request, FirstStep
  <2> QED BY <1>1, <1>2, <2>1 DEF Accept, Abort
<1>4. ~FindChallenge(h) /\ ~CheckLocked(h)
  BY <1>1, <1>2 DEF FindChallenge, CheckLocked
<1>5. ~CheckSolved(h) /\ ~InsertSolve(h) /\ ~AnnounceSolve(h)
  BY <1>1, <1>2 DEF CheckSolved, InsertSolve, AnnounceSolve
<1>6. ~UnlockStep(h)
  BY <1>1, <1>2 DEF UnlockStep, FindHint, CheckUnlocked, CheckHintSolved,
     CheckAffordable, InsertUnlock
<1>7. /\ ~FindExisting(h) /\ ~WriteChallenge(h) /\ ~DeleteChallenge(h)
      /\ ~FindOldHint(h)
  BY <1>1, <1>2 DEF FindExisting, WriteChallenge, DeleteChallenge, FindOldHint
<1>8. /\ ~WriteHint(h) /\ ~FindDeletedHint(h) /\ ~DropUnlocks(h)
      /\ ~DropHint(h) /\ ~WriteDisqualified(h)
  BY <1>1, <1>2 DEF WriteHint, FindDeletedHint, DropUnlocks, DropHint,
     WriteDisqualified
<1>9. ~ScoringStep(h)
  BY <1>1, <1>2 DEF ScoringStep, ReadParams, CountSolves, WritePoints,
     Recalculate
<1> QED
  BY <1>3, <1>4, <1>5, <1>6, <1>7, <1>8, <1>9 DEF Step, SubmitStep, AdminStep

\* A count of zero means that nobody has solved it.
LEMMA ZeroCount ==
  ASSUME NEW c, SolveCount(Teams, solves, c) = 0
  PROVE  Unsolved(c)
<1>1. IsFiniteSet({t \in Teams : <<t, c>> \in solves})
  BY ConstantsAssumption, FS_Subset
<1>2. {t \in Teams : <<t, c>> \in solves} = {}
  BY <1>1, FS_EmptySet DEF SolveCount
<1> QED BY <1>2 DEF Unsolved, Solved

LEMMA FirstTrueStep ==
  ASSUME OneAtATime, TypeOK, FirstTrue, [Next]_vars
  PROVE  FirstTrue'
<1>1. CASE UNCHANGED vars
  BY <1>1 DEF FirstTrue, vars, catalog, ledger, thread, Challenge, At, Unsolved, Solved
<1> SUFFICES ASSUME NEW h \in Handlers, Accept(h) \/ Step(h) \/ Abort(h),
                    pc'[h] = "insert_solve", mem'[h].first
             PROVE  Unsolved(Challenge(h))'
  BY <1>1 DEF Next, OneAtATime, FirstTrue, At
<1>2. CheckFirstBlood(h)
  BY CountedBeforeInserting
<1>3. mem'[h].first = IsFirst(SolveCount(Teams, solves, Challenge(h)))
  BY <1>2 DEF CheckFirstBlood, TypeOK, ThreadsOK, Memory
<1>4. Unsolved(Challenge(h))
  BY <1>3, ZeroCount DEF IsFirst
<1> QED
  BY <1>2, <1>4 DEF CheckFirstBlood, Challenge, Unsolved, Solved, ledger

\* A worker starts to carry first blood where it inserts a first solve.
LEMMA CarriedFrom ==
  ASSUME TypeOK, NEW h \in Handlers, NEW c, Carrying(h, c)',
         Accept(h) \/ Step(h) \/ Abort(h)
  PROVE  \/ Carrying(h, c)
         \/ /\ InsertSolve(h) /\ Challenge(h) = c /\ mem[h].first
            /\ ~Solved(Team(h), c)
<1>1. ~Return(h)
  BY DEF Return, Carrying, TypeOK, ThreadsOK, Repricing
<1>2. ASSUME NEW s, Goto(h, s) PROVE pc'[h] = s
  BY <1>2 DEF Goto, TypeOK, ThreadsOK
<1>3. ~Accept(h) /\ ~Abort(h)
  <2>1. \A r \in Request :
           FirstStep(r) \notin Repricing \union {"recalculate", "announce"}
    BY DEF Request, FirstStep, Repricing
  <2> QED BY <1>1, <1>2, <2>1 DEF Accept, Abort, Carrying
<1>4. ~FindChallenge(h) /\ ~CheckLocked(h)
  BY <1>1, <1>2 DEF FindChallenge, CheckLocked, Carrying, Repricing
<1>5. CASE SubmitStep(h)
  <2>1. ~CheckSolved(h) /\ ~CheckFirstBlood(h) /\ ~AnnounceSolve(h)
    BY <1>1, <1>2 DEF CheckSolved, CheckFirstBlood, AnnounceSolve, Carrying,
       Repricing
  <2>2. InsertSolve(h)
    BY <1>5, <2>1 DEF SubmitStep
  <2> QED BY <1>1, <2>2 DEF InsertSolve, Carrying, Challenge
<1>6. ~UnlockStep(h)
  <2> SUFFICES ASSUME UnlockStep(h) PROVE FALSE
    OBVIOUS
  <2>1. req[h].op = "unlock"
    BY StepRequest DEF UnlockStep, FindHint, CheckUnlocked,
       CheckHintSolved, CheckAffordable, InsertUnlock, At, TypeOK
  <2>2. UNCHANGED req
    BY <1>1 DEF UnlockStep, FindHint, CheckUnlocked, CheckHintSolved,
       CheckAffordable, InsertUnlock
  <2> QED BY <2>1, <2>2 DEF Carrying
<1>7. ~AdminStep(h)
  <2> SUFFICES ASSUME AdminStep(h) PROVE FALSE
    OBVIOUS
  <2>1. req[h].op # "submit"
    BY StepRequest DEF AdminStep, FindExisting, WriteChallenge,
       DeleteChallenge, FindOldHint, WriteHint, FindDeletedHint, DropUnlocks,
       DropHint, WriteDisqualified, At, TypeOK
  <2>2. UNCHANGED req
    BY <1>1 DEF AdminStep, FindExisting, WriteChallenge, DeleteChallenge,
       FindOldHint, WriteHint, FindDeletedHint, DropUnlocks, DropHint,
       WriteDisqualified
  <2> QED BY <2>1, <2>2 DEF Carrying
<1>8. CASE ScoringStep(h)
  BY <1>1, <1>8 DEF ScoringStep, ReadParams, CountSolves, WritePoints,
     Recalculate, Carrying, At, Repricing, TypeOK, ThreadsOK, Memory
<1> QED
  BY <1>3, <1>4, <1>5, <1>6, <1>7, <1>8 DEF Step

LEMMA BloodsOnceStep ==
  ASSUME OneAtATime, TypeOK, FirstTrue, BloodsOnce, OneFirstBlood, [Next]_vars
  PROVE  BloodsOnce' /\ OneFirstBlood'
<1>1. CASE UNCHANGED vars
  BY <1>1 DEF BloodsOnce, OneFirstBlood, vars, catalog, ledger, thread,
     Unsolved, Solved, Carrying
<1> SUFFICES ASSUME NEW h \in Handlers, Accept(h) \/ Step(h) \/ Abort(h)
             PROVE  BloodsOnce' /\ OneFirstBlood'
  BY <1>1 DEF Next
<1>2. ASSUME NEW c \in challenges'
      PROVE  c \in challenges /\ (~Unsolved(c) => ~Unsolved(c)')
  BY SolvesGrow DEF Unsolved, Solved
<1>3. CASE AnnounceSolve(h)
  <2>1. req[h].op = "submit" /\ pc[h] = "announce" /\ UNCHANGED <<challenges, solves>>
    BY <1>3, StepRequest DEF AnnounceSolve, At, TypeOK, catalog, ledger
  <2>2. \A c : ~Carrying(h, c)'
    BY <1>3 DEF AnnounceSolve, Return, Carrying, Repricing, TypeOK, ThreadsOK
  <2>3. CASE Challenge(h) \in challenges /\ mem[h].first
    <3>1. Carrying(h, Challenge(h))
      BY <2>1, <2>3 DEF Carrying, Challenge
    <3>2. /\ ~Unsolved(Challenge(h))
          /\ \A t \in Teams : <<t, Challenge(h)>> \notin bloods
      BY <2>3, <3>1 DEF BloodsOnce
    <3>3. bloods' = bloods \union {<<Team(h), Challenge(h)>>}
      BY <1>3, <2>3 DEF AnnounceSolve
    <3>4. OneFirstBlood'
      BY <3>2, <3>3 DEF OneFirstBlood
    <3>5. BloodsOnce'
      BY <1>2, <2>1, <2>2, <3>2, <3>3 DEF BloodsOnce, OneAtATime
    <3> QED BY <3>4, <3>5
  <2>4. CASE ~(Challenge(h) \in challenges /\ mem[h].first)
    BY <1>2, <1>3, <2>2, <2>4
    DEF AnnounceSolve, BloodsOnce, OneFirstBlood, OneAtATime
  <2> QED BY <2>3, <2>4
<1>4. CASE ~AnnounceSolve(h)
  <2>1. UNCHANGED bloods
    BY <1>4, Writers
  <2>2. ASSUME NEW c \in challenges', NEW g \in Handlers, Carrying(g, c)'
        PROVE  ~Unsolved(c)' /\ \A t \in Teams : <<t, c>> \notin bloods
    <3>1. g = h
      BY DEF OneAtATime
    <3>2. CASE Carrying(h, c)
      BY <1>2, <3>2 DEF BloodsOnce
    <3>3. CASE /\ InsertSolve(h) /\ Challenge(h) = c /\ mem[h].first
               /\ ~Solved(Team(h), c)
      <4>1. Unsolved(c)
        BY <3>3 DEF FirstTrue, InsertSolve
      <4>2. Team(h) \in Teams
        BY <3>3, StepRequest, RequestFields
        DEF InsertSolve, At, TypeOK, ThreadsOK, Team
      <4>3. ~Unsolved(c)'
        BY <3>3, <4>2 DEF InsertSolve, Unsolved, Solved
      <4> QED BY <1>2, <4>1, <4>3 DEF BloodsOnce
    <3> QED BY <2>2, <3>1, <3>2, <3>3, CarriedFrom
  <2> QED BY <1>2, <2>1, <2>2 DEF BloodsOnce, OneFirstBlood
<1> QED BY <1>3, <1>4

\* Requests one at a time: no challenge has two first bloods, also when
\* handlers are stopped midway and challenges edited or deleted.
THEOREM AloneOneFirstBlood ==
  ASSUME OneAtATime
  PROVE  Spec => []OneFirstBlood
<1>1. Init => FirstTrue /\ BloodsOnce /\ OneFirstBlood
  BY DEF Init, FirstTrue, BloodsOnce, OneFirstBlood, Carrying, NoRequest, At
<1>2. TypeOK /\ FirstTrue /\ BloodsOnce /\ OneFirstBlood /\ [Next]_vars
        => FirstTrue' /\ BloodsOnce' /\ OneFirstBlood'
  BY FirstTrueStep, BloodsOnceStep
<1> QED
  BY <1>1, <1>2, TypeCorrect, PTL DEF Spec

\* The values a price is computed from are those of the tables.
PricedFrom ==
  \A h \in Handlers :
     /\ pc[h] \in {"count", "write_points"} =>
          mem[h].params = params[Challenge(h)]
     /\ pc[h] = "write_points" =>
          mem[h].count = SolveCount(Teams, solves, Challenge(h))

\* No one has solved it, nor changed what it was created with.
Untouched(c) ==
  Unsolved(c) /\ points[c] = InitPoints[c] /\ params[c] = InitParams[c]

\* A dynamic price is the formula's, or about to be recomputed.
PricesCurrent ==
  \A c \in challenges : params[c].dynamic =>
     \/ points[c] = Price(params[c], SolveCount(Teams, solves, c))
     \/ \E h \in Handlers : Pricing(h, c)
     \/ Untouched(c)

\* What a statement of repricing follows.
LEMMA BeforePricing ==
  ASSUME ThreadsOK, NEW h \in Handlers, Accept(h) \/ Step(h) \/ Abort(h)
  PROVE  /\ pc'[h] = "write_points" => CountSolves(h)
         /\ pc'[h] = "count" => ReadParams(h)
<1>1. pc'[h] = "write_points" => CountSolves(h)
  BY CountedBeforePricing
<1> SUFFICES ASSUME pc'[h] = "count" PROVE ReadParams(h)
  BY <1>1
<1>2. ASSUME NEW s, Goto(h, s) PROVE s = "count"
  BY <1>2 DEF Goto, ThreadsOK
<1>3. ~Return(h)
  BY DEF Return, ThreadsOK
<1>4. ~Accept(h) /\ ~Abort(h)
  <2>1. \A r \in Request : FirstStep(r) # "count"
    BY DEF Request, FirstStep
  <2> QED BY <1>2, <1>3, <2>1 DEF Accept, Abort
<1>5. ~FindChallenge(h) /\ ~CheckLocked(h) /\ ~SubmitStep(h)
  BY <1>2, <1>3 DEF FindChallenge, CheckLocked, SubmitStep, CheckSolved,
     CheckFirstBlood, InsertSolve, AnnounceSolve
<1>6. ~UnlockStep(h)
  BY <1>2, <1>3 DEF UnlockStep, FindHint, CheckUnlocked, CheckHintSolved,
     CheckAffordable, InsertUnlock
<1>7. /\ ~FindExisting(h) /\ ~WriteChallenge(h) /\ ~DeleteChallenge(h)
      /\ ~FindOldHint(h)
  BY <1>2, <1>3 DEF FindExisting, WriteChallenge, DeleteChallenge, FindOldHint
<1>8. /\ ~WriteHint(h) /\ ~FindDeletedHint(h) /\ ~DropUnlocks(h)
      /\ ~DropHint(h) /\ ~WriteDisqualified(h)
  BY <1>2, <1>3 DEF WriteHint, FindDeletedHint, DropUnlocks, DropHint,
     WriteDisqualified
<1>9. ~CountSolves(h) /\ ~WritePoints(h) /\ ~Recalculate(h)
  BY <1>2, <1>3 DEF CountSolves, WritePoints, Recalculate
<1> QED
  BY <1>4, <1>5, <1>6, <1>7, <1>8, <1>9 DEF Step, AdminStep, ScoringStep

LEMMA PricedFromStep ==
  ASSUME OneAtATime, TypeOK, PricedFrom, [Next]_vars
  PROVE  PricedFrom'
<1>1. CASE UNCHANGED vars
  BY <1>1 DEF PricedFrom, vars, catalog, ledger, thread, Challenge
<1>2. ASSUME NEW h \in Handlers, Accept(h) \/ Step(h) \/ Abort(h)
      PROVE  PricedFrom'
  <2>1. mem \in [Handlers -> Memory]
    BY DEF TypeOK, ThreadsOK
  <2>2. CASE pc'[h] = "write_points"
    <3>1. CountSolves(h)
      BY <1>2, <2>2, BeforePricing DEF TypeOK
    <3> QED
      BY <2>1, <2>2, <3>1
      DEF PricedFrom, CountSolves, Tally, Challenge, At, OneAtATime, catalog,
          ledger, Memory
  <2>3. CASE pc'[h] = "count"
    <3>1. ReadParams(h) /\ ~Return(h)
      BY <1>2, <2>3, BeforePricing DEF TypeOK, Return, ThreadsOK
    <3> QED
      BY <2>1, <2>3, <3>1
      DEF PricedFrom, ReadParams, Challenge, OneAtATime, catalog, Memory
  <2>4. CASE pc'[h] \notin {"write_points", "count"}
    BY <2>4 DEF PricedFrom, OneAtATime
  <2> QED BY <2>2, <2>3, <2>4
<1> QED BY <1>1, <1>2 DEF Next

LEMMA PricesCurrentStep ==
  ASSUME ~MayFail, OneAtATime, TypeOK, Standing, PricedFrom, PricesCurrent,
         [Next]_vars
  PROVE  PricesCurrent'
<1>1. CASE UNCHANGED vars
  BY <1>1 DEF PricesCurrent, Pricing, Untouched, Unsolved, Solved, vars, catalog, ledger,
     thread, Challenge
<1>2. ASSUME NEW h \in Handlers, Accept(h) \/ Step(h) \/ Abort(h),
             NEW c \in challenges', params'[c].dynamic
      PROVE  \/ points'[c] = Price(params'[c], SolveCount(Teams, solves', c))
             \/ \E g \in Handlers : Pricing(g, c)'
             \/ Untouched(c)'
  <2> USE DEF Repricing, Pricing
  \* What the step leaves alone is as it was.
  <2>u. ASSUME UNCHANGED <<points[c], params[c]>>, pc[h] \notin Repricing,
               {t \in Teams : <<t, c>> \in solves'} = {t \in Teams : <<t, c>> \in solves}
        PROVE  \/ points'[c] = Price(params'[c], SolveCount(Teams, solves', c))
               \/ Untouched(c)'
    <3>1. c \in challenges
      BY <1>2, SolvesGrow
    <3>2. \A g \in Handlers : g = h
      BY DEF OneAtATime
    <3>3. \/ points[c] = Price(params[c], SolveCount(Teams, solves, c))
          \/ Untouched(c)
      BY <1>2, <2>u, <3>1, <3>2 DEF PricesCurrent
    <3>4. SolveCount(Teams, solves', c) = SolveCount(Teams, solves, c)
      BY <2>u DEF SolveCount
    <3>5. Unsolved(c)' <=> Unsolved(c)
      BY <2>u DEF Unsolved, Solved
    <3> QED BY <2>u, <3>3, <3>4, <3>5 DEF Untouched
  <2>1. c \in challenges /\ c \in Challenges /\ challenges \subseteq Challenges
    BY <1>2, SolvesGrow DEF TypeOK, TablesOK
  <2>2. /\ pc = [g \in Handlers |-> pc[g]]
        /\ params \in [Challenges -> Params] /\ points \in [Challenges -> Int]
        /\ \A g \in Handlers : g = h
    BY DEF OneAtATime, TypeOK, ThreadsOK, TablesOK
  <2>3. CASE WriteChallenge(h)
    <3>1. CASE Challenge(h) = c
      BY <2>1, <2>2, <2>3, <3>1 DEF WriteChallenge, Goto, Challenge
    <3>2. CASE Challenge(h) # c
      <4>1. UNCHANGED <<points[c], params[c], solves>>
        BY <2>1, <2>2, <2>3, <3>2 DEF WriteChallenge, ledger
      <4>2. pc[h] \notin Repricing
        BY <2>3 DEF WriteChallenge, At
      <4> QED BY <2>u, <4>1, <4>2
    <3> QED BY <3>1, <3>2
  <2>4. CASE InsertSolve(h)
    <3>1. UNCHANGED <<points, params>> /\ pc[h] \notin Repricing
      BY <2>4 DEF InsertSolve, catalog, At
    <3>2. CASE Solved(Team(h), Challenge(h)) \/ Challenge(h) # c
      <4>1. {t \in Teams : <<t, c>> \in solves'}
              = {t \in Teams : <<t, c>> \in solves}
        BY <2>4, <3>2 DEF InsertSolve
      <4> QED BY <2>u, <3>1, <4>1
    <3>3. CASE ~Solved(Team(h), Challenge(h)) /\ Challenge(h) = c
      BY <2>2, <2>4, <3>3 DEF InsertSolve, Goto, Challenge
    <3> QED BY <3>2, <3>3
  <2>5. CASE DeleteChallenge(h)
    <3>1. UNCHANGED <<points, params>> /\ pc[h] \notin Repricing
      BY <2>5 DEF DeleteChallenge, At
    <3>2. {t \in Teams : <<t, c>> \in solves'}
            = {t \in Teams : <<t, c>> \in solves}
      BY <1>2, <2>5 DEF DeleteChallenge, SolvesWithout
    <3> QED BY <2>u, <3>1, <3>2
  <2>6. CASE WritePoints(h)
    <3>1. UNCHANGED <<params, solves>>
      BY <2>6 DEF WritePoints, catalog, ledger
    <3>2. CASE Challenge(h) = c
      <4>1. points'[c] = Price(mem[h].params, mem[h].count)
        BY <2>1, <2>2, <2>6, <3>2 DEF WritePoints
      <4>2. /\ mem[h].params = params[c]
            /\ mem[h].count = SolveCount(Teams, solves, c)
        BY <2>6, <3>2 DEF WritePoints, At, PricedFrom
      <4> QED BY <3>1, <4>1, <4>2
    <3>3. CASE Challenge(h) # c
      <4>1. points'[c] = points[c]
        BY <2>1, <2>2, <2>6, <3>3 DEF WritePoints
      <4>2. \A g \in Handlers : ~Pricing(g, c)
        BY <2>2, <3>3
      <4>3. \/ points[c] = Price(params[c], SolveCount(Teams, solves, c))
            \/ Untouched(c)
        BY <1>2, <2>1, <3>1, <4>2 DEF PricesCurrent
      <4> QED BY <3>1, <4>1, <4>3 DEF Untouched, Unsolved, Solved
    <3> QED BY <3>2, <3>3
  <2>7. CASE ReadParams(h)
    <3>1. UNCHANGED <<points, params, solves>>
      BY <2>7 DEF ReadParams, catalog, ledger
    <3>2. CASE Challenge(h) = c
      <4>1. Goto(h, IF params[c].dynamic THEN "count" ELSE "recalculate")
              /\ UNCHANGED req
        BY <2>1, <2>7, <3>2 DEF ReadParams
      <4> QED BY <1>2, <2>2, <3>1, <3>2, <4>1 DEF Goto, Challenge
    <3>3. CASE Challenge(h) # c
      <4>1. \A g \in Handlers : ~Pricing(g, c)
        BY <2>2, <3>3
      <4>2. \/ points[c] = Price(params[c], SolveCount(Teams, solves, c))
            \/ Untouched(c)
        BY <1>2, <2>1, <3>1, <4>1 DEF PricesCurrent
      <4> QED BY <3>1, <4>2 DEF Untouched, Unsolved, Solved
    <3> QED BY <3>2, <3>3
  <2>8. CASE CountSolves(h)
    <3>1. UNCHANGED <<points, params, solves, req>> /\ Goto(h, "write_points")
      BY <2>8 DEF CountSolves, catalog, ledger
    <3>2. CASE Challenge(h) = c
      BY <2>2, <3>1, <3>2 DEF Goto, Challenge
    <3>3. CASE Challenge(h) # c
      <4>1. \A g \in Handlers : ~Pricing(g, c)
        BY <2>2, <3>3
      <4>2. \/ points[c] = Price(params[c], SolveCount(Teams, solves, c))
            \/ Untouched(c)
        BY <1>2, <2>1, <3>1, <4>1 DEF PricesCurrent
      <4> QED BY <3>1, <4>2 DEF Untouched, Unsolved, Solved
    <3> QED BY <3>2, <3>3
  <2>9. CASE /\ ~WriteChallenge(h) /\ ~InsertSolve(h) /\ ~DeleteChallenge(h)
             /\ ~WritePoints(h) /\ ~ReadParams(h) /\ ~CountSolves(h)
    <3>1. UNCHANGED <<points, params, solves>>
      BY <1>2, <2>9, Writers
    <3>2. pc[h] \notin Repricing
      BY <1>2, <2>9 DEF Accept, Abort, Step, FindChallenge, CheckLocked,
         SubmitStep, CheckSolved, CheckFirstBlood, AnnounceSolve, UnlockStep,
         FindHint, CheckUnlocked, CheckHintSolved, CheckAffordable,
         InsertUnlock, AdminStep, FindExisting, FindOldHint, WriteHint,
         FindDeletedHint, DropUnlocks, DropHint, WriteDisqualified,
         ScoringStep, Recalculate, At
    <3> QED BY <2>u, <3>1, <3>2
  <2> QED BY <2>3, <2>4, <2>5, <2>6, <2>7, <2>8, <2>9
<1> QED BY <1>1, <1>2 DEF Next, PricesCurrent

\* Requests one at a time and none stopped midway: whenever no handler is at
\* work a dynamic challenge costs what the formula gives for its solves, after
\* any edits of its parameters, its points or its type; or what it was created
\* with, if there was no solve and no edit yet.
THEOREM AloneDynamicPriceCurrent ==
  ASSUME OneAtATime, ~MayFail
  PROVE  Spec => []DynamicPriceCurrent
<1>1. Init => Standing /\ PricedFrom /\ PricesCurrent
  BY DEF Init, Standing, PricedFrom, NoRequest, PricesCurrent, Untouched, Unsolved, Solved
<1>2. TypeOK /\ Standing /\ PricedFrom /\ PricesCurrent /\ [Next]_vars
        => Standing' /\ PricedFrom' /\ PricesCurrent'
  BY StandingStep, PricedFromStep, PricesCurrentStep
<1>3. PricesCurrent => DynamicPriceCurrent
  BY DEF PricesCurrent, DynamicPriceCurrent, Quiet, At, Pricing, Repricing, Untouched
<1> QED
  BY <1>1, <1>2, <1>3, TypeCorrect, PTL DEF Spec

-----------------------------------------------------------------------------
(* Hints never push a team below zero.                                     *)

\* No request has been stopped midway, and the unlocks can be summed.
NothingLapsed == ~lapsed /\ IsFiniteSet(unlocks)

\* Who has been found able to pay still is.
CanPay ==
  \A h \in Handlers :
     At(h, "insert_unlock") /\ mem[h].cost > 0
       => mem[h].cost <= CurrentTotals[Team(h)]

LEMMA NothingLapsedStep ==
  ASSUME ~MayFail, NothingLapsed, [Next]_vars
  PROVE  NothingLapsed'
<1>1. CASE UNCHANGED vars
  BY <1>1 DEF NothingLapsed, vars, ledger
<1> SUFFICES ASSUME NEW h \in Handlers, Accept(h) \/ Step(h)
             PROVE  NothingLapsed'
  BY <1>1 DEF Next, Abort
<1>2. lapsed' = lapsed \/ lapsed' = FALSE
  BY DEF Accept, Step, FindChallenge, CheckLocked, SubmitStep, CheckSolved,
     CheckFirstBlood, InsertSolve, AnnounceSolve, UnlockStep, FindHint,
     CheckUnlocked, CheckHintSolved, CheckAffordable, InsertUnlock, AdminStep,
     FindExisting, WriteChallenge, DeleteChallenge, FindOldHint, WriteHint,
     FindDeletedHint, DropUnlocks, DropHint, WriteDisqualified, ScoringStep,
     ReadParams, CountSolves, WritePoints, Recalculate
<1>3. unlocks' \subseteq unlocks \/ \E u : unlocks' = unlocks \union {u}
  BY Writers DEF InsertUnlock, DeleteChallenge, DropUnlocks
<1>4. IsFiniteSet(unlocks')
  BY <1>3, FS_Subset, FS_AddElement DEF NothingLapsed
<1> QED BY <1>2, <1>4 DEF NothingLapsed

\* A team's total is an integer.
LEMMA TotalsType ==
  ASSUME TypeOK, NothingLapsed, NEW t \in Teams
  PROVE  CurrentTotals[t] \in Int
<1>1. IsFiniteSet(challenges) /\ IsFiniteSet(unlocks)
  BY ConstantsAssumption, FS_Subset DEF TypeOK, TablesOK, NothingLapsed
<1>2. /\ \A c \in challenges : points[c] \in Int
      /\ \A u \in unlocks : u.points \in Int
  BY DEF TypeOK, TablesOK
<1> QED BY <1>1, <1>2, TotalType DEF CurrentTotals, Totals

\* With one request at a time the score it reads is the team's total, and
\* nothing changes that before it inserts.
LEMMA CanPayStep ==
  ASSUME OneAtATime, TypeOK, NothingLapsed, ScoresSettled, CanPay, [Next]_vars
  PROVE  CanPay'
<1>1. CASE UNCHANGED vars
  <2>1. CurrentTotals' = CurrentTotals
    BY <1>1, TotalsFrame DEF vars, catalog, ledger
  <2> QED BY <1>1, <2>1 DEF CanPay, vars, thread, At, Team
<1> SUFFICES ASSUME NEW h \in Handlers, Accept(h) \/ Step(h) \/ Abort(h),
                    At(h, "insert_unlock")', mem'[h].cost > 0
             PROVE  mem'[h].cost <= CurrentTotals'[Team(h)']
  BY <1>1 DEF Next, CanPay, OneAtATime
<1>2. /\ pc = [g \in Handlers |-> pc[g]]
      /\ \A g \in Handlers : g = h
  BY DEF OneAtATime, TypeOK, ThreadsOK
<1>3. pc' = [pc EXCEPT ![h] = "insert_unlock"]
  <2>1. pc' = [pc EXCEPT ![h] = pc'[h]]
    BY <1>2 DEF Accept, Abort, Step, FindChallenge, CheckLocked,
       SubmitStep, CheckSolved, CheckFirstBlood, InsertSolve, AnnounceSolve,
       UnlockStep, FindHint, CheckUnlocked, CheckHintSolved, CheckAffordable,
       InsertUnlock, AdminStep, FindExisting, WriteChallenge, DeleteChallenge,
       FindOldHint, WriteHint, FindDeletedHint, DropUnlocks, DropHint,
       WriteDisqualified, ScoringStep, ReadParams, CountSolves, WritePoints,
       Recalculate, Goto, Return
  <2> QED BY <2>1 DEF At
<1>4. pc'[h] = "insert_unlock"
  BY DEF At
<1>5. ~Return(h)
  BY <1>2, <1>4 DEF Return
<1>6. ~Accept(h) /\ ~Abort(h)
  <2>1. ASSUME NEW r \in Request PROVE FirstStep(r) # "insert_unlock"
    BY DEF Request, FirstStep
  <2> QED BY <1>2, <1>4, <1>5, <2>1 DEF Accept, Abort, Goto
<1>7. ~FindChallenge(h) /\ ~CheckLocked(h)
  BY <1>2, <1>4, <1>5 DEF FindChallenge, CheckLocked, Goto
<1>8. ~SubmitStep(h)
  BY <1>2, <1>4, <1>5 DEF SubmitStep, CheckSolved, CheckFirstBlood,
     InsertSolve, AnnounceSolve, Goto
<1>9. ~AdminStep(h)
  BY <1>2, <1>4, <1>5 DEF AdminStep, FindExisting, WriteChallenge,
     DeleteChallenge, FindOldHint, WriteHint, FindDeletedHint, DropUnlocks,
     DropHint, WriteDisqualified, Goto
<1>10. ~ScoringStep(h)
  BY <1>2, <1>4, <1>5 DEF ScoringStep, ReadParams, CountSolves, WritePoints,
     Recalculate, Goto
<1>11. CheckAffordable(h)
  <2>1. UnlockStep(h)
    BY <1>6, <1>7, <1>8, <1>9, <1>10 DEF Step
  <2> QED BY <1>2, <1>4, <1>5, <2>1 DEF UnlockStep, FindHint, CheckUnlocked,
      CheckHintSolved, InsertUnlock, Goto
<1>12. /\ At(h, "read_score") /\ UNCHANGED <<req, mem>>
       /\ Affordable(mem[h].cost, score[Team(h)])
       /\ CurrentTotals' = CurrentTotals
  BY <1>5, <1>11, TotalsFrame DEF CheckAffordable, catalog, ledger
<1>13. score = CurrentTotals
  BY <1>2, <1>12 DEF ScoresSettled, Settled, NothingLapsed, Owes, At
<1>14. Team(h) \in Teams
  BY <1>12, StepRequest, RequestFields DEF TypeOK, ThreadsOK, Team, At
<1>15. mem[h].cost \in Nat
  BY DEF TypeOK, ThreadsOK, Memory
<1>16. CurrentTotals[Team(h)] \in Int
  BY <1>14, TotalsType
<1> QED BY <1>12, <1>13, <1>14, <1>15, <1>16 DEF Affordable, Team

\* The insert charges the team the price it could pay: its total stays at
\* least zero.
LEMMA ChargeStep ==
  ASSUME OneAtATime, TypeOK, NothingLapsed, CanPay, [Next]_vars,
         NEW u \in unlocks' \ unlocks, u.points > 0
  PROVE  CurrentTotals'[u.team] >= 0
<1>1. PICK h \in Handlers : InsertUnlock(h)
  <2>1. ~UNCHANGED vars
    BY DEF vars, ledger
  <2>2. PICK h \in Handlers : Accept(h) \/ Step(h) \/ Abort(h)
    BY <2>1 DEF Next
  <2> QED BY <2>2, Writers DEF DeleteChallenge, DropUnlocks
<1> DEFINE row == [team |-> Team(h), hint |-> HintId(h), points |-> mem[h].cost]
<1>2. /\ ~Unlocked(Team(h), HintId(h))
      /\ unlocks' = unlocks \union {row}
      /\ At(h, "insert_unlock")
      /\ UNCHANGED <<challenges, points, solves, disqualified>>
  BY <1>1 DEF InsertUnlock, catalog
<1>3. u = row
  BY <1>2
<1>4. row \notin unlocks
  BY <1>2 DEF Unlocked
<1>5. Team(h) \in Teams
  BY <1>2, StepRequest, RequestFields DEF TypeOK, ThreadsOK, Team, At
<1>6. mem[h].cost \in Nat
  BY DEF TypeOK, ThreadsOK, Memory
<1>7. mem[h].cost <= CurrentTotals[Team(h)] /\ CurrentTotals[Team(h)] \in Int
  BY <1>2, <1>3, <1>5, TotalsType DEF CanPay
<1>8. CASE Team(h) \in disqualified
  BY <1>2, <1>3, <1>5, <1>8 DEF CurrentTotals, Totals, TotalOf
<1>9. CASE Team(h) \notin disqualified
  <2> DEFINE t == Team(h)
             e == Earned(t, challenges, points, solves)
             d == Charged(t, unlocks)
  <2>1. /\ IsFiniteSet(unlocks) /\ IsFiniteSet(challenges)
        /\ \A v \in unlocks : v.points \in Int
        /\ \A c \in challenges : points[c] \in Int
    BY ConstantsAssumption, FS_Subset DEF TypeOK, TablesOK, NothingLapsed
  <2>2. row.points \in Int /\ row.points = mem[h].cost /\ row.team = t
    BY <1>6
  <2> HIDE DEF row
  <2>3. Charged(t, unlocks \union {row}) = d + mem[h].cost
    <3>1. Charged(t, unlocks \union {row})
            = Charged(t, unlocks)
                + (IF row.team = t THEN row.points ELSE 0)
      BY <1>4, <2>1, <2>2, UnlockCharges
    <3> QED BY <2>2, <3>1
  <2>4. e \in Int /\ d \in Int
    BY <2>1, EarnedType, ChargedType
  <2>5. CurrentTotals[t] = e - d
    BY <1>5, <1>9 DEF CurrentTotals, Totals, TotalOf
  <2>6. CurrentTotals'[t] = e - (d + mem[h].cost)
    BY <1>2, <1>5, <1>9, <2>3 DEF CurrentTotals, Totals, TotalOf
  <2>7. u.team = t
    BY <1>3, <2>2
  <2> QED BY <1>6, <1>7, <2>4, <2>5, <2>6, <2>7
<1> QED BY <1>8, <1>9

\* Requests one at a time and none stopped midway: no unlock that costs
\* anything leaves a team below zero, for any teams, hints, prices and solves.
THEOREM AloneHintsKeepTeamsSolvent ==
  ASSUME OneAtATime, ~MayFail
  PROVE  Spec => HintsKeepTeamsSolvent
<1>1. Init => NothingLapsed /\ CanPay
  BY FS_EmptySet DEF Init, NothingLapsed, CanPay, At
<1>2. TypeOK /\ ScoresSettled /\ NothingLapsed /\ CanPay /\ [Next]_vars
        => NothingLapsed' /\ CanPay'
  BY NothingLapsedStep, CanPayStep
<1>3. TypeOK /\ NothingLapsed /\ CanPay /\ [Next]_vars
        => [\A u \in unlocks' \ unlocks :
              u.points > 0 => CurrentTotals'[u.team] >= 0]_vars
  BY ChargeStep
<1> QED
  BY <1>1, <1>2, <1>3, TypeCorrect, ScoresAlwaysSettled, PTL
  DEF Spec, HintsKeepTeamsSolvent

=============================================================================
