--------------------------- MODULE Contest_proofs ---------------------------
(***************************************************************************)
(* Theorems about Contest: any number of workers, teams and challenges,    *)
(* any configured start, end and freeze, any bound on the clock.           *)
(***************************************************************************)
EXTENDS Contest, Scoring_proofs, TLAPS

-----------------------------------------------------------------------------
(* Type correctness.                                                       *)

Steps == {"idle", "load", "clock", "stamp", "insert", "reprice", "write"}

\* pc has a step for every worker, and the rows can be counted and summed.
ThreadsOK ==
  /\ pc \in [Workers -> Steps]
  /\ req \in [Workers -> Request \union {NoRequest}]
  /\ \A w \in Workers : pc[w] \in StepsOf[req[w].op]

TablesOK ==
  /\ stored \in Row
  /\ solves \subseteq [id : Nat, team : Teams, challenge : Challenges, at : Time]
  /\ unlocks \subseteq [team : Teams, points : Nat, at : Time]
  /\ points \in [Challenges -> Int]
  /\ IsFiniteSet(solves) /\ IsFiniteSet(unlocks)

TypeInv ==
  /\ now \in Time
  /\ ThreadsOK
  /\ TablesOK
  /\ mem \in [Workers -> Memory]
  /\ early \in [Workers -> BOOLEAN]
  /\ ran \in [Workers -> BOOLEAN]

\* What a request of each kind has.
LEMMA RequestFields ==
  ASSUME NEW r \in Request
  PROVE  /\ r.op \in {"submit", "test", "unlock"} \union Controls
         /\ r.op \in {"submit", "test"} => r.team \in Teams /\ r.challenge \in Challenges
         /\ r.op = "unlock" => r.team \in Teams
BY DEF Request, Controls

\* A worker at a step of a kind of request serves a request.
LEMMA Serving ==
  ASSUME ThreadsOK, NEW w \in Workers, pc[w] # "idle"
  PROVE  req[w] \in Request /\ pc[w] \in StepsOf[req[w].op]
<1>1. req[w] \in Request \union {NoRequest} /\ pc[w] \in StepsOf[req[w].op]
  BY DEF ThreadsOK
<1>2. StepsOf[NoRequest.op] = {"idle"}
  BY DEF StepsOf, NoRequest
<1> QED BY <1>1, <1>2

LEMMA GotoThreads ==
  ASSUME ThreadsOK, NEW w \in Workers, NEW s \in Steps,
         s \in StepsOf[req[w].op], Goto(w, s)
  PROVE  ThreadsOK'
BY DEF ThreadsOK, Goto

LEMMA ReturnThreads ==
  ASSUME ThreadsOK, mem \in [Workers -> Memory], NEW w \in Workers, Return(w)
  PROVE  ThreadsOK' /\ mem' \in [Workers -> Memory]
<1>1. "idle" \in StepsOf[NoRequest.op]
  BY DEF StepsOf, NoRequest
<1>2. Blank \in Memory
  BY ConstantsAssumption DEF Blank, Memory, Time
<1> QED BY <1>1, <1>2 DEF ThreadsOK, Return, Steps

\* Every step of a request but the last is followed by another of its steps.
LEMMA StepsOfRequest ==
  ASSUME NEW r \in Request
  PROVE  /\ FirstStep(r.op) \in StepsOf[r.op]
         /\ "load" \in StepsOf[r.op] => "clock" \in StepsOf[r.op]
         /\ "clock" \in StepsOf[r.op] => "stamp" \in StepsOf[r.op]
         /\ (IF r.op \in Controls THEN "write" ELSE "insert") \in StepsOf[r.op]
         /\ r.op \in {"submit", "test"} => "reprice" \in StepsOf[r.op]
         /\ "reprice" \in StepsOf[r.op] => r.op \in {"submit", "test"}
         /\ "write" \in StepsOf[r.op] => r.op \in Controls
BY RequestFields DEF FirstStep, StepsOf, Controls
\* DynamicPoints of integers is an integer, and a count of solves a number.
LEMMA PriceType == ASSUME NEW c \in Challenges PROVE Price(c) \in Int
<1>1. IsFiniteSet({t \in Teams : <<t, c>> \in Pairs(solves)})
  BY ConstantsAssumption, FS_Subset
<1>2. SolveCount(Teams, Pairs(solves), c) \in Nat
  BY <1>1, FS_CardinalityType DEF SolveCount
<1>3. /\ Params[c].max \in Int /\ Params[c].min \in Int
      /\ Params[c].decay \in Int
  BY ConstantsAssumption
<1> HIDE DEF SolveCount
<1> QED BY <1>2, <1>3 DEF Price, DynamicPoints

\* What the controls make of the row.
LEMMA RowsType ==
  ASSUME NEW row \in Row, NEW at \in Time
  PROVE  /\ StartedRow(row, at) \in Row
         /\ EndedRow(row, at) \in Row
         /\ FrozenRow(row, at) \in Row
BY DEF StartedRow, EndedRow, FrozenRow, Row

\* What a request remembers has its type.
LEMMA RemembersType ==
  ASSUME mem \in [Workers -> Memory], NEW w \in Workers
  PROVE  /\ \A S \in SUBSET Time :
              mem' = [mem EXCEPT ![w].open = S] => mem' \in [Workers -> Memory]
         /\ \A t \in Time :
              mem' = [mem EXCEPT ![w].at = t] => mem' \in [Workers -> Memory]
         /\ mem' = [mem EXCEPT ![w] = Blank] => mem' \in [Workers -> Memory]
         /\ mem[w].at \in Time
<1>1. mem[w] \in [open : SUBSET Time, at : Time]
  BY DEF Memory
<1>2. Blank \in Memory
  BY ConstantsAssumption DEF Blank, Memory, Time
<1> QED BY <1>1, <1>2 DEF Memory

LEMMA InitType == Init => TypeInv
<1> SUFFICES ASSUME Init PROVE TypeInv
  OBVIOUS
<1>1. 0 \in Time /\ Blank \in Memory
  BY ConstantsAssumption DEF Blank, Memory, Time
<1>2. ThreadsOK
  BY DEF Init, ThreadsOK, Steps, StepsOf, NoRequest
<1>3. \A c \in Challenges : Params[c].max \in Int
  BY ConstantsAssumption
<1>4. TablesOK
  BY <1>3, FS_EmptySet DEF Init, TablesOK, Row, NoRow
<1> QED BY <1>1, <1>2, <1>4 DEF Init, TypeInv

\* Between two steps the history variables stay Boolean.
LEMMA HistoryType ==
  ASSUME TypeInv, Observe
  PROVE  early' \in [Workers -> BOOLEAN] /\ ran' \in [Workers -> BOOLEAN]
<1>1. \A w \in Workers :
         /\ (pc'[w] # "idle" /\ (early[w] \/ (pc[w] = "idle" /\ BeforeStart)))
              \in BOOLEAN
         /\ (pc'[w] # "idle" /\ (ran[w] \/ Running(stored', now'))) \in BOOLEAN
  OBVIOUS
<1> QED BY <1>1 DEF Observe
\* The tables, the threads and what they remember keep their types under each
\* step of a request.
LEMMA StepType ==
  ASSUME TypeInv, NEW w \in Workers, Step(w)
  PROVE  /\ now' = now /\ ThreadsOK' /\ TablesOK'
         /\ mem' \in [Workers -> Memory]
<1> USE DEF At
<1>1. /\ now \in Time /\ ThreadsOK /\ TablesOK /\ mem \in [Workers -> Memory]
  BY DEF TypeInv
<1>2. pc[w] # "idle" => req[w] \in Request /\ pc[w] \in StepsOf[req[w].op]
  BY <1>1, Serving
<1>3. CASE Load(w)
  <2>1. mem' \in [Workers -> Memory]
    <3>1. {t \in Time : Running(stored, t)} \in SUBSET Time
      OBVIOUS
    <3> QED BY <1>1, <1>3, <3>1, RemembersType DEF Load
  <2>2. ThreadsOK'
    <3>1. "clock" \in StepsOf[req[w].op]
      BY <1>2, <1>3, StepsOfRequest DEF Load
    <3> QED BY <1>1, <1>3, <3>1, GotoThreads DEF Load, Steps
  <2> QED BY <1>1, <1>3, <2>1, <2>2 DEF Load, TablesOK, tables
<1>4. CASE ReadClock(w)
  <2>1. "stamp" \in StepsOf[req[w].op]
    BY <1>2, <1>4, StepsOfRequest DEF ReadClock
  <2>2. ThreadsOK' /\ mem' \in [Workers -> Memory]
    BY <1>1, <1>4, <2>1, GotoThreads, ReturnThreads, RemembersType
       DEF ReadClock, Steps
  <2> QED BY <1>1, <1>4, <2>2 DEF ReadClock, TablesOK, tables
<1>5. CASE Stamp(w)
  <2>1. ThreadsOK' /\ mem' \in [Workers -> Memory]
    <3>1. CASE Return(w)
      BY <1>1, <3>1, ReturnThreads
    <3>2. CASE /\ mem' = [mem EXCEPT ![w].at = now]
               /\ Goto(w, IF req[w].op \in Controls THEN "write" ELSE "insert")
      <4> DEFINE next == IF req[w].op \in Controls THEN "write" ELSE "insert"
      <4>1. next \in StepsOf[req[w].op] /\ next \in Steps
        BY <1>2, <1>5, StepsOfRequest DEF Stamp, Steps
      <4>2. Goto(w, next)
        BY <3>2
      <4> HIDE DEF next
      <4>3. ThreadsOK'
        BY <1>1, <4>1, <4>2, GotoThreads
      <4> QED BY <1>1, <3>2, <4>3, RemembersType
    <3> QED BY <1>5, <3>1, <3>2 DEF Stamp
  <2> QED BY <1>1, <1>5, <2>1 DEF Stamp, TablesOK, tables
<1>6. CASE InsertSolve(w)
  <2>1. /\ req[w].op \in {"submit", "test"}
        /\ req[w].team \in Teams /\ req[w].challenge \in Challenges
    BY <1>2, <1>6, RequestFields DEF InsertSolve
  <2>2. ThreadsOK' /\ mem' \in [Workers -> Memory]
    <3>1. "reprice" \in StepsOf[req[w].op]
      BY <1>2, <1>6, <2>1, StepsOfRequest DEF InsertSolve
    <3> QED BY <1>1, <1>6, <3>1, GotoThreads, ReturnThreads, RemembersType
            DEF InsertSolve, Steps
  <2>3. TablesOK'
    <3> DEFINE row == [id |-> Cardinality(solves) + 1, team |-> req[w].team,
                       challenge |-> req[w].challenge, at |-> mem[w].at]
    <3>1. row \in [id : Nat, team : Teams, challenge : Challenges, at : Time]
      <4>1. Cardinality(solves) + 1 \in Nat
        BY <1>1, FS_CardinalityType DEF TablesOK
      <4> QED BY <1>1, <2>1, <4>1, RemembersType
    <3>2. solves' = solves \/ solves' = solves \union {row}
      BY <1>6 DEF InsertSolve
    <3> HIDE DEF row
    <3>3. IsFiniteSet(solves')
      BY <1>1, <3>2, FS_AddElement DEF TablesOK
    <3> QED BY <1>1, <1>6, <3>1, <3>2, <3>3 DEF InsertSolve, TablesOK
  <2> QED BY <1>6, <2>2, <2>3 DEF InsertSolve
<1>7. CASE InsertUnlock(w)
  <2>1. req[w].team \in Teams
    BY <1>2, <1>7, RequestFields DEF InsertUnlock
  <2>2. ThreadsOK' /\ mem' \in [Workers -> Memory]
    BY <1>1, <1>7, ReturnThreads DEF InsertUnlock
  <2>3. [team |-> req[w].team, points |-> HintCost, at |-> mem[w].at]
          \in [team : Teams, points : Nat, at : Time]
    BY <1>1, <2>1, RemembersType, ConstantsAssumption
  <2>4. IsFiniteSet(unlocks')
    <3>1. unlocks' = unlocks \/ \E u : unlocks' = unlocks \union {u}
      BY <1>7 DEF InsertUnlock
    <3> QED BY <1>1, <3>1, FS_AddElement DEF TablesOK
  <2> QED BY <1>1, <1>7, <2>2, <2>3, <2>4 DEF InsertUnlock, TablesOK
<1>8. CASE Reprice(w)
  <2>1. req[w].challenge \in Challenges
    BY <1>2, <1>8, RequestFields, StepsOfRequest DEF Reprice
  <2>2. ThreadsOK' /\ mem' \in [Workers -> Memory]
    BY <1>1, <1>8, ReturnThreads DEF Reprice
  <2>3. points' \in [Challenges -> Int]
    BY <1>1, <1>8, <2>1, PriceType DEF Reprice, TablesOK
  <2> QED BY <1>1, <1>8, <2>2, <2>3 DEF Reprice, TablesOK
<1>9. CASE WriteRow(w)
  <2>1. req[w].op \in Controls
    BY <1>2, <1>9, StepsOfRequest DEF WriteRow
  <2>2. ThreadsOK' /\ mem' \in [Workers -> Memory]
    BY <1>1, <1>9, ReturnThreads DEF WriteRow
  <2>3. mem[w].at \in Time
    BY <1>1, RemembersType
  <2>4. stored' \in Row
    BY <1>1, <1>9, <2>1, <2>3, RowsType DEF WriteRow, Controls, TablesOK
  <2> QED BY <1>1, <1>9, <2>2, <2>4 DEF WriteRow, TablesOK
<1> QED
  BY <1>3, <1>4, <1>5, <1>6, <1>7, <1>8, <1>9 DEF Step

LEMMA NextType == TypeInv /\ [Next]_vars => TypeInv'
<1> SUFFICES ASSUME TypeInv, [Next]_vars PROVE TypeInv'
  OBVIOUS
<1>1. CASE UNCHANGED vars
  BY <1>1 DEF TypeInv, ThreadsOK, TablesOK, vars, tables
<1>2. CASE Tick /\ Observe
  <2>1. now' \in Time
    BY <1>2, ConstantsAssumption DEF TypeInv, Tick, Time
  <2> QED BY <1>2, <2>1, HistoryType
          DEF Tick, TypeInv, ThreadsOK, TablesOK, tables
<1>3. ASSUME NEW w \in Workers, Accept(w), Observe PROVE TypeInv'
  <2>1. PICK r \in Request : /\ req' = [req EXCEPT ![w] = r]
                             /\ pc'  = [pc  EXCEPT ![w] = FirstStep(r.op)]
    BY <1>3 DEF Accept
  <2>2. FirstStep(r.op) \in StepsOf[r.op] /\ FirstStep(r.op) \in Steps
    BY StepsOfRequest DEF FirstStep, Steps
  <2>3. ThreadsOK'
    BY <2>1, <2>2 DEF TypeInv, ThreadsOK
  <2> QED BY <1>3, <2>3, HistoryType DEF Accept, TypeInv, TablesOK, tables
<1>4. ASSUME NEW w \in Workers, Step(w), Observe PROVE TypeInv'
  <2>1. early' \in [Workers -> BOOLEAN] /\ ran' \in [Workers -> BOOLEAN]
    BY <1>4, HistoryType
  <2>2. now' \in Time
    BY <1>4, StepType DEF TypeInv
  <2> QED BY <1>4, <2>1, <2>2, StepType DEF TypeInv
<1> QED BY <1>1, <1>2, <1>3, <1>4 DEF Next

LEMMA AlwaysTyped == Spec => []TypeInv
BY InitType, NextType, PTL DEF Spec

\* Every variable keeps its type: a solve is of a team and a challenge there
\* are, at a second the clock has shown, and no request leaves its handler.
THEOREM TypeCorrect == Spec => []TypeOK
<1>1. TypeInv => TypeOK
  BY DEF TypeInv, ThreadsOK, TablesOK, TypeOK
<1> QED BY <1>1, AlwaysTyped, PTL
-----------------------------------------------------------------------------
(* Nothing scores while the competition is not running.                    *)

\* A request under way while the configured start is still ahead came before
\* it.
EarlyKnown ==
  \A w \in Workers : pc[w] # "idle" /\ BeforeStart => early[w]

\* The row a player's request has read lets it pass at some later second only
\* if the competition has been running since it came, or will have been started
\* by the clock by then.
RowSound ==
  \A w \in Workers : pc[w] = "clock" =>
     \A t \in mem[w].open : now <= t =>
        ran[w] \/ (early[w] /\ ~(ConfigStart # Never /\ t < ConfigStart))

OutsideInv == TypeInv /\ EarlyKnown /\ RowSound /\ NothingScoresOutside

\* A row that means running at a later second but not now has not been started,
\* and the configured start lies between.
LEMMA OnlyTheStart ==
  ASSUME NEW row \in Row, NEW s \in Time, NEW t \in Time, s <= t,
         Running(row, t), ~Running(row, s)
  PROVE  /\ ConfigStart # Never /\ s < ConfigStart
         /\ ~(t < ConfigStart)
<1>1. s \in Int /\ t \in Int
  BY ConstantsAssumption DEF Time
<1>2. ~Ended(row, s)
  <2>1. CASE EndApplies(row)
    <3>1. ConfigEnd \in Int
      BY <2>1, ConstantsAssumption DEF EndApplies
    <3> QED BY <1>1, <3>1 DEF Running, Ended
  <2>2. CASE ~EndApplies(row)
    BY <2>2 DEF Running, Ended
  <2> QED BY <2>1, <2>2
<1>3. Started(row, t) /\ ~Started(row, s)
  BY <1>2 DEF Running
<1>4. ConfigStart # Never /\ ConfigStart <= t /\ ~(ConfigStart <= s)
  BY <1>3 DEF Started
<1>5. ConfigStart \in Int
  BY <1>4, ConstantsAssumption
<1> QED BY <1>1, <1>4, <1>5

LEMMA InitOutside == Init => OutsideInv
BY InitType DEF Init, OutsideInv, EarlyKnown, RowSound, NothingScoresOutside,
               NoRequest

\* What a step of w leaves to the other workers: their place, their request and
\* what they remember stay, and their histories only grow.
LEMMA OthersKeep ==
  ASSUME TypeInv, NEW w \in Workers, Accept(w) \/ Step(w), Observe,
         NEW v \in Workers \ {w}
  PROVE  /\ pc'[v] = pc[v] /\ req'[v] = req[v] /\ mem'[v] = mem[v]
         /\ pc[v] # "idle" => /\ early[v] => early'[v]
                              /\ ran[v] => ran'[v]
<1>1. pc'[v] = pc[v] /\ req'[v] = req[v] /\ mem'[v] = mem[v]
  BY DEF Accept, Step, Load, ReadClock, Stamp, InsertSolve, InsertUnlock,
         Reprice, WriteRow, Goto, Return, TypeInv, ThreadsOK
<1> QED BY <1>1 DEF Observe
\* What is asked of one worker.
WorkerOutside(w) ==
  /\ pc[w] # "idle" /\ BeforeStart => early[w]
  /\ pc[w] = "clock" =>
       \A t \in mem[w].open : now <= t =>
          ran[w] \/ (early[w] /\ ~(ConfigStart # Never /\ t < ConfigStart))
  /\ req[w].op \in {"submit", "unlock"} /\ pc[w] \in {"stamp", "insert"}
       => ran[w] \/ (early[w] /\ ~BeforeStart)

LEMMA ByWorker ==
  EarlyKnown /\ RowSound /\ NothingScoresOutside
    <=> \A w \in Workers : WorkerOutside(w)
BY DEF EarlyKnown, RowSound, NothingScoresOutside, WorkerOutside

\* The clock only moves on.
LEMMA TickOutside ==
  ASSUME OutsideInv, Tick, Observe, NEW w \in Workers
  PROVE  WorkerOutside(w)'
<1>1. now \in Int /\ now' = now + 1
  BY ConstantsAssumption DEF OutsideInv, TypeInv, Tick, Time
<1>2. BeforeStart' => BeforeStart
  <2>1. CASE ConfigStart = Never
    BY <2>1 DEF BeforeStart
  <2>2. CASE ConfigStart # Never
    BY <1>1, <2>2, ConstantsAssumption DEF BeforeStart
  <2> QED BY <2>1, <2>2
<1>3. WorkerOutside(w)
  BY ByWorker DEF OutsideInv
<1>4. /\ pc' = pc /\ req' = req /\ mem' = mem
      /\ pc[w] # "idle" => /\ early[w] => early'[w]
                           /\ ran[w] => ran'[w]
  BY DEF Tick, Observe
<1>5. \A t \in mem[w].open : t \in Int
  BY DEF OutsideInv, TypeInv, Memory, Time
<1>6. pc[w] = "clock" =>
         \A t \in mem[w].open : now' <= t =>
            ran'[w] \/ (early'[w] /\ ~(ConfigStart # Never /\ t < ConfigStart))
  BY <1>1, <1>3, <1>4, <1>5 DEF WorkerOutside
<1> QED BY <1>2, <1>3, <1>4, <1>6 DEF WorkerOutside

\* A worker whose place, request and memory a step leaves alone.
LEMMA OtherOutside ==
  ASSUME OutsideInv, NEW w \in Workers, Accept(w) \/ Step(w), Observe,
         now' = now, NEW v \in Workers \ {w}
  PROVE  WorkerOutside(v)'
<1>1. WorkerOutside(v)
  BY ByWorker DEF OutsideInv
<1>2. BeforeStart' = BeforeStart
  BY DEF BeforeStart
<1>3. /\ pc'[v] = pc[v] /\ req'[v] = req[v] /\ mem'[v] = mem[v]
      /\ pc[v] # "idle" => /\ early[v] => early'[v]
                           /\ ran[v] => ran'[v]
  BY OthersKeep DEF OutsideInv
<1> QED BY <1>1, <1>2, <1>3 DEF WorkerOutside

\* The worker itself: it has its history from when it was accepted, its row from
\* Load, its leave to go on from ReadClock.
LEMMA OwnOutside ==
  ASSUME OutsideInv, NEW w \in Workers, Accept(w) \/ Step(w), Observe,
         now' = now
  PROVE  WorkerOutside(w)'
<1> USE DEF At
<1>1. /\ TypeInv /\ WorkerOutside(w)
      /\ now \in Time /\ pc \in [Workers -> Steps]
      /\ req \in [Workers -> Request \union {NoRequest}]
      /\ mem \in [Workers -> Memory]
  BY ByWorker DEF OutsideInv, TypeInv, ThreadsOK
<1>2. BeforeStart' = BeforeStart
  BY DEF BeforeStart
<1>3. pc'[w] # "idle" =>
        /\ early'[w] <=> early[w] \/ (pc[w] = "idle" /\ BeforeStart)
        /\ ran'[w] <=> ran[w] \/ Running(stored', now')
  BY DEF Observe
<1>4. CASE Accept(w)
  <2>1. PICK r \in Request : /\ req' = [req EXCEPT ![w] = r]
                             /\ pc'  = [pc  EXCEPT ![w] = FirstStep(r.op)]
    BY <1>4 DEF Accept
  <2>2. pc'[w] # "clock" /\ (r.op \in {"submit", "unlock"} => pc'[w] = "load")
    BY <1>1, <2>1 DEF FirstStep
  <2>3. req'[w] = r /\ pc[w] = "idle"
    BY <1>1, <1>4, <2>1 DEF Accept
  <2> QED BY <1>2, <1>3, <2>2, <2>3 DEF WorkerOutside
<1>5. CASE Load(w)
  <2>1. /\ pc[w] = "load" /\ pc'[w] = "clock" /\ stored' = stored
        /\ mem'[w].open = {t \in Time : Running(stored, t)}
    <3>1. mem[w] \in [open : SUBSET Time, at : Time]
      BY <1>1 DEF Memory
    <3> QED BY <1>1, <1>5, <3>1 DEF Load, Goto, tables
  <2>2. ASSUME NEW t \in mem'[w].open, now <= t, ~ran'[w]
        PROVE  early'[w] /\ ~(ConfigStart # Never /\ t < ConfigStart)
    <3>1. t \in Time /\ Running(stored, t) /\ ~Running(stored, now)
      BY <1>3, <2>1, <2>2
    <3>2. stored \in Row
      BY <1>1 DEF TypeInv, TablesOK
    <3>3. BeforeStart /\ ~(ConfigStart # Never /\ t < ConfigStart)
      BY <1>1, <2>2, <3>1, <3>2, OnlyTheStart DEF BeforeStart
    <3> QED BY <1>1, <1>3, <2>1, <3>3 DEF WorkerOutside
  <2> QED BY <1>1, <1>2, <1>3, <2>1, <2>2 DEF WorkerOutside
<1>6. CASE ReadClock(w)
  <2>1. CASE now \in mem[w].open
    <3>1. pc[w] = "clock" /\ pc'[w] = "stamp" /\ req' = req
      BY <1>1, <1>6, <2>1 DEF ReadClock, Goto
    <3>2. ran[w] \/ (early[w] /\ ~BeforeStart)
      <4>1. now <= now
        BY <1>1, ConstantsAssumption DEF Time
      <4>2. ran[w] \/ (early[w] /\ ~(ConfigStart # Never /\ now < ConfigStart))
        BY <1>1, <2>1, <3>1, <4>1, Zenon DEF WorkerOutside
      <4> QED BY <4>2, Zenon DEF BeforeStart
    <3> QED BY <1>1, <1>2, <1>3, <3>1, <3>2 DEF WorkerOutside
  <2>2. CASE now \notin mem[w].open
    <3>1. pc'[w] = "idle"
      BY <1>1, <1>6, <2>2 DEF ReadClock, Return
    <3> QED BY <3>1 DEF WorkerOutside
  <2> QED BY <2>1, <2>2
<1>7. CASE Stamp(w)
  <2>1. CASE Return(w)
    <3>1. pc'[w] = "idle"
      BY <1>1, <2>1 DEF Return
    <3> QED BY <3>1 DEF WorkerOutside
  <2>2. CASE ~Return(w)
    <3>1. /\ pc[w] = "stamp" /\ pc'[w] \in {"write", "insert"} /\ req' = req
      BY <1>1, <1>7, <2>2 DEF Stamp, Goto
    <3> QED BY <1>1, <1>2, <1>3, <3>1 DEF WorkerOutside
  <2> QED BY <2>1, <2>2
<1>8. CASE InsertSolve(w)
  <2>1. pc[w] = "insert" /\ pc'[w] \in {"idle", "reprice"}
    BY <1>1, <1>8 DEF InsertSolve, Return, Goto
  <2> QED BY <1>1, <1>2, <1>3, <2>1 DEF WorkerOutside
<1>9. CASE InsertUnlock(w) \/ Reprice(w) \/ WriteRow(w)
  <2>1. pc'[w] = "idle"
    BY <1>1, <1>9 DEF InsertUnlock, Reprice, WriteRow, Return
  <2> QED BY <2>1 DEF WorkerOutside
<1> QED
  BY <1>4, <1>5, <1>6, <1>7, <1>8, <1>9 DEF Step

LEMMA NextOutside == OutsideInv /\ [Next]_vars => OutsideInv'
<1> SUFFICES ASSUME OutsideInv, [Next]_vars PROVE OutsideInv'
  OBVIOUS
<1>1. TypeInv'
  BY NextType DEF OutsideInv
<1>2. \A w \in Workers : WorkerOutside(w)'
  <2>1. CASE UNCHANGED vars
    BY <2>1, ByWorker
       DEF OutsideInv, WorkerOutside, BeforeStart, vars
  <2>2. CASE Tick /\ Observe
    BY <2>2, TickOutside
  <2>3. ASSUME NEW w \in Workers, Accept(w) \/ Step(w), Observe
        PROVE  \A v \in Workers : WorkerOutside(v)'
    <3>1. now' = now
      BY <2>3, StepType DEF Accept, OutsideInv
    <3> QED BY <2>3, <3>1, OtherOutside, OwnOutside
  <2> QED BY <2>1, <2>2, <2>3 DEF Next
<1>3. (\A w \in Workers : WorkerOutside(w))'
      => (EarlyKnown /\ RowSound /\ NothingScoresOutside)'
  BY ByWorker, PTL
<1> QED BY <1>1, <1>2, <1>3 DEF OutsideInv

\* Players' flags and hints count only while the competition runs: whoever is
\* about to insert one was let through by a row and a second that were those of
\* a running competition since the request came, except where the configured
\* start fell between the two readings.
THEOREM ScoresOnlyInside == Spec => []NothingScoresOutside
<1>1. Init => OutsideInv
  BY InitOutside
<1>2. OutsideInv => NothingScoresOutside
  BY DEF OutsideInv
<1> QED BY <1>1, <1>2, NextOutside, PTL DEF Spec
-----------------------------------------------------------------------------
(* The freeze.                                                             *)

\* The smaller of two integers, and the one of one.
LEMMA MinOfTwo ==
  ASSUME NEW a \in Int, NEW b \in Int
  PROVE  /\ Min({a}) = a
         /\ Min({a, b}) \in {a, b}
         /\ Min({a, b}) <= a /\ Min({a, b}) <= b
<1>1. a <= b \/ b <= a
  OBVIOUS
<1>2. \E x \in {a, b} : \A y \in {a, b} : x <= y
  BY <1>1
<1> QED BY <1>2 DEF Min

\* The configured freeze, where there is one.
Configured(row) ==
  IF EndApplies(row) /\ FreezeBefore > 0 THEN {ConfigEnd - FreezeBefore} ELSE {}

\* The freeze of a row is the earlier of the configured one and the ordered
\* one; it is there if either is.
LEMMA FrozenAtIs ==
  ASSUME NEW row \in Row
  PROVE  /\ FrozenAt(row) = Never \/ FrozenAt(row) \in Int
         /\ FrozenAt(row) = Never
              <=> Configured(row) = {} /\ row.frozen = Never
         /\ FrozenAt(row) # Never =>
              /\ FrozenAt(row) \in Configured(row) \union {row.frozen}
              /\ row.frozen # Never => FrozenAt(row) <= row.frozen
              /\ \A c \in Configured(row) : FrozenAt(row) <= c
<1> DEFINE ordered == {row.frozen} \ {Never}
<1>1. FrozenAt(row) = IF Configured(row) \union ordered = {} THEN Never
                      ELSE Min(Configured(row) \union ordered)
  BY DEF FrozenAt, Configured
<1>2. row.frozen = Never \/ row.frozen \in Int
  BY ConstantsAssumption DEF Row, Time
<1>3. Configured(row) = {} \/ \E c \in Int : Configured(row) = {c}
  <2>1. CASE EndApplies(row) /\ FreezeBefore > 0
    <3>1. ConfigEnd - FreezeBefore \in Int
      BY <2>1, ConstantsAssumption DEF EndApplies
    <3> QED BY <2>1, <3>1 DEF Configured
  <2>2. CASE ~(EndApplies(row) /\ FreezeBefore > 0)
    BY <2>2 DEF Configured
  <2> QED BY <2>1, <2>2
<1>4. Never \notin Int
  BY ConstantsAssumption
<1>5. CASE Configured(row) = {} /\ row.frozen = Never
  BY <1>1, <1>5
<1>6. CASE Configured(row) = {} /\ row.frozen # Never
  <2>1. row.frozen \in Int /\ Configured(row) \union ordered = {row.frozen}
    BY <1>2, <1>6
  <2>2. FrozenAt(row) = row.frozen
    BY <1>1, <2>1, MinOfTwo
  <2> QED BY <1>4, <1>6, <2>1, <2>2
<1>7. CASE Configured(row) # {} /\ row.frozen = Never
  <2>1. PICK c \in Int : Configured(row) = {c}
    BY <1>3, <1>7
  <2>2. FrozenAt(row) = c
    BY <1>1, <1>7, <2>1, MinOfTwo
  <2> QED BY <1>4, <1>7, <2>1, <2>2
<1>8. CASE Configured(row) # {} /\ row.frozen # Never
  <2>1. PICK c \in Int : Configured(row) = {c}
    BY <1>3, <1>8
  <2>2. row.frozen \in Int /\ Configured(row) \union ordered = {c, row.frozen}
    BY <1>2, <1>8, <2>1
  <2>3. FrozenAt(row) = Min({c, row.frozen})
    BY <1>1, <2>2
  <2>4. /\ FrozenAt(row) \in {c, row.frozen}
        /\ FrozenAt(row) <= c /\ FrozenAt(row) <= row.frozen
    <3>1. \A d \in Int : /\ Min({c, d}) \in {c, d}
                          /\ Min({c, d}) <= c /\ Min({c, d}) <= d
      BY MinOfTwo
    <3> QED BY <2>2, <2>3, <3>1
  <2> QED BY <1>4, <1>8, <2>1, <2>2, <2>4
<1> QED BY <1>5, <1>6, <1>7, <1>8

\* A row with the same start, and a freeze that is no later, has a freeze that
\* is no later.
LEMMA NoLater ==
  ASSUME NEW row \in Row, NEW new \in Row,
         new.started = row.started,
         row.frozen # Never => new.frozen # Never /\ new.frozen <= row.frozen,
         FrozenAt(row) # Never
  PROVE  FrozenAt(new) # Never /\ FrozenAt(new) <= FrozenAt(row)
<1>1. Configured(new) = Configured(row)
  BY DEF Configured, EndApplies
<1>2. FrozenAt(new) # Never
  BY <1>1, FrozenAtIs
<1>3. /\ FrozenAt(new) \in Int /\ FrozenAt(row) \in Int
      /\ row.frozen # Never => row.frozen \in Int /\ new.frozen \in Int
  BY <1>2, FrozenAtIs, ConstantsAssumption DEF Row, Time
<1>4. CASE FrozenAt(row) \in Configured(row)
  BY <1>1, <1>2, <1>4, FrozenAtIs
<1>5. CASE FrozenAt(row) = row.frozen
  BY <1>2, <1>3, <1>5, FrozenAtIs
<1> QED BY <1>4, <1>5, FrozenAtIs

\* The controls other than a start leave the start alone, and never lift or put
\* off an ordered freeze.
LEMMA ControlsKeepFreeze ==
  ASSUME NEW row \in Row, NEW at \in Time,
         NEW new, new = EndedRow(row, at) \/ new = FrozenRow(row, at)
  PROVE  /\ new \in Row /\ new.started = row.started
         /\ row.frozen # Never => new.frozen # Never /\ new.frozen <= row.frozen
<1>1. new \in Row
  BY RowsType
<1>2. row.frozen # Never => new.frozen = row.frozen /\ row.frozen \in Int
  BY ConstantsAssumption DEF EndedRow, FrozenRow, Row, Time
<1>3. new.started = row.started
  BY DEF EndedRow, FrozenRow, Row
<1> QED BY <1>1, <1>2, <1>3

\* Whatever happens, the row is left alone or written by one of the controls.
LEMMA RowWriter ==
  ASSUME TypeInv, [Next]_vars
  PROVE  stored' = stored \/ \E w \in Workers : WriteRow(w)
BY DEF Next, vars, tables, Tick, Accept, Step, Load, ReadClock, Stamp,
       InsertSolve, InsertUnlock, Reprice

\* Of the freeze only a start is able to make it later or to lift it: the public
\* never gets back to see what a freeze has hidden.
THEOREM FreezeStays == Spec => FreezeNeverMovesLater
<1>1. ASSUME TypeInv, [Next]_vars, FrozenAt(stored) # Never, ~Starting
      PROVE  FrozenAt(stored') # Never /\ FrozenAt(stored') <= FrozenAt(stored)
  <2>1. stored \in Row
    BY <1>1 DEF TypeInv, TablesOK
  <2>2. CASE stored' = stored
    <3>1. FrozenAt(stored) \in Int
      BY <1>1, <2>1, FrozenAtIs
    <3> QED BY <1>1, <2>2, <3>1
  <2>3. ASSUME NEW w \in Workers, WriteRow(w)
        PROVE  FrozenAt(stored') # Never /\ FrozenAt(stored') <= FrozenAt(stored)
    <3>1. mem[w].at \in Time
      BY <1>1, RemembersType DEF TypeInv
    <3>2. req[w].op # "start"
      <4>1. pc'[w] = "idle"
        BY <1>1, <2>3 DEF WriteRow, Return, TypeInv, ThreadsOK
      <4> QED BY <1>1, <2>3, <4>1 DEF WriteRow, Starting
    <3>3. req[w].op \in Controls
      BY <1>1, <2>3, Serving, StepsOfRequest DEF WriteRow, TypeInv, At
    <3>4. \/ stored' = EndedRow(stored, mem[w].at)
          \/ stored' = FrozenRow(stored, mem[w].at)
      BY <2>3, <3>2, <3>3 DEF WriteRow, Controls
    <3> QED BY <1>1, <2>1, <3>1, <3>4, ControlsKeepFreeze, NoLater
  <2> QED BY <1>1, <2>2, <2>3, RowWriter
<1> QED BY <1>1, AlwaysTyped, PTL DEF Spec, FreezeNeverMovesLater
\* A solve or unlock that is inserted has the second its request stamped, so
\* that only a request stamped by then can add to what is settled.
LEMMA InsertsAreLater ==
  ASSUME TypeInv, [Next]_vars, NEW at, ~Straddles(at)
  PROVE  Until(solves', at) = Until(solves, at)
           /\ Until(unlocks', at) = Until(unlocks, at)
<1>1. ASSUME NEW w \in Workers, InsertSolve(w)
      PROVE  Until(solves', at) = Until(solves, at) /\ unlocks' = unlocks
  <2>1. ~(mem[w].at <= at)
    BY <1>1 DEF InsertSolve, Straddles
  <2>2. \/ solves' = solves
        \/ \E id, t, c : solves' = solves \union
              {[id |-> id, team |-> t, challenge |-> c, at |-> mem[w].at]}
    BY <1>1 DEF InsertSolve
  <2> QED BY <1>1, <2>1, <2>2 DEF InsertSolve, Until
<1>2. ASSUME NEW w \in Workers, InsertUnlock(w)
      PROVE  Until(unlocks', at) = Until(unlocks, at) /\ solves' = solves
  <2>1. ~(mem[w].at <= at)
    BY <1>2 DEF InsertUnlock, Straddles
  <2>2. \/ unlocks' = unlocks
        \/ \E t, p : unlocks' = unlocks \union
              {[team |-> t, points |-> p, at |-> mem[w].at]}
    BY <1>2 DEF InsertUnlock
  <2> QED BY <1>2, <2>1, <2>2 DEF InsertUnlock, Until
<1>3. \/ \E w \in Workers : InsertSolve(w) \/ InsertUnlock(w)
      \/ solves' = solves /\ unlocks' = unlocks
  BY DEF Next, vars, tables, Tick, Accept, Step, Load, ReadClock, Stamp,
         Reprice, WriteRow
<1> QED BY <1>1, <1>2, <1>3

\* What the public sees of a frozen competition is settled: with the prices
\* unchanged no step changes the frozen board or a profile as of the freeze,
\* once no request stamped by then is left to insert.
THEOREM FrozenViewsStay == Spec => FrozenViewsSettle
<1>1. ASSUME TypeInv, [Next]_vars, NEW at, at = FrozenAt(stored),
             FrozenAt(stored)' = at, ~Straddles(at), points' = points,
             NEW t \in Teams
      PROVE  FrozenProfile(t, FrozenAt(stored))' = FrozenProfile(t, at)
  <2>1. Until(solves', at) = Until(solves, at)
          /\ Until(unlocks', at) = Until(unlocks, at)
    BY <1>1, InsertsAreLater
  <2>2. BoardAsOf(FrozenAt(stored))' = BoardAsOf(at)
    BY <1>1, <2>1 DEF BoardAsOf, ChargesUntil
  <2>3. /\ Until(SolveHistory(t)', at) = Until(SolveHistory(t), at)
        /\ Until(HintHistory(t)', at) = Until(HintHistory(t), at)
    <3>1. Until({s \in solves' : s.team = t}, at)
            = Until({s \in solves : s.team = t}, at)
      BY <2>1 DEF Until
    <3>2. Until({u \in unlocks' : u.team = t}, at)
            = Until({u \in unlocks : u.team = t}, at)
      BY <2>1 DEF Until
    <3> QED BY <3>1, <3>2 DEF SolveHistory, HintHistory
  <2> QED BY <1>1, <2>2, <2>3 DEF FrozenProfile
<1>2. TypeInv /\ [Next]_vars =>
        LET at == FrozenAt(stored)
        IN  /\ at # Never /\ at < now /\ ~Straddles(at)
            /\ FrozenAt(stored') = at /\ points' = points
            => \A t \in Teams : FrozenProfile(t, at)' = FrozenProfile(t, at)
  BY <1>1
<1> QED BY <1>2, AlwaysTyped, PTL DEF Spec, FrozenViewsSettle
-----------------------------------------------------------------------------
(* Ranks.                                                                  *)

Standings == [score : Int, last : Time \union {Never}]

\* Every team has a standing on the frozen board.
LEMMA BoardType ==
  ASSUME TypeInv, NEW at, NEW t \in Teams
  PROVE  BoardAsOf(at)[t] \in Standings
<1> DEFINE past  == Until(solves, at)
           score == TotalOf(t, Challenges, points, Pairs(past),
                            ChargesUntil(at), {})
<1>1. score \in Int
  <2>1. IsFiniteSet(ChargesUntil(at)) /\ IsFiniteSet(Challenges)
    <3>1. ChargesUntil(at) \in SUBSET unlocks /\ IsFiniteSet(unlocks)
      BY DEF ChargesUntil, Until, TypeInv, TablesOK
    <3> QED BY <3>1, ConstantsAssumption, FS_Subset
  <2>2. \A u \in ChargesUntil(at) : u.points \in Int
    BY DEF ChargesUntil, Until, TypeInv, TablesOK
  <2>3. \A c \in Challenges : points[c] \in Int
    BY DEF TypeInv, TablesOK
  <2> HIDE DEF past
  <2> QED BY <2>1, <2>2, <2>3, TotalType
<1>2. CASE Stamps(t, past) = {}
  <2>1. BoardAsOf(at)[t] = [score |-> score, last |-> Never]
    BY <1>2 DEF BoardAsOf
  <2> HIDE DEF score
  <2> QED BY <1>1, <2>1 DEF Standings
<1>3. CASE Stamps(t, past) # {}
  <2>1. Stamps(t, past) \in SUBSET Time
    BY DEF Stamps, Until, TypeInv, TablesOK
  <2>2. IsFiniteSet(Time) /\ \A x \in Time : x \in Int
    BY ConstantsAssumption, FS_Interval DEF Time
  <2>3. IsFiniteSet(Stamps(t, past))
    BY <2>1, <2>2, FS_Subset
  <2>4. Max(Stamps(t, past)) \in Time
    BY <1>3, <2>1, <2>2, <2>3, MaxIn
  <2>5. BoardAsOf(at)[t] = [score |-> score,
                            last  |-> Max(Stamps(t, past))]
    BY <1>3 DEF BoardAsOf
  <2> HIDE DEF score, past
  <2> QED BY <1>1, <2>4, <2>5 DEF Standings
<1> QED BY <1>2, <1>3

\* The order of the board: no standing comes before itself, of two different
\* ones one comes first, and what comes before another comes before or after any
\* third.
LEMMA BoardOrder ==
  /\ \A a \in Standings : ~Before(a, a)
  /\ \A a, b \in Standings : SameStanding(a, b) \/ Before(a, b) \/ Before(b, a)
  /\ \A a, b, c \in Standings : ~Before(b, a) /\ Before(b, c) => Before(a, c)
  /\ \A a, b, c \in Standings : SameStanding(a, b) => (Before(c, a) <=> Before(c, b))
<1>1. \A a \in Standings : /\ a.score \in Int
                           /\ a.last = Never \/ a.last \in Int
  BY ConstantsAssumption DEF Standings, Time
<1>2. Never \notin Int
  BY ConstantsAssumption
<1>3. ASSUME NEW a \in Standings PROVE ~Before(a, a)
  BY <1>1, <1>2 DEF Before
<1>4. ASSUME NEW a \in Standings, NEW b \in Standings
      PROVE  SameStanding(a, b) \/ Before(a, b) \/ Before(b, a)
  BY <1>1, <1>2 DEF Before, SameStanding
<1>5. ASSUME NEW a \in Standings, NEW b \in Standings, NEW c \in Standings,
             ~Before(b, a), Before(b, c)
      PROVE  Before(a, c)
  BY <1>1, <1>2, <1>5 DEF Before
<1>6. ASSUME NEW a \in Standings, NEW b \in Standings, NEW c \in Standings,
             SameStanding(a, b)
      PROVE  Before(c, a) <=> Before(c, b)
  BY <1>6 DEF Before, SameStanding
<1> QED BY <1>3, <1>4, <1>5, <1>6

\* A list that has every team once, and the first i of it.
LEMMA ListOfTeams ==
  ASSUME NEW order \in SetToSeqs(Teams)
  PROVE  /\ Len(order) = Cardinality(Teams) /\ Len(order) \in Nat
         /\ order \in [1 .. Len(order) -> Teams]
         /\ \A i, j \in 1 .. Len(order) : i # j => order[i] # order[j]
         /\ \A t \in Teams : \E i \in 1 .. Len(order) : order[i] = t
         /\ \A i \in 1 .. Len(order) :
               Cardinality({order[j] : j \in 1 .. i - 1}) = i - 1
<1> DEFINE n == Cardinality(Teams)
<1>1. n \in Nat
  BY ConstantsAssumption, FS_CardinalityType
<1>2. /\ order \in [1 .. n -> Teams]
      /\ \A i, j \in 1 .. n : i # j => order[i] # order[j]
  BY DEF SetToSeqs
<1>3. Len(order) = n
  BY <1>1, <1>2
<1>4. \A t \in Teams : \E i \in 1 .. n : order[i] = t
  <2>1. order \in Injection(1 .. n, Teams)
    BY <1>2 DEF Injection, IsInjective
  <2>2. Cardinality(1 .. n) = n
    <3>1. 1 \in Int /\ n \in Int
      BY <1>1
    <3> HIDE DEF n
    <3>2. Cardinality(1 .. n) = IF 1 > n THEN 0 ELSE n - 1 + 1
      BY <3>1, FS_Interval
    <3> QED BY <1>1, <3>2
  <2>3. order \in Surjection(1 .. n, Teams)
    BY <2>1, <2>2, ConstantsAssumption, FS_Injection
  <2> QED BY <2>3 DEF Surjection
<1>5. ASSUME NEW i \in 1 .. n
      PROVE  Cardinality({order[j] : j \in 1 .. i - 1}) = i - 1
  <2> DEFINE T == {order[j] : j \in 1 .. i - 1}
             f == [j \in 1 .. i - 1 |-> order[j]]
  <2>1. 1 .. i - 1 \subseteq 1 .. n /\ i - 1 \in Nat
    BY <1>1
  <2>2. f \in Bijection(1 .. i - 1, T)
    BY <1>2, <2>1 DEF Bijection, Injection, Surjection, IsInjective
  <2>3. ExistsBijection(1 .. i - 1, T)
    BY <2>2 DEF ExistsBijection
  <2> HIDE DEF T
  <2> QED BY <2>1, <2>3, FS_CountingElements DEF T
<1> QED BY <1>1, <1>2, <1>3, <1>4, <1>5
\* The recursion of `ranked` over a list of standings has one solution.
IsRank(rank, rows) ==
  rank = [i \in 1 .. Len(rows) |->
            IF i = 1 THEN 1
            ELSE IF SameStanding(rows[i], rows[i - 1]) THEN rank[i - 1] ELSE i]

LEMMA RankUnique ==
  ASSUME NEW rows, Len(rows) \in Nat,
         NEW g, IsRank(g, rows), NEW h, IsRank(h, rows)
  PROVE  g = h
<1> DEFINE Bad == {i \in 1 .. Len(rows) : g[i] # h[i]}
<1>1. Bad = {}
  <2> SUFFICES ASSUME Bad # {} PROVE FALSE
    OBVIOUS
  <2>1. Bad \in SUBSET Nat
    OBVIOUS
  <2>2. PICK i \in Bad : \A k \in Bad : i <= k
    <3> HIDE DEF Bad
    <3> QED BY <2>1, Least
  <2>3. CASE i = 1
    BY <2>2, <2>3 DEF IsRank
  <2>4. CASE i # 1
    <3>1. i - 1 \in 1 .. Len(rows) /\ i - 1 \notin Bad
      BY <2>1, <2>2, <2>4
    <3>2. g[i - 1] = h[i - 1]
      BY <3>1
    <3>3. i \in 1 .. Len(rows)
      OBVIOUS
    <3>4. /\ g[i] = IF SameStanding(rows[i], rows[i - 1]) THEN g[i - 1] ELSE i
          /\ h[i] = IF SameStanding(rows[i], rows[i - 1]) THEN h[i - 1] ELSE i
      BY <2>4, <3>3 DEF IsRank
    <3> QED BY <3>2, <3>3, <3>4
  <2> QED BY <2>3, <2>4
<1>2. \A i \in 1 .. Len(rows) : g[i] = h[i]
  BY <1>1
<1>3. /\ g = [i \in 1 .. Len(rows) |-> g[i]]
      /\ h = [i \in 1 .. Len(rows) |-> h[i]]
  BY DEF IsRank
<1> QED BY <1>2, <1>3

\* In a sorted list of all the teams, one more than the number of teams that
\* come before it solves the recursion, and so is each row's rank.
LEMMA RanksInSortedList ==
  ASSUME NEW board, \A t \in Teams : board[t] \in Standings,
         NEW order \in Listings(board), NEW rows,
         Len(rows) = Len(order),
         \A i \in 1 .. Len(order) : rows[i] = board[order[i]]
  PROVE  \A i \in 1 .. Len(order) :
            Ranked(rows)[i]
              = 1 + Cardinality({t \in Teams : Before(board[t], board[order[i]])})
<1> DEFINE n        == Len(order)
           Ahead(i) == {t \in Teams : Before(board[t], board[order[i]])}
           first    == [i \in 1 .. n |-> 1 + Cardinality(Ahead(i))]
<1>1. /\ order \in SetToSeqs(Teams)
      /\ \A i, j \in 1 .. n : i < j => ~Before(board[order[j]], board[order[i]])
  BY DEF Listings
<1>2. /\ n \in Nat /\ order \in [1 .. n -> Teams]
      /\ \A i, j \in 1 .. n : i # j => order[i] # order[j]
      /\ \A t \in Teams : \E i \in 1 .. n : order[i] = t
      /\ \A i \in 1 .. n : Cardinality({order[j] : j \in 1 .. i - 1}) = i - 1
  BY <1>1, ListOfTeams
<1>3. Len(rows) = n /\ \A i \in 1 .. n : rows[i] = board[order[i]]
  OBVIOUS
<1> HIDE DEF n
<1>4. \A i \in 1 .. n : board[order[i]] \in Standings
  BY <1>2
<1>5. ASSUME NEW i \in 1 .. n
      PROVE  Ahead(i) \subseteq {order[j] : j \in 1 .. i - 1}
  <2> SUFFICES ASSUME NEW t \in Ahead(i)
               PROVE  \E j \in 1 .. i - 1 : order[j] = t
    OBVIOUS
  <2>1. PICK j \in 1 .. n : order[j] = t
    BY <1>2
  <2>2. j # i
    BY <1>4, <2>1, BoardOrder
  <2>3. ~(i < j)
    BY <1>1, <2>1 DEF n
  <2> QED BY <1>2, <2>1, <2>2, <2>3
<1>6. ASSUME NEW i \in 1 .. n, i = 1
      PROVE  first[i] = 1
  <2>1. Ahead(i) = {}
    BY <1>5, <1>6
  <2>2. Cardinality({}) = 0
    BY FS_EmptySet
  <2>3. Cardinality(Ahead(i)) = 0
    BY <2>1, <2>2
  <2> QED BY <2>3
<1>7. ASSUME NEW i \in 1 .. n, i # 1, SameStanding(rows[i], rows[i - 1])
      PROVE  first[i] = first[i - 1]
  <2>1. i - 1 \in 1 .. n
    BY <1>2, <1>7
  <2>2. Ahead(i) = Ahead(i - 1)
    BY <1>3, <1>4, <1>7, <2>1, BoardOrder
  <2> QED BY <2>1, <2>2
<1>8. ASSUME NEW i \in 1 .. n, i # 1, ~SameStanding(rows[i], rows[i - 1])
      PROVE  first[i] = i
  <2>1. i - 1 \in 1 .. n /\ i - 1 < i
    BY <1>2, <1>8
  <2>2. Before(board[order[i - 1]], board[order[i]])
    <3>1. ~Before(board[order[i]], board[order[i - 1]])
      BY <1>1, <2>1 DEF n
    <3>2. ~SameStanding(board[order[i]], board[order[i - 1]])
      BY <1>3, <1>8, <2>1
    <3> QED BY <1>4, <2>1, <3>1, <3>2, BoardOrder
  <2>3. ASSUME NEW j \in 1 .. i - 1
        PROVE  order[j] \in Ahead(i)
    <3>1. j \in 1 .. n /\ (j = i - 1 \/ j < i - 1)
      BY <1>2
    <3>2. CASE j < i - 1
      <4>1. ~Before(board[order[i - 1]], board[order[j]])
        BY <1>1, <2>1, <3>1, <3>2 DEF n
      <4>2. Before(board[order[j]], board[order[i]])
        BY <1>4, <2>1, <2>2, <3>1, <4>1, BoardOrder
      <4> QED BY <1>2, <3>1, <4>2
    <3> QED BY <1>2, <2>1, <2>2, <3>1, <3>2
  <2>4. Ahead(i) = {order[j] : j \in 1 .. i - 1}
    BY <1>5, <2>3
  <2>5. Cardinality(Ahead(i)) = i - 1
    BY <1>2, <2>4
  <2> QED BY <1>2, <2>5
<1> DEFINE rank == CHOOSE r : IsRank(r, rows)
<1>9. IsRank(first, rows)
  <2>1. ASSUME NEW i \in 1 .. n
        PROVE  first[i] = IF i = 1 THEN 1
                          ELSE IF SameStanding(rows[i], rows[i - 1])
                               THEN first[i - 1] ELSE i
    BY <1>6, <1>7, <1>8
  <2>2. first = [i \in 1 .. n |-> first[i]]
    OBVIOUS
  <2> HIDE DEF first
  <2> QED BY <1>3, <2>1, <2>2 DEF IsRank
<1>10. IsRank(rank, rows)
  BY <1>9
<1>11. Ranked(rows) = rank
  BY DEF Ranked, IsRank
<1> HIDE DEF rank, first
<1>12. rank = first
  BY <1>2, <1>3, <1>9, <1>10, RankUnique
<1> QED BY <1>11, <1>12 DEF first, n

\* Ranks do not depend on the order in which equal rows come out: whatever list
\* the database returns for the frozen board, a team's rank is one more than the
\* number of teams placed before it.
THEOREM RanksFair == Spec => []RanksAreStandings
<1>1. ASSUME TypeInv PROVE RanksAreStandings
  <2> DEFINE board       == BoardAsOf(FrozenAt(stored))
             Rows(order) == [i \in 1 .. Len(order) |-> board[order[i]]]
  <2>1. \A t \in Teams : board[t] \in Standings
    BY <1>1, BoardType
  <2> HIDE DEF board
  <2>2. ASSUME NEW order \in Listings(board), NEW i \in 1 .. Len(order)
        PROVE  Ranked(Rows(order))[i]
                 = 1 + Cardinality({t \in Teams :
                                      Before(board[t], board[order[i]])})
    <3> DEFINE rows == Rows(order)
    <3>1. order \in SetToSeqs(Teams)
      BY DEF Listings
    <3>2. Len(order) \in Nat
      BY <3>1, ListOfTeams
    <3>3. /\ Len(rows) = Len(order)
          /\ \A k \in 1 .. Len(order) : rows[k] = board[order[k]]
      BY <3>2
    <3> HIDE DEF rows
    <3>4. \A k \in 1 .. Len(order) :
             Ranked(rows)[k]
               = 1 + Cardinality({t \in Teams :
                                    Before(board[t], board[order[k]])})
      BY <2>1, <3>3, RanksInSortedList
    <3> QED BY <3>4 DEF rows
  <2> QED BY <2>2, Zenon DEF RanksAreStandings, board
<1> QED BY <1>1, AlwaysTyped, PTL

=============================================================================
