------------------------------ MODULE Contest ------------------------------
(***************************************************************************)
(* The competition's clock: when flags and hints count, when it is over,   *)
(* and what the public sees once scores are frozen.                        *)
(*                                                                         *)
(* src/src/competition.rs combines one row of the database, written by the *)
(* admin's start, end and freeze, with the times of the configuration and  *)
(* the second at which it is asked.  A request reads the row, then the     *)
(* clock, and later stamps what it inserts with the clock again.  Time may *)
(* pass and the row may change between any two of these steps.             *)
(***************************************************************************)
EXTENDS Scoring, SequencesExt

CONSTANTS
  Workers,       \* worker threads
  Teams,
  Challenges,
  Params,        \* pricing of each challenge: dynamic, max, min, decay
  HintCost,      \* cost of the one hint each team may unlock
  Operations,    \* the kinds of request the workers are given
  Never,         \* NULL, or a time the configuration leaves out
  ConfigStart,   \* competition.start_time
  ConfigEnd,     \* competition.end_time
  FreezeBefore,  \* score_freeze_minutes_before_end; 0 for no freeze
  MaxTime,       \* bound: where the clock stops
  MaxEntries     \* bound: rows of solves and unlocks that are asked for

Time == 0 .. MaxTime

ASSUME ConstantsAssumption ==
  /\ IsFiniteSet(Teams) /\ IsFiniteSet(Challenges)
  /\ Params \in [Challenges -> [dynamic : BOOLEAN, max : Int, min : Int, decay : Int]]
  /\ HintCost \in Nat
  /\ Operations \subseteq {"submit", "unlock", "test", "start", "end", "freeze"}
  /\ MaxTime \in Nat /\ MaxEntries \in Nat
  /\ Never \notin Int
  /\ ConfigStart \in Int \union {Never}
  /\ ConfigEnd   \in Int \union {Never}
  /\ FreezeBefore \in Nat

VARIABLES
  now,       \* seconds on the server's clock
  stored,    \* the row of competition_state
  solves,    \* rows of solves: [id, team, challenge, at]
  unlocks,   \* rows of hint_unlocks: [team, points, at]
  points,    \* points column of challenges
  pc, req, mem,  \* per worker: next step, request, what it has read
  early, ran     \* history: did the request come before the configured start;
                 \* has the competition been running since it came?

tables == <<stored, solves, unlocks, points>>
vars   == <<now, tables, pc, req, mem, early, ran>>

-----------------------------------------------------------------------------
(* resolve: the stored row, the configuration and the clock.               *)

Row == [started : Time \union {Never}, ended : Time \union {Never},
        frozen : Time \union {Never}]

NoRow == [started |-> Never, ended |-> Never, frozen |-> Never]

\* config_end_applies: a start after the configured end reopens.
EndApplies(row) ==
  ConfigEnd # Never /\ (row.started = Never \/ row.started < ConfigEnd)

Started(row, t) ==
  row.started # Never \/ ConfigStart = Never \/ ConfigStart <= t

Ended(row, t) == row.ended # Never \/ (EndApplies(row) /\ ConfigEnd <= t)

\* ensure_running
Running(row, t) == Started(row, t) /\ ~Ended(row, t)

\* frozen_at: the earlier of the admin's freeze and the configured one.
FrozenAt(row) ==
  LET configured == IF EndApplies(row) /\ FreezeBefore > 0
                    THEN {ConfigEnd - FreezeBefore} ELSE {}
      ordered    == {row.frozen} \ {Never}
      times      == configured \union ordered
  IN  IF times = {} THEN Never ELSE Min(times)

\* is_frozen
IsFrozen(row, t) == FrozenAt(row) # Never /\ FrozenAt(row) <= t

-----------------------------------------------------------------------------
(* The frozen scoreboard.                                                  *)

Until(rows, at) == {r \in rows : r.at <= at}
Pairs(rows)     == {<<s.team, s.challenge>> : s \in rows}
Stamps(t, rows) == {s.at : s \in {r \in rows : r.team = t}}

\* Mutant of ChargesUntil: hints bought during the freeze are charged.
AllCharges(at) == unlocks

ChargesUntil(at) == Until(unlocks, at)

\* build_as_of: score and last solve of each team, at current prices.
BoardAsOf(at) ==
  LET past == Until(solves, at)
  IN  [t \in Teams |->
         [score |-> TotalOf(t, Challenges, points, Pairs(past),
                            ChargesUntil(at), {}),
          last  |-> IF Stamps(t, past) = {} THEN Never
                    ELSE Max(Stamps(t, past))]]

\* ORDER BY score DESC, last_solve_at ASC NULLS LAST
Before(a, b) ==
  \/ a.score > b.score
  \/ /\ a.score = b.score
     /\ a.last # Never /\ (b.last = Never \/ a.last < b.last)

\* Mutant of SameStanding: the last solve does not separate teams.
SameScore(a, b) == a.score = b.score

\* The test of `ranked`: equal score and last solve share a rank.
SameStanding(a, b) == a.score = b.score /\ a.last = b.last

\* ranked: the first row has rank 1, a row equal to the one before it has the
\* same rank, any other has its place in the list.
Ranked(rows) ==
  LET rank[i \in 1 .. Len(rows)] ==
        IF i = 1 THEN 1
        ELSE IF SameStanding(rows[i], rows[i - 1]) THEN rank[i - 1] ELSE i
  IN  rank

\* What SQLite may return for the board: sorted, ties in any order.
Listings(board) ==
  {order \in SetToSeqs(Teams) :
     \A i, j \in 1 .. Len(order) :
        i < j => ~Before(board[order[j]], board[order[i]])}

\* team_solve_history, team_hint_history
SolveHistory(t) == {s \in solves : s.team = t}
HintHistory(t)  == {u \in unlocks : u.team = t}

\* get_team_profile: what others see of a team while scores are frozen at `at`
\* (its first bloods are shown too, counted of all solves, frozen or not).
FrozenProfile(t, at) ==
  [standing |-> BoardAsOf(at)[t],
   solves   |-> Until(SolveHistory(t), at),
   hints    |-> Until(HintHistory(t), at)]

-----------------------------------------------------------------------------
NoRequest == [op |-> "none"]

Controls == {"start", "end", "freeze"}

Request ==
  [op : {"submit", "test"}, team : Teams, challenge : Challenges]
    \union [op : {"unlock"}, team : Teams]
    \union [op : Controls]

\* Of the row it has read a request uses only when that row means running.
Memory == [open : SUBSET Time, at : Time]
Blank  == [open |-> {}, at |-> 0]

StepsOf ==
  [none   |-> {"idle"},
   submit |-> {"load", "clock", "stamp", "insert", "reprice"},
   test   |-> {"stamp", "insert", "reprice"},
   unlock |-> {"load", "clock", "stamp", "insert"},
   start  |-> {"stamp", "write"},
   end    |-> {"stamp", "write"},
   freeze |-> {"stamp", "write"}]

\* Mutants of FirstStep: no one passes ensure_competition_running, and hints can
\* be bought at any time.
FirstStepAlways(op) == "load"
FirstStepOfSubmit(op) == IF op = "submit" THEN "load" ELSE "stamp"

\* ensure_competition_running lets admins pass; the controls ask nobody.
FirstStep(op) == IF op \in {"submit", "unlock"} THEN "load" ELSE "stamp"

At(w, step)   == pc[w] = step
Goto(w, step) == pc' = [pc EXCEPT ![w] = step] /\ UNCHANGED req

Return(w) ==
  /\ pc'  = [pc  EXCEPT ![w] = "idle"]
  /\ req' = [req EXCEPT ![w] = NoRequest]
  /\ mem' = [mem EXCEPT ![w] = Blank]

BeforeStart == ConfigStart # Never /\ now < ConfigStart

\* The history variables follow every step.
Observe ==
  /\ early' = [w \in Workers |->
                 pc'[w] # "idle" /\ (early[w] \/ (pc[w] = "idle" /\ BeforeStart))]
  /\ ran'   = [w \in Workers |->
                 pc'[w] # "idle" /\ (ran[w] \/ Running(stored', now'))]

Price(c) == DynamicPoints(Params[c].max, Params[c].min, Params[c].decay,
                          SolveCount(Teams, Pairs(solves), c))

\* main.rs: a database that has never been started, ended or frozen by hand.
Init ==
  /\ now = 0
  /\ stored = NoRow
  /\ solves = {}
  /\ unlocks = {}
  /\ points = [c \in Challenges |-> Params[c].max]
  /\ pc  = [w \in Workers |-> "idle"]
  /\ req = [w \in Workers |-> NoRequest]
  /\ mem = [w \in Workers |-> Blank]
  /\ early = [w \in Workers |-> FALSE]
  /\ ran   = [w \in Workers |-> FALSE]

\* Bound: the clock stops at MaxTime.
Tick ==
  /\ now < MaxTime
  /\ now' = now + 1
  /\ UNCHANGED <<tables, pc, req, mem>>

Entries == Cardinality(solves) + Cardinality(unlocks)
             + Cardinality({w \in Workers : pc[w] # "reprice" /\
                              req[w].op \in {"submit", "test", "unlock"}})

\* A request arrives: a player's flag or hint, an admin's trial of a flag
\* ("test"), or one of the three controls.
Accept(w) ==
  /\ At(w, "idle")
  /\ \E r \in Request :
       /\ r.op \in Operations
       /\ r.op \in Controls \/ Entries < MaxEntries
       /\ req' = [req EXCEPT ![w] = r]
       /\ pc'  = [pc  EXCEPT ![w] = FirstStep(r.op)]
  /\ UNCHANGED <<now, tables, mem>>

\* competition::status: the row ...
Load(w) ==
  /\ At(w, "load")
  /\ mem' = [mem EXCEPT ![w].open = {t \in Time : Running(stored, t)}]
  /\ Goto(w, "clock")
  /\ UNCHANGED <<now, tables>>

\* ... then the time; ensure_running answers with an error.
ReadClock(w) ==
  /\ At(w, "clock")
  /\ IF now \in mem[w].open
     THEN Goto(w, "stamp") /\ mem' = [mem EXCEPT ![w] = Blank]
     ELSE Return(w)
  /\ UNCHANGED <<now, tables>>

\* is_solved_by_team or is_unlocked, and a wrong flag ends here; then solved_at
\* or unlocked_at is taken.  What happens between the two shows at the insert.
Stamp(w) ==
  /\ At(w, "stamp")
  /\ \/ Return(w)
     \/ /\ CASE req[w].op \in {"submit", "test"} ->
                 <<req[w].team, req[w].challenge>> \notin Pairs(solves)
            [] req[w].op = "unlock" -> \A u \in unlocks : u.team # req[w].team
            [] OTHER -> TRUE
        /\ mem' = [mem EXCEPT ![w].at = now]
        /\ Goto(w, IF req[w].op \in Controls THEN "write" ELSE "insert")
  /\ UNCHANGED <<now, tables>>

\* insert_solve; the UNIQUE constraint refuses a second one.
InsertSolve(w) ==
  LET t == req[w].team
      c == req[w].challenge
  IN  /\ At(w, "insert")
      /\ req[w].op \in {"submit", "test"}
      /\ IF <<t, c>> \in Pairs(solves)
         THEN Return(w) /\ UNCHANGED solves
         ELSE /\ solves' = solves \union
                   {[id |-> Cardinality(solves) + 1, team |-> t,
                     challenge |-> c, at |-> mem[w].at]}
              /\ Goto(w, "reprice")
              /\ mem' = [mem EXCEPT ![w] = Blank]
      /\ UNCHANGED <<now, stored, unlocks, points>>

\* Hint::unlock
InsertUnlock(w) ==
  LET t == req[w].team
  IN  /\ At(w, "insert")
      /\ req[w].op = "unlock"
      /\ unlocks' = IF \E u \in unlocks : u.team = t THEN unlocks
                    ELSE unlocks \union
                      {[team |-> t, points |-> HintCost, at |-> mem[w].at]}
      /\ Return(w)
      /\ UNCHANGED <<now, stored, solves, points>>

\* recalculate_challenge_points; its statements apart are in ScoreFlow.
Reprice(w) ==
  /\ At(w, "reprice")
  /\ points' = IF Params[req[w].challenge].dynamic
               THEN [points EXCEPT ![req[w].challenge] = Price(req[w].challenge)]
               ELSE points
  /\ Return(w)
  /\ UNCHANGED <<now, stored, solves, unlocks>>

StartedRow(row, at) == [started |-> at, ended |-> Never, frozen |-> Never]

EndedRow(row, at) == [row EXCEPT !.ended = at]

\* Mutant of FrozenRow: a second freeze moves the first.
RefrozenRow(row, at) == [row EXCEPT !.frozen = at]

\* COALESCE(frozen_at, ?1)
FrozenRow(row, at) == [row EXCEPT
  !.frozen = IF row.frozen = Never THEN at ELSE row.frozen]

\* start, end, freeze: one UPSERT each.
WriteRow(w) ==
  LET at == mem[w].at
  IN  /\ At(w, "write")
      /\ stored' = CASE req[w].op = "start"  -> StartedRow(stored, at)
                     [] req[w].op = "end"    -> EndedRow(stored, at)
                     [] req[w].op = "freeze" -> FrozenRow(stored, at)
      /\ Return(w)
      /\ UNCHANGED <<now, solves, unlocks, points>>

Step(w) ==
  \/ Load(w) \/ ReadClock(w) \/ Stamp(w)
  \/ InsertSolve(w) \/ InsertUnlock(w) \/ Reprice(w) \/ WriteRow(w)

\* Once the clock has stopped and nobody sends anything, nothing happens.
Next == (Tick \/ \E w \in Workers : Accept(w) \/ Step(w)) /\ Observe

Spec == Init /\ [][Next]_vars

-----------------------------------------------------------------------------
(* Properties                                                              *)

TypeOK ==
  /\ now \in Time
  /\ stored \in Row
  /\ solves \subseteq [id : Nat, team : Teams, challenge : Challenges, at : Time]
  /\ unlocks \subseteq [team : Teams, points : Nat, at : Time]
  /\ points \in [Challenges -> Int]
  /\ req \in [Workers -> Request \union {NoRequest}]
  /\ mem \in [Workers -> Memory]
  /\ early \in [Workers -> BOOLEAN]
  /\ ran \in [Workers -> BOOLEAN]
  /\ \A w \in Workers : pc[w] \in StepsOf[req[w].op]

\* "Players may submit flags and unlock hints only while running": whoever is
\* about to insert a solve or an unlock for a player has seen the competition
\* run at some moment since the request arrived.  The row and the clock are
\* read apart, so one excuse is left: the configured start fell in between.
NothingScoresOutside ==
  \A w \in Workers :
     req[w].op \in {"submit", "unlock"} /\ pc[w] \in {"stamp", "insert"}
       => \/ ran[w]
          \/ early[w] /\ ~BeforeStart

\* A start takes effect.
Starting ==
  \E w \in Workers : req[w].op = "start" /\ At(w, "write") /\ pc'[w] = "idle"

\* Only a start moves the freeze to a later time or lifts it: what the public
\* may not see stays unseen.
FreezeNeverMovesLater ==
  [][FrozenAt(stored) # Never /\ ~Starting
       => FrozenAt(stored') # Never /\ FrozenAt(stored') <= FrozenAt(stored)]_vars

\* A request that took its stamp before the freeze and has yet to insert.
Straddles(at) ==
  \E w \in Workers : /\ At(w, "insert") /\ mem[w].at <= at

\* "Only solves and hint unlocks up to that moment count", "other teams only see
\* this team as it stood at the freeze": with fixed prices, once the second of
\* the freeze is over and what was stamped in it is in, no solve or unlock
\* changes the frozen board or a profile.
FrozenViewsSettle ==
  [][LET at == FrozenAt(stored)
     IN  /\ at # Never /\ at < now /\ ~Straddles(at)
         /\ FrozenAt(stored') = at /\ points' = points
         => \A t \in Teams : FrozenProfile(t, at)' = FrozenProfile(t, at)]_vars

\* However SQLite orders ties on the frozen board, a team's rank is one more
\* than the number of teams placed before it: ranks do not depend on how equal
\* rows come out.  The board is the tables' alone, so the states with no request
\* under way show every board there is.
RanksAreStandings ==
  IsFrozen(stored, now) /\ (\A w \in Workers : At(w, "idle")) =>
    LET board == BoardAsOf(FrozenAt(stored))
    IN  \A order \in Listings(board) :
          LET rank == Ranked([i \in 1 .. Len(order) |-> board[order[i]]])
          IN  \A i \in 1 .. Len(order) :
                rank[i] = 1 + Cardinality({t \in Teams :
                                             Before(board[t], board[order[i]])})

=============================================================================
