------------------------------ MODULE Limiter ------------------------------
(***************************************************************************)
(* RateLimiter: how often a team may submit flags, and the wait after      *)
(* wrong ones.  A handler asks first (check_submission) and records its    *)
(* attempt only once the flag was looked at (record_attempt), so that      *)
(* several may be admitted on the same count; and a task throws old        *)
(* entries away.  Each of the two calls reads the clock, then goes to one  *)
(* map and, once that is unlocked, to the other: an action is what it does *)
(* to one of them.  Instants are kept as ages, which time makes grow.      *)
(***************************************************************************)
EXTENDS Integers, Sequences, FiniteSets

CONSTANTS
  Workers, Teams, Challenges,
  Window,     \* SUBMISSION_WINDOW, in ticks
  Ttl,        \* WRONG_ATTEMPT_TTL, in ticks
  Limit,      \* submissions_per_minute
  Threshold,  \* wrong_attempts_before_backoff
  Base,       \* backoff_base_seconds, in ticks
  MaxCount,   \* bound: further wrong attempts are not told apart
  Nobody      \* no entry, no submission under way

\* Where a submission is: in check_submission with the window checked, with its
\* flag looked at, in record_attempt with the window recorded.
Steps == {"back_off", "flag", "count"}

ASSUME ConstantsAssumption ==
  /\ IsFiniteSet(Workers)
  /\ Window \in Nat \ {0} /\ Ttl \in Nat \ {0} /\ Window <= Ttl
  /\ Limit \in Nat \ {0} /\ Threshold \in Nat /\ Base \in Nat  \* config.rs: validate
  /\ MaxCount \in Nat \ {0}
  /\ Nobody \notin [step : Steps, team : Teams, challenge : Challenges, lag : 0 .. 1]
  /\ Nobody \notin [count : 1 .. MaxCount, age : 0 .. Ttl + 1]

VARIABLES
  team_windows,    \* per team: the ages of its attempts, oldest first
  wrong_attempts,  \* per team and challenge: count and age of the last
  pc,              \* per worker: its submission, see Submission
  attempts, misses \* history: as the two above, but exact and never collected

vars == <<team_windows, wrong_attempts, pc, attempts, misses>>

Ages == 0 .. Ttl + 1   \* Ttl + 1 stands for all later ages

Older(age) == IF age <= Ttl THEN age + 1 ELSE age

Entry == [count : 1 .. MaxCount, age : Ages]

\* lag: the ticks since a call that is under way read the clock.
Submission == [step : Steps, team : Teams, challenge : Challenges, lag : 0 .. 1]

-----------------------------------------------------------------------------
(* The operators of the code                                               *)

\* How often the front is old enough to be popped.
Expired(window) ==
  CHOOSE n \in 0 .. Len(window) :
    /\ \A i \in 1 .. n : window[i] >= Window
    /\ n = Len(window) \/ window[n + 1] < Window

expire_window(window) == SubSeq(window, Expired(window) + 1, Len(window))

\* 1 << exponent.
backoff_wait(count) == Base * 2 ^ (count - Threshold)

\* Mutant of BacksOff: the wait does not grow.
BacksOffBriefly(entry, lag) ==
  entry # Nobody /\ entry.count >= Threshold /\ entry.age < Base + lag

\* For a call that read the clock lag ticks ago, the age was less by so much,
\* and none of an attempt since (duration_since stops at 0).
BacksOff(entry, lag) ==
  /\ entry # Nobody
  /\ entry.count >= Threshold
  /\ LET elapsed == IF entry.age < lag THEN 0 ELSE entry.age - lag
     IN  elapsed < backoff_wait(entry.count)

\* Mutant of IsFull: one more than the limit is let through.
IsOverfull(window) == Len(window) > Limit

IsFull(window) == Len(window) >= Limit

\* Mutant of AfterMiss: an entry is made, and its first attempt not counted.
AfterMissUncounted(entry, lag) ==
  [count |-> IF entry = Nobody THEN 0
             ELSE IF entry.count < MaxCount THEN entry.count + 1 ELSE MaxCount,
   age   |-> lag]

AfterMiss(entry, lag) ==
  [count |-> IF entry = Nobody THEN 1
             ELSE IF entry.count < MaxCount THEN entry.count + 1 ELSE MaxCount,
   age   |-> lag]

-----------------------------------------------------------------------------
(* Actions                                                                 *)

NoAttempts == [t \in Teams |-> << >>]
NoMisses   == [t \in Teams |-> [c \in Challenges |-> Nobody]]
AllIdle    == [w \in Workers |-> Nobody]

\* RateLimiter::new
Init ==
  /\ team_windows = NoAttempts /\ attempts = NoAttempts
  /\ wrong_attempts = NoMisses /\ misses = NoMisses
  /\ pc = AllIdle

At(w, step) == pc[w] # Nobody /\ pc[w].step = step

Goto(w, step) == pc' = [pc EXCEPT ![w].step = step, ![w].lag = 0]

\* The handler answers: with 429 after a refusal.
Answer(w) == pc' = [pc EXCEPT ![w] = Nobody]

\* check_submission, as submit_flag begins: the team's window ...
check_window(w, t, c) ==
  /\ pc[w] = Nobody
  /\ team_windows' = [team_windows EXCEPT ![t] = expire_window(@)]
  /\ pc' = IF IsFull(expire_window(team_windows[t])) THEN pc
           ELSE [pc EXCEPT ![w] = [step |-> "back_off", team |-> t, challenge |-> c, lag |-> 0]]
  /\ UNCHANGED <<wrong_attempts, attempts, misses>>

\* ... and then its wrong attempts.
check_back_off(w) ==
  /\ At(w, "back_off")
  /\ IF BacksOff(wrong_attempts[pc[w].team][pc[w].challenge], pc[w].lag)
     THEN Answer(w) ELSE Goto(w, "flag")
  /\ UNCHANGED <<team_windows, wrong_attempts, attempts, misses>>

\* submit_flag stops before it records: no such challenge, not running, locked.
Refuse(w) ==
  /\ At(w, "flag")
  /\ Answer(w)
  /\ UNCHANGED <<team_windows, wrong_attempts, attempts, misses>>

\* record_attempt: the window ...
record_window(w) ==
  /\ At(w, "flag")
  /\ team_windows' = [team_windows EXCEPT ![pc[w].team] = Append(expire_window(@), 0)]
  /\ attempts' = [attempts EXCEPT ![pc[w].team] = Append(@, 0)]
  /\ Goto(w, "count")
  /\ UNCHANGED <<wrong_attempts, misses>>

\* ... and the answer, wrong also when the team has solved the challenge.
record_answer(w, correct) ==
  LET t == pc[w].team
      c == pc[w].challenge
      Count(entry) == IF correct THEN Nobody ELSE AfterMiss(entry, pc[w].lag)
      \* a pause of more than Ttl may or may not have been seen by gc
      Since(entry) == IF entry # Nobody /\ entry.age > Ttl THEN Nobody ELSE entry
  IN  /\ At(w, "count")
      /\ wrong_attempts' = [wrong_attempts EXCEPT ![t][c] = Count(@)]
      /\ misses' = [misses EXCEPT ![t][c] = Count(Since(@))]
      /\ Answer(w)
      /\ UNCHANGED <<team_windows, attempts>>

\* Within a call, which waits for nothing but a lock.
InCall(w) == At(w, "back_off") \/ At(w, "count")

\* Mutant of Outlives: only the wrong attempts past their time are kept.
OutlivesNot(entry) == entry # Nobody /\ entry.age > Ttl

Outlives(entry) == entry # Nobody /\ entry.age <= Ttl

gc ==
  /\ team_windows' = [t \in Teams |-> expire_window(team_windows[t])]
  /\ wrong_attempts' =
       [t \in Teams |-> [c \in Challenges |->
          IF Outlives(wrong_attempts[t][c]) THEN wrong_attempts[t][c] ELSE Nobody]]
  /\ UNCHANGED <<pc, attempts, misses>>

\* Of the attempts of a team, all of the last Window, those of a tick ago.
Recent(ages) ==
  LET gone == Cardinality({i \in DOMAIN ages : ages[i] + 1 >= Window})
  IN  [i \in 1 .. Len(ages) - gone |-> ages[i + gone] + 1]

Aged(entry) == IF entry = Nobody THEN entry ELSE [entry EXCEPT !.age = Older(@)]

\* Bound: a call takes less than two ticks.
Tick ==
  /\ \A w \in Workers : InCall(w) => pc[w].lag = 0
  /\ pc' = [w \in Workers |-> IF InCall(w) THEN [pc[w] EXCEPT !.lag = 1] ELSE pc[w]]
  /\ team_windows' = [t \in Teams |-> [i \in DOMAIN team_windows[t] |->
                                         Older(team_windows[t][i])]]
  /\ wrong_attempts' =
       [t \in Teams |-> [c \in Challenges |-> Aged(wrong_attempts[t][c])]]
  /\ misses' = [t \in Teams |-> [c \in Challenges |-> Aged(misses[t][c])]]
  /\ attempts' = [t \in Teams |-> Recent(attempts[t])]

\* The counters are in memory: a restart forgets them, and who was admitted.
Restart ==
  /\ team_windows' = NoAttempts /\ attempts' = NoAttempts
  /\ wrong_attempts' = NoMisses /\ misses' = NoMisses
  /\ pc' = AllIdle

EndCall(w) ==
  check_back_off(w) \/ \E correct \in BOOLEAN : record_answer(w, correct)

Submit(w) ==
  \/ \E t \in Teams, c \in Challenges : check_window(w, t, c)
  \/ record_window(w) \/ EndCall(w) \/ Refuse(w)

Next == (\E w \in Workers : Submit(w)) \/ gc \/ Tick \/ Restart

\* Time passes, the task of gc wakes up once in a Window, and a call ends.
Spec ==
  /\ Init /\ [][Next]_vars
  /\ WF_vars(Tick) /\ WF_vars(gc) /\ \A w \in Workers : WF_vars(EndCall(w))

-----------------------------------------------------------------------------
(* Properties                                                              *)

TypeOK ==
  /\ \A t \in Teams : \A i \in DOMAIN team_windows[t] : team_windows[t][i] \in Ages
  /\ wrong_attempts \in [Teams -> [Challenges -> Entry \union {Nobody}]]
  /\ pc \in [Workers -> Submission \union {Nobody}]
  /\ misses \in [Teams -> [Challenges -> Entry \union {Nobody}]]

\* Those that found room in the window of t, and have not taken it yet.
Pending(t) == {w \in Workers : (At(w, "back_off") \/ At(w, "flag")) /\ pc[w].team = t}

\* "10 attempts/minute per team": within any Window a team has no more attempts
\* than the limit, but for those admitted together while the last was free:
\* with those still to be recorded, as many as there are other workers.
RateBounded ==
  \A t \in Teams :
     Len(attempts[t]) + Cardinality(Pending(t)) <= Limit - 1 + Cardinality(Workers)

\* "Exponential backoff after 5 wrong attempts": whoever is admitted has waited
\* out the back-off of the wrong attempts so far, whatever gc has collected in
\* between; only a wait of more than Ttl is cut short there.
WaitsServed ==
  [][\A w \in Workers :
       ~At(w, "flag") /\ At(w, "flag")' =>
         LET entry == misses[pc[w].team][pc[w].challenge]
         IN  entry # Nobody /\ entry.count >= Threshold =>
               entry.age >= backoff_wait(entry.count) \/ entry.age > Ttl]_vars

\* check_submission, with nothing in between, would admit a submission.
Admits(t, c) ==
  ~IsFull(expire_window(team_windows[t])) /\ ~BacksOff(wrong_attempts[t][c], 0)

\* Nobody is locked out for good: a team that makes no further attempts will be
\* admitted, even where the back-off has grown past all bounds, as gc forgets it.
LockOutsEnd ==
  \A t \in Teams :
     <>[][\A w \in Workers : record_window(w) => pc[w].team # t]_vars
       => \A c \in Challenges : []<>Admits(t, c)

=============================================================================
