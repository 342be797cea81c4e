-------------------------------- MODULE Pool --------------------------------
(***************************************************************************)
(* The pool of database connections.  A handler asks for a connection and  *)
(* blocks its thread until there is one or r2d2's connection_timeout has   *)
(* passed.  Most handlers ask, use and give back, once or several times in *)
(* a row (is_session_valid, then the user, then the work); register and    *)
(* login ask for a second one, in create_session, while they hold theirs.  *)
(*                                                                         *)
(* The specification is called PoolSpec, and so on, so that a module can   *)
(* extend this one and that of the handlers.                               *)
(***************************************************************************)
EXTENDS Integers, FiniteSets

CONSTANTS
  Threads,  \* worker threads of the runtime
  Sizes     \* sizes of the pool; max_size is 10 where Pool::new is used

ASSUME PoolAssumption ==
  IsFiniteSet(Threads) /\ Sizes \subseteq Nat \ {0}

Kinds == {"sequential", "nested"}

VARIABLES
  size,  \* max_size of this pool
  at,    \* per thread: idle, waiting for a connection, or working
  kind,  \* per thread: how its handler asks
  held   \* per thread: the connections it holds

poolVars == <<size, at, kind, held>>

\* The connections that are out: the i-th of each thread.
Taken == UNION {{w} \X (1 .. held[w]) : w \in Threads}

Free == size - Cardinality(Taken)

\* Mutant of Depth: create_session is called with yet another one held.
DepthOfThree(k) == IF k = "nested" THEN 3 ELSE 1

\* How many connections a handler holds at most.
Depth(k) == IF k = "nested" THEN 2 ELSE 1

PoolInit ==
  /\ size \in Sizes
  /\ at = [w \in Threads |-> "idle"]
  /\ kind = [w \in Threads |-> "sequential"]
  /\ held = [w \in Threads |-> 0]

\* pool.get() is called.
Begin(w) ==
  /\ at[w] = "idle"
  /\ \E k \in Kinds : kind' = [kind EXCEPT ![w] = k]
  /\ at' = [at EXCEPT ![w] = "waiting"]
  /\ UNCHANGED <<size, held>>

\* pool.get() returns a connection.
Take(w) ==
  /\ at[w] = "waiting" /\ Free > 0
  /\ at' = [at EXCEPT ![w] = "working"]
  /\ held' = [held EXCEPT ![w] = @ + 1]
  /\ UNCHANGED <<size, kind>>

\* The handler answers; what it holds is dropped.
Answer(w) ==
  /\ at'   = [at   EXCEPT ![w] = "idle"]
  /\ kind' = [kind EXCEPT ![w] = "sequential"]
  /\ held' = [held EXCEPT ![w] = 0]
  /\ UNCHANGED size

\* connection_timeout passes while there is no connection: pool.get() fails, and
\* with it the request.
GiveUp(w) == at[w] = "waiting" /\ Free = 0 /\ Answer(w)

\* A nested handler goes on to ask for another connection.
AskForMore(w) ==
  /\ at[w] = "working" /\ held[w] < Depth(kind[w])
  /\ at' = [at EXCEPT ![w] = "waiting"]
  /\ UNCHANGED <<size, kind, held>>

\* A sequential one gives back what it has and asks again.
AskAgain(w) ==
  /\ at[w] = "working" /\ kind[w] = "sequential"
  /\ held' = [held EXCEPT ![w] = 0]
  /\ at' = [at EXCEPT ![w] = "waiting"]
  /\ UNCHANGED <<size, kind>>

Finish(w) == at[w] = "working" /\ Answer(w)

Get(w) == Take(w) \/ GiveUp(w)
Use(w) == AskForMore(w) \/ AskAgain(w) \/ Finish(w)

PoolNext == \E w \in Threads : Begin(w) \/ Get(w) \/ Use(w)

PoolSpec == PoolInit /\ [][PoolNext]_poolVars

-----------------------------------------------------------------------------
(* Properties                                                              *)

\* Everybody waits for a connection that only those who wait could give back.
Gridlock ==
  /\ Free = 0
  /\ \A w \in Threads : at[w] # "working"

\* With fewer threads than connections, register and login never block each
\* other: there is always a connection free or a handler about to finish.  With
\* as many threads or more they do, and only connection_timeout ends it.
NoGridlock == Cardinality(Threads) < size => ~Gridlock

=============================================================================
