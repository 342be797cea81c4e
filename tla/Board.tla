------------------------------- MODULE Board -------------------------------
(***************************************************************************)
(* The in-memory caches of FeralCTF (the scoreboard and the list of        *)
(* visible challenges), the handlers that fill and invalidate them, and    *)
(* the ScoreUpdate broadcasts built from them.                             *)
(*                                                                         *)
(* get_or_build_* holds a lock while it looks and while it stores, but     *)
(* none while it reads the database in between; nothing ties what is       *)
(* stored to the invalidations since.  One action is one lock-protected    *)
(* access to a cache, one SQL statement, or one event sent.                *)
(*                                                                         *)
(* What a copy shows is abstracted to what it lacks: a copy of the         *)
(* database is, for each part of it, the set of workers that have changed  *)
(* that part since the copy was read.  It is up to date when the set is    *)
(* empty.  Module ScoreFlow says what the scores themselves are.           *)
(***************************************************************************)
EXTENDS Integers, FiniteSets

CONSTANTS
  Workers,      \* worker threads, each serving one request at a time
  Operations,   \* the kinds of request they are given
  Parts,        \* the parts of the database whose changes are followed
  MayFail,      \* may a statement fail, or a handler stop, midway?
  NoCopy        \* an empty cache

Caches == {"board", "list"}

\* scores: the rows of teams; total: total_visible_points; rows: the visible
\* challenges as an admin writes them.  The price a solve gives a dynamic
\* challenge is not in rows: the list's invalidation does not cover it.
Covers ==
  [board |-> {"scores", "total"} \intersect Parts,
   list  |-> {"rows"} \intersect Parts]

Copy  == [Parts -> SUBSET Workers]
Fresh == [p \in Parts |-> {}]

\* The parts each statement may change.
Statements ==
  [insert_solve     |-> {"scores"},
   write_points     |-> {"total"},
   recalculate      |-> {"scores"},
   insert_challenge |-> {"total", "rows"},
   write_challenge  |-> {"total", "rows"},
   delete_challenge |-> {"scores", "total", "rows"},
   import           |-> {"scores", "total", "rows"},
   insert_team      |-> {"scores"}]

\* Where each handler begins, ...
Start ==
  [submit_flag      |-> "insert_solve",
   unlock_hint      |-> "recalculate",
   create_challenge |-> "insert_challenge",
   update_challenge |-> "write_challenge",
   delete_challenge |-> "delete_challenge",
   delete_hint      |-> "recalculate",
   delete_spare     |-> "record",
   disqualify       |-> "recalculate",
   create_team      |-> "insert_team",
   import_bundle    |-> "import",
   freeze           |-> "set_frozen",
   start            |-> "set_frozen",
   get_scoreboard   |-> "check_freeze",
   admin_scoreboard |-> "look",
   list_challenges  |-> "look_list"]

\* ... and what follows each of its steps.  "broadcast" opens
\* broadcast_score_update, which ends in "deliver".  delete_spare is delete_hint
\* of a hint that nobody had unlocked.
After ==
  [submit_flag      |-> [insert_solve |-> "write_points",
                         write_points |-> "recalculate",
                         recalculate  |-> "forget_board",
                         forget_board |-> "record",
                         record       |-> "broadcast",
                         deliver      |-> "idle"],
   unlock_hint      |-> [recalculate  |-> "record",
                         record       |-> "forget_board",
                         forget_board |-> "broadcast",
                         deliver      |-> "idle"],
   create_challenge |-> [insert_challenge |-> "record",
                         record           |-> "forget_list",
                         forget_list      |-> "idle"],
   update_challenge |-> [write_challenge |-> "write_points",
                         write_points    |-> "recalculate",
                         recalculate     |-> "forget_list",
                         forget_list     |-> "forget_board",
                         forget_board    |-> "broadcast",
                         deliver         |-> "record",
                         record          |-> "idle"],
   delete_challenge |-> [delete_challenge |-> "recalculate",
                         recalculate      |-> "record",
                         record           |-> "forget_list",
                         forget_list      |-> "forget_board",
                         forget_board     |-> "broadcast",
                         deliver          |-> "idle"],
   delete_hint      |-> [recalculate  |-> "forget_board",
                         forget_board |-> "broadcast",
                         deliver      |-> "record",
                         record       |-> "forget_list",
                         forget_list  |-> "idle"],
   delete_spare     |-> [record      |-> "forget_list",
                         forget_list |-> "idle"],
   disqualify       |-> [recalculate  |-> "record",
                         record       |-> "forget_board",
                         forget_board |-> "idle"],
   create_team      |-> [insert_team  |-> "record",
                         record       |-> "forget_board",
                         forget_board |-> "idle"],
   import_bundle    |-> [import       |-> "record",
                         record       |-> "forget_list",
                         forget_list  |-> "forget_board",
                         forget_board |-> "idle"],
   freeze           |-> [set_frozen |-> "record",
                         record     |-> "broadcast",
                         deliver    |-> "idle"],
   start            |-> [set_frozen |-> "record",
                         record     |-> "broadcast",
                         deliver    |-> "idle"],
   get_scoreboard   |-> [deliver |-> "idle"],
   admin_scoreboard |-> [deliver |-> "idle"],
   list_challenges  |-> [store_list |-> "idle"]]

\* The handlers that end in a ScoreUpdate to every client.
Broadcasters == {"submit_flag", "unlock_hint", "update_challenge",
                 "delete_challenge", "delete_hint", "freeze", "start"}

\* The steps inside public_scoreboard and get_or_build_scoreboard.
Inside == {"check_freeze", "look", "read_total", "read_scores", "store",
           "deliver"}

\* The steps that are SQL statements, which may fail.
Fallible == DOMAIN Statements \union
  {"set_frozen", "record", "check_freeze", "read_total", "read_scores",
   "read_rows"}

ASSUME ConstantsAssumption ==
  /\ Operations \subseteq DOMAIN Start
  /\ Parts \subseteq {"scores", "total", "rows"}
  /\ MayFail \in BOOLEAN
  /\ NoCopy \notin Copy

VARIABLES
  cache,    \* per cache, the copy it holds or NoCopy
  frozen,   \* an admin's freeze is in effect
  pc, op,   \* per worker: next step, kind of request
  mem,      \* per worker: what it has read, see Memory
  raced,    \* history: the copy was stored after an invalidation it predates
  lapsed    \* history: workers that stopped before their invalidation

vars == <<cache, frozen, pc, op, mem, raced, lapsed>>

Memory ==
  [copy      : Copy,           \* what was read or found
   live      : BOOLEAN,        \* not built as of the freeze
   raced     : BOOLEAN,        \* found in the cache while raced
   overtaken : BOOLEAN,        \* history: invalidated since the first read
   owes      : SUBSET Caches,  \* history: changed, and not yet invalidated
   cold      : BOOLEAN]        \* history: frozen since the request came in

Blank == [copy |-> Fresh, live |-> FALSE, raced |-> FALSE,
          overtaken |-> FALSE, owes |-> {}, cold |-> FALSE]

-----------------------------------------------------------------------------

At(w, step) == pc[w] = step

\* Mutant of Following: every handler that invalidates the board broadcasts.
FollowingToAll(w) ==
  IF At(w, "forget_board") THEN "broadcast" ELSE After[op[w]][pc[w]]

\* The step that follows in w's handler, and w's memory once it is there.
Following(w) == After[op[w]][pc[w]]
Remembered(w, m) == IF Following(w) = "idle" THEN Blank ELSE m

Advance(w) ==
  /\ pc' = [pc EXCEPT ![w] = Following(w)]
  /\ op' = [op EXCEPT ![w] = IF Following(w) = "idle" THEN "none" ELSE @]

Goto(w, step) == pc' = [pc EXCEPT ![w] = step] /\ UNCHANGED op

\* The parts v has read and not yet stored.
HasRead(v) ==
  CASE At(v, "read_scores") -> {"total"}
    [] At(v, "store")       -> {"total", "scores"}
    [] At(v, "store_list")  -> {"rows"}
    [] OTHER                -> {}

\* A copy from which w's change of the parts P is missing.
Lacking(copy, P, w) ==
  [p \in Parts |-> IF p \in P THEN copy[p] \union {w} ELSE copy[p]]

\* The caches an invalidation is owed to for a change of the parts P; for the
\* total alone no handler owes one: create_challenge leaves the board cached.
OwedFor(P) == {c \in Caches : (P \ {"total"}) \intersect Covers[c] # {}}

\* A restart begins here too: it empties the caches and keeps the freeze.
Init ==
  /\ cache  = [c \in Caches |-> NoCopy]
  /\ frozen \in BOOLEAN
  /\ pc     = [w \in Workers |-> "idle"]
  /\ op     = [w \in Workers |-> "none"]
  /\ mem    = [w \in Workers |-> Blank]
  /\ raced  = [c \in Caches |-> FALSE]
  /\ lapsed = [c \in Caches |-> {}]

Accept(w) ==
  /\ At(w, "idle")
  /\ \E o \in Operations :
       /\ op' = [op EXCEPT ![w] = o]
       /\ pc' = [pc EXCEPT ![w] = Start[o]]
  /\ mem' = [mem EXCEPT ![w].cold = frozen]
  /\ UNCHANGED <<cache, frozen, raced, lapsed>>

\* A statement of a handler: it changes the parts it writes, or writes what was
\* there already.  Every copy read before it lacks the change.
Change(w) ==
  /\ pc[w] \in DOMAIN Statements
  /\ \E P \in {{}, Statements[pc[w]] \intersect Parts} :
       /\ cache' = [c \in Caches |->
            IF cache[c] = NoCopy
            THEN NoCopy ELSE Lacking(cache[c], P \intersect Covers[c], w)]
       /\ mem' = [v \in Workers |->
            IF v = w
            THEN [mem[w] EXCEPT !.owes = @ \union OwedFor(P)]
            ELSE [mem[v] EXCEPT
                    !.copy = Lacking(@, P \intersect HasRead(v), w)]]
  /\ Advance(w)
  /\ UNCHANGED <<frozen, raced, lapsed>>

\* competition::freeze and competition::start.
SetFrozen(w) ==
  /\ At(w, "set_frozen")
  /\ frozen' = (op[w] = "freeze")
  /\ mem' = [v \in Workers |->
       [mem[v] EXCEPT !.cold = frozen' /\ (@ \/ v = w)]]
  /\ Advance(w)
  /\ UNCHANGED <<cache, raced, lapsed>>

\* A statement on rows that no board and no list shows: the audit log, the
\* score history, a team's members.
Record(w) ==
  /\ At(w, "record")
  /\ mem' = [mem EXCEPT ![w] = Remembered(w, @)]
  /\ Advance(w)
  /\ UNCHANGED <<cache, frozen, raced, lapsed>>

\* Mutant of Forgotten: the invalidation leaves the copy.
ForgottenNothing(c) == cache[c]
Forgotten(c) == NoCopy

\* invalidate_scoreboard, invalidate_challenges.  Whoever has read and not yet
\* stored is not told.
Forget(w, c) ==
  /\ cache'  = [cache  EXCEPT ![c] = Forgotten(c)]
  /\ raced'  = [raced  EXCEPT ![c] = FALSE]
  /\ lapsed' = [lapsed EXCEPT ![c] = {}]

\* The memories after it, when w goes on with m.
Overtaken(w, c, m) ==
  [v \in Workers |->
     IF v = w
     THEN m
     ELSE [mem[v] EXCEPT
             !.overtaken = @ \/ HasRead(v) \intersect Covers[c] # {}]]

ForgetCache(w) ==
  \E c \in Caches :
    /\ At(w, IF c = "board" THEN "forget_board" ELSE "forget_list")
    /\ Forget(w, c)
    /\ mem' = Overtaken(w, c,
         Remembered(w, [mem[w] EXCEPT !.owes = @ \ {c}]))
    /\ Advance(w)
    /\ UNCHANGED frozen

\* broadcast_score_update invalidates once more before it looks.
BeginBroadcast(w) ==
  /\ At(w, "broadcast")
  /\ Forget(w, "board")
  /\ mem' = Overtaken(w, "board", [mem[w] EXCEPT !.owes = @ \ {"board"}])
  /\ Goto(w, "check_freeze")
  /\ UNCHANGED frozen

\* Mutant of Hidden: a board that is cached is served whatever the freeze.
HiddenUnlessCached == frozen /\ cache["board"] = NoCopy
Hidden == frozen

\* public_scoreboard: during a freeze the board is built as of its start and
\* the cache is left alone.
CheckFreeze(w) ==
  /\ At(w, "check_freeze")
  /\ Goto(w, IF Hidden THEN "deliver" ELSE "look")
  /\ UNCHANGED <<cache, frozen, mem, raced, lapsed>>

\* get_or_build_scoreboard: what is cached is served ...
Look(w) ==
  /\ At(w, "look")
  /\ Goto(w, IF cache["board"] = NoCopy THEN "read_total" ELSE "deliver")
  /\ mem' = [mem EXCEPT
       ![w].live  = TRUE,
       ![w].raced = cache["board"] # NoCopy /\ raced["board"],
       ![w].copy  = IF cache["board"] = NoCopy THEN Fresh ELSE cache["board"]]
  /\ UNCHANGED <<cache, frozen, raced, lapsed>>

\* ... else ScoreboardState::build reads the total and then the rows, ...
ReadTotal(w) ==
  /\ At(w, "read_total")
  /\ Goto(w, "read_scores")
  /\ UNCHANGED <<cache, frozen, mem, raced, lapsed>>

ReadScores(w) ==
  /\ At(w, "read_scores")
  /\ Goto(w, "store")
  /\ UNCHANGED <<cache, frozen, mem, raced, lapsed>>

\* ... and the result is stored over whatever the cache holds by now.
Store(w) ==
  /\ At(w, "store")
  /\ cache' = [cache EXCEPT !["board"] = mem[w].copy]
  /\ raced' = [raced EXCEPT !["board"] = mem[w].overtaken]
  /\ mem'   = [mem   EXCEPT ![w].overtaken = FALSE]
  /\ Goto(w, "deliver")
  /\ UNCHANGED <<frozen, lapsed>>

\* The board is sent: the response, or a ScoreUpdate to every client.
Deliver(w) ==
  /\ At(w, "deliver")
  /\ mem' = [mem EXCEPT ![w] = Remembered(w,
       [@ EXCEPT !.copy = Fresh, !.live = FALSE, !.raced = FALSE])]
  /\ Advance(w)
  /\ UNCHANGED <<cache, frozen, raced, lapsed>>

\* get_or_build_challenges; a hit is the whole of the response.
LookList(w) ==
  /\ At(w, "look_list")
  /\ IF cache["list"] = NoCopy
     THEN Goto(w, "read_rows") /\ UNCHANGED mem
     ELSE /\ pc'  = [pc  EXCEPT ![w] = "idle"]
          /\ op'  = [op  EXCEPT ![w] = "none"]
          /\ mem' = [mem EXCEPT ![w] = Blank]
  /\ UNCHANGED <<cache, frozen, raced, lapsed>>

ReadRows(w) ==
  /\ At(w, "read_rows")
  /\ Goto(w, "store_list")
  /\ UNCHANGED <<cache, frozen, mem, raced, lapsed>>

StoreList(w) ==
  /\ At(w, "store_list")
  /\ cache' = [cache EXCEPT !["list"] = mem[w].copy]
  /\ raced' = [raced EXCEPT !["list"] = mem[w].overtaken]
  /\ mem'   = [mem   EXCEPT ![w] = Remembered(w, @)]
  /\ Advance(w)
  /\ UNCHANGED <<frozen, lapsed>>

\* A statement fails.  broadcast_score_update then sends nothing and its
\* handler goes on as if it had; any other handler answers with an error, and
\* the rest of it, the invalidations included, does not happen.
Unsendable(w) == op[w] \in Broadcasters /\ pc[w] \in Inside

SkipBroadcast(w) ==
  /\ MayFail
  /\ Unsendable(w) /\ pc[w] \in Fallible
  /\ pc'  = [pc  EXCEPT ![w] = After[op[w]]["deliver"]]
  /\ op'  = [op  EXCEPT ![w] = IF pc'[w] = "idle" THEN "none" ELSE @]
  /\ mem' = [mem EXCEPT ![w] = IF pc'[w] = "idle" THEN Blank ELSE
       [@ EXCEPT !.copy = Fresh, !.live = FALSE, !.raced = FALSE,
                 !.overtaken = FALSE]]
  /\ UNCHANGED <<cache, frozen, raced, lapsed>>

Abort(w) ==
  /\ MayFail
  /\ ~Unsendable(w) /\ pc[w] \in Fallible
  /\ lapsed' = [c \in Caches |->
       IF c \in mem[w].owes THEN lapsed[c] \union {w} ELSE lapsed[c]]
  /\ pc'  = [pc  EXCEPT ![w] = "idle"]
  /\ op'  = [op  EXCEPT ![w] = "none"]
  /\ mem' = [mem EXCEPT ![w] = Blank]
  /\ UNCHANGED <<cache, frozen, raced>>

WriterStep(w) ==
  \/ Change(w) \/ SetFrozen(w) \/ Record(w) \/ ForgetCache(w)
  \/ BeginBroadcast(w)

BoardStep(w) ==
  \/ CheckFreeze(w) \/ Look(w) \/ ReadTotal(w) \/ ReadScores(w) \/ Store(w)
  \/ Deliver(w)

ListStep(w) == LookList(w) \/ ReadRows(w) \/ StoreList(w)

Next ==
  \E w \in Workers :
    Accept(w) \/ WriterStep(w) \/ BoardStep(w) \/ ListStep(w)
    \/ SkipBroadcast(w) \/ Abort(w)

Spec == Init /\ [][Next]_vars

-----------------------------------------------------------------------------
(* Properties                                                              *)

\* The steps a handler of kind o can be at.
StepsOf(o) ==
  CASE o = "none"            -> {"idle"}
    [] o = "list_challenges" -> {"look_list", "read_rows", "store_list"}
    [] o \in {"get_scoreboard", "admin_scoreboard"} -> Inside
    [] o \in Broadcasters    -> DOMAIN After[o] \union Inside \union {"broadcast"}
    [] OTHER                 -> DOMAIN After[o]

\* A worker is at a step of the handler it serves, or rests and remembers
\* nothing of the request it has served.
ThreadsOK ==
  /\ pc = [w \in Workers |-> pc[w]]
  /\ op \in [Workers -> DOMAIN Start \union {"none"}]
  /\ \A w \in Workers : pc[w] \in StepsOf(op[w])

AtRestBlank == \A w \in Workers : At(w, "idle") => mem[w] = Blank

\* Caches and memories keep their kinds.
DataOK ==
  /\ cache \in [Caches -> Copy \union {NoCopy}]
  /\ frozen \in BOOLEAN
  /\ mem \in [Workers -> Memory]
  /\ raced \in [Caches -> BOOLEAN]
  /\ lapsed \in [Caches -> SUBSET Workers]

TypeOK == ThreadsOK /\ AtRestBlank /\ DataOK

\* The invalidation table of the architecture document, as far as it holds:
\* whatever changes are missing from a cached copy, each was made by a handler
\* that is still about to invalidate it or was stopped before it could; except
\* after a fill that an invalidation overtook, which stores what it read.
CachesFresh ==
  \A c \in Caches :
    cache[c] # NoCopy /\ ~raced[c] =>
      \A p \in Covers[c] \ {"total"} : \A w \in cache[c][p] :
        c \in mem[w].owes \/ w \in lapsed[c]

\* The ScoreUpdate a handler sends after its own change shows that change,
\* unless it found in the cache the copy of a fill that was overtaken.
OwnChangeSent ==
  \A w \in Workers :
    (/\ At(w, "deliver")
     /\ op[w] \in Broadcasters
     /\ mem[w].live
     /\ ~mem[w].raced)
      => \A p \in Parts \intersect {"scores"} : w \notin mem[w].copy[p]

\* While an admin's freeze lasts, no request that came in after it, nor the
\* freeze itself, shows the public a live board.
FreezeRespected ==
  \A w \in Workers :
    At(w, "deliver") /\ mem[w].cold /\ op[w] # "admin_scoreboard"
      => ~mem[w].live

=============================================================================
