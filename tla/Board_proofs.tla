---------------------------- MODULE Board_proofs ----------------------------
(***************************************************************************)
(* Theorems about Board and Hub, for every value of their constants.       *)
(***************************************************************************)
EXTENDS Board, Hub, TLAPS

-----------------------------------------------------------------------------
(* The table of steps.                                                     *)

\* A step of a handler is followed by another of its steps or by its end, and
\* every step that is carried out by Advance is in the table.
LEMMA StepsInTable ==
  ASSUME NEW o \in DOMAIN Start, NEW s \in StepsOf(o)
  PROVE  /\ s # "idle"
         /\ s \in DOMAIN After[o] => After[o][s] \in StepsOf(o) \union {"idle"}
         /\ s \in DOMAIN Statements
              \union {"set_frozen", "record", "forget_board", "forget_list",
                      "deliver", "store_list"} => s \in DOMAIN After[o]
BY DEF Start, StepsOf, After, Statements, Broadcasters, Inside

\* The steps of the two reads are all there where one of them is.
LEMMA StepsTogether ==
  ASSUME NEW o \in DOMAIN Start, NEW s \in StepsOf(o)
  PROVE  /\ s \in Inside \union {"broadcast"} =>
              Inside \subseteq StepsOf(o) /\ "deliver" \in DOMAIN After[o]
         /\ s \in {"look_list", "read_rows", "store_list"} =>
              /\ o = "list_challenges"
              /\ {"look_list", "read_rows", "store_list"} \subseteq StepsOf(o)
BY DEF Start, StepsOf, After, Broadcasters, Inside

\* A handler begins at one of its steps.
LEMMA StartInSteps ==
  ASSUME NEW o \in DOMAIN Start
  PROVE  Start[o] \in StepsOf(o)
BY DEF Start, StepsOf, After, Broadcasters, Inside

-----------------------------------------------------------------------------
(* Type correctness.                                                       *)

\* A worker that is not at rest serves a request.
LEMMA Busy ==
  ASSUME ThreadsOK, NEW w \in Workers, pc[w] # "idle"
  PROVE  op[w] \in DOMAIN Start /\ pc[w] \in StepsOf(op[w])
<1>1. op[w] \in DOMAIN Start \union {"none"} /\ pc[w] \in StepsOf(op[w])
  BY DEF ThreadsOK
<1>2. StepsOf("none") = {"idle"}
  BY DEF StepsOf, Broadcasters
<1> QED BY <1>1, <1>2

\* So does the step that follows in the table, or the end of the handler.
LEMMA AdvanceThreads ==
  ASSUME ThreadsOK, NEW w \in Workers, pc[w] # "idle",
         pc[w] \in DOMAIN After[op[w]], Advance(w)
  PROVE  ThreadsOK'
<1>1. op[w] \in DOMAIN Start /\ Following(w) \in StepsOf(op[w]) \union {"idle"}
  BY Busy, StepsInTable DEF Following
<1>2. "idle" \notin StepsOf(op[w])
  BY <1>1, StepsInTable
<1>3. StepsOf("none") = {"idle"}
  BY DEF StepsOf, Broadcasters
<1>4. \A v \in Workers : pc'[v] \in StepsOf(op'[v])
  BY <1>1, <1>2, <1>3 DEF ThreadsOK, Advance
<1> QED BY <1>1, <1>4 DEF ThreadsOK, Advance

\* A step to another step of the same handler keeps every worker in its table.
LEMMA GotoThreads ==
  ASSUME ThreadsOK, NEW w \in Workers, NEW s \in StepsOf(op[w]), Goto(w, s)
  PROVE  ThreadsOK'
<1>1. \A v \in Workers : pc'[v] \in StepsOf(op'[v])
  BY DEF ThreadsOK, Goto
<1> QED BY <1>1 DEF ThreadsOK, Goto

\* A worker that goes to rest keeps every worker in its table.
LEMMA RestThreads ==
  ASSUME ThreadsOK, NEW w \in Workers,
         pc' = [pc EXCEPT ![w] = "idle"], op' = [op EXCEPT ![w] = "none"]
  PROVE  ThreadsOK'
<1>1. StepsOf("none") = {"idle"}
  BY DEF StepsOf, Broadcasters
<1>2. \A v \in Workers : pc'[v] \in StepsOf(op'[v])
  BY <1>1 DEF ThreadsOK
<1> QED BY <1>2 DEF ThreadsOK

\* The steps that are followed by the next in the table.
LEMMA WriterThreads ==
  ASSUME ThreadsOK, NEW w \in Workers,
         \/ Change(w) \/ SetFrozen(w) \/ Record(w) \/ ForgetCache(w)
         \/ Deliver(w) \/ StoreList(w)
  PROVE  ThreadsOK'
<1>1. /\ pc[w] \in DOMAIN Statements
           \union {"set_frozen", "record", "forget_board", "forget_list",
                   "deliver", "store_list"}
      /\ Advance(w)
  BY DEF Change, SetFrozen, Record, ForgetCache, Deliver, StoreList, At
<1>2. pc[w] # "idle"
  BY <1>1 DEF Statements
<1>3. pc[w] \in DOMAIN After[op[w]]
  BY <1>1, <1>2, Busy, StepsInTable
<1> QED BY <1>1, <1>2, <1>3, AdvanceThreads

\* The steps of the two reads, and the broadcast that opens one.
LEMMA ReaderThreads ==
  ASSUME ThreadsOK, NEW w \in Workers,
         \/ BeginBroadcast(w) \/ CheckFreeze(w) \/ Look(w) \/ ReadTotal(w)
         \/ ReadScores(w) \/ Store(w) \/ LookList(w) \/ ReadRows(w)
  PROVE  ThreadsOK'
<1>1. CASE \/ BeginBroadcast(w) \/ CheckFreeze(w) \/ Look(w) \/ ReadTotal(w)
           \/ ReadScores(w) \/ Store(w)
  <2>1. PICK s \in Inside : Goto(w, s)
    BY <1>1 DEF BeginBroadcast, CheckFreeze, Look, ReadTotal, ReadScores,
                Store, Inside
  <2>2. pc[w] \in Inside \union {"broadcast"} /\ pc[w] # "idle"
    BY <1>1 DEF BeginBroadcast, CheckFreeze, Look, ReadTotal, ReadScores,
                Store, Inside, At
  <2>3. s \in StepsOf(op[w])
    BY <2>1, <2>2, Busy, StepsTogether
  <2> QED BY <2>1, <2>3, GotoThreads
<1>2. CASE LookList(w) \/ ReadRows(w)
  <2>1. pc[w] \in {"look_list", "read_rows"}
    BY <1>2 DEF LookList, ReadRows, At
  <2>2. {"read_rows", "store_list"} \subseteq StepsOf(op[w])
    BY <2>1, Busy, StepsTogether
  <2>3. CASE Goto(w, "read_rows") \/ Goto(w, "store_list")
    BY <2>2, <2>3, GotoThreads
  <2>4. CASE /\ pc' = [pc EXCEPT ![w] = "idle"]
             /\ op' = [op EXCEPT ![w] = "none"]
    BY <2>4, RestThreads
  <2> QED BY <1>2, <2>3, <2>4 DEF LookList, ReadRows
<1> QED BY <1>1, <1>2

\* A broadcast that sends nothing goes on with the step after its delivery.
LEMMA SkipThreads ==
  ASSUME ThreadsOK, NEW w \in Workers, SkipBroadcast(w)
  PROVE  ThreadsOK'
<1> DEFINE onward == After[op[w]]["deliver"]
<1>1. pc[w] \in Inside /\ pc[w] # "idle"
  BY DEF SkipBroadcast, Unsendable, Inside
<1>2. op[w] \in DOMAIN Start /\ Inside \subseteq StepsOf(op[w])
      /\ "deliver" \in DOMAIN After[op[w]]
  BY <1>1, Busy, StepsTogether
<1>3. onward \in StepsOf(op[w]) \union {"idle"} /\ "idle" \notin StepsOf(op[w])
  BY <1>2, StepsInTable DEF Inside
<1>4. /\ pc' = [pc EXCEPT ![w] = onward]
      /\ op' = [op EXCEPT ![w] = IF onward = "idle" THEN "none" ELSE @]
  BY DEF SkipBroadcast, ThreadsOK
<1>5. StepsOf("none") = {"idle"}
  BY DEF StepsOf, Broadcasters
<1>6. \A v \in Workers : pc'[v] \in StepsOf(op'[v])
  BY <1>2, <1>3, <1>4, <1>5 DEF ThreadsOK
<1> HIDE DEF onward
<1> QED BY <1>2, <1>4, <1>6 DEF ThreadsOK

\* A request begins at a step of its handler.
LEMMA AcceptThreads ==
  ASSUME ThreadsOK, NEW w \in Workers, Accept(w)
  PROVE  ThreadsOK'
<1>1. PICK o \in Operations : /\ op' = [op EXCEPT ![w] = o]
                              /\ pc' = [pc EXCEPT ![w] = Start[o]]
  BY DEF Accept
<1>2. o \in DOMAIN Start
  BY ConstantsAssumption DEF ConstantsAssumption
<1>3. \A v \in Workers : pc'[v] \in StepsOf(op'[v])
  BY <1>1, <1>2, StartInSteps DEF ThreadsOK
<1> QED BY <1>1, <1>2, <1>3 DEF ThreadsOK

\* Every step keeps every worker at a step of the handler it serves.
LEMMA ThreadsStep ==
  ASSUME ThreadsOK, [Next]_vars
  PROVE  ThreadsOK'
<1>1. CASE UNCHANGED vars
  BY <1>1 DEF ThreadsOK, vars
<1>2. CASE Next
  <2>1. PICK w \in Workers :
          Accept(w) \/ WriterStep(w) \/ BoardStep(w) \/ ListStep(w)
          \/ SkipBroadcast(w) \/ Abort(w)
    BY <1>2 DEF Next
  <2>2. CASE Abort(w)
    BY <2>2, RestThreads DEF Abort
  <2> QED
    BY <2>1, <2>2, AcceptThreads, WriterThreads, ReaderThreads, SkipThreads
    DEF WriterStep, BoardStep, ListStep
<1> QED BY <1>1, <1>2

\* What a copy lacks stays a set of workers for each part.
LEMMA LackingType ==
  ASSUME NEW copy \in Copy, NEW P, NEW w \in Workers
  PROVE  Lacking(copy, P, w) \in Copy
BY DEF Lacking, Copy

\* The memory of a worker at rest is one.
LEMMA BlankType == Blank \in Memory
BY DEF Blank, Memory, Copy, Fresh

\* So is what a worker goes on with.
LEMMA RememberedType ==
  ASSUME NEW w, NEW m \in Memory
  PROVE  Remembered(w, m) \in Memory
BY BlankType DEF Remembered

\* An invalidation: the cache is empty, nothing of it is raced or lapsed.
LEMMA ForgetData ==
  ASSUME DataOK, NEW w \in Workers, NEW c \in Caches, NEW m \in Memory,
         Forget(w, c), mem' = Overtaken(w, c, m), UNCHANGED frozen
  PROVE  DataOK'
<1>1. cache' \in [Caches -> Copy \union {NoCopy}]
  BY DEF DataOK, Forget, Forgotten
<1>2. mem' \in [Workers -> Memory]
  BY DEF DataOK, Overtaken, Memory
<1>3. raced' \in [Caches -> BOOLEAN] /\ lapsed' \in [Caches -> SUBSET Workers]
  BY DEF DataOK, Forget
<1> QED BY <1>1, <1>2, <1>3 DEF DataOK

\* A statement changes copies to copies and debts to debts.
LEMMA ChangeData ==
  ASSUME DataOK, NEW w \in Workers, Change(w)
  PROVE  DataOK'
<1>1. PICK P \in {{}, Statements[pc[w]] \intersect Parts} :
       /\ cache' = [c \in Caches |->
            IF cache[c] = NoCopy
            THEN NoCopy ELSE Lacking(cache[c], P \intersect Covers[c], w)]
       /\ mem' = [v \in Workers |->
            IF v = w
            THEN [mem[w] EXCEPT !.owes = @ \union OwedFor(P)]
            ELSE [mem[v] EXCEPT
                    !.copy = Lacking(@, P \intersect HasRead(v), w)]]
  BY DEF Change
<1>2. cache' \in [Caches -> Copy \union {NoCopy}]
  BY <1>1, LackingType DEF DataOK
<1>3. \A v \in Workers : mem'[v] \in Memory
  <2> TAKE v \in Workers
  <2>1. mem[v] \in Memory /\ mem[w] \in Memory
    BY DEF DataOK
  <2>2. CASE v = w
    <3>1. OwedFor(P) \subseteq Caches
      BY DEF OwedFor
    <3> QED BY <1>1, <2>1, <2>2, <3>1 DEF Memory
  <2>3. CASE v # w
    <3>1. Lacking(mem[v].copy, P \intersect HasRead(v), w) \in Copy
      BY <2>1, LackingType DEF Memory
    <3> QED BY <1>1, <2>1, <2>3, <3>1 DEF Memory
  <2> QED BY <2>2, <2>3
<1>4. mem' \in [Workers -> Memory]
  BY <1>1, <1>3
<1> QED BY <1>2, <1>4 DEF DataOK, Change

\* Every step keeps the caches and the memories in their kinds.
LEMMA DataStep ==
  ASSUME ThreadsOK, DataOK, [Next]_vars
  PROVE  DataOK'
<1>1. CASE UNCHANGED vars
  BY <1>1 DEF DataOK, vars
<1>2. CASE Next
  <2>1. PICK w \in Workers :
          Accept(w) \/ WriterStep(w) \/ BoardStep(w) \/ ListStep(w)
          \/ SkipBroadcast(w) \/ Abort(w)
    BY <1>2 DEF Next
  <2>2. mem[w] \in Memory /\ Blank \in Memory /\ Fresh \in Copy
    BY BlankType DEF DataOK, Fresh, Copy
  <2>3. CASE Accept(w)
    BY <2>2, <2>3 DEF Accept, DataOK, Memory
  <2>4. CASE Change(w)
    BY <2>4, ChangeData
  <2>5. CASE SetFrozen(w)
    <3>1. mem' \in [Workers -> Memory]
      BY <2>5 DEF SetFrozen, DataOK, Memory
    <3> QED BY <2>5, <3>1 DEF SetFrozen, DataOK
  <2>6. CASE Record(w)
    BY <2>2, <2>6, RememberedType DEF Record, DataOK
  <2>7. CASE ForgetCache(w)
    <3>1. PICK c \in Caches :
            /\ Forget(w, c)
            /\ mem' = Overtaken(w, c,
                 Remembered(w, [mem[w] EXCEPT !.owes = @ \ {c}]))
            /\ UNCHANGED frozen
      BY <2>7 DEF ForgetCache
    <3>2. [mem[w] EXCEPT !.owes = @ \ {c}] \in Memory
      BY <2>2 DEF Memory
    <3> QED BY <3>1, <3>2, RememberedType, ForgetData
  <2>8. CASE BeginBroadcast(w)
    <3>1. [mem[w] EXCEPT !.owes = @ \ {"board"}] \in Memory
      BY <2>2 DEF Memory
    <3> QED BY <2>8, <3>1, ForgetData DEF BeginBroadcast, Caches
  <2>9. CASE CheckFreeze(w) \/ ReadTotal(w) \/ ReadScores(w) \/ ReadRows(w)
    BY <2>9 DEF CheckFreeze, ReadTotal, ReadScores, ReadRows, DataOK
  <2>10. CASE Look(w)
    <3>1. cache["board"] \in Copy \union {NoCopy} /\ raced["board"] \in BOOLEAN
      BY DEF DataOK, Caches
    <3>2. mem' \in [Workers -> Memory]
      BY <2>2, <2>10, <3>1 DEF Look, DataOK, Memory
    <3> QED BY <2>10, <3>2 DEF Look, DataOK
  <2>11. CASE Store(w) \/ StoreList(w)
    <3>1. mem[w].copy \in Copy /\ mem[w].overtaken \in BOOLEAN
      BY <2>2 DEF Memory
    <3>2. CASE Store(w)
      <4>1. mem' \in [Workers -> Memory]
        BY <3>2 DEF Store, DataOK, Memory
      <4> QED BY <3>1, <3>2, <4>1 DEF Store, DataOK
    <3>3. CASE StoreList(w)
      <4>1. mem' \in [Workers -> Memory]
        BY <2>2, <3>3, RememberedType DEF StoreList, DataOK
      <4> QED BY <3>1, <3>3, <4>1 DEF StoreList, DataOK
    <3> QED BY <2>11, <3>2, <3>3
  <2>12. CASE Deliver(w)
    <3> DEFINE m == [mem[w] EXCEPT !.copy = Fresh, !.live = FALSE,
                                   !.raced = FALSE]
    <3>1. m \in Memory
      BY <2>2 DEF Memory
    <3>2. mem' = [mem EXCEPT ![w] = Remembered(w, m)]
      BY <2>12 DEF Deliver, DataOK
    <3> HIDE DEF m
    <3> QED BY <2>12, <3>1, <3>2, RememberedType DEF Deliver, DataOK
  <2>13. CASE LookList(w)
    BY <2>2, <2>13 DEF LookList, DataOK
  <2>14. CASE SkipBroadcast(w)
    <3>1. mem' \in [Workers -> Memory]
      BY <2>2, <2>14 DEF SkipBroadcast, DataOK, Memory
    <3> QED BY <2>14, <3>1 DEF SkipBroadcast, DataOK
  <2>15. CASE Abort(w)
    <3>1. lapsed' \in [Caches -> SUBSET Workers]
      BY <2>15 DEF Abort, DataOK
    <3> QED BY <2>2, <2>15, <3>1 DEF Abort, DataOK
  <2> QED
    BY <2>1, <2>3, <2>4, <2>5, <2>6, <2>7, <2>8, <2>9, <2>10, <2>11, <2>12,
       <2>13, <2>14, <2>15 DEF WriterStep, BoardStep, ListStep
<1> QED BY <1>1, <1>2

\* Another worker's step leaves a worker at rest as it is.
LEMMA RestUndisturbed ==
  ASSUME DataOK, NEW v \in Workers, mem[v] = Blank, At(v, "idle")
  PROVE  /\ HasRead(v) = {}
         /\ \A P, w : [mem[v] EXCEPT
              !.copy = Lacking(@, P \intersect HasRead(v), w)] = Blank
         /\ \A C : [mem[v] EXCEPT
              !.overtaken = @ \/ HasRead(v) \intersect C # {}] = Blank
<1>1. HasRead(v) = {}
  BY DEF HasRead, At
<1>2. \A w : Lacking(Fresh, {}, w) = Fresh
  BY DEF Lacking, Fresh
<1>3. \A P : P \intersect {} = {} /\ {} \intersect P = {}
  OBVIOUS
<1>4. mem[v] \in Memory
  BY DEF DataOK
<1>0. mem[v].copy = Fresh /\ mem[v].overtaken = FALSE
  BY DEF Blank
<1>5. ASSUME NEW P, NEW w
      PROVE  [mem[v] EXCEPT
                !.copy = Lacking(@, P \intersect HasRead(v), w)] = Blank
  <2>1. Lacking(mem[v].copy, P \intersect HasRead(v), w) = mem[v].copy
    BY <1>0, <1>1, <1>2, <1>3, <1>4
  <2> QED BY <1>4, <2>1 DEF Memory
<1>6. ASSUME NEW C
      PROVE  [mem[v] EXCEPT
                !.overtaken = @ \/ HasRead(v) \intersect C # {}] = Blank
  <2>1. (mem[v].overtaken \/ HasRead(v) \intersect C # {})
          = mem[v].overtaken
    BY <1>0, <1>1, <1>3, <1>4
  <2> QED BY <1>4, <2>1 DEF Memory
<1> QED BY <1>1, <1>5, <1>6

\* A step of worker w.
Moves(w) ==
  \/ Accept(w) \/ WriterStep(w) \/ BoardStep(w) \/ ListStep(w)
  \/ SkipBroadcast(w) \/ Abort(w)

\* What another worker's step can do to a worker: add to what its copy lacks
\* (Change), tell history that its copy was overtaken (an invalidation) or that
\* no freeze has lasted since its request came in (SetFrozen).
LEMMA OthersKeep ==
  ASSUME TypeOK, NEW w \in Workers, Moves(w),
         NEW v \in Workers, v # w
  PROVE  /\ pc'[v] = pc[v] /\ op'[v] = op[v]
         /\ mem'[v].live = mem[v].live
         /\ mem'[v].raced = mem[v].raced
         /\ mem'[v].owes = mem[v].owes
         /\ mem[v].overtaken => mem'[v].overtaken
         /\ mem'[v].cold => mem[v].cold
         /\ At(v, "idle") => mem'[v] = Blank
<1>1. pc'[v] = pc[v] /\ op'[v] = op[v]
  BY DEF Moves, WriterStep, BoardStep, ListStep, Accept, Change, SetFrozen,
    Record, ForgetCache, BeginBroadcast, CheckFreeze, Look, ReadTotal,
    ReadScores, Store, Deliver, LookList, ReadRows, StoreList, SkipBroadcast,
    Abort, Advance, Goto, TypeOK, ThreadsOK
<1>2. mem[v] \in Memory /\ (At(v, "idle") => mem[v] = Blank)
  BY DEF TypeOK, DataOK, AtRestBlank
<1>3. CASE mem'[v] = mem[v]
  BY <1>1, <1>2, <1>3
<1>4. CASE Change(w)
  <2>1. PICK P : mem'[v] = [mem[v] EXCEPT
                   !.copy = Lacking(@, P \intersect HasRead(v), w)]
    BY <1>4 DEF Change
  <2> QED BY <1>1, <1>2, <2>1, RestUndisturbed DEF Memory, TypeOK
<1>5. CASE SetFrozen(w)
  <2>1. mem'[v] = [mem[v] EXCEPT !.cold = frozen' /\ (@ \/ v = w)]
    BY <1>5 DEF SetFrozen
  <2>2. mem'[v].cold => mem[v].cold
    BY <1>2, <2>1 DEF Memory
  <2>3. At(v, "idle") => mem'[v] = Blank
    <3>1. (frozen' /\ (FALSE \/ v = w)) = FALSE
      OBVIOUS
    <3>2. mem[v] = Blank => mem[v].cold = FALSE
      BY DEF Blank
    <3>3. mem[v] = Blank => mem'[v] = [mem[v] EXCEPT !.cold = FALSE]
      BY <2>1, <3>1, <3>2
    <3>4. mem[v] = Blank => mem'[v] = mem[v]
      BY <1>2, <3>2, <3>3 DEF Memory
    <3> QED BY <1>2, <3>4
  <2>4. /\ mem'[v].live = mem[v].live
        /\ mem'[v].raced = mem[v].raced
        /\ mem'[v].owes = mem[v].owes
        /\ mem'[v].overtaken = mem[v].overtaken
    BY <1>2, <2>1 DEF Memory
  <2> QED BY <1>1, <2>2, <2>3, <2>4
<1>6. CASE ForgetCache(w) \/ BeginBroadcast(w)
  <2>1. PICK C : mem'[v] = [mem[v] EXCEPT
                   !.overtaken = @ \/ HasRead(v) \intersect C # {}]
    BY <1>6 DEF ForgetCache, BeginBroadcast, Overtaken
  <2>2. mem[v].overtaken => mem'[v].overtaken
    BY <1>2, <2>1 DEF Memory
  <2>3. At(v, "idle") => mem'[v] = Blank
    BY <1>2, <2>1, RestUndisturbed DEF TypeOK
  <2> QED BY <1>1, <1>2, <2>1, <2>2, <2>3 DEF Memory
<1> QED
  <2>1. CASE Accept(w) \/ Record(w) \/ Look(w) \/ Store(w) \/ Deliver(w)
             \/ LookList(w) \/ StoreList(w) \/ SkipBroadcast(w) \/ Abort(w)
    <3>1. mem'[v] = mem[v]
      BY <2>1 DEF Accept, Record, Look, Store, Deliver, LookList, StoreList,
        SkipBroadcast, Abort, TypeOK, DataOK
    <3> QED BY <1>3, <3>1
  <2>2. CASE CheckFreeze(w) \/ ReadTotal(w) \/ ReadScores(w) \/ ReadRows(w)
    BY <1>3, <2>2 DEF CheckFreeze, ReadTotal, ReadScores, ReadRows
  <2> QED
    BY <1>4, <1>5, <1>6, <2>1, <2>2
    DEF Moves, WriterStep, BoardStep, ListStep

\* A worker that comes to rest forgets what it has read.
LEMMA AtRestStep ==
  ASSUME TypeOK, [Next]_vars
  PROVE  AtRestBlank'
<1>1. CASE UNCHANGED vars
  BY <1>1 DEF TypeOK, AtRestBlank, vars, At
<1>2. CASE Next
  <2>1. PICK w \in Workers : Moves(w)
    BY <1>2 DEF Next, Moves
  <2> SUFFICES ASSUME NEW v \in Workers, pc'[v] = "idle"
               PROVE  mem'[v] = Blank
    BY DEF AtRestBlank, At
  <2>2. CASE v # w
    BY <2>1, <2>2, OthersKeep DEF At
  <2>3. CASE v = w
    <3>1. CASE Accept(w)
      <4>1. PICK o \in Operations : pc' = [pc EXCEPT ![w] = Start[o]]
        BY <3>1 DEF Accept
      <4>2. o \in DOMAIN Start
        BY ConstantsAssumption DEF ConstantsAssumption
      <4>3. Start[o] # "idle"
        BY <4>2, StartInSteps, StepsInTable
      <4> QED BY <2>3, <4>1, <4>3 DEF TypeOK, ThreadsOK
    <3>2. CASE Change(w)
      <4>1. pc[w] \in DOMAIN Statements /\ Following(w) = "idle"
        BY <2>3, <3>2 DEF Change, Advance, TypeOK, ThreadsOK
      <4>2. pc[w] # "idle"
        BY <4>1 DEF Statements
      <4>3. op[w] \in DOMAIN Start /\ pc[w] \in DOMAIN After[op[w]]
        BY <4>1, <4>2, Busy, StepsInTable DEF TypeOK
      <4> QED BY <4>1, <4>3 DEF Following, After, Statements, Start
    <3>3. CASE SetFrozen(w)
      <4>1. pc[w] = "set_frozen" /\ Following(w) = "idle"
        BY <2>3, <3>3 DEF SetFrozen, Advance, TypeOK, ThreadsOK, At
      <4>2. op[w] \in DOMAIN Start /\ pc[w] \in DOMAIN After[op[w]]
        BY <4>1, Busy, StepsInTable DEF TypeOK
      <4> QED BY <4>1, <4>2 DEF Following, After, Start
    <3>4. CASE Record(w) \/ ForgetCache(w) \/ Deliver(w) \/ StoreList(w)
      <4>1. Following(w) = "idle"
        BY <2>3, <3>4 DEF Record, ForgetCache, Deliver, StoreList, Advance,
          TypeOK, ThreadsOK
      <4>2. \A m : Remembered(w, m) = Blank
        BY <4>1 DEF Remembered
      <4>3. CASE ForgetCache(w)
        BY <2>3, <4>2, <4>3 DEF ForgetCache, Overtaken
      <4> QED
        BY <2>3, <3>4, <4>2, <4>3 DEF Record, Deliver, StoreList, TypeOK, DataOK
    <3>5. CASE BeginBroadcast(w) \/ CheckFreeze(w) \/ Look(w) \/ ReadTotal(w)
               \/ ReadScores(w) \/ Store(w) \/ ReadRows(w)
      BY <2>3, <3>5 DEF BeginBroadcast, CheckFreeze, Look, ReadTotal,
        ReadScores, Store, ReadRows, Goto, TypeOK, ThreadsOK
    <3>6. CASE LookList(w) \/ SkipBroadcast(w) \/ Abort(w)
      BY <2>3, <3>6 DEF LookList, SkipBroadcast, Abort, Goto, TypeOK,
        ThreadsOK, DataOK
    <3> QED
      BY <2>1, <3>1, <3>2, <3>3, <3>4, <3>5, <3>6
      DEF Moves, WriterStep, BoardStep, ListStep
  <2> QED BY <2>2, <2>3
<1> QED BY <1>1, <1>2

\* The initial states are typed.
LEMMA InitTypes == Init => TypeOK
<1> SUFFICES ASSUME Init PROVE TypeOK
  OBVIOUS
<1>1. ThreadsOK
  BY DEF Init, ThreadsOK, StepsOf, Broadcasters
<1>2. DataOK
  BY BlankType DEF Init, DataOK
<1> QED BY <1>1, <1>2 DEF Init, TypeOK, AtRestBlank

\* Every step keeps the state typed.
LEMMA TypeStep == TypeOK /\ [Next]_vars => TypeOK'
BY ThreadsStep, DataStep, AtRestStep DEF TypeOK

\* TypeOK, for any number of workers and every kind of request.
THEOREM TypeCorrect == Spec => []TypeOK
BY InitTypes, TypeStep, PTL DEF Spec

-----------------------------------------------------------------------------
(* What a worker owes lies ahead of it.                                    *)

\* The caches that a handler of kind o may owe an invalidation at step s, and
\* that it is to invalidate from there.
Ahead(o, s) ==
  {c \in Caches :
     \/ /\ c = "board"
        /\ \/ s \in {"write_points", "recalculate", "forget_board"}
           \/ s = "record" /\ o \in {"unlock_hint", "delete_challenge",
                                     "disqualify", "create_team",
                                     "import_bundle"}
           \/ s = "forget_list" /\ o \in {"update_challenge",
                                          "delete_challenge", "import_bundle"}
     \/ /\ c = "list"
        /\ \/ s = "forget_list"
           \/ s \in {"write_points", "recalculate"}
                /\ o \in {"update_challenge", "delete_challenge"}
           \/ s = "record" /\ o \in {"create_challenge", "delete_challenge",
                                     "import_bundle"}}

\* What a worker owes it is still going to invalidate.
OwesAhead == \A w \in Workers : mem[w].owes \subseteq Ahead(op[w], pc[w])

\* A statement's debts lie ahead of it, and each step but the invalidation
\* itself leaves them ahead.
LEMMA AheadMoves ==
  ASSUME NEW o \in DOMAIN Start, NEW s \in DOMAIN After[o], NEW c \in Caches
  PROVE  /\ s \in DOMAIN Statements /\ c \in OwedFor(Statements[s])
              => c \in Ahead(o, After[o][s])
         /\ (/\ c \in Ahead(o, s)
             /\ s # (IF c = "board" THEN "forget_board" ELSE "forget_list"))
              => c \in Ahead(o, After[o][s])
BY DEF Start, After, Statements, OwedFor, Ahead, Caches, Covers

\* Nothing is owed at rest, while reading, or from the broadcast on.
LEMMA AheadNone ==
  ASSUME NEW o, NEW s \in Inside \union {"idle", "broadcast", "set_frozen",
                          "look_list", "read_rows", "store_list"}
  PROVE  Ahead(o, s) = {}
BY DEF Ahead, Inside

\* A statement that changes more owes more.
LEMMA OwedForGrows ==
  ASSUME NEW P, NEW Q, P \subseteq Q
  PROVE  OwedFor(P) \subseteq OwedFor(Q)
BY DEF OwedFor

\* The debts that lie ahead of the step a worker goes on to lie ahead of it.
LEMMA AdvanceOwes ==
  ASSUME TypeOK, NEW w \in Workers, Advance(w),
         mem'[w].owes \subseteq Ahead(op[w], Following(w))
  PROVE  mem'[w].owes \subseteq Ahead(op'[w], pc'[w])
<1>1. pc'[w] = Following(w)
  BY DEF Advance, TypeOK, ThreadsOK
<1>2. CASE Following(w) = "idle"
  BY <1>1, <1>2, AheadNone
<1>3. CASE Following(w) # "idle"
  BY <1>1, <1>3 DEF Advance, TypeOK, ThreadsOK
<1> QED BY <1>2, <1>3

\* A worker's own step leaves what it owes ahead of it.
LEMMA OwesOwnStep ==
  ASSUME TypeOK, OwesAhead, NEW w \in Workers, Moves(w)
  PROVE  mem'[w].owes \subseteq Ahead(op'[w], pc'[w])
<1>1. mem[w] \in Memory /\ mem[w].owes \subseteq Ahead(op[w], pc[w])
  BY DEF TypeOK, DataOK, OwesAhead
<1>2. Blank.owes = {} /\ mem[w].owes \subseteq Caches
  BY <1>1 DEF Blank, Memory
<1>3. CASE Change(w)
  <2>1. PICK P \in {{}, Statements[pc[w]] \intersect Parts} :
          mem'[w] = [mem[w] EXCEPT !.owes = @ \union OwedFor(P)]
    BY <1>3 DEF Change
  <2>2. pc[w] \in DOMAIN Statements /\ pc[w] # "idle"
    BY <1>3 DEF Change, Statements
  <2>3. op[w] \in DOMAIN Start /\ pc[w] \in DOMAIN After[op[w]]
    BY <2>2, Busy, StepsInTable DEF TypeOK
  <2>4. OwedFor(P) \subseteq OwedFor(Statements[pc[w]])
    BY <2>1, OwedForGrows
  <2>5. mem'[w].owes \subseteq mem[w].owes \union OwedFor(P)
    BY <1>1, <2>1 DEF Memory
  <2>6. OwedFor(P) \subseteq Caches
    BY DEF OwedFor
  <2>7. pc[w] \notin {"forget_board", "forget_list"}
    BY <2>2 DEF Statements
  <2>8. mem'[w].owes \subseteq Ahead(op[w], Following(w))
    BY <1>1, <1>2, <2>2, <2>3, <2>4, <2>5, <2>6, <2>7, AheadMoves DEF Following
  <2> QED BY <1>3, <2>8, AdvanceOwes DEF Change
<1>4. CASE Record(w)
  <2>1. op[w] \in DOMAIN Start /\ pc[w] \in DOMAIN After[op[w]]
        /\ pc[w] = "record"
    BY <1>4, Busy, StepsInTable DEF TypeOK, Record, At
  <2>2. mem'[w] = Remembered(w, mem[w])
    BY <1>4 DEF Record, TypeOK, DataOK
  <2>3. mem'[w].owes \subseteq mem[w].owes
    BY <1>2, <2>2 DEF Remembered
  <2>4. mem'[w].owes \subseteq Ahead(op[w], Following(w))
    BY <1>1, <1>2, <2>1, <2>3, AheadMoves DEF Following
  <2> QED BY <1>4, <2>4, AdvanceOwes DEF Record
<1>5. CASE ForgetCache(w)
  <2>1. PICK c \in Caches :
          /\ At(w, IF c = "board" THEN "forget_board" ELSE "forget_list")
          /\ mem' = Overtaken(w, c,
               Remembered(w, [mem[w] EXCEPT !.owes = @ \ {c}]))
    BY <1>5 DEF ForgetCache
  <2>2. op[w] \in DOMAIN Start /\ pc[w] \in DOMAIN After[op[w]]
    BY <2>1, Busy, StepsInTable DEF TypeOK, At
  <2>3. mem'[w] = Remembered(w, [mem[w] EXCEPT !.owes = @ \ {c}])
    BY <2>1 DEF Overtaken
  <2>4. [mem[w] EXCEPT !.owes = @ \ {c}].owes = mem[w].owes \ {c}
    BY <1>1 DEF Memory
  <2>5. mem'[w].owes \subseteq mem[w].owes \ {c}
    BY <1>2, <2>3, <2>4 DEF Remembered
  <2>6. \A d \in Caches \ {c} :
          pc[w] # (IF d = "board" THEN "forget_board" ELSE "forget_list")
    BY <2>1 DEF Caches, At
  <2>7. mem'[w].owes \subseteq Ahead(op[w], Following(w))
    BY <1>1, <1>2, <2>2, <2>5, <2>6, AheadMoves DEF Following
  <2> QED BY <1>5, <2>7, AdvanceOwes DEF ForgetCache
<1>6. CASE \/ Accept(w) \/ SetFrozen(w) \/ BeginBroadcast(w) \/ BoardStep(w)
           \/ ListStep(w) \/ SkipBroadcast(w)
  <2>1. mem[w].owes = {}
    BY <1>1, <1>6, AheadNone DEF Accept, SetFrozen, BeginBroadcast, BoardStep,
      ListStep, SkipBroadcast, CheckFreeze, Look, ReadTotal, ReadScores,
      Store, Deliver, LookList, ReadRows, StoreList, Unsendable, At, Inside
  <2>2. CASE Accept(w) \/ SetFrozen(w) \/ Look(w) \/ Store(w)
    BY <1>1, <2>1, <2>2 DEF Accept, SetFrozen, Look, Store, TypeOK, DataOK,
      Memory
  <2>3. CASE BeginBroadcast(w)
    <3>1. mem'[w] = [mem[w] EXCEPT !.owes = @ \ {"board"}]
      BY <2>3 DEF BeginBroadcast, Overtaken
    <3> QED BY <1>1, <2>1, <3>1 DEF Memory
  <2>4. CASE CheckFreeze(w) \/ ReadTotal(w) \/ ReadScores(w) \/ ReadRows(w)
    BY <2>1, <2>4 DEF CheckFreeze, ReadTotal, ReadScores, ReadRows
  <2>5. CASE Deliver(w)
    <3> DEFINE m == [mem[w] EXCEPT !.copy = Fresh, !.live = FALSE,
                                   !.raced = FALSE]
    <3>1. m.owes = {}
      BY <1>1, <2>1 DEF Memory
    <3>2. mem' = [mem EXCEPT ![w] = Remembered(w, m)]
      BY <2>5 DEF Deliver, TypeOK, DataOK
    <3> HIDE DEF m
    <3> QED BY <1>2, <3>1, <3>2 DEF Remembered, TypeOK, DataOK
  <2>6. CASE StoreList(w) \/ LookList(w)
    BY <1>2, <2>1, <2>6 DEF StoreList, LookList, Remembered, TypeOK, DataOK
  <2>7. CASE SkipBroadcast(w)
    BY <1>1, <1>2, <2>1, <2>7 DEF SkipBroadcast, TypeOK, DataOK, Memory
  <2> QED
    BY <1>6, <2>2, <2>3, <2>4, <2>5, <2>6, <2>7 DEF BoardStep, ListStep
<1>7. CASE Abort(w)
  BY <1>2, <1>7 DEF Abort, TypeOK, DataOK
<1> QED
  BY <1>3, <1>4, <1>5, <1>6, <1>7 DEF Moves, WriterStep

\* Every step leaves every worker's debts ahead of it.
LEMMA OwesAheadStep ==
  ASSUME TypeOK, OwesAhead, [Next]_vars
  PROVE  OwesAhead'
<1>1. CASE UNCHANGED vars
  BY <1>1 DEF OwesAhead, vars
<1>2. CASE Next
  <2>1. PICK w \in Workers : Moves(w)
    BY <1>2 DEF Next, Moves
  <2>2. \A v \in Workers : mem'[v].owes \subseteq Ahead(op'[v], pc'[v])
    BY <2>1, OwesOwnStep, OthersKeep DEF OwesAhead
  <2> QED BY <2>2 DEF OwesAhead
<1> QED BY <1>1, <1>2

-----------------------------------------------------------------------------
(* The caches.                                                             *)

\* Every change missing from the copy is owed, or was given up, by its worker.
Excused(c, copy) ==
  \A p \in Covers[c] \ {"total"} : \A w \in copy[p] :
    c \in mem[w].owes \/ w \in lapsed[c]

\* So is what a fill under way has read, unless it was overtaken.
InFlight ==
  \A v \in Workers : ~mem[v].overtaken =>
    /\ At(v, "store")      => Excused("board", mem[v].copy)
    /\ At(v, "store_list") => Excused("list", mem[v].copy)

\* What a fill has not read yet lacks nothing.
Unread ==
  \A v \in Workers :
    /\ pc[v] \in {"read_total", "read_scores"} =>
         \A p \in Parts \intersect {"scores"} : mem[v].copy[p] = {}
    /\ pc[v] \in {"look_list", "read_rows"} =>
         \A p \in Parts \intersect {"rows"} : mem[v].copy[p] = {}

\* w's change is still to be invalidated in c, or never will be by w.
Excuse(c, w) == c \in mem[w].owes \/ w \in lapsed[c]

\* w's step is an invalidation of c.
Forgets(w, c) ==
  \/ ForgetCache(w) /\ pc[w] = IF c = "board" THEN "forget_board"
                                               ELSE "forget_list"
  \/ BeginBroadcast(w) /\ c = "board"

\* An invalidation empties the cache and overtakes whoever has read for it.
LEMMA Invalidation ==
  ASSUME TypeOK, NEW w \in Workers, NEW c \in Caches, Forgets(w, c)
  PROVE  /\ cache'[c] = NoCopy
         /\ \A v \in Workers : v # w /\ HasRead(v) \intersect Covers[c] # {}
              => mem'[v].overtaken
         /\ pc'[w] \notin {"store", "store_list"}
<1>1. PICK m : Forget(w, c) /\ mem' = Overtaken(w, c, m)
  BY DEF Forgets, ForgetCache, BeginBroadcast, Caches, At
<1>2. \A v \in Workers : v # w /\ HasRead(v) \intersect Covers[c] # {}
        => mem'[v].overtaken
  <2> TAKE v \in Workers
  <2>1. mem[v] \in Memory
    BY DEF TypeOK, DataOK
  <2>2. v # w => mem'[v] = [mem[v] EXCEPT
                   !.overtaken = @ \/ HasRead(v) \intersect Covers[c] # {}]
    BY <1>1 DEF Overtaken
  <2> QED BY <2>1, <2>2 DEF Memory
<1>3. pc'[w] \notin {"store", "store_list"}
  <2>1. CASE BeginBroadcast(w)
    BY <2>1 DEF BeginBroadcast, Goto, TypeOK, ThreadsOK
  <2>2. CASE ForgetCache(w)
    <3>1. pc[w] \in {"forget_board", "forget_list"} /\ pc'[w] = Following(w)
      BY <2>2 DEF ForgetCache, At, Advance, TypeOK, ThreadsOK
    <3>2. op[w] \in DOMAIN Start /\ pc[w] \in DOMAIN After[op[w]]
      BY <3>1, Busy, StepsInTable DEF TypeOK
    <3> QED BY <3>1, <3>2 DEF Following, After, Start
  <2> QED BY <2>1, <2>2 DEF Forgets
<1> QED BY <1>1, <1>2, <1>3 DEF Forget, Forgotten, TypeOK, DataOK

\* Only the invalidation of c ends an excuse for what c lacks: a worker that
\* stops owing has given up, and none comes to rest while it owes.
LEMMA ExcuseKept ==
  ASSUME TypeOK, OwesAhead, NEW w \in Workers, Moves(w),
         NEW c \in Caches, ~Forgets(w, c),
         NEW v \in Workers, Excuse(c, v)
  PROVE  Excuse(c, v)'
<1>1. /\ mem[v] \in Memory /\ mem[w] \in Memory
      /\ mem[v].owes \subseteq Ahead(op[v], pc[v])
  BY DEF TypeOK, DataOK, OwesAhead
<1>2. v \in lapsed[c] => v \in lapsed'[c]
  <2>1. CASE ForgetCache(w)
    <3>1. PICK d \in Caches :
            /\ At(w, IF d = "board" THEN "forget_board" ELSE "forget_list")
            /\ Forget(w, d)
      BY <2>1 DEF ForgetCache
    <3>2. c # d
      BY <2>1, <3>1 DEF Forgets, At
    <3> QED BY <3>1, <3>2 DEF Forget, TypeOK, DataOK
  <2>2. CASE BeginBroadcast(w)
    BY <2>2 DEF BeginBroadcast, Forget, Forgets, TypeOK, DataOK
  <2>3. CASE Abort(w)
    BY <2>3 DEF Abort
  <2>4. CASE ~ForgetCache(w) /\ ~BeginBroadcast(w) /\ ~Abort(w)
    BY <2>4 DEF Moves, WriterStep, BoardStep, ListStep, Accept, Change,
      SetFrozen, Record, CheckFreeze, Look, ReadTotal, ReadScores, Store,
      Deliver, LookList, ReadRows, StoreList, SkipBroadcast
  <2> QED BY <2>1, <2>2, <2>3, <2>4
<1>3. c \in mem[v].owes => c \in mem'[v].owes \/ v \in lapsed'[c]
  <2>1. CASE v # w
    BY <2>1, OthersKeep
  <2>2. CASE v = w
    <3>1. CASE Change(w)
      <4>1. PICK P : mem'[w] = [mem[w] EXCEPT !.owes = @ \union OwedFor(P)]
        BY <3>1 DEF Change
      <4> QED BY <1>1, <2>2, <4>1 DEF Memory
    <3>2. CASE Record(w)
      <4>1. pc[w] = "record" /\ pc[w] # "idle"
        BY <3>2 DEF Record, At
      <4>2. op[w] \in DOMAIN Start /\ pc[w] \in DOMAIN After[op[w]]
        BY <4>1, Busy, StepsInTable DEF TypeOK
      <4>3. c \in mem[w].owes => c \in Ahead(op[w], Following(w))
        BY <1>1, <2>2, <4>1, <4>2, AheadMoves DEF Following
      <4>4. c \in mem[w].owes => Following(w) # "idle"
        BY <4>3, AheadNone
      <4> QED BY <2>2, <3>2, <4>4 DEF Record, Remembered, TypeOK, DataOK
    <3>3. CASE ForgetCache(w)
      <4>1. PICK d \in Caches :
              /\ At(w, IF d = "board" THEN "forget_board" ELSE "forget_list")
              /\ mem' = Overtaken(w, d,
                   Remembered(w, [mem[w] EXCEPT !.owes = @ \ {d}]))
        BY <3>3 DEF ForgetCache
      <4>2. c # d /\ pc[w] # "idle"
            /\ pc[w] # (IF c = "board" THEN "forget_board" ELSE "forget_list")
        BY <3>3, <4>1 DEF Forgets, At
      <4>3. op[w] \in DOMAIN Start /\ pc[w] \in DOMAIN After[op[w]]
        BY <4>1, <4>2, Busy, StepsInTable DEF TypeOK, At
      <4>4. c \in mem[w].owes => c \in Ahead(op[w], Following(w))
        BY <1>1, <2>2, <4>2, <4>3, AheadMoves DEF Following
      <4>5. c \in mem[w].owes => Following(w) # "idle"
        BY <4>4, AheadNone
      <4>6. c \in mem[w].owes => mem'[w] = [mem[w] EXCEPT !.owes = @ \ {d}]
        BY <4>1, <4>5 DEF Overtaken, Remembered
      <4> QED BY <1>1, <2>2, <4>2, <4>6 DEF Memory
    <3>4. CASE \/ Accept(w) \/ SetFrozen(w) \/ BeginBroadcast(w)
               \/ BoardStep(w) \/ ListStep(w) \/ SkipBroadcast(w)
      <4>1. mem[w].owes = {}
        BY <1>1, <2>2, <3>4, AheadNone DEF Accept, SetFrozen, BeginBroadcast,
          BoardStep, ListStep, SkipBroadcast, CheckFreeze, Look, ReadTotal,
          ReadScores, Store, Deliver, LookList, ReadRows, StoreList,
          Unsendable, At, Inside
      <4> QED BY <2>2, <4>1
    <3>5. CASE Abort(w)
      BY <2>2, <3>5 DEF Abort
    <3> QED
      BY <3>1, <3>2, <3>3, <3>4, <3>5 DEF Moves, WriterStep
  <2> QED BY <2>1, <2>2
<1> QED BY <1>2, <1>3 DEF Excuse

\* What a statement adds to a copy is excused: its worker owes the invalidation.
LEMMA ChangeExcused ==
  ASSUME TypeOK, NEW w \in Workers, NEW P,
         mem'[w] = [mem[w] EXCEPT !.owes = @ \union OwedFor(P)],
         NEW c \in Caches, NEW p \in (P \intersect Covers[c]) \ {"total"}
  PROVE  Excuse(c, w)'
<1>1. c \in OwedFor(P)
  BY DEF OwedFor
<1>2. mem[w] \in Memory
  BY DEF TypeOK, DataOK
<1> QED BY <1>1, <1>2 DEF Excuse, Memory

\* The parts of a copy that a change adds to.
LEMMA LackingParts ==
  ASSUME NEW copy \in Copy, NEW P, NEW w \in Workers, NEW p \in Parts,
         NEW x \in Lacking(copy, P, w)[p]
  PROVE  x \in copy[p] \/ (x = w /\ p \in P)
BY DEF Lacking, Copy

\* The parts whose absence from a cached copy needs an excuse.
LEMMA CoversParts ==
  /\ Covers["board"] \ {"total"} = Parts \intersect {"scores"}
  /\ Covers["list"] \ {"total"} = Parts \intersect {"rows"}
  /\ \A c \in Caches : Covers[c] \subseteq Parts
BY DEF Covers, Caches

\* Another worker's copy changes only by a statement that changes what it has
\* read.
LEMMA OthersCopy ==
  ASSUME TypeOK, NEW w \in Workers, Moves(w), NEW v \in Workers, v # w,
         mem'[v].copy # mem[v].copy
  PROVE  \E P : /\ mem'[w] = [mem[w] EXCEPT !.owes = @ \union OwedFor(P)]
                /\ mem'[v].copy
                     = Lacking(mem[v].copy, P \intersect HasRead(v), w)
<1>1. mem[v] \in Memory
  BY DEF TypeOK, DataOK
<1>2. CASE Change(w)
  <2>1. PICK P :
          /\ mem'[w] = [mem[w] EXCEPT !.owes = @ \union OwedFor(P)]
          /\ mem'[v] = [mem[v] EXCEPT
                !.copy = Lacking(@, P \intersect HasRead(v), w)]
    BY <1>2 DEF Change
  <2>2. mem'[v].copy = Lacking(mem[v].copy, P \intersect HasRead(v), w)
    BY <1>1, <2>1 DEF Memory
  <2> QED BY <2>1, <2>2
<1>3. CASE SetFrozen(w)
  BY <1>1, <1>3 DEF SetFrozen, Memory
<1>4. CASE ForgetCache(w) \/ BeginBroadcast(w)
  BY <1>1, <1>4 DEF ForgetCache, BeginBroadcast, Overtaken, Memory
<1>5. CASE ~Change(w) /\ ~SetFrozen(w) /\ ~ForgetCache(w) /\ ~BeginBroadcast(w)
  BY <1>5 DEF Moves, WriterStep, BoardStep, ListStep, Accept, Record,
    CheckFreeze, Look, ReadTotal, ReadScores, Store, Deliver, LookList,
    ReadRows, StoreList, SkipBroadcast, Abort, TypeOK, DataOK
<1> QED BY <1>2, <1>3, <1>4, <1>5

\* How a worker comes to a step of a read.
LEMMA Entered ==
  ASSUME TypeOK, NEW w \in Workers, Moves(w)
  PROVE  /\ pc'[w] = "look_list"   => Accept(w)
         /\ pc'[w] = "check_freeze" => Accept(w) \/ BeginBroadcast(w)
         /\ pc'[w] = "look"        => Accept(w) \/ CheckFreeze(w)
         /\ pc'[w] = "read_total"  => Look(w)
         /\ pc'[w] = "read_scores" => ReadTotal(w)
         /\ pc'[w] = "store"       => ReadScores(w)
         /\ pc'[w] = "deliver"     => CheckFreeze(w) \/ Look(w) \/ Store(w)
         /\ pc'[w] = "read_rows"   => LookList(w)
         /\ pc'[w] = "store_list"  => ReadRows(w)
<1> DEFINE Reading == Inside \union {"look_list", "read_rows", "store_list"}
<1>1. CASE \/ Change(w) \/ SetFrozen(w) \/ Record(w) \/ ForgetCache(w)
           \/ Deliver(w) \/ StoreList(w)
  <2>1. /\ pc'[w] = Following(w)
        /\ pc[w] \in DOMAIN Statements \union {"set_frozen", "record",
             "forget_board", "forget_list", "deliver", "store_list"}
    BY <1>1 DEF Change, SetFrozen, Record, ForgetCache, Deliver, StoreList,
      Advance, At, TypeOK, ThreadsOK
  <2>2. pc[w] # "idle"
    BY <2>1 DEF Statements
  <2>3. op[w] \in DOMAIN Start /\ pc[w] \in DOMAIN After[op[w]]
    BY <2>1, <2>2, Busy, StepsInTable DEF TypeOK
  <2>4. pc'[w] \notin Reading
    BY <2>1, <2>3 DEF Following, After, Start, Inside
  <2> QED BY <2>4 DEF Inside
<1>2. CASE \/ BeginBroadcast(w) \/ CheckFreeze(w) \/ Look(w) \/ ReadTotal(w)
           \/ ReadScores(w) \/ Store(w) \/ ReadRows(w) \/ LookList(w)
  BY <1>2 DEF BeginBroadcast, CheckFreeze, Look, ReadTotal, ReadScores, Store,
    ReadRows, LookList, Goto, TypeOK, ThreadsOK
<1>3. CASE Accept(w)
  <2>1. PICK o \in Operations : pc' = [pc EXCEPT ![w] = Start[o]]
    BY <1>3 DEF Accept
  <2>2. o \in DOMAIN Start
    BY ConstantsAssumption DEF ConstantsAssumption
  <2>3. pc'[w] \notin {"read_total", "read_scores", "store", "deliver",
                       "read_rows", "store_list"}
    BY <2>1, <2>2 DEF Start, TypeOK, ThreadsOK
  <2> QED BY <1>3, <2>3
<1>4. CASE SkipBroadcast(w)
  <2>1. pc'[w] = After[op[w]]["deliver"] /\ pc[w] \in Inside /\ pc[w] # "idle"
    BY <1>4 DEF SkipBroadcast, Unsendable, TypeOK, ThreadsOK, Inside
  <2>2. op[w] \in DOMAIN Start /\ "deliver" \in DOMAIN After[op[w]]
    BY <2>1, Busy, StepsTogether DEF TypeOK
  <2>3. pc'[w] \notin Reading
    BY <2>1, <2>2 DEF After, Start, Inside
  <2> QED BY <2>3 DEF Inside
<1>5. CASE Abort(w)
  BY <1>5 DEF Abort, TypeOK, ThreadsOK
<1> QED
  BY <1>1, <1>2, <1>3, <1>4, <1>5 DEF Moves, WriterStep, BoardStep, ListStep

\* A worker that accepts a request has read nothing.
LEMMA AcceptCopy ==
  ASSUME TypeOK, NEW w \in Workers, Accept(w)
  PROVE  /\ mem'[w].copy = Fresh /\ mem'[w].live = FALSE
         /\ mem'[w].cold = frozen
<1>1. mem[w] \in Memory /\ mem[w].copy = Fresh /\ mem[w].live = FALSE
  BY DEF TypeOK, DataOK, AtRestBlank, Accept, Blank
<1>2. mem'[w] = [mem[w] EXCEPT !.cold = frozen]
  BY DEF Accept, TypeOK, DataOK
<1> QED BY <1>1, <1>2 DEF Memory

\* What a worker's own steps do to its copy while it reads.
LEMMA UnreadStep ==
  ASSUME TypeOK, Unread, [Next]_vars
  PROVE  Unread'
<1>1. CASE UNCHANGED vars
  BY <1>1 DEF Unread, vars
<1>2. CASE Next
  <2>1. PICK w \in Workers : Moves(w)
    BY <1>2 DEF Next, Moves
  <2> SUFFICES ASSUME NEW v \in Workers
               PROVE
         /\ pc'[v] \in {"read_total", "read_scores"} =>
              \A p \in Parts \intersect {"scores"} : mem'[v].copy[p] = {}
         /\ pc'[v] \in {"look_list", "read_rows"} =>
              \A p \in Parts \intersect {"rows"} : mem'[v].copy[p] = {}
    BY DEF Unread
  <2>2. mem[v] \in Memory
    BY DEF TypeOK, DataOK
  <2>3. CASE v # w
    <3>1. pc'[v] = pc[v]
      BY <2>1, <2>3, OthersKeep
    <3>2. CASE mem'[v].copy = mem[v].copy
      BY <3>1, <3>2 DEF Unread
    <3>3. CASE mem'[v].copy # mem[v].copy
      <4>1. PICK P : mem'[v].copy
                       = Lacking(mem[v].copy, P \intersect HasRead(v), w)
        BY <2>1, <2>3, <3>3, OthersCopy
      <4>2. /\ pc[v] \in {"read_total", "read_scores"}
                 => "scores" \notin HasRead(v)
            /\ pc[v] \in {"look_list", "read_rows"}
                 => "rows" \notin HasRead(v)
        BY DEF HasRead, At
      <4>3. \A p \in Parts : p \notin HasRead(v)
              => mem'[v].copy[p] = mem[v].copy[p]
        BY <4>1 DEF Lacking
      <4> QED BY <3>1, <4>2, <4>3 DEF Unread
    <3> QED BY <3>2, <3>3
  <2>4. CASE v = w
    <3>1. CASE Accept(w)
      BY <2>4, <3>1, AcceptCopy DEF Fresh
    <3>2. CASE Look(w)
      BY <2>2, <2>4, <3>2 DEF Look, Goto, Fresh, TypeOK, DataOK, ThreadsOK,
        Memory
    <3>3. CASE ReadTotal(w) \/ LookList(w)
      BY <2>4, <3>3 DEF ReadTotal, LookList, Goto, Unread, TypeOK, ThreadsOK, At
    <3> QED BY <2>1, <2>4, <3>1, <3>2, <3>3, Entered
  <2> QED BY <2>3, <2>4
<1> QED BY <1>1, <1>2

\* A fill under way keeps its excuses until it is overtaken.
LEMMA InFlightStep ==
  ASSUME TypeOK, OwesAhead, Unread, InFlight, [Next]_vars
  PROVE  InFlight'
<1>1. CASE UNCHANGED vars
  BY <1>1 DEF InFlight, Excused, vars, At
<1>2. CASE Next
  <2>1. PICK w \in Workers : Moves(w)
    BY <1>2 DEF Next, Moves
  <2> SUFFICES ASSUME NEW v \in Workers, ~mem'[v].overtaken,
                      NEW c \in Caches,
                      pc'[v] = IF c = "board" THEN "store" ELSE "store_list",
                      NEW p \in Covers[c] \ {"total"}, NEW x \in mem'[v].copy[p]
               PROVE  Excuse(c, x)'
    BY DEF InFlight, Excused, Excuse, At, Caches
  <2>2. mem[v] \in Memory /\ p \in Parts
    BY CoversParts DEF TypeOK, DataOK
  <2>3. CASE v # w
    <3>1. pc'[v] = pc[v] /\ ~mem[v].overtaken
      BY <2>1, <2>3, OthersKeep
    <3>2. HasRead(v) \intersect Covers[c] = Covers[c]
      BY <3>1 DEF HasRead, At, Covers, Caches
    <3>3. ~Forgets(w, c)
      BY <2>1, <2>3, <3>2, Invalidation
    <3>4. x \in mem[v].copy[p] => x \in Workers /\ Excuse(c, x)
      BY <2>2, <3>1 DEF InFlight, Excused, Excuse, At, Caches, Memory, Copy
    <3>5. CASE x \in mem[v].copy[p]
      BY <2>1, <3>3, <3>4, <3>5, ExcuseKept
    <3>6. CASE x \notin mem[v].copy[p]
      <4>1. PICK P :
              /\ mem'[w] = [mem[w] EXCEPT !.owes = @ \union OwedFor(P)]
              /\ mem'[v].copy = Lacking(mem[v].copy, P \intersect HasRead(v), w)
        BY <2>1, <2>3, <3>6, OthersCopy
      <4>2. x = w /\ p \in P
        BY <2>2, <3>6, <4>1, LackingParts DEF Memory
      <4> QED BY <4>1, <4>2, ChangeExcused
    <3> QED BY <3>5, <3>6
  <2>4. CASE v = w
    <3>1. CASE c = "board"
      <4>1. ReadScores(w)
        BY <2>1, <2>4, <3>1, Entered
      <4>2. mem'[v].copy[p] = {}
        BY <2>2, <2>4, <3>1, <4>1, CoversParts DEF ReadScores, Unread, At
      <4> QED BY <4>2
    <3>2. CASE c = "list"
      <4>1. ReadRows(w)
        BY <2>1, <2>4, <3>2, Entered
      <4>2. mem'[v].copy[p] = {}
        BY <2>2, <2>4, <3>2, <4>1, CoversParts DEF ReadRows, Unread, At
      <4> QED BY <4>2
    <3> QED BY <3>1, <3>2 DEF Caches
  <2> QED BY <2>3, <2>4
<1> QED BY <1>1, <1>2

\* A cached copy keeps its excuses; what is stored over it has its own.
LEMMA CachesFreshStep ==
  ASSUME TypeOK, OwesAhead, InFlight, CachesFresh, [Next]_vars
  PROVE  CachesFresh'
<1>1. CASE UNCHANGED vars
  BY <1>1 DEF CachesFresh, vars
<1>2. CASE Next
  <2>1. PICK w \in Workers : Moves(w)
    BY <1>2 DEF Next, Moves
  <2> SUFFICES ASSUME NEW c \in Caches, cache'[c] # NoCopy, ~raced'[c],
                      NEW p \in Covers[c] \ {"total"}, NEW x \in cache'[c][p]
               PROVE  Excuse(c, x)'
    BY DEF CachesFresh, Excuse
  <2>2. p \in Parts /\ ~Forgets(w, c)
    BY <2>1, CoversParts, Invalidation
  <2>3. ASSUME cache'[c] = cache[c], raced'[c] = raced[c]
        PROVE  Excuse(c, x)'
    <3>1. x \in Workers /\ Excuse(c, x)
      BY <2>2, <2>3 DEF CachesFresh, Excuse, TypeOK, DataOK, Copy
    <3> QED BY <2>1, <2>2, <3>1, ExcuseKept
  <2>4. CASE Change(w)
    <3>1. PICK P :
            /\ cache'[c] = IF cache[c] = NoCopy THEN NoCopy
                 ELSE Lacking(cache[c], P \intersect Covers[c], w)
            /\ mem'[w] = [mem[w] EXCEPT !.owes = @ \union OwedFor(P)]
      BY <2>4 DEF Change
    <3>2. cache[c] \in Copy /\ cache[c] # NoCopy
      BY <3>1 DEF TypeOK, DataOK
    <3>3. CASE x \in cache[c][p]
      <4>1. x \in Workers /\ Excuse(c, x)
        BY <2>2, <2>4, <3>2, <3>3 DEF Change, CachesFresh, Excuse, Copy
      <4> QED BY <2>1, <2>2, <4>1, ExcuseKept
    <3>4. CASE x \notin cache[c][p]
      <4>1. x = w /\ p \in P
        BY <2>2, <3>1, <3>2, <3>4, LackingParts
      <4> QED BY <3>1, <4>1, ChangeExcused
    <3> QED BY <3>3, <3>4
  <2>5. CASE Store(w) \/ StoreList(w)
    <3>1. CASE \/ Store(w) /\ c = "board"
               \/ StoreList(w) /\ c = "list"
      <4>1. /\ cache'[c] = mem[w].copy
            /\ raced'[c] = mem[w].overtaken
            /\ pc[w] = IF c = "board" THEN "store" ELSE "store_list"
        BY <3>1 DEF Store, StoreList, At, TypeOK, DataOK
      <4>2. x \in Workers /\ Excuse(c, x)
        BY <2>2, <4>1 DEF InFlight, Excused, Excuse, At, Caches, TypeOK, DataOK,
          Memory, Copy
      <4> QED BY <2>1, <2>2, <4>2, ExcuseKept
    <3>2. CASE ~(Store(w) /\ c = "board") /\ ~(StoreList(w) /\ c = "list")
      <4>1. cache'[c] = cache[c] /\ raced'[c] = raced[c]
        BY <2>5, <3>2 DEF Store, StoreList, Caches, TypeOK, DataOK
      <4> QED BY <2>3, <4>1
    <3> QED BY <3>1, <3>2
  <2>6. CASE ForgetCache(w) \/ BeginBroadcast(w)
    <3>1. PICK d \in Caches : Forget(w, d) /\ Forgets(w, d)
      BY <2>6 DEF ForgetCache, BeginBroadcast, Forgets, Caches, At
    <3>2. c # d
      BY <2>2, <3>1
    <3> QED BY <2>3, <3>1, <3>2 DEF Forget, TypeOK, DataOK
  <2>7. CASE ~Change(w) /\ ~Store(w) /\ ~StoreList(w) /\ ~ForgetCache(w)
             /\ ~BeginBroadcast(w)
    <3>1. cache'[c] = cache[c] /\ raced'[c] = raced[c]
      BY <2>1, <2>7 DEF Moves, WriterStep, BoardStep, ListStep, Accept,
        SetFrozen, Record, CheckFreeze, Look, ReadTotal, ReadScores, Deliver,
        LookList, ReadRows, SkipBroadcast, Abort
    <3> QED BY <2>3, <3>1
  <2> QED BY <2>4, <2>5, <2>6, <2>7
<1> QED BY <1>1, <1>2

\* The inductive invariant: CachesFresh, with what makes it so.  Without the
\* table of debts a worker could rest still owing; without InFlight a fill could
\* store what nobody will invalidate.
CacheInv == TypeOK /\ OwesAhead /\ Unread /\ InFlight /\ CachesFresh

\* The inductive invariant holds at the start, when the caches are empty.
LEMMA InitCacheInv == Init => CacheInv
<1> SUFFICES ASSUME Init PROVE CacheInv
  OBVIOUS
<1>1. OwesAhead
  BY DEF Init, OwesAhead, Blank
<1>2. Unread /\ InFlight /\ CachesFresh
  BY DEF Init, Unread, InFlight, CachesFresh, At
<1> QED BY <1>1, <1>2, InitTypes DEF CacheInv

\* Every step preserves the inductive invariant.
LEMMA CacheInvStep == CacheInv /\ [Next]_vars => CacheInv'
BY ThreadsStep, DataStep, AtRestStep, OwesAheadStep, UnreadStep, InFlightStep,
   CachesFreshStep DEF CacheInv, TypeOK

\* CachesFresh: in every interleaving of every handler, with failures, a change
\* missing from a cached copy is still to be invalidated by its worker or was
\* given up by it, unless the copy is one of an overtaken fill.
THEOREM CachesAlwaysFresh == Spec => []CachesFresh
<1>1. CacheInv => CachesFresh
  BY DEF CacheInv
<1> QED BY InitCacheInv, CacheInvStep, <1>1, PTL DEF Spec

-----------------------------------------------------------------------------
(* Broadcasts.                                                             *)

\* The history of a freeze agrees with it, and a live board is held only from
\* the look on, by nobody whom a freeze has lasted since before.
FreezeKept ==
  \A w \in Workers :
    /\ mem[w].cold => frozen
    /\ mem[w].live =>
         pc[w] \in {"read_total", "read_scores", "store", "deliver"}
    /\ mem[w].cold /\ op[w] # "admin_scoreboard" =>
         /\ pc[w] \notin {"look", "read_total", "read_scores", "store"}
         /\ ~mem[w].live

\* A worker's own memory is cold, or live, only by the steps that say so.
LEMMA OwnMarks ==
  ASSUME TypeOK, NEW w \in Workers, Moves(w)
  PROVE  /\ mem'[w].cold => mem[w].cold \/ Accept(w) \/ SetFrozen(w)
         /\ mem'[w].live =>
              \/ Look(w)
              \/ mem[w].live /\ ~Deliver(w)
<1>1. /\ mem[w] \in Memory
      /\ ~Blank.cold /\ ~Blank.live
  BY DEF TypeOK, DataOK, Blank
<1>2. CASE Accept(w)
  BY <1>2, AcceptCopy
<1>3. CASE Change(w)
  <2>1. PICK P : mem'[w] = [mem[w] EXCEPT !.owes = @ \union OwedFor(P)]
    BY <1>3 DEF Change
  <2> QED BY <1>1, <1>3, <2>1 DEF Memory, Change, Deliver, At, Statements
<1>4. CASE SetFrozen(w)
  BY <1>1, <1>4 DEF SetFrozen, Memory, Deliver, At
<1>5. CASE Record(w)
  BY <1>1, <1>5 DEF Record, Remembered, Deliver, At, TypeOK, DataOK
<1>6. CASE ForgetCache(w) \/ BeginBroadcast(w)
  <2>1. PICK c : \/ mem'[w] = Remembered(w, [mem[w] EXCEPT !.owes = @ \ {c}])
                 \/ mem'[w] = [mem[w] EXCEPT !.owes = @ \ {c}]
    BY <1>6 DEF ForgetCache, BeginBroadcast, Overtaken
  <2>2. mem'[w] = Blank \/ mem'[w] = [mem[w] EXCEPT !.owes = @ \ {c}]
    BY <2>1 DEF Remembered
  <2>3. ~Deliver(w)
    BY <1>6 DEF ForgetCache, BeginBroadcast, Deliver, At
  <2> QED BY <1>1, <2>2, <2>3 DEF Memory
<1>7. CASE CheckFreeze(w) \/ ReadTotal(w) \/ ReadScores(w) \/ ReadRows(w)
  BY <1>7 DEF CheckFreeze, ReadTotal, ReadScores, ReadRows, Deliver, At
<1>8. CASE Look(w)
  BY <1>1, <1>8 DEF Look, TypeOK, DataOK, Memory
<1>9. CASE Store(w)
  BY <1>1, <1>9 DEF Store, Deliver, At, TypeOK, DataOK, Memory
<1>10. CASE Deliver(w)
  <2> DEFINE m == [mem[w] EXCEPT !.copy = Fresh, !.live = FALSE,
                                 !.raced = FALSE]
  <2>1. mem'[w] = m \/ mem'[w] = Blank
    BY <1>10 DEF Deliver, Remembered, TypeOK, DataOK
  <2>2. m.cold = mem[w].cold /\ ~m.live
    BY <1>1 DEF Memory
  <2> HIDE DEF m
  <2> QED BY <1>1, <2>1, <2>2
<1>11. CASE LookList(w) \/ StoreList(w)
  BY <1>1, <1>11 DEF LookList, StoreList, Remembered, Deliver, At, TypeOK,
    DataOK
<1>12. CASE SkipBroadcast(w)
  <2> DEFINE m == [mem[w] EXCEPT !.copy = Fresh, !.live = FALSE,
                                 !.raced = FALSE, !.overtaken = FALSE]
  <2>1. mem'[w] = m \/ mem'[w] = Blank
    BY <1>12 DEF SkipBroadcast, TypeOK, DataOK
  <2>2. m.cold = mem[w].cold /\ ~m.live
    BY <1>1 DEF Memory
  <2> HIDE DEF m
  <2> QED BY <1>1, <2>1, <2>2
<1>13. CASE Abort(w)
  BY <1>1, <1>13 DEF Abort, TypeOK, DataOK
<1> QED
  BY <1>2, <1>3, <1>4, <1>5, <1>6, <1>7, <1>8, <1>9, <1>10, <1>11, <1>12,
     <1>13 DEF Moves, WriterStep, BoardStep, ListStep

\* A worker's step leaves it serving the same request, unless it was at rest or
\* comes to rest.
LEMMA SameRequest ==
  ASSUME TypeOK, NEW w \in Workers, Moves(w), ~Accept(w), pc'[w] # "idle"
  PROVE  op'[w] = op[w]
BY DEF Moves, WriterStep, BoardStep, ListStep, Change, SetFrozen, Record,
  ForgetCache, BeginBroadcast, CheckFreeze, Look, ReadTotal, ReadScores, Store,
  Deliver, LookList, ReadRows, StoreList, SkipBroadcast, Abort, Advance, Goto,
  TypeOK, ThreadsOK

\* Every step preserves what a freeze promises.
LEMMA FreezeStep ==
  ASSUME TypeOK, TypeOK', FreezeKept, [Next]_vars
  PROVE  FreezeKept'
<1>1. CASE UNCHANGED vars
  BY <1>1 DEF FreezeKept, vars
<1>2. CASE Next
  <2>1. PICK w \in Workers : Moves(w)
    BY <1>2 DEF Next, Moves
  <2>2. CASE SetFrozen(w)
    <3>1. \A v \in Workers : mem'[v].cold => frozen'
      BY <2>2 DEF SetFrozen, TypeOK, DataOK, Memory
    <3>2. pc[w] = "set_frozen" /\ ~mem[w].live /\ pc'[w] \notin Inside
      <4>1. pc[w] = "set_frozen" /\ pc'[w] = Following(w)
        BY <2>2 DEF SetFrozen, At, Advance, TypeOK, ThreadsOK
      <4>2. op[w] \in DOMAIN Start /\ pc[w] \in DOMAIN After[op[w]]
        BY <4>1, Busy, StepsInTable DEF TypeOK
      <4>3. pc'[w] \notin Inside
        BY <4>1, <4>2 DEF Following, After, Start, Inside
      <4> QED BY <4>1, <4>3 DEF FreezeKept
    <3>3. ~mem'[w].live
      BY <2>1, <2>2, <3>2, OwnMarks DEF Look, At
    <3>4. \A v \in Workers \ {w} :
            /\ pc'[v] = pc[v] /\ op'[v] = op[v]
            /\ mem'[v].live = mem[v].live
            /\ mem'[v].cold => mem[v].cold
      BY <2>1, OthersKeep
    <3> QED BY <3>1, <3>2, <3>3, <3>4 DEF FreezeKept, Inside
  <2>3. CASE ~SetFrozen(w)
    <3>1. frozen' = frozen
      BY <2>1, <2>3 DEF Moves, WriterStep, BoardStep, ListStep, Accept, Change,
        Record, ForgetCache, BeginBroadcast, CheckFreeze, Look, ReadTotal,
        ReadScores, Store, Deliver, LookList, ReadRows, StoreList,
        SkipBroadcast, Abort
    <3>2. \A v \in Workers \ {w} :
            /\ mem'[v].cold => frozen'
            /\ mem'[v].live =>
                 pc'[v] \in {"read_total", "read_scores", "store", "deliver"}
            /\ mem'[v].cold /\ op'[v] # "admin_scoreboard" =>
                 /\ pc'[v] \notin {"look", "read_total", "read_scores", "store"}
                 /\ ~mem'[v].live
      BY <2>1, <3>1, OthersKeep DEF FreezeKept
    <3>3. mem'[w].cold => frozen'
      BY <2>1, <2>3, <3>1, OwnMarks, AcceptCopy DEF FreezeKept
    <3>4. mem'[w].live =>
            pc'[w] \in {"read_total", "read_scores", "store", "deliver"}
      <4>1. CASE Look(w)
        BY <4>1 DEF Look, Goto, TypeOK, ThreadsOK
      <4>2. CASE mem[w].live /\ ~Deliver(w) /\ mem'[w].live
        <5>1. pc[w] \in {"read_total", "read_scores", "store", "deliver"}
          BY <4>2 DEF FreezeKept
        <5>2. CASE ReadTotal(w) \/ ReadScores(w) \/ Store(w)
          BY <5>2 DEF ReadTotal, ReadScores, Store, Goto, TypeOK, ThreadsOK
        <5>3. CASE SkipBroadcast(w) \/ Abort(w)
          <6> DEFINE m == [mem[w] EXCEPT !.copy = Fresh, !.live = FALSE,
                                         !.raced = FALSE, !.overtaken = FALSE]
          <6>1. mem'[w] = m \/ mem'[w] = Blank
            BY <5>3 DEF SkipBroadcast, Abort, TypeOK, DataOK
          <6>2. ~m.live /\ ~Blank.live
            BY DEF Blank, TypeOK, DataOK, Memory
          <6> HIDE DEF m
          <6> QED BY <4>2, <6>1, <6>2
        <5> QED
          BY <2>1, <4>2, <5>1, <5>2, <5>3 DEF Moves, WriterStep, BoardStep,
            ListStep, Accept, Change, SetFrozen, Record, ForgetCache,
            BeginBroadcast, CheckFreeze, Look, LookList, ReadRows, StoreList,
            At, Statements
      <4> QED BY <2>1, <4>1, <4>2, OwnMarks
    <3>5. mem'[w].cold /\ op'[w] # "admin_scoreboard" =>
            /\ pc'[w] \notin {"look", "read_total", "read_scores", "store"}
            /\ ~mem'[w].live
      <4> SUFFICES ASSUME mem'[w].cold, op'[w] # "admin_scoreboard"
                   PROVE  /\ pc'[w] \notin {"look", "read_total",
                                            "read_scores", "store"}
                          /\ ~mem'[w].live
        OBVIOUS
      <4>1. CASE Accept(w)
        <5>1. PICK o \in Operations : /\ op' = [op EXCEPT ![w] = o]
                                      /\ pc' = [pc EXCEPT ![w] = Start[o]]
          BY <4>1 DEF Accept
        <5>2. o \in DOMAIN Start /\ o # "admin_scoreboard"
              /\ pc'[w] = Start[o]
          BY <5>1, ConstantsAssumption DEF ConstantsAssumption, TypeOK,
            ThreadsOK
        <5>3. pc'[w] \notin {"look", "read_total", "read_scores", "store"}
          BY <5>2 DEF Start
        <5> QED BY <4>1, <5>3, AcceptCopy
      <4>2. CASE ~Accept(w) /\ pc'[w] # "idle"
        <5>1. mem[w].cold /\ op[w] # "admin_scoreboard"
          BY <2>1, <2>3, <4>2, OwnMarks, SameRequest
        <5>2. /\ pc[w] \notin {"look", "read_total", "read_scores", "store"}
              /\ ~mem[w].live /\ frozen
          BY <5>1 DEF FreezeKept
        <5>3. ~Look(w)
          BY <5>2 DEF Look, At
        <5>4. pc'[w] \notin {"look", "read_total", "read_scores", "store"}
          <6>1. CASE CheckFreeze(w)
            BY <5>2, <6>1 DEF CheckFreeze, Hidden, Goto, TypeOK, ThreadsOK
          <6> QED
            BY <2>1, <4>2, <5>2, <5>3, <6>1, Entered DEF ReadTotal, ReadScores,
              At
        <5> QED BY <2>1, <5>2, <5>3, <5>4, OwnMarks
      <4>3. CASE pc'[w] = "idle"
        BY <4>3 DEF TypeOK, AtRestBlank, At, Blank
      <4> QED BY <4>1, <4>2, <4>3
    <3> QED BY <3>2, <3>3, <3>4, <3>5 DEF FreezeKept
  <2> QED BY <2>2, <2>3
<1> QED BY <1>1, <1>2

\* Nobody holds a board at the start.
LEMMA InitFreezeKept == Init => FreezeKept
BY DEF Init, FreezeKept, Blank

\* FreezeRespected: in every interleaving, no request that came in during a
\* freeze still in effect shows the public a live board.
THEOREM FreezeAlwaysRespected == Spec => []FreezeRespected
<1>1. FreezeKept => FreezeRespected
  BY DEF FreezeKept, FreezeRespected
<1>2. TypeOK /\ FreezeKept /\ [Next]_vars => TypeOK' /\ FreezeKept'
  BY TypeStep, FreezeStep
<1> QED BY InitTypes, InitFreezeKept, <1>1, <1>2, PTL DEF Spec

\* A worker that broadcasts has given up nothing since its invalidation, and
\* the copy it reads or finds has its own change.
OwnChangeKept ==
  \A w \in Workers : op[w] \in Broadcasters =>
    /\ pc[w] \in {"check_freeze", "look"} => w \notin lapsed["board"]
    /\ (/\ pc[w] \in {"read_total", "read_scores", "store", "deliver"}
        /\ mem[w].live
        /\ ~mem[w].raced)
         => \A p \in Parts \intersect {"scores"} : w \notin mem[w].copy[p]

\* What is found in the cache has the finder's own change: it owes nothing for
\* the board any more, and has not given up.
LEMMA FoundOwn ==
  ASSUME CacheInv, OwnChangeKept, NEW w \in Workers, Look(w),
         op[w] \in Broadcasters, cache["board"] # NoCopy, ~raced["board"],
         NEW p \in Parts \intersect {"scores"}
  PROVE  w \notin cache["board"][p]
<1>1. pc[w] = "look" /\ w \notin lapsed["board"]
  BY DEF Look, At, OwnChangeKept
<1>2. mem[w].owes = {}
  BY <1>1, AheadNone DEF CacheInv, OwesAhead, Inside
<1> QED BY <1>1, <1>2, CoversParts DEF CacheInv, CachesFresh, Caches

\* Every step preserves what a broadcaster is promised.
LEMMA OwnChangeStep ==
  ASSUME CacheInv, FreezeKept, OwnChangeKept, [Next]_vars
  PROVE  OwnChangeKept'
<1> USE DEF CacheInv
<1>1. CASE UNCHANGED vars
  BY <1>1 DEF OwnChangeKept, vars
<1>2. CASE Next
  <2>1. PICK w \in Workers : Moves(w)
    BY <1>2 DEF Next, Moves
  <2> SUFFICES ASSUME NEW v \in Workers, op'[v] \in Broadcasters
               PROVE
         /\ pc'[v] \in {"check_freeze", "look"} => v \notin lapsed'["board"]
         /\ (/\ pc'[v] \in {"read_total", "read_scores", "store", "deliver"}
             /\ mem'[v].live
             /\ ~mem'[v].raced)
              => \A p \in Parts \intersect {"scores"} : v \notin mem'[v].copy[p]
    BY DEF OwnChangeKept
  <2>2. mem[v] \in Memory
    BY DEF TypeOK, DataOK
  <2>3. CASE v # w
    <3>1. /\ pc'[v] = pc[v] /\ op'[v] = op[v]
          /\ mem'[v].live = mem[v].live /\ mem'[v].raced = mem[v].raced
      BY <2>1, <2>3, OthersKeep
    <3>2. v \in lapsed'["board"] => v \in lapsed["board"]
      BY <2>1, <2>3 DEF Moves, WriterStep, BoardStep, ListStep, Accept, Change,
        SetFrozen, Record, ForgetCache, BeginBroadcast, CheckFreeze, Look,
        ReadTotal, ReadScores, Store, Deliver, LookList, ReadRows, StoreList,
        SkipBroadcast, Abort, Forget, Caches, TypeOK, DataOK
    <3>3. \A p \in Parts : v \in mem'[v].copy[p] => v \in mem[v].copy[p]
      <4>1. CASE mem'[v].copy = mem[v].copy
        BY <4>1
      <4>2. CASE mem'[v].copy # mem[v].copy
        <5>1. PICK P : mem'[v].copy
                         = Lacking(mem[v].copy, P \intersect HasRead(v), w)
          BY <2>1, <2>3, <4>2, OthersCopy
        <5> QED BY <2>2, <2>3, <5>1, LackingParts DEF Memory
      <4> QED BY <4>1, <4>2
    <3> QED BY <3>1, <3>2, <3>3 DEF OwnChangeKept
  <2>4. CASE v = w
    <3>1. CASE Accept(w)
      <4>1. PICK o \in Operations : /\ op' = [op EXCEPT ![w] = o]
                                    /\ pc' = [pc EXCEPT ![w] = Start[o]]
        BY <3>1 DEF Accept
      <4>2. o \in DOMAIN Start /\ o \in Broadcasters /\ pc'[w] = Start[o]
        BY <2>4, <4>1, ConstantsAssumption DEF ConstantsAssumption, TypeOK,
          ThreadsOK
      <4>3. pc'[w] \notin Inside
        BY <4>2 DEF Start, Broadcasters, Inside
      <4> QED BY <2>4, <4>3 DEF Inside
    <3>2. CASE BeginBroadcast(w)
      BY <2>4, <3>2 DEF BeginBroadcast, Forget, Goto, Caches, TypeOK, ThreadsOK,
        DataOK
    <3>3. CASE CheckFreeze(w)
      <4>1. /\ pc[w] = "check_freeze" /\ ~mem[w].live
            /\ UNCHANGED <<mem, lapsed, op>>
            /\ pc'[w] \in {"look", "deliver"}
        BY <3>3 DEF CheckFreeze, At, FreezeKept, Goto, TypeOK, ThreadsOK
      <4> QED BY <2>4, <4>1 DEF OwnChangeKept
    <3>4. CASE Look(w)
      <4>1. /\ op'[w] = op[w] /\ pc'[w] \in {"read_total", "deliver"}
            /\ mem'[w].raced = (cache["board"] # NoCopy /\ raced["board"])
            /\ mem'[w].copy = IF cache["board"] = NoCopy
                              THEN Fresh ELSE cache["board"]
        BY <3>4 DEF Look, Goto, TypeOK, ThreadsOK, DataOK, Memory
      <4>2. ~mem'[w].raced => \A p \in Parts \intersect {"scores"} :
                                w \notin mem'[w].copy[p]
        <5>1. CASE cache["board"] = NoCopy
          BY <4>1, <5>1 DEF Fresh
        <5>2. CASE cache["board"] # NoCopy
          BY <2>4, <3>4, <4>1, <5>2, FoundOwn
        <5> QED BY <5>1, <5>2
      <4> QED BY <2>4, <4>1, <4>2
    <3>5. CASE ReadTotal(w) \/ ReadScores(w) \/ Store(w)
      <4>1. /\ op'[w] = op[w]
            /\ pc[w] \in {"read_total", "read_scores", "store"}
            /\ pc'[w] \in {"read_scores", "store", "deliver"}
            /\ mem'[w].live = mem[w].live /\ mem'[w].raced = mem[w].raced
            /\ mem'[w].copy = mem[w].copy
        <5>1. CASE ReadTotal(w) \/ ReadScores(w)
          BY <5>1 DEF ReadTotal, ReadScores, Goto, At, TypeOK, ThreadsOK
        <5>2. CASE Store(w)
          BY <2>2, <2>4, <5>2 DEF Store, Goto, At, TypeOK, ThreadsOK, DataOK,
            Memory
        <5> QED BY <3>5, <5>1, <5>2
      <4> QED BY <2>4, <4>1 DEF OwnChangeKept
    <3> QED
      BY <2>1, <2>4, <3>1, <3>2, <3>3, <3>4, <3>5, Entered
  <2> QED BY <2>3, <2>4
<1> QED BY <1>1, <1>2

\* Nobody broadcasts at the start.
LEMMA InitOwnChangeKept == Init => OwnChangeKept
BY DEF Init, OwnChangeKept

\* OwnChangeSent: in every interleaving, with failures, the ScoreUpdate that
\* follows a handler's change shows it, unless it is the copy of a fill that an
\* invalidation overtook.
THEOREM OwnChangeAlwaysSent == Spec => []OwnChangeSent
<1> DEFINE Inv == CacheInv /\ FreezeKept /\ OwnChangeKept
<1>1. Init => Inv
  BY InitCacheInv, InitFreezeKept, InitOwnChangeKept
<1>2. Inv /\ [Next]_vars => Inv'
  <2>1. CacheInv => TypeOK
    BY DEF CacheInv
  <2> QED BY <2>1, CacheInvStep, TypeStep, FreezeStep, OwnChangeStep
<1>3. Inv => OwnChangeSent
  BY DEF OwnChangeKept, OwnChangeSent, At
<1> HIDE DEF Inv
<1> QED BY <1>1, <1>2, <1>3, PTL DEF Spec

-----------------------------------------------------------------------------
(* How a scoreboard reaches a page.                                        *)

\* There is one last scoreboard at most.
LEMMA LastIsUnique ==
  ASSUME NEW events, Len(events) \in Nat,
         NEW i \in 0 .. Len(events), IsLast(events, i)
  PROVE  LastOf(events) = i
<1>1. ASSUME NEW j \in 0 .. Len(events), IsLast(events, j)
      PROVE  j = i
  <2>1. CASE i < j
    BY <1>1, <2>1 DEF IsLast
  <2>2. CASE j < i
    BY <1>1, <2>2 DEF IsLast
  <2> QED BY <2>1, <2>2
<1> QED BY <1>1 DEF LastOf

\* The last scoreboard after another event.
LEMMA LastAfter ==
  ASSUME NEW E, NEW events \in Seq(E), NEW e \in E,
         NEW i \in 0 .. Len(events), IsLast(events, i)
  PROVE  /\ LastOf(events) = i
         /\ LastOf(Append(events, e)) = IF e = Notice THEN i ELSE Len(events) + 1
         /\ \E j \in 0 .. Len(Append(events, e)) : IsLast(Append(events, e), j)
<1> DEFINE n == Len(events)
           more == Append(events, e)
<1>1. /\ n \in Nat /\ Len(more) = n + 1
      /\ more[n + 1] = e /\ \A j \in 1 .. n : more[j] = events[j]
  OBVIOUS
<1>2. LastOf(events) = i
  BY <1>1, LastIsUnique
<1>3. CASE e = Notice
  <2>1. i \in 0 .. n + 1 /\ IsLast(more, i)
    <3> HIDE DEF n, more
    <3> QED BY <1>1, <1>3 DEF IsLast, n
  <2>2. LastOf(more) = i
    <3> HIDE DEF more
    <3> QED BY <1>1, <2>1, LastIsUnique
  <2> QED BY <1>1, <1>2, <1>3, <2>1, <2>2
<1>4. CASE e # Notice
  <2>1. n + 1 \in 0 .. n + 1 /\ IsLast(more, n + 1)
    <3> HIDE DEF n, more
    <3> QED BY <1>1, <1>4 DEF IsLast, n
  <2>2. LastOf(more) = n + 1
    <3> HIDE DEF more
    <3> QED BY <1>1, <2>1, LastIsUnique
  <2> QED BY <1>1, <1>2, <1>4, <2>1, <2>2
<1> QED BY <1>3, <1>4

\* The last scoreboard has yet to be taken by the receiver of connection k, or to
\* be written, or the page has it, or one that it loaded later; then what is
\* still to be written came after it.
OnItsWay(k) ==
  \/ next[k] <= LastBoard
  \/ \E i \in DOMAIN outbox[k] : outbox[k][i] = LastBoard
  \/ /\ loaded \/ shown = sent[LastBoard]
     /\ \A i \in DOMAIN outbox[k] : outbox[k][i] > LastBoard

ConnectionOK(k) ==
  /\ ~writer[k] => outbox[k] = << >>
  /\ conn = k =>
       /\ writer[k]
       /\ since[k] > LastBoard \/ PushedOut \/ OnItsWay(k)

HasLast == \E i \in 0 .. Len(sent) : IsLast(sent, i)

HubIInv == HubTypeOK /\ HasLast /\ \A k \in Conns : ConnectionOK(k)

\* The place of the last scoreboard is one of the events', or 0.
LEMMA LastPlace ==
  ASSUME HubTypeOK, HasLast
  PROVE  /\ LastBoard \in 0 .. Len(sent) /\ Len(sent) \in Nat
         /\ IsLast(sent, LastBoard)
BY LastIsUnique DEF HubTypeOK, HasLast, LastBoard

\* What the invariant says of one connection's outbox.
LEMMA OutboxOf ==
  ASSUME HubTypeOK, NEW k \in Conns
  PROVE  /\ outbox[k] \in Seq(Nat \ {0}) /\ next[k] \in Nat /\ since[k] \in Nat
         /\ since[k] \in 1 .. next[k] /\ next[k] \in 1 .. Len(sent) + 1
         /\ \A i \in DOMAIN outbox[k] :
              /\ outbox[k][i] \in 1 .. next[k] - 1
              /\ \A j \in DOMAIN outbox[k] : i < j => outbox[k][i] < outbox[k][j]
BY DEF HubTypeOK

\* A step that leaves a connection and the page alone leaves what they are due.
LEMMA LeftAlone ==
  ASSUME NEW k \in Conns, ConnectionOK(k), UNCHANGED <<sent, page>>,
         writer'[k] = writer[k], next'[k] = next[k], outbox'[k] = outbox[k],
         since'[k] = since[k]
  PROVE  ConnectionOK(k)'
<1>1. LastBoard' = LastBoard
  BY DEF LastBoard
<1>2. conn' = conn /\ loaded' = loaded /\ shown' = shown /\ sent' = sent
  BY DEF page
<1> QED BY <1>1, <1>2 DEF ConnectionOK, OnItsWay, PushedOut

\* So does one that leaves alone a connection the page does not have.
LEMMA NotThePages ==
  ASSUME NEW k \in Conns, ConnectionOK(k), conn' # k,
         writer'[k] = writer[k], outbox'[k] = outbox[k]
  PROVE  ConnectionOK(k)'
BY DEF ConnectionOK

\* An event that is sent has yet to be taken by every receiver.
LEMMA SendStep ==
  ASSUME HubIInv, NEW e \in Boards \union {Notice}, sent' = Append(sent, e),
         UNCHANGED <<tasks, page>>
  PROVE  /\ HasLast' /\ sent' \in Seq(Boards \union {Notice})
         /\ Len(sent') = Len(sent) + 1
         /\ \A k \in Conns : ConnectionOK(k)'
<1> USE DEF HubIInv
<1>1. /\ sent \in Seq(Boards \union {Notice}) /\ Len(sent) \in Nat
      /\ Len(sent') = Len(sent) + 1 /\ sent' \in Seq(Boards \union {Notice})
      /\ \A i \in 1 .. Len(sent) : sent'[i] = sent[i]
  BY DEF HubTypeOK
<1>2. PICK last \in 0 .. Len(sent) : IsLast(sent, last)
  BY DEF HasLast
<1>3. /\ LastBoard = last
      /\ LastBoard' = IF e = Notice THEN last ELSE Len(sent) + 1
      /\ HasLast'
  <2>1. /\ LastOf(sent) = last
        /\ LastOf(Append(sent, e)) = IF e = Notice THEN last ELSE Len(sent) + 1
        /\ \E j \in 0 .. Len(Append(sent, e)) : IsLast(Append(sent, e), j)
    BY <1>1, <1>2, LastAfter
  <2> QED BY <2>1 DEF LastBoard, HasLast
<1>4. ASSUME NEW k \in Conns PROVE ConnectionOK(k)'
  <2>1. /\ UNCHANGED <<conn, loaded, shown, writer, next, outbox, since>>
        /\ ConnectionOK(k)
        /\ next[k] \in 1 .. Len(sent) + 1 /\ since[k] \in 1 .. next[k]
    BY OutboxOf DEF tasks, page
  <2>2. CASE e = Notice
    <3>1. LastBoard' = LastBoard /\ (PushedOut => PushedOut')
      BY <1>1, <1>2, <1>3, <2>2, HubAssumption DEF PushedOut
    <3>2. since[k] <= LastBoard => sent'[LastBoard] = sent[LastBoard]
      BY <1>1, <1>2, <1>3, <2>1
    <3> QED BY <1>2, <1>3, <2>1, <3>1, <3>2 DEF ConnectionOK, OnItsWay
  <2>3. CASE e # Notice
    <3>1. OnItsWay(k)'
      BY <1>1, <1>3, <2>1, <2>3 DEF OnItsWay
    <3> QED BY <2>1, <3>1 DEF ConnectionOK
  <2> QED BY <2>2, <2>3
<1> QED BY <1>1, <1>3, <1>4

\* A receiver takes the next event, gives up, or is moved on to the oldest event
\* left, which does not come after the last scoreboard, unless that was pushed out.
LEMMA ForwardStep ==
  ASSUME HubIInv, NEW k \in Conns, Forward(k)
  PROVE  ConnectionOK(k)'
<1> USE DEF HubIInv
<1>1. /\ UNCHANGED <<sent, conn, loaded, shown, writer, since>>
      /\ LastBoard' = LastBoard /\ (PushedOut <=> PushedOut')
  BY DEF Forward, server, page, LastBoard, PushedOut
<1>2. /\ ConnectionOK(k)
      /\ LastBoard \in 0 .. Len(sent) /\ Len(sent) \in Nat /\ Capacity \in Nat
  BY LastPlace, HubAssumption
<1>3. CASE Lags(k)
  <2>1. next'[k] = Len(sent) - Capacity + 1 /\ UNCHANGED outbox
    BY <1>3, OutboxOf DEF Forward, Oldest, HubTypeOK
  <2>2. ~PushedOut => OnItsWay(k)'
    BY <1>1, <1>2, <2>1 DEF PushedOut, OnItsWay
  <2> QED BY <1>1, <1>2, <2>1, <2>2 DEF ConnectionOK
<1>4. CASE ~Lags(k) /\ ~writer[k]
  <2>1. UNCHANGED <<next, outbox>>
    BY <1>4 DEF Forward
  <2> QED BY <1>1, <1>2, <2>1, LeftAlone DEF Forward, page
<1>5. CASE ~Lags(k) /\ writer[k]
  <2>1. /\ next'[k] = next[k] + 1 /\ outbox'[k] = Append(outbox[k], next[k])
        /\ outbox[k] \in Seq(Nat \ {0}) /\ next[k] \in Nat
    BY <1>5, OutboxOf DEF Forward, Taken, HubTypeOK
  <2>2. /\ Len(outbox[k]) \in Nat /\ Len(outbox'[k]) = Len(outbox[k]) + 1
        /\ outbox'[k][Len(outbox[k]) + 1] = next[k]
        /\ \A i \in 1 .. Len(outbox[k]) : outbox'[k][i] = outbox[k][i]
        /\ DOMAIN outbox'[k] = 1 .. Len(outbox[k]) + 1
        /\ DOMAIN outbox[k] = 1 .. Len(outbox[k])
    BY <2>1
  <2>3. OnItsWay(k) => OnItsWay(k)'
    <3>1. CASE next[k] < LastBoard
      BY <1>1, <1>2, <2>1, <3>1 DEF OnItsWay
    <3>2. CASE next[k] = LastBoard
      BY <1>1, <1>2, <2>1, <2>2, <3>2 DEF OnItsWay
    <3>3. CASE \E i \in DOMAIN outbox[k] : outbox[k][i] = LastBoard
      BY <1>1, <2>2, <3>3 DEF OnItsWay
    <3>4. CASE /\ next[k] > LastBoard
               /\ loaded \/ shown = sent[LastBoard]
               /\ \A i \in DOMAIN outbox[k] : outbox[k][i] > LastBoard
      <4>1. \A i \in DOMAIN outbox'[k] : outbox'[k][i] > LastBoard
        BY <2>2, <3>4
      <4> QED BY <1>1, <3>4, <4>1 DEF OnItsWay
    <3> QED BY <1>2, <2>1, <3>1, <3>2, <3>3, <3>4 DEF OnItsWay
  <2> QED BY <1>1, <1>2, <1>5, <2>3 DEF ConnectionOK
<1> QED BY <1>3, <1>4, <1>5

\* The page gets the last scoreboard, or an event that came before it while it is
\* still to come, or after it and is no scoreboard.
LEMMA WriteStep ==
  ASSUME HubIInv, NEW k \in Conns, Write(k), conn = k
  PROVE  ConnectionOK(k)' /\ shown' \in Boards /\ loaded' \in BOOLEAN
<1> USE DEF HubIInv
<1> DEFINE h == Head(outbox[k])
<1>1. /\ UNCHANGED <<sent, conn, writer, next, since>>
      /\ LastBoard' = LastBoard /\ (PushedOut <=> PushedOut')
      /\ shown' = ShownAfter(sent[h])
      /\ loaded' = (loaded /\ sent[h] = Notice)
      /\ outbox'[k] = Tail(outbox[k]) /\ outbox[k] # << >>
      /\ outbox[k] \in Seq(Nat \ {0})
  BY OutboxOf DEF Write, server, LastBoard, PushedOut, HubTypeOK
<1>2. /\ ConnectionOK(k)
      /\ LastBoard \in 0 .. Len(sent) /\ Len(sent) \in Nat
      /\ IsLast(sent, LastBoard)
  BY LastPlace
<1>3. /\ Len(outbox[k]) \in Nat \ {0} /\ Len(outbox'[k]) = Len(outbox[k]) - 1
      /\ DOMAIN outbox[k] = 1 .. Len(outbox[k])
      /\ DOMAIN outbox'[k] = 1 .. Len(outbox[k]) - 1
      /\ \A i \in DOMAIN outbox'[k] : outbox'[k][i] = outbox[k][i + 1]
      /\ h = outbox[k][1]
  BY <1>1
<1>4. h \in 1 .. Len(sent) /\ \A i \in DOMAIN outbox'[k] : h < outbox'[k][i]
  <2> HIDE DEF h
  <2>1. h \in 1 .. next[k] - 1 /\ next[k] \in 1 .. Len(sent) + 1
    BY <1>3, OutboxOf
  <2>2. ASSUME NEW i \in DOMAIN outbox'[k] PROVE h < outbox'[k][i]
    <3>1. 1 \in DOMAIN outbox[k] /\ i + 1 \in DOMAIN outbox[k] /\ 1 < i + 1
      BY <1>3
    <3> QED BY <1>3, <3>1, OutboxOf
  <2> QED BY <1>2, <2>1, <2>2
<1>5. sent[h] \in Boards \union {Notice}
  BY <1>4 DEF HubTypeOK
<1>6. shown' \in Boards /\ loaded' \in BOOLEAN
  BY <1>1, <1>5 DEF ShownAfter, HubTypeOK
<1> HIDE DEF h
<1>7. OnItsWay(k) => OnItsWay(k)'
  <2>1. CASE next[k] <= LastBoard
    BY <1>1, <2>1 DEF OnItsWay
  <2>2. CASE h = LastBoard
    <3>1. sent[LastBoard] # Notice
      BY <1>2, <1>4, <2>2 DEF IsLast
    <3>2. shown' = sent'[LastBoard]
      BY <1>1, <2>2, <3>1 DEF ShownAfter
    <3>3. \A i \in DOMAIN outbox'[k] : outbox'[k][i] > LastBoard
      BY <1>4, <2>2
    <3> QED BY <1>1, <3>2, <3>3 DEF OnItsWay
  <2>3. CASE h # LastBoard /\ \E i \in DOMAIN outbox[k] : outbox[k][i] = LastBoard
    <3>1. PICK i \in DOMAIN outbox[k] : outbox[k][i] = LastBoard
      BY <2>3
    <3>2. i \in 2 .. Len(outbox[k])
      BY <1>3, <2>3, <3>1
    <3>3. PICK j \in 1 .. Len(outbox[k]) - 1 : i = j + 1
      BY <1>3, <3>2
    <3>4. j \in DOMAIN outbox'[k] /\ outbox'[k][j] = LastBoard
      BY <1>3, <3>1, <3>3
    <3> QED BY <1>1, <3>4 DEF OnItsWay
  <2>4. CASE /\ loaded \/ shown = sent[LastBoard]
             /\ \A i \in DOMAIN outbox[k] : outbox[k][i] > LastBoard
    <3>1. sent[h] = Notice
      BY <1>2, <1>3, <1>4, <2>4 DEF IsLast
    <3>2. loaded' = loaded /\ shown' = shown
      BY <1>1, <3>1 DEF ShownAfter, HubTypeOK
    <3>3. \A i \in DOMAIN outbox'[k] : outbox'[k][i] > LastBoard
      BY <1>3, <2>4
    <3> QED BY <1>1, <2>4, <3>2, <3>3 DEF OnItsWay
  <2> QED BY <2>1, <2>2, <2>3, <2>4 DEF OnItsWay
<1> QED BY <1>1, <1>2, <1>6, <1>7 DEF ConnectionOK

\* What a page shows, and whether it loaded it, changes only when it is written to
\* or has its own answer.
LEMMA TasksStep ==
  ASSUME HubIInv, NEW k \in Conns, Task(k)
  PROVE  /\ \A c \in Conns : ConnectionOK(c)'
         /\ UNCHANGED <<server, conn, answer>>
         /\ shown' \in Boards /\ loaded' \in BOOLEAN
<1> USE DEF HubIInv
<1>1. /\ shown \in Boards /\ loaded \in BOOLEAN
      /\ \A c \in Conns : ConnectionOK(c)
  BY DEF HubTypeOK
<1>2. UNCHANGED <<server, conn, answer>> => UNCHANGED sent
  BY DEF server
<1>3. ASSUME NEW c \in Conns, c # k, Task(k)
      PROVE  /\ writer'[c] = writer[c] /\ next'[c] = next[c]
             /\ outbox'[c] = outbox[c] /\ since'[c] = since[c]
  BY <1>3 DEF Task, Forward, Ping, Write, Hang, HubTypeOK
<1>4. CASE Forward(k) \/ Ping(k) \/ Hang(k)
  <2>1. UNCHANGED <<server, page>> /\ UNCHANGED <<conn, answer, shown, loaded, sent>>
    BY <1>4 DEF Forward, Ping, Hang, server, page
  <2>2. ASSUME NEW c \in Conns, c # k PROVE ConnectionOK(c)'
    BY <1>1, <1>3, <2>1, <2>2, LeftAlone
  <2>3. CASE Forward(k)
    BY <2>1, <2>2, <2>3, <1>1, ForwardStep
  <2>4. CASE Ping(k)
    <3>1. ConnectionOK(k)'
      BY <1>1, <2>1, <2>4, LeftAlone DEF Ping
    <3> QED BY <1>1, <2>1, <2>2, <3>1
  <2>5. CASE Hang(k)
    <3>1. conn' # k /\ outbox'[k] = << >>
      BY <2>1, <2>5 DEF Hang, HubTypeOK
    <3>2. ConnectionOK(k)'
      BY <3>1 DEF ConnectionOK
    <3> QED BY <1>1, <2>1, <2>2, <3>2
  <2> QED BY <1>4, <2>3, <2>4, <2>5
<1>5. CASE Write(k) /\ conn = k
  <2>1. UNCHANGED <<server, conn, answer>>
    BY <1>5 DEF Write
  <2>2. ASSUME NEW c \in Conns, c # k PROVE ConnectionOK(c)'
    BY <1>1, <1>3, <1>5, <2>1, <2>2, NotThePages
  <2> QED BY <1>5, <2>1, <2>2, WriteStep
<1>6. CASE Write(k) /\ conn # k
  <2>1. UNCHANGED <<server, page, conn, answer, shown, loaded, sent>>
    BY <1>6 DEF Write, page, server
  <2>2. ASSUME NEW c \in Conns, c # k PROVE ConnectionOK(c)'
    BY <1>1, <1>3, <2>1, <2>2, LeftAlone
  <2>3. conn' # k /\ outbox'[k] = << >>
    BY <1>6, <2>1 DEF Write, HubTypeOK
  <2>4. ConnectionOK(k)'
    BY <2>3 DEF ConnectionOK
  <2> QED BY <1>1, <2>1, <2>2, <2>4
<1> QED BY <1>4, <1>5, <1>6 DEF Task

\* A task keeps the receiver and the outbox in order.
LEMMA TasksTyped ==
  ASSUME HubIInv, NEW k \in Conns, Task(k)
  PROVE  HubTypeOK'
<1> USE DEF HubIInv
<1>1. /\ UNCHANGED <<board, at, snap, sent, conn, answer>>
      /\ shown' \in Boards /\ loaded' \in BOOLEAN
  BY TasksStep DEF server
<1>2. /\ outbox[k] \in Seq(Nat \ {0}) /\ next[k] \in Nat
      /\ since[k] \in 1 .. next[k] /\ next[k] \in 1 .. Len(sent) + 1
      /\ Len(sent) \in Nat /\ Capacity \in Nat
  BY OutboxOf, HubAssumption DEF HubTypeOK
<1>3. /\ forwarder' \in [Conns -> BOOLEAN] /\ writer' \in [Conns -> BOOLEAN]
      /\ since' = since
  BY DEF Task, Forward, Ping, Write, Hang, HubTypeOK
<1> DEFINE Ordered(s, n) ==
             /\ s \in Seq(Nat \ {0})
             /\ \A i \in DOMAIN s :
                  /\ s[i] < n
                  /\ \A j \in DOMAIN s : i < j => s[i] < s[j]
<1>4. \A c \in Conns : Ordered(outbox[c], next[c])
  BY DEF HubTypeOK
<1>5. \E s \in Seq(Nat \ {0}), n \in since[k] .. Len(sent) + 1 :
         /\ outbox' = [outbox EXCEPT ![k] = s]
         /\ next' = [next EXCEPT ![k] = n]
         /\ Ordered(s, n)
  <2>1. /\ outbox = [outbox EXCEPT ![k] = outbox[k]]
        /\ next = [next EXCEPT ![k] = next[k]]
        /\ next[k] \in since[k] .. Len(sent) + 1
    BY <1>2 DEF HubTypeOK
  <2>2. CASE Forward(k) /\ Lags(k)
    <3>1. /\ next' = [next EXCEPT ![k] = Oldest(k)] /\ UNCHANGED outbox
          /\ Oldest(k) \in since[k] .. Len(sent) + 1 /\ Oldest(k) >= next[k]
      BY <1>2, <2>2 DEF Forward, Lags, Oldest
    <3>2. Ordered(outbox[k], Oldest(k))
      <4>1. Ordered(outbox[k], next[k])
        BY <1>4
      <4>2. \A i \in DOMAIN outbox[k] : outbox[k][i] \in Nat
        BY <1>2
      <4>3. Oldest(k) \in Int
        BY <1>2 DEF Oldest
      <4> QED BY <1>2, <3>1, <4>1, <4>2, <4>3
    <3> HIDE DEF Ordered
    <3> QED BY <1>2, <2>1, <3>1, <3>2
  <2>3. CASE Forward(k) /\ ~Lags(k) /\ writer[k]
    <3> DEFINE s == Append(outbox[k], next[k])
    <3>1. /\ next' = [next EXCEPT ![k] = next[k] + 1]
          /\ outbox' = [outbox EXCEPT ![k] = s]
          /\ next[k] <= Len(sent)
      BY <2>3 DEF Forward, Taken
    <3>2. s \in Seq(Nat \ {0}) /\ next[k] + 1 \in since[k] .. Len(sent) + 1
      BY <1>2, <3>1
    <3>3. Ordered(s, next[k] + 1)
      <4>1. /\ Len(outbox[k]) \in Nat /\ DOMAIN outbox[k] = 1 .. Len(outbox[k])
            /\ DOMAIN s = 1 .. Len(outbox[k]) + 1
            /\ s[Len(outbox[k]) + 1] = next[k]
            /\ \A i \in 1 .. Len(outbox[k]) : s[i] = outbox[k][i] /\ s[i] \in Nat
        BY <1>2
      <4>2. Ordered(outbox[k], next[k])
        BY <1>4
      <4> HIDE DEF s
      <4>3. ASSUME NEW i \in DOMAIN s
            PROVE  /\ s[i] < next[k] + 1
                   /\ \A j \in DOMAIN s : i < j => s[i] < s[j]
        <5>1. CASE i = Len(outbox[k]) + 1
          BY <1>2, <4>1, <5>1
        <5>2. CASE i \in DOMAIN outbox[k]
          <6>1. s[i] = outbox[k][i] /\ s[i] < next[k] /\ s[i] \in Nat
            BY <4>1, <4>2, <5>2
          <6>2. ASSUME NEW j \in DOMAIN s, i < j PROVE s[i] < s[j]
            <7>1. CASE j = Len(outbox[k]) + 1
              BY <4>1, <6>1, <7>1
            <7>2. CASE j \in DOMAIN outbox[k]
              BY <4>1, <4>2, <5>2, <6>2, <7>2
            <7> QED BY <4>1, <7>1, <7>2
          <6> QED BY <1>2, <6>1, <6>2
        <5> QED BY <4>1, <5>1, <5>2
      <4> QED BY <3>2, <4>3
    <3> HIDE DEF Ordered, s
    <3> QED BY <3>1, <3>2, <3>3
  <2>4. CASE Write(k) /\ conn = k
    <3> DEFINE s == Tail(outbox[k])
    <3>1. /\ outbox' = [outbox EXCEPT ![k] = s] /\ UNCHANGED next
          /\ outbox[k] # << >>
      BY <2>4 DEF Write
    <3>2. /\ s \in Seq(Nat \ {0})
          /\ Len(outbox[k]) \in Nat \ {0} /\ DOMAIN outbox[k] = 1 .. Len(outbox[k])
          /\ DOMAIN s = 1 .. Len(outbox[k]) - 1
          /\ \A i \in DOMAIN s : s[i] = outbox[k][i + 1]
      BY <1>2, <3>1
    <3>3. Ordered(s, next[k])
      <4>1. Ordered(outbox[k], next[k])
        BY <1>4
      <4> HIDE DEF s
      <4>2. ASSUME NEW i \in DOMAIN s
            PROVE  /\ s[i] < next[k]
                   /\ \A j \in DOMAIN s : i < j => s[i] < s[j]
        <5>1. i + 1 \in DOMAIN outbox[k]
          BY <3>2
        <5>2. s[i] < next[k]
          BY <3>2, <4>1, <5>1
        <5>3. ASSUME NEW j \in DOMAIN s, i < j PROVE s[i] < s[j]
          <6>1. j + 1 \in DOMAIN outbox[k] /\ i + 1 < j + 1
            BY <3>2, <5>3
          <6> QED BY <3>2, <4>1, <5>1, <6>1
        <5> QED BY <5>2, <5>3
      <4> QED BY <3>2, <4>2
    <3> HIDE DEF Ordered, s
    <3> QED BY <2>1, <3>1, <3>2, <3>3
  <2>5. CASE \/ Hang(k)
             \/ Write(k) /\ conn # k
    <3>1. outbox' = [outbox EXCEPT ![k] = << >>] /\ UNCHANGED next
      BY <2>5 DEF Hang, Write
    <3>2. << >> \in Seq(Nat \ {0}) /\ Ordered(<< >>, next[k])
      OBVIOUS
    <3> HIDE DEF Ordered
    <3> QED BY <2>1, <3>1, <3>2
  <2>6. CASE \/ Ping(k)
             \/ Forward(k) /\ ~Lags(k) /\ ~writer[k]
    <3>1. UNCHANGED <<next, outbox>>
      BY <2>6 DEF Ping, Forward
    <3> HIDE DEF Ordered
    <3> QED BY <1>2, <1>4, <2>1, <3>1
  <2> QED BY <2>2, <2>3, <2>4, <2>5, <2>6 DEF Task
<1>6. PICK s \in Seq(Nat \ {0}), n \in since[k] .. Len(sent) + 1 :
         /\ outbox' = [outbox EXCEPT ![k] = s]
         /\ next' = [next EXCEPT ![k] = n]
         /\ Ordered(s, n)
  BY <1>5
<1>7. next' \in [Conns -> Nat] /\ outbox' \in [Conns -> Seq(Nat \ {0})]
  BY <1>2, <1>6 DEF HubTypeOK
<1>8. ASSUME NEW c \in Conns
      PROVE  /\ since[c] \in 1 .. next'[c] /\ next'[c] \in 1 .. Len(sent) + 1
             /\ Ordered(outbox'[c], next'[c])
  <2>1. CASE c = k
    <3> HIDE DEF Ordered
    <3> QED BY <1>2, <1>6, <2>1 DEF HubTypeOK
  <2>2. CASE c # k
    <3> HIDE DEF Ordered
    <3>1. next'[c] = next[c] /\ outbox'[c] = outbox[c]
      BY <1>6, <2>2 DEF HubTypeOK
    <3> QED BY <1>4, <3>1, OutboxOf
  <2> QED BY <2>1, <2>2
<1> QED BY <1>1, <1>3, <1>7, <1>8 DEF HubTypeOK

\* At first nothing is sent and nobody connected.
LEMMA HubStart == ASSUME HubInit PROVE HubIInv
<1>1. HubTypeOK
  <2>1. 0 \in Boards /\ NoAnswer \in Boards \union {NoAnswer}
    BY HubAssumption DEF Boards
  <2>2. << >> \in Seq(Boards \union {Notice}) /\ << >> \in Seq(Nat \ {0})
    OBVIOUS
  <2>3. outbox \in [Conns -> Seq(Nat \ {0})]
    BY <2>2 DEF HubInit
  <2> QED BY <2>1, <2>2, <2>3 DEF HubInit, HubTypeOK
<1>2. HasLast
  BY DEF HubInit, HasLast, IsLast
<1>3. \A k \in Conns : ConnectionOK(k)
  BY HubAssumption DEF HubInit, ConnectionOK, NoConn
<1> QED BY <1>1, <1>2, <1>3 DEF HubIInv

\* Handlers build scoreboards and send them,
LEMMA HandlersStep ==
  ASSUME HubIInv, \/ \E w \in Senders : Handler(w)
                  \/ announce
  PROVE  HubIInv'
<1> USE DEF HubIInv
<1>1. /\ board \in Boards /\ MaxBoard \in Nat
      /\ snap \in [Senders -> Boards]
      /\ at \in [Senders -> {"idle", "build", "send"}]
      /\ sent \in Seq(Boards \union {Notice})
  BY HubAssumption DEF HubTypeOK
<1>2. UNCHANGED <<tasks, page>>
  BY DEF Handler, Commit, Build, Skip, broadcast, announce
<1>3. /\ board' \in Boards /\ snap' \in [Senders -> Boards]
      /\ at' \in [Senders -> {"idle", "build", "send"}]
  <2>1. 0 \in Boards
    BY <1>1 DEF Boards
  <2>2. board < MaxBoard => board + 1 \in Boards
    BY <1>1 DEF Boards
  <2> QED
    BY <1>1, <2>1, <2>2 DEF Handler, Commit, Build, Skip, broadcast, announce
<1>4. CASE UNCHANGED sent
  <2>1. HubTypeOK'
    BY <1>2, <1>3, <1>4 DEF HubTypeOK, tasks, page
  <2>2. \A k \in Conns : ConnectionOK(k)'
    BY <1>2, <1>4, LeftAlone DEF tasks
  <2> QED BY <1>4, <2>1, <2>2 DEF HasLast
<1>5. CASE \E e \in Boards \union {Notice} : sent' = Append(sent, e)
  <2>1. /\ HasLast' /\ sent' \in Seq(Boards \union {Notice})
        /\ Len(sent') = Len(sent) + 1 /\ Len(sent) \in Nat
        /\ \A k \in Conns : ConnectionOK(k)'
    BY <1>1, <1>2, <1>5, SendStep
  <2>2. HubTypeOK'
    BY <1>2, <1>3, <2>1 DEF HubTypeOK, tasks, page
  <2> QED BY <2>1, <2>2
<1>6. \/ UNCHANGED sent
      \/ \E e \in Boards \union {Notice} : sent' = Append(sent, e)
  BY <1>1 DEF Handler, Commit, Build, Skip, broadcast, announce
<1> QED BY <1>4, <1>5, <1>6

\* and the page connects, asks and is answered.
LEMMA PagesStep ==
  ASSUME HubIInv, Connect \/ Break \/ Ask \/ Arrive
  PROVE  HubIInv'
<1> USE DEF HubIInv
<1>1. UNCHANGED server /\ UNCHANGED <<board, at, snap, sent>>
  BY DEF Connect, handle_socket, Break, Ask, Arrive, server
<1>2. HasLast' /\ LastBoard' = LastBoard /\ (PushedOut <=> PushedOut')
  BY <1>1 DEF HasLast, LastBoard, PushedOut
<1>3. CASE Connect
  <2>1. PICK c \in Conns : handle_socket(c)
    BY <1>3 DEF Connect
  <2>2. /\ conn = NoConn /\ conn' = c /\ ~writer[c] /\ outbox[c] = << >>
        /\ UNCHANGED <<outbox, answer, shown, loaded>>
        /\ LastBoard \in 0 .. Len(sent) /\ Len(sent) \in Nat
    BY <2>1, LastPlace DEF handle_socket, ConnectionOK
  <2>3. HubTypeOK'
    BY <1>1, <2>1, <2>2 DEF handle_socket, HubTypeOK
  <2>4. ConnectionOK(c)'
    <3>1. writer'[c] /\ since'[c] = Len(sent) + 1
      BY <2>1 DEF handle_socket, HubTypeOK
    <3> QED BY <1>2, <2>2, <3>1 DEF ConnectionOK
  <2>5. ASSUME NEW k \in Conns, k # c PROVE ConnectionOK(k)'
    <3>1. writer'[k] = writer[k] /\ outbox'[k] = outbox[k] /\ conn' # k
      BY <2>1, <2>2, <2>5 DEF handle_socket, HubTypeOK
    <3> QED BY <3>1, NotThePages
  <2> QED BY <1>2, <2>3, <2>4, <2>5
<1>4. CASE Break
  <2>1. conn' = NoConn /\ UNCHANGED <<tasks, answer, shown, loaded>>
    BY <1>4 DEF Break
  <2>2. HubTypeOK'
    BY <1>1, <2>1 DEF HubTypeOK, tasks
  <2>3. \A k \in Conns : ConnectionOK(k)'
    BY <2>1, NotThePages, HubAssumption DEF tasks, NoConn
  <2> QED BY <1>2, <2>2, <2>3
<1>5. CASE Ask
  <2>1. answer' = board /\ UNCHANGED <<tasks, conn, shown, loaded>>
    BY <1>5 DEF Ask
  <2>2. HubTypeOK'
    BY <1>1, <2>1 DEF HubTypeOK, tasks
  <2>3. \A k \in Conns : ConnectionOK(k)'
    BY <1>1, <1>2, <2>1 DEF ConnectionOK, OnItsWay, tasks
  <2> QED BY <1>2, <2>2, <2>3
<1>6. CASE Arrive
  <2>1. /\ answer # NoAnswer /\ shown' = answer /\ loaded' = TRUE
        /\ answer' = NoAnswer /\ UNCHANGED <<tasks, conn>>
    BY <1>6 DEF Arrive
  <2>2. HubTypeOK'
    BY <1>1, <2>1 DEF HubTypeOK, tasks
  <2>3. \A k \in Conns : ConnectionOK(k)'
    BY <1>1, <1>2, <2>1 DEF ConnectionOK, OnItsWay, tasks
  <2> QED BY <1>2, <2>2, <2>3
<1> QED BY <1>3, <1>4, <1>5, <1>6

\* Every step leaves every connection what it is due,
LEMMA HubStep == ASSUME HubIInv, [HubNext]_hubVars PROVE HubIInv'
<1> USE DEF HubIInv
<1>1. CASE UNCHANGED hubVars
  <2>1. UNCHANGED <<server, tasks, page>>
    BY <1>1 DEF hubVars
  <2>2. HubTypeOK' /\ HasLast'
    BY <2>1 DEF server, tasks, page, HubTypeOK, HasLast
  <2>3. \A k \in Conns : ConnectionOK(k)'
    BY <2>1, LeftAlone DEF server, tasks
  <2> QED BY <2>2, <2>3
<1>2. ASSUME NEW k \in Conns, Task(k) PROVE HubIInv'
  <2>1. HubTypeOK' /\ UNCHANGED sent /\ \A c \in Conns : ConnectionOK(c)'
    BY <1>2, TasksTyped, TasksStep DEF server
  <2> QED BY <2>1 DEF HasLast
<1> QED BY <1>1, <1>2, HandlersStep, PagesStep DEF HubNext

\* so that always holds.
LEMMA HubHolds == HubSpec => []HubIInv
BY HubStart, HubStep, PTL DEF HubSpec

\* What is to be written to a connection is events of the channel, in order, none
\* twice, for any number of connections and events and any size of the channel.
THEOREM HubTypeCorrect == HubSpec => []HubTypeOK
<1>1. HubIInv => HubTypeOK
  BY DEF HubIInv
<1> QED BY <1>1, HubHolds, PTL

\* The receiver of the page's connection has taken every event that was sent and
\* the page has got all of them.
CaughtUp(k) == conn = k /\ next[k] = Len(sent) + 1 /\ outbox[k] = << >>

\* A page whose connection has nothing left for it is up to date, however far it
\* lagged: what LastBoardShown says a page comes to, whenever it comes to it.
THEOREM NothingMissed ==
  HubSpec => [](\A k \in Conns : CaughtUp(k) => UpToDate(k))
<1>1. HubIInv => \A k \in Conns : CaughtUp(k) => UpToDate(k)
  <2> SUFFICES ASSUME HubIInv, NEW k \in Conns, CaughtUp(k), ~UpToDate(k)
               PROVE  FALSE
    OBVIOUS
  <2>1. OnItsWay(k)
    BY DEF HubIInv, ConnectionOK, CaughtUp, UpToDate
  <2>2. LastBoard \in 0 .. Len(sent) /\ Len(sent) \in Nat
    BY LastPlace DEF HubIInv
  <2>3. loaded \/ shown = sent[LastBoard]
    BY <2>1, <2>2 DEF OnItsWay, CaughtUp
  <2> QED BY <2>3 DEF UpToDate
<1> QED BY <1>1, HubHolds, PTL

=============================================================================
