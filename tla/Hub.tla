-------------------------------- MODULE Hub --------------------------------
(***************************************************************************)
(* WsHub and one page that listens to it: a broadcast channel of bounded   *)
(* size, per connection a task that forwards its events to an outbox and a *)
(* loop that writes the outbox to the socket, and a page that shows the    *)
(* last scoreboard it got, over the socket or by GET /api/scoreboard.      *)
(* Scoreboards are numbered by the changes they have seen.  Announcements, *)
(* solves and changes of the competition's state go through the channel as *)
(* well, and take the place of scoreboards there.                          *)
(*                                                                         *)
(* The specification is called HubSpec, and so on, so that a module can    *)
(* extend this one and that of the handlers.                               *)
(***************************************************************************)
EXTENDS Integers, Sequences, FiniteSets

CONSTANTS
  Senders,   \* threads whose handlers change the scoreboard
  Conns,     \* connections of the page, one after the other
  Capacity,  \* broadcast::channel(256)
  MaxBoard,  \* bound: changes of the scoreboard
  MaxNotices \* bound: events that are no scoreboard

ASSUME HubAssumption ==
  /\ Capacity \in Nat \ {0} /\ MaxBoard \in Nat /\ MaxNotices \in Nat
  /\ "none" \notin Conns

VARIABLES
  board,      \* the scoreboard in the database
  at, snap,   \* per handler: next step, the scoreboard it has built
  sent,       \* the events of the channel so far: scoreboards and notices
  conn,       \* the connection of the page, or none
  forwarder,  \* per connection: is its forwarding task running?
  writer,     \* per connection: is handle_socket running?
  next,       \* per connection: the next event its receiver takes
  outbox,     \* per connection: events forwarded, to be written
  since,      \* per connection: the first event sent after it subscribed
  answer,     \* an answer to GET /api/scoreboard that is on its way
  shown,      \* the scoreboard on the page
  loaded      \* history: it came by GET

NoConn   == "none"
NoAnswer == -1

\* WsEvent other than ScoreUpdate: the page shows it beside the scoreboard.
Notice == -2

server  == <<board, at, snap, sent>>
tasks   == <<forwarder, writer, next, outbox, since>>
page    == <<conn, answer, shown, loaded>>
hubVars == <<server, tasks, page>>

Boards == 0 .. MaxBoard

HubInit ==
  /\ board = 0
  /\ at = [w \in Senders |-> "idle"]
  /\ snap = [w \in Senders |-> 0]
  /\ sent = << >>
  /\ conn = NoConn
  /\ forwarder = [k \in Conns |-> FALSE]
  /\ writer = [k \in Conns |-> FALSE]
  /\ next = [k \in Conns |-> 1]
  /\ outbox = [k \in Conns |-> << >>]
  /\ since = [k \in Conns |-> 1]
  /\ answer = NoAnswer
  /\ shown = 0
  /\ loaded = TRUE

-----------------------------------------------------------------------------
(* Handlers: change the scores, build the scoreboard, send it.             *)

Commit(w) ==
  /\ at[w] = "idle" /\ board < MaxBoard
  /\ board' = board + 1
  /\ at' = [at EXCEPT ![w] = "build"]
  /\ UNCHANGED <<snap, sent, tasks, page>>

Build(w) ==
  /\ at[w] = "build"
  /\ snap' = [snap EXCEPT ![w] = board]
  /\ at' = [at EXCEPT ![w] = "send"]
  /\ UNCHANGED <<board, sent, tasks, page>>

broadcast(w) ==
  /\ at[w] = "send"
  /\ sent' = Append(sent, snap[w])
  /\ at' = [at EXCEPT ![w] = "idle"]
  /\ snap' = [snap EXCEPT ![w] = 0]
  /\ UNCHANGED <<board, tasks, page>>

\* broadcast_score_update goes without sending if there is no scoreboard to send.
Skip(w) ==
  /\ at[w] = "build"
  /\ at' = [at EXCEPT ![w] = "idle"]
  /\ UNCHANGED <<board, snap, sent, tasks, page>>

\* announce; submit_flag and broadcast_competition_state send such an event too,
\* before they build the scoreboard.
announce ==
  /\ Cardinality({i \in DOMAIN sent : sent[i] = Notice}) < MaxNotices
  /\ sent' = Append(sent, Notice)
  /\ UNCHANGED <<board, at, snap, tasks, page>>

-----------------------------------------------------------------------------
(* Connections                                                             *)

\* handle_socket subscribes: only what is sent from now on will be received.
handle_socket(k) ==
  /\ conn = NoConn /\ ~forwarder[k] /\ ~writer[k]
  /\ conn' = k
  /\ forwarder' = [forwarder EXCEPT ![k] = TRUE]
  /\ writer' = [writer EXCEPT ![k] = TRUE]
  /\ next' = [next EXCEPT ![k] = Len(sent) + 1]
  /\ since' = [since EXCEPT ![k] = Len(sent) + 1]
  /\ UNCHANGED <<server, outbox, answer, shown, loaded>>

\* Mutant of Oldest: a receiver that lags is not moved on.
OldestOfAll(k) == next[k]

\* The first event the channel still holds.
Oldest(k) == Len(sent) - Capacity + 1

Lags(k) == Len(sent) - next[k] >= Capacity

\* Mutant of Taken: an event is put in the outbox again and again.
TakenAgain(k) == next[k]

\* The receiver after it has taken an event.
Taken(k) == next[k] + 1

\* rx.recv(): an event for the outbox; the end, where nobody takes it; or Lagged,
\* which moves the receiver to the oldest event left.
Forward(k) ==
  /\ forwarder[k] /\ next[k] <= Len(sent)
  /\ IF Lags(k)
     THEN next' = [next EXCEPT ![k] = Oldest(k)] /\ UNCHANGED <<forwarder, outbox>>
     ELSE IF ~writer[k]
     THEN forwarder' = [forwarder EXCEPT ![k] = FALSE] /\ UNCHANGED <<next, outbox>>
     ELSE /\ next' = [next EXCEPT ![k] = Taken(k)]
          /\ outbox' = [outbox EXCEPT ![k] = Append(@, next[k])]
          /\ UNCHANGED forwarder
  /\ UNCHANGED <<server, page, writer, since>>

\* Mutant of Ends: pings are sent whether or not somebody takes them.
EndsNever(k) == FALSE

\* outbox_tx.send(Ping).is_err()
Ends(k) == ~writer[k]

\* ping_timer: a ping that nobody takes ends the task; others are not modelled.
Ping(k) ==
  /\ forwarder[k] /\ Ends(k)
  /\ forwarder' = [forwarder EXCEPT ![k] = FALSE]
  /\ UNCHANGED <<server, page, writer, next, outbox, since>>

\* The page's handler of messages: what it shows after an event.
ShownAfter(event) == IF event = Notice THEN shown ELSE event

\* socket.send, which reaches the page or fails; then handle_socket ends.
Write(k) ==
  /\ writer[k] /\ outbox[k] # << >>
  /\ IF conn = k
     THEN /\ shown' = ShownAfter(sent[Head(outbox[k])])
          /\ loaded' = (loaded /\ sent[Head(outbox[k])] = Notice)
          /\ outbox' = [outbox EXCEPT ![k] = Tail(@)]
          /\ UNCHANGED writer
     ELSE /\ writer' = [writer EXCEPT ![k] = FALSE]
          /\ outbox' = [outbox EXCEPT ![k] = << >>]
          /\ UNCHANGED <<shown, loaded>>
  /\ UNCHANGED <<server, conn, answer, forwarder, next, since>>

\* socket.recv() finds the connection closed.
Hang(k) ==
  /\ writer[k] /\ conn # k
  /\ writer' = [writer EXCEPT ![k] = FALSE]
  /\ outbox' = [outbox EXCEPT ![k] = << >>]
  /\ UNCHANGED <<server, page, forwarder, next, since>>

-----------------------------------------------------------------------------
(* The page                                                                *)

\* The connection breaks; connectWebSocket will be tried again after a while,
\* and nothing else is done.
Break ==
  /\ conn # NoConn
  /\ conn' = NoConn
  /\ UNCHANGED <<server, tasks, answer, shown, loaded>>

\* loadScoreboard, when the page opens and after the user's own requests: the
\* server answers with the scoreboard of now, which is shown when it arrives.
Ask ==
  /\ answer = NoAnswer
  /\ answer' = board
  /\ UNCHANGED <<server, tasks, conn, shown, loaded>>

Arrive ==
  /\ answer # NoAnswer
  /\ shown' = answer
  /\ loaded' = TRUE
  /\ answer' = NoAnswer
  /\ UNCHANGED <<server, tasks, conn>>

Handler(w) == Commit(w) \/ Build(w) \/ Skip(w) \/ broadcast(w)
Task(k)    == Forward(k) \/ Ping(k) \/ Write(k) \/ Hang(k)
Connect    == \E k \in Conns : handle_socket(k)

HubNext ==
  \/ \E w \in Senders : Handler(w)
  \/ \E k \in Conns : Task(k)
  \/ announce \/ Connect \/ Break \/ Ask \/ Arrive

\* Handlers finish what they began, both tasks of a connection are scheduled, a
\* closed socket is noticed, the ping timer fires, answers arrive, and the page
\* tries again to connect.
HubFairness ==
  /\ \A w \in Senders : WF_hubVars(Build(w)) /\ WF_hubVars(broadcast(w))
  /\ \A k \in Conns : WF_hubVars(Forward(k)) /\ WF_hubVars(Ping(k))
                        /\ WF_hubVars(Write(k)) /\ WF_hubVars(Hang(k))
  /\ WF_hubVars(Connect) /\ WF_hubVars(Arrive)

HubSpec == HubInit /\ [][HubNext]_hubVars /\ HubFairness

-----------------------------------------------------------------------------
(* Properties                                                              *)

\* The outbox of a connection has events of the channel in order, none twice.
HubTypeOK ==
  /\ board \in Boards /\ shown \in Boards /\ snap \in [Senders -> Boards]
  /\ at \in [Senders -> {"idle", "build", "send"}]
  /\ sent \in Seq(Boards \union {Notice})
  /\ conn \in Conns \union {NoConn}
  /\ answer \in Boards \union {NoAnswer}
  /\ loaded \in BOOLEAN
  /\ forwarder \in [Conns -> BOOLEAN] /\ writer \in [Conns -> BOOLEAN]
  /\ next \in [Conns -> Nat] /\ since \in [Conns -> Nat]
  /\ outbox \in [Conns -> Seq(Nat \ {0})]
  /\ \A k \in Conns :
       /\ since[k] \in 1 .. next[k] /\ next[k] \in 1 .. Len(sent) + 1
       /\ \A i \in DOMAIN outbox[k] :
            /\ outbox[k][i] < next[k]
            /\ \A j \in DOMAIN outbox[k] : i < j => outbox[k][i] < outbox[k][j]

\* No event after the i-th is a scoreboard; that one is, unless there is none.
IsLast(events, i) ==
  /\ i = 0 \/ events[i] # Notice
  /\ \A j \in i + 1 .. Len(events) : events[j] = Notice

LastOf(events) == CHOOSE i \in 0 .. Len(events) : IsLast(events, i)

\* The last scoreboard sent, by its place among the events; 0 if there is none.
LastBoard == LastOf(sent)

\* So many events came after it that a receiver which lags may have missed it.
PushedOut == Len(sent) - LastBoard >= Capacity

\* The page shows the last scoreboard sent; unless it was sent before the page
\* connected, a whole channel of other events followed it, or the page has
\* loaded one of its own since.
UpToDate(k) ==
  \/ since[k] > LastBoard \/ PushedOut \/ loaded
  \/ shown = sent[LastBoard]

\* "Live scoreboard updates over WebSocket": a page that stays connected is in
\* the end up to date, however far it lagged and whatever was lost before.
LastBoardShown ==
  \/ []<>(conn = NoConn)
  \/ \E k \in Conns : <>[](conn = k /\ UpToDate(k))

\* "outbox_tx.send(...).is_err() => break": the task of a connection that has
\* gone ends, also if no event is ever sent again.
ForwardersEnd ==
  \A k \in Conns : []<>(conn = k \/ ~forwarder[k])

=============================================================================
