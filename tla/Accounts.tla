------------------------------ MODULE Accounts ------------------------------
(***************************************************************************)
(* Users, teams and sessions: registration, login, passwords, roles, bans  *)
(* and team membership, run by several worker threads.                     *)
(*                                                                         *)
(* Every handler looks things up in earlier statements than it writes:     *)
(* names that are free, seats in a team, admins that would remain, the     *)
(* password and role a session is issued for.  The handlers differ in the  *)
(* order of a few kinds of statement, so they are a table, Script, and an  *)
(* action is one kind of statement.  Tokens, hashes and texts are left     *)
(* out: a password is its version, a session what it was issued for.       *)
(***************************************************************************)
EXTENDS Integers, Sequences, FiniteSets

CONSTANTS
  Workers,      \* worker threads
  People,       \* usernames
  Teams,        \* team names
  MaxTeamSize,  \* competition.max_team_size
  Open,         \* competition.registration_open
  Mixes,        \* bound: the sets of kinds of request that meet in one behaviour
  MayFail,      \* may a statement fail, or the process stop, midway?
  MaxVersion,   \* bound: later passwords are not told from this one
  MaxSessions,  \* bound: no login or registration while so many are valid
  NoTeam, NoOne

AdminOperations == {"create_user", "ban_user", "update_user_role",
                    "update_user_password", "update_user_team"}

PlayerOperations == {"change_password", "create_team", "join_team"}

Operations == AdminOperations \union PlayerOperations \union {"register", "login"}

ASSUME ConstantsAssumption ==
  /\ IsFiniteSet(People) /\ IsFiniteSet(Workers)
  /\ MaxTeamSize \in Nat \ {0}
  /\ Open \in BOOLEAN /\ MayFail \in BOOLEAN
  /\ MaxVersion \in Nat /\ MaxSessions \in Nat
  /\ NoTeam \notin Teams /\ NoOne \notin People
  /\ Mixes \subseteq SUBSET Operations

VARIABLES
  role,      \* role column; "none" where there is no row of users
  team,      \* team_id column
  version,   \* which password the stored hash is of
  teams,     \* rows of teams, by name
  sessions,  \* valid sessions, with the claims of their tokens
  mix,       \* the kinds of request of this behaviour, one of Mixes
  pc, req, mem   \* per worker: next step, request, what it has read

tables == <<role, team, version, teams, sessions>>
vars   == <<tables, mix, pc, req, mem>>

Users   == {u \in People : role[u] # "none"}
Admins  == {u \in People : role[u] = "admin"}
Members(t) == {u \in People : team[u] = t}

Session == [user : People, role : {"player", "admin", "banned"},
            version : 0 .. MaxVersion, stale : BOOLEAN]

-----------------------------------------------------------------------------
(* Requests; `team` is where the user is to go, `new` a team to be made.   *)

Request ==
  [op : {"register", "create_user"}, user : People, team : Teams \union {NoTeam},
   new : BOOLEAN, role : {"player", "admin"}]
    \union
  [op : {"update_user_team", "create_team", "join_team"}, user : People,
   team : Teams \union {NoTeam}, new : BOOLEAN, role : {"player"}]
    \union
  [op : {"update_user_role"}, user : People, team : {NoTeam}, new : {FALSE},
   role : {"admin", "player", "banned"}]
    \union
  [op : {"login", "change_password", "ban_user", "update_user_password"},
   user : People, team : {NoTeam}, new : {FALSE}, role : {"player"}]

Wellformed(r) ==
  /\ r.op \in mix
  /\ r.new => r.team # NoTeam
  /\ r.op = "register" => r.role = "player"
  /\ r.op = "create_team" => r.new
  /\ r.op = "join_team"   => r.team # NoTeam /\ ~r.new

NoRequest == [op |-> "none", user |-> NoOne, team |-> NoTeam, new |-> FALSE,
              role |-> "player"]

\* What a handler remembers of what it has read: that there was no user, the
\* role and password of its user, how many admins or members it has counted.
Memory == [first : BOOLEAN, role : {"none", "player", "admin", "banned"},
           version : 0 .. MaxVersion, counted : 0 .. Cardinality(People)]
Blank  == [first |-> FALSE, role |-> "none", version |-> 0, counted |-> 0]

\* The statements of each handler, in order.
Script ==
  [none                 |-> << >>,
   register             |-> <<"find_free", "count", "check_name", "check_room",
                              "create", "promote", "make_team", "add_member",
                              "find_user", "open_session">>,
   login                |-> <<"find_user", "open_session">>,
   change_password      |-> <<"find_user", "write_password", "revoke">>,
   create_team          |-> <<"find_teamless", "check_name", "make_team", "add_member">>,
   join_team            |-> <<"find_teamless", "check_room", "add_member">>,
   create_user          |-> <<"find_free", "check_name", "check_room", "create",
                              "promote", "make_team", "add_member">>,
   ban_user             |-> <<"ban", "revoke">>,
   update_user_role     |-> <<"read_role", "count_admins", "write_role", "revoke">>,
   update_user_password |-> <<"find_user", "write_password", "revoke">>,
   update_user_team     |-> <<"find_user", "check_name", "check_room", "make_team",
                              "add_member", "revoke">>]

\* The conditions under which a handler runs a statement of its script.
Needed(step, r, m) ==
  CASE step \in {"check_name", "make_team"} -> r.new
    [] step = "check_room"   -> r.team # NoTeam /\ ~r.new
    [] step = "promote"      -> m.first \/ r.role = "admin"
    [] step = "add_member"   -> r.team # NoTeam \/ r.op = "update_user_team"
    [] step = "count_admins" -> m.role = "admin" /\ r.role # "admin"
    [] OTHER                 -> TRUE

\* Where a handler goes from position i of its script: the next one needed.
After(i, r, m) ==
  LET script == Script[r.op]
      rest   == {j \in i + 1 .. Len(script) : Needed(script[j], r, m)}
  IN  IF rest = {} THEN 0 ELSE CHOOSE j \in rest : \A k \in rest : j <= k

\* pc is a position of the script; 0 is an idle worker.
At(w, step) == pc[w] # 0 /\ Script[req[w].op][pc[w]] = step

Leave(w) ==
  /\ pc'  = [pc  EXCEPT ![w] = 0]
  /\ req' = [req EXCEPT ![w] = NoRequest]
  /\ mem' = [mem EXCEPT ![w] = Blank]

\* The worker has read m and goes on, or answers after its last statement.
GoOn(w, m) ==
  LET next == After(pc[w], req[w], m)
  IN  IF next = 0 THEN Leave(w)
      ELSE /\ pc'  = [pc  EXCEPT ![w] = next]
           /\ mem' = [mem EXCEPT ![w] = m]
           /\ UNCHANGED req

User(w) == req[w].user
Team(w) == req[w].team

Init ==
  /\ role = [u \in People |-> "none"]
  /\ team = [u \in People |-> NoTeam]
  /\ version = [u \in People |-> 0]
  /\ teams = {}
  /\ sessions = {}
  /\ mix \in Mixes
  /\ pc  = [w \in Workers |-> 0]
  /\ req = [w \in Workers |-> NoRequest]
  /\ mem = [w \in Workers |-> Blank]

\* require_admin (the claims of a valid session), current_user (its user).
Authorized(r) ==
  CASE r.op \in AdminOperations  -> \E s \in sessions : s.role = "admin"
    [] r.op \in PlayerOperations -> \E s \in sessions : s.user = r.user
    [] OTHER                     -> TRUE

Accept(w) ==
  /\ pc[w] = 0
  /\ \E r \in Request :
       /\ Wellformed(r) /\ Authorized(r)
       /\ r.op \in {"login", "register"} => Cardinality(sessions) < MaxSessions
       /\ pc'  = [pc  EXCEPT ![w] = After(0, r, Blank)]
       /\ req' = [req EXCEPT ![w] = r]
  /\ UNCHANGED <<tables, mem>>

-----------------------------------------------------------------------------
(* Statements that look something up and may answer with an error.         *)

\* Mutants of LastAdmin and HasRoom: off by one.
NoAdmin == Cardinality(Admins) <= 0
HasRoomForOneMore(t) == Cardinality(Members(t)) <= MaxTeamSize

\* admin_count <= 1; ensure_has_room
LastAdmin  == Cardinality(Admins) <= 1
HasRoom(t) == Cardinality(Members(t)) < MaxTeamSize

\* By invite code, by id, by name.
TeamFound(t) == t \in teams
NameTaken(t) == t \in teams

Passes(w, step) ==
  LET u == User(w)
  IN  CASE step = "find_free"     -> u \notin Users
        [] step = "count"         -> Open \/ Users = {}
        [] step = "check_name"    -> ~NameTaken(Team(w))
        [] step = "check_room"    -> TeamFound(Team(w)) /\ HasRoom(Team(w))
        [] step = "find_teamless" -> u \in Users /\ team[u] = NoTeam
        [] step = "read_role"     -> /\ u \in Users
                                     /\ ~(role[u] = "admin" /\ req[w].role = "banned")
        [] step = "count_admins"  -> ~LastAdmin
        [] step = "find_user"     ->
             /\ u \in Users
             /\ \/ req[w].op # "update_user_team" \/ Team(w) = NoTeam
                \/ team[u] # Team(w)

Reads == {"find_free", "count", "check_name", "check_room", "find_teamless",
          "read_role", "count_admins", "find_user"}

\* Mutant of Issues: a registration's session is not issued for the row created.
IssuesAtLogin(w, step) == step = "find_user" /\ req[w].op = "login"

\* The look-up whose row a session is then issued for.
Issues(w, step) == step = "find_user" /\ req[w].op \in {"register", "login"}

LookUp(w) ==
  \E step \in Reads :
     /\ At(w, step)
     /\ IF Passes(w, step)
        THEN GoOn(w, [first   |-> mem[w].first \/ (step = "count" /\ Users = {}),
                      role    |-> IF step = "read_role" \/ Issues(w, step)
                                  THEN role[User(w)] ELSE mem[w].role,
                      version |-> IF Issues(w, step)
                                  THEN version[User(w)] ELSE mem[w].version,
                      counted |-> CASE step = "count_admins" -> Cardinality(Admins)
                                    [] step = "check_room"   -> Cardinality(Members(Team(w)))
                                    [] OTHER                 -> mem[w].counted])
        ELSE Leave(w)
     /\ UNCHANGED tables

-----------------------------------------------------------------------------
(* Statements that write.                                                  *)

\* User::create; UNIQUE(username).
Create(w) ==
  /\ At(w, "create")
  /\ IF role[User(w)] = "none"
     THEN role' = [role EXCEPT ![User(w)] = "player"] /\ GoOn(w, mem[w])
     ELSE UNCHANGED role /\ Leave(w)
  /\ UNCHANGED <<team, version, teams, sessions>>

\* UPDATE users SET role: promote, write_role, and ban, which spares admins.
WriteRole(w) ==
  LET u   == User(w)
      new == CASE At(w, "promote")    -> "admin"
               [] At(w, "write_role") -> req[w].role
               [] At(w, "ban")        -> "banned"
  IN  /\ At(w, "promote") \/ At(w, "write_role") \/ At(w, "ban")
      /\ IF At(w, "ban") /\ role[u] \in {"none", "admin"}
         THEN UNCHANGED role /\ Leave(w)
         ELSE /\ role' = [role EXCEPT ![u] = new]
              /\ GoOn(w, [Blank EXCEPT !.counted = mem[w].counted])
      /\ UNCHANGED <<team, version, teams, sessions>>

\* Team::create; UNIQUE(name).
MakeTeam(w) ==
  /\ At(w, "make_team")
  /\ IF Team(w) \notin teams
     THEN teams' = teams \union {Team(w)} /\ GoOn(w, mem[w])
     ELSE UNCHANGED teams /\ Leave(w)
  /\ UNCHANGED <<role, team, version, sessions>>

\* Team::add_member, or NULL for no team.
AddMember(w) ==
  /\ At(w, "add_member")
  /\ team' = [team EXCEPT ![User(w)] = Team(w)]
  /\ GoOn(w, mem[w])
  /\ UNCHANGED <<role, version, teams, sessions>>

WritePassword(w) ==
  /\ At(w, "write_password")
  /\ version' = [version EXCEPT ![User(w)] = IF @ < MaxVersion THEN @ + 1 ELSE @]
  /\ GoOn(w, mem[w])
  /\ UNCHANGED <<role, team, teams, sessions>>

\* Mutant of RevokeAll: the sessions issued since the look-up survive.
RevokeKnown(u) == {s \in sessions : s.user = u /\ s.role # role[u]}

\* revoke_user_sessions, and the same UPDATE in ban_user and update_user_role.
RevokeAll(u) == {s \in sessions : s.user = u}

Revoke(w) ==
  /\ At(w, "revoke")
  /\ sessions' = sessions \ RevokeAll(User(w))
  /\ GoOn(w, mem[w])
  /\ UNCHANGED <<role, team, version, teams>>

\* A session that no longer says what its user is, and that nothing is about to
\* revoke: `stale` is history, and such a session is as good as any other.
Outlive(s) == [s EXCEPT !.stale = TRUE, !.version = 0]

make_claims(u, m) == [user |-> u, role |-> m.role, version |-> m.version, stale |-> FALSE]

\* create_session, for the row read before, which may have changed since.
OpenSession(w) ==
  LET u == User(w)
      m == mem[w]
      s == make_claims(u, m)
  IN  /\ At(w, "open_session")
      /\ sessions' = sessions \union
           {IF m.role = role[u] /\ m.version = version[u] THEN s ELSE Outlive(s)}
      /\ GoOn(w, m)
      /\ UNCHANGED <<role, team, version, teams>>

\* logout, or the session expires.
CloseSession ==
  /\ \E s \in sessions : sessions' = sessions \ {s}
  /\ UNCHANGED <<role, team, version, teams, pc, req, mem>>

\* A statement fails or the process stops; what was written stays.
Abort(w) ==
  /\ MayFail /\ pc[w] # 0
  /\ Leave(w)
  /\ sessions' = {IF At(w, "revoke") /\ s.user = User(w) THEN Outlive(s) ELSE s :
                    s \in sessions}
  /\ UNCHANGED <<role, team, version, teams>>

Write(w) ==
  \/ Create(w) \/ WriteRole(w) \/ MakeTeam(w) \/ AddMember(w)
  \/ WritePassword(w) \/ Revoke(w) \/ OpenSession(w)

Next ==
  /\ UNCHANGED mix
  /\ \/ CloseSession
     \/ \E w \in Workers : Accept(w) \/ LookUp(w) \/ Write(w) \/ Abort(w)

Spec == Init /\ [][Next]_vars

-----------------------------------------------------------------------------
(* Properties                                                              *)

TypeOK ==
  /\ role \in [People -> {"none", "player", "admin", "banned"}]
  /\ team \in [People -> Teams \union {NoTeam}]
  /\ version \in [People -> 0 .. MaxVersion]
  /\ teams \subseteq Teams
  /\ sessions \subseteq Session
  /\ mix \in Mixes
  /\ \A w \in Workers : pc[w] \in 0 .. Len(Script[req[w].op])
  /\ req \in [Workers -> Request \union {NoRequest}]
  /\ mem \in [Workers -> Memory]

\* What w decided to write a role on is no longer so.
Outdated(w) ==
  \/ mem[w].role # role[User(w)]
  \/ mem[w].role = "admin" /\ mem[w].counted # Cardinality(Admins)

\* "cannot remove the last admin account": no ban, change of role, registration
\* or failure leaves the competition without an admin, unless a change of role
\* was decided on a role or a number of admins that has changed since.
LastAdminStays ==
  [][Admins # {} => \/ Admins' # {}
                    \/ \E w \in Workers : At(w, "write_role") /\ Outdated(w)]_vars

\* max_team_size: a team has more members only because somebody was added to it
\* between the count that found a free seat, or the creation of the team, and
\* the UPDATE that takes the seat.
SeatsWereFree ==
  [][\A t \in Teams :
       Cardinality(Members(t)') > MaxTeamSize /\ Members(t)' \ Members(t) # {} =>
         \E w \in Workers : /\ At(w, "add_member") /\ Team(w) = t
                            /\ mem[w].counted # Cardinality(Members(t))]_vars

\* Once a change of password or role has answered, no session is left that was
\* issued for the old password, or as an admin's to somebody who is none.  The
\* exceptions: a worker is about to revoke it, its revocation was lost, or it
\* was issued for a row that had changed since it was read.
SessionsCurrent ==
  \A s \in sessions :
     \/ s.version = version[s.user] /\ (s.role = "admin" => role[s.user] = "admin")
     \/ s.stale
     \/ \E w \in Workers : At(w, "revoke") /\ User(w) = s.user

=============================================================================
