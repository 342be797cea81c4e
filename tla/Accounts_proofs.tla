-------------------------- MODULE Accounts_proofs --------------------------
(***************************************************************************)
(* Theorems about Accounts, for any number of workers, people and teams,   *)
(* and about the pool that register and login take two connections from.   *)
(***************************************************************************)
EXTENDS Accounts, Pool, FiniteSetTheorems, WellFoundedInduction, TLAPS

(* The scripts.                                                            *)

\* What a request can hold.
LEMMA RequestFields ==
  ASSUME NEW r \in Request
  PROVE  /\ r.op \in Operations /\ r.op \in DOMAIN Script /\ r.op # "none"
         /\ r.user \in People
         /\ r.team \in Teams \union {NoTeam}
         /\ r.new \in BOOLEAN
         /\ r.role \in {"player", "admin", "banned"}
BY DEF Request, Operations, AdminOperations, PlayerOperations, Script

\* Where the statements are that the properties below depend on.
LEMMA Scripts ==
  ASSUME NEW op \in DOMAIN Script
  PROVE  /\ Len(Script[op]) \in Nat
         /\ op = "none" => Len(Script[op]) = 0
         /\ \A i \in 1 .. Len(Script[op]) :
              /\ Script[op][i] = "open_session" =>
                   /\ op \in {"register", "login"}
                   /\ i - 1 \in 1 .. Len(Script[op])
                   /\ Script[op][i - 1] = "find_user"
              /\ Script[op][i] \in {"write_role", "ban", "write_password"} =>
                   /\ i + 1 \in 1 .. Len(Script[op])
                   /\ Script[op][i + 1] = "revoke"
              /\ Script[op][i] = "write_role" =>
                   /\ op = "update_user_role" /\ i = 3
              /\ Script[op][i] = "count_admins" => op = "update_user_role"
              /\ Script[op][i] = "add_member"   => op # "update_user_role"
         /\ op = "update_user_role" =>
              /\ Len(Script[op]) = 4
              /\ Script[op][1] = "read_role" /\ Script[op][2] = "count_admins"
<1>1. op \in {"none", "register", "login", "change_password", "create_team",
              "join_team", "create_user", "ban_user", "update_user_role",
              "update_user_password", "update_user_team"}
  BY DEF Script
<1>2. CASE op = "none"
  <2>1. Script[op] =
       << >>
    BY <1>2 DEF Script
  <2> QED BY <1>2, <2>1
<1>3. CASE op = "register"
  <2>1. Script[op] =
       <<"find_free", "count", "check_name", "check_room", "create",
         "promote", "make_team", "add_member", "find_user", "open_session">>
    BY <1>3 DEF Script
  <2> QED BY <1>3, <2>1
<1>4. CASE op = "login"
  <2>1. Script[op] =
       <<"find_user", "open_session">>
    BY <1>4 DEF Script
  <2> QED BY <1>4, <2>1
<1>5. CASE op = "change_password"
  <2>1. Script[op] =
       <<"find_user", "write_password", "revoke">>
    BY <1>5 DEF Script
  <2> QED BY <1>5, <2>1
<1>6. CASE op = "create_team"
  <2>1. Script[op] =
       <<"find_teamless", "check_name", "make_team", "add_member">>
    BY <1>6 DEF Script
  <2> QED BY <1>6, <2>1
<1>7. CASE op = "join_team"
  <2>1. Script[op] =
       <<"find_teamless", "check_room", "add_member">>
    BY <1>7 DEF Script
  <2> QED BY <1>7, <2>1
<1>8. CASE op = "create_user"
  <2>1. Script[op] =
       <<"find_free", "check_name", "check_room", "create", "promote",
         "make_team", "add_member">>
    BY <1>8 DEF Script
  <2> QED BY <1>8, <2>1
<1>9. CASE op = "ban_user"
  <2>1. Script[op] =
       <<"ban", "revoke">>
    BY <1>9 DEF Script
  <2> QED BY <1>9, <2>1
<1>10. CASE op = "update_user_role"
  <2>1. Script[op] =
       <<"read_role", "count_admins", "write_role", "revoke">>
    BY <1>10 DEF Script
  <2> QED BY <1>10, <2>1
<1>11. CASE op = "update_user_password"
  <2>1. Script[op] =
       <<"find_user", "write_password", "revoke">>
    BY <1>11 DEF Script
  <2> QED BY <1>11, <2>1
<1>12. CASE op = "update_user_team"
  <2>1. Script[op] =
       <<"find_user", "check_name", "check_room", "make_team", "add_member",
         "revoke">>
    BY <1>12 DEF Script
  <2> QED BY <1>12, <2>1
<1> QED
  BY <1>1, <1>2, <1>3, <1>4, <1>5, <1>6, <1>7, <1>8,
     <1>9, <1>10, <1>11, <1>12

\* After is the next statement needed, or 0 when there is none.
LEMMA AfterNext ==
  ASSUME NEW i \in Nat, NEW r, r.op \in DOMAIN Script, NEW m,
         NEW j, j = After(i, r, m)
  PROVE  \/ /\ j = 0
            /\ \A k \in i + 1 .. Len(Script[r.op]) :
                 ~Needed(Script[r.op][k], r, m)
         \/ /\ j \in i + 1 .. Len(Script[r.op])
            /\ Needed(Script[r.op][j], r, m)
            /\ \A k \in i + 1 .. j - 1 : ~Needed(Script[r.op][k], r, m)
<1> DEFINE n    == Len(Script[r.op])
           rest == {k \in i + 1 .. n : Needed(Script[r.op][k], r, m)}
<1>1. n \in Nat
  BY Scripts
<1>2. CASE rest = {}
  <2>1. j = 0
    BY <1>2 DEF After
  <2> QED BY <1>2, <2>1
<1>3. CASE rest # {}
  <2>1. rest \subseteq Nat
    BY <1>1
  <2>2. PICK a \in rest : \A b \in rest : ~(<<b, a>> \in OpToRel(<, Nat))
    <3> HIDE DEF rest
    <3> QED BY <1>3, <2>1, NatLessThanWellFounded, WFMin
  <2>3. \A b \in rest : a <= b
    <3> SUFFICES ASSUME NEW b \in rest, b < a PROVE FALSE
      BY <2>1
    <3>1. <<b, a>> \in Nat \X Nat
      BY <2>1
    <3>2. <<b, a>> \in OpToRel(<, Nat)
      BY <3>1 DEF OpToRel
    <3> QED BY <2>2, <3>2
  <2>4. j = CHOOSE c \in rest : \A b \in rest : c <= b
    BY <1>3 DEF After
  <2>5. j \in rest /\ \A b \in rest : j <= b
    <3> HIDE DEF rest
    <3> QED BY <2>3, <2>4
  <2>6. \A k \in i + 1 .. j - 1 : k \notin rest
    BY <1>1, <2>5
  <2> QED BY <1>1, <2>5, <2>6
<1> QED BY <1>2, <1>3

-----------------------------------------------------------------------------
(* Where the workers are, and what they remember.                          *)

\* A worker with a request is at a statement its handler needs; the others
\* have forgotten theirs.  A team to be made has a name.
Fits(i, r, m) ==
  /\ i \in 0 .. Len(Script[r.op])
  /\ i = 0 => m = Blank
  /\ i # 0 => Needed(Script[r.op][i], r, m)
  /\ r.new => r.team # NoTeam

\* What the memory of a worker is worth: a session is issued for a role there
\* is, a demotion goes on only if another admin was counted, and nobody is
\* added to a team on a count of as many members as it may have.
Decides(i, r, m) ==
  /\ i # 0 /\ Script[r.op][i] = "open_session" => m.role # "none"
  /\ i # 0 /\ Script[r.op][i] = "write_role" =>
       (m.role = "admin" /\ r.role # "admin" => m.counted >= 2)
  /\ r.op # "update_user_role" => m.counted < MaxTeamSize

ThreadsOK ==
  /\ pc  \in [Workers -> Nat]
  /\ req \in [Workers -> Request \union {NoRequest}]
  /\ mem \in [Workers -> Memory]
  /\ \A w \in Workers : /\ Fits(pc[w], req[w], mem[w])
                        /\ Decides(pc[w], req[w], mem[w])

IInv == TypeOK /\ ThreadsOK

\* The request and the place of a worker in its script.
LEMMA PlaceType ==
  ASSUME ThreadsOK, NEW w \in Workers
  PROVE  /\ req[w].op \in DOMAIN Script
         /\ pc[w] \in 0 .. Len(Script[req[w].op])
         /\ Len(Script[req[w].op]) \in Nat
         /\ pc[w] # 0 => req[w] \in Request
         /\ req[w].role \in {"player", "admin", "banned"}
         /\ req[w].team \in Teams \union {NoTeam}
         /\ mem[w] \in Memory
<1>1. req[w] \in Request \/ req[w] = NoRequest
  BY DEF ThreadsOK
<1>2. NoRequest.op \in DOMAIN Script /\ NoRequest.op = "none"
  BY DEF NoRequest, Script
<1>3. pc[w] \in 0 .. Len(Script[req[w].op])
  BY DEF ThreadsOK, Fits
<1>4. req[w].op \in DOMAIN Script
  BY <1>1, <1>2, RequestFields
<1>5. pc[w] # 0 => req[w] \in Request
  BY <1>1, <1>2, <1>3, Scripts
<1>6. /\ req[w].role \in {"player", "admin", "banned"}
      /\ req[w].team \in Teams \union {NoTeam}
  BY <1>1, RequestFields DEF NoRequest
<1> QED BY <1>3, <1>4, <1>5, <1>6, Scripts DEF ThreadsOK

\* The counts a worker may remember.
LEMMA CountType ==
  ASSUME NEW S \in SUBSET People
  PROVE  Cardinality(S) \in 0 .. Cardinality(People) /\ IsFiniteSet(S)
BY ConstantsAssumption, FS_Subset, FS_CardinalityType

LEMMA BlankType == Blank \in Memory /\ Blank.counted = 0 /\ Blank.role = "none"
<1>1. 0 \in 0 .. Cardinality(People)
  BY ConstantsAssumption, FS_CardinalityType
<1> QED BY <1>1, ConstantsAssumption DEF Blank, Memory

\* One worker moves; the others stay where they are.
LEMMA OneMoves ==
  ASSUME ThreadsOK, NEW w \in Workers,
         NEW i \in Nat, NEW r \in Request \union {NoRequest}, NEW m \in Memory,
         pc'  = [pc  EXCEPT ![w] = i],
         req' = [req EXCEPT ![w] = r],
         mem' = [mem EXCEPT ![w] = m],
         Fits(i, r, m), Decides(i, r, m)
  PROVE  ThreadsOK'
<1>1. /\ pc'  \in [Workers -> Nat]
      /\ req' \in [Workers -> Request \union {NoRequest}]
      /\ mem' \in [Workers -> Memory]
  BY DEF ThreadsOK
<1>2. ASSUME NEW v \in Workers
      PROVE  /\ Fits(pc'[v], req'[v], mem'[v])
             /\ Decides(pc'[v], req'[v], mem'[v])
  BY DEF ThreadsOK
<1> QED BY <1>1, <1>2 DEF ThreadsOK

\* A worker that answers is idle and remembers nothing.
LEMMA LeaveStep ==
  ASSUME ThreadsOK, NEW w \in Workers, Leave(w)
  PROVE  ThreadsOK'
<1>1. Fits(0, NoRequest, Blank) /\ Decides(0, NoRequest, Blank)
  BY BlankType, ConstantsAssumption DEF Fits, Decides, NoRequest, Script
<1>2. /\ pc'  = [pc  EXCEPT ![w] = 0]
      /\ req' = [req EXCEPT ![w] = NoRequest]
      /\ mem' = [mem EXCEPT ![w] = Blank]
  BY DEF Leave
<1>3. 0 \in Nat /\ NoRequest \in Request \union {NoRequest} /\ Blank \in Memory
  BY BlankType
<1> QED BY <1>1, <1>2, <1>3, OneMoves

\* A worker that goes on is at the next statement its handler needs, and keeps
\* the invariant if what it remembers is worth what Decides says.
LEMMA GoOnStep ==
  ASSUME ThreadsOK, NEW w \in Workers, pc[w] # 0, NEW m \in Memory, GoOn(w, m),
         At(w, "find_user") /\ req[w].op \in {"register", "login"}
           => m.role # "none",
         At(w, "count_admins") => m.counted >= 2,
         req[w].op # "update_user_role" => m.counted < MaxTeamSize
  PROVE  /\ ThreadsOK'
         /\ At(w, "write_role") \/ At(w, "ban") \/ At(w, "write_password")
              => At(w, "revoke")' /\ UNCHANGED req
<1> DEFINE r == req[w]
           s == Script[r.op]
           j == After(pc[w], r, m)
<1>1. /\ r.op \in DOMAIN Script /\ Len(s) \in Nat
      /\ pc[w] \in 1 .. Len(s) /\ r \in Request
  BY PlaceType
<1>2. r.new => r.team # NoTeam
  BY DEF ThreadsOK, Fits
<1>3. IF j = 0 THEN Leave(w)
      ELSE /\ pc'  = [pc  EXCEPT ![w] = j]
           /\ mem' = [mem EXCEPT ![w] = m]
           /\ UNCHANGED req
  BY DEF GoOn
<1> HIDE DEF j
<1>4. \/ /\ j = 0
         /\ \A k \in pc[w] + 1 .. Len(s) : ~Needed(s[k], r, m)
      \/ /\ j \in pc[w] + 1 .. Len(s)
         /\ Needed(s[j], r, m)
         /\ \A k \in pc[w] + 1 .. j - 1 : ~Needed(s[k], r, m)
  BY <1>1, AfterNext DEF j
<1>5. s[pc[w]] \in {"write_role", "ban", "write_password"}
        => j = pc[w] + 1 /\ s[j] = "revoke"
  <2> SUFFICES ASSUME s[pc[w]] \in {"write_role", "ban", "write_password"}
               PROVE  j = pc[w] + 1 /\ s[j] = "revoke"
    OBVIOUS
  <2>1. pc[w] + 1 \in 1 .. Len(s) /\ s[pc[w] + 1] = "revoke"
    BY <1>1, Scripts
  <2>2. Needed(s[pc[w] + 1], r, m)
    BY <2>1 DEF Needed
  <2> QED BY <1>1, <1>4, <2>1, <2>2
<1>6. CASE j = 0
  BY <1>1, <1>3, <1>5, <1>6, LeaveStep DEF At
<1>7. CASE j # 0
  <2> USE <1>7
  <2>1. j \in 1 .. Len(s) /\ j \in Nat
    BY <1>1, <1>4
  <2>2. Fits(j, r, m)
    BY <1>2, <1>4, <2>1 DEF Fits
  <2>3. s[j] = "open_session" => m.role # "none"
    <3> SUFFICES ASSUME s[j] = "open_session" PROVE m.role # "none"
      OBVIOUS
    <3>1. /\ r.op \in {"register", "login"}
          /\ j - 1 \in 1 .. Len(s) /\ s[j - 1] = "find_user"
      BY <1>1, <2>1, Scripts
    <3>2. Needed(s[j - 1], r, m)
      BY <3>1 DEF Needed
    <3>3. j - 1 = pc[w]
      BY <1>1, <1>4, <3>1, <3>2
    <3> QED BY <1>1, <3>1, <3>3 DEF At
  <2>4. s[j] = "write_role" /\ m.role = "admin" /\ r.role # "admin"
          => m.counted >= 2
    <3> SUFFICES ASSUME s[j] = "write_role", m.role = "admin",
                        r.role # "admin"
                 PROVE  m.counted >= 2
      OBVIOUS
    <3>1. j = 3 /\ s[2] = "count_admins"
      BY <1>1, <2>1, Scripts
    <3>2. Needed(s[2], r, m)
      BY <3>1 DEF Needed
    <3>3. pc[w] = 2
      BY <1>1, <1>4, <3>1, <3>2
    <3> QED BY <3>1, <3>3 DEF At
  <2>5. Decides(j, r, m)
    BY <2>3, <2>4 DEF Decides
  <2>6. req' = [req EXCEPT ![w] = r]
    BY <1>3 DEF ThreadsOK
  <2>7. ThreadsOK'
    BY <1>1, <1>3, <2>1, <2>2, <2>5, <2>6, OneMoves
  <2>8. pc'[w] = j
    BY <1>3 DEF ThreadsOK
  <2> QED BY <1>1, <1>3, <1>5, <2>7, <2>8 DEF At
<1> QED BY <1>6, <1>7

\* A worker that takes a request begins before any write.
LEMMA AcceptStep ==
  ASSUME ThreadsOK, NEW w \in Workers, Accept(w)
  PROVE  ThreadsOK'
<1>1. PICK r \in Request :
        /\ Wellformed(r)
        /\ pc'  = [pc  EXCEPT ![w] = After(0, r, Blank)]
        /\ req' = [req EXCEPT ![w] = r]
  BY DEF Accept
<1> DEFINE j == After(0, r, Blank)
           s == Script[r.op]
<1>2. r.op \in DOMAIN Script /\ Len(s) \in Nat
  BY RequestFields, Scripts
<1>3. pc' = [pc EXCEPT ![w] = j]
  BY <1>1
<1> HIDE DEF j
<1>4. \/ j = 0
      \/ /\ j \in 0 + 1 .. Len(s) /\ Needed(s[j], r, Blank)
         /\ \A k \in 0 + 1 .. j - 1 : ~Needed(s[k], r, Blank)
  BY <1>2, AfterNext DEF j
<1>5. j \in 0 .. Len(s) /\ j \in Nat
  BY <1>2, <1>4
<1>6. Fits(j, r, Blank)
  BY <1>1, <1>4, <1>5 DEF Fits, Wellformed
<1>7. j # 0 => s[j] # "open_session" /\ s[j] # "write_role"
  <2>1. CASE j # 0 /\ s[j] = "open_session"
    <3>1. j - 1 \in 1 .. Len(s) /\ s[j - 1] = "find_user"
      BY <1>2, <1>4, <2>1, Scripts
    <3>2. Needed(s[j - 1], r, Blank)
      BY <3>1 DEF Needed
    <3> QED BY <1>2, <1>4, <2>1, <3>1, <3>2
  <2>2. CASE j # 0 /\ s[j] = "write_role"
    <3>1. j = 3 /\ s[1] = "read_role"
      BY <1>2, <1>4, <2>2, Scripts
    <3>2. Needed(s[1], r, Blank)
      BY <3>1 DEF Needed
    <3> QED BY <1>2, <1>4, <2>2, <3>1, <3>2
  <2> QED BY <2>1, <2>2
<1>8. Decides(j, r, Blank)
  BY <1>7, BlankType, ConstantsAssumption DEF Decides
<1>9. mem' = [mem EXCEPT ![w] = Blank]
  BY DEF Accept, ThreadsOK, Fits
<1> QED BY <1>1, <1>3, <1>5, <1>6, <1>8, <1>9, BlankType, OneMoves

\* A worker at a statement serves a request, at a place of its script.
LEMMA AtPlace ==
  ASSUME ThreadsOK, NEW w \in Workers, NEW step, At(w, step)
  PROVE  /\ pc[w] # 0 /\ pc[w] \in 1 .. Len(Script[req[w].op])
         /\ req[w].op \in DOMAIN Script
         /\ req[w] \in Request /\ mem[w] \in Memory
         /\ User(w) \in People
         /\ Team(w) \in Teams \union {NoTeam}
         /\ Script[req[w].op][pc[w]] = step
BY PlaceType, RequestFields DEF At, User, Team

LEMMA LookUpStep ==
  ASSUME IInv, NEW w \in Workers, LookUp(w)
  PROVE  ThreadsOK' /\ UNCHANGED tables /\ \E step \in Reads : At(w, step)
<1>1. TypeOK /\ ThreadsOK
  BY DEF IInv
<1>2. PICK step \in Reads : 
        /\ At(w, step)
        /\ IF Passes(w, step)
           THEN GoOn(w, [first   |-> mem[w].first \/ (step = "count" /\ Users = {}),
                         role    |-> IF step = "read_role" \/ Issues(w, step)
                                     THEN role[User(w)] ELSE mem[w].role,
                         version |-> IF Issues(w, step)
                                     THEN version[User(w)] ELSE mem[w].version,
                         counted |-> CASE step = "count_admins" -> Cardinality(Admins)
                                       [] step = "check_room"   -> Cardinality(Members(Team(w)))
                                       [] OTHER                 -> mem[w].counted])
           ELSE Leave(w)
        /\ UNCHANGED tables
  BY DEF LookUp
<1>3. CASE ~Passes(w, step)
  BY <1>1, <1>2, <1>3, LeaveStep
<1>4. CASE Passes(w, step)
  <2> DEFINE r == IF step = "read_role" \/ Issues(w, step)
                  THEN role[User(w)] ELSE mem[w].role
             v == IF Issues(w, step) THEN version[User(w)] ELSE mem[w].version
             n == CASE step = "count_admins" -> Cardinality(Admins)
                    [] step = "check_room"   -> Cardinality(Members(Team(w)))
                    [] OTHER                 -> mem[w].counted
             f == mem[w].first \/ (step = "count" /\ Users = {})
             m == [first |-> f, role |-> r, version |-> v, counted |-> n]
  <2>1. GoOn(w, m)
    BY <1>2, <1>4
  <2>2. /\ pc[w] # 0 /\ pc[w] \in 1 .. Len(Script[req[w].op])
        /\ req[w].op \in DOMAIN Script
        /\ mem[w] \in Memory /\ User(w) \in People
        /\ Script[req[w].op][pc[w]] = step
    BY <1>1, <1>2, AtPlace
  <2>3. /\ mem[w].first \in BOOLEAN
        /\ mem[w].role \in {"none", "player", "admin", "banned"}
        /\ mem[w].version \in 0 .. MaxVersion
        /\ mem[w].counted \in 0 .. Cardinality(People)
    BY <2>2 DEF Memory
  <2>4. r \in {"none", "player", "admin", "banned"} /\ v \in 0 .. MaxVersion
    BY <1>1, <2>2, <2>3 DEF TypeOK
  <2>5. n \in 0 .. Cardinality(People)
    <3>1. Admins \in SUBSET People /\ Members(Team(w)) \in SUBSET People
      BY DEF Admins, Members
    <3>2. /\ Cardinality(Admins) \in 0 .. Cardinality(People)
          /\ Cardinality(Members(Team(w))) \in 0 .. Cardinality(People)
      BY <3>1, CountType
    <3> QED BY <2>3, <3>2
  <2>6. f \in BOOLEAN
    BY <2>3
  <2>7. m \in Memory
    <3> HIDE DEF f, r, v, n
    <3> QED BY <2>4, <2>5, <2>6 DEF Memory
  <2>8. At(w, "find_user") /\ req[w].op \in {"register", "login"}
          => m.role # "none"
    <3> SUFFICES ASSUME At(w, "find_user"), req[w].op \in {"register", "login"}
                 PROVE  r # "none"
      OBVIOUS
    <3>1. step = "find_user"
      BY <2>2 DEF At
    <3>2. User(w) \in Users
      BY <1>4, <3>1 DEF Passes
    <3> QED BY <3>1, <3>2 DEF Issues, Users
  <2>9. At(w, "count_admins") => m.counted >= 2
    <3> SUFFICES ASSUME At(w, "count_admins") PROVE n >= 2
      OBVIOUS
    <3>1. step = "count_admins"
      BY <2>2 DEF At
    <3>2. n = Cardinality(Admins) /\ ~(n <= 1)
      BY <1>4, <3>1 DEF Passes, LastAdmin
    <3> HIDE DEF n
    <3> QED BY <2>5, <3>2
  <2>10. req[w].op # "update_user_role" => m.counted < MaxTeamSize
    <3> SUFFICES ASSUME req[w].op # "update_user_role" PROVE n < MaxTeamSize
      OBVIOUS
    <3>1. step # "count_admins"
      <4>1. Script[req[w].op][pc[w]] # "count_admins"
        <5> HIDE DEF m, n, r, v, f
        <5> QED BY ONLY <2>2, Scripts, req[w].op # "update_user_role"
      <4> QED BY <2>2, <4>1
    <3>2. mem[w].counted < MaxTeamSize
      BY <1>1 DEF ThreadsOK, Decides
    <3>3. step = "check_room" => Cardinality(Members(Team(w))) < MaxTeamSize
      BY <1>4 DEF Passes, HasRoom
    <3> QED BY <3>1, <3>2, <3>3
  <2> HIDE DEF m
  <2>11. ThreadsOK'
    BY <1>1, <2>1, <2>2, <2>7, <2>8, <2>9, <2>10, GoOnStep
  <2> QED BY <1>2, <2>11
<1> QED BY <1>3, <1>4

\* A worker that writes remembers what it did, or only its count.
LEMMA CarryOn ==
  ASSUME ThreadsOK, NEW w \in Workers, NEW step, At(w, step),
         step \notin {"find_user", "count_admins"},
         NEW m \in {mem[w], [Blank EXCEPT !.counted = mem[w].counted]},
         GoOn(w, m)
  PROVE  /\ ThreadsOK'
         /\ step \in {"write_role", "ban", "write_password"}
              => At(w, "revoke")' /\ UNCHANGED req
<1>1. pc[w] # 0 /\ Script[req[w].op][pc[w]] = step /\ mem[w] \in Memory
  BY AtPlace
<1>2. m \in Memory /\ m.counted = mem[w].counted
  BY <1>1, BlankType DEF Memory, Blank
<1>3. req[w].op # "update_user_role" => m.counted < MaxTeamSize
  BY <1>2 DEF ThreadsOK, Decides
<1>4. ~At(w, "find_user") /\ ~At(w, "count_admins")
  BY <1>1 DEF At
<1>5. /\ ThreadsOK'
      /\ At(w, "write_role") \/ At(w, "ban") \/ At(w, "write_password")
           => At(w, "revoke")' /\ UNCHANGED req
  BY <1>1, <1>2, <1>3, <1>4, GoOnStep
<1> QED BY <1>5

\* What the statements that write do to the tables and to their worker.
LEMMA CreateStep ==
  ASSUME IInv, NEW w \in Workers, Create(w)
  PROVE  /\ ThreadsOK' /\ At(w, "create")
         /\ UNCHANGED <<team, version, teams, sessions>>
         /\ \/ UNCHANGED role
            \/ /\ role[User(w)] = "none"
               /\ role' = [role EXCEPT ![User(w)] = "player"]
BY CarryOn, LeaveStep DEF IInv, Create

LEMMA WriteRoleStep ==
  ASSUME IInv, NEW w \in Workers, WriteRole(w)
  PROVE  /\ ThreadsOK' /\ UNCHANGED <<team, version, teams, sessions>>
         /\ \/ UNCHANGED role /\ At(w, "ban")
            \/ /\ At(w, "promote")
               /\ role' = [role EXCEPT ![User(w)] = "admin"]
            \/ /\ At(w, "write_role") /\ At(w, "revoke")' /\ UNCHANGED req
               /\ role' = [role EXCEPT ![User(w)] = req[w].role]
            \/ /\ At(w, "ban") /\ At(w, "revoke")' /\ UNCHANGED req
               /\ role[User(w)] # "admin"
               /\ role' = [role EXCEPT ![User(w)] = "banned"]
<1> USE DEF IInv
<1> DEFINE m == [Blank EXCEPT !.counted = mem[w].counted]
<1>1. UNCHANGED <<team, version, teams, sessions>>
  BY DEF WriteRole
<1>2. CASE At(w, "ban") /\ role[User(w)] \in {"none", "admin"}
  BY <1>1, <1>2, LeaveStep DEF WriteRole
<1>3. CASE At(w, "ban") /\ role[User(w)] \notin {"none", "admin"}
  <2>1. ~At(w, "promote") /\ ~At(w, "write_role")
    BY <1>3 DEF At
  <2>2. role' = [role EXCEPT ![User(w)] = "banned"] /\ GoOn(w, m)
    BY <1>3, <2>1 DEF WriteRole
  <2>3. ThreadsOK' /\ At(w, "revoke")' /\ UNCHANGED req
    BY <1>3, <2>2, CarryOn
  <2> QED BY <1>1, <1>3, <2>2, <2>3
<1>4. CASE At(w, "promote")
  <2>1. ~At(w, "ban") /\ ~At(w, "write_role")
    BY <1>4 DEF At
  <2>2. role' = [role EXCEPT ![User(w)] = "admin"] /\ GoOn(w, m)
    BY <1>4, <2>1 DEF WriteRole
  <2>3. ThreadsOK'
    BY <1>4, <2>2, CarryOn
  <2> QED BY <1>1, <1>4, <2>2, <2>3
<1>5. CASE At(w, "write_role")
  <2>1. ~At(w, "ban") /\ ~At(w, "promote")
    BY <1>5 DEF At
  <2>2. role' = [role EXCEPT ![User(w)] = req[w].role] /\ GoOn(w, m)
    BY <1>5, <2>1 DEF WriteRole
  <2>3. ThreadsOK' /\ At(w, "revoke")' /\ UNCHANGED req
    BY <1>5, <2>2, CarryOn
  <2> QED BY <1>1, <1>5, <2>2, <2>3
<1> QED BY <1>2, <1>3, <1>4, <1>5 DEF WriteRole

LEMMA MakeTeamStep ==
  ASSUME IInv, NEW w \in Workers, MakeTeam(w)
  PROVE  /\ ThreadsOK' /\ At(w, "make_team")
         /\ UNCHANGED <<role, team, version, sessions>>
         /\ teams' \subseteq Teams
<1>1. Team(w) \in Teams
  <2>1. req[w].new
    BY AtPlace DEF MakeTeam, IInv, ThreadsOK, Fits, Needed
  <2>2. Team(w) # NoTeam
    BY <2>1 DEF IInv, ThreadsOK, Fits, Team
  <2> QED BY <2>2, AtPlace DEF MakeTeam, IInv
<1>2. teams' \subseteq Teams
  BY <1>1 DEF MakeTeam, IInv, TypeOK
<1> QED BY <1>2, CarryOn, LeaveStep DEF IInv, MakeTeam

LEMMA AddMemberStep ==
  ASSUME IInv, NEW w \in Workers, AddMember(w)
  PROVE  /\ ThreadsOK' /\ At(w, "add_member")
         /\ UNCHANGED <<role, version, teams, sessions>>
         /\ team' = [team EXCEPT ![User(w)] = Team(w)]
         /\ mem[w].counted < MaxTeamSize
<1>1. mem[w].counted < MaxTeamSize
  <2>1. req[w].op # "update_user_role"
    BY AtPlace, Scripts DEF IInv, AddMember
  <2> QED BY <2>1 DEF IInv, ThreadsOK, Decides
<1> QED BY <1>1, CarryOn DEF IInv, AddMember

LEMMA WritePasswordStep ==
  ASSUME IInv, NEW w \in Workers, WritePassword(w)
  PROVE  /\ ThreadsOK' /\ At(w, "write_password")
         /\ At(w, "revoke")' /\ UNCHANGED req
         /\ UNCHANGED <<role, team, teams, sessions>>
         /\ version' \in [People -> 0 .. MaxVersion]
         /\ \A u \in People : u # User(w) => version'[u] = version[u]
<1>1. /\ version' \in [People -> 0 .. MaxVersion]
      /\ \A u \in People : u # User(w) => version'[u] = version[u]
  <2>1. At(w, "write_password") /\ version \in [People -> 0 .. MaxVersion]
    BY DEF IInv, TypeOK, WritePassword
  <2>2. User(w) \in People
    BY <2>1, AtPlace DEF IInv
  <2> DEFINE v == version[User(w)]
             x == IF v < MaxVersion THEN v + 1 ELSE v
  <2>3. v \in 0 .. MaxVersion /\ MaxVersion \in Nat
    BY <2>1, <2>2, ConstantsAssumption
  <2>4. x \in 0 .. MaxVersion
    BY <2>3
  <2>5. version' = [version EXCEPT ![User(w)] = x]
    BY DEF WritePassword
  <2> HIDE DEF x
  <2> QED BY <2>1, <2>4, <2>5
<1> QED BY <1>1, CarryOn DEF IInv, WritePassword

LEMMA RevokeStep ==
  ASSUME IInv, NEW w \in Workers, Revoke(w)
  PROVE  /\ ThreadsOK' /\ At(w, "revoke")
         /\ UNCHANGED <<role, team, version, teams>>
         /\ sessions' = sessions \ RevokeAll(User(w))
BY CarryOn DEF IInv, Revoke

LEMMA OutliveType ==
  ASSUME NEW s \in Session
  PROVE  Outlive(s) \in Session /\ Outlive(s).stale /\ Outlive(s).user = s.user
<1>1. 0 \in 0 .. MaxVersion
  BY ConstantsAssumption
<1>2. s = [user |-> s.user, role |-> s.role, version |-> s.version,
           stale |-> s.stale]
  BY DEF Session
<1>3. [s EXCEPT !.stale = TRUE] \in Session
  BY DEF Session
<1>4. [[s EXCEPT !.stale = TRUE] EXCEPT !.version = 0] \in Session
  BY <1>1, <1>3 DEF Session
<1>5. Outlive(s) = [[s EXCEPT !.stale = TRUE] EXCEPT !.version = 0]
  BY DEF Outlive
<1> QED BY <1>2, <1>4, <1>5

LEMMA OpenSessionStep ==
  ASSUME IInv, NEW w \in Workers, OpenSession(w)
  PROVE  /\ ThreadsOK' /\ At(w, "open_session")
         /\ UNCHANGED <<role, team, version, teams>>
         /\ \E s \in Session :
              /\ sessions' = sessions \union {s}
              /\ s.stale \/ ( /\ s.version = version[s.user]
                              /\ s.role = role[s.user] )
<1> DEFINE u == User(w)
           m == mem[w]
           s == make_claims(u, m)
           t == IF m.role = role[u] /\ m.version = version[u]
                THEN s ELSE Outlive(s)
<1>1. sessions' = sessions \union {t} /\ At(w, "open_session")
  BY DEF OpenSession
<1>2. u \in People /\ m \in Memory
  BY <1>1, AtPlace DEF IInv
<1>3. m.role \in {"player", "admin", "banned"} /\ m.version \in 0 .. MaxVersion
  <2>1. m.role # "none"
    BY <1>1 DEF IInv, ThreadsOK, Decides, At
  <2> QED BY <1>2, <2>1 DEF Memory
<1>4. s \in Session
  BY <1>2, <1>3 DEF Session, make_claims
<1>5. Outlive(s) \in Session /\ Outlive(s).stale
  BY <1>4, OutliveType
<1>6. s.user = u /\ s.role = m.role /\ s.version = m.version
  BY DEF make_claims
<1>7. t \in Session /\ (t.stale \/ ( /\ t.version = version[t.user]
                                     /\ t.role = role[t.user] ))
  <2> HIDE DEF s, m, u
  <2> QED BY <1>4, <1>5, <1>6
<1>8. ThreadsOK' /\ UNCHANGED <<role, team, version, teams>>
  BY CarryOn DEF IInv, OpenSession
<1> QED BY <1>1, <1>7, <1>8

\* A handler that is stopped before it revokes leaves its user's sessions as
\* stale ones.
LEMMA AbortStep ==
  ASSUME IInv, NEW w \in Workers, Abort(w)
  PROVE  /\ ThreadsOK' /\ UNCHANGED <<role, team, version, teams>>
         /\ sessions' \subseteq Session
         /\ \A s \in sessions' :
              s.stale \/ (s \in sessions /\ ~(At(w, "revoke") /\ s.user = User(w)))
<1>1. ThreadsOK' /\ UNCHANGED <<role, team, version, teams>>
  BY LeaveStep DEF IInv, Abort
<1>2. ASSUME NEW s \in sessions'
      PROVE  /\ s \in Session
             /\ s.stale \/ (s \in sessions /\ ~(At(w, "revoke") /\ s.user = User(w)))
  <2>1. PICK o \in sessions :
           s = IF At(w, "revoke") /\ o.user = User(w) THEN Outlive(o) ELSE o
    BY DEF Abort
  <2>2. o \in Session
    BY DEF IInv, TypeOK
  <2>3. Outlive(o) \in Session /\ Outlive(o).stale
    BY <2>2, OutliveType
  <2> QED BY <2>1, <2>2, <2>3
<1> QED BY <1>1, <1>2

-----------------------------------------------------------------------------
(* The invariant, and the properties that follow.                          *)

\* The tables' part of TypeOK; the threads' part follows from ThreadsOK.
Tables ==
  /\ role \in [People -> {"none", "player", "admin", "banned"}]
  /\ team \in [People -> Teams \union {NoTeam}]
  /\ version \in [People -> 0 .. MaxVersion]
  /\ teams \subseteq Teams
  /\ sessions \subseteq Session

\* What a step is.
LEMMA Steps ==
  ASSUME Next
  PROVE  /\ UNCHANGED mix
         /\ \/ CloseSession
            \/ \E w \in Workers :
                 \/ Accept(w) \/ LookUp(w) \/ Create(w) \/ WriteRole(w)
                 \/ MakeTeam(w) \/ AddMember(w) \/ WritePassword(w)
                 \/ Revoke(w) \/ OpenSession(w) \/ Abort(w)
BY DEF Next, Write

LEMMA InvStep ==
  ASSUME IInv, [Next]_vars
  PROVE  IInv'
<1> SUFFICES Tables' /\ mix' \in Mixes /\ ThreadsOK'
  BY DEF Tables, ThreadsOK, Fits, IInv, TypeOK
<1>0. Tables /\ mix \in Mixes /\ ThreadsOK
  BY DEF Tables, ThreadsOK, IInv, TypeOK
<1> USE <1>0 DEF Tables
<1>1. CASE UNCHANGED vars
  <2>1. ThreadsOK'
    BY <1>1 DEF IInv, ThreadsOK, vars, tables
  <2> QED BY <1>1, <2>1 DEF vars, tables
<1>2. CASE Next
  <2>1. mix' \in Mixes
    BY <1>2, Steps
  <2>2. CASE CloseSession
    <3>1. ThreadsOK'
      BY <2>2 DEF CloseSession, IInv, ThreadsOK
    <3> QED BY <2>1, <2>2, <3>1 DEF CloseSession
  <2>3. ASSUME NEW w \in Workers, Accept(w) PROVE ThreadsOK' /\ Tables'
    BY <2>3, AcceptStep DEF IInv, Accept, tables
  <2>4. ASSUME NEW w \in Workers, LookUp(w) PROVE ThreadsOK' /\ Tables'
    BY <2>4, LookUpStep DEF tables
  <2>5. ASSUME NEW w \in Workers, Create(w) PROVE ThreadsOK' /\ Tables'
    BY <2>5, CreateStep
  <2>6. ASSUME NEW w \in Workers, WriteRole(w) PROVE ThreadsOK' /\ Tables'
    <3>1. /\ ThreadsOK' /\ UNCHANGED <<team, version, teams, sessions>>
          /\ \/ UNCHANGED role
             \/ \E new \in {"player", "admin", "banned"} :
                  role' = [role EXCEPT ![User(w)] = new]
      <4>1. req[w].role \in {"player", "admin", "banned"}
        BY PlaceType
      <4> QED BY <2>6, <4>1, WriteRoleStep
    <3> QED BY <3>1
  <2>7. ASSUME NEW w \in Workers, MakeTeam(w) PROVE ThreadsOK' /\ Tables'
    BY <2>7, MakeTeamStep
  <2>8. ASSUME NEW w \in Workers, AddMember(w) PROVE ThreadsOK' /\ Tables'
    BY <2>8, AddMemberStep, PlaceType DEF Team
  <2>9. ASSUME NEW w \in Workers, WritePassword(w) PROVE ThreadsOK' /\ Tables'
    BY <2>9, WritePasswordStep
  <2>10. ASSUME NEW w \in Workers, Revoke(w) PROVE ThreadsOK' /\ Tables'
    BY <2>10, RevokeStep
  <2>11. ASSUME NEW w \in Workers, OpenSession(w) PROVE ThreadsOK' /\ Tables'
    BY <2>11, OpenSessionStep
  <2>12. ASSUME NEW w \in Workers, Abort(w) PROVE ThreadsOK' /\ Tables'
    BY <2>12, AbortStep
  <2> QED BY <1>2, <2>1, <2>2, <2>3, <2>4, <2>5, <2>6, <2>7, <2>8, <2>9,
             <2>10, <2>11, <2>12, Steps
<1> QED BY <1>1, <1>2

LEMMA InitInv ==
  ASSUME Init
  PROVE  IInv
<1>1. Tables /\ mix \in Mixes
  BY ConstantsAssumption DEF Init, Tables
<1>2. Fits(0, NoRequest, Blank) /\ Decides(0, NoRequest, Blank)
  BY BlankType, ConstantsAssumption DEF Fits, Decides, NoRequest, Script
<1>3. ThreadsOK
  BY <1>2, BlankType DEF Init, ThreadsOK
<1> QED BY <1>1, <1>3 DEF Tables, ThreadsOK, Fits, IInv, TypeOK

LEMMA InvHolds == Spec => []IInv
BY InitInv, InvStep, PTL DEF Spec

\* Whatever the handlers do and wherever they stop, the tables hold rows of
\* their kind, and a worker is at a statement of the handler it runs.
THEOREM TypeCorrect == Spec => []TypeOK
<1>1. IInv => TypeOK
  BY DEF IInv
<1> QED BY <1>1, InvHolds, PTL

\* A team outgrows max_team_size only by an UPDATE whose worker counted another
\* number of members than there are: on a current count nobody is one too many.
THEOREM SeatsFree == Spec => SeatsWereFree
<1>1. ASSUME IInv, [Next]_vars, NEW t \in Teams,
             Cardinality(Members(t)') > MaxTeamSize, Members(t)' \ Members(t) # {}
      PROVE  \E w \in Workers : /\ At(w, "add_member") /\ Team(w) = t
                                /\ mem[w].counted # Cardinality(Members(t))
  <2>1. ~UNCHANGED team
    BY <1>1 DEF Members
  <2>2. PICK w \in Workers : AddMember(w)
    <3>1. Next /\ ~CloseSession
      BY <1>1, <2>1 DEF vars, tables, CloseSession
    <3>2. PICK w \in Workers :
            \/ Accept(w) \/ LookUp(w) \/ Create(w) \/ WriteRole(w)
            \/ MakeTeam(w) \/ AddMember(w) \/ WritePassword(w)
            \/ Revoke(w) \/ OpenSession(w) \/ Abort(w)
      BY <3>1, Steps
    <3> QED BY <2>1, <3>2 DEF Accept, LookUp, Create, WriteRole, MakeTeam,
            WritePassword, Revoke, OpenSession, Abort, tables
  <2>3. /\ At(w, "add_member")
        /\ team' = [team EXCEPT ![User(w)] = Team(w)]
        /\ mem[w].counted < MaxTeamSize
    BY <1>1, <2>2, AddMemberStep
  <2>4. User(w) \in People /\ mem[w] \in Memory
    BY <1>1, <2>3, AtPlace DEF IInv
  <2>5. Team(w) = t
    BY <1>1, <2>3, <2>4 DEF Members, IInv, TypeOK
  <2>6. Members(t)' = Members(t) \union {User(w)}
    BY <1>1, <2>3, <2>4, <2>5 DEF Members, IInv, TypeOK
  <2>7. IsFiniteSet(Members(t)) /\ Cardinality(Members(t)) \in Nat
    <3>1. Members(t) \in SUBSET People
      BY DEF Members
    <3> QED BY <3>1, CountType, FS_CardinalityType
  <2>8. User(w) \notin Members(t)
    BY <1>1, <2>6
  <2>9. Cardinality(Members(t)') = Cardinality(Members(t)) + 1
    BY <2>6, <2>7, <2>8, FS_AddElement
  <2>10. mem[w].counted # Cardinality(Members(t))
    <3>1. mem[w].counted \in Nat /\ MaxTeamSize \in Nat
      <4>1. mem[w].counted \in 0 .. Cardinality(People)
        BY <2>4 DEF Memory
      <4> QED BY <4>1, ConstantsAssumption, FS_CardinalityType
    <3> QED BY <1>1, <2>3, <2>7, <2>9, <3>1
  <2> QED BY <2>3, <2>5, <2>10
<1>2. IInv /\ [Next]_vars
        => [\A t \in Teams :
              Cardinality(Members(t)') > MaxTeamSize
              /\ Members(t)' \ Members(t) # {} =>
                \E w \in Workers : /\ At(w, "add_member") /\ Team(w) = t
                                   /\ mem[w].counted # Cardinality(Members(t))]_vars
  BY <1>1
<1> QED BY <1>2, InvHolds, PTL DEF Spec, SeatsWereFree

\* An admin is lost only by a demotion that was decided on a role or a number
\* of admins that has changed since.
THEOREM AdminStays == Spec => LastAdminStays
<1>1. ASSUME IInv, [Next]_vars, Admins # {}, Admins' = {}
      PROVE  \E w \in Workers : At(w, "write_role") /\ Outdated(w)
  <2>1. ~UNCHANGED role
    BY <1>1 DEF Admins
  <2>2. PICK w \in Workers : Create(w) \/ WriteRole(w)
    <3>1. Next /\ ~CloseSession
      BY <1>1, <2>1 DEF vars, tables, CloseSession
    <3>2. PICK w \in Workers :
            \/ Accept(w) \/ LookUp(w) \/ Create(w) \/ WriteRole(w)
            \/ MakeTeam(w) \/ AddMember(w) \/ WritePassword(w)
            \/ Revoke(w) \/ OpenSession(w) \/ Abort(w)
      BY <3>1, Steps
    <3> QED BY <2>1, <3>2 DEF Accept, LookUp, MakeTeam, AddMember,
            WritePassword, Revoke, OpenSession, Abort, tables
  <2> DEFINE u == User(w)
  <2>3. role \in [People -> {"none", "player", "admin", "banned"}]
    BY <1>1 DEF IInv, TypeOK
  <2>4. ASSUME NEW x, role' = [role EXCEPT ![u] = x], role[u] # "admin"
        PROVE  FALSE
    BY <1>1, <2>3, <2>4 DEF Admins
  <2>5. ASSUME role' = [role EXCEPT ![u] = "admin"], u \in People PROVE FALSE
    BY <1>1, <2>3, <2>5 DEF Admins
  <2>6. ~Create(w)
    <3> SUFFICES ASSUME Create(w) PROVE FALSE
      OBVIOUS
    <3>1. role[u] = "none" /\ role' = [role EXCEPT ![u] = "player"]
      BY <1>1, <2>1, CreateStep
    <3> QED BY <2>4, <3>1
  <2>7. WriteRole(w)
    BY <2>2, <2>6
  <2>8. /\ At(w, "write_role")
        /\ role' = [role EXCEPT ![u] = req[w].role]
    <3>1. ~At(w, "promote") \/ u \in People
      BY <1>1, AtPlace DEF IInv
    <3> QED BY <1>1, <2>1, <2>4, <2>5, <2>7, <3>1, WriteRoleStep
  <2>9. mem[w] \in Memory /\ u \in People
    BY <1>1, <2>8, AtPlace DEF IInv
  <2>10. req[w].role # "admin" /\ role[u] = "admin"
    BY <2>4, <2>5, <2>8, <2>9
  <2>11. Outdated(w)
    <3> SUFFICES ASSUME mem[w].role = role[u],
                        mem[w].counted = Cardinality(Admins)
                 PROVE  FALSE
      BY <2>10 DEF Outdated
    <3>1. mem[w].counted >= 2
      BY <1>1, <2>8, <2>10 DEF IInv, ThreadsOK, Decides, At
    <3>2. Admins \in SUBSET People /\ u \in Admins
      BY <2>9, <2>10 DEF Admins
    <3>3. IsFiniteSet(Admins) /\ Cardinality(Admins) \in Nat
      BY <3>2, CountType, FS_CardinalityType
    <3>4. Admins' = Admins \ {u}
      BY <1>1, <2>3, <2>8, <2>9, <2>10 DEF Admins
    <3>5. Cardinality(Admins \ {u}) = Cardinality(Admins) - 1
      BY <3>2, <3>3, FS_RemoveElement
    <3>6. Cardinality({}) = 0
      BY FS_EmptySet
    <3> QED BY <1>1, <3>1, <3>3, <3>4, <3>5, <3>6
  <2> QED BY <2>8, <2>11
<1>2. IInv /\ [Next]_vars
        => [Admins # {} => \/ Admins' # {}
                           \/ \E w \in Workers :
                                At(w, "write_role") /\ Outdated(w)]_vars
  BY <1>1
<1> QED BY <1>2, InvHolds, PTL DEF Spec, LastAdminStays

\* A session is current, is known to be stale, or is about to be revoked: this
\* is inductive, since a statement that changes a role or a password takes its
\* worker to the revocation in the same step.
Current(s) ==
  s.version = version[s.user] /\ (s.role = "admin" => role[s.user] = "admin")

Revoking(u) == \E w \in Workers : At(w, "revoke") /\ User(w) = u

\* A step of w that is not at "revoke" and keeps the other workers keeps every
\* revocation under way.
LEMMA RevokingStays ==
  ASSUME NEW w \in Workers, ~At(w, "revoke"), NEW u, Revoking(u),
         \A v \in Workers : v # w => pc'[v] = pc[v] /\ req'[v] = req[v]
  PROVE  Revoking(u)'
BY DEF Revoking, At, User

\* Only w moves in a step of w.
LEMMA OthersStay ==
  ASSUME IInv, NEW w \in Workers,
         \/ Accept(w) \/ LookUp(w) \/ Create(w) \/ WriteRole(w)
         \/ MakeTeam(w) \/ AddMember(w) \/ WritePassword(w)
         \/ Revoke(w) \/ OpenSession(w) \/ Abort(w)
  PROVE  \A v \in Workers : v # w => pc'[v] = pc[v] /\ req'[v] = req[v]
<1>1. ASSUME NEW m, GoOn(w, m) \/ Leave(w)
      PROVE  \A v \in Workers : v # w => pc'[v] = pc[v] /\ req'[v] = req[v]
  BY <1>1 DEF GoOn, Leave, IInv, ThreadsOK
<1>2. CASE Accept(w)
  BY <1>2 DEF Accept, IInv, ThreadsOK
<1>3. CASE LookUp(w)
  BY <1>1, <1>3 DEF LookUp
<1>4. CASE \/ Create(w) \/ WriteRole(w) \/ MakeTeam(w) \/ AddMember(w)
           \/ WritePassword(w) \/ Revoke(w) \/ OpenSession(w) \/ Abort(w)
  BY <1>1, <1>4 DEF Create, WriteRole, MakeTeam, AddMember, WritePassword,
     Revoke, OpenSession, Abort
<1> QED BY <1>2, <1>3, <1>4

LEMMA SessionsStep ==
  ASSUME IInv, SessionsCurrent, [Next]_vars
  PROVE  SessionsCurrent'
<1> SUFFICES ASSUME NEW s \in sessions'
             PROVE  Current(s)' \/ s.stale \/ Revoking(s.user)'
  BY DEF SessionsCurrent, Current, Revoking
<1>1. s \in sessions => Current(s) \/ s.stale \/ Revoking(s.user)
  BY DEF SessionsCurrent, Current, Revoking
<1>2. /\ role \in [People -> {"none", "player", "admin", "banned"}]
      /\ \A x \in sessions : x \in Session
  BY DEF IInv, TypeOK
<1>3. CASE UNCHANGED vars
  BY <1>1, <1>3 DEF vars, tables, Current, Revoking, At, User
<1>4. CASE CloseSession
  BY <1>1, <1>4 DEF CloseSession, Current, Revoking, At, User
<1>5. ASSUME NEW w \in Workers,
             \/ Accept(w) \/ LookUp(w) \/ Create(w) \/ WriteRole(w)
             \/ MakeTeam(w) \/ AddMember(w) \/ WritePassword(w)
             \/ Revoke(w) \/ OpenSession(w) \/ Abort(w)
      PROVE  Current(s)' \/ s.stale \/ Revoking(s.user)'
  <2>1. \A v \in Workers : v # w => pc'[v] = pc[v] /\ req'[v] = req[v]
    BY <1>5, OthersStay
  <2>2. ~At(w, "revoke") /\ Revoking(s.user) => Revoking(s.user)'
    BY <2>1, RevokingStays
  <2>3. CASE Accept(w) \/ LookUp(w) \/ MakeTeam(w) \/ AddMember(w)
    <3>1. UNCHANGED <<role, version, sessions>>
      BY <2>3 DEF Accept, LookUp, MakeTeam, AddMember, tables
    <3>2. ~At(w, "revoke")
      <4>1. CASE Accept(w)
        BY <4>1 DEF Accept, At
      <4>2. CASE LookUp(w)
        BY <4>2 DEF LookUp, At, Reads
      <4>3. CASE MakeTeam(w) \/ AddMember(w)
        BY <4>3 DEF MakeTeam, AddMember, At
      <4> QED BY <2>3, <4>1, <4>2, <4>3
    <3> QED BY <1>1, <2>2, <3>1, <3>2 DEF Current
  <2>4. CASE Create(w)
    <3>1. /\ At(w, "create") /\ UNCHANGED <<version, sessions>>
          /\ \/ UNCHANGED role
             \/ /\ role[User(w)] = "none"
                /\ role' = [role EXCEPT ![User(w)] = "player"]
      BY <2>4, CreateStep
    <3>2. ~At(w, "revoke")
      BY <3>1 DEF At
    <3>3. role[s.user] = "admin" => role'[s.user] = "admin"
      BY <1>2, <3>1 DEF Session
    <3> QED BY <1>1, <2>2, <3>1, <3>2, <3>3 DEF Current
  <2>5. CASE WriteRole(w)
    <3>1. UNCHANGED <<version, sessions>>
      BY <2>5, WriteRoleStep
    <3>2. ~At(w, "revoke")
      BY <2>5 DEF WriteRole, At
    <3>3. CASE UNCHANGED role
      BY <1>1, <2>2, <3>1, <3>2, <3>3 DEF Current
    <3>4. CASE role' = [role EXCEPT ![User(w)] = "admin"]
      BY <1>1, <1>2, <2>2, <3>1, <3>2, <3>4 DEF Current
    <3>5. CASE /\ At(w, "revoke")' /\ UNCHANGED req
               /\ \E x : role' = [role EXCEPT ![User(w)] = x]
      <4>1. s.user = User(w) => Revoking(s.user)'
        BY <3>5 DEF Revoking, User
      <4>2. s.user # User(w) => role'[s.user] = role[s.user]
        BY <1>2, <3>1, <3>5 DEF Session
      <4> QED BY <1>1, <2>2, <3>1, <3>2, <4>1, <4>2 DEF Current
    <3> QED BY <2>5, <3>3, <3>4, <3>5, WriteRoleStep
  <2>6. CASE WritePassword(w)
    <3>1. /\ At(w, "write_password") /\ At(w, "revoke")' /\ UNCHANGED req
          /\ UNCHANGED <<role, sessions>>
          /\ \A u \in People : u # User(w) => version'[u] = version[u]
      BY <2>6, WritePasswordStep
    <3>2. ~At(w, "revoke")
      BY <3>1 DEF At
    <3>3. s.user = User(w) => Revoking(s.user)'
      BY <3>1 DEF Revoking, User
    <3>4. s.user # User(w) => version'[s.user] = version[s.user]
      BY <1>2, <3>1 DEF Session
    <3> QED BY <1>1, <2>2, <3>1, <3>2, <3>3, <3>4 DEF Current
  <2>7. CASE Revoke(w)
    <3>1. /\ UNCHANGED <<role, version>>
          /\ sessions' = sessions \ RevokeAll(User(w))
      BY <2>7, RevokeStep
    <3>2. s \in sessions /\ s.user # User(w)
      BY <3>1 DEF RevokeAll
    <3>3. Revoking(s.user) => Revoking(s.user)'
      BY <2>1, <3>2 DEF Revoking, At, User
    <3> QED BY <1>1, <3>1, <3>2, <3>3 DEF Current
  <2>8. CASE OpenSession(w)
    <3>1. At(w, "open_session") /\ UNCHANGED <<role, version>>
      BY <2>8, OpenSessionStep
    <3>2. PICK n \in Session :
            /\ sessions' = sessions \union {n}
            /\ n.stale \/ ( /\ n.version = version[n.user]
                            /\ n.role = role[n.user] )
      BY <2>8, OpenSessionStep
    <3>3. ~At(w, "revoke")
      BY <3>1 DEF At
    <3>4. CASE s = n
      <4>1. n.stale \/ Current(n)'
        BY <3>1, <3>2 DEF Current
      <4> QED BY <3>4, <4>1
    <3>5. CASE s # n
      BY <1>1, <2>2, <3>1, <3>2, <3>3, <3>5 DEF Current
    <3> QED BY <3>4, <3>5
  <2>9. CASE Abort(w)
    <3>1. /\ UNCHANGED <<role, version>>
          /\ s.stale \/ (s \in sessions /\ ~(At(w, "revoke") /\ s.user = User(w)))
      BY <2>9, AbortStep
    <3>2. CASE s.stale
      BY <3>2
    <3>3. CASE s \in sessions /\ ~(At(w, "revoke") /\ s.user = User(w))
      <4>1. Revoking(s.user) => Revoking(s.user)'
        BY <2>1, <3>3 DEF Revoking, At, User
      <4> QED BY <1>1, <3>1, <3>3, <4>1 DEF Current
    <3> QED BY <3>1, <3>2, <3>3
  <2> QED BY <1>5, <2>3, <2>4, <2>5, <2>6, <2>7, <2>8, <2>9
<1> QED BY <1>3, <1>4, <1>5, Steps

\* No session outlives a change of its user's password or loss of admin rights,
\* for any number of people, workers and sessions, beyond the cases that
\* SessionsCurrent names.
THEOREM SessionsStayCurrent == Spec => []SessionsCurrent
<1>1. Init => SessionsCurrent
  BY DEF Init, SessionsCurrent
<1>2. IInv /\ SessionsCurrent /\ [Next]_vars => SessionsCurrent'
  BY SessionsStep
<1> QED BY <1>1, <1>2, InvHolds, PTL DEF Spec

-----------------------------------------------------------------------------
(* The connections the handlers use, one for each statement; register and  *)
(* login hold two in create_session.                                       *)

ConnectionsTyped ==
  /\ size \in Nat
  /\ at \in [Threads -> {"idle", "waiting", "working"}]
  /\ kind \in [Threads -> Kinds]
  /\ held \in [Threads -> 0 .. 2]

\* A thread that waits holds one connection fewer than its handler may hold at
\* most; one that does nothing holds none.
HeldOK ==
  \A w \in Threads :
     /\ at[w] = "idle" => held[w] = 0
     /\ at[w] = "waiting" => held[w] < Depth(kind[w])
     /\ at[w] = "working" => held[w] <= Depth(kind[w])

\* Finitely many connections are out.
LEMMA TakenFinite == ASSUME ConnectionsTyped PROVE IsFiniteSet(Taken)
<1>1. Taken \subseteq Threads \X (1 .. 2)
  <2> SUFFICES ASSUME NEW x \in Taken PROVE x \in Threads \X (1 .. 2)
    OBVIOUS
  <2>1. PICK w \in Threads : x \in {w} \X (1 .. held[w])
    BY DEF Taken
  <2>2. PICK i \in 1 .. held[w] : x = <<w, i>>
    BY <2>1
  <2>3. held[w] \in 0 .. 2
    BY DEF ConnectionsTyped
  <2>4. i \in 1 .. 2
    BY <2>2, <2>3
  <2> QED BY <2>2, <2>4
<1>2. IsFiniteSet(Threads \X (1 .. 2))
  <2>1. IsFiniteSet(Threads)
    BY PoolAssumption
  <2>2. IsFiniteSet(1 .. 2)
    <3>1. 1 \in Int /\ 2 \in Int
      OBVIOUS
    <3> QED BY ONLY <3>1, FS_Interval
  <2> QED BY <2>1, <2>2, FS_Product
<1> QED BY <1>1, <1>2, FS_Subset

\* With one connection each, no more are out than there are threads.
LEMMA OneEach ==
  ASSUME ConnectionsTyped, \A w \in Threads : held[w] <= 1
  PROVE  Cardinality(Taken) <= Cardinality(Threads)
<1>1. Taken \subseteq Threads \X {1}
  <2> SUFFICES ASSUME NEW x \in Taken PROVE x \in Threads \X {1}
    OBVIOUS
  <2>1. PICK w \in Threads : x \in {w} \X (1 .. held[w])
    BY DEF Taken
  <2>2. PICK i \in 1 .. held[w] : x = <<w, i>>
    BY <2>1
  <2>3. held[w] \in 0 .. 2 /\ held[w] <= 1
    BY DEF ConnectionsTyped
  <2>4. i = 1
    BY <2>2, <2>3
  <2> QED BY <2>2, <2>4
<1>2. /\ IsFiniteSet(Threads \X {1})
      /\ Cardinality(Threads \X {1}) = Cardinality(Threads) * 1
  <2>1. IsFiniteSet(Threads) /\ IsFiniteSet({1}) /\ Cardinality({1}) = 1
    BY PoolAssumption, FS_Singleton
  <2>2. Cardinality(Threads \X {1}) = Cardinality(Threads) * Cardinality({1})
    BY <2>1, FS_Product
  <2> QED BY <2>1, <2>2, FS_Product
<1>3. Cardinality(Threads) \in Nat
  BY PoolAssumption, FS_CardinalityType
<1> QED BY <1>1, <1>2, <1>3, FS_Subset

\* No connection is out at first,
LEMMA ConnectionsInit == ASSUME PoolInit PROVE ConnectionsTyped /\ HeldOK
BY PoolAssumption DEF PoolInit, ConnectionsTyped, HeldOK, Kinds, Depth

\* and every step keeps to what a handler may hold.
LEMMA ConnectionsStep ==
  ASSUME ConnectionsTyped, HeldOK, [PoolNext]_poolVars
  PROVE  ConnectionsTyped' /\ HeldOK'
<1>1. CASE UNCHANGED poolVars
  BY <1>1 DEF poolVars, ConnectionsTyped, HeldOK
<1>2. ASSUME NEW w \in Threads, Begin(w) PROVE ConnectionsTyped' /\ HeldOK'
  BY <1>2 DEF Begin, ConnectionsTyped, HeldOK, Kinds, Depth
<1>3. ASSUME NEW w \in Threads, Take(w) PROVE ConnectionsTyped' /\ HeldOK'
  BY <1>3 DEF Take, ConnectionsTyped, HeldOK, Kinds, Depth
<1>4. ASSUME NEW w \in Threads, Answer(w) PROVE ConnectionsTyped' /\ HeldOK'
  BY <1>4 DEF Answer, ConnectionsTyped, HeldOK, Kinds, Depth
<1>5. ASSUME NEW w \in Threads, AskForMore(w) \/ AskAgain(w)
      PROVE  ConnectionsTyped' /\ HeldOK'
  BY <1>5 DEF AskForMore, AskAgain, ConnectionsTyped, HeldOK, Kinds, Depth
<1> QED
  BY <1>1, <1>2, <1>3, <1>4, <1>5 DEF PoolNext, Get, GiveUp, Use, Finish

\* With fewer threads than connections, however many of either, register and
\* login never leave every thread waiting on the others: if all wait or rest,
\* each holds one connection at most, and one is left.
THEOREM NeverGridlocked == PoolSpec => []NoGridlock
<1>1. ConnectionsTyped /\ HeldOK => NoGridlock
  <2> SUFFICES ASSUME ConnectionsTyped, HeldOK, Cardinality(Threads) < size,
                      \A w \in Threads : at[w] # "working"
               PROVE  Free # 0
    BY DEF NoGridlock, Gridlock
  <2>1. \A w \in Threads : held[w] <= 1
    BY DEF ConnectionsTyped, HeldOK, Depth
  <2>2. Cardinality(Taken) <= Cardinality(Threads)
    BY <2>1, OneEach
  <2>3. IsFiniteSet(Taken)
    BY TakenFinite
  <2>4. /\ size \in Nat /\ Cardinality(Taken) \in Nat
        /\ Cardinality(Threads) \in Nat
    BY <2>3, PoolAssumption, FS_CardinalityType DEF ConnectionsTyped
  <2> QED BY <2>2, <2>4 DEF Free
<1>2. PoolInit => ConnectionsTyped /\ HeldOK
  BY ConnectionsInit
<1>3. ConnectionsTyped /\ HeldOK /\ [PoolNext]_poolVars
        => ConnectionsTyped' /\ HeldOK'
  BY ConnectionsStep
<1> QED BY <1>1, <1>2, <1>3, PTL DEF PoolSpec

=============================================================================
