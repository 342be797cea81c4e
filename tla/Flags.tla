-------------------------------- MODULE Flags --------------------------------
(***************************************************************************)
(* How a flag is stored: as a salted hash, which submissions are checked   *)
(* against, and since migration 005 as a copy encrypted under a key in the *)
(* database, which an admin may reveal.  Programs that open the database   *)
(* (the server, feralctf migrate, feralctf import) first bring it up to    *)
(* date, several at once if need be, and may stop at every statement; the  *)
(* server's handlers create, edit, export, import and delete a challenge,  *)
(* of which there is one here.                                             *)
(*                                                                         *)
(* A stored form (flag_hash) is a pattern, which is a text, or the digest  *)
(* of a normalised text and a salt.  A copy is a text sealed under a key:  *)
(* AES-GCM opens it under no other.  A pattern matches itself only.        *)
(***************************************************************************)
EXTENDS Naturals, Sequences, FiniteSets

CONSTANTS
  Server, Tools,  \* the programs: the server, and imports that run beside it
  Handlers,       \* the worker threads of the server
  Texts, Lower,   \* flags, and to_lowercase as a function on them
  Requests,       \* what update_challenge is asked for
  Authored,       \* challenges of hand-written bundles, with their flags
  Keys, Salts,    \* what the random numbers are drawn from
  MaxStops,       \* bound on the programs that stop early
  None            \* no row, no key, no copy, nothing given

Digest == [text : Texts, salt : Salts]
Sealed == [key : Keys, text : Texts]
Row == [regex : BOOLEAN, sensitive : BOOLEAN, hash : Texts \union Digest,
        salt : Salts, copy : Sealed \union {None}, flag : Texts]

ASSUME ConstantsAssumption ==
  /\ Server \notin Tools
  /\ Lower \in [Texts -> Texts] /\ \A t \in Texts : Lower[Lower[t]] = Lower[t]
  /\ IsFiniteSet(Keys) /\ Cardinality(Keys) > 1
  /\ IsFiniteSet(Handlers) /\ IsFiniteSet(Salts)
  /\ Cardinality(Salts) > Cardinality(Handlers) + 2  \* as many are in use at most
  /\ Authored \subseteq [regex : BOOLEAN, sensitive : BOOLEAN, flag : Texts]
  /\ Requests \subseteq [regex : BOOLEAN \union {None}, sensitive : BOOLEAN \union {None},
                          flag : Texts \union {None}]
  /\ Texts \intersect Digest = {}  \* no pattern is a digest
  /\ None \notin Keys \union Texts \union BOOLEAN \union Sealed \union Row
  /\ MaxStops \in Nat

Programs == Tools \union {Server}

VARIABLES
  column,  \* challenges.flag_ciphertext is there
  cipher,  \* the key in the one row of flag_cipher
  row,     \* the challenge, with the flag its stored form was made from
  bundle,  \* the last export
  at, saw, \* per program: next step; whether it saw the column
  pc, mem, \* per handler: next step; the row it is to write
  lost,    \* history: keys that went with their row
  stops    \* history: how often a program stopped early

tables == <<column, cipher, row>>
local == <<pc, mem>>
vars == <<column, cipher, row, bundle, at, saw, pc, mem, lost, stops>>

-----------------------------------------------------------------------------
(* Hashing, checking, sealing                                              *)

normalized(text, sensitive) == IF sensitive THEN text ELSE Lower[text]

hash_flag(text, salt, sensitive) == [text |-> normalized(text, sensitive), salt |-> salt]

verify_submission(r, text) ==
  IF r.regex THEN r.hash \in Texts
                  /\ normalized(r.hash, r.sensitive) = normalized(text, r.sensitive)
  ELSE r.hash = hash_flag(text, r.salt, r.sensitive)

\* Mutant of try_encrypt: the key is taken to be there.
encrypt(text) == [key |-> cipher, text |-> text]

try_encrypt(text) == IF cipher = None THEN None ELSE [key |-> cipher, text |-> text]

decrypt(copy) == IF copy # None /\ copy.key = cipher THEN copy.text ELSE None

\* reveal_flag: the text in the answer, if any.
Revealed == IF row.regex THEN row.hash ELSE decrypt(row.copy)

SaltsInUse ==
  {r.salt : r \in ({row, bundle} \union {mem[h] : h \in Handlers}) \ {None}}

\* Random: one that is nowhere in use.
generate_salt == CHOOSE s \in Salts : s \notin SaltsInUse

\* The stored form of a new flag, the copy aside.
Stored(flag, regex, sensitive) ==
  [regex |-> regex, sensitive |-> sensitive, flag |-> flag, copy |-> None,
   hash |-> IF regex THEN flag ELSE hash_flag(flag, generate_salt, sensitive),
   salt |-> generate_salt]

-----------------------------------------------------------------------------
(* Programs                                                                *)

Migrations == <<"tables", "columns", "alter", "key">>

\* run_server: init_pool migrates, then it migrates once more (run_migrate does
\* the same and ends); run_import leaves it at init_pool.
StepsOf(p) == IF p = Server THEN Migrations \o Migrations \o <<"up">>
              ELSE Migrations \o <<"up">>

Step(p) == IF at[p] \in DOMAIN StepsOf(p) THEN StepsOf(p)[at[p]] ELSE "down"
Up(p) == Step(p) = "up"
Failed == Len(Migrations \o Migrations) + 2

Advance(p) == at' = [at EXCEPT ![p] = @ + 1]

\* A program that stops takes its threads with it.
Stop(p, how) ==
  /\ at' = [at EXCEPT ![p] = how]
  /\ saw' = [saw EXCEPT ![p] = FALSE]
  /\ IF p = Server THEN /\ pc' = [h \in Handlers |-> "idle"]
                        /\ mem' = [h \in Handlers |-> None]
     ELSE UNCHANGED local

Start(p) ==
  /\ Step(p) = "down"   \* by an operator, or again after a failure
  /\ at' = [at EXCEPT ![p] = 1]
  /\ UNCHANGED <<tables, bundle, saw, local, lost, stops>>

\* CREATE TABLE IF NOT EXISTS, also of flag_cipher.
execute_batch(p) ==
  /\ Step(p) = "tables"
  /\ Advance(p)
  /\ UNCHANGED <<tables, bundle, saw, local, lost, stops>>

\* Mutant of SeesColumn: it is not looked for.
SeesNone == FALSE

SeesColumn == column

\* add_column_if_missing looks in one statement ...
table_info(p) ==
  /\ Step(p) = "columns"
  /\ saw' = [saw EXCEPT ![p] = SeesColumn]
  /\ Advance(p)
  /\ UNCHANGED <<tables, bundle, local, lost, stops>>

\* ... and alters the table in another, which fails if the column is there.
add_column(p) ==
  /\ Step(p) = "alter"
  /\ IF column /\ ~saw[p] THEN Stop(p, Failed) /\ UNCHANGED column
     ELSE column' = TRUE /\ Advance(p) /\ saw' = [saw EXCEPT ![p] = FALSE] /\ UNCHANGED local
  /\ UNCHANGED <<cipher, row, bundle, lost, stops>>

\* Mutant of InsertOrIgnore: the row is replaced.
InsertOrReplace(key) == key

InsertOrIgnore(key) == IF cipher = None THEN key ELSE cipher

\* Random as well, and drawn whether it is needed or not.
generate_key == CHOOSE key \in Keys : key \notin lost \union {cipher}

\* ensure_key: a random key, and nonce, for a row that is not there.
ensure_key(p) ==
  /\ Step(p) = "key"
  /\ cipher' = InsertOrIgnore(generate_key)
  /\ Advance(p)
  /\ UNCHANGED <<column, row, bundle, saw, local, lost, stops>>

\* A command is done; the server is shut down.
Exit(p) ==
  /\ Up(p)
  /\ Stop(p, 0)
  /\ UNCHANGED <<tables, bundle, lost, stops>>

\* Power, memory, a statement that fails.
Crash(p) ==
  /\ Step(p) # "down" /\ stops < MaxStops
  /\ stops' = stops + 1
  /\ Stop(p, Failed)
  /\ UNCHANGED <<tables, bundle, lost>>

\* The database is restored without its flag_cipher row.  One key is left over.
LoseKey ==
  /\ cipher # None /\ Cardinality(lost) + 2 < Cardinality(Keys)
  /\ lost' = lost \union {cipher}
  /\ cipher' = None
  /\ UNCHANGED <<column, row, bundle, at, saw, local, stops>>

-----------------------------------------------------------------------------
(* Handlers                                                                *)

Goto(h, step) == pc' = [pc EXCEPT ![h] = step]

Serving(h) == Up(Server) /\ pc[h] = "idle"

\* create_challenge, up to its first statement.
create_challenge(h) ==
  /\ Serving(h)
  /\ \E a \in Authored : mem' = [mem EXCEPT ![h] = Stored(a.flag, a.regex, a.sensitive)]
  /\ Goto(h, "seal_new")
  /\ UNCHANGED <<tables, bundle, at, saw, lost, stops>>

StoredFormChanges(r, regex, sensitive) ==
  regex # r.regex \/ (~regex /\ sensitive # r.sensitive)

Given(new, old) == IF new = None THEN old ELSE new

\* The row after the request, or None for "requires entering the flag again".
Edited(r, req) ==
  LET regex == Given(req.regex, r.regex)
      sensitive == Given(req.sensitive, r.sensitive)
  IN  IF req.flag # None THEN Stored(req.flag, regex, sensitive)
      ELSE IF StoredFormChanges(r, regex, sensitive) THEN None
      ELSE [r EXCEPT !.regex = regex, !.sensitive = sensitive]

\* update_challenge: find_by_id and all that follows from it.
update_challenge(h) ==
  /\ Serving(h) /\ row # None
  /\ \E req \in Requests :
       /\ Edited(row, req) # None
       /\ mem' = [mem EXCEPT ![h] = Edited(row, req)]
       /\ Goto(h, IF req.flag = None THEN "update" ELSE "seal")
  /\ UNCHANGED <<tables, bundle, at, saw, lost, stops>>

\* try_encrypt, but for patterns.
Seal(h) ==
  /\ pc[h] \in {"seal", "seal_new"}
  /\ mem' = [mem EXCEPT ![h].copy = IF mem[h].regex THEN None ELSE try_encrypt(mem[h].flag)]
  /\ Goto(h, IF pc[h] = "seal" THEN "update" ELSE "insert")
  /\ UNCHANGED <<tables, bundle, at, saw, lost, stops>>

Return(h) == Goto(h, "idle") /\ mem' = [mem EXCEPT ![h] = None]

\* UPDATE of every column, or INSERT under a slug nobody has.
Write(h) ==
  /\ pc[h] \in {"update", "insert"}
  /\ row' = IF (row = None) = (pc[h] = "insert") THEN mem[h] ELSE row
  /\ Return(h)
  /\ UNCHANGED <<column, cipher, bundle, at, saw, lost, stops>>

\* Requests done in one statement, or one that matters, by any thread.
delete_challenge ==
  /\ Up(Server) /\ row # None
  /\ row' = None
  /\ UNCHANGED <<column, cipher, bundle, at, saw, local, lost, stops>>

\* export_challenge: the hash and the salt, never the copy.
export_challenge ==
  /\ Up(Server) /\ row # None
  /\ bundle' = [row EXCEPT !.copy = None]
  /\ UNCHANGED <<tables, at, saw, local, lost, stops>>

\* stored_flag of an entry with a plaintext flag.
stored_flag(a) ==
  LET new == Stored(a.flag, a.regex, a.sensitive)
  IN  IF a.regex THEN new ELSE [new EXCEPT !.copy = try_encrypt(a.flag)]

\* Mutant of Kept: the copy stays unless there is a new one.
KeptAlways(new) == IF new.copy # None THEN new.copy ELSE row.copy

\* "keep the old ciphertext only while the flag hash is unchanged"
Kept(new) ==
  CASE new.copy # None -> new.copy
    [] new.copy = None /\ row.hash = new.hash -> row.copy
    [] OTHER -> None

\* import with overwrite: an entry that differs from the row, be it in another
\* column, replaces it.
Import(new) == row' = IF row = None THEN new ELSE [new EXCEPT !.copy = Kept(new)]

\* flag_matches and the columns that go with it: skipped if nothing else differs.
flag_matches(a) ==
  /\ row # None /\ a.regex = row.regex /\ a.sensitive = row.sensitive
  /\ IF a.regex THEN row.hash = a.flag ELSE verify_submission(row, a.flag)

\* One BEGIN IMMEDIATE transaction of a handler or of feralctf import.
import_bundle ==
  /\ \E p \in Programs : Up(p)
  /\ \/ bundle # None /\ Import(bundle)
     \/ \E a \in Authored : Import(stored_flag(a))
     \/ \E a \in Authored : flag_matches(a) /\ UNCHANGED row
  /\ UNCHANGED <<column, cipher, bundle, at, saw, local, lost, stops>>

-----------------------------------------------------------------------------

\* A new database, or one of a version before 005 with a challenge in it.
Init ==
  /\ column = FALSE /\ cipher = None
  /\ row \in {None} \union
       {[regex |-> a.regex, sensitive |-> a.sensitive, flag |-> a.flag, copy |-> None,
         hash |-> IF a.regex THEN a.flag
                  ELSE hash_flag(a.flag, CHOOSE s \in Salts : TRUE, a.sensitive),
         salt |-> CHOOSE s \in Salts : TRUE] : a \in Authored}
  /\ bundle = None
  /\ at = [p \in Programs |-> 0] /\ saw = [p \in Programs |-> FALSE]
  /\ pc = [h \in Handlers |-> "idle"] /\ mem = [h \in Handlers |-> None]
  /\ lost = {} /\ stops = 0

Migrate(p) == execute_batch(p) \/ table_info(p) \/ add_column(p) \/ ensure_key(p)

Handle(h) == create_challenge(h) \/ update_challenge(h) \/ Seal(h) \/ Write(h)

Next ==
  \/ \E p \in Programs : Start(p) \/ Migrate(p) \/ Exit(p) \/ Crash(p)
  \/ \E h \in Handlers : Handle(h)
  \/ delete_challenge \/ export_challenge \/ import_bundle
  \/ LoseKey

\* Programs run on, and are started again when they failed: by systemd
\* (Restart=on-failure), or by whoever gave the command.
Fairness ==
  \A p \in Programs : WF_vars(Migrate(p)) /\ WF_vars(at[p] = Failed /\ Start(p))

Spec == Init /\ [][Next]_vars /\ Fairness

-----------------------------------------------------------------------------
(* Properties                                                              *)

TypeOK ==
  /\ column \in BOOLEAN /\ cipher \in Keys \union {None}
  /\ row \in Row \union {None} /\ bundle \in Row \union {None}
  /\ at \in [Programs -> 0 .. Failed] /\ saw \in [Programs -> BOOLEAN]
  /\ pc \in [Handlers -> {"idle", "seal", "seal_new", "update", "insert"}]
  /\ mem \in [Handlers -> Row \union {None}]
  /\ lost \subseteq Keys /\ stops \in 0 .. MaxStops

\* The flag that was entered last solves the challenge, and so does the one an
\* admin is shown: whatever edits, exports and imports have come in between, and
\* whatever has become of the key.
FlagsHold ==
  row # None =>
    /\ verify_submission(row, row.flag)
    /\ Revealed # None => verify_submission(row, Revealed)

\* "Created by run_migrations if missing and never regenerated": what was sealed
\* can be opened unless its key was lost with its row, however many programs
\* migrate the database, at whatever time.
CopiesReadable ==
  row # None /\ row.copy # None => row.copy.key \in lost \union {cipher}

\* A program that is started comes up, at the second attempt if another one adds
\* the column between the two statements of add_column_if_missing.
StartsSucceed == \A p \in Programs : at[p] # 0 ~> Up(p)

=============================================================================
