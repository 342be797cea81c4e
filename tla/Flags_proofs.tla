---------------------------- MODULE Flags_proofs ----------------------------
(***************************************************************************)
(* Proofs about Flags, for any number of programs, handlers, texts, keys   *)
(* and salts, and any function for to_lowercase.                           *)
(***************************************************************************)
EXTENDS Flags, FiniteSetTheorems, SequenceTheorems, TLAPS

(* What the random numbers are drawn from does not run out.                *)

Records == ({row, bundle} \union {mem[h] : h \in Handlers}) \ {None}

\* At most one salt for each handler, the row and the bundle is in use.
LEMMA FreshSalt ==
  /\ generate_salt \in Salts
  /\ \A r \in Records : r.salt # generate_salt
<1> DEFINE M == {mem[h].salt : h \in Handlers}
           All == (M \union {row.salt}) \union {bundle.salt}
<1>1. IsFiniteSet(Handlers) /\ IsFiniteSet(Salts)
      /\ Cardinality(Salts) > Cardinality(Handlers) + 2
  BY ConstantsAssumption
<1>2. IsFiniteSet(M) /\ Cardinality(M) <= Cardinality(Handlers)
  <2> DEFINE f == [h \in Handlers |-> mem[h].salt]
  <2>1. f \in Surjection(Handlers, M)
    BY DEF Surjection
  <2> HIDE DEF f, M
  <2> QED BY <1>1, <2>1, FS_Surjection
<1> HIDE DEF M
<1>3. IsFiniteSet(All) /\ Cardinality(All) <= Cardinality(M) + 2
  <2>1. /\ IsFiniteSet(M \union {row.salt})
        /\ Cardinality(M \union {row.salt}) =
             IF row.salt \in M THEN Cardinality(M) ELSE Cardinality(M) + 1
    BY <1>2, FS_AddElement
  <2>2. /\ IsFiniteSet(All)
        /\ Cardinality(All) = IF bundle.salt \in M \union {row.salt}
                              THEN Cardinality(M \union {row.salt})
                              ELSE Cardinality(M \union {row.salt}) + 1
    BY <2>1, FS_AddElement
  <2>3. Cardinality(M) \in Nat
    BY <1>2, FS_CardinalityType
  <2> HIDE DEF All
  <2> QED BY <2>1, <2>2, <2>3
<1>4. SaltsInUse \subseteq All
  BY DEF SaltsInUse, M
<1> HIDE DEF All
<1>5. Cardinality(SaltsInUse) <= Cardinality(Handlers) + 2 /\ IsFiniteSet(SaltsInUse)
  <2>1. IsFiniteSet(SaltsInUse) /\ Cardinality(SaltsInUse) <= Cardinality(All)
    BY <1>3, <1>4, FS_Subset
  <2>2. /\ Cardinality(SaltsInUse) \in Nat /\ Cardinality(All) \in Nat
        /\ Cardinality(M) \in Nat /\ Cardinality(Handlers) \in Nat
    BY <1>1, <1>2, <1>3, <2>1, FS_CardinalityType
  <2> QED BY <1>2, <1>3, <2>1, <2>2
<1>6. ~(Salts \subseteq SaltsInUse)
  <2>1. ASSUME Salts \subseteq SaltsInUse PROVE Cardinality(Salts) <= Cardinality(SaltsInUse)
    BY <1>5, <2>1, FS_Subset
  <2>2. /\ Cardinality(SaltsInUse) \in Nat /\ Cardinality(Salts) \in Nat
        /\ Cardinality(Handlers) \in Nat
    BY <1>1, <1>5, FS_CardinalityType
  <2> QED BY <1>1, <1>5, <2>1, <2>2
<1>7. \E s \in Salts : s \notin SaltsInUse
  BY <1>6
<1>8. generate_salt \in Salts /\ generate_salt \notin SaltsInUse
  BY <1>7 DEF generate_salt
<1>9. \A r \in Records : r.salt \in SaltsInUse
  BY DEF Records, SaltsInUse
<1> QED BY <1>8, <1>9

\* LoseKey leaves one key over.
KeysLeft == lost \subseteq Keys /\ Cardinality(lost) + 1 < Cardinality(Keys)

LEMMA FreshKey ==
  ASSUME KeysLeft, cipher = None
  PROVE  generate_key \in Keys \ lost
<1>1. IsFiniteSet(Keys) /\ None \notin Keys
  BY ConstantsAssumption
<1>2. ~(Keys \subseteq lost)
  <2>1. lost # Keys
    <3>1. Cardinality(Keys) \in Nat
      BY <1>1, FS_CardinalityType
    <3> QED BY <3>1 DEF KeysLeft
  <2> QED BY <2>1 DEF KeysLeft
<1>3. \E key \in Keys : key \notin lost \union {cipher}
  BY <1>1, <1>2
<1> QED BY <1>3 DEF generate_key

-----------------------------------------------------------------------------
(* Records: the row, the bundle, and what handlers are to write.           *)

\* The stored form goes with the flag, and so does the text of the copy.
Good(r) ==
  /\ r.regex => r.hash = r.flag /\ r.copy = None
  /\ ~r.regex => /\ r.hash = hash_flag(r.flag, r.salt, r.sensitive)
                 /\ r.copy # None =>
                      r.hash = hash_flag(r.copy.text, r.salt, r.sensitive)

\* Records with one salt are of one stored form.
Akin(r, s) ==
  /\ r.salt = s.salt /\ r.regex = s.regex
  /\ ~r.regex => r.sensitive = s.sensitive

Readable(r) == r.copy # None => r.copy.key \in lost \union {cipher}

LEMMA NormalizedIs ==
  ASSUME NEW text \in Texts, NEW sensitive \in BOOLEAN
  PROVE  normalized(text, sensitive) \in Texts
BY ConstantsAssumption DEF normalized

\* A new stored form.
LEMMA StoredIs ==
  ASSUME NEW flag \in Texts, NEW regex \in BOOLEAN, NEW sensitive \in BOOLEAN
  PROVE  LET new == Stored(flag, regex, sensitive)
         IN  /\ new \in Row /\ Good(new) /\ Readable(new) /\ new.copy = None
             /\ new.salt = generate_salt /\ new.flag = flag
             /\ new.regex = regex /\ new.sensitive = sensitive
<1>1. hash_flag(flag, generate_salt, sensitive) \in Digest
  BY FreshSalt, NormalizedIs DEF hash_flag, Digest
<1>2. generate_salt \in Salts
  BY FreshSalt
<1> QED BY <1>1, <1>2 DEF Stored, Row, Good, Readable

\* An edit without a flag leaves the stored form, one with a flag makes a new one.
LEMMA EditedIs ==
  ASSUME NEW r \in Row, Good(r), Readable(r), NEW req \in Requests, Edited(r, req) # None
  PROVE  LET new == Edited(r, req)
         IN  /\ new \in Row /\ Good(new) /\ Readable(new)
             /\ req.flag = None => Akin(new, r)
             /\ req.flag # None => new.salt = generate_salt
<1> DEFINE regex == Given(req.regex, r.regex)
           sensitive == Given(req.sensitive, r.sensitive)
<1>1. regex \in BOOLEAN /\ sensitive \in BOOLEAN /\ req.flag \in Texts \union {None}
  BY ConstantsAssumption DEF Given, Row
<1>2. Edited(r, req) =
        IF req.flag # None THEN Stored(req.flag, regex, sensitive)
        ELSE IF StoredFormChanges(r, regex, sensitive) THEN None
        ELSE [r EXCEPT !.regex = regex, !.sensitive = sensitive]
  BY DEF Edited
<1> HIDE DEF regex, sensitive
<1>3. CASE req.flag # None
  <2>1. req.flag \in Texts
    BY <1>1, <1>3
  <2> QED BY <1>1, <1>2, <1>3, <2>1, StoredIs
<1>4. CASE req.flag = None
  <2>1. ~StoredFormChanges(r, regex, sensitive)
        /\ Edited(r, req) = [r EXCEPT !.regex = regex, !.sensitive = sensitive]
    BY <1>2, <1>4
  <2>2. regex = r.regex /\ (~regex => sensitive = r.sensitive)
    BY <2>1 DEF StoredFormChanges
  <2>3. /\ Edited(r, req) \in Row
        /\ \A new \in {Edited(r, req)} :
             /\ new.regex = regex /\ new.sensitive = sensitive /\ new.hash = r.hash
             /\ new.salt = r.salt /\ new.copy = r.copy /\ new.flag = r.flag
    BY <1>1, <2>1 DEF Row
  <2> QED BY <1>4, <2>2, <2>3 DEF Good, Readable, Akin
<1> QED BY <1>3, <1>4

\* A new record that is of no stored form in use, or of that of another record.
LEMMA KinStays ==
  ASSUME NEW Old, NEW New, NEW fresh,
         \A r, s \in Old : r.salt = s.salt => Akin(r, s),
         \A r \in Old : r.salt # fresh,
         \A r \in New : r.salt = fresh \/ \E s \in Old : Akin(r, s),
         \A r, s \in New : r.salt = fresh /\ s.salt = fresh => Akin(r, s)
  PROVE  \A r, s \in New : r.salt = s.salt => Akin(r, s)
BY DEF Akin

\* Opening a record's copy gives a text that solves it.
LEMMA GoodVerifies ==
  ASSUME NEW r \in Row, Good(r)
  PROVE  /\ verify_submission(r, r.flag)
         /\ r.regex => verify_submission(r, r.hash)
         /\ ~r.regex /\ r.copy # None => verify_submission(r, r.copy.text)
BY DEF Good, verify_submission, Row, hash_flag
-----------------------------------------------------------------------------
(* The invariant.                                                          *)

HandlersHold == \A h \in Handlers : mem[h] = None => pc[h] = "idle"

RecordsFine ==
  /\ \A r \in Records : Good(r) /\ Readable(r)
  /\ \A r, s \in Records : r.salt = s.salt => Akin(r, s)

BundleBare == bundle # None => bundle.copy = None

IInv == TypeOK /\ KeysLeft /\ HandlersHold /\ RecordsFine /\ BundleBare

\* A step keeps the records fine if the only new ones are edits of old ones, or
\* of one new stored form, and if no key is forgotten.
LEMMA RecordsKept ==
  ASSUME TypeOK, RecordsFine,
         \A key \in Keys : key \in lost \union {cipher} => key \in lost' \union {cipher'},
         \A r \in Records' :
            \/ r \in Records
            \/ /\ r \in Row /\ Good(r) /\ Readable(r)
               /\ r.salt = generate_salt \/ \E s \in Records : Akin(r, s),
         \A r, s \in Records' :
            r.salt = generate_salt /\ s.salt = generate_salt => r = s
  PROVE  RecordsFine'
<1>1. \A r \in Records : r \in Row
  BY DEF Records, TypeOK
<1>2. \A r \in Records' : r \in Row /\ Good(r) /\ Readable(r)
  BY <1>1 DEF RecordsFine
<1>3. ASSUME NEW r \in Records' PROVE r.copy # None => r.copy.key \in lost' \union {cipher'}
  <2>1. r.copy # None => r.copy.key \in Keys /\ r.copy.key \in lost \union {cipher}
    BY <1>2, <1>3 DEF Row, Sealed, Readable
  <2> QED BY <2>1
<1>4. \A r \in Records' : r.salt = generate_salt \/ \E s \in Records : Akin(r, s)
  BY DEF Akin
<1>5. \A r, s \in Records' : r.salt = s.salt => Akin(r, s)
  <2> DEFINE Old == Records
             New == Records'
             fresh == generate_salt
  <2>1. \A r, s \in Old : r.salt = s.salt => Akin(r, s)
    BY DEF RecordsFine
  <2>2. \A r \in Old : r.salt # fresh
    BY FreshSalt
  <2>3. \A r \in New : r.salt = fresh \/ \E s \in Old : Akin(r, s)
    BY <1>4
  <2>4. \A r, s \in New : r.salt = fresh /\ s.salt = fresh => Akin(r, s)
    BY DEF Akin
  <2> HIDE DEF Old, New, fresh
  <2>5. \A r, s \in New : r.salt = s.salt => Akin(r, s)
    BY <2>1, <2>2, <2>3, <2>4, KinStays
  <2> QED BY <2>5 DEF New
<1> QED BY <1>2, <1>3, <1>5 DEF RecordsFine, Good, Readable, Akin

LEMMA SameRecords ==
  ASSUME TypeOK, RecordsFine, Records' \subseteq Records,
         \A key \in Keys : key \in lost \union {cipher} => key \in lost' \union {cipher'}
  PROVE  RecordsFine'
<1>1. \A r, s \in Records' : r.salt = generate_salt /\ s.salt = generate_salt => r = s
  BY FreshSalt
<1> QED BY <1>1, RecordsKept

\* One new record, of a new stored form or of that of a record there is.
LEMMA OneNewRecord ==
  ASSUME TypeOK, RecordsFine, NEW new \in Row, Records' \subseteq Records \union {new},
         lost' = lost, cipher' = cipher, Good(new), Readable(new),
         new.salt = generate_salt \/ \E s \in Records : Akin(new, s)
  PROVE  RecordsFine'
<1>1. \A r, s \in Records' : r.salt = generate_salt /\ s.salt = generate_salt => r = s
  BY FreshSalt
<1>2. \A r \in Records' :
        \/ r \in Records
        \/ /\ r \in Row /\ Good(r) /\ Readable(r)
           /\ r.salt = generate_salt \/ \E s \in Records : Akin(r, s)
  OBVIOUS
<1> QED BY <1>1, <1>2, RecordsKept

-----------------------------------------------------------------------------
(* Programs.                                                               *)

LEMMA StepsAre ==
  /\ Failed = 10
  /\ \A p \in Programs : /\ DOMAIN StepsOf(p) = 1 .. Len(StepsOf(p))
                         /\ Len(StepsOf(p)) \in Nat /\ Len(StepsOf(p)) <= 9
<1> DEFINE Names == {"tables", "columns", "alter", "key", "up"}
           up == <<"up">>
<1>1. Migrations \in Seq(Names) /\ Len(Migrations) = 4
  BY DEF Migrations
<1>2. up \in Seq(Names) /\ Len(up) = 1
  OBVIOUS
<1> HIDE DEF Names, up
<1>3. /\ Migrations \o Migrations \in Seq(Names) /\ Len(Migrations \o Migrations) = 8
      /\ Migrations \o up \in Seq(Names) /\ Len(Migrations \o up) = 5
  <2>1. /\ Migrations \o Migrations \in Seq(Names)
        /\ Len(Migrations \o Migrations) = Len(Migrations) + Len(Migrations)
    BY <1>1, ConcatProperties
  <2>2. Migrations \o up \in Seq(Names) /\ Len(Migrations \o up) = Len(Migrations) + Len(up)
    BY <1>1, <1>2, ConcatProperties
  <2> QED BY <1>1, <1>2, <2>1, <2>2
<1>4. /\ (Migrations \o Migrations) \o up \in Seq(Names)
      /\ Len((Migrations \o Migrations) \o up) = 9
  <2>1. /\ (Migrations \o Migrations) \o up \in Seq(Names)
        /\ Len((Migrations \o Migrations) \o up) = Len(Migrations \o Migrations) + Len(up)
    BY <1>2, <1>3, ConcatProperties
  <2> QED BY <1>2, <1>3, <2>1
<1>5. Failed = 10
  BY <1>3 DEF Failed
<1>6. \A p \in Programs : StepsOf(p) \in Seq(Names)
  BY <1>3, <1>4 DEF StepsOf, up
<1>7. \A p \in Programs : Len(StepsOf(p)) \in {5, 9}
  BY <1>3, <1>4 DEF StepsOf, up
<1>8. \A s \in Seq(Names) : DOMAIN s = 1 .. Len(s)
  BY LenProperties
<1>9. \A p \in Programs : DOMAIN StepsOf(p) = 1 .. Len(StepsOf(p))
  BY <1>6, <1>8
<1>10. \A n \in {5, 9} : n \in Nat /\ n <= 9
  OBVIOUS
<1>11. \A p \in Programs : Len(StepsOf(p)) \in Nat /\ Len(StepsOf(p)) <= 9
  BY <1>7, <1>10
<1> QED BY <1>5, <1>9, <1>11

LEMMA AdvanceTyped ==
  ASSUME at \in [Programs -> 0 .. Failed], NEW p \in Programs, Step(p) # "down", Advance(p)
  PROVE  at' \in [Programs -> 0 .. Failed]
<1> DEFINE n == Len(StepsOf(p))
<1>1. at[p] \in 1 .. n /\ n \in Nat /\ n <= 9
  BY StepsAre DEF Step
<1> HIDE DEF n
<1>2. at[p] + 1 \in 0 .. 10
  BY <1>1
<1> QED BY <1>2, StepsAre DEF Advance

LEMMA StopKeeps ==
  ASSUME IInv, NEW p \in Programs, NEW how \in 0 .. Failed, Stop(p, how),
         row' = row, bundle' = bundle
  PROVE  /\ at' \in [Programs -> 0 .. Failed] /\ saw' \in [Programs -> BOOLEAN]
         /\ pc' \in [Handlers -> {"idle", "seal", "seal_new", "update", "insert"}]
         /\ mem' \in [Handlers -> Row \union {None}]
         /\ HandlersHold' /\ Records' \subseteq Records
<1>1. at' \in [Programs -> 0 .. Failed] /\ saw' \in [Programs -> BOOLEAN]
  BY DEF Stop, IInv, TypeOK
<1>2. CASE p = Server
  <2>1. pc' = [h \in Handlers |-> "idle"] /\ mem' = [h \in Handlers |-> None]
    BY <1>2 DEF Stop
  <2> QED BY <1>1, <2>1 DEF HandlersHold, Records
<1>3. CASE p # Server
  <2>1. pc' = pc /\ mem' = mem
    BY <1>3 DEF Stop, local
  <2> QED BY <1>1, <2>1 DEF IInv, TypeOK, HandlersHold, Records
<1> QED BY <1>2, <1>3

LEMMA ProgramKeeps ==
  ASSUME IInv, NEW p \in Programs, Start(p) \/ Migrate(p) \/ Exit(p) \/ Crash(p)
  PROVE  IInv'
<1>1. TypeOK /\ KeysLeft /\ HandlersHold /\ RecordsFine /\ BundleBare
  BY DEF IInv
<1>2. 0 \in 0 .. Failed /\ 1 \in 0 .. Failed /\ Failed \in 0 .. Failed
  BY StepsAre
<1>3. CASE Start(p)
  <2>1. TypeOK'
    BY <1>1, <1>2, <1>3 DEF Start, tables, local, TypeOK
  <2>2. Records' \subseteq Records /\ lost' = lost /\ cipher' = cipher
    BY <1>3 DEF Start, tables, local, Records
  <2>3. RecordsFine'
    BY <1>1, <2>2, SameRecords
  <2> QED BY <1>1, <1>3, <2>1, <2>3
      DEF Start, tables, local, IInv, KeysLeft, HandlersHold, BundleBare
<1>4. CASE execute_batch(p) \/ table_info(p)
  <2>1. Step(p) # "down" /\ Advance(p)
    BY <1>4 DEF execute_batch, table_info
  <2>2. at' \in [Programs -> 0 .. Failed]
    BY <1>1, <2>1, AdvanceTyped DEF TypeOK
  <2>3. /\ UNCHANGED <<column, cipher, row, bundle, pc, mem, lost, stops>>
        /\ saw' \in [Programs -> BOOLEAN]
    BY <1>1, <1>4 DEF execute_batch, table_info, tables, local, TypeOK, SeesColumn
  <2>4. TypeOK'
    BY <1>1, <2>2, <2>3 DEF TypeOK
  <2>5. RecordsFine'
    <3>1. Records' \subseteq Records
      BY <2>3 DEF Records
    <3> QED BY <1>1, <2>3, <3>1, SameRecords
  <2> QED BY <1>1, <2>3, <2>4, <2>5 DEF IInv, KeysLeft, HandlersHold, BundleBare
<1>5. CASE add_column(p)
  <2>1. UNCHANGED <<cipher, row, bundle, lost, stops>> /\ column' \in BOOLEAN
    BY <1>1, <1>5 DEF add_column, TypeOK
  <2>2. CASE column /\ ~saw[p]
    <3>1. Stop(p, Failed)
      BY <1>5, <2>2 DEF add_column
    <3>2. /\ at' \in [Programs -> 0 .. Failed] /\ saw' \in [Programs -> BOOLEAN]
          /\ pc' \in [Handlers -> {"idle", "seal", "seal_new", "update", "insert"}]
          /\ mem' \in [Handlers -> Row \union {None}]
          /\ HandlersHold' /\ Records' \subseteq Records
      BY <1>2, <2>1, <3>1, StopKeeps
    <3>3. RecordsFine'
      BY <1>1, <2>1, <3>2, SameRecords
    <3> QED BY <1>1, <2>1, <3>2, <3>3 DEF IInv, TypeOK, KeysLeft, BundleBare
  <2>3. CASE ~(column /\ ~saw[p])
    <3>1. Advance(p) /\ saw' = [saw EXCEPT ![p] = FALSE] /\ UNCHANGED local /\ Step(p) # "down"
      BY <1>5, <2>3 DEF add_column
    <3>2. at' \in [Programs -> 0 .. Failed]
      BY <1>1, <3>1, AdvanceTyped DEF TypeOK
    <3>3. Records' \subseteq Records
      BY <2>1, <3>1 DEF Records, local
    <3>4. RecordsFine'
      BY <1>1, <2>1, <3>3, SameRecords
    <3> QED BY <1>1, <2>1, <3>1, <3>2, <3>4
        DEF IInv, TypeOK, KeysLeft, HandlersHold, BundleBare, local
  <2> QED BY <2>2, <2>3
<1>6. CASE ensure_key(p)
  <2>1. Step(p) # "down" /\ Advance(p) /\ cipher' = InsertOrIgnore(generate_key)
        /\ UNCHANGED <<column, row, bundle, saw, pc, mem, lost, stops>>
    BY <1>6 DEF ensure_key, local
  <2>2. at' \in [Programs -> 0 .. Failed]
    BY <1>1, <2>1, AdvanceTyped DEF TypeOK
  <2>3. cipher' \in Keys /\ (cipher # None => cipher' = cipher)
    BY <1>1, <2>1, FreshKey DEF InsertOrIgnore, TypeOK
  <2>4. Records' \subseteq Records
    BY <2>1 DEF Records
  <2>5. None \notin Keys
    BY ConstantsAssumption
  <2>6. \A key \in Keys : key \in lost \union {cipher} => key \in lost' \union {cipher'}
    BY <2>1, <2>3, <2>5
  <2>7. RecordsFine'
    BY <1>1, <2>4, <2>6, SameRecords
  <2> QED BY <1>1, <2>1, <2>2, <2>3, <2>7
      DEF IInv, TypeOK, KeysLeft, HandlersHold, BundleBare
<1>7. CASE Exit(p) \/ Crash(p)
  <2>1. \E how \in 0 .. Failed : Stop(p, how)
    BY <1>2, <1>7 DEF Exit, Crash
  <2>2. UNCHANGED <<column, cipher, row, bundle, lost>>
    BY <1>7 DEF Exit, Crash, tables
  <2>3. stops' \in 0 .. MaxStops
    <3>1. CASE Exit(p)
      BY <1>1, <3>1 DEF Exit, TypeOK
    <3>2. CASE Crash(p)
      <4>1. stops \in 0 .. MaxStops /\ stops < MaxStops /\ stops' = stops + 1 /\ MaxStops \in Nat
        BY <1>1, <3>2, ConstantsAssumption DEF Crash, TypeOK
      <4> QED BY <4>1
    <3> QED BY <1>7, <3>1, <3>2
  <2>4. /\ at' \in [Programs -> 0 .. Failed] /\ saw' \in [Programs -> BOOLEAN]
        /\ pc' \in [Handlers -> {"idle", "seal", "seal_new", "update", "insert"}]
        /\ mem' \in [Handlers -> Row \union {None}]
        /\ HandlersHold' /\ Records' \subseteq Records
    BY <2>1, <2>2, StopKeeps
  <2>5. RecordsFine'
    BY <1>1, <2>2, <2>4, SameRecords
  <2> QED BY <1>1, <2>2, <2>3, <2>4, <2>5 DEF IInv, TypeOK, KeysLeft, BundleBare
<1> QED BY <1>3, <1>4, <1>5, <1>6, <1>7 DEF Migrate
-----------------------------------------------------------------------------
(* Handlers.                                                               *)

Steps == {"idle", "seal", "seal_new", "update", "insert"}

\* A handler that takes a new record in hand.
LEMMA HandlerTakes ==
  ASSUME IInv, NEW h \in Handlers, NEW new \in Row, NEW step \in Steps,
         mem' = [mem EXCEPT ![h] = new], pc' = [pc EXCEPT ![h] = step],
         UNCHANGED <<column, cipher, row, bundle, at, saw, lost, stops>>,
         Good(new), Readable(new),
         new.salt = generate_salt \/ \E s \in Records : Akin(new, s)
  PROVE  IInv'
<1>1. TypeOK /\ KeysLeft /\ HandlersHold /\ RecordsFine /\ BundleBare
  BY DEF IInv
<1>2. new # None
  BY ConstantsAssumption
<1>3. TypeOK'
  BY <1>1 DEF TypeOK, Steps
<1>4. HandlersHold'
  BY <1>1, <1>2 DEF HandlersHold, TypeOK
<1>5. Records' \subseteq Records \union {new}
  BY <1>1 DEF Records, TypeOK
<1>6. RecordsFine'
  BY <1>1, <1>5, OneNewRecord
<1> QED BY <1>1, <1>3, <1>4, <1>6 DEF IInv, KeysLeft, BundleBare

LEMMA HandleKeeps ==
  ASSUME IInv, NEW h \in Handlers, Handle(h)
  PROVE  IInv'
<1>1. TypeOK /\ KeysLeft /\ HandlersHold /\ RecordsFine /\ BundleBare
  BY DEF IInv
<1>2. \A r \in Records : r \in Row /\ Good(r) /\ Readable(r)
  BY <1>1 DEF RecordsFine, Records, TypeOK
<1>3. CASE create_challenge(h)
  <2>1. PICK a \in Authored :
          mem' = [mem EXCEPT ![h] = Stored(a.flag, a.regex, a.sensitive)]
    BY <1>3 DEF create_challenge
  <2>2. a.flag \in Texts /\ a.regex \in BOOLEAN /\ a.sensitive \in BOOLEAN
    BY ConstantsAssumption
  <2> DEFINE new == Stored(a.flag, a.regex, a.sensitive)
  <2>3. new \in Row /\ Good(new) /\ Readable(new) /\ new.salt = generate_salt
    BY <2>2, StoredIs
  <2>4. /\ mem' = [mem EXCEPT ![h] = new] /\ pc' = [pc EXCEPT ![h] = "seal_new"]
        /\ UNCHANGED <<column, cipher, row, bundle, at, saw, lost, stops>>
    BY <1>3, <2>1 DEF create_challenge, Goto, tables
  <2>5. "seal_new" \in Steps
    BY DEF Steps
  <2> HIDE DEF new
  <2> QED BY <2>3, <2>4, <2>5, HandlerTakes
<1>4. CASE update_challenge(h)
  <2>1. PICK req \in Requests :
          /\ Edited(row, req) # None /\ mem' = [mem EXCEPT ![h] = Edited(row, req)]
          /\ pc' = [pc EXCEPT ![h] = IF req.flag = None THEN "update" ELSE "seal"]
    BY <1>4 DEF update_challenge, Goto
  <2>2. row \in Records /\ UNCHANGED <<column, cipher, row, bundle, at, saw, lost, stops>>
    BY <1>4 DEF update_challenge, Records, tables
  <2> DEFINE new  == Edited(row, req)
             step == IF req.flag = None THEN "update" ELSE "seal"
  <2>3. /\ new \in Row /\ Good(new) /\ Readable(new)
        /\ req.flag = None => Akin(new, row)
        /\ req.flag # None => new.salt = generate_salt
    BY <1>2, <2>1, <2>2, EditedIs
  <2>4. new.salt = generate_salt \/ \E s \in Records : Akin(new, s)
    <3> HIDE DEF new
    <3> QED BY <2>2, <2>3
  <2>5. step \in Steps /\ mem' = [mem EXCEPT ![h] = new] /\ pc' = [pc EXCEPT ![h] = step]
    BY <2>1 DEF Steps
  <2> HIDE DEF new, step
  <2> QED BY <2>2, <2>3, <2>4, <2>5, HandlerTakes
<1>5. CASE Seal(h)
  <2> DEFINE old  == mem[h]
             copy == IF old.regex THEN None ELSE try_encrypt(old.flag)
             new  == [old EXCEPT !.copy = copy]
             step == IF pc[h] = "seal" THEN "update" ELSE "insert"
  <2>1. pc[h] # "idle"
    BY <1>5 DEF Seal
  <2>2. old \in Records
    BY <1>1, <2>1 DEF HandlersHold, Records
  <2>3. old \in Row /\ Good(old) /\ Readable(old)
    BY <1>2, <2>2
  <2>4. /\ mem' = [mem EXCEPT ![h].copy = copy] /\ pc' = [pc EXCEPT ![h] = step]
        /\ UNCHANGED <<column, cipher, row, bundle, at, saw, lost, stops>>
    BY <1>5 DEF Seal, Goto, tables
  <2>5. mem' = [mem EXCEPT ![h] = new]
    <3> HIDE DEF copy
    <3> QED BY <2>4
  <2>6. step \in Steps
    BY DEF Steps
  <2> HIDE DEF old, step
  <2>7. /\ copy = None \/ (~old.regex /\ copy \in Sealed /\ copy.key = cipher
                           /\ copy.text = old.flag)
        /\ old.regex => copy = None
    <3>1. cipher = None \/ cipher \in Keys
      BY <1>1 DEF TypeOK
    <3>2. old.flag \in Texts
      BY <2>3 DEF Row
    <3> QED BY <3>1, <3>2 DEF try_encrypt, Sealed
  <2> HIDE DEF copy
  <2>8. /\ new \in Row /\ new.copy = copy /\ new.regex = old.regex
        /\ new.sensitive = old.sensitive /\ new.hash = old.hash
        /\ new.salt = old.salt /\ new.flag = old.flag
    BY <2>3, <2>7 DEF Row
  <2> HIDE DEF new
  <2>9. Good(new) /\ Readable(new) /\ Akin(new, old)
    <3>1. None \notin Sealed
      BY ConstantsAssumption
    <3> QED BY <2>3, <2>7, <2>8, <3>1 DEF Good, Readable, Akin
  <2> QED BY <2>2, <2>4, <2>5, <2>6, <2>8, <2>9, HandlerTakes
<1>6. CASE Write(h)
  <2>1. /\ pc[h] # "idle" /\ (row' = mem[h] \/ row' = row)
        /\ pc' = [pc EXCEPT ![h] = "idle"] /\ mem' = [mem EXCEPT ![h] = None]
        /\ UNCHANGED <<column, cipher, bundle, at, saw, lost, stops>>
    BY <1>6 DEF Write, Return, Goto
  <2>2. TypeOK'
    BY <1>1, <2>1 DEF TypeOK
  <2>3. HandlersHold'
    BY <1>1, <2>1 DEF HandlersHold, TypeOK
  <2>4. Records' \subseteq Records
    BY <1>1, <2>1 DEF Records, TypeOK
  <2>5. RecordsFine'
    BY <1>1, <2>1, <2>4, SameRecords
  <2> QED BY <1>1, <2>1, <2>2, <2>3, <2>5 DEF IInv, KeysLeft, BundleBare
<1> QED BY <1>3, <1>4, <1>5, <1>6 DEF Handle

-----------------------------------------------------------------------------
(* Requests done in one statement.                                         *)

LEMMA DeleteKeeps == ASSUME IInv, delete_challenge PROVE IInv'
<1>1. TypeOK /\ KeysLeft /\ HandlersHold /\ RecordsFine /\ BundleBare
  BY DEF IInv
<1>2. row' = None /\ UNCHANGED <<column, cipher, bundle, at, saw, pc, mem, lost, stops>>
  BY DEF delete_challenge, local
<1>3. Records' \subseteq Records
  BY <1>2 DEF Records
<1>4. RecordsFine'
  BY <1>1, <1>2, <1>3, SameRecords
<1> QED BY <1>1, <1>2, <1>4 DEF IInv, TypeOK, KeysLeft, HandlersHold, BundleBare

\* The bundle has all of the row but the copy.
LEMMA ExportKeeps == ASSUME IInv, export_challenge PROVE IInv'
<1>1. TypeOK /\ KeysLeft /\ HandlersHold /\ RecordsFine /\ BundleBare
  BY DEF IInv
<1> DEFINE new == [row EXCEPT !.copy = None]
<1>2. /\ row # None /\ bundle' = new
      /\ UNCHANGED <<column, cipher, row, at, saw, pc, mem, lost, stops>>
  BY DEF export_challenge, tables, local
<1>3. row \in Row /\ row \in Records /\ Good(row)
  BY <1>1, <1>2 DEF TypeOK, Records, RecordsFine
<1>4. /\ new \in Row /\ new.copy = None /\ new.regex = row.regex
      /\ new.sensitive = row.sensitive /\ new.hash = row.hash
      /\ new.salt = row.salt /\ new.flag = row.flag
  BY <1>3 DEF Row
<1> HIDE DEF new
<1>5. Good(new) /\ Readable(new) /\ Akin(new, row)
  BY <1>3, <1>4 DEF Good, Readable, Akin
<1>6. Records' \subseteq Records \union {new}
  BY <1>2 DEF Records
<1>7. RecordsFine'
  BY <1>1, <1>2, <1>3, <1>4, <1>5, <1>6, OneNewRecord
<1> QED BY <1>1, <1>2, <1>4, <1>7 DEF IInv, TypeOK, KeysLeft, HandlersHold, BundleBare

\* The copy that an import with overwrite keeps is one of the same stored form.
LEMMA ImportGood ==
  ASSUME IInv, row # None, NEW new \in Row, Good(new), Readable(new),
         new.salt = generate_salt \/ new \in Records
  PROVE  LET kept == [new EXCEPT !.copy = Kept(new)]
         IN  kept \in Row /\ Good(kept) /\ Readable(kept) /\ Akin(kept, new)
<1>1. TypeOK /\ RecordsFine
  BY DEF IInv
<1>2. row \in Row /\ row \in Records /\ Good(row) /\ Readable(row)
  BY <1>1 DEF TypeOK, Records, RecordsFine
<1> DEFINE copy == Kept(new)
           kept == [new EXCEPT !.copy = copy]
<1>3. \/ copy = new.copy
      \/ copy = None
      \/ new.copy = None /\ row.hash = new.hash /\ copy = row.copy /\ copy # None
  BY DEF Kept
<1>4. copy \in Sealed \union {None}
  BY <1>2, <1>3 DEF Row
<1> HIDE DEF copy
<1>5. /\ kept \in Row /\ kept.copy = copy /\ kept.regex = new.regex
      /\ kept.sensitive = new.sensitive /\ kept.hash = new.hash
      /\ kept.salt = new.salt /\ kept.flag = new.flag
  BY <1>4 DEF Row
<1> HIDE DEF kept
<1>6. Akin(kept, new)
  BY <1>5 DEF Akin
<1>7. CASE copy = new.copy \/ copy = None
  <2>1. Good(kept) /\ Readable(kept)
    BY <1>5, <1>7 DEF Good, Readable
  <2> QED BY <1>5, <1>6, <2>1 DEF kept, copy
<1>8. CASE new.copy = None /\ row.hash = new.hash /\ copy = row.copy /\ copy # None
  <2>1. ~row.regex /\ row.hash \in Digest /\ row.hash.salt = row.salt
    <3>1. ~row.regex /\ row.hash = hash_flag(row.flag, row.salt, row.sensitive)
      BY <1>2, <1>8 DEF Good
    <3>2. normalized(row.flag, row.sensitive) \in Texts /\ row.salt \in Salts
      BY <1>2, NormalizedIs DEF Row
    <3> QED BY <3>1, <3>2 DEF hash_flag, Digest
  <2>2. ~new.regex
    <3>1. ASSUME new.regex PROVE new.hash \in Texts
      BY <3>1 DEF Good, Row
    <3> QED BY <1>8, <2>1, <3>1, ConstantsAssumption
  <2>3. new.hash.salt = new.salt
    BY <2>2 DEF Good, hash_flag
  <2>4. new.salt = row.salt
    BY <1>8, <2>1, <2>3
  <2>5. new.sensitive = row.sensitive
    <3>1. new \in Records
      BY <1>2, <2>4, FreshSalt
    <3>2. Akin(new, row)
      BY <1>1, <1>2, <2>4, <3>1 DEF RecordsFine
    <3> QED BY <2>2, <3>2 DEF Akin
  <2>6. new.hash = hash_flag(copy.text, new.salt, new.sensitive)
    BY <1>2, <1>8, <2>1, <2>4, <2>5 DEF Good
  <2>7. Good(kept)
    BY <1>5, <2>2, <2>6 DEF Good
  <2>8. Readable(kept)
    BY <1>2, <1>5, <1>8 DEF Readable
  <2> QED BY <1>5, <1>6, <2>7, <2>8 DEF kept, copy
<1> QED BY <1>3, <1>7, <1>8 DEF kept, copy

LEMMA RowReplaced ==
  ASSUME IInv, NEW new \in Row, row' = new, Good(new), Readable(new),
         new.salt = generate_salt \/ \E s \in Records : Akin(new, s),
         UNCHANGED <<column, cipher, bundle, at, saw, pc, mem, lost, stops>>
  PROVE  IInv'
<1>1. TypeOK /\ KeysLeft /\ HandlersHold /\ RecordsFine /\ BundleBare
  BY DEF IInv
<1>2. Records' \subseteq Records \union {new}
  BY DEF Records
<1>3. RecordsFine'
  BY <1>1, <1>2, OneNewRecord
<1> QED BY <1>1, <1>3 DEF IInv, TypeOK, KeysLeft, HandlersHold, BundleBare

LEMMA ImportKeeps ==
  ASSUME IInv, NEW new \in Row, Import(new), Good(new), Readable(new),
         new.salt = generate_salt \/ new \in Records,
         UNCHANGED <<column, cipher, bundle, at, saw, pc, mem, lost, stops>>
  PROVE  IInv'
<1>1. Akin(new, new)
  BY DEF Akin
<1>2. CASE row = None
  <2>1. row' = new
    BY <1>2 DEF Import
  <2> QED BY <1>1, <2>1, RowReplaced
<1>3. CASE row # None
  <2> DEFINE kept == [new EXCEPT !.copy = Kept(new)]
  <2>1. row' = kept
    BY <1>3 DEF Import
  <2>2. kept \in Row /\ Good(kept) /\ Readable(kept) /\ Akin(kept, new)
    BY <1>3, ImportGood
  <2> HIDE DEF kept
  <2>3. kept.salt = generate_salt \/ \E s \in Records : Akin(kept, s)
    BY <2>2 DEF Akin
  <2> QED BY <2>1, <2>2, <2>3, RowReplaced
<1> QED BY <1>2, <1>3

LEMMA ImportBundleKeeps == ASSUME IInv, import_bundle PROVE IInv'
<1>1. TypeOK /\ KeysLeft /\ HandlersHold /\ RecordsFine /\ BundleBare
  BY DEF IInv
<1>2. UNCHANGED <<column, cipher, bundle, at, saw, pc, mem, lost, stops>>
  BY DEF import_bundle, local
<1>3. CASE bundle # None /\ Import(bundle)
  <2>1. bundle \in Row /\ bundle \in Records /\ Good(bundle) /\ Readable(bundle)
    BY <1>1, <1>3 DEF TypeOK, Records, RecordsFine
  <2> QED BY <1>2, <1>3, <2>1, ImportKeeps
<1>4. ASSUME NEW a \in Authored, Import(stored_flag(a)) PROVE IInv'
  <2> DEFINE new  == Stored(a.flag, a.regex, a.sensitive)
             copy == try_encrypt(a.flag)
             both == [new EXCEPT !.copy = copy]
  <2>1. a.flag \in Texts /\ a.regex \in BOOLEAN /\ a.sensitive \in BOOLEAN
    BY ConstantsAssumption
  <2>2. /\ new \in Row /\ Good(new) /\ Readable(new) /\ new.copy = None
        /\ new.salt = generate_salt /\ new.flag = a.flag /\ new.regex = a.regex
    BY <2>1, StoredIs
  <2>3. stored_flag(a) = IF a.regex THEN new ELSE both
    BY DEF stored_flag
  <2>4. copy = None \/ (copy \in Sealed /\ copy.key = cipher /\ copy.text = a.flag)
    BY <1>1, <2>1 DEF try_encrypt, Sealed, TypeOK
  <2> HIDE DEF new, copy
  <2>5. /\ both \in Row /\ both.copy = copy /\ both.regex = new.regex
        /\ both.sensitive = new.sensitive /\ both.hash = new.hash
        /\ both.salt = new.salt /\ both.flag = new.flag
    BY <2>2, <2>4 DEF Row
  <2> HIDE DEF both
  <2>6. CASE a.regex
    BY <1>2, <1>4, <2>2, <2>3, <2>6, ImportKeeps
  <2>7. CASE ~a.regex
    <3>1. Good(both) /\ Readable(both)
      BY <2>2, <2>4, <2>5, <2>7 DEF Good, Readable
    <3> QED BY <1>2, <1>4, <2>2, <2>3, <2>5, <2>7, <3>1, ImportKeeps
  <2> QED BY <2>6, <2>7
<1>5. CASE UNCHANGED row
  <2>1. Records' \subseteq Records
    BY <1>2, <1>5 DEF Records
  <2>2. RecordsFine'
    BY <1>1, <1>2, <2>1, SameRecords
  <2> QED BY <1>1, <1>2, <1>5, <2>2 DEF IInv, TypeOK, KeysLeft, HandlersHold, BundleBare
<1> QED BY <1>3, <1>4, <1>5 DEF import_bundle

LEMMA LoseKeyKeeps == ASSUME IInv, LoseKey PROVE IInv'
<1>1. TypeOK /\ KeysLeft /\ HandlersHold /\ RecordsFine /\ BundleBare
  BY DEF IInv
<1>2. /\ cipher # None /\ Cardinality(lost) + 2 < Cardinality(Keys)
      /\ lost' = lost \union {cipher} /\ cipher' = None
      /\ UNCHANGED <<column, row, bundle, at, saw, pc, mem, stops>>
  BY DEF LoseKey, local
<1>3. cipher \in Keys /\ lost' \subseteq Keys
  BY <1>1, <1>2 DEF TypeOK
<1>4. KeysLeft'
  <2>1. IsFiniteSet(Keys) /\ lost \subseteq Keys
    BY <1>1, ConstantsAssumption DEF TypeOK
  <2>2. IsFiniteSet(lost)
    BY <2>1, FS_Subset
  <2>3. Cardinality(lost') = Cardinality(lost) \/ Cardinality(lost') = Cardinality(lost) + 1
    BY <1>2, <2>2, FS_AddElement
  <2>4. Cardinality(lost) \in Nat /\ Cardinality(Keys) \in Nat
    BY <2>1, <2>2, FS_CardinalityType
  <2> QED BY <1>2, <1>3, <2>3, <2>4 DEF KeysLeft
<1>5. Records' \subseteq Records
  BY <1>2 DEF Records
<1>6. RecordsFine'
  BY <1>1, <1>2, <1>5, SameRecords
<1> QED BY <1>1, <1>2, <1>3, <1>4, <1>6 DEF IInv, TypeOK, HandlersHold, BundleBare

-----------------------------------------------------------------------------
(* The theorems.                                                           *)

LEMMA InitInv == Init => IInv
<1> SUFFICES ASSUME Init PROVE IInv
  OBVIOUS
<1> DEFINE salt == CHOOSE s \in Salts : TRUE
           Old(a) == [regex |-> a.regex, sensitive |-> a.sensitive, flag |-> a.flag,
                      copy |-> None,
                      hash |-> IF a.regex THEN a.flag
                               ELSE hash_flag(a.flag, salt, a.sensitive),
                      salt |-> salt]
<1>1. salt \in Salts
  BY FreshSalt
<1>2. row \in {None} \union {Old(a) : a \in Authored}
  BY DEF Init
<1> HIDE DEF salt
<1>3. ASSUME NEW a \in Authored PROVE Old(a) \in Row /\ Good(Old(a)) /\ Old(a).copy = None
  <2>1. a.flag \in Texts /\ a.regex \in BOOLEAN /\ a.sensitive \in BOOLEAN
    BY ConstantsAssumption
  <2>2. hash_flag(a.flag, salt, a.sensitive) \in Digest
    BY <1>1, <2>1, NormalizedIs DEF hash_flag, Digest
  <2> QED BY <1>1, <2>1, <2>2 DEF Row, Good
<1>4. row # None => row \in Row /\ Good(row) /\ row.copy = None
  <2> HIDE DEF Old
  <2> QED BY <1>2, <1>3
<1>5. row \in Row \union {None}
  BY <1>4
<1> HIDE DEF Old
<1>6. TypeOK
  <2>1. MaxStops \in Nat /\ 0 \in 0 .. Failed
    BY ConstantsAssumption, StepsAre
  <2>2. 0 \in 0 .. MaxStops
    BY <2>1
  <2> QED BY <1>5, <2>1, <2>2 DEF Init, TypeOK
<1>7. KeysLeft
  <2>1. Cardinality({}) = 0 /\ IsFiniteSet(Keys) /\ Cardinality(Keys) > 1
    BY ConstantsAssumption, FS_EmptySet
  <2>2. Cardinality(Keys) \in Nat
    BY <2>1, FS_CardinalityType
  <2>3. lost = {}
    BY DEF Init
  <2> QED BY <2>1, <2>2, <2>3 DEF KeysLeft
<1>8. HandlersHold /\ BundleBare
  BY DEF Init, HandlersHold, BundleBare
<1>9. RecordsFine
  <2>1. Records \subseteq {row} /\ \A r \in Records : r # None
    BY DEF Init, Records
  <2>2. \A r \in Records : r = row /\ row # None
    BY <2>1
  <2> QED BY <1>4, <2>2 DEF RecordsFine, Readable, Akin
<1> QED BY <1>6, <1>7, <1>8, <1>9 DEF IInv

LEMMA NextKeeps == IInv /\ [Next]_vars => IInv'
<1> SUFFICES ASSUME IInv, [Next]_vars PROVE IInv'
  OBVIOUS
<1>1. CASE UNCHANGED vars
  <2>1. UNCHANGED <<column, cipher, row, bundle, at, saw, pc, mem, lost, stops>>
    BY <1>1 DEF vars
  <2>2. Records' \subseteq Records
    BY <2>1 DEF Records
  <2>3. RecordsFine'
    BY <2>1, <2>2, SameRecords DEF IInv
  <2> QED BY <2>1, <2>3 DEF IInv, TypeOK, KeysLeft, HandlersHold, BundleBare
<1>2. ASSUME NEW p \in Programs, Start(p) \/ Migrate(p) \/ Exit(p) \/ Crash(p)
      PROVE  IInv'
  BY <1>2, ProgramKeeps
<1>3. ASSUME NEW h \in Handlers, Handle(h) PROVE IInv'
  BY <1>3, HandleKeeps
<1>4. CASE delete_challenge \/ export_challenge \/ import_bundle \/ LoseKey
  BY <1>4, DeleteKeeps, ExportKeeps, ImportBundleKeeps, LoseKeyKeeps
<1> QED BY <1>1, <1>2, <1>3, <1>4 DEF Next

LEMMA InvHolds == Spec => []IInv
BY InitInv, NextKeeps, PTL DEF Spec

\* TypeOK for any number of programs, handlers, flags, keys and salts.
THEOREM TypeCorrect == Spec => []TypeOK
<1>1. IInv => TypeOK
  BY DEF IInv
<1> QED BY <1>1, InvHolds, PTL

\* What was sealed can be opened unless its key was lost with its row, however
\* many programs migrate the database at once, and wherever they stop.
THEOREM CopiesStayReadable == Spec => []CopiesReadable
<1>1. IInv => CopiesReadable
  BY DEF IInv, CopiesReadable, RecordsFine, Records, Readable
<1> QED BY <1>1, InvHolds, PTL

\* The flag entered last, and the one an admin is shown, solve the challenge,
\* whatever edits, exports and imports have come in between, by any handlers.
THEOREM FlagsStay == Spec => []FlagsHold
<1>1. IInv => FlagsHold
  <2> SUFFICES ASSUME IInv, row # None
               PROVE  /\ verify_submission(row, row.flag)
                      /\ Revealed # None => verify_submission(row, Revealed)
    BY DEF FlagsHold
  <2>1. row \in Row /\ Good(row)
    BY DEF IInv, TypeOK, RecordsFine, Records
  <2>2. Revealed # None => \/ row.regex /\ Revealed = row.hash
                           \/ ~row.regex /\ row.copy # None /\ Revealed = row.copy.text
    BY DEF Revealed, decrypt
  <2> QED BY <2>1, <2>2, GoodVerifies
<1> QED BY <1>1, InvHolds, PTL

=============================================================================
