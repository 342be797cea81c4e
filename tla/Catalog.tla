------------------------------ MODULE Catalog ------------------------------
(***************************************************************************)
(* Import and export of the challenge catalogue: bundles are validated,    *)
(* then applied in one transaction, while admins rename and delete         *)
(* challenges, edit their attachments, and teams buy hints.  Attachments   *)
(* are links, or files on disk, which no transaction protects and which    *)
(* may be missing.                                                         *)
(*                                                                         *)
(* Challenges are named by their slugs, prerequisites too (the code keeps  *)
(* the id of the row, so a prerequisite follows its row when the slug      *)
(* changes).  All the columns a bundle carries besides the title, the      *)
(* prerequisite, the hints and the attachment are one text; a hint holds   *)
(* the teams that bought it.  A challenge has one attachment at most, and  *)
(* all attachments have one filename.                                      *)
(***************************************************************************)
EXTENDS Integers, Sequences, SequencesExt

CONSTANTS
  Workers,   \* server threads and the command-line import
  Slugs, Titles, Texts, Teams,
  Blank,     \* the slug and the titles that are nothing but white space
  Slugify,   \* the slug that the admins' page makes of a title
  Links,     \* absolute URLs
  Top,       \* the attachments directory itself, above those of the slugs
  Orders,    \* sort_order of hints
  Requests,  \* what is asked for
  MayFail,   \* may a transaction or a zip fail, or the process stop, midway?
  None       \* no row, no prerequisite, no file, no hash

Places == Slugs \union {Top}

Hint == [order : Orders, text : Texts, buyers : SUBSET Teams]

\* storage_path and sha256; history: the bytes that came to the server with the row.
File == [path : Places \union Links, sha : Texts \union {None}, given : Texts \union {None}]
Row  == [title : Titles, text : Texts, requires : Slugs \union {None},
         hints : Seq(Hint), file : File \union {None}]

\* ExportFile: with a URL or without, with its bytes or without, under any hash.
Attachment == [url : Links \union {None}, sha : Texts \union {None}, data : Texts \union {None}]

\* ExportChallenge; its hints have the text of the entry.
Entry == [slug : Slugs, title : Titles, text : Texts, requires : Slugs \union {None},
          hints : Seq(Orders), file : Attachment \union {None}]

Bundle == [feralctf_export_version : Nat, challenges : Seq(Entry)]

\* The attachments directory an import is given: none, the server's own, or, on the
\* command line, another one (which has files at its top, or else is as none).
Directories == {"none", "own", "other"}

\* A zip by the files it has.
Request == [bundle : Bundle, overwrite : BOOLEAN, dry_run : BOOLEAN,
            dir : Directories, zip : [Places -> Texts \union {None}]]

NoZip == [p \in Places |-> None]

ASSUME ConstantsAssumption ==
  /\ IsFiniteSet(Slugs)
  /\ Slugify \in [Titles -> Slugs]
  /\ Orders \subseteq Int
  /\ Links \intersect Places = {} /\ Top \notin Slugs
  /\ Requests \subseteq Request
  /\ \A request \in Requests : request.zip # NoZip => request.dir = "own"
  /\ None \notin Slugs \union Texts \union Links \union File \union Attachment \union Row
  /\ MayFail \in BOOLEAN

VARIABLES
  catalog,  \* challenges by slug, with their hints and file rows
  disk,     \* the attachment at each place, by its bytes
  torn,     \* history: directories whose files and rows were written apart
  pc, job   \* per worker: next step, what it imports

vars == <<catalog, disk, torn, pc, job>>

NoJob == [bundle |-> [feralctf_export_version |-> 1, challenges |-> << >>],
          overwrite |-> FALSE, dry_run |-> FALSE, dir |-> "none", zip |-> NoZip]

Present == {s \in Slugs : catalog[s] # None}

-----------------------------------------------------------------------------
(* Bundles                                                                 *)

\* The members of a set, one after the other as a strict order on them has it.
Listed(S, before) ==
  [k \in 1 .. Cardinality(S) |->
     CHOOSE i \in S : Cardinality({j \in S : <<j, i>> \in before}) = k - 1]

Ascending(S) == Listed(S, {p \in S \X S : p[1] < p[2]})

\* ORDER BY sort_order, id: the hints of a row are in the order of their ids.
Earlier(orders) ==
  {p \in (DOMAIN orders) \X (DOMAIN orders) :
     \/ orders[p[1]] < orders[p[2]]
     \/ orders[p[1]] = orders[p[2]] /\ p[1] < p[2]}

OrdersOf(hints) == [i \in DOMAIN hints |-> hints[i].order]

export_hints(hints) ==
  LET position == Listed(DOMAIN hints, Earlier(OrdersOf(hints)))
  IN  [k \in DOMAIN hints |-> [order |-> hints[position[k]].order,
                               text  |-> hints[position[k]].text]]

\* The hints of an entry, in the form export_hints gives those of a row.
HintsOf(entry) ==
  [i \in DOMAIN entry.hints |-> [order |-> entry.hints[i], text |-> entry.text]]

\* A path that is no absolute URL is not in the bundle; the bytes are, if that is
\* asked for, they are not too many and the file is there.
export_files(file, inline) ==
  IF file = None THEN None
  ELSE IF file.path \in Links THEN [url |-> file.path, sha |-> file.sha, data |-> None]
  ELSE [url |-> None, sha |-> file.sha, data |-> IF inline THEN disk[file.path] ELSE None]

\* files_match_ignoring_data
IgnoringData(file) == IF file = None THEN None ELSE [file EXCEPT !.data = None]

challenge_matches_existing(entry, row) ==
  /\ row.title = entry.title
  /\ row.text = entry.text
  /\ row.requires = entry.requires
  /\ export_hints(row.hints) = HintsOf(entry)
  /\ export_files(row.file, FALSE) = IgnoringData(entry.file)

\* A CTFd export has no prerequisites and no bytes; some have titles for slugs.
ctfd_value_to_bundle(items, slugify) ==
  [feralctf_export_version |-> 1,
   challenges |->
     [i \in DOMAIN items |->
        [slug |-> IF items[i].slug = None THEN slugify[items[i].title] ELSE items[i].slug,
         title |-> items[i].title, text |-> items[i].text,
         requires |-> None, hints |-> items[i].hints,
         file |-> [url |-> items[i].url, sha |-> None, data |-> None]]]]

SlugsOf(bundle) == {bundle[i].slug : i \in DOMAIN bundle}

DistinctSlugs(bundle) ==
  \A i, j \in DOMAIN bundle : bundle[i].slug = bundle[j].slug => i = j

\* The first half of validate_bundle.
Valid(bundle) ==
  LET b == bundle.challenges
  IN  /\ bundle.feralctf_export_version = 1
      /\ DistinctSlugs(b)
      /\ \A i \in DOMAIN b :
           /\ b[i].slug \notin Blank /\ b[i].title \notin Blank
           /\ b[i].requires \in SlugsOf(b) \union Present \union {None}

\* The second half: what the report says will be done with an entry.
Preview(entry, overwrite) ==
  CASE catalog[entry.slug] = None -> "create"
    [] catalog[entry.slug] # None /\ overwrite
         /\ ~challenge_matches_existing(entry, catalog[entry.slug]) -> "overwrite"
    [] OTHER -> "skip"

-----------------------------------------------------------------------------
(* apply_import                                                            *)

\* How many of the first i orders equal the i-th.
Nth(orders, i) == Cardinality({j \in 1 .. i : orders[j] = orders[i]})

\* sync_hints: each hint of the entry takes the first row left of its order.
SameHint(kept, i, orders, j) ==
  kept[i] = orders[j] /\ Nth(kept, i) = Nth(orders, j)

\* The rows that are taken, and the hints of the entry for which none is left.
Matched(kept, orders) ==
  {i \in DOMAIN kept : \E j \in DOMAIN orders : SameHint(kept, i, orders, j)}
Unmatched(kept, orders) ==
  {j \in DOMAIN orders : ~ \E i \in DOMAIN kept : SameHint(kept, i, orders, j)}

NewHint(order, text) == [order |-> order, text |-> text, buyers |-> {}]

\* Mutant of sync_hints: the hints are deleted and inserted again.
replace_hints(hints, entry) ==
  [i \in DOMAIN entry.hints |-> NewHint(entry.hints[i], entry.text)]

\* Matched rows keep id and buyers; the others go; what is new comes last.
sync_hints(hints, entry) ==
  LET old == Ascending(Matched(OrdersOf(hints), entry.hints))
      new == Ascending(Unmatched(OrdersOf(hints), entry.hints))
  IN  [k \in DOMAIN old |-> [hints[old[k]] EXCEPT !.text = entry.text]] \o
      [k \in DOMAIN new |-> NewHint(entry.hints[new[k]], entry.text)]

\* Mutant of Touched: existing challenges are always brought up to date.
TouchedAll(entry, overwrite) ==
  catalog[entry.slug] = None \/ ~challenge_matches_existing(entry, catalog[entry.slug])

\* The entries that apply_import does not `continue` past.
Touched(entry, overwrite) ==
  \/ catalog[entry.slug] = None
  \/ overwrite /\ ~challenge_matches_existing(entry, catalog[entry.slug])

\* existing_and_imported_ids knows the slugs of the bundle only.
Prerequisite(entry, bundle) ==
  IF entry.requires \in SlugsOf(bundle) THEN entry.requires ELSE None

\* Without bytes in the bundle, a file that is not where it should be is looked
\* for at the top of the directory the import was given.
StoragePath(entry, dir) ==
  IF /\ entry.file.data = None
     /\ \/ dir = "own" /\ disk[entry.slug] = None /\ disk[Top] # None
        \/ dir = "other"
  THEN Top ELSE entry.slug

\* Mutant of import_files: the URL is stored, be there one or not.
import_urls(entry, dir) ==
  IF entry.file = None THEN None
  ELSE [path |-> entry.file.url, sha |-> entry.file.sha, given |-> None]

\* The row of an attachment; where there are no bytes for it, a warning is all.
\* What is written to another directory does not come to the server's.
import_files(entry, dir) ==
  IF entry.file = None THEN None
  ELSE IF entry.file.url \in Links
  THEN [path |-> entry.file.url, sha |-> entry.file.sha, given |-> None]
  ELSE [path |-> StoragePath(entry, dir), sha |-> entry.file.sha,
        given |-> IF dir = "own" THEN entry.file.data ELSE None]

\* insert_challenge or update_challenge, hints, files, unlock requirement.
Written(entry, bundle, dir) ==
  [title    |-> entry.title,
   text     |-> entry.text,
   requires |-> Prerequisite(entry, bundle),
   hints    |-> IF catalog[entry.slug] = None
                THEN [i \in DOMAIN entry.hints |-> NewHint(entry.hints[i], entry.text)]
                ELSE sync_hints(catalog[entry.slug].hints, entry),
   file     |-> import_files(entry, dir)]

TouchedBy(b, overwrite) == {i \in DOMAIN b : Touched(b[i], overwrite)}

Applied(b, overwrite, dir) ==
  [s \in Slugs |->
     IF \E i \in TouchedBy(b, overwrite) : b[i].slug = s
     THEN Written(b[CHOOSE i \in TouchedBy(b, overwrite) : b[i].slug = s], b, dir)
     ELSE catalog[s]]

\* The bytes of an entry are written: whatever its hash says.
IsInline(entry) ==
  entry.file # None /\ entry.file.url \notin Links /\ entry.file.data # None

\* The slugs whose directories the entries I of a bundle write to.
Inline(b, I) == {b[i].slug : i \in {k \in I : IsInline(b[k])}}

Bytes(b, I, s) == b[CHOOSE i \in I : IsInline(b[i]) /\ b[i].slug = s].file.data

\* Mutant of WithFiles: a file that is there is not written again.
WithNewFiles(b, I) ==
  [p \in Places |-> IF disk[p] = None /\ p \in Inline(b, I) THEN Bytes(b, I, p) ELSE disk[p]]

\* The files at places P of a zip, unpacked.
Unpacked(zip, P) ==
  [p \in Places |-> IF p \in P /\ zip[p] # None THEN zip[p] ELSE disk[p]]

\* The attachments of the entries I of a bundle on disk.
WithFiles(b, I) ==
  [p \in Places |-> IF p \in Inline(b, I) THEN Bytes(b, I, p) ELSE disk[p]]

\* Directories among these that a renamed challenge still keeps its file in.
Lent(b, I) ==
  {s \in Inline(b, I) :
     \E u \in Present \ {s} : catalog[u].file # None /\ catalog[u].file.path = s}

\* Mutant of Exported: prerequisites are left out.
ExportedAlone(s, inline) ==
  LET hints == export_hints(catalog[s].hints)
  IN  [slug |-> s, title |-> catalog[s].title, text |-> catalog[s].text, requires |-> None,
       hints |-> [k \in DOMAIN hints |-> hints[k].order],
       file |-> export_files(catalog[s].file, inline)]

Exported(s, inline) ==
  LET hints == export_hints(catalog[s].hints)
  IN  [slug |-> s, title |-> catalog[s].title, text |-> catalog[s].text,
       requires |-> catalog[s].requires,
       hints |-> [k \in DOMAIN hints |-> hints[k].order],
       file |-> export_files(catalog[s].file, inline)]

export(inline) ==
  LET slugs == SetToSeq(Present)
  IN  [feralctf_export_version |-> 1,
       challenges |-> [i \in DOMAIN slugs |-> Exported(slugs[i], inline)]]

-----------------------------------------------------------------------------
(* Actions                                                                 *)

Init ==
  /\ catalog = [s \in Slugs |-> None]
  /\ disk = [p \in Places |-> None]
  /\ torn = {}
  /\ pc  = [w \in Workers |-> "idle"]
  /\ job = [w \in Workers |-> NoJob]

Goto(w, step) == pc' = [pc EXCEPT ![w] = step]

Leave(w) == Goto(w, "idle") /\ job' = [job EXCEPT ![w] = NoJob]

\* import_bundle or run_import; only a dry run leaves the zip alone.
import_bundle(w) ==
  /\ pc[w] = "idle"
  /\ \E request \in Requests :
       /\ job' = [job EXCEPT ![w] = request]
       /\ Goto(w, IF request.zip = NoZip \/ request.dry_run THEN "validate" ELSE "extract")
  /\ UNCHANGED <<catalog, disk, torn>>

\* The files of the zip at places P are written.
Unpack(w, P) ==
  /\ pc[w] = "extract"
  /\ disk' = Unpacked(job[w].zip, P)
  /\ torn' = torn \union {s \in P \intersect Slugs : job[w].zip[s] # None}
  /\ UNCHANGED catalog

extract_attachments_zip(w) ==
  /\ Unpack(w, Places)
  /\ Goto(w, "validate")
  /\ UNCHANGED job

\* The zip turns out to be damaged, or the process stops.
ExtractFails(w) ==
  /\ MayFail
  /\ \E P \in SUBSET Places : Unpack(w, P)
  /\ Leave(w)

validate_bundle(w) ==
  /\ pc[w] = "validate"
  /\ IF Valid(job[w].bundle) /\ ~job[w].dry_run
     THEN Goto(w, "apply") /\ UNCHANGED job
     ELSE Leave(w)
  /\ UNCHANGED <<catalog, disk, torn>>

\* The entries I whose bytes import_files writes where the server has its own.
Supplied(w, I) == IF job[w].dir = "own" THEN I ELSE {}

\* BEGIN IMMEDIATE, apply_import, COMMIT.
apply_import(w) ==
  LET b == job[w].bundle.challenges
      I == Supplied(w, TouchedBy(b, job[w].overwrite))
  IN  /\ pc[w] = "apply"
      /\ catalog' = Applied(b, job[w].overwrite, job[w].dir)
      /\ disk' = WithFiles(b, I)
      /\ torn' = (torn \ Inline(b, I)) \union Lent(b, I)
      /\ Leave(w)

\* ROLLBACK, or the process stops: the files written so far stay.
RollBack(w) ==
  LET b == job[w].bundle.challenges
  IN  /\ MayFail /\ pc[w] = "apply"
      /\ \E I \in SUBSET Supplied(w, TouchedBy(b, job[w].overwrite)) :
           /\ disk' = WithFiles(b, I)
           /\ torn' = torn \union Inline(b, I)
      /\ Leave(w)
      /\ UNCHANGED catalog

Renamed(requires, s, t) == IF requires = s THEN t ELSE requires

\* update_challenge: a new title, which may be blank, gives a new slug, which may
\* be empty; UNIQUE refuses one that another row has.
Rename(s, title) ==
  LET t == Slugify[title]
      Old(u) == IF u = t THEN [catalog[s] EXCEPT !.title = title]
                ELSE IF u = s THEN None ELSE catalog[u]
  IN  /\ s \in Present /\ t \notin Present \ {s}
      /\ catalog' = [u \in Slugs |-> IF Old(u) = None THEN None
                                     ELSE [Old(u) EXCEPT !.requires = Renamed(@, s, t)]]
      /\ UNCHANGED <<disk, torn, pc, job>>

WithoutRequirement(row, s) ==
  IF row = None \/ row.requires # s THEN row ELSE [row EXCEPT !.requires = None]

\* delete_challenge; nothing deletes attachments from disk.
Delete(s) ==
  /\ s \in Present
  /\ catalog' = [u \in Slugs |->
                   IF u = s THEN None ELSE WithoutRequirement(catalog[u], s)]
  /\ UNCHANGED <<disk, torn, pc, job>>

\* unlock_hint
Buy(s, team) ==
  /\ s \in Present
  /\ \E i \in DOMAIN catalog[s].hints :
       catalog' = [catalog EXCEPT ![s].hints[i].buyers = @ \union {team}]
  /\ UNCHANGED <<disk, torn, pc, job>>

Attach(s, file) ==
  /\ catalog' = [catalog EXCEPT ![s].file = file]
  /\ UNCHANGED <<disk, torn, pc, job>>

create_file(s, link) ==
  /\ s \in Present /\ catalog[s].file = None
  /\ Attach(s, [path |-> link, sha |-> None, given |-> None])

\* "Legacy relative paths must be replaced by an absolute URL on any save"; the
\* hash of the bytes is kept.
Relinked(file, link) == [file EXCEPT !.path = link, !.given = None]

update_file(s, link) ==
  /\ s \in Present /\ catalog[s].file # None
  /\ Attach(s, Relinked(catalog[s].file, link))

\* The bytes stay on disk.
delete_file(s) ==
  /\ s \in Present /\ catalog[s].file # None
  /\ Attach(s, None)

Import(w) ==
  \/ import_bundle(w) \/ extract_attachments_zip(w) \/ ExtractFails(w)
  \/ validate_bundle(w) \/ apply_import(w) \/ RollBack(w)

Next ==
  \/ \E w \in Workers : Import(w)
  \/ \E s \in Slugs, title \in Titles : Rename(s, title)
  \/ \E s \in Slugs : Delete(s) \/ delete_file(s)
  \/ \E s \in Slugs, link \in Links : create_file(s, link) \/ update_file(s, link)
  \/ \E s \in Slugs, team \in Teams : Buy(s, team)

Spec == Init /\ [][Next]_vars

-----------------------------------------------------------------------------
(* Properties                                                              *)

TypeOK ==
  /\ catalog \in [Slugs -> Row \union {None}]
  /\ disk \in [Places -> Texts \union {None}]
  /\ torn \subseteq Slugs
  /\ pc \in [Workers -> {"idle", "extract", "validate", "apply"}]
  /\ job \in [Workers -> Requests \union {NoJob}]

\* The bytes that came to the server with a challenge are still those an export
\* sends along, whatever is renamed, deleted, linked or skipped since: only a zip,
\* an import that failed, or one for a challenge that shares the directory since
\* one of them was renamed, can have put others there.
BytesKept ==
  \A s \in Present :
     LET file == catalog[s].file
     IN  file # None /\ file.given # None =>
           /\ file.path \in Slugs
           /\ file.path \in torn \/ export_files(file, TRUE).data = file.given

\* "Keeping hint ids (and therefore team unlocks) stable": when a challenge is
\* overwritten, the n-th hint of an order keeps its buyers if the bundle has an
\* n-th hint of that order, even where orders repeat, and no one else gets it.
OverwritesKeepBuyers ==
  [][\A w \in Workers : pc'[w] = "idle" /\ apply_import(w) =>
       \A s \in Present \intersect SlugsOf(job[w].bundle.challenges) :
         LET old == catalog[s].hints
             new == catalog'[s].hints
         IN  \A j \in DOMAIN new :
               new[j].buyers =
                 UNION {old[i].buyers :
                          i \in {k \in DOMAIN old : SameHint(OrdersOf(old), k, OrdersOf(new), j)}}
    ]_vars

\* What an entry comes to: its prerequisite if that is in the bundle, its hints
\* in the order in which those of a row are read.
AsImported(entry, bundle) ==
  LET position == Listed(DOMAIN entry.hints, Earlier(entry.hints))
  IN  [entry EXCEPT !.requires = Prerequisite(entry, bundle),
                    !.hints = [k \in DOMAIN @ |-> @[position[k]]]]

\* Two loops, one for the report and one for the deed, decide alike: a challenge
\* the report would skip is left as it is, one it would create or overwrite is
\* as bundled.
ReportMatchesDeed ==
  [][\A w \in Workers : pc'[w] = "idle" /\ apply_import(w) =>
       LET b == job[w].bundle.challenges
       IN  \A i \in DOMAIN b :
             IF Preview(b[i], job[w].overwrite) = "skip"
             THEN catalog'[b[i].slug] = catalog[b[i].slug]
             ELSE challenge_matches_existing(AsImported(b[i], b), catalog'[b[i].slug])]_vars

\* An export, with the bytes or without, is a valid bundle unless an admin left a
\* challenge without a slug or a title; and importing it would leave every
\* challenge as it is: what is exported is all that is compared, in its order.
ExportRestores ==
  \A inline \in BOOLEAN :
     LET bundle == export(inline)
     IN  /\ Valid(bundle) <=>
              \A s \in Present : s \notin Blank /\ catalog[s].title \notin Blank
         /\ \A i \in DOMAIN bundle.challenges : ~Touched(bundle.challenges[i], TRUE)

=============================================================================
