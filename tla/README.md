# FeralCTF in TLA+

FeralCTF is a Capture-The-Flag platform: one Rust process (Tokio, Axum) that
serves a JSON API, a WebSocket feed and a browser front end, and keeps
everything in one SQLite file. Players submit flags and buy hints; admins edit
challenges, users, teams and the competition's clock, and import bundles of
challenges; a scoreboard is cached and pushed to every browser.

This directory models the parts of it where several requests meet in the same
rows or the same cache. Paths below are relative to the repository; SPEC is
`src/FERALCTF_SPEC.md`.

- [How the program runs](#how-the-program-runs)
- [Inventory](#inventory)
- [Modules](#modules)
- [ScoreFlow](#scoreflow)
- [Ledger](#ledger)
- [Board](#board)
- [Contest](#contest)
- [Accounts](#accounts)
- [Limiter](#limiter)
- [Catalog](#catalog)
- [Flags](#flags)
- [Pool](#pool)
- [Hub](#hub)
- [Runs](#runs)
- [Proofs](#proofs)
- [What the checks found](#what-the-checks-found)
- [Not modelled](#not-modelled)
- [Plan](#plan)

## How the program runs

What is hard about this code follows from four facts.

1. **Handlers run in parallel.** Tokio's threads each run a handler. There is no
   `.await` between the SQL statements of a handler (`import_bundle` awaits only
   while it reads its upload), so one is never suspended or cancelled midway,
   but nothing keeps two of them apart.
2. **A statement is the unit of atomicity.** SQLite runs in WAL mode behind an
   r2d2 pool of ten connections; every statement is its own transaction. Only
   `delete_challenge` and `import_export::import` open one of their own. So what
   a handler reads may be stale by its next statement.
3. **A handler can stop between two statements.** Every statement ends in `?`
   (busy timeout, full disk, a row that is gone), and the process may be
   restarted. What was written stays; what was to follow, a recalculation of
   scores or an invalidation of a cache, does not happen. Nothing is repaired at
   start-up.
4. **Derived data is stored.** `teams.score`, `challenges.points` and the cached
   scoreboard are computed from other rows and written in later steps. They are
   right only if every change is followed by a recomputation that sees it.

The models therefore take one SQL statement, with the Rust code up to the next
one, as one action of one worker, and let the workers interleave freely. What a
handler has read stays in its memory until it answers.

## Inventory

| Component | State | Operations | Interacts with | What is hard | What makes it correct | Where |
|---|---|---|---|---|---|---|
| Scoring (`src/src/scoring.rs`) | `challenges.points`, `teams.score` | `dynamic_points`, `recalculate_challenge_points`, `recalculate_all_team_scores` | called by submissions, hints, admin edits, deletions | the count and the price are two statements; the scores a third | scores are what the tables add up to; a dynamic price is the formula's | Scoring, ScoreFlow, Ledger |
| Flag submission, hint unlock (`handlers/challenges.rs`, `models/challenge.rs`) | `solves`, `hint_unlocks`, `submissions`, `score_history` | `submit_flag`, `unlock_hint`, lists | scoring, rate limiter, competition clock, cache, hub | check-then-insert on stale reads | one charge per hint, solvent teams, one first blood, no missed one | ScoreFlow, Contest |
| Challenge and hint administration (`handlers/admin.rs`) | `challenges`, `hints`, `files` | create, update, delete, disqualify, attachments | scoring, cache, audit | whole-row writes of what was read; deletions that race submissions | a deletion leaves nothing behind; an edit reaches the scores | ScoreFlow, Board, Catalog, Flags |
| Scoreboard, caches, broadcasts (`cache.rs`, `models/scoreboard.rs`, `handlers/scoreboard.rs`) | two `RwLock<Option<..>>`, `score_history` | `get_or_build_*`, `invalidate_*`, `broadcast_score_update` | every handler that changes a score; the hub | a fill is overtaken by an invalidation; an error before the invalidation | no cached copy outlives the change it lacks | Board; ranking in Contest |
| Competition clock and freeze (`competition.rs`) | one row, the configuration, the clock | `start`, `end`, `freeze`, `status`, `resolve` | submissions, public scoreboard | a request that straddles the end or the freeze; configured and manual freezes | nobody scores outside, nothing shows after the freeze | Contest; the freeze check in Board |
| Accounts, teams, sessions (`auth.rs`, `handlers/auth.rs`, `models/{user,team}.rs`, admin user routes) | `users` (with `team_id`), `teams`, `sessions` | register, login, change password, roles, ban, join, assign | connection pool | counts and look-ups before inserts; revocation against a login under way | an admin remains, teams keep their size, revoked sessions stay revoked | Accounts |
| Rate limiter, flag sharing (`anticheat.rs`) | attempts per team and challenge, in memory | check, record, collect | submissions | check and record are apart; the collector forgets | a bounded rate, back-offs served, nobody locked out for good | Limiter |
| Import and export (`import_export.rs`) | `challenges`, `hints`, `files`, the attachments directory | validate, apply, sync hints, export, zip | challenges, hints, `feralctf import` | validation outside the transaction, files outside any, hints matched by an order that may repeat | the report says what is done; purchases, prerequisites and bytes survive | Catalog, Flags |
| Flag storage (`auth.rs`, `flag_cipher.rs`, migration 005) | hash, salt, encrypted copy; one key row | hash, verify, encrypt, decrypt, `ensure_key` | challenge editing, import, start-up | three columns that must change together; programs that migrate at once | the flag entered last solves; a copy stays readable | Flags |
| Connection pool (`db/connection.rs`, `db/mod.rs`) | ten connections | get, drop | every handler | handlers that take a second connection while holding one | no set of requests waits on itself | Pool |
| WebSocket hub (`handlers/ws.rs`) | a broadcast channel of 256, two tasks per connection | subscribe, broadcast, forward, ping | scoreboard, the page | slow receivers skip; tasks must notice that nobody listens | the last event is shown; tasks end | Hub |
| Browser front end (`src/frontend/app.js`) | what it last got | connect, reconnect, load, render | API, hub | an answer and an event cross | as for the hub | Hub (connection and scoreboard) |
| Schema and migrations (`migrations/`, `db/`) | the tables | applied in order when a program opens the database | every program | two programs migrate one database | every start succeeds in the end | Flags (005); rows are state of the other modules |
| Branding (`competition.rs`, `cache.rs`) | one row and its cache | get, update | - | the same fill as the scoreboard's | as for the caches | Board has the shape |
| Routing, errors, configuration (`routes.rs`, `errors.rs`, `config.rs`, `lib.rs`) | none that changes | a table, status codes, one file read once | - | none | - | not modelled |
| File storage, TLS, audit log, backup | files; append-only rows | input and output | admin handlers | a failed audit insert cuts a handler short (Board has that) | - | not modelled |

`PROJECT.json` lists the hazards at their lines and the properties that would
catch them; those without a property say why.

## Modules

| Module | What it is |
|---|---|
| `Scoring` | the arithmetic of `scoring.rs`: the price formula, a team's total, the one UPDATE of all scores |
| `ScoreFlow` | the handlers that change scores, statement by statement (EXTENDS `Scoring`) |
| `Ledger`, `ScoreLedger` | what scoring promises, and that `ScoreFlow` implements it |
| `Board` | the two caches, the handlers that fill and invalidate them, the freeze check, the `ScoreUpdate` |
| `Contest` | the clock, start, end and freeze, submissions across them, the frozen board, ranking (EXTENDS `Scoring`) |
| `Accounts` | users, roles, sessions, teams and membership |
| `Limiter` | the rate limiter and its collector |
| `Catalog` | import and export, attachments, prerequisites, hint purchases |
| `Flags` | how a flag is stored, and the key it is encrypted under; migrations |
| `Pool` | the connection pool (its specification is `PoolSpec`) |
| `Hub` | the WebSocket hub with one page (`HubSpec`) |
| `MC*` | values and symmetry for the runs of the module they are named after |
| `ScoreFlow_proofs`, `Contest_proofs`, `Limiter_proofs`, `Catalog_proofs`, `Flags_proofs` | theorems about the module they are named after, checked by TLAPS |
| `Board_proofs`, `Accounts_proofs` | the same about `Board` and `Hub`, and about `Accounts` and `Pool`: how a board is built and how it reaches a page, what handlers do and the connections they do it with |
| `Scoring_proofs` | lemmas about sums over finite sets, used for `ScoreFlow` and `Contest` |

The modules share rows of one database but not properties: each follows the
columns its properties read, and takes what other handlers do to them as actions
of its own. Where a module leaves a step of a handler to another one, its
section says so.

Operators named *Mutant of X* in a comment are plausible bugs of the code `X`
models (a dropped guard, an off-by-one). Nothing uses them: `PROJECT.json` says
which property fails when one takes the place of `X`. For the type invariants
they are bugs of a step that leave a handler or a row in a state it cannot be in.

## ScoreFlow

**State.** The columns that scores depend on, one variable each: `challenges`
(the ids of the rows), `requires` (`unlock_requires`), `params` (flag type and
the three pricing columns, which an admin edits as one record), `points`,
`hints`, `cost`, `solves` (a set of pairs: the table's UNIQUE constraint),
`unlocks` with the deduction taken, `disqualified`, and `score`. `bloods` records
the `NewSolve` events sent with `first_blood`. For each worker `pc` is the next
statement, `req` the request, `mem` what the handler has read. `lapsed` is a
history variable: a handler was stopped while it still owed a recalculation.

**Actions.** `Accept` gives an idle worker any request of the kinds
`Operations` names, for any id, existing or not. Then:

| Handler | Actions in order |
|---|---|
| `submit_flag` | `FindChallenge`, `CheckLocked`, `CheckSolved` (a wrong flag answers here), `CheckFirstBlood`, `InsertSolve`, repricing, `AnnounceSolve` |
| `unlock_hint` | `FindChallenge`, `CheckLocked`, `FindHint`, `CheckUnlocked`, `CheckHintSolved`, `CheckAffordable`, `InsertUnlock`, `Recalculate` |
| `update_challenge` | `FindExisting`, `WriteChallenge` (the whole row, from what was read), repricing |
| `delete_challenge` | `DeleteChallenge` (its transaction), `Recalculate` |
| `update_hint` | `FindOldHint`, `WriteHint` |
| `delete_hint` | `FindDeletedHint`, `DropUnlocks`, `DropHint`, `Recalculate` if anyone was refunded |
| `update_team_disqualified` | `WriteDisqualified`, `Recalculate` |

Repricing is `recalculate_challenge_points`: `ReadParams`, and for a dynamic
challenge `CountSolves` and `WritePoints`, then `Recalculate`, the single UPDATE
of every team's score. An import over rows that are there is not one of these
handlers: it writes prices, too, in the transaction that `Catalog` has. `Abort`
stops a handler before any of its statements.

**Abstractions.** Flags, titles and text are left out: a submission is right or
wrong by choice. `is_hidden` is left out (its check is one more early return at
`find`, and it does not enter a score). A hint stays with its challenge. Rows
are not created: ids start present, with any points (`InitPoints`), and may be
deleted, so a request for a missing id is one for a deleted one. Integers are
unbounded where the code has i64: prices and costs come nowhere near it. What no
statement here reads is left to other modules: rate limiter, competition clock,
caches, submissions, `score_history`, audit rows.

**Fairness.** `FairSpec` adds weak fairness of each worker's `Step`: once a
worker has accepted a request, its handler is straight-line code that runs to
its response. Nothing forces a request to arrive (`Accept`) or a statement to
fail (`Abort`).

**Properties.**

- `ScoresSettled`: stored scores differ from what the tables add up to only
  while some handler still has its `Recalculate` ahead of it, or after one was
  stopped short of it. With a failure this is the best the code can do, and the
  next recalculation of any handler repairs it.
- `NeverUnderpriced`: while nobody edits parameters, overlapping solvers leave a
  dynamic challenge overpriced at worst, never too cheap. It needs
  `NewParams = {}`: an edit between a solver's `ReadParams` and `WritePoints`
  does make the solver write a price from the old parameters. It speaks of
  challenges whose `decay_rate` is not negative, which no handler checks: a
  negative one makes prices rise with the solves. And it excuses a challenge that
  nothing has priced yet: `create_challenge` and the import insert the points they
  are given, so a new dynamic challenge costs that, however little, until its
  first solve is priced.
- `DynamicPriceCurrent`: when no handler is at work, the price is the formula's,
  or the challenge is as it was created: not solved, not edited, at its creator's
  points.
- `ChargedOnce`: one charge per team and hint, however requests overlap.
- `HintsKeepTeamsSolvent`: an unlock that costs something leaves the team's
  total at zero or above.
- `FirstBloodAnnounced`: no solved challenge is without a first blood;
  `OneFirstBlood`: no challenge has two.
- `DeletionsComplete`: after a deletion no charge, solve or prerequisite
  remains that refers to what is gone.

## Ledger

`Ledger` is what scoring promises, without handlers: a total per team that may
change at any step, a score, and whether somebody owes a recomputation. The
score is only ever set to the whole total, never adjusted; while the two differ
a recomputation is owed; and a difference does not stay. `ScoreLedger`
instantiates it with `total <- CurrentTotals`, what the tables of `ScoreFlow`
add up to, `owed <-` a handler that `Owes` or has been stopped.
`ImplementsLedger` is the abstract specification as a property of the run
`live`; `KeepsLedger` its safety part, which holds with failures too.

The refinement says more than `ScoresSettled`: it also excludes a score that
changes to anything but the totals of that moment, in any step of any handler.
Its liveness part needs `FairSpec` and no failures: nothing recomputes at
start-up.

## Board

**State.** `cache` holds, for the scoreboard (`board`) and the list of visible
challenges (`list`), a copy or `NoCopy`. What a copy shows is abstracted to what
it lacks: for each part of the database (`scores`, `total`, `rows`), the workers
whose change it predates. It is up to date when these sets are empty; a
statement that changes a part (`Statements` says which parts: an import changes
all three, since `apply_import` ends with a recalculation) adds its worker to the
cached copy and to the copy of every other worker that has read that part.
`frozen` is an admin's freeze.
`raced` and `lapsed` are history variables: the cached copy was stored after an
invalidation it predates; a worker was stopped before the invalidation it owed.

**Actions.** The handlers that differ in order only are kept in one table,
`After`, which lists the steps of each (`Start` says where it begins), and the
actions are the kinds of step: `Change` (a statement that may alter a board or
the list), `SetFrozen`, `Record` (a statement on other rows, in particular the
audit insert that comes before the invalidation in some handlers and after it in
others), `ForgetCache`, and the two composite operations.
`broadcast_score_update` is `BeginBroadcast`, `CheckFreeze`, `Look` and, on a
miss, `ReadTotal`, `ReadScores`, `Store`, then `Deliver`; a public
`get_scoreboard` is the same from `CheckFreeze`, an admin's from `Look`.
`get_or_build_challenges` is `LookList`, `ReadRows`, `StoreList`. A lock is held
by `Look` and by `Store`, by nothing in between. When a statement fails,
`SkipBroadcast` goes on behind the broadcast, as `if let Ok(..)` does, and
`Abort` ends any other handler.

`Init` allows either value of `frozen`: a restart empties the caches and keeps
the competition's row, so it is an initial state.

**Abstractions.** Which numbers a board shows is ScoreFlow's matter. The
configured freeze and the contents of the frozen board are left to Contest. The
prices a solve gives a dynamic challenge are not part of `rows`: SPEC's table
invalidates the list on admin changes only, so a listed price may lag by design.
`register` creates a team without touching the cache; its board entry is not
followed.

**Properties.**

- `CachesFresh`: every change missing from a cached copy was made by a handler
  that is still to invalidate the cache, or was stopped before it could, unless
  the copy is of a fill that was overtaken. It is where an audit insert placed
  before the invalidation, an invalidation forgotten in one handler or a missing
  second one would show. The excuse `raced` is what the code does
  (`cache.rs:59`): the fill stores whatever it read.
- `OwnChangeSent`: the `ScoreUpdate` a handler sends shows its own change, with
  the same exception.
- `FreezeRespected`: no request that comes in during a freeze is shown a live
  board. The freeze is looked up before the cache, so a request that looked just
  before the freeze may still answer with a live board.

## Contest

**State.** `now`, the server's clock in seconds; `stored`, the row of
`competition_state`; the rows of solves and unlocks with their stamps, and
prices. `early` and `ran` are history: did the request come before the
configured start, and has the competition been running since it came?

**Actions.** A player's request is `Load` (the row), `ReadClock`
(`ensure_running`), `Stamp` (the checks, then `solved_at`), `InsertSolve` or
`InsertUnlock`, `Reprice`; an admin's trial of a flag (`test`) begins at `Stamp`,
as `ensure_competition_running` lets admins pass. `start`, `end` and `freeze`
take the time and then write the row (`WriteRow`). `Tick` may come between any
two. `resolve` is the operators `Started`, `Ended`, `FrozenAt`; `BoardAsOf`,
`Ranked` and `FrozenProfile` are the frozen views.

**Abstractions.** `recalculate_challenge_points` is one step here (ScoreFlow
takes it apart). Times are whole numbers up to `MaxTime`: what counts is their
order against the configured start, freeze and end.

**Properties.**

- `NothingScoresOutside`: who is about to insert has seen the competition run
  since the request came. The row is read before the clock, so one case remains:
  the configured start fell between them.
- `FreezeNeverMovesLater`: only a start lifts a freeze or moves it to later,
  whatever mixture of configured and manual freezes is in effect.
- `FrozenViewsSettle`: with fixed prices, once the second of the freeze is over
  and what was stamped in it is in, no solve or unlock changes the frozen board
  or profile.
- `RanksAreStandings`: a rank is one more than the number of teams before it,
  however SQLite orders rows that compare equal.

## Accounts

**State.** `role`, `team`, `version` (which password the hash is of) per
username, the names of `teams`, and the valid `sessions` with the claims they
were issued for.

**Actions.** The handlers differ in the order of a few kinds of statement. The
table `Script` lists the statements of each, `Needed` the conditions under which
one is run, and an action is a kind of statement: `LookUp` (which may answer with
an error), `Create`, `WriteRole`, `MakeTeam`, `AddMember`, `WritePassword`,
`Revoke`, `OpenSession`; `CloseSession` is logout or expiry, `Abort` a statement
that fails or a restart. `Accept` requires a session of the kind the route asks
for. UNIQUE on usernames and team names is part of `Create` and `MakeTeam`.

**Properties.**

- `LastAdminStays`: no step removes the last admin, unless it was decided on a
  role or a count of admins that has changed since (two admins who demote each
  other, `handlers/admin.rs:1044`).
- `SeatsWereFree`: a team of more than `max_team_size` gets another member only
  through an UPDATE whose count is out of date (`models/team.rs:71`). A team that
  two such UPDATEs have overfilled may lose a member and be overfull still, so
  the property speaks of members gained.
- `SessionsCurrent`: no session outlives the password or the admin role it was
  issued for, unless its worker has still to revoke it, the revocation was lost,
  or it was issued for a row that had changed (`handlers/auth.rs:176`).

## Limiter

**State.** `team_windows` and `wrong_attempts`, with instants kept as ages;
`attempts` and `misses` are the same kept exactly, which the code does not do.
`pc` is a worker's submission, with the ticks (`lag`) since the call it is in read
the clock.

**Actions.** Each of the two calls reads the clock and then locks one map after
the other, and so is two actions: `check_submission` is `check_window` and
`check_back_off`, `record_attempt` is `record_window` and `record_answer`. Anything
may come between them, so the second half works with an instant that may be a
tick old: a miss is recorded with the age `lag`, and of a miss recorded since the
clock was read `duration_since` makes 0 (`BacksOff`). Beside them there are
`Refuse` (the handler ends before it records), `gc`, `Tick` and `Restart` (the
maps are in memory).

**Abstractions.** A call takes less than two ticks. Ages beyond `Ttl` and counts
beyond `MaxCount` are not told apart. `expire_window` takes as many instants from
the front as the loop pops (`Expired`): what is behind a younger one stays.
`Recent` is the history's rule instead, by age alone; that both come to the same
is part of what is proved. The back-off is not cut at 2^64 seconds as in the
code: long before, a wait ends with `Ttl`.

**Fairness.** Time passes, the collector's interval task runs, and a call that
has begun ends: weak fairness of `Tick`, of `gc` and of each worker's `EndCall`,
which waits for a lock at most. Nothing makes a handler record, or a team submit.

**Properties.** `RateBounded`: within a window a team has no more attempts than
the limit but for those admitted together, at most one per other worker.
`WaitsServed`: whoever is admitted has waited out the back-off of the attempts
there really were, whatever was collected in between; only a wait of more than
an hour is cut short. `LockOutsEnd`: a team that stops trying is admitted again,
though the back-off doubles without a bound.

## Catalog

**State.** `catalog`, the challenges by slug with title, prerequisite, hints (with
the teams that bought them) and one attachment: its `path` (a slug's directory,
the top of the attachments directory, or a link), its `sha`, and as history the
bytes it was written with (`given`). `disk`, the bytes at each place. `torn`,
history: directories written apart from their rows.

**Requests.** A request names a bundle, `overwrite`, `dry_run`, a zip by the files
it has, and the attachments directory: the server's own for an upload; for
`feralctf import` the one it is given, which may be another one, or none. Another
one has the files at its top here, or else counts as none. An entry's attachment
comes with a URL or without, with bytes or without: an export has neither for a
file on disk unless the data is asked for (`import_export.rs:285`).

**Actions.** An import is `import_bundle` (the upload or the command), with a zip
`extract_attachments_zip` or, half done, `ExtractFails`, then `validate_bundle`
outside any transaction and `apply_import` inside one, or `RollBack`, which undoes
rows and no files. Beside it `Rename`, `Delete`, `create_file`, `update_file`,
`delete_file` by an admin and `Buy` by a team. `Applied` is the two passes:
create, skip or overwrite each entry with `sync_hints`, then set prerequisites.
`import_files` inserts the row of an attachment in any case: with a link as it is;
with bytes, these are written to the slug's directory; without, a file that is
not there is looked for at the top (`StoragePath`), and where there is none a
warning is all. What is in another directory, or written to it, does not come to
the server's: a file found at its top gives the row a path where the server has
nothing. No bytes are ever compared with `sha`. `Exported` and
`ctfd_value_to_bundle` are the conversions as far as they choose what is carried
over.

`Rename` gives a challenge any title, a blank one too, and the slug the page makes
of it (`Slugify`), which may be empty: `update_challenge` checks neither, while
`Valid` has what `validate_bundle` refuses: another version, a blank slug or
title, a repeated slug, a prerequisite that is nowhere.

Rows come back from the database in the order their query asks for: `Listed` puts
the members of a set in an order, `Ascending` by id, `Earlier` by `sort_order` and
then id, as `export_hints` reads them. `sync_hints` is the rows that hints of the
entry take (`Matched`), which keep their ids, and behind them the hints that are
left (`Unmatched`).

**Abstractions.** The columns without influence on the rest are one `text`. One
attachment per challenge, and one filename for all; `require_challenge` and the
INSERT of `create_file` are one step. A URL that is not absolute counts as none,
as it does in the code. Files have at most 5 MB: an export with data leaves larger
ones out, as if it were one without. `import_files` of one entry fails before or
after its bytes, and a zip's file is written whole or not. Hints are not created
by admins here. Paths are those the code derives from slugs.

**Properties.**

- `ReportMatchesDeed`: the preview and the import decide alike for every entry,
  in whatever state the import finds the database, and what is written reads back
  as `AsImported` says: with its prerequisite, if that is in the bundle, and its
  hints in the order in which those of a row are read. It compares the two loops
  in one state; the report an admin was shown may be older.
- `OverwritesKeepBuyers`: an overwrite leaves the n-th hint of an order with the
  buyers of the n-th hint of that order, and no others.
- `BytesKept`: the bytes that came to the server with a challenge are those an
  export sends along, whatever is imported, skipped, renamed, deleted or linked
  since, except in directories a zip or a rolled back import wrote to, or two
  challenges share since a rename. Of a row that came without bytes it promises
  nothing, as the code does not.
- `ExportRestores`: an export, with the data or without, is a bundle the importer
  accepts exactly when no challenge was left with a blank slug or title; and in
  any case no entry of it differs from the row it was made of, so that importing
  it would touch nothing.

## Flags

**State.** The key row (`cipher`), the column migration 005 adds, one challenge
(`row`: type, case rule, hash, salt, encrypted copy, and as history the flag it
was made from), the last export (`bundle`), the step of each program and of each
handler. `lost` is history: keys that went with their row.

**Actions.** A program (`Server`, or `feralctf import` beside it) runs
`execute_batch`, `table_info`, `add_column`, `ensure_key`, the server twice as
`run_server` does, and may `Exit`, `Crash` or be started again. Handlers take
`create_challenge` and `update_challenge` in steps: read, `Seal`, `Write`.
Deletion, export and import happen at one statement each. `LoseKey` is a
database restored without its key row.

**Abstractions.** A digest is injective in normalised text and salt; a copy opens
under its key only; random numbers are ones nobody uses. A regular expression
matches its own text.

**Fairness.** Programs run on, and one that failed is started again: SPEC:750
has the service unit with `Restart=on-failure`.

**Properties.** `FlagsHold`: the flag entered last solves the challenge, and so
does the one an admin is shown. `CopiesReadable`: a stored copy is under the
present key or one that was lost with its row, however many programs migrate.
`StartsSucceed`: every program that is started comes up; two that migrate an old
database at once may need a second attempt, since the column is looked for and
added in two statements (`db/mod.rs:47`).

## Pool

`Begin`, `Take`, `GiveUp` (r2d2's `connection_timeout`), `AskForMore` (`register`
and `login`, which call `create_session` while they hold a connection), `AskAgain`
and `Finish`. `NoGridlock`: with fewer threads than connections there is always
one free or a handler about to give one back. With as many threads as
connections all can be inside `login` and wait for each other until the timeout;
a pool of ten is safe on up to nine worker threads. `Taken` names the connections
that are out, and `Free` is what the pool has left.

## Hub

**State.** The events of the channel so far (scoreboards, numbered, and notices:
announcements, solves, state changes), per connection the receiver's position,
the outbox, and whether its forwarding task and its socket loop run; the page's
connection and what it shows.

**Actions.** `Commit`, `Build` or `Skip`, `broadcast` by handlers, `announce` by
an admin (a solve's or a state change's own event is another such notice);
`handle_socket`, `Forward` (which may find that it `Lags`), `Ping`, `Write`,
`Hang` by the tasks; `Break`, `Ask`, `Arrive` by the page, which after a loss
connects again and loads nothing.

**Fairness.** Handlers finish, the tasks run on (they wait only for what has
come), pings are sent, answers arrive, and a page without a connection tries
again.

**Properties.** `HubTypeOK`: an outbox holds events the receiver has passed, in
order, none twice. `LastBoardShown`: a page that stays connected ends `UpToDate`,
with the last scoreboard sent, however far it lagged, unless it was sent before
the page connected, a whole channel of other events followed it, or the page
loaded one of its own since. `ForwardersEnd`: the task of a lost connection ends, even if no
event is ever sent again: that is what pings are for.

## Runs

| Run | Bounds | Distinct states | Question |
|---|---|---|---|
| `alone` | 1 worker, 2 teams, 2 challenges (one requires the other, one is created below the formula's price), 1 hint, flag-type edits | 2.1 M | Is every score-changing handler right when it runs alone, after any sequence of requests? |
| `admins` | 2 workers, 1 team, 1 challenge, 1 hint, every handler, failures | 0.6 M | Do scores lag only behind a handler that owes a recalculation; is a hint charged once? |
| `live` | 2 workers, 2 teams, 1 challenge created below the formula's price, 1 hint, point edits, fair | 1.4 M | Do the handlers implement the ledger; are prices and first bloods right when solvers overlap? |
| `below_zero` | 2 workers, 1 team, 2 hints | violation | `HintsKeepTeamsSolvent` fails |
| `caches` | 2 workers, 11 kinds of handler, failures | 4.0 M | Which cached copies can be stale, what is broadcast, does the freeze hold? |
| `contest` | 2 workers, 3 teams, clock 0 to 2 with start at 1, freeze at 1, end at 2; 2 rows | 1.1 M | Who scores when, what does a frozen competition show? |
| `accounts` | 2 workers, 2 users, 1 team of 1, 2 passwords, one of 2 mixes of 6 operations, failures | 2.9 M | Do the last admin, the seats and revocations hold? |
| `limiter` | 2 workers, 1 team, 2 challenges, window 2, memory 6, limit 2, back-off from the 2nd miss | 0.9 M | How far can the limit be exceeded, is every wait served and finite? |
| `import` | 2 workers, 2 slugs, 3 titles, 6 requests for 4 bundles, 1 team, failures | 1.1 M | Do imports do what they report, and spare purchases and files? Which exports come back? |
| `pool` | 3 threads, 1 to 4 connections | 954 | When can all wait on each other? |
| `hub` | 2 handlers, 2 connections, channel of 1, 2 boards, 1 notice | 0.6 M | What does a page end with, do tasks end? |
| `flags` | server and one import, 1 handler, 2 flags, 3 keys, 4 salts, 1 crash | 0.7 M | Does what is stored of a flag stay usable? |

Why these bounds: a race here is between a reader of a row and one writer of it,
so two workers show it; `pool` has three threads, since two can block each other
while a third shows that it is not worse.

- *Scores.* One dynamic challenge and one hint suffice since no statement reads
  two challenges except through `unlock_requires`, for which `alone` has two.
  The parameters give 4, 4, 3, 1, 1: the floor is reached. In `alone` and `live`
  the dynamic challenge is created at 1, which is below the formula's price until
  three teams have solved it; in `admins` at the formula's. `alone` and `live`
  have two teams so that first blood can go to the wrong one.
- *Contest.* Three seconds hold a moment before the configured start, the freeze
  and the end each, and the freeze coincides with the start, so that every order
  of manual and configured times comes up. Three teams are the fewest with a tie
  before a third. Ranking is checked for what two rows and three teams can make.
- *Accounts.* Two users are the fewest that can demote each other; a team of one
  is the smallest that can be overfull. Passwords beyond the second are not told
  from it. A behaviour has one of two mixes of operations (`Mixes`): those that
  put users in teams, or those on roles and passwords, each with `register` and
  `login`. An update of a team next to a ban or a change of role is left out.
- *Limiter.* With a back-off of 2, 4, 8 ticks and a memory of 6, the third wait is
  longer than what the collector keeps: the case the hazard is about. A limit of 2
  is exceeded by one with two workers, which is the most the bound allows. A `lag`
  of one tick puts a boundary of a window or a wait inside a call. One tick is no
  fixed time; the real ratio (60 s, 1 h) only makes the case rarer.
- *Catalog.* Two slugs hold a prerequisite and its dependant; one bundle has
  both and an attachment with its bytes; one repeats a hint order, refers to a slug
  it does not have and has an attachment without bytes; one comes from CTFd with a
  link; one has a version that is refused, but is a dry run anyway. They come with
  the server's directory, with another and without, with a zip and without. Two
  of the three titles have one slug,
  and one of the two is blank. Hints that are listed out of order, or more than two,
  are left to the proofs.
- *Hub.* A channel of one makes every second event a lag, and one notice push a
  scoreboard out. Two scoreboards are a lost one and a later one, or two that two
  handlers send in the wrong order. Two connections are one loss.
- *Flags.* Two texts that differ in case; a key, its successor after a loss, and
  one drawn in vain; one salt more than can be in use.

All runs allow workers to serve any number of requests: the state is finite
because rows are sets over finite ids and counters have the bounds the modules
name. No state constraint is used. Workers, teams and users are symmetric in
every action; the runs that use symmetry check invariants and action properties
only.

Deadlock checking is on in every run: an idle worker can always accept, time can
always pass, a page can always break its connection.

`caches` leaves out the part `total` and four handlers
whose rows of the table put the same kinds of step in an order that another
handler has: `unlock_hint`, `create_team`, `import_bundle`, `admin_scoreboard`.
The theorems about `Board` hold with all of them.

## Proofs

TLC checks each property on the instance its run names; the theorems are about
every value of the constants that satisfies the module's `ConstantsAssumption`
(`PoolAssumption`, `HubAssumption`).
The assumptions say what kinds the constants have, that the sets which are
counted or summed over are finite, that a placeholder (no row, no key) is not
also a value, and what `config.rs` validates. TLC evaluates them in every run.

All invariants and action properties of the passing runs are proved. Liveness is
checked only; of two such properties the part that is safety is proved:
`LedgerKept` says that the handlers implement the ledger's steps (without its
leads-to), `NothingMissed` what a page shows when it has caught up.

### ScoreFlow

For any number of workers, teams, challenges and hints, any pricing parameters and
any points a challenge is created with, with every handler enabled and failures
allowed where the property does not exclude them:

| Theorem | Property |
|---|---|
| `TypeCorrect` | `TypeOK` |
| `ScoresAlwaysSettled` | `ScoresSettled` |
| `AlwaysChargedOnce` | `ChargedOnce` |
| `AlwaysNeverUnderpriced` | `NeverUnderpriced` |
| `FirstBloodAlwaysAnnounced` | `FirstBloodAnnounced` |
| `LedgerKept` | `KeepsLedger`, the safety part of `ImplementsLedger` |
| `AloneDeletionsComplete` | `DeletionsComplete` |
| `AloneOneFirstBlood` | `OneFirstBlood` |
| `AloneDynamicPriceCurrent` | `DynamicPriceCurrent` |
| `AloneHintsKeepTeamsSolvent` | `HintsKeepTeamsSolvent` |

The theorems named `Alone` assume `OneAtATime` (at most one worker), as does the
run `alone`: with two workers the properties are false, `below_zero` shows one
of them. What the theorems add to the run is any number of teams, challenges,
hints, prices and requests. Two also assume that no handler is stopped midway
(`~MayFail`), without which a price or a score may be left behind, and
`AloneDeletionsComplete` that edits set no new prerequisite, as a prerequisite
that names a missing challenge is not refused.

*TypeOK* is inductive as it stands, because it ties each worker's step to the
kind of request it serves (`ThreadsOK`): that is what lets a step read the
request's fields. Every later proof uses it.

*ScoresSettled* is an accounting of debts. `Owes(h)` says a worker has its
recalculation ahead. Each statement that moves a total makes its own worker owe,
no other worker's step ends a worker's debt except by deleting its challenge,
after which the deleting worker owes in its place, and `Recalculate` leaves the
scores equal to the totals whatever else is owed. `OrphanSolveEarnsNothing`
covers the solve inserted for a challenge that is gone: the JOIN gives it
nothing, so nothing is owed.

*NeverUnderpriced* needs two strengthenings: `CountsLag` (the count a worker
carries is at most the number of solves, since solves of a standing challenge
are never removed) and `ParamsFixed` (without parameter edits what a worker has
read of a row's parameters is what they are). The rest is that the formula falls
as solves grow (`PriceFalls`, which needs a `decay_rate` that is not negative; the
property says so). Nothing is assumed of the points a challenge is created with:
they stay until somebody prices it, and a challenge that has been solved has been
priced or has a solver who is about to. Besides, somebody who counts last sees every
solve, but need not write last: hence "never below" and not "equal".

*FirstBloodAnnounced* needs `FirstKnown` (a worker about to insert the first
solve knows it is first) and `BloodCarried` (a solved challenge has had its
first blood announced or a worker is carrying it to `announce`).

*LedgerKept* is the refinement, step by step: under the mapping of `ScoreLedger`
every statement is a `Change`, a `Recompute` or a stutter of `Ledger`, and
`ScoresSettled` is what makes the abstract guard true. The leads-to of `Ledger`
stays with TLC.

*One at a time.* With a single worker what a handler has read is still so when it
writes. Each theorem has that as an invariant of its own: `Standing` (what was
found is there), `RequirementRead`, `FirstTrue` (a first blood was counted
rightly), `PricedFrom` and `PricesCurrent` (parameters and counts are current,
and so is a price that nobody is about to write, unless the challenge is
`Untouched` since it was created), `CanPay` (a charge about to be
inserted is covered by the total, the score being the total by `ScoresSettled`).
`AloneHintsKeepTeamsSolvent` is where totals are computed with: an unlock lowers
its team's total by its cost and no other's, whatever else the tables hold.

### Board

For any number of workers, every kind of request, any of the followed parts,
with or without failures:

| Theorem | Property |
|---|---|
| `TypeCorrect` | `TypeOK` |
| `CachesAlwaysFresh` | `CachesFresh` |
| `FreezeAlwaysRespected` | `FreezeRespected` |
| `OwnChangeAlwaysSent` | `OwnChangeSent` |

For `Hub`, see below. *TypeOK* is three facts: each worker is at a step of its handler's row of the
table (`ThreadsOK`), one that has come to rest remembers nothing
(`AtRestBlank`), and caches and memories keep their kinds (`DataOK`).

*CachesFresh* is again an accounting of debts, and `CacheInv` its inductive
invariant. `Ahead(o, s)` says which caches a handler of kind `o` may owe at step
`s`; `AheadMoves` checks it against every row of `After`, and is where a handler
without its invalidation would stop the proof. From it, `OwesAhead`: a worker
never rests, reads or broadcasts while it owes, so only an invalidation or being
stopped ends a debt (`ExcuseKept`). `InFlight` says of a fill under way what
`CachesFresh` says of the cache, until it is overtaken; `Invalidation` is why an
invalidation that would end its excuses overtakes it. `Unread` is what a fill
starts from.

*FreezeRespected* needs `FreezeKept`: whoever has been served under one freeze
from the start cannot be past the look-up of the freeze. *OwnChangeSent* needs
`OwnChangeKept`, on top of both invariants: from its invalidation on a
broadcaster owes nothing and has given up nothing, so by `CachesFresh` a copy it
finds cannot lack its change (`FoundOwn`), and nobody else's step makes it lack
it.

### Contest

For any number of workers, teams and rows, any configured start, end and freeze
and any bound on the clock:

| Theorem | Property |
|---|---|
| `TypeCorrect` | `TypeOK` |
| `ScoresOnlyInside` | `NothingScoresOutside` |
| `FreezeStays` | `FreezeNeverMovesLater` |
| `FrozenViewsStay` | `FrozenViewsSettle` |
| `RanksFair` | `RanksAreStandings` |

*NothingScoresOutside* alone is not inductive, since a request looks at the row
and at the clock in two statements. `RowSound` says what the row it carries is
worth until it looks at the clock: at any second from now on at which it would
let the request pass, the competition has run since the request came, or the
configured start falls in between. `EarlyKnown` records who came before that
start.

*FreezeNeverMovesLater* is `FrozenAtIs` (the freeze is the earlier of what is
configured and what was ordered), `ControlsKeepFreeze` and `RowWriter`, which
says who writes the row. *FrozenViewsSettle* is that an insert has the second its
request was stamped with (`InsertsAreLater`). *RanksAreStandings* is proved of
the operators: a list sorted by score and last solve has, before the first of
its equals, exactly the teams that are ahead (`RanksInSortedList`), and
`BoardOrder` says the order compares as it should. It holds of any list the
`ORDER BY` allows, however ties fall.

### Accounts

For any number of workers, people, teams and passwords, any mix of operations,
any team size, with failures:

| Theorem | Property |
|---|---|
| `TypeCorrect` | `TypeOK` |
| `SeatsFree` | `SeatsWereFree` |
| `AdminStays` | `LastAdminStays` |
| `SessionsStayCurrent` | `SessionsCurrent` |

`IInv` adds to `TypeOK` where the workers are and what they remember: `Fits` (a
worker is at a statement that its handler needs, one at rest has forgotten
everything) and `Decides` (what was read allows the statement ahead: a demotion
goes on only after a second admin was counted, a team is joined only on a count
below its size). `Scripts` reads off the table `Script` which statement comes
before and after which; a handler that revoked sessions before it wrote would
fail there. `SessionsCurrent` is inductive on top of it because the step that
changes a role or a password takes its worker to `revoke`, and no other worker
can take it away from there (`RevokingStays`).

The proof of `SeatsWereFree` found that it had been stated too strongly: a team
two over its size that loses a member is still too large. TLC had not met that
case, which takes three members in a team of one and so more users than the run
has.

### Limiter

For any number of workers, teams and challenges and any limit, window, threshold,
base and time to live:

| Theorem | Property |
|---|---|
| `TypeCorrect` | `TypeOK` |
| `RateStaysBounded` | `RateBounded` |
| `WaitsAreServed` | `WaitsServed` |

What the workers do is the same for all of them but for a step and a clock:
`CheckMoves`, `GotoMoves`, `AnswerMoves` and `TickMoves` say it once.

`WindowsAgree` relates the window, from which instants are only ever popped at
the front and only when somebody looks, to the exact history: windows are sorted,
and what `expire_window` would leave of one is the history. Its lemmas are about
the loop: it ends in one way (`PopsUnique`), popping twice is popping once
(`ExpireTwice`, for `gc`), a new instant comes last and stays (`RecordKeeps`), and
time and popping commute (`TickKeeps`). *RateBounded* then counts: who is
admitted saw fewer than the limit, who records an attempt is no longer pending.

`EntriesAgree` is the same for wrong attempts: an entry the collector has left
has the right age and counts no less than the history, and one it took was past
its time. With a wait that grows with the count (`WaitGrows`; that 2^n grows is
a fact about the sizes of power sets here) this gives *WaitsServed*: who is admitted
at `check_back_off` has waited for as long as the call's clock said, and that is
not more than the age.

### Flags

For any number of programs, handlers, texts, keys and salts, any function for
`to_lowercase` and any number of crashes:

| Theorem | Property |
|---|---|
| `TypeCorrect` | `TypeOK` |
| `CopiesStayReadable` | `CopiesReadable` |
| `FlagsStay` | `FlagsHold` |

The invariant speaks of all records at once: the row, the bundle and what
handlers are about to write. `Good` ties hash, salt, case rule and copy of one
together; `Akin` says that records with one salt are of one stored form. That is
what an import needs: it keeps the old copy while the hash is unchanged, an equal
hash means an equal salt, so the case rule is the same too (`ImportGood`). A
copy, wherever it is, is sealed under the present key or a lost one (`Readable`),
as `InsertOrIgnore` never replaces a key. `FreshSalt` and `FreshKey` count: salts
in use are at most one per handler, row and bundle, keys lost leave one over.
The theorems assume that no text is itself a digest, so that a pattern, which is
stored as it is, cannot be mistaken for the hash of another flag.

### Catalog

For any number of workers, slugs, titles, teams and links, any requests for any
bundles, any `Slugify`, any orders of hints, repeated and out of sequence, with or
without failures:

| Theorem | Property |
|---|---|
| `TypeCorrect` | `TypeOK` |
| `BytesStayKept` | `BytesKept` |
| `ExportsRestore` | `ExportRestores` |
| `OverwritesKeep` | `OverwritesKeepBuyers` |
| `ReportMatches` | `ReportMatchesDeed` |

`IInv` is `TypeOK` and four facts: prerequisites are rows that are there
(`RequiresPresent`, which deletion and renaming must look after), all hints of a
challenge have the text of its row (`HintsOfText`), what is about to be applied
repeats no slug (`AppliesValid`), although the database has changed since it was
validated, and `FilesKept`, which says of the disk what `BytesKept` says of an
export. So each slug is written by one entry at most (`AppliedRow`), and each
directory gets the bytes of that entry (`BytesOf`); whoever writes bytes beside
their row, or under another challenge's, makes the directory `torn` (`TornCovers`,
`WritesTear`).

Most of the work is on `sync_hints`. `ListedInOrder` says that a set listed in a
strict order has each member once and in order: the k-th is the one with k - 1
before it, and counting shows that there is one. `NumberTells` is that order and
number within the order tell hints apart, `MatchedFromFirst` and `UnmatchedLast`
that among hints of one order the first ones are matched. Hence
`SyncKeepsNumbers` and `SyncNumbersNew`: a hint is the n-th of its order after
the synchronisation if and only if the hint of the entry it stands for is, which
gives *OverwritesKeepBuyers* at once. For *ReportMatchesDeed* the lists that are
compared are read sorted; `SortedAlike` says that two lists with as many hints of
each order are the same when sorted, however they were arranged. *ExportRestores*
is that comparing reads a row as exporting does (`ExportedMatches`), the data
aside, and that of what `validate_bundle` refuses only a blank slug or title can be
in an export: slugs differ, and no prerequisite is missing, by `RequiresPresent`.

### Pool

`NeverGridlocked`, in `Accounts_proofs`, is `NoGridlock` for any number of
threads and any size: when nobody works, everybody who waits holds at most one
connection (`HeldOK`), so no more are out than there are threads.

### Hub

In `Board_proofs`, for any number of handlers and connections, any size of the
channel and any number of events: `HubTypeCorrect` is `HubTypeOK`, and
`NothingMissed` says that a page whose receiver and outbox have nothing left for
it is `UpToDate`. It is what `LastBoardShown` says that a page comes to, without
saying that it comes to it, which takes the fairness of its tasks.

The invariant (`ConnectionOK`) follows the last scoreboard to the page
(`OnItsWay`): its receiver has yet to take it, or it is in the outbox, or the page
shows it or has loaded one, and then whatever is still in the outbox came after
it, and so is no scoreboard. A receiver that lags is moved forward, to the oldest
event left: not past the last scoreboard unless that was pushed out
(`ForwardStep`). What is written to the page while the last scoreboard is still to
come may be an older one; what is written after it is a notice (`WriteStep`).

### Scoring, and how induction is done

A total is a fold over a finite set, which the provers cannot expand. The first
lemmas of `Scoring_proofs` say all that later ones use: a sum is determined by
how it changes with one element (`SumUnique`, `SumExists`, `SumRecursion`), has
its type, takes any element out first (`SumTakesAny`) and depends on the values
only (`SumOfEqual`). From them, `UnlockCharges` and the types of totals and
prices. Where an argument is by induction, it takes the set of counterexamples
and a smallest one (`SubsetInduction`, `Least`), as the library's induction rules
take an operator as a parameter.

### Only model-checked

Liveness, which is out of the prover's reach: `ImplementsLedger` as far as its
leads-to goes, `LastBoardShown`, `ForwardersEnd`, `LockOutsEnd`, `StartsSucceed`.

## What the checks found

- **Two unlocks can take a team below zero** (`below_zero`,
  `handlers/challenges.rs:238`): both read the same score. The comment above the
  check says hints may not do that.

Other divergences are visible in the models. They have no run of their own: they
are exceptions written into the properties above, or properties that hold only
with the bounds named.

- Of overlapping solvers the one that counted first may write its price last
  (`scoring.rs:18`): `DynamicPriceCurrent` holds with one worker, `NeverUnderpriced`
  is what remains.
- A dynamic challenge costs what it was created or imported with until its first
  solve or edit: neither `create_challenge` (`handlers/admin.rs:334`) nor the import
  (`import_export.rs:471`, `:517`) applies the formula, and an import over a solved
  challenge writes the price of the bundle.
- A submission or unlock that overlaps a deletion leaves its row behind
  (`handlers/challenges.rs:160`), and ids are reused: `DeletionsComplete` holds
  with one worker.
- Two solvers can both count zero solves: `OneFirstBlood` holds with one worker.
- `create_challenge` invalidates the challenge list only (`handlers/admin.rs:373`):
  a cached scoreboard keeps the old total of visible points.
- A start inside the configured freeze period does not lift that freeze
  (`competition.rs:150`), though the comment at `competition.rs:177` says *any*.
- A frozen profile shows first bloods counted of all solves, and a frozen board
  current prices; so what is frozen moves when a dynamic challenge is solved.
- A row of `score_history` is stamped with the time of the solve and holds a
  score read later (`handlers/challenges.rs:165`): the frozen graph can include a
  later solve.
- Two first registrations can both become admin, and a registration that fails
  midway leaves an account without its team (`handlers/auth.rs:97`, `:131`).
- Concurrent submissions exceed the rate limit by as many as there are other
  workers (`anticheat.rs:26`).
- Importing one challenge whose prerequisite is in the database but not in the
  bundle drops the prerequisite (`import_export.rs:436`), although validation
  accepts the reference. `ReportMatchesDeed` names the exception.
- A bundle that lists hints out of the order of their `order` never equals what
  is stored: `challenge_matches_existing` (`import_export.rs:677`) compares it
  with rows read by `ORDER BY sort_order, id`. Such an entry, an own or a CTFd
  one, is reported as overwritten, and is, by every import with `overwrite`,
  where `FERALCTF_SPEC.md:524` has an identical one skipped. What is stored does
  not change. The proof of `ReportMatches` found it; `AsImported` sorts for that
  reason.
- An export can be a bundle the importer refuses: `update_challenge` accepts a
  blank title (`handlers/admin.rs:390`), and a title of punctuation has an empty
  slug (`handlers/admin.rs:1769`), while `validate_bundle` refuses both
  (`import_export.rs:328`). `FERALCTF_SPRINTS.md:1012` has an export and an import
  round-trip all data. `ExportRestores` names the exception.
- An attachment on disk does not survive an export without data: its entry has
  neither a URL nor bytes (`import_export.rs:285`), the import inserts the row and
  warns (`import_export.rs:645`), and `sha256` is stored and never compared with
  anything. Nor does `feralctf import --attachments` bring any files, though its
  help (`main.rs:42`) speaks of a *directory of attachment files to copy*: it looks
  for files there and copies none. `BytesKept` follows the bytes that did come.
- The files of a zip are written before the bundle is validated, and those of an
  import that fails stay, where `FERALCTF_SPRINTS.md:1016` says *zero changes*:
  that is what `torn` is for.
- The report of an import counts what it finds before the transaction begins; what
  other requests write until then is not in it.
- A blank flag sent to `update_challenge` without a change of type or case is
  hashed as the empty flag (`handlers/admin.rs:402` looks for a blank only when
  the form changes). The page sends none in that case, so `Flags` does not
  enumerate it; nor a bundle edited by hand so that the case rule changes beside
  an unchanged hash, which import accepts.
- Two programs that migrate an old database together: one fails and comes up when
  started again (`db/mod.rs:47`).
- A page that reconnects does not reload the scoreboard, and an answer to an
  older request may arrive after a newer event: it shows an older board until
  the next event.

## Not modelled

- **Branding**: one row and a cache with the fill of the scoreboard's.
- **Routing, errors, configuration**: tables and parsing without state; the
  values are constants of the modules, and their validation the assumptions.
  The `jwt_secret` made at start when none is configured, which ends every
  session at a restart, is not followed.
- **File storage, TLS, audit log, backup**: input and output. A failing audit
  insert is in Board, what an import writes to disk in Catalog.
- **`score_history` and its graph, `submissions`, flag sharing**: rows that no
  decision reads; the sharing check logs a warning.
- **Creating hints, visibility, announcements, a team's name and invite code**:
  single statements on rows that none of the properties relates to another.
- **Markdown, ZIP and CTFd parsing**: data conversions; the choices they make are
  in Catalog where a property depends on them.

## Plan

The modules planned are written, and all their safety properties are proved.
What could be added:

1. Contest and ScoreFlow share the tables of one database; a module of both would
   say that frozen prices move only with solves of dynamic challenges.
2. `Catalog` with hints created by admins beside an import, and bundles that name
   a directory other than their slug's.
3. An invariant of `Hub` for pages that load a scoreboard while events are on
   their way: which older board they may fall back to, and for how long.
