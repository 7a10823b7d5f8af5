# A TLA+ model of homey

homey keeps the inventory of a home: rooms, containers nested inside them, and
items. A Go server holds it in one SQLite database and offers it to a web
interface and scripts (REST), and to language models (tools over MCP). The
modules here model its core: what is stored, how concurrent requests change
it and what they read from it meanwhile, how places are named, how a deletion
asked for by a language model is confirmed, how a backup is exported and
imported, what the rate limits limit, and what the web interface shows.

## The system

| Component | State | Operations | What makes it correct |
|---|---|---|---|
| Storage (`internal/storage`) | tables `rooms`, `containers`, `items` (with tags and aliases), their AUTOINCREMENT sequences | create, update, move, delete, and the reads | references exist; no container inside itself; a nested container is in its parent's room; names unique in their scope; each mutation is atomic |
| Event log (`internal/storage/events.go`) | table `events`, append-only | one row per mutation, in its transaction | the log and the tables never part |
| REST handlers (`internal/server`) | none | one repository call, or a read and a write | a stale read never harms |
| LLM tools (`internal/tools`) | none but the Confirmer | add, update, move, delete, search, list | as REST; destructive ones are confirmed |
| Confirmer (`internal/tools/confirm.go`) | map of pending tokens behind a mutex | issue, redeem, drop the expired | one token, one deletion, of what was proposed |
| Backup (`internal/backup`) | none between calls | export, import | an import leaves what the document says, nothing else, and a second one is quiet |
| Location index, search (`internal/inventory/locations.go`, `internal/search`) | none (built per request from two listings) | paths, resolution, ancestors, children; search | a place reads as what holds it; a name acts where it points |
| Rate limiting (`internal/server/middleware.go`) | a window counter per IP | allow, retryAfter, cleanup | limits hold, Retry-After is true |
| Tokens, authentication | table `api_tokens` | create, list, revoke, authenticate | scopes are honoured, a revoked token stops |
| Web interface (`web/src`) | cached lists, the query and its results | refresh, search as you type | the newest answer wins |
| MCP transport, HTTP wiring, migrations, configuration, logging | — | — | — |

Requests run concurrently, each in a goroutine of its own. They meet in three
places: the database (SQLite in WAL mode; every mutation runs in `withTx`), the
Confirmer's mutex, and the rate limiter's. Handlers and tools call the
repositories; the repositories write the event of a mutation in its own
transaction; backup calls the same repositories once per entry.

What is hard here is not in one function:

- a transaction checks with SELECTs and writes afterwards, and BEGIN locks
  nothing: the checks hold only because SQLite refuses the write of a stale
  snapshot;
- a PATCH is a read and a write in two transactions;
- a confirmed deletion is proposal, confirmation and deletion in three, with
  the clock, other deletions and restarts in between;
- an import is one transaction per entry and can end between any two;
- a lookup, an export and a write by name read several listings, each in a
  transaction of its own, and join them in memory;
- the answers to a browser come in any order, late, or not at all, and the
  token they need may be revoked in the meantime.

`PROJECT.json` lists these as hazards, each at its line, with the properties
that cover it.

## The modules

| Module | Models | Kind |
|---|---|---|
| `Store` | the tables and, for each mutation, `...Checks` (what its SELECTs find), `...Clash` (whether the write is refused) and the database after it | operators only |
| `Database` | the variables of the database and its event log, and what must hold of them | shared state |
| `Repositories` | `INV`, the ports of `Inventory` on that database, as handlers, tools and imports hold them | shared instance |
| `Inventory` | the promise of the persistence ports: each mutation and its event at once | abstract specification |
| `Transactions` | the same mutations statement by statement: begin, check, write, record, commit or roll back, with the lock, snapshots, cancellation and crashes | implements `Inventory` |
| `Requests` | the handlers and tools of two repository calls, over `Inventory` | composition |
| `Confirmations` | the delete tools and the Confirmer | component |
| `Backup` | export and import, over `Inventory` | composition |
| `Locations` | the location index: paths, resolution, ancestors, children | operators only |
| `Answers` | calls of several queries, query by query, with `Locations` over `Inventory` | composition |
| `Web` | a visit to the web interface: search, shared inventory, writes, and the tokens behind them | component |
| `RateLimit` | the two limits on requests and their fixed windows | component |
| `InventoryProofs`, `TransactionsProofs`, `RequestsProofs`, `AnswersProofs`, `BackupProofs`, `ConfirmationsProofs`, `RateLimitProofs`, `WebProofs` | the theorems about the module each is named after | proofs |
| `MC...` | the small instances for TLC | |

How state and actions correspond to the code:

- **Store.** A table is a function from the ids of its live rows. `lastRoom`,
  `lastContainer` and `lastItem` are the AUTOINCREMENT sequences. `Nil` is a
  NULL `parent_id`. An item's `room_id`/`container_id` pair, of which the
  schema lets exactly one be set, is a `Location`. A `Name` is what the NOCASE
  indexes compare, so a spelling is part of `Detail`, with the description,
  quantity, notes, tags and aliases. Names and details are the ones `Normalize`
  and `Validate` let through. `Walk` and `Subtree` are the recursive CTEs: the
  least set that contains the seed and is closed under the join. Foreign keys
  are on in the database too (`internal/storage/db.go`); the model does without
  them, so what it shows rests on the code's own checks.
- **Inventory.** `db` is the committed database. The events table only grows,
  so it is represented by `audit`, what a reader rebuilds from the payloads one
  event after the other. The reader is the "future undo" of
  `migrations/000007_events.up.sql`; no code reads the log that way yet.
- **Transactions.** `stage` says how far the transaction of each client is,
  `stale` whose snapshot is no longer current, `writer` who holds SQLite's
  write lock and `work` what it sees. The SELECTs of one transaction see one
  snapshot, so they are one step. `Busy` is SQLITE_BUSY: at once for a
  transaction that has read, after the busy timeout for one that has not.
  `Cancel` stands for a closed request and for any failing statement, `Crash`
  for the death of the process.
- **Requests.** `held` is the row a request has read, with the patch laid over
  it, as it means to write it back. The repository calls are `Inventory`'s
  actions, which `Transactions` shows they may be taken for.
- **Confirmations.** `Look` is the read a delete tool starts with; `Mint` and
  `Propose` are `issue` before and under the mutex; `Redeem` is `redeem`;
  `Delete` the repository call. `minted` and `log` are history. One `now` is
  the process's clock. Ids never return, because the tables are AUTOINCREMENT:
  `NextID`.
- **RateLimit.** `keys` holds the counters of the two `fixedWindow`s. A request
  is counted by `rateLimit` (`ArriveWriting`), checked by `authFailureLimit`
  (`Admit`), handled, and counted again if it failed (`FailAuthentication`).
  Time is in ticks, `Second` of them to a second. `passed` (each write let
  through of late, with its window and its number in it) and `told` are history,
  of one address (`Watched`); the addresses do not differ otherwise.
- **Backup.** Documents name things; `World` is the index an import builds from
  its listings, `Accepts` the check, `Before` the order of `orderContainers`,
  `ApplyRoom`, `ApplyContainer` and `ApplyItem` one entry each. Names in a
  document may carry blanks (`Trim`), and fields may be written in an order the
  database does not keep (`Stored`: tags are read back sorted). `wrote` and
  `settled` are history.
- **Locations.** An index is a pair of listings, `rooms` and `containers`, which
  need not be of the same moment: every operator is defined for a container
  whose parent or room is not listed, as the Go code is. A name is a number, for
  the order of a listing, and has a `Spelling`: the segments between one ">" and
  the next, a single one if it has no ">" in it. `NamesTo` is a `ContainerPath`,
  the names from the room down; `Path` is the text a caller is shown, which
  `Rendered` makes of the names by joining them with ">", so that places apart may
  be written alike; and `PathKey` folds a text segment by segment (`Folded`), so
  that places written differently may be looked up alike.
- **Answers.** `Queries` lists the queries of each kind of call in their order;
  `call` holds those still to run and what the others returned, in the fields a
  Go function would have as locals. `Others` is a mutation that another request
  commits between two of them. `seen` (history) is every database the call has
  run against. An item's tags and aliases are its `detail`, listed again by two
  queries whose condition is evaluated anew (`Labels`). A write is an action of
  `Inventory`. `Answer` renders what the call got, once its last query is done.
- **Web.** The inventory is `version`, the number of writes committed. `search`
  holds the variables of `routes/+page.svelte` and the requests on their way;
  `page` those of `lib/inventory.svelte.ts`, with `loads` for the refreshes on
  their way; `writes` are the pages' own. Promise.all is `pending` and `failed`:
  it lands on the third list, or on the first failure. `tokens` and `lastToken`
  are `api_tokens` and its sequence, `noted` the id an operator read off a list.
  Each request carries the `setting` of when it was sent, and its token is
  looked up when the server comes to it. `revoked`, `page.mine` and
  `page.overlapped` are history.

## What is checked

| Run | Question | Bounds |
|---|---|---|
| `inventory` | Does any sequence of calls break the household or the audit? | 2 rooms, 3 containers, 1 item, 3 names |
| `transactions` | Do interleaved statements amount to `Inventory`, are refusals true, and is every call answered? | 2 clients, 13 calls that interfere, 2 rooms, 2 containers, 1 item |
| `requests` | Can a stale read-then-write harm the tree? | 2 requests, 2 rooms, 2 containers, 1 item |
| `requests_place` | Does a PATCH leave the place alone? **No** | as `requests` |
| `confirmations` | Is each confirmed deletion the one that was proposed? | 2 calls, 2 tools, 2 tokens, 2 rows, lifetime 1, 2 ticks, 1 restart |
| `rate_limit` | What do the limits limit, and is Retry-After true? | 2 requests, 2 addresses, limits 2 and 1, windows of a second in ticks of half a second, 3 ticks |
| `backup` | Does an import do what it says, interrupted and repeated? | 2 rooms, 2 containers, 1 item, 6 documents |
| `answers` | What can be believed of an answer put together from several queries? | 10 calls, 2 writes of others, 2 homes, 2 rooms, 3 containers, 2 items, 4 names |
| `candidates` | Can a candidate be chosen whatever names there are? **No** | one call, 2 rooms, 5 containers, a name with a ">" in it, two that differ in an accent |
| `web` | Does the interface settle on what was typed, and show what was written? | 4 visits, of up to 3 texts, 2 writes, 3 dealings with tokens |
| `backup_refused` | Does a refused import write nothing? **No** | one re-hanging document |
| `backup_again` | Is a second import quiet however names are spelled? **No** | one document, with a blank in a container's name |

The exact values are in the `.cfg` files. Why they are enough:

- Three containers give a subtree of depth three, a cycle through another
  container, and a name clash caused by a container inside the one that moves;
  two rooms give a move between rooms. Names are symmetric.
- A conflict in SQLite is between one transaction that has read and one that
  writes, and there is one lock, whose holder waits for nobody, so that no chain of
  waits has more than two in it: hence two clients. They are not taken as
  symmetric, because liveness is checked. For safety any number is proved.
- Two tools share numeric ids, two tokens and two callers allow every misuse of
  a token, and a lifetime of one with two ticks reaches the instant of expiry.
- In `rate_limit`, three ticks of half a second hold a window that lasts two of
  them, the instant it ends, and the next; a write limit of two lets a window end
  full and the next begin full. A window has three instants, each with a wait of
  its own to tell, in whole seconds and between them. Waits that were rounded up
  instead of down and one more would be too short at one of them only, the
  reset itself, and TLC finds it.
  `Threshold` is 1 for the code's 4096. `MaxExcess` caps the requests an
  address has counted beyond a limit: two of the watched one, which are as many as
  the requests in flight, and none of the other, which is there for its sweeps.
- In `answers`, one write of others reaches every pair of adjacent queries, and
  two the shape in which a path is of neither moment. The homes have a container
  listed before the one that holds it, one that shares its name with a room, and
  two whose names differ in an accent. `MaxOthers` bounds the writes; a write
  before the first query is as if the call had begun after it.
- In `web`, the visits divide the budget (`Visits`): three texts give a search
  aborted by a newer one and by a cleared box; two writes give overlapping
  refreshes; three dealings with tokens a list, a revocation given twice, and a
  token created in between.
- The sequences (`MaxRoom`, `MaxContainer`, `MaxItem`, `MaxRow`), the clock
  (`MaxTime`) and the restarts (`MaxBoot`) are bounded; an id is never reused,
  so a bound limits the number of creations in a behaviour. In `Transactions`,
  an insertion past the bound ends like a busy database.

What `rate_limit` shows is weaker than "n per minute", because the windows do not
slide and failures are counted late: less than twice the write limit in any
minute, and as many failures beyond the limit as other requests are in flight.

What `answers` shows is what can be relied on without a transaction around the
queries, which the code does not open. An answer is true of whatever stood still
while it was put together. One write of others cannot tear an answer about
places; two can, and then a path may be of neither moment. Tags and aliases may
be of another moment than the name even with one. An export that succeeds is a
document an import accepts, because what points at a row that was not listed
makes it fail. Some things a reader of the code may not expect, and that the
properties are worded around:

- A room wins over containers of the same name without a question being asked
  (the name is the room's whole path).
- Two places may have one path, because of a ">" or an accent in a name; the one
  indexed last has it, and the other cannot be chosen. What the code promises of
  candidates (`CandidatesCanBeChosen`) is therefore false, as `candidates` shows, and
  what `answers` shows is the case of `PlainNames`: no ">" in the names listed,
  and no two rooms, nor two containers of one room, with names that differ but
  fold alike. Names may recur from room to room, with another accent too.
- An item found by a label that is taken off before the labels are listed is
  returned with none, so that `Classify` finds no match, which
  `internal/search/search.go:105-107` says cannot happen.
- `move_item` answers with the index from before the move.

`web` shows what is left after the debounce and the aborts have done their work.
While one is still typing the dashboard may show the candidates of the query
before, or say that nothing matches one that has not been sent. Of two refreshes
on their way at once the older may land last, and its lists stay until the next;
no property orders them, nor does the code, and `OwnWritesAreShown` leaves that case
out: it says that a page that has heard of its own write loads the inventory anew.
A write whose answer is lost is not followed by a refresh, and no property says what
is shown after it.

Deadlock is checked in every run but `web`, whose visits end.

### What the runs that fail show

1. `requests_place`. `update_item`, and PATCH of items and containers, write
   back the whole row they read, place included. A move between the read and
   the write is undone, without an error. `internal/tools/write.go:89-90` says
   "Where the item is stays put: moving is move_item." The tree stays sound
   all the same: that is what `requests` shows.
2. `backup_refused`. `check` looks for circles among the containers of the
   document. When the document hangs a container from one that is now below it,
   and does not mention that one, the check passes and `Update` answers
   `ErrCycle` in the middle, after the rooms were written.
   `internal/backup/import.go:3-5` says "Nothing is written before every entry
   has been checked, so a bad entry at the end never leaves the good ones
   behind". Nor does the import finish when it is run again, as
   `internal/backup/document.go` promises of a half-applied one.
3. `backup_again`. `checkContainers` and `applyContainers` look containers up
   by the name as written; the inventory stores it trimmed. A document with
   blanks around a container's name creates it once and is refused as a
   duplicate from then on. `internal/backup/import.go:17-19` says "A second
   import of the same document reports everything unchanged". (Rooms and items
   are trimmed first.) The run's one document has a room and such a container.
4. `candidates`. A caller is asked which of three containers of one name is meant,
   and of two of them the path, given back, stands for another place. The index
   keeps one place for each path it looks up, the one listed last.
   One candidate is in a container, and beside that there is a container whose name
   reads like the rest of its path: a path is the names joined by " > "
   (`internal/inventory/types.go:50-57`), and nothing keeps a ">" out of a name.
   Two candidates are containers of one room whose names differ in an accent, which
   `pathKey` folds and the unique indexes do not: the first cannot be chosen. Either
   is enough to violate the property, in the one home of the run.
   `internal/tools/clarify.go:12-13` says the caller can "call again with a full
   path", and `:22-23` that it "must choose one";
   `internal/inventory/locations.go:132-134` that a shared name fails with
   `ErrAmbiguous`, "carrying the candidates so the caller can ask which one was
   meant."

One thing more was met and is shown by no run: `itemsMatch` compares the tags of a
document with those of the inventory one by one, and the inventory lists them in
alphabetical order (`internal/storage/items.go:83`), so an item whose tags are in
another order is written again by each import. `Stored` stands for that order, and
`AsExported` asks for it.

Documents that an export writes have none of these spellings: `backup` shows
the promise kept for them.

### Fairness

`FairSpec` in `Transactions` asks for weak fairness of the progress of each
client: a statement that can run is run, which is the driver's and SQLite's
doing, and a wait for the write lock ends at the busy timeout, which is `Busy`.
It asks nothing of `Begin`, `Cancel` or `Crash`. No strong fairness is needed,
since a transaction with a stale snapshot is refused and not retried.

`FairSpec` in `Web` asks for weak fairness of `Goes`, what happens without the
visitor: a timer set by `setTimeout` fires, and a request is answered or fails,
as `fetch` does at the latest when the connection closes. It asks nothing of the
visitor, the operator or other clients. One condition for all of `Goes` is
enough: each of its steps brings something on its way nearer to its end, nothing
in it starts anything but the search a timer was set for and the refresh that
follows a write, and a visit is finite.

The other modules state safety only.

## What is proved

TLAPS checks the theorems of eight modules. They hold for every value of the
constants that satisfies the assumptions, which are few: the bounds are naturals
(`BoundsAssumption`), NULL is not an id (`NilAssumption`), the mark for an idle
client is not a call (`NoCallAssumption`), limits and windows are naturals
(`LimitAssumption`, `ClockAssumption`), the requests and addresses of `RateLimit`
are finitely many (`FiniteAssumption`), a text worth searching for is neither a
short one nor no text (`TextAssumption`), what the database holds is trimmed and in
order already (`TrimAssumption`, `StoredAssumption`), a document has the fields of
`backup.Document`, with finitely many containers (`DocumentsAssumption`: entries
without duplicates, since the model keeps them as functions; the check refuses the
others), names are numbers, spelled in at least one segment, each of which folds to
something (`SpellingAssumption`), what calls begin with is a `Household`
(`HomesAssumption`), and a call is one of the tools, with a name for what it adds
(`RequestsAssumption`). TLC evaluates each of them in the runs.

**Inventory.** For every set of names and details and all bounds: `TablesOK`,
`ReferencesExist`, `SubtreeSharesRoom`, `NoCycle`, `NamesUnique`,
`AuditRebuildsInventory` and `OneThingMoves`. None of the invariants is
inductive alone. A move into a container keeps `NoCycle` only if the chain of
parents it walks is one of live rows (`ReferencesExist`); it keeps
`SubtreeSharesRoom` only if the whole subtree moves, which is the set of rows
whose chain leads to the container (typing and acyclicity); `NamesUnique` needs
the subtree to be in one room before the move; a fresh id needs the sequence not
to be behind the rows (`IdsBehindSequence`); and replaying a move from its two
places gives the subtree back only because a row is below c exactly when c is
above it. The inductive invariant is therefore `Household(db)`, the conjunction
of all, with `audit = Tables(db)`.

`InventoryProofs` starts with lemmas that know no variables: that `Walk` and
`Subtree` are closed, least and each other's converse, and that each mutation, when
its checks and its write succeed, keeps `Household`. The theorems are about the
instance of `Inventory` through which the other modules reach it, one step per
action (`MutationSound`), so that those modules can cite them. A cycle is stated
as a set of containers whose parents are all inside (`Acyclic`), so that the proofs
need no induction over paths: hanging c from a place outside its subtree leaves no
such set.

**Transactions implements Inventory** (`Atomic`), for any number of clients, and
its refusals are true (`RefusalsAreTrue`). The step that commits is an atomic
mutation of the committed database because of what the invariant says of each
stage: a transaction that has checked and is not stale has checked the committed
database; only one that was not stale could become the writer, and from then on
nobody else commits; so the writer's `work` is the effect of its call on the
database it is about to replace, and its event is the one of that call. Every
other step stutters.

**Requests implements Inventory** as well: a handler of two calls does nothing
to the inventory that a call of its own could not have done, whatever happened
to the row it holds. What is needed of a held row is only that it is well formed
(`AnyDraft`), which is what makes the tree invariants survive a stale write
(`NoCycle`, `SubtreeSharesRoom`): `Household` is kept by any mutation whose
checks succeed. `PatchKeepsRoom` is where the check of
an update against the container's room counts (`OvertakenIsRefused`): a row of a
container that is gone or in another room by now is refused as a whole, and one that
is accepted is written as it is (`UpdateWritesTheRow`), in the room it is in already.

**Confirmations.** `TokensAreSpentOnce`, `ConfirmedWasProposed`,
`MistakesCancelNothing` and `NothingNewIsCondemned`, for any number of callers,
tokens and restarts. The invariant follows a token through its life: minted,
pending, in one call, in the log, in no two of these at once; what is pending is
what was minted; and every row that anything speaks of is one the sequence has
passed, so that a new one cannot be meant.

**RateLimit.** `OvershootIsConcurrency`: while a window runs, the failures counted
and the requests in a handler together are at most the limit and the requests, less
one (`RoomForFailures`). The one that passes the check does so below the limit, so
the others make up the rest. `LessThanTwiceTheLimit`: the writes let through are
numbered in windows that do not overlap, the first of each at its beginning
(`RecentWrites`), and no three windows meet a minute; of two, the older has lost its
first write, and the numbers that are left are less than twice the limit.
`RetryAfterIsTrue` rests on the arithmetic of `RetryAfter` (rounded down and one
more is past the reset, for any length of a second), `WindowsRunTheirCourse` on what
`Counted` does.

**Backup.** `ImportedAsWritten` and `OnlyMentionedChanges`, for any documents, any
household they meet, and an import that stops and starts again anywhere; and an
import does nothing but `Inventory`'s mutations (`ImplementsInventory`). The
difficulty is that entries are told apart as they are spelled and rows as they
are stored: two entries for one row would undo each other. The invariant says of
an import under way (`Applying`) that what it knows is true of the database:
each name is that of a live row in the place its key gives (`Knows`), different
containers by different names; and that every entry applied so far still stands
(`Stand`). From there:

- An applied entry writes one row, under the name and in the place it already has if
  it has one (`RoomStep`, `ContainerStep`, `ItemStep`), so every key of every other
  row stays (`GrowthKeepsKeys`). This is where it matters that an import re-parents
  but never renames or relocates.
- The row written is not that of an entry that stands: its name is unique in the
  database, and different entries have different stored names. For rooms, and for
  items directly in one, the check says so; for containers, which it compares as
  spelled, and so for the items in them, it follows from what is known
  (`KnownApart`): the names of an entry that was found or created are those of one
  row.
- A container's parent is known by its turn, because parents come first: a declared
  parent has a smaller `Depth`, as no entry is in a circle (`ParentIsShallower`).
- When all is applied, all stands (`Settled`), and `ExportRow` reads it back.

`ReimportIsQuiet` (`SecondImportIsQuiet`) has a hypothesis, that documents are
spelled as they are stored (`AsExported`); without it the property is false, as
`backup_again` shows. `ExportIsAccepted` discharges it: what an export writes, of
any household, is a document that is spelled so, and the check accepts it whatever
the inventory it is imported into. The circle check passes because the containers
of a household are acyclic (`NotAboveItsParent`).

**Answers.** `PlainCandidatesCanBeChosen`, `ExportIsImportable`, `OneWriteCannotTear`,
`WhatStandsStillIsTrue` and `ActsWhereNamed`, for any homes, any calls and any
number of writes in between. The invariant (`IInv`) says of a call that it has run
its queries in their order (`InOrder`) and that each listing it holds is that of a
database it has run against (`Listings`, `Chained`); that what it has resolved from
them is a place (`Placed`); and that with at most one write of others there were two
moments, which differ in one table (`Moments`, `MutationOfOneTable`). It speaks of a
call until its own write (`Reading`): afterwards it is only known to hold tables.
From there:

- A path is made of the containers above a place, one at each depth
  (`NestingFull`), and depends on nothing else (`PathByChain`); it is the path of the
  parent with one name more (`PathAppends`). `Resolve`
  answers one place or a choice (`Resolution`). Induction on depth is by a
  least counterexample: `LeastNat`, from well-founded induction.
- The text a place is shown as is not in general its own. With plain names, for
  any spelling, it has one segment for each name (`PlainPath`, by
  `FlattenSingletons`), so the key of the text begins with the room's and ends with
  the place's own (`NamesEnd`); places side by side fold differently
  (`PlainNamesApart`), rooms first and then the containers of one room. So no two
  places of an index, whatever moments it is put together from, are looked up alike
  (`PlainPathsApart`), and the theorem is `PlainCandidatesAreChosen`.
- Two tables of two moments that differ in one table are those of one moment
  (`OneMoment`), which is why one write cannot tear an answer about places, nor
  make a name stand for a place that it was at no moment the name of.
- What stands still is in every listing (`FoundItem`), with its line
  (`LineFixes`, `Carries`); and an index that carries the line of a place reads,
  resolves, counts and lists that place as the tree does (`CarriedReads`,
  `CarriedLine`, `CarriedAncestors`, `CarriedChild`).
- An export that meets no dangling id names each container by its room and its name,
  which are different for different containers of one listing, and rooms by theirs.

The attempt corrected the model once: `Walk` and `Subtree` of a container that is
not there were everything, as the least set containing the seed; the query starts
from `FROM containers WHERE id = ?`, which selects nothing
(`internal/storage/containers.go:66-77`).

**Web.** `SettledShowsTheQuery`, `OwnWritesAreShown` and `RevocationIsExact`, for
any texts and any number of requests, refreshes, writes and tokens. For the search
(`SearchInv`): every request but the one of the current controller is aborted, and
while the search is loading that one is not, and is about the query, unless the
timer runs for it. For the page (`PageInv`): whatever a refresh on its way has
read is no older than the page's own writes, unless refreshes overlapped. For the
tokens (`TokensInv`): an id under the sequence that is noted keeps its key as long
as it is there, so that the token a revocation meets is the noted one; AUTOINCREMENT
is what makes it so. `KeyCount` numbers the keys as they are made.

Only model-checked:

- liveness (`FairSpec` of `Transactions` and of `Web`), which is out of the prover's
  reach;
- what `Rendered` makes of names that are not plain, in `candidates`, where it
  matters;
- `SecondImportIsQuiet` of documents that are not spelled as they are stored, which
  fails for some of them.

## What is not modelled

- Other writers while an import is being applied. `Backup` has none.
- Ranking of search results, queries of several terms, limits, the tag filter of
  `count_items`, the list of all rooms: functions of one listing.
- The caller of an MCP session, which keeps the scope and the policy of the
  token it was opened with (`internal/server/mcp.go` says so).
- Rendering, filters, highlighting and navigation in the web interface.
- Character folding, normalisation and validation of texts, JSON schemas,
  hashing of tokens: data, or pure functions of it.
- Contention between the server and the `token` subcommand, two processes on one
  file: in `Web` each statement is one step, and one that finds the database
  busy is a failed answer.
- Configuration, logging, headers, CORS, static files, the MCP library,
  migrations: wiring and I/O.

## Plan

What the modules above leave open, in the order it is worth taking up:

1. `Backup` with other writers during an import: which of its properties
   survive.
2. The ranking of a search against a reference definition.
