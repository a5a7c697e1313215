# Verification of the pokopia-wiki scraper

The repository builds a wiki of a game from pages of four sites. The part with behaviour
worth verifying is `services/scraper`, which does two things:

* processes, each started by hand or by cron, crawl the sites slowly and politely. They
  share a directory `data/state` and agree there on who is crawling, on what is done, on
  which site has to be left alone and for how long;
* a command line turns a page into rows of a database: some forty parsers, some thirty
  loaders, and what happens to whatever could not be read or stored.

This directory models both in TLA+, checks them with TLC on small instances and proves with
TLAPS, for every number of processes, sources and pages, the central properties of the first
and of the second what does not depend on the content of documents.

Paths below are relative to `services/scraper/src/` unless they start with `shared/` or
`docs/`. "§" refers to `docs/CRAWLING_STRATEGY.md`.

## 1. The system

### Components

| Component | Code | State | Operations |
|---|---|---|---|
| Concurrency guard | `scheduler/concurrency-guard.ts` | `active-sessions.json` and its `.lock`; nothing in memory | `acquire`, `release`, `touchLastRequest`, `listActive`, `reconcileOnBoot` |
| Crawl state | `state/crawl-state.ts`, `shared/src/fs/atomic-write.ts` | `crawl.json`; per process a cached copy and a write timer | `read`, `flush`, `markCompleted`, `recordFailure`, `setCooldown`, `setHealthScore`, `startSession`, `incrementRequestCount`, `endSession` |
| Session manager | `scheduler/session-manager.ts` | none of its own: the progress of `runSession` | `bootstrap`, `runSession` |
| Error reaction | `error/reaction.ts`, `error/classify.ts` | per process: blocks counted per source | `react`, `handleBlock`, `handleSoftThrottle`, `reset` |
| Detection and health | `detection/` | scores in `crawl.json`; a window of response times | `applyForPersona`, `detectBotFlags`, `record`, `isThrottling` |
| Persona manager | `persona/` | one state file per persona | `touch`, `penalize`, `retire`, `markWarmed`, `cooldown`, `isCoolingDown`, `pickActive`, `forSource` |
| Rate limiter | `rate/` | a counter file and its lock per source and kind; per process a 30 s memory of the guard's answer | `acquire`, `currentCount` |
| HTML cache | `cache/html-cache.ts` | two files per page | `getOrFetch`, `get`, `set`, `isExpired` |
| Notifier | `notifier/` | two queues, a batch, `events.jsonl`, a deduplication table | `notify`, `shutdown`, the immediate worker, the timed flushes |
| Fetchers | `fetchers/` | an open browser context | `fetch`, `ensureContext`, `close`; choice of the tier |
| Database loaders | `loaders/` | rows of PostgreSQL | `upsertBySourceSlug`, one loader per kind of page, `dispatchLoader`, `isolateInvalidEntries` |
| Circadian, daily summary | `scheduler/circadian.ts`, `daily-summary.ts` | the last summary sent | `nextSessionStart`, `maybeRunRecovery` |
| Command line | `index.ts` | the progress of a run | `main`: fetch or fixture, parse, isolate, load, exit |
| Robots | `robots/checker.ts` | rules per source | `load`, `loadFromDisk`, `isAllowed`, `reloadIfChanged` |
| Parsers | `parsers/` | none | one parser per kind of page: document to entities and issues |
| Behaviour, fingerprint, API | `behavior/`, `fingerprint/`, `browser/`, `services/api` | none, or a page of a browser | mouse, pauses, injected scripts |

### How they interact

`SessionManager.runSession(params, fn)` is the spine. It asks the crawl state and the
persona manager whether source and persona are cooling down, asks the guard for the
session, records it in the crawl state, lets a factory open a fetcher and hands everything
to `fn`. What `fn` meets on the pages goes through classification to the error reaction and
the health scorer, which write cooldowns and scores into the crawl state and the persona
file and answer with a directive (`abort-session`, `retry`, ...). In `finally` four things
run at once under `Promise.allSettled`: close the fetcher, release the guard, end the
record, notify. Between processes there are no messages; everything passes through files:

* `active-sessions.json` is read, checked and rewritten under a file lock; entries of dead
  processes are recognised by pid and host name and removed on the way;
* `crawl.json` has no lock: every process caches it once and then writes the whole of it;
* persona files and page caches have no lock either; rate counters have one.

The command line is separate from all this: `main` parses one page (from a fixture: see
section 5 for its live mode), isolates each issue in a file, and hands the entities to the
page's loader, which upserts rows by slug and content hash, looks up what they refer to and
replaces their children, one access to the database at a time and without a transaction.
Runs share nothing but the database; they are started one after the other.

Nothing in the repository yet calls the rate limiter, and the notifier is wired only by
scripts (`dry-session`, `notifier-test`); the session manager is run by `dry-session.ts`.

### What is hard about it, and what makes it correct

* **Guard.** Awaits between looking for the file, creating it, locking, reading and
  writing; processes that die in between, locks left behind, pids used again. Correct when
  sessions that the rules exclude never overlap, a session in progress stays listed, only
  the dead are reaped and every call returns.
* **Crawl state.** `update` yields between reading the copy it changes and replacing it; a
  timer may write behind the caller's back; writes fail and renames land in any order;
  several processes overwrite each other. Correct when no update is undone in a process,
  the file never goes back and what was completed is saved in the end.
* **Session manager.** Gates that are passed before the grant and not looked at again,
  steps that fail half way, a clean-up in any order, cooldowns recorded by others.
  Correct when sessions exclude each other from grant to release, no session begins on a
  source that is to be left alone, reactions never shorten a cooldown and nothing of a
  session is left when the call returns.
* **Rate limiter.** Like the guard, plus midnight and a remembered answer. Correct when no
  day is granted more than its limit and each day's alert is sent once.
* **Parsers.** A row that cannot be read among rows whose slugs come from their position,
  headers in the middle of tables, units that stand for more than one entity. Correct when
  a bad row takes away its own entity and nothing else.
* **Loaders and command line.** Rows, hashes and children written one by one without a
  transaction, lookups that find nothing, faults and kills between any two accesses, pages
  that write the same rows. Correct when a load that reports success has stored everything
  whatever earlier runs left behind, a repeated load writes nothing, and each failure is
  isolated in a file of its own.
* **Notifier.** Flushes of timers and of `shutdown` that overlap and fail, a bound, a table
  of times that is written and read without being awaited. Correct when an event is in one
  place until it is sent, given up or dropped, `shutdown` ends and has tried what it found,
  and no event is repeated within its window.
* **HTML cache.** Two files that belong together, written in place and in parallel. Correct
  when a page is served with its own metadata and not too late.
* **Persona manager and health.** Unlocked read-modify-write beside another program, two
  writes that belong together. Correct when no point is lost and a persona that is worn
  out rests.

The full list, each at its line, is under "hazards" in `PROJECT.json`.

## 2. The modules

| Module | Models | Remarks |
|---|---|---|
| `SessionExclusion` | what the scheduler promises | abstract specification: sessions granted in one step, only when compatible |
| `ConcurrencyGuard` | `scheduler/concurrency-guard.ts` | await by await; refines `SessionExclusion` |
| `ConcurrencyGuardProofs` | | TLAPS |
| `CrawlData` | the content of `crawl.json` and the mutators | pure operators, shared by the next two |
| `CrawlStore` | what the crawl state promises | abstract specification: loads, updates and copies of the whole record that are saved or lost, written at once or deferred |
| `CrawlState` | `state/crawl-state.ts`, `shared/src/fs/atomic-write.ts` | caches, timers, writes that overtake each other; refines `CrawlStore` |
| `CrawlStateProofs` | | TLAPS |
| `SessionManager` | `runSession`, `handleBlock`, `handleSoftThrottle`, `applyForPersona`, `ensureContext` | composes guard, crawl state, persona cooldown and browser; refines `SessionExclusion` |
| `SessionManagerProofs` | | TLAPS |
| `RateLimiter` | `rate/limiter.ts` | one counter file; calendar and clock |
| `RateLimiterProofs` | | TLAPS |
| `ParsePage` | `parsers/base.ts` and what all parsers share | documents as blocks of rows, results as entities and issues |
| `ItemPages`, `PokemonPages`, `WorldPages`, `RewardPages` | `parsers/serebii/` | an operator for each parser |
| `LoadOps` | `loaders/upsert-loader.ts`, the keys of `prisma/schema/` | operations of the database |
| `Loaders` | `loaders/*-loader.ts` | an operator for each loader: the operations it plans |
| `PageRegistry` | `loaders/registry.ts`, the registry of `index.ts` | which parser and which loader a page has |
| `ScrapeCli` | `main` of `index.ts`, `loaders/invalid-isolator.ts` | composes parsers, loaders and database; faults |
| `ScrapeCliProofs` | | TLAPS |
| `EventDelivery` | what the notifier promises of each event | abstract specification: urgent events one by one, the others by level |
| `Notifier` | `notifier/index.ts`, `notifier/events.ts` | queues, worker, timers, times of deduplication; refines `EventDelivery` |
| `NotifierProofs`, `NotifierQueueProofs` | | TLAPS |
| `HtmlCache` | `get`, `set`, `isExpired` of `cache/html-cache.ts` | one entry, a step for each opening and write of a file |
| `PersonaHealth` | `persona/manager.ts`, `detection/health-scorer.ts`, `detection/monitor.ts` | one state file, a step for each read and save |
| `Access` | `fetch` of `fetchers/playwright-fetcher.ts`, `reportSignals`, `persona/warmer.ts` | composes `HtmlCache` and `PersonaHealth` into the sessions of a persona |
| `AccessProofs` | | TLAPS |
| `MC*` | | instances for TLC |

### How state and actions correspond to the code

**ConcurrencyGuard.** `exists`, `file` and `lock` are the file, its entries and
`active-sessions.json.lock`; `st`, `op`, `req`, `snap` are the program counter, the method,
its arguments and the list read under the lock; `sess` is the session a process believes
it has. A call of `withLock` is `Access`, `CreateFile`, `TakeLock` (or `GiveUpLock` after the
retries), `ReadReconciled`, one of the `Commit...` actions and `Unlock`. `Die` may happen at
every one of these, `ExpireLock` is the takeover of a stale lock by `proper-lockfile`
(external). A process slot is a host and a pid: starting again reuses the pid. What other
hosts run is never judged (`LooksAlive`), as in the code. Tiers and personas come with the
request; times are a small clock, the stagger a constant.

**CrawlState.** `disk` is the file, `cache`, `timer` and `debounced` are per process,
`pc`, `op`, `snap` per chain of awaits (a caller), `inflight` is what a write is carrying.
`update` is `BeginRead`, possibly `ReadFile` and `Load`, then `Mutate`, which changes the
cache and begins the write or sets the timer, and `CallWriteEnds`, which is the rename or a
failure. `TimerFires` starts a `flush` that nobody awaits. `Die` drops all of it.
A timer waits for its own last write: a write takes milliseconds, `debounceMs` is longer.
`Remembered` maps this to the memory of `CrawlStore`: the cache, or what a call has read for
it; `inflight` is the copies on their way. A read of the file is then a load, a mutation an
update (which sets out with a copy, or defers), a timer or a `flush` that begins a write is
`Write`, a rename `Arrive`, a failed write `Lose`, a death `Forget`, a start `Choose`; every
other step changes nothing.

**SessionManager.** `st` is how far `runSession` has come: `CheckSource`, `CheckPersona`,
`Granted` or `Refused`, `Open` or `OpenFails`, then the action (`ReportBlock`,
`ReportSoftThrottle`, `ReportSignals`, `OpenContext`, `ActionEnds`), then the branches of
`finally` that are in `todo`, in any order. Three simplifications, each justified elsewhere:

* the guard is one atomic step, since `ConcurrencyGuard` is proved to implement
  `SessionExclusion`; what a failed release leaves in the list stays in `entry`;
* an update of `crawl.json` by a process is one step (`debounceMs` is 0 where the scripts
  construct it, and `CrawlState` shows that one call at a time then leaves the file equal to
  the cache); the write may fail after the cache has changed (`Recorded`);
* an action that is answered `abort-session` ends, in the step of the block. `error/reaction.ts:5` has the session
  manager carry the directive out, but `reportError` only returns it to the action: nothing
  enforces it, and the model assumes actions that obey.

`CloseFetcher` closes the browser or leaves it open, since the fetcher swallows what `close()`
throws; such a browser counts as left over until its process ends, like the one of
`OpenContextFails`.

**RateLimiter.** One counter file (each source and kind has its own) with its lock. `st` is
how far `acquire` has come: `EnsureFile`, `CreateFile`, `TakeLock`, `ReadRecord`, one of
`RememberTier`, `AskGuard`, `GuardFails`, then `Bump`, `BumpFails` or `Exceeded`, `Unlock` (or
`UnlockFails`: the call fails although it is counted, and the lock is left to expire) and
`Notify`. What a call keeps in variables of its own is reset when it is over (`Forgotten`). `day` is the date in Seoul and may change at any tick, whatever the process is
waiting for; `clock` measures the 30 s for which the guard's answer is remembered.
`higher` is the environment: since when a session of tier 1 or more has been running.
`granted`, `late` and `alerts` are history, kept for the properties only. `GuardFails` is
also the limiter that was given no guard.

**Parsers.** A document is a sequence of blocks (a table or a section), a block a sequence of
rows, a row a record of what its cells hold: the slug of a link, a name, a number; an empty
string or 0 is a cell that could not be read. What the regular expressions accept
(`PlainTokens`), and what `slugify` and its kin make of a name (`SlugOf`, `StripOf`), are
constants. A parser is an operator that chooses its tables and walks their rows with the
guards, defaults and positions of the code; the result has the entities and an issue for
each failure, and nothing of their wording. Choices are `CASE`s and filters, running
counters are positions; `RECURSIVE` is not used.

**LoadOps, Loaders.** The database maps a table to rows by slug, or by owner for the tables
of children; a row keeps the data its hash was computed from. A loader is given the entities
and what its lookups see, and returns up to two rounds of operations: `upsert` (with what it
compares: the hash, one field, nothing), `patch`, `replace` (delete, then create), `fail`.
Keys that the schema makes unique refuse a row (`Clashes`), and so does the one column that
must be set and that a loader may give as null, the restored PP of a food (`Lacks`).

**ScrapeCli.** `pc` is how far `main` has come: `Start`, `FetchAndParse` or `LiveFetchFails`,
`Isolate`, `Lookup`, then for each operation `WriteRow`, `OpFails`, `GiveUp`, or
`DeleteChildren` and `CreateChildren` with a step in between, `LookupAgain` for a second
round, `Report`. `Crash` may happen anywhere, and a fault at any access: a fixture that is not
there or a parser that throws (`FixtureFails`), a file of the isolation or of a dry run that
cannot be written (`IsolateFails`, `ReportFails`), a lookup or an operation of the database
(`LookupFails`, `OpFails`); their number is bounded by `MaxFaults`. `prev` remembers the run
before for `Idempotent`, and how many faults there had been when this one began for
`ExitTells`.

**Notifier.** `queue`, `immediateQueue`, `worker`, `lastSentAt` are the fields; `sending` and
`inFlight` the messages in the air, `writes` the snapshots being written to the file of
times, `life` how far `shutdown` has come. In `EventDelivery` the immediate queue is `line`,
what waits in `queue` is `batched`, what worker and flushes carry is `messages`; timers, files,
the clock and the stages of `shutdown` change nothing there. Each `notify` is a call `n` with the type
`EventOf[n]`; its steps are `Skip`, `PushImmediate`, `PushBatched`. `fate`, `tried`,
`inTime`, `lastPush`, `sure` are history. `AtPositions` is the `filter` of a queue, told by
the ranks of positions and without recursion, so that it can be reasoned about. Unlike the code, which flushes a level again at the
next tick of a timer even if the last send were not over, a timer waits for its own message:
sends time out in seconds and timers fire every ten minutes.

**HtmlCache, PersonaHealth, Access.** `html` and `meta` hold the number of the fetch they are
from, or are torn while they are written. `file` is the state file; `report` is
`applyForPersona` (`ReportBegins`, `PenalizeReads`, `PenalizeSaves`, `Judge`, then
`RetireSaves` or `CooldownSaves`), `warmer` is `markWarmed`. History is what the
reports have taken off (`total`), how much of it was written while `markWarmed` had its copy
(`atRisk`), when points were last lost (`lastDrop`), whether since the last verdict a report
was cut off or undone (`interrupted`), and of the cache whether the last `set` has not ended
(`dirty`), when it began (`begunAt`) and when the page that is there was fetched (`fetchedAt`). `stage` is what the
session does. One session follows the other, since the guard has one of a persona at a time.

Left out because no property is about them: the notifications of a session, texts, the phase and plan of a
session, the choice of pages; in the loaders the fields of a payload that are the same for every row of a page
(the category of a building kit) and the texts of a legendary's unlock and effect; the first read of the state
file in `applyForPersona`, which it only reports. `Resolved` puts the failed lookups of a
loader before its operations, where the code has them in the order of the inputs: nothing tells the two apart.

Failures that the models do not have:

* a state file that cannot be read or parsed, which the code takes for an empty one: the guard's list
  (`concurrency-guard.ts:291-311`), the crawl state (`crawl-state.ts:128-137`, with the repairs of
  `normalizeState`, `:300-363`), a counter (`limiter.ts:236-263`), a persona (`manager.ts:127-134`). Each is
  written to a temporary file and renamed, so that a kill leaves none behind that is
  torn; a hand edit or a disk that fails to read may, and the state is then forgotten without a word. With such a
  step, no property about what is remembered would hold of any of them;
* the domains of the schema's enumerations, which may refuse a row: the zod schemas of the parsers
  have such domains too, and that the two agree is not checked here.

## 3. The runs

| Run | Instance | Shows |
|---|---|---|
| `guard` | 2 processes on one host, 3 requests (tiers 0, 1, 3), clock to 2, stagger 2 | inductive invariant (the type invariant is part of it), exclusion of sources and personas, sessions stay listed, removal is justified, rule 4 at the grant, refinement, every call returns |
| `guard_first_use` | the same, both may start before the file exists | *violated*: two sessions of one source |
| `crawl_state` | 1 process, 1 caller, 9 operations, up to 4 calls, with and without timer | no update undone, the file never goes back, saved at rest, completed pages reach the file, `CrawlStore` implemented |
| `crawl_flush_race` | the same, with timer | *violated*: after `flush` the file may lack the last update |
| `session_manager` | 2 interchangeable processes, a tier-1 source with a persona and a tier-0 source, 2 calls in all, two blocks each, clock to 1 | exclusion from grant to release, known cooldowns honoured and never shortened, complete clean-up |
| `session_stale_cooldown` | the same | *violated*: a session begins on a source in cooldown |
| `session_cleanup` | the same | *violated*: two persona browsers at a time |
| `scrape` | every page of the registry in a clean and a broken document; dry runs, loads, repeated loads, a load after a broken one; one kill or fault of a file or the database anywhere | a bad row stays alone, failures and issues are isolated, each exit code tells the truth and no fault is swallowed, success means stored, a repeated load writes nothing but the rows that are given twice or without a comparison, one row is written at a time and only by loads, every run ends |
| `furniture_flags` | items, magnet-rise, furniture | *violated*: only the flags of an item change |
| `notifier` | 2 blocks, a warning, an info; queue of 1, window 1, one failed send, one restart, clock to 2 | each event in one place, tried before `shutdown` ends, not repeated, `EventDelivery` implemented, settled in the end |
| `access` | 3 fetches of 4 kinds of answer, 3 reports, 1 warming, clock to 4, cache good for 1, rest of 2 | no point lost but beside a warming, the page served in time also after a `set` that was cut off, the persona rested again after the next verdict whatever was cut off or undone |
| `rate_limiter` | 2 interchangeable processes, limit 2 (halved 1), 2 days, 2 ticks, memory of 1 tick | the limit of a day, one late grant at most, one alert a day, the halved limit in time |

Why the bounds are enough. Conflicts are between two sessions and races between two
processes, so two of each show every kind of interleaving; more of them are covered by the
proofs, which have no bounds at all. Hosts that share a pid are too; `Proc = {p1, p3}` in
`MCConcurrencyGuard.cfg` is that instance for TLC and passes as well. In the guard the clock passes
the stagger once. In the crawl state four calls are one to fill the cache, one to change it,
one that overtakes and a flush; two processes lose each other's updates, which is the
business of `session_stale_cooldown`. In the session manager two calls are one that records
a cooldown or fails to clean up and one that meets what it left; two blocks of a process are one
that escalates and one after it, with throttles in between or behind. In the rate limiter a limit
of 2 has a last grant, a refusal, a halved limit and an 80% mark below it; two days have the
one midnight that matters; two ticks let the remembered answer age past its time.

In `scrape` each page has good rows before, between and after bad ones, and what it refers to
is loaded before it or missing; one fault is enough to leave any partial state, which the
next load meets. In the notifier a queue of one place is full at once; two events of one
type meet the window, before and after a restart; one failed send meets each overlap of
flushes. In `access` the first fetch fills the entry, the second replaces it or is cut off,
the third is served after that; three reports take a persona below fifty, below twenty and
beyond zero; the clock passes the age of an entry and a rest that began late.

The runs of the crawling processes (guard, crawl state, session manager, rate limiter) check
deadlock too: none of them stops, since a process may always die or start. `scrape` ends
with its jobs, `notifier` with its calls and restarts and `access` with its bounds, so these do not.

Fairness. `guard`: a call that has begun proceeds as long as its process lives (weak
fairness of the steps of each process): node runs every awaited step that can run, the
lock's retries are bounded. Nobody has to call, to die or to end a session.
`crawl_state`: the same for the steps of calls and timers. The session manager has only
safety properties, since an action may take forever, and so have the rate limiter, whose lock
is the guard's again, and `access`. `scrape`: an access to the database ends or fails, so the
run goes on unless it is killed. `notifier`: the event loop runs what is ready, timers fire,
and a send or a write ends, with an answer or at its timeout; nothing is assumed of calls,
deaths and restarts, and a send fails at most `MaxFails` times.

## 4. The proofs

All theorems hold for any sets of processes, hosts, sources, personas and requests that
meet the named assumptions, and without a bound on time where the module has none.

* `ConcurrencyGuardProofs`: `GuardInv` is inductive. Its core is `LockHeld` (who is between
  taking and giving back the lock is its holder), `SnapshotFresh` (hence what it read is
  what the file holds when it writes) and `EntriesExclusive`; `CreatedAlone` says that the
  unlocked creation meets no other process and needs the assumption `SoloFirstBoot`, the one
  `guard_first_use` shows to be necessary. From it follow the exclusions, `SessionsRegistered`,
  `RemovalJustified`, `StaggeredGrant` and the refinement of `SessionExclusion`.
  Assumed: pids of live processes of a host differ; one source only has tier 0.
* `CrawlStateProofs`: `CrawlInv` is inductive when a process makes one call at a time
  (`OneCallPerProcess`, as the session manager does): the copy that a mutator is given is
  still the cache it replaces. From it follows `UpdatesKept`. `UnderWayInv` adds what is on
  its way: nothing of a process that is not up, and without a debounce only what the cache
  holds now. From both follows that `CrawlStore` is implemented (`ImplementsStore`), by any
  mix of processes with and without a debounce. Up to here nothing is assumed about how
  many processes there are, which writes fail or when. That a copy is what its process has in
  memory at the rename is promised without a debounce only; with one, a timer may save what
  has been changed since, which is what `crawl_flush_race` shows.
  `PersistedAtOnce` and `FileKept` need one process at a time (`SoleProcess`; with two, TLC
  finds both violated, which is what `session_stale_cooldown` is about) and `SavedInv`: what
  a call has read is what the file still holds, and the cache has all of the file and is
  equal to it but for a write that is under way or has failed.
* `SessionManagerProofs`: `SessionInv` is inductive. `Guarded` ties a session to its entry
  through every failure, `EntriesExclusive` covers entries a failed release has left,
  `GatePassed` says that what the process knows about its source is still what it knew at
  the gate, `CleanedUp` relates the branches still running to what is still open. From it
  follow the refinement, `KnownCooldownHonoured`, `CooldownsOnlyGrow`, `CleanupComplete`.

* `RateLimiterProofs`: `LimiterInv` is inductive under `SoloFirstUse` (the first use of a
  counter meets no other process; with it FALSE, TLC finds `DailyLimit` violated in the same
  way as `guard_first_use`). `RecordCurrent` says that who counts has the file's record of
  the day it took down and that no file is dated after that day; `Counted` then bounds the
  grants of a day by what the file says. `LateOnce`: who is behind the calendar holds the
  lock, and the next holder is not. `AlertsSingle`: whoever has an alert to send has already
  marked the file. `MemoTrue`: a remembered "no" was true when given. From it follow
  `DailyLimit`, `OneLateGrant`, `AlertOncePerDay` and `SlowedDown`, for every limit, number of
  processes and calendar.

* `NotifierProofs`: `NoRepeat`, for every set of calls and every window. `FileKnows` says
  that while a new process loads its times nobody writes the file, and it has the last time
  of the types that are sure; `MemoryKnows` that afterwards memory has it, or it is older
  than the window, because what is too old to be loaded (`DEDUP_RETENTION`) is past the
  window too: the assumption `DEDUP_WINDOW <= DEDUP_RETENTION`, five minutes and an hour.
* `NotifierQueueProofs`: `NotifierInv` and `Drained`, for every set of calls, bound and number
  of failures. `Accounted`, the equality of numbers in `NotifierInv`, is not inductive: it does not
  say that what the worker takes is not also in a batch. `QueueInv` says where each event
  is: in one place (`Apart`), once (`Distinct`), on the side of its severity (`Sorted`), and
  that the open events are those that are somewhere (`OpenHeld`). That a flush divides the
  queue into what it takes and what stays (`FlushDivides`) rests on lemmas about ranks of
  positions. `DrainInv` says that what was queued in time has been in a message, was dropped, or
  is still where `shutdown` will come by: with the worker while it is awaited, in the queue
  before the flush of its level.
  The same invariants and `TimesInv` (times are recorded of urgent events only, so a warning is
  never passed over) give `ImplementsDelivery`: each step of `notify`, worker, flushes and
  `shutdown` is a step of `EventDelivery` or changes nothing in it. How many events
  a full queue keeps rests on `Distinct`, that one urgent event is sent at a time on `Sorted`.
* `ScrapeCliProofs`: `ExitTells` and `OneRowAtATime`, for every document, page and schedule,
  from `RunInv` (which stage has what planned, tried, half done; `Noted`: a fault that a run
  survives is among its failures, so that it cannot end with 0). Nothing is asked of parsers
  and loaders. Further the generic half of `Stored` and `Idempotent`: `OperationDone` (an
  operation that is not refused leaves behind what it is for), `StaysDone` (until another
  operation on the same row), `RepeatedUpsertSkips`.
* `AccessProofs`: `HealthInv`, `ServedWhole`, `Rested`, for every set of responses, age and
  rest. `Paired` says what of the two files is written during a `set`, `Ordered` that numbers and
  times of fetches grow together, so that a page which is not older than its metadata is not
  served too late; `Counted` that every copy of the state file that is still to be written back
  accounts for the points as well as the file does, `Verdict` what the verdict of a report in
  progress will find, `Resting` that the rest the last verdict gave is in the file; each holds for the steps of the other component because they share no
  variable, so there is a lemma for each operation.

Only model-checked:

* `RowByRow`, `Stored`, `Idempotent` and `TypeOK` of `scrape`. What a parser finds and what
  a loader plans comes from `SelectSeq`, `FlattenSeq` and folds over documents, thirty to
  forty times with another predicate; that such a value is even a sequence needs induction over
  data with the predicate as a parameter, which the provers cannot instantiate. For the same
  reason the proofs know nothing of the tables and slugs a plan names. `Stored` and
  `Idempotent` also depend on what a page's loader looks up and on rows of other pages.
* `NothingLost`: whether two names of files differ is a question about the characters of
  strings (`ToString`, `\o`), which are atoms to the provers. The half about the exit code
  is in `ExitTells`.
* `Settled`, `EveryJobRuns`, `CallsReturn` and `CompletedIsSaved`: liveness under fairness.

## 5. What was found

With a run (see "findings" in `PROJECT.json`):

1. The guard creates its file outside the lock (`concurrency-guard.ts:276`).
2. `flush` does not wait for a write the timer has begun (`crawl-state.ts:169`).
3. The cooldown gate is neither repeated after the grant nor fed from the file
   (`session-manager.ts:154`).
4. The guard is released while the browser may still be open (`session-manager.ts:199`).
5. The furniture page replaces the whole row of an item, not its two flags
   (`furniture.ts:13-15`); the flag of the magnet-rise page is lost.

Met while modelling; the model does what the code does, and the property says what is left:

* The live mode of the command line never loads the rules of robots.txt and ends before its
  request (`index.ts:255`).
* A crash during a `set` over an old entry leaves a page with other metadata
  (`html-cache.ts:179`).
* Pages of refusal at status 200 are cached (`ky-fetcher.ts:167`).
* A retired persona is let in at once (`manager.ts:106`, `persona/types.ts:101`).
* The recovery of the daily summary runs at the first boot of each day
  (`daily-summary.ts:157`).
* Variants of dream islands and event pokemon refer to rows that nothing stores
  (`locations-index.ts:76`, `event-loader.ts:43`); the pages `location-*` cannot be read from
  fixtures (`index.ts:284`); two pages have no loader (`loaders/README.md:53`).
* The notifier drops newer events before older ones after a failed flush, may lose events at
  `shutdown`, and may forget or misplace times of deduplication at a restart
  (`notifier/index.ts:40`, `:43`, `:192`).

Met while reading, not modelled:

* `touchLastRequest` is called by nobody, so rule 4 measures from the start of the tier-0
  session.
* Entries reaped by `acquire`, `release` or `listActive` raise no `scraper.crashed`; only
  those found by `reconcileOnBoot` do.
* When `newContext` or the fingerprint throws after `launch`, the browser stays
  (`fetchers/playwright-fetcher.ts:159-175`; modelled as `OpenContextFails`), and so may one
  whose `close()` fails (`:183-188`; `CloseFetcher`).
* §6.4.1 slows tier 0 down by doubling the delay between requests; the limiter halves the
  daily limit instead. `maxPerSession` of `rate/config.ts` is enforced nowhere.
* When the limit is halved at a count already above the half, requests are refused although
  the 80% alert was never sent.
* The rate limiter creates its files outside the lock, like the guard (`limiter.ts:244`).
* The pauses of 30 minutes and 2 hours of §6.4.1 and §6.4.2 are not implemented.
* A food without restored PP is refused by the schema, as `item-extension-loaders.ts:51-53`
  expects; each page of flavors with one ends with 2 (modelled as `Lacks`).
* The failures of a loader's first round are lost when a lookup of its second one throws: the
  run ends with 1 and isolates none of them (`index.ts:428`; `LookupFails`).
* The loaders of food and trade values compare one field of a row and leave the others as
  they were when it has not changed (`item-extension-loaders.ts:92`).

## 6. Not modelled, and what is next

Next: `ErrorReaction` (the directives as a function over kinds and attempts), the daily
summary with its recovery, two runs of the command line at a time.

Not modelled and not planned: the text of cells, the selectors and the wording of issues;
`touch`, `pickActive`, `getOrFetch` and the window of response times, which nothing calls;
random session times, mouse paths, fingerprints and injected scripts (random numbers and
I/O), the API template, the data base client, redaction of secrets.
