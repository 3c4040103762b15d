# Cata-Log in TLA+

Models, model-checking configurations and machine-checked proofs about Cata-Log
(`src/src/cata_log_hub`, abbreviated `hub/` below), the hub that downloads the
catalogs of grocery stores page by page, keeps them in a database and a page
storage, and serves them over a REST API and OPDS feeds.

The program is one Python process: a FastAPI application whose synchronous
handlers run concurrently in a thread pool, and an APScheduler
`BackgroundScheduler` with one worker thread for all jobs. Two databases
(catalogs, jobs) and a directory of page files survive it. What is hard about it
is the interplay of the worker's session, the handlers' sessions, the job store
and the files, none of which share a transaction.

## 1. Inventory

| Component | Source | State | Operations | Correct if |
|---|---|---|---|---|
| Catalog store | `database/models.py`, `database/signals.py`, `jobs.py` | tables of providers, catalogs, pages and page files; the page directory; the worker's session | `fetch_provider`, `cleanup_catalogs`, `cleanup_storage`, insert and delete of a provider | readers see whole catalogs, every page has its row and file, nothing in use is removed, what is unused goes in the end |
| Job scheduling | `scheduler.py`, `jobs.py`, `Provider.add_job` | job store, queue and counts of the pool, the run at work | submission, misfire, end, error, retry listener, restart | one run of a job at a time, network errors retried once, no job lost |
| Provider handlers | `api/v1/providers.py`, `database/signals.py` | provider rows with `job_id`, jobs in the store, the sessions of the requests | post, patch, delete, job/run, add job, remove job | rows and job store agree, configurations are unique |
| Fetch protocol | `providers/base.py`, `exceptions.py` | HTTP client, catalog data, page number | construct, `iter_catalog_pages`, error translation, `Preview` | every page once and in order, each failure ends as the documented warning |
| Page numbering | `utils/page_numbers.py` | none (pure) | next, prev, conversions, arithmetic | page and double page stay the same page |
| Provider classes | `providers/*.py`, `utils/dates.py` | none (pure over the clock) | addresses, `_get_valid_since/until` | the window contains the day the catalog was fetched for |
| Registry and plugins | `providers/__init__.py`, `providers/plugins.py` | class registry | load at start-up | a uid names one class |
| Queries, pagination, feeds, epub | `api/v1/catalogs.py`, `api/v1/pages.py`, the reading half of `api/v1/providers.py`, `api/v1/pagination.py`, `opds.py`, `utils/queries.py` | none (reads, in several queries) | latest, current, previews, outdated, all; one catalog or page as JSON, PDF, EPUB or file | each catalog in the right lists, documents whole, nothing missed when turning pages |
| Health check | `health.py` | a test file in the page directory | `check` | a failing server is reported, a healthy one is not, no file stays behind |
| Wiring | `app.py`, `settings.py`, `security.py`, `static.py`, `web/`, `logging.py`, `migrations/` | configuration | start-up, credentials | - |

How they interact: a request handler writes provider rows, whose insert and
delete events (`signals.py`) call the scheduler; the scheduler's loop submits due
jobs to its one worker; the worker opens a session, constructs the provider
class, pulls pages from it and stores them through `PageFile.get_or_create`,
which flushes a row and then writes a file; the page and page file delete events
remove rows and files again. Exceptions of a job come back to the
scheduler as events, from which the listener schedules a retry.

The hard behaviours, each listed with its line under `hazards` in
`PROJECT.json`: sessions that use what they loaded before a lock was taken; rows,
files and jobs written without a common transaction, with crashes and lock
timeouts between the writes; events fired in the middle of a flush; runs that
are dropped, delayed, repeated or lost at a restart; readers who query while catalogs
come and go; date and page arithmetic at its boundaries.

## 2. Modules

| Module | Role | Status |
|---|---|---|
| `CatalogStore` | the catalog store, step by step | checked and proved |
| `CatalogService` | what the store promises its readers; `CatalogStore` implements it | checked and proved |
| `CatalogStoreProofs` | all safety properties of the store; it implements the service | proved |
| `MCStore` | symmetry for the store's runs | |
| `JobScheduler` | scheduler, pool, retry listener, restarts | checked and proved |
| `JobSchedulerProofs` | one run of a job at a time; no retry of a retry | proved |
| `ProviderJobs` | the provider handlers over rows and job store | checked and proved |
| `ProviderJobsProofs` | all safety properties of the handlers | proved |
| `MCProviderJobs` | symmetry for the handlers' runs | |
| `PageNumbers` | page numbers and double page numbers | used by `ProviderFetch` |
| `PageNumbersProofs` | conversions and turning agree | proved |
| `ProviderFetch` | one fetch of one provider class | checked and proved |
| `ProviderFetchProofs` | all safety properties of a fetch | proved |
| `ProviderWindows` | the days and addresses of every provider class | checked and proved |
| `ProviderWindowsProofs` | windows, addresses and week numbers | proved |
| `HealthCheck` | the health check, its test file and the sweep | checked and proved |
| `HealthCheckProofs` | all safety properties of the health check | proved |
| `CatalogReads` | GET handlers and feeds, over `CatalogService` | checked and proved |
| `CatalogReadsProofs` | all properties of the readers | proved |
| `MCReads` | windows and symmetry for the readers' run | |

`ProviderFetch` uses `PageNumbers`; `CatalogReads` extends `CatalogService`, which
`CatalogStore` implements, so the readers are checked against the promise and
the store against the same promise.

Each module keeps one variable per table, store or thread, and one action per
step another thread or a crash can come between; the comment over an action
names the code it stands for, and `map` in `PROJECT.json` gives its lines. Operators
marked `Mutant:` are plausible bugs in the definition below them; none is part
of a specification.

### CatalogStore

`providers`, `catalogs`, `pages` and `pagefiles` are the *committed* tables,
`expired` the catalogs whose `created_at` lies before the expiration date,
`storage` the files under `storage_path`. `worker` is the scheduler's one worker
thread with the job it runs, `tx` the rows that job has flushed and not
committed, `request` one `DELETE /providers/{id}` under way.

* `fetch_provider`: `StartFetch`, `InsertCatalog`, per page either `ReuseFile`
  (the content is known) or `FlushFile` then `WriteFile` / `WriteFails`, then
  `ReleaseFetch` and `SaveStatus`; `FetchWarns` and `FetchRaises` are the two
  ways out of the savepoint.
* `cleanup_catalogs`: `StartCleanup`, one `CleanupCatalog` or `CleanupFails` per
  expired catalog with the page delete hook inside it, `FinishCleanup`.
* `cleanup_storage`: `StartSweep` (the set of used paths and the directory
  listing), `SweepFile`, `FinishSweep`.
* `delete_provider`: `LoadDelete` (the cascade as it was loaded: catalogs, pages and
  the page files the hooks will ask for), then `CommitDelete`, `RefuseDelete` or
  `TimeoutDelete`.
* `Expire` and `Crash` are the environment.

`WriteLocked` says when the worker's session holds the database's write lock.
`SavepointCommits` tells SQLite (with the driver's transaction handling the
release of the outermost savepoint commits) from other databases (it does not).
`CanonicalPaths` says whether resolving a stored path gives the path as stored.

SQLite gives the id of a deleted row to a new one, and the ORM deletes the ids it
loaded. `InsertCatalog` may therefore take the id of a catalog that a waiting delete
has loaded and a cleanup has removed since; the delete then takes the new catalog,
whosever it is. The ids of its pages may have been given again in the same way:
`fresh` are the catalogs committed since a loaded one was gone, and `CommitDelete` takes
any of their pages besides (`hit`). `struck` is history: the catalogs that lost
pages so. The hook looks at page files as they were loaded (`request.files`). No id of
a page file is given again: the hook never succeeds in deleting a row (item 1 below).

Abstractions: contents are compared by a model value instead of a SHA-256; image
decoding and metadata are left out; loading a cascade is one step;
`cleanup_catalogs` may visit catalogs in any order; a crash is that of the
process, not of the disk. `expiration_days` is positive.

### JobScheduler

Only `scheduler.py` and the calls into it are in the repository; the loop, the pool
and the stores' lock are APScheduler's and marked `external`, with the options the
repository sets (`coalesce`, a misfire grace time, one worker, one instance of
a job). `store` maps each job to its next run time and survives `Restart`;
`submitting` is the job between its submission and the update of its next run
time, during which the stores' lock is held; `queue` and `instances` are the
pool's; `worker` runs, or runs the listener. A job id is a pair of the id it was
given and its number of `-retry` suffixes. A job with a `DateTrigger` leaves the
store when it is updated. Jitter is left out; cron jobs fire at the multiples of
`Period`. The two maintenance jobs are cron jobs like a provider's, but replaced
at every start; they are not told apart here.

### ProviderJobs

`rows` are the committed provider rows (configuration and `job_id`), `jobs` and
`oneoffs` the job store, which commits every change at once, `request` the
handlers under way with what their sessions have loaded. A handler is loaded,
checks, talks to the job store (`AddJob`, `RemoveJob`, or within the flush of
an insert or delete), and commits; from flush to commit it holds the write lock.
`Timeout` is the end of the busy timeout while another session (a fetch, for
minutes) holds it, `Crash` the end of the process. A provider id may be given
again after a delete, as SQLite does. `disturbed` is a history variable: whether
handlers have overlapped, timed out or been killed so far. Left out: notes, the
class of a provider (all are of one known class), the order in which UUIDs are
drawn, and the catalogs of a deleted provider (`CatalogStore` has them).

### PageNumbers

Pure operators, named for the methods: `NumberedFrom` and `Double` are the
constructors, `AsDouble` and `AsPage` the conversions, `NextPage`, `PrevPage`,
`NextDouble`, `PrevDouble`, `PagePlus` and `DoublePlus` the arithmetic. `NoPage` is
`None`, and the `ValueError` of a number below the first one. Python's `//` and `%`
round down, as `\div` and `%` do.

### ProviderFetch

`Provider.fetch_catalog` around one provider object, from the constructor to the
status it saves. `class` is what the error handling can tell the provider classes
apart by: how they find an image (`layout`), the number of their first page,
whether they are a `Preview`, and whether they take a missing first page for an
unpublished catalog. `Construct`, `GetCatalogData` and `GetValidity` are the steps
before the first page; `GotPage` is one round of `iter_catalog_pages`; `RunOut`
and `RefusedPage` are the ways a page fails. `BaseDataError` and `BasePageError`
translate exceptions as the base class does, `DataError` and `PageError` as
`Preview` does on top of it; an exception is its name and the `__cause__` that is
looked at. `answers` is a history variable. The shop's server, and what httpx raises
for it, is external: any request may end with a 404, another error status, a
transport error, or something unreadable, the request for the page past the last
image, which every complete fetch by address makes, as well. Left out: what the catalog data
contains, the lifetime of the HTTP client and of Penny's temporary file, and what
becomes of the pages (`CatalogStore` has it: its `FetchWarns`, `FetchRaises` and
the catalogs that end after any page are the outcomes of this module).

### ProviderWindows

One operator per provider class, named like it, from the day the class is asked on
to the issue it fetches: the window `[since, until)` it stores and the dates in the
address it requests. `Week` is `get_calendar_week_number`, `WednesdayOf` the
arithmetic of `action.py`, `WeekIssue` the `_get_valid_since` and `_get_valid_until`
most classes share, `IssueOf` the dispatch by uid. A preview asks for a later day
(`_get_preview_timedelta`). `calendar` is the weekday of the first day and whether its
year is a leap year, so the fourteen calendars of the run are all there are.
`NextDay` and `FetchCatalog` let days pass and fetch on some of them. `DescribedDay`
is what the class docstrings say, `Misses` the classes and days of which
`WindowsHoldTheDay` makes no claim, since `WindowsAsDocumented` is violated there. Kaufland, Lidl and Penny pick an entry from the
shop's list; that the entry with index *i* is the flyer of the *i*-th week from now
is the shop's, and assumed. Left out: time zones, the time of day, the name of the
market in an address, and parsing.

### HealthCheck

`pc` is where each request is in `check()`. `CheckPart` is a check that reads one part
of the server and passes or raises; `WriteTestfile` and `UnlinkTestfile` are the two
halves of `check_storage_io`, between which another request or the sweep may come.
`ListStorage` and `SweepTestfile` are `PageFile.cleanup` as far as this file is
concerned: no row names it. `Fail` and `Recover` change which parts of the server
fail, at most `MaxSick` at once; `Crash` ends requests and sweep and keeps the file.
`steady`, `ailed`, `overlapped` and `spoiled` are history variables that the
properties speak of. The thresholds of disk and memory are left out: a part is well
or it fails.

### CatalogReads

`newer` holds the pairs of catalogs whose first was created after its second
(`created_at`; `NewestFirst` sorts a list by it), `window` their `valid_since` and
`valid_until`, `classes` the providers whose class is installed, `request` one GET
under way. The lists by time, recency and provider are operators, once for the
REST lists of all catalogs, once for those of a provider, once for the feeds, since
the code writes each query anew. The steps of a request are its SELECTs and file
reads: `AskCatalog` or `AskPage`, then `LoadPages` (`selectinload`), for an EPUB
`LoadClass`, then `ReadFile` per page; a feed is `AskFeed`, `LoadProviders` and
`BuildEntry` per catalog; a walk by offset is `AskWalk` and, for each page, `CountTotal`
(the `SELECT count(*)` of the library's `paginate`) and `TurnPage` (the items), after
which the client goes on or stops by that total. `Change` is
everything that may come between two of them: a publication, an expiry, a
withdrawal, a deleted provider, a clock tick, a restart that finds other provider
modules.

`torn`, `leaves`, `asked`, `stay` and `late` are history: whether some of what the request
is about has been removed since, what was asked for, and whether a catalog was added
between the last count and its items. Once a catalog is gone its rows and
files may be (`ReadFails`), or a page's `file_id` may have been given to another
page file, since SQLite gives row ids again (`ReadForeign`); the path of a file,
which has a UUID in it, is never given again.

Abstractions: the catalogs change as `CatalogService` promises (so a delete may take
pages from a catalog that stays, which then is served with fewer, or, when none is
left, answered with a 500 as PDF and EPUB); each SELECT sees the
database of its own moment; one request at a time, as readers do not influence
each other; two catalogs are not created within the same second; a client has its
answer before the next change; the order of the lists is the default one. `Catalog.pages`
has no `order_by`, so the files of a catalog are read in any order. The cover, which an
EPUB reads before the pages and holds, is read once.

## 3. Runs

| Run | Bounds | Shows |
|---|---|---|
| `store` | 2 providers, 2 catalogs, 2 files, 2 contents, 2 pages a catalog, SQLite | `CatalogsComplete`, `PagesServable`, `OneFilePerContent`, `CleanupEffective`, `DeleteTakesOwn`, and that the store implements `CatalogService` |
| `store_live` | 1 provider, catalogs of 1 page, fair | `OrphanFilesSwept`, crashes included |
| `store_expired` | as `store_live`, without crashes and deletes | violation of `ExpiredDeleted` |
| `scheduler` | a cron job over two firings, a one-off id asked for twice | `OneRunPerJob`, `RetriesDoNotChain` |
| `scheduler_retry` | as `scheduler` | violation of `NetworkErrorRetried` |
| `provider_jobs` | 2 threads, 2 providers, 2 configurations, 3 job names, timeouts and crashes | `SequentialJobs`, `SequentialConfigurations`, `NamedJobsExist`, `NoForeignJob` |
| `provider_jobs_orphan` | 2 threads, 1 provider, no faults | violation of `NoJobWithoutProvider` |
| `fetch` | all kinds of classes, catalogs of up to 6 images | `PagesInOrder`, `HealthyIsComplete`, `NetworkErrorsSurface`, `FirstRefusalTold`, `NumberingAgrees`, `FetchEnds` |
| `windows` | all classes, days 340 to 405, all 14 calendars, at most 7 days between fetches | `WindowsHoldTheDay`, `WeekAgainstCalendar`, `AddressTellsWindow`, `WindowsTile` |
| `windows_documented` | as `windows`, the four classes in `Misses` | violation of `WindowsAsDocumented` |
| `health` | 2 requests, one failing part at a time | `SteadyFailureFound`, `FalseAlarmNeedsOverlap`, `NothingLeftBehind`, `LeftoverGoes` |
| `reads` | 2 providers, 2 catalogs of up to 2 pages, a window of 2 of 5 moments, lists of 1 | `ReadsAreWhole`, `UndisturbedReadsSucceed`, `FeedAllOrNothing`, `ListsPlace`, `ListsAgree`, `WalkMissesNone` |

Why the bounds are enough: sharing of a page file needs two catalogs (of two
providers, or of one), a hook that meets a half-deleted sharing needs two pages
of them, and every race of the store is between the one worker and one request.
A stale delete that hits another provider's catalog needs one catalog, whose id is
given twice, and two providers. The run takes over two minutes. A retry that meets a retry needs two firings. A race of two handlers
needs two threads, a stale name a second job, its repair a third.

The days of `windows` run from December over New Year into February, which has the
last full weeks of a year, the week across its end, the days before its first
Monday and the end of Kik's first four weeks; in between nothing but the number
of the week changes. The gap is the period of the weekly fetches. Two requests are
what a race for the test file needs; a failure that starts or ends within
a request needs only one failing part. In `reads`, two catalogs are the fewest of which
one may be newer, belong to another provider, or stand on another page of a list;
two pages are the fewest that may be read apart. The five moments are before, at the
start of, within, at the end of and after the one window. Only lists and feeds look at
the clock, so `ClockBound` lets every request but a feed be made at moment 0; the lists
by time are compared at all of them.

Six images are the cover, two whole spreads and one that is half empty. A fetch
stops when it ends, so this run, and no other, turns the deadlock check off.

Fairness (`fetch`): a fetch under way goes on, since requests end at the latest by
their timeout. Every fetch ends then, although the page numbers do not, because
the server has finitely many images. Fairness (`store_live`): a job that has started runs on (`JobFairness`; the thread
pool runs it); the weekly trigger starts a sweep again and again and some sweep
gets as far as each file before a crash (`SweepFairness`, strong, because fetches
and crashes take the worker away in between). `store_expired` assumes even more, a
process that does not die, no requests, and that each catalog gets its turn
whenever the loop could delete it, and the property fails nevertheless.

Fairness (`health`): the weekly job starts a sweep again and again, and some sweep
comes as far as the test file (strong, since crashes and failures of the storage
interrupt it). Nothing is assumed of the requests.

`RetriesDoNotChain` needs `RetryDelay + Grace < Period`, which the configuration
satisfies as the defaults do (1800 s + 3600 s against days). With a delay as long as
the period the retry and the next firing wait together, and a retry finds
another retry in the store.

### Where code and text disagree

1. `ExpiredDeleted`: `after_page_delete` (`database/signals.py:67`) compares the number
   of pages left with 1 after the page is gone. When exactly one page is left it deletes a
   row in use; the foreign key refuses, and the cleanup stops at that catalog in
   every run. By the same comparison the last page of a page file leaves the row, and
   with it the file, for ever: add `NoOrphanRow` to the invariants of `MCStore.cfg` and
   TLC shows it.
2. `NetworkErrorRetried`: one-off fetches and retries have left the store when the
   listener looks for them (`scheduler.py:60`), so the fetch after POST or PATCH of a
   provider, or of job/run, is never retried.
3. `NoJobWithoutProvider`: deleting a provider removes the job its row named when it
   was loaded (`signals.py:99`); one that was added in between keeps firing.
4. `WindowsAsDocumented`: by the docstrings of the classes and
   `docs/how-to-add-provider.rst:155` the window of a catalog begins when the flyer
   becomes valid. The property asks only that of the four classes of the run one at
   least stores a window with the day it is for, and TLC finds a Friday on which none
   does: the class for the second-last week (`providers/norma.py:109`) adds 14 days, so
   it is the preview for the week after next under another name; Hofer and its
   preview subtract the weekdays without the modulus that the text explains
   (`hofer.py:73`), so that from Friday to Sunday the window lies a week before the
   catalog; and Kik has `4**28` for `4 * 28` (`kik.py:70`), so its window is that of the
   first four weeks all year.

Three more are shown by adding the property named to a run:

* `ListsPlaceAlways` (invariant of `MCReads.cfg`): `docs/how-to-add-provider.rst:155`
  makes `valid_since` the moment a flyer became valid, `:190` makes `valid_until` the
  moment after it became invalid. In the former the lists have it as a preview still
  (besides as current), in the latter it is in no list by time, not even the outdated.
* `DeleteTakesNoOther` (property of `MCStore.cfg`): `DELETE` of a provider "also deletes all
  its catalogs and their pages" (`api/v1/providers.py`), but when a cleanup has removed
  one of them after the load, and a fetch of another provider has got its id, that
  provider's catalog goes with it. The trace has 19 states.
* `DeleteNotRefused` (invariant of `MCStore.cfg`): the foreign key of item 1 refuses
  the delete of a provider as well.

Two constants stand for the environment, and with the other value TLC finds two
more, which a deployment on SQLite with an absolute storage path does not have. With
`SavepointCommits = FALSE` (an external database) `CleanupEffective` fails: nothing
commits after the cleanup's loop. With `CanonicalPaths = FALSE` (a relative or
symlinked `storage_path`) `OnlyUnusedRemoved` fails: the sweep compares resolved with
unresolved paths and removes every file.

The passing properties state, as exceptions, what else a reader of the code may
not expect:

* `CatalogsComplete` and `DeleteTakesOwn`: ids given again while a delete waits may cost
  another provider catalogs, or pages of them.
* `WalkMissesNone`: a client of a paginated list may miss a catalog that stays when
  another is added between the total and the items of the page it then takes for the
  last, or when a deleted provider's catalogs leave the list.
* `WeekAgainstCalendar`: in a year that begins on Friday, Saturday or Sunday the week
  number in the addresses is one above the printed calendar's (`utils/dates.py:37`).
  Whether the shops count so too cannot be seen here.
* `AddressTellsWindow`: a week across New Year has two addresses in the classes that
  take the number of the day's week.
* `FeedAllOrNothing`: one catalog of a provider whose module is not installed turns
  every feed it is in into a 500.
* `FalseAlarmNeedsOverlap`: two health checks, or one and a sweep, may report a healthy
  server as failing.

Seen in passing, and not modelled: the links of provider entries begin with `/odps/`
instead of `/opds/` (`models.py:286`); two feeds share the uid of `latest`
(`opds.py:69`, `:77`); nothing orders `Catalog.pages` (`models.py:234`).

## 4. Proofs

TLAPS checks the theorems for every value of the constants that the named
assumptions of the modules allow.

### From which assumptions

Each module names what it assumes of its constants (`StoreAssumption`,
`SchedulerAssumption`, ...), and TLC evaluates it in the runs. Most of it says that
bounds are numbers and that `None` is none of the values it is told apart from
(`ServiceAssumption` and `NoRunAssumption`: neither a shelved catalog nor a run).
`ReadsAssumption` adds that there are finitely many catalogs and that `None` is no number. Beyond these, a
theorem says what it needs of a deployment:

| Hypothesis | Theorems | Where the code has it |
|---|---|---|
| `CanonicalPaths` | `PagesAlwaysServable`, `StoreImplementsService` | an absolute `storage_path` without links |
| `SavepointCommits` | `CleanupsAreEffective` | SQLite, the default database |
| `RetryDelay + Grace < Period` | `RetriesNeverChain` | 1800 s + 3600 s against schedules of a day and more |
| `MaxGap <= 7` | `WindowsAlwaysTile`, `AddressAlwaysTellsWindow` | every class's `schedule` fires at least weekly, most daily |

The other value of the first three is a violation TLC shows (section 3).

### CatalogStoreProofs

* `TypeCorrect`: not inductive alone, since a page number stays in its type only
  because a session that writes has a catalog and room for a page. `SessionInv` adds
  this (`TypeInv == TypeOK /\ SessionInv`), and `TypeStep` goes through the actions.
* `PagesAlwaysServable`: the invariant adds `FilesInv`: committed rows have
  their files; flushed rows have theirs, but for the one about to be written;
  flushed pages use such rows; and what a sweep still has to remove is named by
  no committed row. The last holds because fetch and sweep share the one
  worker. `CommitFetchSafe` is the lemma for the two places where a fetch commits.
* `OneFileForEachContent`: `ContentInv` counts the rows of the session in: it flushes
  a content only when no row, committed or its own, has it, and until its commit
  only deletes touch the table (`SessionMoves`), as all fetches share the worker.
* `CatalogsAlwaysComplete`: `FetchInv` says of the session that its pages are
  numbered `0 .. next - 1` (`Numbered`) and that its catalog is not yet committed, so a
  commit adds a whole catalog at whichever step the fetch was cut off, and no page to
  another. `PagesMove` shows that nothing else touches the pages of a catalog that
  stays and is not struck: above all a delete that commits a cascade loaded long before,
  and a cleanup. `CascadeInv` says of a waiting delete that its provider is still
  there and that the catalogs with the ids it has loaded are this provider's unless they
  are fresh.
* `DeletesTakeTheirOwn` follows from `CascadeInv`.
* `CleanupsAreEffective`: `CleanupInv` keeps the catalogs the job has deleted off the
  tables from savepoint to savepoint.
* `StoreImplementsService`: `Shelf` is the refinement mapping. `ServiceStep` maps
  each action to one of the service or to a stutter. A commit of a fetch publishes
  (`CommitPublishes`), a delete takes all catalogs of its provider, and what its ids
  hit besides is what the service's `Unregister` may take from others
  (`DeleteUnregisters`), a cleanup withdraws a catalog where its savepoint commits; for
  every catalog that stays, `ShelfKept` needs that the rows of page files in use keep
  their content (`RowsKept`). That a catalog is shelved whole and each page with its
  content needs all invariants before it (`AllInv`).

### JobSchedulerProofs

* `SchedulerTypeCorrect` and `NeverTwoRunsOfAJob`: `PoolInv` gives the counts by what
  is in the pool: the count of a job is 1 if it waits or runs and 0 otherwise, the
  queue has no job twice, and the running job does not wait. So no count falls below
  zero, whichever way a run ends.
* `RetriesNeverChain`: `RetryInv` follows the retry of a job, due at *t*. While it is
  stored or waits, it comes from a firing at *t* - `RetryDelay`, and whatever run of
  the job is stored or held is due at the next firing or later (`Earlier`), when the
  retry waits no longer or is too late to run. A retry that runs has therefore left
  the store, or is about to (`Leaving`), and none is put there before its run
  has ended: when the run fails, the listener, which needs the stores' lock, finds no
  job to retry. `SubmitChain`, `StartChain` and `ListenChain` are the three steps at
  which time, queue and store meet.

### ProviderJobsProofs

* `TypeCorrect`, from `SessionsOK` (a handler's session has the provider and
  configuration its later steps write). `BeginType` serves the actions that begin a handler.
* `NeverForeignJob`: a handler commits a name it has carried since it loaded or drew
  it, so the invariant says the same of sessions (`NoForeignSession`): the job a
  session holds is of the session's provider, or gone. New names are fresh to rows
  and sessions alike; `SessionsShrink` and `BeginOwn` cover the other steps.
* `NamedJobsAlwaysExist`: `NamedInv` says which handler is to blame for a name
  without a job: one that removes exactly this job from exactly this row. It is kept
  because between a handler's `AddJob` and its commit no one else knows the name
  (`AddedInv`). `disturbed` only grows, so the property may be proved of the
  behaviours without timeouts and crashes.
* `SequentialJobsAgree` and `SequentialConfigurationsUnique`: while no two handlers
  have overlapped, `AloneInv` says for the one under way at each of its program
  points how far row and job store are apart (`AgreeFor`), and that what it is about
  to write is not taken.

### PageNumbersProofs, ProviderFetchProofs

* `PageThereAndBack`, `DoubleThereAndBack`, `TurningAgrees` and
  `CountingAgrees`, for every page number and first number. Every page is the cover,
  `2k + 1` or `2k + 2` (`PageCases`), and on these `DoubleOfPage` and `PageOfDouble`
  compute the conversions.
* `ProviderFetchProofs`: type correctness, `PagesInOrder`, `HealthyIsComplete`,
  `NetworkErrorsSurface`, `FirstRefusalTold` and `NumberingAgrees`, for catalogs of any
  length. The invariant `IInv` adds that the iteration has yielded as many pages as
  it has counted and that no answer was bad before the last step. `ImageIsPage` says
  that address, index and spread side name the same image; `StepShape` sorts the steps
  into those that go on with a good answer and those that end the fetch with what
  the last answer stands for; `LastAnswer` draws the outcomes from it. Assumed: a
  status is not `None`.

### ProviderWindowsProofs

* `WindowsTypeCorrect`, `WindowsAlwaysHoldTheDay` and
  `WeeksAlwaysAgainstCalendar`, for every range of days the assumption allows and every
  set of classes. `MondayWindow` and `WednesdayWindow` bound what the modulus leaves;
  `IssueHolds` goes through the classes. For the week number `WeekIsTurn` counts the
  turns of a week since New Year instead of dividing.
* `WindowsAlwaysTile` and `AddressAlwaysTellsWindow`: `FetchedInv` says that the last
  issue is what the class asked for on its day, at most `MaxGap` days ago.
  `IssueShape` reduces the classes to a few shapes of window and address. Two days at
  most a week apart lie in the same week or in one and the next (`NextMonday`,
  `NextWednesday`), which gives `IssuesTile`. For the addresses `WeekTells` shows that the
  week number tells neighbouring weeks of a year apart, and the year or the
  Monday in the address those of two years; `IssuesTell` draws the property from it.

### HealthCheckProofs

* Type correctness, `SteadyFailureFound`, `FalseAlarmNeedsOverlap`
  and `NothingLeftBehind`, for any number of requests and failing parts. `SteadyInv`
  says that what still counts as steadily failing has not been passed by the request
  (`Behind`); `FileInv` that a request between writing and unlinking has its file, has
  been overlapped, or has met a failure. Neither property is inductive without them.
  `RequestMoves` sums up a handler's step, and `Remembered` what the history keeps.

### CatalogReadsProofs

All for any providers, catalogs, pages, windows and page sizes, from `ReadsInv`.

* `ReadsAlwaysWhole` and `ListsAlwaysPlace`: while nothing is torn the request's
  catalog is on the shelf with the leaves asked for, and what has been got and what
  is left make up those leaves (`Pending`); the file of a page keeps that when torn,
  as its path is not looked up again. `WindowInv` gives each catalog on the shelf its window.
* `ReadsTypeCorrect` and `ListsAlwaysAgree`: `NewerOK` keeps `newer` a strict total
  order of the catalogs with the old ones at its end. Then ranks are one to one and
  onto (`RankOrder`, `RankOnto`), a list sorted by rank has every catalog
  once (`ListOf`), and the row number one, the first of a provider's list and the
  latest of the subquery are the same catalog (`RankOne`).
* `UndisturbedReadsAlwaysSucceed` and `FeedsAllOrNothing`: `FailInv` and `FeedInv`
  give each 500 its reason (the PDF of a catalog that had lost all its pages before
  among them), and of a feed that the entries shown and those to come
  are the list asked for (`SplitOf`).
* `WalksMissNone`: `WalkInv` says that a catalog that stays and has not been seen has
  a rank beyond the pages turned so far. A publication only raises the ranks of the
  others, and a cleanup takes old catalogs, which all lie behind those that stay, so
  no rank falls (`RankKept`). A deleted provider, whose catalogs may lie anywhere,
  makes the walk torn. It also says that, unless the walk is late, the list is no longer
  than the total counted for the page, so that a client which stops by that total has
  all ranks behind it. A full page has `PageSize` ranks, so the next begins where it
  ends (`PageTurns`).

### What stays with TLC

Every safety invariant and action property of a passing run has its theorem, and so
has the refinement. Liveness (`OrphanFilesSwept`, `FetchEnds`, `LeftoverGoes`) needs
fairness and `ENABLED`, which the prover does not treat, and is only model-checked;
the four violations are counterexamples of TLC's.

## 5. What is left

Worth doing next, in this order:

1. Proofs of what the violated properties still hold under: which exception each
   needs, as `WindowsHoldTheDay` has them for `WindowsAsDocumented`.
2. The lifetime of the HTTP client in `ProviderFetch` (a constructor that fails never
   enters the context manager that closes it).

### Not modelled

* Parsing of the shops' pages, and what PDF, EPUB and OPDS documents look like:
  functions of their input, which the shops decide.
* `settings.py`, `security.py`, `app.py`, `static.py`, `web/`, `logging.py`: configuration
  and wiring, without state of their own; settings enter the modules as constants.
* `migrations/`: one initial migration, which runs before the server starts.
* API models, mixins and column types: conversions without control flow.
* The import of provider modules and plugins: Python's; which classes it finds is
  `classes` in `CatalogReads`.
