# Formal verification of flexo

Flexo is a caching proxy for pacman: it answers a request from its cache, or
downloads the file from a mirror, stores it, and sends it to the client while it
grows. This directory holds TLA+ modules of the parts in which threads, files
and failures meet, the configurations with which TLC checks them, and proofs
that TLAPS checks. Paths such as `lib.rs:630` are below `flexo/src/`.

## 1. The system

| component | code | state it keeps | operations | module |
|---|---|---|---|---|
| job scheduler | `lib.rs`, `provider_guards.rs` | `orders_in_progress`, `provider_metrics`, usage counts of the providers (`Arc::strong_count` of the guards), pool of idle channels, panic monitor; in each job thread the attempt loop's variables | `try_schedule`, `schedule`, `best_provider`, `reset_provider_metrics`; in the thread `select_provider`, `get_channel`, `serve_from_provider`, `punish`, `pardon`, removal of the order, return of the channel | `Scheduler`, `OrderFetch`, `SchedulerProofs` |
| download and cache state | `mirror_flexo.rs`, the end of the job thread in `lib.rs` | the files, their hidden `.cfs` files (the complete size), `size_written` and the `BufWriter` of a job, the progress channel | `acquire_resources`, the curl callbacks `header` and `write`, `serve_from_provider`, `create_cfs_file`, `persist_and_get_cache_state` | `Download`, `DownloadProofs` |
| serving of clients | `main.rs` | per thread: open file, bytes sent, `cache_tainted` | `serve_client`, `serve_request`, `receive_content_length`, `try_complete_filesize_from_path`, `serve_growing_file_loop`, `serve_from_complete_file`, `handle_client_error` | `Download` (one request), `Connections` (the loop), `ClientStream` (the bytes), with `DownloadProofs`, `ConnectionsProofs`, `ClientStreamProofs` |
| purging | `main.rs:110-219`, `flexo_purge_cache` | `cache_purge_mutex` | `purge_cache`, `purge_cfs_files`, `purge_uncacheable_files` | `Download` (one file), `Connections` (versions, mutex), with `DownloadProofs`, `ConnectionsProofs` |
| HTTP headers | `main.rs`, `mirror_flexo.rs:112-198, 1067-1111`, `http_headers.rs` | the buffer of `read_client_header`; the bytes under way on a connection | `read_client_header`, `Request::new`, `parse_range_header_value`, `serve_request`, reply headers | `ClientStream`, `ClientStreamProofs` |
| choice of mirrors at start | `main.rs:513-686`, `mirror_fetch.rs`, `mirror_cache.rs`, `mirror_flexo.rs:979-1065` | `latency_test_results.json` with its timestamp; mirrors, endpoint, country filter and attempt of a start | `initialize_job_context`, `fetch_auto`, `rated_mirrors`, `rated_providers_retry`, `measure_latency`, `store_latency_test_results`, `mirrors_from_cache` | `MirrorSelection`, `MirrorSelectionProofs` |
| paths | `str_path.rs`, `fs_utils.rs` | none | wrappers of strings and file times | not modelled |

How they interact: the thread of a connection (one per `accept`, `main.rs:101`)
reads a request and calls `try_schedule` under the mutex of the job context. The
outcome is a redirect to a mirror, a file in the cache, an order in progress to
join, or a new job. A job runs in a thread of its own; it tells the one client
that scheduled it the complete size over a channel (only the first message is
read), while clients that join poll the `.cfs` file. From then on job and clients
share nothing but the file. When a connection ends, its thread purges old
versions if one of its requests brought a new file. Before all this, the start
chooses the mirrors, from a list that it fetches and latencies that it measures,
or from what the last start has stored.

What is hard here: job threads share failure counters and usage counts but take
the locks one at a time, and drop guards without any lock; the order leaves
`orders_in_progress` before the file is flushed; a failing write pauses a transfer
for good; an endpoint that stalls keeps the start waiting; client threads act on outcomes
after the lock is gone; a partial file outlives retries, restarts and purging and
is appended to; a file can be unlinked while others have it open; the purge
mutex excludes purges from each other but not from downloads; a sweep can fail
because of another. A connection is reused, so every response must be exactly as
long as its head says, whichever of eight ways it was made in. The stored mirrors
of one start decide what the next one tests, and that goes on over years.
`PROJECT.json` lists each such hazard at its line, with the
properties that would notice it.

What makes each component correct:

- scheduler: one job per order; a job always has a provider to select, does not
  return to a failed one and stops; pardons never take back more than was
  punished; parallel downloads spread over the mirrors; every order leaves;
- download: a file on disk is a prefix of the real one, whoever wrote it; the
  `.cfs` file holds the complete size;
- serving: who is served to the end has the whole file, who is not has a piece of
  it, and everybody is answered;
- purging: old versions go, young ones stay, stale files go;
- a connection: the answers come in the order of the requests, each whole and
  with the bytes that it promises, and none is missing without a close;
- choice of mirrors: what is stored can be used, the choice does not drift away
  from the last test of all mirrors, and flexo comes up again if it can.

## 2. Plan

Order of work, most important behaviour first:

1. `Scheduler`, its abstract specification `OrderFetch`, proofs. *Done.*
2. `Download`: one file between mirrors, disk and clients. *Done.*
3. `Connections`: the life of a connection and purging. *Done.*
4. `MirrorSelection`: the start, over any number of starts, with proofs. *Done.*
5. `ClientStream`: requests and responses as bytes on a persistent connection,
   with the arithmetic of ranges. *Done.*
6. Proofs about `Connections` and about `Download`, each with all of its safety
   properties. *Done.*
7. Proofs about the failure counters and the usage counts of `Scheduler`
   (`PunishmentsCounted`, `NoDowngradeWhenAllFail`, `NoSharingWhileIdle`). *Done.*
8. Proofs about `ClientStream`: its types, `AnswersInOrder`, `RestOfFile`. *Done.*
9. An abstract cache file (absent, growing, complete; a delivery is a prefix)
   and `Download` refining it; the composition of `Scheduler` and `Download`. *Next.*
10. Databases that differ between mirrors, as an extension of `Download`;
   `parse_bandwidth` at the limits of `u64`.

Abstract specifications worth having: `OrderFetch` (here), a cache file, a
retained set of versions. Runs stay few and each asks a question of its own; a
run that shows a defect can give way to others when the code is repaired.

## 3. The modules and the code

In every module one action is the code between two accesses to state that other
threads see; code under one lock is one action. Names are the code's. An
operator `Mutant_X` in front of an operator is a plausible mistake in it: put in
its place, it must break the property named in section 5. No module uses one.

### Scheduler

One thread slot per job. `pc` follows `try_until_success`:

| `pc` | actions | code |
|---|---|---|
| `ended` → `spawned` | `Schedule` (with the drain of the panic monitor), `SchedulePanics` | `lib.rs:546-663` |
| `spawned` → `select` | `StartThread` takes the mutex that the panic monitor looks at | `619` |
| `select` → `scan` → `channel` | `BeginSelection`, `ReadUsages` (one provider at a time, since guards are dropped without a lock), `SelectProvider`; for a custom repository `SelectCustom` | `209-228`, `296-353`, `provider_guards.rs:21-39` |
| `channel` → `serve` | `GetChannel`, or `ChannelFails` to `pardon` | `146-169`, `245-254` |
| `serve` → `settle` | `ServeFromProvider`; `Panic` | `mirror_flexo.rs:376-433` |
| `serve` → `paused` | `Pause`: a write of the file has failed; no step leaves `paused` | `mirror_flexo.rs:786-796` |
| `settle` → `judge` | `Punish`, `NoPunishment` | `255-281` |
| `judge` → | `BreakOnSuccess`, `BreakOnLastChance`, `TryNext` | `282-288` |
| `pardon` → `remove` | `Pardon` | `289-293`, `355-368` |
| `remove` → `finish` → `ended` | `RemoveOrder`, `Finish` | `630-663` |

The requests are `Schedule`, `Redirect`, `RedirectCustom` and `Redirected` (the guard
is held while the redirect is answered; the one of a custom provider is new and
counts for nobody) and `ResetProviderMetrics`. `num_failures` is a `u32`:
`Increment` and `Decrement` wrap at `MaxU32`. What `serve_from_provider` returns,
what the cache says and whether a file can be opened are inputs, any of them. The
mutexes of a selection are modelled by `MetricsUnlocked`, because other threads
run while it reads the counts; the other locked regions are single steps.

`OrderFetch` is the promise: an order is in flight at most once, providers are
asked only while it is, each at most once. `Scheduler` implements it with
`in_flight <- orders_in_progress` and `asked <- AskedFor`, the providers that the
order's job has excluded or is at.

### Download

One cacheable file, its content the blocks `1..Size`. `files` are the inodes, the
youngest of which has the name if `linked`; an unlinked one stays as long as a
job or a client has it open. `cfs` is the number in the CFS file, `Missing`, or
`Torn` between its truncation and its writing. A block that a job writes may stay
in its `BufWriter`, push out what is there, or go through (`BufferStates`); a
`BufWriter` that is dropped flushes. `RequestRedirected`, `RequestCached`,
`RequestScheduled`, `RequestInProgress` are the outcomes of `try_schedule`, each
with the effects of `persist_and_get_cache_state`; the client then goes through
`await_size` (channel) or `await_cfs` (CFS file), opens the file and streams it,
or opens the complete file. The job goes `open`, `request`, `cfs`, `body`,
`settle` once per mirror, then `remove` (order) and `release` (flush).
`CrashAndRestart` loses everything in memory and keeps the disk.

A cache lookup (`PersistCacheState`) is one step, although it opens the file, reads
the CFS file, and, if there is none, looks at the path again, removes an empty file or
writes the CFS file. Only purging and the running job can come in between. What a purge
does there it could as well do right before the lookup (the file is not found) or
right after it (the file is gone, its CFS file is there), with one exception: if
the file is gone at the second look, an `expect` panics and the process ends. The
panic leaves what `CrashAndRestart` leaves. A job is not in progress when
`try_schedule` comes to the lookup, except between `RemoveOrder` and `Release`, where it
only flushes. Left out is such a flush between the two looks at a file that has no CFS
file, which then is taken to have two sizes.

`WriteFails` is the write that fails: `size_written` is raised, what was in the buffer
has got to the file or not, and the job stays `paused`, its order in progress
(`mirror_flexo.rs:786-796`). A flush may fail as well, and nobody hears of it (`Flush`).
`Unavailable` is any status that is neither 200, 206, 416 nor a redirect; a job that
resumes counts a 2xx among them as `Complete`. One that does not resume panics then,
as it does on a 200 without a body: the process ends, which is `CrashAndRestart`.
`serve_from_complete_file` sends in one step, and time is not modelled: a timeout may
expire whenever what it waits for is not there.
Which of two mirrors is asked does not matter here, an attempt is a number.

### Connections

A thread per connection: `waiting`, `reading`, then per request `opening` (or
`joining` a job in progress) and `sending`; in the end `tainted`, `purging`,
`removing` under `purge_mutex`, `ended`, `sweeping`, `file`, `done`. Versions of
one package are numbers, the larger the younger. Jobs are reduced to what the
cache sees of them (file created, complete, order removed): `complete` is when the
last byte is written, not when `perform()` has returned. `fetched` and
`forgotten` are history variables for the properties: what a thread has fetched,
and what was fetched for a connection that ended in an error or a request
answered without payload. The program that removes the files (`paccache` or
`scruffy`) is taken to list the files once and to remove all but the youngest
`NumVersionsRetain`; a failure of it is not modelled.

### MirrorSelection

One program, started again and again. `pc` follows `initialize_job_context`:

| `pc` | actions | code |
|---|---|---|
| `stopped` → | `Start`: with `Predefined` the providers are given, with `Auto` they are fetched | `main.rs:531-548` |
| `fetching` → `listed` or `offline` | `FetchFromEndpoint`: the endpoint or the next fallback | `main.rs:561-582`, `mirror_fetch.rs:148-202` |
| `fetching` → `stalled` → | `Stall`, `StallEnds`: the endpoint has accepted the request and keeps the start waiting, perhaps for ever | `mirror_fetch.rs:148-165` |
| `offline` → `rated` | `MirrorsFromCache`; `CacheUnreadable` panics | `main.rs:681-686` |
| `listed` → `testing` | `ChooseTest`: all mirrors, or `num_mirrors` in the countries of the stored results | `main.rs:588-642` |
| `testing` → `rated` | `TestLatencies`, one round of `rated_providers_retry`, again with relaxed settings if nothing answers | `mirror_flexo.rs:979-1065` |
| `rated` → `storing` → `chosen` | `BeginStore` takes the time and truncates the file, `EndStore` has written it; `StoreFails` panics; `Exit` without providers; `UsePredefined` | `main.rs:513-526`, `mirror_cache.rs:45-65` |
| `chosen` → `running` | `CreateJobContext`; `DuplicateProvider` panics | `main.rs:528`, `lib.rs:514-523` |

`Stop`, `Kill` (in the middle of a start), `Tick` and `ComeOrGo` (a mirror or an
endpoint begins or ceases to answer) are the surroundings. `results` is the file:
absent, in an outdated format, torn, or a list of mirrors, and `age` the time since
its timestamp. The list of mirrors may have duplicates, of which
`fetch_providers_from_json_endpoint` keeps the first. `filter_predicate` is the set
of mirrors it lets through, before (`Strict`) and after (`Relaxed`) `relax()`. What
latencies a test measures is not modelled: its result is any order of the mirrors
that answer. `since_full_test` and `full_countries` are history variables: when all
mirrors were last tested, and in which countries those were that answered.

### ClientStream

One connection. `to_server` holds the pieces of the request headers under way, each
with the number of its request, `to_client` the heads and bytes of responses.
`ReadHeader` takes any number of pieces into `buf`, as `read` may, and parses: a
request, an incomplete header, an error or too much. What `buf` holds beyond the
first header is gone (`AfterHeader`). Each branch of `serve_request` is an action
that sends what its code writes: a head only (`RespondWithoutBody`, `Redirect`),
`/metrics`, a complete file, or a growing file in steps (`BeginGrowingFile`,
`SendFromGrowingFile`, `EndGrowingFile`). `Fail` is every error that
`handle_client_error` answers with a shutdown. The client is the environment: it sends
requests, reads a head, counts as many bytes as `Content-Length` says, and closes
if a response does not begin with a head. A growing file is sent up to its present
length, which may be beyond what was promised (`main.rs:800-803`): the surplus is
another thing that is no response. Lengths are numbers modulo `Width`, as a
`u64` wraps in a release build; a debug build would panic instead. `pipelined` and
`replaced` are history variables that name the two situations in which less is
promised: a client that does not wait for its answers, and a file that was purged
between `try_schedule` and its opening.

## 4. The runs

| run | result | question |
|---|---|---|
| `Scheduler_mirrors` | holds | `SingleFlight`, `SelectionNeverEmpty`, `PunishmentsCounted`, `AttemptsAccounted`, `NoSharingWhileIdle`, `OrderLeaves`: two jobs over three shared mirrors, one order cacheable, one not retried and with writes that fail, redirects |
| `Scheduler_full` | holds | `TypeOK`, `ImplementsOrderFetch`: custom repository, panics, failing writes and `/reset-metrics` all at once, jobs that always fail |
| `Scheduler_reset_downgrade` | violated | `NoDowngradeWhenAllFail` |
| `Download_serve` | holds | `DeliveredWhole`, `CfsIsCompleteSize`, `NeverProgressFirst`: two clients, three attempts, well-behaved mirrors, failing writes, no purging |
| `Download_crash` | holds | `TypeOK`, `FileIntact`, `DeliveredInOrder`, `RequestAnswered`: kills, purging, failing writes and mirrors that ignore ranges |
| `Download_flush_race` | violated | `DownloadedOnce` |
| `Download_purged_hit` | violated | `DeliveredWhole` |
| `Connections_purge` | holds | `TypeOK`, `RetainedUnlessForgotten`, `OnlyOldRemoved` |
| `Connections_end` | holds | `SweptTogether`, `ThreadEnds` |
| `MirrorSelection_starts` | holds | `TypeOK`, `StoredUsable`, `CountriesOfFullTest`, `Recovers`, `StartsOffline`: three mirrors in two countries, a list with a duplicate, two endpoints that may stall, kills and failing stores |
| `MirrorSelection_interval` | violated | `FullTestAtIntervals` |
| `ClientStream_answers` | holds | `TypeOK`, `AnswersInOrder`, `RestOfFile`, `AnsweredOrClosed`: two requests of any kind, pipelined or not |

What the violated ones show:

- **`Scheduler_reset_downgrade`** (`lib.rs:363`). `pardon` subtracts one from
  `num_failures` of every provider that its job has punished. If `/reset-metrics`
  comes in between, the entry is new and zero, and the `u32` wraps. Without a
  reset the same happens to a custom repository: its entry is inserted, with
  zero, by its first punishment. Take `CustomProviders = {custom}` and
  `AllowReset = FALSE` in the configuration to see it.
- **`Download_flush_race`** (`lib.rs:630`). The order is removed before the
  `BufWriter` is dropped. A request in between starts a second job, which measures
  the file without the blocks in the buffer, asks the mirror for them again, and
  appends them after the flush.
- **`Download_purged_hit`** (`main.rs:341`). The file of a cache hit is purged, and
  the next request creates it again, before the first client opens it: the young
  file is served as the complete one.
- **`MirrorSelection_interval`** (`main.rs:523`). The results are stored with a new
  timestamp after every start, although only a few mirrors were tested, or none.
  Whoever starts flexo more often than `refresh_latency_tests_after` (14 days) stays
  for ever with mirrors in the countries of the first test, while the README
  promises tests of all mirrors "at regular intervals" (`README.md:77-78`). (In the
  trace the program may also end by a `Kill`; a `Stop` does as well.)
The same modules show six more places where the code does not do what its comments
or its documentation say. They have no configuration of their own, only for the number
of runs; each line says what to change in an existing one to see the trace:

| violated | change | what happens |
|---|---|---|
| `TransferEnds` | `Scheduler_mirrors` with this property | A write that fails, as on a full disk, makes the write callback return `WriteError::Pause` (`mirror_flexo.rs:793-796`). Nothing unpauses the transfer, and curl's low speed limit is not applied to a paused one, so that `perform()` does not return: the thread, its guard and the order stay, and every later request for the order joins a file that does not grow. The comment at `main.rs:807-810` relies on curl to drop the connection. `OrderLeaves` shows that other orders go on. |
| `DeliveredWhole` | `Download_serve` with `MaxCrashes = 1` | A retry truncates the CFS file of a partial file before it writes it again (`mirror_flexo.rs:884-891`). Killed in between, the partial file has no size, is taken to be complete after the restart, and is served. |
| `CfsIsCompleteSize` | `Download_serve` with `IgnoresRange = TRUE` | A mirror may answer the range request of a retry with 200 and the whole file: its length is added to what is there already (`mirror_flexo.rs:841`), and the sum stored as the complete size. Later clients are promised it, and the file never gets there. |
| `CfsIsCompleteSize` | `Download_serve` with `PurgesPackages` and `PurgesCfs` | `purge_cfs_files` sees that a package is gone, and removes the CFS file of the download that has begun since (`main.rs:175-176`). |
| `FallbackReached` | `MirrorSelection_starts` with this property | `fetch_json` sets no timeout (`mirror_fetch.rs:148-165`). An endpoint that accepts the connection and is silent keeps the start waiting, and neither the other endpoints nor the stored results are tried, which are there for "in case the JSON endpoint cannot be reached" (`mirror_cache.rs:1`). |
| `ConnectionKept` | `ClientStream_answers` with this invariant, `Pipelines = FALSE` and `Kinds = {"metrics"}` | The body of `/metrics` is written by `serve_200_ok_body` and again by `serve_request` (`main.rs:266`): a client that keeps the connection finds it where the next response should begin. |

Two properties that hold name exceptions, and each exception is a place where the
code does not do what one would expect:

- `RetainedUnlessForgotten` leaves out the versions in `forgotten`. "After a 4th
  version of a package has been downloaded, the oldest version will be
  automatically removed" (`README.md:124-125`) fails exactly there: a request that
  ends with 500 or in an error does not taint the cache (`main.rs:380-396`), yet its
  job goes on and stores the file, and nothing is purged until a later miss.
- `AnswersInOrder` does not say that every request has an answer. After `/metrics`, and
  after a file that has grown too long, what follows is no response, so the client of
  the model closes and nothing more is received. The answers to
  pipelined requests may be missing, because `read_client_header` throws away what
  it has read beyond the first header (`mirror_flexo.rs:1098`). If a file was purged
  between `try_schedule` and `serve_from_complete_file`, fewer bytes are sent than
  were promised (`RestOfFile`), and a client that pipelines would take the next response
  for the rest: only then the property says nothing.

Two settings do less than the example configuration says, which is not a question
for a model: with `mirror_selection_method = "auto"` the code never falls back to
`mirrors_predefined` (`conf/flexo.toml:46-48`), and `refresh_latency_tests_after`
stands under `[mirrors_auto]` there (`conf/flexo.toml:143`) while `MirrorConfig` has
it at the top (`mirror_config.rs:101`), so that the default applies.

### Bounds

- `Scheduler`: two job threads (slots are reused), two orders, two or three
  providers, usage by redirects. Interference is between two jobs, or a job and a
  request; three providers are needed for a selection to have a tie and still
  exclude one. `MaxFailures = 1` lets an order be scheduled only while counters
  are below one; running jobs go beyond it. `MaxU32` is 3 or 7, far above what
  counters reach unless they wrap below zero, which is what is looked for.
  `MaxAttempts` is the code's 25: with few providers the provider list ends
  first, the proofs cover the other case. `FailingWrites` are the orders whose writes may
  fail; the other order shows that one that is paused does not hold it up. In
  `Scheduler_full` every job fails (`ServeResults = {"Error"}`): what a success adds to
  `ImplementsOrderFetch` is an earlier end, and the theorem covers it.
- `Download`: three blocks allow a file that is empty, has a prefix, a prefix with
  something buffered, and is complete; two or three attempts allow a first, a
  middle and a last chance. `Jobs = {j1}` in the runs that hold: no job starts
  while an earlier job's thread is between the removal of its order and the flush.
  With one job thread this is so (`OneThreadFlushesInTime`). It is the condition
  `FlushedInTime` under which `FileIntact` is proved for any number of them
  (section 6), and `Download_flush_race` shows that it is needed. `MaxFiles = 2` permits one
  unlinked file in use beside the current one, two crashes permit one during the
  recovery from another. The violated runs have as much of this as their trace needs.
- `Connections`: two connections with two requests and three versions, two of them
  retained, allow old and young versions to arrive while the other thread lists
  and removes; three files let both sweeps fail at different places.
- `MirrorSelection`: `NumMirrors = 1` of three mirrors in two countries, so that a
  limited test sees one country and one of its mirrors. One mirror passes only
  the relaxed settings, one is twice in the list, and `Predefined` names one twice.
  Three attempts (the code's `LATENCY_TEST_NUM_ATTEMPTS` is 5) allow a first, a
  middle and a last one; `RefreshAfter = 1` a young and an old result.
  The number of starts, kills and failing stores is not bounded.
- `ClientStream`: headers of at most two pieces fit (three do not), so a header can
  be split, can come with the beginning of the next, and can be too long. Two
  requests show what one does to the next. Files of up to two bytes
  are empty, half sent or complete; `Width = 8` is more than all sums of sizes, so
  that only a subtraction below zero wraps.

Symmetry is used for threads and clients in runs of safety properties only, where
nothing tells them apart. `Scheduler_full` does not check for deadlock because a
panicked `try_schedule` ends all scheduling, the `Connections` and `ClientStream`
runs do not because the connections and requests are bounded and all end. Results
that are partly written or never arrive (`"Partial"`, `"Unavailable"`) are in
`Scheduler_mirrors`, errors that are punished alike and failing channels in
`Scheduler_full`.

### Fairness

- `Scheduler`: strong fairness of each job thread. A thread waits only for the
  mutex of the metrics, which is held for a few instructions again and again, and
  for a transfer, which curl's low speed limit and connect timeout end, unless a failing
  write has paused it: those limits do not apply to a paused transfer. So a thread in
  `paused` has no step, and `OrderLeaves` excepts its order.
- `Download`: weak fairness of each client's thread; nothing is assumed of jobs,
  mirrors, purging or clients. Each wait of such a thread for the job, on the channel,
  for the CFS file and for the growing file, has a timeout, which is why
  `RequestAnswered` can hold. (A send to a client that does not read has none, but that
  client is not waiting.)
- `Connections`: weak fairness of a thread whose connection has ended. Each asks for
  the mutex once, so it is enough.
- `MirrorSelection`: weak fairness of the steps of a start, which run one after the
  other in one thread, and of `Start`: a program that is down is started again, by its user
  or by whatever supervises it. `StallEnds` is not among the steps: the requests to the
  endpoints have no timeout (those of the latency tests have), so that one may wait for
  ever. `Recovers` and `StartsOffline` assume that none does (`RequestsEnd`), which holds
  with endpoints that refuse a connection or break it; that `FallbackReached` is violated
  (above) shows that they need it. That kills and failing stores end some time is a hypothesis
  of the properties as well (`Undisturbed`). Strong
  fairness of `Tick`: time passes, also between starts that come in quick
  succession. Nothing is assumed of mirrors and endpoints but what `Recovers` and
  `StartsOffline` say themselves.
- `ClientStream`: weak fairness of the server's thread and of the client's reading. A
  growing file that does not grow ends in `Fail` after the stall timeout.

## 5. Each property and a bug it would find

| property | mistake | what it is |
|---|---|---|
| `SingleFlight` | `Mutant_ScheduleAnyway` | the check of `orders_in_progress` dropped |
| `SelectionNeverEmpty` | `Mutant_LastChanceTooLate` | off by one in the last provider |
| `PunishmentsCounted` | `Mutant_PardonEveryFailed` | unavailable providers pardoned too |
| `AttemptsAccounted` | `Mutant_NothingExcluded` | the failed provider not excluded |
| `NoSharingWhileIdle` | `Mutant_ScoreIgnoresUsages` | the score without the usages |
| `Scheduler!TypeOK` | `Mutant_DecrementSigned` | the subtraction without its width |
| `ImplementsOrderFetch` | `Mutant_ClearOrders` | all orders removed at the end of a job |
| `OrderLeaves` | `Mutant_RemoveCacheable` | only cacheable orders removed |
| `DeliveredWhole` | `Mutant_SentWhenStalled` | end of the growing file taken for the end |
| `CfsIsCompleteSize` | `Mutant_ProviderContentLength` | the rest's length stored as the complete size |
| `NeverProgressFirst` | `Mutant_AnnounceNothing` | the size not sent |
| `Download!TypeOK` | `Mutant_LastIsZero` | off by one in the attempts |
| `FileIntact` | `Mutant_StartAfresh` | the offset not taken from the disk |
| `DeliveredInOrder` | `Mutant_OffsetWithoutResume` | `resume_from` forgotten |
| `RequestAnswered` | `Mutant_StallsBeforeTheFirstByte` | giving up only before the first byte |
| `Connections!TypeOK`, `ThreadEnds` | `Mutant_KeepMutex` | the purge mutex not released |
| `RetainedUnlessForgotten` | `Mutant_LastRequestTaints` | `cache_tainted` overwritten by the last request |
| `OnlyOldRemoved` | `Mutant_PurgeTheYoungest` | the wrong end of the list removed |
| `SweptTogether` | `Mutant_StopAfterOne` | the sweep left after the first file |
| `MirrorSelection!TypeOK` | `Mutant_OneMore` | one attempt too many |
| `StoredUsable` | `Mutant_FetchedTwice` | duplicates of the list not skipped |
| `CountriesOfFullTest` | `Mutant_ConfiguredCountries` | the limited test in all configured countries |
| `Recovers` | `Mutant_NeverAll` | the age of the results ignored |
| `StartsOffline` | `Mutant_OnlyRecent` | old results refused without an endpoint |
| `ClientStream!TypeOK` | `Mutant_NotSaturating` | `remaining_content_length` below zero |
| `AnswersInOrder` | `Mutant_KeepBuffer` | the buffer used again for the next header |
| `RestOfFile` | `Mutant_FromStart` | the body of a partial response from byte 0 |
| `AnsweredOrClosed` | `Mutant_WholeLength` | the whole length promised for the rest |

## 6. What is proved

`SchedulerProofs` proves, for all values of the constants of `Scheduler` that satisfy
its assumptions (at least one provider, custom providers distinct from the
others, an order set that is not empty, finite sets of threads and clients):

| theorem | property |
|---|---|
| `TypeCorrect` | `TypeOK` |
| `AtMostOneJobPerOrder` | `SingleFlight` |
| `SelectionIsNeverEmpty` | `SelectionNeverEmpty` |
| `AttemptsAreAccounted` | `AttemptsAccounted` |
| `ImplementsFetch` | `ImplementsOrderFetch` |
| `PunishmentsAreCounted` | `PunishmentsCounted`, if nothing is reset and the counters fit a `u32` |
| `NoDowngrade` | `NoDowngradeWhenAllFail`, if moreover there is no custom repository |
| `SharesOnlyWhenBusy` | `NoSharingWhileIdle` (of every step) |

- `TypeInv` adds to `TypeOK` that a job which has selected a provider has one
  (`HasProvider`); without it the punishment of `provider[t]` could leave the type.
- `SingleFlight` is inductive together with `TypeInv`: a job begins only with an order
  that is not in the set, and a panicked job keeps its order.
- `LoopInv` is the invariant of the attempt loop: the number of attempts is one more
  than the number of excluded providers, and unless this is the last chance there
  is another candidate (`AnotherCandidate`: more than one candidate leaves one when
  the selected one is excluded). `SelectionNeverEmpty` and `AttemptsAccounted`
  follow from it; neither is inductive, since neither says before `TryNext` that a
  candidate will be left.
- `ImplementsFetch` takes these as lemmas. A step of `Scheduler` is `Start`, `Ask`, `End`
  or a stutter of `OrderFetch`: selecting asks a provider that is not excluded,
  excluding it later does not change `AskedFor`, and since no other job holds the
  order (`SingleFlight`) nobody else contributes to it.
- `PunishmentsAreCounted` needs the accounts of each job (`ChargeInv`): it punishes
  a provider at most once, because what it punishes it excludes before it selects
  again (`LoopInv`), and only where `metrics_keys` has an entry. `CountInv` compares
  the counter of a mirror with the jobs that have punished it and with those
  that may still do so; the second half keeps the counter from wrapping at the top,
  for which `MaxFailures + Cardinality(Threads) <= MaxU32` leaves room (a `u32` and the
  threads of one process do). Without the hypothesis `AllowReset = FALSE` it is
  false: `Scheduler_reset_downgrade` is the counterexample.
- `NoDowngrade` is the same invariant where no job completes: then the counter of a
  mirror is exactly the number of jobs that have still to pardon it. It shows that a
  reset and a custom repository are the only causes of what
  `Scheduler_reset_downgrade` finds.
- `SharesOnlyWhenBusy` rests on `ScanInv`: there is one selection at a time, and
  while it reads the counts guards are dropped but none is handed out, so that a
  count which it has read may be too high when it is used, never too low.

`MirrorSelectionProofs` proves for every list of mirrors, every configuration and any
number of starts, kills and failures:

| theorem | property |
|---|---|
| `TypeCorrect` | `TypeOK` |
| `StoredIsUsable` | `StoredUsable` |
| `OnlyCountriesOfFullTest` | `CountriesOfFullTest` |

- They assume what `MirrorsAssumption` and `SettingsAssumption` say: the lists are of
  known mirrors, relaxing the settings excludes none, and the numbers of mirrors,
  endpoints and attempts are positive.
- The inductive invariant `IInv` follows a start. The properties speak of the file,
  but what is written there depends on what the start has done long before: so
  `ProvidersInv` says what the providers are from the test on until they are stored,
  and `PhaseInv` that a limited test is in countries of the last full one.
- `ResultsOfTest` is the lemma about the algorithm: whatever the endpoint sends and
  whatever answers, the results of a test name no mirror twice, only such as the
  settings let through, in the countries of the filter. It rests on `FetchedOnce`.

`ConnectionsProofs` proves, for any number of connections, versions, files and requests,
and whatever number of versions is retained:

| theorem | property |
|---|---|
| `TypeCorrect` | `TypeOK` |
| `Retained` | `RetainedUnlessForgotten` |
| `OldOnly` | `OnlyOldRemoved` (of every step) |
| `Swept` | `SweptTogether` |

- `RetainedUnlessForgotten` speaks of a moment in which nobody is left to purge, so
  the invariant has to say who is to purge what as long as somebody is. `RetainInv`:
  of the stored versions that are neither forgotten nor `Claimed` there are at
  most `NumVersionsRetain`. A version is claimed while a thread that has fetched it
  is at its requests or about to purge, or has it in its listing. `FetchedInv` says
  that a thread which has not tainted the cache has fetched nothing but its present
  request; `JobsInv` that a job which may still create its file has a thread that
  waits for it. When a thread lists what is stored, it gives up its claim to
  what it keeps, the youngest `NumVersionsRetain`, and claims the rest.
- `OldOnly` follows from `PurgeInv`: of every version that a thread has listed and not
  yet removed there are `NumVersionsRetain` younger ones which it has not listed.
  No other thread can remove those meanwhile, as it would need the mutex.
- `Swept`: a sweep aborts when another thread has removed its next file. `SweepInv`
  says that as long as stale files are left some sweep will not abort: a file that
  makes a sweep fail was removed by a thread that goes on.
- That the youngest `n` of a set are `n` is induction on the set, which is out of
  reach; `RankIsBijection` proves it without: the number of younger members is an
  injection of the set into `0..(Cardinality - 1)`, hence a bijection.

`DownloadProofs` proves for files of any size, any number of jobs, clients, mirrors,
kills and files:

| theorem | property | if |
|---|---|---|
| `ProgressNeverFirst` | `NeverProgressFirst` | |
| `TypeCorrect` | `TypeOK` | `[]FlushedInTime` |
| `FilesIntact` | `FileIntact` | `[]FlushedInTime` |
| `NoBlockTwice` | `DownloadedOnce` | `[]FlushedInTime` |
| `Ordered` | `DeliveredInOrder` | `[]FlushedInTime` |
| `SizeKnown` | `CfsIsCompleteSize` | `SizeUndisturbed`: no kill, no mirror ignores ranges, not both packages and CFS files purged |
| `ServedWhole` | `DeliveredWhole` | `Undisturbed`: no kill, no package purged; `[]FlushedInTime` |

The hypotheses are what the code does not see to, each with its counterexample:

- `FlushedInTime`: a job has flushed its `BufWriter` before the next one is scheduled.
  It always holds with one job thread (`OneThreadFlushesInTime`), as in the runs
  that hold. With two, `Download_flush_race` violates `DownloadedOnce`; that theorem
  says that there is no other way to get a block twice.
- `SizeUndisturbed`: the table in section 4 has a trace for each of the three conditions
  dropped, which breaks `CfsIsCompleteSize` or what rests on it.
- `Undisturbed`: `Download_purged_hit` purges a package, and a kill violates `DeliveredWhole`
  as well (section 4).
  Mirrors may ignore ranges here, and writes may fail: a client that is promised
  too much is not served to the end, since the file does not grow beyond its size.

The argument:

- `Base`, without hypotheses, is the life of jobs, files and messages: at most one job
  works while the order is in progress and none otherwise, an inode in use
  exists, each state of a job has the attempts and the inode that it needs.
  `AnnouncedInv` adds that the client has its message when the callback
  `write` runs; so a `Progress` is never the first.
- `Intact` is `FileIntact` with what makes it inductive. `WrittenInv`: the file of a job
  and what is in its buffer are together the first `size_written` blocks, so that
  whatever part is pushed out or lost the file remains a prefix, and the next
  block is the right one. It survives because two jobs never write at the same time
  (`OneWriter`), which is where `FlushedInTime` is used. `ReceivedInv` says the same of
  clients: files only grow, so a piece that has been sent remains a piece.
- `CfsInv` follows the CFS file through truncation and writing, `WholeInv` what a client
  relies on from the lookup in the cache to its end.

`ClientStreamProofs` proves for any number of requests on a connection, pipelined or not,
headers in any pieces, files of any size and integers of any width:

| theorem | property |
|---|---|
| `Streaming` | the inductive invariant |
| `TypeCorrect` | `TypeOK` |
| `Ordered` | `AnswersInOrder` |
| `WholeRest` | `RestOfFile` |

- They assume `WidthAssumption` and `BoundsAssumption`: sums of two sizes do not wrap (a `u64`
  and the sizes of files) and the bounds are positive. `MaxSize` and `Width`
  are otherwise arbitrary, so that the differences that may be negative do wrap.
- What the properties say of the responses that the client has taken (`AnswersInv`)
  rests on what is under way. `StreamInv` describes the `Stream`, the response that is
  being received and what follows it: identities do not fall and each request has
  one head at most (`IdsInv`); behind each head are as many bytes of its own response as it
  promises, from the byte that was asked for, unless they are yet to come from a
  growing file or the promise is broken by a purge (`ResponseInv`); what the head of a
  file promises is what is left of the file (`HeadInv`). While a file grows, what has
  still to be sent is what the stream lacks of the promise: so `EndGrowingFile`
  leaves a whole response behind.
- That responses go out in the order of the requests needs the other direction,
  `UnreadInv`: pieces of headers arrive in order, those of one header without a gap, and
  what `read_client_header` throws away with its buffer is never served later. Hence
  the request that is taken is later than any that was answered.
- `AloneInv` is about clients that wait: at most one request has no answer, and it is
  either under way, being served, or the only response in the stream. It makes
  `IdOf(k) = k` inductive, and shows that a broken promise does not affect them: no
  other response comes that could be taken for the rest.

Only model-checked: liveness (`OrderLeaves`, `RequestAnswered`, `ThreadEnds`, `Recovers`,
`StartsOffline`, `AnsweredOrClosed`), which is out of the prover's reach: it handles neither
`ENABLED` nor fairness. No recursive operator is used. Every other property of a run that
holds is the statement of a theorem.

## 7. What is not modelled

- HTTP syntax: whether a header, a path or a range is well-formed is a kind of
  request in `ClientStream`. Of a range only its beginning counts, as in the code.
- Reading the configuration (`load_config`, environment variables, `parse_bandwidth`):
  its outcome is the constants of the modules.
- Locks that are taken while another is held: each locked region is one step, except
  in a selection. The order is job context, `orders_in_progress`, metrics everywhere, and
  no job asks for the job context.
- Failures of creating or writing the CFS file: they are only logged
  (`mirror_flexo.rs:884-898`), and leave a file without a size, as a kill in between does.
- Uncacheable files (databases) on disk: in `Scheduler` they are orders like any
  other, in `Connections` their removal is modelled; that mirrors have different
  versions of them is not.
- Curl, the file system and `paccache`: external, modelled from how the code uses
  them (append, unlink of an open file, write buffer).
- Time: ages and timeouts are nondeterministic. `TIMEOUT_ALL_RETRIES` only logs a
  warning (`lib.rs:214-219`) and has no effect to model.
- Tests, packaging, logging.
