# YAIF, specified and checked

YAIF is an ingestion framework for Databricks: jobs that fetch REST APIs, take
files from cloud storage or receive pushed events, and pipelines that turn what
arrives into bronze, silver and gold tables. This directory holds TLA+ modules
that model it, the TLC configurations that check them on small instances, and
proofs of all their safety properties for every value of the constants.
`PROJECT.json` lists components, runs, the source lines of every definition,
findings, hazards and theorems.

Paths below are those of the repository (`src/jobs/...`); `PROJECT.json` puts
the name of the checkout directory, `src/`, before them.

## The system

| Component | State it keeps | Operations |
|---|---|---|
| API fetch notebook, `src/jobs/fetch_api_responses.py`, run as the `fetch` task of a domain job (`resources/api/*.yml`) | futures, list of rows, `RUN_ID` (all lost with the process); the landing table | pool of threads, a request with up to 4 attempts, collect, sort for the printout, count successes, append, read back, exit; `max_retries: 2`, `timeout_seconds: 3600` |
| API medallion, `src/transformations/` | `bronze_api_responses`, one silver table by `silver_shape`, two gold views, a checkpoint for each stream | stream landing to bronze, parse and explode or keep whole, AUTO CDC into silver, refresh the views |
| Shared transforms, `src/shared/` | none | parse, explode, project, stamp the ingest date, keep recent days |
| Zerobus module, `src/jobs/prepare_zerobus_table.py`, `src/jobs/push_zerobus_events.py`, `src/zerobus/`, `resources/zerobus/demo.yml` | the target table, the producer's stream and the events it may deliver again, silver, gold | create the table, push batches and wait for the acknowledgement, re-deliver, update |
| Files module, `src/files/`, `src/jobs/seed_demo_parquet.py`, `resources/files/demo.yml`, `examples/files/erp_parquet.yml` | a volume's files, Auto Loader's list of files taken, bronze, silver, gold | write drops, discover, ingest once, deduplicate by key or pass through |
| Control-table generator, `scripts/generate_api_domains.py` | the output directory | read rows, group enabled ones by domain, resolve settings, render, write |
| SQL Server examples, bundle, docs | declarations only | none of this repository's |

**How they interact.** A job runs its tasks in order (`depends_on`) and queues
its runs, so two runs of a job never overlap. The tasks share nothing but
tables: the fetch task appends to the landing table and the pipeline streams
from it, the Zerobus service writes the table its pipeline streams from. A
stream's checkpoint moves with the commit of its batch. The files module meets
its producer in a volume: the seeder overwrites its files there, a connector
adds its own whenever it likes. The generator writes the YAML that configures
the fetch task and the pipeline.

**What is hard.** In the fetch task, threads that finish in any order, a retry
policy spread over two functions, and a task retry that starts again with a new
`RUN_ID` while the old run may already have committed. Between task and
pipeline, updates that fail after some of their batches, and runs whose rows
wait for a later update. In silver, rows of several runs merging by a stamp
taken when a request finished rather than when it was served. In the Zerobus
module, at-least-once delivery that replays old records after new ones and
producers whose last records arrive after their death. In the files module, a
volume that changes while an update lists and reads it, and modification times
that say when a file was finished and not when its rows were read. In the
generator, a string that is joined, encoded and split again by two programs,
and an output directory that outlives the runs.

**What makes each part correct.** The fetch task lands whole snapshots once per
run and is truthful about it. Bronze has every landed row exactly once. Silver
is, at the end of an update, a function of everything that arrived: for each
key the row with the latest stamp. Gold accounts for every call and counts
every key once. Acknowledged events are not lost, and each file is read once.
The notebook asks for what the control table says. `PROJECT.json` lists the
hazards line by line with the properties that catch them.

## Modules

| Module | Models |
|---|---|
| `FetchRows` | request specs, what a call of the API comes to, the row it leaves, and the notebook's tests on rows (success, sort order) |
| `FetchTask` | abstract: what the fetch task promises to the pipeline task |
| `FetchJob` | the notebook and its task in full |
| `FetchJobProofs` | the inductive invariant of `FetchJob` and the theorems |
| `ApiDomain` | one API domain end to end, in either silver shape |
| `ApiDomainProofs` | the inductive invariant of `ApiDomain` and the theorems |
| `ZerobusFeed` | the Zerobus module end to end |
| `ZerobusFeedProofs` | the inductive invariant of `ZerobusFeed` and the theorems |
| `CloudFiles` | the files module end to end, the demo's seeder or a real feed before it |
| `CloudFilesProofs` | the inductive invariant of `CloudFiles` and the theorems |
| `ScdType1` | abstract: what an AUTO CDC flow promises to the readers of its target; `ApiDomain`, `ZerobusFeed` and `CloudFiles` implement it |
| `DomainGenerator` | the generator's run, the control table and output directory around it, and how the fetch notebook reads the result |
| `DomainGeneratorProofs` | the inductive invariant of `DomainGenerator` and the theorems |
| `SetSums`, `SeqFolds` | no part of the system: what a sum over a finite set and a loop over a sequence give, by induction |
| `MCFetchJob`, `MCApiDomain`, `MCZerobusFeed`, `MCCloudFiles`, `MCDomainGenerator` | the instances TLC checks |

In every module a definition whose comment begins with "A slip" is not part of
the model: it is the form its neighbour would take under a plausible bug, and
`PROJECT.json` pairs it with the property that notices (`mutants`).

### FetchJob

A spec is its position in `ENDPOINTS`. `fut[s]` is the state of its future:
`queued`, `running` (a thread of the pool has it), `done`, `collected` (the main
thread took it from `as_completed`). `tries[s]` is tenacity's attempt count and
`last[s]` what the latest call came to. `rows` is the list, `landing` the
sequence of append commits, `phase` the position in the notebook or, once it
ended, in the task. `taskRun` counts starts of the notebook and stands for
`RUN_ID`.

| Action | Code |
|---|---|
| `Start` | a free thread takes the oldest queued `fetch_one` (237-239) |
| `Call` | one attempt of `request_with_retry`, the decision to make another and, when it is the last, the end of `fetch_one` (168-234) |
| `Collect` | one turn of the `as_completed` loop (240-241) |
| `SortFails` | `sorted(rows)` raises `TypeError` (244) |
| `NothingFetched` | `success_count == 0`, `RuntimeError` (248-258) |
| `Proceed`, `AppendRows`, `Exit` | the checks passed, the append (278), the read-back and `notebook.exit` (283-289) |
| `Crash`, `Retry`, `GiveUp`, `TimeOut` | the task: loss of the process at any point, `max_retries`, `timeout_seconds` |

The body of a row is non-NULL exactly for a 2xx and its error message exactly
otherwise, so a row is its spec and its status. A path is a pair of its leading
slashes and the rest: the row, and with it the sort, has the rest only
(`StoredPath`). The append is one Delta commit:
it is there whole or not at all, and a crash between it and the exit leaves it
there. `record_count == 0` after the append (286) cannot be reached as long as
the table is only appended to; `Exit` has the code's guard and there is no
action for the failure.

### ApiDomain

`source` is the API's data: each record has a version and a page it is on.
`Serve` is a request answered, `Complete` the row stamped: the source may change
between the two, and a lost answer is asked for again. A row keeps as history
the answer and the body's versions, which properties compare. The fetch task
appears as `FetchTask` promises it (the refinement proved in `FetchJobProofs`):
`Land` commits a whole snapshot with a success in it, and `FetchFails` may come
before or after it. Then `BronzeBatch`, `SilverBatch` apply any number of
pending rows at a time, the views are refreshed when their inputs are complete
(the health view needs only bronze), and `UpdateFails` may stop the update
between any two of these steps, whereupon the platform starts it again or the job
gives up and a later run takes over. Bronze names the landing row it was made from
and silver the bronze row, since no row is rewritten. AUTO CDC of SCD type 1 is
`Latest`: of the current and the arriving rows of a key the one with the
greatest `sequence_by`.

A landing table with rows of a spec list that changed between runs, a full
refresh and schema changes are not modelled.

### ZerobusFeed

`Prepare`, `StartPush`, `StreamBatch` or `OneBatch` (streaming and single-batch
mode, chosen for each run as the job's variable allows), `PushDone` and
`PushFails` are the job's tasks. `sent` is the batch `push` waits for and
`written` how much of it the current stream has written; a failed update is
started again or waits for the next run, as in `ApiDomain`; `Ack` is
`wait_for_offset` returning. `Drop` is a stream the SDK recovers: what was not
acknowledged may be written again. `wire` holds what the service received from a
producer that died; `LateWrite` brings it into the table at any time, during an
update too. Time is in half ticks: a batch every tick (10 seconds), a
re-delivery stamped half a tick (5 seconds) ahead, as `re_deliver` does, so a
re-delivery can carry the next day's date.

### CloudFiles

`config` says whether the seeder or a connector writes the files and whether
`dedup_keys` is set. `files` is every file ever landed, with its rows and its
modification time, `volume` those that exist. `listed` and `backlog` are Auto
Loader's state: what it has discovered, and what of it is still to be read.
Bronze is a sequence of files, since a file is read as a whole; a row of it is a
position and a business key. The version of a row, from the connector's source
or the seeder's clock, is history that properties compare.

| Action | Code |
|---|---|
| `SourceChanges`, `ExportBegins`, `ExportLands` | the connector of `examples/files/`: it reads rows, and lands the file later, with a modification time that may equal that of another |
| `ClearDrop`, `WriteDrop` | `mode("overwrite")` of `seed_demo_parquet.py:46-47`: the old drop goes first, then one new file comes |
| `SeedDone`, `SeedFails` | the read-back and the exit (52-61); loss of the process at any point, `max_retries` |
| `StartUpdate`, `Ingest`, `BronzeDone` | `bronze_cloud_files.py`: list what is new, read it file by file in any order, stamp it |
| `Forgo` | a file that was listed by an update that failed and overwritten before the next one |
| `SilverBatch` | `silver_cloud_files.py:36-75`: AUTO CDC or, without keys, a pass-through, any number of files at a time |
| `HealthRefresh`, `PerDayRefresh` | the two views; the first needs bronze only |
| `UpdateFails` | the update stops between any two steps; the platform starts it again or the job gives up |

Without `dedup_keys` the key of a silver row is the row itself, `<<b, k>>`, so
that both forms of silver are one action. `SilverBatch` lets any of the rows
with the greatest `dedup_order_by` win: for equal times the platform promises
no more.

### ScdType1

Three variables: what arrived, how much of it was read, and the table. `Arrive`
extends the first, `Apply` reads any number of rows and leaves for each key one
of the latest rows read so far, replacing a row only by one that was read later.
That is what makes the cut into batches, failed updates and late deliveries
invisible to a reader. `ZerobusFeed` and `CloudFiles` are checked and proved to
implement it with their bronze, checkpoint and silver. For `ApiDomain` the
refinement is proved, in both silver shapes, and is not among the runs, which it
would slow down three times; its `SilverIsLatestAnswer` states the same of
completed updates, and `SilverNeverBehindLanding` compares silver with the
versions at the source.

### DomainGenerator

A cell is a sequence of tokens of which only separators, blanks, escapes, `%`,
the double quote and the backslash matter, and `Row` is what `strip`, `upper` and
`_truthy` leave of a row's cells before the script looks at them. `BuildDomains`
folds `AddRow` over the rows in the order they are read, `Settles` and
`Conflicts` are the two branches of `_resolve_domain_setting`, `EncodeParams` is
`_encode_params` with `split`, `strip` and `quote` by what they do,
`EndpointsBlock` chooses between the comma-separated widget and JSON, and
`Fetched` is how the fetch notebook reads either
(`fetch_api_responses.py:63-71`). `Loaded` is what YAML makes of the first, which
the template puts between double quotes as it is (316): the same text, unless a
double quote ends it early or a backslash escapes what follows. Around them,
`Edit` changes the control table at any time, `Start` reads it or fails,
`WriteDomain` writes one file of the output directory and `Dies` stops the script
between two of them or in the middle of one, which leaves the beginning of a file
(`Torn`) in place of whatever was there.

## Runs

| Run | Instance | Shows |
|---|---|---|
| `fetch_threads` | 3 specs (two with the same label and path), 2 threads, 3 attempts, 2 starts, a success or a rate limit | types; a transient failure costs a row its status only after the last attempt; commits are whole and one per run; the exit is truthful; the task ends; `FetchJob` implements `FetchTask` |
| `fetch_sort` | the same with 2 attempts | **violated**: see finding 1 |
| `api_pages` | two specs with one name, a record that moves between them, one without an id, 2 versions, 2 runs, 2 days | types; bronze without gaps or doubles; silver is the latest answer; daily counts are the distinct keys |
| `api_snapshots` | two endpoints, a record that may vanish and reappear, 3 versions, 2 runs | silver is never behind what was landed |
| `api_documents` | document shape, bodies that do not parse, 302 and 404, 3 days under a window of 1 | the health view accounts for every call until a date has left the window, and then for those still inside; the daily view counts every document |
| `api_error_count`, `api_slices` | small forms of the above | **violated**: findings 2 and 3 |
| `zerobus_push` | 2 runs of up to 2 batches, 1 dropped stream, 3 ticks of a day each | types; acknowledged events reach silver; `ZerobusFeed` implements `ScdType1`; events are counted once and re-deliveries of a day show |
| `files_feeds` | the demo's 2 drops with 2 tries of the seed task, or 2 exports of a connector, full or incremental; with and without keys; 2 runs, 2 days | types; each file is read once and none is forgotten; `CloudFiles` implements `ScdType1`; the demo shows its last drops; both views add up |
| `files_overlap` | a real feed, 1 run | **violated**: finding 4, a long full export that lands after an incremental one |
| `generator_rows` | tables of up to 3 of 8 rows (two domains, GET, POST, bodies, cells to encode, conflicting settings, incomplete rows), 4 edits, 2 runs that may be cut off in the middle of a file; cells with commas, double quotes and backslashes | the notebook asks for what the enabled rows say; settings are the first given and conflicts are flagged; encoded cells stay |
| `generator_stale` | the same | **violated**: finding 5 |

**Bounds.** Two threads are the least that can finish out of order, and three
specs the least that leave one queued behind them. Two specs with equal label and
path are the case the sort and the document key depend on. Two starts of a task,
or runs of a job, give a run whose commit meets that of another; a fault of more
runs would need one whose effect skips a run, and nothing in the code looks
further back than the tables. Two tries of the seed task are a first and a
repeated one, and two exports are the least that can overlap. Three rows of a
control table let a row stand between two that conflict, and four edits leave one
to pause or remove a row after the first run. Three days under a window of one
have a day that is its inclusive edge and a day that has left it. The health and
day counts are checked after an update has completed and before the next begins,
as a reader of the views sees them. Days pass in that time too: the view is as
recent as its refresh, so that, of the calls of a date that leaves the window in
between, `HealthAccountsForEveryCall` says neither that they are shown nor that
they are not. It bounds the total from both sides: every call inside the window
today is counted, and no call is that had left the window when another came in.
As long as no date has left, the total is every call ever landed. A window a day
too narrow and one that never forgets both violate it. `MaxVersion`, `MaxRuns`,
`MaxDay`, `MaxTick`, `MaxBatches`, `MaxDrops`, `MaxFiles`, `MaxRows` and
`MaxEdits` are bounds of the model only. The pool size, the attempts and the
retries are the program's, and the theorems hold for all their values.

**Deadlock** is not checked: a job that exited or gave up takes no step, and
the bounds stop the rest.

**Fairness.** Only `fetch_threads` needs any: weak fairness of `Work`, the
notebook's and the task's own steps together. Every HTTP call ends
(`timeout=60` in `basic_secret` mode; the client of the `connection` mode has
its own limit), every back-off is at most 10 seconds, and the job starts the
next retry itself. No fairness is assumed of single threads, nor of `Crash` and
`TimeOut`. `TaskEnds` says that pool, retries and checks leave no way to run for
ever: slots are freed by the last attempt, attempts and restarts are counted.

## Findings

1. `fetch_sort`: the rows are sorted only to be printed, and
   `fetch_api_responses.py:244` raises `TypeError` when two specs have the same
   label and path and only one of the rows has a status. Nothing is landed
   although requests succeeded.
2. `api_error_count`: a 429 that outlives its attempts is recorded without its
   status, so `error_count`, which `docs/api-ingestion.md:336` says to watch for
   rate limits, does not count it (`network_error_count` does).
3. `api_slices`: in the document shape two responses of a run with one label
   have one CDC key, and silver keeps one of them. The generator writes no
   names, so two slices of one path are such a pair.
4. `files_overlap`: silver is ordered by the modification time of the file. A
   full export that began before an incremental one and landed after it brings
   an older version of a row back, though `silver_cloud_files.py:4-6` says that
   overlapping exports converge to the current row. `SilverIsCurrent` asks this
   of files with different times only; of equal ones the platform promises
   nothing.
5. `generator_stale`: the YAML of a domain whose last row was paused or removed
   stays in the output directory, and a run that finds no enabled row at all
   changes nothing, though `examples/api/control_table.sql:13-14` says that
   re-running the script follows the table.

Met on the way and not runs of their own: a record deleted at the source of an
API stays in silver and gold; `duplicate_rate` does not see a re-delivery on the
other side of midnight; a comma in a `path` cell becomes two endpoints when all
of a domain's rows are plain GETs, since only `params` is encoded, and a double
quote or a backslash there breaks the YAML or changes what it says; a file that
was cut off stays until a later run writes its domain again; a misspelt
`auth_mode` or `silver_shape` takes part in the resolution of settings and is
then rendered as the default; `scripts/README.md` says that rows other than GET
are skipped, and the generator emits them as JSON.

## Proofs

`FetchJobProofs` proves about `FetchJob`, for any number of specs, threads,
attempts and restarts and any set of statuses:

- `TypeCorrect`, `SnapshotsComplete`, `ExitIsHonest`, `TransientsRetried`: the
  invariants `TypeOK`, `CompleteSnapshots`, `ExitReportsLanding` and
  `TransientOnlyAfterLastAttempt`;
- `Refinement`: `FetchJob` implements `FetchTask`.

All follow from `InductiveInvariant`, `Spec => []IInv`. `CompleteSnapshots`
alone is not inductive: that a commit is whole is known only because the list
was whole when it was appended, which is known only because each collected
future left exactly one row (`RowsMatchFutures`, the list as long as there are
collected futures, and all its rows of different ones). That a run commits once
needs `LandingMatchesPhase`: no commit of the current run before `AppendRows`.
`ChecksHold` carries the notebook's test from the check to the append,
`FuturesSettle` the count of attempts from the thread to the row. Each part has
a lemma of its own; the counting arguments rest on `FiniteSetTheorems`. The
assumptions are those declared in the modules: at least one thread, attempt and
start, statuses that are numbers, and markers that are not.

`CloudFilesProofs` proves about `CloudFiles`, for any keys, drops, exports, tries
and runs and every configuration of the feed:

- `TypeCorrect`, `FilesAreReadOnce`, `DemoShowsThem`, `RowsAreCountedOnce`,
  `HealthAccounts`: the invariants `TypeOK`, `FilesReadOnce`,
  `DemoShowsTheLastDrops`, `RowsCountedOnce` and `HealthAccountsForEveryFile`;
- `Refinement`: `CloudFiles` implements `ScdType1`.

The invariant is `TypeOK` with five parts. `FilesCounted` bounds the files by
the turns of their writers: without it nothing says that a modification time
stays within `Times`, or that the latest row of a key exists. `ReadsAccounted`
follows a file from the listing through the backlog to bronze, so that a file
read by one update cannot be found again by another. `SilverLatest` says of the
rows read so far what `ScdType1` says of its table. `ViewsTrue` says of a
refreshed view that it shows the tables as they are, which the order of the
stages keeps true to the end of the update. `DemoFiles` is the seeder's half of
`DemoShowsTheLastDrops`: the volume has the newest file of each drop or, between
the two steps of an overwrite, none, and an update finds it whole. Because later
files have later modification times, the row silver keeps of a key is then one of
a file that is still there, though a drop that was overwritten before it was read
never reaches bronze at all.

`ZerobusFeedProofs` proves about `ZerobusFeed`, for batches of any size, any
number of batches, runs and dropped streams, and a day of any length:

- `TypeCorrect`, `AckedIsInSilver`, `DuplicatesAreShown`, `EventsAreCountedOnce`:
  the invariants `TypeOK`, `AckedEventsReachSilver`, `DuplicatesShow` and
  `EventsCountedOnce`;
- `Refinement`: `ZerobusFeed` implements `ScdType1`.

`EventsCounted` gives every batch of every run room for its event ids, a product
of three bounds. `DeliveriesLand` leads from the write of a record over the
acknowledgement of its batch to the length of bronze at the start of the next
update; a dropped stream may forget what was written, the table does not.
`HealthShows` says of a refreshed view that it counted at least what was in the
table when the update began, and `PerDayShows` that the daily view is that of the
silver table. Of the deliveries of an event one is the latest because stamps are
bounded and numbers well founded (`LeastExists`).

`ApiDomainProofs` proves about `ApiDomain`, for any specs, records, places of
records and statuses, either shape of silver, and any number of runs, days and
versions:

- `TypeCorrect`, `LandedOnce`, `LatestAnswer`, `EveryCallAccounted`,
  `KeysAreCountedOnce`: the invariants `TypeOK`, `LandedRowsReachBronzeOnce`,
  `SilverIsLatestAnswer`, `HealthAccountsForEveryCall` and `KeysCountedOnce`;
- `NeverBehind`: `SilverNeverBehindLanding`, where silver has the shape of
  records and each record is served under one spec (`OneSpec`);
- `Refinement`: `ApiDomain` implements `ScdType1`.

`LandingCounted` keeps the landing table within one row per spec and run, and
with it the stamps within their type. `BronzeFollows` is the pipeline's order of
stages: bronze is the landing table up to the checkpoint, and silver and gold
begin only when the stage before them has read everything. `HealthShows` carries
the counts of a view from its refresh to the end of the update, over the failures
that keep what was refreshed, `PerDayShows` those of the daily view. What a
refresh counts are exactly the calls ingested since the first date of the window
(`RefreshCounts`): all of bronze while no date has left, and, as no row was
ingested on a day to come (`DaysPast`), no call that had left when another came
in. Days that pass afterwards only move the edge of the window past calls, so
every call still inside remains counted (`CallsKept`).
`NeverBehind` adds `VersionsRise`: responses in
flight and answers of the run are no older than anything landed, their stamps
come after all landed stamps, and two rows of a run never bring the same record.
The last of these is where `OneSpec` is needed: a record that moves from a page
to another while both are fetched may be stamped later in its older version.
`DomainAssumption` names what the configuration
must be: one of the two shapes, places that are specs or nowhere, and bounds that
are numbers.

`DomainGeneratorProofs` proves about `DomainGenerator`, for tables and cells of any
length and any number of edits and runs:

- `RunsWriteWhatTheyRead`, `FirstSettingWins`, `EncodingIsStable`,
  `RequestsAreThoseOfTheRows`: the invariants `TypeOK`,
  `SettingsComeFromTheRows`, `EncodedCellsStay` and `FetchRequestsTheRows`.

The invariant, `TypeOK` and `Written`, is short: until the run ends, a file that
was written is the one its rows make, whatever is edited meanwhile. What is long
is what the rows make, and it is proved loop by loop. `QuoteFacts`, `StripFacts`
and `SplitFacts` say which characters each conversion can leave, `SplitJoins` that
splitting what was joined gives the parts back, `EncodeAgain` and `EncodedAgain`
that an encoded pair stays as it is, and with it the pairs of an encoded cell.
`ParamsFacts` follows from these: an encoded cell has no comma, no blank, no
double quote and no backslash, so that `FetchedFacts` can take the endpoints
through YAML and the widget's string and find the same requests again, unless a
path itself has one of these characters. It holds whatever earlier runs left in
the directory, torn files included, because a run that ends has written every
domain it read. `BuildFacts` goes
through the table row by row: after each row, every domain has the requests of
its rows in their order, the first setting that counts, and a warning exactly
where two of them differ.

**Induction.** The library's induction rules take a predicate as a parameter,
which the provers cannot instantiate, so two modules state induction with sets
in place of predicates and derive it from the well-foundedness of the numbers.
`SetSums` has for the sums of the views that the sizes of disjoint parts add up
to the size of their union (`TotalCounts`): each of the theorems on daily counts
shows that the rows of two days have no key in common. `SeqFolds` has for the
loops of the generator that a set with the empty sequence and every extension of
its members has every sequence (`SequencesInductive`), and that a loop over one
more element runs its body once more (`FoldAppend`). What a loop does is their
constant;
`DomainGeneratorProofs` instantiates `SeqFolds` for each of the generator's six.

**Assumptions on the constants**, beyond bounds that are numbers: the keys of the
files and the records of the API are finitely many (a table cannot count others),
and a row of the control table has the cells the script reads, its path as
`strip` leaves it (`GeneratorAssumption`). TLC evaluates all of them. As the
provers do not count literals among the strings, texts are over `Chars`, the
strings together with the literals of the module.

TLC alone checks liveness (`TaskEnds`), which is out of the prover's reach, and
finds the counterexamples of the findings. Every safety property of a run that
passes is the statement of a theorem.

## Not modelled

- SQL Server examples, bundle, site and design files: declarations for products
  of the platform, with no behaviour of this repository's.
- Validation of the widgets, which fails a run before its first request, and the
  transports' headers, authentication and URL joining, which no state depends on.
- Averages, byte counts, freshness and time stamps of the views, and
  expectations that only warn.
- VARIANT contents beyond whether a body parses; schema evolution and rescued
  data of the files module, which add columns and lose no row.
- The fixed text of the generator's template and the counts it prints; whether
  the SQL API gives a result of the control table's size in several chunks.
- A full refresh of a pipeline, which nothing in the repository schedules.

## Plan

1. The refinement of `ScdType1` by `ApiDomain` is proved and not run; a smaller
   instance could afford it.
2. A theorem on what a run of the generator that dies leaves in the output
   directory: files of this run, at most one that was cut off, and for the rest
   those of earlier runs.
3. A theorem that `SortFails` is the only way a snapshot with a success in it is
   lost without a crash, with the condition on labels and paths that excludes it.
