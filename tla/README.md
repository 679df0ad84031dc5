# media-insights in TLA+

media-insights scans directories of video files, probes each file with ffprobe,
matches it to a title, asks metadata providers about the title, classifies it,
and tells webhooks and scripts about every change. It is one Python process with
many threads over one SQLite database, beside which CLI processes may run. Its
guarantees (no lost events, a catalogue that agrees with the disk, labels that
agree with the evidence, a person's verdict that stands) depend on how these
threads interleave and on where they stop. This directory holds models of the
parts that carry these guarantees, their TLC runs, and machine-checked proofs.

Paths such as `service.py:225` are files under `src/media_insights/` of the
repository; `README.md` and `CHANGELOG.md` with a line are the repository's.
`PROJECT.json` maps every definition to its lines and lists every hazard found
while reading, at the line where it bites, with the properties that would catch it.

## 1. Inventory

| Component | State | Operations | Hard behaviour | What makes it correct |
|---|---|---|---|---|
| Outbox (`events/bus.py`, `models.ChangeEvent`) | `change_events` rows: status, attempts, created_at | record, due, mark sent / failed | stamps are taken before the INSERT waits for the write lock, so commits need not follow them | each event is settled once |
| Dispatcher (`events/dispatcher.py`, `webhook.py`, `exec.py`) | the tick's batch, one event being dispatched | poll, call every hook, settle in a transaction of its own | crash between call and commit, failed commits, one of several hooks failing, another configuration after a restart | sent means heard, failed means not acknowledged, bounded redelivery, no event stranded |
| Scanner service (`scanner/service.py`) | `media_items`, `seasons`, `media_files`, `tracks`; a lock per library name | scan, rescan and removal of a path, prune, reclassify, enrich, scan_all | per-file sessions, ffprobe in the middle of one, removals outside the library's lock, cascades, failures halfway | rows match the disk, labels match the rows, events match the rows, no locks kept |
| Database (`db.py`, `migrations/`) | SQLite file in WAL mode, one writer; `alembic_version` | sessions, migration and schema repair | reads hold no lock, the first flush takes the write lock until the commit; DDL commits by itself | a failed session leaves nothing; nobody reads an incomplete schema |
| Library store (`config_store.py`, library endpoints of `api/app.py`) | config.yaml, the live list, `libraries` rows, watches | add, update, delete, purge, reconcile at start | the list is changed in place and put back when the write fails; the database commits after config.yaml is written; a directory may be missing when its watch is due; scan locks go by name; row ids are reused | list, file, table and watches agree |
| Verdicts (`_reclassify_item`, `enrich_all`, identify, override, `resolve`) | label, override, ids, stored evidence per title | reclassify, enrich, override, identify | read / compute / write across sessions with column-wise UPDATEs, a network call between | a person's verdict and ids stand, labels fit the evidence |
| Classifier (`classify/`) | none | weigh signals, rank labels, list misfiled titles | sums of small weights near thresholds, NULL in SQL | strong evidence outranks hints, Python and SQL agree |
| Matching (`matching/matcher.py`, `parser.py`, `discovery/plexmatch.py`) | a cache of .plexmatch files per walk | resolve title, kind, season, ids | sources of different trust, cached lookups beside fresh ones | one row per title, identities are kept |
| Providers (`matching/providers/*`) | throttle clock, TVDB token, merged answer | look up, retry, merge | retries, rate limits, tokens that expire | every lookup ends; pace kept; first opinion wins |
| Watcher (`scanner/watcher.py`, callback in `api/app.py`) | event queue, pending paths, a timer | feed, fire, stop, rescan | feed racing fire and stop | no change is lost |
| Deep scans (`scanner/scheduler.py`, `POST /api/scan`) | an iterator over the live list | scan_all | the list changes under the iterator | no library is missed, no two runs in one library |
| Subtitles (`discovery/subtitles.py`, `subtitle_coverage.py`, `language.py`) | tracks and summaries | collect, parse, store, report | sidecars change while the video does not; a video is replaced between its probe and its fingerprint | tracks, summary and fingerprint are those of one content |
| CLI (`cli.py`) | none | calls the service from a process of its own | runs beside the server | inherited from the service |
| Configuration loading, probing, fingerprint bytes, serializers, web UI | none | pure input and output | none, or byte-level detail | unit tests reach them |

How they meet: the API, the scheduler, the CLI and the watcher call the scanner
service; the service calls the walker, the matcher, the prober and the
classifier, writes the catalogue, and records events in the same transaction;
the dispatcher polls those events from its own thread. The only shared state is
the database, the per-library scan locks, the configuration object and the file
it is saved in.

## 2. Modules and runs

| Module | What it is | Run |
|---|---|---|
| `Outbox` | the abstract outbox: record, hear, send, give up, skip | (a property of the next) |
| `Dispatcher` | the dispatcher thread over the outbox, with producers, faults and restarts; implements `Outbox` | `MCDispatcher_delivery` |
| `Catalog` | one library's catalogue: scans, rescans, removals, SQLite's locking, the disk | `MCCatalog_scan`, `MCCatalog_removal` |
| `Verdict` | who decides what a title is: sessions of classifier, providers and people | `MCVerdict_sessions` |
| `Libraries` | config.yaml, the live list, the table and the watches, under requests and scans | `MCLibraries_requests` |
| `Watcher` | from a change on disk to a rescan | `MCWatcher_debounce` |
| `DeepScan` | deep scans over a list that changes | `MCDeepScan_walks` |
| `Providers` | throttle, retries, token, merge | `MCProviders_lookup` |
| `Classifier` | scores, the label, misfiled titles | `MCClassifier_evidence` |
| `Matcher` | names and .plexmatch files to title rows | `MCMatcher_scan` |
| `Subtitles` | sidecars, probes, fingerprints, tracks, summaries | `MCSubtitles_scan` |
| `Migrations` | `run_migrations` by threads and processes that may stop anywhere | `MCMigrations_crashes` |
| `DispatcherProofs`, `CatalogProofs`, `VerdictProofs`, `LibrariesProofs`, `DeepScanProofs`, `MigrationsProofs` | theorems about the module of that name | (TLAPS) |
| `MetadataProofs` | theorems about `Classifier` and, as instances, `Providers` and `Matcher` | (TLAPS) |
| `FilesProofs` | theorems about `Subtitles` and, as an instance, `Watcher` | (TLAPS) |
| `MC*` | instances for TLC; each `.cfg` is one configuration |  |

The configurations above pass. Those named `*_docs.cfg`, and
`MCMatcher_above.cfg`, list statements of the repository's documents and
comments that the code does not keep: section 14. TLC reports the first
violated one of a configuration; leave one in it to see its counterexample.

Operators whose comment begins with "Mutant" are deliberate mistakes (a dropped
guard, a missing reset). No behaviour uses them: each shows, when it replaces the
definition that follows it, that a property of a run would notice that mistake.

The modules meet at named seams. `Catalog` takes a file's match as data that
`Matcher` computes, the probe's facts as data of which `Subtitles` has the
tracks, and a label as a function of which `Classifier` is the definition and
`Verdict` the concurrent use; a scan is a step in `Libraries`, `DeepScan` and
`Watcher`, and the whole subject of `Catalog`; an answer of the providers is a
value in `Verdict` and what `Providers` ends with.

## 3. Dispatcher

`row` is the table, `open` the sessions that have inserted an event and not yet
committed, `batch`/`cur`/`untried`/`delivered` the locals of `drain_once` and
`_dispatch`, `conf` the hooks the process was started with.

| Action | Code |
|---|---|
| `RecordEvent`, `CommitEvent`, `RollbackEvent` | `bus.record_event` in somebody's session |
| `SkipDue`, `ReadDue` | `drain_once` without and with hooks |
| `Begin`, `Deliver`, `Settle` | one `_dispatch`: its reset, one hook call, its closing transaction |
| `SettleFails` | that transaction fails; the exception leaves `drain_once` |
| `Restart` | the process dies, or stops, and returns with another `config.yaml` |

A hook call may reach its endpoint and still report an error (a timeout, an
HTTP 500): `gotIt` and `ok` are chosen apart, with `ok => gotIt`. The history
variables `tries`, `heard`, `acked`, `broken` and `late` are read by properties
only. Left out: the payload, its signature, the preview.

Fairness: `WF(Dispatch)`. The thread loops until the process ends (`_run` catches
every exception), each hook call has a timeout, and the poll wait is finite. No
fairness is given to producers, to faults or to restarts. Events and faults are
bounded, after which the environment may stop: `CHECK_DEADLOCK FALSE`.

`MCDispatcher_delivery`: two events, a webhook and an exec hook, four
configurations to restart into (including none), one fault. Two events suffice
for order and for a flag carried from one to the next. The webhook's limit and
the limit without one are both two attempts, so every event can exhaust its
budget. What happens when the limits differ is in section 14.

Bounds: `MaxEvents` and `MaxFaults` (crashes plus failed commits).

## 4. Catalog

State: `disk` and `layout` are the world (the content of each path, and the
season each path matches); `items`, `seasons`, `files` are the tables; `told` is
what a consumer of the outbox was last told of a path; `lock` is the library's
scan lock, `writer` SQLite's write lock; `pc`, `job`, `tx`, `doomed` are a
thread's stage, its scan, what its session has read, and what it will delete.

A database session is at least two steps, because the session factory has
`autoflush=False` and pysqlite opens no transaction for a SELECT: reads see the
committed state of their moment, and the first flush takes the only write lock,
to be kept until the commit. A session that inserts a new file flushes before it
runs ffprobe, so it holds the write lock during the probe; a session that updates
a known file does not.

| Action | Code |
|---|---|
| `StartScan`, `Visit` | `scan_library` takes the lock and walks the files |
| `StartRescan` | `manual_rescan_path` |
| `Visit`/`StartRescan` via `Lookup` | `_item_record`, `_season_record` and the query for the existing row |
| `SkipFile`, `Reprobe`, `Insert` | the three branches of `_process_file` before the probe |
| `Probe` | `probe_file` |
| `CommitFile` | fingerprint, event and commit; in a rescan, the library's reclassification too |
| `Relabel` | the reclassification after every 200th file seen (`ReclassifyEvery`) |
| `ReadPrune`, `CommitPrune` | the last session of a scan: `_prune_missing`, `_cleanup_empty`, `_reclassify_library` |
| `Notice`, `ReadMissing`, `NothingMissing`, `CommitMissing` | the watcher found the path missing and calls `handle_missing_path`, which takes no library lock |
| `Vanished`, `SessionFails`, `Crash` | a file gone under the code's hands; any other failure of a session; the end of the process |
| `ChangeFile`, `Rematch` | the outside world: files and .plexmatch edits |

Abstractions. A file's content is one value; `Digest`, `Mtime`, `Facts` say what
the fingerprint and the prober read off it. A label is a function of the set of
facts stored for the title; TLC's instance tells any two sets apart, the finest
classifier there could be. A path's match is data (`layout`). Rows are
identified by what they stand for and not by rowid. A deleted row that is inserted
again is thereby the same row to a session that still remembers it, which is what
SQLite does when it reuses the rowid, the worse of the two cases. The step that
reads a relabelling and the step that writes it are one: scans and rescans hold
the library's lock.

Fairness: `WF(Work(t))` for each thread: threads run until the process dies, a
file's probe ends, and waiting for the write lock ends at the latest in an error
after 30 seconds. Nothing is assumed of the world, of who starts a scan, or of
failures. No bound is needed: the state space is finite with any number of
edits, failures and crashes. Deadlock is checked.

- `MCCatalog_scan`: scan and rescan of two files that move together between the
  seasons of two titles, whose content may be touched (same bytes, another
  mtime), deleted and restored; forced scans too. `ReclassifyEvery` is 2 instead
  of 200, so that both its paths happen. A file that was moved by a .plexmatch
  cannot be inserted again, so sessions fail here constantly; rows, files,
  events and labels still correspond.
- `MCCatalog_removal`: one title with two seasons, a scan, a rescan and a
  removal that ignores the library's lock; foreign keys hold and nobody keeps a
  lock.

Every property relates at most two paths (one to lose its season to the other)
and at most two threads in conflict, since the library's lock admits one scan
or rescan and only removals escape it.

## 5. Verdict

`rows` are the title rows by id; a thread's session is what it read (`got`) and what
it made of that (`put`). The ORM writes the columns that differ from what was read
and no others: `Written`, `Merged`. So two sessions that change different columns of
one row both succeed, and two that change the same one leave the later. A new row
takes the id after the largest (`IsNewId`), which is the id of a row deleted before
if that was the last one: a session that read the old row then writes to the new one.

| Action | Code |
|---|---|
| `Create` | `_item_record` finds a title: a row without a label, with the id its `.plexmatch` gives |
| `Rematch` | `_item_record` meets it again, and fills in an id where there is none |
| `ReclassifyAll` | `reclassify_all`, as `_reclassify_library` in a scan |
| `Identify`, `OverrideClassification` | the two endpoints, and the CLI's `resolve` |
| `EnrichAll`, `Ask`, `OpenAnswered`, `DeletedMidRun` | `enrich_all`: its list, the lookup with no session open, `_store_provider_signals` with the reclassification |
| `Commit`, `Fail` | the commit with the changed columns; any failure, in which a row that is gone counts (`StaleDataError`) |
| `Drop`, `Age` | a title is deleted; `cache_ttl_days` pass |

Abstractions. The classifier is any function of the title, the stored signals and
the stored external id: all that `classify()` reads and some session here writes.
The title's files, tracks, year and kind are part of what the title stands for, so
a change of files is not a step of this module: `Catalog` has that side. The four
id columns are one, and the providers' answer is one signal or none.

`said`, `gave`, `raced`, `dated`, `unheard` are histories. `raced` holds the rows
whose label two sessions decided at once: there the later commit wins, whoever it
is, and the properties exclude it (section 14 has what the comment promises).
`dated` holds the rows whose id changed after a session decided their label, or
while one did: `identify`, `resolve` and a scan that fills an id in write a column
that `classify()` reads and decide nothing anew, so such a label stays as it was
until the next reclassification. A first label is never dated: `NULL` fits anything.
Every other label no person gave is what `classify()` makes of what is stored.

`MCVerdict_sessions`: one title and one row (`MaxRow` = 1, so that a title found
again always has the id of the one deleted), two threads, which suffice for every
race of column-wise writes; an id a person or a `.plexmatch` gives that tells the
classifier what the provider's answer also tells, and another that it does not
understand. `VIEW Whatever` leaves out whether the row's answer is fresh, as an
enrichment may be forced at any time. Bound: `MaxRow`. Ids may run out:
`CHECK_DEADLOCK FALSE`. Safety only.

## 6. Libraries

Four places know which libraries there are: `cfg` (the live list), `file`
(config.yaml), `db` (the table) and `watched`. A request is a thread with a step
counter, since each of its writes is durable before the next begins. A scan keeps
the `LibraryConfig` it was given. `present` are the directories that exist, and
`Enabled` whether the configuration has a watcher.

| Action | Code |
|---|---|
| `CreateLibrary`, `CreateConfig`, `CreateRow`, `CreateWatch` | POST: it looks at the list without the lock, then `add_library`, the row, watch and background scan |
| `UpdateLibrary`, `UpdateConfig`, `UpdateAdd`, `UpdateRow`, `UpdateWatch` | PUT: read the row, `update_library`, or `add_library` if the list has no such name, the changed columns, the watch |
| `DeleteLibrary`, `DeleteConfig`, `DeleteWatch` | DELETE, with or without purge |
| `Change`, then `Persist` or `PersistFails` | `config_store`: the list is changed in place, config.yaml written, or the list put back; its lock is held between (`Unlocked`) |
| `RequestFails` | the process survives a failed session |
| `StartScan`, `EnterScan`, `ScanFile`, `EndScan` | `scan_library` with its lock by name and `get_or_create_library` |
| `Mount` | a directory is unmounted or deleted, or comes back |
| `Restart` | the process stops in the middle of a request or a save and starts: `configure`'s reconciliation, and the watches of the directories that exist |

While a change is being saved, `cfg` holds what may be taken back, and other
threads read it: a POST that finds its library there goes on to the row without
the lock, a scan may be started of it. `ListOK` says that then `undo`, and
otherwise `cfg`, is what config.yaml has: whatever fails, what runs is what a
restart would read.

Two histories state when the other properties speak. `upset`: since the last
restart a request failed halfway (a row that is gone or whose name is taken, a
database error, a purge whose list could not be saved), or met a request or a scan
that had another library in mind, or took up a library that was just being saved
and might be taken back. `missed`: the directories left without a watch, which
are all of

- one that was not there, or any if the watcher is disabled (`Skipped`,
  `watcher.py:136-145`, `164-168`);
- one that a PUT configured again whose row had that path already (`UpdateAdd`,
  `api/app.py:344-347`): the path did not change, so `install_library` is not called;
- one whose watch was taken by the deletion or the move of another row of the same
  path, although a configured library has it (`Taken`, `api/app.py:346`, `372`).

A watch installed later takes a directory off `missed`. None of the three needs two
requests at once. They contradict `README.md:11`, see `WatchIsImmediate` in section
14. With one request at a time, none failing at its end, and no outdated scan, `upset`
stays false.

`MCLibraries_requests`: two names, two directories, two ids, and at once two
requests or one beside one scan (`AtOnce`): every pair of interleaved operations
happens, of any kind. Once something was upset one at a time goes on, until a restart
makes the state even again; at most one directory is missing. `VIEW View` leaves out
`foreign`, which only `NoForeignFiles` reads. Symmetry in names, directories,
requests and scanners. The watcher is enabled; what follows when it is not is
`Skipped` of every directory. Bounds: `MaxRow`, `Requests`, `Scanners`, `AtOnce`.
Safety only; deadlock is checked.

## 7. Watcher

`events` is watchdog's queue, `feeding` what the observer thread has yet to feed
of one event, `pending`/`timer`/`stop` the handler's fields, `state` and `due` the
timer threads with their batches. `owed` is the history of changed paths that no
callback has dealt with.

| Action | Code |
|---|---|
| `Dispatch` | `_WatchdogBridge.dispatch`: both ends of a rename |
| `CheckStop`, `Feed` | `feed()`: it reads `_stop` before it takes the lock |
| `Expire`, `Fire` | the timer; `_fire` takes what is pending and gives the timer up |
| `SetStop`, `CancelTimer` | `stop()`: `cancel()` reaches a timer that waits, not one that has expired |
| `RescanVideo`, `ScanLibrary`, `ScanRaises`, `Ignore`, `Finish` | `_debounced_rescan`, path by path |
| `Touch`, `Appear`, `Disappear`, `Rename` | the disk |

Fairness: `WF(Observe)`, `WF(CancelTimer)`, `WF(TimerThread)`: threads run, a
timer expires, a rescan ends (section 4). Nothing of the disk or of who calls
`stop()`.

`MCWatcher_debounce`: one video, one other path (which stands for sidecars and
directories), two timer threads (the handler starts a second only when the first
has given its place up, and while that one runs), a queue of one event with two
ends, so that the observer always has two things to feed. A library root that is
a symbolic link is excluded (`RootIsLink`): there a directory's event finds no
library. Bounds: `Timers`, `MaxQueue`. Deadlock is checked.

## 8. DeepScan

`list` is `cfg.libraries`, `undo` what a change that is being saved would be
taken back to, `next` the index of each run's iterator: Python iterates the live
list by index, and `config_store` changes it in place.

| Action | Code |
|---|---|
| `AddLibrary`, `UpdateLibrary`, `RemoveLibrary`, `Persist`, `PersistFails` | `config_store` |
| `Start`, `Take`, `Walked`, `Enriched` | `scan_all` by the scheduler (`max_instances=1`) and by `POST /api/scan` |
| `Enter`, `ScanEnds`, `ScanFails` | `scan_library` with its lock; an exception outside its loop over the files |

Fairness: `WF(Persist \/ PersistFails)` (a request's write to a file ends) and
`WF(Run(r))` (a thread runs, a scan ends, and whoever waits for a library's lock
gets it or finds it free again: with at most two runs weak fairness is enough).

`MCDeepScan_walks`: three libraries' names, lists of up to three, two changes, two
runs, two deep scans: enough for a removal before the iterator's index, an
addition taken back, and two runs in step. Bounds `MaxScans` and `MaxChanges` run
out: `CHECK_DEADLOCK FALSE`.

## 9. Providers

A pass of `enrich_all` has provider objects of its own, and so limiters and a
TVDB token of its own. `at` is the provider it asks, `call` which request of it,
`attempt` and `asleep` the retry loop of `request_json`, `cool` the limiter,
`merged` the answer so far. Time is `Tick`.

| Action | Code |
|---|---|
| `Lookup`, `Finish` | `lookup_all` for one title |
| `Error`, `Limited`, `GiveUp`, `Refused` | `request_json`: no answer or 5xx, 429, the loop's end, any other status |
| `LoggedIn`, `NoCandidate`, `Candidate`, `ExternalIds` | what the three providers make of a body |
| `ExpireToken` | TVDB stops accepting a token |

Abstractions: an answer is its source, its opinion on anime and whether it knows
an IMDB id; the best candidate is in `Classifier`. A tick is half a second, as
TMDB's and TVDB's limiters space their requests; `Cap` is 13 ticks instead of a
minute, above every other delay, so that both sides of it occur.

Fairness: `WF(Tick)`, `WF(Step(p))`: clocks go on and every request has a timeout.
`MCProviders_lookup` has one pass through all three providers in registry order;
two passes differ from one only in what section 14 says of the rate limit.
Deadlock is checked; nothing is bounded.

## 10. Classifier

`title` and `Answers` are the inputs, `row` the stored evidence, `label` the
result. Weights are integers in hundredths; the code adds floating-point numbers,
so scores that are equal here may be a rounding apart there: `Classify` is the set
of labels the code may give, and properties hold for each. Confidence and the
list of reasons change no label and are left out. `Reclassify`, `Enrich` and
`ChangeKind` are the calls that bring a label about.

`MCClassifier_evidence`: every combination of kind, files (up to two, up to two
audio tracks, with and without language), subtitles, release name, anidb id, year
or none; answers of one provider, and of AniList beside another that knows ids.
The four evidence properties are stated as conditions on what is known, not on
the scores. Safety only; deadlock is checked.

## 11. Matcher

Directories are depths on one path: the `.plexmatch` places above a file, the
root of the library, its parent. `cache` is the walk's `plexmatch_cache`.
`StartScan`, `ScanFile` are the walk, `Rescan` `manual_rescan_path`, `Identify`
the endpoint, `Edit` the outside world. `Match` is `match_file`, `ItemOf` and
`Updated` are `_item_record`, `Process` the part of `_process_file` that files it.
What guessit makes of a name is data.

`MCMatcher_scan`: two episodes of a show, one of them with the year, `.plexmatch`
files above the library's parent, at its parent, its root and the show's folder,
that say a title and an id, or an id and episodes. `TitlesOK` has titles unique, a
name before its folder, and `RescanLikeScan`: for every file, a rescan's search finds
the `.plexmatch` that the walk finds with its cache, unless one was edited since the
walk began. The one difference is part of the property: with none between file and
root, the walk may come upon one above the root's parent, where a rescan has stopped
at the root. Safety only; deadlock is checked; nothing is bounded.

## 12. Subtitles

`file` and `disk` are the videos and the sidecars, `row` what is stored of each
video (fingerprint, tracks, summary), `told` what its last event showed, `hand` the
video whose session is open and the content that ffprobe read. `Collected` and
`Parsed` are `discovery/subtitles.py`, `StoredOf` is `_apply_probe`, `_add_sidecars`
and `_refresh_subtitle_summary`, `Meaningful` is `_has_meaningful_change`.

| Action | Code |
|---|---|
| `StartScan`, `PassOver` | `scan_library`, and a file whose fingerprint is its row's |
| `Probe` | ffprobe, of a scan, a forced scan or a rescan |
| `Store` | then the fingerprint, the sidecars, the summary, the event and the commit |
| `ProbeError` | anything that fails in between: the session is rolled back, a scan goes on |
| `ReplaceVideo`, `ChangeSidecar` | other programs, between any two steps |

`ReplacedIsReprobed` says what a scan during which nothing changed leaves: of each
file the tracks, summary and fingerprint of one content, which is the file's or one
that no fingerprint tells from it. Three histories say of which files this is not
so: `beside`, whose sidecars changed since they were probed; `missed`, whose session
failed in the scan; and `torn`, whose video was replaced between probe and
fingerprint. The last keep the old tracks under the new fingerprint, and every later
scan passes over them, until a rescan, a forced scan or another change: this is
`SyncedFacts` of section 14 seen from here.

`MCSubtitles_scan`: two episodes, the name of one a prefix of the other's, so that
one's sidecar is taken for both's; three contents, of which no fingerprint tells two
apart and the digest none. Languages are known, regional and a flag's name. `VIEW`
leaves out `told`. Safety only; deadlock is checked; nothing is bounded.

## 13. Migrations

A database is its set of tables, columns and indexes (`schema`) and the rows of
`alembic_version` (`version`, and `table` once that exists). A thread is in
`run_migrations` (`pc`) with what is left of its Alembic command (`plan`). On
SQLite a statement of DDL commits by itself and the version row follows it.

| Action | Code |
|---|---|
| `Enter` | the lock and `_migrated_urls` of a process |
| `ReadTables`, `Check` | which command is next: stamp, upgrade, restamp, replay |
| `ReadHeads`, `Ddl`, `SetVersion`, `EndStamp`, `EndUpgrade` | Alembic: the heads, one statement, one version row |
| `Crash` | a process stops and starts again |

The initial revision has three statements in place of its many (a table before
the sentinel `libraries`, the sentinel, one after), the third two columns and the
index in place of six and one: what matters of a statement is whether it can
be repeated and on which side of a sentinel it is.

`MCMigrations_crashes`: two threads of a server and a CLI process, any history of
the database that a release could leave, two stops. A thread that returned or
failed is done: `CHECK_DEADLOCK FALSE`. Bound: `MaxCrashes`. Safety only.

## 14. Where the code and its documents disagree

Each of these is a statement of a document, a comment or a docstring, written as
a property that TLC finds violated under the configuration named.

| Configuration | Property | Code | Says | What happens |
|---|---|---|---|---|
| `MCCatalog_docs` | `SyncedFacts` | `service.py:435`, `225` | `README.md:17` | the fingerprint is taken after the probe: a file replaced in between keeps the old facts under the new fingerprint, and later scans skip it |
| `MCVerdict_docs` | `ManualVerdictWins` | `service.py:590` | `service.py:591` | an override between a reclassification's read and its commit loses its label |
| `MCVerdict_docs` | `RetriedNextRun` | `service.py:699` | `matching/providers/http.py:30` | an outage is stored as a miss and not asked about again for `cache_ttl_days`; it also wipes an earlier hit |
| `MCVerdict_docs` | `SignalsBelong` | `service.py:764` | `service.py:765` | the id of a title deleted during the lookup is reused by another, which gets the answer |
| `MCLibraries_docs` | `ConfiguredIsShown` | `api/app.py:309` | `api/app.py:95-96` | config.yaml is written before the row is committed |
| `MCLibraries_docs` | `OneScanPerLibrary` | `service.py:58` | `service.py:49-50` | scan locks go by name: after a rename two scans of one row run at once |
| `MCLibraries_docs` | `NoForeignFiles` | `service.py:66` | `service.py:62` | a purged library's scan goes on in a new library that took its id |
| `MCLibraries_docs` | `WatchIsImmediate` | `api/app.py:344-347`, `372` | `README.md:11` | DELETE then PUT of one path leaves a configured library unwatched, as does a request for another row of that path |
| `MCProviders_docs` | `RateLimitRespected` | `matching/providers/__init__.py:60` | `matching/providers/http.py:10-13` | every enrichment builds its own limiters: two at once exceed the limit |
| `MCClassifier_docs` | `EvidenceOutvotesFolder` | `classify/classifier.py:35` | `README.md:354-355` | a lead of 0.05 in the evidence is less than the hint's 0.15 |
| `MCClassifier_docs` | `PrimaryIsPlayed` | `classify/classifier.py:103` | `classify/classifier.py:98-99` | tracks without a language are dropped before the default is chosen |
| `MCClassifier_docs` | `ProviderKindCounts` | `service.py:572` | `README.md:362-365` | the provider's kind is not stored; the replay uses the title's own |
| `MCMigrations_docs` | `Converges` | `db.py:143` | `db.py:117-119` | after a stop between two statements the next start fails on what is there |
| `MCMigrations_docs` | `Repaired` | `db.py:162` | `CHANGELOG.md:230-231` | the repair replays every later migration; one that had run raises "duplicate column" |
| `MCMatcher_above` | `NothingFromAbove` | `discovery/walker.py:50` | `discovery/walker.py:83-84` | the walk leaves out the root's parent only, and reads what is above that |
| `MCMatcher_docs` | `MatchedHasId` | `discovery/plexmatch.py:38` | `matching/matcher.py:11-12` | a guid without an id the program knows counts as matched |
| `MCMatcher_docs` | `FiledAsMatched` | `service.py:408` | `matching/matcher.py:4` | a known file whose .plexmatch changes its title is inserted again and refused by `UNIQUE(path)`, at every scan |
| `MCSubtitles_docs` | `SidecarsAreDiscovered` | `service.py:412` | `README.md:429-430` | a sidecar added beside a known video is not looked for |
| `MCSubtitles_docs` | `LocaleIsPreserved` | `language.py:72` | `README.md:436` | `pt-BR` is stored as `pt` |
| `MCSubtitles_docs` | `TracksAreTold` | `service.py:482` | `README.md:289` | a track whose language or flags change is not a change |
| `MCDeepScan_docs` | `NoneIsPassedOver` | `service.py:796` | `README.md:58-59` | a removal before the iterator's index makes it pass over the library after |
| `MCDeepScan_docs` | `FailureIsContained` | `service.py:796` | `service.py:294-295` | a failure outside the loop over the files ends the deep scan for the libraries that follow |

One more needs a removal outside the library's lock (`service.py:542`):
`LedgerMatches` (what the outbox announced of a path is whether it has a row, once
each) fails under `MCCatalog_ledger`, where a prune and `handle_missing_path`
delete the same row and both announce it. "Every change is delivered" (`README.md:289`) fails
with it when such a removal's cascade takes a row that the scan has inserted in the
meantime. This is why several properties of `Catalog` are stated for `Removers = {}`.

Found by reading, without a configuration of their own:

- No scan is started on the first start, with libraries in config.yaml
  (`api/app.py:110`; `README.md:57-58`).
- `drain_once` reads events with fewer attempts than its limit, 10 without
  webhooks: an event that a larger limit let fail ten times or more is neither
  skipped nor given up once the hooks are gone (`events/dispatcher.py:65`; the
  class's docstring).
- One hook's success settles the event for all; a hook that failed is not tried
  again (`events/dispatcher.py:120`; `README.md:18`).
- The prune's session relabels titles that it has just deleted and announces them
  (`service.py:370`; `CHANGELOG.md:206`).
- A forced rescan that corrects facts under an unchanged fingerprint records no
  `file.changed` (`service.py:484`).

## 15. What is proved

For every value of the constants (any paths, titles, layouts, contents, hooks,
configurations and threads, of any number), by TLAPS. Each proof module starts from
the named assumptions of the module it is about, which TLC evaluates on every run.

`DispatcherProofs`:

| Theorem | Statement | Argument |
|---|---|---|
| `TypeInvariant` | types | inductive as it stands |
| `SentHeard`, `FailedUnacked` | sent means heard; failed means never acknowledged, but for cut-off dispatches | `delivered` is true only if a hook has acknowledged `cur` in this dispatch; an acknowledgement that the row does not show belongs to `cur` or to a broken dispatch |
| `BoundedRedelivery`, `EveryHookAttempted` | calls are bounded by attempts plus broken dispatches; attempts by calls | one counting invariant over `tries`, `attempts`, `broken` and whether the hook is still `untried` for `cur` |
| `Settlement` | settled for good, attempts only grow | an event in `batch` or `cur` is pending, so `Settle` never rewrites a settled row |
| `NeverStranded` | a pending event is due, if all configurations agree on a positive budget | attempts of a pending event stay below the budget |
| `FirstTries` | first tries in order unless a commit was overtaken | whatever is older than a tried event, and pending, was tried, is late or is `cur` |
| `Refinement` | implements `Outbox` | each step maps to a step or a stutter, with the facts above |

`CatalogProofs`:

| Theorem | Statement | Argument |
|---|---|---|
| `TypeInvariant` | types | not inductive alone: with `Located`, that a session under way has a path, a slot and, once it has probed, a content |
| `Tree` | foreign keys, with any threads, removals included | a commit inserts its season and title with its row; a deletion removes what hangs below |
| `Ledger` | the outbox knows exactly the rows there are, if every deletion is under the library's lock | `Mutex` (who is not idle holds the lock) gives `AllFresh`: what a session has read of its own file, and what it has doomed, is still true when it commits; then a deletion cascades to nothing it has not announced (`TimelyDrop`) |
| `NoHollow` | no season without a file, no title without a season, on the same condition | the same `AllFresh`; without it, a commit could take another season's last row |
| `ScanLeavesRowsForFiles` | after a scan that nothing disturbed there is a row for exactly the files there are, on the same condition | `AllPatrol`: of the paths an undisturbed scan has passed, each is gone, has a row, or is the one in hand; `FileStepOutcome`: however a file's session ends without disturbing the scan, the file is gone or has a row |
| `ScanPrintsFiles` | and each row that stands under the file's match has the file's digest and mtime, on the same condition | `AllRounds`: the match a session works for still holds, and each path that was passed is `Sharp`. A row under another match is not, and the session of its path may leave it so: that is the exception the property makes |
| `ScanLabelsTitles` | and each title has the label its rows give, on the same condition | `Labelled`: the reclassification at the end of a scan reads the rows that the prune left, and nobody writes between it and the end unless the scan is disturbed |

The condition `Removers = {}` is necessary, see the end of section 14: these are
statements about the two-phase sessions under the library's lock, and tell what a
fix of `handle_missing_path` would gain.

`VerdictProofs`:

| Theorem | Statement | Argument |
|---|---|---|
| `VerdictsStand` | `VerdictStands`, whatever overlaps and whichever ids come back | inductive with `SessionFits` (what an open session makes of the row it read keeps an overridden label, unless a person decides) and `Stands`; a commit over a row that changed in between is `raced`, one over an unchanged row writes what fits it |
| `GivenIdsStand` | `GivenIdStands` | `GivenOf`: the id a person gave is the row's; a session changes only the columns it differs in, an enrichment's differs in the id only where it read none (`Derives`), and where that commits over an id given meanwhile, which the property excludes, `gave` forgets it |
| `LabelsFollow` | `LabelsOK`, for any classifier | `Follows`: the label of a row that nobody overrode, that is not `raced` and not `dated`, is `Evident`, none yet or what the classifier says. A commit that decides a label over a row whose id is another by then makes it `dated`; one over a row that is as it was read writes what fits. `SaidIsOver` keeps the record of what people said apart from a row that has their row's id. The types of `Typed` |

`LibrariesProofs`:

| Theorem | Statement | Argument |
|---|---|---|
| `ListStands` | `ListOK`, whatever overlaps, fails or restarts | inductive with `Mutex`, that one request saves at a time, with `ConfigTyped`: while none saves the list is config.yaml's, and while one does `undo` is; and with `Knows`, what a request at a step has read |
| `RowsFollowConfig`, `WatcherFollowsConfig` | between requests, if none failed halfway or met another (`~upset`), each configured library has its row, and the watches are the configured paths but for `missed` | `Even`: for every library of the list there is the row or a request that will write it (`Lists`), a watch, a mention in `missed` or a request that will bring the watch (`Brings`); for every watch a library or a request that will take it (`Takes`). This must hold of two lists at once (`Follows`): the running one, counting the request that is saving, and config.yaml's without it, since that is what is left when the write fails. With no request under way only the first alternatives are left |

`DeepScanProofs`, from `IsFiniteSet(Names)`, which the comparison of the list with the
one to be put back needs:

| Theorem | Statement | Argument |
|---|---|---|
| `RunsWalkInOrder` | `WalksOK`: no two runs in one library, each goes once and in order through the libraries that stay | `InStep`, about the libraries in the list all along: those before the iterator's index were scanned or are in hand, those scanned are before it. `Aligned`: taking a change back moves none of them |
| `EachStays` | a scan during which nothing was removed and nothing failed has scanned each library there all along | when the iterator is at the end, `Passed` leaves none out |

`MetadataProofs`, for any titles and answers of the types `Title` and `Answer`, and
for any number of passes, providers in any order, intervals and attempts:

| Theorem | Statement | Argument |
|---|---|---|
| `EvidenceStands` | `EvidenceIsHeard`: an identified anime is one, a cartoon or a remake without Japanese evidence is none, a dub nobody plays does not count | `Heard`: the row is what the last answers give, through every reclassification and change of kind. What a label says of the scores (`ClassifyIs`), and how far the weights reach for a film and for a series (`IdentifiedIsAnime`, `CartoonIsNot`); AniList's opinion of another year is the first one and negative (`OtherYearsAreNoAnime`) |
| `HintStaysAHint` | `HintOnlyBreaksTies` | leads beyond 0.15 keep their sign under any hint (`HintDecidesOnlyTies`) |
| `MovesSettle` | `RefilingSettles` | the hint moves to the library whose label leads already (`Settles`) |
| `SqlAgrees` | `MisfiledAgrees` | the disjunction over the libraries is NULL-free once the label is not NULL |
| `LookupsKeepOrder` | `LookupOK` of `Providers`: however requests fail, are refused and sent again, a pass keeps each provider's interval and drops a token that was refused, and attempts and sleeps stay within their bounds | inductive as `Sound`: what is asked (`RequestOK`, with it that a request of the ids has something found), the limiters beside the time since the last request (`PaceOK`), the token (`TokenOK`) |
| `FirstOpinionStands` | `MergedIsFirst` of `Providers`: the merged answer has, of each field, the first provider's value that is known | `AnswerOK`: one more report changes a field only where nothing was known (`FirstOfAppended`), which is what the merge fills in (`FilledGapsMerge`) |
| `TitlesStayOne` | `TitlesAreUnique` and `NameBeforeFolder` of `Matcher`, with the types of titles and rows | inductive as `Filed`: `ItemOf` is a title of the name wherever there is one (`ItemOfIs`), so one is added only under a name that no row has (`ProcessFiles`) |
| `TitlesStand` | `TitlesOK`, and with it `RescanLikeScan` | `CacheTells`, while nothing was edited: what the walk has cached of a directory is what is there, through each file it scans; so both look at the same directories, up to the root and, the walk alone, above its parent |
| `IdentitiesStand` | `IdentityIsKept`: only an identification changes an id, nothing takes a match away | `Keeps`, of each step: `Updated` writes an id only where there is none (`UpdatedIs`), and keeps `matched` |

`Providers` and `Matcher` are the instances `P` and `M` of `MetadataProofs`, `Watcher`
is `W` of `FilesProofs`, and a prover may not use what an instance assumes: their
theorems have the modules' assumptions, `ProvidersFits`, `MatcherFits` and `PathsFit`,
as hypotheses. TLC evaluates them on the runs of these modules.

`FilesProofs`, for any names, contents, languages and sidecars, and for any paths and
timer threads:

| Theorem | Statement | Argument |
|---|---|---|
| `TracksStand` | `TracksOK`: an undisturbed scan leaves each file the tracks, summary and fingerprint of its content, or of one that no fingerprint tells from it, but for `beside`, `torn` and `missed` | inductive as `Probed`: a row whose tracks and fingerprint were not torn apart is what was stored of one content (`StoredOf`), and what the scan has passed since anything changed was stored of one that is `Alike` the file's |
| `HandlerSound` | `HandlerOK` of `Watcher`: what is pending has the one armed timer, and no change is lost between queue and callback | inductive with `BatchesEnd` (a timer thread that is not at work has no batch, so `_fire` overwrites none) and `InHand` (past the test of `_stop`, `feed` has a path); each step passes a change on or settles it (`Carried`) |

`MigrationsProofs`:

| Theorem | Statement | Argument |
|---|---|---|
| `OneMigrates` | `OnlyTheFirstMigrates`, for any threads, processes and stops | inductive with the types of `pc` and `migrated`; who enters finds nobody of its process inside and the flag unset |
| `SchemaStands` | `SchemaOK`: who goes on has every table, column and index, from any of the databases there may be, whoever migrates beside it or stops | `Warrants`: a step is warranted by what the thread has seen or done. The schema only grows, so a plan read earlier is still a plan (`Upgrading`: the revisions after `k` are left, and those before whose objects nobody looks for are there) |

## 16. What is only model-checked

Liveness under fairness, and `ENABLED`, are out of the prover's reach:
`EveryEventSettles`, `LocksAreReleased`, `EveryChangeIsSeen`, `LookupEnds`,
`DeepScanEnds`. So is what a fold or a recursive definition computes for every
input.

Every invariant and action property of the other runs is a theorem. Those of
`Catalog` but the types and `TreeOK` are proved for `Removers = {}`, `NeverStranded`
for one budget that all configurations share; what happens without is section 14.

## 17. Not modelled

- Configuration loading (`config.py`): YAML and environment variables merged once
  at start; its values are the constants of the modules.
- Web UI and serializers, list, search and export endpoints, the coverage report
  (`subtitle_coverage.py`) and the missing-track filter, provider status: they only
  read. `POST /api/rescan` starts what `Catalog` and `Watcher` have.
- Running ffprobe and mediainfo, and the columns copied from them. The wording of
  track titles, from which `probe/normalize.py:94` takes flags by substring.
- The bytes that `fingerprint.py` hashes, guessit, the table of language names:
  data of the modules that use them.
- The choice of a filesystem observer, made once at start.
- Confidence and the reasons a classification lists: they change no label.
- Payloads, signatures, previews and log lines.

## 18. Plan

1. `Libraries`: the requests and scans as an implementation of a table that follows a
   list.
2. `enrich_all` and scan locks by name (the two hazards without a property).
