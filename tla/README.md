# find-anything: specification and proofs

TLA+ modules for *find-anything*: the server's write path from a bulk request to
the content store, what it keeps beside the rows, the client's scanner and
watcher, the extractors' control flow, uploads, access and share links, and the
routes that read. TLC checks small instances; TLAPS proves most of the safety
properties, of the server and of the client, for every value of the constants.

Paths below are relative to `src/crates/`. `PROJECT.json` maps every definition
to the lines it models, and lists the hazards the properties are aimed at.

Contents: [1 The system](#1-the-system) -
[2 What is hard](#2-what-is-hard) -
[3 The modules](#3-the-modules) -
[4 The runs](#4-the-runs) -
[5 Fairness](#5-fairness) -
[6 Proofs](#6-proofs) -
[7 Where the code and its documentation differ](#7-where-the-code-and-its-documentation-differ) -
[8 Not modelled](#8-not-modelled) -
[9 Plan](#9-plan)

## 1 The system

A client (`find-scan`, `find-watch`) extracts the text of files and posts it; the
server indexes it and answers searches.

```
 find-scan, find-watch           find-server
 --------------------    POST    ------------------------------------------------
 walk, extract, batch  ------->  routes/bulk.rs: inbox/<seq>_<id>.gz, answer 202
 extractor processes                  |   router: list, sort by name, group,
        |                             |   try_send (capacity 1)
        |                             v
        |                        worker/group.rs, request.rs, pipeline.rs
        |                        phase 1, one blocking thread per group, one SQLite
        |                        session per run of requests of a source
        |                             |   COMMIT -> to-archive/*.gz -> remove inbox file
        |                             |   activity log, broadcast, statistics deltas
        |                             v
        |                        worker/archive_batch.rs, phase 2: normalise,
        |                        compare file_hash with the row, put_overwrite
        |                             v
        |  chunks (PATCH)        content-store: blobs.db  <--- compaction.rs (daily,
        +------------->          routes/upload.rs, find-scan      ^    or an admin)
 web UI, find-cli      ------->  search, tree, file, context, raw, view, recent, stats;
 (token, session, link)          tokens.db, links.db, pool of read connections
```

| Component | State it keeps | Operations | Interacts through | Correct when |
|---|---|---|---|---|
| Bulk route (`server/src/routes/bulk.rs`) | `REQUEST_SEQ`, files in `inbox/` | submit | `inbox/` | an accepted request is never lost; a request answered before another is asked for has the smaller name |
| Router (`worker/mod.rs`) | `in_flight` | list, form a group, dispatch, take done signals | work channel (1), done channel, `inbox_paused` | each file is in one hand at a time; every file is dispatched in the end |
| Indexing worker (`worker/group.rs`, `request.rs`) | a `SourceSession` per blocking thread, `progress.current`, the interrupt slot | decode, open, delete, rename, upsert, cadence COMMIT, flush, abort, quarantine | source databases, `to-archive/`, `inbox/failed/` | effects become durable in arrival order, payloads after COMMIT, inbox files removed last |
| Timeout and breaker (`group.rs`, `routes/admin.rs`) | `consecutive_timeouts`, `inbox_paused` | time out, interrupt, quarantine, pause, resume, retry | the connection of the thread, `inbox/` | no hung statement stops the others; the breaker holds |
| File rows and postings (`worker/pipeline.rs`, `db/mod.rs`, `db/search.rs`) | `files`, `lines_fts`, `duplicates`, `indexing_errors` | upsert with the stale-mtime guard, delete, rename, search | source databases, content store | rows and postings are what the requests describe; a matching file is found |
| Activity log (`request.rs`, `routes/recent.rs`) | `activity_log`, `recent_tx` | log, broadcast, read, follow | source databases, a broadcast channel | a follower misses nothing it could have been shown |
| Archive worker (`worker/archive_batch.rs`, `normalize.rs`) | payload files | normalise, compare, `put_overwrite`, remove the payload | `to-archive/`, `blobs.db`, formatters | each committed row's content ends up in the store, its lines at their numbers |
| Content store (`content-store/src`) | blobs in chunks, read pool, write mutex | put, delete, `get_lines`, compact | `blobs.db` | a reader gets lines of one text; the pool serves every caller |
| Compaction (`server/src/compaction.rs`) | live keys | collect, dry run, compact | all source databases, `blobs.db` | live content is kept, garbage is not |
| Statistics (`stats_cache.rs`, `db/stats.rs`) | totals per source | delta, rebuild, stream | after each flush | totals are those of the rows, or heal |
| Resumable upload (`routes/upload.rs`, `upload.rs`) | `.part` and `.meta` files | init, patch, index, clean up | `find-scan` subprocess | what is indexed is one version; nothing stays behind |
| Watcher (`client/src/watch.rs`) | pending events of a window, watches | accumulate, collapse, pair renames, flush | OS events, bulk route | the index follows the last state of each path |
| Scanner (`client/src/scan.rs`, `walk.rs`, `batch.rs`) | server list, local list, a batch, two stacks | walk, diff, extract, submit | file list route, bulk route | what is gone is deleted, what is new is sent, what is excluded is not |
| Extractors (`extractors/`, `client/src/subprocess.rs`) | a stream of members | choose, spawn, parse, recurse | pipes, temporary files | every readable member arrives with its own text |
| Tokens and links (`db/tokens.rs`, `routes/auth.rs`, `links.rs`) | invites, tokens, cache, limiter, links | create, redeem, resolve, revoke, sweep | `tokens.db`, `links.db` | a name is held once, a revoked token ends, a link shows its own target |
| Read routes (`routes/tree.rs`, `file.rs`, `context.rs`, `raw.rs`, `view.rs`) | none | list, page, serve | databases, files | listings are sound, lines are at their numbers, a preview ends |
| Configuration, alerts, self-update, UI, tray | none that matters here | | | |

## 2 What is hard

* A request has its id before it has a file, and clients of one source post at
  once.
* Crashes between COMMIT, payload write, inbox removal, blob delete and blob put;
  replay from `inbox/` is the only recovery.
* One session spans several requests, so an error in one rolls others back, after
  the client has been told 202 and while the router already holds the next group.
* A group that times out is abandoned, not stopped: two threads then work on the
  same database and the same files.
* Phase 2 compares old payloads with new rows; compaction compares the rows of one
  moment with the blobs of another; postings are deleted by lines read back from a
  store that may not have them yet.
* Two bounded channels in opposite directions between router and worker.
* A condition-variable pool whose counter includes connections that failed to open.
* The scanner's picture of the server lags behind the inbox, and the watcher and
  other scans write beside it. The watcher sees names, not operations, and reads
  the disk later than the event.
* Every PATCH of an upload appends without a lock, and requests outlive the client.
* An archive is a stream: what one entry leaves unread belongs to the next one.
* Checks and acts are separate: limiter and redemption, cache look-up and
  insertion, code choice and insertion, subscription and history.

## 3 The modules

The server's write path:

| Module | Models | State and actions |
|---|---|---|
| `AtLeastOnceQueue` | the abstract promise of the inbox | `queue`, `quarantine`, `applied`; enqueue, apply, remove what was applied, quarantine. An item may be applied twice and is never lost. |
| `InboxPipeline` | bulk route, router, phase 1, phase 2, crash and restart | `pending`, `uploading` are requests that have an id and await their file, or its end (`Submit`, `CreateFile`, `SubmitDone`); `inbox`, `failed`, `toArchive` are the directories, `db` the committed rows, `txn` what the open transaction sees, `blobs` the store; `inFlight`, `channel`, `doneQ` the router's side, `pc`, `group`, `cur`, `deletable`, `pendingArchive` the worker's. One action per commit, file-system call or write unit. |
| `GroupTimeouts` | several blocking threads, the timeout, the breaker, the admin routes | per thread `pc`, `rest`, `current` (`progress.current`), `session`, `txn`; `hung`, `interrupted`; `wpc` the async worker, `paused`, `consecutive`, `resuming`. |
| `ContentCompaction` | live-key collection and `compact` beside commits, phase 2 and `delete_source` | `rows` per source, `payloads`, `blobs`; per compaction `unread`, `live_keys`, `dry`; the history variables `steady`, `touched`, `skipped` only serve the properties. |
| `SearchIndex` | `files`, postings, duplicates, the store, a search | one action per write unit, the fallback of a failed file included, and per statement of a search; a line is the set of terms it can be found by. |
| `StatsCache` | deltas, flush, rebuilds, the stream | `rows`, `session`, `pending_deltas`, `stats_cache`, `snapshot`; the history variables say which race spoiled the totals. |
| `SourceReports` | the log of errors, the scan history, what the statistics and error routes read | operators on a source's database and a request; `MCReports` evaluates them over all short sequences of requests. |
| `RecentActivity` | activity log, broadcast, followers | the worker's phases with cadence COMMITs and roll-backs; `streams` with what each has been shown. |
| `Normalisation`, `LineNumbers` | formatters and wrapping; from extractor to page | operators only; `MCLines` states what they promise over all small inputs. |

The content store and the read routes:

| Module | Models | State and actions |
|---|---|---|
| `ReadPool` | `ReadPool::acquire`, `release`, the guard's drop, the condition variable | `idle`, `borrowed`, `open_count`, `waiting`, `woken`, `failures`. |
| `BlobReads` | `chunk_blob`, `put_overwrite`, `get_lines`, deletes | EXTENDS `ReadPool`: a reader acquires a connection, asks whether the blob exists, queries its chunks, returns the connection. |
| `MultiStore` | several stores behind one, a call of any of which may fail | operators only, evaluated in `MCReports`. |
| `FileServing` | `/raw`, `/view`, credentials, members, ranges, the DICOM child | operators for what is served; `preview`, `child`, `stderr`, `left` for the child and its deadline. |
| `ShareLinks` | create, open, expire, sweep, limiter | EXTENDS `FileServing` with `links`, `handed`, `posting`, `asked`, `disk`. |
| `DirectoryTree` | listings and `expand` | operators only; `MCTree` evaluates them over all small trees. |
| `AccessTokens` | invites, redemption, the limiter, the token cache, revocation | `invites`, `tokens`, `cache`, `per_ip`, `global`, a request per caller; time is relative. |

The client and the extractors:

| Module | Models | State and actions |
|---|---|---|
| `WatchLoop` | `run_event_loop`, `accumulate`, `collapse`, rename pairing, the flush | `disk`, `watched`, `channel`, `pending`, `phase`, `batch`; the file system changes between any two requests. The history `left` names the files the code leaves to the next scan. |
| `ScanDiff` | `run_scan` beside other scans and find-watch | per scan `pc`, `server_files`, `todo`, `current`, `batch`; `rows`, `members`, `inbox`; the histories `spoiled` and `bypassed` name the archives whose extraction failed, and those find-watch has sent. |
| `FileIndexing` | the choice of extractor and every way it can end, in scan and watcher | one file, the programs that are absent, the server's row and error. |
| `Selection` | the walk with its two stacks; the watcher's filters | a world of control files, `listing`, `git_stack`, `override_stack`, `found`; a stack is a set of frames, each with the depth it belongs to. |
| `ArchiveExtraction` | what the extractor streams for an archive | a recursive function from archives to batches; 7z blocks, limits, nesting. |
| `IworkText` | the records, tiles and XML an iWork document's text is read from | operators on sequences of bytes; `MCIwork` builds documents and reads them back, whole and cut. |
| `ArchiveScan` | one archive from extractor to rows and errors | `channel`, `items`, `failed`, `uploads`, `requests`, `listed`, `errors`. |
| `ResumableUpload` | init, PATCH, spawn, `find-scan`, clean-up, crash | `.meta`, `.part`, the requests under way, tasks. |

`MC*` are the instances (`AccessTokens` needs none); four of them host several
parts (a behaviour belongs to one part, the parts share no variable): `MCReadPool`
(pool, links, preview, recent), `MCWatchLoop` (watch, file, select),
`MCBookkeeping` (statistics, archives), which also evaluates `MCReports` and
`MCIwork`, and `MCContentCompaction`, which also evaluates `MCLines` and `MCTree`.
`*_proofs` hold the theorems (section 6): `InboxPipeline_proofs`,
`SearchIndex_proofs` and `ResumableUpload_proofs` those of one module each,
`ServerTasks_proofs` those of `GroupTimeouts` and `ContentCompaction`,
`ServerCaches_proofs` of `AccessTokens` and `StatsCache`, `ReadRoutes_proofs` of
`ReadPool`, `BlobReads`, `ShareLinks` and `RecentActivity`, `WatchLoop_proofs` of
`WatchLoop` and `Selection`, `Scanner_proofs` of `ScanDiff` and `ArchiveScan`.

`InboxPipeline` and `GroupTimeouts` describe the same worker at two grains. The
first has one thread and every step of its flush, and crashes; the second has the
threads that outlive their group, and makes up for it by merging the flush into
one step and letting the cadence COMMIT fall into any request.
`ContentCompaction`, `SearchIndex` and `StatsCache` have the write path as single
commits and add what they are about. `InboxPipeline` implements
`AtLeastOnceQueue` with `queue <- inbox, quarantine <- failed, applied <- durable`;
`BlobReads` implements `ReadPool`.

Abstractions. A request is its number in file-name order. A row is its hash and
mtime. A body is chosen from a small set (`Bodies`), with deletes, renames and
files. The byte limit of a group is "any non-empty prefix up to the request
limit". Atomics are stored and loaded in program order; the code's relaxed
orderings permit no other outcome on x86 for the pairs modelled. The SQLite rules
used (one writer per database, a busy error after the timeout or at once for a
stale snapshot, an interrupt ends the statement with an error or comes too late)
are how `db::open` and `group.rs` use the library. In the client's modules a
version of a file stands for its content and mtime, and mtimes grow. A path is a
model value, a pair, or the sequence of its segments where its structure matters.
Clocks are ticks left or ticks since.

## 4 The runs

Every run passes. A property that says what the code's comments promise but the
code does not keep is stated next to the properties that hold, is not in a run,
and is described in section 7.

| Run | Instance | Properties |
|---|---|---|
| `pipeline_crash` | 3 requests of one source, together or in turn, over 3 bodies (a request with two files, a delete of one of them, a rename of the other to it with an upsert of the old path), cadence 2, group size 2, done channel 1, one crash anywhere | `PayloadAfterCommit`; `ArrivalOrder` of requests answered one before the other; `InOrderOutcome`: when all were, the rows at rest are those of the requests applied in order, unless a rename was replayed |
| `pipeline_faults` | 2 sources, 3 requests over 2 bodies (a delete with an upsert, an upsert of the other source), any one of 14 fault kinds: undecodable file, open error, request error, lock error, panic, failed COMMIT, payload not written, inbox file not removed, filename-only fallback, failed put, unreadable payload, failed archive pass, pause, crash | `NoAcceptedLoss`; `DispatchedFilesExist`: no file is handed out while an earlier dispatch may still remove it; `RefinesQueue` |
| `pipeline_live` | 2 requests over 4 bodies, any two of 7 fault kinds, fairness | `InboxDrains`; `ContentEventuallyStored`; `ContentRecoverable` |
| `group_timeouts` | 3 requests of 2 sources, 2 threads, one hang or early timeout, breaker limit 1, one admin call, fairness | `NoAcceptedLoss`; `BreakerHolds`; `InboxDrains` |
| `compaction` | 2 sources, 2 paths, 2 hashes, scheduler and admin at once, 3 commits, one unreadable database | `SteadyContentKept`; `OrphansReclaimed`; and the assumptions of `MCLines` and `MCTree` |
| `read_pool`, part pool | 4 threads, 2 connections, 1 idle, one call each, one failed open, texts of 5 and 3 lines in chunks of 3, 2 puts, 1 delete | `CapRespected`; `NoLostWakeup`; `EveryCallerServed`; `LinesInPlace` |
| part links | 2 posters, 2 codes, a ZIP in a ZIP, lifetimes 0 and 1, sweep, one peer at the limiter, 2 links handed out | `LinkGivesWhatMakerSees` |
| part preview | one DICOM file, a child that may write, end or hang, a deadline of 2 ticks | `PreviewsEnd` |
| part recent | 3 requests of 3 kinds, cadence 2, a log of 4 entries, a channel of 2, a limit of 2, one follower, one roll-back | `OnlyPendingMissed` |
| `watch`, part watch | a source root, 2 directories, 2 files and a marker in each, one file that the globs leave out, 3 operations on the disk, one failed request, batches of 2 | `Accounted`; `Settles` |
| part file | about 30 files: every extension class, what it holds, and kind of entry; 2 versions; programs missing and installed | `RetriedOnceInstalled` |
| part select | 5 directories, 6 files, 578 worlds: .noindex, .index, .gitignore, .git/info/exclude, nested repository, a repository whose root has no rules, globs, hidden names, mount points, scans below the root | `WalkSelects`; and assumptions on where watcher and scan agree |
| `scan` | a full scan with `--upgrade` and a scoped one, a plain file and an archive, one change, one update find-watch sends for either, one failure, an inbox of 1 | `CompleteArchives`; `Converges` (both but for the members of an archive find-watch has sent) |
| `upload` | 2 clients, 2 upload ids, a file of 2 chunks that becomes another one, 2 requests under way, one error or crash | `WholeContent`; `Converges`; `Reclaimed` |
| `search` | a file, an archive with a member, 2 words, 2 hashes, each with two readings (two versions of the extractor), failed files, 4 operations, one search: regex, file-exact, file-regex or document | `Indexed`; `DuplicatesKnown`; `Found` |
| `bookkeeping`, part stats | one file, one member, 2 kinds, the daily rebuild and another, 2 operations, one failure (of a request, or of a rebuild's database) | `Accurate`; `Heals` |
| part archive | 6 top archives of every format with 4 nested ones, 2 levels, a channel of 2, batches of 2; hidden, excluded, delegated, torn, broken, oversized entries | `MembersListed`; `MemberErrorsShown`; and the assumptions of `MCReports` and `MCIwork` |
| `tokens` | one name, 2 invites, 2 callers, 2 addresses, lifetimes 1 and 2, cache 2, limits 1, queries that fail | `NameHeldOnce`; `FailuresBounded`; `RevocationTakesEffect` |

Bounds and why they are enough. Three requests are one in the channel or in a
group, one buffered behind a COMMIT and one that arrives meanwhile: every pair of
positions at which two requests of a source can overtake one another occurs, and
so does every order in which requests on their way together create their files.
Cadence 2 puts a COMMIT inside, between and after requests. Group size 2 and a
done channel of 1 make the router wait for the worker and the worker for the
router. One crash suffices for the safety properties because the volatile state
after a restart does not depend on how many there were; the proofs have any
number. Two threads are the abandoned one and its successor. Three commits are
the shortest history in which a hash leaves one source, appears in another and is
archived. Four callers on two connections give two waiters, so that a
notification can reach the wrong one. Chunks of 3 put a boundary before, inside
and after a run of empty lines. Three operations on the disk are a rename pair
and a change of one of its ends during the flush. A chunk sent twice, one of a
client that gave up and one of its successor are two requests under way. Four
write operations are an upsert, a re-index with another extraction, an archive
pass between and a rename. The archives have an entry of each kind before and
after every other that matters; no entry follows one that puts a 7z block out of
step or ends it, and none is hidden in an oversized block, because the code fails
there (section 7).

Every bound is a constant: `MaxRequests`, `MaxFaults`, `MaxAdmin`, `MaxChanges`,
`MaxSkips`, `MaxCalls`, `MaxOpenFailures`, `MaxPuts`, `MaxDeletes`, `MaxHanded`,
`MaxBulk`, `MaxAborts`, `MaxOps`, `MaxFailures`, `MaxEdits`, `MaxWatch`,
`MaxInbox`, `MaxPending`, `MaxErrors`, `MaxSearches`, `MaxExtra`, `MaxInvites`,
`MaxLag`. The runs set `CHECK_DEADLOCK FALSE` where the system comes to rest once
its clients have sent what the bound allows. `compaction` is a safety run and
uses symmetry over paths, hashes, sources and compactors; the liveness runs use
none.

Operators without state are checked as assumptions that TLC evaluates over all
small inputs: wrapping keeps words and widths, a batch formatter keeps files
apart, the lines of a page are those at their numbers (`MCLines`); every file is
reached by expanding, and every listing is of what exists (`MCTree`); chunking is
the identity on lines for every text of up to 4 lines and chunk size up to 4, and
view and raw serve the same bytes (`MCReadPool`); dates of ZIP entries
(`MCBookkeeping`); after any three requests an error stands for the failures since
its path was last cleared and counts them, a request done again tells the same,
what was put in several stores is read from them, and compaction takes nothing
live from any of them, whichever call fails (`MCReports`); the text of an iWork
document is that of its records, wherever its chunks end, and that of a cut one is
a part of it (`MCIwork`); where the watcher takes what the scan takes, and that each
exception is needed (`MCWatchLoop`).

Each property has a mutant: a definition such as `FlushGroup` or `CollectOnly`
beside the one it changes, which is what a plausible slip in that function would
look like, and which makes TLC report that property.

## 5 Fairness

`FairSpec` asks for weak fairness of what runs without anybody's doing: the router
(a task that polls every second), the worker and the archive worker (tasks that
loop for ever, the latter also woken every minute), a request that has its id and
is to be written to `inbox/`, a blocking thread that is not stuck, the timer of a group whose
thread is stuck, and the second store of `inbox_resume`. Nothing is assumed of
clients, administrators, faults or compactions. Weak fairness is enough because
none of these steps is disabled and enabled for ever by another one.
In `ReadPool` and `BlobReads` the callers that hold a connection return it
(`Drop`) and a woken caller gets the lock.

* `WatchLoop`: the event loop goes on: its timer fires, awaited requests return.
  Nothing is assumed of the disk.
* `ScanDiff`: the inbox is applied, and a scan goes on and is started again
  (the scheduler, `watch.rs`). The latter is strong fairness: the inbox of one, a
  bound of the model, holds a scan up again and again while the others post.
* `FileIndexing`: scans go on, missing programs get installed, uploads get
  through. An extractor may fail for ever; what it failed on is excused.
* `ResumableUpload`: the server's handlers, tasks and clean-up go on, and clients
  try again with the next scan.
* `StatsCache`: the worker finishes what it has begun, and the daily rebuild
  happens. `AccessTokens`: the clock ticks and a started request goes on.
* `FileServing`: the request and the clock go on, the child need not.
* None for `SearchIndex`, `ShareLinks`, `RecentActivity`, `Selection`,
  `ArchiveScan`: their properties are invariants.

A temporary fault is temporary because a bound limits it. A request that fails
each time leaves `inbox/` by quarantine, so liveness needs no assumption on
content.

## 6 Proofs

All by TLAPS with SMT, Zenon and, for temporal steps, PTL; no constant is bounded
beyond the named assumptions.

* `InboxPipeline_proofs`, from `ConstantsAssumption` and `BodiesAssumption`.
  Inductive invariant: `TypeOK`, `DurabilityInv`, `SingleFlight`. `NoAcceptedLoss`
  alone is not inductive: removing an inbox file is safe only if what is in
  `deletable` at the flush is durable, which needs that exactly one party holds
  the file. `SingleFlight` says so: what the router is about to send, the channel,
  the worker's group, the request in hand, the done signals are disjoint.
  Theorems: `TypeCorrect`, `AcceptedIsSafe`, `PayloadsAreCovered`,
  `OneHandAtATime`, `DispatchedExists`, and `Refinement` (initial states map to
  initial states, each step to a step or a stutter).
* `ServerTasks_proofs`. Of `GroupTimeouts`, from `TimeoutsAssumption`: with
  several threads on the same files `SingleFlight` is false, and not needed:
  `Covered` (what a thread is about to remove is durable) suffices, as nothing
  uncommits. Theorems: `TypeCorrect`, `AcceptedIsSafe`, `BreakerIsSound`. The last
  holds because the counter reaches the limit only on the way to the pause, and
  because the resume resets the counter after it ends the pause, never before. Of
  `ContentCompaction`, from `CompactionAssumption`: `Collected` says that the keys
  a compaction holds contain what each source it has read carried throughout,
  `Witnessed` that keys and new blobs were seen since it began; the two action
  properties follow. Theorems: `StoreTypeCorrect`, `SteadyIsKept`,
  `GarbageIsReclaimed`.
* `ReadRoutes_proofs`, from `PoolAssumption`, `CredentialsAssumption`,
  `LinkAssumption` and `ActivityAssumption`. For the pool: a thread is in one place,
  `open_count` = idle + borrowed + failed opens, the cap, and that whenever a
  connection is idle or uncounted and somebody waits, somebody was woken. Theorems:
  `TypeCorrect`, `CapIsHard`, `WakeupsAreKept`, `LeakIsFailures`. For the readers of
  blobs: `ImplementsPool` (they implement `ReadPool`, so the theorems above hold of
  them: `ReadersRespectCap`), and `ReadersGetOneText`, from the invariant that the
  rows of a key are the chunks of one text, or none. Its proviso
  `ChunkingIsIdentity`, about the recursive cutting of one text, is evaluated by TLC
  for small texts. For share links: `LinkTypeCorrect` and `LinksAreFaithful`, from
  the invariant that codes are unique and that what was handed out and has not
  expired is in the table as it was made. For the followers of the activity log:
  `OnlyPendingIsMissed`. Its invariant (`FollowInvariant`) follows each row of a
  session's log: it is committed, pending, or still to be heard by the stream; and
  when the history was full, every row it left out is older than those it gave. What
  sorting by time and cutting to the newest entries keep is proved for every
  sequence.
* `ServerCaches_proofs`. Of `AccessTokens`, from `TokenAssumption`: `TypeCorrect`;
  `NamesAreHeldOnce`, because an invite and its name are checked in the
  transaction that inserts; `FailuresAreBounded`: the failures counted plus the
  requests the limiter has let through stay below the limit plus the callers.
  `RevokedForGood`: a row that was revoked is not made again, as its invite is
  redeemed and an id is minted once. `SilentForGood` is what safety says of
  `RevocationTakesEffect`: once neither a good cache entry nor a resolve under way
  has what was read before the revocation, the token resolves for nobody, for ever.
  Of `StatsCache`, from `StatsAssumption`: `StatsTypeCorrect`, and `CacheAccurate`,
  which is `Accurate`. The totals are a count, a sum and a count per kind, so the
  invariant first says what one row more or less does to each, for any finite set
  of paths; then, that the cache with the deltas that are pending is the session's
  rows, and without them the committed rows, except where the history variables
  say that a delta was lost.
* `SearchIndex_proofs`, from `SearchAssumption`: `TypeCorrect`, `IndexedExactly`,
  `DuplicatesAreKnown`, `UntouchedIsFound`. `Indexed`, put entry by entry, is
  inductive once it is said that an id belongs to one row and is never given twice,
  and that only names are at the line of the name. `Found`, which leaves out the members
  of archives in the file-regex mode, needs to say of each
  stage of a search what the candidates read so far contain, of every file untouched
  since the search began.
* `ResumableUpload_proofs`, from `UploadAssumption`: `TypeCorrect`, and
  `ContentIsWhole` under `~HeadHasBody`. The invariant ties every part to the one
  request that may append to it: an upload has one PATCH at a time and a task only
  after its last one (`OneAtATime`), a part holds the first chunks of what its
  `.meta` says, and between the steps of a handler it is as the last step left it,
  or the clean-up has taken it (`RequestsInv`). With `HeadHasBody` the property is
  false: a resumed client and its lost request both append at one offset, which TLC
  shows in 14 steps. In the code no upload resumes (section 7), and a repair of that
  needs a lock first.
* `WatchLoop_proofs`, from `WatchAssumption` and `RowAssumption`: `TypeCorrect` and
  `FilesAreAccounted`, for any number of directories, names, operations and
  failures. `Accounted` is not inductive, because an entry can outlive what it
  says. The invariant has ten parts; those that carry the argument: a
  difference counts as known by the directory's event only while the directory has
  no watch (`AllAcc`); an entry or event that takes a missing file or directory for
  an existing one is followed by another event, unless the row is gone or left
  (`GoneInv`, `DirEvents`); the old path of a pair is missing and the new one there,
  or the change is reported (`FilePairInv`, `DirPairInv`); an extraction is of what is
  on disk or the change is reported (`ExtractInv`); a renamed directory is as its
  request left it until it has its watch (`NeedInv`).
  `WalkFollowsTheRules`, from `TreeAssumption`, is `WalkSelects` for any tree and
  configuration: at every depth at which a directory is being read, the two stacks
  cut off at that depth are the rules and includes of that directory
  (`WalkInvariant`, part `StacksOf`); frames of a finished subtree are deeper and
  are popped before they are looked at; and what the walk is to select and has not
  found is below an entry still to be read (`StillToCome`). `FollowsRules`, in the
  property, excludes the two cases in which an emptied stack is mistaken
  (section 7).
* `Scanner_proofs`. Of `ScanDiff`, from `ScanAssumption`: `ScanTypeCorrect`, and
  `ArchivesAreComplete`. `CompleteArchives` speaks of rows, but what makes it true
  is in the batch and the inbox: the invariant takes one archive and says that the
  rows it has, followed by the requests of the inbox in turn and by the batch of its
  scanner, lead to a state the property allows, with nothing in between that it does
  not. That needs the sentinels, members and completions of one archive to come from
  one scanner (`ArchivesApart`: scans that run at once share no archive); two scans
  at once break it (section 7). Nothing is assumed of find-watch: it may send and
  delete any file at any time. The update it sends for an archive puts that archive
  among the exceptions (`bypassed`). A batch is read before it is sent, so what it
  holds may be older than the disk, but never newer (`BatchesDated`). Of
  `ArchiveScan`, from `ArchiveScanAssumption`: `MembersAreListed` and
  `MemberErrorsAreShown`, for any archives nested to any depth. The extractor's
  stream is a function defined by recursion on the levels left; it is typed by
  induction on them, the names streamed are shown to be those of `ShownMembers`, and
  then what is under way is followed through channel, items, uploads, requests and
  rows (`Delivered`, `ReasonsTold`). The first assumes that every archive, nested
  ones too, is `WellPacked`, the second that a member whose text cannot be read
  shares its name with no other (`NamedOnce`). The run's archives meet both; section
  7 says what happens to others.

`EffectsInArrivalOrder`, `ContentStaysRecoverable` and `ReplaysAreInOrder` extend
the invariant of `InboxPipeline`. The first assumes `NoRollback`: no lock error,
failed COMMIT, request error or panic, each of which puts requests back to `inbox/`
behind those that go on. It speaks of a request and those of its source that had
been answered when it got its id (`Before`): of two that were on their way together
the later may have its file first, and the code does not keep their order (section
7). Its invariant orders the stages a request passes; `beside` says of each request
which others were under way when it came, and nothing that is under way now is
before one that has a file. The second assumes `NoRenames` and
`ContentKeepingFaults`, and TLC shows why for each: a payload is looked up by a path
a rename has changed; a lost payload, a failed put and a payload skipped as
unreadable lose content by themselves; an inbox file that cannot be removed is done
again and writes the payload name phase 2 is about to remove; a crash between the
delete and the put of a blob that other paths share. Shared hashes, stale payloads
and roll-backs are allowed.

`ReplaysAreInOrder` proves `InOrderOutcome`: once the inbox is empty and nothing was
quarantined, and if the requests of each source came one after the other (`InTurn`),
the rows are those of the accepted requests applied one after the other, although a
crash between a COMMIT and the removal of the inbox files makes a request take
effect twice, or a part of it and then the whole. Its invariant (`ReplayInv`) has
three ideas. No stage holds a request and not an earlier one that has its inbox file
(`StagesFollow`). What the open session would leave, followed by the requests still
waiting, gives the expected rows (`ForwardInv`). What a crash would leave, the
committed rows with every waiting request from the first, gives them as well
(`BackwardInv`); this holds because what a waiting request has done is absorbed when
it is done again (`Absorbed`), by the guard against stale mtimes and because deletes
come first. Both directions are needed: a COMMIT makes the second of the first, and
a crash the first of the second. "Gives" is the existence of a sequence of tables,
as a request with several files has no single outcome while it is under way.
Hypotheses:

* `OwnPaths`: a request names paths of its own source. `OncePerPath`: it upserts a
  path once, and renames to a path once. `files` is a set here; an archive whose
  sentinel and completion share a batch is `ScanDiff`'s.
* `InOrderFaults`: no lock error, failed COMMIT, inbox file that is not removed,
  or file indexed by name only. The first two roll requests back that later ones
  overtake; the third is replayed after later requests; the fourth is not what the
  request asked for. Quarantine, panics, lost payloads and failing puts and crashes
  are allowed. With renames the property, and so the backward half, ends at the
  first fault (section 7).

`ArrivalOrder` and `ContentRecoverable` are what the code promises; where the runs
allow more than the theorems, they hold for the small instance's bodies and bounds
only.

The type invariants are proved or, in the modules without proofs, were used
while the modules were written; the runs check the properties that can fail.

Induction over data. The library's induction theorems take an operator, which
the provers cannot instantiate; the modules above that need one therefore prove
`SetInduction` (a set that has 0 and every successor has every number), which
follows from the library's well-founded order of the natural numbers, and from
`RecursionExists` or `FoldExists`: the function that a recursive definition chooses
does exist, and so satisfies its equation. Folds, sorted lists, nested archives and
trees are reached this way.

Model-checked only: all liveness (fairness and ENABLED are beyond the prover);
`ChunkingIsIdentity` is a hypothesis that TLC evaluates for small texts.
`GroupTimeouts` is no refinement of `AtLeastOnceQueue`: an abandoned thread may
commit what its successor has quarantined.

## 7 Where the code and its documentation differ

Each is a behaviour of the model. Those with a property in brackets are found by
TLC when that definition is added as an invariant or property to the instance of
the module (for `InboxPipeline` with the fault kinds or bodies named).

The write path:

* **Arrival order** (`ArrivalOrder` with fault `lock`). `worker/mod.rs:288-294`:
  file-name order "reproduces true request-arrival order exactly". A lock error
  rolls the whole session back and ends the group; the next group may be in the
  channel.
* **Arrival order without any fault** (`ArrivalOrder` with `q < r` for
  `Before(q, r)`). `bulk.rs:27-29` and `worker/mod.rs:288-294` say "exactly".
  `bulk.rs:58-62` takes the id and then awaits the write: of two requests of one
  source on their way together, from find-scan and find-watch, the later can be
  listed and committed before the earlier has a file. A delete of one may then
  undo or miss the upsert of the other.
* **Idempotent replay** (`QuiescentState` with `crash`). `group.rs:11-12`. A crash
  after the cadence COMMIT between the renames and the last upsert of a request
  replays the rename on the new row.
* **Path-independent content** (`ContentRecoverable` with a rename).
  `db/mod.rs:649-650`. Phase 2 looks the row up by the path in the payload, and
  drops the content of a file renamed meanwhile.
* **The interrupt stops the thread** (`NewestWins`). `group.rs:229-232`,
  `docs/ARCHITECTURE.md:118`. The interrupt is an error of one request; the thread
  goes on with the rest of its group beside its successor.
* **Compaction is safe beside indexing** (`LiveContentKept`).
  `compaction.rs:88-89`, `CHANGELOG.md:720`. Live keys are older than the delete.
* **The pool blocks until a connection is returned** (`EveryCallerServed` with as
  many failed opens as the cap). `sqlite_store/mod.rs:26, 35`. Failed opens stay
  counted; then nobody is ever served.
* A to-archive payload that cannot be written is logged and the inbox file is
  removed all the same (`group.rs:183-195`), although lines 177-179 say that a
  crash between two steps "just means the unflushed requests replay".
* `bulk.rs:62` writes the body straight to its final name; the router may list
  and the worker quarantine a request that is still being written.
* `put_overwrite` (`content-store/src/store.rs:24-32`) is two transactions; a
  crash between them loses a blob another path shares. A replay may also rewrite
  a payload phase 2 is half-way through, which then removes the new one
  (`archive_batch.rs:73`).
* `docs/ARCHITECTURE.md:142` "sort .gz files by mtime": they are sorted by name.
  `:106` "All DB writes go through the inbox worker": `delete_source` removes the
  database. `:149-150` says deletes issue an FTS `delete` per old line:
  `delete_files_phase1` issues none.
* `sqlite_store/mod.rs:131-132` "a new connection is opened rather than blocking",
  against line 35 and the code. `compaction.rs:3-5` defines orphans by `lines`
  rows and ZIP archives; the code compares `files.file_hash` with blob keys.
* When the timeout races the end of a statement, the request `progress.current`
  names and the one the interrupt hits may differ, and both are quarantined.

Index, statistics, activity:

* **Stale hits** (`TrueHits`). `pipeline.rs:163-166` calls them "orphaned but are
  harmless". A re-index before phase 2 has stored the old content deletes no
  postings, and the new lines keep the id.
* **Duplicates** (`TrueDuplicates`): `pipeline.rs:217`. The pair of the old hash
  stays when a file gets another.
* **Renamed members** (`Named`), `db/mod.rs:645-650`: members' names are not
  updated in the postings; and the outer file's delete repeats the bare old path
  (`:697`) where "[PATH] " and the path were inserted.
* **Case-sensitive exact search** (`CaseSensitiveFound`): `routes/search.rs:445`
  filters on a column that is empty in these modes. The count ignores
  `path_prefix`.
* **File-regex search** (`MembersNamed`): `routes/search.rs:459` matches the path of
  the outer file, so a member of an archive is not found by its name, which the
  fuzzy mode does on purpose (`:477-479`: "Scoring only against file_path drops
  valid matches").
* **Totals** (`Accurate` without its conditions): a rebuild counts members, a
  delta does not (`request.rs:180`).
* **Trailing empty line** (`LinesExact`): `sqlite_store/mod.rs:193-195` against
  `lines()`.
* **Missed activity** (`NothingMissed`): `recent.rs:192-193` "so we don't miss
  events", but the broadcast precedes the COMMIT (`request.rs:257-259`). Events
  that overrun the channel are dropped without a trace. A request rolled back
  after a COMMIT in its middle logs its new files as modified; one that is then
  quarantined leaves indexed files without an entry.
* **Tree** (`ExpandIsAsciiOnly`, `RootEndsAtFFFF`, `MemberHidesDirectory`):
  `db/tree.rs:206` turns bytes into characters, so `expand` shows nothing below
  non-ASCII names; the root listing ends at U+FFFF (`:26`); a member named like a
  directory of its archive hides that directory. A real file name with "::" is
  never listed.
* **Lines** (`GapsNeedNormalisation`, `BreaksShift`, `ImageContextIsItsPath`):
  rows of invalid UTF-8 leave gaps in the numbers, and line breaks inside a line
  shift the positions; without normalisation (`max_line_length = 0`) a hit then
  shows another line. The context of a hit in an image shows the path instead of
  the metadata.
* **Formatters** (`FailedFormatterLeavesWide`): `normalize.rs:274` "(child is
  killed)": it is not. Its stdin is written in full before its stdout is read, and
  without a timeout (`:204-208`). One that fails still exempts its extension from
  wrapping.

Uploads and access:

* **Resume** (`Resumes`): `client/src/api.rs:446` parses the body of the answer to
  a HEAD request, which has none. A file of no bytes is never complete. An
  uploaded file whose server stops before its find-scan has run is lost, though
  acknowledged.
* **Revocation** (`RevocationImmediate`): `db/tokens.rs:417-418` "so revocation is
  immediate"; a resolve under way puts the entry back into the cache
  (`RevocationTakesEffect` is what holds).
* The limiter of links counts in fixed windows, so twice the limit passes around a
  boundary, and its map is never pruned. A link made with an empty archive path
  opens nothing (`EmptyArchivePath`). Errors of the sweep are swallowed
  (`server/src/lib.rs:253-262`).
* `CHANGELOG.md:847` says members nested too deep return 403; they return 422
  (`raw.rs:321`), and with a higher limit levels above 2 return 404. `/view` does
  not look at the limit. `view.rs:329` drains stdout "to avoid pipe-buffer
  deadlock", and leaves stderr. Read routes create an empty database for a source
  that does not exist (`UnknownSources`).

The client:

* **Control files** (`ControlFileRescanned`): `watch.rs:258-264`. A renamed
  control file paired with an unrelated event starts no rescan.
* **Archive failure** (`FailedArchiveRetried`): `scan.rs:787` sends the real mtime
  after a failed extraction, although `:633-637` says why not to.
* **Archives find-watch sends** (`WatchedArchiveComplete`). `watch.rs:679-752` sends
  an archive that changed as one file: `subprocess.rs:521-523` reads its members as
  an empty list, which is no failure, and the row gets the real mtime over no
  members, or those of an earlier version. `watch.rs:687-698` says of that state that
  it "hides the failure from every later mtime comparison (a full rescan included),
  so the archive never gets retried again", and returns early after a failure for
  that reason; after this success it does not. `CompleteArchives`, `Converges` and
  `ArchivesAreComplete` except these archives.
* **Nested repositories** (`WalkSelects` without `FollowsRules`):
  `walk.rs:223` forgets the outer rules for all later siblings (CHANGELOG.md:14).
* **Repositories without rules at the root** (`RootWithoutRules`, found by proving
  `WalkSelects`): `walk.rs:225` takes an empty stack for "in no repository", so
  where neither a .gitignore nor a .git/info/exclude is in the root, those further
  down have no effect.
* **Scans beside one another** (`CompleteArchives` with two scans of one archive).
  Nothing keeps a rescan that find-watch starts (`watch.rs:133-135`) apart from a
  scan that runs: the completion of one may be followed by the late members of
  another, which read an older version.
* **.index** (`WatchIsNotScan`): `exclude` is applied to members only by find-scan
  and to files only by find-watch (docs/manual/02-configuration.md:190);
  `include_hidden`, `follow_symlinks` and `respect_gitignore` are not looked at by
  the walk (`:193`, CHANGELOG.md:14); `include = []` prunes every directory and
  filters no file.
* **.noindex** in the source root stops find-watch and not find-scan. After one is
  removed the rescan indexes the files, and no watches are registered. A control
  file in the source root makes find-watch rescan a path above every source, and
  find-scan refuses (`ControlFileTarget`).
* Hidden files, and files of new directories whatever the includes, are indexed
  by find-watch and not by find-scan (`NewDirIsNotScan`). A new directory that
  itself does not match an include such as `**/*.rs` is dropped and never watched
  (`watch.rs:278`). A directory moved into the tree arrives as a rename and is
  neither indexed nor watched.
* An unrelated delete and update in one directory and window are taken for a
  rename; `handle_update` reads mtime and hash after the extraction, so a write
  in between is never indexed. An error of the walk makes a scan delete rows.
* **What find-watch leaves to a scan.** Proving `Accounted` showed more cases than
  the first instance had; `left` names them. A file that is created, indexed by the
  walk of its new directory or an earlier entry, and renamed within one window keeps
  its old row (`watch.rs:952-957` says it "was never previously indexed"). The old
  path of a file pair may be a deleted directory, whose rows stay. A deleted file
  beside a new directory is taken for the old directory. A deleted directory's
  files, a path filtered out that has a row, a deletion sent for a file that is
  there again, files without lines after a failed extraction in a renamed directory,
  and a control file that is renamed with others or changes where no watch is.
* **Extractors.** `subprocess.rs:521` parses archives' lines as one array (doc at
  `:459`), see above. `mime_to_kind` says "binary",
  which `FileKind` does not know. External tools that fail leave the file to be
  retried by a scan (`scan.rs:573`) and not by the watcher. Lines of external
  tools begin in the slot of metadata. The watcher hashes files that block on
  open.
* **Archives.** `subprocess.rs:591`: with empty excludes the server-only list
  takes their place. `archive/src/lib.rs:749` "Always fully consumes `reader`": a
  tar in a 7z block is not read beyond its end marker, a torn one not beyond the
  tear, and the entries after it get the wrong text; members of a block that fails
  are missing, with a warning in the log only; names in oversized blocks ignore
  `include_hidden`. Failures of the archive itself recorded early are erased by
  its completion, and the failure of a member by a later member of the same name.
  `max_temp_file_mb`, `max_7z_solid_block_mb` and `include_hidden` are not passed
  to the subprocess. A missing subprocess leaves the archive with its real mtime,
  and the subprocess has no timeout. The arm of external extractors ignores
  excludes, skip reasons and delegated members (and the comment at
  `scan.rs:773-775` is right of the other arm only).
* **Reports.** `get_scan_history` takes the oldest rows, and `routes/stats.rs:124`
  asks for 100: after 100 scans the chart of a source ends in the past
  (`HistoryShowsTheOldest`). `rename_files` and the sentinel of an archive move or
  delete rows and leave their errors (`ErrorsStayBehind`); so does a file whose
  extraction failed before it had a row and that is then removed, because a scan
  deletes only paths it finds among the rows. `030-indexing-error-reporting.md:222`
  says 'Fix or delete the file and re-scan — verify error row disappears'.

## 8 Not modelled

* `InboxPipeline`: `inbox_clear` deletes accepted requests on purpose. The clock in
  request names is taken to be monotone. The behaviour of SQLite when a database
  file is removed under an open connection (`delete_source`) is not in the sources.
* `SearchIndex`: LIMITs (a common term can push a match out of the candidates),
  paging, ranking, fuzzy scores, upper and lower case, date, kind and path filters.
  `CaseSensitiveFound` and the modes `Exact`, `Fuzzy`, `FileFuzzy`, `DocExact`,
  `DocRegex` are in the module and not in the run. A failed file is indexed by its
  name in one step with the failure.
* `StatsCache`: sizes per kind. `SourceReports`: sizes of directories and of files
  in the answer of the statistics route, the ages shown beside them.
* `BlobReads`: compression. `MultiStore`: two calls at once, and a store that is
  added to a configuration that had one.
* `IworkText`: text beyond ASCII, numbers beyond a machine word.
* `ScanDiff`: an archive that find-watch has sent stays in `bypassed`, though a
  later version and a scan may complete it; mtimes only grow; `--force`,
  `scan_timestamp`, dry run. An archive is eventually and again and again complete
  rather than for ever, because a scan that reads the list while a completion is in
  the inbox announces it anew.
* `FileIndexing`: requests apply at once, archives unpack in one step, and archives
  are exempt from `Explained` (section 7). `ArchiveScan` has the steps.
* `ResumableUpload`: the name-only fallback, `touch_meta` recreating a removed
  file, files of no bytes.
* `Selection`: symbolic links, errors of the walk, globs beyond four kinds.
* `AccessTokens`: session cookies, scopes, `last_used_at`. `ShareLinks`: links with
  an empty archive path. `FileServing`: a file that changes between stat and
  stream, headers.
* `Normalisation`: what a formatter writes is a row in front; front matter.
  `DirectoryTree`: the order within a listing. `RecentActivity`: the order of equal
  timestamps, entries of failed files beyond their names, cascades to members.
* The parsers of single formats, alerts, self-update, the parsing of
  configuration, the admin and query commands, the web UI and the Windows programs
  are functions of bytes or I/O with no protocol between actors.

## 9 Plan

Done: the write path, the content store and its readers, the index, statistics
and activity; scanner, watcher, extractors and uploads; tokens, links and the
tree. Every safety property of the runs has a theorem.

Next, in this order:

1. A type invariant for `FileIndexing` and `FileServing`'s preview, whose runs
   check liveness only.
2. `FileIndexing`: a failed extraction is excused only by a recorded failure.
3. The composition of `ScanDiff` with `InboxPipeline` (now an inbox of one).
4. `MultiStore` beside concurrent calls, and the scheduler of compactions.
