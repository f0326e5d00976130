# A TLA+ verification of AnimeManager

AnimeManager is a Python application that keeps an anime catalogue, downloads
episodes through a torrent client and streams them to a browser with on-demand
HLS.  This directory models the parts of it in which threads, processes or
restarts meet: the download manager, the torrent session with its resume files,
the playback service, the connection pool and the write queue of the database,
the catalogue's identities, the ingestion of metadata and the startup jobs.
TLC checks the models on small instances; TLAPS proves every safety property of
every module for every instance, and that the write queue implements its abstract
specification.  Liveness stays with TLC.

    tlc -workers 2 -config WriteQueue.cfg MCWriteQueue
    tlapm DownloadManagerProofs.tla      (and PlaybackProofs, TorrentSessionProofs,
                                          ConnectionPoolProofs, CatalogProofs,
                                          WriteQueueProofs, IngestionProofs,
                                          StartupJobsProofs)

`PROJECT.json` lists the runs, the source lines of every definition, the
hazards and the theorems.  Source paths below are relative to `src/`.

## 1. The system

| Component | State it keeps | Operations | Talks to | Modelled in |
|---|---|---|---|---|
| Download manager (`application/services/download_manager.py`) | task queue, reserved and cancelled infohashes, active tasks, executor | enqueue, cancel, delete, sweeps, mark complete, reconcile, close | database, torrent client, workers | `DownloadManager`; reconciliation in `TorrentSession` |
| Torrent index (`database_manager.py`) | torrent rows with a status, anime-to-torrent index | save, set status, list | called by the above | `row`, `index` of both |
| LibTorrent adapter and its daemon (`adapters/torrent`, `clients/torrent_daemon`) | session, handle table, resume files, count of pending saves | add, move, delete, alerts, restore, close | download manager, library, disk | `TorrentSession` |
| Playback service (`application/playback`) | sessions, restart locks, playheads | create, heartbeat, resolve, stop, cleanup | transcoder, session directories | `Playback` |
| FFmpeg transcoder (`adapters/media/ffmpeg_transcoder.py`) | table of running processes | ensure, stop, probe, reap, evict | called by the above; ranks sessions through a callback | `Playback` |
| Persistence queue (`adapters/persistence/queue.py`, `database_manager.py`) | bounded queue, batch | put, worker, flush_now, stop, close | database | `WriteBuffer`, `WriteQueue` |
| Connection pool (`adapters/persistence/base.py`, `embeddedMariaDB.py`) | idle connections, counter, pinned connection | check out, return, run, commit, retry, drain | server | `ConnectionPool` |
| API coordinator and ingestion pipeline (`api_coordinator.py`, `ingestion_pipeline.py`) | two executors, light mode, background pipeline | search, browse, stream, fetch_latest, close | providers, sink, catalogue | `Ingestion` |
| Catalogue identity, merge, enrichment (`catalog_identity.py`, `catalog_merge.py`, `catalog_repository.py`) | rows with external ids, dependent rows | resolve, allocate, link, merge, repair | database | `Catalog` |
| Startup jobs (`startup_jobs.py`) | running flag, loop thread, stop event; settings and tables on disk | run, start/stop loop, refresh, date migration | providers, database | `StartupJobs` |
| Automatic downloads, search, clients, tokens, file ids, ... | | | | not modelled (section 11) |

How they meet: a search fans out to the providers (`Ingestion`), resolves what
comes back to catalogue ids (`Catalog`) and stores it through the write queue
(`WriteQueue`) on pool connections (`ConnectionPool`).  A download reserves its
infohash and writes its row (`DownloadManager`); the client adds it, and must
bring it back after a restart (`TorrentSession`).  What it downloaded is played
(`Playback`).  The startup pipeline and the daily refresh (`StartupJobs`) use
the same services from threads of their own.

What is hard in it:

* **Concurrency.** Request threads, workers, the alert thread of the library and
  the loops share tables under locks that most operations take several times,
  with database, network or library calls in between.
* **Failure.** Any database call, client call or ffmpeg start may fail half-way
  through an operation; connections break between a statement and its commit;
  providers answer late or never.
* **Crashes.** Resume files, rows and folders are written one after the other
  and found again by the next start; a migration may be interrupted anywhere.
* **Ordering and stale state.** Alerts arrive long after the call they answer; a
  request uses a session object after somebody has removed the session; a batch
  looks ids up before its transaction.
* **Timeouts.** Waits for segments, providers, joins and resume data all end
  without what they wait for.

Correct means: a download is neither lost nor run twice, what is reserved is
released, the panel shows what is running, a live torrent is in the index, a
cancelled download stops, a restart runs exactly what the database wants; an
advertised segment can be served, the number of encodes is bounded; a record
accepted for writing is settled, a statement that reports success is
committed; a title has one row, and nothing that hangs off it is lost; every
request is answered and its status is true; a due fetch happens.

## 2. DownloadManager

### State and steps

The variables are the fields of `DownloadManager` (`queue`, `queuedHashes`,
`cancelledHashes`, `active`, `stopping`, `executor`, with `pool` for the futures
not yet running), of the `DownloadTask` objects (`tpc` says where a task is), of
the processor thread, of the database and client, and the locals of each request
thread (`cpc`, `req`).  A task's payload, name, size and progress are abstracted
to its infohash.

A step is one section under `self._lock`, one database statement or one client
call; between two of them any other thread may run.  `_lock` itself is therefore
not a variable.  One action stands for each such section:

| Code | Actions |
|---|---|
| `enqueue_download` | `CallEnqueue`, `CallEnqueueUrl`, `EnqueueRead`, `EnqueueClear`, `EnqueueDup`, `EnqueueLive`, `EnqueueIndex`, `EnqueuePut` |
| `_process_download_queue` | `ProcessorLoop`, `ProcessorTimeout`, `ProcessorGet`, `ProcessorRead`, `ProcessorCheck`, `ProcessorSubmit` |
| `_execute_download` and what it calls | `WorkerPick`, `WorkerBegin`, `WorkerStart`, `WorkerPrepare`, `WorkerCheck`, `WorkerSave`, `WorkerLookup`, `WorkerAdd`, `WorkerFinish` |
| `cancel_download`, `cancel_download_by_hash` | `CallCancel`, `CancelPop`, `CancelFlag`, `CancelDrop`, `CancelMark`, `CancelList`, `CallCancelHash`, `CancelInFlight` |
| `delete_anime_torrent`, `delete_torrent_by_hash` | `CallDelete`, `DeleteOwn`, `DeletePeek`, `DeleteMark`, `CallDeleteHash`, `DeleteMap` |
| seen and removed-file sweeps | `CallSeen`, `CallRemovedFile`, `SweepList`, `SweepMark` |
| `remove_torrents_from_client` | `RemoveOne`, `RemoveDone` |
| `_maybe_mark_torrent_complete` | `CallComplete`, `CompleteRead`, `CompleteWrite` |
| `close` | `CallClose`, `CloseClear`, `CloseShut` |

Two things are as odd in the model as in the code, on purpose.  `CancelDrop` and
`CancelMark` are two steps because `cancel_download` calls
`_cancel_in_flight_hash_locked` without holding the lock.  `WorkerFinish` pops
the anime's entry of the panel, whoever's it is.

The torrent client is external: a map from infohash to out, downloading or
complete, that an add, a remove and a finished download change.  `Faults` says
which collaborators may fail, `Ops` which operations the callers use, so that
each instance concentrates on one question.

### Runs

| Run | Instance | Shows |
|---|---|---|
| `download_delete` | 1 anime, 2 hashes, 2 tasks, 1 caller, 1 worker; enqueue, enqueue by URL, delete, delete by hash, seen sweep; database and client fail | `TypeOK`, `LiveIndexed`, `ReservationBacked`, `PanelSound` |
| `download_duplicate` | 2 anime, 1 hash, 3 tasks, 2 callers, 2 workers; enqueue, mark complete, removed file; client fails | `SingleFlight` when nobody cancels |
| `download_progress` | 1 caller, 1 worker, 2 tasks; enqueue, cancel, cancel by hash, close; fair | `CancelHonoured`, `TaskResolves`, `ReservationReleased`, `CloseQuiesces` |

**Bounds.** Each hazard involves two tasks of one anime or one hash.
`download_delete` has one request thread beside the processor and the worker, as
what it checks is proved below for any number of each; `SingleFlight` needs two
requests that overlap, and has two request threads and three tasks.  A task is
created at most once, which bounds the history; the queue, pool and status
queues are bounded by the number of tasks.
`Known` names the hashes that have a row at the start; the runs start without
one and repeat a download once the first has written it.  Symmetry is used in
safety runs only.

**Fairness.** Weak fairness for the processor, for each worker and for each call
in progress: they are operating-system threads, none waits for another except
for the short `_lock`, `queue.get` has a timeout of one second and network calls
have timeouts.  Nobody has to make a request, and nothing is assumed of the
torrent client.

### Where the code differs from what is said of it

In words; the behaviours are all in the model:

* A failed download can evict a running one of the same anime from the panel:
  `_active_downloads` is keyed by anime id, and the `finally` block pops whatever
  entry is there (`download_manager.py:1646`, `WorkerFinish`).
  `PanelSound` is therefore one-sided: what the panel shows is running.
* Cancelling a queued hash and asking for it again clears the mark of the first
  task, and both run (`download_manager.py:286`).  `SingleFlight` holds when
  nobody cancels.
* `delete_anime_torrent` cancels only an active task; a queued one adds the
  torrent again after its row was marked deleted (`download_manager.py:1484`).
* A cancellation after the worker's last look at the flags is not honoured: the
  torrent is added.  `CancelHonoured` is therefore about earlier ones.
* `docs/features/downloads_torrents.rst:72-74` says that `close()` "waits for
  the executor to drain"; the code passes `wait=False`.  `CloseQuiesces` shows
  that the threads still come to rest.
* `docs/features/downloads_torrents.rst:67-69` says that the status queue
  reports `False` when scheduling fails; a task that meets a closed executor is
  dropped silently (state `lost`), hence "unless the manager is being closed".
* `docs/features/downloads_torrents.rst:224-229` says that running torrents stay
  alive after a cancel; `cancel_download` removes them from the client.

### What is proved

`DownloadManagerProofs` proves, for all sets of anime, hashes, tasks and callers
and every number of workers, `TypeCorrect`, `ReservationsBacked`, `PanelIsSound`,
`LiveIsIndexed`, `CancelIsHonoured` and `OneTaskPerHash` from the assumptions of
`DownloadManager` (`MaxWorkers` is positive, `None` is not a task, hash or anime,
and so on; each is evaluated by TLC in every run).

None of the properties is inductive.  `IndInv` strengthens them:

* `QueueInv`, `PoolInv`, `ProcInv`: queue, pool and processor hold distinct
  tasks that are where they should be.  Without it a task could be in flight
  twice, and its first end would strip the second of its reservation.
* `TaskInv`: a task's hash is unknown or its torrent's, so what a worker releases
  is what was reserved.
* `StatusInv`: the values on the status queue at each point, which tell
  a successful start from a failed one in `PanelSound`.
* `PanelInv`, `CallerInv`: a task in the panel is at a stage in which a worker
  will still remove it or has succeeded; a task between the pop and the
  `cancel()` of `cancel_download` has left the panel for good.
* `OpenInv`: reservations are backed until `close`, and a closing call has
  already set `_stopping`.
* `IndexInv`: a worker that is about to add a torrent has its row and index
  entry, and no action removes them.

`NextInv` has one lemma per action or group of actions; frame lemmas say once
what an action that touches only the caller, or only the database, preserves.

`CancelIsHonoured` (`CancelHonoured`) says something of the whole future of a
task that is cancelled in time: `Doomed` (cancelled, and waiting, before the last
look, or ended) is kept by every step from the first such state on.

`OneTaskPerHash` (`SingleFlight`) assumes `Ops \cap Releasing = {}`: nobody
cancels, deletes, sweeps or closes, and hashes are known when a download is asked
for.  It is false without that, as described above.  `FlightInv` says that every
task in flight has its hash reserved; an enqueue that passed the unlocked first
look is therefore refused by the second, under the lock.

Only model-checked: the liveness properties.

## 3. Playback

### State and steps

The transcoder is `active` (the keys of `_active`), `start` and `encoded` (where
a session's process began and what it writes next; `NoProcess` when none runs)
and `files`, the segments on disk.  `dying` holds a process that a thread has
taken out of `_active` and not terminated yet; it goes on writing.  The service
is `sessions`, `lock` (`_restart_locks`), `expired`, `older` (the order of
`last_seen_at`) and the fields of a session that matter: `total`, `anchor`,
`begin` (`transcode_start_segment`), `playhead`.  `gone` is a history variable.
A request thread has a program counter and the locals of its call.

A step is one section under the service's lock, one under the transcoder's lock
(a whole `ensure_hls_session` up to the spawn, with its reap, teardown, eviction
and purge), one look at a directory, or one segment written by ffmpeg.  The
unlocked update of `note_playhead_segment` is two steps.

| Code | Actions |
|---|---|
| `create_session` | `CallCreate`, `CreateRefused`, `CreateStart`, `CreateReady`, `CreateFails`, `CreateRegister` |
| `cleanup_stale_sessions`, `stop_session`, `_teardown` | `CallCleanup`, `CallStop`, `StopUnknown`, `TearPop`, `TearKill`, `TearRm` |
| `heartbeat` | `Heartbeat` |
| `resolve_media_path` | `CallResolve`, `CallManifest`, `ResolveGet`, `Final` |
| `ensure_segment` | `SegmentLook`, `SegmentLatest`, `SegmentProbe`, `Gate`, `LockGet`, `LockAcquire`, `SegmentRelook`, `Await`, `SeenRead`, `SeenWrite` |
| `_restart_at` | `Restart`, `RestartNote` |
| time, ffmpeg (external) | `Expire`, `Encode`, `EncodeOn`, `Exit` |

Abstractions: a position in seconds is the segment it falls into; the near-end
restart and the ten-second minimum only choose which segment a resume asks for,
and the model lets it be any; a wait may time out whenever the file is missing;
a token is accepted or refused; `started_at`, the tie-breaker of an eviction,
is a free choice.  ffmpeg writes with `temp_file`, so a file that exists is
complete.  Sidecar subtitles and logs are left out.

### Runs

| Run | Instance | Shows |
|---|---|---|
| `playback_cap` | 2 sessions of 2 segments, 1 process allowed, 2 threads that create, resolve, report positions and clean up; evicted sessions restart; no margin, no look-ahead | `Anchored`, `AdvertisedServable`, `CapRespected` |
| `playback_teardown` | 1 session of 2 segments or of unknown length, 2 threads that also stop and clean up, sessions expire; margin 1, jump limit 1; fair | `PlayReady`, `RestartSerialized`, `LockReleased` |
| `stop_leak` | resolve against stop | violates `StoppedHasNoProcess` |

**Bounds.** Two segments give an anchor after segment 0 and a segment before it.
The cap needs two sessions, one place, and a second segment for which an evicted
session is restarted.  Two threads are a request and whoever interferes with it;
two lock objects per session are as many as two threads can tell apart.
`playback_cap` explores 1.1 million states, `playback_teardown` 155 thousand.

**Fairness.** Weak fairness of each request thread: every wait inside a call has
a timeout.  Nothing is assumed of ffmpeg, and nothing about who gets a contended
lock, so `LockReleased` promises the release and not the acquisition.

What is said and not done: `docs/features/media_playback.rst:88-89` says that on
stop "FFmpeg process and temp files are cleaned up".  The run `stop_leak` shows
the process that survives; the files survive every stop, because `stop_session`
passes `remove_output_dir=False`.  In the same interleaving two ffmpeg processes
write into one directory for a while, which the comment at
`ffmpeg_transcoder.py:253-256` means to exclude.

Read in the source and in `Purged`, but not a run: a restart further back purges
the segments of the later encode only while that encode runs.  One that has ended
is reaped before it is looked up (`ffmpeg_transcoder.py:226`), and its segments
stay, although the comment at lines 259-267 calls them stale.

### What is proved

`PlaybackProofs` proves, for all sets of sessions, threads and locks, every cap,
length and contract of the playlist with look-ahead and margin within the jump,
`TypeCorrect`, `CapRespected`, `Anchored`, `AdvertisedServable`, `PlayReady` and
`RestartSerialized`.  `IndInv` says

* `ThreadInv`, `RequestInv`: which index and which session a request has in its
  hands at each point, and that a segment for which a restart may come is not
  before the anchor of its session;
* `AnchorInv`: no file, no process and no playhead is before the anchor, and
  neither is a process that a thread has taken out of `_active` and has yet to
  terminate: it goes on writing meanwhile;
* `NewInv`: only its creator knows a session that is not registered; otherwise a
  teardown could remove its files between the wait and the registration, which
  `PlayReady` excludes;
* `LockInv`: all requests that hold a restart lock of a live session hold the
  same one, although `stop_session` pops the entry and a later request makes
  another lock object.  This is about restarts under the lock: the prefetch path
  restarts a session whose process has ended without it
  (`segment_resolver.py:95-97`; `SegmentProbe`, then `Restart`), and may do so
  beside a request that holds it;
* `CapInv`: the table is finite and within the cap.

`AdvertisedServable` needs the first gap of the playlist: the least missing
segment exists because `<` is well-founded on the naturals.

Only model-checked: `LockReleased`.

## 4. TorrentSession

### State and steps

What survives a crash: `row` (the torrent's row and status), `resume` (the
hashes with a resume file), `payload` (how much of it is in the save path).
What does not: `session` and `alerts` of the library, `handles`, `pending`
(`_pending_resume_saves`), `saving` (save requests the library has not answered),
`restored`, the thread that restores and the callers.  `site` is the
deployment: embedded in the application, or in the daemon, and whose folders
carry an anime id.

| Code | Actions |
|---|---|
| `connect`, `DownloadAdapter` | `Start` |
| `ensure_restored`, `_run_session_restore` | `BeginRestore`, `RestoreFile`, `RestoreList`, `RestoreRow`, `RestoreAdd`, `RestoreEnd` |
| the remote adapter's poll | `BeginRemoteRestore` |
| alert thread | `ProcessAlert`, `PeriodicSave` |
| `add` after `save_torrent` | `SaveRow`, `Add`, `Register`, `Count` |
| `move` | `Move`, `Count` |
| `delete` after the mark | `MarkDeleted`, `RemoveTorrent`, `Pop`, `Unlink` |
| `reconcile_deleted_torrents`, `should_reconcile_torrent` | `Reconcile`, `Weigh`, `Settle`, `Decide`, then the steps of a delete |
| `_maybe_mark_torrent_complete` | `LookComplete`, `WriteComplete` |
| `close`, `_drain_resume_saves` | `Close`, `CloseStop`, `Drain`, `Drained`, `CloseDone` |
| library, users, machine (external) | `LibSaved`, `LibDownload`, `LoseFolder`, `Crash` |

The library is external: an add or a remove takes effect at once and posts its
alert; a save is answered later by an alert, or fails when the torrent is
removed.  With `"add"` in `Faults` an `add_torrent` may raise, with `"db"` every
database call may fail.  The code swallows all of these, and so does the model: a
status that cannot be read counts as none (`libtorrent.py:130-137`), an index
that cannot be read as no association (150-157), a listing that fails as an empty
one (661-666), after which `_restored` is set all the same (545-548); a
torrent that the library refuses is skipped (655-656, 689-693); a status that
cannot be written is left as it is and the removal goes on
(`database_manager.py:659-679`, `download_manager.py:1492`).  `failed` records
the torrents that met such a failure in this process.

A reconciliation lists the row, asks the client, writes the status and looks at
the folder in four steps (`Reconcile`, `Weigh`, `Settle`, `Decide`), so that it
may decide from a stale status.  close() sends its saves while calls are still
accepted, and only then clears `_running` (`Close`, `CloseStop`).  A torrent is named after an episode, so that reconciliation protects a
first download; names that are not are string matching.

### Run

`torrent_session`: one hash, two callers with every operation, with or without a
stray resume file of an earlier database, all three deployments (embedded with
and without folders that carry an anime id, and the daemon), failing database
calls and adds, a close() that may run out of time; 1.6 million states.

* `HandlesSettled`: a handle is in the table exactly when the torrent is in the
  session, once its alerts are processed.
* `NeverResurrects`, `Durable`: what the embedded client runs after any number
  of crashes is what the database wants, but for a torrent about which a call
  failed in this process.
* `PendingCovers`: the count of pending saves is never too low.
* `CloseFlushes`: a close() that ends by its counter has written the resume file
  of every torrent it drops.

**Bounds.** Torrents do not share anything but the alert queue and the counter,
so that one hash shows every interference of two calls about it; that counts of
two hashes add up is only covered by `PendingCovers` for repeated saves of one.
No call starts while more than one alert waits (`MaxAlerts`) or more than two
saves are pending (`MaxSaves`).  Two calls about a torrent may overlap, and a
call may fail, wherever the code allows it; but once that has happened, no later
call, periodic save or restore turns to the torrent before the next start
(`Steady`), as the properties exempt it until then.  While two calls overlap,
`Steady` also keeps close() from beginning.  Crashes and restarts are unbounded.
The run has a view that leaves out what no later step reads and no property
tells apart: the folder of an indexed torrent, the listed status outside of
`Weigh`, and what is exempt twice over (`MCTorrentSession`).  The theorems have
neither bound nor view, and hold for both values of `Steady`.

**What the properties leave out, because the code does not promise it.**  Two
overlapping calls about one torrent (`raced`: a download while the same torrent
is being deleted, a `complete` that overwrites a `deleted`,
`download_manager.py:1055`) and a call that begins while an alert about the
torrent is waiting (`hurried`) may end in either order.  The daemon has no
status callback, and its adapter posts the rows it read at every poll
(`libtorrent_remote.py:61`): a row read before a delete adds the torrent again
after it.  `NeverResurrects` and `Durable` are therefore about the embedded
session.

Nor does it promise anything about what it has swallowed.  A status lookup that
fails lets the restore run a deleted torrent, and a failed listing or add leaves a
wanted one out until the next start, although `is_restored` says true; both
properties exempt the torrents in `failed`, which a new process starts without.
A deletion whose mark failed is not exempt later: its row still wants the
torrent, and the next start brings it back, from the row if not from the resume
file.

### What is proved

`TorrentSessionProofs` proves `TypeCorrect` and all five properties, for finite
sets of hashes and callers and every deployment, set of operations and of faults;
`CloseFlushes` where files can be written and saves are answered
(`Faults \cap {"write", "save"} = {}`).  The proofs cover what the run does not:
several torrents that share the counter and the alert queue, and any number of
waiting alerts and saves (the bounds are only guards of the calls).  `IndInv`
says

* `NewsInv`: the last alert about a torrent that adds or removes it says whether
  it is in the session: the table catches up when it has been processed;
* `TableInv`: a torrent with no alert waiting, and no call between its library
  step and its table step, is in the table exactly when it is in the session;
* `AloneInv`, `CalmInv`: one call at a time is about a torrent that did not race,
  and no alert about it waits before the call has turned to the library;
* `RowInv`, `FateInv`: the torrents that run have a row that wants them, and a
  call that takes a torrent away has taken its row before, unless a call about
  them failed; hence `NeverResurrects`;
* `ListInv`, `DurableInv`: what the database wants runs, or is still on the list
  of the restore, or is about to be added, under the same exemption; hence
  `Durable`;
* `CloseInv`: for each torrent that close() drops, a save is outstanding, its
  answer waits, or the file is written; with `PendingCovers` a counter of zero
  leaves only the last; hence `CloseFlushes`;
* `DownInv`: nothing is left of a process that is down.

## 5. ConnectionPool

### State and steps

`idle`, `open`, `broken` and `created` are the pool; `pinned` is
`_pinned_sql_conn`, a field of the database object that every thread sees;
`txn` holds the uncommitted writes on each connection, `durable` what reached the
server.  A thread has the connection of its statement (`own`), the one the
statement runs on (`use`) and that of its batch (`batch`).

| Code | Actions |
|---|---|
| `get_connection` | `Get`, `GetPin`, `Wait`, `WaitTimeout`, `ReplaceFails` |
| `return_connection`, health check | `Release`, `ReleasePin`, `HealthCheck` |
| `sql`, `procedure` | `Call`, `Choose`, `Execute`, `Unusable`, `StatementFails`, `Commit` |
| `handle_sql_error`, `_recover_connections` | `Retry`, `Recover` |
| `pinned_pool_connection`, `upsert_anime_batch` | `Pin`, `CommitPinned`, `Unpin` |
| server (external) | `Break` |

### Run

`connection_pool`: two threads, a pool of two, four names of connection objects,
three calls, one retry, two faults; single statements, procedures and batches
side by side, with a recovery; 467 thousand states.

* `HandedOutOnce`: no connection is checked out twice, or checked out and idle,
  although a statement joins a foreign batch's connection.
* `ConnectionCap`: never more than `pool_size` connections until the first drain.
* `SavedIsDurable`: a procedure that returned was committed, and so was a
  statement with `save=True`, unless it joined a pinned connection and was rolled
  back there under it (`spoiled`).

**Bounds.** A pool of two lets one thread hold two connections (a batch that
lost its pin) while the other waits; two faults are a broken connection and a
failing retry; names of closed connections are used again.

**Where the code differs from what is said of it.**

* `_is_connection_valid` ends without a return after a successful ping
  (`base.py:139-151`): for every connection that has `ping` the pool takes it for
  invalid, and each checkout opens a new one.  The model does the same
  (`PoolValid`); the connections the pool starts with are the only idle ones.
* `get_connection` waits for a returned connection while it holds the lock that
  `return_connection` needs (`base.py:84`): the wait can only end in its timeout.
* A drain sets the counter to zero while connections are out; they are counted
  down again when they come back, and the cap is exceeded afterwards.
* A batch that loses its pin to another thread's recovery writes the rest with
  `save=False` on connections of its own; they are rolled back and reported as
  saved (`database_manager.py:1194`).  `SavedIsDurable` is about the calls that
  commit their own write.
* `sql(save=True)` takes whatever connection is pinned, its own thread's or not
  (`embeddedMariaDB.py:1565-1569`).  When a statement of that batch fails between
  the execution and the commit of the foreign one, its rollback (1665-1668) takes
  both writes, the commit that follows succeeds on nothing, and the caller is told
  that the row was saved.  This is the only way: it is the exception in
  `SavedIsDurable`, and the theorem excludes any other.
* Error 4031 is retried without a count (`embeddedMariaDB.py:153`); the model
  counts every retry.

### What is proved

`ConnectionPoolProofs` proves `TypeCorrect` and the three properties for every
set of threads, finite set of connections, size of the pool, and number of calls,
retries and faults.  `IndInv` says

* `HeldInv`: a connection is idle, or held by one statement or one batch, or
  closed;
* `PcInv`: at which points of a call a thread holds a connection, and must; a
  call that ends without it would leak one;
* `CapInv`: until the first drain the counter is not behind the open connections
  (a replacement counts again, so that it may be ahead);
* `SaveInv`: a connection that a statement has checked out is its own and not
  pinned (`OwnInv`), a thread between two calls has none (`IdleInv`), and what a
  saving call wrote waits on the connection it runs on for the commit, unless it
  is durable already or was rolled back under it (`CommitInv`); a procedure never
  runs on a pinned connection, so that nobody rolls it back; hence
  `SavedIsDurable`.

## 6. Catalog

### State and steps

`rows` and `ext` are the rows of `indexList` with their external ids, `links`
everything that hangs off an id, `anime` the rows of the anime table.  A worker
resolves the payloads of a batch, enriches a row, links ids to it, or repairs
the whole table; merging is the same three steps in all of them.

| Code | Actions |
|---|---|
| `resolve_external_ids_batch` | `Ingest`, `Lookup`, `Find`, `Backfill` |
| `allocate`, `getId` | `Allocate`, `Insert` |
| `CatalogMergeRepository.merge` | `MergeBackfill`, `MergeRepoint`, `MergeDelete` |
| enrichment, `link` | `Enrich`, `Link`, `LinkKey`, `LinkDone` |
| `deduplicate_records`, upsert | `Persist` |
| `repair_duplicates` by provider id | `Repair`, `RepairScan`, `RepairGroup`, `RepairNext` |

`deduplicate_records` is an operator (`DeduplicatedIds`: one pass with a
union-find), checked against the smallest sets closed under "shares an external id"
(`Connected`, `GroupIds`).

### Run

`catalog`: two workers, payloads of two providers that disagree about one id of a
show, a stored row that only one of them knows, in the table once or twice,
batches of two, three ids; 2 million states.

* `NothingOrphaned`: everything that hangs off an anime belongs to a row, as long
  as operations follow each other and batches hold one payload.
* `IdentityKept`: under the same conditions no step makes two rows share an
  external id that no two rows shared before, also where the table starts with
  duplicates.  Where it holds none, the external ids of an anime stay together,
  and one is lost only when the anime is merged into one that has another id of
  the provider.  Rows that are being merged count as one.
* `RepairHeals`: whatever concurrent workers left behind, a repair that runs by
  itself leaves no two rows with the same external id.
* `DedupeIsExact`: the pass over the records keeps one id per connected group,
  for the records of the batch and up to two further ones.

**Bounds.** Three rows are the least in which a merge for a later column moves an
id onto a row that an earlier one has dealt with, and three records the least in
which one joins the groups of two others.

**What is not promised.** Two operations at once may lose rows: a link inserted
between the repointing and the deletion goes with the duplicate
(`catalog_repository.py:370`), `link` and `resolve` merge in opposite directions
(`catalog_identity.py:188`), and a batch may take an id from its lookup table
that an earlier payload has merged away (`catalog_identity.py:115`): what it
stores then belongs to no row, or two rows come to share an external id.  That is
why `NothingOrphaned` and `IdentityKept` leave out longer batches.  A
repointing statement that fails is only logged, and the duplicate is deleted all
the same (`catalog_repository.py:392`); the model takes them as succeeding.

### What is proved

`CatalogProofs` proves, for every set of workers, number of ids, providers,
payloads and items, every length of a batch and every table at the start,
duplicates included, `TypeOK`, `NothingOrphaned`, `RepairHeals`, `IdentityKept`
and `DedupeIsExact`.  `IndInv` says

* `RowTypes`, `JobTypes`: types; a row has one id per provider, and ids are given
  out in order, so that a new row never takes the place of a merged one;
* `QuietInv`: while operations do not overlap, and while a repair is by itself,
  one worker is active;
* `JobInv`: what a job holds at each point, for instance that a merge never
  deletes the row it keeps;
* `SoloInv`: an undisturbed worker works on rows that exist, and nothing hangs
  off the duplicate when it is deleted; this fails for longer batches, whose
  lookup table may name deleted rows;
* `RepairInv`: the groups of one provider column are disjoint, and no row of the
  group being merged is in one that waits: merging a group leaves the others
  what they were;
* `HealInv`: two rows that share an id of a column the repair has passed are in
  the group that waits or is being merged.  A merge moves the ids of its
  duplicates onto the kept row, also those of earlier columns; the
  invariant shows that no new sharing comes of it, as the duplicates give
  theirs up.

`FoundInv` adds, for `IdentityKept`, what a worker knows after its lookup: an
external id of its payload that is in the table has been found, so that a row of
its group has an id of that provider.  Backfilling only adds ids of providers the
row has none of, hence ids that no row has; `Allocate` is reached only when no
row has any.  A merge gives the kept row an id of each provider its duplicate
has, so that repointing cannot lose one, and a row that comes to share an id with
the kept row shared it with the duplicate.

For the second half (`StaysTogether`), only the deletion of a duplicate takes an
external id away.  The kept row has an id of the same provider by then: the id
itself, or another one, and then the id is superseded or some third row has it,
which shared it with the duplicate and is therefore being merged as well
(`TogetherMerge`).

`DedupeIsExact` is the correctness of a union-find, for any number of records
(`DeduplicatedIdsAre`).  What it keeps is compared with `GroupIds`: the records
connected to one are those in every set around it that sharing an external id
does not leave (`Connected`).  Two facts hold after every record of the pass:

* `Rooted`: a root is the least of the ids that lead to it and its own root, and
  a set that sharing does not leave has an id exactly if it has its root.  So no
  two groups are ever joined (`UnionStep`), whatever order the ids seen before
  are joined in (`JoinSeenIs`);
* an external id of a record that has been visited is in `seen`, under an id with
  the same root (`JoinedIs`).  So at the end connected records have one root,
  although an external id is noted only under the first record that has it.

`FirstOfIdIs` says the same of the first pass: the first record of each id.  The
folds are defined by recursion over sets, and the induction theorems of the
library take a predicate as a parameter, which the provers cannot instantiate;
`Naturals`, `Subsets` and `FoldDefined` state induction and the existence of a
fold with sets and functions in its place, from the well-foundedness of `<`.

## 7. WriteQueue and WriteBuffer

`WriteBuffer` is the promise: a record is taken on at most once, and settled at
most once, written or given up, in a batch (`Settle`) or by the call itself
(`Direct`).  `WriteQueue` is the queue with its worker,
`flush_now` and the `enqueue_anime` and `close` of the database manager.

| Code | Actions |
|---|---|
| `enable_batched_writes`, `enqueue_anime`, `put` | `Enable`, `Enqueue`, `Upsert`, `UpsertRaises`, `Put` |
| `_run` | `Loop`, `Get`, `GetEmpty`, `Drain`, `Flush("worker")` |
| `flush_now` | `FlushNow`, `FlushNowTake`, `Flush("flusher")` |
| `stop`, `close` | `Close`, `Joined`, `Release` |

Run `write_queue`: three records, a queue of two, batches of two, failing
upserts on both paths, a join that may time out; fair; 108 thousand states.

* `Promise`: `WriteQueue` implements `WriteBuffer` (`INSTANCE WriteBuffer WITH`: the
  records taken on, written and given up are the queue's history variables).
* `Accounted`: what was taken on is in the queue, in one batch, or counted as
  processed.
* `DrainedBeforeRelease`: unless its join timed out, close() settles what was
  accepted before it.
* `Settles`: whatever was accepted before close() is settled in the end.

**Bounds.** Three records fill a batch, leave one waiting for its deadline, and
find the queue full.  **Fairness:** the worker, whose waits have timeouts, and a
`flush_now` in progress.

What is not promised: a record put after the worker has drained the queue is
accepted and never flushed (`queue.py:65`); `enqueue_anime` reads `_write_queue`
twice and raises if close() comes in between (`database_manager.py:1314`); a
failed batch counts as processed (`queue.py:129`).  Nor does the promise say that
a record is written.  The docstring of `enqueue_anime`
(`database_manager.py:1311-1312`) and `docs/features/persistence.rst:155-156` say
that it "falls back to a synchronous upsert when the queue is disabled so callers
never silently lose data"; but `_upsert_anime_records` only logs an upsert that
fails (1138-1148), and `enqueue_anime` returns True without looking at the count
(1314-1316).  `Upsert` and `WriteBuffer`'s `Direct` lose the record in that case,
and the caller hears what it hears of one that was written.

### What is proved

`WriteQueueProofs` proves for every set of records, every batch size and every
queue bound: `TypeCorrect`, `RecordsAccounted` (`Accounted`), `CloseDrains`
(`DrainedBeforeRelease`) and `ImplementsBuffer` (`Promise`: the initial states
map to initial states, every step to a step of `WriteBuffer` or a stutter), from
the assumptions that both bounds are positive.  `IndInv` says

* `CallInv`: exactly the records whose caller was told "done" are accepted, so
  that a put or a synchronous write never takes a record on a second time;
* `PlaceInv`, `CountInv`: a record that is not settled is in one place, the
  queue or one of the two batches, and the numbers add up; without it a flush
  could settle a record that a concurrent `flush_now` has settled already;
* `BatchInv`: what a thread holds at each point; an idle or draining worker holds
  nothing, and one that reads on has room;
* `StopInv`: how the worker, the stop event and close() go together; a worker
  that has ended left nothing accepted before the stop in the queue.

`Settles` is liveness and model-checked only.

## 8. Ingestion

### State and steps

A request is where it is (`pc`), its future per provider (`call`, `out`), what it
has collected and counted, and how it ended (`verdict`); `line` are the queues
of the two executors, `late` the requests whose deadline has passed.  `open`,
`background` and `shut` are `_pipeline`, the background executor and close().  A
request that looked `_pipeline` up before close() dropped it may submit until the
executor is shut down, or be refused for having looked too late (`Accepting`,
`TooLate`).

| Code | Actions |
|---|---|
| `search_anime`, `stream_search_anime` and their browse variants | `Ask`, `Lighten`, `Submit` |
| `fetch_latest` | `AskSchedule`, `Lighten`, `Submit` |
| `_run_one`, executor | `Pick`, `Answer` |
| `run`, `stream` | `Take`, `GiveUp`, `CancelPending`, `Sink`, `End` |
| the consumer of a stream | `Pull`, `Abandon` |
| `close` | `Close`, `CloseBackground`, `CloseMain` |
| the clock | `Deadline` |

Providers are external: they answer what they offer, cut off at the limit or at
the deadline, raise, or never answer.  A payload is its fingerprint.

### Run

`ingestion`: one interactive request (search or stream), one schedule fetch, two
providers that share a title, one worker in each executor, failing providers and
database; fair; 453 thousand states.

* `StatusTruthful`: `complete` means that every call returned and that what it
  returned is in the result: all that the provider has, unless the call met its
  deadline; no provider is counted twice.
* `ShownIsStored`: what a finished request has shown is in the catalogue, unless
  the database failed it or its consumer went away.
* `ClosedIsQuiet`: after close() no interactive call is queued or running.
* `Answered`: a request returns although a provider never does.

**Bounds.** One worker for two providers makes a call wait behind one that hangs;
the limit of two rows per provider meets a list whose first row is refused.
**Fairness:** request threads run and time passes; nothing is assumed of
providers, workers and consumers.

Not promised: `complete` does not mean that every provider was asked.  A call
that a worker picks up after the deadline returns no rows without asking
(`ingestion_pipeline.py:236-238`), one that reaches it half-way returns what it
has (241-243), and if the timer of `as_completed` has not fired by then, both count
as heard; `cut` records them.  Further, an abandoned stream never calls the sink
(`ingestion_pipeline.py:112`); the first request that ends switches the shared
light mode off under the others (`api_coordinator.py:1019`); a schedule fetch
that comes between the two steps of close() keeps an executor that nobody shuts
down (`api_coordinator.py:196`); the limit is compared with the index of the raw
row, so that refused rows count (`ingestion_pipeline.py:250`).

### What is proved

`IngestionProofs` proves `TypeCorrect` and the three safety properties for every
set of requests and payloads, finite set of providers, limit and size of the
executors, whatever is offered and whichever providers fail or hang.  `IndInv`
says

* `LineInv`, `CallInv`: a queued call waits in the queue of its lane, once; a
  call has rows only when it is done, and is taken only when it has ended;
* `HeardInv`: what the status is computed from: the failures counted are those
  taken that have no rows, and a request that says `complete` has taken all;
* `WholeInv`: a call that the deadline did not meet has all that the provider has;
* `ResultInv`: the rows of every provider taken are in the result, what was shown
  was in the result, and a request that ends with the sink's consent has stored
  it;
* `CloseInv`: when close() has come back, the main executor is empty, and nothing
  is submitted to it any more.

Only model-checked: `Answered`.

## 9. StartupJobs

### State and steps

`running` is the flag pipeline and refresh share; `pipe` and `loop` are the
threads; `due`, `migrated`, `ordinal`, `status` are what settings and tables
keep.  The clock is `due` and `airs`, the status that follows from the dates.

| Code | Actions |
|---|---|
| `run_in_background`, `run` | `RunInBackground`, `PipeEnter`, `OtherJob`, `PipeLeave` |
| `_job_repair_date_from` | `RepairScan`, `RepairRow`, `RepairEnd` |
| `start_schedule_loop`, `stop_schedule_loop` | `StartCheck`, `StartThread`, `Stop` |
| `_schedule_loop_worker` | `LoopDelay`, `LoopTop`, `LoopAfter`, `LoopWake` |
| `run_schedule_refresh` and its jobs | `RefreshEnter`, `Fetch`, `UpdateStatus`, `RefreshLeave` |
| the world (external) | `Day`, `Outage`, `Recovery`, `Crash` |

### Run

`startup_jobs`: three rows, two of them airing, batches of two, two runs of the
pipeline, one loop thread, one caller that starts it, one fault, stop and crash;
fair; 465 thousand states.

* `JobsExclusive`: pipeline and refresh never run their jobs at once.
* `MigrationComplete`: once the migration is marked done, a row left with an
  ordinal date was in a flush that took no effect (`undone`); no row is skipped,
  also after a crash half-way.
* `FetchedInTheEnd`: a fetch that is due is made, whatever turned it away before.
* `StatusCatchesUp`: a show that has ended is marked so although only the last
  statement of each refresh commits (`startup_jobs.py:1110`).
* `StopIsHeard`: a stop that is not taken back ends the loop.

**Bounds.** Three rows are a full batch and a rest; two runs are one that crashed
and its repetition; one loop thread, as that two of them exclude each other and
the pipeline is proved for any number.  **Fairness:** threads run, sleeps end, providers come back.

Not promised: a flush that returns need not have written its rows.  Each UPDATE of
the batch is retried by `handle_sql_error` on its own
(`embeddedMariaDB.py:135-147`, `189-205`), after the failed attempt has rolled back
what the pinned connection had so far (1665-1668); and `commit_pinned_connection`
does nothing once the pin is gone (1589-1596).  Nothing raises, the batch is
forgotten and `startup_jobs.py:912` marks the migration done.  `FlushRepairs` may
therefore lose any part of a batch, with or without an exception.  Further, two
callers may start two loops, because the thread is created
after the lock is released (`startup_jobs.py:290`); a start after a stop whose
join timed out returns a thread that is about to end (`startup_jobs.py:297`).

### What is proved

`StartupJobsProofs` proves `TypeCorrect`, `JobsExclusive` and `MigrationComplete`
for every number of rows, loop threads, runs, faults, stops and crashes.
`ExclusiveInv`: while the flag is down nobody is at work, and whoever is at work
is alone, however many loop threads there are.  `MigrationInv`: while the repair
runs, every row with an ordinal date is still to be looked at, in the batch, or
was flushed without effect; a crash throws the first two away, and leaves the
mark unset.

Only model-checked: the three liveness properties.

## 10. Proofs and type invariants

Every component has a proof module that extends it.  Each proves `Init => IndInv`,
`IndInv /\ [Next]_vars => IndInv'` with one lemma per action or group of actions,
and `Spec => []IndInv` (`SpecInv`, `Inductive`), from which the theorems listed in
`PROJECT.json` follow.  Frame lemmas say once what a step preserves that touches
only some of the variables.  TLC has checked every inductive invariant on the
instances of the runs or smaller ones before it was proved.  The assumptions are
those declared with the constants, which TLC evaluates in every run, and the
hypotheses of `OneTaskPerHash` and `CloseFlushesHolds`, which name the setting in
which the property holds: that of `download_duplicate` and of `torrent_session`.

Every module states a type invariant `TypeOK`, and it is proved for each.

What stays with TLC are the liveness properties (`TaskResolves`,
`ReservationReleased`, `CloseQuiesces`, `LockReleased`, `Settles`, `Answered`,
`FetchedInTheEnd`, `StatusCatchesUp`, `StopIsHeard`): the prover has no rules for
fairness and `ENABLED`.

## 11. Not modelled

Listed with reasons under `components`.

* **Automatic downloads**: a pass per anime finds the next episode and a
  candidate by string matching and enqueues it; a duplicate enqueue is the
  concern of `DownloadManager`.
* **Torrent search, media library, file ids, title repair**: string processing.
* **Playback tokens, encoder selection**: no state after construction.
* **qBittorrent**: a request/response client of an external program.
* **HTTP, Tk and Next.js clients**: their threads are the callers of the models.
* **Composition root and facade**: wiring.
* Within the download manager: pause and resume (single client calls), folder
  moves and deletion of seen folders (file-system work; the deletion reads an
  attribute of a string), the overview (read-only), the watching-tag callback.
* Within the catalogue: provisional rows and the repair by title.

## 12. What could follow

1. The origin of each segment in `Playback`, to show by a run which segments of a
   later encode survive a restart further back (section 3).
2. An abstract specification of the torrent index, what the database wants and
   what runs, that `TorrentSession` implements while calls do not race.
3. A bound on the calls that a closed ingestion still makes in the background.
