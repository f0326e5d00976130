-------------------------- MODULE DownloadManager --------------------------
(***************************************************************************)
(* application/services/download_manager.py: the request threads that      *)
(* enqueue, cancel, delete and close, the DownloadProcessor thread that    *)
(* drains the queue, and the workers of the bounded executor, over the     *)
(* torrents tables and the torrent client they share.                      *)
(*                                                                         *)
(* A section the code runs under self._lock, one database statement and    *)
(* one call of the torrent client are each a single step; everything       *)
(* between two of them can be interleaved with any other thread.  A task's *)
(* torrent, payload and progress are abstracted to its infohash.           *)
(***************************************************************************)
EXTENDS Integers, Sequences, FiniteSets

CONSTANTS
    Anime,      \* anime ids
    Hash,       \* canonical infohashes
    Task,       \* DownloadTask objects; each is created at most once (bound)
    Caller,     \* request threads
    MaxWorkers, \* max_concurrent_downloads
    Known,      \* hashes that have a torrents row when the manager starts
    Ops,        \* the public operations the callers of this instance use
    Faults      \* which collaborators may fail: "db", "client"

AllOps == {"enqueue", "enqueueUrl", "cancel", "cancelHash", "delete",
           "deleteHash", "seen", "removedFile", "complete", "close"}

ASSUME MaxWorkersAssumption == MaxWorkers \in Nat \ {0}
ASSUME KnownAssumption == Known \subseteq Hash
ASSUME OpsAssumption == Ops \subseteq AllOps
ASSUME FaultsAssumption == Faults \subseteq {"db", "client"}

None == "none"      \* Python's None: no task, no hash, NULL status
True == "True"      \* the values put on a status queue
False == "False"
ASSUME NoneAssumption == None \notin Task \cup Hash \cup Anime

VARIABLES
    (* shared state of the manager, guarded by self._lock *)
    queue,            \* _download_queue
    queuedHashes,     \* _queued_hashes
    cancelledHashes,  \* _cancelled_hashes
    active,           \* _active_downloads: anime id -> task
    stopping,         \* _stopping
    executor,         \* _executor is not None
    pool,             \* futures submitted to the executor, not yet running
    (* the DownloadTask objects *)
    tpc,              \* where the task is
    anime,            \* task.anime_id
    hash,             \* task.hash_value, None for a .torrent URL
    found,            \* the infohash of the torrent the task leads to
    cancelled,        \* the tasks whose cancelled flag is set
    status,           \* task.status_queue: every value put so far
    (* the DownloadProcessor thread *)
    ppc, ptask,
    (* the database and the torrent client *)
    row,              \* torrents: absent, or the value of status
    index,            \* torrentsIndex
    client,           \* the torrent client's list
    (* the request threads *)
    cpc, req

managerVars == <<queue, queuedHashes, cancelledHashes, active, stopping,
                 executor, pool>>
taskVars == <<tpc, anime, hash, found, cancelled, status>>
procVars == <<ppc, ptask>>
worldVars == <<row, index, client>>
callerVars == <<cpc, req>>
vars == <<managerVars, taskVars, procVars, worldVars, callerVars>>

-----------------------------------------------------------------------------
(* The states of a task and of each thread. *)

\* in _download_queue, taken by the processor, or a pending future
Waiting == {"queued", "picked", "checked", "submitted"}
\* held by a worker that has not yet looked for a cancellation a last time
Early == {"begin", "start", "prepare", "check"}
\* held by a worker that will not look for one again
Late == {"save", "lookup", "add", "succeed", "fail"}
Running == Early \cup Late
InFlight == Waiting \cup Running
TaskState == {"new", "done", "lost"} \cup InFlight

Verdict == {True, False}
RowState == {"absent", None, "complete", "deleted"}
ClientState == {"out", "active", "complete"}

CallerState == {"idle", "enqRead", "enqClear", "enqDup", "enqLive", "enqIndex",
                "enqPut", "canPop", "canFlag", "canDrop", "canMark", "canList",
                "inFlight", "dbhMap", "delOwn", "delPeek", "delMark",
                "swpList", "swpMark", "remove", "cplRead", "cplWrite",
                "clsClear", "clsShut"}

\* The locals of a call: arguments, flags and the hashes still to be handled.
Request == [op: AllOps \cup {None}, anime: Anime \cup {None},
            hash: Hash \cup {None}, flag: BOOLEAN, task: Task \cup {None},
            mark: SUBSET Hash, drop: SUBSET Hash]
NoRequest == [op |-> None, anime |-> None, hash |-> None, flag |-> FALSE,
              task |-> None, mark |-> {}, drop |-> {}]

ManagerType ==
    /\ queue \in Seq(Task) /\ pool \in Seq(Task)
    /\ queuedHashes \subseteq Hash /\ cancelledHashes \subseteq Hash
    /\ active \in [Anime -> Task \cup {None}]
    /\ stopping \in BOOLEAN /\ executor \in BOOLEAN

TaskType ==
    /\ tpc \in [Task -> TaskState]
    /\ anime \in [Task -> Anime \cup {None}]
    /\ hash \in [Task -> Hash \cup {None}]
    /\ found \in [Task -> Hash \cup {None}]
    /\ cancelled \subseteq Task
    /\ status \in [Task -> Seq(Verdict)]

ProcessorType ==
    /\ ppc \in {"loop", "get", "read", "check", "submit", "exited"}
    /\ ptask \in Task \cup {None}

WorldType ==
    /\ row \in [Hash -> RowState]
    /\ index \subseteq Anime \X Hash
    /\ client \in [Hash -> ClientState]

CallerType ==
    /\ cpc \in [Caller -> CallerState]
    /\ req \in [Caller -> Request]

TypeOK == ManagerType /\ TaskType /\ ProcessorType /\ WorldType /\ CallerType

-----------------------------------------------------------------------------
(* __init__, after the torrent session has been restored: a known hash is  *)
(* indexed with any status, and in the client unless it is deleted.        *)
Init ==
    /\ queue = <<>> /\ pool = <<>>
    /\ queuedHashes = {} /\ cancelledHashes = {}
    /\ active = [a \in Anime |-> None]
    /\ stopping = FALSE /\ executor = TRUE
    /\ tpc = [t \in Task |-> "new"]
    /\ anime = [t \in Task |-> None]
    /\ hash = [t \in Task |-> None]
    /\ found = [t \in Task |-> None]
    /\ cancelled = {}
    /\ status = [t \in Task |-> <<>>]
    /\ ppc = "loop" /\ ptask = None
    /\ row \in [Hash -> RowState]
    /\ \A h \in Hash : row[h] = "absent" <=> h \notin Known
    /\ \E owner \in [Known -> Anime] : index = {<<owner[h], h>> : h \in Known}
    /\ client \in [Hash -> ClientState]
    /\ \A h \in Hash : client[h] # "out" => row[h] \in {None, "complete"}
    /\ cpc = [c \in Caller |-> "idle"]
    /\ req = [c \in Caller |-> NoRequest]

-----------------------------------------------------------------------------
(* Helpers of the code. *)

\* Fault: the task's own flag is not looked at.
FlagIgnored(t) == hash[t] \in cancelledHashes

\* task.cancelled or (key and key in self._cancelled_hashes)
IsCancelled(t) == t \in cancelled \/ hash[t] \in cancelledHashes

\* Tasks of _active_downloads whose hash is h.
ActiveWith(h) == {t \in Task : hash[t] = h /\ \E a \in Anime : active[a] = t}

\* What a read may return: the value, or what the code makes of an exception.
Reads(fault, value, fallback) ==
    {value} \cup (IF fault \in Faults THEN {fallback} ELSE {})

\* get_torrent_status: a failed query reads as NULL.
StatusReads(h) == Reads("db", row[h], None)

\* list_torrents_for_anime: the inner join of torrents and torrentsIndex.
RowsOf(a) == {h \in Hash : <<a, h>> \in index /\ row[h] # "absent"}
RowsReads(a) == Reads("db", RowsOf(a), {})

\* _lookup_live_torrent: a client that cannot answer has no torrent.
LookupReads(h) == Reads("client", client[h], "out")

\* _live_hashes_for_anime: not deleted, in the client, active/error/other.
LiveHashesOf(a) == {h \in RowsOf(a) : row[h] # "deleted" /\ client[h] = "active"}

\* update_torrent_status: changes an existing row only; an error is logged.
SetStatus(h, s) ==
    row' \in Reads("db", [row EXCEPT ![h] = IF @ = "absent" THEN @ ELSE s], row)

\* Fault: a False verdict is never put.
SilentFailure(t, v) ==
    status' = IF v = True THEN [status EXCEPT ![t] = Append(@, v)] ELSE status

\* One value put on a task's status queue.
PutStatus(t, v) == status' = [status EXCEPT ![t] = Append(@, v)]

\* Fault: a successful task keeps its hash reserved.
ReleaseOnFailure(t) == IF tpc[t] = "succeed" THEN queuedHashes ELSE queuedHashes \ {hash[t]}

\* if key: self._queued_hashes.discard(key)
Release(t) == queuedHashes \ {hash[t]}

\* Fault: a failed task stays in the panel.
NoEviction(t) == active

\* if not keep_visible: self._active_downloads.pop(task.anime_id, None)
Evict(t) == IF tpc[t] = "fail" THEN [active EXCEPT ![anime[t]] = None] ELSE active

\* Fault: an unknown hash is listed for removal.
UnknownHashListed(t) == {hash[t]}

\* The hash of a cancelled task, when it is known.
HashOf(t) == {hash[t]} \ {None}

\* Fault: the put does not look at _queued_hashes again.
NoSecondLook(c) == FALSE

\* The second look of enqueue_download, under the lock.
AlreadyQueued(c) == req[c].op = "enqueue" /\ req[c].hash \in queuedHashes

Goto(c, pc) == cpc' = [cpc EXCEPT ![c] = pc]
Return(c) == Goto(c, "idle") /\ req' = [req EXCEPT ![c] = NoRequest]
Step(c, pc) == Goto(c, pc) /\ UNCHANGED req

Call(c, op, pc, a, h) ==
    /\ cpc[c] = "idle"
    /\ op \in Ops
    /\ Goto(c, pc)
    /\ req' = [req EXCEPT ![c] = [NoRequest EXCEPT !.op = op, !.anime = a,
                                                   !.hash = h]]
    /\ UNCHANGED <<managerVars, taskVars, procVars, worldVars>>

-----------------------------------------------------------------------------
(* enqueue_download: two unlocked reads of the world, then the locked put. *)

\* With a magnet or an explicit hash the infohash is known from the start ...
CallEnqueue(c) == \E a \in Anime, h \in Hash : Call(c, "enqueue", "enqRead", a, h)

\* ... with a .torrent URL it is not: no duplicate check can be made.
CallEnqueueUrl(c) == \E a \in Anime, h \in Hash : Call(c, "enqueueUrl", "enqPut", a, h)

\* _clear_deleted_status_for_redownload reads the status ...
EnqueueRead(c) ==
    /\ cpc[c] = "enqRead"
    /\ \E seen \in StatusReads(req[c].hash) :
         Step(c, IF seen = "deleted" THEN "enqClear" ELSE "enqDup")
    /\ UNCHANGED <<managerVars, taskVars, procVars, worldVars>>

\* ... and writes NULL over "deleted".
EnqueueClear(c) ==
    /\ cpc[c] = "enqClear"
    /\ SetStatus(req[c].hash, None)
    /\ req' = [req EXCEPT ![c].flag = TRUE]
    /\ Goto(c, "enqDup")
    /\ UNCHANGED <<managerVars, taskVars, procVars, index, client>>

\* _duplicate_download_reason: queued or active, under the lock ...
EnqueueDup(c) ==
    /\ cpc[c] = "enqDup"
    /\ IF req[c].hash \in queuedHashes \/ ActiveWith(req[c].hash) # {}
         THEN Return(c)
         ELSE Step(c, "enqLive")
    /\ UNCHANGED <<managerVars, taskVars, procVars, worldVars>>

\* ... then in the torrent client ...
EnqueueLive(c) ==
    /\ cpc[c] = "enqLive"
    /\ \E seen \in LookupReads(req[c].hash) :
         IF seen # "out"
           THEN Return(c)
           ELSE Step(c, IF req[c].flag THEN "enqPut" ELSE "enqIndex")
    /\ UNCHANGED <<managerVars, taskVars, procVars, worldVars>>

\* ... then complete in the database, unless "deleted" was just cleared.
EnqueueIndex(c) ==
    /\ cpc[c] = "enqIndex"
    /\ \E seen \in StatusReads(req[c].hash) :
         IF seen = "complete" THEN Return(c) ELSE Step(c, "enqPut")
    /\ UNCHANGED <<managerVars, taskVars, procVars, worldVars>>

\* The locked put: reserve a known hash and queue a new task.
EnqueuePut(c) ==
    LET h == req[c].hash
        known == req[c].op = "enqueue"
    IN
    /\ cpc[c] = "enqPut"
    /\ \/ /\ AlreadyQueued(c)
          /\ UNCHANGED <<managerVars, taskVars>>
       \/ \E t \in Task :
            /\ ~AlreadyQueued(c)
            /\ tpc[t] = "new"
            /\ cancelledHashes' = IF known THEN cancelledHashes \ {h} ELSE cancelledHashes
            /\ queuedHashes' = IF known THEN queuedHashes \cup {h} ELSE queuedHashes
            /\ queue' = Append(queue, t)
            /\ tpc' = [tpc EXCEPT ![t] = "queued"]
            /\ anime' = [anime EXCEPT ![t] = req[c].anime]
            /\ hash' = [hash EXCEPT ![t] = IF known THEN h ELSE None]
            /\ found' = [found EXCEPT ![t] = h]
            /\ UNCHANGED <<active, stopping, executor, pool, cancelled, status>>
    /\ Return(c)
    /\ UNCHANGED <<procVars, worldVars>>

\* The bound on tasks is reached: the call is not made in this instance.
EnqueueBound(c) ==
    /\ cpc[c] = "enqPut"
    /\ \A t \in Task : tpc[t] # "new"
    /\ ~AlreadyQueued(c)
    /\ Return(c)
    /\ UNCHANGED <<managerVars, taskVars, procVars, worldVars>>

-----------------------------------------------------------------------------
(* _process_download_queue: the single consumer of the queue. *)

\* Fault: the loop does not look at the stopping event.
ProcessorForever ==
    /\ ppc = "loop"
    /\ ppc' = "get"
    /\ UNCHANGED <<managerVars, taskVars, ptask, worldVars, callerVars>>

\* while not self._stopping.is_set()
ProcessorLoop ==
    /\ ppc = "loop"
    /\ ppc' = IF stopping THEN "exited" ELSE "get"
    /\ UNCHANGED <<managerVars, taskVars, ptask, worldVars, callerVars>>

\* self._download_queue.get(timeout=1.0) raises queue.Empty
ProcessorTimeout ==
    /\ ppc = "get" /\ queue = <<>>
    /\ ppc' = "loop"
    /\ UNCHANGED <<managerVars, taskVars, ptask, worldVars, callerVars>>

ProcessorGet ==
    /\ ppc = "get" /\ queue # <<>>
    /\ ptask' = Head(queue)
    /\ queue' = Tail(queue)
    /\ tpc' = [tpc EXCEPT ![Head(queue)] = "picked"]
    /\ ppc' = "read"
    /\ UNCHANGED <<queuedHashes, cancelledHashes, active, stopping, executor, pool,
                   anime, hash, found, cancelled, status, worldVars, callerVars>>

\* A closed executor: the task is dropped without a word.
ProcessorRead ==
    /\ ppc = "read"
    /\ IF executor
         THEN /\ ppc' = "check" /\ UNCHANGED <<tpc, ptask>>
         ELSE /\ ppc' = "loop" /\ ptask' = None
              /\ tpc' = [tpc EXCEPT ![ptask] = "lost"]
    /\ UNCHANGED <<managerVars, anime, hash, found, cancelled, status,
                   worldVars, callerVars>>

\* Under the lock: a task cancelled while it waited is answered False.
ProcessorCheck ==
    /\ ppc = "check"
    /\ IF IsCancelled(ptask)
         THEN /\ queuedHashes' = Release(ptask)
              /\ cancelledHashes' = cancelledHashes \ {hash[ptask]}
              /\ PutStatus(ptask, False)
              /\ tpc' = [tpc EXCEPT ![ptask] = "done"]
              /\ ppc' = "loop" /\ ptask' = None
         ELSE /\ ppc' = "submit"
              /\ tpc' = [tpc EXCEPT ![ptask] = "checked"]
              /\ UNCHANGED <<queuedHashes, cancelledHashes, status, ptask>>
    /\ UNCHANGED <<queue, active, stopping, executor, pool, anime, hash, found,
                   cancelled, worldVars, callerVars>>

\* executor.submit raises once the executor is shut down: only logged.
ProcessorSubmit ==
    /\ ppc = "submit"
    /\ pool' = IF executor THEN Append(pool, ptask) ELSE pool
    /\ tpc' = [tpc EXCEPT ![ptask] = IF executor THEN "submitted" ELSE "lost"]
    /\ ppc' = "loop" /\ ptask' = None
    /\ UNCHANGED <<queue, queuedHashes, cancelledHashes, active, stopping, executor,
                   anime, hash, found, cancelled, status, worldVars, callerVars>>

Processor == ProcessorLoop \/ ProcessorTimeout \/ ProcessorGet \/ ProcessorRead
             \/ ProcessorCheck \/ ProcessorSubmit

-----------------------------------------------------------------------------
(* _execute_download, run by a worker of the executor. *)

\* The executor starts the oldest pending future on a free worker.
WorkerPick(t) ==
    /\ pool # <<>> /\ t = Head(pool)
    /\ Cardinality({u \in Task : tpc[u] \in Running}) < MaxWorkers
    /\ pool' = Tail(pool)
    /\ tpc' = [tpc EXCEPT ![t] = "begin"]
    /\ UNCHANGED <<queue, queuedHashes, cancelledHashes, active, stopping, executor,
                   anime, hash, found, cancelled, status, procVars, worldVars,
                   callerVars>>

\* Under the lock: leave if cancelled, else become the anime's active task.
WorkerBegin(t) ==
    /\ tpc[t] = "begin"
    /\ IF IsCancelled(t)
         THEN /\ queuedHashes' = Release(t)
              /\ cancelledHashes' = cancelledHashes \ {hash[t]}
              /\ PutStatus(t, False)
              /\ tpc' = [tpc EXCEPT ![t] = "done"]
              /\ UNCHANGED active
         ELSE /\ active' = [active EXCEPT ![anime[t]] = t]
              /\ tpc' = [tpc EXCEPT ![t] = "start"]
              /\ UNCHANGED <<queuedHashes, cancelledHashes, status>>
    /\ UNCHANGED <<queue, stopping, executor, pool, anime, hash, found, cancelled,
                   procVars, worldVars, callerVars>>

\* A step that leaves the manager's shared state alone.
Local(t, pc) ==
    /\ tpc' = [tpc EXCEPT ![t] = pc]
    /\ UNCHANGED <<managerVars, anime, found, cancelled, procVars, callerVars>>

\* The unlocked second look, then "started".
WorkerStart(t) ==
    /\ tpc[t] = "start"
    /\ PutStatus(t, IF IsCancelled(t) THEN False ELSE True)
    /\ Local(t, IF IsCancelled(t) THEN "fail" ELSE "prepare")
    /\ UNCHANGED <<hash, worldVars>>

\* _prepare_torrent: a magnet, a fetched file or the stored row; None fails.
WorkerPrepare(t) ==
    /\ tpc[t] = "prepare"
    /\ \/ Local(t, "check") /\ UNCHANGED status
       \/ Local(t, "fail") /\ PutStatus(t, False)
    /\ UNCHANGED <<hash, worldVars>>

\* The third and last look, under the lock; then the hash becomes known.
WorkerCheck(t) ==
    /\ tpc[t] = "check"
    /\ IF IsCancelled(t)
         THEN Local(t, "fail") /\ PutStatus(t, False) /\ UNCHANGED hash
         ELSE /\ Local(t, "save")
              /\ hash' = [hash EXCEPT ![t] = found[t]]
              /\ UNCHANGED status
    /\ UNCHANGED worldVars

\* Fault: the result of _save_torrent is not looked at.
SaveIgnored(t) ==
    /\ tpc[t] = "save"
    /\ \/ /\ index' = index \cup {<<anime[t], found[t]>>}
          /\ row' = [row EXCEPT ![found[t]] = IF @ = "absent" THEN None ELSE @]
       \/ UNCHANGED <<index, row>>
    /\ Local(t, "lookup")
    /\ UNCHANGED <<status, hash, client>>

\* _get_anime_folder, _save_torrent: index row, then torrents row; each may
\* fail.  A row that exists keeps its status.
WorkerSave(t) ==
    LET h == found[t]
        pair == <<anime[t], h>>
    IN
    /\ tpc[t] = "save"
    /\ \/ /\ index' = index \cup {pair}
          /\ row' = [row EXCEPT ![h] = IF @ = "absent" THEN None ELSE @]
          /\ Local(t, "lookup") /\ UNCHANGED status
       \/ /\ index' \in {index, index \cup {pair}}
          /\ Local(t, "fail") /\ PutStatus(t, False)
          /\ UNCHANGED row
    /\ UNCHANGED <<hash, client>>

\* _start_download: a torrent the client already has counts as started (its
\* index, ensured again, is there since WorkerSave).
WorkerLookup(t) ==
    /\ tpc[t] = "lookup"
    /\ \/ \E seen \in LookupReads(found[t]) :
            IF seen # "out"
              THEN Local(t, "succeed") /\ PutStatus(t, True)
              ELSE Local(t, "add") /\ UNCHANGED status
       \/ Local(t, "fail") /\ PutStatus(t, False)      \* no anime folder
    /\ UNCHANGED <<hash, worldVars>>

\* tm.add, move and ensure_torrent_index (already true since WorkerSave);
\* an empty answer or an exception is a failed start.
WorkerAdd(t) ==
    /\ tpc[t] = "add"
    /\ \/ /\ client' = [client EXCEPT ![found[t]] = IF @ = "out" THEN "active" ELSE @]
          /\ Local(t, "succeed") /\ PutStatus(t, True)
       \/ /\ Local(t, "fail") /\ PutStatus(t, False)
          /\ UNCHANGED client
    /\ UNCHANGED <<hash, row, index>>

\* finally: release the hash; a failed task evicts whatever its anime shows.
WorkerFinish(t) ==
    /\ tpc[t] \in {"succeed", "fail"}
    /\ queuedHashes' = Release(t)
    /\ active' = Evict(t)
    /\ tpc' = [tpc EXCEPT ![t] = "done"]
    /\ UNCHANGED <<queue, cancelledHashes, stopping, executor, pool, anime, hash,
                   found, cancelled, status, procVars, worldVars, callerVars>>

Worker(t) == WorkerPick(t) \/ WorkerBegin(t) \/ WorkerStart(t) \/ WorkerPrepare(t)
             \/ WorkerCheck(t) \/ WorkerSave(t) \/ WorkerLookup(t) \/ WorkerAdd(t)
             \/ WorkerFinish(t)

-----------------------------------------------------------------------------
(* cancel_download: only the pop is under the lock. *)

CallCancel(c) == \E a \in Anime : Call(c, "cancel", "canPop", a, None)

\* mark_torrents_deleted_for_seen_anime starts with a cancel_download.
CallSeen(c) == \E a \in Anime : Call(c, "seen", "canPop", a, None)

CancelPop(c) ==
    LET t == active[req[c].anime] IN
    /\ cpc[c] = "canPop"
    /\ active' = [active EXCEPT ![req[c].anime] = None]
    /\ req' = [req EXCEPT ![c].task = t]
    /\ Goto(c, IF t = None THEN "canList" ELSE "canFlag")
    /\ UNCHANGED <<queue, queuedHashes, cancelledHashes, stopping, executor, pool,
                   taskVars, procVars, worldVars>>

\* task.cancel(), then its hash is read.
CancelFlag(c) ==
    LET t == req[c].task IN
    /\ cpc[c] = "canFlag"
    /\ cancelled' = cancelled \cup {t}
    /\ req' = [req EXCEPT ![c].drop = HashOf(t), ![c].hash = hash[t]]
    /\ Goto(c, IF hash[t] = None THEN "canList" ELSE "canDrop")
    /\ UNCHANGED <<managerVars, tpc, anime, hash, found, status, procVars, worldVars>>

\* _cancel_in_flight_hash_locked, here without the lock it asks for ...
CancelDrop(c) ==
    /\ cpc[c] = "canDrop"
    /\ queuedHashes' = queuedHashes \ {req[c].hash}
    /\ Step(c, "canMark")
    /\ UNCHANGED <<queue, cancelledHashes, active, stopping, executor, pool,
                   taskVars, procVars, worldVars>>

\* ... so its two updates can be torn apart.
CancelMark(c) ==
    /\ cpc[c] = "canMark"
    /\ cancelledHashes' = cancelledHashes \cup {req[c].hash}
    /\ Step(c, "canList")
    /\ UNCHANGED <<queue, queuedHashes, active, stopping, executor, pool,
                   taskVars, procVars, worldVars>>

\* Add the anime's live torrents to the hashes to remove.
CancelList(c) ==
    /\ cpc[c] = "canList"
    /\ \E live \in SUBSET LiveHashesOf(req[c].anime) :
         /\ Faults = {} => live = LiveHashesOf(req[c].anime)
         /\ req' = [req EXCEPT ![c].drop = @ \cup live]
    /\ Goto(c, "remove")
    /\ UNCHANGED <<managerVars, taskVars, procVars, worldVars>>

\* remove_torrents_from_client, one hash at a time; seen then marks its rows.
RemoveOne(c) ==
    /\ cpc[c] = "remove"
    /\ \E h \in req[c].drop :
         /\ client' \in Reads("client", [client EXCEPT ![h] = "out"], client)
         /\ req' = [req EXCEPT ![c].drop = @ \ {h}]
    /\ UNCHANGED <<managerVars, taskVars, procVars, row, index, cpc>>

RemoveDone(c) ==
    /\ cpc[c] = "remove" /\ req[c].drop = {}
    /\ IF req[c].op = "seen" /\ ~req[c].flag THEN Step(c, "swpList") ELSE Return(c)
    /\ UNCHANGED <<managerVars, taskVars, procVars, worldVars>>

-----------------------------------------------------------------------------
(* cancel_download_by_hash, delete_torrent_by_hash, delete_anime_torrent *)

CallCancelHash(c) == \E h \in Hash : Call(c, "cancelHash", "inFlight", None, h)
CallDeleteHash(c) == \E h \in Hash : Call(c, "deleteHash", "dbhMap", None, h)
CallDelete(c) == \E a \in Anime, h \in Hash : Call(c, "delete", "delOwn", a, h)

\* _cancel_in_flight_for_hash: atomic under the lock.
CancelInFlight(c) ==
    LET h == req[c].hash IN
    /\ cpc[c] = "inFlight"
    /\ queuedHashes' = queuedHashes \ {h}
    /\ cancelledHashes' = cancelledHashes \cup {h}
    /\ cancelled' = cancelled \cup ActiveWith(h)
    /\ active' = [a \in Anime |-> IF active[a] \in ActiveWith(h) THEN None ELSE active[a]]
    /\ req' = [req EXCEPT ![c].drop = IF req[c].op = "delete" THEN {} ELSE {h}]
    /\ Goto(c, IF req[c].op = "delete" THEN "delMark" ELSE "remove")
    /\ UNCHANGED <<queue, stopping, executor, pool, tpc, anime, hash, found, status,
                   procVars, worldVars>>

\* get_anime_ids_by_hashes: an indexed hash is deleted through its anime.
DeleteMap(c) ==
    LET h == req[c].hash
        owners == {a \in Anime : <<a, h>> \in index}
    IN
    /\ cpc[c] = "dbhMap"
    /\ \/ /\ {} \in Reads("db", owners, {})
          /\ Step(c, "inFlight")
       \/ \E a \in owners :
            /\ req' = [req EXCEPT ![c].op = "delete", ![c].anime = a]
            /\ Goto(c, "delOwn")
    /\ UNCHANGED <<managerVars, taskVars, procVars, worldVars>>

\* The hash must be a row of the anime; remember whether it was deleted.
DeleteOwn(c) ==
    LET h == req[c].hash IN
    /\ cpc[c] = "delOwn"
    /\ \E rows \in RowsReads(req[c].anime) :
         IF h \in rows
           THEN /\ req' = [req EXCEPT ![c].flag = (row[h] = "deleted")]
                /\ Goto(c, "delPeek")
           ELSE Return(c)
    /\ UNCHANGED <<managerVars, taskVars, procVars, worldVars>>

\* Only a task that is the anime's active one is cancelled.
DeletePeek(c) ==
    LET t == active[req[c].anime] IN
    /\ cpc[c] = "delPeek"
    /\ Step(c, IF t # None /\ hash[t] = req[c].hash THEN "inFlight" ELSE "delMark")
    /\ UNCHANGED <<managerVars, taskVars, procVars, worldVars>>

DeleteMark(c) ==
    LET h == req[c].hash IN
    /\ cpc[c] = "delMark"
    /\ IF req[c].flag THEN UNCHANGED row ELSE SetStatus(h, "deleted")
    /\ req' = [req EXCEPT ![c].drop = {h}]
    /\ Goto(c, "remove")
    /\ UNCHANGED <<managerVars, taskVars, procVars, index, client>>

-----------------------------------------------------------------------------
(* mark_torrents_deleted_for_seen_anime (after its cancel) and             *)
(* mark_torrents_deleted_for_removed_file: mark rows, then remove them.    *)

CallRemovedFile(c) == \E a \in Anime : Call(c, "removedFile", "swpList", a, None)

\* seen: every row not deleted; removedFile: those that owned the file.
SweepList(c) ==
    /\ cpc[c] = "swpList"
    /\ \E rows \in RowsReads(req[c].anime) : \E hit \in SUBSET rows :
         /\ \A h \in hit : row[h] # "deleted"
         /\ req[c].op = "seen" => \A h \in rows \ hit : row[h] = "deleted"
         /\ req' = [req EXCEPT ![c].mark = hit, ![c].flag = TRUE]
    /\ Goto(c, "swpMark")
    /\ UNCHANGED <<managerVars, taskVars, procVars, worldVars>>

SweepMark(c) ==
    /\ cpc[c] = "swpMark"
    /\ \/ \E h \in req[c].mark :
            /\ SetStatus(h, "deleted")
            /\ req' = [req EXCEPT ![c].mark = @ \ {h}, ![c].drop = @ \cup {h}]
            /\ UNCHANGED cpc
       \/ /\ req[c].mark = {}
          /\ Step(c, "remove") /\ UNCHANGED row
    /\ UNCHANGED <<managerVars, taskVars, procVars, index, client>>

-----------------------------------------------------------------------------
(* _maybe_mark_torrent_complete, from a status poll that saw the torrent   *)
(* complete in the client: read the status, then write.                    *)

CallComplete(c) ==
    \E h \in Hash : client[h] = "complete" /\ Call(c, "complete", "cplRead", None, h)

CompleteRead(c) ==
    /\ cpc[c] = "cplRead"
    /\ \E seen \in StatusReads(req[c].hash) :
         IF seen \in {"complete", "deleted"} THEN Return(c) ELSE Step(c, "cplWrite")
    /\ UNCHANGED <<managerVars, taskVars, procVars, worldVars>>

CompleteWrite(c) ==
    /\ cpc[c] = "cplWrite"
    /\ SetStatus(req[c].hash, "complete")
    /\ Return(c)
    /\ UNCHANGED <<managerVars, taskVars, procVars, index, client>>

-----------------------------------------------------------------------------
(* close: once, as the embedding runtime does. *)

CallClose(c) ==
    /\ cpc[c] = "idle" /\ "close" \in Ops /\ ~stopping
    /\ stopping' = TRUE
    /\ Goto(c, "clsClear")
    /\ UNCHANGED <<queue, queuedHashes, cancelledHashes, active, executor, pool,
                   taskVars, procVars, worldVars, req>>

CloseClear(c) ==
    /\ cpc[c] = "clsClear"
    /\ cancelled' = cancelled \cup {t \in Task : \E a \in Anime : active[a] = t}
    /\ active' = [a \in Anime |-> None]
    /\ queuedHashes' = {} /\ cancelledHashes' = {}
    /\ Step(c, "clsShut")
    /\ UNCHANGED <<queue, stopping, executor, pool, tpc, anime, hash, found, status,
                   procVars, worldVars>>

\* shutdown(wait=False, cancel_futures=True): pending futures are dropped.
CloseShut(c) ==
    /\ cpc[c] = "clsShut"
    /\ executor' = FALSE
    /\ tpc' = [t \in Task |-> IF tpc[t] = "submitted" THEN "lost" ELSE tpc[t]]
    /\ pool' = <<>>
    /\ Return(c)
    /\ UNCHANGED <<queue, queuedHashes, cancelledHashes, active, stopping, anime, hash,
                   found, cancelled, status, procVars, worldVars>>

-----------------------------------------------------------------------------
\* A torrent of the client finishes downloading.
ClientFinish(h) ==
    /\ client[h] = "active"
    /\ client' = [client EXCEPT ![h] = "complete"]
    /\ UNCHANGED <<managerVars, taskVars, procVars, row, index, callerVars>>

CallSomething(c) ==
    \/ CallEnqueue(c) \/ CallEnqueueUrl(c) \/ CallCancel(c) \/ CallSeen(c)
    \/ CallCancelHash(c) \/ CallDeleteHash(c) \/ CallDelete(c)
    \/ CallRemovedFile(c) \/ CallComplete(c) \/ CallClose(c)

CallerStep(c) ==
    \/ EnqueueRead(c) \/ EnqueueClear(c) \/ EnqueueDup(c) \/ EnqueueLive(c)
    \/ EnqueueIndex(c) \/ EnqueuePut(c) \/ EnqueueBound(c)
    \/ CancelPop(c) \/ CancelFlag(c) \/ CancelDrop(c) \/ CancelMark(c) \/ CancelList(c)
    \/ RemoveOne(c) \/ RemoveDone(c) \/ CancelInFlight(c)
    \/ DeleteMap(c) \/ DeleteOwn(c) \/ DeletePeek(c) \/ DeleteMark(c)
    \/ SweepList(c) \/ SweepMark(c) \/ CompleteRead(c) \/ CompleteWrite(c)
    \/ CloseClear(c) \/ CloseShut(c)

Next ==
    \/ Processor
    \/ \E t \in Task : Worker(t)
    \/ \E c \in Caller : CallSomething(c) \/ CallerStep(c)
    \/ \E h \in Hash : ClientFinish(h)

\* Every thread that has a step to take is scheduled; network calls carry a
\* timeout (requests.get(timeout=15)).  Nobody has to make a new request.
Fairness ==
    /\ WF_vars(Processor)
    /\ \A t \in Task : WF_vars(Worker(t))
    /\ \A c \in Caller : WF_vars(CallerStep(c))

Spec == Init /\ [][Next]_vars
FairSpec == Spec /\ Fairness

-----------------------------------------------------------------------------
(* What makes the manager correct. *)

\* No hash stays reserved in _queued_hashes without a task that will release
\* it: as long as the manager is open, a reserved hash belongs to a task that
\* is still in flight, so a lost or cancelled task never blocks a later
\* enqueue_download with "already queued".
ReservationBacked ==
    ~stopping => \A h \in queuedHashes :
                    \E t \in Task : tpc[t] \in InFlight /\ hash[t] = h

\* The downloads panel (_active_downloads) never shows a ghost: the task it
\* shows for an anime was requested for that anime, is not cancelled, and is
\* either being executed or was handed to the torrent client successfully.
PanelSound ==
    \A a \in Anime : active[a] # None =>
        /\ anime[active[a]] = a
        /\ active[a] \notin cancelled
        /\ tpc[active[a]] \in Running \/ status[active[a]] = <<True, True>>

\* "Persist index before touching the torrent client so a failed DB write
\* never leaves an unassociated live torrent": whatever fails and whoever
\* deletes, every torrent of the client has its torrents row and an anime.
LiveIndexed ==
    \A h \in Hash : client[h] # "out" =>
        row[h] # "absent" /\ \E a \in Anime : <<a, h>> \in index

\* _queued_hashes holds the infohashes "waiting in the queue or currently
\* executing", so that at most one task per known infohash is in flight: no
\* two workers prepare, save and add the same torrent at once.
SingleFlight ==
    \A t, u \in Task :
        /\ tpc[t] \in InFlight /\ tpc[u] \in InFlight
        /\ hash[t] # None /\ hash[t] = hash[u]
        => t = u

\* Cooperative cancellation is honoured: a task whose cancelled flag is set
\* before the worker's last look never gets as far as the database or the
\* torrent client.
CancelHonoured ==
    \A t \in Task :
        []( t \in cancelled /\ tpc[t] \in Waiting \cup Early
            => [](tpc[t] \notin {"save", "lookup", "add", "succeed"}) )

\* Every task that enqueue_download accepted gets its verdict on the status
\* queue, unless the manager is being closed.
TaskResolves ==
    \A t \in Task : tpc[t] = "queued" ~>
        \/ stopping
        \/ tpc[t] = "done" /\ status[t] \in {<<False>>, <<True, False>>, <<True, True>>}

\* A reserved hash is eventually released, so the torrent can be asked for
\* again, unless the manager is being closed.
ReservationReleased ==
    \A h \in Hash : h \in queuedHashes ~> (h \notin queuedHashes \/ stopping)

\* After close() the processor thread ends and no worker stays busy.
CloseQuiesces ==
    stopping ~> (ppc = "exited" /\ \A t \in Task : tpc[t] \notin Running)

=============================================================================
