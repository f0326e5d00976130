----------------------------- MODULE WriteQueue -----------------------------
(***************************************************************************)
(* adapters/persistence/queue.py and the methods of                        *)
(* application/services/database_manager.py that own it: enqueue_anime     *)
(* from any thread, the worker of the queue, flush_now and close.          *)
(*                                                                         *)
(* A record stands for one call of enqueue_anime by a thread of its own.   *)
(* Batches are sets: a flush upserts the records one by one and a record   *)
(* that fails is only logged.  The deadline of a batch may pass at any     *)
(* time; a get that times out waited past it (timeout = max_latency).      *)
(***************************************************************************)
EXTENDS Integers, Sequences, FiniteSets, Functions

CONSTANTS
    Record,      \* calls of enqueue_anime
    BatchSize,   \* batch_size
    MaxSize,     \* queue_maxsize
    Faults       \* "db": a database call may fail; "slow": the join of close may time out

ASSUME QueueBounds == BatchSize \in Nat \ {0} /\ MaxSize \in Nat \ {0}
ASSUME QueueFaults == Faults \subseteq {"db", "slow"}

Thread == {"worker", "flusher"}

VARIABLES
    queue,      \* DatabaseManager._write_queue is set
    open,       \* DatabaseManager._database is set
    q,          \* PersistenceQueue._queue
    stop,       \* _stop_event
    pc,         \* the worker's _run, and a call of flush_now
    batch,      \* their local batches
    closing,    \* where close is
    call,       \* where each enqueue_anime is
    accepted,   \* records a caller was told are taken care of
    written,    \* records that reached the database
    lost,       \* accepted records whose upsert failed; logged only
    processed,  \* _processed
    direct,     \* records that went around the queue (history)
    early,      \* records accepted before close set the stop event (history)
    timedOut    \* the join of close gave up (history)

vars == <<queue, open, q, stop, pc, batch, closing, call, accepted, written, lost, processed,
          direct, early, timedOut>>

ClosePc == {"open", "joining", "release", "closed"}
CallPc == {"new", "sync", "put", "done", "dropped", "raised"}
ThreadPc == {"idle", "loop", "get", "flush", "lastFlush", "drain", "drainFlush", "take", "takeFlush"}

TypeOK ==
    /\ queue \in BOOLEAN /\ open \in BOOLEAN /\ stop \in BOOLEAN /\ timedOut \in BOOLEAN
    /\ q \in Seq(Record) /\ Len(q) <= MaxSize
    /\ pc \in [Thread -> ThreadPc] /\ batch \in [Thread -> SUBSET Record]
    /\ Cardinality(batch["worker"]) <= BatchSize
    /\ closing \in ClosePc /\ call \in [Record -> CallPc]
    /\ accepted \subseteq Record /\ written \subseteq Record /\ lost \subseteq Record
    /\ processed \in Nat /\ direct \subseteq Record /\ early \subseteq Record

Init ==
    /\ queue = FALSE /\ open = TRUE /\ q = <<>> /\ stop = FALSE
    /\ pc = [t \in Thread |-> "idle"] /\ batch = [t \in Thread |-> {}]
    /\ closing = "open" /\ call = [r \in Record |-> "new"]
    /\ accepted = {} /\ written = {} /\ lost = {} /\ processed = 0
    /\ direct = {} /\ early = {} /\ timedOut = FALSE

-----------------------------------------------------------------------------
(* The callers. *)

\* enable_batched_writes; start.
Enable ==
    /\ ~queue /\ closing = "open"
    /\ queue' = TRUE
    /\ pc' = [pc EXCEPT !["worker"] = "loop"]
    /\ UNCHANGED <<open, q, stop, batch, closing, call, accepted, written, lost, processed,
                   direct, early, timedOut>>

\* enqueue_anime looks whether there is a queue, ...
Enqueue(r) ==
    /\ call[r] = "new"
    /\ call' = [call EXCEPT ![r] = IF queue THEN "put" ELSE "sync"]
    /\ UNCHANGED <<queue, open, q, stop, pc, batch, closing, accepted, written, lost, processed,
                   direct, early, timedOut>>

\* ... writes synchronously if there is none.  An upsert that fails is logged and
\* dropped by _upsert_anime_records, and enqueue_anime answers True all the same.
Upsert(r) ==
    /\ call[r] = "sync" /\ open
    /\ call' = [call EXCEPT ![r] = "done"]
    /\ accepted' = accepted \cup {r} /\ direct' = direct \cup {r}
    /\ \/ written' = written \cup {r} /\ UNCHANGED lost
       \/ "db" \in Faults /\ lost' = lost \cup {r} /\ UNCHANGED written
    /\ UNCHANGED <<queue, open, q, stop, pc, batch, closing, processed, early, timedOut>>

\* Without a database get_connection raises, and so does a pool without a
\* connection to pin: only these reach the caller.
UpsertRaises(r) ==
    /\ call[r] = "sync" /\ (~open \/ "db" \in Faults)
    /\ call' = [call EXCEPT ![r] = "raised"]
    /\ UNCHANGED <<queue, open, q, stop, pc, batch, closing, accepted, written, lost, processed,
                   direct, early, timedOut>>

\* queue.Queue(maxsize): not Full
Room == Len(q) < MaxSize

\* ... and otherwise reads the attribute again to put: None has no put.
Put(r) ==
    /\ call[r] = "put"
    /\ \/ /\ ~queue
          /\ call' = [call EXCEPT ![r] = "raised"]
          /\ UNCHANGED <<q, accepted, early>>
       \/ /\ queue /\ Room
          /\ call' = [call EXCEPT ![r] = "done"]
          /\ q' = Append(q, r)
          /\ accepted' = accepted \cup {r}
          /\ early' = IF stop THEN early ELSE early \cup {r}
       \/ /\ queue /\ ~Room
          /\ call' = [call EXCEPT ![r] = "dropped"]
          /\ UNCHANGED <<q, accepted, early>>
    /\ UNCHANGED <<queue, open, stop, pc, batch, closing, written, lost, processed, direct, timedOut>>

-----------------------------------------------------------------------------
(* The worker. *)

Goto(t, l) == pc' = [pc EXCEPT ![t] = l]

\* Fault: the batch in hand is forgotten at the end of the loop.
EndAtOnce == "idle"

\* After the loop: the batch in hand, then one by one what is still queued.
AfterLoop == IF batch["worker"] # {} THEN "lastFlush" ELSE "drain"

\* while not self._stop_event.is_set()
Loop ==
    /\ pc["worker"] = "loop"
    /\ Goto("worker", IF stop THEN AfterLoop ELSE "get")
    /\ UNCHANGED <<queue, open, q, stop, batch, closing, call, accepted, written, lost, processed,
                   direct, early, timedOut>>

\* A record moves from the queue to the batch of a thread.
Take(t) ==
    /\ q # <<>>
    /\ q' = Tail(q)
    /\ batch' = [batch EXCEPT ![t] = @ \cup {Head(q)}]

\* Fault: a batch is flushed only once it is full.
NeverLate == FALSE

\* now >= batch_deadline
Late == TRUE

\* get: the batch is flushed when it is full, or when its deadline has passed.
Get ==
    /\ pc["worker"] = "get"
    /\ Take("worker")
    /\ \/ Cardinality(batch'["worker"]) < BatchSize /\ Goto("worker", "loop")
       \/ (Cardinality(batch'["worker"]) >= BatchSize \/ Late) /\ Goto("worker", "flush")
    /\ UNCHANGED <<queue, open, stop, closing, call, accepted, written, lost, processed, direct,
                   early, timedOut>>

\* get timed out.
GetEmpty ==
    /\ pc["worker"] = "get" /\ q = <<>>
    /\ Goto("worker", IF batch["worker"] # {} /\ Late THEN "flush" ELSE "loop")
    /\ UNCHANGED <<queue, open, q, stop, batch, closing, call, accepted, written, lost, processed,
                   direct, early, timedOut>>

\* The final drain.
Drain ==
    /\ pc["worker"] = "drain"
    /\ \/ Take("worker") /\ Goto("worker", "drainFlush")
       \/ q = <<>> /\ Goto("worker", "idle") /\ UNCHANGED <<q, batch>>
    /\ UNCHANGED <<queue, open, stop, closing, call, accepted, written, lost, processed, direct,
                   early, timedOut>>

\* flush_now, on the caller's thread: everything queued, in one batch.
FlushNow ==
    /\ pc["flusher"] = "idle" /\ queue
    /\ Goto("flusher", "take")
    /\ UNCHANGED <<queue, open, q, stop, batch, closing, call, accepted, written, lost, processed,
                   direct, early, timedOut>>

FlushNowTake ==
    /\ pc["flusher"] = "take"
    /\ \/ Take("flusher") /\ UNCHANGED pc
       \/ /\ q = <<>> /\ UNCHANGED <<q, batch>>
          /\ Goto("flusher", IF batch["flusher"] # {} THEN "takeFlush" ELSE "idle")
    /\ UNCHANGED <<queue, open, stop, closing, call, accepted, written, lost, processed, direct,
                   early, timedOut>>

AfterFlush == [flush |-> "loop", lastFlush |-> "drain", drainFlush |-> "drain", takeFlush |-> "idle"]

\* Fault: the batch is not reset after the flush.
KeepBatch(t) == batch

\* batch = []
EmptyBatch(t) == [batch EXCEPT ![t] = {}]

\* Fault: a flush counts once, however many records it has.
CountFlush(t) == processed + 1

\* self._processed += len(batch)
Counted(t) == processed + Cardinality(batch[t])

\* _safe_flush; _flush_write_batch; upsert_anime_batch: the records that fail, or
\* are rolled back with one that does (any subset: only the last record of a
\* pinned batch commits), are counted as processed too; all of them once the
\* database is gone.
Flush(t) ==
    /\ pc[t] \in DOMAIN AfterFlush
    /\ \E failed \in SUBSET batch[t] :
          /\ failed # {} => "db" \in Faults \/ ~open
          /\ ~open => failed = batch[t]
          /\ written' = written \cup (batch[t] \ failed)
          /\ lost' = lost \cup failed
    /\ processed' = Counted(t)
    /\ batch' = EmptyBatch(t)
    /\ Goto(t, AfterFlush[pc[t]])
    /\ UNCHANGED <<queue, open, q, stop, closing, call, accepted, direct, early, timedOut>>

-----------------------------------------------------------------------------
(* close. *)

\* stop(drain=True): the event is set; without a queue the database goes at once.
Close ==
    /\ closing = "open"
    /\ IF queue THEN stop' = TRUE /\ closing' = "joining"
                ELSE closing' = "release" /\ UNCHANGED stop
    /\ UNCHANGED <<queue, open, q, pc, batch, call, accepted, written, lost, processed, direct,
                   early, timedOut>>

\* worker.join(timeout=5.0), then _write_queue = None.
Joined ==
    /\ closing = "joining"
    /\ pc["worker"] = "idle" \/ "slow" \in Faults
    /\ closing' = "release" /\ queue' = FALSE
    /\ timedOut' = (pc["worker"] # "idle")
    /\ UNCHANGED <<open, q, stop, pc, batch, call, accepted, written, lost, processed, direct, early>>

\* self._database.close()
Release ==
    /\ closing = "release"
    /\ closing' = "closed" /\ open' = FALSE
    /\ UNCHANGED <<queue, q, stop, pc, batch, call, accepted, written, lost, processed, direct,
                   early, timedOut>>

-----------------------------------------------------------------------------
Worker == Loop \/ Get \/ GetEmpty \/ Drain \/ Flush("worker")
Next ==
    \/ Enable \/ Close \/ Joined \/ Release
    \/ \E r \in Record : Enqueue(r) \/ Upsert(r) \/ UpsertRaises(r) \/ Put(r)
    \/ Worker
    \/ FlushNow \/ FlushNowTake \/ Flush("flusher")

Spec == Init /\ [][Next]_vars

\* The worker is a thread of its own that never waits without a timeout; flush_now
\* runs to its end.  Nobody has to enqueue, or to close.
FairSpec == Spec /\ WF_vars(Worker) /\ WF_vars(FlushNowTake \/ Flush("flusher"))

-----------------------------------------------------------------------------
(* Properties. *)

\* The queue is an implementation of the write path's promise: records are
\* taken on at most once, settled at most once, never made up, although the
\* worker and flush_now empty the same queue.
Buffer == INSTANCE WriteBuffer WITH
    Record <- Record, accepted <- accepted, written <- written, lost <- lost
Promise == Buffer!Spec

\* Every record taken on through the queue is in it, in the hands of one
\* thread, or was counted as processed: stats() adds up at any moment, and no
\* two threads ever hold the same record.
Accounted ==
    /\ processed + Len(q) + Cardinality(batch["worker"]) + Cardinality(batch["flusher"])
         = Cardinality(accepted \ direct)
    /\ (accepted \ direct) \ (written \cup lost)
         = Range(q) \cup batch["worker"] \cup batch["flusher"]

\* close drains: unless its join timed out, what was accepted before close
\* began is settled, or in the hands of a flush_now, before the connection goes.
DrainedBeforeRelease ==
    closing \in {"release", "closed"} /\ ~timedOut =>
        early \subseteq written \cup lost \cup batch["flusher"]

\* A record accepted before close is settled in the end: the deadline of a
\* batch that never fills up, and the drain after the loop, see to it.
Settles == \A r \in Record : r \in early ~> r \in written \cup lost
============================================================================
