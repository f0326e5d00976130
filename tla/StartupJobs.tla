---------------------------- MODULE StartupJobs ----------------------------
(***************************************************************************)
(* application/services/startup_jobs.py: the startup pipeline in its       *)
(* background thread and the schedule loop with its daily refresh.  The    *)
(* auto-download loop is started, stopped and paced by a copy of the same  *)
(* code, around a pass that shares nothing with the rest; it is left out.  *)
(*                                                                         *)
(* Settings (lastSchedule, startup_migrations) and tables outlive the      *)
(* process, everything else is lost in a crash.  lastSchedule and the      *)
(* clock are one flag: whether a fetch is due.  A sleep or settle may end  *)
(* at any time.  The torrent jobs of the pipeline act on state that is     *)
(* described in TorrentSession; here a phase of them is a step.             *)
(***************************************************************************)
EXTENDS Integers, Sequences, FiniteSets

CONSTANTS
    Rows,        \* rows of the anime table with an ordinal date
    Airing,      \* those whose show has not ended when the model starts
    Slots,       \* loop threads of a kind that can exist at once
    Caller,      \* threads that start the loop (bootstrap, the HTTP lifespan)
    Batch,       \* _DATE_REPAIR_BATCH_SIZE
    MaxRuns, MaxFaults, MaxCrashes, MaxStops

ASSUME JobsBounds ==
    /\ Batch \in Nat \ {0} /\ Slots \in Nat \ {0} /\ Rows \in Nat /\ Airing \subseteq 1..Rows
    /\ MaxRuns \in Nat /\ MaxFaults \in Nat /\ MaxCrashes \in Nat /\ MaxStops \in Nat

Status == <<"UPCOMING", "AIRING", "FINISHED">>
Stage == 1..3
Row == 1..Rows
None == "none"
NoSlot == 0
Slot == 1..Slots

\* _jobs: the date migration, then the other jobs of both phases as one.
Jobs == <<"repair_date_from", "others">>

VARIABLES
    running,    \* _running
    pipe,       \* the thread AM-StartupJobs
    job,        \* the job it is at
    todo,       \* _job_repair_date_from: rows scanned and not looked at
    pending,    \* its pending batch
    loop,       \* the threads AM-ScheduleRefresh
    thread,     \* _schedule_loop_thread
    stopEv,     \* _schedule_loop_stop
    caller,     \* callers about to create the thread
    due,        \* _should_fetch_schedule
    migrated,   \* startup_migrations["repair_date_from"]
    ordinal,    \* rows whose dates are still ordinals
    status,     \* the status column, as an index of Status
    airs,       \* the status that follows from the dates and the clock
    online,     \* some provider answers
    runs, faults, crashes, stops,  \* bounds
    undone      \* rows whose last flush, since the last scan, raised or was rolled back (history)

service == <<running, pipe, job, todo, pending, loop, thread, stopEv, caller>>
stored == <<due, migrated, ordinal, status>>
world == <<airs, online, runs, faults, crashes, stops>>
vars == <<service, stored, world, undone>>

PipePc == {None, "enter", "jobs", "repair"}
LoopPc == {None, "delay", "top", "enter", "fetch", "update", "leave", "after", "sleep"}

TypeOK ==
    /\ running \in BOOLEAN /\ pipe \in PipePc /\ job \in 1..(Len(Jobs) + 1)
    /\ todo \subseteq Row /\ pending \subseteq Row /\ Cardinality(pending) <= Cardinality(Row)
    /\ loop \in [Slot -> LoopPc] /\ thread \in 0..Slots
    /\ stopEv \in BOOLEAN /\ caller \subseteq Caller
    /\ due \in BOOLEAN /\ migrated \in BOOLEAN /\ ordinal \subseteq Row
    /\ status \in [Row -> Stage] /\ airs \in [Row -> Stage] /\ online \in BOOLEAN
    /\ \A r \in Row : status[r] <= airs[r]
    /\ runs \in 0..MaxRuns /\ faults \in 0..MaxFaults /\ crashes \in 0..MaxCrashes
    /\ stops \in 0..MaxStops /\ undone \subseteq Row

NoThread == [s \in Slot |-> None]

Init ==
    /\ running = FALSE /\ pipe = None /\ job = 1 /\ todo = {} /\ pending = {}
    /\ loop = NoThread /\ thread = NoSlot
    /\ stopEv = FALSE /\ caller = {}
    /\ due = TRUE /\ migrated = FALSE /\ ordinal = Row
    /\ airs = [r \in Row |-> IF r \in Airing THEN 1 ELSE 3] /\ status = airs
    /\ online = TRUE /\ runs = 0 /\ faults = 0 /\ crashes = 0 /\ stops = 0
    /\ undone = {}

-----------------------------------------------------------------------------
(* The world. *)

\* A day passes: the next fetch is due, shows start or end.
Day ==
    /\ due' = TRUE
    /\ \E rs \in SUBSET {r \in Row : airs[r] < 3} :
           airs' = [r \in Row |-> IF r \in rs THEN airs[r] + 1 ELSE airs[r]]
    /\ UNCHANGED <<service, migrated, ordinal, status, online, runs, faults, crashes, stops, undone>>

\* The providers go away and come back.
Outage ==
    /\ online /\ faults < MaxFaults /\ faults' = faults + 1
    /\ online' = FALSE
    /\ UNCHANGED <<service, stored, airs, runs, crashes, stops, undone>>

Recovery ==
    /\ ~online /\ online' = TRUE
    /\ UNCHANGED <<service, stored, airs, runs, faults, crashes, stops, undone>>

\* The process dies and is started again.
Crash ==
    /\ crashes < MaxCrashes /\ crashes' = crashes + 1
    /\ running' = FALSE /\ pipe' = None /\ job' = 1 /\ todo' = {} /\ pending' = {}
    /\ loop' = NoThread /\ thread' = NoSlot
    /\ stopEv' = FALSE /\ caller' = {}
    /\ UNCHANGED <<stored, airs, online, runs, faults, stops, undone>>

\* A statement or commit fails: one of a bounded number of times.
Fault == faults < MaxFaults /\ faults' = faults + 1
NoFault == UNCHANGED faults

-----------------------------------------------------------------------------
(* run, run_in_background. *)

RunInBackground ==
    /\ pipe = None /\ runs < MaxRuns /\ runs' = runs + 1
    /\ pipe' = "enter"
    /\ UNCHANGED <<running, job, todo, pending, loop, thread, stopEv, caller, stored, airs, online,
                   faults, crashes, stops, undone>>

\* Fault: a second run does not notice the first.
NobodyRuns == FALSE

\* if self._running: return self._last_report
SomebodyRuns == running

PipeEnter ==
    /\ pipe = "enter"
    /\ IF SomebodyRuns
         THEN pipe' = None /\ UNCHANGED <<running, job>>
         ELSE pipe' = "jobs" /\ running' = TRUE /\ job' = 1
    /\ UNCHANGED <<todo, pending, loop, thread, stopEv, caller, stored, world, undone>>

\* _job_repair_date_from begins: skipped, nothing to do, or rows to convert.
RepairScan ==
    /\ pipe = "jobs" /\ job = 1
    /\ \/ migrated /\ job' = 2 /\ UNCHANGED <<pipe, todo, pending, migrated, faults, undone>>
       \/ /\ ~migrated /\ ordinal = {} /\ NoFault
          /\ migrated' = TRUE /\ job' = 2 /\ UNCHANGED <<pipe, todo, pending, undone>>
       \/ /\ ~migrated /\ ordinal # {} /\ NoFault
          /\ todo' = ordinal /\ pending' = {} /\ undone' = {}
          /\ pipe' = "repair" /\ UNCHANGED <<job, migrated>>
       \/ \* the scan raises: the job failed, the pipeline goes on
          /\ ~migrated /\ Fault
          /\ job' = 2 /\ UNCHANGED <<pipe, todo, pending, migrated, undone>>
    /\ UNCHANGED <<running, loop, thread, stopEv, caller, due, ordinal, status, airs, online, runs,
                   crashes, stops>>

\* _flush_repairs, undisturbed, or with a statement that fails: the rollback takes
\* the rows before it along (and on a connection that broke, which is unpinned,
\* the rows after it as well), while the retry repeats this statement only.  What
\* another thread on the pinned connection commits or rolls back adds to that, so
\* any part of the batch may be kept.  The flush returns as if nothing had been
\* lost, or, after too many retries, raises: then the batch stays pending and is
\* tried again with the next row.
FlushRepairs(batch, raised) ==
    \/ /\ NoFault /\ ~raised
       /\ ordinal' = ordinal \ batch /\ undone' = undone \ batch
    \/ /\ Fault
       /\ \E kept \in SUBSET batch :
             ordinal' = ordinal \ kept /\ undone' = (undone \cup batch) \ kept

\* One scanned row joins the batch, in the order of the scan.
RepairRow(r) ==
    LET batch == pending \cup {r} IN
    /\ pipe = "repair" /\ r \in todo /\ \A t \in todo : r <= t
    /\ todo' = todo \ {r}
    /\ IF Cardinality(batch) >= Batch
         THEN \/ FlushRepairs(batch, FALSE) /\ pending' = {}
              \/ FlushRepairs(batch, TRUE) /\ pending' = batch
         ELSE pending' = batch /\ UNCHANGED <<ordinal, faults, undone>>
    /\ UNCHANGED <<running, pipe, job, loop, thread, stopEv, caller, due, migrated, status, airs,
                   online, runs, crashes, stops>>

\* Fault: only full batches are flushed.
NothingLeft == {}

\* What is pending after the last row.
LeftOver == pending

\* The rest is flushed, and whatever became of it the migration is marked done.
RepairEnd ==
    /\ pipe = "repair" /\ todo = {}
    /\ IF LeftOver # {} THEN \E raised \in BOOLEAN : FlushRepairs(LeftOver, raised)
                        ELSE UNCHANGED <<ordinal, faults, undone>>
    /\ pending' = {} /\ migrated' = TRUE
    /\ pipe' = "jobs" /\ job' = 2
    /\ UNCHANGED <<running, todo, loop, thread, stopEv, caller, due, status, airs, online, runs,
                   crashes, stops>>

\* _run_phase, _run_one: a job that raises is reported, and the next one runs.
OtherJob ==
    /\ pipe = "jobs" /\ job \in 2..Len(Jobs)
    /\ job' = job + 1
    /\ UNCHANGED <<running, pipe, todo, pending, loop, thread, stopEv, caller, stored, world, undone>>

\* finally
PipeLeave ==
    /\ pipe = "jobs" /\ job = Len(Jobs) + 1
    /\ running' = FALSE /\ pipe' = None
    /\ UNCHANGED <<job, todo, pending, loop, thread, stopEv, caller, stored, world, undone>>

-----------------------------------------------------------------------------
(* start_schedule_loop, stop_schedule_loop. *)

\* is_alive
ThreadAlive == thread # NoSlot /\ loop[thread] # None

\* Under the lock: a live thread is returned, whatever the stop event says.
StartCheck(c) ==
    /\ c \notin caller /\ ~ThreadAlive
    /\ stopEv' = FALSE
    /\ caller' = caller \cup {c}
    /\ UNCHANGED <<running, pipe, job, todo, pending, loop, thread, stored, world, undone>>

\* The thread is created after the lock is released.
StartThread(c, s) ==
    /\ c \in caller /\ loop[s] = None
    /\ \A t \in 1..(s - 1) : loop[t] # None
    /\ loop' = [loop EXCEPT ![s] = "delay"]
    /\ thread' = s
    /\ caller' = caller \ {c}
    /\ UNCHANGED <<running, pipe, job, todo, pending, stopEv, stored, world, undone>>

\* The join may time out: it changes nothing.
Stop ==
    /\ stops < MaxStops /\ stops' = stops + 1
    /\ stopEv' = TRUE
    /\ UNCHANGED <<running, pipe, job, todo, pending, loop, thread, caller, stored, airs, online,
                   runs, faults, crashes, undone>>

-----------------------------------------------------------------------------
(* _schedule_loop_worker. *)

LoopGoto(s, from, to) == loop[s] = from /\ loop' = [loop EXCEPT ![s] = to]
LoopOnly == UNCHANGED <<running, pipe, job, todo, pending, thread, stopEv, caller, stored, world, undone>>

\* Fault: the event is not looked at.
Deaf == FALSE

\* Event.is_set, Event.wait
Stopped == stopEv

\* The startup delay, the loop's condition, after a refresh, after the sleep.
LoopDelay(s) == LoopGoto(s, "delay", IF Stopped THEN None ELSE "top") /\ LoopOnly
LoopTop(s) == LoopGoto(s, "top", IF Stopped THEN None ELSE "enter") /\ LoopOnly
LoopAfter(s) == LoopGoto(s, "after", IF Stopped THEN None ELSE "sleep") /\ LoopOnly
LoopWake(s) == LoopGoto(s, "sleep", IF Stopped THEN None ELSE "top") /\ LoopOnly

-----------------------------------------------------------------------------
(* run_schedule_refresh. *)

RefreshEnter(s) ==
    /\ LoopGoto(s, "enter", IF SomebodyRuns THEN "after" ELSE "fetch")
    /\ running' = TRUE
    /\ UNCHANGED <<pipe, job, todo, pending, thread, stopEv, caller, stored, world, undone>>

\* _job_fetch_latest, if a fetch is due: records may all be filtered out or fail
\* to persist ("Never stamp lastSchedule unless something landed in the DB").
Fetch(s) ==
    /\ LoopGoto(s, "fetch", "update")
    /\ \/ ~due /\ UNCHANGED <<due, faults>>
       \/ due /\ online /\ NoFault /\ due' = FALSE
       \/ due /\ ~online /\ UNCHANGED <<due, faults>>
       \/ due /\ online /\ Fault /\ UNCHANGED due
    /\ UNCHANGED <<running, pipe, job, todo, pending, thread, stopEv, caller, migrated, ordinal,
                   status, airs, online, runs, crashes, stops, undone>>

\* The rows _job_update_status moves: UPCOMING rows that have started, to where
\* they are now, then AIRING rows that have ended.
Started(n) == {r \in Row : status[r] = 1 /\ airs[r] = n}
Moved(n) == Started(n) \cup (IF n = 3 THEN {r \in Row : status[r] = 2 /\ airs[r] = 3} ELSE {})
Transitions == {n \in {2, 3} : Moved(n) # {}}

\* Fault: none of the statements commits.
NoneSaved == {}

\* save=(idx == last): the statement per status runs on a pool connection of its
\* own, and only the last status in the dict commits.
Saved == {n \in Transitions : n = 3 \/ Started(3) # {} \/ Moved(3) = {}}

\* _job_update_status
UpdateStatus(s) ==
    /\ LoopGoto(s, "update", "leave")
    /\ \/ /\ Transitions # {} /\ NoFault
          /\ IF Saved = {} THEN UNCHANGED status
             ELSE \E n \in Saved : status' = [r \in Row |-> IF r \in Moved(n) THEN n ELSE status[r]]
       \/ Transitions = {} /\ NoFault /\ UNCHANGED status
       \/ Transitions # {} /\ Fault /\ UNCHANGED status
    /\ UNCHANGED <<running, pipe, job, todo, pending, thread, stopEv, caller, due, migrated, ordinal,
                   airs, online, runs, crashes, stops, undone>>

\* Fault: the flag is not reset.
KeepRunning == running

\* self._running = False
NotRunning == FALSE

\* finally
RefreshLeave(s) ==
    /\ LoopGoto(s, "leave", "after")
    /\ running' = NotRunning
    /\ UNCHANGED <<pipe, job, todo, pending, thread, stopEv, caller, stored, world, undone>>

-----------------------------------------------------------------------------
Pipeline == PipeEnter \/ RepairScan \/ (\E r \in Row : RepairRow(r)) \/ RepairEnd \/ OtherJob \/ PipeLeave
LoopStep(s) ==
    \/ LoopDelay(s) \/ LoopTop(s) \/ LoopAfter(s) \/ LoopWake(s)
    \/ RefreshEnter(s) \/ Fetch(s) \/ UpdateStatus(s) \/ RefreshLeave(s)

Next ==
    \/ RunInBackground \/ Pipeline
    \/ \E c \in Caller : StartCheck(c) \/ \E s \in Slot : StartThread(c, s)
    \/ Stop \/ \E s \in Slot : LoopStep(s)
    \/ Day \/ Outage \/ Recovery \/ Crash

Spec == Init /\ [][Next]_vars

\* Threads that exist are scheduled, every settle and sleep is bounded
\* (_SCHEDULE_SLEEP_MAX_S), and providers do not stay away for ever.  Nobody has
\* to start or stop anything.
FairSpec ==
    /\ Spec
    /\ WF_vars(Pipeline) /\ WF_vars(Recovery)
    /\ \A s \in Slot : WF_vars(LoopStep(s))

-----------------------------------------------------------------------------
(* Properties. *)

\* "a second concurrent invocation would race against the API/DB collaborators"
\* (startup_jobs.py:188): the pipeline and a refresh never run their jobs at once.
Refreshing == {s \in Slot : loop[s] \in {"fetch", "update", "leave"}}
JobsExclusive ==
    Cardinality(Refreshing) + (IF pipe \in {"jobs", "repair"} THEN 1 ELSE 0) <= 1

\* The migration is marked done whatever became of its batches; every row it left
\* with an ordinal date was flushed since the last scan, by a flush that raised or
\* had its work rolled back.  No row is skipped: not one left over by the batch
\* size, one of a batch that was pending, or one of a run that died half-way.
MigrationComplete == migrated => ordinal \subseteq undone

\* A fetch that is due is made in the end, for as long as the loop is there:
\* refreshes that were turned away by the pipeline, failed or found the
\* providers offline are tried again.
LoopGone == \A s \in Slot : loop[s] = None
FetchedInTheEnd == due ~> (~due \/ LoopGone)

\* Statuses catch up with the calendar although only the last statement of a
\* refresh commits: what the others changed is found again by the next one.
StatusCatchesUp == \A r \in Airing : (status[r] < 3 /\ airs[r] = 3) ~> (status[r] = 3 \/ LoopGone)

\* A stop that is not taken back ends the loop, wherever the thread is.
StopIsHeard == stopEv ~> (~stopEv \/ LoopGone)
============================================================================
