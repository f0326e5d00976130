----------------------- MODULE DownloadManagerProofs -----------------------
(***************************************************************************)
(* Machine-checked proofs about DownloadManager, for every set of anime,   *)
(* hashes, tasks and callers and every number of workers: the type         *)
(* invariant, ReservationBacked, PanelSound, LiveIndexed, CancelHonoured   *)
(* and, where nothing lets go of a reservation early, SingleFlight.        *)
(*                                                                         *)
(* None of the five is inductive.  IndInv adds what they rest on: where    *)
(* the queue, the pool and the processor keep a task, what a task's status *)
(* queue holds at each point of its life, what the locals of a call may be *)
(* at each point of the call, and that a worker which has saved a torrent  *)
(* has it indexed.                                                         *)
(***************************************************************************)
EXTENDS DownloadManager, SequenceTheorems, TLAPS

\* A task that exists has an anime and a torrent; its hash, once known, is
\* the torrent's.
TaskInv ==
    \A t \in Task : tpc[t] # "new" =>
        anime[t] \in Anime /\ found[t] \in Hash /\ hash[t] \in {None, found[t]}

\* A sequence of distinct tasks that are all at pc.
Holds(s, pc) ==
    \A i \in 1..Len(s) :
        /\ tpc[s[i]] = pc
        /\ \A j \in 1..Len(s) : s[i] = s[j] => i = j

QueueInv == Holds(queue, "queued")
PoolInv == Holds(pool, "submitted")

\* The processor holds the task it took from the queue.
ProcInv ==
    /\ ppc \in {"read", "check"} => ptask \in Task /\ tpc[ptask] = "picked"
    /\ ppc = "submit" => ptask \in Task /\ tpc[ptask] = "checked"

\* What has been put on a task's status queue.
StatusInv ==
    \A t \in Task :
        /\ tpc[t] \in Waiting \cup {"new", "begin", "start"} => status[t] = <<>>
        /\ tpc[t] \in {"prepare", "check", "save", "lookup", "add"} => status[t] = <<True>>
        /\ tpc[t] = "succeed" => status[t] = <<True, True>>

\* States in which a task may be shown by the panel.
Shown == {"start", "prepare", "check", "save", "lookup", "add", "succeed", "fail"}

PanelInv ==
    \A a \in Anime : active[a] # None =>
        /\ anime[active[a]] = a
        /\ active[a] \notin cancelled
        /\ \/ tpc[active[a]] \in Shown
           \/ tpc[active[a]] = "done" /\ status[active[a]] = <<True, True>>

\* Points of a call at which its hash, or its anime, is known.
HashKnown == {"enqRead", "enqClear", "enqDup", "enqLive", "enqIndex", "enqPut",
              "canDrop", "canMark", "inFlight", "dbhMap", "delOwn", "delPeek",
              "delMark", "cplRead", "cplWrite"}
AnimeKnown == {"enqRead", "enqClear", "enqDup", "enqLive", "enqIndex", "enqPut",
               "canPop"}

\* The task between its pop and its cancel() has left the panel for good.
CallerInv ==
    \A c \in Caller :
        /\ cpc[c] \in HashKnown => req[c].hash \in Hash
        /\ cpc[c] \in AnimeKnown => req[c].anime \in Anime
        /\ cpc[c] = "canFlag" =>
              /\ req[c].task \in Task
              /\ tpc[req[c].task] \in Shown \cup {"done"}
              /\ \A a \in Anime : active[a] # req[c].task

\* Until close() the executor accepts work and reservations are backed.
OpenInv ==
    /\ ~stopping => executor
    /\ \A c \in Caller : cpc[c] \in {"clsClear", "clsShut"} => stopping
    /\ ReservationBacked

IndexInv ==
    /\ LiveIndexed
    /\ \A t \in Task : tpc[t] \in {"lookup", "add"} =>
          row[found[t]] # "absent" /\ <<anime[t], found[t]>> \in index

IndInv == /\ TypeOK /\ TaskInv /\ QueueInv /\ PoolInv /\ ProcInv /\ StatusInv
          /\ PanelInv /\ CallerInv /\ OpenInv /\ IndexInv

-----------------------------------------------------------------------------
(* Sequences. *)

\* The head and the tail of a nonempty queue.
LEMMA HeadTail ==
    ASSUME NEW S, NEW s \in Seq(S), s # <<>>
    PROVE  /\ Head(s) = s[1] /\ Head(s) \in S
           /\ Len(s) \in Nat /\ Len(s) >= 1
           /\ Tail(s) \in Seq(S) /\ Len(Tail(s)) = Len(s) - 1
           /\ \A i \in 1..Len(Tail(s)) : Tail(s)[i] = s[i + 1]
  OBVIOUS

\* A queue with one more element.
LEMMA AppendAt ==
    ASSUME NEW S, NEW s \in Seq(S), NEW e \in S
    PROVE  /\ Append(s, e) \in Seq(S)
           /\ Len(s) \in Nat /\ Len(Append(s, e)) = Len(s) + 1
           /\ \A i \in 1..Len(s) : Append(s, e)[i] = s[i]
           /\ Append(s, e)[Len(s) + 1] = e
  OBVIOUS

\* What put() makes of a status queue with no value, and with one.
LEMMA AppendStatus ==
    ASSUME NEW u, NEW v
    PROVE  /\ Append(<<>>, v) = <<v>>
           /\ Append(<<u>>, v) = <<u, v>>
<1>1. Append(<<>>, v) = <<v>>
  OBVIOUS
<1>2. /\ Append(<<u>>, v) \in Seq({u, v}) /\ Len(Append(<<u>>, v)) = 2
      /\ Append(<<u>>, v)[1] = u /\ Append(<<u>>, v)[2] = v
  OBVIOUS
<1>3. <<u, v>> \in Seq({u, v}) /\ Len(<<u, v>>) = 2
  OBVIOUS
<1>4. \A i \in 1..Len(Append(<<u>>, v)) : Append(<<u>>, v)[i] = <<u, v>>[i]
  BY <1>2, <1>3
<1>5. Append(<<u>>, v) = <<u, v>>
  BY <1>2, <1>3, <1>4, SeqEqual
<1> QED
  BY <1>1, <1>5

\* Every status queue the code can build.
LEMMA VerdictSeq == \A u, v \in Verdict : <<u>> \in Seq(Verdict) /\ <<u, v>> \in Seq(Verdict)
  OBVIOUS

\* A status queue is replaced by another.
LEMMA StatusType ==
    ASSUME status \in [Task -> Seq(Verdict)], NEW t \in Task, NEW s \in Seq(Verdict),
           status' = status \/ status' = [status EXCEPT ![t] = s]
    PROVE  status' \in [Task -> Seq(Verdict)]
  OBVIOUS

\* None is not a task, a hash or an anime, and differs from every other name.
USE NoneAssumption DEF None

-----------------------------------------------------------------------------
(* The initial states. *)

\* __init__ establishes the invariant.
LEMMA InitInv == Init => IndInv
<1> SUFFICES ASSUME Init PROVE IndInv
  OBVIOUS
<1>1. TypeOK
  <2>1. queue \in Seq(Task) /\ pool \in Seq(Task)
    BY DEF Init
  <2>5. ManagerType /\ ProcessorType
    BY <2>1 DEF Init, ManagerType, ProcessorType
  <2>2. TaskType
    BY DEF Init, TaskType, TaskState
  <2>3. WorldType
    BY KnownAssumption DEF Init, WorldType
  <2>4. CallerType
    BY DEF Init, CallerType, Request, NoRequest, CallerState
  <2> QED
    BY <2>2, <2>3, <2>4, <2>5 DEF TypeOK
<1>2. TaskInv /\ QueueInv /\ PoolInv /\ ProcInv /\ StatusInv
  BY DEF Init, TaskInv, QueueInv, PoolInv, Holds, ProcInv, StatusInv
<1>3. PanelInv /\ CallerInv
  BY DEF Init, PanelInv, CallerInv, HashKnown, AnimeKnown
<1>4. OpenInv
  BY DEF Init, OpenInv, ReservationBacked
<1>5. IndexInv
  <2>1. PICK owner \in [Known -> Anime] : index = {<<owner[h], h>> : h \in Known}
    BY DEF Init
  <2>2. ASSUME NEW h \in Hash, client[h] # "out"
        PROVE  h \in Known /\ row[h] # "absent"
    BY <2>2 DEF Init
  <2>3. LiveIndexed
    BY <2>1, <2>2 DEF LiveIndexed
  <2> QED
    BY <2>3 DEF Init, IndexInv
<1> QED
  BY <1>1, <1>2, <1>3, <1>4, <1>5 DEF IndInv

\* A step that changes nothing.
LEMMA StutterInv == IndInv /\ UNCHANGED vars => IndInv'
<1> SUFFICES ASSUME IndInv, UNCHANGED vars PROVE IndInv'
  OBVIOUS
<1> USE DEF IndInv, TypeOK, vars, managerVars, taskVars, procVars, worldVars, callerVars
<1>1. TypeOK' /\ TaskInv' /\ ProcInv'
  BY DEF ManagerType, TaskType, ProcessorType, WorldType, CallerType, TaskInv, ProcInv
<1>2. QueueInv' /\ PoolInv' /\ StatusInv'
  BY DEF QueueInv, PoolInv, Holds, StatusInv
<1>3. PanelInv' /\ CallerInv'
  BY DEF PanelInv, CallerInv
<1>4. OpenInv' /\ IndexInv'
  BY DEF OpenInv, ReservationBacked, IndexInv, LiveIndexed
<1> QED
  BY <1>1, <1>2, <1>3, <1>4

-----------------------------------------------------------------------------
(* The processor. *)

\* A step that only moves the processor, to a point where it holds no task.
LEMMA ProcessorMoveInv ==
    ASSUME IndInv, ppc' \in {"loop", "get", "exited"},
           UNCHANGED <<managerVars, taskVars, ptask, worldVars, callerVars>>
    PROVE  IndInv'
<1> USE DEF IndInv, TypeOK, managerVars, taskVars, worldVars, callerVars
<1>1. ManagerType' /\ TaskType' /\ ProcessorType' /\ WorldType' /\ CallerType'
  BY DEF ManagerType, TaskType, ProcessorType, WorldType, CallerType
<1>2. TaskInv' /\ QueueInv' /\ PoolInv'
  BY DEF TaskInv, QueueInv, PoolInv, Holds
<1>3. ProcInv' /\ StatusInv'
  BY DEF ProcInv, StatusInv
<1>4. PanelInv' /\ CallerInv'
  BY DEF PanelInv, CallerInv
<1>5. OpenInv' /\ IndexInv'
  BY DEF OpenInv, ReservationBacked, IndexInv, LiveIndexed
<1> QED
  BY <1>1, <1>2, <1>3, <1>4, <1>5

\* The loop test, and a get that times out.
LEMMA ProcessorLoopInv == IndInv /\ (ProcessorLoop \/ ProcessorTimeout) => IndInv'
  BY ProcessorMoveInv DEF ProcessorLoop, ProcessorTimeout

\* The oldest queued task is taken.
LEMMA ProcessorGetInv == IndInv /\ ProcessorGet => IndInv'
<1> SUFFICES ASSUME IndInv, ProcessorGet PROVE IndInv'
  OBVIOUS
<1> USE DEF IndInv, TypeOK
<1> DEFINE t == Head(queue)
<1>0. /\ t \in Task /\ tpc[t] = "queued" /\ tpc' = [tpc EXCEPT ![t] = "picked"]
      /\ ptask' = t /\ ppc' = "read" /\ queue # <<>> /\ queue' = Tail(queue)
      /\ UNCHANGED <<queuedHashes, cancelledHashes, active, stopping, executor, pool,
                      anime, hash, found, cancelled, status, row, index, client, cpc, req>>
  BY HeadTail DEF ProcessorGet, ManagerType, QueueInv, Holds, worldVars, callerVars
<1> HIDE DEF t
<1>1. ManagerType'
  BY <1>0, HeadTail DEF ManagerType
<1>2. TaskType'
  BY <1>0 DEF TaskType, TaskState, InFlight, Waiting, Running, Early, Late
<1>3. ProcessorType'
  BY <1>0 DEF ProcessorType
<1>4. WorldType'
  BY <1>0 DEF WorldType
<1>5. CallerType'
  BY <1>0 DEF CallerType
<1>6. TaskInv'
  BY <1>0 DEF TaskType, TaskInv
<1>7. QueueInv'
  BY <1>0, HeadTail DEF ManagerType, TaskType, QueueInv, Holds, t
<1>8. PoolInv'
  BY <1>0 DEF ManagerType, TaskType, PoolInv, Holds
<1>9. ProcInv'
  BY <1>0 DEF TaskType, ProcInv
<1>10. StatusInv'
  BY <1>0 DEF TaskType, StatusInv, Waiting
<1>11. PanelInv'
  BY <1>0 DEF ManagerType, TaskType, PanelInv, Shown
<1>12. CallerInv'
  BY <1>0 DEF TaskType, CallerInv, Shown
<1>13. OpenInv'
  BY <1>0 DEF TaskType, OpenInv, ReservationBacked, InFlight, Waiting, Running, Early, Late
<1>14. IndexInv'
  BY <1>0 DEF TaskType, IndexInv, LiveIndexed
<1> QED
  BY <1>1, <1>2, <1>3, <1>4, <1>5, <1>6, <1>7,
     <1>8, <1>9, <1>10, <1>11, <1>12, <1>13, <1>14

\* The executor is read; a closed one loses the task.
LEMMA ProcessorReadInv == IndInv /\ ProcessorRead => IndInv'
<1> SUFFICES ASSUME IndInv, ProcessorRead PROVE IndInv'
  OBVIOUS
<1> USE DEF IndInv, TypeOK
<1>0. /\ ptask \in Task /\ tpc[ptask] = "picked"
      /\ \/ ppc' = "check" /\ UNCHANGED <<tpc, ptask>>
         \/ /\ ~executor /\ ppc' = "loop" /\ ptask' = None
            /\ tpc' = [tpc EXCEPT ![ptask] = "lost"]
      /\ ppc = "read"
      /\ UNCHANGED <<queue, queuedHashes, cancelledHashes, active, stopping, executor,
                      pool, anime, hash, found, cancelled, status, row, index,
                      client, cpc, req>>
  BY DEF ProcessorRead, ProcInv, managerVars, worldVars, callerVars
<1>1. ManagerType'
  BY <1>0 DEF ManagerType
<1>2. TaskType'
  BY <1>0 DEF TaskType, TaskState, InFlight, Waiting, Running, Early, Late
<1>3. ProcessorType'
  BY <1>0 DEF ProcessorType
<1>4. WorldType'
  BY <1>0 DEF WorldType
<1>5. CallerType'
  BY <1>0 DEF CallerType
<1>6. TaskInv'
  BY <1>0 DEF TaskType, TaskInv
<1>7. QueueInv'
  BY <1>0 DEF ManagerType, TaskType, QueueInv, Holds
<1>8. PoolInv'
  BY <1>0 DEF ManagerType, TaskType, PoolInv, Holds
<1>9. ProcInv'
  BY <1>0 DEF TaskType, ProcInv
<1>10. StatusInv'
  BY <1>0 DEF TaskType, StatusInv, Waiting
<1>11. PanelInv'
  BY <1>0 DEF ManagerType, TaskType, PanelInv, Shown
<1>12. CallerInv'
  BY <1>0 DEF TaskType, CallerInv, Shown
<1>13. OpenInv'
  BY <1>0 DEF TaskType, OpenInv, ReservationBacked, InFlight, Waiting, Running, Early, Late
<1>14. IndexInv'
  BY <1>0 DEF TaskType, IndexInv, LiveIndexed
<1> QED
  BY <1>1, <1>2, <1>3, <1>4, <1>5, <1>6, <1>7,
     <1>8, <1>9, <1>10, <1>11, <1>12, <1>13, <1>14

\* A cancelled task is answered, any other kept.
LEMMA ProcessorCheckInv == IndInv /\ ProcessorCheck => IndInv'
<1> SUFFICES ASSUME IndInv, ProcessorCheck PROVE IndInv'
  OBVIOUS
<1> USE DEF IndInv, TypeOK
<1>0. /\ ptask \in Task /\ tpc[ptask] = "picked" /\ status[ptask] = <<>>
      /\ \/ /\ queuedHashes' = queuedHashes \ {hash[ptask]}
            /\ cancelledHashes' = cancelledHashes \ {hash[ptask]}
            /\ status' = [status EXCEPT ![ptask] = <<False>>]
            /\ tpc' = [tpc EXCEPT ![ptask] = "done"]
            /\ ppc' = "loop" /\ ptask' = None
         \/ /\ ppc' = "submit" /\ tpc' = [tpc EXCEPT ![ptask] = "checked"]
            /\ UNCHANGED <<queuedHashes, cancelledHashes, status, ptask>>
      /\ UNCHANGED <<queue, active, stopping, executor, pool, anime, hash, found,
                      cancelled, row, index, client, cpc, req>>
  BY AppendStatus DEF ProcessorCheck, ProcInv, StatusInv, TaskType, Waiting, PutStatus,
       Release,
         worldVars, callerVars
<1>1. ManagerType'
  BY <1>0 DEF ManagerType
<1>2. TaskType'
  <2>1. <<False>> \in Seq(Verdict)
    BY VerdictSeq DEF Verdict
  <2>2. status' \in [Task -> Seq(Verdict)]
    BY <1>0, <2>1, StatusType DEF TaskType
  <2>3. tpc' \in [Task -> TaskState]
    BY <1>0 DEF TaskType, TaskState, InFlight, Waiting
  <2> QED
    BY <1>0, <2>2, <2>3 DEF TaskType
<1>3. ProcessorType'
  BY <1>0 DEF ProcessorType
<1>4. WorldType'
  BY <1>0 DEF WorldType
<1>5. CallerType'
  BY <1>0 DEF CallerType
<1>6. TaskInv'
  BY <1>0 DEF TaskType, TaskInv
<1>7. QueueInv'
  BY <1>0 DEF ManagerType, TaskType, QueueInv, Holds
<1>8. PoolInv'
  BY <1>0 DEF ManagerType, TaskType, PoolInv, Holds
<1>9. ProcInv'
  BY <1>0 DEF TaskType, ProcInv
<1>10. StatusInv'
  BY <1>0 DEF TaskType, StatusInv, Waiting
<1>11. PanelInv'
  <2>0. ptask \in Task /\ tpc[ptask] \notin Shown \cup {"done"}
    BY <1>0 DEF Shown
  <2>1. \A a \in Anime : active[a] # ptask
    BY <2>0 DEF PanelInv
  <2>2. \A a \in Anime : active'[a] # None =>
            tpc'[active'[a]] = tpc[active[a]] /\ status'[active'[a]] = status[active[a]]
    BY <1>0, <2>1 DEF ManagerType, TaskType
  <2> QED
    BY <1>0, <2>2 DEF PanelInv
<1>12. CallerInv'
  <2>1. \A c \in Caller : cpc[c] = "canFlag" => req[c].task # ptask
    BY <1>0 DEF CallerInv, Shown
  <2>2. \A u \in Task \ {ptask} : tpc'[u] = tpc[u]
    BY <1>0 DEF TaskType
  <2> QED
    BY <1>0, <2>1, <2>2 DEF CallerInv
<1>13. OpenInv'
  <2>1. CASE UNCHANGED queuedHashes
    BY <1>0, <2>1 DEF TaskType, OpenInv, ReservationBacked, InFlight, Waiting
  <2>2. CASE queuedHashes' = queuedHashes \ {hash[ptask]}
    BY <1>0, <2>2 DEF TaskType, OpenInv, ReservationBacked, InFlight, Waiting
  <2> QED
    BY <1>0, <2>1, <2>2
<1>14. IndexInv'
  BY <1>0 DEF TaskType, IndexInv, LiveIndexed
<1> QED
  BY <1>1, <1>2, <1>3, <1>4, <1>5, <1>6, <1>7,
     <1>8, <1>9, <1>10, <1>11, <1>12, <1>13, <1>14

\* A task goes to the pool, or is lost when the executor is gone.
LEMMA ProcessorSubmitInv == IndInv /\ ProcessorSubmit => IndInv'
<1> SUFFICES ASSUME IndInv, ProcessorSubmit PROVE IndInv'
  OBVIOUS
<1> USE DEF IndInv, TypeOK
<1>0. /\ ptask \in Task /\ tpc[ptask] = "checked"
      /\ \/ pool' = Append(pool, ptask) /\ tpc' = [tpc EXCEPT ![ptask] = "submitted"]
         \/ ~executor /\ pool' = pool /\ tpc' = [tpc EXCEPT ![ptask] = "lost"]
      /\ ppc' = "loop" /\ ptask' = None
      /\ UNCHANGED <<queue, queuedHashes, cancelledHashes, active, stopping, executor,
                      anime, hash, found, cancelled, status, row, index, client, cpc, req>>
  BY DEF ProcessorSubmit, ProcInv, worldVars, callerVars
<1>1. ManagerType'
  <2>1. pool' \in Seq(Task)
    BY <1>0, AppendAt DEF ManagerType
  <2> QED
    BY <1>0, <2>1 DEF ManagerType
<1>2. TaskType'
  BY <1>0 DEF TaskType, TaskState, InFlight, Waiting, Running, Early, Late
<1>3. ProcessorType'
  BY <1>0 DEF ProcessorType
<1>4. WorldType'
  BY <1>0 DEF WorldType
<1>5. CallerType'
  BY <1>0 DEF CallerType
<1>6. TaskInv'
  BY <1>0 DEF TaskType, TaskInv
<1>7. QueueInv'
  BY <1>0 DEF ManagerType, TaskType, QueueInv, Holds
<1>8. PoolInv'
  <2>1. CASE pool' = Append(pool, ptask)
    BY <1>0, <2>1, AppendAt DEF ManagerType, TaskType, PoolInv, Holds
  <2>2. CASE pool' = pool
    BY <1>0, <2>2 DEF ManagerType, TaskType, PoolInv, Holds
  <2> QED
    BY <1>0, <2>1, <2>2
<1>9. ProcInv'
  BY <1>0 DEF TaskType, ProcInv
<1>10. StatusInv'
  BY <1>0 DEF TaskType, StatusInv, Waiting
<1>11. PanelInv'
  <2>0. ptask \in Task /\ tpc[ptask] \notin Shown \cup {"done"}
    BY <1>0 DEF Shown
  <2>1. \A a \in Anime : active[a] # ptask
    BY <2>0 DEF PanelInv
  <2>2. \A a \in Anime : active'[a] # None =>
            tpc'[active'[a]] = tpc[active[a]] /\ status'[active'[a]] = status[active[a]]
    BY <1>0, <2>1 DEF ManagerType, TaskType
  <2> QED
    BY <1>0, <2>2 DEF PanelInv
<1>12. CallerInv'
  BY <1>0 DEF TaskType, CallerInv, Shown
<1>13. OpenInv'
  BY <1>0 DEF TaskType, OpenInv, ReservationBacked, InFlight, Waiting, Running, Early, Late
<1>14. IndexInv'
  BY <1>0 DEF TaskType, IndexInv, LiveIndexed
<1> QED
  BY <1>1, <1>2, <1>3, <1>4, <1>5, <1>6, <1>7,
     <1>8, <1>9, <1>10, <1>11, <1>12, <1>13, <1>14

\* One step of the processor.
LEMMA ProcessorInv == IndInv /\ Processor => IndInv'
  BY ProcessorLoopInv, ProcessorGetInv, ProcessorReadInv,
     ProcessorCheckInv, ProcessorSubmitInv DEF Processor

-----------------------------------------------------------------------------
(* The workers. *)

\* A free worker takes the oldest pending future.
LEMMA WorkerPickInv ==
    ASSUME IndInv, NEW t \in Task, WorkerPick(t)
    PROVE  IndInv'
<1> USE DEF IndInv, TypeOK
<1>0. /\ tpc[t] = "submitted" /\ tpc' = [tpc EXCEPT ![t] = "begin"]
      /\ t = Head(pool) /\ pool # <<>> /\ pool' = Tail(pool)
      /\ UNCHANGED <<queue, queuedHashes, cancelledHashes, active, stopping, executor,
                      anime, hash, found, cancelled, status, ppc, ptask, row, index,
                      client, cpc, req>>
  BY HeadTail DEF WorkerPick, ManagerType, PoolInv, Holds, procVars, worldVars, callerVars
<1>1. ManagerType'
  BY <1>0, HeadTail DEF ManagerType
<1>2. TaskType'
  BY <1>0 DEF TaskType, TaskState, InFlight, Waiting, Running, Early, Late
<1>3. ProcessorType'
  BY <1>0 DEF ProcessorType
<1>4. WorldType'
  BY <1>0 DEF WorldType
<1>5. CallerType'
  BY <1>0 DEF CallerType
<1>6. TaskInv'
  BY <1>0 DEF TaskType, TaskInv
<1>7. QueueInv'
  BY <1>0 DEF ManagerType, TaskType, QueueInv, Holds
<1>8. PoolInv'
  BY <1>0, HeadTail DEF ManagerType, TaskType, PoolInv, Holds
<1>9. ProcInv'
  BY <1>0 DEF TaskType, ProcInv
<1>10. StatusInv'
  BY <1>0 DEF TaskType, StatusInv, Waiting
<1>11. PanelInv'
  <2>0. t \in Task /\ tpc[t] \notin Shown \cup {"done"}
    BY <1>0 DEF Shown
  <2>1. \A a \in Anime : active[a] # t
    BY <2>0 DEF PanelInv
  <2>2. \A a \in Anime : active'[a] # None =>
            tpc'[active'[a]] = tpc[active[a]] /\ status'[active'[a]] = status[active[a]]
    BY <1>0, <2>1 DEF ManagerType, TaskType
  <2> QED
    BY <1>0, <2>2 DEF PanelInv
<1>12. CallerInv'
  BY <1>0 DEF TaskType, CallerInv, Shown
<1>13. OpenInv'
  BY <1>0 DEF TaskType, OpenInv, ReservationBacked, InFlight, Waiting, Running, Early, Late
<1>14. IndexInv'
  BY <1>0 DEF TaskType, IndexInv, LiveIndexed
<1> QED
  BY <1>1, <1>2, <1>3, <1>4, <1>5, <1>6, <1>7,
     <1>8, <1>9, <1>10, <1>11, <1>12, <1>13, <1>14

\* A cancelled task is answered; any other becomes its anime's active task.
LEMMA WorkerBeginInv ==
    ASSUME IndInv, NEW t \in Task, WorkerBegin(t)
    PROVE  IndInv'
<1> USE DEF IndInv, TypeOK
<1>0. /\ tpc[t] = "begin" /\ status[t] = <<>> /\ anime[t] \in Anime
      /\ \/ /\ queuedHashes' = queuedHashes \ {hash[t]}
            /\ cancelledHashes' = cancelledHashes \ {hash[t]}
            /\ status' = [status EXCEPT ![t] = <<False>>]
            /\ tpc' = [tpc EXCEPT ![t] = "done"]
            /\ active' = active
         \/ /\ t \notin cancelled
            /\ active' = [active EXCEPT ![anime[t]] = t]
            /\ tpc' = [tpc EXCEPT ![t] = "start"]
            /\ UNCHANGED <<queuedHashes, cancelledHashes, status>>
      /\ UNCHANGED <<queue, stopping, executor, pool, anime, hash, found, cancelled,
                      ppc, ptask, row, index, client, cpc, req>>
  BY AppendStatus DEF WorkerBegin, IsCancelled, TaskType, TaskInv, StatusInv, PutStatus,
         Release, procVars, worldVars, callerVars
<1>1. ManagerType'
  BY <1>0 DEF ManagerType
<1>2. TaskType'
  <2>1. <<False>> \in Seq(Verdict)
    BY VerdictSeq DEF Verdict
  <2>2. status' \in [Task -> Seq(Verdict)]
    BY <1>0, <2>1, StatusType DEF TaskType
  <2>3. tpc' \in [Task -> TaskState]
    BY <1>0 DEF TaskType, TaskState, InFlight, Running, Early
  <2> QED
    BY <1>0, <2>2, <2>3 DEF TaskType
<1>3. ProcessorType'
  BY <1>0 DEF ProcessorType
<1>4. WorldType'
  BY <1>0 DEF WorldType
<1>5. CallerType'
  BY <1>0 DEF CallerType
<1>6. TaskInv'
  BY <1>0 DEF TaskType, TaskInv
<1>7. QueueInv'
  BY <1>0 DEF ManagerType, TaskType, QueueInv, Holds
<1>8. PoolInv'
  BY <1>0 DEF ManagerType, TaskType, PoolInv, Holds
<1>9. ProcInv'
  BY <1>0 DEF TaskType, ProcInv
<1>10. StatusInv'
  BY <1>0 DEF TaskType, StatusInv, Waiting
<1>11. PanelInv'
  <2>1. \A a \in Anime : active[a] # t
    BY <1>0 DEF PanelInv, Shown
  <2>2. CASE active' = active
    BY <1>0, <2>1, <2>2 DEF ManagerType, TaskType, PanelInv, Shown
  <2>3. CASE t \notin cancelled /\ active' = [active EXCEPT ![anime[t]] = t]
             /\ tpc' = [tpc EXCEPT ![t] = "start"] /\ UNCHANGED status
    BY <1>0, <2>1, <2>3 DEF ManagerType, TaskType, PanelInv, Shown
  <2> QED
    BY <1>0, <2>2, <2>3
<1>12. CallerInv'
  <2>1. \A c \in Caller : cpc[c] = "canFlag" => req[c].task # t
    BY <1>0 DEF CallerInv, Shown
  <2>2. \A u \in Task \ {t} : tpc'[u] = tpc[u]
    BY <1>0 DEF TaskType
  <2>3. \A a \in Anime : active'[a] \in {active[a], t}
    BY <1>0 DEF ManagerType
  <2> QED
    BY <1>0, <2>1, <2>2, <2>3 DEF CallerInv
<1>13. OpenInv'
  <2>1. CASE UNCHANGED queuedHashes
    BY <1>0, <2>1 DEF TaskType, OpenInv, ReservationBacked, InFlight, Running, Early
  <2>2. CASE queuedHashes' = queuedHashes \ {hash[t]}
    BY <1>0, <2>2 DEF TaskType, OpenInv, ReservationBacked, InFlight, Running, Early
  <2> QED
    BY <1>0, <2>1, <2>2
<1>14. IndexInv'
  BY <1>0 DEF TaskType, IndexInv, LiveIndexed
<1> QED
  BY <1>1, <1>2, <1>3, <1>4, <1>5, <1>6, <1>7,
     <1>8, <1>9, <1>10, <1>11, <1>12, <1>13, <1>14

\* A step of a worker that stays with its task and leaves the manager alone.
LEMMA LocalInv ==
    ASSUME IndInv, NEW t \in Task, NEW pc \in Shown, Local(t, pc),
           tpc[t] \in Shown \ {"succeed", "fail"},
           hash' \in {hash, [hash EXCEPT ![t] = found[t]]},
           \A u \in Task \ {t} : status'[u] = status[u]
    PROVE  /\ ManagerType' /\ ProcessorType' /\ CallerType' /\ TaskInv' /\ QueueInv'
           /\ PoolInv' /\ ProcInv' /\ PanelInv' /\ CallerInv' /\ OpenInv'
           /\ tpc' \in [Task -> TaskState] /\ anime' \in [Task -> Anime \cup {None}]
           /\ hash' \in [Task -> Hash \cup {None}]
           /\ found' \in [Task -> Hash \cup {None}] /\ cancelled' \subseteq Task
<1> USE DEF IndInv, TypeOK
<1>0. /\ tpc' = [tpc EXCEPT ![t] = pc] /\ tpc[t] \in Shown \ {"succeed", "fail"}
      /\ UNCHANGED <<queue, queuedHashes, cancelledHashes, active, stopping, executor,
                      pool, anime, found, cancelled, ppc, ptask, cpc, req>>
  BY DEF Local, managerVars, procVars, callerVars
<1>1. ManagerType' /\ ProcessorType' /\ CallerType'
  BY <1>0 DEF ManagerType, ProcessorType, CallerType
<1>2. TaskInv'
  BY <1>0 DEF TaskType, TaskInv, Shown
<1>3. QueueInv' /\ PoolInv' /\ ProcInv'
  BY <1>0 DEF ManagerType, TaskType, QueueInv, PoolInv, ProcInv, Holds, Shown
<1>4. PanelInv'
  BY <1>0 DEF ManagerType, TaskType, PanelInv, Shown
<1>5. CallerInv'
  BY <1>0 DEF TaskType, CallerInv, Shown
<1>6. OpenInv'
  <2>1. \A u \in Task : tpc[u] \in InFlight => tpc'[u] \in InFlight
    BY <1>0 DEF TaskType, Shown, InFlight, Running, Early, Late
  <2>2. \A u \in Task : \A h \in Hash : tpc[u] \in InFlight /\ hash[u] = h => hash'[u] = h
    BY DEF TaskType, TaskInv, InFlight, Waiting, Running, Early, Late
  <2> QED
    BY <1>0, <2>1, <2>2 DEF ManagerType, OpenInv, ReservationBacked
<1>7. /\ tpc' \in [Task -> TaskState] /\ anime' \in [Task -> Anime \cup {None}]
      /\ hash' \in [Task -> Hash \cup {None}]
      /\ found' \in [Task -> Hash \cup {None}] /\ cancelled' \subseteq Task
  BY <1>0 DEF TaskType, TaskState, InFlight, Running, Early, Late, Shown
<1> QED
  BY <1>1, <1>2, <1>3, <1>4, <1>5, <1>6, <1>7

\* The status queue of one task grows from old to new.
LEMMA StatusStep ==
    ASSUME IndInv, NEW t \in Task, NEW v \in Verdict, PutStatus(t, v)
    PROVE  /\ status' \in [Task -> Seq(Verdict)]
           /\ \A u \in Task \ {t} : status'[u] = status[u]
           /\ status[t] = <<>> => status'[t] = <<v>>
           /\ status[t] = <<True>> => status'[t] = <<True, v>>
<1>1. status \in [Task -> Seq(Verdict)]
  BY DEF IndInv, TypeOK, TaskType
<1>2. Append(status[t], v) \in Seq(Verdict)
  BY <1>1, AppendAt
<1> QED
  BY <1>1, <1>2, AppendStatus DEF PutStatus

\* The second look puts the first value.
LEMMA WorkerStartInv ==
    ASSUME IndInv, NEW t \in Task, WorkerStart(t)
    PROVE  IndInv'
<1>0. PICK pc \in {"fail", "prepare"} :
        /\ Local(t, pc) /\ tpc[t] = "start" /\ hash' = hash
        /\ \/ pc = "fail" /\ PutStatus(t, False)
           \/ pc = "prepare" /\ PutStatus(t, True)
  BY DEF WorkerStart
<1>1. True \in Verdict /\ False \in Verdict
  BY DEF Verdict
<1>2. /\ \A u \in Task \ {t} : status'[u] = status[u]
      /\ status' \in [Task -> Seq(Verdict)]
      /\ pc = "prepare" => status'[t] = <<True>>
  BY <1>0, <1>1, StatusStep DEF IndInv, TypeOK, TaskType, StatusInv, Waiting
<1>3. /\ ManagerType' /\ ProcessorType' /\ CallerType' /\ TaskInv' /\ QueueInv'
      /\ PoolInv' /\ ProcInv' /\ PanelInv' /\ CallerInv' /\ OpenInv'
      /\ TaskType'
  <2>1. pc \in Shown /\ tpc[t] \in Shown \ {"succeed", "fail"}
    BY <1>0 DEF Shown
  <2>2. hash' \in {hash, [hash EXCEPT ![t] = found[t]]}
    BY <1>0
  <2> QED
    BY <1>0, <1>2, <2>1, <2>2, LocalInv DEF TaskType
<1>4. tpc' = [tpc EXCEPT ![t] = pc] /\ UNCHANGED <<anime, found>>
  BY <1>0 DEF Local
<1> USE DEF IndInv, TypeOK
<1>5. StatusInv'
  BY <1>0, <1>2, <1>4 DEF TaskType, StatusInv, Waiting
<1>6. WorldType' /\ IndexInv'
  BY <1>0, <1>4 DEF WorkerStart, TaskType, WorldType, IndexInv, LiveIndexed, worldVars
<1> QED
  BY <1>3, <1>5, <1>6

\* The torrent is prepared, or is None.
LEMMA WorkerPrepareInv ==
    ASSUME IndInv, NEW t \in Task, WorkerPrepare(t)
    PROVE  IndInv'
<1>0. PICK pc \in {"fail", "check"} :
        /\ Local(t, pc) /\ tpc[t] = "prepare" /\ hash' = hash
        /\ \/ pc = "fail" /\ PutStatus(t, False)
           \/ pc = "check" /\ UNCHANGED status
  BY DEF WorkerPrepare
<1>1. True \in Verdict /\ False \in Verdict
  BY DEF Verdict
<1>2. /\ \A u \in Task \ {t} : status'[u] = status[u]
      /\ status' \in [Task -> Seq(Verdict)]
      /\ pc = "check" => status'[t] = <<True>>
  BY <1>0, <1>1, StatusStep DEF IndInv, TypeOK, TaskType, StatusInv, Waiting
<1>3. /\ ManagerType' /\ ProcessorType' /\ CallerType' /\ TaskInv' /\ QueueInv'
      /\ PoolInv' /\ ProcInv' /\ PanelInv' /\ CallerInv' /\ OpenInv'
      /\ TaskType'
  <2>1. pc \in Shown /\ tpc[t] \in Shown \ {"succeed", "fail"}
    BY <1>0 DEF Shown
  <2>2. hash' \in {hash, [hash EXCEPT ![t] = found[t]]}
    BY <1>0
  <2> QED
    BY <1>0, <1>2, <2>1, <2>2, LocalInv DEF TaskType
<1>4. tpc' = [tpc EXCEPT ![t] = pc] /\ UNCHANGED <<anime, found>>
  BY <1>0 DEF Local
<1> USE DEF IndInv, TypeOK
<1>5. StatusInv'
  BY <1>0, <1>2, <1>4 DEF TaskType, StatusInv, Waiting
<1>6. WorldType' /\ IndexInv'
  BY <1>0, <1>4 DEF WorkerPrepare, TaskType, WorldType, IndexInv, LiveIndexed, worldVars
<1> QED
  BY <1>3, <1>5, <1>6

\* The last look, and the hash.
LEMMA WorkerCheckInv ==
    ASSUME IndInv, NEW t \in Task, WorkerCheck(t)
    PROVE  IndInv'
<1>0. PICK pc \in {"fail", "save"} :
        /\ Local(t, pc) /\ tpc[t] = "check" /\ hash' \in {hash, [hash EXCEPT ![t] = found[t]]}
        /\ \/ pc = "fail" /\ PutStatus(t, False)
           \/ pc = "save" /\ UNCHANGED status
  BY DEF WorkerCheck
<1>1. True \in Verdict /\ False \in Verdict
  BY DEF Verdict
<1>2. /\ \A u \in Task \ {t} : status'[u] = status[u]
      /\ status' \in [Task -> Seq(Verdict)]
      /\ pc = "save" => status'[t] = <<True>>
  BY <1>0, <1>1, StatusStep DEF IndInv, TypeOK, TaskType, StatusInv, Waiting
<1>3. /\ ManagerType' /\ ProcessorType' /\ CallerType' /\ TaskInv' /\ QueueInv'
      /\ PoolInv' /\ ProcInv' /\ PanelInv' /\ CallerInv' /\ OpenInv'
      /\ TaskType'
  <2>1. pc \in Shown /\ tpc[t] \in Shown \ {"succeed", "fail"}
    BY <1>0 DEF Shown
  <2>2. hash' \in {hash, [hash EXCEPT ![t] = found[t]]}
    BY <1>0
  <2> QED
    BY <1>0, <1>2, <2>1, <2>2, LocalInv DEF TaskType
<1>4. tpc' = [tpc EXCEPT ![t] = pc] /\ UNCHANGED <<anime, found>>
  BY <1>0 DEF Local
<1> USE DEF IndInv, TypeOK
<1>5. StatusInv'
  BY <1>0, <1>2, <1>4 DEF TaskType, StatusInv, Waiting
<1>6. WorldType' /\ IndexInv'
  BY <1>0, <1>4 DEF WorkerCheck, TaskType, WorldType, IndexInv, LiveIndexed, worldVars
<1> QED
  BY <1>3, <1>5, <1>6

\* The rows are written: the worker goes on only when both are there.
LEMMA WorkerSaveInv ==
    ASSUME IndInv, NEW t \in Task, WorkerSave(t)
    PROVE  IndInv'
<1>0. PICK pc \in {"fail", "lookup"} :
        /\ Local(t, pc) /\ tpc[t] = "save" /\ hash' = hash
        /\ \/ pc = "fail" /\ PutStatus(t, False)
           \/ pc = "lookup" /\ UNCHANGED status
  BY DEF WorkerSave
<1>1. True \in Verdict /\ False \in Verdict
  BY DEF Verdict
<1>2. /\ \A u \in Task \ {t} : status'[u] = status[u]
      /\ status' \in [Task -> Seq(Verdict)]
      /\ pc = "lookup" => status'[t] = <<True>>
  BY <1>0, <1>1, StatusStep DEF IndInv, TypeOK, TaskType, StatusInv, Waiting
<1>3. /\ ManagerType' /\ ProcessorType' /\ CallerType' /\ TaskInv' /\ QueueInv'
      /\ PoolInv' /\ ProcInv' /\ PanelInv' /\ CallerInv' /\ OpenInv'
      /\ TaskType'
  <2>1. pc \in Shown /\ tpc[t] \in Shown \ {"succeed", "fail"}
    BY <1>0 DEF Shown
  <2>2. hash' \in {hash, [hash EXCEPT ![t] = found[t]]}
    BY <1>0
  <2> QED
    BY <1>0, <1>2, <2>1, <2>2, LocalInv DEF TaskType
<1>4. tpc' = [tpc EXCEPT ![t] = pc] /\ UNCHANGED <<anime, found>>
  BY <1>0 DEF Local
<1> USE DEF IndInv, TypeOK
<1>5. StatusInv'
  BY <1>0, <1>2, <1>4 DEF TaskType, StatusInv, Waiting
<1>6. WorldType' /\ IndexInv'
  <2>1. anime[t] \in Anime /\ found[t] \in Hash
    BY <1>0 DEF TaskInv
  <2>2. /\ index \subseteq index' /\ index' \subseteq Anime \X Hash /\ client' = client
        /\ row' \in [Hash -> RowState]
        /\ \A h \in Hash : row[h] # "absent" => row'[h] # "absent"
    BY <2>1 DEF WorkerSave, WorldType, RowState
  <2>3. pc = "lookup" => row'[found[t]] # "absent" /\ <<anime[t], found[t]>> \in index'
    <3>1. \/ /\ index' = index \cup {<<anime[t], found[t]>>}
             /\ row' = [row EXCEPT ![found[t]] = IF @ = "absent" THEN None ELSE @]
          \/ Local(t, "fail")
      BY DEF WorkerSave
    <3>2. Local(t, "fail") => pc = "fail"
      BY <1>0 DEF Local, TaskType
    <3> QED
      BY <2>1, <3>1, <3>2 DEF WorldType
  <2>4. WorldType' /\ LiveIndexed'
    BY <2>2 DEF WorldType, IndexInv, LiveIndexed
  <2>5. ASSUME NEW u \in Task, tpc'[u] \in {"lookup", "add"}
        PROVE  row'[found'[u]] # "absent" /\ <<anime'[u], found'[u]>> \in index'
    <3>1. CASE u = t
      BY <1>0, <1>4, <2>3, <2>5, <3>1 DEF TaskType
    <3>2. CASE u # t
      BY <1>4, <2>2, <2>5, <3>2 DEF TaskType, TaskInv, IndexInv
    <3> QED
      BY <3>1, <3>2
  <2> QED
    BY <2>4, <2>5 DEF IndexInv
<1> QED
  BY <1>3, <1>5, <1>6

\* The client is asked for the torrent.
LEMMA WorkerLookupInv ==
    ASSUME IndInv, NEW t \in Task, WorkerLookup(t)
    PROVE  IndInv'
<1>0. PICK pc \in {"fail", "add", "succeed"} :
        /\ Local(t, pc) /\ tpc[t] = "lookup" /\ hash' = hash
        /\ \/ pc = "fail" /\ PutStatus(t, False)
           \/ pc = "succeed" /\ PutStatus(t, True)
           \/ pc = "add" /\ UNCHANGED status
  BY DEF WorkerLookup
<1>1. True \in Verdict /\ False \in Verdict
  BY DEF Verdict
<1>2. /\ \A u \in Task \ {t} : status'[u] = status[u]
      /\ status' \in [Task -> Seq(Verdict)]
      /\ (pc = "add" => status'[t] = <<True>>)
      /\ (pc = "succeed" => status'[t] = <<True, True>>)
  BY <1>0, <1>1, StatusStep DEF IndInv, TypeOK, TaskType, StatusInv, Waiting
<1>3. /\ ManagerType' /\ ProcessorType' /\ CallerType' /\ TaskInv' /\ QueueInv'
      /\ PoolInv' /\ ProcInv' /\ PanelInv' /\ CallerInv' /\ OpenInv'
      /\ TaskType'
  <2>1. pc \in Shown /\ tpc[t] \in Shown \ {"succeed", "fail"}
    BY <1>0 DEF Shown
  <2>2. hash' \in {hash, [hash EXCEPT ![t] = found[t]]}
    BY <1>0
  <2> QED
    BY <1>0, <1>2, <2>1, <2>2, LocalInv DEF TaskType
<1>4. tpc' = [tpc EXCEPT ![t] = pc] /\ UNCHANGED <<anime, found>>
  BY <1>0 DEF Local
<1> USE DEF IndInv, TypeOK
<1>5. StatusInv'
  BY <1>0, <1>2, <1>4 DEF TaskType, StatusInv, Waiting
<1>6. WorldType' /\ IndexInv'
  BY <1>0, <1>4 DEF WorkerLookup, TaskType, WorldType, IndexInv, LiveIndexed, worldVars
<1> QED
  BY <1>3, <1>5, <1>6

\* The torrent enters the client, or does not.
LEMMA WorkerAddInv ==
    ASSUME IndInv, NEW t \in Task, WorkerAdd(t)
    PROVE  IndInv'
<1>0. PICK pc \in {"fail", "succeed"} :
        /\ Local(t, pc) /\ tpc[t] = "add" /\ hash' = hash
        /\ \/ pc = "fail" /\ PutStatus(t, False)
           \/ pc = "succeed" /\ PutStatus(t, True)
  BY DEF WorkerAdd
<1>1. True \in Verdict /\ False \in Verdict
  BY DEF Verdict
<1>2. /\ \A u \in Task \ {t} : status'[u] = status[u]
      /\ status' \in [Task -> Seq(Verdict)]
      /\ pc = "succeed" => status'[t] = <<True, True>>
  BY <1>0, <1>1, StatusStep DEF IndInv, TypeOK, TaskType, StatusInv, Waiting
<1>3. /\ ManagerType' /\ ProcessorType' /\ CallerType' /\ TaskInv' /\ QueueInv'
      /\ PoolInv' /\ ProcInv' /\ PanelInv' /\ CallerInv' /\ OpenInv'
      /\ TaskType'
  <2>1. pc \in Shown /\ tpc[t] \in Shown \ {"succeed", "fail"}
    BY <1>0 DEF Shown
  <2>2. hash' \in {hash, [hash EXCEPT ![t] = found[t]]}
    BY <1>0
  <2> QED
    BY <1>0, <1>2, <2>1, <2>2, LocalInv DEF TaskType
<1>4. tpc' = [tpc EXCEPT ![t] = pc] /\ UNCHANGED <<anime, found>>
  BY <1>0 DEF Local
<1> USE DEF IndInv, TypeOK
<1>5. StatusInv'
  BY <1>0, <1>2, <1>4 DEF TaskType, StatusInv, Waiting
<1>6. WorldType' /\ IndexInv'
  <2>1. found[t] \in Hash /\ row[found[t]] # "absent" /\ <<anime[t], found[t]>> \in index
    BY <1>0 DEF TaskInv, IndexInv
  <2>2. /\ client' \in [Hash -> ClientState] /\ UNCHANGED <<row, index>>
        /\ \A h \in Hash \ {found[t]} : client'[h] = client[h]
    BY <2>1 DEF WorkerAdd, WorldType, ClientState
  <2>3. anime[t] \in Anime
    BY <1>0 DEF TaskInv
  <2> QED
    BY <1>0, <1>4, <2>1, <2>2, <2>3 DEF TaskType, WorldType, IndexInv, LiveIndexed
<1> QED
  BY <1>3, <1>5, <1>6

\* The finally block releases the hash; a failed task is evicted.
LEMMA WorkerFinishInv ==
    ASSUME IndInv, NEW t \in Task, WorkerFinish(t)
    PROVE  IndInv'
<1> USE DEF IndInv, TypeOK
<1>0. /\ tpc[t] \in {"succeed", "fail"} /\ anime[t] \in Anime
      /\ tpc' = [tpc EXCEPT ![t] = "done"]
      /\ queuedHashes' = queuedHashes \ {hash[t]}
      /\ active' = Evict(t)
      /\ UNCHANGED <<queue, cancelledHashes, stopping, executor, pool, anime, hash, found,
                      cancelled, status, ppc, ptask, row, index, client, cpc, req>>
  BY DEF WorkerFinish, TaskInv, Release, procVars, worldVars, callerVars
<1>1. ManagerType'
  BY <1>0 DEF ManagerType, Evict
<1>2. TaskType'
  BY <1>0 DEF TaskType, TaskState, InFlight, Waiting, Running, Early, Late
<1>3. ProcessorType'
  BY <1>0 DEF ProcessorType
<1>4. WorldType'
  BY <1>0 DEF WorldType
<1>5. CallerType'
  BY <1>0 DEF CallerType
<1>6. TaskInv'
  BY <1>0 DEF TaskType, TaskInv
<1>7. QueueInv'
  BY <1>0 DEF ManagerType, TaskType, QueueInv, Holds
<1>8. PoolInv'
  BY <1>0 DEF ManagerType, TaskType, PoolInv, Holds
<1>9. ProcInv'
  BY <1>0 DEF TaskType, ProcInv
<1>10. StatusInv'
  BY <1>0 DEF TaskType, StatusInv, Waiting
<1>11. PanelInv'
  <2>1. CASE tpc[t] = "fail"
    BY <1>0, <2>1 DEF ManagerType, TaskType, PanelInv, Evict, Shown
  <2>2. CASE tpc[t] = "succeed"
    BY <1>0, <2>2 DEF ManagerType, TaskType, PanelInv, StatusInv, Evict, Shown
  <2> QED
    BY <1>0, <2>1, <2>2
<1>12. CallerInv'
  BY <1>0 DEF ManagerType, TaskType, CallerInv, Evict, Shown
<1>13. OpenInv'
  BY <1>0 DEF TaskType, OpenInv, ReservationBacked, InFlight, Waiting, Running, Early, Late
<1>14. IndexInv'
  BY <1>0 DEF TaskType, IndexInv, LiveIndexed
<1> QED
  BY <1>1, <1>2, <1>3, <1>4, <1>5, <1>6, <1>7,
     <1>8, <1>9, <1>10, <1>11, <1>12, <1>13, <1>14

\* One step of a worker.
LEMMA WorkerInv == ASSUME IndInv, NEW t \in Task, Worker(t) PROVE IndInv'
  BY WorkerPickInv, WorkerBeginInv, WorkerStartInv, WorkerPrepareInv, WorkerCheckInv,
     WorkerSaveInv, WorkerLookupInv, WorkerAddInv, WorkerFinishInv DEF Worker

-----------------------------------------------------------------------------
(* The request threads.  Most of their steps stay inside three frames: the *)
(* manager only forgets, one caller moves, and the world keeps its rows.   *)

ManagerFrame ==
    /\ UNCHANGED <<queue, pool, stopping, executor, tpc, anime, hash, found, status,
                   ppc, ptask>>
    /\ queuedHashes' \subseteq queuedHashes /\ cancelledHashes' \subseteq Hash
    /\ cancelled' \subseteq Task /\ active' \in [Anime -> Task \cup {None}]
    /\ \A a \in Anime : active'[a] \in {active[a], None} /\ active'[a] \notin cancelled'

CallerFrame(c) ==
    /\ CallerType'
    /\ \A d \in Caller \ {c} : cpc'[d] = cpc[d] /\ req'[d] = req[d]
    /\ cpc'[c] \in HashKnown => req'[c].hash \in Hash
    /\ cpc'[c] \in AnimeKnown => req'[c].anime \in Anime
    /\ cpc'[c] \in {"clsClear", "clsShut"} => stopping
    /\ cpc'[c] = "canFlag" =>
          /\ req'[c].task \in Task
          /\ tpc[req'[c].task] \in Shown \cup {"done"}
          /\ \A a \in Anime : active'[a] # req'[c].task

WorldFrame ==
    /\ WorldType' /\ index \subseteq index'
    /\ \A h \in Hash : /\ client'[h] # "out" => client[h] # "out"
                       /\ row[h] # "absent" => row'[h] # "absent"

\* A caller's step inside the three frames keeps the invariant.
LEMMA FrameInv ==
    ASSUME IndInv, NEW c \in Caller, ManagerFrame, CallerFrame(c), WorldFrame
    PROVE  IndInv'
<1> USE DEF IndInv, TypeOK
<1>0. /\ UNCHANGED <<queue, pool, stopping, executor, tpc, anime, hash, found, status,
                     ppc, ptask>>
      /\ queuedHashes' \subseteq queuedHashes
      /\ \A a \in Anime : active'[a] \in {active[a], None} /\ active'[a] \notin cancelled'
  BY DEF ManagerFrame
<1>1. ManagerType' /\ TaskType' /\ ProcessorType' /\ WorldType' /\ CallerType'
  BY DEF ManagerFrame, CallerFrame, WorldFrame, ManagerType, TaskType, ProcessorType
<1>2. TaskInv' /\ QueueInv' /\ PoolInv' /\ ProcInv' /\ StatusInv'
  BY <1>0 DEF TaskInv, QueueInv, PoolInv, Holds, ProcInv, StatusInv
<1>3. PanelInv'
  BY <1>0 DEF PanelInv
<1>4. CallerInv'
  <2> SUFFICES ASSUME NEW d \in Caller
               PROVE  /\ cpc'[d] \in HashKnown => req'[d].hash \in Hash
                      /\ cpc'[d] \in AnimeKnown => req'[d].anime \in Anime
                      /\ cpc'[d] = "canFlag" =>
                            /\ req'[d].task \in Task
                            /\ tpc'[req'[d].task] \in Shown \cup {"done"}
                            /\ \A a \in Anime : active'[a] # req'[d].task
    BY DEF CallerInv
  <2>1. CASE d = c
    BY <1>0, <2>1 DEF CallerFrame
  <2>2. CASE d # c
    BY <1>0, <2>2 DEF CallerFrame, CallerInv
  <2> QED
    BY <2>1, <2>2
<1>5. OpenInv'
  BY <1>0 DEF CallerFrame, OpenInv, ReservationBacked
<1>6. IndexInv'
  <2>1. LiveIndexed'
    BY DEF WorldFrame, IndexInv, LiveIndexed
  <2>2. \A t \in Task : tpc[t] \in {"lookup", "add"} => found[t] \in Hash
    BY DEF TaskInv
  <2> QED
    BY <1>0, <2>1, <2>2 DEF WorldFrame, IndexInv
<1> QED
  BY <1>1, <1>2, <1>3, <1>4, <1>5, <1>6

\* A step that leaves the manager alone is inside its frame.
LEMMA ManagerStutter ==
    ASSUME IndInv, UNCHANGED <<managerVars, taskVars, procVars>>
    PROVE  ManagerFrame
  BY DEF IndInv, TypeOK, ManagerType, TaskType, PanelInv, ManagerFrame,
         managerVars, taskVars, procVars

\* So is one that leaves the database and the client alone ...
LEMMA WorldStutter == ASSUME IndInv, UNCHANGED worldVars PROVE WorldFrame
  BY DEF IndInv, TypeOK, WorldType, WorldFrame, worldVars

\* ... or writes the status of an existing row.
LEMMA StatusWrite ==
    ASSUME IndInv, NEW h \in Hash, NEW s \in RowState \ {"absent"},
           SetStatus(h, s) \/ UNCHANGED row, UNCHANGED <<index, client>>
    PROVE  WorldFrame
<1>1. row' \in {[row EXCEPT ![h] = IF @ = "absent" THEN @ ELSE s], row}
  BY DEF SetStatus, Reads
<1> QED
  BY <1>1 DEF IndInv, TypeOK, WorldType, WorldFrame

\* A caller that goes on with the same locals, or returns.
LEMMA StepFrame ==
    ASSUME IndInv, NEW c \in Caller, NEW pc \in CallerState, Step(c, pc),
           pc \notin {"clsClear", "clsShut", "canFlag"},
           pc \in HashKnown => req[c].hash \in Hash,
           pc \in AnimeKnown => req[c].anime \in Anime
    PROVE  CallerFrame(c)
  BY DEF IndInv, TypeOK, CallerType, CallerFrame, Step, Goto

\* A caller that returns forgets its locals.
LEMMA ReturnFrame == ASSUME IndInv, NEW c \in Caller, Return(c) PROVE CallerFrame(c)
<1>1. NoRequest \in Request /\ "idle" \in CallerState
  BY DEF NoRequest, Request, CallerState
<1> QED
  BY <1>1 DEF IndInv, TypeOK, CallerType, CallerFrame, Return, Goto, HashKnown, AnimeKnown

\* A new call: its locals are its arguments.
LEMMA CallFrame ==
    ASSUME IndInv, NEW c \in Caller, NEW op \in AllOps, NEW pc \in CallerState,
           NEW a \in Anime \cup {None}, NEW h \in Hash \cup {None},
           Call(c, op, pc, a, h), pc \notin {"clsClear", "clsShut", "canFlag"},
           pc \in HashKnown => h \in Hash, pc \in AnimeKnown => a \in Anime
    PROVE  IndInv'
<1>1. [NoRequest EXCEPT !.op = op, !.anime = a, !.hash = h] \in Request
  BY DEF NoRequest, Request
<1>2. /\ req' = [req EXCEPT ![c] = [NoRequest EXCEPT !.op = op, !.anime = a, !.hash = h]]
      /\ cpc' = [cpc EXCEPT ![c] = pc]
      /\ UNCHANGED <<managerVars, taskVars, procVars>> /\ UNCHANGED worldVars
  BY DEF Call, Goto
<1>3. CallerFrame(c)
  BY <1>1, <1>2 DEF IndInv, TypeOK, CallerType, CallerFrame, NoRequest
<1> QED
  BY <1>2, <1>3, ManagerStutter, WorldStutter, FrameInv

\* The status is read.
LEMMA EnqueueReadInv == ASSUME IndInv, NEW c \in Caller, EnqueueRead(c) PROVE IndInv'
<1>1. UNCHANGED <<managerVars, taskVars, procVars>> /\ UNCHANGED worldVars
  BY DEF EnqueueRead
<1>2. Return(c) \/ \E pc \in {"enqClear", "enqDup"} : Step(c, pc)
  BY DEF EnqueueRead
<1>3. req[c].hash \in Hash /\ req[c].anime \in Anime
  BY DEF EnqueueRead, IndInv, CallerInv, HashKnown, AnimeKnown
<1>4. CallerFrame(c)
  BY <1>2, <1>3, StepFrame, ReturnFrame DEF CallerState
<1> QED
  BY <1>1, <1>4, ManagerStutter, WorldStutter, FrameInv

\* The deleted mark is cleared.
LEMMA EnqueueClearInv == ASSUME IndInv, NEW c \in Caller, EnqueueClear(c) PROVE IndInv'
<1>1. req[c].hash \in Hash /\ req[c].anime \in Anime /\ req[c] \in Request
  BY DEF EnqueueClear, IndInv, TypeOK, CallerType, CallerInv, HashKnown, AnimeKnown
<1>2. UNCHANGED <<managerVars, taskVars, procVars>> /\ WorldFrame
  BY <1>1, StatusWrite DEF EnqueueClear, RowState
<1>3. CallerFrame(c)
  BY <1>1 DEF EnqueueClear, Goto, IndInv, TypeOK, CallerType, CallerFrame, CallerState,
       Request
<1> QED
  BY <1>2, <1>3, ManagerStutter, FrameInv

\* Queued and active hashes are looked up.
LEMMA EnqueueDupInv == ASSUME IndInv, NEW c \in Caller, EnqueueDup(c) PROVE IndInv'
<1>1. UNCHANGED <<managerVars, taskVars, procVars>> /\ UNCHANGED worldVars
  BY DEF EnqueueDup
<1>2. Return(c) \/ \E pc \in {"enqLive"} : Step(c, pc)
  BY DEF EnqueueDup
<1>3. req[c].hash \in Hash /\ req[c].anime \in Anime
  BY DEF EnqueueDup, IndInv, CallerInv, HashKnown, AnimeKnown
<1>4. CallerFrame(c)
  BY <1>2, <1>3, StepFrame, ReturnFrame DEF CallerState
<1> QED
  BY <1>1, <1>4, ManagerStutter, WorldStutter, FrameInv

\* The client is looked up.
LEMMA EnqueueLiveInv == ASSUME IndInv, NEW c \in Caller, EnqueueLive(c) PROVE IndInv'
<1>1. UNCHANGED <<managerVars, taskVars, procVars>> /\ UNCHANGED worldVars
  BY DEF EnqueueLive
<1>2. Return(c) \/ \E pc \in {"enqPut", "enqIndex"} : Step(c, pc)
  BY DEF EnqueueLive
<1>3. req[c].hash \in Hash /\ req[c].anime \in Anime
  BY DEF EnqueueLive, IndInv, CallerInv, HashKnown, AnimeKnown
<1>4. CallerFrame(c)
  BY <1>2, <1>3, StepFrame, ReturnFrame DEF CallerState
<1> QED
  BY <1>1, <1>4, ManagerStutter, WorldStutter, FrameInv

\* The row is looked up.
LEMMA EnqueueIndexInv == ASSUME IndInv, NEW c \in Caller, EnqueueIndex(c) PROVE IndInv'
<1>1. UNCHANGED <<managerVars, taskVars, procVars>> /\ UNCHANGED worldVars
  BY DEF EnqueueIndex
<1>2. Return(c) \/ \E pc \in {"enqPut"} : Step(c, pc)
  BY DEF EnqueueIndex
<1>3. req[c].hash \in Hash /\ req[c].anime \in Anime
  BY DEF EnqueueIndex, IndInv, CallerInv, HashKnown, AnimeKnown
<1>4. CallerFrame(c)
  BY <1>2, <1>3, StepFrame, ReturnFrame DEF CallerState
<1> QED
  BY <1>1, <1>4, ManagerStutter, WorldStutter, FrameInv

\* No task is left.
LEMMA EnqueueBoundInv == ASSUME IndInv, NEW c \in Caller, EnqueueBound(c) PROVE IndInv'
<1>1. UNCHANGED <<managerVars, taskVars, procVars>> /\ UNCHANGED worldVars
  BY DEF EnqueueBound
<1>2. Return(c) \/ \E pc \in {"enqPut"} : Step(c, pc)
  BY DEF EnqueueBound
<1>3. req[c].hash \in Hash /\ req[c].anime \in Anime
  BY DEF EnqueueBound, IndInv, CallerInv, HashKnown, AnimeKnown
<1>4. CallerFrame(c)
  BY <1>2, <1>3, StepFrame, ReturnFrame DEF CallerState
<1> QED
  BY <1>1, <1>4, ManagerStutter, WorldStutter, FrameInv

\* The locked put: a duplicate is refused, or a new task is queued.
LEMMA EnqueuePutInv == ASSUME IndInv, NEW c \in Caller, EnqueuePut(c) PROVE IndInv'
<1>0. /\ req[c].hash \in Hash /\ req[c].anime \in Anime /\ Return(c)
      /\ UNCHANGED <<ppc, ptask, row, index, client>>
  BY DEF EnqueuePut, IndInv, CallerInv, HashKnown, AnimeKnown, procVars, worldVars
<1>1. CASE UNCHANGED <<managerVars, taskVars>>
  BY <1>0, <1>1, ReturnFrame, ManagerStutter, WorldStutter, FrameInv DEF procVars, worldVars
<1>2. CASE ~UNCHANGED <<managerVars, taskVars>>
  <2> DEFINE h == req[c].hash
  <2>0. PICK t \in Task :
          /\ tpc[t] = "new"
          /\ cancelledHashes' \subseteq cancelledHashes
          /\ \/ queuedHashes' = queuedHashes \cup {h} /\ hash' = [hash EXCEPT ![t] = h]
             \/ queuedHashes' = queuedHashes /\ hash' = [hash EXCEPT ![t] = None]
          /\ queue' = Append(queue, t)
          /\ tpc' = [tpc EXCEPT ![t] = "queued"]
          /\ anime' = [anime EXCEPT ![t] = req[c].anime]
          /\ found' = [found EXCEPT ![t] = h]
          /\ UNCHANGED <<active, stopping, executor, pool, cancelled, status>>
    BY <1>2 DEF EnqueuePut, managerVars, taskVars
  <2>a. CallerFrame(c)
    BY <1>0, ReturnFrame
  <2> HIDE DEF h
  <2>b. h \in Hash
    BY <1>0 DEF h
  <2> USE DEF IndInv, TypeOK
  <2>1. ManagerType'
    <3>1. queue' \in Seq(Task)
      BY <2>0, AppendAt DEF ManagerType
    <3>2. queuedHashes' \subseteq Hash /\ cancelledHashes' \subseteq Hash
      BY <2>0, <2>b DEF ManagerType
    <3> QED
      BY <2>0, <3>1, <3>2 DEF ManagerType
  <2>2. TaskType'
    <3>1. tpc' \in [Task -> TaskState] /\ cancelled' \subseteq Task
          /\ status' \in [Task -> Seq(Verdict)]
      BY <2>0 DEF TaskType, TaskState, InFlight, Waiting
    <3>2. anime' \in [Task -> Anime \cup {None}] /\ found' \in [Task -> Hash \cup {None}]
      BY <1>0, <2>0, <2>b DEF TaskType
    <3>3. hash' \in [Task -> Hash \cup {None}]
      BY <2>0, <2>b DEF TaskType
    <3> QED
      BY <3>1, <3>2, <3>3 DEF TaskType
  <2>3. ProcessorType' /\ WorldType' /\ CallerType'
    BY <1>0, <2>a DEF ProcessorType, WorldType, CallerFrame
  <2>4. TaskInv'
    BY <1>0, <2>0, <2>b DEF TaskType, TaskInv
  <2>5. QueueInv'
    <3>1. /\ Len(queue) \in Nat /\ Len(queue') = Len(queue) + 1
          /\ queue'[Len(queue) + 1] = t
          /\ \A i \in 1..Len(queue) : queue'[i] = queue[i] /\ queue[i] \in Task
      BY <2>0, AppendAt DEF ManagerType
    <3>2. \A i \in 1..Len(queue) : queue'[i] # t /\ tpc'[queue'[i]] = "queued"
      BY <2>0, <3>1 DEF TaskType, QueueInv, Holds
    <3>3. tpc'[t] = "queued"
      BY <2>0 DEF TaskType
    <3>4. ASSUME NEW i \in 1..Len(queue')
          PROVE  /\ tpc'[queue'[i]] = "queued"
                 /\ \A j \in 1..Len(queue') : queue'[i] = queue'[j] => i = j
      <4>1. CASE i = Len(queue) + 1
        BY <3>1, <3>2, <3>3, <4>1
      <4>2. CASE i \in 1..Len(queue)
        BY <3>1, <3>2, <4>2 DEF QueueInv, Holds
      <4> QED
        BY <3>1, <3>4, <4>1, <4>2
    <3> QED
      BY <3>4 DEF QueueInv, Holds
  <2>6. PoolInv' /\ ProcInv'
    <3>1. \A u \in Task \ {t} : tpc'[u] = tpc[u]
      BY <2>0 DEF TaskType
    <3>2. PoolInv'
      BY <2>0, <3>1 DEF ManagerType, PoolInv, Holds
    <3>3. ProcInv'
      BY <1>0, <2>0, <3>1 DEF ProcInv
    <3> QED
      BY <3>2, <3>3
  <2>7. StatusInv'
    BY <2>0 DEF TaskType, StatusInv, Waiting
  <2>8. PanelInv'
    <3>1. \A a \in Anime : active[a] # t
      BY <2>0 DEF PanelInv, Shown
    <3> QED
      BY <2>0, <3>1 DEF ManagerType, TaskType, PanelInv, Shown
  <2>9. CallerInv'
    <3> SUFFICES ASSUME NEW d \in Caller
                 PROVE  /\ cpc'[d] \in HashKnown => req'[d].hash \in Hash
                        /\ cpc'[d] \in AnimeKnown => req'[d].anime \in Anime
                        /\ cpc'[d] = "canFlag" =>
                              /\ req'[d].task \in Task
                              /\ tpc'[req'[d].task] \in Shown \cup {"done"}
                              /\ \A a \in Anime : active'[a] # req'[d].task
      BY DEF CallerInv
    <3>1. CASE d = c
      <4>1. cpc'[c] = "idle"
        BY <1>0 DEF Return, Goto, CallerType
      <4> QED
        BY <3>1, <4>1 DEF HashKnown, AnimeKnown
    <3>2. CASE d # c
      <4>1. cpc[d] = "canFlag" => req[d].task # t
        BY <2>0 DEF CallerInv, Shown
      <4> QED
        BY <2>0, <2>a, <3>2, <4>1 DEF CallerFrame, CallerInv, TaskType
    <3> QED
      BY <3>1, <3>2
  <2>10. OpenInv'
    <3>1. ReservationBacked'
      <4> SUFFICES ASSUME ~stopping, NEW g \in queuedHashes'
                   PROVE  \E u \in Task : tpc'[u] \in InFlight /\ hash'[u] = g
        BY <2>0 DEF ReservationBacked
      <4>1. CASE g \in queuedHashes
        <5>1. PICK u \in Task : tpc[u] \in InFlight /\ hash[u] = g
          BY <4>1 DEF OpenInv, ReservationBacked
        <5>2. u # t
          BY <2>0, <5>1 DEF InFlight, Waiting, Running, Early, Late
        <5> QED
          BY <2>0, <5>1, <5>2 DEF TaskType
      <4>2. CASE g \notin queuedHashes
        <5>1. g = h /\ hash'[t] = g /\ tpc'[t] = "queued"
          BY <2>0, <4>2 DEF TaskType
        <5> QED
          BY <5>1 DEF InFlight, Waiting
      <4> QED
        BY <4>1, <4>2
    <3> QED
      BY <2>0, <2>a, <3>1 DEF OpenInv, CallerFrame
  <2>11. IndexInv'
    BY <1>0, <2>0 DEF TaskType, IndexInv, LiveIndexed
  <2> QED
    BY <2>1, <2>2, <2>3, <2>4, <2>5, <2>6, <2>7, <2>8, <2>9, <2>10, <2>11
<1> QED
  BY <1>1, <1>2

\* The anime's task leaves the panel.
LEMMA CancelPopInv == ASSUME IndInv, NEW c \in Caller, CancelPop(c) PROVE IndInv'
<1>1. req[c].anime \in Anime /\ req[c] \in Request
  BY DEF CancelPop, IndInv, TypeOK, CallerType, CallerInv, AnimeKnown
<1>2. ManagerFrame /\ WorldFrame
  BY <1>1, WorldStutter DEF CancelPop, ManagerFrame, taskVars, procVars, IndInv, TypeOK,
     ManagerType, TaskType, PanelInv
<1>3. active[req[c].anime] \in Task \cup {None}
  BY <1>1 DEF IndInv, TypeOK, ManagerType
<1>4. active[req[c].anime] # None =>
        /\ tpc[active[req[c].anime]] \in Shown \cup {"done"}
        /\ \A a \in Anime : active'[a] # active[req[c].anime]
  BY <1>1, <1>3 DEF CancelPop, IndInv, TypeOK, ManagerType, PanelInv
<1>5. /\ req' = [req EXCEPT ![c] = [@ EXCEPT !.task = active[req[c].anime]]]
      /\ cpc' = [cpc EXCEPT ![c] = IF active[req[c].anime] = None THEN "canList" ELSE "canFlag"]
      /\ [req[c] EXCEPT !.task = active[req[c].anime]] \in Request
  BY <1>1, <1>3 DEF CancelPop, Goto, Request, IndInv, TypeOK, CallerType
<1>6. CallerFrame(c)
  BY <1>3, <1>4, <1>5 DEF CallerFrame, CallerState, HashKnown, AnimeKnown, Request, IndInv,
     TypeOK, CallerType
<1> QED
  BY <1>2, <1>6, FrameInv

\* The popped task's flag is set: it is not in the panel.
LEMMA CancelFlagInv == ASSUME IndInv, NEW c \in Caller, CancelFlag(c) PROVE IndInv'
<1>1. req[c].task \in Task /\ req[c] \in Request
  BY DEF CancelFlag, IndInv, TypeOK, CallerType, CallerInv
<1>2. \A a \in Anime : active[a] # req[c].task
  BY DEF CancelFlag, IndInv, CallerInv
<1>3. ManagerFrame /\ WorldFrame
  BY <1>1, <1>2, WorldStutter DEF CancelFlag, ManagerFrame, managerVars, procVars, IndInv,
     TypeOK, ManagerType, TaskType, PanelInv
<1>4. hash[req[c].task] \in Hash \cup {None}
  BY <1>1 DEF IndInv, TypeOK, TaskType
<1>5. /\ req' = [req EXCEPT ![c] = [@ EXCEPT !.drop = HashOf(req[c].task), !.hash = hash[req[c].task]]]
      /\ cpc' = [cpc EXCEPT ![c] = IF hash[req[c].task] = None THEN "canList" ELSE "canDrop"]
  BY <1>1 DEF CancelFlag, Goto, IndInv, TypeOK, CallerType, Request
<1>6. [req[c] EXCEPT !.drop = HashOf(req[c].task), !.hash = hash[req[c].task]] \in Request
  BY <1>1, <1>4 DEF Request, HashOf
<1>7. CallerFrame(c)
  BY <1>4, <1>5, <1>6 DEF CallerFrame, CallerState, HashKnown, AnimeKnown, Request, IndInv,
     TypeOK, CallerType
<1> QED
  BY <1>3, <1>7, FrameInv

\* The reservation goes.
LEMMA CancelDropInv == ASSUME IndInv, NEW c \in Caller, CancelDrop(c) PROVE IndInv'
<1>1. req[c].hash \in Hash
  BY DEF CancelDrop, IndInv, CallerInv, HashKnown
<1>2. ManagerFrame /\ WorldFrame
  BY <1>1, WorldStutter DEF CancelDrop, ManagerFrame, taskVars, procVars, IndInv, TypeOK,
     ManagerType, TaskType, PanelInv
<1>3. CallerFrame(c)
  BY <1>1, StepFrame DEF CancelDrop, CallerState, AnimeKnown
<1> QED
  BY <1>2, <1>3, FrameInv

\* The hash is marked cancelled.
LEMMA CancelMarkInv == ASSUME IndInv, NEW c \in Caller, CancelMark(c) PROVE IndInv'
<1>1. req[c].hash \in Hash
  BY DEF CancelMark, IndInv, CallerInv, HashKnown
<1>2. ManagerFrame /\ WorldFrame
  BY <1>1, WorldStutter DEF CancelMark, ManagerFrame, taskVars, procVars, IndInv, TypeOK,
     ManagerType, TaskType, PanelInv
<1>3. CallerFrame(c)
  BY <1>1, StepFrame DEF CancelMark, CallerState, AnimeKnown
<1> QED
  BY <1>2, <1>3, FrameInv

\* The anime's live torrents are listed.
LEMMA CancelListInv == ASSUME IndInv, NEW c \in Caller, CancelList(c) PROVE IndInv'
<1>1. UNCHANGED <<managerVars, taskVars, procVars>> /\ UNCHANGED worldVars
  BY DEF CancelList
<1>2. PICK live \in SUBSET Hash :
        /\ req' = [req EXCEPT ![c].drop = @ \cup live]
        /\ cpc' = [cpc EXCEPT ![c] = "remove"]
  BY DEF CancelList, LiveHashesOf, RowsOf, Goto
<1>3. req[c] \in Request /\ req'[c] = [req[c] EXCEPT !.drop = @ \cup live]
  BY <1>2 DEF IndInv, TypeOK, CallerType
<1>4. req'[c] \in Request
  BY <1>3 DEF Request
<1>5. CallerFrame(c)
  BY <1>2, <1>4 DEF IndInv, TypeOK, CallerType, CallerFrame, CallerState, HashKnown,
       AnimeKnown
<1> QED
  BY <1>1, <1>5, ManagerStutter, WorldStutter, FrameInv

\* One torrent leaves the client, unless the client fails.
LEMMA RemoveOneInv == ASSUME IndInv, NEW c \in Caller, RemoveOne(c) PROVE IndInv'
<1>1. PICK h \in req[c].drop :
        /\ client' \in {[client EXCEPT ![h] = "out"], client}
        /\ req' = [req EXCEPT ![c].drop = @ \ {h}]
  BY DEF RemoveOne, Reads
<1>2. UNCHANGED <<managerVars, taskVars, procVars, row, index, cpc>> /\ cpc[c] = "remove"
  BY DEF RemoveOne
<1>3. WorldFrame
  BY <1>1, <1>2 DEF IndInv, TypeOK, WorldType, WorldFrame, ClientState
<1>4. CallerFrame(c)
  BY <1>1, <1>2 DEF IndInv, TypeOK, CallerType, CallerFrame, HashKnown, AnimeKnown, Request
<1>5. UNCHANGED <<managerVars, taskVars, procVars>>
  BY <1>2
<1> QED
  BY <1>3, <1>4, <1>5, ManagerStutter, FrameInv

\* Every listed torrent has been handled.
LEMMA RemoveDoneInv == ASSUME IndInv, NEW c \in Caller, RemoveDone(c) PROVE IndInv'
<1>1. UNCHANGED <<managerVars, taskVars, procVars>> /\ UNCHANGED worldVars
  BY DEF RemoveDone
<1>2. Return(c) \/ Step(c, "swpList")
  BY DEF RemoveDone
<1>3. CallerFrame(c)
  BY <1>2, StepFrame, ReturnFrame DEF CallerState, HashKnown, AnimeKnown
<1> QED
  BY <1>1, <1>3, ManagerStutter, WorldStutter, FrameInv

\* A hash is cancelled wherever it is.
LEMMA CancelInFlightInv == ASSUME IndInv, NEW c \in Caller, CancelInFlight(c) PROVE IndInv'
<1>1. req[c].hash \in Hash /\ req[c] \in Request
  BY DEF CancelInFlight, IndInv, TypeOK, CallerType, CallerInv, HashKnown
<1>2. /\ UNCHANGED <<queue, pool, stopping, executor, tpc, anime, hash, found, status, ppc, ptask>>
      /\ queuedHashes' \subseteq queuedHashes /\ cancelledHashes' \subseteq Hash
  BY <1>1 DEF CancelInFlight, procVars, IndInv, TypeOK, ManagerType
<1>3. /\ cancelled' = cancelled \cup ActiveWith(req[c].hash)
      /\ active' = [a \in Anime |-> IF active[a] \in ActiveWith(req[c].hash) THEN None ELSE active[a]]
  BY DEF CancelInFlight
<1>4. ManagerFrame
  BY <1>2, <1>3 DEF ManagerFrame, ActiveWith, IndInv, TypeOK, ManagerType, TaskType,
       PanelInv
<1>5. WorldFrame
  BY WorldStutter DEF CancelInFlight
<1>6. /\ req' = [req EXCEPT ![c].drop = IF req[c].op = "delete" THEN {} ELSE {req[c].hash}]
      /\ cpc' = [cpc EXCEPT ![c] = IF req[c].op = "delete" THEN "delMark" ELSE "remove"]
  BY DEF CancelInFlight, Goto
<1>7. CallerFrame(c)
  BY <1>1, <1>6 DEF IndInv, TypeOK, CallerType, CallerFrame, CallerState, HashKnown,
       AnimeKnown, Request
<1> QED
  BY <1>4, <1>5, <1>7, FrameInv

\* The hash is mapped to an anime, or is not.
LEMMA DeleteMapInv == ASSUME IndInv, NEW c \in Caller, DeleteMap(c) PROVE IndInv'
<1>1. UNCHANGED <<managerVars, taskVars, procVars>> /\ UNCHANGED worldVars
  BY DEF DeleteMap
<1>2. req[c].hash \in Hash /\ req[c] \in Request
  BY DEF DeleteMap, IndInv, TypeOK, CallerType, CallerInv, HashKnown
<1>3. CASE Step(c, "inFlight")
  <2>1. CallerFrame(c)
    BY <1>2, <1>3, StepFrame DEF CallerState, AnimeKnown
  <2> QED
    BY <1>1, <2>1, ManagerStutter, WorldStutter, FrameInv
<1>4. CASE \E a \in Anime : /\ req' = [req EXCEPT ![c].op = "delete", ![c].anime = a]
                            /\ Goto(c, "delOwn")
  <2>1. PICK a \in Anime : /\ req' = [req EXCEPT ![c].op = "delete", ![c].anime = a]
                           /\ Goto(c, "delOwn")
    BY <1>4
  <2>2. [req[c] EXCEPT !.op = "delete", !.anime = a] \in Request
    BY <1>2 DEF Request, AllOps
  <2>3. req' = [req EXCEPT ![c] = [req[c] EXCEPT !.op = "delete", !.anime = a]]
    BY <1>2, <2>1 DEF IndInv, TypeOK, CallerType, Request
  <2>4. CallerFrame(c)
    BY <1>2, <2>1, <2>2, <2>3 DEF Goto, IndInv, TypeOK, CallerType, CallerFrame,
         CallerState,
       HashKnown, AnimeKnown, Request
  <2> QED
    BY <1>1, <2>4, ManagerStutter, WorldStutter, FrameInv
<1> QED
  BY <1>3, <1>4 DEF DeleteMap

\* Ownership is checked.
LEMMA DeleteOwnInv == ASSUME IndInv, NEW c \in Caller, DeleteOwn(c) PROVE IndInv'
<1>1. UNCHANGED <<managerVars, taskVars, procVars>> /\ UNCHANGED worldVars
  BY DEF DeleteOwn
<1>2. req[c].hash \in Hash /\ req[c] \in Request
  BY DEF DeleteOwn, IndInv, TypeOK, CallerType, CallerInv, HashKnown
<1>3. CASE Return(c)
  BY <1>1, <1>3, ReturnFrame, ManagerStutter, WorldStutter, FrameInv
<1>4. CASE /\ req' = [req EXCEPT ![c].flag = (row[req[c].hash] = "deleted")]
           /\ Goto(c, "delPeek")
  <2>1. (row[req[c].hash] = "deleted") \in BOOLEAN
    OBVIOUS
  <2>2. CallerFrame(c)
    BY <1>2, <1>4, <2>1 DEF Goto, IndInv, TypeOK, CallerType, CallerFrame, CallerState,
         HashKnown,
       AnimeKnown, Request
  <2> QED
    BY <1>1, <2>2, ManagerStutter, WorldStutter, FrameInv
<1> QED
  BY <1>3, <1>4 DEF DeleteOwn

\* The anime's active task is compared.
LEMMA DeletePeekInv == ASSUME IndInv, NEW c \in Caller, DeletePeek(c) PROVE IndInv'
<1>1. UNCHANGED <<managerVars, taskVars, procVars>> /\ UNCHANGED worldVars
  BY DEF DeletePeek
<1>2. req[c].hash \in Hash
  BY DEF DeletePeek, IndInv, CallerInv, HashKnown
<1>3. Step(c, "inFlight") \/ Step(c, "delMark")
  BY DEF DeletePeek
<1>4. CallerFrame(c)
  BY <1>2, <1>3, StepFrame DEF CallerState, AnimeKnown
<1> QED
  BY <1>1, <1>4, ManagerStutter, WorldStutter, FrameInv

\* The row is marked deleted.
LEMMA DeleteMarkInv == ASSUME IndInv, NEW c \in Caller, DeleteMark(c) PROVE IndInv'
<1>1. req[c].hash \in Hash /\ req[c] \in Request
  BY DEF DeleteMark, IndInv, TypeOK, CallerType, CallerInv, HashKnown
<1>2. UNCHANGED <<managerVars, taskVars, procVars>> /\ WorldFrame
  BY <1>1, StatusWrite DEF DeleteMark, RowState
<1>3. CallerFrame(c)
  BY <1>1 DEF DeleteMark, Goto, IndInv, TypeOK, CallerType, CallerFrame, CallerState,
       HashKnown,
     AnimeKnown, Request
<1> QED
  BY <1>2, <1>3, ManagerStutter, FrameInv

\* The rows to mark are listed.
LEMMA SweepListInv == ASSUME IndInv, NEW c \in Caller, SweepList(c) PROVE IndInv'
<1>1. UNCHANGED <<managerVars, taskVars, procVars>> /\ UNCHANGED worldVars
  BY DEF SweepList
<1>2. PICK hit \in SUBSET Hash :
        /\ req' = [req EXCEPT ![c].mark = hit, ![c].flag = TRUE]
        /\ cpc' = [cpc EXCEPT ![c] = "swpMark"]
  BY DEF SweepList, RowsReads, Reads, RowsOf, Goto
<1>4. /\ [req[c] EXCEPT !.mark = hit, !.flag = TRUE] \in Request
      /\ req' = [req EXCEPT ![c] = [req[c] EXCEPT !.mark = hit, !.flag = TRUE]]
  BY <1>2 DEF IndInv, TypeOK, CallerType, Request
<1>3. CallerFrame(c)
  BY <1>2, <1>4 DEF IndInv, TypeOK, CallerType, CallerFrame, CallerState, HashKnown,
       AnimeKnown, Request
<1> QED
  BY <1>1, <1>3, ManagerStutter, WorldStutter, FrameInv

\* One row is marked, or all are.
LEMMA SweepMarkInv == ASSUME IndInv, NEW c \in Caller, SweepMark(c) PROVE IndInv'
<1>1. UNCHANGED <<managerVars, taskVars, procVars>> /\ UNCHANGED <<index, client>>
                                                    /\ cpc[c] = "swpMark"
  BY DEF SweepMark
<1>2. CASE \E h \in req[c].mark :
             /\ SetStatus(h, "deleted")
             /\ req' = [req EXCEPT ![c].mark = @ \ {h}, ![c].drop = @ \cup {h}]
             /\ UNCHANGED cpc
  <2>1. PICK h \in req[c].mark :
             /\ SetStatus(h, "deleted")
             /\ req' = [req EXCEPT ![c].mark = @ \ {h}, ![c].drop = @ \cup {h}]
             /\ UNCHANGED cpc
    BY <1>2
  <2>2. h \in Hash
    BY <2>1 DEF IndInv, TypeOK, CallerType, Request
  <2>3. WorldFrame
    BY <1>1, <2>1, <2>2, StatusWrite DEF RowState
  <2>5. /\ [req[c] EXCEPT !.mark = @ \ {h}, !.drop = @ \cup {h}] \in Request
        /\ req' = [req EXCEPT ![c] = [req[c] EXCEPT !.mark = @ \ {h}, !.drop = @ \cup {h}]]
    BY <2>1, <2>2 DEF IndInv, TypeOK, CallerType, Request
  <2>4. CallerFrame(c)
    BY <1>1, <2>1, <2>2, <2>5 DEF IndInv, TypeOK, CallerType, CallerFrame, HashKnown,
         AnimeKnown, Request
  <2> QED
    BY <1>1, <2>3, <2>4, ManagerStutter, FrameInv
<1>3. CASE Step(c, "remove") /\ UNCHANGED row
  <2>1. CallerFrame(c)
    BY <1>3, StepFrame DEF CallerState, HashKnown, AnimeKnown
  <2> QED
    BY <1>1, <1>3, <2>1, ManagerStutter, WorldStutter, FrameInv DEF worldVars
<1> QED
  BY <1>2, <1>3 DEF SweepMark

\* The status is read.
LEMMA CompleteReadInv == ASSUME IndInv, NEW c \in Caller, CompleteRead(c) PROVE IndInv'
<1>1. UNCHANGED <<managerVars, taskVars, procVars>> /\ UNCHANGED worldVars
  BY DEF CompleteRead
<1>2. req[c].hash \in Hash
  BY DEF CompleteRead, IndInv, CallerInv, HashKnown
<1>3. Return(c) \/ Step(c, "cplWrite")
  BY DEF CompleteRead
<1>4. CallerFrame(c)
  BY <1>2, <1>3, StepFrame, ReturnFrame DEF CallerState, AnimeKnown
<1> QED
  BY <1>1, <1>4, ManagerStutter, WorldStutter, FrameInv

\* The row is marked complete.
LEMMA CompleteWriteInv == ASSUME IndInv, NEW c \in Caller, CompleteWrite(c) PROVE IndInv'
<1>1. req[c].hash \in Hash
  BY DEF CompleteWrite, IndInv, CallerInv, HashKnown
<1>2. UNCHANGED <<managerVars, taskVars, procVars>> /\ WorldFrame
  BY <1>1, StatusWrite DEF CompleteWrite, RowState
<1>3. CallerFrame(c)
  BY ReturnFrame DEF CompleteWrite
<1> QED
  BY <1>2, <1>3, ManagerStutter, FrameInv

\* close() forgets everything under the lock.
LEMMA CloseClearInv == ASSUME IndInv, NEW c \in Caller, CloseClear(c) PROVE IndInv'
<1>1. ManagerFrame
  BY DEF CloseClear, ManagerFrame, procVars, IndInv, TypeOK, ManagerType, TaskType
<1>2. WorldFrame
  BY WorldStutter DEF CloseClear
<1>3. stopping
  BY DEF CloseClear, IndInv, OpenInv
<1>4. CallerFrame(c)
  BY <1>3 DEF CloseClear, Step, Goto, CallerFrame, CallerState, HashKnown, AnimeKnown,
       IndInv,
     TypeOK, CallerType
<1> QED
  BY <1>1, <1>2, <1>4, FrameInv

\* The pending futures are lost with the executor.
LEMMA CloseShutInv == ASSUME IndInv, NEW c \in Caller, CloseShut(c) PROVE IndInv'
<1> USE DEF IndInv, TypeOK
<1>0. /\ executor' = FALSE /\ pool' = <<>> /\ Return(c) /\ stopping
      /\ tpc' = [t \in Task |-> IF tpc[t] = "submitted" THEN "lost" ELSE tpc[t]]
      /\ UNCHANGED <<queue, queuedHashes, cancelledHashes, active, stopping, anime, hash,
                     found, cancelled, status, ppc, ptask, row, index, client>>
  BY DEF CloseShut, OpenInv, procVars, worldVars
<1>1. \A t \in Task : tpc[t] # "submitted" => tpc'[t] = tpc[t]
  BY <1>0
<1>2. CallerType' /\ cpc' = [cpc EXCEPT ![c] = "idle"]
      /\ \A d \in Caller \ {c} : req'[d] = req[d]
  <2>1. CallerFrame(c)
    BY <1>0, ReturnFrame
  <2> QED
    BY <1>0, <2>1 DEF CallerFrame, Return, Goto
<1>3. ManagerType'
  <2>1. pool' \in Seq(Task)
    BY <1>0
  <2> QED
    BY <1>0, <2>1 DEF ManagerType
<1>4. TaskType' /\ ProcessorType' /\ WorldType'
  BY <1>0 DEF TaskType, TaskState, ProcessorType, WorldType
<1>5. TaskInv'
  BY <1>0 DEF TaskType, TaskInv
<1>6. QueueInv' /\ PoolInv'
  BY <1>0, <1>1 DEF ManagerType, QueueInv, PoolInv, Holds
<1>7. ProcInv' /\ StatusInv'
  BY <1>0, <1>1 DEF TaskType, ProcInv, StatusInv, Waiting
<1>8. PanelInv'
  BY <1>0, <1>1 DEF ManagerType, PanelInv, Shown
<1>9. CallerInv'
  BY <1>0, <1>1, <1>2 DEF CallerType, CallerInv, HashKnown, AnimeKnown, Shown
<1>10. OpenInv'
  BY <1>0, <1>2 DEF CallerType, OpenInv, ReservationBacked
<1>11. IndexInv'
  BY <1>0 DEF TaskType, IndexInv, LiveIndexed
<1> QED
  BY <1>2, <1>3, <1>4, <1>5, <1>6, <1>7, <1>8, <1>9, <1>10, <1>11

\* close() sets the stopping event.
LEMMA CallCloseInv == ASSUME IndInv, NEW c \in Caller, CallClose(c) PROVE IndInv'
<1> USE DEF IndInv, TypeOK
<1>0. /\ stopping' = TRUE /\ cpc' = [cpc EXCEPT ![c] = "clsClear"] /\ cpc[c] = "idle"
      /\ UNCHANGED <<queue, queuedHashes, cancelledHashes, active, executor, pool, tpc, anime,
                     hash, found, cancelled, status, ppc, ptask, row, index, client, req>>
  BY DEF CallClose, Goto, taskVars, procVars, worldVars
<1>1. ManagerType' /\ TaskType' /\ ProcessorType' /\ WorldType'
  BY <1>0 DEF ManagerType, TaskType, ProcessorType, WorldType
<1>2. CallerType'
  BY <1>0 DEF CallerType, CallerState
<1>3. TaskInv' /\ QueueInv' /\ PoolInv' /\ ProcInv' /\ StatusInv'
  BY <1>0 DEF TaskInv, QueueInv, PoolInv, Holds, ProcInv, StatusInv
<1>4. PanelInv' /\ IndexInv'
  BY <1>0 DEF PanelInv, IndexInv, LiveIndexed
<1>5. CallerInv'
  BY <1>0 DEF CallerType, CallerInv, HashKnown, AnimeKnown
<1>6. OpenInv'
  BY <1>0 DEF OpenInv, ReservationBacked
<1> QED
  BY <1>1, <1>2, <1>3, <1>4, <1>5, <1>6

\* Every new call starts with well-formed locals.
LEMMA CallSomethingInv == ASSUME IndInv, NEW c \in Caller, CallSomething(c) PROVE IndInv'
<1> USE DEF AllOps, CallerState, HashKnown, AnimeKnown
<1>1. CASE CallEnqueue(c)
  BY <1>1, CallFrame DEF CallEnqueue
<1>2. CASE CallEnqueueUrl(c)
  BY <1>2, CallFrame DEF CallEnqueueUrl
<1>3. CASE CallCancel(c)
  BY <1>3, CallFrame DEF CallCancel
<1>4. CASE CallSeen(c)
  BY <1>4, CallFrame DEF CallSeen
<1>5. CASE CallCancelHash(c)
  BY <1>5, CallFrame DEF CallCancelHash
<1>6. CASE CallDeleteHash(c)
  BY <1>6, CallFrame DEF CallDeleteHash
<1>7. CASE CallDelete(c)
  BY <1>7, CallFrame DEF CallDelete
<1>8. CASE CallRemovedFile(c)
  BY <1>8, CallFrame DEF CallRemovedFile
<1>9. CASE CallComplete(c)
  BY <1>9, CallFrame DEF CallComplete
<1>10. CASE CallClose(c)
  BY <1>10, CallCloseInv
<1> QED
  BY <1>1, <1>2, <1>3, <1>4, <1>5, <1>6, <1>7, <1>8, <1>9, <1>10 DEF CallSomething

\* Every step of a call.
LEMMA CallerStepInv == ASSUME IndInv, NEW c \in Caller, CallerStep(c) PROVE IndInv'
  BY EnqueueReadInv, EnqueueClearInv, EnqueueDupInv, EnqueueLiveInv, EnqueueIndexInv,
     EnqueuePutInv, EnqueueBoundInv, CancelPopInv, CancelFlagInv, CancelDropInv,
     CancelMarkInv, CancelListInv, RemoveOneInv, RemoveDoneInv, CancelInFlightInv,
     DeleteMapInv, DeleteOwnInv, DeletePeekInv, DeleteMarkInv, SweepListInv, SweepMarkInv,
     CompleteReadInv, CompleteWriteInv, CloseClearInv, CloseShutInv
  DEF CallerStep

\* A download that completes changes no row.
LEMMA ClientFinishInv == ASSUME IndInv, NEW h \in Hash, ClientFinish(h) PROVE IndInv'
<1> USE DEF IndInv, TypeOK
<1>0. /\ client[h] = "active" /\ client' = [client EXCEPT ![h] = "complete"]
      /\ UNCHANGED <<queue, queuedHashes, cancelledHashes, active, stopping, executor, pool,
                     tpc, anime, hash, found, cancelled, status, ppc, ptask, row, index,
                     cpc, req>>
  BY DEF ClientFinish, managerVars, taskVars, procVars, callerVars
<1>1. ManagerType' /\ TaskType' /\ ProcessorType' /\ CallerType'
  BY <1>0 DEF ManagerType, TaskType, ProcessorType, CallerType
<1>2. WorldType' /\ IndexInv'
  BY <1>0 DEF WorldType, ClientState, IndexInv, LiveIndexed
<1>3. TaskInv' /\ QueueInv' /\ PoolInv' /\ ProcInv' /\ StatusInv'
  BY <1>0 DEF TaskInv, QueueInv, PoolInv, Holds, ProcInv, StatusInv
<1>4. PanelInv' /\ CallerInv' /\ OpenInv'
  BY <1>0 DEF PanelInv, CallerInv, OpenInv, ReservationBacked
<1> QED
  BY <1>1, <1>2, <1>3, <1>4

\* The invariant is inductive.
LEMMA NextInv == IndInv /\ [Next]_vars => IndInv'
<1> SUFFICES ASSUME IndInv, [Next]_vars PROVE IndInv'
  OBVIOUS
<1>1. CASE Processor
  BY <1>1, ProcessorInv
<1>2. CASE \E t \in Task : Worker(t)
  BY <1>2, WorkerInv
<1>3. CASE \E c \in Caller : CallSomething(c) \/ CallerStep(c)
  BY <1>3, CallSomethingInv, CallerStepInv
<1>4. CASE \E h \in Hash : ClientFinish(h)
  BY <1>4, ClientFinishInv
<1>5. CASE UNCHANGED vars
  BY <1>5, StutterInv
<1> QED
  BY <1>1, <1>2, <1>3, <1>4, <1>5 DEF Next

-----------------------------------------------------------------------------
(* Cooperative cancellation.                                               *)

\* A cancelled task that has not passed the worker's last look, or has ended
\* without passing it.
Doomed(t) == t \in cancelled /\ tpc[t] \in Waiting \cup Early \cup {"fail", "done", "lost"}

\* The processor moves a doomed task on, answers it or loses it.
LEMMA ProcessorDoomed ==
    ASSUME IndInv, NEW t \in Task, Doomed(t), Processor
    PROVE  Doomed(t)'
<1> USE DEF IndInv, TypeOK
<1>1. CASE ProcessorLoop \/ ProcessorTimeout
  BY <1>1 DEF ProcessorLoop, ProcessorTimeout, Doomed, taskVars
<1>2. CASE ProcessorGet
  <2>1. Head(queue) \in Task /\ tpc' = [tpc EXCEPT ![Head(queue)] = "picked"]
    BY <1>2, HeadTail DEF ProcessorGet, ManagerType
  <2> QED
    BY <1>2, <2>1 DEF ProcessorGet, Doomed, TaskType, Waiting
<1>3. CASE ProcessorRead
  BY <1>3 DEF ProcessorRead, ProcInv, Doomed, TaskType
<1>4. CASE ProcessorCheck
  BY <1>4 DEF ProcessorCheck, ProcInv, Doomed, TaskType, Waiting
<1>5. CASE ProcessorSubmit
  BY <1>5 DEF ProcessorSubmit, ProcInv, Doomed, TaskType, Waiting
<1> QED
  BY <1>1, <1>2, <1>3, <1>4, <1>5 DEF Processor

\* A worker that still looks for cancellations finds this one.
LEMMA WorkerDoomed ==
    ASSUME IndInv, NEW t \in Task, Doomed(t), NEW u \in Task, Worker(u)
    PROVE  Doomed(t)'
<1> USE DEF IndInv, TypeOK, Waiting, Early
<1>1. CASE WorkerPick(u)
  BY <1>1 DEF WorkerPick, Doomed, TaskType
<1>2. CASE WorkerBegin(u)
  BY <1>2 DEF WorkerBegin, Doomed, TaskType
<1>3. CASE WorkerStart(u) \/ WorkerPrepare(u) \/ WorkerCheck(u)
  BY <1>3 DEF WorkerStart, WorkerPrepare, WorkerCheck, Local, Doomed, TaskType, IsCancelled
<1>4. CASE WorkerSave(u) \/ WorkerLookup(u) \/ WorkerAdd(u)
  <2>1. u # t /\ cancelled' = cancelled /\ \E pc : tpc' = [tpc EXCEPT ![u] = pc]
    BY <1>4 DEF WorkerSave, WorkerLookup, WorkerAdd, Local, Doomed
  <2> QED
    BY <2>1 DEF Doomed, TaskType
<1>5. CASE WorkerFinish(u)
  BY <1>5 DEF WorkerFinish, Doomed, TaskType
<1> QED
  BY <1>1, <1>2, <1>3, <1>4, <1>5 DEF Worker

\* A request never revives a task, nor clears its flag.
LEMMA CallerDoomed ==
    ASSUME IndInv, NEW t \in Task, Doomed(t), NEW c \in Caller,
           CallSomething(c) \/ CallerStep(c)
    PROVE  Doomed(t)'
<1> USE DEF IndInv, TypeOK
<1>1. CASE EnqueuePut(c)
  <2>1. /\ cancelled' = cancelled
        /\ \/ tpc' = tpc
           \/ \E u \in Task : tpc[u] = "new" /\ tpc' = [tpc EXCEPT ![u] = "queued"]
    BY <1>1 DEF EnqueuePut, taskVars
  <2> QED
    BY <2>1 DEF Doomed, TaskType, Waiting, Early
<1>2. CASE CloseShut(c)
  BY <1>2 DEF CloseShut, Doomed, TaskType
<1>3. CASE CancelFlag(c) \/ CancelInFlight(c) \/ CloseClear(c)
  BY <1>3 DEF CancelFlag, CancelInFlight, CloseClear, Doomed
<1>4. CASE UNCHANGED taskVars
  BY <1>4 DEF Doomed, taskVars
<1>5. \/ EnqueuePut(c) \/ CloseShut(c) \/ CancelFlag(c) \/ CancelInFlight(c)
      \/ CloseClear(c) \/ UNCHANGED taskVars
  <2>1. CASE CallSomething(c)
    BY <2>1 DEF CallSomething, CallEnqueue, CallEnqueueUrl, CallCancel, CallSeen,
         CallCancelHash, CallDeleteHash, CallDelete, CallRemovedFile, CallComplete,
         CallClose, Call
  <2>2. CASE CallerStep(c)
    BY <2>2 DEF CallerStep, EnqueueRead, EnqueueClear, EnqueueDup, EnqueueLive,
         EnqueueIndex, EnqueueBound, CancelPop, CancelDrop, CancelMark, CancelList,
         RemoveOne, RemoveDone, DeleteMap, DeleteOwn, DeletePeek, DeleteMark,
         SweepList, SweepMark, CompleteRead, CompleteWrite
  <2> QED
    BY <2>1, <2>2
<1> QED
  BY <1>1, <1>2, <1>3, <1>4, <1>5

\* A doomed task stays doomed.
LEMMA DoomedStep ==
    ASSUME NEW t \in Task
    PROVE  IndInv /\ Doomed(t) /\ [Next]_vars => Doomed(t)'
<1> SUFFICES ASSUME IndInv, Doomed(t), [Next]_vars PROVE Doomed(t)'
  OBVIOUS
<1>1. CASE \E h \in Hash : ClientFinish(h)
  BY <1>1 DEF ClientFinish, Doomed, taskVars
<1>2. CASE UNCHANGED vars
  BY <1>2 DEF Doomed, vars, taskVars
<1> QED
  BY <1>1, <1>2, ProcessorDoomed, WorkerDoomed, CallerDoomed DEF Next

-----------------------------------------------------------------------------
(* One task per infohash, where nobody cancels, deletes, closes or hides   *)
(* the hash behind a .torrent URL.                                         *)

\* The operations that let go of a reservation, or never make one.
Releasing == {"enqueueUrl", "cancel", "cancelHash", "delete", "deleteHash", "seen",
              "close"}

\* The points of the calls that such an operation makes.
ReleasingAt == {"canPop", "canFlag", "canDrop", "canMark", "canList", "inFlight",
                "dbhMap", "delOwn", "delPeek", "delMark", "clsClear", "clsShut"}

\* A task in flight knows its hash and has it reserved; only enqueue puts.
FlightInv ==
    /\ \A t \in Task : tpc[t] \in InFlight =>
          hash[t] = found[t] /\ hash[t] \in Hash /\ hash[t] \in queuedHashes
    /\ SingleFlight
    /\ \A c \in Caller :
          /\ cpc[c] \notin ReleasingAt
          /\ cpc[c] \in {"enqRead", "enqClear", "enqDup", "enqLive", "enqIndex", "enqPut"}
                => req[c].op = "enqueue"

\* Nothing is in flight at the start.
LEMMA FlightInit == Init => FlightInv
  BY DEF Init, FlightInv, SingleFlight, InFlight, Waiting, Running, Early, Late, ReleasingAt

\* A task that stays in flight, or leaves it with its own hash: the others keep
\* their reservations.
LEMMA FlightFrame ==
    ASSUME IndInv, FlightInv, NEW t \in Task, NEW pc \in TaskState \ {"new"},
           tpc[t] \in InFlight, tpc' = [tpc EXCEPT ![t] = pc],
           \/ queuedHashes' = queuedHashes
           \/ pc \notin InFlight /\ queuedHashes' = queuedHashes \ {hash[t]},
           UNCHANGED <<hash, found, callerVars>>
    PROVE  FlightInv'
<1> USE DEF IndInv, TypeOK, TaskType, callerVars
<1>1. \A u \in Task : tpc'[u] \in InFlight => tpc[u] \in InFlight
  OBVIOUS
<1>2. SingleFlight'
  BY <1>1 DEF FlightInv, SingleFlight
<1>3. ASSUME NEW u \in Task, tpc'[u] \in InFlight
      PROVE  hash'[u] = found'[u] /\ hash'[u] \in Hash /\ hash'[u] \in queuedHashes'
  <2>1. hash[u] = found[u] /\ hash[u] \in Hash /\ hash[u] \in queuedHashes
    BY <1>1, <1>3 DEF FlightInv
  <2>2. CASE queuedHashes' = queuedHashes
    BY <2>1, <2>2
  <2>3. CASE pc \notin InFlight /\ queuedHashes' = queuedHashes \ {hash[t]}
    <3>1. u # t
      BY <1>3, <2>3
    <3>2. hash[u] # hash[t]
      BY <1>1, <1>3, <2>1, <3>1 DEF FlightInv, SingleFlight
    <3> QED
      BY <2>1, <2>3, <3>2
  <2> QED
    BY <2>2, <2>3
<1> QED
  BY <1>2, <1>3 DEF FlightInv

\* The processor moves tasks, and lets go of those cancelled while they waited.
LEMMA ProcessorFlight == IndInv /\ FlightInv /\ Processor => FlightInv'
<1> SUFFICES ASSUME IndInv, FlightInv, Processor PROVE FlightInv'
  OBVIOUS
<1> USE DEF IndInv, TypeOK, InFlight, Waiting, TaskState, worldVars, callerVars
<1>1. CASE ProcessorLoop \/ ProcessorTimeout
  BY <1>1 DEF ProcessorLoop, ProcessorTimeout, FlightInv, SingleFlight, managerVars, taskVars
<1>2. CASE ProcessorGet
  <2>1. Head(queue) \in Task /\ tpc[Head(queue)] = "queued"
    BY <1>2, HeadTail DEF ProcessorGet, ManagerType, QueueInv, Holds
  <2> QED
    BY <1>2, <2>1, FlightFrame DEF ProcessorGet
<1>3. CASE ProcessorRead
  <2>1. CASE executor
    BY <1>3, <2>1 DEF ProcessorRead, FlightInv, SingleFlight, managerVars
  <2>2. CASE ~executor
    BY <1>3, <2>2, FlightFrame DEF ProcessorRead, ProcInv, managerVars
  <2> QED
    BY <2>1, <2>2
<1>4. CASE ProcessorCheck
  <2>1. ptask \in Task /\ tpc[ptask] = "picked"
    BY <1>4 DEF ProcessorCheck, ProcInv
  <2>2. CASE IsCancelled(ptask)
    BY <1>4, <2>1, <2>2, FlightFrame DEF ProcessorCheck, Release, Running, Early, Late
  <2>3. CASE ~IsCancelled(ptask)
    BY <1>4, <2>1, <2>3, FlightFrame DEF ProcessorCheck
  <2> QED
    BY <2>2, <2>3
<1>5. CASE ProcessorSubmit
  BY <1>5, FlightFrame DEF ProcessorSubmit, ProcInv
<1> QED
  BY <1>1, <1>2, <1>3, <1>4, <1>5 DEF Processor

\* A worker releases its own hash, at the end and never twice.
LEMMA WorkerFlight ==
    ASSUME IndInv, FlightInv, NEW t \in Task, Worker(t)
    PROVE  FlightInv'
<1> USE DEF IndInv, TypeOK, InFlight, Waiting, Running, Early, Late, TaskState, callerVars
<1>1. CASE WorkerPick(t)
  <2>1. tpc[t] = "submitted"
    BY <1>1, HeadTail DEF WorkerPick, ManagerType, PoolInv, Holds
  <2> QED
    BY <1>1, <2>1, FlightFrame DEF WorkerPick
<1>2. CASE WorkerBegin(t)
  <2>1. CASE IsCancelled(t)
    BY <1>2, <2>1, FlightFrame DEF WorkerBegin, Release
  <2>2. CASE ~IsCancelled(t)
    BY <1>2, <2>2, FlightFrame DEF WorkerBegin
  <2> QED
    BY <2>1, <2>2
<1>3. CASE WorkerFinish(t)
  BY <1>3, FlightFrame DEF WorkerFinish, Release
<1>4. CASE \/ WorkerStart(t) \/ WorkerPrepare(t) \/ WorkerCheck(t)
           \/ WorkerSave(t) \/ WorkerLookup(t) \/ WorkerAdd(t)
  <2>1. PICK pc \in Running : Local(t, pc)
    BY <1>4 DEF WorkerStart, WorkerPrepare, WorkerCheck, WorkerSave, WorkerLookup, WorkerAdd
  <2>2. tpc[t] \in InFlight
    BY <1>4 DEF WorkerStart, WorkerPrepare, WorkerCheck, WorkerSave, WorkerLookup, WorkerAdd
  <2>3. hash' = hash \/ hash' = [hash EXCEPT ![t] = found[t]]
    BY <1>4 DEF WorkerStart, WorkerPrepare, WorkerCheck, WorkerSave, WorkerLookup, WorkerAdd
  <2>4. hash[t] = found[t]
    BY <2>2 DEF FlightInv
  <2>5. hash' = hash
    BY <2>3, <2>4 DEF TaskType
  <2> QED
    BY <2>1, <2>2, <2>5, FlightFrame DEF Local, managerVars
<1> QED
  BY <1>1, <1>2, <1>3, <1>4 DEF Worker

\* enqueue_download: the second look, under the lock, finds every task in flight.
LEMMA EnqueuePutFlight ==
    ASSUME IndInv, FlightInv, NEW c \in Caller, EnqueuePut(c)
    PROVE  FlightInv'
<1> USE DEF IndInv, TypeOK, CallerType
<1> DEFINE h == req[c].hash
<1>1. h \in Hash /\ req[c].op = "enqueue"
  BY DEF EnqueuePut, CallerInv, HashKnown, FlightInv
<1>2. \A d \in Caller : /\ cpc'[d] \in {cpc[d], "idle"}
                        /\ cpc'[d] = "idle" \/ req'[d] = req[d]
  BY DEF EnqueuePut, Return, Goto
<1>3. \A d \in Caller :
          /\ cpc'[d] \notin ReleasingAt
          /\ cpc'[d] \in {"enqRead", "enqClear", "enqDup", "enqLive", "enqIndex", "enqPut"}
                => req'[d].op = "enqueue"
  BY <1>2 DEF FlightInv, ReleasingAt
<1>4. CASE AlreadyQueued(c)
  BY <1>3, <1>4 DEF EnqueuePut, FlightInv, SingleFlight, managerVars, taskVars
<1>5. CASE ~AlreadyQueued(c)
  <2>1. PICK t \in Task : /\ tpc[t] = "new"
                          /\ queuedHashes' = queuedHashes \cup {h}
                          /\ tpc' = [tpc EXCEPT ![t] = "queued"]
                          /\ hash' = [hash EXCEPT ![t] = h]
                          /\ found' = [found EXCEPT ![t] = h]
    BY <1>1, <1>5 DEF EnqueuePut
  <2>2. h \notin queuedHashes
    BY <1>1, <1>5 DEF AlreadyQueued
  <2>3. \A u \in Task : u # t /\ tpc[u] \in InFlight => hash[u] # h
    BY <2>2 DEF FlightInv
  <2> HIDE DEF h
  <2>4. \A u \in Task : u # t => tpc'[u] = tpc[u] /\ hash'[u] = hash[u] /\ found'[u] = found[u]
    BY <2>1 DEF TaskType
  <2>5. hash'[t] = h /\ found'[t] = h
    BY <2>1 DEF TaskType
  <2>6. \A u \in Task : tpc'[u] \in InFlight =>
           hash'[u] = found'[u] /\ hash'[u] \in Hash /\ hash'[u] \in queuedHashes'
    BY <1>1, <2>1, <2>4, <2>5 DEF FlightInv
  <2>7. SingleFlight'
    BY <2>3, <2>4, <2>5 DEF FlightInv, SingleFlight
  <2> QED
    BY <1>3, <2>6, <2>7 DEF FlightInv
<1> QED
  BY <1>4, <1>5

\* The other requests leave tasks and reservations alone.
LEMMA CallerFlight ==
    ASSUME Ops \cap Releasing = {}, IndInv, FlightInv, NEW c \in Caller,
           CallSomething(c) \/ CallerStep(c)
    PROVE  FlightInv'
<1> USE DEF IndInv, TypeOK, CallerType
<1> DEFINE Enq == {"enqRead", "enqClear", "enqDup", "enqLive", "enqIndex", "enqPut"}
<1>0. ASSUME UNCHANGED <<managerVars, taskVars>>,
             \A d \in Caller \ {c} : cpc'[d] = cpc[d] /\ req'[d] = req[d],
             cpc'[c] \notin ReleasingAt,
             cpc'[c] \in Enq => req'[c].op = "enqueue"
      PROVE  FlightInv'
  <2>1. SingleFlight'
    BY <1>0 DEF FlightInv, SingleFlight, managerVars, taskVars
  <2>2. \A u \in Task : tpc'[u] \in InFlight =>
           hash'[u] = found'[u] /\ hash'[u] \in Hash /\ hash'[u] \in queuedHashes'
    BY <1>0 DEF FlightInv, managerVars, taskVars
  <2>3. \A d \in Caller : cpc'[d] \notin ReleasingAt /\ (cpc'[d] \in Enq => req'[d].op = "enqueue")
    BY <1>0 DEF FlightInv
  <2> QED
    BY <2>1, <2>2, <2>3 DEF FlightInv
<1>1. CASE CallSomething(c)
  <2>1. CallEnqueue(c) \/ CallRemovedFile(c) \/ CallComplete(c)
    BY <1>1 DEF CallSomething, CallEnqueueUrl, CallCancel, CallSeen, CallCancelHash,
         CallDeleteHash, CallDelete, CallClose, Call, Releasing
  <2>2. PICK op \in {"enqueue", "removedFile", "complete"},
             pc \in {"enqRead", "swpList", "cplRead"},
             a \in Anime \cup {None}, h \in Hash \cup {None} :
                Call(c, op, pc, a, h) /\ (pc \in Enq => op = "enqueue")
    <3>1. CASE CallEnqueue(c)
      BY <3>1 DEF CallEnqueue
    <3>2. CASE CallRemovedFile(c)
      BY <3>2 DEF CallRemovedFile
    <3>3. CASE CallComplete(c)
      BY <3>3 DEF CallComplete
    <3> QED
      BY <2>1, <3>1, <3>2, <3>3
  <2>3. /\ cpc' = [cpc EXCEPT ![c] = pc]
        /\ req' = [req EXCEPT ![c] = [NoRequest EXCEPT !.op = op, !.anime = a, !.hash = h]]
        /\ UNCHANGED <<managerVars, taskVars>>
    BY <2>2 DEF Call, Goto
  <2>4. req'[c].op = op
    BY <2>3 DEF NoRequest
  <2> QED
    BY <1>0, <2>2, <2>3, <2>4 DEF ReleasingAt
<1>2. CASE EnqueuePut(c)
  BY <1>2, EnqueuePutFlight
<1>3. CASE CallerStep(c) /\ ~EnqueuePut(c)
  <2>1. cpc[c] \notin ReleasingAt
    BY DEF FlightInv
  <2>2. \/ EnqueueRead(c) \/ EnqueueClear(c) \/ EnqueueDup(c) \/ EnqueueLive(c)
        \/ EnqueueIndex(c) \/ EnqueueBound(c) \/ RemoveOne(c) \/ RemoveDone(c)
        \/ SweepList(c) \/ SweepMark(c) \/ CompleteRead(c) \/ CompleteWrite(c)
    BY <1>3, <2>1 DEF CallerStep, CancelPop, CancelFlag, CancelDrop, CancelMark, CancelList,
         CancelInFlight, DeleteMap, DeleteOwn, DeletePeek, DeleteMark, CloseClear, CloseShut,
         ReleasingAt
  <2>3. UNCHANGED <<managerVars, taskVars>>
    BY <2>2 DEF EnqueueRead, EnqueueClear, EnqueueDup, EnqueueLive, EnqueueIndex,
         EnqueueBound, RemoveOne, RemoveDone, SweepList, SweepMark, CompleteRead, CompleteWrite
  <2>4. CASE EnqueueRead(c) \/ EnqueueDup(c) \/ EnqueueLive(c) \/ EnqueueIndex(c)
    <3>1. cpc[c] \in Enq
      BY <2>4 DEF EnqueueRead, EnqueueDup, EnqueueLive, EnqueueIndex
    <3>2. Return(c) \/ \E pc \in Enq : Step(c, pc)
      BY <2>4 DEF EnqueueRead, EnqueueDup, EnqueueLive, EnqueueIndex
    <3>3. /\ \A d \in Caller \ {c} : cpc'[d] = cpc[d] /\ req'[d] = req[d]
          /\ \/ cpc'[c] = "idle"
             \/ cpc'[c] \in Enq /\ req'[c] = req[c]
      BY <3>2 DEF Return, Step, Goto
    <3> QED
      BY <1>0, <2>3, <3>1, <3>3 DEF FlightInv, ReleasingAt
  <2>5. CASE EnqueueClear(c)
    <3>1. req[c].op = "enqueue"
      BY <2>5 DEF EnqueueClear, FlightInv
    <3>2. req'[c].op = req[c].op /\ cpc'[c] = "enqDup"
      BY <2>5 DEF EnqueueClear, Goto
    <3>3. \A d \in Caller \ {c} : cpc'[d] = cpc[d] /\ req'[d] = req[d]
      BY <2>5 DEF EnqueueClear, Goto
    <3> QED
      BY <1>0, <2>3, <3>1, <3>2, <3>3 DEF ReleasingAt
  <2>6. CASE \/ EnqueueBound(c) \/ RemoveOne(c) \/ RemoveDone(c)
             \/ SweepList(c) \/ SweepMark(c) \/ CompleteRead(c) \/ CompleteWrite(c)
    <3>1. /\ \A d \in Caller \ {c} : cpc'[d] = cpc[d] /\ req'[d] = req[d]
          /\ cpc'[c] \in {"idle", "swpList", "swpMark", "remove", "cplWrite"}
      BY <2>6 DEF EnqueueBound, RemoveOne, RemoveDone, SweepList, SweepMark,
           CompleteRead, CompleteWrite, Return, Step, Goto
    <3> QED
      BY <1>0, <2>3, <3>1 DEF ReleasingAt
  <2> QED
    BY <2>2, <2>4, <2>5, <2>6
<1> QED
  BY <1>1, <1>2, <1>3

\* Every step keeps at most one task in flight per infohash.
LEMMA FlightStep ==
    ASSUME Ops \cap Releasing = {}
    PROVE  IndInv /\ FlightInv /\ [Next]_vars => FlightInv'
<1> SUFFICES ASSUME IndInv, FlightInv, [Next]_vars PROVE FlightInv'
  OBVIOUS
<1>1. CASE \E h \in Hash : ClientFinish(h)
  BY <1>1 DEF ClientFinish, FlightInv, SingleFlight, managerVars, taskVars, callerVars
<1>2. CASE UNCHANGED vars
  BY <1>2 DEF FlightInv, SingleFlight, vars, managerVars, taskVars, callerVars
<1> QED
  BY <1>1, <1>2, ProcessorFlight, WorkerFlight, CallerFlight DEF Next

-----------------------------------------------------------------------------
(* The theorems. *)

\* IndInv holds in every reachable state, whatever the sizes of the system.
THEOREM Inductive == Spec => []IndInv
<1>1. Init => IndInv
  BY InitInv
<1>2. IndInv /\ [Next]_vars => IndInv'
  BY NextInv
<1> QED
  BY <1>1, <1>2, PTL DEF Spec

\* Type correctness of the manager, its tasks, threads, tables and client.
THEOREM TypeCorrect == Spec => []TypeOK
<1>1. IndInv => TypeOK
  BY DEF IndInv
<1> QED
  BY <1>1, Inductive, PTL

\* While the manager is open, a hash in _queued_hashes always belongs to a task
\* that is in flight and will discard it.
THEOREM ReservationsBacked == Spec => []ReservationBacked
<1>1. IndInv => ReservationBacked
  BY DEF IndInv, OpenInv
<1> QED
  BY <1>1, Inductive, PTL

\* _active_downloads never shows a cancelled, failed or foreign task.
THEOREM PanelIsSound == Spec => []PanelSound
<1>1. IndInv => PanelSound
  BY DEF IndInv, PanelInv, PanelSound, Shown, Running, Early, Late
<1> QED
  BY <1>1, Inductive, PTL

\* Whatever database and client calls fail, no live torrent is unassociated.
THEOREM LiveIsIndexed == Spec => []LiveIndexed
<1>1. IndInv => LiveIndexed
  BY DEF IndInv, IndexInv
<1> QED
  BY <1>1, Inductive, PTL

\* A task that was cancelled before the worker's last look never gets as far as
\* the database or the torrent client.
THEOREM CancelIsHonoured == Spec => CancelHonoured
<1>1. ASSUME NEW t \in Task
      PROVE  Spec => []( t \in cancelled /\ tpc[t] \in Waiting \cup Early
                         => [](tpc[t] \notin {"save", "lookup", "add", "succeed"}) )
  <2>1. t \in cancelled /\ tpc[t] \in Waiting \cup Early => Doomed(t)
    BY DEF Doomed
  <2>2. IndInv /\ Doomed(t) /\ [Next]_vars => Doomed(t)'
    BY DoomedStep
  <2>3. Doomed(t) => tpc[t] \notin {"save", "lookup", "add", "succeed"}
    BY DEF Doomed, Waiting, Early
  <2> QED
    BY <2>1, <2>2, <2>3, Inductive, PTL DEF Spec
<1> QED
  BY <1>1 DEF CancelHonoured

\* Where nobody cancels, deletes or closes, and every infohash is known when its
\* download is asked for, no infohash has two tasks in flight: the second, locked
\* look at _queued_hashes makes up for the unlocked first one.
THEOREM OneTaskPerHash ==
    ASSUME Ops \cap Releasing = {}
    PROVE  Spec => []SingleFlight
<1>1. Init => FlightInv
  BY FlightInit
<1>2. IndInv /\ FlightInv /\ [Next]_vars => FlightInv'
  BY FlightStep
<1>3. FlightInv => SingleFlight
  BY DEF FlightInv
<1> QED
  BY <1>1, <1>2, <1>3, Inductive, PTL DEF Spec
=============================================================================
