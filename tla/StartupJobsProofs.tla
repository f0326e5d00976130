------------------------- MODULE StartupJobsProofs -------------------------
(***************************************************************************)
(* Machine-checked proofs about StartupJobs, for every number of rows,     *)
(* loop threads, callers, runs, faults, crashes and stops: the type        *)
(* invariant, JobsExclusive and MigrationComplete.                         *)
(*                                                                         *)
(* IndInv adds what the flag _running stands for (while it is FALSE nobody *)
(* is at work, and whoever is at work is alone) and what a half-done date  *)
(* repair still has in hand.                                               *)
(***************************************************************************)
EXTENDS StartupJobs, FiniteSetTheorems, TLAPS

AtWork == {"fetch", "update", "leave"}

\* _running is the lock of the jobs.
ExclusiveInv ==
    /\ ~running => pipe \notin {"jobs", "repair"} /\ \A s \in Slot : loop[s] \notin AtWork
    /\ pipe \in {"jobs", "repair"} => \A s \in Slot : loop[s] \notin AtWork
    /\ \A s, t \in Slot : loop[s] \in AtWork /\ loop[t] \in AtWork => s = t

\* Every row that still has ordinal dates is yet to be looked at, pending, or was
\* flushed without effect.
MigrationInv ==
    /\ migrated => ordinal \subseteq undone
    /\ pipe = "repair" => ordinal \subseteq todo \cup pending \cup undone

IndInv == TypeOK /\ ExclusiveInv /\ MigrationInv

-----------------------------------------------------------------------------
(* Types. *)

\* No batch of rows is larger than the table.
LEMMA PendingFits == \A S \in SUBSET Row : Cardinality(S) <= Cardinality(Row)
<1>1. Row = 1..Rows /\ IsFiniteSet(1..Rows)
  BY JobsBounds, FS_Interval DEF Row
<1> QED
  BY <1>1, FS_Subset

\* The faults of a run stay within their bound.
LEMMA FaultCounted == faults \in 0..MaxFaults /\ (Fault \/ NoFault) => faults' \in 0..MaxFaults
BY JobsBounds DEF Fault, NoFault

\* The pipeline has two entries.
LEMMA JobCount == Len(Jobs) = 2
BY DEF Jobs

\* Every step keeps the types; no status runs ahead of the calendar.
LEMMA TypeStep == IndInv /\ [Next]_vars => TypeOK'
<1> SUFFICES ASSUME IndInv, [Next]_vars PROVE TypeOK'
  OBVIOUS
<1> USE JobsBounds, PendingFits, FaultCounted, JobCount DEF IndInv
<1>1. ASSUME RunInBackground PROVE TypeOK'
  BY <1>1 DEF RunInBackground, stored, None, TypeOK, PipePc, LoopPc, Row, Slot, Stage,
      NoSlot
<1>2. ASSUME PipeEnter PROVE TypeOK'
  <2>1. pipe' \in PipePc /\ job' \in 1..(Len(Jobs) + 1)
    BY <1>2 DEF PipeEnter, TypeOK, PipePc, None
  <2>2. running' \in BOOLEAN
    BY <1>2 DEF PipeEnter, TypeOK
  <2> QED
    BY <1>2, <2>1, <2>2 DEF PipeEnter, stored, world, TypeOK
<1>3. ASSUME RepairScan PROVE TypeOK'
  <2>1. pipe' \in PipePc /\ job' \in 1..(Len(Jobs) + 1)
    BY <1>3 DEF RepairScan, TypeOK, PipePc
  <2>3. migrated' \in BOOLEAN
    BY <1>3 DEF RepairScan, TypeOK
  <2>2. todo' \subseteq Row /\ pending' \subseteq Row /\ (Fault \/ NoFault)
    BY <1>3 DEF RepairScan, TypeOK, NoFault
  <2> QED
    BY <1>3, <2>1, <2>2, <2>3 DEF RepairScan, TypeOK
<1>4. ASSUME NEW r \in Row, RepairRow(r) PROVE TypeOK'
  BY <1>4 DEF RepairRow, FlushRepairs, TypeOK, PipePc, LoopPc, Row, Slot, Stage, NoSlot
<1>5. ASSUME RepairEnd PROVE TypeOK'
  <2>1. pipe' \in PipePc /\ job' \in 1..(Len(Jobs) + 1) /\ migrated' \in BOOLEAN
    BY <1>5 DEF RepairEnd, PipePc
  <2>2. /\ ordinal' \subseteq Row /\ pending' \subseteq Row /\ undone' \subseteq Row
        /\ Fault \/ NoFault
    BY <1>5 DEF RepairEnd, LeftOver, FlushRepairs, TypeOK, NoFault
  <2> QED
    BY <1>5, <2>1, <2>2 DEF RepairEnd, TypeOK
<1>6. ASSUME OtherJob PROVE TypeOK'
  BY <1>6 DEF OtherJob, world, stored, TypeOK, PipePc, LoopPc, Row, Slot, Stage, NoSlot
<1>7. ASSUME PipeLeave PROVE TypeOK'
  BY <1>7 DEF PipeLeave, world, stored, None, TypeOK, PipePc, LoopPc, Row, Slot, Stage,
      NoSlot
<1>8. ASSUME NEW c \in Caller, StartCheck(c) PROVE TypeOK'
  BY <1>8 DEF StartCheck, world, stored, ThreadAlive, None, TypeOK, PipePc, LoopPc, Row,
      Slot, Stage, NoSlot
<1>9. ASSUME NEW c \in Caller, NEW s \in Slot, StartThread(c, s) PROVE TypeOK'
  BY <1>9 DEF StartThread, world, stored, None, TypeOK, PipePc, LoopPc, Row, Slot, Stage,
      NoSlot
<1>10. ASSUME Stop PROVE TypeOK'
  BY <1>10 DEF Stop, stored, TypeOK, PipePc, LoopPc, Row, Slot, Stage, NoSlot
<1>11. ASSUME NEW s \in Slot, LoopDelay(s) PROVE TypeOK'
  BY <1>11 DEF LoopDelay, LoopOnly, world, stored, None, Stopped, LoopGoto, TypeOK, PipePc,
      LoopPc, Row, Slot, Stage, NoSlot
<1>12. ASSUME NEW s \in Slot, LoopTop(s) PROVE TypeOK'
  BY <1>12 DEF LoopTop, LoopOnly, world, stored, None, Stopped, LoopGoto, TypeOK, PipePc,
      LoopPc, Row, Slot, Stage, NoSlot
<1>13. ASSUME NEW s \in Slot, LoopAfter(s) PROVE TypeOK'
  BY <1>13 DEF LoopAfter, LoopOnly, world, stored, None, Stopped, LoopGoto, TypeOK, PipePc,
      LoopPc, Row, Slot, Stage, NoSlot
<1>14. ASSUME NEW s \in Slot, LoopWake(s) PROVE TypeOK'
  BY <1>14 DEF LoopWake, LoopOnly, world, stored, None, Stopped, LoopGoto, TypeOK, PipePc,
      LoopPc, Row, Slot, Stage, NoSlot
<1>15. ASSUME NEW s \in Slot, RefreshEnter(s) PROVE TypeOK'
  BY <1>15 DEF RefreshEnter, world, stored, SomebodyRuns, LoopGoto, TypeOK, PipePc, LoopPc,
      Row, Slot, Stage, NoSlot
<1>16. ASSUME NEW s \in Slot, Fetch(s) PROVE TypeOK'
  BY <1>16 DEF Fetch, LoopGoto, TypeOK, PipePc, LoopPc, Row, Slot, Stage, NoSlot
<1>17. ASSUME NEW s \in Slot, UpdateStatus(s) PROVE TypeOK'
  <2>1. (Fault \/ NoFault) /\ loop' \in [Slot -> LoopPc]
    BY <1>17 DEF UpdateStatus, LoopGoto, TypeOK, LoopPc
  <2>2. status' \in [Row -> Stage] /\ \A r \in Row : status'[r] <= airs[r]
    <3>1. CASE status' = status
      BY <3>1 DEF TypeOK
    <3>2. ASSUME NEW n \in Saved, status' = [r \in Row |-> IF r \in Moved(n) THEN n ELSE status[r]]
          PROVE  status' \in [Row -> Stage] /\ \A r \in Row : status'[r] <= airs[r]
      <4>1. n \in {2, 3} /\ n \in Stage
        BY DEF Saved, Transitions, Stage
      <4>2. \A r \in Moved(n) : airs[r] = n
        BY DEF Moved, Started
      <4> QED
        BY <3>2, <4>1, <4>2 DEF TypeOK, Stage
    <3> QED
      BY <1>17, <3>1, <3>2 DEF UpdateStatus
  <2> QED
    BY <1>17, <2>1, <2>2 DEF UpdateStatus, TypeOK
<1>18. ASSUME NEW s \in Slot, RefreshLeave(s) PROVE TypeOK'
  BY <1>18 DEF RefreshLeave, world, stored, NotRunning, LoopGoto, TypeOK, PipePc, LoopPc,
      Row, Slot, Stage, NoSlot
<1>19. ASSUME Day PROVE TypeOK'
  BY <1>19 DEF Day, service, TypeOK, PipePc, LoopPc, Row, Slot, Stage, NoSlot
<1>20. ASSUME Outage PROVE TypeOK'
  <2>1. faults' \in 0..MaxFaults
    BY <1>20, FaultCounted DEF Outage, TypeOK, Fault
  <2> QED
    BY <1>20, <2>1 DEF Outage, service, stored, TypeOK
<1>21. ASSUME Recovery PROVE TypeOK'
  BY <1>21 DEF Recovery, stored, service, TypeOK, PipePc, LoopPc, Row, Slot, Stage, NoSlot
<1>22. ASSUME Crash PROVE TypeOK'
  <2>1. crashes' \in 0..MaxCrashes
    BY <1>22 DEF Crash, TypeOK
  <2>2. pipe' \in PipePc /\ job' \in 1..(Len(Jobs) + 1)
    BY <1>22 DEF Crash, PipePc, None
  <2>3. loop' \in [Slot -> LoopPc] /\ thread' \in 0..Slots
    BY <1>22 DEF Crash, NoThread, NoSlot, LoopPc
  <2>4. todo' \subseteq Row /\ pending' \subseteq Row /\ caller' \subseteq Caller
    BY <1>22 DEF Crash
  <2> QED
    BY <1>22, <2>1, <2>2, <2>3, <2>4 DEF Crash, stored, TypeOK
<1>23. CASE UNCHANGED vars
  BY <1>23 DEF vars, service, stored, world, TypeOK, PipePc, LoopPc, Row,
      Slot, Stage, NoSlot
<1> QED
  BY <1>1, <1>2, <1>3, <1>4, <1>5, <1>6, <1>7, <1>8, <1>9, <1>10, <1>11, <1>12, <1>13,
      <1>14, <1>15, <1>16, <1>17, <1>18, <1>19, <1>20, <1>21, <1>22, <1>23 DEF Next, Pipeline,
      LoopStep

-----------------------------------------------------------------------------
(* The flag and the migration. *)

\* Jobs start under a flag that was down, and take it down at their end.
LEMMA ExclusiveStep == IndInv /\ [Next]_vars => ExclusiveInv'
<1> SUFFICES ASSUME IndInv, [Next]_vars PROVE ExclusiveInv'
  OBVIOUS
<1> USE DEF IndInv
<1>1. ASSUME RunInBackground PROVE ExclusiveInv'
  BY <1>1 DEF RunInBackground, stored, None, ExclusiveInv, TypeOK, AtWork
<1>2. ASSUME PipeEnter PROVE ExclusiveInv'
  BY <1>2 DEF PipeEnter, world, stored, None, SomebodyRuns, ExclusiveInv, TypeOK, AtWork
<1>3. ASSUME RepairScan PROVE ExclusiveInv'
  BY <1>3 DEF RepairScan, ExclusiveInv, TypeOK, AtWork, None
<1>4. ASSUME NEW r \in Row, RepairRow(r) PROVE ExclusiveInv'
  BY <1>4 DEF RepairRow, FlushRepairs, ExclusiveInv, TypeOK, AtWork, None
<1>5. ASSUME RepairEnd PROVE ExclusiveInv'
  BY <1>5 DEF RepairEnd, LeftOver, FlushRepairs, ExclusiveInv, TypeOK, AtWork, None
<1>6. ASSUME OtherJob PROVE ExclusiveInv'
  BY <1>6 DEF OtherJob, world, stored, ExclusiveInv, TypeOK, AtWork, None
<1>7. ASSUME PipeLeave PROVE ExclusiveInv'
  BY <1>7 DEF PipeLeave, world, stored, None, ExclusiveInv, TypeOK, AtWork
<1>8. ASSUME NEW c \in Caller, StartCheck(c) PROVE ExclusiveInv'
  BY <1>8 DEF StartCheck, world, stored, ThreadAlive, None, ExclusiveInv, TypeOK, AtWork
<1>9. ASSUME NEW c \in Caller, NEW s \in Slot, StartThread(c, s) PROVE ExclusiveInv'
  BY <1>9 DEF StartThread, world, stored, None, ExclusiveInv, TypeOK, AtWork
<1>10. ASSUME Stop PROVE ExclusiveInv'
  BY <1>10 DEF Stop, stored, ExclusiveInv, TypeOK, AtWork, None
<1>11. ASSUME NEW s \in Slot, LoopDelay(s) PROVE ExclusiveInv'
  BY <1>11 DEF LoopDelay, LoopOnly, world, stored, None, Stopped, LoopGoto, ExclusiveInv,
      TypeOK, AtWork
<1>12. ASSUME NEW s \in Slot, LoopTop(s) PROVE ExclusiveInv'
  BY <1>12 DEF LoopTop, LoopOnly, world, stored, None, Stopped, LoopGoto, ExclusiveInv,
      TypeOK, AtWork
<1>13. ASSUME NEW s \in Slot, LoopAfter(s) PROVE ExclusiveInv'
  BY <1>13 DEF LoopAfter, LoopOnly, world, stored, None, Stopped, LoopGoto, ExclusiveInv,
      TypeOK, AtWork
<1>14. ASSUME NEW s \in Slot, LoopWake(s) PROVE ExclusiveInv'
  BY <1>14 DEF LoopWake, LoopOnly, world, stored, None, Stopped, LoopGoto, ExclusiveInv,
      TypeOK, AtWork
<1>15. ASSUME NEW s \in Slot, RefreshEnter(s) PROVE ExclusiveInv'
  BY <1>15 DEF RefreshEnter, world, stored, SomebodyRuns, LoopGoto, ExclusiveInv, TypeOK,
      AtWork, None
<1>16. ASSUME NEW s \in Slot, Fetch(s) PROVE ExclusiveInv'
  BY <1>16 DEF Fetch, LoopGoto, ExclusiveInv, TypeOK, AtWork, None
<1>17. ASSUME NEW s \in Slot, UpdateStatus(s) PROVE ExclusiveInv'
  BY <1>17 DEF UpdateStatus, Transitions, Moved, Started, Saved, LoopGoto, ExclusiveInv,
      TypeOK, AtWork, None
<1>18. ASSUME NEW s \in Slot, RefreshLeave(s) PROVE ExclusiveInv'
  BY <1>18 DEF RefreshLeave, world, stored, NotRunning, LoopGoto, ExclusiveInv, TypeOK,
      AtWork, None
<1>19. ASSUME Day PROVE ExclusiveInv'
  BY <1>19 DEF Day, service, ExclusiveInv, TypeOK, AtWork, None
<1>20. ASSUME Outage PROVE ExclusiveInv'
  BY <1>20 DEF Outage, stored, service, ExclusiveInv, TypeOK, AtWork, None
<1>21. ASSUME Recovery PROVE ExclusiveInv'
  BY <1>21 DEF Recovery, stored, service, ExclusiveInv, TypeOK, AtWork, None
<1>22. ASSUME Crash PROVE ExclusiveInv'
  BY <1>22 DEF Crash, stored, NoThread, None, ExclusiveInv, TypeOK, AtWork
<1>23. CASE UNCHANGED vars
  BY <1>23 DEF vars, service, stored, world, ExclusiveInv, TypeOK, AtWork,
      None
<1> QED
  BY <1>1, <1>2, <1>3, <1>4, <1>5, <1>6, <1>7, <1>8, <1>9, <1>10, <1>11, <1>12, <1>13,
      <1>14, <1>15, <1>16, <1>17, <1>18, <1>19, <1>20, <1>21, <1>22, <1>23 DEF Next, Pipeline,
      LoopStep

\* A row leaves the scan for the batch, and the batch only when it is written.
LEMMA MigrationStep == IndInv /\ [Next]_vars => MigrationInv'
<1> SUFFICES ASSUME IndInv, [Next]_vars PROVE MigrationInv'
  OBVIOUS
<1> USE DEF IndInv
<1>1. ASSUME RunInBackground PROVE MigrationInv'
  BY <1>1 DEF RunInBackground, stored, None, MigrationInv, TypeOK
<1>2. ASSUME PipeEnter PROVE MigrationInv'
  BY <1>2 DEF PipeEnter, world, stored, None, SomebodyRuns, MigrationInv, TypeOK
<1>3. ASSUME RepairScan PROVE MigrationInv'
  BY <1>3 DEF RepairScan, MigrationInv, TypeOK
<1>4. ASSUME NEW r \in Row, RepairRow(r) PROVE MigrationInv'
  BY <1>4 DEF RepairRow, FlushRepairs, MigrationInv, TypeOK
<1>5. ASSUME RepairEnd PROVE MigrationInv'
  BY <1>5 DEF RepairEnd, LeftOver, FlushRepairs, MigrationInv, TypeOK
<1>6. ASSUME OtherJob PROVE MigrationInv'
  BY <1>6 DEF OtherJob, world, stored, MigrationInv, TypeOK
<1>7. ASSUME PipeLeave PROVE MigrationInv'
  BY <1>7 DEF PipeLeave, world, stored, None, MigrationInv, TypeOK
<1>8. ASSUME NEW c \in Caller, StartCheck(c) PROVE MigrationInv'
  BY <1>8 DEF StartCheck, world, stored, ThreadAlive, None, MigrationInv, TypeOK
<1>9. ASSUME NEW c \in Caller, NEW s \in Slot, StartThread(c, s) PROVE MigrationInv'
  BY <1>9 DEF StartThread, world, stored, None, MigrationInv, TypeOK
<1>10. ASSUME Stop PROVE MigrationInv'
  BY <1>10 DEF Stop, stored, MigrationInv, TypeOK
<1>11. ASSUME NEW s \in Slot, LoopDelay(s) PROVE MigrationInv'
  BY <1>11 DEF LoopDelay, LoopOnly, world, stored, None, Stopped, LoopGoto, MigrationInv,
      TypeOK
<1>12. ASSUME NEW s \in Slot, LoopTop(s) PROVE MigrationInv'
  BY <1>12 DEF LoopTop, LoopOnly, world, stored, None, Stopped, LoopGoto, MigrationInv,
      TypeOK
<1>13. ASSUME NEW s \in Slot, LoopAfter(s) PROVE MigrationInv'
  BY <1>13 DEF LoopAfter, LoopOnly, world, stored, None, Stopped, LoopGoto, MigrationInv,
      TypeOK
<1>14. ASSUME NEW s \in Slot, LoopWake(s) PROVE MigrationInv'
  BY <1>14 DEF LoopWake, LoopOnly, world, stored, None, Stopped, LoopGoto, MigrationInv,
      TypeOK
<1>15. ASSUME NEW s \in Slot, RefreshEnter(s) PROVE MigrationInv'
  BY <1>15 DEF RefreshEnter, world, stored, SomebodyRuns, LoopGoto, MigrationInv, TypeOK
<1>16. ASSUME NEW s \in Slot, Fetch(s) PROVE MigrationInv'
  BY <1>16 DEF Fetch, LoopGoto, MigrationInv, TypeOK
<1>17. ASSUME NEW s \in Slot, UpdateStatus(s) PROVE MigrationInv'
  BY <1>17 DEF UpdateStatus, Transitions, Moved, Started, Saved, LoopGoto, MigrationInv,
      TypeOK
<1>18. ASSUME NEW s \in Slot, RefreshLeave(s) PROVE MigrationInv'
  BY <1>18 DEF RefreshLeave, world, stored, NotRunning, LoopGoto, MigrationInv, TypeOK
<1>19. ASSUME Day PROVE MigrationInv'
  BY <1>19 DEF Day, service, MigrationInv, TypeOK
<1>20. ASSUME Outage PROVE MigrationInv'
  BY <1>20 DEF Outage, stored, service, MigrationInv, TypeOK
<1>21. ASSUME Recovery PROVE MigrationInv'
  BY <1>21 DEF Recovery, stored, service, MigrationInv, TypeOK
<1>22. ASSUME Crash PROVE MigrationInv'
  BY <1>22 DEF Crash, stored, NoThread, None, MigrationInv, TypeOK
<1>23. CASE UNCHANGED vars
  BY <1>23 DEF vars, service, stored, world, MigrationInv, TypeOK
<1> QED
  BY <1>1, <1>2, <1>3, <1>4, <1>5, <1>6, <1>7, <1>8, <1>9, <1>10, <1>11, <1>12, <1>13,
      <1>14, <1>15, <1>16, <1>17, <1>18, <1>19, <1>20, <1>21, <1>22, <1>23 DEF Next, Pipeline,
      LoopStep

-----------------------------------------------------------------------------
(* The initial states and the theorems. *)

\* A first start: nobody works, every row is an ordinal.
LEMMA InitInv == Init => IndInv
<1> SUFFICES ASSUME Init PROVE IndInv
  OBVIOUS
<1> USE DEF Init
<1>1. TypeOK
  <2>1. pipe \in PipePc /\ job \in 1..(Len(Jobs) + 1) /\ thread \in 0..Slots
    BY JobCount, JobsBounds DEF PipePc, NoSlot
  <2>2. loop \in [Slot -> LoopPc]
    BY DEF NoThread, LoopPc
  <2>3. airs \in [Row -> Stage] /\ status = airs /\ \A r \in Row : status[r] <= airs[r]
    BY DEF Stage
  <2>4. runs \in 0..MaxRuns /\ faults \in 0..MaxFaults /\ crashes \in 0..MaxCrashes /\ stops \in 0..MaxStops
    BY JobsBounds
  <2> QED
    BY <2>1, <2>2, <2>3, <2>4, PendingFits DEF TypeOK
<1>2. ExclusiveInv
  BY DEF ExclusiveInv, NoThread, AtWork, None
<1>3. MigrationInv
  BY DEF MigrationInv, None
<1> QED
  BY <1>1, <1>2, <1>3 DEF IndInv

\* The inductive invariant holds of every reachable state.
THEOREM SpecInv == Spec => []IndInv
<1>1. IndInv /\ [Next]_vars => IndInv'
  BY TypeStep, ExclusiveStep, MigrationStep DEF IndInv
<1> QED
  BY InitInv, <1>1, PTL DEF Spec

\* Every variable keeps its type across crashes, failed statements and restarts
\* of the loop.
THEOREM TypeCorrect == Spec => []TypeOK
<1>1. IndInv => TypeOK
  BY DEF IndInv
<1> QED
  BY SpecInv, <1>1, PTL

\* However many loop threads a stop and a start have left behind, at most one of
\* them and the pipeline is between its test of _running and its finally.
THEOREM JobsExclusiveHolds == Spec => []JobsExclusive
<1>1. IndInv => JobsExclusive
  <2> SUFFICES ASSUME IndInv PROVE JobsExclusive
    OBVIOUS
  <2>1. Refreshing = {s \in Slot : loop[s] \in AtWork}
    BY DEF Refreshing, AtWork
  <2>2. CASE Refreshing = {}
    BY <2>2, FS_EmptySet DEF JobsExclusive
  <2>3. CASE Refreshing # {}
    <3>1. PICK s : s \in Refreshing
      BY <2>3
    <3>2. Refreshing = {s} /\ pipe \notin {"jobs", "repair"}
      BY <2>1, <3>1 DEF IndInv, ExclusiveInv
    <3>3. Cardinality({s}) = 1
      BY FS_Singleton
    <3> QED
      BY <3>2, <3>3 DEF JobsExclusive
  <2> QED
    BY <2>2, <2>3
<1> QED
  BY SpecInv, <1>1, PTL

\* Once startup_migrations says repair_date_from is done, every row left with an
\* ordinal date was in a flush that raised or was rolled back under a retry: none
\* was skipped, also after crashes in the middle of it.
THEOREM MigrationCompleteHolds == Spec => []MigrationComplete
<1>1. IndInv => MigrationComplete
  BY DEF IndInv, MigrationInv, MigrationComplete
<1> QED
  BY SpecInv, <1>1, PTL
============================================================================
