--------------------------- MODULE PlaybackProofs ---------------------------
(***************************************************************************)
(* Machine-checked proofs about Playback, for every set of sessions,       *)
(* threads and locks, every cap, every length of an episode and every      *)
(* contract of the playlist: the type invariant, CapRespected, Anchored,   *)
(* AdvertisedServable, PlayReady and RestartSerialized.                    *)
(*                                                                         *)
(* IndInv adds what each point of a request knows: its segment and its     *)
(* session (ThreadInv, RequestInv), that no process, however it was        *)
(* started and whoever terminates it, is before the anchor (AnchorInv),    *)
(* that nobody knows a session before it is registered (NewInv), and that  *)
(* all holders of a lock of a live session hold the same one (LockInv).    *)
(***************************************************************************)
EXTENDS Playback, FiniteSetTheorems, WellFoundedInduction, TLAPS

\* The parts of TypeOK a step changes separately.
DiskTypes ==
    /\ alive \subseteq active /\ active \subseteq created
    /\ start \in [Session -> Index \cup {NoProcess}]
    /\ encoded \in [Session -> 0..Total \cup {NoProcess}]
    /\ dying \in [Thread -> 0..Total \cup {NoProcess}]
    /\ files \in [Session -> SUBSET Index]

ServiceTypes ==
    /\ sessions \subseteq created /\ created \subseteq Session /\ gone \subseteq created
    /\ expired \subseteq Session /\ older \subseteq Session \X Session
    /\ total \in [Session -> {0, Total}]
    /\ anchor \in [Session -> Index] /\ begin \in [Session -> Index]
    /\ playhead \in [Session -> Index]
    /\ lock \in [Session -> Lock \cup {None}]

LocalTypes ==
    /\ pc \in [Thread -> PcState]
    /\ op \in [Thread -> AllOps \cup {None}]
    /\ sid \in [Thread -> Session \cup {None}]
    /\ seg \in [Thread -> 0..Total]
    /\ latest \in [Thread -> -1..(Total - 1)]
    /\ mine \in [Thread -> Lock \cup {None}]
    /\ stale \in [Thread -> SUBSET Session] /\ cur \in [Thread -> Session \cup {None}]

\* Where a request has an index inside the episode, and where a session.
WithIndex == {"crtStart", "crtWait", "crtReg", "latest", "probe", "ensure", "noteStart", "gate",
              "lockGet", "lockAcq", "relook", "seen", "seenSet"}
WithSession == {"crtWait", "crtReg", "resGet", "look", "latest", "probe", "ensure", "noteStart",
                "await", "gate", "lockGet", "lockAcq", "relook", "seen", "seenSet", "final"}
Tearing == {"tearPop", "tearKill", "tearRm"}

\* What a thread has in its hands at each point.
ThreadInv ==
    \A t \in Thread :
      /\ pc[t] \in WithIndex => seg[t] \in Index
      /\ pc[t] \in WithSession => sid[t] \in created
      /\ pc[t] \in Tearing /\ op[t] = "create" => seg[t] \in Index
      /\ pc[t] \in Tearing /\ op[t] \notin {"create", "stop", "cleanup"} => sid[t] \in created
      /\ pc[t] \in {"tearKill", "tearRm"} => cur[t] \in created
      /\ dying[t] # NoProcess => pc[t] = "tearKill"
      /\ stale[t] \subseteq created /\ {sid[t], cur[t]} \subseteq created \cup {None}
      /\ stale[t] # {} => pc[t] \in Tearing
      /\ mine[t] # None => pc[t] \in {"lockAcq", "relook", "gate", "ensure", "noteStart", "await",
                                       "seen", "seenSet"}

\* A request that may restart the encode is not before the anchor.
RequestInv ==
    \A t \in Thread :
      /\ pc[t] \in {"latest", "probe", "ensure", "noteStart", "gate", "lockGet", "lockAcq", "relook"}
             => total[sid[t]] # 0 /\ seg[t] >= anchor[sid[t]]
      /\ pc[t] = "await" /\ total[sid[t]] # 0 => seg[t] \in Index /\ seg[t] >= anchor[sid[t]]
      /\ mine[t] # None => total[sid[t]] # 0
      /\ pc[t] = "seen" => seg[t] >= anchor[sid[t]]
      /\ pc[t] = "seenSet" => latest[t] >= anchor[sid[t]]

AnchoredAt(s) ==
    /\ \A i \in files[s] : i >= anchor[s]
    /\ s \in alive => start[s] >= anchor[s] /\ encoded[s] >= anchor[s]
    /\ playhead[s] >= anchor[s]

\* No file, process or playhead is before the anchor, not even a process that
\* has been taken from _active and still writes.
AnchorInv ==
    /\ \A s \in Session \ created : files[s] = {}
    /\ \A s \in created : AnchoredAt(s)
    /\ \A s \in Session : encoded[s] = NoProcess <=> start[s] = NoProcess
    /\ \A t \in Thread : dying[t] # NoProcess => dying[t] >= anchor[cur[t]]

\* A session that is being created is known to its thread only.
NewInv ==
    \A t \in Thread : pc[t] \in {"crtWait", "crtReg"} =>
      /\ sid[t] \notin sessions
      /\ \A u \in Thread \ {t} : sid[u] # sid[t]
      /\ \A u \in Thread : sid[t] \notin stale[u] /\ cur[u] # sid[t]

\* A live session has one restart lock, and a lock has one holder.
LockInv ==
    /\ \A s \in sessions : /\ lock[s] # None
                           /\ \A t \in Thread : sid[t] = s => mine[t] \in {None, lock[s]}
    /\ \A t, u \in Thread : t # u /\ sid[t] = sid[u] /\ mine[t] = mine[u] /\ mine[t] # None
                            => pc[t] = "lockAcq" \/ pc[u] = "lockAcq"

CapInv == IsFiniteSet(active) /\ Cardinality(active) <= MaxActive

IndInv == /\ TypeOK /\ ThreadInv /\ RequestInv /\ AnchorInv /\ NewInv /\ LockInv /\ CapInv
          /\ PlayReady

-----------------------------------------------------------------------------
(* The newest segment. *)

Less == {p \in Nat \X Nat : p[1] < p[2]}

\* A set of segments has a last one.
LEMMA LastSegment ==
    ASSUME NEW S \in SUBSET Index, S # {}
    PROVE  \E i \in S : \A j \in S : j <= i
<1> DEFINE D == {Total - 1 - i : i \in S}
<1>1. IsWellFoundedOn(Less, Nat)
  BY NatLessThanWellFounded DEF OpToRel, Less
<1>2. D \subseteq Nat /\ D # {}
  <2>1. \A i \in S : Total - 1 - i \in Nat
    BY TotalAssumption DEF Index
  <2> QED
    BY <2>1
<1>3. PICK m \in D : \A n \in D : <<n, m>> \notin Less
  <2> HIDE DEF D
  <2> QED
    BY <1>1, <1>2, WFMin
<1>4. PICK i \in S : m = Total - 1 - i
  OBVIOUS
<1>5. \A j \in S : ~ (Total - 1 - j < m)
  BY <1>2, <1>3 DEF Less
<1> QED
  BY <1>4, <1>5, TotalAssumption DEF Index

\* latest_existing_segment is a segment of the directory, or -1 for none.
LEMMA Newest ==
    ASSUME NEW s \in Session, files \in [Session -> SUBSET Index]
    PROVE  /\ LatestExisting(s) \in -1..(Total - 1)
           /\ files[s] = {} => LatestExisting(s) = -1
           /\ files[s] # {} => LatestExisting(s) \in files[s]
<1>1. CASE files[s] = {}
  BY <1>1, TotalAssumption DEF LatestExisting
<1>2. CASE files[s] # {}
  <2>1. \E i \in files[s] : \A j \in files[s] : j <= i
    BY <1>2, LastSegment
  <2>2. LatestExisting(s) \in files[s]
    BY <1>2, <2>1 DEF LatestExisting
  <2> QED
    BY <1>2, <2>2, TotalAssumption DEF Index
<1> QED
  BY <1>1, <1>2

-----------------------------------------------------------------------------
(* What ensure_hls_session does to the processes and the files. *)

\* One session gets a process or loses it; the others keep theirs or lose it.
Ensured(s, k) ==
    /\ active' \subseteq active \cup {s} /\ alive' \subseteq active'
    /\ start' \in [Session -> Index \cup {NoProcess}]
    /\ encoded' \in [Session -> 0..Total \cup {NoProcess}]
    /\ files' \in [Session -> SUBSET Index]
    /\ \A v \in Session :
         /\ \/ start'[v] = start[v] /\ encoded'[v] = encoded[v]
            \/ start'[v] = NoProcess /\ encoded'[v] = NoProcess
            \/ v = s /\ start'[v] = k /\ encoded'[v] = k
         /\ files'[v] \in {files[v], {}} /\ (v # s => files'[v] = files[v])

\* A reuse, a replacement and a failure, before or after the eviction.
LEMMA EnsureEffect ==
    ASSUME DiskTypes, NEW s \in Session, NEW k \in Index, EnsureDone(s, k) \/ EnsureFails(s, k)
    PROVE  Ensured(s, k)
<1>1. CASE UNCHANGED <<start, encoded, files>> /\ active' \in {active, Reaped}
  BY <1>1 DEF DiskTypes, Ensured, Reaped, alive
<1>2. ASSUME NEW room \in Room(s), files' = [files EXCEPT ![s] = Purged(s, k)],
             \/ /\ active' = room \cup {s}
                /\ start' = [Terminated(start, room) EXCEPT ![s] = k]
                /\ encoded' = [Terminated(encoded, room) EXCEPT ![s] = k]
             \/ /\ active' = room
                /\ start' = Terminated(start, room) /\ encoded' = Terminated(encoded, room)
      PROVE  Ensured(s, k)
  <2>1. room \subseteq active
    BY DEF Room, Reaped
  <2>2. /\ files' \in [Session -> SUBSET Index]
        /\ \A v \in Session : files'[v] \in {files[v], {}} /\ (v # s => files'[v] = files[v])
    BY <1>2 DEF DiskTypes, Purged
  <2>3. k \in 0..Total
    BY TotalAssumption DEF Index
  <2>4. /\ start' \in [Session -> Index \cup {NoProcess}]
        /\ encoded' \in [Session -> 0..Total \cup {NoProcess}]
    BY <1>2, <2>3 DEF DiskTypes, Terminated
  <2>5. ASSUME NEW v \in Session
        PROVE  \/ start'[v] = start[v] /\ encoded'[v] = encoded[v]
               \/ start'[v] = NoProcess /\ encoded'[v] = NoProcess
               \/ v = s /\ start'[v] = k /\ encoded'[v] = k
    <3> DEFINE f == Terminated(start, room)  g == Terminated(encoded, room)
    <3>1. /\ f = [u \in Session |-> IF u \in room THEN start[u] ELSE NoProcess]
          /\ g = [u \in Session |-> IF u \in room THEN encoded[u] ELSE NoProcess]
      BY DEF Terminated
    <3>2. \/ f[v] = start[v] /\ g[v] = encoded[v]
          \/ f[v] = NoProcess /\ g[v] = NoProcess
      BY <3>1
    <3>3. \/ start' = f /\ encoded' = g
          \/ start' = [f EXCEPT ![s] = k] /\ encoded' = [g EXCEPT ![s] = k]
      BY <1>2
    <3> HIDE DEF f, g
    <3> QED
      BY <3>1, <3>2, <3>3
  <2>6. \A v \in Session : start'[v] # NoProcess => v \in active'
    BY <1>2 DEF DiskTypes, Terminated
  <2>7. active' \subseteq active \cup {s} /\ alive' \subseteq active'
    BY <1>2, <2>1, <2>6 DEF alive
  <2> QED
    BY <2>2, <2>4, <2>5, <2>7 DEF Ensured
<1> QED
  BY <1>1, <1>2 DEF EnsureDone, EnsureFails

\* The eviction makes room for the new process.
LEMMA EnsureCap ==
    ASSUME CapInv, NEW s \in Session, NEW k \in Index, EnsureDone(s, k) \/ EnsureFails(s, k)
    PROVE  CapInv'
<1>1. ASSUME NEW S \in SUBSET active
      PROVE  IsFiniteSet(S) /\ Cardinality(S) \in Nat /\ Cardinality(S) <= MaxActive
  <2>1. IsFiniteSet(S) /\ Cardinality(S) <= Cardinality(active)
    BY FS_Subset DEF CapInv
  <2>2. Cardinality(S) \in Nat /\ Cardinality(active) \in Nat
    BY <2>1, FS_CardinalityType DEF CapInv
  <2> QED
    BY <2>1, <2>2, MaxActiveAssumption DEF CapInv
<1>2. CASE active' \subseteq active
  BY <1>1, <1>2 DEF CapInv
<1>3. ASSUME NEW room \in Room(s), active' = room \cup {s}
      PROVE  CapInv'
  <2> DEFINE kept == Reaped \ {s}
  <2>1. kept \subseteq active /\ s \notin kept
    BY DEF Reaped
  <2>2. IsFiniteSet(kept) /\ Cardinality(kept) \in Nat /\ Cardinality(kept) <= MaxActive
    BY <1>1, <2>1
  <2>3. IsFiniteSet(room) /\ Cardinality(room) \in Nat /\ Cardinality(room) < MaxActive /\ s \notin room
    <3>1. CASE Cardinality(kept) < MaxActive
      BY <2>1, <2>2, <3>1 DEF Room
    <3>2. CASE ~ (Cardinality(kept) < MaxActive)
      <4>1. PICK v \in kept : room = kept \ {v}
        BY <3>2 DEF Room
      <4>2. IsFiniteSet(room) /\ Cardinality(room) = Cardinality(kept) - 1
        BY <2>2, <4>1, FS_RemoveElement
      <4>3. Cardinality(room) \in Nat
        BY <4>2, FS_CardinalityType
      <4> QED
        BY <2>1, <2>2, <4>1, <4>2, <4>3, MaxActiveAssumption
    <3> QED
      BY <3>1, <3>2
  <2>4. IsFiniteSet(active') /\ Cardinality(active') = Cardinality(room) + 1
    BY <1>3, <2>3, FS_AddElement
  <2> QED
    BY <2>3, <2>4, MaxActiveAssumption DEF CapInv
<1>4. \/ active' \subseteq active
      \/ \E room \in Room(s) : active' = room \/ active' = room \cup {s}
  BY DEF EnsureDone, EnsureFails, Reaped
<1>5. \A room \in Room(s) : room \subseteq active
  BY DEF Room, Reaped
<1> QED
  BY <1>2, <1>3, <1>4, <1>5

-----------------------------------------------------------------------------
(* The variables of a thread. *)

\* A thread that moves on, with its variables as they are.
LEMMA MoveTypes ==
    ASSUME LocalTypes, NEW t \in Thread, NEW l \in PcState, Move(t, l)
    PROVE  LocalTypes'
BY DEF LocalTypes, Move, Goto, localVars

\* A call that ends.
LEMMA ReturnTypes ==
    ASSUME LocalTypes, NEW t \in Thread, Return(t)
    PROVE  LocalTypes'
BY TotalAssumption DEF LocalTypes, Return, Goto, PcState

\* A teardown that is done.
LEMMA TornDownTypes ==
    ASSUME LocalTypes, NEW t \in Thread, TornDown(t)
    PROVE  LocalTypes'
<1>1. CASE Return(t)
  BY <1>1, ReturnTypes
<1>2. CASE ~ Return(t)
  BY <1>2 DEF TornDown, LocalTypes, Goto, AfterTeardown, PcState
<1> QED
  BY <1>1, <1>2

\* The three parts are TypeOK.
LEMMA TypeParts == TypeOK <=> DiskTypes /\ ServiceTypes /\ LocalTypes
BY DEF TypeOK, DiskTypes, ServiceTypes, LocalTypes

\* The same for the state a step ends in.
LEMMA TypePartsNext == DiskTypes' /\ ServiceTypes' /\ LocalTypes' => TypeOK'
BY DEF TypeOK, DiskTypes, ServiceTypes, LocalTypes

\* A step that leaves the directories and processes alone, or only looks.
LEMMA DiskFrame ==
    ASSUME DiskTypes, UNCHANGED created, Probe \/ UNCHANGED diskVars
    PROVE  DiskTypes'
<1>1. UNCHANGED <<start, encoded, dying, files>> /\ active' \in {active, Reaped}
  BY DEF Probe, diskVars
<1>2. alive' = alive /\ alive' \subseteq active' /\ active' \subseteq active
  BY <1>1 DEF DiskTypes, alive, Reaped
<1> QED
  BY <1>1, <1>2 DEF DiskTypes

\* A step that leaves the service alone.
LEMMA ServiceFrame ==
    ASSUME ServiceTypes, UNCHANGED <<dtoVars, serviceVars>>
    PROVE  ServiceTypes'
BY DEF ServiceTypes, dtoVars, serviceVars

\* A step of a thread that waits for no lock and gets none.
LEMMA LockFrame ==
    ASSUME TypeOK, LockInv, NEW t \in Thread, pc[t] # "lockAcq", UNCHANGED <<sessions, lock>>,
           Return(t) \/ (UNCHANGED <<sid, mine>> /\ \E l \in PcState : Goto(t, l))
    PROVE  LockInv'
<1>1. /\ \A u \in Thread \ {t} : sid'[u] = sid[u] /\ mine'[u] = mine[u] /\ pc'[u] = pc[u]
      /\ (sid'[t] = sid[t] /\ mine'[t] = mine[t]) \/ mine'[t] = None
  BY DEF TypeOK, Return, Goto
<1> QED
  BY <1>1, NoneAssumption DEF LockInv

\* A call that takes sessions out of _sessions takes their locks too.
LEMMA LockCall ==
    ASSUME TypeOK, ThreadInv, LockInv, NEW t \in Thread, NEW o, NEW s, NEW i, NEW S,
           Call(t, o, s, i, S, S)
    PROVE  LockInv'
<1>1. /\ sessions' = sessions \ S /\ mine' = mine /\ mine[t] = None
      /\ \A x \in sessions' : x \in Session /\ lock'[x] = lock[x]
  BY DEF Call, Unlocked, TypeOK, ThreadInv
<1>2. \A u \in Thread \ {t} : sid'[u] = sid[u] /\ pc'[u] = pc[u]
  BY DEF Call, Goto, TypeOK
<1> QED
  BY <1>1, <1>2, NoneAssumption DEF LockInv

\* Losing processes never breaks the cap.
LEMMA CapShrinks ==
    ASSUME CapInv, active' \subseteq active
    PROVE  CapInv'
<1>1. IsFiniteSet(active') /\ Cardinality(active') <= Cardinality(active)
  BY FS_Subset DEF CapInv
<1>2. Cardinality(active') \in Nat /\ Cardinality(active) \in Nat
  BY <1>1, FS_CardinalityType DEF CapInv
<1> QED
  BY <1>1, <1>2, MaxActiveAssumption DEF CapInv

-----------------------------------------------------------------------------
(* Every step keeps IndInv. *)

\* Every step keeps the types: no index leaves the episode.
LEMMA TypeStep == IndInv /\ [Next]_vars => TypeOK'
<1> SUFFICES ASSUME IndInv, [Next]_vars PROVE TypeOK'
  OBVIOUS
<1> USE NoneAssumption, TotalAssumption, ContractAssumption, OpsAssumption DEF IndInv
<1>1. ASSUME NEW t \in Thread, CallCreate(t) PROVE TypeOK'
  BY <1>1 DEF CallCreate, CallSweep, Call, dtoVars, diskVars, AfterTeardown, Goto,
      Unlocked, TypeOK, ThreadInv, WithIndex, WithSession, Tearing, PcState, alive, Index,
      NoProcess, Larger, AllOps, AnchorSegment, Touched
<1>2. ASSUME NEW t \in Thread, CallResolve(t) PROVE TypeOK'
  BY <1>2 DEF CallResolve, CallSweep, Call, dtoVars, diskVars, AfterTeardown, Goto,
      Unlocked, TypeOK, ThreadInv, WithIndex, WithSession, Tearing, PcState, alive, Index,
      NoProcess, Larger, AllOps, AnchorSegment, Touched
<1>3. ASSUME NEW t \in Thread, CallManifest(t) PROVE TypeOK'
  BY <1>3 DEF CallManifest, CallSweep, Call, dtoVars, diskVars, AfterTeardown, Goto,
      Unlocked, TypeOK, ThreadInv, WithIndex, WithSession, Tearing, PcState, alive, Index,
      NoProcess, Larger, AllOps, AnchorSegment, Touched
<1>4. ASSUME NEW t \in Thread, CallStop(t) PROVE TypeOK'
  BY <1>4 DEF CallStop, Call, dtoVars, diskVars, AfterTeardown, Goto, Unlocked, TypeOK,
      ThreadInv, WithIndex, WithSession, Tearing, PcState, alive, Index, NoProcess, Larger,
      AllOps, AnchorSegment, Touched
<1>5. ASSUME NEW t \in Thread, StopUnknown(t) PROVE TypeOK'
  BY <1>5 DEF StopUnknown, threadVars, localVars, dtoVars, diskVars, Unlocked, TypeOK,
      ThreadInv, WithIndex, WithSession, Tearing, PcState, alive, Index, NoProcess, Larger,
      AllOps, AnchorSegment, Touched
<1>6. ASSUME NEW t \in Thread, CallCleanup(t) PROVE TypeOK'
  <2>1. CASE UNCHANGED vars
    BY <2>1 DEF vars, diskVars, dtoVars, serviceVars, threadVars, localVars, TypeOK, ThreadInv,
       alive, PcState, Index, AllOps, NoProcess
  <2>2. CASE sessions \cap expired # {} /\ CallSweep(t, "cleanup", None, 0)
    BY <2>2 DEF CallSweep, Call, Goto, AfterTeardown, Unlocked, dtoVars, diskVars, TypeOK,
       ThreadInv, alive, PcState, Index, AllOps, NoProcess
  <2> QED
    BY <1>6, <2>1, <2>2 DEF CallCleanup
<1>7. ASSUME NEW t \in Thread, Heartbeat(t) PROVE TypeOK'
  BY <1>7 DEF Heartbeat, threadVars, localVars, diskVars, Larger, TypeOK, ThreadInv,
      WithIndex, WithSession, Tearing, PcState, alive, Index, NoProcess, AllOps,
      AnchorSegment, Touched
<1>8. ASSUME NEW t \in Thread, TearPop(t) PROVE TypeOK'
  BY <1>8 DEF TearPop, serviceVars, dtoVars, Goto, TypeOK, ThreadInv, WithIndex,
      WithSession, Tearing, PcState, alive, Index, NoProcess, Larger, AllOps,
      AnchorSegment, Touched
<1>9. ASSUME NEW t \in Thread, TearKill(t) PROVE TypeOK'
  <2>1. LocalTypes /\ DiskTypes /\ ServiceTypes
    BY TypeParts
  <2>2. LocalTypes'
    BY <1>9, <2>1, TornDownTypes, MoveTypes DEF TearKill, PcState
  <2>3. ServiceTypes'
    BY <1>9, <2>1, ServiceFrame DEF TearKill
  <2>4. DiskTypes'
    BY <1>9, <2>1 DEF TearKill, DiskTypes, alive, serviceVars, NoProcess, ThreadInv
  <2> QED
    BY <2>2, <2>3, <2>4, TypePartsNext
<1>10. ASSUME NEW t \in Thread, TearRm(t) PROVE TypeOK'
  <2>1. LocalTypes /\ DiskTypes /\ ServiceTypes
    BY TypeParts
  <2>2. LocalTypes'
    BY <1>10, <2>1, TornDownTypes, MoveTypes DEF TearRm, PcState
  <2>3. ServiceTypes'
    BY <1>10, <2>1, ServiceFrame DEF TearRm
  <2>4. DiskTypes'
    BY <1>10, <2>1 DEF TearRm, DiskTypes, alive, serviceVars, NoProcess, ThreadInv
  <2> QED
    BY <2>2, <2>3, <2>4, TypePartsNext
<1>11. ASSUME NEW t \in Thread, CreateRefused(t) PROVE TypeOK'
  BY <1>11 DEF CreateRefused, serviceVars, dtoVars, diskVars, Return, Goto, TypeOK,
      ThreadInv, WithIndex, WithSession, Tearing, PcState, alive, Index, NoProcess, Larger,
      AllOps, AnchorSegment, Touched
<1>12. ASSUME NEW t \in Thread, CreateStart(t) PROVE TypeOK'
  <2> DEFINE k == AnchorSegment(seg[t])
  <2>1. seg[t] \in Index /\ k \in Index
    BY <1>12, TotalAssumption, ContractAssumption
       DEF CreateStart, ThreadInv, WithIndex, AnchorSegment, Larger, Index
  <2>2. PICK s \in Session \ created, n \in Durations :
             /\ created' = created \cup {s} /\ older' = older \cup (created \X {s})
             /\ total' = [total EXCEPT ![s] = n]
             /\ anchor' = [anchor EXCEPT ![s] = k] /\ begin' = [begin EXCEPT ![s] = k]
             /\ playhead' = [playhead EXCEPT ![s] = seg[t]]
             /\ \/ /\ EnsureDone(s, k) /\ sid' = [sid EXCEPT ![t] = s] /\ Goto(t, "crtWait")
                   /\ UNCHANGED <<op, seg, latest, mine, stale, cur>>
                \/ EnsureFails(s, k) /\ Return(t)
             /\ UNCHANGED <<dying, sessions, gone, expired, lock>>
    BY <1>12 DEF CreateStart
  <2>3. LocalTypes /\ DiskTypes /\ ServiceTypes
    BY TypeParts
  <2>4. Ensured(s, k)
    BY <2>1, <2>2, <2>3, EnsureEffect
  <2>5. LocalTypes'
    <3>1. CASE Return(t)
      BY <2>3, <3>1, ReturnTypes
    <3>2. CASE ~ Return(t)
      BY <2>2, <2>3, <3>2 DEF LocalTypes, Goto, PcState
    <3> QED
      BY <3>1, <3>2
  <2>6. DiskTypes'
    BY <2>2, <2>3, <2>4 DEF DiskTypes, Ensured
  <2>7. n \in {0, Total} /\ s \in Session
    BY TotalAssumption
  <2>8. /\ total' \in [Session -> {0, Total}]
        /\ anchor' \in [Session -> Index] /\ begin' \in [Session -> Index]
        /\ playhead' \in [Session -> Index]
    BY <2>1, <2>2, <2>3, <2>7 DEF ServiceTypes
  <2>9. /\ sessions' \subseteq created' /\ created' \subseteq Session /\ gone' \subseteq created'
        /\ expired' \subseteq Session /\ older' \subseteq Session \X Session
        /\ lock' \in [Session -> Lock \cup {None}]
    BY <2>2, <2>3, <2>7 DEF ServiceTypes
  <2> QED
    BY <2>5, <2>6, <2>8, <2>9, TypePartsNext DEF ServiceTypes
<1>13. ASSUME NEW t \in Thread, CreateReady(t) PROVE TypeOK'
  BY <1>13 DEF CreateReady, serviceVars, dtoVars, diskVars, Move, localVars, Goto, Ready,
      TypeOK, ThreadInv, WithIndex, WithSession, Tearing, PcState, alive, Index, NoProcess,
      Larger, AllOps, AnchorSegment, Touched
<1>14. ASSUME NEW t \in Thread, CreateFails(t) PROVE TypeOK'
  BY <1>14 DEF CreateFails, serviceVars, dtoVars, alive, Reaped, Return, Goto, Ready,
      TypeOK, ThreadInv, WithIndex, WithSession, Tearing, PcState, Index, NoProcess,
      Larger, AllOps, AnchorSegment, Touched
<1>15. ASSUME NEW t \in Thread, CreateRegister(t) PROVE TypeOK'
  BY <1>15 DEF CreateRegister, dtoVars, diskVars, Return, Goto, TypeOK, ThreadInv,
      WithIndex, WithSession, Tearing, PcState, alive, Index, NoProcess, Larger, AllOps,
      AnchorSegment, Touched
<1>16. ASSUME NEW t \in Thread, ResolveGet(t) PROVE TypeOK'
  <2>1. /\ Return(t) \/ \E l \in PcState : Move(t, l)
        /\ UNCHANGED <<diskVars, dtoVars, serviceVars>>
    BY <1>16 DEF ResolveGet, Stay, Leave, PcState
  <2>2. LocalTypes /\ DiskTypes /\ ServiceTypes
    BY TypeParts
  <2>3. LocalTypes'
    BY <2>1, <2>2, MoveTypes, ReturnTypes
  <2>4. DiskTypes' /\ ServiceTypes'
    BY <2>1, <2>2, DiskFrame, ServiceFrame DEF diskVars, dtoVars, serviceVars
  <2> QED
    BY <2>3, <2>4, TypePartsNext
<1>17. ASSUME NEW t \in Thread, SegmentLook(t) PROVE TypeOK'
  <2>1. /\ Return(t) \/ \E l \in PcState : Move(t, l)
        /\ UNCHANGED <<diskVars, dtoVars, serviceVars>>
    BY <1>17 DEF SegmentLook, Stay, Leave, PcState
  <2>2. LocalTypes /\ DiskTypes /\ ServiceTypes
    BY TypeParts
  <2>3. LocalTypes'
    BY <2>1, <2>2, MoveTypes, ReturnTypes
  <2>4. DiskTypes' /\ ServiceTypes'
    BY <2>1, <2>2, DiskFrame, ServiceFrame DEF diskVars, dtoVars, serviceVars
  <2> QED
    BY <2>3, <2>4, TypePartsNext
<1>18. ASSUME NEW t \in Thread, SegmentLatest(t) PROVE TypeOK'
  <2>1. LatestExisting(sid[t]) \in -1..(Total - 1)
    BY <1>18, Newest DEF SegmentLatest, ThreadInv, WithSession, TypeOK
  <2> QED
    BY <1>18, <2>1 DEF SegmentLatest, Goto, diskVars, dtoVars, serviceVars, TypeOK, alive, PcState
<1>19. ASSUME NEW t \in Thread, SegmentProbe(t) PROVE TypeOK'
  BY <1>19 DEF SegmentProbe, serviceVars, dtoVars, Reaped, alive, Move, localVars, Goto,
      Probe, TypeOK, ThreadInv, WithIndex, WithSession, Tearing, PcState, Index, NoProcess,
      Larger, AllOps, AnchorSegment, Touched
<1>20. ASSUME NEW t \in Thread, Restart(t) PROVE TypeOK'
  <2>1. sid[t] \in created /\ sid[t] \in Session /\ seg[t] \in Index
    BY <1>20 DEF Restart, ThreadInv, WithSession, WithIndex, TypeOK
  <2>2. LocalTypes /\ DiskTypes /\ ServiceTypes
    BY TypeParts
  <2>3. Ensured(sid[t], seg[t])
    BY <1>20, <2>1, <2>2, EnsureEffect DEF Restart
  <2>4. LocalTypes'
    BY <1>20, <2>2, MoveTypes DEF Restart, PcState
  <2>5. ServiceTypes'
    BY <1>20, <2>2, ServiceFrame DEF Restart
  <2>6. DiskTypes'
    BY <1>20, <2>1, <2>2, <2>3 DEF Restart, DiskTypes, Ensured, serviceVars
  <2> QED
    BY <2>4, <2>5, <2>6, TypePartsNext
<1>21. ASSUME NEW t \in Thread, RestartNote(t) PROVE TypeOK'
  <2>1. sid[t] \in Session /\ seg[t] \in Index /\ playhead[sid[t]] \in Index
    BY <1>21 DEF RestartNote, ThreadInv, WithSession, WithIndex, TypeOK
  <2>2. begin' \in [Session -> Index] /\ playhead' \in [Session -> Index]
    BY <1>21, <2>1 DEF RestartNote, Larger, TypeOK
  <2>3. LocalTypes /\ DiskTypes /\ ServiceTypes
    BY TypeParts
  <2>4. LocalTypes' /\ DiskTypes'
    BY <1>21, <2>3, MoveTypes, DiskFrame DEF RestartNote, PcState, serviceVars
  <2>5. ServiceTypes'
    BY <1>21, <2>2, <2>3 DEF RestartNote, ServiceTypes, serviceVars
  <2> QED
    BY <2>4, <2>5, TypePartsNext
<1>22. ASSUME NEW t \in Thread, Await(t) PROVE TypeOK'
  <2>1. /\ Return(t) \/ \E l \in PcState : Move(t, l)
        /\ UNCHANGED <<diskVars, dtoVars, serviceVars>>
    BY <1>22 DEF Await, Stay, Leave, PcState
  <2>2. LocalTypes /\ DiskTypes /\ ServiceTypes
    BY TypeParts
  <2>3. LocalTypes'
    BY <2>1, <2>2, MoveTypes, ReturnTypes
  <2>4. DiskTypes' /\ ServiceTypes'
    BY <2>1, <2>2, DiskFrame, ServiceFrame DEF diskVars, dtoVars, serviceVars
  <2> QED
    BY <2>3, <2>4, TypePartsNext
<1>23. ASSUME NEW t \in Thread, Gate(t) PROVE TypeOK'
  <2>1. /\ Return(t) \/ (\E l \in PcState : Move(t, l)) \/ Forget(t, "ensure")
        /\ Probe /\ UNCHANGED <<dtoVars, serviceVars>>
    BY <1>23 DEF Gate, PcState
  <2>2. LocalTypes /\ DiskTypes /\ ServiceTypes
    BY TypeParts
  <2>3. ASSUME Forget(t, "ensure") PROVE LocalTypes'
    BY <2>2, <2>3 DEF Forget, Goto, LocalTypes, PcState
  <2>4. LocalTypes'
    BY <2>1, <2>2, <2>3, MoveTypes, ReturnTypes
  <2>5. DiskTypes' /\ ServiceTypes'
    BY <2>1, <2>2, DiskFrame, ServiceFrame DEF diskVars, dtoVars, serviceVars
  <2> QED
    BY <2>4, <2>5, TypePartsNext
<1>24. ASSUME NEW t \in Thread, LockGet(t) PROVE TypeOK'
  BY <1>24 DEF LockGet, dtoVars, diskVars, Goto, LockOf, TypeOK, ThreadInv, WithIndex,
      WithSession, Tearing, PcState, alive, Index, NoProcess, Larger, AllOps,
      AnchorSegment, Touched
<1>25. ASSUME NEW t \in Thread, LockAcquire(t) PROVE TypeOK'
  BY <1>25 DEF LockAcquire, Stay, serviceVars, dtoVars, diskVars, Move, localVars, Goto,
      LockFree, TypeOK, ThreadInv, WithIndex, WithSession, Tearing, PcState, alive, Index,
      NoProcess, Larger, AllOps, AnchorSegment, Touched
<1>26. ASSUME NEW t \in Thread, SegmentRelook(t) PROVE TypeOK'
  BY <1>26 DEF SegmentRelook, Stay, serviceVars, dtoVars, diskVars, Move, localVars, Goto,
      TypeOK, ThreadInv, WithIndex, WithSession, Tearing, PcState, alive, Index, NoProcess,
      Larger, AllOps, AnchorSegment, Touched
<1>27. ASSUME NEW t \in Thread, SeenRead(t) PROVE TypeOK'
  BY <1>27 DEF SeenRead, serviceVars, dtoVars, diskVars, Goto, TypeOK, ThreadInv,
      WithIndex, WithSession, Tearing, PcState, alive, Index, NoProcess, Larger, AllOps,
      AnchorSegment, Touched
<1>28. ASSUME NEW t \in Thread, SeenWrite(t) PROVE TypeOK'
  BY <1>28 DEF SeenWrite, serviceVars, diskVars, Goto, Larger, TypeOK, ThreadInv,
      WithIndex, WithSession, Tearing, PcState, alive, Index, NoProcess, AllOps,
      AnchorSegment, Touched
<1>29. ASSUME NEW t \in Thread, Final(t) PROVE TypeOK'
  BY <1>29 DEF Final, dtoVars, diskVars, Return, Goto, TypeOK, ThreadInv, WithIndex,
      WithSession, Tearing, PcState, alive, Index, NoProcess, Larger, AllOps,
      AnchorSegment, Touched
<1>30. ASSUME NEW t \in Thread, EncodeOn(t) PROVE TypeOK'
  BY <1>30 DEF EncodeOn, threadVars, localVars, serviceVars, dtoVars, TypeOK, ThreadInv,
      WithIndex, WithSession, Tearing, PcState, alive, Index, NoProcess, Larger, AllOps,
      AnchorSegment, Touched
<1>31. ASSUME NEW s \in Session, Expire(s) PROVE TypeOK'
  BY <1>31 DEF Expire, threadVars, localVars, dtoVars, diskVars, TypeOK, ThreadInv,
      WithIndex, WithSession, Tearing, PcState, alive, Index, NoProcess, Larger, AllOps,
      AnchorSegment, Touched
<1>32. ASSUME NEW s \in Session, Encode(s) PROVE TypeOK'
  <2>1. encoded[s] \in Index /\ encoded[s] + 1 \in 0..Total
    BY <1>32, TotalAssumption DEF Encode, AnchorInv, AnchoredAt, alive, TypeOK, Index, NoProcess
  <2> QED
    BY <1>32, <2>1 DEF Encode, dtoVars, serviceVars, threadVars, localVars, TypeOK, alive
<1>33. ASSUME NEW s \in Session, Exit(s) PROVE TypeOK'
  BY <1>33 DEF Exit, threadVars, localVars, serviceVars, dtoVars, alive, TypeOK, ThreadInv,
      WithIndex, WithSession, Tearing, PcState, Index, NoProcess, Larger, AllOps,
      AnchorSegment, Touched
<1>34. CASE UNCHANGED vars
  BY <1>34 DEF vars, diskVars, dtoVars, serviceVars, threadVars, localVars, TypeOK, ThreadInv,
     WithIndex,
      WithSession, Tearing, PcState, alive, Index, NoProcess, Larger, AllOps,
      AnchorSegment, Touched
<1> QED
  BY <1>1, <1>2, <1>3, <1>4, <1>5, <1>6, <1>7, <1>8, <1>9, <1>10, <1>11, <1>12, <1>13,
      <1>14, <1>15, <1>16, <1>17, <1>18, <1>19, <1>20, <1>21, <1>22, <1>23, <1>24, <1>25,
      <1>26, <1>27, <1>28, <1>29, <1>30, <1>31, <1>32, <1>33, <1>34 DEF Next, CallSomething,
      ThreadStep

\* A request gets its segment and its session before it uses them, and its
\* teardowns are over before it goes on.
LEMMA ThreadStepInv == IndInv /\ [Next]_vars => ThreadInv'
<1> SUFFICES ASSUME IndInv, [Next]_vars PROVE ThreadInv'
  OBVIOUS
<1> USE NoneAssumption, TotalAssumption DEF IndInv
<1>1. ASSUME NEW t \in Thread, CallCreate(t) PROVE ThreadInv'
  BY <1>1 DEF CallCreate, CallSweep, Call, dtoVars, diskVars, AfterTeardown, Goto,
      Unlocked, TypeOK, ThreadInv, WithIndex, WithSession, Tearing, RequestInv, Index,
      NoProcess, AllOps
<1>2. ASSUME NEW t \in Thread, CallResolve(t) PROVE ThreadInv'
  BY <1>2 DEF CallResolve, CallSweep, Call, dtoVars, diskVars, AfterTeardown, Goto,
      Unlocked, TypeOK, ThreadInv, WithIndex, WithSession, Tearing, RequestInv, Index,
      NoProcess, AllOps
<1>3. ASSUME NEW t \in Thread, CallManifest(t) PROVE ThreadInv'
  BY <1>3 DEF CallManifest, CallSweep, Call, dtoVars, diskVars, AfterTeardown, Goto,
      Unlocked, TypeOK, ThreadInv, WithIndex, WithSession, Tearing, RequestInv, Index,
      NoProcess, AllOps
<1>4. ASSUME NEW t \in Thread, CallStop(t) PROVE ThreadInv'
  BY <1>4 DEF CallStop, Call, dtoVars, diskVars, AfterTeardown, Goto, Unlocked, TypeOK,
      ThreadInv, WithIndex, WithSession, Tearing, RequestInv, Index, NoProcess, AllOps
<1>5. ASSUME NEW t \in Thread, StopUnknown(t) PROVE ThreadInv'
  BY <1>5 DEF StopUnknown, threadVars, localVars, dtoVars, diskVars, Unlocked, TypeOK,
      ThreadInv, WithIndex, WithSession, Tearing, RequestInv, Index, NoProcess, AllOps
<1>6. ASSUME NEW t \in Thread, CallCleanup(t) PROVE ThreadInv'
  BY <1>6 DEF CallCleanup, vars, threadVars, localVars, serviceVars, dtoVars, diskVars,
      CallSweep, Call, AfterTeardown, Goto, Unlocked, TypeOK, ThreadInv, WithIndex,
      WithSession, Tearing, RequestInv, Index, NoProcess, AllOps
<1>7. ASSUME NEW t \in Thread, Heartbeat(t) PROVE ThreadInv'
  BY <1>7 DEF Heartbeat, threadVars, localVars, diskVars, Larger, TypeOK, ThreadInv,
      WithIndex, WithSession, Tearing, RequestInv, Index, NoProcess, AllOps
<1>8. ASSUME NEW t \in Thread, TearPop(t) PROVE ThreadInv'
  BY <1>8 DEF TearPop, serviceVars, dtoVars, Goto, TypeOK, ThreadInv, WithIndex,
      WithSession, Tearing, RequestInv, Index, NoProcess, AllOps
<1>9. ASSUME NEW t \in Thread, TearKill(t) PROVE ThreadInv'
  BY <1>9 DEF TearKill, serviceVars, dtoVars, Move, localVars, Goto, TornDown,
      AfterTeardown, Return, TypeOK, ThreadInv, WithIndex, WithSession, Tearing,
      RequestInv, Index, NoProcess, AllOps
<1>10. ASSUME NEW t \in Thread, TearRm(t) PROVE ThreadInv'
  BY <1>10 DEF TearRm, serviceVars, dtoVars, TornDown, AfterTeardown, Goto, Return, TypeOK,
      ThreadInv, WithIndex, WithSession, Tearing, RequestInv, Index, NoProcess, AllOps
<1>11. ASSUME NEW t \in Thread, CreateRefused(t) PROVE ThreadInv'
  BY <1>11 DEF CreateRefused, serviceVars, dtoVars, diskVars, Return, Goto, TypeOK,
      ThreadInv, WithIndex, WithSession, Tearing, RequestInv, Index, NoProcess, AllOps
<1>12. ASSUME NEW t \in Thread, CreateStart(t) PROVE ThreadInv'
  BY <1>12 DEF CreateStart, Return, Goto, Larger, EnsureFails, Purged, Reaped, alive,
      Terminated, EnsureDone, TypeOK, ThreadInv, WithIndex, WithSession, Tearing,
      RequestInv, Index, NoProcess, AllOps
<1>13. ASSUME NEW t \in Thread, CreateReady(t) PROVE ThreadInv'
  BY <1>13 DEF CreateReady, serviceVars, dtoVars, diskVars, Move, localVars, Goto, Ready,
      TypeOK, ThreadInv, WithIndex, WithSession, Tearing, RequestInv, Index, NoProcess,
      AllOps
<1>14. ASSUME NEW t \in Thread, CreateFails(t) PROVE ThreadInv'
  BY <1>14 DEF CreateFails, serviceVars, dtoVars, alive, Reaped, Return, Goto, Ready,
      TypeOK, ThreadInv, WithIndex, WithSession, Tearing, RequestInv, Index, NoProcess,
      AllOps
<1>15. ASSUME NEW t \in Thread, CreateRegister(t) PROVE ThreadInv'
  BY <1>15 DEF CreateRegister, dtoVars, diskVars, Return, Goto, TypeOK, ThreadInv,
      WithIndex, WithSession, Tearing, RequestInv, Index, NoProcess, AllOps
<1>16. ASSUME NEW t \in Thread, ResolveGet(t) PROVE ThreadInv'
  BY <1>16 DEF ResolveGet, Stay, serviceVars, dtoVars, diskVars, Move, localVars, Goto,
      Leave, Return, TypeOK, ThreadInv, WithIndex, WithSession, Tearing, RequestInv, Index,
      NoProcess, AllOps
<1>17. ASSUME NEW t \in Thread, SegmentLook(t) PROVE ThreadInv'
  BY <1>17 DEF SegmentLook, Stay, serviceVars, dtoVars, diskVars, Move, localVars, Goto,
      Leave, Return, BeforeAnchor, TypeOK, ThreadInv, WithIndex, WithSession, Tearing,
      RequestInv, Index, NoProcess, AllOps
<1>18. ASSUME NEW t \in Thread, SegmentLatest(t) PROVE ThreadInv'
  BY <1>18 DEF SegmentLatest, serviceVars, dtoVars, diskVars, Goto, TypeOK, ThreadInv,
      WithIndex, WithSession, Tearing, RequestInv, Index, NoProcess, AllOps
<1>19. ASSUME NEW t \in Thread, SegmentProbe(t) PROVE ThreadInv'
  BY <1>19 DEF SegmentProbe, serviceVars, dtoVars, Reaped, alive, Move, localVars, Goto,
      Probe, TypeOK, ThreadInv, WithIndex, WithSession, Tearing, RequestInv, Index,
      NoProcess, AllOps
<1>20. ASSUME NEW t \in Thread, Restart(t) PROVE ThreadInv'
  BY <1>20 DEF Restart, serviceVars, dtoVars, Move, localVars, Goto, EnsureFails, Purged,
      Reaped, alive, Terminated, EnsureDone, TypeOK, ThreadInv, WithIndex, WithSession,
      Tearing, RequestInv, Index, NoProcess, AllOps
<1>21. ASSUME NEW t \in Thread, RestartNote(t) PROVE ThreadInv'
  BY <1>21 DEF RestartNote, serviceVars, diskVars, Move, localVars, Goto, Larger, TypeOK,
      ThreadInv, WithIndex, WithSession, Tearing, RequestInv, Index, NoProcess, AllOps
<1>22. ASSUME NEW t \in Thread, Await(t) PROVE ThreadInv'
  <2>1. UNCHANGED <<created, dying>> /\ pc[t] = "await" /\ sid[t] \in created
    BY <1>22 DEF Await, Stay, Leave, serviceVars, diskVars, ThreadInv, WithSession
  <2>2. CASE Return(t)
    BY <2>1, <2>2 DEF Return, Goto, ThreadInv, WithIndex, WithSession, Tearing, TypeOK
  <2>3. CASE total[sid[t]] = 0 /\ Move(t, "final")
    BY <2>1, <2>3 DEF Move, Goto, localVars, ThreadInv, RequestInv, WithIndex, WithSession,
       Tearing, TypeOK
  <2>4. CASE total[sid[t]] # 0 /\ (Move(t, "seen") \/ (mine[t] = None /\ Move(t, "gate")))
    BY <2>1, <2>4 DEF Move, Goto, localVars, ThreadInv, RequestInv, WithIndex, WithSession,
       Tearing, TypeOK
  <2> QED
    BY <1>22, <2>2, <2>3, <2>4 DEF Await, Stay, Leave
<1>23. ASSUME NEW t \in Thread, Gate(t) PROVE ThreadInv'
  BY <1>23 DEF Gate, serviceVars, dtoVars, Forget, Goto, Move, localVars, Return, Larger,
      Reaped, alive, Probe, TypeOK, ThreadInv, WithIndex, WithSession, Tearing, RequestInv,
      Index, NoProcess, AllOps
<1>24. ASSUME NEW t \in Thread, LockGet(t) PROVE ThreadInv'
  BY <1>24 DEF LockGet, dtoVars, diskVars, Goto, LockOf, TypeOK, ThreadInv, WithIndex,
      WithSession, Tearing, RequestInv, Index, NoProcess, AllOps
<1>25. ASSUME NEW t \in Thread, LockAcquire(t) PROVE ThreadInv'
  BY <1>25 DEF LockAcquire, Stay, serviceVars, dtoVars, diskVars, Move, localVars, Goto,
      LockFree, TypeOK, ThreadInv, WithIndex, WithSession, Tearing, RequestInv, Index,
      NoProcess, AllOps
<1>26. ASSUME NEW t \in Thread, SegmentRelook(t) PROVE ThreadInv'
  BY <1>26 DEF SegmentRelook, Stay, serviceVars, dtoVars, diskVars, Move, localVars, Goto,
      TypeOK, ThreadInv, WithIndex, WithSession, Tearing, RequestInv, Index, NoProcess,
      AllOps
<1>27. ASSUME NEW t \in Thread, SeenRead(t) PROVE ThreadInv'
  BY <1>27 DEF SeenRead, serviceVars, dtoVars, diskVars, Goto, TypeOK, ThreadInv,
      WithIndex, WithSession, Tearing, RequestInv, Index, NoProcess, AllOps
<1>28. ASSUME NEW t \in Thread, SeenWrite(t) PROVE ThreadInv'
  BY <1>28 DEF SeenWrite, serviceVars, diskVars, Goto, Larger, TypeOK, ThreadInv,
      WithIndex, WithSession, Tearing, RequestInv, Index, NoProcess, AllOps
<1>29. ASSUME NEW t \in Thread, Final(t) PROVE ThreadInv'
  BY <1>29 DEF Final, dtoVars, diskVars, Return, Goto, TypeOK, ThreadInv, WithIndex,
      WithSession, Tearing, RequestInv, Index, NoProcess, AllOps
<1>30. ASSUME NEW t \in Thread, EncodeOn(t) PROVE ThreadInv'
  BY <1>30 DEF EncodeOn, threadVars, localVars, serviceVars, dtoVars, TypeOK, ThreadInv,
      WithIndex, WithSession, Tearing, RequestInv, Index, NoProcess, AllOps
<1>31. ASSUME NEW s \in Session, Expire(s) PROVE ThreadInv'
  BY <1>31 DEF Expire, threadVars, localVars, dtoVars, diskVars, TypeOK, ThreadInv,
      WithIndex, WithSession, Tearing, RequestInv, Index, NoProcess, AllOps
<1>32. ASSUME NEW s \in Session, Encode(s) PROVE ThreadInv'
  BY <1>32 DEF Encode, threadVars, localVars, serviceVars, dtoVars, alive, TypeOK,
      ThreadInv, WithIndex, WithSession, Tearing, RequestInv, Index, NoProcess, AllOps
<1>33. ASSUME NEW s \in Session, Exit(s) PROVE ThreadInv'
  BY <1>33 DEF Exit, threadVars, localVars, serviceVars, dtoVars, alive, TypeOK, ThreadInv,
      WithIndex, WithSession, Tearing, RequestInv, Index, NoProcess, AllOps
<1>34. CASE UNCHANGED vars
  BY <1>34 DEF vars, diskVars, dtoVars, serviceVars, threadVars, localVars, TypeOK, ThreadInv,
     WithIndex,
      WithSession, Tearing, RequestInv, Index, NoProcess, AllOps
<1> QED
  BY <1>1, <1>2, <1>3, <1>4, <1>5, <1>6, <1>7, <1>8, <1>9, <1>10, <1>11, <1>12, <1>13,
      <1>14, <1>15, <1>16, <1>17, <1>18, <1>19, <1>20, <1>21, <1>22, <1>23, <1>24, <1>25,
      <1>26, <1>27, <1>28, <1>29, <1>30, <1>31, <1>32, <1>33, <1>34 DEF Next, CallSomething,
      ThreadStep

\* Requests before the anchor are refused before anything is restarted.
LEMMA RequestStep == IndInv /\ [Next]_vars => RequestInv'
<1> SUFFICES ASSUME IndInv, [Next]_vars PROVE RequestInv'
  OBVIOUS
<1> USE NoneAssumption, TotalAssumption, ContractAssumption DEF IndInv
<1>1. ASSUME NEW t \in Thread, CallCreate(t) PROVE RequestInv'
  BY <1>1 DEF CallCreate, CallSweep, Call, dtoVars, diskVars, AfterTeardown, Goto,
      Unlocked, TypeOK, ThreadInv, WithIndex, WithSession, Tearing, RequestInv, AnchorInv,
      AnchoredAt, Larger
<1>2. ASSUME NEW t \in Thread, CallResolve(t) PROVE RequestInv'
  BY <1>2 DEF CallResolve, CallSweep, Call, dtoVars, diskVars, AfterTeardown, Goto,
      Unlocked, TypeOK, ThreadInv, WithIndex, WithSession, Tearing, RequestInv, AnchorInv,
      AnchoredAt, Larger
<1>3. ASSUME NEW t \in Thread, CallManifest(t) PROVE RequestInv'
  BY <1>3 DEF CallManifest, CallSweep, Call, dtoVars, diskVars, AfterTeardown, Goto,
      Unlocked, TypeOK, ThreadInv, WithIndex, WithSession, Tearing, RequestInv, AnchorInv,
      AnchoredAt, Larger
<1>4. ASSUME NEW t \in Thread, CallStop(t) PROVE RequestInv'
  BY <1>4 DEF CallStop, Call, dtoVars, diskVars, AfterTeardown, Goto, Unlocked, TypeOK,
      ThreadInv, WithIndex, WithSession, Tearing, RequestInv, AnchorInv, AnchoredAt, Larger
<1>5. ASSUME NEW t \in Thread, StopUnknown(t) PROVE RequestInv'
  BY <1>5 DEF StopUnknown, threadVars, localVars, dtoVars, diskVars, Unlocked, TypeOK,
      ThreadInv, WithIndex, WithSession, Tearing, RequestInv, AnchorInv, AnchoredAt, Larger
<1>6. ASSUME NEW t \in Thread, CallCleanup(t) PROVE RequestInv'
  BY <1>6 DEF CallCleanup, vars, threadVars, localVars, serviceVars, dtoVars, diskVars,
      CallSweep, Call, AfterTeardown, Goto, Unlocked, TypeOK, ThreadInv, WithIndex,
      WithSession, Tearing, RequestInv, AnchorInv, AnchoredAt, Larger
<1>7. ASSUME NEW t \in Thread, Heartbeat(t) PROVE RequestInv'
  BY <1>7 DEF Heartbeat, threadVars, localVars, diskVars, Larger, TypeOK, ThreadInv,
      WithIndex, WithSession, Tearing, RequestInv, AnchorInv, AnchoredAt
<1>8. ASSUME NEW t \in Thread, TearPop(t) PROVE RequestInv'
  BY <1>8 DEF TearPop, serviceVars, dtoVars, Goto, TypeOK, ThreadInv, WithIndex,
      WithSession, Tearing, RequestInv, AnchorInv, AnchoredAt, Larger
<1>9. ASSUME NEW t \in Thread, TearKill(t) PROVE RequestInv'
  BY <1>9 DEF TearKill, serviceVars, dtoVars, Move, localVars, Goto, TornDown,
      AfterTeardown, Return, TypeOK, ThreadInv, WithIndex, WithSession, Tearing,
      RequestInv, AnchorInv, AnchoredAt, Larger
<1>10. ASSUME NEW t \in Thread, TearRm(t) PROVE RequestInv'
  BY <1>10 DEF TearRm, serviceVars, dtoVars, TornDown, AfterTeardown, Goto, Return, TypeOK,
      ThreadInv, WithIndex, WithSession, Tearing, RequestInv, AnchorInv, AnchoredAt, Larger
<1>11. ASSUME NEW t \in Thread, CreateRefused(t) PROVE RequestInv'
  BY <1>11 DEF CreateRefused, serviceVars, dtoVars, diskVars, Return, Goto, TypeOK,
      ThreadInv, WithIndex, WithSession, Tearing, RequestInv, AnchorInv, AnchoredAt, Larger
<1>12. ASSUME NEW t \in Thread, CreateStart(t) PROVE RequestInv'
  BY <1>12 DEF CreateStart, Return, Goto, Larger, EnsureFails, Purged, Reaped, alive,
      Terminated, EnsureDone, TypeOK, ThreadInv, WithIndex, WithSession, Tearing,
      RequestInv, AnchorInv, AnchoredAt
<1>13. ASSUME NEW t \in Thread, CreateReady(t) PROVE RequestInv'
  BY <1>13 DEF CreateReady, serviceVars, dtoVars, diskVars, Move, localVars, Goto, Ready,
      TypeOK, ThreadInv, WithIndex, WithSession, Tearing, RequestInv, AnchorInv,
      AnchoredAt, Larger
<1>14. ASSUME NEW t \in Thread, CreateFails(t) PROVE RequestInv'
  BY <1>14 DEF CreateFails, serviceVars, dtoVars, alive, Reaped, Return, Goto, Ready,
      TypeOK, ThreadInv, WithIndex, WithSession, Tearing, RequestInv, AnchorInv,
      AnchoredAt, Larger
<1>15. ASSUME NEW t \in Thread, CreateRegister(t) PROVE RequestInv'
  BY <1>15 DEF CreateRegister, dtoVars, diskVars, Return, Goto, TypeOK, ThreadInv,
      WithIndex, WithSession, Tearing, RequestInv, AnchorInv, AnchoredAt, Larger
<1>16. ASSUME NEW t \in Thread, ResolveGet(t) PROVE RequestInv'
  BY <1>16 DEF ResolveGet, Stay, serviceVars, dtoVars, diskVars, Move, localVars, Goto,
      Leave, Return, TypeOK, ThreadInv, WithIndex, WithSession, Tearing, RequestInv,
      AnchorInv, AnchoredAt, Larger
<1>17. ASSUME NEW t \in Thread, SegmentLook(t) PROVE RequestInv'
  <2>1. sid[t] \in created /\ UNCHANGED <<total, anchor>> /\ pc[t] = "look"
    BY <1>17 DEF SegmentLook, Stay, Leave, ThreadInv, WithSession, dtoVars
  <2>2. CASE Return(t)
    BY <2>1, <2>2 DEF Return, Goto, RequestInv, TypeOK
  <2>3. CASE seg[t] \in files[sid[t]] /\ Move(t, "seen")
    BY <2>1, <2>3 DEF Move, Goto, localVars, RequestInv, AnchorInv, AnchoredAt, TypeOK
  <2>4. CASE total[sid[t]] = 0 /\ Move(t, "await")
    BY <2>1, <2>4 DEF Move, Goto, localVars, RequestInv, TypeOK
  <2>5. CASE total[sid[t]] # 0 /\ ~ BeforeAnchor(t) /\ Move(t, "latest")
    <3>1. seg[t] >= anchor[sid[t]]
      BY <2>1, <2>5 DEF BeforeAnchor, TypeOK, Index
    <3> QED
      BY <2>1, <2>5, <3>1 DEF Move, Goto, localVars, RequestInv, TypeOK
  <2> QED
    BY <1>17, <2>2, <2>3, <2>4, <2>5 DEF SegmentLook, Stay, Leave
<1>18. ASSUME NEW t \in Thread, SegmentLatest(t) PROVE RequestInv'
  BY <1>18 DEF SegmentLatest, serviceVars, dtoVars, diskVars, Goto, TypeOK, ThreadInv,
      WithIndex, WithSession, Tearing, RequestInv, AnchorInv, AnchoredAt, Larger
<1>19. ASSUME NEW t \in Thread, SegmentProbe(t) PROVE RequestInv'
  BY <1>19 DEF SegmentProbe, serviceVars, dtoVars, Reaped, alive, Move, localVars, Goto,
      Probe, TypeOK, ThreadInv, WithIndex, WithSession, Tearing, RequestInv, AnchorInv,
      AnchoredAt, Larger
<1>20. ASSUME NEW t \in Thread, Restart(t) PROVE RequestInv'
  BY <1>20 DEF Restart, serviceVars, dtoVars, Move, localVars, Goto, EnsureFails, Purged,
      Reaped, alive, Terminated, EnsureDone, TypeOK, ThreadInv, WithIndex, WithSession,
      Tearing, RequestInv, AnchorInv, AnchoredAt, Larger
<1>21. ASSUME NEW t \in Thread, RestartNote(t) PROVE RequestInv'
  BY <1>21 DEF RestartNote, serviceVars, diskVars, Move, localVars, Goto, Larger, TypeOK,
      ThreadInv, WithIndex, WithSession, Tearing, RequestInv, AnchorInv, AnchoredAt
<1>22. ASSUME NEW t \in Thread, Await(t) PROVE RequestInv'
  BY <1>22 DEF Await, Stay, serviceVars, dtoVars, diskVars, Move, localVars, Goto, Leave,
      Return, TypeOK, ThreadInv, WithIndex, WithSession, Tearing, RequestInv, AnchorInv,
      AnchoredAt, Larger
<1>23. ASSUME NEW t \in Thread, Gate(t) PROVE RequestInv'
  BY <1>23 DEF Gate, serviceVars, dtoVars, Forget, Goto, Move, localVars, Return, Larger,
      Reaped, alive, Probe, TypeOK, ThreadInv, WithIndex, WithSession, Tearing, RequestInv,
      AnchorInv, AnchoredAt
<1>24. ASSUME NEW t \in Thread, LockGet(t) PROVE RequestInv'
  BY <1>24 DEF LockGet, dtoVars, diskVars, Goto, LockOf, TypeOK, ThreadInv, WithIndex,
      WithSession, Tearing, RequestInv, AnchorInv, AnchoredAt, Larger
<1>25. ASSUME NEW t \in Thread, LockAcquire(t) PROVE RequestInv'
  BY <1>25 DEF LockAcquire, Stay, serviceVars, dtoVars, diskVars, Move, localVars, Goto,
      LockFree, TypeOK, ThreadInv, WithIndex, WithSession, Tearing, RequestInv, AnchorInv,
      AnchoredAt, Larger
<1>26. ASSUME NEW t \in Thread, SegmentRelook(t) PROVE RequestInv'
  BY <1>26 DEF SegmentRelook, Stay, serviceVars, dtoVars, diskVars, Move, localVars, Goto,
      TypeOK, ThreadInv, WithIndex, WithSession, Tearing, RequestInv, AnchorInv,
      AnchoredAt, Larger
<1>27. ASSUME NEW t \in Thread, SeenRead(t) PROVE RequestInv'
  BY <1>27 DEF SeenRead, serviceVars, dtoVars, diskVars, Goto, TypeOK, ThreadInv,
      WithIndex, WithSession, Tearing, RequestInv, AnchorInv, AnchoredAt, Larger
<1>28. ASSUME NEW t \in Thread, SeenWrite(t) PROVE RequestInv'
  BY <1>28 DEF SeenWrite, serviceVars, diskVars, Goto, Larger, TypeOK, ThreadInv,
      WithIndex, WithSession, Tearing, RequestInv, AnchorInv, AnchoredAt
<1>29. ASSUME NEW t \in Thread, Final(t) PROVE RequestInv'
  BY <1>29 DEF Final, dtoVars, diskVars, Return, Goto, TypeOK, ThreadInv, WithIndex,
      WithSession, Tearing, RequestInv, AnchorInv, AnchoredAt, Larger
<1>30. ASSUME NEW t \in Thread, EncodeOn(t) PROVE RequestInv'
  BY <1>30 DEF EncodeOn, threadVars, localVars, serviceVars, dtoVars, TypeOK, ThreadInv,
      WithIndex, WithSession, Tearing, RequestInv, AnchorInv, AnchoredAt, Larger
<1>31. ASSUME NEW s \in Session, Expire(s) PROVE RequestInv'
  BY <1>31 DEF Expire, threadVars, localVars, dtoVars, diskVars, TypeOK, ThreadInv,
      WithIndex, WithSession, Tearing, RequestInv, AnchorInv, AnchoredAt, Larger
<1>32. ASSUME NEW s \in Session, Encode(s) PROVE RequestInv'
  BY <1>32 DEF Encode, threadVars, localVars, serviceVars, dtoVars, alive, TypeOK,
      ThreadInv, WithIndex, WithSession, Tearing, RequestInv, AnchorInv, AnchoredAt, Larger
<1>33. ASSUME NEW s \in Session, Exit(s) PROVE RequestInv'
  BY <1>33 DEF Exit, threadVars, localVars, serviceVars, dtoVars, alive, TypeOK, ThreadInv,
      WithIndex, WithSession, Tearing, RequestInv, AnchorInv, AnchoredAt, Larger
<1>34. CASE UNCHANGED vars
  BY <1>34 DEF vars, diskVars, dtoVars, serviceVars, threadVars, localVars, TypeOK, ThreadInv,
     WithIndex,
      WithSession, Tearing, RequestInv, AnchorInv, AnchoredAt, Larger
<1> QED
  BY <1>1, <1>2, <1>3, <1>4, <1>5, <1>6, <1>7, <1>8, <1>9, <1>10, <1>11, <1>12, <1>13,
      <1>14, <1>15, <1>16, <1>17, <1>18, <1>19, <1>20, <1>21, <1>22, <1>23, <1>24, <1>25,
      <1>26, <1>27, <1>28, <1>29, <1>30, <1>31, <1>32, <1>33, <1>34 DEF Next, CallSomething,
      ThreadStep

\* Encodes begin at the anchor or at a segment after it.
LEMMA AnchorStep == IndInv /\ [Next]_vars => AnchorInv'
<1> SUFFICES ASSUME IndInv, [Next]_vars PROVE AnchorInv'
  OBVIOUS
<1> USE NoneAssumption, TotalAssumption, ContractAssumption DEF IndInv
<1>1. ASSUME NEW t \in Thread, CallCreate(t) PROVE AnchorInv'
  BY <1>1 DEF CallCreate, CallSweep, Call, dtoVars, diskVars, AfterTeardown, Goto,
      Unlocked, TypeOK, ThreadInv, WithIndex, WithSession, Tearing, RequestInv, AnchorInv,
      AnchoredAt, alive, Larger, NoProcess, AnchorSegment, Index
<1>2. ASSUME NEW t \in Thread, CallResolve(t) PROVE AnchorInv'
  BY <1>2 DEF CallResolve, CallSweep, Call, dtoVars, diskVars, AfterTeardown, Goto,
      Unlocked, TypeOK, ThreadInv, WithIndex, WithSession, Tearing, RequestInv, AnchorInv,
      AnchoredAt, alive, Larger, NoProcess, AnchorSegment, Index
<1>3. ASSUME NEW t \in Thread, CallManifest(t) PROVE AnchorInv'
  BY <1>3 DEF CallManifest, CallSweep, Call, dtoVars, diskVars, AfterTeardown, Goto,
      Unlocked, TypeOK, ThreadInv, WithIndex, WithSession, Tearing, RequestInv, AnchorInv,
      AnchoredAt, alive, Larger, NoProcess, AnchorSegment, Index
<1>4. ASSUME NEW t \in Thread, CallStop(t) PROVE AnchorInv'
  BY <1>4 DEF CallStop, Call, dtoVars, diskVars, AfterTeardown, Goto, Unlocked, TypeOK,
      ThreadInv, WithIndex, WithSession, Tearing, RequestInv, AnchorInv, AnchoredAt, alive,
      Larger, NoProcess, AnchorSegment, Index
<1>5. ASSUME NEW t \in Thread, StopUnknown(t) PROVE AnchorInv'
  BY <1>5 DEF StopUnknown, threadVars, localVars, dtoVars, diskVars, Unlocked, TypeOK,
      ThreadInv, WithIndex, WithSession, Tearing, RequestInv, AnchorInv, AnchoredAt, alive,
      Larger, NoProcess, AnchorSegment, Index
<1>6. ASSUME NEW t \in Thread, CallCleanup(t) PROVE AnchorInv'
  <2>1. CASE UNCHANGED vars
    BY <2>1 DEF vars, diskVars, dtoVars, serviceVars, threadVars, localVars, AnchorInv,
       AnchoredAt, alive
  <2>2. CASE sessions \cap expired # {} /\ CallSweep(t, "cleanup", None, 0)
    BY <2>2 DEF CallSweep, Call, Goto, AfterTeardown, Unlocked, dtoVars, diskVars, AnchorInv,
       AnchoredAt, alive
  <2> QED
    BY <1>6, <2>1, <2>2 DEF CallCleanup
<1>7. ASSUME NEW t \in Thread, Heartbeat(t) PROVE AnchorInv'
  BY <1>7 DEF Heartbeat, threadVars, localVars, diskVars, Larger, TypeOK, ThreadInv,
      WithIndex, WithSession, Tearing, RequestInv, AnchorInv, AnchoredAt, alive, NoProcess,
      AnchorSegment, Index
<1>8. ASSUME NEW t \in Thread, TearPop(t) PROVE AnchorInv'
  BY <1>8 DEF TearPop, serviceVars, dtoVars, Goto, TypeOK, ThreadInv, WithIndex,
      WithSession, Tearing, RequestInv, AnchorInv, AnchoredAt, alive, Larger, NoProcess,
      AnchorSegment, Index
<1>9. ASSUME NEW t \in Thread, TearKill(t) PROVE AnchorInv'
  BY <1>9 DEF TearKill, serviceVars, dtoVars, Move, localVars, Goto, TornDown,
      AfterTeardown, Return, TypeOK, ThreadInv, WithIndex, WithSession, Tearing,
      RequestInv, AnchorInv, AnchoredAt, alive, Larger, NoProcess, AnchorSegment, Index
<1>10. ASSUME NEW t \in Thread, TearRm(t) PROVE AnchorInv'
  <2>1. /\ UNCHANGED <<active, start, encoded, dying, dtoVars, created>>
        /\ files' = [files EXCEPT ![cur[t]] = {}]
        /\ cur' = [cur EXCEPT ![t] = None]
    BY <1>10 DEF TearRm, serviceVars, TornDown, Return
  <2>2. dying[t] = NoProcess
    BY <1>10 DEF TearRm, ThreadInv
  <2>3. /\ \A s \in Session : files'[s] \subseteq files[s]
        /\ \A u \in Thread \ {t} : cur'[u] = cur[u]
    BY <2>1 DEF TypeOK
  <2> QED
    BY <2>1, <2>2, <2>3 DEF AnchorInv, AnchoredAt, alive, dtoVars, TypeOK
<1>11. ASSUME NEW t \in Thread, CreateRefused(t) PROVE AnchorInv'
  BY <1>11 DEF CreateRefused, serviceVars, dtoVars, diskVars, Return, Goto, TypeOK,
      ThreadInv, WithIndex, WithSession, Tearing, RequestInv, AnchorInv, AnchoredAt, alive,
      Larger, NoProcess, AnchorSegment, Index
<1>12. ASSUME NEW t \in Thread, CreateStart(t) PROVE AnchorInv'
  <2> DEFINE k == AnchorSegment(seg[t])
  <2>1. seg[t] \in Index /\ k \in Index
    BY <1>12, TotalAssumption, ContractAssumption
       DEF CreateStart, ThreadInv, WithIndex, AnchorSegment, Larger, Index
  <2>2. PICK s \in Session \ created, n \in Durations :
             /\ created' = created \cup {s} /\ older' = older \cup (created \X {s})
             /\ total' = [total EXCEPT ![s] = n]
             /\ anchor' = [anchor EXCEPT ![s] = k] /\ begin' = [begin EXCEPT ![s] = k]
             /\ playhead' = [playhead EXCEPT ![s] = seg[t]]
             /\ \/ /\ EnsureDone(s, k) /\ sid' = [sid EXCEPT ![t] = s] /\ Goto(t, "crtWait")
                   /\ UNCHANGED <<op, seg, latest, mine, stale, cur>>
                \/ EnsureFails(s, k) /\ Return(t)
             /\ UNCHANGED <<dying, sessions, gone, expired, lock>>
    BY <1>12 DEF CreateStart
  <2>3. Ensured(s, k) /\ DiskTypes /\ ServiceTypes
    BY <2>1, <2>2, EnsureEffect, TypeParts
  <2>4. \A u \in Thread : dying[u] # NoProcess => cur'[u] = cur[u] /\ cur[u] \in created
    <3>1. dying[t] = NoProcess
      BY <1>12 DEF CreateStart, ThreadInv
    <3>2. \A u \in Thread \ {t} : cur'[u] = cur[u]
      BY <2>2 DEF Return, TypeOK
    <3> QED
      BY <3>1, <3>2 DEF ThreadInv
  <2>5. \A v \in Session : encoded'[v] = NoProcess <=> start'[v] = NoProcess
    BY <2>3 DEF Ensured, AnchorInv
  <2>6. ASSUME NEW v \in created PROVE AnchoredAt(v)'
    BY <2>2, <2>3, <2>6 DEF Ensured, AnchorInv, AnchoredAt, ServiceTypes, alive
  <2>7. seg[t] >= k /\ files'[s] = {}
    BY <2>1, <2>2, <2>3, ContractAssumption DEF Ensured, AnchorInv, AnchorSegment, Larger, Index
  <2>8. AnchoredAt(s)'
    <3>1. start[s] = NoProcess /\ encoded[s] = NoProcess
      BY <2>3 DEF DiskTypes, alive, AnchorInv
    <3>2. start'[s] # NoProcess => start'[s] = k /\ encoded'[s] = k
      BY <2>3, <3>1 DEF Ensured
    <3>3. anchor'[s] = k /\ playhead'[s] = seg[t]
      BY <2>2, <2>3 DEF ServiceTypes
    <3> QED
      BY <2>1, <2>7, <3>2, <3>3 DEF AnchoredAt, alive, Index
  <2>9. \A v \in Session \ created' : files'[v] = {}
    BY <2>2, <2>3 DEF Ensured, AnchorInv
  <2>10. \A u \in Thread : dying'[u] # NoProcess => dying'[u] >= anchor'[cur'[u]]
    BY <2>2, <2>3, <2>4 DEF AnchorInv, ServiceTypes
  <2> QED
    BY <2>2, <2>5, <2>6, <2>8, <2>9, <2>10 DEF AnchorInv
<1>13. ASSUME NEW t \in Thread, CreateReady(t) PROVE AnchorInv'
  BY <1>13 DEF CreateReady, serviceVars, dtoVars, diskVars, Move, localVars, Goto, Ready,
      TypeOK, ThreadInv, WithIndex, WithSession, Tearing, RequestInv, AnchorInv,
      AnchoredAt, alive, Larger, NoProcess, AnchorSegment, Index
<1>14. ASSUME NEW t \in Thread, CreateFails(t) PROVE AnchorInv'
  BY <1>14 DEF CreateFails, serviceVars, dtoVars, alive, Reaped, Return, Goto, Ready,
      TypeOK, ThreadInv, WithIndex, WithSession, Tearing, RequestInv, AnchorInv,
      AnchoredAt, Larger, NoProcess, AnchorSegment, Index
<1>15. ASSUME NEW t \in Thread, CreateRegister(t) PROVE AnchorInv'
  BY <1>15 DEF CreateRegister, dtoVars, diskVars, Return, Goto, TypeOK, ThreadInv,
      WithIndex, WithSession, Tearing, RequestInv, AnchorInv, AnchoredAt, alive, Larger,
      NoProcess, AnchorSegment, Index
<1>16. ASSUME NEW t \in Thread, ResolveGet(t) PROVE AnchorInv'
  BY <1>16 DEF ResolveGet, Stay, serviceVars, dtoVars, diskVars, Move, localVars, Goto,
      Leave, Return, TypeOK, ThreadInv, WithIndex, WithSession, Tearing, RequestInv,
      AnchorInv, AnchoredAt, alive, Larger, NoProcess, AnchorSegment, Index
<1>17. ASSUME NEW t \in Thread, SegmentLook(t) PROVE AnchorInv'
  BY <1>17 DEF SegmentLook, Stay, serviceVars, dtoVars, diskVars, Move, localVars, Goto,
      Leave, Return, BeforeAnchor, TypeOK, ThreadInv, WithIndex, WithSession, Tearing,
      RequestInv, AnchorInv, AnchoredAt, alive, Larger, NoProcess, AnchorSegment, Index
<1>18. ASSUME NEW t \in Thread, SegmentLatest(t) PROVE AnchorInv'
  BY <1>18 DEF SegmentLatest, serviceVars, dtoVars, diskVars, Goto, TypeOK, ThreadInv,
      WithIndex, WithSession, Tearing, RequestInv, AnchorInv, AnchoredAt, alive, Larger,
      NoProcess, AnchorSegment, Index
<1>19. ASSUME NEW t \in Thread, SegmentProbe(t) PROVE AnchorInv'
  BY <1>19 DEF SegmentProbe, serviceVars, dtoVars, Reaped, alive, Move, localVars, Goto,
      Probe, TypeOK, ThreadInv, WithIndex, WithSession, Tearing, RequestInv, AnchorInv,
      AnchoredAt, Larger, NoProcess, AnchorSegment, Index
<1>20. ASSUME NEW t \in Thread, Restart(t) PROVE AnchorInv'
  <2>1. sid[t] \in created /\ sid[t] \in Session /\ seg[t] \in Index /\ seg[t] >= anchor[sid[t]]
    BY <1>20 DEF Restart, ThreadInv, WithSession, WithIndex, RequestInv, TypeOK
  <2>2. Ensured(sid[t], seg[t])
    BY <1>20, <2>1, TypeParts, EnsureEffect DEF Restart
  <2>3. UNCHANGED <<dying, dtoVars, serviceVars, cur>>
    BY <1>20 DEF Restart, Move, localVars
  <2>4. UNCHANGED <<created, anchor, playhead>>
    BY <2>3 DEF dtoVars, serviceVars
  <2>5. \A v \in Session : encoded'[v] = NoProcess <=> start'[v] = NoProcess
    BY <2>2 DEF Ensured, AnchorInv
  <2>6. ASSUME NEW v \in created
        PROVE  /\ \A i \in files'[v] : i >= anchor[v]
               /\ start'[v] # NoProcess => start'[v] >= anchor[v] /\ encoded'[v] >= anchor[v]
    BY <2>1, <2>2, <2>6 DEF Ensured, AnchorInv, AnchoredAt, alive, TypeOK
  <2>7. \A v \in Session \ created : files'[v] = {}
    BY <2>2 DEF Ensured, AnchorInv
  <2> QED
    BY <2>3, <2>4, <2>5, <2>6, <2>7 DEF AnchorInv, AnchoredAt, alive
<1>21. ASSUME NEW t \in Thread, RestartNote(t) PROVE AnchorInv'
  <2>1. sid[t] \in Session /\ seg[t] \in Index
    BY <1>21 DEF RestartNote, ThreadInv, WithSession, WithIndex, TypeOK
  <2>2. ASSUME NEW s \in Session PROVE playhead'[s] >= playhead[s]
    <3>1. playhead \in [Session -> Index] /\ playhead[s] \in Int /\ seg[t] \in Int
      BY <2>1 DEF TypeOK, Index
    <3>2. playhead' = playhead \/ playhead' = [playhead EXCEPT ![sid[t]] = Larger(playhead[sid[t]], seg[t])]
      BY <1>21 DEF RestartNote
    <3> QED
      BY <2>1, <3>1, <3>2 DEF Larger
  <2>3. UNCHANGED <<diskVars, serviceVars, anchor, cur>>
    BY <1>21 DEF RestartNote, Move, localVars
  <2>4. \A s \in Session : {playhead[s], anchor[s], playhead'[s]} \subseteq Int
    BY <1>21, <2>1 DEF RestartNote, Larger, TypeOK, Index
  <2> QED
    BY <2>2, <2>3, <2>4 DEF AnchorInv, AnchoredAt, alive, diskVars, serviceVars, TypeOK
<1>22. ASSUME NEW t \in Thread, Await(t) PROVE AnchorInv'
  BY <1>22 DEF Await, Stay, serviceVars, dtoVars, diskVars, Move, localVars, Goto, Leave,
      Return, TypeOK, ThreadInv, WithIndex, WithSession, Tearing, RequestInv, AnchorInv,
      AnchoredAt, alive, Larger, NoProcess, AnchorSegment, Index
<1>23. ASSUME NEW t \in Thread, Gate(t) PROVE AnchorInv'
  BY <1>23 DEF Gate, serviceVars, dtoVars, Forget, Goto, Move, localVars, Return, Larger,
      Reaped, alive, Probe, TypeOK, ThreadInv, WithIndex, WithSession, Tearing, RequestInv,
      AnchorInv, AnchoredAt, NoProcess, AnchorSegment, Index
<1>24. ASSUME NEW t \in Thread, LockGet(t) PROVE AnchorInv'
  BY <1>24 DEF LockGet, dtoVars, diskVars, Goto, LockOf, TypeOK, ThreadInv, WithIndex,
      WithSession, Tearing, RequestInv, AnchorInv, AnchoredAt, alive, Larger, NoProcess,
      AnchorSegment, Index
<1>25. ASSUME NEW t \in Thread, LockAcquire(t) PROVE AnchorInv'
  BY <1>25 DEF LockAcquire, Stay, serviceVars, dtoVars, diskVars, Move, localVars, Goto,
      LockFree, TypeOK, ThreadInv, WithIndex, WithSession, Tearing, RequestInv, AnchorInv,
      AnchoredAt, alive, Larger, NoProcess, AnchorSegment, Index
<1>26. ASSUME NEW t \in Thread, SegmentRelook(t) PROVE AnchorInv'
  BY <1>26 DEF SegmentRelook, Stay, serviceVars, dtoVars, diskVars, Move, localVars, Goto,
      TypeOK, ThreadInv, WithIndex, WithSession, Tearing, RequestInv, AnchorInv,
      AnchoredAt, alive, Larger, NoProcess, AnchorSegment, Index
<1>27. ASSUME NEW t \in Thread, SeenRead(t) PROVE AnchorInv'
  BY <1>27 DEF SeenRead, serviceVars, dtoVars, diskVars, Goto, TypeOK, ThreadInv,
      WithIndex, WithSession, Tearing, RequestInv, AnchorInv, AnchoredAt, alive, Larger,
      NoProcess, AnchorSegment, Index
<1>28. ASSUME NEW t \in Thread, SeenWrite(t) PROVE AnchorInv'
  BY <1>28 DEF SeenWrite, serviceVars, diskVars, Goto, Larger, TypeOK, ThreadInv,
      WithIndex, WithSession, Tearing, RequestInv, AnchorInv, AnchoredAt, alive, NoProcess,
      AnchorSegment, Index
<1>29. ASSUME NEW t \in Thread, Final(t) PROVE AnchorInv'
  BY <1>29 DEF Final, dtoVars, diskVars, Return, Goto, TypeOK, ThreadInv, WithIndex,
      WithSession, Tearing, RequestInv, AnchorInv, AnchoredAt, alive, Larger, NoProcess,
      AnchorSegment, Index
<1>30. ASSUME NEW t \in Thread, EncodeOn(t) PROVE AnchorInv'
  BY <1>30 DEF EncodeOn, threadVars, localVars, serviceVars, dtoVars, TypeOK, ThreadInv,
      WithIndex, WithSession, Tearing, RequestInv, AnchorInv, AnchoredAt, alive, Larger,
      NoProcess, AnchorSegment, Index
<1>31. ASSUME NEW s \in Session, Expire(s) PROVE AnchorInv'
  BY <1>31 DEF Expire, threadVars, localVars, dtoVars, diskVars, TypeOK, ThreadInv,
      WithIndex, WithSession, Tearing, RequestInv, AnchorInv, AnchoredAt, alive, Larger,
      NoProcess, AnchorSegment, Index
<1>32. ASSUME NEW s \in Session, Encode(s) PROVE AnchorInv'
  BY <1>32 DEF Encode, threadVars, localVars, serviceVars, dtoVars, alive, TypeOK,
      ThreadInv, WithIndex, WithSession, Tearing, RequestInv, AnchorInv, AnchoredAt,
      Larger, NoProcess, AnchorSegment, Index
<1>33. ASSUME NEW s \in Session, Exit(s) PROVE AnchorInv'
  BY <1>33 DEF Exit, threadVars, localVars, serviceVars, dtoVars, alive, TypeOK, ThreadInv,
      WithIndex, WithSession, Tearing, RequestInv, AnchorInv, AnchoredAt, Larger,
      NoProcess, AnchorSegment, Index
<1>34. CASE UNCHANGED vars
  BY <1>34 DEF vars, diskVars, dtoVars, serviceVars, threadVars, localVars, TypeOK, ThreadInv,
     WithIndex,
      WithSession, Tearing, RequestInv, AnchorInv, AnchoredAt, alive, Larger, NoProcess,
      AnchorSegment, Index
<1> QED
  BY <1>1, <1>2, <1>3, <1>4, <1>5, <1>6, <1>7, <1>8, <1>9, <1>10, <1>11, <1>12, <1>13,
      <1>14, <1>15, <1>16, <1>17, <1>18, <1>19, <1>20, <1>21, <1>22, <1>23, <1>24, <1>25,
      <1>26, <1>27, <1>28, <1>29, <1>30, <1>31, <1>32, <1>33, <1>34 DEF Next, CallSomething,
      ThreadStep

\* A session id comes from this creation or from _sessions.
LEMMA NewStep == IndInv /\ [Next]_vars => NewInv'
<1> SUFFICES ASSUME IndInv, [Next]_vars PROVE NewInv'
  OBVIOUS
<1> USE NoneAssumption DEF IndInv
<1>1. ASSUME NEW t \in Thread, CallCreate(t) PROVE NewInv'
  BY <1>1 DEF CallCreate, CallSweep, Call, dtoVars, diskVars, AfterTeardown, Goto,
      Unlocked, TypeOK, ThreadInv, WithIndex, WithSession, Tearing, NewInv
<1>2. ASSUME NEW t \in Thread, CallResolve(t) PROVE NewInv'
  BY <1>2 DEF CallResolve, CallSweep, Call, dtoVars, diskVars, AfterTeardown, Goto,
      Unlocked, TypeOK, ThreadInv, WithIndex, WithSession, Tearing, NewInv
<1>3. ASSUME NEW t \in Thread, CallManifest(t) PROVE NewInv'
  BY <1>3 DEF CallManifest, CallSweep, Call, dtoVars, diskVars, AfterTeardown, Goto,
      Unlocked, TypeOK, ThreadInv, WithIndex, WithSession, Tearing, NewInv
<1>4. ASSUME NEW t \in Thread, CallStop(t) PROVE NewInv'
  BY <1>4 DEF CallStop, Call, dtoVars, diskVars, AfterTeardown, Goto, Unlocked, TypeOK,
      ThreadInv, WithIndex, WithSession, Tearing, NewInv
<1>5. ASSUME NEW t \in Thread, StopUnknown(t) PROVE NewInv'
  BY <1>5 DEF StopUnknown, threadVars, localVars, dtoVars, diskVars, Unlocked, TypeOK,
      ThreadInv, WithIndex, WithSession, Tearing, NewInv
<1>6. ASSUME NEW t \in Thread, CallCleanup(t) PROVE NewInv'
  <2>1. CASE UNCHANGED vars
    BY <2>1 DEF vars, diskVars, dtoVars, serviceVars, threadVars, localVars, TypeOK, ThreadInv,
       WithSession, NewInv
  <2>2. CASE sessions \cap expired # {} /\ CallSweep(t, "cleanup", None, 0)
    BY <2>2 DEF CallSweep, Call, Goto, AfterTeardown, Unlocked, dtoVars, diskVars, TypeOK,
       ThreadInv, WithSession, NewInv
  <2> QED
    BY <1>6, <2>1, <2>2 DEF CallCleanup
<1>7. ASSUME NEW t \in Thread, Heartbeat(t) PROVE NewInv'
  BY <1>7 DEF Heartbeat, threadVars, localVars, diskVars, Larger, TypeOK, ThreadInv,
      WithIndex, WithSession, Tearing, NewInv
<1>8. ASSUME NEW t \in Thread, TearPop(t) PROVE NewInv'
  BY <1>8 DEF TearPop, serviceVars, dtoVars, Goto, TypeOK, ThreadInv, WithIndex,
      WithSession, Tearing, NewInv
<1>9. ASSUME NEW t \in Thread, TearKill(t) PROVE NewInv'
  BY <1>9 DEF TearKill, serviceVars, dtoVars, Move, localVars, Goto, TornDown,
      AfterTeardown, Return, TypeOK, ThreadInv, WithIndex, WithSession, Tearing, NewInv
<1>10. ASSUME NEW t \in Thread, TearRm(t) PROVE NewInv'
  BY <1>10 DEF TearRm, serviceVars, dtoVars, TornDown, AfterTeardown, Goto, Return, TypeOK,
      ThreadInv, WithIndex, WithSession, Tearing, NewInv
<1>11. ASSUME NEW t \in Thread, CreateRefused(t) PROVE NewInv'
  BY <1>11 DEF CreateRefused, serviceVars, dtoVars, diskVars, Return, Goto, TypeOK,
      ThreadInv, WithIndex, WithSession, Tearing, NewInv
<1>12. ASSUME NEW t \in Thread, CreateStart(t) PROVE NewInv'
  <2>1. pc[t] = "crtStart" /\ UNCHANGED <<sessions, stale>>
    BY <1>12 DEF CreateStart, Return
  <2>2. CASE Return(t)
    BY <2>1, <2>2 DEF Return, Goto, NewInv, ThreadInv, WithSession, TypeOK
  <2>3. CASE ~ Return(t)
    <3>1. PICK s \in Session \ created : sid' = [sid EXCEPT ![t] = s] /\ Goto(t, "crtWait") /\ UNCHANGED cur
      BY <1>12, <2>3 DEF CreateStart
    <3>2. s \notin sessions /\ \A u \in Thread : sid[u] # s /\ cur[u] # s /\ s \notin stale[u]
      BY NoneAssumption DEF ThreadInv, TypeOK
    <3> QED
      BY <2>1, <3>1, <3>2 DEF NewInv, TypeOK, Goto
  <2> QED
    BY <2>2, <2>3
<1>13. ASSUME NEW t \in Thread, CreateReady(t) PROVE NewInv'
  BY <1>13 DEF CreateReady, serviceVars, dtoVars, diskVars, Move, localVars, Goto, Ready,
      TypeOK, ThreadInv, WithIndex, WithSession, Tearing, NewInv
<1>14. ASSUME NEW t \in Thread, CreateFails(t) PROVE NewInv'
  BY <1>14 DEF CreateFails, serviceVars, dtoVars, alive, Reaped, Return, Goto, Ready,
      TypeOK, ThreadInv, WithIndex, WithSession, Tearing, NewInv
<1>15. ASSUME NEW t \in Thread, CreateRegister(t) PROVE NewInv'
  BY <1>15 DEF CreateRegister, dtoVars, diskVars, Return, Goto, TypeOK, ThreadInv,
      WithIndex, WithSession, Tearing, NewInv
<1>16. ASSUME NEW t \in Thread, ResolveGet(t) PROVE NewInv'
  BY <1>16 DEF ResolveGet, Stay, serviceVars, dtoVars, diskVars, Move, localVars, Goto,
      Leave, Return, TypeOK, ThreadInv, WithIndex, WithSession, Tearing, NewInv
<1>17. ASSUME NEW t \in Thread, SegmentLook(t) PROVE NewInv'
  BY <1>17 DEF SegmentLook, Stay, serviceVars, dtoVars, diskVars, Move, localVars, Goto,
      Leave, Return, BeforeAnchor, TypeOK, ThreadInv, WithIndex, WithSession, Tearing,
      NewInv
<1>18. ASSUME NEW t \in Thread, SegmentLatest(t) PROVE NewInv'
  BY <1>18 DEF SegmentLatest, serviceVars, dtoVars, diskVars, Goto, TypeOK, ThreadInv,
      WithIndex, WithSession, Tearing, NewInv
<1>19. ASSUME NEW t \in Thread, SegmentProbe(t) PROVE NewInv'
  BY <1>19 DEF SegmentProbe, serviceVars, dtoVars, Reaped, alive, Move, localVars, Goto,
      Probe, TypeOK, ThreadInv, WithIndex, WithSession, Tearing, NewInv
<1>20. ASSUME NEW t \in Thread, Restart(t) PROVE NewInv'
  BY <1>20 DEF Restart, serviceVars, dtoVars, Move, localVars, Goto, EnsureFails, Purged,
      Reaped, alive, Terminated, EnsureDone, TypeOK, ThreadInv, WithIndex, WithSession,
      Tearing, NewInv
<1>21. ASSUME NEW t \in Thread, RestartNote(t) PROVE NewInv'
  BY <1>21 DEF RestartNote, serviceVars, diskVars, Move, localVars, Goto, Larger, TypeOK,
      ThreadInv, WithIndex, WithSession, Tearing, NewInv
<1>22. ASSUME NEW t \in Thread, Await(t) PROVE NewInv'
  BY <1>22 DEF Await, Stay, serviceVars, dtoVars, diskVars, Move, localVars, Goto, Leave,
      Return, TypeOK, ThreadInv, WithIndex, WithSession, Tearing, NewInv
<1>23. ASSUME NEW t \in Thread, Gate(t) PROVE NewInv'
  BY <1>23 DEF Gate, serviceVars, dtoVars, Forget, Goto, Move, localVars, Return, Larger,
      Reaped, alive, Probe, TypeOK, ThreadInv, WithIndex, WithSession, Tearing, NewInv
<1>24. ASSUME NEW t \in Thread, LockGet(t) PROVE NewInv'
  BY <1>24 DEF LockGet, dtoVars, diskVars, Goto, LockOf, TypeOK, ThreadInv, WithIndex,
      WithSession, Tearing, NewInv
<1>25. ASSUME NEW t \in Thread, LockAcquire(t) PROVE NewInv'
  BY <1>25 DEF LockAcquire, Stay, serviceVars, dtoVars, diskVars, Move, localVars, Goto,
      LockFree, TypeOK, ThreadInv, WithIndex, WithSession, Tearing, NewInv
<1>26. ASSUME NEW t \in Thread, SegmentRelook(t) PROVE NewInv'
  BY <1>26 DEF SegmentRelook, Stay, serviceVars, dtoVars, diskVars, Move, localVars, Goto,
      TypeOK, ThreadInv, WithIndex, WithSession, Tearing, NewInv
<1>27. ASSUME NEW t \in Thread, SeenRead(t) PROVE NewInv'
  BY <1>27 DEF SeenRead, serviceVars, dtoVars, diskVars, Goto, TypeOK, ThreadInv,
      WithIndex, WithSession, Tearing, NewInv
<1>28. ASSUME NEW t \in Thread, SeenWrite(t) PROVE NewInv'
  BY <1>28 DEF SeenWrite, serviceVars, diskVars, Goto, Larger, TypeOK, ThreadInv,
      WithIndex, WithSession, Tearing, NewInv
<1>29. ASSUME NEW t \in Thread, Final(t) PROVE NewInv'
  BY <1>29 DEF Final, dtoVars, diskVars, Return, Goto, TypeOK, ThreadInv, WithIndex,
      WithSession, Tearing, NewInv
<1>30. ASSUME NEW t \in Thread, EncodeOn(t) PROVE NewInv'
  BY <1>30 DEF EncodeOn, threadVars, localVars, serviceVars, dtoVars, TypeOK, ThreadInv,
      WithIndex, WithSession, Tearing, NewInv
<1>31. ASSUME NEW s \in Session, Expire(s) PROVE NewInv'
  BY <1>31 DEF Expire, threadVars, localVars, dtoVars, diskVars, TypeOK, ThreadInv,
      WithIndex, WithSession, Tearing, NewInv
<1>32. ASSUME NEW s \in Session, Encode(s) PROVE NewInv'
  BY <1>32 DEF Encode, threadVars, localVars, serviceVars, dtoVars, alive, TypeOK,
      ThreadInv, WithIndex, WithSession, Tearing, NewInv
<1>33. ASSUME NEW s \in Session, Exit(s) PROVE NewInv'
  BY <1>33 DEF Exit, threadVars, localVars, serviceVars, dtoVars, alive, TypeOK, ThreadInv,
      WithIndex, WithSession, Tearing, NewInv
<1>34. CASE UNCHANGED vars
  BY <1>34 DEF vars, diskVars, dtoVars, serviceVars, threadVars, localVars, TypeOK, ThreadInv,
     WithIndex,
      WithSession, Tearing, NewInv
<1> QED
  BY <1>1, <1>2, <1>3, <1>4, <1>5, <1>6, <1>7, <1>8, <1>9, <1>10, <1>11, <1>12, <1>13,
      <1>14, <1>15, <1>16, <1>17, <1>18, <1>19, <1>20, <1>21, <1>22, <1>23, <1>24, <1>25,
      <1>26, <1>27, <1>28, <1>29, <1>30, <1>31, <1>32, <1>33, <1>34 DEF Next, CallSomething,
      ThreadStep

\* The lock of a live session is never replaced.
LEMMA LockStep == IndInv /\ [Next]_vars => LockInv'
<1> SUFFICES ASSUME IndInv, [Next]_vars PROVE LockInv'
  OBVIOUS
<1> USE NoneAssumption DEF IndInv
<1>1. ASSUME NEW t \in Thread, CallCreate(t) PROVE LockInv'
  BY <1>1, LockCall DEF CallCreate, CallSweep
<1>2. ASSUME NEW t \in Thread, CallResolve(t) PROVE LockInv'
  BY <1>2, LockCall DEF CallResolve, CallSweep
<1>3. ASSUME NEW t \in Thread, CallManifest(t) PROVE LockInv'
  BY <1>3, LockCall DEF CallManifest, CallSweep
<1>4. ASSUME NEW t \in Thread, CallStop(t) PROVE LockInv'
  BY <1>4, LockCall DEF CallStop
<1>5. ASSUME NEW t \in Thread, StopUnknown(t) PROVE LockInv'
  BY <1>5 DEF StopUnknown, threadVars, localVars, dtoVars, diskVars, Unlocked, TypeOK,
      ThreadInv, WithIndex, WithSession, Tearing, NewInv, LockInv
<1>6. ASSUME NEW t \in Thread, CallCleanup(t) PROVE LockInv'
  <2>1. CASE UNCHANGED vars
    BY <2>1 DEF vars, diskVars, dtoVars, serviceVars, threadVars, localVars, TypeOK, ThreadInv,
       NewInv, LockInv
  <2>2. CASE sessions \cap expired # {} /\ CallSweep(t, "cleanup", None, 0)
    BY <2>2, LockCall DEF CallSweep
  <2> QED
    BY <1>6, <2>1, <2>2 DEF CallCleanup
<1>7. ASSUME NEW t \in Thread, Heartbeat(t) PROVE LockInv'
  BY <1>7 DEF Heartbeat, threadVars, localVars, diskVars, Larger, TypeOK, ThreadInv,
      WithIndex, WithSession, Tearing, NewInv, LockInv
<1>8. ASSUME NEW t \in Thread, TearPop(t) PROVE LockInv'
  BY <1>8 DEF TearPop, serviceVars, dtoVars, Goto, TypeOK, ThreadInv, WithIndex,
      WithSession, Tearing, NewInv, LockInv
<1>9. ASSUME NEW t \in Thread, TearKill(t) PROVE LockInv'
  <2>1. Return(t) \/ (UNCHANGED <<sid, mine>> /\ \E l \in PcState : Goto(t, l))
    BY <1>9 DEF TearKill, TornDown, Move, localVars, serviceVars, AfterTeardown, PcState
  <2>2. pc[t] # "lockAcq" /\ UNCHANGED <<sessions, lock>>
    BY <1>9 DEF TearKill, TornDown, Move, localVars, serviceVars
  <2> QED
    BY <2>1, <2>2, LockFrame
<1>10. ASSUME NEW t \in Thread, TearRm(t) PROVE LockInv'
  <2>1. Return(t) \/ (UNCHANGED <<sid, mine>> /\ \E l \in PcState : Goto(t, l))
    BY <1>10 DEF TearRm, TornDown, serviceVars, AfterTeardown, PcState
  <2>2. pc[t] # "lockAcq" /\ UNCHANGED <<sessions, lock>>
    BY <1>10 DEF TearRm, TornDown, serviceVars
  <2> QED
    BY <2>1, <2>2, LockFrame
<1>11. ASSUME NEW t \in Thread, CreateRefused(t) PROVE LockInv'
  BY <1>11 DEF CreateRefused, serviceVars, dtoVars, diskVars, Return, Goto, TypeOK,
      ThreadInv, WithIndex, WithSession, Tearing, NewInv, LockInv
<1>12. ASSUME NEW t \in Thread, CreateStart(t) PROVE LockInv'
  <2>1. Return(t) \/ \E s \in Session \ created : sid' = [sid EXCEPT ![t] = s] /\ Goto(t, "crtWait") /\ UNCHANGED mine
    BY <1>12 DEF CreateStart
  <2>2. pc[t] = "crtStart" /\ UNCHANGED <<sessions, lock>> /\ mine[t] = None
    BY <1>12 DEF CreateStart, ThreadInv
  <2>3. CASE Return(t)
    BY <2>2, <2>3, LockFrame
  <2>4. CASE ~ Return(t)
    BY <2>1, <2>2, <2>4 DEF LockInv, TypeOK, Goto
  <2> QED
    BY <2>3, <2>4
<1>13. ASSUME NEW t \in Thread, CreateReady(t) PROVE LockInv'
  BY <1>13 DEF CreateReady, serviceVars, dtoVars, diskVars, Move, localVars, Goto, Ready,
      TypeOK, ThreadInv, WithIndex, WithSession, Tearing, NewInv, LockInv
<1>14. ASSUME NEW t \in Thread, CreateFails(t) PROVE LockInv'
  BY <1>14 DEF CreateFails, serviceVars, dtoVars, alive, Reaped, Return, Goto, Ready,
      TypeOK, ThreadInv, WithIndex, WithSession, Tearing, NewInv, LockInv
<1>15. ASSUME NEW t \in Thread, CreateRegister(t) PROVE LockInv'
  BY <1>15 DEF CreateRegister, dtoVars, diskVars, Return, Goto, TypeOK, ThreadInv,
      WithIndex, WithSession, Tearing, NewInv, LockInv
<1>16. ASSUME NEW t \in Thread, ResolveGet(t) PROVE LockInv'
  <2>1. Return(t) \/ (UNCHANGED <<sid, mine>> /\ \E l \in PcState : Goto(t, l))
    BY <1>16 DEF ResolveGet, Stay, Leave, Move, localVars, serviceVars, AfterTeardown, PcState
  <2>2. pc[t] # "lockAcq" /\ UNCHANGED <<sessions, lock>>
    BY <1>16 DEF ResolveGet, Stay, Leave, Move, localVars, serviceVars
  <2> QED
    BY <2>1, <2>2, LockFrame
<1>17. ASSUME NEW t \in Thread, SegmentLook(t) PROVE LockInv'
  <2>1. Return(t) \/ (UNCHANGED <<sid, mine>> /\ \E l \in PcState : Goto(t, l))
    BY <1>17 DEF SegmentLook, Stay, Leave, Move, localVars, serviceVars, AfterTeardown, PcState
  <2>2. pc[t] # "lockAcq" /\ UNCHANGED <<sessions, lock>>
    BY <1>17 DEF SegmentLook, Stay, Leave, Move, localVars, serviceVars
  <2> QED
    BY <2>1, <2>2, LockFrame
<1>18. ASSUME NEW t \in Thread, SegmentLatest(t) PROVE LockInv'
  BY <1>18 DEF SegmentLatest, serviceVars, dtoVars, diskVars, Goto, TypeOK, ThreadInv,
      WithIndex, WithSession, Tearing, NewInv, LockInv
<1>19. ASSUME NEW t \in Thread, SegmentProbe(t) PROVE LockInv'
  BY <1>19 DEF SegmentProbe, serviceVars, dtoVars, Reaped, alive, Move, localVars, Goto,
      Probe, TypeOK, ThreadInv, WithIndex, WithSession, Tearing, NewInv, LockInv
<1>20. ASSUME NEW t \in Thread, Restart(t) PROVE LockInv'
  <2>1. Return(t) \/ (UNCHANGED <<sid, mine>> /\ \E l \in PcState : Goto(t, l))
    BY <1>20 DEF Restart, Move, localVars, serviceVars, AfterTeardown, PcState
  <2>2. pc[t] # "lockAcq" /\ UNCHANGED <<sessions, lock>>
    BY <1>20 DEF Restart, Move, localVars, serviceVars
  <2> QED
    BY <2>1, <2>2, LockFrame
<1>21. ASSUME NEW t \in Thread, RestartNote(t) PROVE LockInv'
  BY <1>21 DEF RestartNote, serviceVars, diskVars, Move, localVars, Goto, Larger, TypeOK,
      ThreadInv, WithIndex, WithSession, Tearing, NewInv, LockInv
<1>22. ASSUME NEW t \in Thread, Await(t) PROVE LockInv'
  <2>1. Return(t) \/ (UNCHANGED <<sid, mine>> /\ \E l \in PcState : Goto(t, l))
    BY <1>22 DEF Await, Stay, Leave, Move, localVars, serviceVars, AfterTeardown, PcState
  <2>2. pc[t] # "lockAcq" /\ UNCHANGED <<sessions, lock>>
    BY <1>22 DEF Await, Stay, Leave, Move, localVars, serviceVars
  <2> QED
    BY <2>1, <2>2, LockFrame
<1>23. ASSUME NEW t \in Thread, Gate(t) PROVE LockInv'
  <2>1. Return(t) \/ (UNCHANGED <<sid, mine>> /\ \E l \in PcState : Goto(t, l))
    BY <1>23 DEF Gate, Move, Forget, localVars, serviceVars, AfterTeardown, PcState
  <2>2. pc[t] # "lockAcq" /\ UNCHANGED <<sessions, lock>>
    BY <1>23 DEF Gate, Move, Forget, localVars, serviceVars
  <2> QED
    BY <2>1, <2>2, LockFrame
<1>24. ASSUME NEW t \in Thread, LockGet(t) PROVE LockInv'
  BY <1>24 DEF LockGet, dtoVars, diskVars, Goto, LockOf, TypeOK, ThreadInv, WithIndex,
      WithSession, Tearing, NewInv, LockInv
<1>25. ASSUME NEW t \in Thread, LockAcquire(t) PROVE LockInv'
  BY <1>25 DEF LockAcquire, Stay, serviceVars, dtoVars, diskVars, Move, localVars, Goto,
      LockFree, TypeOK, ThreadInv, WithIndex, WithSession, Tearing, NewInv, LockInv
<1>26. ASSUME NEW t \in Thread, SegmentRelook(t) PROVE LockInv'
  BY <1>26 DEF SegmentRelook, Stay, serviceVars, dtoVars, diskVars, Move, localVars, Goto,
      TypeOK, ThreadInv, WithIndex, WithSession, Tearing, NewInv, LockInv
<1>27. ASSUME NEW t \in Thread, SeenRead(t) PROVE LockInv'
  BY <1>27 DEF SeenRead, serviceVars, dtoVars, diskVars, Goto, TypeOK, ThreadInv,
      WithIndex, WithSession, Tearing, NewInv, LockInv
<1>28. ASSUME NEW t \in Thread, SeenWrite(t) PROVE LockInv'
  BY <1>28 DEF SeenWrite, serviceVars, diskVars, Goto, Larger, TypeOK, ThreadInv,
      WithIndex, WithSession, Tearing, NewInv, LockInv
<1>29. ASSUME NEW t \in Thread, Final(t) PROVE LockInv'
  BY <1>29 DEF Final, dtoVars, diskVars, Return, Goto, TypeOK, ThreadInv, WithIndex,
      WithSession, Tearing, NewInv, LockInv
<1>30. ASSUME NEW t \in Thread, EncodeOn(t) PROVE LockInv'
  BY <1>30 DEF EncodeOn, threadVars, localVars, serviceVars, dtoVars, TypeOK, ThreadInv,
      WithIndex, WithSession, Tearing, NewInv, LockInv
<1>31. ASSUME NEW s \in Session, Expire(s) PROVE LockInv'
  BY <1>31 DEF Expire, threadVars, localVars, dtoVars, diskVars, TypeOK, ThreadInv,
      WithIndex, WithSession, Tearing, NewInv, LockInv
<1>32. ASSUME NEW s \in Session, Encode(s) PROVE LockInv'
  BY <1>32 DEF Encode, threadVars, localVars, serviceVars, dtoVars, alive, TypeOK,
      ThreadInv, WithIndex, WithSession, Tearing, NewInv, LockInv
<1>33. ASSUME NEW s \in Session, Exit(s) PROVE LockInv'
  BY <1>33 DEF Exit, threadVars, localVars, serviceVars, dtoVars, alive, TypeOK, ThreadInv,
      WithIndex, WithSession, Tearing, NewInv, LockInv
<1>34. CASE UNCHANGED vars
  BY <1>34 DEF vars, diskVars, dtoVars, serviceVars, threadVars, localVars, TypeOK, ThreadInv,
     WithIndex,
      WithSession, Tearing, NewInv, LockInv
<1> QED
  BY <1>1, <1>2, <1>3, <1>4, <1>5, <1>6, <1>7, <1>8, <1>9, <1>10, <1>11, <1>12, <1>13,
      <1>14, <1>15, <1>16, <1>17, <1>18, <1>19, <1>20, <1>21, <1>22, <1>23, <1>24, <1>25,
      <1>26, <1>27, <1>28, <1>29, <1>30, <1>31, <1>32, <1>33, <1>34 DEF Next, CallSomething,
      ThreadStep

\* Nobody removes the files of a session that is being created.
LEMMA ReadyStep == IndInv /\ [Next]_vars => PlayReady'
<1> SUFFICES ASSUME IndInv, [Next]_vars PROVE PlayReady'
  OBVIOUS
<1> USE NoneAssumption DEF IndInv
<1>1. ASSUME NEW t \in Thread, CallCreate(t) PROVE PlayReady'
  BY <1>1 DEF CallCreate, CallSweep, Call, dtoVars, diskVars, AfterTeardown, Goto,
      Unlocked, TypeOK, ThreadInv, WithIndex, WithSession, Tearing, NewInv, PlayReady,
      Ready
<1>2. ASSUME NEW t \in Thread, CallResolve(t) PROVE PlayReady'
  BY <1>2 DEF CallResolve, CallSweep, Call, dtoVars, diskVars, AfterTeardown, Goto,
      Unlocked, TypeOK, ThreadInv, WithIndex, WithSession, Tearing, NewInv, PlayReady,
      Ready
<1>3. ASSUME NEW t \in Thread, CallManifest(t) PROVE PlayReady'
  BY <1>3 DEF CallManifest, CallSweep, Call, dtoVars, diskVars, AfterTeardown, Goto,
      Unlocked, TypeOK, ThreadInv, WithIndex, WithSession, Tearing, NewInv, PlayReady,
      Ready
<1>4. ASSUME NEW t \in Thread, CallStop(t) PROVE PlayReady'
  BY <1>4 DEF CallStop, Call, dtoVars, diskVars, AfterTeardown, Goto, Unlocked, TypeOK,
      ThreadInv, WithIndex, WithSession, Tearing, NewInv, PlayReady, Ready
<1>5. ASSUME NEW t \in Thread, StopUnknown(t) PROVE PlayReady'
  BY <1>5 DEF StopUnknown, threadVars, localVars, dtoVars, diskVars, Unlocked, TypeOK,
      ThreadInv, WithIndex, WithSession, Tearing, NewInv, PlayReady, Ready
<1>6. ASSUME NEW t \in Thread, CallCleanup(t) PROVE PlayReady'
  BY <1>6 DEF CallCleanup, vars, threadVars, localVars, serviceVars, dtoVars, diskVars,
      CallSweep, Call, AfterTeardown, Goto, Unlocked, TypeOK, ThreadInv, WithIndex,
      WithSession, Tearing, NewInv, PlayReady, Ready
<1>7. ASSUME NEW t \in Thread, Heartbeat(t) PROVE PlayReady'
  BY <1>7 DEF Heartbeat, threadVars, localVars, diskVars, Larger, TypeOK, ThreadInv,
      WithIndex, WithSession, Tearing, NewInv, PlayReady, Ready
<1>8. ASSUME NEW t \in Thread, TearPop(t) PROVE PlayReady'
  BY <1>8 DEF TearPop, serviceVars, dtoVars, Goto, TypeOK, ThreadInv, WithIndex,
      WithSession, Tearing, NewInv, PlayReady, Ready
<1>9. ASSUME NEW t \in Thread, TearKill(t) PROVE PlayReady'
  BY <1>9 DEF TearKill, serviceVars, dtoVars, Move, localVars, Goto, TornDown,
      AfterTeardown, Return, TypeOK, ThreadInv, WithIndex, WithSession, Tearing, NewInv,
      PlayReady, Ready
<1>10. ASSUME NEW t \in Thread, TearRm(t) PROVE PlayReady'
  BY <1>10 DEF TearRm, serviceVars, dtoVars, TornDown, AfterTeardown, Goto, Return, TypeOK,
      ThreadInv, WithIndex, WithSession, Tearing, NewInv, PlayReady, Ready
<1>11. ASSUME NEW t \in Thread, CreateRefused(t) PROVE PlayReady'
  BY <1>11 DEF CreateRefused, serviceVars, dtoVars, diskVars, Return, Goto, TypeOK,
      ThreadInv, WithIndex, WithSession, Tearing, NewInv, PlayReady, Ready
<1>12. ASSUME NEW t \in Thread, CreateStart(t) PROVE PlayReady'
  BY <1>12 DEF CreateStart, Return, Goto, Larger, EnsureFails, Purged, Reaped, alive,
      Terminated, EnsureDone, TypeOK, ThreadInv, WithIndex, WithSession, Tearing, NewInv,
      PlayReady, Ready
<1>13. ASSUME NEW t \in Thread, CreateReady(t) PROVE PlayReady'
  BY <1>13 DEF CreateReady, serviceVars, dtoVars, diskVars, Move, localVars, Goto, Ready,
      TypeOK, ThreadInv, WithIndex, WithSession, Tearing, NewInv, PlayReady
<1>14. ASSUME NEW t \in Thread, CreateFails(t) PROVE PlayReady'
  BY <1>14 DEF CreateFails, serviceVars, dtoVars, alive, Reaped, Return, Goto, Ready,
      TypeOK, ThreadInv, WithIndex, WithSession, Tearing, NewInv, PlayReady
<1>15. ASSUME NEW t \in Thread, CreateRegister(t) PROVE PlayReady'
  BY <1>15 DEF CreateRegister, dtoVars, diskVars, Return, Goto, TypeOK, ThreadInv,
      WithIndex, WithSession, Tearing, NewInv, PlayReady, Ready
<1>16. ASSUME NEW t \in Thread, ResolveGet(t) PROVE PlayReady'
  BY <1>16 DEF ResolveGet, Stay, serviceVars, dtoVars, diskVars, Move, localVars, Goto,
      Leave, Return, TypeOK, ThreadInv, WithIndex, WithSession, Tearing, NewInv, PlayReady,
      Ready
<1>17. ASSUME NEW t \in Thread, SegmentLook(t) PROVE PlayReady'
  BY <1>17 DEF SegmentLook, Stay, serviceVars, dtoVars, diskVars, Move, localVars, Goto,
      Leave, Return, BeforeAnchor, TypeOK, ThreadInv, WithIndex, WithSession, Tearing,
      NewInv, PlayReady, Ready
<1>18. ASSUME NEW t \in Thread, SegmentLatest(t) PROVE PlayReady'
  BY <1>18 DEF SegmentLatest, serviceVars, dtoVars, diskVars, Goto, TypeOK, ThreadInv,
      WithIndex, WithSession, Tearing, NewInv, PlayReady, Ready
<1>19. ASSUME NEW t \in Thread, SegmentProbe(t) PROVE PlayReady'
  BY <1>19 DEF SegmentProbe, serviceVars, dtoVars, Reaped, alive, Move, localVars, Goto,
      Probe, TypeOK, ThreadInv, WithIndex, WithSession, Tearing, NewInv, PlayReady, Ready
<1>20. ASSUME NEW t \in Thread, Restart(t) PROVE PlayReady'
  BY <1>20 DEF Restart, serviceVars, dtoVars, Move, localVars, Goto, EnsureFails, Purged,
      Reaped, alive, Terminated, EnsureDone, TypeOK, ThreadInv, WithIndex, WithSession,
      Tearing, NewInv, PlayReady, Ready
<1>21. ASSUME NEW t \in Thread, RestartNote(t) PROVE PlayReady'
  BY <1>21 DEF RestartNote, serviceVars, diskVars, Move, localVars, Goto, Larger, TypeOK,
      ThreadInv, WithIndex, WithSession, Tearing, NewInv, PlayReady, Ready
<1>22. ASSUME NEW t \in Thread, Await(t) PROVE PlayReady'
  BY <1>22 DEF Await, Stay, serviceVars, dtoVars, diskVars, Move, localVars, Goto, Leave,
      Return, TypeOK, ThreadInv, WithIndex, WithSession, Tearing, NewInv, PlayReady, Ready
<1>23. ASSUME NEW t \in Thread, Gate(t) PROVE PlayReady'
  BY <1>23 DEF Gate, serviceVars, dtoVars, Forget, Goto, Move, localVars, Return, Larger,
      Reaped, alive, Probe, TypeOK, ThreadInv, WithIndex, WithSession, Tearing, NewInv,
      PlayReady, Ready
<1>24. ASSUME NEW t \in Thread, LockGet(t) PROVE PlayReady'
  BY <1>24 DEF LockGet, dtoVars, diskVars, Goto, LockOf, TypeOK, ThreadInv, WithIndex,
      WithSession, Tearing, NewInv, PlayReady, Ready
<1>25. ASSUME NEW t \in Thread, LockAcquire(t) PROVE PlayReady'
  BY <1>25 DEF LockAcquire, Stay, serviceVars, dtoVars, diskVars, Move, localVars, Goto,
      LockFree, TypeOK, ThreadInv, WithIndex, WithSession, Tearing, NewInv, PlayReady,
      Ready
<1>26. ASSUME NEW t \in Thread, SegmentRelook(t) PROVE PlayReady'
  BY <1>26 DEF SegmentRelook, Stay, serviceVars, dtoVars, diskVars, Move, localVars, Goto,
      TypeOK, ThreadInv, WithIndex, WithSession, Tearing, NewInv, PlayReady, Ready
<1>27. ASSUME NEW t \in Thread, SeenRead(t) PROVE PlayReady'
  BY <1>27 DEF SeenRead, serviceVars, dtoVars, diskVars, Goto, TypeOK, ThreadInv,
      WithIndex, WithSession, Tearing, NewInv, PlayReady, Ready
<1>28. ASSUME NEW t \in Thread, SeenWrite(t) PROVE PlayReady'
  BY <1>28 DEF SeenWrite, serviceVars, diskVars, Goto, Larger, TypeOK, ThreadInv,
      WithIndex, WithSession, Tearing, NewInv, PlayReady, Ready
<1>29. ASSUME NEW t \in Thread, Final(t) PROVE PlayReady'
  BY <1>29 DEF Final, dtoVars, diskVars, Return, Goto, TypeOK, ThreadInv, WithIndex,
      WithSession, Tearing, NewInv, PlayReady, Ready
<1>30. ASSUME NEW t \in Thread, EncodeOn(t) PROVE PlayReady'
  BY <1>30 DEF EncodeOn, threadVars, localVars, serviceVars, dtoVars, TypeOK, ThreadInv,
      WithIndex, WithSession, Tearing, NewInv, PlayReady, Ready
<1>31. ASSUME NEW s \in Session, Expire(s) PROVE PlayReady'
  BY <1>31 DEF Expire, threadVars, localVars, dtoVars, diskVars, TypeOK, ThreadInv,
      WithIndex, WithSession, Tearing, NewInv, PlayReady, Ready
<1>32. ASSUME NEW s \in Session, Encode(s) PROVE PlayReady'
  BY <1>32 DEF Encode, threadVars, localVars, serviceVars, dtoVars, alive, TypeOK,
      ThreadInv, WithIndex, WithSession, Tearing, NewInv, PlayReady, Ready
<1>33. ASSUME NEW s \in Session, Exit(s) PROVE PlayReady'
  BY <1>33 DEF Exit, threadVars, localVars, serviceVars, dtoVars, alive, TypeOK, ThreadInv,
      WithIndex, WithSession, Tearing, NewInv, PlayReady, Ready
<1>34. CASE UNCHANGED vars
  BY <1>34 DEF vars, diskVars, dtoVars, serviceVars, threadVars, localVars, TypeOK, ThreadInv,
     WithIndex,
      WithSession, Tearing, NewInv, PlayReady, Ready
<1> QED
  BY <1>1, <1>2, <1>3, <1>4, <1>5, <1>6, <1>7, <1>8, <1>9, <1>10, <1>11, <1>12, <1>13,
      <1>14, <1>15, <1>16, <1>17, <1>18, <1>19, <1>20, <1>21, <1>22, <1>23, <1>24, <1>25,
      <1>26, <1>27, <1>28, <1>29, <1>30, <1>31, <1>32, <1>33, <1>34 DEF Next, CallSomething,
      ThreadStep

\* Processes are added by ensure_hls_session only, after it has made room.
LEMMA CapStep == IndInv /\ [Next]_vars => CapInv'
<1> SUFFICES ASSUME IndInv, [Next]_vars PROVE CapInv'
  OBVIOUS
<1> USE DEF IndInv
<1>1. ASSUME NEW t \in Thread, CallCreate(t) PROVE CapInv'
  BY <1>1, CapShrinks DEF CallCreate, CallSweep, Call, diskVars
<1>2. ASSUME NEW t \in Thread, CallResolve(t) PROVE CapInv'
  BY <1>2, CapShrinks DEF CallResolve, CallSweep, Call, diskVars
<1>3. ASSUME NEW t \in Thread, CallManifest(t) PROVE CapInv'
  BY <1>3, CapShrinks DEF CallManifest, CallSweep, Call, diskVars
<1>4. ASSUME NEW t \in Thread, CallStop(t) PROVE CapInv'
  BY <1>4, CapShrinks DEF CallStop, Call, diskVars
<1>5. ASSUME NEW t \in Thread, StopUnknown(t) PROVE CapInv'
  BY <1>5, CapShrinks DEF StopUnknown, threadVars, diskVars
<1>6. ASSUME NEW t \in Thread, CallCleanup(t) PROVE CapInv'
  BY <1>6, CapShrinks DEF CallCleanup, vars, threadVars, diskVars, CallSweep, Call
<1>7. ASSUME NEW t \in Thread, Heartbeat(t) PROVE CapInv'
  BY <1>7, CapShrinks DEF Heartbeat, threadVars, diskVars
<1>8. ASSUME NEW t \in Thread, TearPop(t) PROVE CapInv'
  BY <1>8, CapShrinks DEF TearPop
<1>9. ASSUME NEW t \in Thread, TearKill(t) PROVE CapInv'
  BY <1>9, CapShrinks DEF TearKill
<1>10. ASSUME NEW t \in Thread, TearRm(t) PROVE CapInv'
  BY <1>10, CapShrinks DEF TearRm
<1>11. ASSUME NEW t \in Thread, CreateRefused(t) PROVE CapInv'
  BY <1>11, CapShrinks DEF CreateRefused, diskVars
<1>12. ASSUME NEW t \in Thread, CreateStart(t) PROVE CapInv'
  <2>1. seg[t] \in Index /\ AnchorSegment(seg[t]) \in Index
    BY <1>12, TotalAssumption, ContractAssumption
       DEF CreateStart, ThreadInv, WithIndex, AnchorSegment, Larger, Index
  <2>2. PICK s \in Session : EnsureDone(s, AnchorSegment(seg[t])) \/ EnsureFails(s, AnchorSegment(seg[t]))
    BY <1>12 DEF CreateStart
  <2> QED
    BY <2>1, <2>2, EnsureCap
<1>13. ASSUME NEW t \in Thread, CreateReady(t) PROVE CapInv'
  BY <1>13, CapShrinks DEF CreateReady, diskVars
<1>14. ASSUME NEW t \in Thread, CreateFails(t) PROVE CapInv'
  BY <1>14, CapShrinks DEF CreateFails, Reaped
<1>15. ASSUME NEW t \in Thread, CreateRegister(t) PROVE CapInv'
  BY <1>15, CapShrinks DEF CreateRegister, diskVars
<1>16. ASSUME NEW t \in Thread, ResolveGet(t) PROVE CapInv'
  BY <1>16, CapShrinks DEF ResolveGet, Stay, diskVars, Leave
<1>17. ASSUME NEW t \in Thread, SegmentLook(t) PROVE CapInv'
  BY <1>17, CapShrinks DEF SegmentLook, Stay, diskVars, Leave
<1>18. ASSUME NEW t \in Thread, SegmentLatest(t) PROVE CapInv'
  BY <1>18, CapShrinks DEF SegmentLatest, diskVars
<1>19. ASSUME NEW t \in Thread, SegmentProbe(t) PROVE CapInv'
  BY <1>19, CapShrinks DEF SegmentProbe, Reaped, Probe
<1>20. ASSUME NEW t \in Thread, Restart(t) PROVE CapInv'
  <2>1. sid[t] \in Session /\ seg[t] \in Index
    BY <1>20 DEF Restart, ThreadInv, WithSession, WithIndex, TypeOK
  <2> QED
    BY <1>20, <2>1, EnsureCap DEF Restart
<1>21. ASSUME NEW t \in Thread, RestartNote(t) PROVE CapInv'
  BY <1>21, CapShrinks DEF RestartNote, diskVars
<1>22. ASSUME NEW t \in Thread, Await(t) PROVE CapInv'
  BY <1>22, CapShrinks DEF Await, Stay, diskVars, Leave
<1>23. ASSUME NEW t \in Thread, Gate(t) PROVE CapInv'
  BY <1>23, CapShrinks DEF Gate, Reaped, Probe
<1>24. ASSUME NEW t \in Thread, LockGet(t) PROVE CapInv'
  BY <1>24, CapShrinks DEF LockGet, diskVars
<1>25. ASSUME NEW t \in Thread, LockAcquire(t) PROVE CapInv'
  BY <1>25, CapShrinks DEF LockAcquire, Stay, diskVars
<1>26. ASSUME NEW t \in Thread, SegmentRelook(t) PROVE CapInv'
  BY <1>26, CapShrinks DEF SegmentRelook, Stay, diskVars
<1>27. ASSUME NEW t \in Thread, SeenRead(t) PROVE CapInv'
  BY <1>27, CapShrinks DEF SeenRead, diskVars
<1>28. ASSUME NEW t \in Thread, SeenWrite(t) PROVE CapInv'
  BY <1>28, CapShrinks DEF SeenWrite, diskVars
<1>29. ASSUME NEW t \in Thread, Final(t) PROVE CapInv'
  BY <1>29, CapShrinks DEF Final, diskVars
<1>30. ASSUME NEW t \in Thread, EncodeOn(t) PROVE CapInv'
  BY <1>30, CapShrinks DEF EncodeOn, threadVars
<1>31. ASSUME NEW s \in Session, Expire(s) PROVE CapInv'
  BY <1>31, CapShrinks DEF Expire, threadVars, diskVars
<1>32. ASSUME NEW s \in Session, Encode(s) PROVE CapInv'
  BY <1>32, CapShrinks DEF Encode, threadVars
<1>33. ASSUME NEW s \in Session, Exit(s) PROVE CapInv'
  BY <1>33, CapShrinks DEF Exit, threadVars
<1>34. CASE UNCHANGED vars
  BY <1>34, CapShrinks DEF vars, diskVars
<1> QED
  BY <1>1, <1>2, <1>3, <1>4, <1>5, <1>6, <1>7, <1>8, <1>9, <1>10, <1>11, <1>12, <1>13,
      <1>14, <1>15, <1>16, <1>17, <1>18, <1>19, <1>20, <1>21, <1>22, <1>23, <1>24, <1>25,
      <1>26, <1>27, <1>28, <1>29, <1>30, <1>31, <1>32, <1>33, <1>34 DEF Next, CallSomething,
      ThreadStep

-----------------------------------------------------------------------------
(* The initial states and the theorems. *)

\* Nothing has been created.
LEMMA InitInv == Init => IndInv
<1> SUFFICES ASSUME Init PROVE IndInv
  OBVIOUS
<1> USE NoneAssumption, TotalAssumption DEF Init
<1>1. TypeOK
  <2>1. DiskTypes
    BY DEF DiskTypes, alive, NoProcess
  <2>2. ServiceTypes
    BY DEF ServiceTypes, Index
  <2>3. LocalTypes
    BY DEF LocalTypes, PcState
  <2> QED
    BY <2>1, <2>2, <2>3, TypeParts
<1>2. ThreadInv
  BY DEF ThreadInv, WithIndex, WithSession, Tearing
<1>3. RequestInv /\ AnchorInv /\ NewInv /\ LockInv /\ PlayReady
  BY DEF RequestInv, AnchorInv, NewInv, LockInv, PlayReady
<1>4. CapInv
  BY FS_EmptySet, MaxActiveAssumption DEF CapInv
<1> QED
  BY <1>1, <1>2, <1>3, <1>4 DEF IndInv

\* The inductive invariant holds of every reachable state.
THEOREM SpecInv == Spec => []IndInv
<1>1. IndInv /\ [Next]_vars => IndInv'
  BY TypeStep, ThreadStepInv, RequestStep, AnchorStep, NewStep, LockStep, ReadyStep,
     CapStep DEF IndInv
<1> QED
  BY InitInv, <1>1, PTL DEF Spec

\* Every variable keeps its type; in particular every file, process and playhead
\* is an index of the episode.
THEOREM TypeCorrect == Spec => []TypeOK
<1>1. IndInv => TypeOK
  BY DEF IndInv
<1> QED
  BY SpecInv, <1>1, PTL

\* _evict_oldest_locked keeps _active within max_active_sessions for every
\* order of creations, restarts, failures and teardowns.
THEOREM CapRespectedHolds == Spec => []CapRespected
<1>1. IndInv => CapRespected
  BY DEF IndInv, CapInv, CapRespected
<1> QED
  BY SpecInv, <1>1, PTL

\* No segment before hls_anchor_segment is ever on disk or encoded.
THEOREM AnchoredHolds == Spec => []Anchored
<1>1. IndInv => Anchored
  BY DEF IndInv, AnchorInv, AnchoredAt, Anchored
<1> QED
  BY SpecInv, <1>1, PTL

\* What render_manifest lists, ensure_segment does not refuse, for every margin,
\* lookahead and jump with PREFETCH_MARGIN and the lookahead within the jump.
THEOREM AdvertisedServableHolds == Spec => []AdvertisedServable
<1>1. IndInv => AdvertisedServable
  <2> SUFFICES ASSUME IndInv, NEW s \in sessions, NEW i \in Advertised(s)
               PROVE  i \in Index /\ ~ FarRequest(s, i, LatestExisting(s))
    BY DEF AdvertisedServable
  <2> DEFINE newest == LatestExisting(s)
  <2>1. /\ s \in Session /\ s \in created
        /\ anchor[s] \in Index /\ playhead[s] \in Index /\ begin[s] \in Index
        /\ playhead[s] >= anchor[s]
    BY DEF IndInv, TypeOK, AnchorInv, AnchoredAt
  <2>2. newest \in -1..(Total - 1)
    BY <2>1, Newest DEF IndInv, TypeOK
  <2> HIDE DEF newest
  <2>3. i \in anchor[s]..ManifestEnd(s)
    BY DEF Advertised
  <2>4. ManifestEnd(s) = IF newest >= Total - 1 THEN Total - 1
                         ELSE IF newest < 0 THEN Smaller(Total - 1, anchor[s] + Lookahead)
                         ELSE Smaller(Total - 1, Larger(newest, anchor[s]) + Margin)
    BY DEF ManifestEnd, newest
  <2>5. ManifestEnd(s) \in Int /\ ManifestEnd(s) <= Total - 1
    BY <2>1, <2>2, <2>4, TotalAssumption, ContractAssumption DEF Smaller, Larger, Index
  <2>6. i \in Index
    BY <2>1, <2>3, <2>5, TotalAssumption DEF Index
  <2>7. i <= EncodeHead(s, newest) + MaxJump
    BY <2>1, <2>2, <2>3, <2>4, <2>6, TotalAssumption, ContractAssumption
       DEF Smaller, Larger, Index, EncodeHead
  <2>8. EncodeHead(s, newest) \in Int
    BY <2>1, <2>2 DEF EncodeHead, Larger, Index
  <2>9. ~ FarRequest(s, i, newest)
    BY <2>6, <2>7, <2>8, ContractAssumption DEF FarRequest, Index
  <2> QED
    BY <2>6, <2>9 DEF newest
<1> QED
  BY SpecInv, <1>1, PTL

\* create_session registers a session only while the segment it promised is on disk.
THEOREM PlayReadyHolds == Spec => []PlayReady
<1>1. IndInv => PlayReady
  BY DEF IndInv
<1> QED
  BY SpecInv, <1>1, PTL

\* Requests that hold a restart lock of a live session exclude each other: they all
\* hold the same lock, although stop and cleanup discard it.  The prefetch path
\* restarts without one (segment_resolver.py 95-97), beside whoever holds it.
THEOREM RestartSerializedHolds == Spec => []RestartSerialized
<1>1. IndInv => RestartSerialized
  BY DEF IndInv, LockInv, RestartSerialized
<1> QED
  BY SpecInv, <1>1, PTL
=============================================================================
