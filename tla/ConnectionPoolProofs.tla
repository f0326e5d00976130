----------------------- MODULE ConnectionPoolProofs -----------------------
(***************************************************************************)
(* Machine-checked proofs about ConnectionPool, for every set of threads,  *)
(* every finite set of connections, every pool size and every number of    *)
(* retries and faults: the type invariant, HandedOutOnce, ConnectionCap    *)
(* and SavedIsDurable.                                                     *)
(*                                                                         *)
(* IndInv adds at which point of a call a thread can hold a connection,    *)
(* that the counter never falls behind the open connections before the     *)
(* pool is drained, that no pin and no other thread ever reaches a         *)
(* connection a statement checked out for itself, and that what a          *)
(* statement wrote waits for its commit, is durable, or was rolled back by *)
(* another thread on a connection both had joined.                         *)
(***************************************************************************)
EXTENDS ConnectionPool, FiniteSetTheorems, TLAPS

\* A connection is idle, or held by one statement or one batch, or closed.
HeldInv ==
    /\ idle \subseteq open
    /\ \A t \in Thread : own[t] # None => own[t] \in open \ idle
    /\ \A t \in Thread : batch[t] # None => batch[t] \in open \ idle
    /\ \A t, u \in Thread : own[t] # None /\ own[t] = own[u] => t = u
    /\ \A t, u \in Thread : batch[t] # None /\ batch[t] = batch[u] => t = u
    /\ \A t, u \in Thread : own[t] # None => own[t] # batch[u]

\* Where a thread holds a connection, and where it must.
PcInv ==
    \A t \in Thread :
      /\ own[t] # None => pc[t] \in {"exec", "commit", "release", "retry"}
      /\ pc[t] \in {"exec", "commit"} => use[t] \in Handle
      /\ pc[t] \in {"pin", "commitPin", "unpin", "releasePin"} => batch[t] # None
      /\ batch[t] # None => pc[t] \notin {"idle", "getPin", "done", "failed"}

\* Replacing a connection counts it again and closing it counts it down: the
\* counter may run ahead of the open connections, never behind them.
CapInv ==
    ~drained => Cardinality(open) <= created /\ Cardinality(open) <= PoolSize

\* A connection a statement checked out is its own: no pin, kept or current,
\* leads to it, and no other thread runs on it.
OwnInv ==
    \A t \in Thread : own[t] # None =>
      /\ use[t] = <<t, own[t]>> /\ pinned[2] # own[t]
      /\ \A u \in Thread : prev[u][2] # own[t] /\ (u # t => use[u][2] # own[t])

\* A thread without a call is idle, and has nothing to use or to lose.
IdleInv(t) ==
    /\ op[t] = None <=> pc[t] = "idle"
    /\ use[t] # NoHandle => pc[t] \in {"exec", "commit", "release", "retry"}
    /\ pc[t] = "idle" => t \notin spoiled

\* Where a call that is not a batch is, and that it saves.
SingleInv(t) ==
    op[t] \in {"save", "procedure"} =>
      /\ batch[t] = None /\ t \in saves
      /\ pc[t] \notin {"getPin", "pin", "commitPin", "unpin", "releasePin"}
      /\ op[t] = "procedure" => pc[t] # "choose" /\ t \notin spoiled
      /\ op[t] = "procedure" /\ use[t] # NoHandle => own[t] # None

\* What it wrote waits on its connection for the commit, unless it is durable
\* already or was rolled back under it.
Kept(t) == t \in durable \cup spoiled
CommitInv(t) ==
    op[t] \in {"save", "procedure"} =>
      /\ pc[t] = "commit" /\ Usable(use[t][2]) => Kept(t) \/ t \in txn[use[t][2]]
      /\ pc[t] \in {"release", "done"} => Kept(t)

SaveInv ==
    /\ OwnInv
    /\ \A t \in Thread : IdleInv(t) /\ SingleInv(t) /\ CommitInv(t)

IndInv == TypeOK /\ HeldInv /\ PcInv /\ CapInv /\ SaveInv

-----------------------------------------------------------------------------
(* The initial states. *)

\* The first connections are all idle and all counted.
LEMMA InitInv == Init => IndInv
<1> SUFFICES ASSUME Init PROVE IndInv
  OBVIOUS
<1> USE PoolNone DEF Init
<1>1. /\ IsFiniteSet(idle) /\ Cardinality(idle) \in Nat
  BY ConnFinite, FS_Subset, FS_CardinalityType
<1>2. TypeOK
  <2>1. /\ idle \subseteq Conn /\ open \subseteq Conn /\ broken \subseteq Conn
        /\ created \in Int
    BY <1>1
  <2>2. pc \in [Thread -> PC] /\ loops \in [Thread -> 0..Loops] /\ stmt \in [Thread -> 0..1]
    BY PoolBounds DEF PC
  <2> QED
    BY <2>1, <2>2 DEF TypeOK
<1>3. HeldInv
  BY DEF HeldInv
<1>4. PcInv
  BY DEF PcInv
<1>5. CapInv
  BY <1>1, PoolSizeAssumption DEF CapInv
<1>6. SaveInv
  BY DEF SaveInv, OwnInv, IdleInv, SingleInv, CommitInv, NoHandle, None
<1> QED
  BY <1>2, <1>3, <1>4, <1>5, <1>6 DEF IndInv

-----------------------------------------------------------------------------
(* Types, holders and program counters, step by step. *)

\* What the pool operations and the end of a record change, by type.
PoolTypes ==
    /\ idle \subseteq Conn /\ open \subseteq Conn /\ broken \subseteq Conn
    /\ created \in Int /\ lock \in Thread \cup {None} /\ txn \in [Conn -> SUBSET Thread]
RecordTypes ==
    /\ pc \in [Thread -> PC] /\ dblock \in Thread \cup {None}
    /\ loops \in [Thread -> 0..Loops] /\ stmt \in [Thread -> 0..1] /\ saves \subseteq Thread

\* Checking a connection out keeps the types.
LEMMA TakeTypes == ASSUME TypeOK, NEW c \in Conn, Take(c) PROVE PoolTypes'
<1>1. /\ idle' \subseteq Conn /\ open' \subseteq Conn /\ broken' \subseteq Conn
      /\ created' \in Int /\ lock' = lock
  BY DEF TypeOK, Take, TakeIdle, TakeNew
<1>2. txn' = txn \/ \E b \in idle : txn' = [txn EXCEPT ![b] = {}]
  BY DEF Take, TakeIdle, TakeNew
<1> QED
  BY <1>1, <1>2 DEF TypeOK, PoolTypes

\* Giving one back keeps them.
LEMMA GiveTypes ==
    ASSUME TypeOK, NEW t \in Thread, NEW c, Give(t, c)
    PROVE  PoolTypes' /\ discard' \subseteq Handle
<1>1. /\ idle' \subseteq Conn /\ open' \subseteq Conn /\ broken' \subseteq Conn
      /\ lock' = lock /\ discard' \subseteq Handle
  BY DEF TypeOK, Give, Keeps, PoolValid, Close
<1>2. created' \in Int
  BY DEF TypeOK, Give
<1>3. txn' \in [Conn -> SUBSET Thread]
  BY DEF TypeOK, Give, Keeps, PoolValid, Close
<1> QED
  BY <1>1, <1>2, <1>3 DEF TypeOK, PoolTypes

\* So does the end of a record of a batch.
LEMMA RecordStep == ASSUME TypeOK, NEW t \in Thread, NextRecord(t) PROVE RecordTypes'
<1>1. dblock' \in Thread \cup {None} /\ saves' \subseteq Thread
  BY DEF TypeOK, NextRecord, Unlock
<1>2. loops' \in [Thread -> 0..Loops] /\ stmt' \in [Thread -> 0..1]
  BY PoolBounds DEF TypeOK, NextRecord
<1>3. pc' \in [Thread -> PC]
  BY DEF TypeOK, NextRecord, Goto, PC
<1> QED
  BY <1>1, <1>2, <1>3 DEF RecordTypes

\* Every step keeps the types; a thread that marks a handle bad has one.
LEMMA TypeStep == IndInv /\ [Next]_vars => TypeOK'
<1> SUFFICES ASSUME IndInv, [Next]_vars PROVE TypeOK'
  OBVIOUS
<1> USE PoolNone, PoolBounds DEF IndInv
<1>1. ASSUME NEW t \in Thread, NEW o \in AllOps, Call(t, o) PROVE TypeOK'
  BY <1>1 DEF Call, AllOps, stmtVars, dataVars, poolVars, Goto, TypeOK, PcInv, Handle, NoHandle, PC
<1>2. ASSUME NEW t \in Thread, Choose(t) PROVE TypeOK'
  BY <1>2 DEF Choose, dataVars, poolVars, Goto, LockRecord, TypeOK, PcInv, Handle,
      NoHandle, PC
<1>3. ASSUME NEW t \in Thread, Get(t) PROVE TypeOK'
  <2>1. PoolTypes' /\ \E c \in Conn : own' = [own EXCEPT ![t] = c] /\ use' = [use EXCEPT ![t] = <<t, c>>]
    BY <1>3, TakeTypes DEF Get
  <2>2. /\ pc' = [pc EXCEPT ![t] = "exec"]
        /\ UNCHANGED <<pinned, durable, spoiled, discard, callVars, calls, faults, drained>>
    BY <1>3 DEF Get, Goto
  <2> QED
    BY <2>1, <2>2 DEF PoolTypes, callVars, TypeOK, Handle, PC
<1>4. ASSUME NEW t \in Thread, GetPin(t) PROVE TypeOK'
  <2>1. PoolTypes' /\ \E c \in Conn : batch' = [batch EXCEPT ![t] = c]
    BY <1>4, TakeTypes DEF GetPin
  <2>2. /\ pc' = [pc EXCEPT ![t] = "pin"]
        /\ UNCHANGED <<pinned, durable, spoiled, stmtVars, op, prev, loops, stmt, saves, dblock, calls,
                       faults, drained>>
    BY <1>4 DEF GetPin, Goto
  <2> QED
    BY <2>1, <2>2 DEF PoolTypes, stmtVars, TypeOK, PC
<1>5. ASSUME NEW t \in Thread, Wait(t) PROVE TypeOK'
  BY <1>5 DEF Wait, callVars, stmtVars, dataVars, Goto, Room, TypeOK, PcInv, Handle,
      NoHandle, PC
<1>6. ASSUME NEW t \in Thread, WaitTimeout(t) PROVE TypeOK'
  <2>1. RecordTypes'
    BY <1>6, RecordStep DEF WaitTimeout
  <2> QED
    BY <1>6, <2>1 DEF WaitTimeout, stmtVars, dataVars, RecordTypes, TypeOK
<1>7. ASSUME NEW t \in Thread, ReplaceFails(t) PROVE TypeOK'
  BY <1>7 DEF ReplaceFails, callVars, stmtVars, Goto, Close, PoolValid, TypeOK, PcInv,
      Handle, NoHandle, PC
<1>8. ASSUME NEW t \in Thread, Execute(t) PROVE TypeOK'
  BY <1>8 DEF Execute, callVars, stmtVars, poolVars, Goto, Usable, UsedConn, TypeOK, PcInv,
      Handle, NoHandle, PC
<1>9. ASSUME NEW t \in Thread, Unusable(t) PROVE TypeOK'
  BY <1>9 DEF Unusable, callVars, dataVars, poolVars, Goto, MarkBad, CheckedOut, UsedConn,
      Usable, TypeOK, PcInv, Handle, NoHandle, PC
<1>10. ASSUME NEW t \in Thread, StatementFails(t) PROVE TypeOK'
  BY <1>10 DEF StatementFails, callVars, stmtVars, poolVars, Goto, Usable, UsedConn,
      TypeOK, PcInv, Handle, NoHandle, PC
<1>11. ASSUME NEW t \in Thread, Commit(t) PROVE TypeOK'
  BY <1>11 DEF Commit, callVars, poolVars, dataVars, Goto, MarkBad, CheckedOut, Usable,
      UsedConn, TypeOK, PcInv, Handle, NoHandle, PC
<1>12. ASSUME NEW t \in Thread, Release(t) PROVE TypeOK'
  <2>1. PoolTypes' /\ discard' \subseteq Handle
    <3>1. CASE own[t] = None
      BY <1>12, <3>1 DEF Release, poolVars, PoolTypes, TypeOK
    <3>2. CASE own[t] # None
      BY <1>12, <3>2, GiveTypes DEF Release
    <3> QED
      BY <3>1, <3>2
  <2>2. RecordTypes'
    BY <1>12, RecordStep DEF Release, Goto, Unlock, TypeOK, RecordTypes, PC
  <2>3. own' = [own EXCEPT ![t] = None] /\ use' = [use EXCEPT ![t] = NoHandle]
    BY <1>12 DEF Release
  <2>4. UNCHANGED <<pinned, durable, spoiled, op, batch, prev, calls, faults, drained>>
    BY <1>12 DEF Release
  <2> QED
    BY <2>1, <2>2, <2>3, <2>4 DEF PoolTypes, RecordTypes, TypeOK
<1>13. ASSUME NEW t \in Thread, Retry(t) PROVE TypeOK'
  <2>1. PoolTypes' /\ discard' \subseteq Handle
    <3>1. CASE own[t] = None
      BY <1>13, <3>1 DEF Retry, poolVars, PoolTypes, TypeOK
    <3>2. CASE own[t] # None
      BY <1>13, <3>2, GiveTypes DEF Retry
    <3> QED
      BY <3>1, <3>2
  <2>2. RecordTypes'
    BY <1>13, RecordStep DEF Retry, Goto, RetryAllowed, TypeOK, RecordTypes, PC
  <2>3. own' = [own EXCEPT ![t] = None] /\ use' = [use EXCEPT ![t] = NoHandle]
    BY <1>13 DEF Retry
  <2>4. UNCHANGED <<pinned, durable, spoiled, op, batch, prev, calls, faults, drained>>
    BY <1>13 DEF Retry
  <2> QED
    BY <2>1, <2>2, <2>3, <2>4 DEF PoolTypes, RecordTypes, TypeOK
<1>14. ASSUME NEW t \in Thread, Recover(t) PROVE TypeOK'
  BY <1>14 DEF Recover, callVars, stmtVars, Close, TypeOK, PcInv, Handle, NoHandle, PC
<1>15. ASSUME NEW t \in Thread, Pin(t) PROVE TypeOK'
  BY <1>15 DEF Pin, stmtVars, dataVars, poolVars, Goto, TypeOK, PcInv, Handle, NoHandle, PC
<1>16. ASSUME NEW t \in Thread, CommitPinned(t) PROVE TypeOK'
  BY <1>16 DEF CommitPinned, callVars, stmtVars, poolVars, Goto, dataVars, Usable, TypeOK,
      PcInv, Handle, NoHandle, PC
<1>17. ASSUME NEW t \in Thread, Unpin(t) PROVE TypeOK'
  BY <1>17 DEF Unpin, stmtVars, dataVars, poolVars, Goto, TypeOK, PcInv, Handle, NoHandle,
      PC
<1>18. ASSUME NEW t \in Thread, ReleasePin(t) PROVE TypeOK'
  BY <1>18 DEF ReleasePin, Goto, Give, Close, Keeps, PoolValid, TypeOK, PcInv, Handle,
      NoHandle, PC
<1>19. ASSUME NEW t \in Thread, Return(t) PROVE TypeOK'
  BY <1>19 DEF Return, stmtVars, poolVars, Goto, TypeOK, PcInv, Handle, NoHandle, PC
<1>20. ASSUME HealthCheck PROVE TypeOK'
  BY <1>20 DEF HealthCheck, callVars, stmtVars, Close, PoolValid, TypeOK, PcInv, Handle,
      NoHandle, PC
<1>21. ASSUME NEW c \in Conn, Break(c) PROVE TypeOK'
  BY <1>21 DEF Break, callVars, stmtVars, Usable, TypeOK, PcInv, Handle, NoHandle, PC
<1>22. CASE UNCHANGED vars
  BY <1>22 DEF vars, poolVars, dataVars, stmtVars, callVars, TypeOK, PcInv, Handle,
      NoHandle, PC
<1> QED
  BY <1>1, <1>2, <1>3, <1>4, <1>5, <1>6, <1>7, <1>8, <1>9, <1>10, <1>11, <1>12, <1>13,
      <1>14, <1>15, <1>16, <1>17, <1>18, <1>19, <1>20, <1>21, <1>22 DEF Next, Step

\* A connection is handed out only when it is new, and goes back only from its holder.
LEMMA HeldStep == IndInv /\ [Next]_vars => HeldInv'
<1> SUFFICES ASSUME IndInv, [Next]_vars PROVE HeldInv'
  OBVIOUS
<1> USE PoolNone DEF IndInv
<1>1. ASSUME NEW t \in Thread, NEW o \in AllOps, Call(t, o) PROVE HeldInv'
  BY <1>1 DEF Call, stmtVars, dataVars, poolVars, Goto, TypeOK, HeldInv, PcInv
<1>2. ASSUME NEW t \in Thread, Choose(t) PROVE HeldInv'
  BY <1>2 DEF Choose, dataVars, poolVars, Goto, LockRecord, TypeOK, HeldInv, PcInv
<1>3. ASSUME NEW t \in Thread, Get(t) PROVE HeldInv'
  BY <1>3 DEF Get, callVars, Goto, Take, TakeNew, Unused, Room, TakeIdle, PoolValid,
      TypeOK, HeldInv, PcInv
<1>4. ASSUME NEW t \in Thread, GetPin(t) PROVE HeldInv'
  BY <1>4 DEF GetPin, stmtVars, Goto, Take, TakeNew, Unused, Room, TakeIdle, PoolValid,
      TypeOK, HeldInv, PcInv
<1>5. ASSUME NEW t \in Thread, Wait(t) PROVE HeldInv'
  BY <1>5 DEF Wait, callVars, stmtVars, dataVars, Goto, Room, TypeOK, HeldInv, PcInv
<1>6. ASSUME NEW t \in Thread, WaitTimeout(t) PROVE HeldInv'
  BY <1>6 DEF WaitTimeout, stmtVars, dataVars, NextRecord, Goto, Unlock, TypeOK, HeldInv,
      PcInv
<1>7. ASSUME NEW t \in Thread, ReplaceFails(t) PROVE HeldInv'
  BY <1>7 DEF ReplaceFails, callVars, stmtVars, Goto, Close, PoolValid, TypeOK, HeldInv,
      PcInv
<1>8. ASSUME NEW t \in Thread, Execute(t) PROVE HeldInv'
  BY <1>8 DEF Execute, callVars, stmtVars, poolVars, Goto, Usable, UsedConn, TypeOK,
      HeldInv, PcInv
<1>9. ASSUME NEW t \in Thread, Unusable(t) PROVE HeldInv'
  BY <1>9 DEF Unusable, callVars, dataVars, poolVars, Goto, MarkBad, CheckedOut, UsedConn,
      Usable, TypeOK, HeldInv, PcInv
<1>10. ASSUME NEW t \in Thread, StatementFails(t) PROVE HeldInv'
  BY <1>10 DEF StatementFails, callVars, stmtVars, poolVars, Goto, Usable, UsedConn,
      TypeOK, HeldInv, PcInv
<1>11. ASSUME NEW t \in Thread, Commit(t) PROVE HeldInv'
  BY <1>11 DEF Commit, callVars, poolVars, dataVars, Goto, MarkBad, CheckedOut, Usable,
      UsedConn, TypeOK, HeldInv, PcInv
<1>12. ASSUME NEW t \in Thread, Release(t) PROVE HeldInv'
  BY <1>12 DEF Release, NextRecord, Goto, Unlock, Give, Close, Keeps, PoolValid, poolVars,
      TypeOK, HeldInv, PcInv
<1>13. ASSUME NEW t \in Thread, Retry(t) PROVE HeldInv'
  BY <1>13 DEF Retry, NextRecord, Goto, Unlock, RetryAllowed, Give, Close, Keeps,
      PoolValid, poolVars, TypeOK, HeldInv, PcInv
<1>14. ASSUME NEW t \in Thread, Recover(t) PROVE HeldInv'
  BY <1>14 DEF Recover, callVars, stmtVars, Close, TypeOK, HeldInv, PcInv
<1>15. ASSUME NEW t \in Thread, Pin(t) PROVE HeldInv'
  BY <1>15 DEF Pin, stmtVars, dataVars, poolVars, Goto, TypeOK, HeldInv, PcInv
<1>16. ASSUME NEW t \in Thread, CommitPinned(t) PROVE HeldInv'
  BY <1>16 DEF CommitPinned, callVars, stmtVars, poolVars, Goto, dataVars, Usable, TypeOK,
      HeldInv, PcInv
<1>17. ASSUME NEW t \in Thread, Unpin(t) PROVE HeldInv'
  BY <1>17 DEF Unpin, stmtVars, dataVars, poolVars, Goto, TypeOK, HeldInv, PcInv
<1>18. ASSUME NEW t \in Thread, ReleasePin(t) PROVE HeldInv'
  BY <1>18 DEF ReleasePin, Goto, Give, Close, Keeps, PoolValid, TypeOK, HeldInv, PcInv
<1>19. ASSUME NEW t \in Thread, Return(t) PROVE HeldInv'
  BY <1>19 DEF Return, stmtVars, poolVars, Goto, TypeOK, HeldInv, PcInv
<1>20. ASSUME HealthCheck PROVE HeldInv'
  BY <1>20 DEF HealthCheck, callVars, stmtVars, Close, PoolValid, TypeOK, HeldInv, PcInv
<1>21. ASSUME NEW c \in Conn, Break(c) PROVE HeldInv'
  BY <1>21 DEF Break, callVars, stmtVars, Usable, TypeOK, HeldInv, PcInv
<1>22. CASE UNCHANGED vars
  BY <1>22 DEF vars, poolVars, dataVars, stmtVars, callVars, TypeOK, HeldInv, PcInv
<1> QED
  BY <1>1, <1>2, <1>3, <1>4, <1>5, <1>6, <1>7, <1>8, <1>9, <1>10, <1>11, <1>12, <1>13,
      <1>14, <1>15, <1>16, <1>17, <1>18, <1>19, <1>20, <1>21, <1>22 DEF Next, Step

\* A call gives back what it took before it ends.
LEMMA PcStep == IndInv /\ [Next]_vars => PcInv'
<1> SUFFICES ASSUME IndInv, [Next]_vars PROVE PcInv'
  OBVIOUS
<1> USE PoolNone DEF IndInv
<1>1. ASSUME NEW t \in Thread, NEW o \in AllOps, Call(t, o) PROVE PcInv'
  BY <1>1 DEF Call, AllOps, stmtVars, dataVars, poolVars, Goto, TypeOK, PcInv, HeldInv, Handle,
      NoHandle
<1>2. ASSUME NEW t \in Thread, Choose(t) PROVE PcInv'
  BY <1>2 DEF Choose, dataVars, poolVars, Goto, LockRecord, TypeOK, PcInv, HeldInv, Handle,
      NoHandle
<1>3. ASSUME NEW t \in Thread, Get(t) PROVE PcInv'
  BY <1>3 DEF Get, callVars, Goto, Take, TakeNew, Unused, Room, TakeIdle, PoolValid,
      TypeOK, PcInv, HeldInv, Handle, NoHandle
<1>4. ASSUME NEW t \in Thread, GetPin(t) PROVE PcInv'
  BY <1>4 DEF GetPin, stmtVars, Goto, Take, TakeNew, Unused, Room, TakeIdle, PoolValid,
      TypeOK, PcInv, HeldInv, Handle, NoHandle
<1>5. ASSUME NEW t \in Thread, Wait(t) PROVE PcInv'
  BY <1>5 DEF Wait, callVars, stmtVars, dataVars, Goto, Room, TypeOK, PcInv, HeldInv,
      Handle, NoHandle
<1>6. ASSUME NEW t \in Thread, WaitTimeout(t) PROVE PcInv'
  BY <1>6 DEF WaitTimeout, stmtVars, dataVars, NextRecord, Goto, Unlock, TypeOK, PcInv,
      HeldInv, Handle, NoHandle
<1>7. ASSUME NEW t \in Thread, ReplaceFails(t) PROVE PcInv'
  BY <1>7 DEF ReplaceFails, callVars, stmtVars, Goto, Close, PoolValid, TypeOK, PcInv,
      HeldInv, Handle, NoHandle
<1>8. ASSUME NEW t \in Thread, Execute(t) PROVE PcInv'
  BY <1>8 DEF Execute, callVars, stmtVars, poolVars, Goto, Usable, UsedConn, TypeOK, PcInv,
      HeldInv, Handle, NoHandle
<1>9. ASSUME NEW t \in Thread, Unusable(t) PROVE PcInv'
  BY <1>9 DEF Unusable, callVars, dataVars, poolVars, Goto, MarkBad, CheckedOut, UsedConn,
      Usable, TypeOK, PcInv, HeldInv, Handle, NoHandle
<1>10. ASSUME NEW t \in Thread, StatementFails(t) PROVE PcInv'
  BY <1>10 DEF StatementFails, callVars, stmtVars, poolVars, Goto, Usable, UsedConn,
      TypeOK, PcInv, HeldInv, Handle, NoHandle
<1>11. ASSUME NEW t \in Thread, Commit(t) PROVE PcInv'
  BY <1>11 DEF Commit, callVars, poolVars, dataVars, Goto, MarkBad, CheckedOut, Usable,
      UsedConn, TypeOK, PcInv, HeldInv, Handle, NoHandle
<1>12. ASSUME NEW t \in Thread, Release(t) PROVE PcInv'
  BY <1>12 DEF Release, NextRecord, Goto, Unlock, Give, Close, Keeps, PoolValid, poolVars,
      TypeOK, PcInv, HeldInv, Handle, NoHandle
<1>13. ASSUME NEW t \in Thread, Retry(t) PROVE PcInv'
  BY <1>13 DEF Retry, NextRecord, Goto, Unlock, RetryAllowed, Give, Close, Keeps,
      PoolValid, poolVars, TypeOK, PcInv, HeldInv, Handle, NoHandle
<1>14. ASSUME NEW t \in Thread, Recover(t) PROVE PcInv'
  BY <1>14 DEF Recover, callVars, stmtVars, Close, TypeOK, PcInv, HeldInv, Handle, NoHandle
<1>15. ASSUME NEW t \in Thread, Pin(t) PROVE PcInv'
  BY <1>15 DEF Pin, stmtVars, dataVars, poolVars, Goto, TypeOK, PcInv, HeldInv, Handle,
      NoHandle
<1>16. ASSUME NEW t \in Thread, CommitPinned(t) PROVE PcInv'
  BY <1>16 DEF CommitPinned, callVars, stmtVars, poolVars, Goto, dataVars, Usable, TypeOK,
      PcInv, HeldInv, Handle, NoHandle
<1>17. ASSUME NEW t \in Thread, Unpin(t) PROVE PcInv'
  BY <1>17 DEF Unpin, stmtVars, dataVars, poolVars, Goto, TypeOK, PcInv, HeldInv, Handle,
      NoHandle
<1>18. ASSUME NEW t \in Thread, ReleasePin(t) PROVE PcInv'
  BY <1>18 DEF ReleasePin, Goto, Give, Close, Keeps, PoolValid, TypeOK, PcInv, HeldInv,
      Handle, NoHandle
<1>19. ASSUME NEW t \in Thread, Return(t) PROVE PcInv'
  BY <1>19 DEF Return, stmtVars, poolVars, Goto, TypeOK, PcInv, HeldInv, Handle, NoHandle
<1>20. ASSUME HealthCheck PROVE PcInv'
  BY <1>20 DEF HealthCheck, callVars, stmtVars, Close, PoolValid, TypeOK, PcInv, HeldInv,
      Handle, NoHandle
<1>21. ASSUME NEW c \in Conn, Break(c) PROVE PcInv'
  BY <1>21 DEF Break, callVars, stmtVars, Usable, TypeOK, PcInv, HeldInv, Handle, NoHandle
<1>22. CASE UNCHANGED vars
  BY <1>22 DEF vars, poolVars, dataVars, stmtVars, callVars, TypeOK, PcInv, HeldInv,
      Handle, NoHandle
<1> QED
  BY <1>1, <1>2, <1>3, <1>4, <1>5, <1>6, <1>7, <1>8, <1>9, <1>10, <1>11, <1>12, <1>13,
      <1>14, <1>15, <1>16, <1>17, <1>18, <1>19, <1>20, <1>21, <1>22 DEF Next, Step

-----------------------------------------------------------------------------
(* The counter. *)

\* A new connection fits under the cap, or replaces an idle one.
LEMMA TakeCap ==
    ASSUME IndInv, NEW c \in Conn, Take(c), UNCHANGED drained
    PROVE  CapInv'
<1> SUFFICES ASSUME ~drained
             PROVE  Cardinality(open') <= created' /\ Cardinality(open') <= PoolSize
  BY DEF CapInv
<1>1. /\ IsFiniteSet(open) /\ Cardinality(open) \in Nat /\ created \in Int
      /\ Cardinality(open) <= created /\ Cardinality(open) <= PoolSize
      /\ idle \subseteq open
  BY ConnFinite, FS_Subset, FS_CardinalityType DEF IndInv, TypeOK, CapInv, HeldInv
<1>2. ASSUME TakeNew(c) PROVE Cardinality(open') <= created' /\ Cardinality(open') <= PoolSize
  <2>1. open' = open \cup {c} /\ c \notin open /\ created' = created + 1 /\ created < PoolSize
    BY <1>2 DEF TakeNew, Unused, Room
  <2>2. Cardinality(open') = Cardinality(open) + 1
    BY <1>1, <2>1, FS_AddElement
  <2> QED
    BY <1>1, <2>1, <2>2, PoolSizeAssumption
<1>3. ASSUME TakeIdle(c) PROVE Cardinality(open') <= created' /\ Cardinality(open') <= PoolSize
  <2>1. PICK b \in idle : open' = (open \ {b}) \cup {c} /\ c \notin open /\ created' = created + 1
    BY <1>3 DEF TakeIdle, PoolValid, Unused
  <2>2. IsFiniteSet(open \ {b}) /\ Cardinality(open \ {b}) = Cardinality(open) - 1
    BY <1>1, <2>1, FS_RemoveElement
  <2>3. Cardinality(open') = Cardinality(open \ {b}) + 1
    BY <2>1, <2>2, FS_AddElement
  <2> QED
    BY <1>1, <2>1, <2>2, <2>3, PoolSizeAssumption
<1> QED
  BY <1>2, <1>3 DEF Take

\* A connection that is given back is closed and counted down once.
LEMMA GiveCap ==
    ASSUME IndInv, NEW t \in Thread, NEW c \in open, Give(t, c), UNCHANGED drained
    PROVE  CapInv'
<1> SUFFICES ASSUME ~drained
             PROVE  Cardinality(open') <= created' /\ Cardinality(open') <= PoolSize
  BY DEF CapInv
<1>1. /\ IsFiniteSet(open) /\ Cardinality(open) \in Nat /\ created \in Int
      /\ Cardinality(open) <= created /\ Cardinality(open) <= PoolSize
  BY ConnFinite, FS_Subset, FS_CardinalityType DEF IndInv, TypeOK, CapInv
<1>2. open' = open \ {c} /\ created' = IF <<t, c>> \in discard /\ created <= 0 THEN 0 ELSE created - 1
  BY DEF Give, Keeps, PoolValid, Close
<1>3. Cardinality(open') = Cardinality(open) - 1 /\ Cardinality(open') \in Nat
  <2>1. Cardinality(open \ {c}) = Cardinality(open) - 1 /\ IsFiniteSet(open \ {c})
    BY <1>1, FS_RemoveElement
  <2> QED
    BY <1>2, <2>1, FS_CardinalityType
<1> QED
  BY <1>1, <1>2, <1>3, PoolSizeAssumption

\* Only a drain lets the counter fall behind the open connections.
LEMMA CapStep == IndInv /\ [Next]_vars => CapInv'
<1> SUFFICES ASSUME IndInv, [Next]_vars PROVE CapInv'
  OBVIOUS
<1> USE DEF IndInv
<1>1. ASSUME NEW t \in Thread, NEW o \in AllOps, Call(t, o) PROVE CapInv'
  BY <1>1 DEF Call, stmtVars, dataVars, poolVars, CapInv
<1>2. ASSUME NEW t \in Thread, Choose(t) PROVE CapInv'
  BY <1>2 DEF Choose, dataVars, poolVars, CapInv
<1>3. ASSUME NEW t \in Thread, Get(t) PROVE CapInv'
  BY <1>3, TakeCap DEF Get
<1>4. ASSUME NEW t \in Thread, GetPin(t) PROVE CapInv'
  BY <1>4, TakeCap DEF GetPin
<1>5. ASSUME NEW t \in Thread, Wait(t) PROVE CapInv'
  BY <1>5 DEF Wait, callVars, stmtVars, dataVars, CapInv
<1>6. ASSUME NEW t \in Thread, WaitTimeout(t) PROVE CapInv'
  BY <1>6 DEF WaitTimeout, stmtVars, dataVars, CapInv
<1>7. ASSUME NEW t \in Thread, ReplaceFails(t) PROVE CapInv'
  <2>1. PICK b \in idle : open' = open \ {b} /\ UNCHANGED <<created, drained>>
    BY <1>7 DEF ReplaceFails, Close
  <2>2. IsFiniteSet(open) /\ Cardinality(open) \in Nat /\ created \in Int /\ b \in open
    BY <2>1, ConnFinite, FS_Subset, FS_CardinalityType DEF TypeOK, HeldInv
  <2>3. Cardinality(open') = Cardinality(open) - 1
    BY <2>1, <2>2, FS_RemoveElement
  <2> QED
    BY <2>1, <2>2, <2>3, PoolSizeAssumption DEF CapInv
<1>8. ASSUME NEW t \in Thread, Execute(t) PROVE CapInv'
  BY <1>8 DEF Execute, callVars, stmtVars, poolVars, CapInv
<1>9. ASSUME NEW t \in Thread, Unusable(t) PROVE CapInv'
  BY <1>9 DEF Unusable, callVars, dataVars, poolVars, CapInv
<1>10. ASSUME NEW t \in Thread, StatementFails(t) PROVE CapInv'
  BY <1>10 DEF StatementFails, callVars, stmtVars, poolVars, CapInv
<1>11. ASSUME NEW t \in Thread, Commit(t) PROVE CapInv'
  BY <1>11 DEF Commit, callVars, poolVars, dataVars, CapInv
<1>12. ASSUME NEW t \in Thread, Release(t) PROVE CapInv'
  <2>1. CASE own[t] = None
    BY <1>12, <2>1 DEF Release, CapInv, poolVars
  <2>2. CASE own[t] # None
    BY <1>12, <2>2, GiveCap DEF Release, IndInv, HeldInv
  <2> QED
    BY <2>1, <2>2
<1>13. ASSUME NEW t \in Thread, Retry(t) PROVE CapInv'
  <2>1. CASE own[t] = None
    BY <1>13, <2>1 DEF Retry, CapInv, poolVars
  <2>2. CASE own[t] # None
    BY <1>13, <2>2, GiveCap DEF Retry, IndInv, HeldInv
  <2> QED
    BY <2>1, <2>2
<1>14. ASSUME NEW t \in Thread, Recover(t) PROVE CapInv'
  BY <1>14 DEF Recover, CapInv
<1>15. ASSUME NEW t \in Thread, Pin(t) PROVE CapInv'
  BY <1>15 DEF Pin, stmtVars, dataVars, poolVars, CapInv
<1>16. ASSUME NEW t \in Thread, CommitPinned(t) PROVE CapInv'
  BY <1>16 DEF CommitPinned, callVars, stmtVars, poolVars, dataVars, CapInv
<1>17. ASSUME NEW t \in Thread, Unpin(t) PROVE CapInv'
  BY <1>17 DEF Unpin, stmtVars, dataVars, poolVars, CapInv
<1>18. ASSUME NEW t \in Thread, ReleasePin(t) PROVE CapInv'
  BY <1>18, GiveCap DEF ReleasePin, IndInv, HeldInv, PcInv
<1>19. ASSUME NEW t \in Thread, Return(t) PROVE CapInv'
  BY <1>19 DEF Return, stmtVars, poolVars, CapInv
<1>20. ASSUME HealthCheck PROVE CapInv'
  <2>1. PICK old \in SUBSET idle : /\ open' = open \ old
                                  /\ created' = created - Cardinality(old)
                                  /\ UNCHANGED drained
    BY <1>20 DEF HealthCheck, Close
  <2>2. /\ IsFiniteSet(open) /\ Cardinality(open) \in Nat /\ created \in Int
        /\ old \subseteq open /\ open \cap old = old
    BY <2>1, ConnFinite, FS_Subset, FS_CardinalityType DEF TypeOK, HeldInv
  <2>3. IsFiniteSet(old) /\ Cardinality(old) \in Nat
    BY <2>2, FS_Subset, FS_CardinalityType
  <2>4. Cardinality(open \ old) = Cardinality(open) - Cardinality(open \cap old)
    BY <2>2, FS_Difference
  <2> QED
    BY <2>1, <2>2, <2>3, <2>4, PoolSizeAssumption DEF CapInv
<1>21. ASSUME NEW c \in Conn, Break(c) PROVE CapInv'
  BY <1>21 DEF Break, callVars, stmtVars, CapInv
<1>22. CASE UNCHANGED vars
  BY <1>22 DEF vars, poolVars, dataVars, stmtVars, callVars, CapInv
<1> QED
  BY <1>1, <1>2, <1>3, <1>4, <1>5, <1>6, <1>7, <1>8, <1>9, <1>10, <1>11, <1>12, <1>13,
      <1>14, <1>15, <1>16, <1>17, <1>18, <1>19, <1>20, <1>21, <1>22 DEF Next, Step

-----------------------------------------------------------------------------
(* Saves. *)

\* A connection is new to everybody when a statement checks it out.
LEMMA OwnStep == IndInv /\ [Next]_vars => OwnInv'
<1> SUFFICES ASSUME IndInv, [Next]_vars PROVE OwnInv'
  OBVIOUS
<1> USE PoolNone DEF IndInv
<1>1. ASSUME NEW t \in Thread, NEW o \in AllOps, Call(t, o) PROVE OwnInv'
  BY <1>1 DEF Call, stmtVars, dataVars, poolVars, Goto, TypeOK, HeldInv, PcInv, SaveInv,
      OwnInv, Handle, NoHandle
<1>2. ASSUME NEW t \in Thread, Choose(t) PROVE OwnInv'
  BY <1>2 DEF Choose, dataVars, poolVars, Goto, LockRecord, TypeOK, HeldInv, PcInv, SaveInv,
      OwnInv, Handle, NoHandle
<1>3. ASSUME NEW t \in Thread, Get(t) PROVE OwnInv'
  BY <1>3 DEF Get, callVars, Goto, Take, TakeNew, Unused, Room, TakeIdle, PoolValid, TypeOK,
      HeldInv, PcInv, SaveInv, OwnInv, Handle, NoHandle
<1>4. ASSUME NEW t \in Thread, GetPin(t) PROVE OwnInv'
  BY <1>4 DEF GetPin, stmtVars, Goto, Take, TakeNew, Unused, Room, TakeIdle, PoolValid,
      TypeOK, HeldInv, PcInv, SaveInv, OwnInv, Handle, NoHandle
<1>5. ASSUME NEW t \in Thread, Wait(t) PROVE OwnInv'
  BY <1>5 DEF Wait, callVars, stmtVars, dataVars, Goto, Room, TypeOK, HeldInv, PcInv,
      SaveInv, OwnInv, Handle, NoHandle
<1>6. ASSUME NEW t \in Thread, WaitTimeout(t) PROVE OwnInv'
  BY <1>6 DEF WaitTimeout, stmtVars, dataVars, NextRecord, Goto, Unlock, TypeOK, HeldInv,
      PcInv, SaveInv, OwnInv, Handle, NoHandle
<1>7. ASSUME NEW t \in Thread, ReplaceFails(t) PROVE OwnInv'
  BY <1>7 DEF ReplaceFails, callVars, stmtVars, Goto, Close, PoolValid, TypeOK, HeldInv,
      PcInv, SaveInv, OwnInv, Handle, NoHandle
<1>8. ASSUME NEW t \in Thread, Execute(t) PROVE OwnInv'
  BY <1>8 DEF Execute, callVars, stmtVars, poolVars, Goto, UsedConn, TypeOK, HeldInv, PcInv,
      SaveInv, OwnInv, Handle, NoHandle
<1>9. ASSUME NEW t \in Thread, Unusable(t) PROVE OwnInv'
  BY <1>9 DEF Unusable, callVars, dataVars, poolVars, Goto, MarkBad, CheckedOut, UsedConn,
      TypeOK, HeldInv, PcInv, SaveInv, OwnInv, Handle, NoHandle
<1>10. ASSUME NEW t \in Thread, StatementFails(t) PROVE OwnInv'
  BY <1>10 DEF StatementFails, callVars, stmtVars, poolVars, Goto, UsedConn, TypeOK,
      HeldInv, PcInv, SaveInv, OwnInv, Handle, NoHandle
<1>11. ASSUME NEW t \in Thread, Commit(t) PROVE OwnInv'
  BY <1>11 DEF Commit, callVars, poolVars, dataVars, Goto, MarkBad, CheckedOut, UsedConn,
      TypeOK, HeldInv, PcInv, SaveInv, OwnInv, Handle, NoHandle
<1>12. ASSUME NEW t \in Thread, Release(t) PROVE OwnInv'
  BY <1>12 DEF Release, NextRecord, Goto, Unlock, Give, Close, Keeps, PoolValid, poolVars,
      TypeOK, HeldInv, PcInv, SaveInv, OwnInv, Handle, NoHandle
<1>13. ASSUME NEW t \in Thread, Retry(t) PROVE OwnInv'
  BY <1>13 DEF Retry, NextRecord, Goto, Unlock, RetryAllowed, Give, Close, Keeps, PoolValid,
      poolVars, TypeOK, HeldInv, PcInv, SaveInv, OwnInv, Handle, NoHandle
<1>14. ASSUME NEW t \in Thread, Recover(t) PROVE OwnInv'
  BY <1>14 DEF Recover, callVars, stmtVars, Close, TypeOK, HeldInv, PcInv, SaveInv, OwnInv,
      Handle, NoHandle
<1>15. ASSUME NEW t \in Thread, Pin(t) PROVE OwnInv'
  BY <1>15 DEF Pin, stmtVars, dataVars, poolVars, Goto, TypeOK, HeldInv, PcInv, SaveInv,
      OwnInv, Handle, NoHandle
<1>16. ASSUME NEW t \in Thread, CommitPinned(t) PROVE OwnInv'
  BY <1>16 DEF CommitPinned, callVars, stmtVars, poolVars, Goto, dataVars, TypeOK, HeldInv,
      PcInv, SaveInv, OwnInv, Handle, NoHandle
<1>17. ASSUME NEW t \in Thread, Unpin(t) PROVE OwnInv'
  BY <1>17 DEF Unpin, stmtVars, dataVars, poolVars, Goto, TypeOK, HeldInv, PcInv, SaveInv,
      OwnInv, Handle, NoHandle
<1>18. ASSUME NEW t \in Thread, ReleasePin(t) PROVE OwnInv'
  BY <1>18 DEF ReleasePin, Goto, Give, Close, Keeps, PoolValid, TypeOK, HeldInv, PcInv,
      SaveInv, OwnInv, Handle, NoHandle
<1>19. ASSUME NEW t \in Thread, Return(t) PROVE OwnInv'
  BY <1>19 DEF Return, stmtVars, poolVars, Goto, TypeOK, HeldInv, PcInv, SaveInv, OwnInv,
      Handle, NoHandle
<1>20. ASSUME HealthCheck PROVE OwnInv'
  BY <1>20 DEF HealthCheck, callVars, stmtVars, Close, PoolValid, TypeOK, HeldInv, PcInv,
      SaveInv, OwnInv, Handle, NoHandle
<1>21. ASSUME NEW c \in Conn, Break(c) PROVE OwnInv'
  BY <1>21 DEF Break, callVars, stmtVars, TypeOK, HeldInv, PcInv, SaveInv, OwnInv, Handle,
      NoHandle
<1>22. CASE UNCHANGED vars
  BY <1>22 DEF vars, poolVars, dataVars, stmtVars, callVars, TypeOK, HeldInv, PcInv,
      SaveInv, OwnInv, Handle, NoHandle
<1> QED
  BY <1>1, <1>2, <1>3, <1>4, <1>5, <1>6, <1>7, <1>8, <1>9, <1>10, <1>11, <1>12, <1>13,
      <1>14, <1>15, <1>16, <1>17, <1>18, <1>19, <1>20, <1>21, <1>22 DEF Next, Step

\* A call is where its kind can be; nobody spoils what runs on its own connection.
LEMMA SingleStep == ASSUME IndInv, [Next]_vars, NEW u \in Thread PROVE SingleInv(u)'
<1> USE PoolNone DEF IndInv
<1>1. ASSUME NEW t \in Thread, NEW o \in AllOps, Call(t, o) PROVE SingleInv(u)'
  BY <1>1 DEF Call, AllOps, stmtVars, dataVars, poolVars, Goto, TypeOK, HeldInv, PcInv,
      SaveInv, OwnInv, IdleInv, SingleInv, Handle, NoHandle
<1>2. ASSUME NEW t \in Thread, Choose(t) PROVE SingleInv(u)'
  BY <1>2 DEF Choose, dataVars, poolVars, Goto, LockRecord, TypeOK, HeldInv, PcInv, SaveInv,
      OwnInv, IdleInv, SingleInv, Handle, NoHandle
<1>3. ASSUME NEW t \in Thread, Get(t) PROVE SingleInv(u)'
  BY <1>3 DEF Get, callVars, Goto, Take, TakeNew, Unused, Room, TakeIdle, PoolValid, TypeOK,
      HeldInv, PcInv, SaveInv, OwnInv, IdleInv, SingleInv, Handle, NoHandle
<1>4. ASSUME NEW t \in Thread, GetPin(t) PROVE SingleInv(u)'
  BY <1>4 DEF GetPin, stmtVars, Goto, Take, TakeNew, Unused, Room, TakeIdle, PoolValid,
      TypeOK, HeldInv, PcInv, SaveInv, OwnInv, IdleInv, SingleInv, Handle, NoHandle
<1>5. ASSUME NEW t \in Thread, Wait(t) PROVE SingleInv(u)'
  BY <1>5 DEF Wait, callVars, stmtVars, dataVars, Goto, Room, TypeOK, HeldInv, PcInv,
      SaveInv, OwnInv, IdleInv, SingleInv, Handle, NoHandle
<1>6. ASSUME NEW t \in Thread, WaitTimeout(t) PROVE SingleInv(u)'
  BY <1>6 DEF WaitTimeout, stmtVars, dataVars, NextRecord, Goto, Unlock, TypeOK, HeldInv,
      PcInv, SaveInv, OwnInv, IdleInv, SingleInv, Handle, NoHandle
<1>7. ASSUME NEW t \in Thread, ReplaceFails(t) PROVE SingleInv(u)'
  BY <1>7 DEF ReplaceFails, callVars, stmtVars, Goto, Close, PoolValid, TypeOK, HeldInv,
      PcInv, SaveInv, OwnInv, IdleInv, SingleInv, Handle, NoHandle
<1>8. ASSUME NEW t \in Thread, Execute(t) PROVE SingleInv(u)'
  BY <1>8 DEF Execute, callVars, stmtVars, poolVars, Goto, UsedConn, TypeOK, HeldInv, PcInv,
      SaveInv, OwnInv, IdleInv, SingleInv, Handle, NoHandle
<1>9. ASSUME NEW t \in Thread, Unusable(t) PROVE SingleInv(u)'
  BY <1>9 DEF Unusable, callVars, dataVars, poolVars, Goto, MarkBad, CheckedOut, UsedConn,
      TypeOK, HeldInv, PcInv, SaveInv, OwnInv, IdleInv, SingleInv, Handle, NoHandle
<1>10. ASSUME NEW t \in Thread, StatementFails(t) PROVE SingleInv(u)'
  BY <1>10 DEF StatementFails, callVars, stmtVars, poolVars, Goto, UsedConn, TypeOK,
      HeldInv, PcInv, SaveInv, OwnInv, IdleInv, SingleInv, Handle, NoHandle
<1>11. ASSUME NEW t \in Thread, Commit(t) PROVE SingleInv(u)'
  BY <1>11 DEF Commit, callVars, poolVars, dataVars, Goto, MarkBad, CheckedOut, UsedConn,
      TypeOK, HeldInv, PcInv, SaveInv, OwnInv, IdleInv, SingleInv, Handle, NoHandle
<1>12. ASSUME NEW t \in Thread, Release(t) PROVE SingleInv(u)'
  BY <1>12 DEF Release, NextRecord, Goto, Unlock, Give, Close, Keeps, PoolValid, poolVars,
      TypeOK, HeldInv, PcInv, SaveInv, OwnInv, IdleInv, SingleInv, Handle, NoHandle
<1>13. ASSUME NEW t \in Thread, Retry(t) PROVE SingleInv(u)'
  BY <1>13 DEF Retry, NextRecord, Goto, Unlock, RetryAllowed, Give, Close, Keeps, PoolValid,
      poolVars, TypeOK, HeldInv, PcInv, SaveInv, OwnInv, IdleInv, SingleInv, Handle,
      NoHandle
<1>14. ASSUME NEW t \in Thread, Recover(t) PROVE SingleInv(u)'
  BY <1>14 DEF Recover, callVars, stmtVars, Close, TypeOK, HeldInv, PcInv, SaveInv, OwnInv,
      IdleInv, SingleInv, Handle, NoHandle
<1>15. ASSUME NEW t \in Thread, Pin(t) PROVE SingleInv(u)'
  BY <1>15 DEF Pin, stmtVars, dataVars, poolVars, Goto, TypeOK, HeldInv, PcInv, SaveInv,
      OwnInv, IdleInv, SingleInv, Handle, NoHandle
<1>16. ASSUME NEW t \in Thread, CommitPinned(t) PROVE SingleInv(u)'
  BY <1>16 DEF CommitPinned, callVars, stmtVars, poolVars, Goto, dataVars, TypeOK, HeldInv,
      PcInv, SaveInv, OwnInv, IdleInv, SingleInv, Handle, NoHandle
<1>17. ASSUME NEW t \in Thread, Unpin(t) PROVE SingleInv(u)'
  BY <1>17 DEF Unpin, stmtVars, dataVars, poolVars, Goto, TypeOK, HeldInv, PcInv, SaveInv,
      OwnInv, IdleInv, SingleInv, Handle, NoHandle
<1>18. ASSUME NEW t \in Thread, ReleasePin(t) PROVE SingleInv(u)'
  BY <1>18 DEF ReleasePin, Goto, Give, Close, Keeps, PoolValid, TypeOK, HeldInv, PcInv,
      SaveInv, OwnInv, IdleInv, SingleInv, Handle, NoHandle
<1>19. ASSUME NEW t \in Thread, Return(t) PROVE SingleInv(u)'
  BY <1>19 DEF Return, None, stmtVars, poolVars, Goto, TypeOK, HeldInv, PcInv, SaveInv, OwnInv,
      IdleInv, SingleInv, Handle, NoHandle
<1>20. ASSUME HealthCheck PROVE SingleInv(u)'
  BY <1>20 DEF HealthCheck, callVars, stmtVars, Close, PoolValid, TypeOK, HeldInv, PcInv,
      SaveInv, OwnInv, IdleInv, SingleInv, Handle, NoHandle
<1>21. ASSUME NEW c \in Conn, Break(c) PROVE SingleInv(u)'
  BY <1>21 DEF Break, callVars, stmtVars, TypeOK, HeldInv, PcInv, SaveInv, OwnInv, IdleInv,
      SingleInv, Handle, NoHandle
<1>22. CASE UNCHANGED vars
  BY <1>22 DEF vars, poolVars, dataVars, stmtVars, callVars, TypeOK, HeldInv, PcInv,
      SaveInv, OwnInv, IdleInv, SingleInv, Handle, NoHandle
<1> QED
  BY <1>1, <1>2, <1>3, <1>4, <1>5, <1>6, <1>7, <1>8, <1>9, <1>10, <1>11, <1>12, <1>13,
      <1>14, <1>15, <1>16, <1>17, <1>18, <1>19, <1>20, <1>21, <1>22 DEF Next, Step

\* A thread gets its call when it leaves idle and drops it when it is idle again.
LEMMA IdleStep == ASSUME IndInv, [Next]_vars, NEW u \in Thread PROVE IdleInv(u)'
<1> USE PoolNone DEF IndInv
<1>1. ASSUME NEW t \in Thread, NEW o \in AllOps, Call(t, o) PROVE IdleInv(u)'
  BY <1>1 DEF Call, AllOps, None, stmtVars, dataVars, poolVars, Goto, TypeOK, SaveInv, IdleInv,
      SingleInv, PcInv, Handle, NoHandle
<1>2. ASSUME NEW t \in Thread, Choose(t) PROVE IdleInv(u)'
  BY <1>2 DEF Choose, dataVars, poolVars, Goto, LockRecord, TypeOK, SaveInv, IdleInv,
      SingleInv, PcInv, Handle, NoHandle
<1>3. ASSUME NEW t \in Thread, Get(t) PROVE IdleInv(u)'
  BY <1>3 DEF Get, callVars, Goto, Take, TakeNew, Unused, Room, TakeIdle, PoolValid, TypeOK,
      SaveInv, IdleInv, SingleInv, PcInv, Handle, NoHandle
<1>4. ASSUME NEW t \in Thread, GetPin(t) PROVE IdleInv(u)'
  BY <1>4 DEF GetPin, stmtVars, Goto, Take, TakeNew, Unused, Room, TakeIdle, PoolValid,
      TypeOK, SaveInv, IdleInv, SingleInv, PcInv, Handle, NoHandle
<1>5. ASSUME NEW t \in Thread, Wait(t) PROVE IdleInv(u)'
  BY <1>5 DEF Wait, callVars, stmtVars, dataVars, Goto, Room, TypeOK, SaveInv, IdleInv,
      SingleInv, PcInv, Handle, NoHandle
<1>6. ASSUME NEW t \in Thread, WaitTimeout(t) PROVE IdleInv(u)'
  BY <1>6 DEF WaitTimeout, stmtVars, dataVars, NextRecord, Goto, Unlock, TypeOK, SaveInv,
      IdleInv, SingleInv, PcInv, Handle, NoHandle
<1>7. ASSUME NEW t \in Thread, ReplaceFails(t) PROVE IdleInv(u)'
  BY <1>7 DEF ReplaceFails, callVars, stmtVars, Goto, Close, PoolValid, TypeOK, SaveInv,
      IdleInv, SingleInv, PcInv, Handle, NoHandle
<1>8. ASSUME NEW t \in Thread, Execute(t) PROVE IdleInv(u)'
  BY <1>8 DEF Execute, callVars, stmtVars, poolVars, Goto, UsedConn, TypeOK, SaveInv,
      IdleInv, SingleInv, PcInv, Handle, NoHandle
<1>9. ASSUME NEW t \in Thread, Unusable(t) PROVE IdleInv(u)'
  BY <1>9 DEF Unusable, callVars, dataVars, poolVars, Goto, MarkBad, CheckedOut, UsedConn,
      TypeOK, SaveInv, IdleInv, SingleInv, PcInv, Handle, NoHandle
<1>10. ASSUME NEW t \in Thread, StatementFails(t) PROVE IdleInv(u)'
  BY <1>10 DEF StatementFails, callVars, stmtVars, poolVars, Goto, UsedConn, TypeOK,
      SaveInv, IdleInv, SingleInv, PcInv, Handle, NoHandle
<1>11. ASSUME NEW t \in Thread, Commit(t) PROVE IdleInv(u)'
  BY <1>11 DEF Commit, callVars, poolVars, dataVars, Goto, MarkBad, CheckedOut, UsedConn,
      TypeOK, SaveInv, IdleInv, SingleInv, PcInv, Handle, NoHandle
<1>12. ASSUME NEW t \in Thread, Release(t) PROVE IdleInv(u)'
  BY <1>12 DEF Release, NextRecord, Goto, Unlock, Give, Close, Keeps, PoolValid, poolVars,
      TypeOK, SaveInv, IdleInv, SingleInv, PcInv, Handle, NoHandle
<1>13. ASSUME NEW t \in Thread, Retry(t) PROVE IdleInv(u)'
  BY <1>13 DEF Retry, NextRecord, Goto, Unlock, RetryAllowed, Give, Close, Keeps, PoolValid,
      poolVars, TypeOK, SaveInv, IdleInv, SingleInv, PcInv, Handle, NoHandle
<1>14. ASSUME NEW t \in Thread, Recover(t) PROVE IdleInv(u)'
  BY <1>14 DEF Recover, callVars, stmtVars, Close, TypeOK, SaveInv, IdleInv, SingleInv,
      PcInv, Handle, NoHandle
<1>15. ASSUME NEW t \in Thread, Pin(t) PROVE IdleInv(u)'
  BY <1>15 DEF Pin, stmtVars, dataVars, poolVars, Goto, TypeOK, SaveInv, IdleInv, SingleInv,
      PcInv, Handle, NoHandle
<1>16. ASSUME NEW t \in Thread, CommitPinned(t) PROVE IdleInv(u)'
  BY <1>16 DEF CommitPinned, callVars, stmtVars, poolVars, Goto, dataVars, TypeOK, SaveInv,
      IdleInv, SingleInv, PcInv, Handle, NoHandle
<1>17. ASSUME NEW t \in Thread, Unpin(t) PROVE IdleInv(u)'
  BY <1>17 DEF Unpin, stmtVars, dataVars, poolVars, Goto, TypeOK, SaveInv, IdleInv,
      SingleInv, PcInv, Handle, NoHandle
<1>18. ASSUME NEW t \in Thread, ReleasePin(t) PROVE IdleInv(u)'
  BY <1>18 DEF ReleasePin, Goto, Give, Close, Keeps, PoolValid, TypeOK, SaveInv, IdleInv,
      SingleInv, PcInv, Handle, NoHandle
<1>19. ASSUME NEW t \in Thread, Return(t) PROVE IdleInv(u)'
  BY <1>19 DEF Return, stmtVars, poolVars, Goto, TypeOK, SaveInv, IdleInv, SingleInv, PcInv,
      Handle, NoHandle
<1>20. ASSUME HealthCheck PROVE IdleInv(u)'
  BY <1>20 DEF HealthCheck, callVars, stmtVars, Close, PoolValid, TypeOK, SaveInv, IdleInv,
      SingleInv, PcInv, Handle, NoHandle
<1>21. ASSUME NEW c \in Conn, Break(c) PROVE IdleInv(u)'
  BY <1>21 DEF Break, callVars, stmtVars, TypeOK, SaveInv, IdleInv, SingleInv, PcInv,
      Handle, NoHandle
<1>22. CASE UNCHANGED vars
  BY <1>22 DEF vars, poolVars, dataVars, stmtVars, callVars, TypeOK, SaveInv, IdleInv,
      SingleInv, PcInv, Handle, NoHandle
<1> QED
  BY <1>1, <1>2, <1>3, <1>4, <1>5, <1>6, <1>7, <1>8, <1>9, <1>10, <1>11, <1>12, <1>13,
      <1>14, <1>15, <1>16, <1>17, <1>18, <1>19, <1>20, <1>21, <1>22 DEF Next, Step

\* What a statement wrote waits for its commit, is durable, or was rolled back
\* by a statement of another thread.
LEMMA CommitStep == ASSUME IndInv, [Next]_vars, NEW u \in Thread PROVE CommitInv(u)'
<1> USE PoolNone DEF IndInv
<1>1. ASSUME NEW t \in Thread, NEW o \in AllOps, Call(t, o) PROVE CommitInv(u)'
  BY <1>1 DEF Call, AllOps, stmtVars, dataVars, poolVars, Goto, TypeOK, PcInv, SaveInv,
      IdleInv, SingleInv, CommitInv, Kept, Usable, NoHandle
<1>2. ASSUME NEW t \in Thread, Choose(t) PROVE CommitInv(u)'
  BY <1>2 DEF Choose, dataVars, poolVars, Goto, LockRecord, TypeOK, PcInv, SaveInv, IdleInv,
      SingleInv, CommitInv, Kept, Usable, NoHandle
<1>3. ASSUME NEW t \in Thread, Get(t) PROVE CommitInv(u)'
  BY <1>3 DEF Get, callVars, Goto, Take, TakeNew, Unused, Room, TakeIdle, PoolValid, TypeOK,
      PcInv, SaveInv, IdleInv, SingleInv, CommitInv, Kept, Usable, NoHandle
<1>4. ASSUME NEW t \in Thread, GetPin(t) PROVE CommitInv(u)'
  BY <1>4 DEF GetPin, stmtVars, Goto, Take, TakeNew, Unused, Room, TakeIdle, PoolValid,
      TypeOK, PcInv, SaveInv, IdleInv, SingleInv, CommitInv, Kept, Usable, NoHandle
<1>5. ASSUME NEW t \in Thread, Wait(t) PROVE CommitInv(u)'
  BY <1>5 DEF Wait, callVars, stmtVars, dataVars, Goto, Room, TypeOK, PcInv, SaveInv,
      IdleInv, SingleInv, CommitInv, Kept, Usable, NoHandle
<1>6. ASSUME NEW t \in Thread, WaitTimeout(t) PROVE CommitInv(u)'
  BY <1>6 DEF WaitTimeout, stmtVars, dataVars, NextRecord, Goto, Unlock, TypeOK, PcInv,
      SaveInv, IdleInv, SingleInv, CommitInv, Kept, Usable, NoHandle
<1>7. ASSUME NEW t \in Thread, ReplaceFails(t) PROVE CommitInv(u)'
  BY <1>7 DEF ReplaceFails, callVars, stmtVars, Goto, Close, PoolValid, TypeOK, PcInv,
      SaveInv, IdleInv, SingleInv, CommitInv, Kept, Usable, NoHandle
<1>8. ASSUME NEW t \in Thread, Execute(t) PROVE CommitInv(u)'
  BY <1>8 DEF Execute, callVars, stmtVars, poolVars, Goto, UsedConn, TypeOK, PcInv, SaveInv,
      IdleInv, SingleInv, CommitInv, Kept, Usable, NoHandle
<1>9. ASSUME NEW t \in Thread, Unusable(t) PROVE CommitInv(u)'
  BY <1>9 DEF Unusable, callVars, dataVars, poolVars, Goto, MarkBad, CheckedOut, UsedConn,
      TypeOK, PcInv, SaveInv, IdleInv, SingleInv, CommitInv, Kept, Usable, NoHandle
<1>10. ASSUME NEW t \in Thread, StatementFails(t) PROVE CommitInv(u)'
  BY <1>10 DEF StatementFails, callVars, stmtVars, poolVars, Goto, UsedConn, TypeOK, PcInv,
      SaveInv, IdleInv, SingleInv, CommitInv, Kept, Usable, NoHandle
<1>11. ASSUME NEW t \in Thread, Commit(t) PROVE CommitInv(u)'
  BY <1>11 DEF Commit, callVars, poolVars, dataVars, Goto, MarkBad, CheckedOut, UsedConn,
      TypeOK, PcInv, SaveInv, IdleInv, SingleInv, CommitInv, Kept, Usable, NoHandle
<1>12. ASSUME NEW t \in Thread, Release(t) PROVE CommitInv(u)'
  BY <1>12 DEF Release, NextRecord, Goto, Unlock, Give, Close, Keeps, PoolValid, poolVars,
      TypeOK, PcInv, SaveInv, IdleInv, SingleInv, CommitInv, Kept, Usable, NoHandle
<1>13. ASSUME NEW t \in Thread, Retry(t) PROVE CommitInv(u)'
  BY <1>13 DEF Retry, NextRecord, Goto, Unlock, RetryAllowed, Give, Close, Keeps, PoolValid,
      poolVars, TypeOK, PcInv, SaveInv, IdleInv, SingleInv, CommitInv, Kept, Usable,
      NoHandle
<1>14. ASSUME NEW t \in Thread, Recover(t) PROVE CommitInv(u)'
  BY <1>14 DEF Recover, callVars, stmtVars, Close, TypeOK, PcInv, SaveInv, IdleInv,
      SingleInv, CommitInv, Kept, Usable, NoHandle
<1>15. ASSUME NEW t \in Thread, Pin(t) PROVE CommitInv(u)'
  BY <1>15 DEF Pin, stmtVars, dataVars, poolVars, Goto, TypeOK, PcInv, SaveInv, IdleInv,
      SingleInv, CommitInv, Kept, Usable, NoHandle
<1>16. ASSUME NEW t \in Thread, CommitPinned(t) PROVE CommitInv(u)'
  BY <1>16 DEF CommitPinned, callVars, stmtVars, poolVars, Goto, dataVars, TypeOK, PcInv,
      SaveInv, IdleInv, SingleInv, CommitInv, Kept, Usable, NoHandle
<1>17. ASSUME NEW t \in Thread, Unpin(t) PROVE CommitInv(u)'
  BY <1>17 DEF Unpin, stmtVars, dataVars, poolVars, Goto, TypeOK, PcInv, SaveInv, IdleInv,
      SingleInv, CommitInv, Kept, Usable, NoHandle
<1>18. ASSUME NEW t \in Thread, ReleasePin(t) PROVE CommitInv(u)'
  BY <1>18 DEF ReleasePin, Goto, Give, Close, Keeps, PoolValid, TypeOK, PcInv, SaveInv,
      IdleInv, SingleInv, CommitInv, Kept, Usable, NoHandle
<1>19. ASSUME NEW t \in Thread, Return(t) PROVE CommitInv(u)'
  BY <1>19 DEF Return, stmtVars, poolVars, Goto, TypeOK, PcInv, SaveInv, IdleInv, SingleInv,
      CommitInv, Kept, Usable, NoHandle
<1>20. ASSUME HealthCheck PROVE CommitInv(u)'
  BY <1>20 DEF HealthCheck, callVars, stmtVars, Close, PoolValid, TypeOK, PcInv, SaveInv,
      IdleInv, SingleInv, CommitInv, Kept, Usable, NoHandle
<1>21. ASSUME NEW c \in Conn, Break(c) PROVE CommitInv(u)'
  BY <1>21 DEF Break, callVars, stmtVars, TypeOK, PcInv, SaveInv, IdleInv, SingleInv,
      CommitInv, Kept, Usable, NoHandle
<1>22. CASE UNCHANGED vars
  BY <1>22 DEF vars, poolVars, dataVars, stmtVars, callVars, TypeOK, PcInv, SaveInv,
      IdleInv, SingleInv, CommitInv, Kept, Usable, NoHandle
<1> QED
  BY <1>1, <1>2, <1>3, <1>4, <1>5, <1>6, <1>7, <1>8, <1>9, <1>10, <1>11, <1>12, <1>13,
      <1>14, <1>15, <1>16, <1>17, <1>18, <1>19, <1>20, <1>21, <1>22 DEF Next, Step

\* Together with OwnStep.
LEMMA SaveStep == IndInv /\ [Next]_vars => SaveInv'
  BY OwnStep, IdleStep, SingleStep, CommitStep DEF SaveInv

-----------------------------------------------------------------------------
(* The theorems. *)

\* The inductive invariant holds of every reachable state.
THEOREM SpecInv == Spec => []IndInv
<1>1. IndInv /\ [Next]_vars => IndInv'
  BY TypeStep, HeldStep, PcStep, CapStep, SaveStep DEF IndInv
<1> QED
  BY InitInv, <1>1, PTL DEF Spec

\* Every variable keeps its type, whatever fails and is retried.
THEOREM TypeCorrect == Spec => []TypeOK
<1>1. IndInv => TypeOK
  BY DEF IndInv
<1> QED
  BY SpecInv, <1>1, PTL

\* get_connection never hands out a connection that another caller holds, that
\* is still in the pool, or that is closed.
THEOREM HandedOutOnceHolds == Spec => []HandedOutOnce
<1>1. IndInv => HandedOutOnce
  BY PoolNone DEF IndInv, HeldInv, HandedOutOnce, Holds
<1> QED
  BY SpecInv, <1>1, PTL

\* Until _recover_connections drains the pool, never more than pool_size
\* connections are open, although the counter also counts replacements.
THEOREM ConnectionCapHolds == Spec => []ConnectionCap
<1>1. IndInv => ConnectionCap
  BY DEF IndInv, CapInv, ConnectionCap
<1> QED
  BY SpecInv, <1>1, PTL

\* sql(save=True) and procedure return only after their own write has been
\* committed, whatever breaks, is retried, recovered or pinned meanwhile; only a
\* statement that joined a pinned connection may have been rolled back there.
THEOREM SavedIsDurableHolds == Spec => []SavedIsDurable
<1>1. IndInv => SavedIsDurable
  BY DEF IndInv, SaveInv, SingleInv, CommitInv, Kept, SavedIsDurable, Saved
<1> QED
  BY SpecInv, <1>1, PTL
=============================================================================
