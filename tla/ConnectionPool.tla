--------------------------- MODULE ConnectionPool ---------------------------
(***************************************************************************)
(* adapters/persistence/base.py ConnectionPool and pooled_connection, with *)
(* the callers of adapters/persistence/embeddedMariaDB.py: single          *)
(* statements, stored procedures, batches on a pinned connection, the      *)
(* retries of handle_sql_error and the recovery of the connections.        *)
(*                                                                         *)
(* A section under the pool's lock is one step, except the wait for a      *)
(* connection, which keeps the lock.  A statement and its commit are two   *)
(* steps: another thread may use the same connection between them.  A      *)
(* handle is the pair of the thread that checked a connection out and the  *)
(* connection; a thread's writes are abstracted to its name.               *)
(***************************************************************************)
EXTENDS Integers, FiniteSets

CONSTANTS
    Thread,     \* callers of the database object
    Conn,       \* connection objects; a name is used again after the object is gone
    PoolSize,   \* pool_size
    Loops,      \* retries handle_sql_error allows (5 in the code)
    MaxCalls,   \* bound on the calls of all threads
    MaxFaults   \* bound on broken connections and failing statements

AllOps == {"save", "procedure", "batch"}
None == "none"

ASSUME PoolSizeAssumption == PoolSize \in Nat \ {0}
ASSUME PoolBounds == Loops \in Nat /\ MaxCalls \in Nat /\ MaxFaults \in Nat
ASSUME PoolNone == None \notin Conn \cup Thread
ASSUME ConnFinite == IsFiniteSet(Conn)

VARIABLES
    idle,       \* connections in _pool
    open,       \* connections that are not closed
    broken,     \* open connections that fail their ping
    created,    \* _created_connections
    lock,       \* the thread that waits for a connection inside _lock
    dblock,     \* the batch inside `with self`, the lock of the database object
    pinned,     \* _pinned_sql_conn
    txn,        \* the threads whose current call wrote on a connection, uncommitted
    durable,    \* the threads whose current write has been committed
    spoiled,    \* threads whose write another thread's failing statement rolled back
                \* between their statement and its commit (history)
    pc, op,     \* the threads
    batch,      \* the connection a batch holds
    own,        \* the connection the current statement checked out
    use,        \* the connection the current statement runs on
    prev,       \* what pinned_pool_connection restores
    discard,    \* threads whose statement handle is marked bad
    loops,      \* retries so far
    stmt,       \* records of the batch done
    saves,      \* threads whose current statement runs with save=True
    calls,      \* calls so far
    faults,     \* faults so far
    drained     \* the pool was drained at least once (history)

poolVars == <<idle, open, broken, created, lock>>
dataVars == <<txn, durable, spoiled>>
stmtVars == <<own, use, discard>>
callVars == <<op, batch, prev, loops, stmt, saves, dblock>>
vars == <<poolVars, pinned, dataVars, pc, stmtVars, callVars, calls, faults, drained>>

Handle == Thread \X Conn
NoHandle == <<None, None>>
PC == {"idle", "choose", "get", "wait", "exec", "commit", "release", "retry",
       "getPin", "pin", "commitPin", "unpin", "releasePin", "done", "failed"}

TypeOK ==
    /\ idle \subseteq Conn /\ open \subseteq Conn /\ broken \subseteq Conn
    /\ created \in Int
    /\ lock \in Thread \cup {None} /\ dblock \in Thread \cup {None}
    /\ pinned \in Handle \cup {NoHandle}
    /\ txn \in [Conn -> SUBSET Thread] /\ durable \subseteq Thread /\ spoiled \subseteq Thread
    /\ pc \in [Thread -> PC]
    /\ op \in [Thread -> AllOps \cup {None}]
    /\ batch \in [Thread -> Conn \cup {None}] /\ own \in [Thread -> Conn \cup {None}]
    /\ use \in [Thread -> Handle \cup {NoHandle}] /\ prev \in [Thread -> Handle \cup {NoHandle}]
    /\ discard \subseteq Handle
    /\ loops \in [Thread -> 0..Loops] /\ stmt \in [Thread -> 0..1] /\ saves \subseteq Thread
    /\ calls \in Nat /\ faults \in Nat /\ drained \in BOOLEAN

\* _initialize_pool opens at most five connections, fewer if the server is
\* not up yet.
Init ==
    /\ idle \in SUBSET Conn /\ Cardinality(idle) <= PoolSize /\ Cardinality(idle) <= 5
    /\ open = idle /\ created = Cardinality(idle) /\ broken = {}
    /\ lock = None /\ dblock = None /\ pinned = NoHandle
    /\ txn = [c \in Conn |-> {}] /\ durable = {} /\ spoiled = {}
    /\ pc = [t \in Thread |-> "idle"] /\ op = [t \in Thread |-> None]
    /\ batch = [t \in Thread |-> None] /\ own = [t \in Thread |-> None]
    /\ use = [t \in Thread |-> NoHandle] /\ prev = [t \in Thread |-> NoHandle]
    /\ discard = {}
    /\ loops = [t \in Thread |-> 0] /\ stmt = [t \in Thread |-> 0] /\ saves = {}
    /\ calls = 0 /\ faults = 0 /\ drained = FALSE

-----------------------------------------------------------------------------
(* The pool. *)

Goto(t, l) == pc' = [pc EXCEPT ![t] = l]

\* _pool_connection_is_usable.
Usable(c) == c \in open \ broken

\* Names for a new connection: closed, and no handle refers to them any more.
Unused == {c \in Conn \ open : \A t \in Thread : c \notin {pinned[2], use[t][2], prev[t][2]}}

\* Close connections: what was not committed on them is rolled back.
Close(cs) ==
    /\ open' = open \ cs
    /\ broken' = broken \ cs
    /\ txn' = [c \in Conn |-> IF c \in cs THEN {} ELSE txn[c]]

\* _is_connection_valid: the branch of a connection that has ping, as every
\* mysql connection does, ends without a return, and None is not valid.
PoolValid(c) == FALSE

\* Fault: the counter is not looked at.
AlwaysRoom == TRUE

\* self._created_connections < self.pool_size
Room == created < PoolSize

\* get_connection, when it need not wait: an idle connection if it is valid,
\* or a new one in its place (and the counter goes up for it).
TakeIdle(c) ==
    \E b \in idle :
      /\ idle' = idle \ {b}
      /\ IF PoolValid(b)
           THEN c = b /\ UNCHANGED <<open, broken, created, txn>>
           ELSE /\ c \in Unused
                /\ open' = (open \ {b}) \cup {c}
                /\ broken' = broken \ {b}
                /\ txn' = [txn EXCEPT ![b] = {}]
                /\ created' = created + 1

TakeNew(c) ==
    /\ idle = {} /\ Room /\ c \in Unused
    /\ open' = open \cup {c}
    /\ created' = created + 1
    /\ UNCHANGED <<idle, broken, txn>>

Take(c) == lock = None /\ (TakeIdle(c) \/ TakeNew(c)) /\ UNCHANGED lock

\* return_connection keeps a valid connection whose handle is not marked bad.
Keeps(t, c) == <<t, c>> \notin discard /\ Cardinality(idle) < PoolSize /\ PoolValid(c)

\* return_connection: kept, or closed and counted down.
Give(t, c) ==
    /\ lock = None
    /\ IF Keeps(t, c)
         THEN idle' = idle \cup {c} /\ UNCHANGED <<open, broken, created, txn>>
         ELSE /\ Close({c})
              /\ created' = IF <<t, c>> \in discard /\ created <= 0 THEN 0 ELSE created - 1
              /\ UNCHANGED idle
    /\ discard' = discard \ {<<t, c>>}
    /\ UNCHANGED lock

\* _perform_health_check drops what is not valid or was idle for too long.
HealthCheck ==
    /\ lock = None
    /\ \E old \in SUBSET idle :
         /\ old # {} /\ \A c \in idle \ old : PoolValid(c)
         /\ idle' = idle \ old
         /\ Close(old)
         /\ created' = created - Cardinality(old)
    /\ UNCHANGED <<lock, pinned, durable, spoiled, pc, stmtVars, callVars, calls, faults, drained>>

\* The server drops a connection.
Break(c) ==
    /\ faults < MaxFaults /\ Usable(c)
    /\ broken' = broken \cup {c}
    /\ txn' = [txn EXCEPT ![c] = {}]
    /\ faults' = faults + 1
    /\ UNCHANGED <<idle, open, created, lock, pinned, durable, spoiled, pc, stmtVars, callVars,
                   calls, drained>>

-----------------------------------------------------------------------------
(* sql() and procedure(): pinned or checked out, run, commit, return. *)

Unlock(t) == dblock' = IF dblock = t THEN None ELSE dblock

\* A call that raises: a record of a batch is logged and the next one tried,
\* anything else fails.  The last record is written with save=True only if
\* nothing is pinned when it starts (_persist_anime_record).
NextRecord(t) ==
    /\ Unlock(t)
    /\ loops' = [loops EXCEPT ![t] = 0]
    /\ IF batch[t] # None /\ stmt[t] = 0
         THEN /\ stmt' = [stmt EXCEPT ![t] = 1]
              /\ saves' = IF pinned = NoHandle THEN saves \cup {t} ELSE saves
              /\ Goto(t, "choose")
         ELSE /\ Goto(t, IF batch[t] # None THEN "unpin" ELSE "failed")
              /\ UNCHANGED <<stmt, saves>>

Call(t, o) ==
    /\ pc[t] = "idle" /\ calls < MaxCalls 
    /\ op' = [op EXCEPT ![t] = o]
    /\ saves' = IF o = "batch" THEN saves ELSE saves \cup {t}
    /\ calls' = calls + 1
    /\ Goto(t, CASE o = "save" -> "choose" [] o = "procedure" -> "get" [] o = "batch" -> "getPin")
    /\ UNCHANGED <<poolVars, pinned, dataVars, stmtVars, batch, prev, loops, stmt,
                   dblock, faults, drained>>

\* insert and update run their statement inside `with self`; sql does not.
LockRecord(t) ==
    IF op[t] = "batch" THEN dblock \in {None, t} /\ dblock' = t ELSE UNCHANGED dblock

\* Fault: the statement also returns the connection it found pinned.
ChooseOwned(t) ==
    /\ pc[t] = "choose"
    /\ LockRecord(t)
    /\ use' = [use EXCEPT ![t] = pinned]
    /\ own' = [own EXCEPT ![t] = pinned[2]]
    /\ Goto(t, IF pinned = NoHandle THEN "get" ELSE "exec")
    /\ UNCHANGED <<poolVars, pinned, dataVars, discard, op, batch, prev, loops, stmt,
                   saves, calls, faults, drained>>

\* sql reads _pinned_sql_conn.
Choose(t) ==
    /\ pc[t] = "choose"
    /\ LockRecord(t)
    /\ use' = [use EXCEPT ![t] = pinned]
    /\ Goto(t, IF pinned = NoHandle THEN "get" ELSE "exec")
    /\ UNCHANGED <<poolVars, pinned, dataVars, own, discard, op, batch, prev, loops, stmt,
                   saves, calls, faults, drained>>

\* pooled_connection enters.
Get(t) ==
    /\ pc[t] = "get"
    /\ \E c \in Conn : /\ Take(c)
                       /\ own' = [own EXCEPT ![t] = c]
                       /\ use' = [use EXCEPT ![t] = <<t, c>>]
    /\ Goto(t, "exec")
    /\ UNCHANGED <<pinned, durable, spoiled, discard, callVars, calls, faults, drained>>

\* pinned_pool_connection enters.
GetPin(t) ==
    /\ pc[t] = "getPin"
    /\ \E c \in Conn : Take(c) /\ batch' = [batch EXCEPT ![t] = c]
    /\ Goto(t, "pin")
    /\ UNCHANGED <<pinned, durable, spoiled, stmtVars, op, prev, loops, stmt, saves,
                   dblock, calls, faults, drained>>

\* self._pool.get(timeout) inside the lock: return_connection needs the same
\* lock, so nothing but the timeout can end the wait.
Wait(t) ==
    /\ pc[t] \in {"get", "getPin"} /\ lock = None /\ idle = {} /\ ~Room
    /\ lock' = t
    /\ Goto(t, "wait")
    /\ UNCHANGED <<idle, open, broken, created, pinned, dataVars, stmtVars,
                   callVars, calls, faults, drained>>

\* The RuntimeError of the timeout is not retried.
WaitTimeout(t) ==
    /\ pc[t] = "wait"
    /\ lock' = None
    /\ NextRecord(t)
    /\ UNCHANGED <<idle, open, broken, created, pinned, dataVars, stmtVars,
                   op, batch, prev, calls, faults, drained>>

\* The factory raises in place of an invalid connection, which is closed but
\* stays counted.
ReplaceFails(t) ==
    /\ pc[t] = "get" /\ lock = None /\ faults < MaxFaults
    /\ \E b \in idle : ~PoolValid(b) /\ idle' = idle \ {b} /\ Close({b})
    /\ faults' = faults + 1
    /\ Goto(t, "retry")
    /\ UNCHANGED <<created, lock, pinned, durable, spoiled, stmtVars, callVars, calls, drained>>

UsedConn(t) == use[t][2]

CheckedOut(h) == own[h[1]] = h[2] \/ batch[h[1]] = h[2]

\* _mark_pool_connection_bad on the handle the statement runs on.
MarkBad(t) ==
    /\ discard' = IF CheckedOut(use[t]) THEN discard \cup {use[t]} ELSE discard
    /\ pinned' = IF pinned = use[t] THEN NoHandle ELSE pinned

\* _execute_sql, _execute_procedure: the statement.
Execute(t) ==
    LET c == UsedConn(t) IN
    /\ pc[t] = "exec" /\ Usable(c)
    /\ txn' = [txn EXCEPT ![c] = @ \cup {t}]
    /\ spoiled' = spoiled \ {t}
    /\ Goto(t, IF t \in saves THEN "commit" ELSE "release")
    /\ UNCHANGED <<poolVars, pinned, durable, stmtVars, callVars, calls, faults, drained>>

\* A connection that is not usable is marked bad: InterfaceError.
Unusable(t) ==
    /\ pc[t] = "exec" /\ ~Usable(UsedConn(t))
    /\ MarkBad(t)
    /\ Goto(t, "retry")
    /\ UNCHANGED <<poolVars, dataVars, own, use, callVars, calls, faults, drained>>

\* The statement fails (deadlock, changed record): rollback, whoever wrote.  A
\* thread that runs on the same connection and is about to commit is not told.
StatementFails(t) ==
    LET c == UsedConn(t) IN
    /\ pc[t] = "exec" /\ Usable(c) /\ faults < MaxFaults
    /\ txn' = [txn EXCEPT ![c] = {}]
    /\ spoiled' = spoiled \cup {u \in txn[c] \ {t} : UsedConn(u) = c}
    /\ faults' = faults + 1
    /\ Goto(t, "retry")
    /\ UNCHANGED <<poolVars, pinned, durable, stmtVars, callVars, calls, drained>>

\* Fault: success is reported before the commit.
SkipCommit(t) ==
    /\ pc[t] = "commit"
    /\ Goto(t, "release")
    /\ UNCHANGED <<poolVars, pinned, dataVars, stmtVars, callVars, calls, faults, drained>>

\* conn.commit(): everything written on the connection so far.
Commit(t) ==
    LET c == UsedConn(t) IN
    /\ pc[t] = "commit"
    /\ IF Usable(c)
         THEN /\ durable' = durable \cup txn[c]
              /\ txn' = [txn EXCEPT ![c] = {}]
              /\ Goto(t, "release")
              /\ UNCHANGED <<pinned, discard, spoiled>>
         ELSE MarkBad(t) /\ Goto(t, "retry") /\ UNCHANGED dataVars
    /\ UNCHANGED <<poolVars, own, use, callVars, calls, faults, drained>>

\* The statement is done: its own connection, if any, goes back.
Release(t) ==
    /\ pc[t] = "release"
    /\ IF own[t] = None
         THEN UNCHANGED <<poolVars, txn, discard>>
         ELSE Give(t, own[t])
    /\ own' = [own EXCEPT ![t] = None] /\ use' = [use EXCEPT ![t] = NoHandle]
    /\ IF batch[t] = None
         THEN Goto(t, "done") /\ UNCHANGED <<loops, stmt, saves, dblock>>
         ELSE IF stmt[t] = 1 /\ t \notin saves
           THEN Goto(t, "commitPin") /\ Unlock(t) /\ UNCHANGED <<loops, stmt, saves>>
           ELSE NextRecord(t)
    /\ UNCHANGED <<pinned, durable, spoiled, op, batch, prev, calls, faults, drained>>

RetryAllowed(t) == op[t] # "procedure" /\ loops[t] < Loops

\* handle_sql_error, after the connection went back: try again or raise.  A
\* statement of a batch that raises is logged and the batch goes on.
Retry(t) ==
    /\ pc[t] = "retry"
    /\ IF own[t] = None
         THEN UNCHANGED <<poolVars, txn, discard>>
         ELSE Give(t, own[t])
    /\ own' = [own EXCEPT ![t] = None] /\ use' = [use EXCEPT ![t] = NoHandle]
    /\ IF RetryAllowed(t)
         THEN /\ loops' = [loops EXCEPT ![t] = @ + 1]
              /\ Goto(t, "choose")
              /\ UNCHANGED <<stmt, saves, dblock>>
         ELSE NextRecord(t)
    /\ UNCHANGED <<pinned, durable, spoiled, op, batch, prev, calls, faults, drained>>

\* _recover_connections, by a thread between two attempts: the pin is dropped,
\* the idle connections are closed, the counter is reset.
Recover(t) ==
    /\ pc[t] = "choose" /\ loops[t] > 0 /\ lock = None /\ dblock \in {None, t}
    /\ ~drained
    /\ pinned' = NoHandle
    /\ idle' = {} /\ Close(idle)
    /\ created' = 0
    /\ drained' = TRUE
    /\ UNCHANGED <<lock, durable, spoiled, pc, stmtVars, callVars, calls, faults>>

-----------------------------------------------------------------------------
(* upsert_anime_batch: two statements on a pinned connection. *)

Pin(t) ==
    /\ pc[t] = "pin"
    /\ prev' = [prev EXCEPT ![t] = pinned]
    /\ pinned' = <<t, batch[t]>>
    /\ Goto(t, "choose")
    /\ UNCHANGED <<poolVars, dataVars, stmtVars, op, batch, loops, stmt, saves,
                   dblock, calls, faults, drained>>

\* commit_pinned_connection, whoever pinned what it finds.
CommitPinned(t) ==
    LET c == pinned[2] IN
    /\ pc[t] = "commitPin"
    /\ IF pinned # NoHandle /\ Usable(c)
         THEN /\ durable' = durable \cup txn[c]
              /\ txn' = [txn EXCEPT ![c] = {}]
              /\ UNCHANGED spoiled
         ELSE UNCHANGED dataVars
    /\ Goto(t, "unpin")
    /\ UNCHANGED <<poolVars, pinned, stmtVars, callVars, calls, faults, drained>>

Unpin(t) ==
    /\ pc[t] = "unpin"
    /\ pinned' = prev[t]
    /\ prev' = [prev EXCEPT ![t] = NoHandle]
    /\ Goto(t, "releasePin")
    /\ UNCHANGED <<poolVars, dataVars, stmtVars, op, batch, loops, stmt, saves,
                   dblock, calls, faults, drained>>

ReleasePin(t) ==
    /\ pc[t] = "releasePin"
    /\ Give(t, batch[t])
    /\ batch' = [batch EXCEPT ![t] = None]
    /\ Goto(t, "done")
    /\ UNCHANGED <<pinned, durable, spoiled, own, use, op, prev, loops, stmt, saves,
                   dblock, calls, faults, drained>>

Return(t) ==
    /\ pc[t] \in {"done", "failed"}
    /\ op' = [op EXCEPT ![t] = None]
    /\ loops' = [loops EXCEPT ![t] = 0] /\ stmt' = [stmt EXCEPT ![t] = 0]
    /\ saves' = saves \ {t} /\ durable' = durable \ {t} /\ spoiled' = spoiled \ {t}
    /\ txn' = [c \in Conn |-> txn[c] \ {t}]
    /\ Goto(t, "idle")
    /\ UNCHANGED <<poolVars, pinned, stmtVars, batch, prev, dblock, calls, faults,
                   drained>>

-----------------------------------------------------------------------------
Step(t) ==
    \/ \E o \in AllOps : Call(t, o)
    \/ Choose(t) \/ Get(t) \/ GetPin(t) \/ Wait(t) \/ WaitTimeout(t) \/ ReplaceFails(t)
    \/ Execute(t) \/ Unusable(t) \/ StatementFails(t) \/ Commit(t)
    \/ Release(t) \/ Retry(t) \/ Recover(t)
    \/ Pin(t) \/ CommitPinned(t) \/ Unpin(t) \/ ReleasePin(t) \/ Return(t)

Next == HealthCheck \/ (\E c \in Conn : Break(c)) \/ \E t \in Thread : Step(t)

Spec == Init /\ [][Next]_vars

-----------------------------------------------------------------------------
(* Properties. *)

\* "The pool itself is responsible for handing out unique conn objects": a
\* connection is idle, or checked out once, or closed (base.py 227-231).
Holds(t, c) == own[t] = c \/ batch[t] = c
HandedOutOnce ==
    /\ \A t \in Thread, c \in Conn : Holds(t, c) => c \in open \ idle
    /\ \A t, u \in Thread, c \in Conn : Holds(t, c) /\ Holds(u, c) => t = u
    /\ \A t \in Thread : own[t] # None => own[t] # batch[t]
    /\ idle \subseteq open

\* As long as nothing has drained the pool there are never more open
\* connections than pool_size, whatever breaks and is replaced.
ConnectionCap == ~drained => Cardinality(open) <= PoolSize

\* A call that returns after a statement with save=True has been committed, also
\* when its connection broke, it was retried or the connections were recovered
\* under it ("the commit happens on the same connection that ran the INSERT",
\* embeddedMariaDB.py 1366).  procedure runs on a connection nobody else uses;
\* sql joins whatever connection a batch of another thread has pinned, and there
\* a failing statement of the batch rolls it back before its commit, which then
\* succeeds on nothing: the one way a save is lost behind a call that returns.
Saved(t) ==
    \/ t \in durable
    \/ op[t] = "save" /\ t \in spoiled
SavedIsDurable ==
    \A t \in Thread : pc[t] = "done" /\ op[t] \in {"save", "procedure"} => Saved(t)
=============================================================================
