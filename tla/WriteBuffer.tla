---------------------------- MODULE WriteBuffer ----------------------------
(***************************************************************************)
(* What the write path of the database manager promises its callers,       *)
(* whatever its queue and threads do: a record is taken on at most once,   *)
(* and what was taken on is settled at most once, either written or given  *)
(* up without a word to the caller.  Nothing is ever written that was not  *)
(* taken on.                                                               *)
(***************************************************************************)
CONSTANT Record
VARIABLES accepted, written, lost

buffer == <<accepted, written, lost>>

Init == accepted = {} /\ written = {} /\ lost = {}

\* enqueue_anime answers True.
Accept(r) ==
    /\ r \notin accepted
    /\ accepted' = accepted \cup {r}
    /\ UNCHANGED <<written, lost>>

\* The synchronous fallback: taken on and settled in one call, whether the upsert
\* succeeded or was only logged as failed: the caller hears True in both cases.
Direct(r) ==
    /\ r \notin accepted
    /\ accepted' = accepted \cup {r}
    /\ \/ written' = written \cup {r} /\ UNCHANGED lost
       \/ lost' = lost \cup {r} /\ UNCHANGED written

\* A batch is flushed: each of its records is written or lost, once.
Settle(done, failed) ==
    /\ done \cup failed \subseteq accepted \ (written \cup lost)
    /\ done \cap failed = {}
    /\ written' = written \cup done /\ lost' = lost \cup failed
    /\ UNCHANGED accepted

Next ==
    \/ \E r \in Record : Accept(r) \/ Direct(r)
    \/ \E done, failed \in SUBSET Record : Settle(done, failed)

Spec == Init /\ [][Next]_buffer
============================================================================
