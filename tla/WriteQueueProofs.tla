--------------------------- MODULE WriteQueueProofs ---------------------------
(***************************************************************************)
(* Machine-checked proofs about WriteQueue, for every set of records,      *)
(* every batch size and every bound of the queue: the type invariant,      *)
(* Accounted, DrainedBeforeRelease, and that WriteQueue implements         *)
(* WriteBuffer.                                                            *)
(*                                                                         *)
(* IndInv adds where a record can be: in one place of the queue, in one    *)
(* batch, or settled, and never before enqueue_anime has answered; and     *)
(* where the worker is when close has told it to stop.                     *)
(***************************************************************************)
EXTENDS WriteQueue, FiniteSetTheorems, TLAPS

\* Records whose caller has its answer, and only they, were taken on.
CallInv ==
    /\ \A r \in Record : r \in accepted <=> call[r] = "done"
    /\ written \cup lost \cup direct \cup early \subseteq accepted
    /\ direct \subseteq written \cup lost
    /\ direct \cap early = {}

\* No record is in two places.
PlaceInv ==
    /\ \A i, j \in 1..Len(q) : q[i] = q[j] => i = j
    /\ Range(q) \cap batch["worker"] = {} /\ Range(q) \cap batch["flusher"] = {}
    /\ batch["worker"] \cap batch["flusher"] = {}
    /\ (accepted \ direct) \ (written \cup lost)
         = Range(q) \cup batch["worker"] \cup batch["flusher"]

\* Queued, held and processed records add up.
CountInv ==
    /\ IsFiniteSet(accepted)
    /\ IsFiniteSet(batch["worker"]) /\ IsFiniteSet(batch["flusher"])
    /\ processed + Len(q) + Cardinality(batch["worker"]) + Cardinality(batch["flusher"])
         = Cardinality(accepted \ direct)

\* What a thread holds at each point: the worker reads on while its batch has room.
BatchInv ==
    /\ pc["worker"] \in {"idle", "drain"} => batch["worker"] = {}
    /\ pc["flusher"] = "idle" => batch["flusher"] = {}
    /\ pc["worker"] \in {"loop", "get"} => Cardinality(batch["worker"]) < BatchSize
    /\ pc["worker"] \in {"idle", "loop", "get", "flush", "lastFlush", "drain", "drainFlush"}
    /\ pc["flusher"] \in {"idle", "take", "takeFlush"}

\* The worker lives from enable_batched_writes until it has drained a stopped queue.
StopInv ==
    /\ closing = "open" => ~stop
    /\ ~queue /\ closing = "open" => pc["worker"] = "idle" /\ q = <<>> /\ early = {}
    /\ queue /\ ~stop => pc["worker"] # "idle"
    /\ pc["worker"] \in {"lastFlush", "drain", "drainFlush"} => stop
    /\ closing = "joining" => stop
    /\ stop => closing # "open"
    /\ closing \in {"release", "closed"} => ~queue
    /\ pc["worker"] = "idle" => Range(q) \cap early = {}
    /\ closing \in {"release", "closed"} /\ ~timedOut => pc["worker"] = "idle"

IndInv == TypeOK /\ CallInv /\ PlaceInv /\ CountInv /\ BatchInv /\ StopInv

-----------------------------------------------------------------------------
(* The queue as a sequence. *)

\* What is left of a nonempty queue of distinct records, and what is taken.
LEMMA QueueTail ==
    ASSUME NEW S, NEW s \in Seq(S), s # <<>>
    PROVE  /\ Head(s) \in S /\ Tail(s) \in Seq(S)
           /\ Len(s) \in Nat /\ Len(Tail(s)) = Len(s) - 1
           /\ Range(s) = Range(Tail(s)) \cup {Head(s)}
           /\ (\A i, j \in 1..Len(s) : s[i] = s[j] => i = j)
                => /\ \A i, j \in 1..Len(Tail(s)) : Tail(s)[i] = Tail(s)[j] => i = j
                   /\ Head(s) \notin Range(Tail(s))
<1>1. /\ Head(s) = s[1] /\ Head(s) \in S /\ Tail(s) \in Seq(S)
      /\ Len(s) \in Nat /\ Len(s) >= 1 /\ Len(Tail(s)) = Len(s) - 1
      /\ \A i \in 1..Len(Tail(s)) : Tail(s)[i] = s[i + 1]
      /\ DOMAIN s = 1..Len(s) /\ DOMAIN Tail(s) = 1..Len(Tail(s))
  OBVIOUS
<1>2. Range(s) = {s[i] : i \in 1..Len(s)} /\ Range(Tail(s)) = {Tail(s)[i] : i \in 1..Len(Tail(s))}
  BY <1>1 DEF Range
<1>3. \A x \in Range(s) : x \in Range(Tail(s)) \cup {Head(s)}
  <2> TAKE x \in Range(s)
  <2>1. PICK i \in 1..Len(s) : x = s[i]
    BY <1>2
  <2>2. CASE i = 1
    BY <1>1, <2>1, <2>2
  <2>3. CASE i # 1
    <3>1. i - 1 \in 1..Len(Tail(s)) /\ Tail(s)[i - 1] = s[i]
      BY <1>1, <2>1, <2>3
    <3> QED
      BY <1>2, <2>1, <3>1
  <2> QED
    BY <2>2, <2>3
<1>4. Range(Tail(s)) \cup {Head(s)} \subseteq Range(s)
  BY <1>1, <1>2
<1>5. (\A i, j \in 1..Len(s) : s[i] = s[j] => i = j)
        => /\ \A i, j \in 1..Len(Tail(s)) : Tail(s)[i] = Tail(s)[j] => i = j
           /\ Head(s) \notin Range(Tail(s))
  <2> SUFFICES ASSUME \A i, j \in 1..Len(s) : s[i] = s[j] => i = j
               PROVE  /\ \A i, j \in 1..Len(Tail(s)) : Tail(s)[i] = Tail(s)[j] => i = j
                      /\ Head(s) \notin Range(Tail(s))
    OBVIOUS
  <2>1. \A i \in 1..Len(Tail(s)) : i + 1 \in 1..Len(s) /\ i + 1 # 1 /\ Tail(s)[i] = s[i + 1]
    BY <1>1
  <2>2. ASSUME NEW i \in 1..Len(Tail(s)), NEW j \in 1..Len(Tail(s)), Tail(s)[i] = Tail(s)[j]
        PROVE  i = j
    BY <2>1, <2>2
  <2>3. ASSUME NEW i \in 1..Len(Tail(s)) PROVE Tail(s)[i] # Head(s)
    BY <1>1, <2>1
  <2> QED
    BY <1>2, <2>2, <2>3
<1> QED
  BY <1>1, <1>3, <1>4, <1>5

\* A queue of distinct records with a new one at its end.
LEMMA QueueAppend ==
    ASSUME NEW S, NEW s \in Seq(S), NEW e \in S
    PROVE  /\ Append(s, e) \in Seq(S)
           /\ Len(s) \in Nat /\ Len(Append(s, e)) = Len(s) + 1
           /\ Range(Append(s, e)) = Range(s) \cup {e}
           /\ e \notin Range(s) /\ (\A i, j \in 1..Len(s) : s[i] = s[j] => i = j)
                => \A i, j \in 1..Len(Append(s, e)) :
                      Append(s, e)[i] = Append(s, e)[j] => i = j
<1> DEFINE t == Append(s, e)
<1>1. /\ t \in Seq(S) /\ Len(s) \in Nat /\ Len(t) = Len(s) + 1
      /\ \A i \in 1..Len(s) : t[i] = s[i]
      /\ t[Len(s) + 1] = e
      /\ DOMAIN s = 1..Len(s) /\ DOMAIN t = 1..Len(t)
  OBVIOUS
<1> HIDE DEF t
<1>2. Range(s) = {s[i] : i \in 1..Len(s)} /\ Range(t) = {t[i] : i \in 1..Len(t)}
  BY <1>1 DEF Range
<1>3. \A i \in 1..Len(t) : i \in 1..Len(s) \/ i = Len(s) + 1
  BY <1>1
<1>4. Range(t) = Range(s) \cup {e}
  <2>1. Range(t) \subseteq Range(s) \cup {e}
    BY <1>1, <1>2, <1>3
  <2>2. 1..Len(s) \subseteq 1..Len(t) /\ Len(s) + 1 \in 1..Len(t)
    BY <1>1
  <2>3. Range(s) \cup {e} \subseteq Range(t)
    BY <1>1, <1>2, <2>2
  <2> QED
    BY <2>1, <2>3
<1>5. ASSUME e \notin Range(s), \A i, j \in 1..Len(s) : s[i] = s[j] => i = j,
             NEW i \in 1..Len(t), NEW j \in 1..Len(t), t[i] = t[j]
      PROVE  i = j
  <2>1. CASE i \in 1..Len(s) /\ j \in 1..Len(s)
    BY <1>1, <1>5, <2>1
  <2>2. CASE i = Len(s) + 1 /\ j \in 1..Len(s)
    BY <1>1, <1>2, <1>5, <2>2
  <2>3. CASE j = Len(s) + 1 /\ i \in 1..Len(s)
    BY <1>1, <1>2, <1>5, <2>3
  <2> QED
    BY <1>3, <2>1, <2>2, <2>3
<1> QED
  BY <1>1, <1>4, <1>5 DEF t

-----------------------------------------------------------------------------
(* The invariant holds at the start. *)

\* At the start nothing is queued, held or accepted.
LEMMA InitInv == Init => IndInv
<1> SUFFICES ASSUME Init PROVE IndInv
  OBVIOUS
<1> USE DEF Init
<1>1. Range(q) = {} /\ q \in Seq(Record) /\ Len(q) = 0
  BY DEF Range
<1>2. IsFiniteSet({}) /\ Cardinality({}) = 0
  BY FS_EmptySet
<1>3. batch["worker"] = {} /\ batch["flusher"] = {} /\ pc["worker"] = "idle" /\ pc["flusher"] = "idle"
  BY DEF Thread
<1>4. TypeOK
  <2>1. pc \in [Thread -> ThreadPc] /\ batch \in [Thread -> SUBSET Record]
    BY DEF ThreadPc
  <2>2. call \in [Record -> CallPc] /\ closing \in ClosePc
    BY DEF CallPc, ClosePc
  <2>3. Cardinality(batch["worker"]) <= BatchSize
    <3>1. 0 <= BatchSize
      BY QueueBounds
    <3> QED
      BY <1>2, <1>3, <3>1, Zenon
  <2>4. Len(q) <= MaxSize
    <3>1. 0 <= MaxSize
      BY QueueBounds
    <3> QED
      BY <1>1, <3>1, Zenon
  <2> QED
    BY <1>1, <2>1, <2>2, <2>3, <2>4 DEF TypeOK
<1>5. CallInv
  BY DEF CallInv
<1>6. PlaceInv
  <2>1. 1..Len(q) = {}
    BY <1>1
  <2> QED
    BY <1>1, <1>3, <2>1, Zenon DEF PlaceInv
<1>7. CountInv
  <2>1. accepted \ direct = {} /\ processed = 0
    OBVIOUS
  <2>2. processed + Len(q) + Cardinality(batch["worker"]) + Cardinality(batch["flusher"]) = 0
    <3>1. Cardinality(batch["worker"]) = 0 /\ Cardinality(batch["flusher"]) = 0
      BY <1>2, <1>3, Zenon
    <3>2. Len(q) = 0
      BY <1>1
    <3> HIDE DEF Init
    <3> QED
      BY <2>1, <3>1, <3>2
  <2> QED
    BY <1>2, <1>3, <2>1, <2>2, Zenon DEF CountInv
<1>8. BatchInv
  BY <1>2, <1>3, QueueBounds DEF BatchInv
<1>9. StopInv
  BY <1>1, <1>3 DEF StopInv
<1> QED
  BY <1>4, <1>5, <1>6, <1>7, <1>8, <1>9 DEF IndInv

-----------------------------------------------------------------------------
(* What the steps have in common. *)

\* A step that moves no record.
LEMMA Frame ==
    ASSUME IndInv, UNCHANGED <<q, batch, accepted, written, lost, processed, direct>>
    PROVE  PlaceInv' /\ CountInv'
  BY DEF IndInv, PlaceInv, CountInv

\* A thread moves a record from the queue to its batch.
LEMMA TakeMoves ==
    ASSUME IndInv, NEW t \in Thread, Take(t),
           UNCHANGED <<accepted, written, lost, processed, direct>>
    PROVE  /\ q' \in Seq(Record) /\ Len(q') <= MaxSize /\ Range(q') \subseteq Range(q)
           /\ batch' \in [Thread -> SUBSET Record]
           /\ batch'[t] = batch[t] \cup {Head(q)} /\ Head(q) \in Range(q)
           /\ \A u \in Thread \ {t} : batch'[u] = batch[u]
           /\ Cardinality(batch[t]) \in Nat
           /\ Cardinality(batch'[t]) = Cardinality(batch[t]) + 1
           /\ PlaceInv' /\ CountInv'
<1>1. /\ q \in Seq(Record) /\ q # <<>> /\ q' = Tail(q) /\ Len(q) <= MaxSize
      /\ batch \in [Thread -> SUBSET Record]
      /\ batch' = [batch EXCEPT ![t] = @ \cup {Head(q)}]
      /\ \A i, j \in 1..Len(q) : q[i] = q[j] => i = j
  BY DEF IndInv, TypeOK, PlaceInv, Take
<1>2. /\ Head(q) \in Record /\ q' \in Seq(Record)
      /\ Len(q) \in Nat /\ Len(q') = Len(q) - 1
      /\ Range(q) = Range(q') \cup {Head(q)} /\ Head(q) \notin Range(q')
      /\ \A i, j \in 1..Len(q') : q'[i] = q'[j] => i = j
  BY <1>1, QueueTail
<1>3. /\ batch' \in [Thread -> SUBSET Record]
      /\ batch'[t] = batch[t] \cup {Head(q)}
      /\ \A u \in Thread \ {t} : batch'[u] = batch[u]
  BY <1>1, <1>2
<1>4. t = "worker" \/ t = "flusher"
  BY DEF Thread
<1>5. Head(q) \notin batch["worker"] /\ Head(q) \notin batch["flusher"]
  BY <1>2 DEF IndInv, PlaceInv
<1>6. IsFiniteSet(batch[t])
  BY <1>4 DEF IndInv, CountInv
<1>7. /\ IsFiniteSet(batch'[t])
      /\ Cardinality(batch'[t]) = Cardinality(batch[t]) + 1
  <2>1. Head(q) \notin batch[t]
    BY <1>4, <1>5
  <2>2. /\ IsFiniteSet(batch[t] \cup {Head(q)})
        /\ Cardinality(batch[t] \cup {Head(q)}) = Cardinality(batch[t]) + 1
    BY <1>6, <2>1, FS_AddElement, Zenon
  <2> QED
    BY <1>3, <2>2, Zenon
<1>8. Cardinality(batch["worker"]) \in Nat /\ Cardinality(batch["flusher"]) \in Nat
  BY FS_CardinalityType DEF IndInv, CountInv
<1>9. PlaceInv'
  <2>1. CASE t = "worker"
    <3>1. batch'["worker"] = batch["worker"] \cup {Head(q)} /\ batch'["flusher"] = batch["flusher"]
      BY <1>3, <2>1 DEF Thread
    <3> QED
      BY <1>2, <1>5, <3>1 DEF IndInv, PlaceInv
  <2>2. CASE t = "flusher"
    <3>1. batch'["flusher"] = batch["flusher"] \cup {Head(q)} /\ batch'["worker"] = batch["worker"]
      BY <1>3, <2>2 DEF Thread
    <3> QED
      BY <1>2, <1>5, <3>1 DEF IndInv, PlaceInv
  <2> QED
    BY <1>4, <2>1, <2>2
<1>10. CountInv'
  <2>1. processed \in Nat
    BY DEF IndInv, TypeOK
  <2>2. CASE t = "worker"
    <3>1. batch'["flusher"] = batch["flusher"]
      BY <1>3, <2>2 DEF Thread
    <3> QED
      BY <1>2, <1>7, <1>8, <2>1, <2>2, <3>1 DEF IndInv, CountInv
  <2>3. CASE t = "flusher"
    <3>1. batch'["worker"] = batch["worker"]
      BY <1>3, <2>3 DEF Thread
    <3> QED
      BY <1>2, <1>7, <1>8, <2>1, <2>3, <3>1 DEF IndInv, CountInv
  <2> QED
    BY <1>4, <2>2, <2>3
<1>11. Len(q') <= MaxSize
  BY <1>1, <1>2, QueueBounds
<1> QED
  BY <1>2, <1>3, <1>4, <1>7, <1>8, <1>9, <1>10, <1>11

-----------------------------------------------------------------------------
(* The callers. *)

\* enable_batched_writes starts the worker on an empty queue.
LEMMA EnableInv == ASSUME IndInv, Enable PROVE IndInv'
<1>1. PlaceInv' /\ CountInv'
  BY Frame DEF Enable
<1>2. CallInv'
  BY DEF IndInv, CallInv, Enable
<1>3. pc["worker"] = "idle" /\ batch["worker"] = {} /\ q = <<>> /\ early = {}
  BY DEF IndInv, StopInv, BatchInv, Enable
<1>4. pc' \in [Thread -> ThreadPc] /\ pc'["worker"] = "loop" /\ pc'["flusher"] = pc["flusher"]
  BY DEF IndInv, TypeOK, Enable, Thread, ThreadPc
<1>5. TypeOK'
  BY <1>4 DEF IndInv, TypeOK, Enable
<1>6. Cardinality(batch["worker"]) = 0
  BY <1>3, FS_EmptySet
<1>7. BatchInv'
  BY <1>3, <1>4, <1>6, QueueBounds DEF IndInv, BatchInv, Enable
<1>8. StopInv'
  BY <1>3, <1>4 DEF IndInv, StopInv, Enable
<1> QED
  BY <1>1, <1>2, <1>5, <1>7, <1>8 DEF IndInv

\* enqueue_anime only chooses its way.
LEMMA EnqueueInv == ASSUME IndInv, NEW r \in Record, Enqueue(r) PROVE IndInv'
<1>1. PlaceInv' /\ CountInv'
  BY Frame DEF Enqueue
<1>2. call' \in [Record -> CallPc] /\ call'[r] \in {"put", "sync"}
      /\ \A s \in Record \ {r} : call'[s] = call[s]
  BY DEF IndInv, TypeOK, Enqueue, CallPc
<1>3. TypeOK'
  BY <1>2 DEF IndInv, TypeOK, Enqueue
<1>4. CallInv'
  BY <1>2 DEF IndInv, CallInv, Enqueue
<1>5. BatchInv' /\ StopInv'
  BY DEF IndInv, BatchInv, StopInv, Enqueue
<1> QED
  BY <1>1, <1>3, <1>4, <1>5 DEF IndInv

\* A synchronous write is accepted and settled at once.
LEMMA UpsertInv == ASSUME IndInv, NEW r \in Record, Upsert(r) PROVE IndInv'
<1>1. BatchInv' /\ StopInv'
  BY DEF IndInv, BatchInv, StopInv, Upsert
<1>2. r \notin accepted /\ call \in [Record -> CallPc]
  BY DEF IndInv, TypeOK, CallInv, Upsert
<1>3. /\ call' = [call EXCEPT ![r] = "done"]
      /\ accepted' = accepted \cup {r} /\ direct' = direct \cup {r}
      /\ UNCHANGED <<queue, open, q, stop, pc, batch, closing, processed, early, timedOut>>
  BY DEF Upsert
<1>4. \/ written' = written \cup {r} /\ lost' = lost
      \/ lost' = lost \cup {r} /\ written' = written
  BY DEF Upsert
<1>5. TypeOK'
  BY <1>2, <1>3, <1>4 DEF IndInv, TypeOK, CallPc
<1>6. CallInv'
  BY <1>2, <1>3, <1>4 DEF IndInv, CallInv
<1>7. accepted' \ direct' = accepted \ direct
  BY <1>2, <1>3 DEF IndInv, CallInv
<1>8. PlaceInv'
  BY <1>2, <1>3, <1>4, <1>7 DEF IndInv, PlaceInv
<1>9. IsFiniteSet(accepted')
  BY <1>3, FS_AddElement DEF IndInv, CountInv
<1>10. CountInv'
  BY <1>3, <1>7, <1>9 DEF IndInv, CountInv
<1> QED
  BY <1>1, <1>5, <1>6, <1>8, <1>10 DEF IndInv

\* A synchronous write that raises changes nothing but its caller.
LEMMA UpsertRaisesInv == ASSUME IndInv, NEW r \in Record, UpsertRaises(r) PROVE IndInv'
<1>1. BatchInv' /\ StopInv'
  BY DEF IndInv, BatchInv, StopInv, UpsertRaises
<1>2. /\ r \notin accepted /\ call \in [Record -> CallPc]
      /\ call' = [call EXCEPT ![r] = "raised"]
      /\ UNCHANGED <<queue, open, q, stop, pc, batch, closing, accepted, written, lost,
                     processed, direct, early, timedOut>>
  BY DEF IndInv, TypeOK, CallInv, UpsertRaises
<1>3. PlaceInv' /\ CountInv'
  BY <1>2, Frame
<1>4. TypeOK'
  BY <1>2 DEF IndInv, TypeOK, CallPc
<1>5. CallInv'
  BY <1>2 DEF IndInv, CallInv
<1> QED
  BY <1>1, <1>3, <1>4, <1>5 DEF IndInv

\* An accepted record is appended and is nowhere else yet.
LEMMA PutInv == ASSUME IndInv, NEW r \in Record, Put(r) PROVE IndInv'
<1>1. r \notin accepted /\ call \in [Record -> CallPc] /\ q \in Seq(Record)
  BY DEF IndInv, TypeOK, CallInv, Put
<1>2. UNCHANGED <<queue, open, stop, pc, batch, closing, written, lost, processed, direct, timedOut>>
  BY DEF Put
<1>3. BatchInv'
  BY <1>2 DEF IndInv, BatchInv
<1>4. CASE call' \in {[call EXCEPT ![r] = "raised"], [call EXCEPT ![r] = "dropped"]}
            /\ UNCHANGED <<q, accepted, early>>
  <2>1. PlaceInv' /\ CountInv'
    BY <1>2, <1>4, Frame
  <2>2. call' \in [Record -> CallPc] /\ call'[r] # "done" /\ \A s \in Record \ {r} : call'[s] = call[s]
    BY <1>1, <1>4 DEF CallPc
  <2>3. TypeOK'
    BY <1>2, <1>4, <2>2 DEF IndInv, TypeOK
  <2>4. CallInv'
    BY <1>1, <1>2, <1>4, <2>2 DEF IndInv, CallInv
  <2>5. StopInv'
    BY <1>2, <1>4 DEF IndInv, StopInv
  <2> QED
    BY <1>3, <2>1, <2>3, <2>4, <2>5 DEF IndInv
<1>5. CASE /\ queue /\ Room
           /\ call' = [call EXCEPT ![r] = "done"]
           /\ q' = Append(q, r)
           /\ accepted' = accepted \cup {r}
           /\ early' = IF stop THEN early ELSE early \cup {r}
  <2>1. /\ q' \in Seq(Record) /\ Len(q) \in Nat /\ Len(q') = Len(q) + 1
        /\ Range(q') = Range(q) \cup {r}
        /\ r \notin Range(q) /\ (\A i, j \in 1..Len(q) : q[i] = q[j] => i = j)
             => \A i, j \in 1..Len(q') : q'[i] = q'[j] => i = j
    BY <1>1, <1>5, QueueAppend
  <2>2. Len(q') <= MaxSize
    BY <1>5, <2>1, QueueBounds DEF Room
  <2>3. call' \in [Record -> CallPc] /\ call'[r] = "done" /\ \A s \in Record \ {r} : call'[s] = call[s]
    BY <1>1, <1>5 DEF CallPc
  <2>4. TypeOK'
    BY <1>2, <1>5, <2>1, <2>2, <2>3 DEF IndInv, TypeOK
  <2>5. CallInv'
    BY <1>1, <1>2, <1>5, <2>3 DEF IndInv, CallInv
  <2>6. r \notin Range(q) /\ r \notin batch["worker"] /\ r \notin batch["flusher"]
        /\ r \notin written /\ r \notin lost /\ r \notin direct
    BY <1>1 DEF IndInv, CallInv, PlaceInv
  <2>7. PlaceInv'
    <3>1. \A i, j \in 1..Len(q') : q'[i] = q'[j] => i = j
      BY <2>1, <2>6 DEF IndInv, PlaceInv
    <3> QED
      BY <1>2, <1>5, <2>1, <2>6, <3>1 DEF IndInv, PlaceInv
  <2>8. CountInv'
    <3>1. IsFiniteSet(accepted') /\ IsFiniteSet(accepted \ direct)
      BY <1>5, FS_AddElement, FS_Subset DEF IndInv, CountInv
    <3>2. accepted' \ direct' = (accepted \ direct) \cup {r} /\ r \notin accepted \ direct
      BY <1>1, <1>2, <1>5, <2>6
    <3>3. Cardinality(accepted' \ direct') = Cardinality(accepted \ direct) + 1
      BY <3>1, <3>2, FS_AddElement, Zenon
    <3>4. Cardinality(batch["worker"]) \in Nat /\ Cardinality(batch["flusher"]) \in Nat
          /\ processed \in Nat
      BY FS_CardinalityType DEF IndInv, CountInv, TypeOK
    <3> QED
      BY <1>2, <2>1, <3>1, <3>3, <3>4 DEF IndInv, CountInv
  <2>9. StopInv'
    BY <1>1, <1>2, <1>5, <2>1, <2>6 DEF IndInv, StopInv, CallInv
  <2> QED
    BY <1>3, <2>4, <2>5, <2>7, <2>8, <2>9 DEF IndInv
<1> QED
  BY <1>4, <1>5 DEF Put

-----------------------------------------------------------------------------
(* The worker and flush_now. *)

\* A step of a thread that only changes where it is.
LEMMA GotoType ==
    ASSUME IndInv, NEW t \in Thread, NEW l \in ThreadPc, Goto(t, l)
    PROVE  /\ pc' \in [Thread -> ThreadPc] /\ pc'[t] = l
           /\ \A u \in Thread \ {t} : pc'[u] = pc[u]
  BY DEF IndInv, TypeOK, Goto

\* The worker leaves its loop only once it has been told to stop.
LEMMA LoopInv == ASSUME IndInv, Loop PROVE IndInv'
<1>1. PlaceInv' /\ CountInv'
  BY Frame DEF Loop
<1>2. PICK l \in {"lastFlush", "drain", "get"} :
          /\ Goto("worker", l)
          /\ l = "get" <=> ~stop
          /\ l = "drain" => batch["worker"] = {}
  BY DEF Loop, AfterLoop
<1>3. /\ pc' \in [Thread -> ThreadPc] /\ pc'["worker"] = l /\ pc'["flusher"] = pc["flusher"]
  BY <1>2, GotoType DEF Thread, ThreadPc
<1>4. TypeOK' /\ CallInv'
  BY <1>3 DEF IndInv, TypeOK, CallInv, Loop
<1>5. BatchInv'
  BY <1>2, <1>3 DEF IndInv, BatchInv, Loop
<1>6. StopInv'
  BY <1>2, <1>3 DEF IndInv, StopInv, Loop
<1> QED
  BY <1>1, <1>4, <1>5, <1>6 DEF IndInv

\* A record moves to the worker's batch, which is flushed when full.
LEMMA GetInv == ASSUME IndInv, Get PROVE IndInv'
<1>0. "worker" \in Thread /\ "flusher" \in Thread \ {"worker"}
  BY DEF Thread
<1>1. /\ q' \in Seq(Record) /\ Len(q') <= MaxSize /\ Range(q') \subseteq Range(q)
      /\ batch' \in [Thread -> SUBSET Record] /\ batch'["flusher"] = batch["flusher"]
      /\ Cardinality(batch["worker"]) \in Nat
      /\ Cardinality(batch'["worker"]) = Cardinality(batch["worker"]) + 1
      /\ PlaceInv' /\ CountInv'
  BY <1>0, TakeMoves DEF Get
<1>2. PICK l \in {"loop", "flush"} :
          Goto("worker", l) /\ (l = "loop" => Cardinality(batch'["worker"]) < BatchSize)
  BY DEF Get
<1>3. /\ pc' \in [Thread -> ThreadPc] /\ pc'["worker"] = l /\ pc'["flusher"] = pc["flusher"]
  BY <1>0, <1>2, GotoType DEF ThreadPc
<1>4. Cardinality(batch'["worker"]) <= BatchSize
  BY <1>1, QueueBounds DEF IndInv, BatchInv, Get
<1>5. TypeOK' /\ CallInv'
  BY <1>1, <1>3, <1>4 DEF IndInv, TypeOK, CallInv, Get
<1>6. BatchInv'
  BY <1>1, <1>2, <1>3 DEF IndInv, BatchInv, Get
<1>7. StopInv'
  BY <1>1, <1>2, <1>3 DEF IndInv, StopInv, Get
<1> QED
  BY <1>1, <1>5, <1>6, <1>7 DEF IndInv

\* Nothing was queued: only the place of the worker changes.
LEMMA GetEmptyInv == ASSUME IndInv, GetEmpty PROVE IndInv'
<1>1. PlaceInv' /\ CountInv'
  BY Frame DEF GetEmpty
<1>2. PICK l \in {"loop", "flush"} : Goto("worker", l)
  BY DEF GetEmpty
<1>3. /\ pc' \in [Thread -> ThreadPc] /\ pc'["worker"] = l /\ pc'["flusher"] = pc["flusher"]
  BY <1>2, GotoType DEF Thread, ThreadPc
<1>4. TypeOK' /\ CallInv'
  BY <1>3 DEF IndInv, TypeOK, CallInv, GetEmpty
<1>5. BatchInv'
  BY <1>2, <1>3 DEF IndInv, BatchInv, GetEmpty
<1>6. StopInv'
  BY <1>2, <1>3 DEF IndInv, StopInv, GetEmpty
<1> QED
  BY <1>1, <1>4, <1>5, <1>6 DEF IndInv

\* The drain takes one record at a time, and ends on an empty queue.
LEMMA DrainInv == ASSUME IndInv, Drain PROVE IndInv'
<1>0. "worker" \in Thread /\ "flusher" \in Thread \ {"worker"}
  BY DEF Thread
<1>1. batch["worker"] = {} /\ Cardinality(batch["worker"]) = 0 /\ stop
  BY FS_EmptySet DEF IndInv, BatchInv, StopInv, Drain
<1>2. CASE Take("worker") /\ Goto("worker", "drainFlush")
  <2>1. /\ q' \in Seq(Record) /\ Len(q') <= MaxSize /\ Range(q') \subseteq Range(q)
        /\ batch' \in [Thread -> SUBSET Record] /\ batch'["flusher"] = batch["flusher"]
        /\ Cardinality(batch'["worker"]) = Cardinality(batch["worker"]) + 1
        /\ PlaceInv' /\ CountInv'
    BY <1>0, <1>2, TakeMoves DEF Drain
  <2>2. /\ pc' \in [Thread -> ThreadPc] /\ pc'["worker"] = "drainFlush" /\ pc'["flusher"] = pc["flusher"]
    BY <1>0, <1>2, GotoType DEF ThreadPc
  <2>3. Cardinality(batch'["worker"]) <= BatchSize
    BY <1>1, <2>1, QueueBounds
  <2>4. TypeOK' /\ CallInv'
    BY <2>1, <2>2, <2>3 DEF IndInv, TypeOK, CallInv, Drain
  <2>5. BatchInv'
    BY <2>1, <2>2 DEF IndInv, BatchInv, Drain
  <2>6. StopInv'
    BY <1>1, <2>1, <2>2 DEF IndInv, StopInv, Drain
  <2> QED
    BY <2>1, <2>4, <2>5, <2>6 DEF IndInv
<1>3. CASE q = <<>> /\ Goto("worker", "idle") /\ UNCHANGED <<q, batch>>
  <2>1. PlaceInv' /\ CountInv'
    BY <1>3, Frame DEF Drain
  <2>2. /\ pc' \in [Thread -> ThreadPc] /\ pc'["worker"] = "idle" /\ pc'["flusher"] = pc["flusher"]
    BY <1>0, <1>3, GotoType DEF ThreadPc
  <2>3. TypeOK' /\ CallInv'
    BY <1>3, <2>2 DEF IndInv, TypeOK, CallInv, Drain
  <2>4. BatchInv'
    BY <1>1, <1>3, <2>2 DEF IndInv, BatchInv, Drain
  <2>5. Range(q') = {}
    BY <1>3 DEF Range
  <2>6. StopInv'
    BY <1>1, <1>3, <2>2, <2>5 DEF IndInv, StopInv, Drain
  <2> QED
    BY <2>1, <2>3, <2>4, <2>6 DEF IndInv
<1> QED
  BY <1>2, <1>3 DEF Drain

\* flush_now starts with an empty batch.
LEMMA FlushNowInv == ASSUME IndInv, FlushNow PROVE IndInv'
<1>1. PlaceInv' /\ CountInv'
  BY Frame DEF FlushNow
<1>2. /\ pc' \in [Thread -> ThreadPc] /\ pc'["flusher"] = "take" /\ pc'["worker"] = pc["worker"]
  BY GotoType DEF FlushNow, Thread, ThreadPc
<1>3. TypeOK' /\ CallInv'
  BY <1>2 DEF IndInv, TypeOK, CallInv, FlushNow
<1>4. BatchInv' /\ StopInv'
  BY <1>2 DEF IndInv, BatchInv, StopInv, FlushNow
<1> QED
  BY <1>1, <1>3, <1>4 DEF IndInv

\* flush_now takes records until the queue is empty.
LEMMA FlushNowTakeInv == ASSUME IndInv, FlushNowTake PROVE IndInv'
<1>0. "flusher" \in Thread /\ "worker" \in Thread \ {"flusher"}
  BY DEF Thread
<1>1. CASE Take("flusher") /\ UNCHANGED pc
  <2>1. /\ q' \in Seq(Record) /\ Len(q') <= MaxSize /\ Range(q') \subseteq Range(q)
        /\ batch' \in [Thread -> SUBSET Record] /\ batch'["worker"] = batch["worker"]
        /\ PlaceInv' /\ CountInv'
    BY <1>0, <1>1, TakeMoves DEF FlushNowTake
  <2>2. TypeOK' /\ CallInv'
    BY <1>1, <2>1 DEF IndInv, TypeOK, CallInv, FlushNowTake
  <2>3. BatchInv'
    BY <1>1, <2>1 DEF IndInv, BatchInv, FlushNowTake
  <2>4. StopInv'
    <3>1. q # <<>>
      BY <1>1 DEF Take
    <3> QED
      BY <1>1, <2>1, <3>1 DEF IndInv, StopInv, FlushNowTake
  <2> QED
    BY <2>1, <2>2, <2>3, <2>4 DEF IndInv
<1>2. CASE /\ q = <<>> /\ UNCHANGED <<q, batch>>
           /\ Goto("flusher", IF batch["flusher"] # {} THEN "takeFlush" ELSE "idle")
  <2>1. PlaceInv' /\ CountInv'
    BY <1>2, Frame DEF FlushNowTake
  <2>2. PICK l \in {"takeFlush", "idle"} : Goto("flusher", l) /\ (l = "idle" => batch["flusher"] = {})
    BY <1>2
  <2>3. /\ pc' \in [Thread -> ThreadPc] /\ pc'["flusher"] = l /\ pc'["worker"] = pc["worker"]
    BY <1>0, <2>2, GotoType DEF ThreadPc
  <2>4. TypeOK' /\ CallInv'
    BY <1>2, <2>3 DEF IndInv, TypeOK, CallInv, FlushNowTake
  <2>5. BatchInv' /\ StopInv'
    BY <1>2, <2>2, <2>3 DEF IndInv, BatchInv, StopInv, FlushNowTake
  <2> QED
    BY <2>1, <2>4, <2>5 DEF IndInv
<1> QED
  BY <1>1, <1>2 DEF FlushNowTake

\* Where a flush is made from.
LEMMA FlushPoints ==
    /\ DOMAIN AfterFlush = {"flush", "lastFlush", "drainFlush", "takeFlush"}
    /\ AfterFlush["flush"] = "loop" /\ AfterFlush["lastFlush"] = "drain"
    /\ AfterFlush["drainFlush"] = "drain" /\ AfterFlush["takeFlush"] = "idle"
  BY DEF AfterFlush

\* A batch is settled: every record of it is written or lost, and counted.
LEMMA FlushMoves ==
    ASSUME IndInv, NEW t \in Thread, Flush(t)
    PROVE  /\ pc[t] \in {"flush", "lastFlush", "drainFlush", "takeFlush"}
           /\ batch' \in [Thread -> SUBSET Record] /\ batch'[t] = {}
           /\ \A u \in Thread \ {t} : batch'[u] = batch[u]
           /\ written' \cup lost' = written \cup lost \cup batch[t]
           /\ batch[t] \subseteq accepted \ (direct \cup written \cup lost)
           /\ written \subseteq written' /\ PlaceInv' /\ CountInv'
           /\ processed' \in Nat
<1>1. /\ batch \in [Thread -> SUBSET Record] /\ batch' = [batch EXCEPT ![t] = {}]
      /\ processed' = processed + Cardinality(batch[t]) /\ processed \in Nat
      /\ UNCHANGED <<q, accepted, direct>>
  BY DEF IndInv, TypeOK, Flush, EmptyBatch, Counted
<1>2. PICK failed \in SUBSET batch[t] :
          written' = written \cup (batch[t] \ failed) /\ lost' = lost \cup failed
  BY DEF Flush
<1>3. t = "worker" \/ t = "flusher"
  BY DEF Thread
<1>4. /\ batch' \in [Thread -> SUBSET Record] /\ batch'[t] = {}
      /\ \A u \in Thread \ {t} : batch'[u] = batch[u]
  BY <1>1
<1>5. written' \cup lost' = written \cup lost \cup batch[t] /\ written \subseteq written'
  BY <1>2
<1>6. batch[t] \subseteq accepted \ (direct \cup written \cup lost)
  BY <1>3 DEF IndInv, PlaceInv
<1>7. IsFiniteSet(batch[t]) /\ Cardinality(batch[t]) \in Nat
  BY <1>3, FS_CardinalityType DEF IndInv, CountInv
<1>8. IsFiniteSet(batch'[t]) /\ Cardinality(batch'[t]) = 0
  BY <1>4, FS_EmptySet
<1>9. Cardinality(batch["worker"]) \in Nat /\ Cardinality(batch["flusher"]) \in Nat /\ Len(q) \in Nat
  BY FS_CardinalityType DEF IndInv, CountInv, TypeOK
<1>10. ASSUME t = "worker" PROVE PlaceInv' /\ CountInv'
  <2>1. batch'["worker"] = {} /\ batch'["flusher"] = batch["flusher"]
    BY <1>4, <1>10 DEF Thread
  <2>2. PlaceInv'
    BY <1>1, <1>5, <1>10, <2>1 DEF IndInv, PlaceInv
  <2>3. CountInv'
    BY <1>1, <1>7, <1>8, <1>9, <1>10, <2>1 DEF IndInv, CountInv
  <2> QED
    BY <2>2, <2>3
<1>11. ASSUME t = "flusher" PROVE PlaceInv' /\ CountInv'
  <2>1. batch'["flusher"] = {} /\ batch'["worker"] = batch["worker"]
    BY <1>4, <1>11 DEF Thread
  <2>2. PlaceInv'
    BY <1>1, <1>5, <1>11, <2>1 DEF IndInv, PlaceInv
  <2>3. CountInv'
    BY <1>1, <1>7, <1>8, <1>9, <1>11, <2>1 DEF IndInv, CountInv
  <2> QED
    BY <2>2, <2>3
<1>12. pc[t] \in {"flush", "lastFlush", "drainFlush", "takeFlush"}
  <2>1. pc[t] \in DOMAIN AfterFlush
    BY DEF Flush
  <2> QED
    BY <2>1, FlushPoints
<1>13. processed' \in Nat
  BY <1>1, <1>7
<1>14. PlaceInv' /\ CountInv'
  BY <1>3, <1>10, <1>11, Zenon
<1> QED
  BY <1>4, <1>5, <1>6, <1>12, <1>13, <1>14

\* After a flush a thread goes on with an empty batch.
LEMMA FlushInv == ASSUME IndInv, NEW t \in Thread, Flush(t) PROVE IndInv'
<1>1. /\ pc[t] \in {"flush", "lastFlush", "drainFlush", "takeFlush"}
      /\ batch' \in [Thread -> SUBSET Record] /\ batch'[t] = {}
      /\ \A u \in Thread \ {t} : batch'[u] = batch[u]
      /\ written' \cup lost' = written \cup lost \cup batch[t]
      /\ batch[t] \subseteq accepted \ (direct \cup written \cup lost)
      /\ written \subseteq written' /\ PlaceInv' /\ CountInv'
      /\ processed' \in Nat
  BY FlushMoves
<1>2. t = "worker" \/ t = "flusher"
  BY DEF Thread
<1>3. PICK l \in ThreadPc :
          /\ Goto(t, l)
          /\ pc[t] = "flush" => l = "loop"
          /\ pc[t] \in {"lastFlush", "drainFlush"} => l = "drain"
          /\ pc[t] = "takeFlush" => l = "idle"
  <2>1. Goto(t, AfterFlush[pc[t]])
    BY DEF Flush
  <2> QED
    BY <1>1, <2>1, FlushPoints DEF ThreadPc
<1>4. /\ pc' \in [Thread -> ThreadPc] /\ pc'[t] = l /\ \A u \in Thread \ {t} : pc'[u] = pc[u]
  BY <1>3, GotoType
<1>5. UNCHANGED <<queue, open, q, stop, closing, call, accepted, direct, early, timedOut>>
  BY DEF Flush
<1>6. CallInv'
  BY <1>1, <1>5 DEF IndInv, CallInv
<1>7. Cardinality(batch'[t]) = 0
  BY <1>1, FS_EmptySet
<1>8. CASE t = "worker"
  <2>1. batch'["worker"] = {} /\ batch'["flusher"] = batch["flusher"] /\ pc'["worker"] = l
        /\ pc'["flusher"] = pc["flusher"]
    BY <1>1, <1>4, <1>8 DEF Thread
  <2>2. TypeOK'
    <3>1. batch["worker"] \subseteq Record /\ batch["flusher"] \subseteq Record
      BY <1>1, <1>2 DEF IndInv, TypeOK, Thread
    <3>2. written' \subseteq Record /\ lost' \subseteq Record
      BY <1>1, <1>8, <3>1 DEF IndInv, TypeOK
    <3>3. Cardinality(batch'["worker"]) <= BatchSize
      BY <1>7, <1>8, QueueBounds
    <3> QED
      BY <1>1, <1>4, <1>5, <3>2, <3>3 DEF IndInv, TypeOK
  <2>3. BatchInv'
    BY <1>1, <1>3, <1>7, <1>8, <2>1, QueueBounds DEF IndInv, BatchInv
  <2>4. StopInv'
    BY <1>1, <1>3, <1>5, <1>8, <2>1 DEF IndInv, StopInv, BatchInv
  <2> QED
    BY <1>1, <1>6, <2>2, <2>3, <2>4 DEF IndInv
<1>9. CASE t = "flusher"
  <2>1. batch'["flusher"] = {} /\ batch'["worker"] = batch["worker"] /\ pc'["flusher"] = l
        /\ pc'["worker"] = pc["worker"]
    BY <1>1, <1>4, <1>9 DEF Thread
  <2>2. TypeOK'
    BY <1>1, <1>4, <1>5, <1>6, <2>1 DEF IndInv, TypeOK, CallInv
  <2>3. BatchInv'
    BY <1>1, <1>3, <1>9, <2>1 DEF IndInv, BatchInv
  <2>4. StopInv'
    BY <1>5, <2>1 DEF IndInv, StopInv
  <2> QED
    BY <1>1, <1>6, <2>2, <2>3, <2>4 DEF IndInv
<1> QED
  BY <1>2, <1>8, <1>9

-----------------------------------------------------------------------------
(* close. *)

\* close touches no record; a join without timeout has seen the worker end.
LEMMA CloseInv == ASSUME IndInv, Close \/ Joined \/ Release PROVE IndInv'
<1>1. UNCHANGED <<q, pc, batch, call, accepted, written, lost, processed, direct, early>>
  BY DEF Close, Joined, Release
<1>2. PlaceInv' /\ CountInv' /\ CallInv' /\ BatchInv'
  BY <1>1, Frame DEF IndInv, CallInv, BatchInv
<1>3. closing' \in ClosePc /\ queue' \in BOOLEAN /\ open' \in BOOLEAN /\ stop' \in BOOLEAN
      /\ timedOut' \in BOOLEAN
  BY DEF IndInv, TypeOK, Close, Joined, Release, ClosePc
<1>4. TypeOK'
  BY <1>1, <1>3 DEF IndInv, TypeOK
<1>6. CASE Joined
  <2>1. StopInv'
    BY <1>1, <1>6 DEF IndInv, StopInv, Joined
  <2> QED
    BY <1>2, <1>4, <2>1 DEF IndInv
<1>7. CASE Release
  <2>1. StopInv'
    BY <1>1, <1>7 DEF IndInv, StopInv, Release
  <2> QED
    BY <1>2, <1>4, <2>1 DEF IndInv
<1>8. CASE Close
  <2>1. StopInv'
    BY <1>1, <1>8 DEF IndInv, StopInv, Close
  <2> QED
    BY <1>2, <1>4, <2>1 DEF IndInv
<1> QED
  BY <1>6, <1>7, <1>8

-----------------------------------------------------------------------------
(* The theorems. *)

\* IndInv is inductive.
LEMMA NextInv == ASSUME IndInv, [Next]_vars PROVE IndInv'
<1>1. CASE Next
  BY <1>1, EnableInv, EnqueueInv, UpsertInv, UpsertRaisesInv, PutInv, LoopInv, GetInv,
     GetEmptyInv, DrainInv, FlushNowInv, FlushNowTakeInv, FlushInv, CloseInv DEF Next, Worker, Thread
<1>2. CASE UNCHANGED vars
  BY <1>2 DEF vars, IndInv, TypeOK, CallInv, PlaceInv, CountInv, BatchInv, StopInv
<1> QED
  BY <1>1, <1>2

\* IndInv holds in every behaviour.
LEMMA SpecInv == Spec => []IndInv
<1>1. Init => IndInv
  BY InitInv
<1>2. IndInv /\ [Next]_vars => IndInv'
  BY NextInv
<1> QED
  BY <1>1, <1>2, PTL DEF Spec

\* Every variable of the queue and of its callers keeps its type: the queue
\* never exceeds queue_maxsize, nor a batch of the worker batch_size.
THEOREM TypeCorrect == Spec => []TypeOK
<1>1. IndInv => TypeOK
  BY DEF IndInv
<1> QED
  BY <1>1, SpecInv, PTL

\* Whatever put, the worker and flush_now do at once, stats() adds up and no
\* record is lost sight of or held twice.
THEOREM RecordsAccounted == Spec => []Accounted
<1>1. IndInv => Accounted
  BY DEF IndInv, Accounted, PlaceInv, CountInv
<1> QED
  BY <1>1, SpecInv, PTL

\* A close() whose join did not time out has settled what was accepted before
\* it, but for what a flush_now holds.
THEOREM CloseDrains == Spec => []DrainedBeforeRelease
<1>1. IndInv => DrainedBeforeRelease
  <2> SUFFICES ASSUME IndInv, closing \in {"release", "closed"}, ~timedOut, NEW r \in early
               PROVE  r \in written \cup lost \cup batch["flusher"]
    BY DEF DrainedBeforeRelease
  <2>1. pc["worker"] = "idle" /\ batch["worker"] = {} /\ r \notin Range(q)
    BY DEF IndInv, StopInv, BatchInv
  <2>2. r \in accepted \ direct
    BY DEF IndInv, CallInv
  <2> QED
    BY <2>1, <2>2 DEF IndInv, PlaceInv
<1> QED
  BY <1>1, SpecInv, PTL

\* The queue with its threads implements WriteBuffer: a record is taken on at
\* most once, and what was taken on is written or lost, once, on the
\* synchronous path too, where a failed upsert still answers True.
THEOREM ImplementsBuffer == Spec => Promise
<1>1. Init => Buffer!Init
  BY DEF Init, Buffer!Init
<1>2. IndInv /\ [Next]_vars => [Buffer!Next]_(Buffer!buffer)
  <2> SUFFICES ASSUME IndInv, [Next]_vars PROVE [Buffer!Next]_(Buffer!buffer)
    OBVIOUS
  <2>1. ASSUME NEW r \in Record, Upsert(r) PROVE [Buffer!Next]_(Buffer!buffer)
    <3>1. r \notin accepted
      BY <2>1 DEF IndInv, CallInv, Upsert
    <3>2. Buffer!Direct(r)
      BY <2>1, <3>1 DEF Upsert, Buffer!Direct
    <3> QED
      BY <3>2 DEF Buffer!Next
  <2>2. ASSUME NEW r \in Record, Put(r) PROVE [Buffer!Next]_(Buffer!buffer)
    <3>1. r \notin accepted
      BY <2>2 DEF IndInv, CallInv, Put
    <3>2. CASE accepted' = accepted \cup {r}
      <4>1. Buffer!Accept(r)
        BY <2>2, <3>1, <3>2 DEF Put, Buffer!Accept
      <4> QED
        BY <4>1 DEF Buffer!Next
    <3>3. CASE accepted' = accepted
      BY <2>2, <3>3 DEF Put, Buffer!buffer
    <3> QED
      BY <2>2, <3>2, <3>3 DEF Put
  <2>3. ASSUME NEW t \in Thread, Flush(t) PROVE [Buffer!Next]_(Buffer!buffer)
    <3>1. PICK failed \in SUBSET batch[t] :
              /\ written' = written \cup (batch[t] \ failed)
              /\ lost' = lost \cup failed
      BY <2>3 DEF Flush
    <3>2. batch[t] \subseteq accepted \ (direct \cup written \cup lost) /\ batch[t] \subseteq Record
      BY <2>3, FlushMoves DEF IndInv, TypeOK
    <3>3. accepted' = accepted
      BY <2>3 DEF Flush
    <3>4. Buffer!Settle(batch[t] \ failed, failed)
      BY <3>1, <3>2, <3>3 DEF Buffer!Settle
    <3>5. batch[t] \ failed \in SUBSET Record /\ failed \in SUBSET Record
      BY <3>1, <3>2
    <3> QED
      BY <3>4, <3>5 DEF Buffer!Next
  <2>4. CASE UNCHANGED <<accepted, written, lost>>
    BY <2>4 DEF Buffer!buffer
  <2>5. CASE Enable \/ Close \/ Joined \/ Release \/ Loop \/ Get
             \/ (\E r \in Record : Enqueue(r) \/ UpsertRaises(r))
             \/ GetEmpty \/ Drain \/ FlushNow \/ FlushNowTake \/ UNCHANGED vars
    BY <2>4, <2>5 DEF Enable, Close, Joined, Release, Enqueue, UpsertRaises, Loop, Get, GetEmpty, Drain,
       FlushNow, FlushNowTake, vars
  <2> QED
    BY <2>1, <2>2, <2>3, <2>5 DEF Next, Worker, Thread
<1> QED
  BY <1>1, <1>2, SpecInv, PTL DEF Spec, Promise, Buffer!Spec
===============================================================================
