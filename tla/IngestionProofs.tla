-------------------------- MODULE IngestionProofs --------------------------
(***************************************************************************)
(* Machine-checked proofs about Ingestion, for every set of requests,      *)
(* providers and payloads, whatever the providers offer and whichever      *)
(* fail: the type invariant, StatusTruthful, ShownIsStored, ClosedIsQuiet. *)
(*                                                                         *)
(* IndInv ties together what is spread over the threads: the queues and    *)
(* the futures (LineInv, CallInv), the futures and the counters of the     *)
(* request that waits for them (HeardInv), what a provider has and what its*)
(* future returned (WholeInv), a request's rows, the caller's and the      *)
(* catalogue's (ResultInv), close() and the executor (CloseInv).           *)
(***************************************************************************)
EXTENDS Ingestion, FiniteSetTheorems, TLAPS

\* The request has submitted nothing yet.
Before(r) == pc[r] \in {"idle", "begin", "submit"}

\* A call in a queue is one of its lane, waits or was cancelled, and waits once.
LineAt(l) ==
    /\ \A i \in DOMAIN line[l] :
         /\ LaneOf(line[l][i][1]) = l /\ line[l][i][2] \in Asked(line[l][i][1])
         /\ call[line[l][i][1]][line[l][i][2]] \in {"queued", "cancelled"}
    /\ \A i, j \in DOMAIN line[l] : line[l][i] = line[l][j] => i = j
LineInv == \A l \in Lane : LineAt(l)

\* A call exists from the submission on, waits in its queue, and has rows when it is done.
InLine(r, p) == \E i \in DOMAIN line[LaneOf(r)] : line[LaneOf(r)][i] = <<r, p>>
CallAt(r, p) ==
    /\ call[r][p] = "queued" => InLine(r, p)
    /\ call[r][p] # None => p \in Asked(r)
    /\ Before(r) => call[r][p] = None
    /\ call[r][p] # "done" => out[r][p] = {}
    /\ p \in taken[r] => call[r][p] \in {"done", "raised"}
CallInv == \A r \in Request, p \in Provider : CallAt(r, p)

\* The providers a request heard fail.
Lost(r) == {p \in taken[r] : call[r][p] # "done"}
\* The providers whose rows it does not have.
Absent(r) == Asked(r) \ Delivered(r)

\* What the status is computed from.
HeardAt(r) ==
    /\ taken[r] \subseteq Asked(r)
    /\ Before(r) \/ pc[r] = "done" => taken[r] = {} /\ failed[r] = 0 /\ ~partial[r]
    /\ pc[r] \in {"cancel", "sink"} /\ kind[r] # "stream" => partial[r]
    /\ pc[r] \in {"wait", "give"} => ~partial[r]
    /\ kind[r] = "stream" => failed[r] = 0
    /\ ~partial[r] /\ kind[r] # "stream" => failed[r] = Cardinality(Lost(r))
    /\ failed[r] <= Cardinality(Absent(r))
    /\ verdict[r] = "complete" /\ pc[r] = "end" => taken[r] = Asked(r) /\ Lost(r) = {}
    /\ pc[r] \notin {"end", "done"} => verdict[r] = None
HeardInv == \A r \in Request : HeardAt(r)

\* Where the rows of a request are.
ResultAt(r) ==
    /\ \A p \in taken[r] : out[r][p] \subseteq got[r]
    /\ Before(r) => got[r] = {} /\ shown[r] = {}
    /\ pc[r] = "end" /\ verdict[r] = "refused" => got[r] = {}
    /\ pc[r] # "done" => shown[r] \subseteq got[r]
    /\ pc[r] = "give" \/ verdict[r] = "left" => kind[r] = "stream"
    /\ r \notin unlucky /\ verdict[r] # "left" =>
         /\ pc[r] = "end" => got[r] \subseteq stored
         /\ pc[r] = "done" => shown[r] \subseteq stored
ResultInv == \A r \in Request : ResultAt(r)

\* A future that the deadline did not stop has all that the provider has.
WholeAt(r, p) ==
    call[r][p] = "done" /\ pc[r] # "done" => out[r][p] = Whole(r, p) \/ <<r, p>> \in cut
WholeInv == \A r \in Request, p \in Provider : WholeAt(r, p)

\* close() came back when the main queue was empty, and nothing is submitted then.
CloseInv == shut = "closed" => line["main"] = <<>> /\ Busy("main") = {}

IndInv == TypeOK /\ LineInv /\ CallInv /\ HeardInv /\ WholeInv /\ ResultInv /\ CloseInv

-----------------------------------------------------------------------------
(* The queues. *)

\* Requests ask finitely many providers, and both queues exist.
LEMMA AskedFinite ==
    \A r \in Request : Asked(r) \subseteq Provider /\ IsFiniteSet(Asked(r)) /\ LaneOf(r) \in Lane
BY IngestionConstants, FS_Subset DEF Asked, LaneOf, Lane

\* Order lists the providers a request asks, each of them once.
LEMMA OrderLists ==
    ASSUME NEW r \in Request
    PROVE  /\ Order(r) \in Seq(Asked(r))
           /\ \A i, j \in 1..Len(Order(r)) : Order(r)[i] = Order(r)[j] => i = j
           /\ \A p \in Asked(r) : \E i \in 1..Len(Order(r)) : Order(r)[i] = p
<1> DEFINE S == Asked(r)
<1> DEFINE n == Cardinality(S)
<1>1. IsFiniteSet(S)
  BY AskedFinite
<1>2. n \in Nat /\ ExistsBijection(1..n, S)
  BY <1>1, FS_CardinalityType
<1>3. \E f \in [1..n -> S] : IsInjective(f)
  BY <1>2 DEF ExistsBijection, Bijection, Injection, IsInjective
<1>4. Order(r) \in [1..n -> S] /\ IsInjective(Order(r))
  BY <1>3 DEF Order, SetToSeq
<1>5. Cardinality(1..n) = n /\ IsFiniteSet(1..n)
  BY <1>2, FS_Interval
<1>6. Order(r) \in Injection(1..n, S)
  BY <1>4 DEF Injection, IsInjective
<1>7. Order(r) \in Surjection(1..n, S)
  BY <1>1, <1>5, <1>6, FS_Injection
<1>8. \A p \in S : \E i \in 1..n : Order(r)[i] = p
  BY <1>7 DEF Surjection
<1>9. Order(r) \in Seq(S) /\ Len(Order(r)) = n
  BY <1>2, <1>4
<1> QED
  BY <1>2, <1>4, <1>8, <1>9 DEF IsInjective

\* What a submission puts into a queue: one call for each provider it asks.
LEMMA CallsList ==
    ASSUME NEW r \in Request
    PROVE  /\ Calls(r) \in Seq(Request \X Provider)
           /\ \A i \in DOMAIN Calls(r) : \E p \in Asked(r) : Calls(r)[i] = <<r, p>>
           /\ \A i, j \in DOMAIN Calls(r) : Calls(r)[i] = Calls(r)[j] => i = j
           /\ \A p \in Asked(r) : \E i \in DOMAIN Calls(r) : Calls(r)[i] = <<r, p>>
<1> DEFINE n == Len(Order(r))
<1>1. n \in Nat /\ \A i \in 1..n : Order(r)[i] \in Asked(r)
  BY OrderLists
<1>2. Calls(r) = [i \in 1..n |-> <<r, Order(r)[i]>>]
  BY DEF Calls
<1> HIDE DEF n
<1>3. Calls(r) \in [1..n -> Request \X Provider]
  BY <1>1, <1>2, AskedFinite
<1>4. Calls(r) \in Seq(Request \X Provider) /\ DOMAIN Calls(r) = 1..n
  BY <1>1, <1>3
<1>5. \A i, j \in 1..n : Calls(r)[i] = Calls(r)[j] => Order(r)[i] = Order(r)[j]
  BY <1>2
<1>6. \A i, j \in 1..n : Order(r)[i] = Order(r)[j] => i = j
  BY OrderLists DEF n
<1>7. \A p \in Asked(r) : \E i \in 1..n : Calls(r)[i] = <<r, p>>
  <2> TAKE p \in Asked(r)
  <2>1. PICK i \in 1..n : Order(r)[i] = p
    BY OrderLists DEF n
  <2> QED
    BY <1>2, <2>1
<1>8. \A i \in 1..n : \E p \in Asked(r) : Calls(r)[i] = <<r, p>>
  BY <1>1, <1>2
<1> QED
  BY <1>4, <1>5, <1>6, <1>7, <1>8

\* A queue after a submission.
LEMMA Appended ==
    ASSUME NEW S, NEW a \in Seq(S), NEW b \in Seq(S)
    PROVE  /\ a \o b \in Seq(S)
           /\ DOMAIN a = 1..Len(a) /\ DOMAIN b = 1..Len(b) /\ Len(a) \in Nat /\ Len(b) \in Nat
           /\ DOMAIN (a \o b) = 1..(Len(a) + Len(b))
           /\ \A i \in DOMAIN a : (a \o b)[i] = a[i]
           /\ \A i \in DOMAIN b : (a \o b)[Len(a) + i] = b[i]
           /\ \A i \in DOMAIN (a \o b) \ DOMAIN a :
                i - Len(a) \in DOMAIN b /\ (a \o b)[i] = b[i - Len(a)]
OBVIOUS

\* A queue after its first call was picked.
LEMMA Rest ==
    ASSUME NEW S, NEW a \in Seq(S), a # <<>>
    PROVE  /\ Tail(a) \in Seq(S) /\ Head(a) = a[1] /\ a[1] \in S /\ 1 \in DOMAIN a
           /\ DOMAIN a = 1..Len(a) /\ Len(a) \in Nat /\ DOMAIN Tail(a) = 1..(Len(a) - 1)
           /\ \A i \in DOMAIN Tail(a) : i + 1 \in DOMAIN a /\ Tail(a)[i] = a[i + 1]
           /\ \A i \in DOMAIN a : i # 1 => i - 1 \in DOMAIN Tail(a) /\ Tail(a)[i - 1] = a[i]
OBVIOUS

\* Where a call that is appended stands.
LEMMA AppendedAt ==
    ASSUME NEW S, NEW a \in Seq(S), NEW b \in Seq(S), NEW i \in DOMAIN b
    PROVE  Len(a) + i \in DOMAIN (a \o b) /\ (a \o b)[Len(a) + i] = b[i]
OBVIOUS

\* A call that is not the first moves up by one.
LEMMA RestBack ==
    ASSUME NEW S, NEW a \in Seq(S), a # <<>>, NEW i \in DOMAIN a, i # 1
    PROVE  i - 1 \in DOMAIN Tail(a) /\ Tail(a)[i - 1] = a[i]
OBVIOUS

\* The call a worker picks up.
PickedCall(l, r, p) ==
    /\ LaneOf(r) = l /\ p \in Asked(r) /\ call[r][p] \in {"queued", "cancelled"}
    /\ line[l] # <<>> /\ line[l][1] = <<r, p>> /\ line' = [line EXCEPT ![l] = Tail(line[l])]
    /\ call' = [call EXCEPT ![r][p] = PickedUp(r, p)]

\* The call a worker picks up is the first of the queue, and waits or was cancelled.
LEMMA PickIsFirst ==
    ASSUME IndInv, NEW l \in Lane, Pick(l)
    PROVE  \E r \in Request, p \in Provider : PickedCall(l, r, p)
<1>1. line[l] \in Seq(Request \X Provider) /\ line[l] # <<>>
  BY DEF IndInv, TypeOK, Pick
<1>2. /\ Head(line[l]) = line[l][1] /\ line[l][1] \in Request \X Provider
      /\ 1 \in DOMAIN line[l]
  BY <1>1, Rest
<1>3. PICK r \in Request, p \in Provider : line[l][1] = <<r, p>>
  BY <1>2
<1>4. LaneOf(r) = l /\ p \in Asked(r) /\ call[r][p] \in {"queued", "cancelled"}
  BY <1>2, <1>3 DEF IndInv, LineInv, LineAt
<1>5. /\ line' = [line EXCEPT ![l] = Tail(line[l])]
      /\ call' = [call EXCEPT ![r][p] = PickedUp(r, p)]
  <2>1. Head(line[l])[1] = r /\ Head(line[l])[2] = p
    BY <1>2, <1>3
  <2> QED
    BY <2>1 DEF Pick
<1> QED
  BY <1>1, <1>3, <1>4, <1>5 DEF PickedCall

-----------------------------------------------------------------------------
(* What the counts are about. *)

\* A request loses some of the providers whose rows it does not have.
LEMMA Sizes ==
    ASSUME IndInv
    PROVE  \A r \in Request :
             /\ Lost(r) \subseteq Absent(r) /\ IsFiniteSet(Lost(r)) /\ IsFiniteSet(Absent(r))
             /\ Cardinality(Lost(r)) \in Nat /\ Cardinality(Absent(r)) \in Nat
             /\ taken[r] = {} => Cardinality(Lost(r)) = 0
<1> TAKE r \in Request
<1>1. Lost(r) \subseteq Absent(r) /\ Absent(r) \subseteq Asked(r)
  BY DEF IndInv, HeardInv, HeardAt, Lost, Absent, Delivered
<1>2. IsFiniteSet(Absent(r)) /\ IsFiniteSet(Lost(r))
  BY <1>1, AskedFinite, FS_Subset
<1>3. taken[r] = {} => Lost(r) = {}
  BY DEF Lost
<1> QED
  BY <1>1, <1>2, <1>3, FS_CardinalityType, FS_EmptySet

\* They stay the same while what was heard of the providers does.
LEMMA SetsFrame ==
    ASSUME NEW r \in Request, taken'[r] = taken[r],
           \A p \in taken[r] : call'[r][p] = "done" <=> call[r][p] = "done"
    PROVE  Lost(r)' = Lost(r) /\ Delivered(r)' = Delivered(r) /\ Absent(r)' = Absent(r)
BY DEF Lost, Delivered, Absent, Asked

\* A step other than Take and End does not touch what was heard.
HeardKept == UNCHANGED taken /\ \A r \in Request : Lost(r)' = Lost(r) /\ Absent(r)' = Absent(r)

\* Only calls that nobody has heard of change.
LEMMA NewsUnheard ==
    ASSUME UNCHANGED taken,
           \A r \in Request : \A p \in taken[r] : call'[r][p] = call[r][p]
    PROVE  HeardKept
BY SetsFrame DEF HeardKept

\* A step that changes one call leaves the other entries of the queues as they are.
LEMMA OtherCalls ==
    ASSUME NEW r, NEW p,
           \A s \in Request, q \in Provider : <<s, q>> # <<r, p>> => call'[s][q] = call[s][q]
    PROVE  \A c \in Request \X Provider : c # <<r, p>> => call'[c[1]][c[2]] = call[c[1]][c[2]]
<1> TAKE c \in Request \X Provider
<1>1. PICK s \in Request, q \in Provider : c = <<s, q>>
  OBVIOUS
<1> QED
  BY <1>1

\* Only Take and End change what a request has heard.
LEMMA HeardFrame ==
    ASSUME IndInv, [Next]_vars, \A r \in Request : (\A p \in Provider : ~Take(r, p)) /\ ~End(r)
    PROVE  HeardKept
<1>1. ASSUME NEW r \in Request, NEW k \in Kinds, Ask(r, k) PROVE HeardKept
  BY <1>1, NewsUnheard DEF Ask, poolVars
<1>2. ASSUME NEW r \in Request, AskSchedule(r) PROVE HeardKept
  BY <1>2, NewsUnheard DEF AskSchedule, poolVars
<1>3. ASSUME NEW r \in Request, Lighten(r) PROVE HeardKept
  BY <1>3, NewsUnheard DEF Lighten, poolVars
<1>4. ASSUME NEW r \in Request, Submit(r) PROVE HeardKept
  <2>1. taken[r] = {} /\ UNCHANGED taken
    BY <1>4 DEF Submit, Admit, IndInv, HeardInv, HeardAt, Before
  <2>2. \A s \in Request : s # r => call'[s] = call[s]
    BY <1>4 DEF Submit, Admit, IndInv, TypeOK
  <2> QED
    BY <2>1, <2>2, NewsUnheard
<1>5. ASSUME NEW r \in Request, GiveUp(r) PROVE HeardKept
  BY <1>5, NewsUnheard DEF GiveUp, poolVars
<1>6. ASSUME NEW r \in Request, CancelPending(r) PROVE HeardKept
  <2>1. /\ call' = [call EXCEPT ![r] = [p \in Provider |->
                      IF call[r][p] = "queued" THEN "cancelled" ELSE call[r][p]]]
        /\ UNCHANGED taken
    BY <1>6 DEF CancelPending
  <2>2. \A p \in taken[r] : p \in Provider /\ call[r][p] # "queued"
    BY DEF IndInv, TypeOK, CallInv, CallAt
  <2>3. \A p \in taken[r] : call'[r][p] = call[r][p]
    BY <2>1, <2>2 DEF IndInv, TypeOK
  <2>4. \A s \in Request : s # r => call'[s] = call[s]
    BY <2>1 DEF IndInv, TypeOK
  <2> QED
    BY <2>1, <2>3, <2>4, NewsUnheard
<1>7. ASSUME NEW r \in Request, Sink(r) PROVE HeardKept
  BY <1>7, NewsUnheard DEF Sink, poolVars
<1>8. ASSUME NEW r \in Request, Deadline(r) PROVE HeardKept
  BY <1>8, NewsUnheard DEF Deadline, poolVars, requestVars
<1>9. ASSUME NEW r \in Request, Pull(r) PROVE HeardKept
  BY <1>9, NewsUnheard DEF Pull, poolVars
<1>10. ASSUME NEW r \in Request, Abandon(r) PROVE HeardKept
  BY <1>10, NewsUnheard DEF Abandon, poolVars
<1>11. ASSUME NEW r \in Request, NEW p \in Provider, Answer(r, p) PROVE HeardKept
  <2>1. p \notin taken[r] /\ UNCHANGED taken
    BY <1>11 DEF Answer, requestVars, IndInv, CallInv, CallAt
  <2>2. \E c : call' = [call EXCEPT ![r][p] = c]
    BY <1>11 DEF Answer
  <2>3. \A s \in Request, q \in Provider : <<s, q>> # <<r, p>> => call'[s][q] = call[s][q]
    BY <2>2 DEF IndInv, TypeOK
  <2>4. \A s \in Request : taken[s] \subseteq Provider
    BY DEF IndInv, TypeOK
  <2> QED
    BY <2>1, <2>3, <2>4, NewsUnheard
<1>12. ASSUME NEW l \in Lane, Pick(l) PROVE HeardKept
  <2>1. PICK r \in Request, p \in Provider : PickedCall(l, r, p)
    BY <1>12, PickIsFirst
  <2>2. p \notin taken[r]
    BY <2>1 DEF PickedCall, IndInv, CallInv, CallAt
  <2>3. \A s \in Request, q \in Provider : <<s, q>> # <<r, p>> => call'[s][q] = call[s][q]
    BY <2>1 DEF PickedCall, IndInv, TypeOK
  <2>4. UNCHANGED taken /\ \A s \in Request : taken[s] \subseteq Provider
    BY <1>12 DEF Pick, requestVars, IndInv, TypeOK
  <2> QED
    BY <2>2, <2>3, <2>4, NewsUnheard
<1>13. CASE Close
  BY <1>13, NewsUnheard DEF Close, poolVars, requestVars
<1>14. CASE CloseBackground
  BY <1>14, NewsUnheard DEF CloseBackground, poolVars, requestVars
<1>15. CASE CloseMain
  BY <1>15, NewsUnheard DEF CloseMain, poolVars, requestVars
<1>16. CASE UNCHANGED vars
  BY <1>16, NewsUnheard DEF vars, poolVars, requestVars
<1> QED
  BY <1>1, <1>2, <1>3, <1>4, <1>5, <1>6, <1>7, <1>8, <1>9, <1>10, <1>11, <1>12, <1>13, <1>14,
     <1>15, <1>16 DEF Next, RequestStep

-----------------------------------------------------------------------------
(* Every step keeps the invariant. *)

\* A call exists once it is submitted, waits in its queue, has rows when it is done.
LEMMA CallStep == IndInv /\ [Next]_vars => CallInv'
<1> SUFFICES ASSUME IndInv, [Next]_vars PROVE CallInv'
  OBVIOUS
<1> USE IngestionConstants DEF IndInv, None, CallState
<1>1. ASSUME NEW r \in Request, NEW k \in Kinds, Ask(r, k) PROVE CallInv'
  <2>1. line' = line
    BY <1>1 DEF Ask, poolVars
  <2>2. \A s \in Request, q \in Provider : InLine(s, q)' <=> InLine(s, q)
    BY <2>1 DEF InLine, LaneOf
  <2> HIDE DEF LineInv
  <2> QED
    BY <1>1, <2>2 DEF Ask, closeVars, poolVars, Refuse, Goto, TypeOK, CallInv, CallAt,
        Before
<1>2. ASSUME NEW r \in Request, AskSchedule(r) PROVE CallInv'
  <2>1. line' = line
    BY <1>2 DEF AskSchedule, poolVars
  <2>2. \A s \in Request, q \in Provider : InLine(s, q)' <=> InLine(s, q)
    BY <2>1 DEF InLine, LaneOf
  <2> HIDE DEF LineInv
  <2> QED
    BY <1>2, <2>2 DEF AskSchedule, closeVars, poolVars, Refuse, Goto, TypeOK, CallInv,
        CallAt, Before
<1>3. ASSUME NEW r \in Request, Lighten(r) PROVE CallInv'
  <2>1. line' = line
    BY <1>3 DEF Lighten, poolVars
  <2>2. \A s \in Request, q \in Provider : InLine(s, q)' <=> InLine(s, q)
    BY <2>1 DEF InLine, LaneOf
  <2> HIDE DEF LineInv
  <2> QED
    BY <1>3, <2>2 DEF Lighten, poolVars, Goto, TypeOK, CallInv, CallAt, Before
<1>4. ASSUME NEW r \in Request, Submit(r) PROVE CallInv'
  <2>1. CASE Admit(r)
    <3> DEFINE l == LaneOf(r)
    <3>1. l \in Lane /\ line[l] \in Seq(Request \X Provider) /\ Calls(r) \in Seq(Request \X Provider)
      BY CallsList, AskedFinite DEF TypeOK
    <3>2. line' = [line EXCEPT ![l] = line[l] \o Calls(r)] /\ line \in [Lane -> Seq(Request \X Provider)]
      BY <1>4, <2>1 DEF Submit, Admit, TypeOK
    <3>3. \A s \in Request, q \in Provider : InLine(s, q) => InLine(s, q)'
      <4>1. \A i \in DOMAIN line[l] : i \in DOMAIN line'[l] /\ line'[l][i] = line[l][i]
        BY <3>1, <3>2, Appended
      <4>2. \A m \in Lane : m # l => line'[m] = line[m]
        BY <3>2
      <4> HIDE DEF l
      <4>3. \A m \in Lane : \A i \in DOMAIN line[m] : i \in DOMAIN line'[m] /\ line'[m][i] = line[m][i]
        BY <4>1, <4>2
      <4>4. ASSUME NEW s \in Request, NEW q \in Provider, InLine(s, q) PROVE InLine(s, q)'
        <5>1. LaneOf(s) \in Lane /\ LaneOf(s)' = LaneOf(s)
          BY AskedFinite DEF LaneOf
        <5> QED
          BY <4>3, <4>4, <5>1 DEF InLine
      <4> QED
        BY <4>4
    <3>4. \A q \in Asked(r) : InLine(r, q)'
      <4> TAKE q \in Asked(r)
      <4>1. PICK i \in DOMAIN Calls(r) : Calls(r)[i] = <<r, q>>
        BY CallsList
      <4>2. Len(line[l]) + i \in DOMAIN line'[l] /\ line'[l][Len(line[l]) + i] = <<r, q>>
        <5>1. line'[l] = line[l] \o Calls(r)
          BY <3>1, <3>2
        <5>2. line[l] \in Seq(Request \X Provider) /\ Calls(r) \in Seq(Request \X Provider)
          BY <3>1
        <5>3. i \in DOMAIN Calls(r) /\ Calls(r)[i] = <<r, q>>
          BY <4>1
        <5> HIDE DEF l
        <5>4. /\ Len(line[l]) + i \in DOMAIN (line[l] \o Calls(r))
              /\ (line[l] \o Calls(r))[Len(line[l]) + i] = Calls(r)[i]
          BY ONLY <5>2, <5>3, AppendedAt
        <5> QED
          BY ONLY <5>1, <5>3, <5>4
      <4> QED
        BY <4>2 DEF InLine, LaneOf
    <3> HIDE DEF l, LineInv
    <3> QED
      <4>1. /\ call' = [call EXCEPT ![r] = [p \in Provider |-> IF p \in Asked(r) THEN "queued" ELSE None]]
            /\ pc' = [pc EXCEPT ![r] = "wait"] /\ UNCHANGED <<taken, out>>
            /\ pc[r] = "submit"
        BY <1>4, <2>1 DEF Submit, Admit, closeVars, Goto
      <4>2. \A q \in Provider : out[r][q] = {} /\ q \notin taken[r]
        BY <4>1 DEF CallInv, CallAt, Before
      <4> QED
        BY <3>3, <3>4, <4>1, <4>2 DEF TypeOK, CallInv, CallAt, Before
  <2>2. CASE ~Admit(r)
    <3>1. \A s \in Request, q \in Provider : InLine(s, q)' <=> InLine(s, q)
      BY <1>4, <2>2 DEF Submit, Admit, InLine, LaneOf
    <3> HIDE DEF LineInv
    <3> QED
      BY <1>4, <2>2, <3>1 DEF Submit, Admit, closeVars, Goto, TypeOK, CallInv, CallAt, Before
  <2> QED
    BY <2>1, <2>2
<1>5. ASSUME NEW r \in Request, NEW p \in Provider, Take(r, p) PROVE CallInv'
  <2>1. line' = line
    BY <1>5 DEF Take, poolVars
  <2>2. \A s \in Request, q \in Provider : InLine(s, q)' <=> InLine(s, q)
    BY <2>1 DEF InLine, LaneOf
  <2> HIDE DEF LineInv
  <2> QED
    BY <1>5, <2>2 DEF Take, closeVars, poolVars, Finalized, Goto, Finished, FreshOf,
        TypeOK, CallInv, CallAt, Before
<1>6. ASSUME NEW r \in Request, GiveUp(r) PROVE CallInv'
  <2>1. line' = line
    BY <1>6 DEF GiveUp, poolVars
  <2>2. \A s \in Request, q \in Provider : InLine(s, q)' <=> InLine(s, q)
    BY <2>1 DEF InLine, LaneOf
  <2> HIDE DEF LineInv
  <2> QED
    BY <1>6, <2>2 DEF GiveUp, closeVars, poolVars, Goto, Missed, Finished, Asked, TimeUp,
        TypeOK, CallInv, CallAt, Before
<1>7. ASSUME NEW r \in Request, CancelPending(r) PROVE CallInv'
  <2>1. line' = line
    BY <1>7 DEF CancelPending, poolVars
  <2>2. \A s \in Request, q \in Provider : InLine(s, q)' <=> InLine(s, q)
    BY <2>1 DEF InLine, LaneOf
  <2> HIDE DEF LineInv
  <2> QED
    BY <1>7, <2>2 DEF CancelPending, closeVars, Goto, TypeOK, CallInv, CallAt, Before
<1>8. ASSUME NEW r \in Request, Sink(r) PROVE CallInv'
  <2>1. line' = line
    BY <1>8 DEF Sink, poolVars
  <2>2. \A s \in Request, q \in Provider : InLine(s, q)' <=> InLine(s, q)
    BY <2>1 DEF InLine, LaneOf
  <2> HIDE DEF LineInv
  <2> QED
    BY <1>8, <2>2 DEF Sink, closeVars, poolVars, Goto, Status, Asked, Collected, TypeOK,
        CallInv, CallAt, Before
<1>9. ASSUME NEW r \in Request, End(r) PROVE CallInv'
  <2>1. line' = line
    BY <1>9 DEF End, poolVars
  <2>2. \A s \in Request, q \in Provider : InLine(s, q)' <=> InLine(s, q)
    BY <2>1 DEF InLine, LaneOf
  <2> HIDE DEF LineInv
  <2> QED
    BY <1>9, <2>2 DEF End, closeVars, Goto, Finished, Finalized, TypeOK, CallInv, CallAt,
        Before
<1>10. ASSUME NEW r \in Request, Deadline(r) PROVE CallInv'
  <2>1. line' = line
    BY <1>10 DEF Deadline, poolVars
  <2>2. \A s \in Request, q \in Provider : InLine(s, q)' <=> InLine(s, q)
    BY <2>1 DEF InLine, LaneOf
  <2> HIDE DEF LineInv
  <2> QED
    BY <1>10, <2>2 DEF Deadline, closeVars, poolVars, requestVars, Asked, TypeOK, CallInv,
        CallAt, Before
<1>11. ASSUME NEW r \in Request, Pull(r) PROVE CallInv'
  <2>1. line' = line
    BY <1>11 DEF Pull, poolVars
  <2>2. \A s \in Request, q \in Provider : InLine(s, q)' <=> InLine(s, q)
    BY <2>1 DEF InLine, LaneOf
  <2> HIDE DEF LineInv
  <2> QED
    BY <1>11, <2>2 DEF Pull, closeVars, poolVars, Goto, TypeOK, CallInv, CallAt, Before
<1>12. ASSUME NEW r \in Request, Abandon(r) PROVE CallInv'
  <2>1. line' = line
    BY <1>12 DEF Abandon, poolVars
  <2>2. \A s \in Request, q \in Provider : InLine(s, q)' <=> InLine(s, q)
    BY <2>1 DEF InLine, LaneOf
  <2> HIDE DEF LineInv
  <2> QED
    BY <1>12, <2>2 DEF Abandon, closeVars, poolVars, Goto, TypeOK, CallInv, CallAt, Before
<1>13. ASSUME NEW r \in Request, NEW p \in Provider, Answer(r, p) PROVE CallInv'
  <2>1. UNCHANGED <<line, pc, taken>> /\ call[r][p] = "called" /\ r \in Request /\ p \in Provider
    BY <1>13 DEF Answer, requestVars
  <2>2. \A s \in Request, q \in Provider : InLine(s, q)' <=> InLine(s, q)
    BY <2>1 DEF InLine, LaneOf
  <2>3. p \notin taken[r] /\ p \in Asked(r) /\ ~Before(r) /\ out[r][p] = {}
    BY <2>1 DEF CallInv, CallAt
  <2>4. \/ call' = [call EXCEPT ![r][p] = "done"] /\ \E S : out' = [out EXCEPT ![r][p] = S]
        \/ call' = [call EXCEPT ![r][p] = "raised"] /\ out' = out
    BY <1>13 DEF Answer
  <2> HIDE DEF LineInv
  <2>5. CASE call' = [call EXCEPT ![r][p] = "done"] /\ \E S : out' = [out EXCEPT ![r][p] = S]
    BY <2>1, <2>2, <2>3, <2>5 DEF TypeOK, CallInv, CallAt, Before
  <2>6. CASE call' = [call EXCEPT ![r][p] = "raised"] /\ out' = out
    BY <2>1, <2>2, <2>3, <2>6 DEF TypeOK, CallInv, CallAt, Before
  <2> QED
    BY <2>4, <2>5, <2>6
<1>14. ASSUME NEW l \in Lane, Pick(l) PROVE CallInv'
  <2>1. PICK r \in Request, p \in Provider : PickedCall(l, r, p)
    BY <1>14, PickIsFirst
  <2>2. /\ line[l] \in Seq(Request \X Provider) /\ line[l] # <<>> /\ line[l][1] = <<r, p>>
        /\ line' = [line EXCEPT ![l] = Tail(line[l])]
    BY <2>1 DEF PickedCall, TypeOK
  <2>3. ASSUME NEW s \in Request, NEW q \in Provider, InLine(s, q), <<s, q>> # <<r, p>>
        PROVE  InLine(s, q)'
    <3>1. PICK i \in DOMAIN line[LaneOf(s)] : line[LaneOf(s)][i] = <<s, q>>
      BY <2>3 DEF InLine
    <3>2. CASE LaneOf(s) = l
      <4>1. i # 1 /\ i \in 1..Len(line[l])
        BY <2>2, <2>3, <3>1, <3>2, Rest
      <4>2. i - 1 \in DOMAIN Tail(line[l]) /\ Tail(line[l])[i - 1] = line[l][i]
        <5>1. line[l] \in Seq(Request \X Provider) /\ line[l] # <<>>
          BY <2>2
        <5>2. i \in DOMAIN line[l] /\ i # 1
          BY <4>1, <5>1, Rest
        <5> QED
          BY <5>1, <5>2, RestBack
      <4> QED
        BY <2>2, <3>1, <3>2, <4>2 DEF InLine, LaneOf, TypeOK
    <3>3. CASE LaneOf(s) # l
      BY <2>2, <3>1, <3>3, AskedFinite DEF InLine, LaneOf, TypeOK
    <3> QED
      BY <3>2, <3>3
  <2>4. call' = [call EXCEPT ![r][p] = PickedUp(r, p)] /\ p \in Asked(r)
    BY <2>1 DEF PickedCall
  <2>5. PickedUp(r, p) # "queued" /\ (p \in taken[r] => FALSE) /\ ~Before(r) /\ out[r][p] = {}
    BY <2>1 DEF PickedCall, PickedUp, CallInv, CallAt
  <2>6. UNCHANGED <<pc, taken, out>>
    BY <1>14 DEF Pick, requestVars
  <2> HIDE DEF LineInv
  <2> QED
    BY <2>3, <2>4, <2>5, <2>6 DEF TypeOK, CallInv, CallAt, Before
<1>15. ASSUME Close PROVE CallInv'
  <2>1. line' = line
    BY <1>15 DEF Close, poolVars
  <2>2. \A s \in Request, q \in Provider : InLine(s, q)' <=> InLine(s, q)
    BY <2>1 DEF InLine, LaneOf
  <2> HIDE DEF LineInv
  <2> QED
    BY <1>15, <2>2 DEF Close, poolVars, requestVars, TypeOK, CallInv, CallAt, Before
<1>16. ASSUME CloseBackground PROVE CallInv'
  <2>1. line' = line
    BY <1>16 DEF CloseBackground, poolVars
  <2>2. \A s \in Request, q \in Provider : InLine(s, q)' <=> InLine(s, q)
    BY <2>1 DEF InLine, LaneOf
  <2> HIDE DEF LineInv
  <2> QED
    BY <1>16, <2>2 DEF CloseBackground, poolVars, requestVars, Drained, Busy, LaneOf,
        TypeOK, CallInv, CallAt, Before
<1>17. ASSUME CloseMain PROVE CallInv'
  <2>1. line' = line
    BY <1>17 DEF CloseMain, poolVars
  <2>2. \A s \in Request, q \in Provider : InLine(s, q)' <=> InLine(s, q)
    BY <2>1 DEF InLine, LaneOf
  <2> HIDE DEF LineInv
  <2> QED
    BY <1>17, <2>2 DEF CloseMain, poolVars, requestVars, Drained, Busy, LaneOf, TypeOK,
        CallInv, CallAt, Before
<1>18. CASE UNCHANGED vars
  <2>1. \A s \in Request, q \in Provider : InLine(s, q)' <=> InLine(s, q)
    BY <1>18 DEF vars, poolVars, InLine, LaneOf
  <2> QED
    BY <1>18, <2>1 DEF vars, requestVars, poolVars, closeVars, TypeOK, CallInv, CallAt, Before
<1> QED
  BY <1>1, <1>2, <1>3, <1>4, <1>5, <1>6, <1>7, <1>8, <1>9, <1>10, <1>11, <1>12, <1>13,
      <1>14, <1>15, <1>16, <1>17, <1>18 DEF Next, RequestStep

\* What a provider has for a request is settled when the request is made.
LEMMA WholeFrame ==
    ASSUME NEW r \in Request, NEW p \in Provider, kind'[r] = kind[r]
    PROVE  Whole(r, p)' = Whole(r, p)
BY DEF Whole, PerProvider

\* A step that makes no call done, changes no rows, brings no request back.
LEMMA WholeKept ==
    ASSUME WholeInv, NEW s \in Request,
           kind'[s] = kind[s], pc[s] = "done" => pc'[s] = "done",
           \A q \in Provider :
             /\ call'[s][q] = "done" => call[s][q] = "done"
             /\ out'[s][q] = out[s][q] /\ (<<s, q>> \in cut => <<s, q>> \in cut')
    PROVE  \A q \in Provider : WholeAt(s, q)'
<1> TAKE q \in Provider
<1>1. Whole(s, q)' = Whole(s, q)
  BY WholeFrame
<1>2. WholeAt(s, q)
  BY DEF WholeInv
<1> QED
  BY <1>1, <1>2 DEF WholeAt

\* What a future has, and what the provider had, stay in step.
LEMMA WholeStep == IndInv /\ [Next]_vars => WholeInv'
<1> SUFFICES ASSUME IndInv, [Next]_vars PROVE WholeInv'
  OBVIOUS
<1> USE DEF IndInv
<1> HIDE DEF LineInv
<1>1. ASSUME NEW r \in Request, NEW k \in Kinds, Ask(r, k) PROVE WholeInv'
  <2>1. ASSUME NEW s \in Request, s # r PROVE \A q \in Provider : WholeAt(s, q)'
    <3>1. /\ kind'[s] = kind[s] /\ pc'[s] = pc[s]
          /\ UNCHANGED <<call, out, cut>>
      BY <1>1, <2>1 DEF Ask, Refuse, Goto, poolVars, TypeOK
    <3> QED
      BY <3>1, WholeKept
  <2>2. \A q \in Provider : call'[r][q] # "done"
    BY <1>1 DEF Ask, Refuse, Goto, poolVars, CallInv, CallAt, Before, None
  <2> QED
    BY <2>1, <2>2 DEF WholeInv, WholeAt
<1>2. ASSUME NEW r \in Request, AskSchedule(r) PROVE WholeInv'
  <2>1. ASSUME NEW s \in Request, s # r PROVE \A q \in Provider : WholeAt(s, q)'
    <3>1. /\ kind'[s] = kind[s] /\ pc'[s] = pc[s]
          /\ UNCHANGED <<call, out, cut>>
      BY <1>2, <2>1 DEF AskSchedule, Refuse, Goto, poolVars, TypeOK
    <3> QED
      BY <3>1, WholeKept
  <2>2. \A q \in Provider : call'[r][q] # "done"
    BY <1>2 DEF AskSchedule, Refuse, Goto, poolVars, CallInv, CallAt, Before, None
  <2> QED
    BY <2>1, <2>2 DEF WholeInv, WholeAt
<1>3. ASSUME NEW r \in Request, Lighten(r) PROVE WholeInv'
  <2>1. /\ UNCHANGED <<kind, call, out, cut>>
        /\ \A s \in Request : pc[s] = "done" => pc'[s] = "done"
    BY <1>3 DEF Lighten, Goto, poolVars, TypeOK
  <2>2. \A s \in Request : \A q \in Provider : WholeAt(s, q)'
    BY <2>1, WholeKept
  <2> QED
    BY <2>2 DEF WholeInv
<1>4. ASSUME NEW r \in Request, NEW p \in Provider, Take(r, p) PROVE WholeInv'
  <2>1. /\ UNCHANGED <<kind, call, out, cut>>
        /\ \A s \in Request : pc[s] = "done" => pc'[s] = "done"
    BY <1>4 DEF Take, Goto, poolVars, TypeOK
  <2>2. \A s \in Request : \A q \in Provider : WholeAt(s, q)'
    BY <2>1, WholeKept
  <2> QED
    BY <2>2 DEF WholeInv
<1>5. ASSUME NEW r \in Request, GiveUp(r) PROVE WholeInv'
  <2>1. /\ UNCHANGED <<kind, call, out, cut>>
        /\ \A s \in Request : pc[s] = "done" => pc'[s] = "done"
    BY <1>5 DEF GiveUp, Goto, poolVars, TypeOK
  <2>2. \A s \in Request : \A q \in Provider : WholeAt(s, q)'
    BY <2>1, WholeKept
  <2> QED
    BY <2>2 DEF WholeInv
<1>6. ASSUME NEW r \in Request, Sink(r) PROVE WholeInv'
  <2>1. /\ UNCHANGED <<kind, call, out, cut>>
        /\ \A s \in Request : pc[s] = "done" => pc'[s] = "done"
    BY <1>6 DEF Sink, Goto, poolVars, TypeOK
  <2>2. \A s \in Request : \A q \in Provider : WholeAt(s, q)'
    BY <2>1, WholeKept
  <2> QED
    BY <2>2 DEF WholeInv
<1>7. ASSUME NEW r \in Request, Deadline(r) PROVE WholeInv'
  <2>1. /\ UNCHANGED <<kind, call, out, cut>>
        /\ \A s \in Request : pc[s] = "done" => pc'[s] = "done"
    BY <1>7 DEF Deadline, requestVars, poolVars, TypeOK
  <2>2. \A s \in Request : \A q \in Provider : WholeAt(s, q)'
    BY <2>1, WholeKept
  <2> QED
    BY <2>2 DEF WholeInv
<1>8. ASSUME NEW r \in Request, Pull(r) PROVE WholeInv'
  <2>1. /\ UNCHANGED <<kind, call, out, cut>>
        /\ \A s \in Request : pc[s] = "done" => pc'[s] = "done"
    BY <1>8 DEF Pull, Goto, poolVars, TypeOK
  <2>2. \A s \in Request : \A q \in Provider : WholeAt(s, q)'
    BY <2>1, WholeKept
  <2> QED
    BY <2>2 DEF WholeInv
<1>9. ASSUME NEW r \in Request, Abandon(r) PROVE WholeInv'
  <2>1. /\ UNCHANGED <<kind, call, out, cut>>
        /\ \A s \in Request : pc[s] = "done" => pc'[s] = "done"
    BY <1>9 DEF Abandon, Goto, poolVars, TypeOK
  <2>2. \A s \in Request : \A q \in Provider : WholeAt(s, q)'
    BY <2>1, WholeKept
  <2> QED
    BY <2>2 DEF WholeInv
<1>10. ASSUME NEW r \in Request, Submit(r) PROVE WholeInv'
  <2>1. ASSUME NEW s \in Request PROVE \A q \in Provider : WholeAt(s, q)'
    <3>1. /\ UNCHANGED <<kind, out, cut>> /\ pc[r] = "submit"
          /\ \E to : pc' = [pc EXCEPT ![r] = to]
      BY <1>10 DEF Submit, Admit, Goto
    <3>2. pc[s] = "done" => pc'[s] = "done"
      BY <3>1 DEF TypeOK
    <3>3. \/ call' = [call EXCEPT ![r] = [q \in Provider |-> IF q \in Asked(r) THEN "queued" ELSE None]]
          \/ UNCHANGED call
      BY <1>10 DEF Submit, Admit
    <3>4. \A q \in Provider : call'[s][q] = "done" => call[s][q] = "done"
      <4>1. call \in [Request -> [Provider -> CallState]]
        BY DEF TypeOK
      <4>2. CASE UNCHANGED call
        BY <4>2
      <4>3. CASE s # r
        BY <3>3, <4>1, <4>3
      <4>4. CASE s = r /\ ~UNCHANGED call
        <5>1. call'[r] = [q \in Provider |-> IF q \in Asked(r) THEN "queued" ELSE None]
          BY <3>3, <4>1, <4>4
        <5> QED
          BY <4>4, <5>1 DEF None
      <4> QED
        BY <4>2, <4>3, <4>4
    <3> QED
      BY <3>1, <3>2, <3>4, WholeKept
  <2> QED
    BY <2>1 DEF WholeInv
<1>11. ASSUME NEW r \in Request, CancelPending(r) PROVE WholeInv'
  <2>1. ASSUME NEW s \in Request PROVE \A q \in Provider : WholeAt(s, q)'
    <3>1. /\ UNCHANGED <<kind, out, cut>>
          /\ pc[s] = "done" => pc'[s] = "done"
          /\ \A q \in Provider : call'[s][q] = "done" => call[s][q] = "done"
      BY <1>11 DEF CancelPending, Goto, TypeOK
    <3> QED
      BY <3>1, WholeKept
  <2> QED
    BY <2>1 DEF WholeInv
<1>12. ASSUME NEW r \in Request, End(r) PROVE WholeInv'
  <2>1. ASSUME NEW s \in Request, s # r PROVE \A q \in Provider : WholeAt(s, q)'
    <3>1. /\ kind' = kind /\ pc'[s] = pc[s] /\ call'[s] = call[s] /\ out'[s] = out[s]
          /\ \A q \in Provider : <<s, q>> \in cut => <<s, q>> \in cut'
      BY <1>12, <2>1 DEF End, Goto, TypeOK
    <3> QED
      BY <3>1, WholeKept
  <2>2. pc'[r] = "done"
    BY <1>12 DEF End, Goto, TypeOK
  <2> QED
    BY <2>1, <2>2 DEF WholeInv, WholeAt
<1>13. ASSUME NEW r \in Request, NEW p \in Provider, Answer(r, p) PROVE WholeInv'
  <2>1. UNCHANGED <<kind, pc>> /\ call \in [Request -> [Provider -> CallState]]
        /\ out \in [Request -> [Provider -> SUBSET Payload]]
    BY <1>13 DEF Answer, requestVars, TypeOK
  <2>2. CASE call' = [call EXCEPT ![r][p] = "raised"] /\ UNCHANGED <<out, cut>>
    <3>1. ASSUME NEW s \in Request PROVE \A q \in Provider : WholeAt(s, q)'
      <4>1. \A q \in Provider : call'[s][q] = "done" => call[s][q] = "done"
        BY <2>1, <2>2
      <4> QED
        BY <2>1, <2>2, <4>1, WholeKept
    <3> QED
      BY <3>1 DEF WholeInv
  <2>3. CASE call' = [call EXCEPT ![r][p] = "done"]
    <3> DEFINE rows == IF pc[r] = "done" THEN {} ELSE Kept(Offer[p], PerProvider(r))
    <3>1. PICK n : LET read == {i \in rows : i <= n} IN
            /\ out' = [out EXCEPT ![r][p] = {Offer[p][i] : i \in read}]
            /\ cut' = cut \cup (IF read = rows THEN {} ELSE {<<r, p>>})
      BY <1>13, <2>1, <2>3 DEF Answer
    <3> DEFINE read == {i \in rows : i <= n}
    <3>2. /\ out' = [out EXCEPT ![r][p] = {Offer[p][i] : i \in read}]
          /\ read = rows \/ <<r, p>> \in cut'
          /\ \A c \in cut : c \in cut'
      BY <3>1
    <3>3. pc[r] # "done" => rows = Kept(Offer[p], PerProvider(r))
      OBVIOUS
    <3> HIDE DEF rows, read
    <3>4. out'[r][p] = {Offer[p][i] : i \in read}
      BY <2>1, <3>2
    <3>5. pc[r] # "done" => out'[r][p] = Whole(r, p) \/ <<r, p>> \in cut'
      BY <3>2, <3>3, <3>4 DEF Whole
    <3>6. Whole(r, p)' = Whole(r, p)
      BY <2>1, WholeFrame
    <3>7. WholeAt(r, p)'
      BY <2>1, <3>5, <3>6 DEF WholeAt
    <3>8. ASSUME NEW s \in Request, NEW q \in Provider, <<s, q>> # <<r, p>> PROVE WholeAt(s, q)'
      <4>1. call'[s][q] = call[s][q] /\ out'[s][q] = out[s][q]
        BY <2>1, <2>3, <3>2, <3>8
      <4>2. Whole(s, q)' = Whole(s, q)
        BY <2>1, WholeFrame
      <4>3. WholeAt(s, q)
        BY DEF WholeInv
      <4> QED
        BY <2>1, <3>2, <4>1, <4>2, <4>3 DEF WholeAt
    <3> QED
      BY <3>7, <3>8 DEF WholeInv
  <2> QED
    BY <1>13, <2>2, <2>3 DEF Answer
<1>14. ASSUME NEW l \in Lane, Pick(l) PROVE WholeInv'
  <2>1. PICK r \in Request, p \in Provider : PickedCall(l, r, p)
    BY <1>14, PickIsFirst
  <2>2. /\ UNCHANGED <<kind, pc, out>> /\ call' = [call EXCEPT ![r][p] = PickedUp(r, p)]
        /\ call \in [Request -> [Provider -> CallState]]
    BY <1>14, <2>1 DEF Pick, PickedCall, requestVars, TypeOK
  <2>3. Head(line[l]) = <<r, p>>
    <3>1. line[l] \in Seq(Request \X Provider) /\ line[l] # <<>> /\ line[l][1] = <<r, p>>
      BY <2>1 DEF PickedCall, TypeOK
    <3> QED
      BY <3>1, Rest
  <2>4. cut' = cut \cup (IF PickedUp(r, p) = "done" THEN {<<r, p>>} ELSE {})
    BY <1>14, <2>3 DEF Pick
  <2>5. ASSUME NEW s \in Request, NEW q \in Provider PROVE WholeAt(s, q)'
    <3>1. CASE <<s, q>> = <<r, p>>
      BY <2>2, <2>4, <3>1 DEF WholeAt
    <3>2. CASE <<s, q>> # <<r, p>>
      <4>1. call'[s][q] = call[s][q]
        BY <2>2, <3>2
      <4>2. Whole(s, q)' = Whole(s, q) /\ WholeAt(s, q)
        BY <2>2, WholeFrame DEF WholeInv
      <4> QED
        BY <2>2, <2>4, <4>1, <4>2 DEF WholeAt
    <3> QED
      BY <3>1, <3>2
  <2> QED
    BY <2>5 DEF WholeInv
<1>15. ASSUME Close PROVE WholeInv'
  <2>1. UNCHANGED <<kind, pc, call, out, cut>>
    BY <1>15 DEF Close, requestVars, poolVars
  <2>2. \A s \in Request : \A q \in Provider : WholeAt(s, q)'
    BY <2>1, WholeKept
  <2> QED
    BY <2>2 DEF WholeInv
<1>16. ASSUME CloseBackground PROVE WholeInv'
  <2>1. UNCHANGED <<kind, pc, call, out, cut>>
    BY <1>16 DEF CloseBackground, requestVars, poolVars
  <2>2. \A s \in Request : \A q \in Provider : WholeAt(s, q)'
    BY <2>1, WholeKept
  <2> QED
    BY <2>2 DEF WholeInv
<1>17. ASSUME CloseMain PROVE WholeInv'
  <2>1. UNCHANGED <<kind, pc, call, out, cut>>
    BY <1>17 DEF CloseMain, requestVars, poolVars
  <2>2. \A s \in Request : \A q \in Provider : WholeAt(s, q)'
    BY <2>1, WholeKept
  <2> QED
    BY <2>2 DEF WholeInv
<1>18. ASSUME UNCHANGED vars PROVE WholeInv'
  <2>1. UNCHANGED <<kind, pc, call, out, cut>>
    BY <1>18 DEF vars, requestVars, poolVars
  <2>2. \A s \in Request : \A q \in Provider : WholeAt(s, q)'
    BY <2>1, WholeKept
  <2> QED
    BY <2>2 DEF WholeInv
<1> QED
  BY <1>1, <1>2, <1>3, <1>4, <1>5, <1>6, <1>7, <1>8, <1>9, <1>10, <1>11, <1>12, <1>13,
      <1>14, <1>15, <1>16, <1>17, <1>18 DEF Next, RequestStep

\* What the status is computed from stays true.
LEMMA HeardStep == IndInv /\ [Next]_vars => HeardInv'
<1> SUFFICES ASSUME IndInv, [Next]_vars PROVE HeardInv'
  OBVIOUS
<1> USE IngestionConstants DEF None
<1>1. ASSUME NEW r \in Request, NEW p \in Provider, Take(r, p) PROVE HeardInv'
  <2>1. /\ taken' = [taken EXCEPT ![r] = taken[r] \cup {p}] /\ call' = call
        /\ pc[r] = "wait" /\ p \in Provider \ taken[r] /\ call[r][p] \in {"done", "raised"}
        /\ kind' = kind /\ partial' = partial /\ verdict' = verdict
    BY <1>1 DEF Take, poolVars, Finished
  <2>2. ASSUME NEW s \in Request, s # r PROVE HeardAt(s)'
    <3>1. taken'[s] = taken[s] /\ call'[s] = call[s] /\ pc'[s] = pc[s] /\ failed'[s] = failed[s]
      BY <1>1, <2>1, <2>2 DEF Take, Goto, IndInv, TypeOK
    <3>2. Lost(s)' = Lost(s) /\ Absent(s)' = Absent(s)
      BY <3>1, SetsFrame
    <3> QED
      BY <2>1, <3>1, <3>2 DEF IndInv, HeardInv, HeardAt, Before, Asked
  <2>3. taken'[r] = taken[r] \cup {p} /\ p \in Asked(r) /\ taken'[r] \subseteq Asked(r)
    BY <2>1 DEF IndInv, TypeOK, CallInv, CallAt, HeardInv, HeardAt
  <2>4. pc'[r] \in {"wait", "give"} /\ ~partial[r] /\ verdict[r] = None
    <3>1. pc' = pc \/ pc' = [pc EXCEPT ![r] = "give"]
      BY <1>1 DEF Take, Goto
    <3> QED
      BY <2>1, <3>1 DEF IndInv, TypeOK, HeardInv, HeardAt
  <2>5. Lost(r)' = IF call[r][p] = "raised" THEN Lost(r) \cup {p} ELSE Lost(r)
    BY <2>1, <2>3 DEF Lost
  <2>6. p \notin Lost(r) /\ IsFiniteSet(Lost(r)) /\ Cardinality(Lost(r)) \in Nat
    BY <2>1, Sizes DEF Lost
  <2>7. Cardinality(Lost(r)') = Cardinality(Lost(r)) + IF call[r][p] = "raised" THEN 1 ELSE 0
    <3>1. CASE call[r][p] = "raised"
      BY <2>5, <2>6, <3>1, FS_AddElement
    <3>2. CASE call[r][p] # "raised"
      BY <2>5, <2>6, <3>2
    <3> QED
      BY <3>1, <3>2
  <2>8. kind[r] # "stream" => failed'[r] = Cardinality(Lost(r)')
    BY <1>1, <2>1, <2>4, <2>6, <2>7 DEF Take, IndInv, TypeOK, HeardInv, HeardAt
  <2>9. kind[r] = "stream" => failed'[r] = 0
    BY <1>1 DEF Take, IndInv, TypeOK, HeardInv, HeardAt
  <2>10. Lost(r)' \subseteq Absent(r)' /\ Absent(r)' \subseteq Asked(r)
    BY <2>1, <2>3 DEF Lost, Absent, Delivered, Asked
  <2>11. Cardinality(Lost(r)') <= Cardinality(Absent(r)') /\ Cardinality(Absent(r)') \in Nat
    BY <2>10, AskedFinite, FS_Subset, FS_CardinalityType
  <2>12. failed'[r] <= Cardinality(Absent(r)')
    BY <2>8, <2>9, <2>11
  <2>13. HeardAt(r)'
    BY <2>1, <2>3, <2>4, <2>8, <2>9, <2>12 DEF HeardAt, Before, Asked
  <2> QED
    BY <2>2, <2>13 DEF HeardInv
<1>2. ASSUME NEW r \in Request, End(r) PROVE HeardInv'
  <2>1. /\ taken' = [taken EXCEPT ![r] = {}] /\ failed' = [failed EXCEPT ![r] = 0]
        /\ partial' = [partial EXCEPT ![r] = FALSE] /\ pc' = [pc EXCEPT ![r] = "done"]
        /\ kind' = kind /\ verdict' = verdict
        /\ call' = [call EXCEPT ![r] = [p \in Provider |-> IF p \in Finished(r) THEN None ELSE call[r][p]]]
    BY <1>2 DEF End, Goto
  <2>2. ASSUME NEW s \in Request, s # r PROVE HeardAt(s)'
    <3>1. /\ taken'[s] = taken[s] /\ call'[s] = call[s] /\ pc'[s] = pc[s]
          /\ failed'[s] = failed[s] /\ partial'[s] = partial[s]
      BY <2>1, <2>2 DEF IndInv, TypeOK
    <3>2. Lost(s)' = Lost(s) /\ Absent(s)' = Absent(s)
      BY <3>1, SetsFrame
    <3> QED
      BY <2>1, <3>1, <3>2 DEF IndInv, HeardInv, HeardAt, Before, Asked
  <2>3. taken'[r] = {} /\ failed'[r] = 0 /\ partial'[r] = FALSE /\ pc'[r] = "done"
    BY <2>1 DEF IndInv, TypeOK
  <2>4. Lost(r)' = {} /\ Absent(r)' = Asked(r)
    BY <2>3 DEF Lost, Absent, Delivered, Asked
  <2>5. Cardinality(Lost(r)') = 0 /\ Cardinality(Absent(r)') \in Nat
    BY <2>4, AskedFinite, FS_EmptySet, FS_CardinalityType
  <2>6. HeardAt(r)'
    BY <2>3, <2>5 DEF HeardAt, Before
  <2> QED
    BY <2>2, <2>6 DEF HeardInv
<1>3. ASSUME NEW r \in Request, GiveUp(r), HeardKept PROVE HeardInv'
  <2>1. /\ pc[r] = "wait" /\ pc' = [pc EXCEPT ![r] = "cancel"]
        /\ failed' = [failed EXCEPT ![r] = failed[r] +
             IF kind[r] = "stream" THEN 0 ELSE Cardinality(Missed(r))]
        /\ partial' = [partial EXCEPT ![r] = kind[r] # "stream"]
        /\ UNCHANGED <<kind, taken, verdict>>
    BY <1>3 DEF GiveUp, Goto
  <2>2. ~partial[r] /\ verdict[r] = None
    BY <2>1 DEF IndInv, HeardInv, HeardAt
  <2>3. \A s \in Request : s # r => HeardAt(s)'
    BY <1>3, <2>1 DEF HeardKept, IndInv, TypeOK, HeardInv, HeardAt, Before, Asked
  <2>4. Lost(r) \cap Missed(r) = {} /\ Lost(r) \cup Missed(r) \subseteq Absent(r)
    BY Sizes DEF Lost, Missed, Finished, Absent, Delivered, IndInv, TypeOK, CallInv, CallAt
  <2>5. IsFiniteSet(Lost(r)) /\ IsFiniteSet(Missed(r)) /\ IsFiniteSet(Absent(r))
    BY Sizes, AskedFinite, FS_Subset DEF Missed
  <2>6. /\ Cardinality(Lost(r) \cup Missed(r)) = Cardinality(Lost(r)) + Cardinality(Missed(r))
        /\ Cardinality(Lost(r)) \in Nat /\ Cardinality(Missed(r)) \in Nat
        /\ Cardinality(Absent(r)) \in Nat
    <3>1. Cardinality(Lost(r) \cap Missed(r)) = 0
      BY <2>4, FS_EmptySet
    <3>2. /\ Cardinality(Lost(r)) \in Nat /\ Cardinality(Missed(r)) \in Nat
          /\ Cardinality(Absent(r)) \in Nat
      BY <2>5, FS_CardinalityType
    <3> QED
      <4>1. Cardinality(Lost(r) \cup Missed(r)) = Cardinality(Lost(r)) + Cardinality(Missed(r))
                                                  - Cardinality(Lost(r) \cap Missed(r))
        BY <2>5, FS_Union
      <4> QED
        BY <3>1, <3>2, <4>1
  <2>7. Cardinality(Lost(r)) + Cardinality(Missed(r)) <= Cardinality(Absent(r))
    BY <2>4, <2>5, <2>6, FS_Subset
  <2>8. /\ kind[r] # "stream" => failed[r] = Cardinality(Lost(r))
        /\ kind[r] = "stream" => failed[r] = 0
    BY <2>2 DEF IndInv, HeardInv, HeardAt
  <2>9. /\ failed'[r] = failed[r] + IF kind[r] = "stream" THEN 0 ELSE Cardinality(Missed(r))
        /\ partial'[r] = (kind[r] # "stream") /\ pc'[r] = "cancel"
    BY <2>1 DEF IndInv, TypeOK
  <2>10. failed'[r] <= Cardinality(Absent(r)) /\ (kind[r] = "stream" => failed'[r] = 0)
    BY <2>6, <2>7, <2>8, <2>9
  <2>11. taken'[r] \subseteq Asked(r)' /\ Absent(r)' = Absent(r)
    BY <1>3, <2>1 DEF HeardKept, IndInv, HeardInv, HeardAt, Asked
  <2>12. HeardAt(r)'
    BY <2>1, <2>2, <2>9, <2>10, <2>11 DEF HeardAt, Before
  <2> QED
    BY <2>3, <2>12 DEF HeardInv
<1>4. ASSUME NEW r \in Request, Sink(r), HeardKept PROVE HeardInv'
  <2>1. /\ pc' = [pc EXCEPT ![r] = "end"] /\ UNCHANGED <<kind, taken, failed, partial>>
        /\ verdict' = [verdict EXCEPT ![r] = IF kind[r] = "stream" THEN "streamed" ELSE Status(r)]
        /\ pc[r] = "sink" \/ (pc[r] = "wait" /\ taken[r] = Asked(r))
    BY <1>4 DEF Sink, Goto
  <2>2. \A s \in Request : s # r => HeardAt(s)'
    BY <1>4, <2>1 DEF HeardKept, IndInv, TypeOK, HeardInv, HeardAt, Before, Asked
  <2>3. pc'[r] = "end" /\ verdict'[r] = IF kind[r] = "stream" THEN "streamed" ELSE Status(r)
    BY <2>1 DEF IndInv, TypeOK
  <2>4. ASSUME verdict'[r] = "complete" PROVE taken[r] = Asked(r) /\ Lost(r) = {}
    <3>1. kind[r] # "stream" /\ ~partial[r] /\ ~(failed[r] > 0)
      BY <2>3, <2>4 DEF Status
    <3>2. taken[r] = Asked(r) /\ failed[r] = Cardinality(Lost(r))
      BY <2>1, <3>1 DEF IndInv, HeardInv, HeardAt
    <3> QED
      BY <3>1, <3>2, Sizes, FS_EmptySet
  <2>5. HeardAt(r)
    BY DEF IndInv, HeardInv
  <2>6. taken[r] \subseteq Asked(r) /\ Asked(r)' = Asked(r)
    BY <2>5 DEF HeardAt, Asked
  <2>7. HeardAt(r)'
    BY <1>4, <2>1, <2>3, <2>4, <2>5, <2>6 DEF HeardKept, HeardAt, Before
  <2> QED
    BY <2>2, <2>7 DEF HeardInv
<1>5. ASSUME NEW r \in Request, NEW k \in Kinds, Ask(r, k), HeardKept PROVE HeardInv'
  BY <1>5, Sizes DEF Ask, Refuse, Goto, HeardKept, IndInv, TypeOK, HeardInv, HeardAt,
      Before, Asked
<1>6. ASSUME NEW r \in Request, AskSchedule(r), HeardKept PROVE HeardInv'
  BY <1>6, Sizes DEF AskSchedule, Refuse, Goto, HeardKept, IndInv, TypeOK, HeardInv,
      HeardAt, Before, Asked
<1>7. ASSUME NEW r \in Request, Lighten(r), HeardKept PROVE HeardInv'
  BY <1>7, Sizes DEF Lighten, Goto, HeardKept, IndInv, TypeOK, HeardInv, HeardAt, Before,
      Asked
<1>8. ASSUME NEW r \in Request, Submit(r), HeardKept PROVE HeardInv'
  <2>1. /\ pc[r] = "submit" /\ UNCHANGED <<kind, taken, failed, partial>>
        /\ \/ pc' = [pc EXCEPT ![r] = "wait"] /\ verdict' = verdict
           \/ pc' = [pc EXCEPT ![r] = "end"] /\ verdict' = [verdict EXCEPT ![r] = "refused"]
    BY <1>8 DEF Submit, Admit, Goto
  <2>2. \A s \in Request : s # r => HeardAt(s)'
    BY <1>8, <2>1 DEF HeardKept, IndInv, TypeOK, HeardInv, HeardAt, Before, Asked
  <2>3. taken[r] = {} /\ failed[r] = 0 /\ ~partial[r] /\ verdict[r] = None
    BY <2>1 DEF IndInv, HeardInv, HeardAt, Before
  <2>4. /\ pc'[r] \in {"wait", "end"} /\ (verdict'[r] # None => pc'[r] = "end")
        /\ verdict'[r] # "complete"
    BY <2>1, <2>3 DEF IndInv, TypeOK
  <2>5. Lost(r)' = Lost(r) /\ Absent(r)' = Absent(r)
    BY <1>8 DEF HeardKept
  <2>6. HeardAt(r)'
    BY <2>1, <2>3, <2>4, <2>5, Sizes DEF HeardAt, Before
  <2> QED
    BY <2>2, <2>6 DEF HeardInv
<1>9. ASSUME NEW r \in Request, CancelPending(r), HeardKept PROVE HeardInv'
  BY <1>9, Sizes DEF CancelPending, Goto, HeardKept, IndInv, TypeOK, HeardInv, HeardAt,
      Before, Asked
<1>10. ASSUME NEW r \in Request, Deadline(r), HeardKept PROVE HeardInv'
  BY <1>10, Sizes DEF Deadline, requestVars, HeardKept, IndInv, TypeOK, HeardInv, HeardAt,
      Before, Asked
<1>11. ASSUME NEW r \in Request, Pull(r), HeardKept PROVE HeardInv'
  BY <1>11, Sizes DEF Pull, Goto, HeardKept, IndInv, TypeOK, HeardInv, HeardAt, Before,
      Asked
<1>12. ASSUME NEW r \in Request, Abandon(r), HeardKept PROVE HeardInv'
  BY <1>12, Sizes DEF Abandon, Goto, HeardKept, IndInv, TypeOK, HeardInv, HeardAt, Before,
      Asked
<1>13. ASSUME NEW r \in Request, NEW p \in Provider, Answer(r, p), HeardKept PROVE HeardInv'
  BY <1>13, Sizes DEF Answer, requestVars, HeardKept, IndInv, TypeOK, HeardInv, HeardAt,
      Before, Asked
<1>14. ASSUME NEW l \in Lane, Pick(l), HeardKept PROVE HeardInv'
  BY <1>14, Sizes DEF Pick, requestVars, HeardKept, IndInv, TypeOK, HeardInv, HeardAt,
      Before, Asked
<1>15. ASSUME Close, HeardKept PROVE HeardInv'
  BY <1>15, Sizes DEF Close, requestVars, HeardKept, IndInv, TypeOK, HeardInv, HeardAt,
      Before, Asked
<1>16. ASSUME CloseBackground, HeardKept PROVE HeardInv'
  BY <1>16, Sizes DEF CloseBackground, requestVars, HeardKept, IndInv, TypeOK, HeardInv,
      HeardAt, Before, Asked
<1>17. ASSUME CloseMain, HeardKept PROVE HeardInv'
  BY <1>17, Sizes DEF CloseMain, requestVars, HeardKept, IndInv, TypeOK, HeardInv, HeardAt,
      Before, Asked
<1>18. ASSUME UNCHANGED vars, HeardKept PROVE HeardInv'
  BY <1>18 DEF vars, requestVars, HeardKept, IndInv, HeardInv, HeardAt, Before, Asked
<1> QED
  BY <1>1, <1>2, <1>3, <1>4, <1>5, <1>6, <1>7, <1>8, <1>9, <1>10, <1>11, <1>12, <1>13,
      <1>14, <1>15, <1>16, <1>17, <1>18, HeardFrame DEF Next, RequestStep

\* Queues hold what waits in them, once.
LEMMA LineStep == IndInv /\ [Next]_vars => LineInv'
<1> SUFFICES ASSUME IndInv, [Next]_vars PROVE LineInv'
  OBVIOUS
<1> USE IngestionConstants DEF None, CallState
<1>0. ASSUME UNCHANGED <<line, call>> PROVE LineInv'
  BY <1>0 DEF IndInv, LineInv, LineAt, LaneOf, Asked
<1>1. ASSUME NEW r \in Request, NEW k \in Kinds, Ask(r, k) PROVE LineInv'
  BY <1>0, <1>1 DEF Ask, poolVars
<1>2. ASSUME NEW r \in Request, AskSchedule(r) PROVE LineInv'
  BY <1>0, <1>2 DEF AskSchedule, poolVars
<1>3. ASSUME NEW r \in Request, Lighten(r) PROVE LineInv'
  BY <1>0, <1>3 DEF Lighten, poolVars
<1>4. ASSUME NEW r \in Request, Submit(r) PROVE LineInv'
  <2>1. CASE ~Admit(r)
    BY <1>4, <2>1 DEF Submit, Admit, IndInv, LineInv, LineAt, LaneOf, Asked
  <2>2. CASE Admit(r)
    <3> DEFINE l == LaneOf(r)
    <3>1. l \in Lane /\ line[l] \in Seq(Request \X Provider) /\ Calls(r) \in Seq(Request \X Provider)
      BY CallsList, AskedFinite DEF IndInv, TypeOK
    <3>2. line' = [line EXCEPT ![l] = line[l] \o Calls(r)] /\ line \in [Lane -> Seq(Request \X Provider)]
      BY <1>4, <2>2 DEF Submit, Admit, IndInv, TypeOK
    <3>3. \A p \in Asked(r) : p \in Provider /\ call'[r][p] = "queued" /\ call[r][p] = None
      BY <1>4, <2>2, AskedFinite DEF Submit, Admit, IndInv, TypeOK, CallInv, CallAt, Before
    <3>4. \A s \in Request : s # r => call'[s] = call[s]
      BY <1>4, <2>2 DEF Submit, Admit, IndInv, TypeOK
    <3>5. \A m \in Lane : \A i \in DOMAIN line[m] : line[m][i][1] # r
      <4> SUFFICES ASSUME NEW m \in Lane, NEW i \in DOMAIN line[m], line[m][i][1] = r PROVE FALSE
        OBVIOUS
      <4>1. LineAt(m)
        BY DEF IndInv, LineInv
      <4>2. line[m][i][2] \in Asked(r) /\ call[r][line[m][i][2]] \in {"queued", "cancelled"}
        BY <4>1 DEF LineAt
      <4> QED
        BY <3>3, <4>2
    <3>6. \A m \in Lane : m # l => LineAt(m)'
      <4> TAKE m \in Lane
      <4> HAVE m # l
      <4>1. line'[m] = line[m] /\ line[m] \in Seq(Request \X Provider)
        BY <3>2
      <4>2. \A i \in DOMAIN line[m] : line[m][i][1] \in Request
        BY <4>1
      <4>3. \A i \in DOMAIN line[m] : call'[line[m][i][1]] = call[line[m][i][1]]
        BY <3>4, <3>5, <4>2
      <4>4. LineAt(m)
        BY DEF IndInv, LineInv
      <4> QED
        BY <4>1, <4>3, <4>4 DEF LineAt, LaneOf, Asked
    <3>7. line'[l] = line[l] \o Calls(r)
      BY <3>1, <3>2
    <3>8. \A i \in DOMAIN line'[l] :
            \/ i \in DOMAIN line[l] /\ line'[l][i] = line[l][i]
            \/ i - Len(line[l]) \in DOMAIN Calls(r) /\ line'[l][i] = Calls(r)[i - Len(line[l])]
      BY <3>1, <3>7, Appended
    <3>9. \A i \in DOMAIN line'[l] : i \in Int
      BY <3>1, <3>7, Appended
    <3>10. \A i \in DOMAIN Calls(r) : Calls(r)[i][1] = r /\ Calls(r)[i][2] \in Asked(r)
      BY CallsList
    <3>11. \A i \in DOMAIN line[l] : line[l][i][1] \in Request
      BY <3>1
    <3>12. ASSUME NEW i \in DOMAIN line'[l]
           PROVE  /\ LaneOf(line'[l][i][1]) = l /\ line'[l][i][2] \in Asked(line'[l][i][1])
                  /\ call'[line'[l][i][1]][line'[l][i][2]] \in {"queued", "cancelled"}
      <4>1. CASE i \in DOMAIN line[l] /\ line'[l][i] = line[l][i]
        <5>1. call'[line[l][i][1]] = call[line[l][i][1]]
          BY <3>1, <3>4, <3>5, <3>11, <4>1
        <5>2. LineAt(l)
          BY <3>1 DEF IndInv, LineInv
        <5> QED
          BY <4>1, <5>1, <5>2 DEF LineAt
      <4>2. CASE i - Len(line[l]) \in DOMAIN Calls(r) /\ line'[l][i] = Calls(r)[i - Len(line[l])]
        BY <3>3, <3>10, <4>2
      <4> QED
        BY <3>8, <4>1, <4>2
    <3>13. ASSUME NEW i \in DOMAIN line'[l], NEW j \in DOMAIN line'[l], line'[l][i] = line'[l][j]
           PROVE  i = j
      <4>1. CASE i \in DOMAIN line[l] /\ line'[l][i] = line[l][i]
        <5>1. j \in DOMAIN line[l] /\ line'[l][j] = line[l][j]
          <6>1. line'[l][i][1] # r
            BY <3>1, <3>5, <4>1
          <6>2. line'[l][j][1] # r
            BY <3>13, <6>1
          <6> QED
            BY <3>8, <3>10, <6>2
        <5> QED
          BY <3>1, <3>13, <4>1, <5>1 DEF IndInv, LineInv, LineAt
      <4>2. CASE i - Len(line[l]) \in DOMAIN Calls(r) /\ line'[l][i] = Calls(r)[i - Len(line[l])]
        <5>1. j - Len(line[l]) \in DOMAIN Calls(r) /\ line'[l][j] = Calls(r)[j - Len(line[l])]
          <6>1. line'[l][i][1] = r
            BY <3>10, <4>2
          <6>2. line'[l][j][1] = r
            BY <3>13, <6>1
          <6> QED
            BY <3>1, <3>5, <3>8, <6>2
        <5>2. i - Len(line[l]) = j - Len(line[l])
          BY <3>13, <4>2, <5>1, CallsList
        <5> QED
          BY <3>1, <3>9, <5>2, Appended
      <4> QED
        BY <3>8, <4>1, <4>2
    <3>14. LineAt(l)'
      BY <3>12, <3>13 DEF LineAt, LaneOf, Asked
    <3> QED
      BY <3>6, <3>14 DEF LineInv
  <2> QED
    BY <2>1, <2>2
<1>5. ASSUME NEW r \in Request, NEW p \in Provider, Take(r, p) PROVE LineInv'
  BY <1>0, <1>5 DEF Take, poolVars
<1>6. ASSUME NEW r \in Request, GiveUp(r) PROVE LineInv'
  BY <1>0, <1>6 DEF GiveUp, poolVars
<1>7. ASSUME NEW r \in Request, CancelPending(r) PROVE LineInv'
  <2>1. /\ line' = line /\ call \in [Request -> [Provider -> CallState]]
        /\ call' = [call EXCEPT ![r] = [p \in Provider |->
             IF call[r][p] = "queued" THEN "cancelled" ELSE call[r][p]]]
    BY <1>7 DEF CancelPending, IndInv, TypeOK
  <2>3. \A m \in Lane : \A i \in DOMAIN line[m] :
          line[m][i][1] \in Request /\ line[m][i][2] \in Provider
    BY DEF IndInv, TypeOK
  <2>4. \A s \in Request, p \in Provider :
          call[s][p] \in {"queued", "cancelled"} => call'[s][p] \in {"queued", "cancelled"}
    BY <2>1
  <2> QED
    BY <2>1, <2>3, <2>4 DEF IndInv, LineInv, LineAt, LaneOf, Asked
<1>8. ASSUME NEW r \in Request, Sink(r) PROVE LineInv'
  BY <1>0, <1>8 DEF Sink, poolVars
<1>9. ASSUME NEW r \in Request, End(r) PROVE LineInv'
  <2>1. /\ line' = line /\ call \in [Request -> [Provider -> CallState]]
        /\ call' = [call EXCEPT ![r] = [p \in Provider |->
             IF p \in Finished(r) THEN None ELSE call[r][p]]]
    BY <1>9 DEF End, IndInv, TypeOK
  <2>3. \A m \in Lane : \A i \in DOMAIN line[m] :
          line[m][i][1] \in Request /\ line[m][i][2] \in Provider
    BY DEF IndInv, TypeOK
  <2>4. \A s \in Request, p \in Provider :
          call[s][p] \in {"queued", "cancelled"} => call'[s][p] \in {"queued", "cancelled"}
    BY <2>1 DEF Finished
  <2> QED
    BY <2>1, <2>3, <2>4 DEF IndInv, LineInv, LineAt, LaneOf, Asked
<1>10. ASSUME NEW r \in Request, Deadline(r) PROVE LineInv'
  BY <1>0, <1>10 DEF Deadline, poolVars
<1>11. ASSUME NEW r \in Request, Pull(r) PROVE LineInv'
  BY <1>0, <1>11 DEF Pull, poolVars
<1>12. ASSUME NEW r \in Request, Abandon(r) PROVE LineInv'
  BY <1>0, <1>12 DEF Abandon, poolVars
<1>13. ASSUME NEW r \in Request, NEW p \in Provider, Answer(r, p) PROVE LineInv'
  <2>1. line' = line /\ call[r][p] = "called" /\ \E c : call' = [call EXCEPT ![r][p] = c]
    BY <1>13 DEF Answer
  <2>2. \A s \in Request, q \in Provider : <<s, q>> # <<r, p>> => call'[s][q] = call[s][q]
    BY <2>1 DEF IndInv, TypeOK
  <2>3. \A m \in Lane : \A i \in DOMAIN line[m] :
          line[m][i][1] \in Request /\ line[m][i][2] \in Provider
    BY DEF IndInv, TypeOK
  <2> QED
    BY <2>1, <2>2, <2>3 DEF IndInv, LineInv, LineAt, LaneOf, Asked
<1>14. ASSUME NEW l \in Lane, Pick(l) PROVE LineInv'
  <2>1. PICK r \in Request, p \in Provider : PickedCall(l, r, p)
    BY <1>14, PickIsFirst
  <2>2. /\ line[l] \in Seq(Request \X Provider) /\ line[l] # <<>> /\ line[l][1] = <<r, p>>
        /\ line' = [line EXCEPT ![l] = Tail(line[l])] /\ line \in [Lane -> Seq(Request \X Provider)]
        /\ LaneOf(r) = l
    BY <2>1 DEF PickedCall, IndInv, TypeOK
  <2>3. \A s \in Request, q \in Provider : <<s, q>> # <<r, p>> => call'[s][q] = call[s][q]
    BY <2>1 DEF PickedCall, IndInv, TypeOK
  <2>7. \A c \in Request \X Provider : c # <<r, p>> => call'[c[1]][c[2]] = call[c[1]][c[2]]
    BY <2>3, OtherCalls
  <2>4. \A m \in Lane : \A i \in DOMAIN line[m] : line[m][i] \in Request \X Provider
    BY <2>2
  <2>5. \A m \in Lane : m # l => LineAt(m)'
    <3> TAKE m \in Lane
    <3> HAVE m # l
    <3>1. line'[m] = line[m]
      BY <2>2
    <3>2. \A i \in DOMAIN line[m] : line[m][i] \in Request \X Provider /\ line[m][i] # <<r, p>>
      BY <2>2, <2>4 DEF IndInv, LineInv, LineAt
    <3>3. \A i \in DOMAIN line[m] : call'[line[m][i][1]][line[m][i][2]] = call[line[m][i][1]][line[m][i][2]]
      BY <2>7, <3>2
    <3>4. LineAt(m)
      BY DEF IndInv, LineInv
    <3> QED
      BY <3>1, <3>3, <3>4 DEF LineAt, LaneOf, Asked
  <2>6. LineAt(l)'
    <3>0. LineAt(l)
      BY DEF IndInv, LineInv
    <3>1. line'[l] = Tail(line[l])
      BY <2>2
    <3>2. \A i \in DOMAIN line'[l] : i + 1 \in DOMAIN line[l] /\ line'[l][i] = line[l][i + 1] /\ i \in Nat \ {0}
      BY <2>2, <3>1, Rest
    <3>3. 1 \in DOMAIN line[l]
      BY <2>2, Rest
    <3>4. \A i \in DOMAIN line'[l] : line'[l][i] \in Request \X Provider /\ line'[l][i] # <<r, p>>
      <4>1. ASSUME NEW i \in DOMAIN line'[l] PROVE line[l][i + 1] # <<r, p>> /\ line[l][i + 1] \in Request \X Provider
        <5>1. i + 1 \in DOMAIN line[l] /\ i + 1 # 1
          BY <3>2, <4>1
        <5> QED
          BY <2>2, <2>4, <3>0, <3>3, <5>1 DEF LineAt
      <4> QED
        BY <3>2, <4>1
    <3>5. \A i \in DOMAIN line'[l] : call'[line'[l][i][1]][line'[l][i][2]] = call[line'[l][i][1]][line'[l][i][2]]
      BY <2>7, <3>4
    <3>6. \A i, j \in DOMAIN line'[l] : line'[l][i] = line'[l][j] => i = j
      <4>1. ASSUME NEW i \in DOMAIN line'[l], NEW j \in DOMAIN line'[l], line'[l][i] = line'[l][j]
            PROVE  i = j
        <5>1. i + 1 = j + 1
          BY <3>0, <3>2, <4>1 DEF LineAt
        <5> QED
          BY <3>2, <5>1
      <4> QED
        BY <4>1
    <3>7. \A i \in DOMAIN line'[l] :
             /\ LaneOf(line'[l][i][1]) = l /\ line'[l][i][2] \in Asked(line'[l][i][1])
             /\ call[line'[l][i][1]][line'[l][i][2]] \in {"queued", "cancelled"}
      BY <3>2 DEF IndInv, LineInv, LineAt
    <3> QED
      BY <3>5, <3>6, <3>7 DEF LineAt, LaneOf, Asked
  <2> QED
    BY <2>5, <2>6 DEF LineInv
<1>15. ASSUME Close PROVE LineInv'
  BY <1>0, <1>15 DEF Close, poolVars
<1>16. ASSUME CloseBackground PROVE LineInv'
  BY <1>0, <1>16 DEF CloseBackground, poolVars
<1>17. ASSUME CloseMain PROVE LineInv'
  BY <1>0, <1>17 DEF CloseMain, poolVars
<1>18. CASE UNCHANGED vars
  BY <1>0, <1>18 DEF vars, poolVars
<1> QED
  BY <1>1, <1>2, <1>3, <1>4, <1>5, <1>6, <1>7, <1>8, <1>9, <1>10, <1>11, <1>12, <1>13,
      <1>14, <1>15, <1>16, <1>17, <1>18 DEF Next, RequestStep

\* What was shown is collected, then stored.
LEMMA ResultStep == IndInv /\ [Next]_vars => ResultInv'
<1> SUFFICES ASSUME IndInv, [Next]_vars PROVE ResultInv'
  OBVIOUS
<1> USE IngestionConstants DEF IndInv, None
<1>1. ASSUME NEW r \in Request, NEW k \in Kinds, Ask(r, k) PROVE ResultInv'
  <2>1. /\ pc[r] = "idle" /\ kind' = [kind EXCEPT ![r] = k] /\ UNCHANGED <<taken, out, got, shown, stored, unlucky>>
        /\ \/ pc' = [pc EXCEPT ![r] = "begin"] /\ verdict' = verdict
           \/ pc' = [pc EXCEPT ![r] = "done"] /\ verdict' = [verdict EXCEPT ![r] = "refused"]
    BY <1>1 DEF Ask, Goto, Refuse, poolVars
  <2>2. got[r] = {} /\ shown[r] = {} /\ taken[r] = {} /\ verdict[r] = None
    BY <2>1 DEF ResultInv, ResultAt, HeardInv, HeardAt, Before
  <2>3. \A s \in Request : s # r => ResultAt(s)'
    BY <2>1 DEF TypeOK, ResultInv, ResultAt, Before
  <2>4. /\ pc'[r] \in {"begin", "done"} /\ verdict'[r] # "left" /\ taken'[r] = {}
        /\ got'[r] = {} /\ shown'[r] = {}
    BY <2>1, <2>2 DEF TypeOK
  <2>5. ResultAt(r)'
    BY <2>4 DEF ResultAt, Before
  <2> QED
    BY <2>3, <2>5 DEF ResultInv
<1>2. ASSUME NEW r \in Request, AskSchedule(r) PROVE ResultInv'
  BY <1>2 DEF AskSchedule, closeVars, poolVars, Refuse, Goto, TypeOK, ResultInv, ResultAt,
      CallInv, CallAt, HeardInv, HeardAt, Before
<1>3. ASSUME NEW r \in Request, Lighten(r) PROVE ResultInv'
  BY <1>3 DEF Lighten, poolVars, Goto, TypeOK, ResultInv, ResultAt, CallInv, CallAt,
      HeardInv, HeardAt, Before
<1>4. ASSUME NEW r \in Request, Submit(r) PROVE ResultInv'
  BY <1>4 DEF Submit, Admit, closeVars, Goto, Asked, Calls, LaneOf, Accepting, TypeOK, ResultInv,
      ResultAt, CallInv, CallAt, HeardInv, HeardAt, Before
<1>5. ASSUME NEW r \in Request, NEW p \in Provider, Take(r, p) PROVE ResultInv'
  BY <1>5 DEF Take, closeVars, poolVars, Finalized, Goto, Finished, FreshOf, TypeOK,
      ResultInv, ResultAt, CallInv, CallAt, HeardInv, HeardAt, Before
<1>6. ASSUME NEW r \in Request, GiveUp(r) PROVE ResultInv'
  BY <1>6 DEF GiveUp, closeVars, poolVars, Goto, Missed, Finished, Asked, TimeUp, TypeOK,
      ResultInv, ResultAt, CallInv, CallAt, HeardInv, HeardAt, Before
<1>7. ASSUME NEW r \in Request, CancelPending(r) PROVE ResultInv'
  BY <1>7 DEF CancelPending, closeVars, Goto, TypeOK, ResultInv, ResultAt, CallInv, CallAt,
      HeardInv, HeardAt, Before
<1>8. ASSUME NEW r \in Request, Sink(r) PROVE ResultInv'
  BY <1>8 DEF Sink, closeVars, poolVars, Goto, Status, Asked, Collected, TypeOK, ResultInv,
      ResultAt, CallInv, CallAt, HeardInv, HeardAt, Before
<1>9. ASSUME NEW r \in Request, End(r) PROVE ResultInv'
  BY <1>9 DEF End, closeVars, Goto, Finished, Finalized, TypeOK, ResultInv, ResultAt,
      CallInv, CallAt, HeardInv, HeardAt, Before
<1>10. ASSUME NEW r \in Request, Deadline(r) PROVE ResultInv'
  BY <1>10 DEF Deadline, closeVars, poolVars, requestVars, Asked, TypeOK, ResultInv,
      ResultAt, CallInv, CallAt, HeardInv, HeardAt, Before
<1>11. ASSUME NEW r \in Request, Pull(r) PROVE ResultInv'
  BY <1>11 DEF Pull, closeVars, poolVars, Goto, TypeOK, ResultInv, ResultAt, CallInv,
      CallAt, HeardInv, HeardAt, Before
<1>12. ASSUME NEW r \in Request, Abandon(r) PROVE ResultInv'
  BY <1>12 DEF Abandon, closeVars, poolVars, Goto, TypeOK, ResultInv, ResultAt, CallInv,
      CallAt, HeardInv, HeardAt, Before
<1>13. ASSUME NEW r \in Request, NEW p \in Provider, Answer(r, p) PROVE ResultInv'
  <2>1. UNCHANGED <<pc, kind, taken, got, verdict, shown, stored, unlucky>> /\ p \notin taken[r]
    BY <1>13 DEF Answer, requestVars, CallInv, CallAt
  <2>2. out' = out \/ \E S : out' = [out EXCEPT ![r][p] = S]
    BY <1>13 DEF Answer
  <2>3. \A s \in Request : \A q \in taken[s] : out'[s][q] = out[s][q]
    <3>1. \A s \in Request, q \in Provider : <<s, q>> # <<r, p>> => out'[s][q] = out[s][q]
      BY <2>2 DEF TypeOK
    <3>2. \A s \in Request : taken[s] \subseteq Provider
      BY DEF TypeOK
    <3> QED
      BY <2>1, <3>1, <3>2
  <2>4. ResultInv' <=> \A s \in Request : ResultAt(s)'
    BY DEF ResultInv
  <2> SUFFICES \A s \in Request : ResultAt(s)'
    BY <2>4
  <2> QED
    <3> TAKE s \in Request
    <3>1. ResultAt(s)
      BY DEF ResultInv
    <3> QED
      BY <2>1, <2>3, <3>1 DEF ResultAt, Before
<1>14. ASSUME NEW l \in Lane, Pick(l) PROVE ResultInv'
  BY <1>14 DEF Pick, closeVars, requestVars, PickedUp, Busy, LaneOf, TypeOK, ResultInv,
      ResultAt, CallInv, CallAt, HeardInv, HeardAt, Before
<1>15. ASSUME Close PROVE ResultInv'
  BY <1>15 DEF Close, poolVars, requestVars, TypeOK, ResultInv, ResultAt, CallInv, CallAt,
      HeardInv, HeardAt, Before
<1>16. ASSUME CloseBackground PROVE ResultInv'
  BY <1>16 DEF CloseBackground, poolVars, requestVars, Drained, Busy, LaneOf, TypeOK,
      ResultInv, ResultAt, CallInv, CallAt, HeardInv, HeardAt, Before
<1>17. ASSUME CloseMain PROVE ResultInv'
  BY <1>17 DEF CloseMain, poolVars, requestVars, Drained, Busy, LaneOf, TypeOK, ResultInv,
      ResultAt, CallInv, CallAt, HeardInv, HeardAt, Before
<1>18. CASE UNCHANGED vars
  BY <1>18 DEF vars, requestVars, poolVars, closeVars, TypeOK, ResultInv, ResultAt,
      CallInv, CallAt, HeardInv, HeardAt, Before
<1> QED
  BY <1>1, <1>2, <1>3, <1>4, <1>5, <1>6, <1>7, <1>8, <1>9, <1>10, <1>11, <1>12, <1>13,
      <1>14, <1>15, <1>16, <1>17, <1>18 DEF Next, RequestStep

\* Nothing enters the closed executor.
LEMMA CloseStep == IndInv /\ [Next]_vars => CloseInv'
<1> SUFFICES ASSUME IndInv, [Next]_vars PROVE CloseInv'
  OBVIOUS
<1> USE IngestionConstants DEF IndInv, None
<1>1. ASSUME NEW r \in Request, NEW k \in Kinds, Ask(r, k) PROVE CloseInv'
  BY <1>1 DEF Ask, closeVars, poolVars, Refuse, Goto, TypeOK, CloseInv, CallInv, CallAt,
      LineInv, Busy, LaneOf, Lane
<1>2. ASSUME NEW r \in Request, AskSchedule(r) PROVE CloseInv'
  BY <1>2 DEF AskSchedule, closeVars, poolVars, Refuse, Goto, TypeOK, CloseInv, CallInv,
      CallAt, LineInv, Busy, LaneOf, Lane
<1>3. ASSUME NEW r \in Request, Lighten(r) PROVE CloseInv'
  BY <1>3 DEF Lighten, poolVars, Goto, TypeOK, CloseInv, CallInv, CallAt, LineInv, Busy,
      LaneOf, Lane
<1>4. ASSUME NEW r \in Request, Submit(r) PROVE CloseInv'
  <2>1. ASSUME shut = "closed" PROVE line'["main"] = line["main"] /\ Busy("main")' = {}
    <3>1. r \notin Schedule => ~Accepting(r)
      BY <2>1 DEF Accepting
    <3>2. line'["main"] = line["main"]
      BY <1>4, <3>1 DEF Submit, Admit, LaneOf, Lane, TypeOK
    <3>3. \A s \in Request \ Schedule : call'[s] = call[s]
      BY <1>4, <3>1 DEF Submit, Admit, TypeOK
    <3> QED
      BY <2>1, <3>2, <3>3 DEF CloseInv, Busy, LaneOf
  <2> QED
    BY <1>4, <2>1 DEF Submit, Admit, CloseInv, closeVars
<1>5. ASSUME NEW r \in Request, NEW p \in Provider, Take(r, p) PROVE CloseInv'
  BY <1>5 DEF Take, closeVars, poolVars, Finalized, Goto, Finished, FreshOf, TypeOK,
      CloseInv, CallInv, CallAt, LineInv, Busy, LaneOf, Lane
<1>6. ASSUME NEW r \in Request, GiveUp(r) PROVE CloseInv'
  BY <1>6 DEF GiveUp, closeVars, poolVars, Goto, Missed, Finished, Asked, TimeUp, TypeOK,
      CloseInv, CallInv, CallAt, LineInv, Busy, LaneOf, Lane
<1>7. ASSUME NEW r \in Request, CancelPending(r) PROVE CloseInv'
  BY <1>7 DEF CancelPending, closeVars, Goto, TypeOK, CloseInv, CallInv, CallAt, LineInv,
      Busy, LaneOf, Lane
<1>8. ASSUME NEW r \in Request, Sink(r) PROVE CloseInv'
  BY <1>8 DEF Sink, closeVars, poolVars, Goto, Status, Asked, Collected, TypeOK, CloseInv,
      CallInv, CallAt, LineInv, Busy, LaneOf, Lane
<1>9. ASSUME NEW r \in Request, End(r) PROVE CloseInv'
  BY <1>9 DEF End, closeVars, Goto, Finished, Finalized, TypeOK, CloseInv, CallInv, CallAt,
      LineInv, Busy, LaneOf, Lane
<1>10. ASSUME NEW r \in Request, Deadline(r) PROVE CloseInv'
  BY <1>10 DEF Deadline, closeVars, poolVars, requestVars, Asked, TypeOK, CloseInv,
      CallInv, CallAt, LineInv, Busy, LaneOf, Lane
<1>11. ASSUME NEW r \in Request, Pull(r) PROVE CloseInv'
  BY <1>11 DEF Pull, closeVars, poolVars, Goto, TypeOK, CloseInv, CallInv, CallAt, LineInv,
      Busy, LaneOf, Lane
<1>12. ASSUME NEW r \in Request, Abandon(r) PROVE CloseInv'
  BY <1>12 DEF Abandon, closeVars, poolVars, Goto, TypeOK, CloseInv, CallInv, CallAt,
      LineInv, Busy, LaneOf, Lane
<1>13. ASSUME NEW r \in Request, NEW p \in Provider, Answer(r, p) PROVE CloseInv'
  <2>1. UNCHANGED <<line, shut>> /\ \E c : c # "called" /\ call' = [call EXCEPT ![r][p] = c]
    BY <1>13 DEF Answer, closeVars
  <2>2. \A s \in Request, q \in Provider : call'[s][q] = "called" => call[s][q] = "called"
    BY <2>1 DEF TypeOK
  <2> QED
    BY <2>1, <2>2 DEF CloseInv, Busy, LaneOf
<1>14. ASSUME NEW l \in Lane, Pick(l) PROVE CloseInv'
  <2>1. PICK r \in Request, p \in Provider : PickedCall(l, r, p)
    BY <1>14, PickIsFirst
  <2>2. shut = "closed" => l = "background"
    BY <2>1 DEF PickedCall, CloseInv, Lane
  <2>3. shut = "closed" => r \in Schedule
    BY <2>1, <2>2 DEF PickedCall, LaneOf
  <2>4. shut = "closed" => line'["main"] = line["main"] /\ \A s \in Request \ Schedule : call'[s] = call[s]
    BY <2>1, <2>2, <2>3 DEF PickedCall, TypeOK
  <2>5. shut' = shut
    BY <1>14 DEF Pick, closeVars
  <2>6. ASSUME shut = "closed" PROVE Busy("main")' = {}
    <3>1. \A c \in Request \X Provider : LaneOf(c[1]) = "main" => call'[c[1]] = call[c[1]]
      BY <2>4, <2>6 DEF LaneOf
    <3> QED
      BY <2>6, <3>1 DEF CloseInv, Busy, LaneOf
  <2> QED
    BY <2>4, <2>5, <2>6 DEF CloseInv
<1>15. ASSUME Close PROVE CloseInv'
  BY <1>15 DEF Close, poolVars, requestVars, TypeOK, CloseInv, CallInv, CallAt, LineInv,
      Busy, LaneOf, Lane
<1>16. ASSUME CloseBackground PROVE CloseInv'
  BY <1>16 DEF CloseBackground, poolVars, requestVars, Drained, Busy, LaneOf, TypeOK,
      CloseInv, CallInv, CallAt, LineInv, Lane
<1>17. ASSUME CloseMain PROVE CloseInv'
  BY <1>17 DEF CloseMain, poolVars, requestVars, Drained, Busy, LaneOf, TypeOK, CloseInv,
      CallInv, CallAt, LineInv, Lane
<1>18. CASE UNCHANGED vars
  BY <1>18 DEF vars, requestVars, poolVars, closeVars, TypeOK, CloseInv, CallInv, CallAt,
      LineInv, Busy, LaneOf, Lane
<1> QED
  BY <1>1, <1>2, <1>3, <1>4, <1>5, <1>6, <1>7, <1>8, <1>9, <1>10, <1>11, <1>12, <1>13,
      <1>14, <1>15, <1>16, <1>17, <1>18 DEF Next, RequestStep

\* A request never fails more providers than there are.
LEMMA FailedBound ==
    ASSUME IndInv, [Next]_vars, \A r \in Request : failed'[r] \in Nat
    PROVE  \A r \in Request : failed'[r] \in 0..Cardinality(Provider)
<1> TAKE r \in Request
<1>1. HeardAt(r)'
  BY HeardStep DEF HeardInv
<1>2. Absent(r)' \subseteq Provider
  BY AskedFinite DEF Absent, Asked
<1>3. Cardinality(Absent(r)') <= Cardinality(Provider) /\ Cardinality(Absent(r)') \in Nat
      /\ Cardinality(Provider) \in Nat
  BY <1>2, IngestionConstants, FS_Subset, FS_CardinalityType
<1> QED
  BY <1>1, <1>3 DEF HeardAt

\* Every step keeps the types; no request fails more providers than there are.
LEMMA TypeStep == IndInv /\ [Next]_vars => TypeOK'
<1> SUFFICES ASSUME IndInv, [Next]_vars PROVE TypeOK'
  OBVIOUS
<1> USE IngestionConstants DEF None
<1>1. ASSUME NEW r \in Request, NEW k \in Kinds, Ask(r, k) PROVE TypeOK'
  BY <1>1 DEF Ask, closeVars, poolVars, Refuse, Goto, IndInv, TypeOK, CallState, Lane
<1>2. ASSUME NEW r \in Request, AskSchedule(r) PROVE TypeOK'
  <2>1. /\ kind' = [kind EXCEPT ![r] = "schedule"]
        /\ pc' = [pc EXCEPT ![r] = "begin"] \/ pc' = [pc EXCEPT ![r] = "done"]
        /\ verdict' = verdict \/ verdict' = [verdict EXCEPT ![r] = "refused"]
    BY <1>2 DEF AskSchedule, Refuse, Goto
  <2>2. UNCHANGED <<poolVars, late, taken, got, failed, partial, shown, light, stored, closeVars,
                    unlucky>>
    BY <1>2 DEF AskSchedule
  <2> QED
    BY <2>1, <2>2 DEF closeVars, poolVars, IndInv, TypeOK
<1>3. ASSUME NEW r \in Request, Lighten(r) PROVE TypeOK'
  BY <1>3 DEF Lighten, poolVars, Goto, IndInv, TypeOK, CallState, Lane
<1>4. ASSUME NEW r \in Request, Submit(r) PROVE TypeOK'
  <2>1. CASE ~Admit(r)
    BY <1>4, <2>1 DEF Submit, closeVars, Goto, IndInv, TypeOK, CallState, Lane
  <2>2. CASE Admit(r)
    <3>1. LaneOf(r) \in Lane /\ line[LaneOf(r)] \o Calls(r) \in Seq(Request \X Provider)
      BY CallsList, AskedFinite, Appended DEF IndInv, TypeOK
    <3>2. line' = [line EXCEPT ![LaneOf(r)] = line[LaneOf(r)] \o Calls(r)]
      BY <1>4, <2>2 DEF Submit, Admit
    <3>3. line' \in [Lane -> Seq(Request \X Provider)]
      BY <3>1, <3>2 DEF IndInv, TypeOK
    <3>4. call' = [call EXCEPT ![r] = [p \in Provider |-> IF p \in Asked(r) THEN "queued" ELSE None]]
      BY <1>4, <2>2 DEF Submit, Admit
    <3>5. [p \in Provider |-> IF p \in Asked(r) THEN "queued" ELSE None] \in [Provider -> CallState]
      BY DEF CallState, None
    <3>6. call' \in [Request -> [Provider -> CallState]]
      BY <3>4, <3>5 DEF IndInv, TypeOK
    <3>7. pc' = [pc EXCEPT ![r] = "wait"]
      BY <1>4, <2>2 DEF Submit, Admit, Goto
    <3> QED
      BY <1>4, <2>2, <3>3, <3>6, <3>7 DEF Submit, Admit, closeVars, IndInv, TypeOK
  <2> QED
    BY <2>1, <2>2
<1>5. ASSUME NEW r \in Request, NEW p \in Provider, Take(r, p) PROVE TypeOK'
  <2>1. FreshOf(r, out[r][p]) \subseteq Payload /\ got' \in [Request -> SUBSET Payload]
    BY <1>5 DEF Take, FreshOf, IndInv, TypeOK
  <2>2. /\ \/ pc' = [pc EXCEPT ![r] = "give"] /\ Finalized(r, FreshOf(r, out[r][p]))
           \/ UNCHANGED <<pc, shown, unlucky>>
        /\ taken' = [taken EXCEPT ![r] = taken[r] \cup {p}]
    BY <1>5 DEF Take, Goto
  <2>3. failed' = [failed EXCEPT ![r] = failed[r] + IF call[r][p] = "raised" /\ kind[r] # "stream" THEN 1 ELSE 0]
    BY <1>5 DEF Take
  <2>4. failed'[r] \in Nat /\ \A s \in Request : s # r => failed'[s] = failed[s]
    BY <2>3 DEF IndInv, TypeOK
  <2>5. failed' \in [Request -> 0..Cardinality(Provider)]
    BY <2>3, <2>4, FailedBound DEF IndInv, TypeOK
  <2>6. shown' \in [Request -> SUBSET Payload] /\ unlucky' \subseteq Request
    <3>1. \/ shown' = [shown EXCEPT ![r] = shown[r] \cup FreshOf(r, out[r][p])] /\ UNCHANGED unlucky
          \/ unlucky' = unlucky \cup {r} /\ UNCHANGED shown
          \/ UNCHANGED <<shown, unlucky>>
      BY <2>2 DEF Finalized
    <3> HIDE DEF FreshOf
    <3> QED
      <4>1. shown[r] \cup FreshOf(r, out[r][p]) \subseteq Payload /\ unlucky \cup {r} \subseteq Request
        BY <2>1 DEF IndInv, TypeOK
      <4>2. shown' \in [Request -> SUBSET Payload]
        BY <3>1, <4>1 DEF IndInv, TypeOK
      <4> QED
        BY <3>1, <4>1, <4>2 DEF IndInv, TypeOK
  <2> QED
    BY <1>5, <2>1, <2>2, <2>5, <2>6 DEF Take, poolVars, closeVars, IndInv, TypeOK, CallState, Lane
<1>6. ASSUME NEW r \in Request, GiveUp(r) PROVE TypeOK'
  <2>1. failed' = [failed EXCEPT ![r] = failed[r] + IF kind[r] = "stream" THEN 0 ELSE Cardinality(Missed(r))]
    BY <1>6 DEF GiveUp
  <2>2. Cardinality(Missed(r)) \in Nat
    BY AskedFinite, FS_Subset, FS_CardinalityType DEF Missed
  <2>3. failed'[r] \in Nat /\ \A s \in Request : s # r => failed'[s] = failed[s]
    BY <2>1, <2>2 DEF IndInv, TypeOK
  <2>4. failed' \in [Request -> 0..Cardinality(Provider)]
    BY <2>1, <2>3, FailedBound DEF IndInv, TypeOK
  <2>5. pc' = [pc EXCEPT ![r] = "cancel"] /\ partial' = [partial EXCEPT ![r] = kind[r] # "stream"]
    BY <1>6 DEF GiveUp, Goto
  <2>6. partial' \in [Request -> BOOLEAN]
    BY <2>5 DEF IndInv, TypeOK
  <2> QED
    BY <1>6, <2>4, <2>5, <2>6 DEF GiveUp, poolVars, closeVars, IndInv, TypeOK, CallState, Lane
<1>7. ASSUME NEW r \in Request, CancelPending(r) PROVE TypeOK'
  BY <1>7 DEF CancelPending, closeVars, Goto, IndInv, TypeOK, CallState, Lane
<1>8. ASSUME NEW r \in Request, Sink(r) PROVE TypeOK'
  BY <1>8 DEF Sink, closeVars, poolVars, Goto, Status, Asked, Collected, IndInv, TypeOK,
      CallState, Lane
<1>9. ASSUME NEW r \in Request, End(r) PROVE TypeOK'
  <2>1. /\ call' \in [Request -> [Provider -> CallState]]
        /\ out' \in [Request -> [Provider -> SUBSET Payload]]
    BY <1>9 DEF End, IndInv, TypeOK, CallState
  <2>2. shown' \in [Request -> SUBSET Payload] /\ unlucky' \subseteq Request
    <3>1. \/ shown' = [shown EXCEPT ![r] = shown[r] \cup got[r]] /\ UNCHANGED unlucky
          \/ unlucky' = unlucky \cup {r} /\ UNCHANGED shown
          \/ UNCHANGED <<shown, unlucky>>
      BY <1>9 DEF End, Finalized
    <3>2. shown[r] \cup got[r] \subseteq Payload /\ unlucky \cup {r} \subseteq Request
      BY DEF IndInv, TypeOK
    <3>3. shown' \in [Request -> SUBSET Payload]
      BY <3>1, <3>2 DEF IndInv, TypeOK
    <3> QED
      BY <3>1, <3>2, <3>3 DEF IndInv, TypeOK
  <2>3. Cardinality(Provider) \in Nat
    BY FS_CardinalityType
  <2>4. /\ taken' \in [Request -> SUBSET Provider] /\ got' \in [Request -> SUBSET Payload]
        /\ failed' \in [Request -> 0..Cardinality(Provider)] /\ partial' \in [Request -> BOOLEAN]
    BY <1>9, <2>3 DEF End, IndInv, TypeOK
  <2> QED
    BY <1>9, <2>1, <2>2, <2>4 DEF End, Goto, closeVars, IndInv, TypeOK
<1>10. ASSUME NEW r \in Request, Deadline(r) PROVE TypeOK'
  BY <1>10 DEF Deadline, closeVars, poolVars, requestVars, Asked, IndInv, TypeOK,
      CallState, Lane
<1>11. ASSUME NEW r \in Request, Pull(r) PROVE TypeOK'
  BY <1>11 DEF Pull, closeVars, poolVars, Goto, IndInv, TypeOK, CallState, Lane
<1>12. ASSUME NEW r \in Request, Abandon(r) PROVE TypeOK'
  BY <1>12 DEF Abandon, closeVars, poolVars, Goto, IndInv, TypeOK, CallState, Lane
<1>13. ASSUME NEW r \in Request, NEW p \in Provider, Answer(r, p) PROVE TypeOK'
  <2>1. out' \in [Request -> [Provider -> SUBSET Payload]]
    <3>1. CASE out' = out
      BY <3>1 DEF IndInv, TypeOK
    <3>2. CASE out' # out
      <4>1. PICK rows \in {{}, Kept(Offer[p], PerProvider(r))}, n \in 0..Len(Offer[p]) :
              out' = [out EXCEPT ![r][p] = {Offer[p][i] : i \in {i \in rows : i <= n}}]
        <5> DEFINE rows == IF pc[r] = "done" THEN {} ELSE Kept(Offer[p], PerProvider(r))
        <5>1. Len(Offer[p]) \in Nat
          OBVIOUS
        <5>2. \E n \in 0..Len(Offer[p]) :
                out' = [out EXCEPT ![r][p] = {Offer[p][i] : i \in {i \in rows : i <= n}}]
          <6>1. \E n \in IF r \in late THEN 0..Len(Offer[p]) ELSE {Len(Offer[p])} :
                  out' = [out EXCEPT ![r][p] = {Offer[p][i] : i \in {i \in rows : i <= n}}]
            BY <1>13, <3>2 DEF Answer
          <6>2. \A n \in IF r \in late THEN 0..Len(Offer[p]) ELSE {Len(Offer[p])} : n \in 0..Len(Offer[p])
            BY <5>1
          <6> HIDE DEF rows
          <6>3. PICK n \in IF r \in late THEN 0..Len(Offer[p]) ELSE {Len(Offer[p])} :
                  out' = [out EXCEPT ![r][p] = {Offer[p][i] : i \in {i \in rows : i <= n}}]
            BY <6>1
          <6> QED
            BY <6>2, <6>3
        <5>3. rows \in {{}, Kept(Offer[p], PerProvider(r))}
          OBVIOUS
        <5> HIDE DEF rows
        <5> QED
          BY <5>2, <5>3
      <4>2. \A i \in rows : i \in DOMAIN Offer[p] /\ Offer[p][i] \in Payload
        BY <4>1 DEF Kept
      <4>3. {Offer[p][i] : i \in {i \in rows : i <= n}} \subseteq Payload
        BY <4>2
      <4> QED
        BY <4>1, <4>3 DEF IndInv, TypeOK
    <3> QED
      BY <3>1, <3>2
  <2>2. call' \in [Request -> [Provider -> CallState]]
    <3>1. PICK c \in {"done", "raised"} : call' = [call EXCEPT ![r][p] = c]
      BY <1>13 DEF Answer
    <3> QED
      BY <3>1 DEF IndInv, TypeOK, CallState
  <2> QED
    BY <1>13, <2>1, <2>2 DEF Answer, requestVars, closeVars, IndInv, TypeOK, Lane
<1>14. ASSUME NEW l \in Lane, Pick(l) PROVE TypeOK'
  <2>1. PICK r \in Request, p \in Provider : PickedCall(l, r, p)
    BY <1>14, PickIsFirst
  <2>2. Tail(line[l]) \in Seq(Request \X Provider)
    BY <2>1, Rest DEF PickedCall, IndInv, TypeOK
  <2>3. line' \in [Lane -> Seq(Request \X Provider)] /\ call' \in [Request -> [Provider -> CallState]]
    BY <2>1, <2>2 DEF PickedCall, PickedUp, IndInv, TypeOK, CallState
  <2> QED
    BY <1>14, <2>3 DEF Pick, requestVars, closeVars, IndInv, TypeOK
<1>15. ASSUME Close PROVE TypeOK'
  BY <1>15 DEF Close, poolVars, requestVars, IndInv, TypeOK, CallState, Lane
<1>16. ASSUME CloseBackground PROVE TypeOK'
  BY <1>16 DEF CloseBackground, poolVars, requestVars, Drained, Busy, LaneOf, IndInv,
      TypeOK, CallState, Lane
<1>17. ASSUME CloseMain PROVE TypeOK'
  BY <1>17 DEF CloseMain, poolVars, requestVars, Drained, Busy, LaneOf, IndInv, TypeOK,
      CallState, Lane
<1>18. CASE UNCHANGED vars
  BY <1>18 DEF vars, requestVars, poolVars, closeVars, IndInv, TypeOK, CallState, Lane
<1> QED
  BY <1>1, <1>2, <1>3, <1>4, <1>5, <1>6, <1>7, <1>8, <1>9, <1>10, <1>11, <1>12, <1>13,
      <1>14, <1>15, <1>16, <1>17, <1>18 DEF Next, RequestStep

-----------------------------------------------------------------------------
(* The theorems. *)

\* The inductive invariant.
THEOREM SpecInv == Spec => []IndInv
<1>1. Init => IndInv
  <2> SUFFICES ASSUME Init PROVE IndInv
    OBVIOUS
  <2>1. TypeOK
    <3>1. Cardinality(Provider) \in Nat
      BY IngestionConstants, FS_CardinalityType
    <3>2. line \in [Lane -> Seq(Request \X Provider)]
      BY DEF Init
    <3>3. /\ taken \in [Request -> SUBSET Provider] /\ got \in [Request -> SUBSET Payload]
          /\ failed \in [Request -> 0..Cardinality(Provider)] /\ partial \in [Request -> BOOLEAN]
          /\ shown \in [Request -> SUBSET Payload]
      BY <3>1 DEF Init
    <3>4. /\ call \in [Request -> [Provider -> CallState]]
          /\ out \in [Request -> [Provider -> SUBSET Payload]]
      BY DEF Init, CallState
    <3> QED
      BY <3>2, <3>3, <3>4 DEF Init, TypeOK, None
  <2>2. LineInv /\ CallInv /\ CloseInv /\ ResultInv /\ WholeInv
    BY <2>1 DEF Init, WholeInv, WholeAt, LineInv, LineAt, CallInv, CallAt, CloseInv, ResultInv, ResultAt, Before,
       None
  <2>3. HeardInv
    <3> SUFFICES ASSUME NEW r \in Request PROVE HeardAt(r)
      BY DEF HeardInv
    <3>1. taken[r] = {} /\ failed[r] = 0 /\ ~partial[r] /\ pc[r] = "idle" /\ verdict[r] = None
      BY DEF Init
    <3>2. Lost(r) = {} /\ Cardinality(Lost(r)) = 0
      BY <3>1, FS_EmptySet DEF Lost
    <3>3. Absent(r) \subseteq Asked(r)
      BY DEF Absent
    <3>4. Cardinality(Absent(r)) \in Nat
      BY <3>3, AskedFinite, FS_Subset, FS_CardinalityType
    <3> QED
      BY <3>1, <3>2, <3>4 DEF HeardAt, Before, None
  <2> QED
    BY <2>1, <2>2, <2>3 DEF IndInv
<1>2. IndInv /\ [Next]_vars => IndInv'
  BY TypeStep, LineStep, CallStep, HeardStep, WholeStep, ResultStep, CloseStep DEF IndInv
<1> QED
  BY <1>1, <1>2, PTL DEF Spec

\* The state stays in its types: counters, queues and results.
THEOREM TypeCorrect == Spec => []TypeOK
<1>1. IndInv => TypeOK
  BY DEF IndInv
<1> QED
  BY <1>1, SpecInv, PTL

\* No provider is counted as failed and heard, and "complete" means that every
\* call returned and what it returned is in the result: all that the provider
\* has, unless the call met the deadline (run's status, _run_one's early returns).
THEOREM StatusTruthfulHolds == Spec => []StatusTruthful
<1>1. IndInv => StatusTruthful
  <2> SUFFICES ASSUME IndInv, NEW r \in Request
               PROVE  /\ failed[r] + Cardinality(Delivered(r)) <= Cardinality(Asked(r))
                      /\ verdict[r] = "complete" /\ pc[r] = "end" =>
                           \A p \in Asked(r) :
                             /\ call[r][p] = "done" /\ out[r][p] \subseteq got[r]
                             /\ Whole(r, p) \subseteq got[r] \/ <<r, p>> \in cut
    BY DEF StatusTruthful
  <2>1. HeardAt(r) /\ ResultAt(r) /\ failed[r] \in Nat
    BY DEF IndInv, HeardInv, ResultInv, TypeOK
  <2>2. Delivered(r) \subseteq Asked(r) /\ IsFiniteSet(Asked(r)) /\ IsFiniteSet(Delivered(r))
    BY <2>1, AskedFinite, FS_Subset DEF HeardAt, Delivered
  <2>3. Asked(r) \cap Delivered(r) = Delivered(r)
    BY <2>2
  <2>4. Cardinality(Absent(r)) = Cardinality(Asked(r)) - Cardinality(Asked(r) \cap Delivered(r))
    BY <2>2, FS_Difference DEF Absent
  <2>5. Cardinality(Absent(r)) = Cardinality(Asked(r)) - Cardinality(Delivered(r))
    BY <2>3, <2>4
  <2>6. Cardinality(Asked(r)) \in Nat /\ Cardinality(Delivered(r)) \in Nat /\ failed[r] <= Cardinality(Absent(r))
    BY <2>1, <2>2, FS_CardinalityType DEF HeardAt
  <2>7. failed[r] + Cardinality(Delivered(r)) <= Cardinality(Asked(r))
    BY <2>1, <2>5, <2>6
  <2>8. ASSUME verdict[r] = "complete", pc[r] = "end", NEW p \in Asked(r)
        PROVE  /\ call[r][p] = "done" /\ out[r][p] \subseteq got[r]
               /\ Whole(r, p) \subseteq got[r] \/ <<r, p>> \in cut
    <3>1. call[r][p] = "done" /\ out[r][p] \subseteq got[r]
      BY <2>1, <2>8 DEF HeardAt, ResultAt, Lost
    <3>2. WholeAt(r, p)
      BY AskedFinite DEF IndInv, WholeInv
    <3> QED
      BY <2>8, <3>1, <3>2 DEF WholeAt
  <2> QED
    BY <2>7, <2>8
<1> QED
  BY <1>1, SpecInv, PTL

\* What a finished request has shown is in the catalogue (the sink at the very end).
THEOREM ShownIsStoredHolds == Spec => []ShownIsStored
<1>1. IndInv => ShownIsStored
  BY DEF IndInv, ResultInv, ResultAt, ShownIsStored
<1> QED
  BY <1>1, SpecInv, PTL

\* After close() no interactive call is queued or being made.
THEOREM ClosedIsQuietHolds == Spec => []ClosedIsQuiet
<1>1. IndInv => ClosedIsQuiet
  <2> SUFFICES ASSUME IndInv, shut = "closed", NEW r \in Request \ Schedule, NEW p \in Provider
               PROVE  call[r][p] \notin {"queued", "called"}
    BY DEF ClosedIsQuiet
  <2>1. LaneOf(r) = "main" /\ line["main"] = <<>> /\ Busy("main") = {}
    BY DEF LaneOf, IndInv, CloseInv
  <2>2. ~InLine(r, p)
    BY <2>1 DEF InLine
  <2>3. <<r, p>> \in Request \X Provider /\ <<r, p>> \notin Busy("main")
    BY <2>1
  <2>4. call[r][p] # "called"
    BY <2>1, <2>3 DEF Busy
  <2> QED
    BY <2>2, <2>4 DEF IndInv, CallInv, CallAt
<1> QED
  BY <1>1, SpecInv, PTL

=============================================================================
