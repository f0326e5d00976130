------------------------ MODULE TorrentSessionProofs ------------------------
(***************************************************************************)
(* Machine-checked proofs about TorrentSession, for every set of hashes,   *)
(* callers, deployments, operations, faults, and any number of crashes:    *)
(* the type invariant, HandlesSettled, NeverResurrects, Durable,           *)
(* PendingCovers and, where files can be written, CloseFlushes.            *)
(*                                                                         *)
(* Nothing is promised of a torrent whose calls raced, or of its row once  *)
(* the database or the library failed a call about it (Sound).             *)
(*                                                                         *)
(* The queue of alerts is what the table, the rows and the resume files    *)
(* wait for.  IndInv says what the last alert about a torrent announces    *)
(* (NewsInv), that no two calls are about a torrent that did not race      *)
(* (AloneInv), what waits while a call is about it (CalmInv), where table  *)
(* and session may differ (TableInv), which rows the torrents of the       *)
(* session have (RowInv), which the restore still has before it            *)
(* (DurableInv), and what a close() has asked for (CloseInv).              *)
(***************************************************************************)
EXTENDS TorrentSession, FiniteSetTheorems, TLAPS

Wanted == {"null", "complete"}

\* The i-th alert adds the torrent or removes it; it is the only such one, or the last.
About(i, h) == alerts[i].hash = h /\ alerts[i].kind \notin SaveAlert
Single(h) == \A i, j \in DOMAIN alerts : About(i, h) /\ About(j, h) => i = j
Last(i, h) == About(i, h) /\ \A j \in DOMAIN alerts : About(j, h) => j <= i
AddedWaits(h) == \E i \in DOMAIN alerts : About(i, h) /\ alerts[i].kind = "added"
SavedWaits(h) == \E i \in DOMAIN alerts : alerts[i] = Note("saved", h)

\* The last alert about a torrent says whether it is in the session.
NewsInv == \A i \in DOMAIN alerts : \A h \in Hash :
              Last(i, h) => (alerts[i].kind = "added" <=> h \in session)

\* Nothing is left of a process that is down.
DownInv ==
    phase = "down" =>
        /\ session = {} /\ handles = {} /\ alerts = <<>> /\ ~restored
        /\ saving = [h \in Hash |-> 0] /\ rst = NoRestore
        /\ \A c \in Caller : req[c] = None /\ cpc[c] = "idle"

\* One call at a time is about a torrent, unless it raced.
AloneInv ==
    /\ \A c \in Caller : req[c] = None <=> cpc[c] = "idle"
    /\ rst.cur = None <=> rst.pc \notin {"addFile", "addRow"}
    /\ \A c \in Caller : req[c] # None /\ req[c] \notin raced =>
         rst.cur # req[c] /\ \A d \in Caller : req[d] = req[c] => d = c

\* Between the library's step and that on the table.
Half(h) == \E c \in Caller : req[c] = h /\ cpc[c] \in {"register", "pop"}
TableAt(h) ==
    /\ ~Awaited(h) /\ ~Half(h) => (h \in handles <=> h \in session)
    /\ \A c \in Caller : req[c] = h =>
         /\ cpc[c] = "register" => h \in session
         /\ cpc[c] = "pop" => h \notin session
TableInv == \A h \in Hash \ raced : TableAt(h)

Calm(h) == h \notin raced /\ h \notin hurried
\* ... and nothing failed either.
Sound(h) == Calm(h) /\ h \notin failed

\* No alert about the torrent waits before the call has turned to the library.
Early == {"save", "add", "move", "mark", "condemn", "remove", "look", "write",
          "list", "weigh", "settle", "decide"}
CalmAt(h) ==
    /\ rst.cur = h => ~Awaited(h)
    /\ \A c \in Caller : req[c] = h /\ cpc[c] \in Early => ~Awaited(h)
    /\ Single(h)
    /\ AddedWaits(h) => h \in handles \/ \E c \in Caller : req[c] = h /\ cpc[c] = "register"
CalmInv == \A h \in Hash : Calm(h) => CalmAt(h)

\* The rows of the torrents that run, and of those that a call is about.
Running == {"save", "move", "look", "mark", "condemn", "count", "write",
            "list", "weigh", "settle", "decide"}
RowAt(h) ==
    /\ ~Handled(h) /\ h \in session => row[h] \in Wanted
    /\ rst.cur = h => row[h] \in Wanted
    /\ \A c \in Caller : req[c] = h =>
         /\ cpc[c] \in {"add", "register"} => row[h] \in Wanted
         /\ cpc[c] \in Running /\ h \in session => row[h] \in Wanted
         /\ cpc[c] = "settle" => h \in session
         /\ cpc[c] = "unlink" => h \notin session
RowInv == ~site.remote /\ phase = "ready" => \A h \in Hash : Sound(h) => RowAt(h)

\* The rows the restore has listed exist, and an embedded session is restored once.
ListInv ==
    /\ rst.pc \in {"rows", "addRow"} => \A h \in rst.todo : row[h] # "absent"
    /\ ~site.remote /\ restored => rst.pc = "idle"

\* A call that takes a torrent away has taken its row before; a reconciliation
\* goes by what the row still says.
FateAt(c) ==
    req[c] \notin raced \cup failed =>
        /\ cpc[c] = "write" => row[req[c]] = "null"
        /\ cpc[c] = "weigh" => seen[c] = row[req[c]]
        /\ cpc[c] \in {"remove", "pop", "unlink"} => row[req[c]] \notin Wanted
FateInv == \A c \in Caller : FateAt(c)

\* A torrent the database wants runs, or somebody is about to add it.
Listed == restored \/ rst.pc \in {"rows", "addRow"}
KeptAt(h) ==
    row[h] \in Wanted /\ payload[h] # "missing" =>
        \/ h \in session \/ rst.cur = h
        \/ rst.pc \in {"rows", "addRow"} /\ h \in rst.todo
        \/ \E c \in Caller : req[c] = h /\ cpc[c] = "add"
DurableInv ==
    ~site.remote /\ phase = "ready" /\ Listed => \A h \in Hash : Sound(h) => KeptAt(h)

\* A close() that nobody disturbs has asked for the resume data of what it drops.
Closing == phase \in {"saving", "stopping", "draining", "drained"}
Safe(h) == saving[h] > 0 \/ SavedWaits(h) \/ h \in resume
CloseInv ==
    Closing /\ raced = {} =>
        /\ \A h \in Hash : rst.pc = "idle" /\ ~Handled(h)
        /\ Faults \cap {"write", "save"} = {} => \A h \in (handles \cap session) \ hurried : Safe(h)
        /\ phase = "drained" => pending = 0

IndInv ==
    /\ TypeOK /\ DownInv /\ NewsInv /\ AloneInv /\ TableInv /\ CalmInv /\ RowInv /\ ListInv
    /\ FateInv /\ DurableInv /\ PendingCovers /\ CloseInv

-----------------------------------------------------------------------------
(* The queue of alerts. *)

\* What a step that leaves the queue alone keeps.
LEMMA SameAlerts ==
    ASSUME alerts' = alerts
    PROVE  \A h : /\ Awaited(h)' <=> Awaited(h)
                  /\ Single(h)' <=> Single(h)
                  /\ AddedWaits(h)' <=> AddedWaits(h)
                  /\ SavedWaits(h)' <=> SavedWaits(h)
BY DEF Awaited, Single, AddedWaits, SavedWaits, About

\* A queue that gets longer: the alerts that were there keep their places.
LEMMA Longer ==
    ASSUME NEW S, NEW a \in Seq(S), NEW b \in Seq(S)
    PROVE  /\ a \o b \in Seq(S) /\ Len(a) \in Nat /\ Len(b) \in Nat
           /\ DOMAIN a = 1..Len(a) /\ DOMAIN (a \o b) = 1..(Len(a) + Len(b))
           /\ \A i \in DOMAIN a : i \in DOMAIN (a \o b) /\ (a \o b)[i] = a[i]
           /\ \A i \in DOMAIN (a \o b) \ DOMAIN a :
                i - Len(a) \in DOMAIN b /\ (a \o b)[i] = b[i - Len(a)]
           /\ \A i \in DOMAIN b : Len(a) + i \in DOMAIN (a \o b) /\ (a \o b)[Len(a) + i] = b[i]
OBVIOUS

\* A queue whose first alert was taken.
LEMMA Shorter ==
    ASSUME NEW S, NEW a \in Seq(S), a # <<>>
    PROVE  /\ Tail(a) \in Seq(S) /\ Head(a) = a[1] /\ a[1] \in S /\ 1 \in DOMAIN a
           /\ DOMAIN a = 1..Len(a) /\ Len(a) \in Nat \ {0} /\ DOMAIN Tail(a) = 1..(Len(a) - 1)
           /\ \A i \in DOMAIN Tail(a) : i + 1 \in DOMAIN a /\ Tail(a)[i] = a[i + 1]
           /\ \A i \in DOMAIN a : i # 1 => i - 1 \in DOMAIN Tail(a) /\ Tail(a)[i - 1] = a[i]
OBVIOUS

\* Alerts about saves only: nothing else changes.
LEMMA SavesPosted ==
    ASSUME TypeOK, NEW b \in Seq(Alert), alerts' = alerts \o b,
           \A i \in DOMAIN b : b[i].kind \in SaveAlert
    PROVE  /\ \A h : /\ Awaited(h)' <=> Awaited(h)
                     /\ Single(h) => Single(h)'
                     /\ AddedWaits(h)' <=> AddedWaits(h)
                     /\ SavedWaits(h) => SavedWaits(h)'
           /\ session' = session /\ NewsInv => NewsInv'
<1>1. alerts \in Seq(Alert)
  BY DEF TypeOK
<1>2. /\ \A i \in DOMAIN alerts : i \in DOMAIN alerts' /\ alerts'[i] = alerts[i]
      /\ \A i \in DOMAIN alerts' \ DOMAIN alerts : alerts'[i].kind \in SaveAlert
  BY <1>1, Longer
<1>3. \A i \in DOMAIN alerts : \A h : About(i, h)' <=> About(i, h)
  BY <1>2 DEF About
<1>4. \A i \in DOMAIN alerts' \ DOMAIN alerts : \A h : ~About(i, h)'
  BY <1>2 DEF About
<1>5. \A h : /\ Awaited(h)' <=> Awaited(h)
             /\ Single(h) => Single(h)'
             /\ AddedWaits(h)' <=> AddedWaits(h)
             /\ SavedWaits(h) => SavedWaits(h)'
  <2> TAKE h
  <2>1. Awaited(h)' <=> Awaited(h)
    BY <1>2, <1>3, <1>4 DEF Awaited, About
  <2>2. Single(h) => Single(h)'
    BY <1>3, <1>4 DEF Single
  <2>3. AddedWaits(h)' <=> AddedWaits(h)
    BY <1>2, <1>3, <1>4 DEF AddedWaits
  <2>4. SavedWaits(h) => SavedWaits(h)'
    BY <1>2 DEF SavedWaits, Note
  <2> QED
    BY <2>1, <2>2, <2>3, <2>4
<1>6. \A i \in DOMAIN alerts' : \A h : Last(i, h)' => i \in DOMAIN alerts /\ Last(i, h)
  BY <1>2, <1>3, <1>4 DEF Last
<1>7. session' = session /\ NewsInv => NewsInv'
  BY <1>2, <1>6 DEF NewsInv
<1> QED
  BY <1>5, <1>7

\* An alert is posted that adds a torrent or removes it, perhaps with some about saves.
LEMMA NewsPosted ==
    ASSUME TypeOK, NewsInv, NEW h \in Hash, NEW k \in {"added", "removed"}, NEW n \in Nat,
           DOMAIN alerts \cup {n} \subseteq DOMAIN alerts', alerts'[n] = Note(k, h),
           \A i \in DOMAIN alerts : alerts'[i] = alerts[i] /\ i \in Nat /\ i < n,
           \A i \in DOMAIN alerts' \ (DOMAIN alerts \cup {n}) : alerts'[i].kind \in SaveAlert,
           session' = IF k = "added" THEN session \cup {h} ELSE session \ {h}
    PROVE  /\ \A g : g # h => /\ Awaited(g)' <=> Awaited(g)
                              /\ Single(g) => Single(g)'
                              /\ AddedWaits(g)' <=> AddedWaits(g)
           /\ \A g : SavedWaits(g) => SavedWaits(g)'
           /\ ~Awaited(h) => Single(h)'
           /\ Awaited(h)'
           /\ k = "removed" => (AddedWaits(h)' => AddedWaits(h))
           /\ NewsInv'
<1>2. /\ \A i \in DOMAIN alerts : i \in DOMAIN alerts' /\ alerts'[i] = alerts[i] /\ i < n
      /\ n \in DOMAIN alerts' /\ n \notin DOMAIN alerts
      /\ alerts'[n] = Note(k, h)
  OBVIOUS
<1>0. \A i \in DOMAIN alerts' \ (DOMAIN alerts \cup {n}) :
        alerts'[i].kind \in SaveAlert /\ \A g : ~About(i, g)'
  BY DEF About
<1>3. \A i \in DOMAIN alerts : \A g : About(i, g)' <=> About(i, g)
  BY <1>2 DEF About
<1>4. \A g : About(n, g)' <=> g = h
  BY <1>2 DEF About, Note, SaveAlert
<1>5. \A g : g # h => /\ Awaited(g)' <=> Awaited(g)
                      /\ Single(g) => Single(g)'
                      /\ AddedWaits(g)' <=> AddedWaits(g)
  <2> SUFFICES ASSUME NEW g, g # h
               PROVE  /\ Awaited(g)' <=> Awaited(g)
                      /\ Single(g) => Single(g)'
                      /\ AddedWaits(g)' <=> AddedWaits(g)
    OBVIOUS
  <2>1. Awaited(g)' <=> Awaited(g)
    BY <1>0, <1>2, <1>3, <1>4 DEF Awaited, About
  <2>2. Single(g) => Single(g)'
    BY <1>0, <1>2, <1>3, <1>4 DEF Single
  <2>3. AddedWaits(g)' <=> AddedWaits(g)
    BY <1>0, <1>2, <1>3, <1>4 DEF AddedWaits
  <2> QED
    BY <2>1, <2>2, <2>3
<1>6. \A g : SavedWaits(g) => SavedWaits(g)'
  BY <1>2 DEF SavedWaits, Note
<1>7. ~Awaited(h) => Single(h)'
  BY <1>0, <1>2, <1>3, <1>4 DEF Awaited, About, Single
<1>8. Awaited(h)'
  BY <1>2, <1>4 DEF Awaited, About
<1>9. k = "removed" => (AddedWaits(h)' => AddedWaits(h))
  BY <1>0, <1>2, <1>3, <1>4 DEF AddedWaits, Note
<1>10. NewsInv'
  <2> SUFFICES ASSUME NEW i \in DOMAIN alerts', NEW g \in Hash, Last(i, g)'
               PROVE  alerts'[i].kind = "added" <=> g \in session'
    BY DEF NewsInv
  <2>1. CASE g = h
    <3>1. i = n
      BY <1>0, <1>2, <1>4, <2>1 DEF Last
    <3> QED
      BY <1>2, <2>1, <3>1 DEF Note
  <2>2. CASE g # h
    <3>1. i \in DOMAIN alerts /\ Last(i, g)
      BY <1>0, <1>2, <1>3, <1>4, <2>2 DEF Last
    <3> QED
      BY <1>2, <2>2, <3>1 DEF NewsInv
  <2> QED
    BY <2>1, <2>2
<1> QED
  BY <1>5, <1>6, <1>7, <1>8, <1>9, <1>10

\* The first alert is taken.
LEMMA AlertTaken ==
    ASSUME TypeOK, NewsInv, alerts # <<>>, alerts' = Tail(alerts), session' = session,
           NEW a, a = Head(alerts)
    PROVE  /\ a \in Alert
           /\ \A g : /\ Awaited(g)' => Awaited(g)
                     /\ AddedWaits(g)' => AddedWaits(g)
                     /\ Single(g) => Single(g)'
                     /\ SavedWaits(g) => SavedWaits(g)' \/ a = Note("saved", g)
                     /\ a.hash # g \/ a.kind \in SaveAlert => (Awaited(g)' <=> Awaited(g))
           /\ a.kind \notin SaveAlert =>
                /\ ~Awaited(a.hash)' => (a.kind = "added" <=> a.hash \in session)
                /\ Single(a.hash) => ~Awaited(a.hash)'
                /\ a.kind = "added" => AddedWaits(a.hash)
           /\ NewsInv'
<1>1. alerts \in Seq(Alert)
  BY DEF TypeOK
<1>2. /\ a = alerts[1] /\ a \in Alert /\ 1 \in DOMAIN alerts
      /\ \A i \in DOMAIN alerts' : i + 1 \in DOMAIN alerts /\ alerts'[i] = alerts[i + 1]
      /\ \A i \in DOMAIN alerts : i # 1 => i - 1 \in DOMAIN alerts' /\ alerts'[i - 1] = alerts[i]
      /\ DOMAIN alerts \subseteq Nat \ {0} /\ DOMAIN alerts' \subseteq Nat \ {0}
  BY <1>1, Shorter
<1>3. \A i \in DOMAIN alerts' : \A g : About(i, g)' <=> About(i + 1, g)
  BY <1>2 DEF About
<1>4. \A i \in DOMAIN alerts : i # 1 => \A g : About(i - 1, g)' <=> About(i, g)
  BY <1>2 DEF About
<1>5. \A g : About(1, g) <=> a.hash = g /\ a.kind \notin SaveAlert
  BY <1>2 DEF About
<1>6. \A g : Awaited(g)' => Awaited(g)
  BY <1>2, <1>3 DEF Awaited, About
<1>7. \A g : AddedWaits(g)' => AddedWaits(g)
  BY <1>2, <1>3 DEF AddedWaits
<1>8. \A g : Single(g) => Single(g)'
  <2> SUFFICES ASSUME NEW g, Single(g), NEW i \in DOMAIN alerts', NEW j \in DOMAIN alerts',
                      About(i, g)', About(j, g)'
               PROVE  i = j
    BY DEF Single
  <2>1. i + 1 = j + 1
    BY <1>2, <1>3 DEF Single
  <2> QED
    BY <1>2, <2>1
<1>9. \A g : SavedWaits(g) => SavedWaits(g)' \/ a = Note("saved", g)
  <2> SUFFICES ASSUME NEW g, NEW i \in DOMAIN alerts, alerts[i] = Note("saved", g), a # Note("saved", g)
               PROVE  \E j \in DOMAIN alerts' : alerts'[j] = Note("saved", g)
    BY DEF SavedWaits, Note
  <2>1. i # 1
    BY <1>2
  <2>2. i - 1 \in DOMAIN alerts' /\ alerts'[i - 1] = alerts[i]
    BY <1>2, <2>1
  <2> QED
    BY <2>2
<1>10. \A g : a.hash # g \/ a.kind \in SaveAlert => (Awaited(g)' <=> Awaited(g))
  <2> SUFFICES ASSUME NEW g, a.hash # g \/ a.kind \in SaveAlert, Awaited(g) PROVE Awaited(g)'
    BY <1>6
  <2>1. PICK i \in DOMAIN alerts : About(i, g)
    BY DEF Awaited, About
  <2>2. i # 1
    BY <1>5, <2>1
  <2>3. i - 1 \in DOMAIN alerts' /\ About(i - 1, g)'
    BY <1>2, <1>4, <2>1, <2>2
  <2> QED
    BY <2>3 DEF Awaited, About
<1>11. ASSUME a.kind \notin SaveAlert
       PROVE  /\ ~Awaited(a.hash)' => (a.kind = "added" <=> a.hash \in session)
              /\ Single(a.hash) => ~Awaited(a.hash)'
              /\ a.kind = "added" => AddedWaits(a.hash)
  <2>1. About(1, a.hash) /\ a.hash \in Hash
    BY <1>2, <1>5, <1>11 DEF Alert
  <2>2. ~Awaited(a.hash)' => Last(1, a.hash)
    <3> SUFFICES ASSUME ~Awaited(a.hash)', NEW j \in DOMAIN alerts, About(j, a.hash) PROVE j <= 1
      BY <2>1 DEF Last
    <3>1. j # 1 => j - 1 \in DOMAIN alerts' /\ About(j - 1, a.hash)'
      BY <1>2, <1>4
    <3>2. j = 1
      BY <3>1 DEF Awaited, About
    <3> QED
      BY <3>2
  <2>3. ~Awaited(a.hash)' => (a.kind = "added" <=> a.hash \in session)
    BY <1>2, <2>1, <2>2 DEF NewsInv
  <2>4. Single(a.hash) => ~Awaited(a.hash)'
    <3> SUFFICES ASSUME Single(a.hash), NEW i \in DOMAIN alerts', About(i, a.hash)' PROVE FALSE
      BY DEF Awaited, About
    <3>0. About(i + 1, a.hash) /\ i + 1 \in DOMAIN alerts
      BY <1>2, <1>3
    <3>1. i + 1 = 1
      BY <1>2, <2>1, <3>0 DEF Single
    <3> QED
      BY <1>2, <3>1
  <2> QED
    BY <1>2, <2>1, <2>3, <2>4 DEF AddedWaits
<1>12. NewsInv'
  <2> SUFFICES ASSUME NEW i \in DOMAIN alerts', NEW g \in Hash, Last(i, g)'
               PROVE  alerts'[i].kind = "added" <=> g \in session
    BY DEF NewsInv
  <2>1. About(i + 1, g) /\ i + 1 \in DOMAIN alerts
    BY <1>2, <1>3 DEF Last
  <2>2. \A j \in DOMAIN alerts : About(j, g) => j <= i + 1
    <3> SUFFICES ASSUME NEW j \in DOMAIN alerts, About(j, g) PROVE j <= i + 1
      OBVIOUS
    <3>1. CASE j = 1
      BY <1>2, <3>1
    <3>2. CASE j # 1
      <4>1. j - 1 \in DOMAIN alerts' /\ About(j - 1, g)'
        BY <1>2, <1>4, <3>2
      <4>2. j - 1 <= i
        BY <4>1 DEF Last
      <4> QED
        BY <1>2, <4>2
    <3> QED
      BY <3>1, <3>2
  <2>3. Last(i + 1, g)
    BY <2>1, <2>2 DEF Last
  <2> QED
    BY <1>2, <2>1, <2>3 DEF NewsInv
<1> QED
  BY <1>2, <1>6, <1>7, <1>8, <1>9, <1>10, <1>11, <1>12

\* A function on an initial segment is a sequence.
LEMMA IsASeq == ASSUME NEW S, NEW n \in Nat, NEW f \in [1..n -> S] PROVE f \in Seq(S)
OBVIOUS

\* What add_torrent means for the table and for the calls.
Added(h) ==
    /\ session' = session \cup {h} /\ saving' = saving /\ alerts' \in Seq(Alert) /\ NewsInv'
    /\ \A g : g # h => /\ Awaited(g)' <=> Awaited(g)
                       /\ Single(g) => Single(g)'
                       /\ AddedWaits(g)' <=> AddedWaits(g)
    /\ \A g : SavedWaits(g) => SavedWaits(g)'
    /\ ~Awaited(h) => Single(h)'
    /\ h \notin session => Awaited(h)'
    /\ h \in session => (Awaited(h)' <=> Awaited(h)) /\ (AddedWaits(h)' <=> AddedWaits(h))

\* add_torrent, for the queue and the session.
LEMMA LibAdds == ASSUME TypeOK, NewsInv, NEW h \in Hash, LibAdd(h) PROVE Added(h)
<1>1. alerts \in Seq(Alert) /\ Len(alerts) \in Nat /\ Note("added", h) \in Alert
  BY DEF TypeOK, Note, Alert
<1>2. CASE h \in session
  <2>1. alerts' = alerts /\ session' = session /\ saving' = saving
    BY <1>2 DEF LibAdd
  <2>2. NewsInv'
    BY <2>1 DEF NewsInv, Last, About
  <2>3. ~Awaited(h) => Single(h)
    BY DEF Awaited, Single, About
  <2> QED
    BY <1>1, <1>2, <2>1, <2>2, <2>3, SameAlerts DEF Added
<1>3. CASE h \notin session
  <2> DEFINE n == Len(alerts) + 1
  <2>1. session' = session \cup {h} /\ saving' = saving /\ alerts' = Append(alerts, Note("added", h))
    BY <1>3 DEF LibAdd
  <2>2. /\ n \in Nat /\ DOMAIN alerts' = DOMAIN alerts \cup {n} /\ alerts'[n] = Note("added", h)
        /\ \A i \in DOMAIN alerts : alerts'[i] = alerts[i] /\ i \in Nat /\ i < n
        /\ alerts' \in Seq(Alert)
    BY <1>1, <2>1
  <2> HIDE DEF n
  <2>3. session' = IF "added" = "added" THEN session \cup {h} ELSE session \ {h}
    BY <2>1
  <2>4. "added" \in {"added", "removed"}
    OBVIOUS
  <2> QED
    BY <1>3, <2>1, <2>2, <2>3, <2>4, NewsPosted DEF Added
<1> QED
  BY <1>2, <1>3

\* What remove_torrent means for them.
Removed(h) ==
    /\ session' = session \ {h} /\ saving' = [saving EXCEPT ![h] = 0]
    /\ alerts' \in Seq(Alert) /\ NewsInv'
    /\ \A g : g # h => /\ Awaited(g)' <=> Awaited(g)
                       /\ Single(g) => Single(g)'
                       /\ AddedWaits(g)' <=> AddedWaits(g)
    /\ \A g : SavedWaits(g) => SavedWaits(g)'
    /\ ~Awaited(h) => Single(h)'
    /\ Awaited(h)'
    /\ AddedWaits(h)' => AddedWaits(h)

\* remove_torrent, for the queue and the session.
LEMMA LibRemoves == ASSUME TypeOK, NewsInv, NEW h \in Hash, LibRemove(h) PROVE Removed(h)
<1> DEFINE b == [i \in 1..saving[h] |-> Note("failed", h)]
<1> DEFINE m == Len(alerts \o b)
<1> DEFINE n == m + 1
<1>1. alerts \in Seq(Alert) /\ b \in Seq(Alert) /\ Len(alerts) \in Nat /\ Note("removed", h) \in Alert
  <2>1. saving[h] \in Nat /\ Note("failed", h) \in Alert
    BY DEF TypeOK, Note, Alert
  <2>2. b \in [1..saving[h] -> Alert]
    BY <2>1
  <2>3. b \in Seq(Alert)
    BY <2>1, <2>2, IsASeq
  <2> QED
    BY <2>3 DEF TypeOK, Note, Alert
<1>2. \A i \in DOMAIN b : b[i].kind \in SaveAlert
  BY DEF Note, SaveAlert
<1> HIDE DEF b
<1>3. /\ m \in Nat /\ alerts \o b \in Seq(Alert) /\ DOMAIN (alerts \o b) = 1..m
      /\ \A i \in DOMAIN alerts : i \in DOMAIN (alerts \o b) /\ (alerts \o b)[i] = alerts[i]
      /\ \A i \in DOMAIN (alerts \o b) \ DOMAIN alerts : (alerts \o b)[i].kind \in SaveAlert
  BY <1>1, <1>2, Longer
<1>4. /\ session' = session \ {h} /\ saving' = [saving EXCEPT ![h] = 0]
      /\ alerts' = Append(alerts \o b, Note("removed", h))
  BY DEF LibRemove, b
<1>5. /\ n \in Nat /\ DOMAIN alerts' = 1..n /\ alerts'[n] = Note("removed", h)
      /\ \A i \in 1..m : alerts'[i] = (alerts \o b)[i] /\ i < n
      /\ alerts' \in Seq(Alert)
  BY <1>1, <1>3, <1>4
<1> HIDE DEF m, n
<1>6. \A i \in 1..n : i = n \/ i \in 1..m
  BY <1>3 DEF n
<1>7. /\ DOMAIN alerts \cup {n} \subseteq DOMAIN alerts'
      /\ \A i \in DOMAIN alerts : alerts'[i] = alerts[i] /\ i \in Nat /\ i < n
      /\ \A i \in DOMAIN alerts' \ (DOMAIN alerts \cup {n}) : alerts'[i].kind \in SaveAlert
  <2>1. DOMAIN alerts \subseteq 1..m
    BY <1>3
  <2>2. n \in DOMAIN alerts' /\ 1..m \subseteq 1..n
    BY <1>3, <1>5, <1>6 DEF n
  <2>3. \A i \in DOMAIN alerts : alerts'[i] = alerts[i] /\ i \in Nat /\ i < n
    BY <1>3, <1>5, <2>1
  <2>4. \A i \in DOMAIN alerts' \ (DOMAIN alerts \cup {n}) : i \in (1..m) \ DOMAIN alerts
    BY <1>5, <1>6
  <2>5. \A i \in DOMAIN alerts' \ (DOMAIN alerts \cup {n}) : alerts'[i].kind \in SaveAlert
    BY <1>3, <1>5, <2>4
  <2> QED
    BY <1>5, <2>1, <2>2, <2>3, <2>5
<1>8. session' = IF "removed" = "added" THEN session \cup {h} ELSE session \ {h}
  BY <1>4
<1>9. "removed" \in {"added", "removed"}
  OBVIOUS
<1> QED
  BY <1>4, <1>5, <1>7, <1>8, <1>9, NewsPosted DEF Removed

\* What the answer of a save means.
Saved(h) ==
    /\ session' = session /\ alerts' \in Seq(Alert) /\ NewsInv'
    /\ saving' = [saving EXCEPT ![h] = saving[h] - 1] /\ saving[h] > 0
    /\ \A g : /\ Awaited(g)' <=> Awaited(g)
              /\ Single(g) => Single(g)'
              /\ AddedWaits(g)' <=> AddedWaits(g)
              /\ SavedWaits(g) => SavedWaits(g)'
    /\ "save" \notin Faults => SavedWaits(h)'

\* The answer of a save, for the queue and the session.
LEMMA LibSaves == ASSUME TypeOK, NewsInv, NEW h \in Hash, LibSaved(h) PROVE Saved(h)
<1>1. PICK kind \in {"saved", "failed"} :
        /\ alerts' = Append(alerts, Note(kind, h))
        /\ "save" \notin Faults => kind = "saved"
  BY DEF LibSaved
<1>2. alerts \in Seq(Alert) /\ Note(kind, h) \in Alert /\ Note(kind, h).kind \in SaveAlert
  BY DEF TypeOK, Note, Alert, SaveAlert
<1> DEFINE b == <<Note(kind, h)>>
<1>3. b \in Seq(Alert) /\ alerts' = alerts \o b /\ \A i \in DOMAIN b : b[i].kind \in SaveAlert
  BY <1>1, <1>2
<1>4. alerts' \in Seq(Alert) /\ Len(alerts) + 1 \in DOMAIN alerts' /\ alerts'[Len(alerts) + 1] = Note(kind, h)
  BY <1>1, <1>2
<1> HIDE DEF b
<1>5. session' = session /\ saving' = [saving EXCEPT ![h] = saving[h] - 1] /\ saving[h] > 0
  BY DEF LibSaved
<1>6. /\ \A g : /\ Awaited(g)' <=> Awaited(g)
                /\ Single(g) => Single(g)'
                /\ AddedWaits(g)' <=> AddedWaits(g)
                /\ SavedWaits(g) => SavedWaits(g)'
      /\ NewsInv'
  BY <1>3, <1>5, SavesPosted
<1>7. "save" \notin Faults => SavedWaits(h)'
  BY <1>1, <1>4 DEF SavedWaits, Note
<1> QED
  BY <1>4, <1>5, <1>6, <1>7 DEF Saved

-----------------------------------------------------------------------------
(* Types. *)

\* A caller goes to one of its states, or returns.
LEMMA GotoTyped ==
    ASSUME TypeOK, NEW c \in Caller, NEW k \in CallerState, Goto(c, k) \/ Return(c)
    PROVE  cpc' \in [Caller -> CallerState] /\ req' \in [Caller -> Hash \cup {None}]
<1>1. "idle" \in CallerState
  BY DEF CallerState
<1>2. CASE Goto(c, k)
  BY <1>2 DEF TypeOK, Goto
<1>3. CASE Return(c)
  BY <1>1, <1>3 DEF TypeOK, Return
<1> QED
  BY <1>2, <1>3

\* save_resume_data on a set of handles.
LEMMA SavesTyped ==
    ASSUME TypeOK, NEW hs \in SUBSET Hash, RequestSaves(hs)
    PROVE  saving' \in [Hash -> Nat]
BY DEF TypeOK, RequestSaves

\* The end of a process.
LEMMA GoneTyped == ASSUME TypeOK, Gone, UNCHANGED <<site, diskVars>> PROVE TypeOK'
<1>1. alerts' \in Seq(Alert)
  BY DEF Gone
<1>2. /\ saving' \in [Hash -> Nat] /\ cpc' \in [Caller -> CallerState]
      /\ req' \in [Caller -> Hash \cup {None}] /\ seen' \in [Caller -> Status \cup {None}]
  BY DEF Gone, CallerState
<1> QED
  BY <1>1, <1>2 DEF TypeOK, Gone, diskVars, Phase, NoRestore

\* The handles that are valid are finitely many.
LEMMA HandlesCount ==
    ASSUME TypeOK, NEW hs \in {handles \cap session, {}}
    PROVE  hs \in SUBSET Hash /\ Cardinality(hs) \in Nat
<1>1. hs \in SUBSET Hash
  BY DEF TypeOK
<1>2. Cardinality(hs) \in Nat
  BY <1>1, TorrentConstants, FS_Subset, FS_CardinalityType
<1> QED
  BY <1>1, <1>2

\* What the restore lists at most.
LEMMA ListsRows == \A rows \in Listings : rows \subseteq RestoreRows /\ rows \subseteq Hash
BY DEF Listings, RestoreRows

\* The restore, as a value.
RestoreType == [pc: {"idle", "files", "addFile", "rows", "addRow"},
                todo: SUBSET Hash, cur: Hash \cup {None}]

\* The rows are listed ...
LEMMA RowsListed ==
    ASSUME NEW rows \in Listings, Listing(rows)
    PROVE  rst' \in RestoreType /\ rst'.pc = "rows" /\ rst'.todo = rows /\ rst'.cur = None
<1>1. rst' = [pc |-> "rows", todo |-> rows, cur |-> None]
  BY DEF Listing, NoRestore
<1>2. rows \in SUBSET Hash
  BY ListsRows
<1> QED
  BY <1>1, <1>2 DEF RestoreType

\* ... for the daemon ...
LEMMA RemoteList ==
    ASSUME BeginRemoteRestore
    PROVE  rst' \in RestoreType /\ rst'.pc = "rows" /\ rst'.todo \in Listings /\ rst'.cur = None
<1>1. PICK rows \in Listings : Listing(rows)
  BY DEF BeginRemoteRestore
<1> QED
  BY <1>1, RowsListed

\* ... or in the embedded session.
LEMMA RowList ==
    ASSUME RestoreList
    PROVE  /\ rst' \in RestoreType /\ rst'.pc = "rows" /\ rst'.todo \in Listings /\ rst'.cur = None
           /\ failed \subseteq failed' /\ RestoreRows \ rst'.todo \subseteq failed'
<1>1. PICK rows \in Listings : Listing(rows) /\ failed' = failed \cup (RestoreRows \ rows)
  BY DEF RestoreList
<1> QED
  BY <1>1, RowsListed

\* The restore goes on to a torrent, or passes it by.
LEMMA Goes ==
    ASSUME TypeOK, NEW h \in Hash, NEW k \in {"addFile", "addRow"},
           \E adds \in BOOLEAN : Restoring(h, adds, k)
    PROVE  /\ rst' \in RestoreType /\ rst'.todo = rst.todo \ {h}
           /\ \/ rst'.pc = rst.pc /\ rst'.cur = rst.cur
              \/ rst'.pc = k /\ rst'.cur = h
<1>1. rst \in RestoreType
  BY DEF TypeOK, RestoreType
<1>2. CASE Restoring(h, TRUE, k)
  BY <1>1, <1>2 DEF Restoring, RestoreType
<1>3. CASE Restoring(h, FALSE, k)
  BY <1>1, <1>3 DEF Restoring, RestoreType
<1> QED
  BY <1>2, <1>3

\* A file is adopted or passed by.
LEMMA FileTurn ==
    ASSUME TypeOK, NEW h \in Hash, RestoreFile(h)
    PROVE  /\ rst' \in RestoreType /\ rst'.todo = rst.todo \ {h}
           /\ \/ rst'.pc = rst.pc /\ rst'.cur = rst.cur
              \/ rst'.pc = "addFile" /\ rst'.cur = h
           /\ failed \subseteq failed' /\ failed' \subseteq Hash
<1>1. \E adds \in BOOLEAN : Restoring(h, adds, "addFile")
  BY DEF RestoreFile
<1>2. failed' = failed \/ failed' = failed \cup {h}
  BY DEF RestoreFile, Failing
<1>3. failed \subseteq failed' /\ failed' \subseteq Hash
  BY <1>2 DEF TypeOK
<1> QED
  BY <1>1, <1>3, Goes

\* A row is restored or passed by.
LEMMA ListTurn ==
    ASSUME TypeOK, NEW h \in Hash, RestoreRow(h)
    PROVE  /\ rst' \in RestoreType /\ rst'.todo = rst.todo \ {h}
           /\ \/ rst'.pc = rst.pc /\ rst'.cur = rst.cur
              \/ rst'.pc = "addRow" /\ rst'.cur = h
           /\ failed \subseteq failed' /\ failed' \subseteq Hash
<1>1. \E adds \in BOOLEAN : Restoring(h, adds, "addRow")
  BY DEF RestoreRow
<1>2. failed' = failed \/ failed' = failed \cup {h}
  BY DEF RestoreRow, Failing
<1>3. failed \subseteq failed' /\ failed' \subseteq Hash
  BY <1>2 DEF TypeOK
<1> QED
  BY <1>1, <1>3, Goes

\* What a caller's step makes of its row and of the failures.
LEMMA RowTyped ==
    ASSUME TypeOK, NEW h \in Hash, NEW status \in Status,
           row' = [row EXCEPT ![h] = status] \/ row' = row
    PROVE  row' \in [Hash -> Status] /\ \A x \in Hash : x # h => row'[x] = row[x]
BY DEF TypeOK

\* What a reconciling caller does next.
LEMMA WeighTurns ==
    ASSUME NEW c \in Caller, Weigh(c)
    PROVE  \E k \in {"settle", "remove", "decide"} : Goto(c, k) \/ Return(c)
BY DEF Weigh

\* Every step keeps the types.
LEMMA TypeStep == TypeOK /\ NewsInv /\ AloneInv /\ [Next]_vars => TypeOK'
<1> SUFFICES ASSUME TypeOK /\ NewsInv /\ AloneInv, [Next]_vars PROVE TypeOK'
  OBVIOUS
<1> USE TorrentConstants
<1>1. ASSUME Start PROVE TypeOK'
  BY <1>1 DEF Start, history, callVars, libVars, TypeOK, Phase, CallerState
<1>2. ASSUME NEW h \in Hash, LibSaved(h) PROVE TypeOK'
  <2>1. Saved(h)
    BY <1>2, LibSaves
  <2>2. session' = session /\ alerts' \in Seq(Alert)
    BY <1>2, <2>1 DEF Saved
  <2>3. saving' \in [Hash -> Nat]
    BY <1>2, <2>1 DEF Saved, TypeOK
  <2> QED
    BY <1>2, <2>1, <2>2, <2>3 DEF LibSaved, history, callVars, diskVars, TypeOK, Phase
<1>3. ASSUME NEW h \in Hash, LibDownload(h) PROVE TypeOK'
  BY <1>3 DEF LibDownload, history, callVars, libVars, TypeOK, Phase, CallerState
<1>4. ASSUME NEW h \in Hash, LoseFolder(h) PROVE TypeOK'
  BY <1>4 DEF LoseFolder, history, callVars, libVars, TypeOK, Phase, CallerState
<1>5. ASSUME ProcessAlert PROVE TypeOK'
  <2> PICK a : a = Head(alerts)
    OBVIOUS
  <2>1. a \in Alert /\ alerts' \in Seq(Alert)
    BY <1>5, Shorter DEF ProcessAlert, TypeOK
  <2>2. handles' \subseteq Hash /\ resume' \subseteq Hash /\ pending' \in Nat
    BY <1>5, <2>1 DEF ProcessAlert, HandlesAfter, WriteResume, CountDown, TypeOK, Alert
  <2> QED
    BY <1>5, <2>1, <2>2 DEF ProcessAlert, history, callVars, TypeOK
<1>6. ASSUME NEW h \in Hash, PeriodicSave(h) PROVE TypeOK'
  BY <1>6 DEF PeriodicSave, history, callVars, diskVars, RequestSaves, TypeOK, Phase,
      CallerState
<1>7. ASSUME BeginRestore PROVE TypeOK'
  BY <1>7 DEF BeginRestore, history, callVars, libVars, diskVars, NoRestore, TypeOK, Phase,
      CallerState
<1>8. ASSUME BeginRemoteRestore PROVE TypeOK'
  <2>1. rst' \in RestoreType
    BY <1>8, RemoteList
  <2> QED
    BY <1>8, <2>1 DEF BeginRemoteRestore, callVars, libVars, diskVars, RestoreType, TypeOK
<1>9. ASSUME NEW h \in Hash, RestoreFile(h) PROVE TypeOK'
  <2>1. raced' \subseteq Hash /\ hurried' \subseteq Hash
    BY <1>9 DEF RestoreFile, Witness, TypeOK
  <2>2. row' \in [Hash -> Status] /\ resume' \subseteq Hash
    BY <1>9 DEF RestoreFile, Status, TypeOK
  <2>3. rst' \in RestoreType /\ failed' \subseteq Hash
    BY <1>9, FileTurn
  <2> QED
    BY <1>9, <2>1, <2>2, <2>3 DEF RestoreFile, callVars, libVars, diskVars, RestoreType, TypeOK
<1>10. ASSUME RestoreList PROVE TypeOK'
  <2>1. rst' \in RestoreType
    BY <1>10, RowList
  <2>2. failed' \subseteq Hash
    BY <1>10 DEF RestoreList, RestoreRows, TypeOK
  <2> QED
    BY <1>10, <2>1, <2>2 DEF RestoreList, callVars, libVars, diskVars, RestoreType, TypeOK
<1>11. ASSUME NEW h \in Hash, RestoreRow(h) PROVE TypeOK'
  <2>1. raced' \subseteq Hash /\ hurried' \subseteq Hash
    BY <1>11 DEF RestoreRow, Witness, TypeOK
  <2>2. row' = row /\ resume' = resume
    BY <1>11 DEF RestoreRow, diskVars
  <2>3. rst' \in RestoreType /\ failed' \subseteq Hash
    BY <1>11, ListTurn
  <2> QED
    BY <1>11, <2>1, <2>2, <2>3 DEF RestoreRow, callVars, libVars, diskVars, RestoreType, TypeOK
<1>12. ASSUME RestoreAdd PROVE TypeOK'
  <2> PICK h : h = rst.cur
    OBVIOUS
  <2>1. h \in Hash
    BY <1>12 DEF RestoreAdd, TypeOK, AloneInv
  <2>2. session' \subseteq Hash /\ alerts' \in Seq(Alert) /\ saving' = saving /\ handles' \subseteq Hash
    <3>1. CASE LibAdd(h) /\ handles' = handles \cup {h}
      BY <2>1, <3>1, LibAdds DEF Added, TypeOK
    <3>2. CASE UNCHANGED <<libVars, handles>>
      BY <3>2 DEF libVars, TypeOK
    <3> QED
      BY <1>12, <3>1, <3>2 DEF RestoreAdd
  <2>3. failed' \subseteq Hash
    BY <1>12, <2>1 DEF RestoreAdd, Failing, TypeOK
  <2> QED
    BY <1>12, <2>1, <2>2, <2>3 DEF RestoreAdd, callVars, diskVars, TypeOK
<1>13. ASSUME RestoreEnd PROVE TypeOK'
  BY <1>13 DEF RestoreEnd, history, callVars, libVars, diskVars, NoRestore, TypeOK, Phase,
      CallerState
<1>14. ASSUME NEW c \in Caller, NEW op \in AllOps, NEW h \in Hash, Call(c, op, h) PROVE TypeOK'
  <2>1. raced' \subseteq Hash /\ hurried' \subseteq Hash
    BY <1>14 DEF Call, Witness, TypeOK
  <2>2. cpc' \in [Caller -> CallerState] /\ req' \in [Caller -> Hash \cup {None}]
    BY <1>14 DEF Call, FirstStep, AllOps, TypeOK, CallerState
  <2> QED
    BY <1>14, <2>1, <2>2 DEF Call, libVars, diskVars, Witness, Handled, FirstStep, TypeOK,
        Phase
<1>15. ASSUME NEW c \in Caller, SaveRow(c) PROVE TypeOK'
  <2>1. req[c] \in Hash
    BY <1>15 DEF SaveRow, TypeOK, AloneInv
  <2>2. "add" \in CallerState /\ (Goto(c, "add") \/ Return(c))
    BY <1>15 DEF SaveRow, CallerState
  <2>3. cpc' \in [Caller -> CallerState] /\ req' \in [Caller -> Hash \cup {None}]
    BY <2>2, GotoTyped
  <2>4. row' \in [Hash -> Status]
    <3>1. row[req[c]] \in Status
      BY <2>1 DEF TypeOK
    <3>2. PICK r \in Status : row' = [row EXCEPT ![req[c]] = r]
      BY <1>15, <3>1 DEF SaveRow, Cleared, Indexed, Status
    <3> QED
      BY <2>1, <3>2, RowTyped
  <2>5. failed' \subseteq Hash
    BY <1>15, <2>1 DEF SaveRow, Failing, TypeOK
  <2> QED
    BY <1>15, <2>3, <2>4, <2>5 DEF SaveRow, libVars, TypeOK
<1>16. ASSUME NEW c \in Caller, Add(c) PROVE TypeOK'
  <2> PICK h : h = req[c]
    OBVIOUS
  <2>1. req[c] \in Hash
    BY <1>16 DEF Add, TypeOK, AloneInv
  <2>2. session' \subseteq Hash /\ alerts' \in Seq(Alert) /\ saving' = saving
    BY <1>16, <2>1, LibAdds DEF Add, Added, libVars, TypeOK
  <2>3. cpc' \in [Caller -> CallerState] /\ req' \in [Caller -> Hash \cup {None}]
    <3>1. "register" \in CallerState /\ (Goto(c, "register") \/ Return(c))
      BY <1>16 DEF Add, CallerState
    <3> QED
      BY <3>1, GotoTyped
  <2>4. payload' \in [Hash -> {"missing", "folder", "partial", "full"}]
    <3>1. payload' = payload \/ payload' = [payload EXCEPT ![req[c]] =
                 IF payload[req[c]] = "missing" THEN "folder" ELSE payload[req[c]]]
      BY <1>16 DEF Add
    <3>2. payload \in [Hash -> {"missing", "folder", "partial", "full"}]
      BY DEF TypeOK
    <3>3. PICK p \in {"missing", "folder", "partial", "full"} :
            payload' = payload \/ payload' = [payload EXCEPT ![req[c]] = p]
      BY <2>1, <3>1, <3>2
    <3> QED
      BY <2>1, <3>2, <3>3
  <2>5. failed' \subseteq Hash
    BY <1>16, <2>1 DEF Add, Failing, TypeOK
  <2> QED
    BY <1>16, <2>2, <2>3, <2>4, <2>5 DEF Add, TypeOK
<1>17. ASSUME NEW c \in Caller, Register(c) PROVE TypeOK'
  <2>1. "count" \in CallerState /\ (Goto(c, "count") \/ Return(c))
    BY <1>17 DEF Register, CallerState
  <2>2. cpc' \in [Caller -> CallerState] /\ req' \in [Caller -> Hash \cup {None}]
    BY <2>1, GotoTyped
  <2>3. req[c] \in Hash
    BY <1>17 DEF Register, TypeOK, AloneInv
  <2>4. saving' \in [Hash -> Nat] /\ handles' \subseteq Hash
    <3>1. CASE saving' = saving
      BY <1>17, <2>3, <3>1 DEF Register, TypeOK
    <3>2. CASE RequestSaves({req[c]} \cap session)
      BY <1>17, <2>3, <3>2, SavesTyped DEF Register, TypeOK
    <3> QED
      BY <1>17, <3>1, <3>2 DEF Register
  <2> QED
    BY <1>17, <2>2, <2>4 DEF Register, history, diskVars, TypeOK
<1>18. ASSUME NEW c \in Caller, Count(c) PROVE TypeOK'
  BY <1>18 DEF Count, history, libVars, diskVars, Return, TypeOK, Phase, CallerState
<1>19. ASSUME NEW c \in Caller, Move(c) PROVE TypeOK'
  <2>1. "count" \in CallerState /\ (Goto(c, "count") \/ Return(c))
    BY <1>19 DEF Move, CallerState
  <2>2. cpc' \in [Caller -> CallerState] /\ req' \in [Caller -> Hash \cup {None}]
    BY <2>1, GotoTyped
  <2>3. req[c] \in Hash
    BY <1>19 DEF Move, TypeOK, AloneInv
  <2>4. saving' \in [Hash -> Nat]
    <3>1. CASE saving' = saving
      BY <3>1 DEF TypeOK
    <3>2. CASE RequestSaves({req[c]})
      BY <2>3, <3>2, SavesTyped
    <3> QED
      BY <1>19, <3>1, <3>2 DEF Move
  <2> QED
    BY <1>19, <2>2, <2>4 DEF Move, history, diskVars, TypeOK
<1>20. ASSUME NEW c \in Caller, MarkDeleted(c) PROVE TypeOK'
  <2>1. req[c] \in Hash
    BY <1>20 DEF MarkDeleted, TypeOK, AloneInv
  <2>2. row' \in [Hash -> Status] /\ failed' \subseteq Hash
    BY <1>20, <2>1 DEF MarkDeleted, Failing, Status, TypeOK
  <2> QED
    BY <1>20, <2>2 DEF MarkDeleted, libVars, Goto, TypeOK, CallerState
<1>21. ASSUME NEW c \in Caller, RemoveTorrent(c) PROVE TypeOK'
  <2> PICK h : h = req[c]
    OBVIOUS
  <2>1. req[c] \in Hash
    BY <1>21 DEF RemoveTorrent, TypeOK, AloneInv
  <2>2. PICK k \in {"unlink", "pop"} : Goto(c, k) \/ Return(c)
    BY <1>21 DEF RemoveTorrent
  <2>3. k \in CallerState
    BY DEF CallerState
  <2>4. cpc' \in [Caller -> CallerState] /\ req' \in [Caller -> Hash \cup {None}]
    BY <2>2, <2>3, GotoTyped
  <2>5. session' \subseteq Hash /\ alerts' \in Seq(Alert) /\ saving' \in [Hash -> Nat]
    <3>1. CASE UNCHANGED libVars
      BY <3>1 DEF libVars, TypeOK
    <3>2. CASE LibRemove(h)
      <4>1. h \in Hash /\ Removed(h)
        BY <2>1, <3>2, LibRemoves
      <4>2. session' = session \ {h} /\ alerts' \in Seq(Alert) /\ saving' = [saving EXCEPT ![h] = 0]
        BY <4>1 DEF Removed
      <4> QED
        BY <4>1, <4>2 DEF TypeOK
    <3> QED
      BY <1>21, <3>1, <3>2 DEF RemoveTorrent
  <2> QED
    BY <1>21, <2>4, <2>5 DEF RemoveTorrent, history, diskVars, TypeOK
<1>22. ASSUME NEW c \in Caller, Pop(c) PROVE TypeOK'
  BY <1>22 DEF Pop, history, libVars, diskVars, Goto, TypeOK, Phase, CallerState
<1>23. ASSUME NEW c \in Caller, Unlink(c) PROVE TypeOK'
  BY <1>23 DEF Unlink, history, libVars, Return, TypeOK, Phase, CallerState
<1>24. ASSUME NEW c \in Caller, Reconcile(c) PROVE TypeOK'
  <2>1. PICK k \in {"weigh"} : Goto(c, k) \/ Return(c)
    BY <1>24 DEF Reconcile
  <2>2. k \in CallerState
    BY DEF CallerState
  <2>3. cpc' \in [Caller -> CallerState] /\ req' \in [Caller -> Hash \cup {None}]
    BY <2>1, <2>2, GotoTyped
  <2>4. seen' \in [Caller -> Status \cup {None}]
    BY <1>24 DEF Reconcile, TypeOK, AloneInv
  <2> QED
    BY <1>24, <2>3, <2>4 DEF Reconcile, history, libVars, diskVars, TypeOK
<1>25. ASSUME NEW c \in Caller, Weigh(c) PROVE TypeOK'
  <2>1. PICK k \in {"settle", "remove", "decide"} : Goto(c, k) \/ Return(c)
    BY <1>25, WeighTurns
  <2>2. k \in CallerState
    BY DEF CallerState
  <2>3. cpc' \in [Caller -> CallerState] /\ req' \in [Caller -> Hash \cup {None}]
    BY <2>1, <2>2, GotoTyped
  <2> QED
    BY <1>25, <2>3 DEF Weigh, history, libVars, diskVars, TypeOK
<1>26. ASSUME NEW c \in Caller, Settle(c) PROVE TypeOK'
  <2>1. req[c] \in Hash
    BY <1>26 DEF Settle, TypeOK, AloneInv
  <2>2. "decide" \in CallerState /\ (Goto(c, "decide") \/ Return(c))
    BY <1>26 DEF Settle, CallerState
  <2>3. cpc' \in [Caller -> CallerState] /\ req' \in [Caller -> Hash \cup {None}]
    BY <2>2, GotoTyped
  <2>4. row' \in [Hash -> Status]
    <3>1. row[req[c]] \in Status /\ "complete" \in Status
      BY <2>1 DEF TypeOK, Status
    <3>2. PICK r \in Status : row' = [row EXCEPT ![req[c]] = r] \/ row' = row
      BY <1>26, <3>1 DEF Settle
    <3> QED
      BY <2>1, <3>2, RowTyped
  <2> QED
    BY <1>26, <2>3, <2>4 DEF Settle, history, libVars, TypeOK
<1>27. ASSUME NEW c \in Caller, Decide(c) PROVE TypeOK'
  <2>1. PICK k \in {"condemn"} : Goto(c, k) \/ Return(c)
    BY <1>27 DEF Decide
  <2>2. k \in CallerState
    BY DEF CallerState
  <2>3. cpc' \in [Caller -> CallerState] /\ req' \in [Caller -> Hash \cup {None}]
    BY <2>1, <2>2, GotoTyped
  <2> QED
    BY <1>27, <2>3 DEF Decide, history, libVars, diskVars, TypeOK
<1>28. ASSUME NEW c \in Caller, LookComplete(c) PROVE TypeOK'
  <2>1. "write" \in CallerState /\ (Goto(c, "write") \/ Return(c))
    BY <1>28 DEF LookComplete, CallerState
  <2>2. cpc' \in [Caller -> CallerState] /\ req' \in [Caller -> Hash \cup {None}]
    BY <2>1, GotoTyped
  <2>3. failed' \subseteq Hash
    <3>1. req[c] \in Hash
      BY <1>28 DEF LookComplete, TypeOK, AloneInv
    <3> QED
      BY <1>28, <3>1 DEF LookComplete, Failing, TypeOK
  <2> QED
    BY <1>28, <2>2, <2>3 DEF LookComplete, diskVars, libVars, TypeOK
<1>29. ASSUME NEW c \in Caller, WriteComplete(c) PROVE TypeOK'
  <2>1. req[c] \in Hash
    BY <1>29 DEF WriteComplete, TypeOK, AloneInv
  <2>2. "idle" \in CallerState /\ (Goto(c, "idle") \/ Return(c))
    BY <1>29 DEF WriteComplete, CallerState
  <2>3. cpc' \in [Caller -> CallerState] /\ req' \in [Caller -> Hash \cup {None}]
    BY <2>2, GotoTyped
  <2>4. row' \in [Hash -> Status]
    <3>1. row[req[c]] \in Status /\ "complete" \in Status
      BY <2>1 DEF TypeOK, Status
    <3>2. PICK r \in Status : row' = [row EXCEPT ![req[c]] = r] \/ row' = row
      BY <1>29, <3>1 DEF WriteComplete
    <3> QED
      BY <2>1, <3>2, RowTyped
  <2> QED
    BY <1>29, <2>3, <2>4 DEF WriteComplete, history, libVars, TypeOK
<1>30. ASSUME Close PROVE TypeOK'
  <2>1. PICK hs \in {handles \cap session, {}} : RequestSaves(hs) /\ pending' = pending + Cardinality(hs)
    BY <1>30 DEF Close
  <2>2. hs \in SUBSET Hash /\ Cardinality(hs) \in Nat
    BY <2>1, HandlesCount
  <2>3. saving' \in [Hash -> Nat] /\ pending' \in Nat
    BY <2>1, <2>2, SavesTyped DEF TypeOK
  <2> QED
    BY <1>30, <2>3 DEF Close, callVars, diskVars, history, InProgress, TypeOK, Phase
<1>31. ASSUME CloseStop PROVE TypeOK'
  BY <1>31 DEF CloseStop, history, callVars, libVars, diskVars, TypeOK, Phase
<1>32. ASSUME Drain PROVE TypeOK'
  <2>1. PICK hs \in {handles \cap session, {}} : RequestSaves(hs) /\ pending' = pending + Cardinality(hs)
    BY <1>32 DEF Drain
  <2>2. hs \in SUBSET Hash /\ Cardinality(hs) \in Nat
    BY <2>1, HandlesCount
  <2>3. saving' \in [Hash -> Nat] /\ pending' \in Nat
    BY <2>1, <2>2, SavesTyped DEF TypeOK
  <2> QED
    BY <1>32, <2>3 DEF Drain, callVars, diskVars, history, InProgress, TypeOK, Phase
<1>33. ASSUME Drained PROVE TypeOK'
  BY <1>33 DEF Drained, history, callVars, libVars, diskVars, TypeOK, Phase, CallerState
<1>34. ASSUME CloseDone PROVE TypeOK'
  <2> QED
    BY <1>34, GoneTyped DEF CloseDone
<1>35. ASSUME Crash PROVE TypeOK'
  <2> QED
    BY <1>35, GoneTyped DEF Crash
<1>36. CASE UNCHANGED vars
  BY <1>36 DEF vars, diskVars, libVars, callVars, history, TypeOK, Phase, CallerState
<1> QED
  BY <1>1, <1>2, <1>3, <1>4, <1>5, <1>6, <1>7, <1>8, <1>9, <1>10, <1>11, <1>12, <1>13,
      <1>14, <1>15, <1>16, <1>17, <1>18, <1>19, <1>20, <1>21, <1>22, <1>23, <1>24,
      <1>25, <1>26, <1>27, <1>28, <1>29, <1>30, <1>31, <1>32, <1>33, <1>34, <1>35, <1>36
      DEF Next, Library, AlertThread, Restore, CallerStep, Shutdown

\* The last alert about a torrent stays the news about it.
LEMMA NewsStep == TypeOK /\ NewsInv /\ AloneInv /\ [Next]_vars => NewsInv'
<1> SUFFICES ASSUME TypeOK /\ NewsInv /\ AloneInv, [Next]_vars PROVE NewsInv'
  OBVIOUS
<1>1. ASSUME Start PROVE NewsInv'
  BY <1>1 DEF Start, history, callVars, libVars, NewsInv, Last, About
<1>2. ASSUME NEW h \in Hash, LibSaved(h) PROVE NewsInv'
  <2> QED
    BY <1>2, LibSaves DEF Saved
<1>3. ASSUME NEW h \in Hash, LibDownload(h) PROVE NewsInv'
  BY <1>3 DEF LibDownload, history, callVars, libVars, NewsInv, Last, About
<1>4. ASSUME NEW h \in Hash, LoseFolder(h) PROVE NewsInv'
  BY <1>4 DEF LoseFolder, history, callVars, libVars, NewsInv, Last, About
<1>5. ASSUME ProcessAlert PROVE NewsInv'
  <2> QED
    BY <1>5, AlertTaken DEF ProcessAlert
<1>6. ASSUME NEW h \in Hash, PeriodicSave(h) PROVE NewsInv'
  BY <1>6 DEF PeriodicSave, history, callVars, diskVars, NewsInv, Last, About
<1>7. ASSUME BeginRestore PROVE NewsInv'
  BY <1>7 DEF BeginRestore, history, callVars, libVars, diskVars, NoRestore, NewsInv, Last,
      About
<1>8. ASSUME BeginRemoteRestore PROVE NewsInv'
  BY <1>8 DEF BeginRemoteRestore, history, callVars, libVars, diskVars, NoRestore, NewsInv,
      Last, About
<1>9. ASSUME NEW h \in Hash, RestoreFile(h) PROVE NewsInv'
  BY <1>9 DEF RestoreFile, callVars, libVars, NewsInv, Last, About
<1>10. ASSUME RestoreList PROVE NewsInv'
  BY <1>10 DEF RestoreList, history, callVars, libVars, diskVars, NewsInv, Last, About
<1>11. ASSUME NEW h \in Hash, RestoreRow(h) PROVE NewsInv'
  BY <1>11 DEF RestoreRow, callVars, libVars, diskVars, NewsInv, Last, About
<1>12. ASSUME RestoreAdd PROVE NewsInv'
  <2> PICK h : h = rst.cur
    OBVIOUS
  <2>1. rst.cur \in Hash
    BY <1>12 DEF RestoreAdd, TypeOK, AloneInv
  <2>2. UNCHANGED <<alerts, session>> \/ LibAdd(h)
    BY <1>12 DEF RestoreAdd, libVars
  <2> QED
    BY <2>1, <2>2, LibAdds DEF Added, NewsInv, Last, About
<1>13. ASSUME RestoreEnd PROVE NewsInv'
  BY <1>13 DEF RestoreEnd, history, callVars, libVars, diskVars, NoRestore, NewsInv, Last,
      About
<1>14. ASSUME NEW c \in Caller, NEW op \in AllOps, NEW h \in Hash, Call(c, op, h) PROVE NewsInv'
  BY <1>14 DEF Call, libVars, diskVars, NewsInv, Last, About
<1>15. ASSUME NEW c \in Caller, SaveRow(c) PROVE NewsInv'
  BY <1>15 DEF SaveRow, history, libVars, NewsInv, Last, About
<1>16. ASSUME NEW c \in Caller, Add(c) PROVE NewsInv'
  <2> PICK h : h = req[c]
    OBVIOUS
  <2>1. req[c] \in Hash
    BY <1>16 DEF Add, TypeOK, AloneInv
  <2>2. UNCHANGED <<alerts, session>> \/ LibAdd(h)
    BY <1>16 DEF Add, libVars
  <2> QED
    BY <2>1, <2>2, LibAdds DEF Added, NewsInv, Last, About
<1>17. ASSUME NEW c \in Caller, Register(c) PROVE NewsInv'
  BY <1>17 DEF Register, history, diskVars, NewsInv, Last, About
<1>18. ASSUME NEW c \in Caller, Count(c) PROVE NewsInv'
  BY <1>18 DEF Count, history, libVars, diskVars, NewsInv, Last, About
<1>19. ASSUME NEW c \in Caller, Move(c) PROVE NewsInv'
  BY <1>19 DEF Move, history, diskVars, Connected, NewsInv, Last, About
<1>20. ASSUME NEW c \in Caller, MarkDeleted(c) PROVE NewsInv'
  BY <1>20 DEF MarkDeleted, history, libVars, NewsInv, Last, About
<1>21. ASSUME NEW c \in Caller, RemoveTorrent(c) PROVE NewsInv'
  <2> PICK h : h = req[c]
    OBVIOUS
  <2>1. req[c] \in Hash
    BY <1>21 DEF RemoveTorrent, TypeOK, AloneInv
  <2>2. UNCHANGED <<alerts, session>> \/ LibRemove(h)
    BY <1>21 DEF RemoveTorrent, libVars
  <2> QED
    BY <2>1, <2>2, LibRemoves DEF Removed, NewsInv, Last, About
<1>22. ASSUME NEW c \in Caller, Pop(c) PROVE NewsInv'
  BY <1>22 DEF Pop, history, libVars, diskVars, NewsInv, Last, About
<1>23. ASSUME NEW c \in Caller, Unlink(c) PROVE NewsInv'
  BY <1>23 DEF Unlink, history, libVars, NewsInv, Last, About
<1>24. ASSUME NEW c \in Caller, Reconcile(c) PROVE NewsInv'
  BY <1>24 DEF Reconcile, history, libVars, diskVars, NewsInv, Last, About
<1>25. ASSUME NEW c \in Caller, Weigh(c) PROVE NewsInv'
  BY <1>25 DEF Weigh, history, libVars, diskVars, NewsInv, Last, About
<1>26. ASSUME NEW c \in Caller, Settle(c) PROVE NewsInv'
  BY <1>26 DEF Settle, history, libVars, diskVars, NewsInv, Last, About
<1>27. ASSUME NEW c \in Caller, Decide(c) PROVE NewsInv'
  BY <1>27 DEF Decide, history, libVars, diskVars, NewsInv, Last, About
<1>28. ASSUME NEW c \in Caller, LookComplete(c) PROVE NewsInv'
  BY <1>28 DEF LookComplete, history, libVars, diskVars, NewsInv, Last, About
<1>29. ASSUME NEW c \in Caller, WriteComplete(c) PROVE NewsInv'
  BY <1>29 DEF WriteComplete, history, libVars, NewsInv, Last, About
<1>30. ASSUME Close PROVE NewsInv'
  BY <1>30 DEF Close, callVars, diskVars, NewsInv, Last, About
<1>31. ASSUME CloseStop PROVE NewsInv'
  BY <1>31 DEF CloseStop, history, callVars, libVars, diskVars, NewsInv, Last, About
<1>32. ASSUME Drain PROVE NewsInv'
  BY <1>32 DEF Drain, history, callVars, diskVars, NewsInv, Last, About
<1>33. ASSUME Drained PROVE NewsInv'
  BY <1>33 DEF Drained, history, callVars, libVars, diskVars, NewsInv, Last, About
<1>34. ASSUME CloseDone PROVE NewsInv'
  <2> QED
    BY <1>34 DEF CloseDone, Gone, NewsInv, Last, About
<1>35. ASSUME Crash PROVE NewsInv'
  <2> QED
    BY <1>35 DEF Crash, Gone, NewsInv, Last, About
<1>36. CASE UNCHANGED vars
  BY <1>36 DEF vars, diskVars, libVars, callVars, history, NewsInv, Last, About
<1> QED
  BY <1>1, <1>2, <1>3, <1>4, <1>5, <1>6, <1>7, <1>8, <1>9, <1>10, <1>11, <1>12, <1>13,
      <1>14, <1>15, <1>16, <1>17, <1>18, <1>19, <1>20, <1>21, <1>22, <1>23, <1>24,
      <1>25, <1>26, <1>27, <1>28, <1>29, <1>30, <1>31, <1>32, <1>33, <1>34, <1>35, <1>36
      DEF Next, Library, AlertThread, Restore, CallerStep, Shutdown

-----------------------------------------------------------------------------
(* The control of the process. *)

\* A process that is down has left nothing in memory.
LEMMA DownStep == TypeOK /\ DownInv /\ AloneInv /\ [Next]_vars => DownInv'
<1> SUFFICES ASSUME TypeOK /\ DownInv /\ AloneInv, [Next]_vars PROVE DownInv'
  OBVIOUS
<1>1. ASSUME Start PROVE DownInv'
  BY <1>1 DEF Start, history, callVars, libVars, DownInv, TypeOK, AloneInv, NoRestore
<1>2. ASSUME NEW h \in Hash, LibSaved(h) PROVE DownInv'
  BY <1>2 DEF LibSaved, history, callVars, diskVars, DownInv, TypeOK, AloneInv, NoRestore
<1>3. ASSUME NEW h \in Hash, LibDownload(h) PROVE DownInv'
  BY <1>3 DEF LibDownload, history, callVars, libVars, DownInv, TypeOK, AloneInv, NoRestore
<1>4. ASSUME NEW h \in Hash, LoseFolder(h) PROVE DownInv'
  BY <1>4 DEF LoseFolder, history, callVars, libVars, DownInv, TypeOK, AloneInv, NoRestore
<1>5. ASSUME ProcessAlert PROVE DownInv'
  BY <1>5 DEF ProcessAlert, history, callVars, CountDown, WriteResume, HandlesAfter,
      DownInv, TypeOK, AloneInv, NoRestore
<1>6. ASSUME NEW h \in Hash, PeriodicSave(h) PROVE DownInv'
  BY <1>6 DEF Connected, PeriodicSave, history, callVars, diskVars, DownInv, TypeOK, AloneInv,
      NoRestore
<1>7. ASSUME BeginRestore PROVE DownInv'
  BY <1>7 DEF Connected, BeginRestore, history, callVars, libVars, diskVars, NoRestore, DownInv,
      TypeOK, AloneInv
<1>8. ASSUME BeginRemoteRestore PROVE DownInv'
  BY <1>8 DEF Connected, BeginRemoteRestore, history, callVars, libVars, diskVars, NoRestore, DownInv,
      TypeOK, AloneInv
<1>9. ASSUME NEW h \in Hash, RestoreFile(h) PROVE DownInv'
  BY <1>9 DEF RestoreFile, callVars, libVars, DownInv, TypeOK, AloneInv, NoRestore
<1>10. ASSUME RestoreList PROVE DownInv'
  BY <1>10 DEF RestoreList, history, callVars, libVars, diskVars, DownInv, TypeOK,
      AloneInv, NoRestore
<1>11. ASSUME NEW h \in Hash, RestoreRow(h) PROVE DownInv'
  BY <1>11 DEF RestoreRow, callVars, libVars, diskVars, DownInv, TypeOK, AloneInv,
      NoRestore
<1>12. ASSUME RestoreAdd PROVE DownInv'
  BY <1>12 DEF RestoreAdd, history, callVars, diskVars, DownInv, TypeOK, AloneInv,
      NoRestore
<1>13. ASSUME RestoreEnd PROVE DownInv'
  BY <1>13 DEF RestoreEnd, history, callVars, libVars, diskVars, NoRestore, DownInv,
      TypeOK, AloneInv
<1>14. ASSUME NEW c \in Caller, NEW op \in AllOps, NEW h \in Hash, Call(c, op, h) PROVE DownInv'
  BY <1>14 DEF Connected, Call, libVars, diskVars, DownInv, TypeOK, AloneInv, NoRestore
<1>15. ASSUME NEW c \in Caller, SaveRow(c) PROVE DownInv'
  BY <1>15 DEF SaveRow, history, libVars, Goto, Return, DownInv, TypeOK, AloneInv, NoRestore
<1>16. ASSUME NEW c \in Caller, Add(c) PROVE DownInv'
  BY <1>16 DEF Add, history, Goto, libVars, Return, Connected, DownInv, TypeOK, AloneInv,
      NoRestore
<1>17. ASSUME NEW c \in Caller, Register(c) PROVE DownInv'
  BY <1>17 DEF Register, history, diskVars, Return, Goto, DownInv, TypeOK, AloneInv,
      NoRestore
<1>18. ASSUME NEW c \in Caller, Count(c) PROVE DownInv'
  BY <1>18 DEF Count, history, libVars, diskVars, Return, DownInv, TypeOK, AloneInv,
      NoRestore
<1>19. ASSUME NEW c \in Caller, Move(c) PROVE DownInv'
  BY <1>19 DEF Move, history, diskVars, Return, Goto, Connected, DownInv, TypeOK, AloneInv,
      NoRestore
<1>20. ASSUME NEW c \in Caller, MarkDeleted(c) PROVE DownInv'
  BY <1>20 DEF MarkDeleted, history, libVars, Goto, DownInv, TypeOK, AloneInv, NoRestore
<1>21. ASSUME NEW c \in Caller, RemoveTorrent(c) PROVE DownInv'
  BY <1>21 DEF RemoveTorrent, history, diskVars, Goto, Connected, libVars, Return, DownInv,
      TypeOK, AloneInv, NoRestore
<1>22. ASSUME NEW c \in Caller, Pop(c) PROVE DownInv'
  BY <1>22 DEF Pop, history, libVars, diskVars, Goto, DownInv, TypeOK, AloneInv, NoRestore
<1>23. ASSUME NEW c \in Caller, Unlink(c) PROVE DownInv'
  BY <1>23 DEF Unlink, history, libVars, Return, DownInv, TypeOK, AloneInv, NoRestore
<1>24. ASSUME NEW c \in Caller, Reconcile(c) PROVE DownInv'
  BY <1>24 DEF Reconcile, history, libVars, diskVars, Goto, Return, DownInv, TypeOK, AloneInv, NoRestore
<1>25. ASSUME NEW c \in Caller, Weigh(c) PROVE DownInv'
  BY <1>25 DEF Weigh, history, libVars, diskVars, Goto, Return, DownInv, TypeOK, AloneInv, NoRestore
<1>26. ASSUME NEW c \in Caller, Settle(c) PROVE DownInv'
  BY <1>26 DEF Settle, history, libVars, diskVars, Goto, Return, DownInv, TypeOK, AloneInv, NoRestore
<1>27. ASSUME NEW c \in Caller, Decide(c) PROVE DownInv'
  BY <1>27 DEF Decide, history, libVars, diskVars, Goto, Return, DownInv, TypeOK, AloneInv, NoRestore
<1>28. ASSUME NEW c \in Caller, LookComplete(c) PROVE DownInv'
  BY <1>28 DEF LookComplete, history, libVars, diskVars, Return, Goto, DownInv, TypeOK,
      AloneInv, NoRestore
<1>29. ASSUME NEW c \in Caller, WriteComplete(c) PROVE DownInv'
  BY <1>29 DEF WriteComplete, history, libVars, Return, DownInv, TypeOK, AloneInv,
      NoRestore
<1>30. ASSUME Close PROVE DownInv'
  BY <1>30 DEF Close, callVars, diskVars, DownInv, TypeOK, AloneInv, NoRestore
<1>31. ASSUME CloseStop PROVE DownInv'
  BY <1>31 DEF CloseStop, history, callVars, libVars, diskVars, DownInv, TypeOK, AloneInv, NoRestore
<1>32. ASSUME Drain PROVE DownInv'
  BY <1>32 DEF Drain, history, callVars, diskVars, DownInv, TypeOK, AloneInv, NoRestore
<1>33. ASSUME Drained PROVE DownInv'
  BY <1>33 DEF Drained, history, callVars, libVars, diskVars, DownInv, TypeOK, AloneInv,
      NoRestore
<1>34. ASSUME CloseDone PROVE DownInv'
  <2> QED
    BY <1>34 DEF CloseDone, Gone, DownInv
<1>35. ASSUME Crash PROVE DownInv'
  <2> QED
    BY <1>35 DEF Crash, Gone, DownInv
<1>36. CASE UNCHANGED vars
  BY <1>36 DEF vars, diskVars, libVars, callVars, history, DownInv, TypeOK, AloneInv,
      NoRestore
<1> QED
  BY <1>1, <1>2, <1>3, <1>4, <1>5, <1>6, <1>7, <1>8, <1>9, <1>10, <1>11, <1>12, <1>13,
      <1>14, <1>15, <1>16, <1>17, <1>18, <1>19, <1>20, <1>21, <1>22, <1>23, <1>24,
      <1>25, <1>26, <1>27, <1>28, <1>29, <1>30, <1>31, <1>32, <1>33, <1>34, <1>35, <1>36
      DEF Next, Library, AlertThread, Restore, CallerStep, Shutdown

\* What the restore has listed keeps a row.
LEMMA ListStep == TypeOK /\ DownInv /\ AloneInv /\ ListInv /\ [Next]_vars => ListInv'
<1> SUFFICES ASSUME TypeOK /\ DownInv /\ AloneInv /\ ListInv, [Next]_vars PROVE ListInv'
  OBVIOUS
<1>1. ASSUME Start PROVE ListInv'
  BY <1>1 DEF Start, history, callVars, libVars, ListInv, DownInv, TypeOK, NoRestore
<1>2. ASSUME NEW h \in Hash, LibSaved(h) PROVE ListInv'
  BY <1>2 DEF LibSaved, history, callVars, diskVars, ListInv, DownInv, TypeOK, NoRestore
<1>3. ASSUME NEW h \in Hash, LibDownload(h) PROVE ListInv'
  BY <1>3 DEF LibDownload, history, callVars, libVars, ListInv, DownInv, TypeOK, NoRestore
<1>4. ASSUME NEW h \in Hash, LoseFolder(h) PROVE ListInv'
  BY <1>4 DEF LoseFolder, history, callVars, libVars, ListInv, DownInv, TypeOK, NoRestore
<1>5. ASSUME ProcessAlert PROVE ListInv'
  BY <1>5 DEF ProcessAlert, history, callVars, CountDown, WriteResume, HandlesAfter,
      ListInv, DownInv, TypeOK, NoRestore
<1>6. ASSUME NEW h \in Hash, PeriodicSave(h) PROVE ListInv'
  BY <1>6 DEF Connected, PeriodicSave, history, callVars, diskVars, ListInv, DownInv, TypeOK,
      NoRestore
<1>7. ASSUME BeginRestore PROVE ListInv'
  BY <1>7 DEF Connected, BeginRestore, history, callVars, libVars, diskVars, NoRestore, ListInv,
      DownInv, TypeOK
<1>8. ASSUME BeginRemoteRestore PROVE ListInv'
  <2>1. rst'.pc = "rows" /\ rst'.todo \subseteq RestoreRows
    BY <1>8, RemoteList, ListsRows
  <2> QED
    BY <1>8, <2>1 DEF BeginRemoteRestore, diskVars, RestoreRows, ListInv
<1>9. ASSUME NEW h \in Hash, RestoreFile(h) PROVE ListInv'
  BY <1>9, FileTurn DEF RestoreFile, ListInv
<1>10. ASSUME RestoreList PROVE ListInv'
  <2>1. rst'.pc = "rows" /\ rst'.todo \subseteq RestoreRows
    BY <1>10, RowList, ListsRows
  <2> QED
    BY <1>10, <2>1 DEF RestoreList, diskVars, RestoreRows, ListInv
<1>11. ASSUME NEW h \in Hash, RestoreRow(h) PROVE ListInv'
  BY <1>11, ListTurn DEF RestoreRow, diskVars, ListInv
<1>12. ASSUME RestoreAdd PROVE ListInv'
  BY <1>12 DEF RestoreAdd, history, callVars, diskVars, ListInv, DownInv, TypeOK, NoRestore
<1>13. ASSUME RestoreEnd PROVE ListInv'
  BY <1>13 DEF RestoreEnd, history, callVars, libVars, diskVars, NoRestore, ListInv,
      DownInv, TypeOK
<1>14. ASSUME NEW c \in Caller, NEW op \in AllOps, NEW h \in Hash, Call(c, op, h) PROVE ListInv'
  BY <1>14 DEF Connected, Call, libVars, diskVars, ListInv, DownInv, TypeOK, NoRestore
<1>15. ASSUME NEW c \in Caller, SaveRow(c) PROVE ListInv'
  <2>1. req[c] \in Hash /\ \A x \in Hash : row[x] # "absent" => row'[x] # "absent"
    BY <1>15 DEF SaveRow, Cleared, Indexed, TypeOK, AloneInv
  <2> QED
    BY <1>15, <2>1 DEF SaveRow, ListInv, TypeOK
<1>16. ASSUME NEW c \in Caller, Add(c) PROVE ListInv'
  BY <1>16 DEF Add, history, libVars, Connected, ListInv, DownInv, TypeOK, NoRestore
<1>17. ASSUME NEW c \in Caller, Register(c) PROVE ListInv'
  BY <1>17 DEF Register, history, diskVars, ListInv, DownInv, TypeOK, NoRestore
<1>18. ASSUME NEW c \in Caller, Count(c) PROVE ListInv'
  BY <1>18 DEF Count, history, libVars, diskVars, ListInv, DownInv, TypeOK, NoRestore
<1>19. ASSUME NEW c \in Caller, Move(c) PROVE ListInv'
  BY <1>19 DEF Move, history, diskVars, Connected, ListInv, DownInv, TypeOK, NoRestore
<1>20. ASSUME NEW c \in Caller, MarkDeleted(c) PROVE ListInv'
  BY <1>20 DEF MarkDeleted, history, libVars, ListInv, DownInv, TypeOK, NoRestore
<1>21. ASSUME NEW c \in Caller, RemoveTorrent(c) PROVE ListInv'
  BY <1>21 DEF RemoveTorrent, history, diskVars, Connected, libVars, ListInv, DownInv,
      TypeOK, NoRestore
<1>22. ASSUME NEW c \in Caller, Pop(c) PROVE ListInv'
  BY <1>22 DEF Pop, history, libVars, diskVars, ListInv, DownInv, TypeOK, NoRestore
<1>23. ASSUME NEW c \in Caller, Unlink(c) PROVE ListInv'
  BY <1>23 DEF Unlink, history, libVars, ListInv, DownInv, TypeOK, NoRestore
<1>24. ASSUME NEW c \in Caller, Reconcile(c) PROVE ListInv'
  BY <1>24 DEF Reconcile, history, libVars, diskVars, ListInv, DownInv, TypeOK, NoRestore
<1>25. ASSUME NEW c \in Caller, Weigh(c) PROVE ListInv'
  BY <1>25 DEF Weigh, history, libVars, diskVars, ListInv, DownInv, TypeOK, NoRestore
<1>26. ASSUME NEW c \in Caller, Settle(c) PROVE ListInv'
  BY <1>26 DEF Settle, history, libVars, diskVars, ListInv, DownInv, TypeOK, NoRestore
<1>27. ASSUME NEW c \in Caller, Decide(c) PROVE ListInv'
  BY <1>27 DEF Decide, history, libVars, diskVars, ListInv, DownInv, TypeOK, NoRestore
<1>28. ASSUME NEW c \in Caller, LookComplete(c) PROVE ListInv'
  BY <1>28 DEF LookComplete, history, libVars, diskVars, ListInv, DownInv, TypeOK,
      NoRestore
<1>29. ASSUME NEW c \in Caller, WriteComplete(c) PROVE ListInv'
  BY <1>29 DEF WriteComplete, history, libVars, ListInv, DownInv, TypeOK, NoRestore
<1>30. ASSUME Close PROVE ListInv'
  BY <1>30 DEF Close, callVars, diskVars, ListInv, DownInv, TypeOK, NoRestore
<1>31. ASSUME CloseStop PROVE ListInv'
  BY <1>31 DEF CloseStop, history, callVars, libVars, diskVars, ListInv, DownInv, TypeOK, NoRestore
<1>32. ASSUME Drain PROVE ListInv'
  BY <1>32 DEF Drain, history, callVars, diskVars, ListInv, DownInv, TypeOK, NoRestore
<1>33. ASSUME Drained PROVE ListInv'
  BY <1>33 DEF Drained, history, callVars, libVars, diskVars, ListInv, DownInv, TypeOK,
      NoRestore
<1>34. ASSUME CloseDone PROVE ListInv'
  <2> QED
    BY <1>34 DEF CloseDone, Gone, ListInv, NoRestore
<1>35. ASSUME Crash PROVE ListInv'
  <2> QED
    BY <1>35 DEF Crash, Gone, ListInv, NoRestore
<1>36. CASE UNCHANGED vars
  BY <1>36 DEF vars, diskVars, libVars, callVars, history, ListInv, DownInv, TypeOK,
      NoRestore
<1> QED
  BY <1>1, <1>2, <1>3, <1>4, <1>5, <1>6, <1>7, <1>8, <1>9, <1>10, <1>11, <1>12, <1>13,
      <1>14, <1>15, <1>16, <1>17, <1>18, <1>19, <1>20, <1>21, <1>22, <1>23, <1>24,
      <1>25, <1>26, <1>27, <1>28, <1>29, <1>30, <1>31, <1>32, <1>33, <1>34, <1>35, <1>36
      DEF Next, Library, AlertThread, Restore, CallerStep, Shutdown

\* A caller's step leaves the other callers where they are.
LEMMA OneCaller ==
    ASSUME TypeOK, NEW c \in Caller, NEW k, Goto(c, k) \/ Return(c)
    PROVE  /\ \A d \in Caller : d # c => cpc'[d] = cpc[d] /\ req'[d] = req[d]
           /\ \/ cpc'[c] = k /\ req'[c] = req[c] /\ Goto(c, k)
              \/ cpc'[c] = "idle" /\ req'[c] = None /\ Return(c)
<1>1. CASE Goto(c, k)
  BY <1>1 DEF TypeOK, Goto
<1>2. CASE Return(c)
  BY <1>2 DEF TypeOK, Return
<1> QED
  BY <1>1, <1>2

\* A step of a caller about its torrent is no race.
LEMMA AloneTurn ==
    ASSUME TypeOK, AloneInv, NEW c \in Caller, NEW k, k # "idle", cpc[c] # "idle",
           Goto(c, k) \/ Return(c), UNCHANGED <<rst, raced>>
    PROVE  AloneInv'
<1>1. /\ \A d \in Caller : d # c => cpc'[d] = cpc[d] /\ req'[d] = req[d]
      /\ \/ cpc'[c] = k /\ req'[c] = req[c]
         \/ cpc'[c] = "idle" /\ req'[c] = None
  BY OneCaller
<1> QED
  BY <1>1 DEF AloneInv

\* A call that turns to a torrent another is about is a race.
LEMMA AloneStep == TypeOK /\ AloneInv /\ [Next]_vars => AloneInv'
<1> SUFFICES ASSUME TypeOK /\ AloneInv, [Next]_vars PROVE AloneInv'
  OBVIOUS
<1> USE TorrentConstants
<1>1. ASSUME Start PROVE AloneInv'
  BY <1>1 DEF Start, history, callVars, libVars, AloneInv, TypeOK
<1>2. ASSUME NEW h \in Hash, LibSaved(h) PROVE AloneInv'
  BY <1>2 DEF LibSaved, history, callVars, diskVars, AloneInv, TypeOK
<1>3. ASSUME NEW h \in Hash, LibDownload(h) PROVE AloneInv'
  BY <1>3 DEF LibDownload, history, callVars, libVars, AloneInv, TypeOK
<1>4. ASSUME NEW h \in Hash, LoseFolder(h) PROVE AloneInv'
  BY <1>4 DEF LoseFolder, history, callVars, libVars, AloneInv, TypeOK
<1>5. ASSUME ProcessAlert PROVE AloneInv'
  BY <1>5 DEF ProcessAlert, history, callVars, CountDown, WriteResume, HandlesAfter,
      AloneInv, TypeOK
<1>6. ASSUME NEW h \in Hash, PeriodicSave(h) PROVE AloneInv'
  BY <1>6 DEF PeriodicSave, history, callVars, diskVars, AloneInv, TypeOK
<1>7. ASSUME BeginRestore PROVE AloneInv'
  BY <1>7 DEF BeginRestore, history, callVars, libVars, diskVars, NoRestore, AloneInv,
      TypeOK
<1>8. ASSUME BeginRemoteRestore PROVE AloneInv'
  <2>1. rst'.pc = "rows" /\ rst'.cur = None
    BY <1>8, RemoteList
  <2>2. UNCHANGED <<cpc, req>> /\ raced \subseteq raced'
    BY <1>8 DEF BeginRemoteRestore, callVars, TypeOK
  <2> QED
    BY <2>1, <2>2 DEF AloneInv
<1>9. ASSUME NEW h \in Hash, RestoreFile(h) PROVE AloneInv'
  <2>1. /\ rst.pc = "files" /\ UNCHANGED <<cpc, req>>
        /\ raced' = IF Handled(h) \/ phase = "saving" THEN raced \cup {h} ELSE raced
    BY <1>9 DEF RestoreFile, Witness, callVars
  <2>2. \/ rst'.pc = rst.pc /\ rst'.cur = rst.cur
        \/ rst'.pc = "addFile" /\ rst'.cur = h
    BY <1>9, FileTurn
  <2> QED
    BY <2>1, <2>2 DEF AloneInv, Handled
<1>10. ASSUME RestoreList PROVE AloneInv'
  <2>1. rst'.pc = "rows" /\ rst'.cur = None
    BY <1>10, RowList
  <2>2. UNCHANGED <<cpc, req, raced>>
    BY <1>10 DEF RestoreList, callVars
  <2> QED
    BY <2>1, <2>2 DEF AloneInv
<1>11. ASSUME NEW h \in Hash, RestoreRow(h) PROVE AloneInv'
  <2>1. /\ rst.pc = "rows" /\ UNCHANGED <<cpc, req>>
        /\ raced' = IF Handled(h) \/ phase = "saving" THEN raced \cup {h} ELSE raced
    BY <1>11 DEF RestoreRow, Witness, callVars
  <2>2. \/ rst'.pc = rst.pc /\ rst'.cur = rst.cur
        \/ rst'.pc = "addRow" /\ rst'.cur = h
    BY <1>11, ListTurn
  <2> QED
    BY <2>1, <2>2 DEF AloneInv, Handled
<1>12. ASSUME RestoreAdd PROVE AloneInv'
  BY <1>12 DEF RestoreAdd, history, callVars, diskVars, AloneInv, TypeOK
<1>13. ASSUME RestoreEnd PROVE AloneInv'
  BY <1>13 DEF RestoreEnd, history, callVars, libVars, diskVars, NoRestore, AloneInv,
      TypeOK
<1>14. ASSUME NEW c \in Caller, NEW op \in AllOps, NEW h \in Hash, Call(c, op, h) PROVE AloneInv'
  <2>1. /\ cpc[c] = "idle" /\ UNCHANGED rst /\ FirstStep(op) # "idle"
        /\ cpc'[c] = FirstStep(op) /\ req'[c] = h
        /\ \A d \in Caller : d # c => cpc'[d] = cpc[d] /\ req'[d] = req[d]
    BY <1>14 DEF Call, FirstStep, AllOps, TypeOK
  <2>2. raced \subseteq raced' /\ (h \in raced' \/ (rst.cur # h /\ \A d \in Caller : req[d] # h))
    BY <1>14 DEF Call, Witness, Handled
  <2>3. h # None
    OBVIOUS
  <2> HIDE DEF AloneInv
  <2>4. \A d \in Caller : req'[d] = None <=> cpc'[d] = "idle"
    BY <2>1, <2>3 DEF AloneInv
  <2>5. rst'.cur = None <=> rst'.pc \notin {"addFile", "addRow"}
    BY <2>1 DEF AloneInv
  <2>6. ASSUME NEW d \in Caller, req'[d] # None, req'[d] \notin raced'
        PROVE  rst'.cur # req'[d] /\ \A e \in Caller : req'[e] = req'[d] => e = d
    <3>1. CASE d = c
      BY <2>1, <2>2, <2>6, <3>1
    <3>2. CASE d # c
      <4>1. req'[d] = req[d] /\ req[d] \notin raced
        BY <2>1, <2>2, <2>6, <3>2
      <4> QED
        BY <2>1, <2>2, <2>6, <3>2, <4>1 DEF AloneInv
    <3> QED
      BY <3>1, <3>2
  <2> QED
    BY <2>4, <2>5, <2>6 DEF AloneInv
<1>15. ASSUME NEW c \in Caller, SaveRow(c) PROVE AloneInv'
  <2>1. (Goto(c, "add") \/ Return(c)) /\ cpc[c] # "idle" /\ UNCHANGED <<rst, raced>>
    BY <1>15 DEF SaveRow
  <2> QED
    BY <2>1, AloneTurn
<1>16. ASSUME NEW c \in Caller, Add(c) PROVE AloneInv'
  <2>1. (Goto(c, "register") \/ Return(c)) /\ cpc[c] # "idle" /\ UNCHANGED <<rst, raced>>
    BY <1>16 DEF Add, history
  <2> QED
    BY <2>1, AloneTurn
<1>17. ASSUME NEW c \in Caller, Register(c) PROVE AloneInv'
  <2>1. (Goto(c, "count") \/ Return(c)) /\ cpc[c] # "idle" /\ UNCHANGED <<rst, raced>>
    BY <1>17 DEF Register, history
  <2> QED
    BY <2>1, AloneTurn
<1>18. ASSUME NEW c \in Caller, Count(c) PROVE AloneInv'
  BY <1>18 DEF Count, history, libVars, diskVars, Return, AloneInv, TypeOK
<1>19. ASSUME NEW c \in Caller, Move(c) PROVE AloneInv'
  <2>1. (Goto(c, "count") \/ Return(c)) /\ cpc[c] # "idle" /\ UNCHANGED <<rst, raced>>
    BY <1>19 DEF Move, history
  <2> QED
    BY <2>1, AloneTurn
<1>20. ASSUME NEW c \in Caller, MarkDeleted(c) PROVE AloneInv'
  BY <1>20 DEF MarkDeleted, history, libVars, Goto, AloneInv, TypeOK
<1>21. ASSUME NEW c \in Caller, RemoveTorrent(c) PROVE AloneInv'
  <2>1. PICK k \in {"unlink", "pop"} : Goto(c, k) \/ Return(c)
    BY <1>21 DEF RemoveTorrent
  <2>2. k # "idle" /\ cpc[c] # "idle" /\ UNCHANGED <<rst, raced>>
    BY <1>21 DEF RemoveTorrent, history
  <2> QED
    BY <2>1, <2>2, AloneTurn
<1>22. ASSUME NEW c \in Caller, Pop(c) PROVE AloneInv'
  BY <1>22 DEF Pop, history, libVars, diskVars, Goto, AloneInv, TypeOK
<1>23. ASSUME NEW c \in Caller, Unlink(c) PROVE AloneInv'
  BY <1>23 DEF Unlink, history, libVars, Return, AloneInv, TypeOK
<1>24. ASSUME NEW c \in Caller, Reconcile(c) PROVE AloneInv'
  <2>1. PICK k \in {"weigh"} : Goto(c, k) \/ Return(c)
    BY <1>24 DEF Reconcile
  <2>2. k # "idle" /\ cpc[c] # "idle" /\ UNCHANGED <<rst, raced>>
    BY <1>24 DEF Reconcile, history
  <2> QED
    BY <2>1, <2>2, AloneTurn
<1>25. ASSUME NEW c \in Caller, Weigh(c) PROVE AloneInv'
  <2>1. PICK k \in {"settle", "remove", "decide"} : Goto(c, k) \/ Return(c)
    BY <1>25, WeighTurns
  <2>2. k # "idle" /\ cpc[c] # "idle" /\ UNCHANGED <<rst, raced>>
    BY <1>25 DEF Weigh, history
  <2> QED
    BY <2>1, <2>2, AloneTurn
<1>26. ASSUME NEW c \in Caller, Settle(c) PROVE AloneInv'
  <2>1. PICK k \in {"decide"} : Goto(c, k) \/ Return(c)
    BY <1>26 DEF Settle
  <2>2. k # "idle" /\ cpc[c] # "idle" /\ UNCHANGED <<rst, raced>>
    BY <1>26 DEF Settle, history
  <2> QED
    BY <2>1, <2>2, AloneTurn
<1>27. ASSUME NEW c \in Caller, Decide(c) PROVE AloneInv'
  <2>1. PICK k \in {"condemn"} : Goto(c, k) \/ Return(c)
    BY <1>27 DEF Decide
  <2>2. k # "idle" /\ cpc[c] # "idle" /\ UNCHANGED <<rst, raced>>
    BY <1>27 DEF Decide, history
  <2> QED
    BY <2>1, <2>2, AloneTurn
<1>28. ASSUME NEW c \in Caller, LookComplete(c) PROVE AloneInv'
  <2>1. (Goto(c, "write") \/ Return(c)) /\ cpc[c] # "idle" /\ UNCHANGED <<rst, raced>>
    BY <1>28 DEF LookComplete
  <2> QED
    BY <2>1, AloneTurn
<1>29. ASSUME NEW c \in Caller, WriteComplete(c) PROVE AloneInv'
  BY <1>29 DEF WriteComplete, history, libVars, Return, AloneInv, TypeOK
<1>30. ASSUME Close PROVE AloneInv'
  BY <1>30 DEF Close, callVars, diskVars, InProgress, Handled, AloneInv, TypeOK
<1>31. ASSUME CloseStop PROVE AloneInv'
  BY <1>31 DEF CloseStop, history, callVars, libVars, diskVars, AloneInv, TypeOK
<1>32. ASSUME Drain PROVE AloneInv'
  BY <1>32 DEF Drain, history, callVars, diskVars, AloneInv, TypeOK
<1>33. ASSUME Drained PROVE AloneInv'
  BY <1>33 DEF Drained, history, callVars, libVars, diskVars, AloneInv, TypeOK
<1>34. ASSUME CloseDone PROVE AloneInv'
  <2> QED
    BY <1>34 DEF CloseDone, Gone, AloneInv, NoRestore
<1>35. ASSUME Crash PROVE AloneInv'
  <2> QED
    BY <1>35 DEF Crash, Gone, AloneInv, NoRestore
<1>36. CASE UNCHANGED vars
  BY <1>36 DEF vars, diskVars, libVars, callVars, history, AloneInv, TypeOK
<1> QED
  BY <1>1, <1>2, <1>3, <1>4, <1>5, <1>6, <1>7, <1>8, <1>9, <1>10, <1>11, <1>12, <1>13,
      <1>14, <1>15, <1>16, <1>17, <1>18, <1>19, <1>20, <1>21, <1>22, <1>23, <1>24,
      <1>25, <1>26, <1>27, <1>28, <1>29, <1>30, <1>31, <1>32, <1>33, <1>34, <1>35, <1>36
      DEF Next, Library, AlertThread, Restore, CallerStep, Shutdown

-----------------------------------------------------------------------------
(* The handles table. *)

\* A step of a caller that touches neither the table nor the session.
LEMMA TableTurn ==
    ASSUME TypeOK, NEW g \in Hash, TableAt(g), NEW c \in Caller,
           NEW k, k \notin {"register", "pop"}, Goto(c, k) \/ Return(c),
           cpc[c] \notin {"register", "pop"}, UNCHANGED <<handles, session, alerts>>
    PROVE  TableAt(g)'
<1>1. /\ \A d \in Caller : d # c => cpc'[d] = cpc[d] /\ req'[d] = req[d]
      /\ cpc'[c] \notin {"register", "pop"}
  BY OneCaller
<1>2. (Half(g)' <=> Half(g)) /\ (Awaited(g)' <=> Awaited(g))
  BY <1>1, SameAlerts DEF Half
<1> QED
  BY <1>1, <1>2 DEF TableAt

\* Table and session part only while an alert or a call is on its way.
LEMMA TableStep ==
    ASSUME TypeOK, NewsInv, AloneInv, TableInv, [Next]_vars, NEW g \in Hash, g \notin
        raced'
    PROVE  TableAt(g)'
<1>1. ASSUME Start PROVE TableAt(g)'
  BY <1>1, SameAlerts DEF Start, history, callVars, libVars, TableInv, TableAt, Half,
      TypeOK
<1>2. ASSUME NEW h \in Hash, LibSaved(h) PROVE TableAt(g)'
  <2>1. TableAt(g) /\ UNCHANGED <<handles, session, req, cpc>> /\ (Awaited(g)' <=> Awaited(g))
    BY <1>2, LibSaves DEF LibSaved, history, callVars, Saved, TableInv
  <2> QED
    BY <2>1 DEF TableAt, Half
<1>3. ASSUME NEW h \in Hash, LibDownload(h) PROVE TableAt(g)'
  BY <1>3, SameAlerts DEF LibDownload, history, callVars, libVars, TableInv, TableAt, Half,
      TypeOK
<1>4. ASSUME NEW h \in Hash, LoseFolder(h) PROVE TableAt(g)'
  BY <1>4, SameAlerts DEF LoseFolder, history, callVars, libVars, TableInv, TableAt, Half,
      TypeOK
<1>5. ASSUME ProcessAlert PROVE TableAt(g)'
  <2> PICK a : a = Head(alerts)
    OBVIOUS
  <2>1. TableAt(g) /\ UNCHANGED <<session, req, cpc>> /\ alerts # <<>> /\ alerts' = Tail(alerts)
    BY <1>5 DEF ProcessAlert, history, callVars, TableInv
  <2>2. handles' = HandlesAfter(a)
    BY <1>5 DEF ProcessAlert
  <2>3. CASE a.kind \in SaveAlert \/ a.hash # g
    <3>1. Awaited(g)' <=> Awaited(g)
      BY <2>1, <2>3, AlertTaken
    <3>2. g \in handles' <=> g \in handles
      BY <2>2, <2>3 DEF HandlesAfter, SaveAlert
    <3> QED
      BY <2>1, <3>1, <3>2 DEF TableAt, Half
  <2>4. CASE a.kind \notin SaveAlert /\ a.hash = g
    <3>1. a \in Alert /\ (~Awaited(g)' => (a.kind = "added" <=> g \in session))
      BY <2>1, <2>4, AlertTaken
    <3>2. g \in handles' <=> a.kind = "added"
      BY <2>2, <2>4, <3>1 DEF HandlesAfter, SaveAlert, Alert
    <3> QED
      BY <2>1, <3>1, <3>2 DEF TableAt, Half
  <2> QED
    BY <2>3, <2>4
<1>6. ASSUME NEW h \in Hash, PeriodicSave(h) PROVE TableAt(g)'
  BY <1>6, SameAlerts DEF PeriodicSave, history, callVars, diskVars, TableInv, TableAt,
      Half, TypeOK
<1>7. ASSUME BeginRestore PROVE TableAt(g)'
  <2>1. UNCHANGED <<handles, session, req, cpc, alerts>> /\ raced \subseteq raced'
    BY <1>7 DEF BeginRestore, callVars, libVars, TypeOK
  <2> QED
    BY <2>1, SameAlerts DEF TableInv, TableAt, Half
<1>8. ASSUME BeginRemoteRestore PROVE TableAt(g)'
  <2>1. UNCHANGED <<handles, session, req, cpc, alerts>> /\ raced \subseteq raced'
    BY <1>8 DEF BeginRemoteRestore, callVars, libVars, TypeOK
  <2> QED
    BY <2>1, SameAlerts DEF TableInv, TableAt, Half
<1>9. ASSUME NEW h \in Hash, RestoreFile(h) PROVE TableAt(g)'
  <2>1. /\ UNCHANGED <<handles, session, req, cpc, alerts>> /\ raced \subseteq raced'
    BY <1>9 DEF RestoreFile, Witness, libVars, callVars
  <2> QED
    BY <2>1, SameAlerts DEF TableInv, TableAt, Half
<1>10. ASSUME RestoreList PROVE TableAt(g)'
  <2>1. UNCHANGED <<handles, session, req, cpc, alerts, raced>>
    BY <1>10 DEF RestoreList, callVars, libVars
  <2> QED
    BY <2>1, SameAlerts DEF TableInv, TableAt, Half
<1>11. ASSUME NEW h \in Hash, RestoreRow(h) PROVE TableAt(g)'
  <2>1. /\ UNCHANGED <<handles, session, req, cpc, alerts>> /\ raced \subseteq raced'
    BY <1>11 DEF RestoreRow, Witness, libVars, callVars
  <2> QED
    BY <2>1, SameAlerts DEF TableInv, TableAt, Half
<1>12. ASSUME RestoreAdd PROVE TableAt(g)'
  <2> PICK h : h = rst.cur
    OBVIOUS
  <2>1. /\ rst.cur \in Hash /\ UNCHANGED <<req, cpc>> /\ TableAt(g)
    BY <1>12 DEF RestoreAdd, TypeOK, AloneInv, callVars, history, TableInv
  <2>2. (Added(h) /\ handles' = handles \cup {h}) \/ UNCHANGED <<libVars, handles>>
    BY <1>12, <2>1, LibAdds DEF RestoreAdd
  <2>5. CASE UNCHANGED <<libVars, handles>>
    BY <2>1, <2>5, SameAlerts DEF libVars, TableAt, Half
  <2>3. CASE Added(h) /\ handles' = handles \cup {h} /\ g = h
    <3>1. g \in handles' /\ g \in session'
      BY <2>1, <2>2, <2>3 DEF Added
    <3>2. \A d \in Caller : req[d] # g
      BY <1>12, <2>1, <2>3, TorrentConstants DEF AloneInv, RestoreAdd, history
    <3> QED
      BY <2>1, <3>1, <3>2 DEF TableAt, Half
  <2>4. CASE Added(h) /\ handles' = handles \cup {h} /\ g # h
    <3>1. /\ g \in handles' <=> g \in handles
          /\ g \in session' <=> g \in session
          /\ Awaited(g)' <=> Awaited(g)
      BY <2>1, <2>2, <2>4 DEF Added
    <3> QED
      BY <2>1, <3>1 DEF TableAt, Half
  <2> QED
    BY <2>2, <2>3, <2>4, <2>5
<1>13. ASSUME RestoreEnd PROVE TableAt(g)'
  BY <1>13, SameAlerts DEF RestoreEnd, history, callVars, libVars, diskVars, NoRestore,
      TableInv, TableAt, Half, TypeOK
<1>14. ASSUME NEW c \in Caller, NEW op \in AllOps, NEW h \in Hash, Call(c, op, h) PROVE TableAt(g)'
  <2>1. /\ raced \subseteq raced' /\ UNCHANGED <<handles, session, alerts>>
        /\ cpc[c] = "idle" /\ cpc'[c] \notin {"register", "pop"}
        /\ \A d \in Caller : d # c => cpc'[d] = cpc[d] /\ req'[d] = req[d]
    BY <1>14 DEF Call, Witness, FirstStep, AllOps, TypeOK, libVars
  <2>2. Half(g)' <=> Half(g)
    BY <2>1 DEF Half
  <2> QED
    BY <2>1, <2>2, SameAlerts DEF TableInv, TableAt
<1>15. ASSUME NEW c \in Caller, SaveRow(c) PROVE TableAt(g)'
  <2>1. Goto(c, "add") \/ Return(c)
    BY <1>15 DEF SaveRow
  <2>2. TableAt(g) /\ cpc[c] \notin {"register", "pop"} /\ UNCHANGED <<handles, session, alerts>>
    BY <1>15 DEF SaveRow, history, libVars, TableInv
  <2> QED
    BY <2>1, <2>2, TableTurn
<1>16. ASSUME NEW c \in Caller, Add(c) PROVE TableAt(g)'
  <2> PICK h : h = req[c]
    OBVIOUS
  <2>1. /\ req[c] \in Hash /\ cpc[c] = "add" /\ UNCHANGED <<handles, rst, raced>>
        /\ TableAt(g)
    BY <1>16 DEF Add, TypeOK, AloneInv, history, TableInv
  <2>2. CASE Return(c) /\ UNCHANGED libVars
    BY <2>1, <2>2, TableTurn DEF libVars
  <2>3. CASE LibAdd(h) /\ Goto(c, "register")
    <3>1. /\ Added(h) /\ cpc'[c] = "register" /\ req'[c] = req[c]
          /\ \A d \in Caller : d # c => cpc'[d] = cpc[d] /\ req'[d] = req[d]
      BY <2>1, <2>3, LibAdds DEF TypeOK, Goto
    <3>2. CASE g = req[c]
      <4>1. g \in session' /\ Half(g)'
        BY <3>1, <3>2 DEF Added, Half
      <4>2. \A d \in Caller : req[d] = g => d = c
        BY <2>1, <3>2 DEF AloneInv
      <4> QED
        BY <3>1, <4>1, <4>2 DEF TableAt
    <3>3. CASE g # req[c]
      <4>1. /\ g \in session' <=> g \in session
            /\ Awaited(g)' <=> Awaited(g)
            /\ Half(g)' <=> Half(g)
        BY <3>1, <3>3 DEF Added, Half
      <4> QED
        BY <2>1, <3>1, <3>3, <4>1 DEF TableAt
    <3> QED
      BY <3>2, <3>3
  <2> QED
    BY <1>16, <2>2, <2>3 DEF Add
<1>17. ASSUME NEW c \in Caller, Register(c) PROVE TableAt(g)'
  <2>1. /\ req[c] \in Hash /\ cpc[c] = "register" /\ UNCHANGED <<session, alerts, rst, raced>>
        /\ handles' = handles \cup {req[c]} /\ TableAt(g) /\ (Goto(c, "count") \/ Return(c))
    BY <1>17 DEF Register, TypeOK, AloneInv, history, TableInv
  <2>2. \A d \in Caller : d # c => cpc'[d] = cpc[d] /\ req'[d] = req[d]
    BY <2>1, OneCaller
  <2>3. cpc'[c] \notin {"register", "pop"}
    BY <2>1, OneCaller
  <2>4. CASE g = req[c]
    <3>1. g \in session /\ g \in handles'
      BY <2>1, <2>4 DEF TableAt
    <3>2. \A d \in Caller : req[d] = g => d = c
      BY <2>1, <2>4 DEF AloneInv
    <3> QED
      BY <2>1, <2>2, <2>3, <3>1, <3>2 DEF TableAt
  <2>5. CASE g # req[c]
    <3>1. (g \in handles' <=> g \in handles) /\ (Half(g)' <=> Half(g)) /\ (Awaited(g)' <=> Awaited(g))
      BY <2>1, <2>2, <2>3, <2>5, SameAlerts DEF Half
    <3> QED
      BY <2>1, <2>2, <2>3, <3>1 DEF TableAt
  <2> QED
    BY <2>4, <2>5
<1>18. ASSUME NEW c \in Caller, Count(c) PROVE TableAt(g)'
  BY <1>18, SameAlerts DEF Count, history, libVars, diskVars, Return, TableInv, TableAt,
      Half, TypeOK
<1>19. ASSUME NEW c \in Caller, Move(c) PROVE TableAt(g)'
  <2>1. Goto(c, "count") \/ Return(c)
    BY <1>19 DEF Move
  <2>2. TableAt(g) /\ cpc[c] \notin {"register", "pop"} /\ UNCHANGED <<handles, session, alerts>>
    BY <1>19 DEF Move, history, libVars, TableInv
  <2>3. "count" \notin {"register", "pop"}
    BY <2>1
  <2> QED
    BY <2>1, <2>2, <2>3, TableTurn
<1>20. ASSUME NEW c \in Caller, MarkDeleted(c) PROVE TableAt(g)'
  <2>1. Goto(c, "remove") \/ Return(c)
    BY <1>20 DEF MarkDeleted
  <2>2. TableAt(g) /\ cpc[c] \notin {"register", "pop"} /\ UNCHANGED <<handles, session, alerts>>
    BY <1>20 DEF MarkDeleted, history, libVars, TableInv
  <2> QED
    BY <2>1, <2>2, TableTurn
<1>21. ASSUME NEW c \in Caller, RemoveTorrent(c) PROVE TableAt(g)'
  <2> PICK h : h = req[c]
    OBVIOUS
  <2>1. /\ req[c] \in Hash /\ cpc[c] = "remove" /\ UNCHANGED <<handles, rst, raced>> /\ TableAt(g)
    BY <1>21 DEF RemoveTorrent, TypeOK, AloneInv, history, TableInv
  <2>2. CASE (Return(c) \/ Goto(c, "unlink")) /\ UNCHANGED libVars
    BY <2>1, <2>2, TableTurn DEF libVars
  <2>3. CASE LibRemove(h) /\ Goto(c, "pop")
    <3>1. /\ Removed(h) /\ cpc'[c] = "pop" /\ req'[c] = req[c]
          /\ \A d \in Caller : d # c => cpc'[d] = cpc[d] /\ req'[d] = req[d]
      BY <2>1, <2>3, LibRemoves DEF TypeOK, Goto
    <3>2. CASE g = req[c]
      <4>1. g \notin session' /\ Half(g)'
        BY <3>1, <3>2 DEF Removed, Half
      <4>2. \A d \in Caller : req[d] = g => d = c
        BY <2>1, <3>2 DEF AloneInv
      <4> QED
        BY <3>1, <4>1, <4>2 DEF TableAt
    <3>3. CASE g # req[c]
      <4>1. /\ g \in session' <=> g \in session
            /\ Awaited(g)' <=> Awaited(g)
            /\ Half(g)' <=> Half(g)
        BY <3>1, <3>3 DEF Removed, Half
      <4> QED
        BY <2>1, <3>1, <3>3, <4>1 DEF TableAt
    <3> QED
      BY <3>2, <3>3
  <2> QED
    BY <1>21, <2>2, <2>3 DEF RemoveTorrent
<1>22. ASSUME NEW c \in Caller, Pop(c) PROVE TableAt(g)'
  BY <1>22, SameAlerts DEF Pop, history, libVars, diskVars, Goto, TableInv, TableAt, Half,
      TypeOK
<1>23. ASSUME NEW c \in Caller, Unlink(c) PROVE TableAt(g)'
  BY <1>23, SameAlerts DEF Unlink, history, libVars, Return, TableInv, TableAt, Half,
      TypeOK
<1>24. ASSUME NEW c \in Caller, Reconcile(c) PROVE TableAt(g)'
  <2>1. Goto(c, "weigh") \/ Return(c)
    BY <1>24 DEF Reconcile
  <2>2. TableAt(g) /\ cpc[c] \notin {"register", "pop"} /\ UNCHANGED <<handles, session, alerts>>
    BY <1>24 DEF Reconcile, history, libVars, TableInv
  <2> QED
    BY <2>1, <2>2, TableTurn
<1>25. ASSUME NEW c \in Caller, Weigh(c) PROVE TableAt(g)'
  <2>1. PICK k \in {"settle", "remove", "decide"} : Goto(c, k) \/ Return(c)
    BY <1>25, WeighTurns
  <2>2. TableAt(g) /\ cpc[c] \notin {"register", "pop"} /\ UNCHANGED <<handles, session, alerts>>
    BY <1>25 DEF Weigh, history, libVars, TableInv
  <2> QED
    BY <2>1, <2>2, TableTurn
<1>26. ASSUME NEW c \in Caller, Settle(c) PROVE TableAt(g)'
  <2>1. Goto(c, "decide") \/ Return(c)
    BY <1>26 DEF Settle
  <2>2. TableAt(g) /\ cpc[c] \notin {"register", "pop"} /\ UNCHANGED <<handles, session, alerts>>
    BY <1>26 DEF Settle, history, libVars, TableInv
  <2> QED
    BY <2>1, <2>2, TableTurn
<1>27. ASSUME NEW c \in Caller, Decide(c) PROVE TableAt(g)'
  <2>1. Goto(c, "condemn") \/ Return(c)
    BY <1>27 DEF Decide
  <2>2. TableAt(g) /\ cpc[c] \notin {"register", "pop"} /\ UNCHANGED <<handles, session, alerts>>
    BY <1>27 DEF Decide, history, libVars, TableInv
  <2> QED
    BY <2>1, <2>2, TableTurn
<1>28. ASSUME NEW c \in Caller, LookComplete(c) PROVE TableAt(g)'
  <2>1. Goto(c, "write") \/ Return(c)
    BY <1>28 DEF LookComplete
  <2>2. TableAt(g) /\ cpc[c] \notin {"register", "pop"} /\ UNCHANGED <<handles, session, alerts>>
    BY <1>28 DEF LookComplete, history, libVars, TableInv
  <2> QED
    BY <2>1, <2>2, TableTurn
<1>29. ASSUME NEW c \in Caller, WriteComplete(c) PROVE TableAt(g)'
  <2>1. Goto(c, "idle") \/ Return(c)
    BY <1>29 DEF WriteComplete
  <2>2. TableAt(g) /\ cpc[c] \notin {"register", "pop"} /\ UNCHANGED <<handles, session, alerts>>
    BY <1>29 DEF WriteComplete, history, libVars, TableInv
  <2> QED
    BY <2>1, <2>2, TableTurn
<1>30. ASSUME Close PROVE TableAt(g)'
  <2>1. UNCHANGED <<handles, session, req, cpc, alerts>> /\ raced \subseteq raced'
    BY <1>30 DEF Close, callVars
  <2> QED
    BY <2>1, SameAlerts DEF TableInv, TableAt, Half
<1>31. ASSUME CloseStop PROVE TableAt(g)'
  BY <1>31, SameAlerts DEF CloseStop, history, callVars, libVars, diskVars, TableInv,
      TableAt, Half, TypeOK
<1>32. ASSUME Drain PROVE TableAt(g)'
  BY <1>32, SameAlerts DEF Drain, history, callVars, diskVars, TableInv, TableAt, Half,
      TypeOK
<1>33. ASSUME Drained PROVE TableAt(g)'
  BY <1>33, SameAlerts DEF Drained, history, callVars, libVars, diskVars, TableInv,
      TableAt, Half, TypeOK
<1>34. ASSUME CloseDone PROVE TableAt(g)'
  <2> QED
    BY <1>34 DEF CloseDone, Gone, TableAt, Half, Awaited
<1>35. ASSUME Crash PROVE TableAt(g)'
  <2> QED
    BY <1>35 DEF Crash, Gone, TableAt, Half, Awaited
<1>36. CASE UNCHANGED vars
  BY <1>36, SameAlerts DEF vars, diskVars, libVars, callVars, history, TableInv, TableAt,
      Half, TypeOK
<1> QED
  BY <1>1, <1>2, <1>3, <1>4, <1>5, <1>6, <1>7, <1>8, <1>9, <1>10, <1>11, <1>12, <1>13,
      <1>14, <1>15, <1>16, <1>17, <1>18, <1>19, <1>20, <1>21, <1>22, <1>23, <1>24,
      <1>25, <1>26, <1>27, <1>28, <1>29, <1>30, <1>31, <1>32, <1>33, <1>34, <1>35, <1>36
      DEF Next, Library, AlertThread, Restore, CallerStep, Shutdown

-----------------------------------------------------------------------------
(* The alerts that wait while a call is about the torrent. *)

\* The only alert about a torrent that is not in the session does not add it.
LEMMA SingleNews ==
    ASSUME TypeOK, NewsInv, NEW g \in Hash, Single(g), g \notin session
    PROVE  ~AddedWaits(g)
<1> SUFFICES ASSUME NEW i \in DOMAIN alerts, About(i, g), alerts[i].kind = "added" PROVE FALSE
  BY DEF AddedWaits
<1>1. DOMAIN alerts \subseteq Nat
  BY DEF TypeOK
<1>2. Last(i, g)
  BY <1>1 DEF Last, Single
<1> QED
  BY <1>2 DEF NewsInv

\* A step of a caller that touches neither the table nor the queue.
LEMMA CalmTurn ==
    ASSUME TypeOK, NEW g \in Hash, CalmAt(g), NEW c \in Caller,
           NEW k, k \in Early => cpc[c] \in Early, Goto(c, k) \/ Return(c),
           cpc[c] # "register", UNCHANGED <<handles, alerts, rst>>
    PROVE  CalmAt(g)'
<1>1. /\ \A d \in Caller : d # c => cpc'[d] = cpc[d] /\ req'[d] = req[d]
      /\ cpc'[c] \in Early => cpc[c] \in Early /\ req'[c] = req[c]
  BY OneCaller DEF Early
<1>2. AddedWaits(g) => g \in handles \/ \E d \in Caller : req'[d] = g /\ cpc'[d] = "register"
  BY <1>1 DEF CalmAt
<1>3. \A d \in Caller : req'[d] = g /\ cpc'[d] \in Early => ~Awaited(g)
  BY <1>1 DEF CalmAt
<1> QED
  BY <1>2, <1>3, SameAlerts DEF CalmAt

\* A call that finds an alert waiting is a hurried one.
LEMMA CalmStep ==
    ASSUME TypeOK, NewsInv, AloneInv, TableInv, CalmInv, [Next]_vars, NEW g \in Hash,
        Calm(g)'
    PROVE  CalmAt(g)'
<1> USE DEF Calm
<1>1. ASSUME Start PROVE CalmAt(g)'
  BY <1>1, SameAlerts DEF Start, history, callVars, libVars, CalmInv, CalmAt, Calm, TypeOK
<1>2. ASSUME NEW h \in Hash, LibSaved(h) PROVE CalmAt(g)'
  <2>1. CalmAt(g) /\ UNCHANGED <<handles, rst, req, cpc>> /\ Saved(h)
    BY <1>2, LibSaves DEF LibSaved, history, callVars, CalmInv, Calm
  <2>2. (Awaited(g)' <=> Awaited(g)) /\ (Single(g) => Single(g)') /\ (AddedWaits(g)' <=> AddedWaits(g))
    BY <2>1 DEF Saved
  <2> QED
    BY <2>1, <2>2 DEF CalmAt
<1>3. ASSUME NEW h \in Hash, LibDownload(h) PROVE CalmAt(g)'
  BY <1>3, SameAlerts DEF LibDownload, history, callVars, libVars, CalmInv, CalmAt, Calm,
      TypeOK
<1>4. ASSUME NEW h \in Hash, LoseFolder(h) PROVE CalmAt(g)'
  BY <1>4, SameAlerts DEF LoseFolder, history, callVars, libVars, CalmInv, CalmAt, Calm,
      TypeOK
<1>5. ASSUME ProcessAlert PROVE CalmAt(g)'
  <2> PICK a : a = Head(alerts)
    OBVIOUS
  <2>1. /\ CalmAt(g) /\ UNCHANGED <<session, rst, req, cpc>> /\ alerts # <<>> /\ alerts' = Tail(alerts)
        /\ handles' = HandlesAfter(a)
    BY <1>5 DEF ProcessAlert, history, callVars, CalmInv, Calm
  <2>2. /\ Awaited(g)' => Awaited(g)
        /\ AddedWaits(g)' => AddedWaits(g)
        /\ Single(g) => Single(g)'
        /\ a.kind \notin SaveAlert => (Single(a.hash) => ~Awaited(a.hash)')
    BY <2>1, AlertTaken
  <2>3. AddedWaits(g)' => g \in handles' \/ \E d \in Caller : req[d] = g /\ cpc[d] = "register"
    <3>1. CASE a.kind = "removed" /\ a.hash = g
      <4>1. ~Awaited(g)'
        BY <2>1, <2>2, <3>1 DEF CalmAt, SaveAlert
      <4> QED
        BY <4>1 DEF AddedWaits, Awaited, About
    <3>2. CASE ~(a.kind = "removed" /\ a.hash = g)
      BY <2>1, <2>2, <3>2 DEF CalmAt, HandlesAfter
    <3> QED
      BY <3>1, <3>2
  <2> QED
    BY <2>1, <2>2, <2>3 DEF CalmAt
<1>6. ASSUME NEW h \in Hash, PeriodicSave(h) PROVE CalmAt(g)'
  BY <1>6, SameAlerts DEF PeriodicSave, history, callVars, diskVars, CalmInv, CalmAt, Calm,
      TypeOK
<1>7. ASSUME BeginRestore PROVE CalmAt(g)'
  <2>1. /\ UNCHANGED <<handles, req, cpc, alerts>> /\ raced \subseteq raced' /\ hurried' = hurried
        /\ rst'.cur = None
    BY <1>7 DEF BeginRestore, NoRestore, libVars, callVars, TypeOK
  <2>2. CalmAt(g) /\ g # None
    BY <2>1, TorrentConstants DEF CalmInv, Calm
  <2> QED
    BY <2>1, <2>2, SameAlerts DEF CalmAt
<1>8. ASSUME BeginRemoteRestore PROVE CalmAt(g)'
  <2>1. /\ UNCHANGED <<handles, req, cpc, alerts>> /\ raced \subseteq raced' /\ hurried' = hurried
        /\ rst'.cur = None
    BY <1>8, RemoteList DEF BeginRemoteRestore, libVars, callVars, TypeOK
  <2>2. CalmAt(g) /\ g # None
    BY <2>1, TorrentConstants DEF CalmInv, Calm
  <2> QED
    BY <2>1, <2>2, SameAlerts DEF CalmAt
<1>9. ASSUME NEW h \in Hash, RestoreFile(h) PROVE CalmAt(g)'
  <2>1. /\ UNCHANGED <<handles, req, cpc, alerts>> /\ raced \subseteq raced' /\ hurried \subseteq hurried'
    BY <1>9 DEF RestoreFile, Witness, libVars, callVars
  <2>2. CalmAt(g)
    BY <2>1 DEF CalmInv, Calm
  <2>3. rst'.cur = g => rst.cur = g \/ ~Awaited(g)
    BY <1>9, FileTurn DEF RestoreFile, Witness
  <2> QED
    BY <2>1, <2>2, <2>3, SameAlerts DEF CalmAt
<1>10. ASSUME RestoreList PROVE CalmAt(g)'
  <2>1. /\ UNCHANGED <<handles, req, cpc, alerts>> /\ raced \subseteq raced' /\ hurried' = hurried
        /\ rst'.cur = None
    BY <1>10, RowList DEF RestoreList, libVars, callVars, TypeOK
  <2>2. CalmAt(g) /\ g # None
    BY <2>1, TorrentConstants DEF CalmInv, Calm
  <2> QED
    BY <2>1, <2>2, SameAlerts DEF CalmAt
<1>11. ASSUME NEW h \in Hash, RestoreRow(h) PROVE CalmAt(g)'
  <2>1. /\ UNCHANGED <<handles, req, cpc, alerts>> /\ raced \subseteq raced' /\ hurried \subseteq hurried'
    BY <1>11 DEF RestoreRow, Witness, libVars, callVars
  <2>2. CalmAt(g)
    BY <2>1 DEF CalmInv, Calm
  <2>3. rst'.cur = g => rst.cur = g \/ ~Awaited(g)
    BY <1>11, ListTurn DEF RestoreRow, Witness
  <2> QED
    BY <2>1, <2>2, <2>3, SameAlerts DEF CalmAt
<1>12. ASSUME RestoreAdd PROVE CalmAt(g)'
  <2> PICK h : h = rst.cur
    OBVIOUS
  <2>1. /\ rst.cur \in Hash /\ UNCHANGED <<req, cpc>>
        /\ CalmAt(g) /\ rst'.cur = None /\ g # None
    BY <1>12, TorrentConstants DEF RestoreAdd, TypeOK, AloneInv, callVars, history, CalmInv, Calm
  <2>2. (Added(h) /\ handles' = handles \cup {h}) \/ UNCHANGED <<libVars, handles>>
    BY <1>12, <2>1, LibAdds DEF RestoreAdd
  <2>5. CASE UNCHANGED <<libVars, handles>>
    BY <2>1, <2>5, SameAlerts DEF libVars, CalmAt
  <2>3. CASE Added(h) /\ handles' = handles \cup {h} /\ g = h
    <3>1. g \in handles' /\ Single(g)'
      BY <2>1, <2>2, <2>3 DEF Added, CalmAt
    <3>2. \A d \in Caller : req[d] # g
      BY <1>12, <2>1, <2>3 DEF AloneInv, RestoreAdd, history
    <3> QED
      BY <2>1, <3>1, <3>2 DEF CalmAt
  <2>4. CASE Added(h) /\ handles' = handles \cup {h} /\ g # h
    <3>1. /\ g \in handles' <=> g \in handles
          /\ Single(g) => Single(g)'
          /\ AddedWaits(g)' <=> AddedWaits(g)
          /\ Awaited(g)' <=> Awaited(g)
      BY <2>1, <2>2, <2>4 DEF Added
    <3> QED
      BY <2>1, <3>1 DEF CalmAt
  <2> QED
    BY <2>2, <2>3, <2>4, <2>5
<1>13. ASSUME RestoreEnd PROVE CalmAt(g)'
  BY <1>13, SameAlerts, TorrentConstants DEF RestoreEnd, history, callVars, libVars,
      diskVars, NoRestore, CalmInv, CalmAt, Calm, TypeOK
<1>14. ASSUME NEW c \in Caller, NEW op \in AllOps, NEW h \in Hash, Call(c, op, h) PROVE CalmAt(g)'
  <2>1. /\ raced \subseteq raced' /\ hurried \subseteq hurried' /\ UNCHANGED <<handles, alerts, rst>>
        /\ cpc[c] = "idle" /\ cpc'[c] # "register" /\ req'[c] = h
        /\ \A d \in Caller : d # c => cpc'[d] = cpc[d] /\ req'[d] = req[d]
        /\ h = g => ~Awaited(g)
    BY <1>14 DEF Call, Witness, FirstStep, AllOps, TypeOK, libVars
  <2>2. CalmAt(g)
    BY <2>1 DEF CalmInv, Calm
  <2>3. \A d \in Caller : req'[d] = g /\ cpc'[d] \in Early => ~Awaited(g)
    BY <2>1, <2>2 DEF CalmAt
  <2>4. AddedWaits(g) => g \in handles \/ \E d \in Caller : req'[d] = g /\ cpc'[d] = "register"
    BY <2>1, <2>2 DEF CalmAt
  <2> QED
    BY <2>1, <2>2, <2>3, <2>4, SameAlerts DEF CalmAt
<1>15. ASSUME NEW c \in Caller, SaveRow(c) PROVE CalmAt(g)'
  <2>1. Goto(c, "add") \/ Return(c)
    BY <1>15 DEF SaveRow
  <2>2. CalmAt(g) /\ cpc[c] \in {"save"} /\ UNCHANGED <<handles, alerts, rst>>
    BY <1>15 DEF SaveRow, history, libVars, CalmInv, Calm
  <2>3. ("add" \in Early => cpc[c] \in Early) /\ cpc[c] # "register"
    BY <2>1, <2>2 DEF Early
  <2> QED
    BY <2>1, <2>2, <2>3, CalmTurn
<1>16. ASSUME NEW c \in Caller, Add(c) PROVE CalmAt(g)'
  <2> PICK h : h = req[c]
    OBVIOUS
  <2>1. /\ req[c] \in Hash /\ cpc[c] = "add" /\ UNCHANGED <<handles, rst, raced>>
        /\ CalmAt(g)
    BY <1>16 DEF Add, TypeOK, AloneInv, history, CalmInv, Calm
  <2>2. CASE Return(c) /\ UNCHANGED alerts
    BY <2>1, <2>2, CalmTurn DEF Early
  <2>3. CASE LibAdd(h) /\ Goto(c, "register")
    <3>1. /\ Added(h) /\ cpc'[c] = "register" /\ req'[c] = req[c] /\ "register" \notin Early
          /\ \A d \in Caller : d # c => cpc'[d] = cpc[d] /\ req'[d] = req[d]
      BY <2>1, <2>3, LibAdds DEF TypeOK, Goto, Early
    <3>2. CASE g = req[c]
      <4>1. (\A d \in Caller : req[d] = g => d = c) /\ rst.cur # g
        BY <2>1, <3>2, TorrentConstants DEF AloneInv
      <4>2. Single(g)'
        BY <2>1, <3>1, <3>2 DEF CalmAt, Added, Early
      <4> QED
        BY <2>1, <3>1, <3>2, <4>1, <4>2 DEF CalmAt
    <3>3. CASE g # req[c]
      <4>1. /\ Single(g) => Single(g)'
            /\ AddedWaits(g)' <=> AddedWaits(g)
            /\ Awaited(g)' <=> Awaited(g)
        BY <3>1, <3>3 DEF Added
      <4>2. AddedWaits(g) => g \in handles' \/ \E d \in Caller : req'[d] = g /\ cpc'[d] = "register"
        BY <2>1, <3>1, <3>3 DEF CalmAt
      <4>3. \A d \in Caller : req'[d] = g /\ cpc'[d] \in Early => ~Awaited(g)
        BY <2>1, <3>1, <3>3 DEF CalmAt
      <4> QED
        BY <2>1, <4>1, <4>2, <4>3 DEF CalmAt
    <3> QED
      BY <3>2, <3>3
  <2> QED
    BY <1>16, <2>2, <2>3 DEF Add, libVars
<1>17. ASSUME NEW c \in Caller, Register(c) PROVE CalmAt(g)'
  <2>1. /\ req[c] \in Hash /\ cpc[c] = "register" /\ UNCHANGED <<alerts, rst>>
        /\ handles' = handles \cup {req[c]} /\ CalmAt(g) /\ (Goto(c, "count") \/ Return(c))
    BY <1>17 DEF Register, TypeOK, AloneInv, history, CalmInv, Calm
  <2>2. /\ \A d \in Caller : d # c => cpc'[d] = cpc[d] /\ req'[d] = req[d]
        /\ cpc'[c] \notin Early
    BY <2>1, OneCaller DEF Early
  <2>3. AddedWaits(g) => g \in handles' \/ \E d \in Caller : req'[d] = g /\ cpc'[d] = "register"
    BY <2>1, <2>2 DEF CalmAt
  <2>4. \A d \in Caller : req'[d] = g /\ cpc'[d] \in Early => ~Awaited(g)
    BY <2>1, <2>2 DEF CalmAt
  <2> QED
    BY <2>1, <2>3, <2>4, SameAlerts DEF CalmAt
<1>18. ASSUME NEW c \in Caller, Count(c) PROVE CalmAt(g)'
  <2>1. Goto(c, "idle") \/ Return(c)
    BY <1>18 DEF Count
  <2>2. CalmAt(g) /\ cpc[c] \in {"count"} /\ UNCHANGED <<handles, alerts, rst>>
    BY <1>18 DEF Count, history, libVars, CalmInv, Calm
  <2>3. ("idle" \in Early => cpc[c] \in Early) /\ cpc[c] # "register"
    BY <2>1, <2>2 DEF Early
  <2> QED
    BY <2>1, <2>2, <2>3, CalmTurn
<1>19. ASSUME NEW c \in Caller, Move(c) PROVE CalmAt(g)'
  <2>1. Goto(c, "count") \/ Return(c)
    BY <1>19 DEF Move
  <2>2. CalmAt(g) /\ cpc[c] \in {"move"} /\ UNCHANGED <<handles, alerts, rst>>
    BY <1>19 DEF Move, history, libVars, CalmInv, Calm
  <2>3. ("count" \in Early => cpc[c] \in Early) /\ cpc[c] # "register"
    BY <2>1, <2>2 DEF Early
  <2> QED
    BY <2>1, <2>2, <2>3, CalmTurn
<1>20. ASSUME NEW c \in Caller, MarkDeleted(c) PROVE CalmAt(g)'
  <2>1. Goto(c, "remove") \/ Return(c)
    BY <1>20 DEF MarkDeleted
  <2>2. CalmAt(g) /\ cpc[c] \in {"mark", "condemn"} /\ UNCHANGED <<handles, alerts, rst>>
    BY <1>20 DEF MarkDeleted, history, libVars, CalmInv, Calm
  <2>3. ("remove" \in Early => cpc[c] \in Early) /\ cpc[c] # "register"
    BY <2>1, <2>2 DEF Early
  <2> QED
    BY <2>1, <2>2, <2>3, CalmTurn
<1>21. ASSUME NEW c \in Caller, RemoveTorrent(c) PROVE CalmAt(g)'
  <2> PICK h : h = req[c]
    OBVIOUS
  <2>1. /\ req[c] \in Hash /\ cpc[c] = "remove" /\ UNCHANGED <<handles, rst, raced>> /\ CalmAt(g)
    BY <1>21 DEF RemoveTorrent, TypeOK, AloneInv, history, CalmInv, Calm
  <2>2. CASE (Return(c) \/ Goto(c, "unlink")) /\ UNCHANGED libVars
    BY <2>1, <2>2, CalmTurn DEF libVars, Early
  <2>3. CASE LibRemove(h) /\ Goto(c, "pop")
    <3>1. /\ Removed(h) /\ cpc'[c] = "pop" /\ req'[c] = req[c] /\ "pop" \notin Early
          /\ \A d \in Caller : d # c => cpc'[d] = cpc[d] /\ req'[d] = req[d]
      BY <2>1, <2>3, LibRemoves DEF TypeOK, Goto, Early
    <3>2. CASE g = req[c]
      <4>1. (\A d \in Caller : req[d] = g => d = c) /\ rst.cur # g
        BY <2>1, <3>2, TorrentConstants DEF AloneInv
      <4>2. ~Awaited(g)
        BY <2>1, <3>2 DEF CalmAt, Early
      <4>3. Single(g)' /\ ~AddedWaits(g)'
        BY <3>1, <3>2, <4>2 DEF Removed, AddedWaits, Awaited, About
      <4> QED
        BY <2>1, <3>1, <3>2, <4>1, <4>3 DEF CalmAt
    <3>3. CASE g # req[c]
      <4>1. /\ Single(g) => Single(g)'
            /\ AddedWaits(g)' <=> AddedWaits(g)
            /\ Awaited(g)' <=> Awaited(g)
        BY <3>1, <3>3 DEF Removed
      <4>2. AddedWaits(g) => g \in handles' \/ \E d \in Caller : req'[d] = g /\ cpc'[d] = "register"
        BY <2>1, <3>1, <3>3 DEF CalmAt
      <4>3. \A d \in Caller : req'[d] = g /\ cpc'[d] \in Early => ~Awaited(g)
        BY <2>1, <3>1, <3>3 DEF CalmAt
      <4> QED
        BY <2>1, <4>1, <4>2, <4>3 DEF CalmAt
    <3> QED
      BY <3>2, <3>3
  <2> QED
    BY <1>21, <2>2, <2>3 DEF RemoveTorrent
<1>22. ASSUME NEW c \in Caller, Pop(c) PROVE CalmAt(g)'
  <2>1. /\ req[c] \in Hash /\ cpc[c] = "pop" /\ UNCHANGED <<alerts, session, rst>> /\ TableAt(g)
        /\ handles' = handles \ {req[c]} /\ CalmAt(g) /\ Goto(c, "unlink")
    BY <1>22 DEF Pop, TypeOK, AloneInv, history, libVars, CalmInv, Calm, TableInv
  <2>2. /\ \A d \in Caller : d # c => cpc'[d] = cpc[d] /\ req'[d] = req[d]
        /\ cpc'[c] \notin Early
    BY <2>1, OneCaller DEF Early
  <2>3. AddedWaits(g) => g \in handles' \/ \E d \in Caller : req'[d] = g /\ cpc'[d] = "register"
    <3>1. CASE g = req[c]
      <4>1. g \notin session
        BY <2>1, <3>1 DEF TableAt
      <4>2. Single(g)
        BY <2>1 DEF CalmAt
      <4> QED
        BY <4>1, <4>2, SingleNews
    <3>2. CASE g # req[c]
      BY <2>1, <2>2, <3>2 DEF CalmAt
    <3> QED
      BY <3>1, <3>2
  <2>4. \A d \in Caller : req'[d] = g /\ cpc'[d] \in Early => ~Awaited(g)
    BY <2>1, <2>2 DEF CalmAt
  <2> QED
    BY <2>1, <2>3, <2>4, SameAlerts DEF CalmAt
<1>23. ASSUME NEW c \in Caller, Unlink(c) PROVE CalmAt(g)'
  <2>1. Goto(c, "idle") \/ Return(c)
    BY <1>23 DEF Unlink
  <2>2. CalmAt(g) /\ cpc[c] \in {"unlink"} /\ UNCHANGED <<handles, alerts, rst>>
    BY <1>23 DEF Unlink, history, libVars, CalmInv, Calm
  <2>3. ("idle" \in Early => cpc[c] \in Early) /\ cpc[c] # "register"
    BY <2>1, <2>2 DEF Early
  <2> QED
    BY <2>1, <2>2, <2>3, CalmTurn
<1>24. ASSUME NEW c \in Caller, Reconcile(c) PROVE CalmAt(g)'
  <2>1. Goto(c, "weigh") \/ Return(c)
    BY <1>24 DEF Reconcile
  <2>2. CalmAt(g) /\ cpc[c] \in {"list"} /\ UNCHANGED <<handles, alerts, rst>>
    BY <1>24 DEF Reconcile, history, libVars, CalmInv, Calm
  <2>3. ("weigh" \in Early => cpc[c] \in Early) /\ cpc[c] # "register"
    BY <2>1, <2>2 DEF Early
  <2> QED
    BY <2>1, <2>2, <2>3, CalmTurn
<1>25. ASSUME NEW c \in Caller, Weigh(c) PROVE CalmAt(g)'
  <2>1. PICK k \in {"settle", "remove", "decide"} : Goto(c, k) \/ Return(c)
    BY <1>25, WeighTurns
  <2>2. CalmAt(g) /\ cpc[c] = "weigh" /\ UNCHANGED <<handles, alerts, rst>>
    BY <1>25 DEF Weigh, history, libVars, CalmInv, Calm
  <2>3. cpc[c] \in Early /\ cpc[c] # "register"
    BY <2>2 DEF Early
  <2> QED
    BY <2>1, <2>2, <2>3, CalmTurn
<1>26. ASSUME NEW c \in Caller, Settle(c) PROVE CalmAt(g)'
  <2>1. Goto(c, "decide") \/ Return(c)
    BY <1>26 DEF Settle
  <2>2. CalmAt(g) /\ cpc[c] \in {"settle"} /\ UNCHANGED <<handles, alerts, rst>>
    BY <1>26 DEF Settle, history, libVars, CalmInv, Calm
  <2>3. ("decide" \in Early => cpc[c] \in Early) /\ cpc[c] # "register"
    BY <2>1, <2>2 DEF Early
  <2> QED
    BY <2>1, <2>2, <2>3, CalmTurn
<1>27. ASSUME NEW c \in Caller, Decide(c) PROVE CalmAt(g)'
  <2>1. Goto(c, "condemn") \/ Return(c)
    BY <1>27 DEF Decide
  <2>2. CalmAt(g) /\ cpc[c] \in {"decide"} /\ UNCHANGED <<handles, alerts, rst>>
    BY <1>27 DEF Decide, history, libVars, CalmInv, Calm
  <2>3. ("condemn" \in Early => cpc[c] \in Early) /\ cpc[c] # "register"
    BY <2>1, <2>2 DEF Early
  <2> QED
    BY <2>1, <2>2, <2>3, CalmTurn
<1>28. ASSUME NEW c \in Caller, LookComplete(c) PROVE CalmAt(g)'
  <2>1. Goto(c, "write") \/ Return(c)
    BY <1>28 DEF LookComplete
  <2>2. CalmAt(g) /\ cpc[c] \in {"look"} /\ UNCHANGED <<handles, alerts, rst>>
    BY <1>28 DEF LookComplete, history, libVars, CalmInv, Calm
  <2>3. ("write" \in Early => cpc[c] \in Early) /\ cpc[c] # "register"
    BY <2>1, <2>2 DEF Early
  <2> QED
    BY <2>1, <2>2, <2>3, CalmTurn
<1>29. ASSUME NEW c \in Caller, WriteComplete(c) PROVE CalmAt(g)'
  <2>1. Goto(c, "idle") \/ Return(c)
    BY <1>29 DEF WriteComplete
  <2>2. CalmAt(g) /\ cpc[c] \in {"write"} /\ UNCHANGED <<handles, alerts, rst>>
    BY <1>29 DEF WriteComplete, history, libVars, CalmInv, Calm
  <2>3. ("idle" \in Early => cpc[c] \in Early) /\ cpc[c] # "register"
    BY <2>1, <2>2 DEF Early
  <2> QED
    BY <2>1, <2>2, <2>3, CalmTurn
<1>30. ASSUME Close PROVE CalmAt(g)'
  <2>1. UNCHANGED <<handles, rst, req, cpc, alerts, hurried>> /\ raced \subseteq raced'
    BY <1>30 DEF Close, callVars
  <2> QED
    BY <2>1, SameAlerts DEF CalmInv, CalmAt
<1>31. ASSUME CloseStop PROVE CalmAt(g)'
  BY <1>31, SameAlerts DEF CloseStop, history, callVars, libVars, diskVars, CalmInv, CalmAt,
      TypeOK
<1>32. ASSUME Drain PROVE CalmAt(g)'
  BY <1>32, SameAlerts DEF Drain, history, callVars, diskVars, CalmInv, CalmAt, Calm,
      TypeOK
<1>33. ASSUME Drained PROVE CalmAt(g)'
  BY <1>33, SameAlerts DEF Drained, history, callVars, libVars, diskVars, CalmInv, CalmAt,
      Calm, TypeOK
<1>34. ASSUME CloseDone PROVE CalmAt(g)'
  <2>1. UNCHANGED site /\ Gone
    BY <1>34 DEF CloseDone
  <2> QED
    BY <2>1, TorrentConstants DEF Gone, CalmAt, NoRestore, Awaited, Single, AddedWaits
<1>35. ASSUME Crash PROVE CalmAt(g)'
  <2>1. UNCHANGED site /\ Gone
    BY <1>35 DEF Crash
  <2> QED
    BY <2>1, TorrentConstants DEF Gone, CalmAt, NoRestore, Awaited, Single, AddedWaits
<1>36. CASE UNCHANGED vars
  BY <1>36, SameAlerts DEF vars, diskVars, libVars, callVars, history, CalmInv, CalmAt,
      Calm, TypeOK
<1> QED
  BY <1>1, <1>2, <1>3, <1>4, <1>5, <1>6, <1>7, <1>8, <1>9, <1>10, <1>11, <1>12, <1>13,
      <1>14, <1>15, <1>16, <1>17, <1>18, <1>19, <1>20, <1>21, <1>22, <1>23, <1>24,
      <1>25, <1>26, <1>27, <1>28, <1>29, <1>30, <1>31, <1>32, <1>33, <1>34, <1>35, <1>36
      DEF Next, Library, AlertThread, Restore, CallerStep, Shutdown

-----------------------------------------------------------------------------
(* The rows of the torrents that run. *)

\* What the row of a torrent says when a call about it goes to pc.
Allowed(pc, h) ==
    /\ pc \in {"add", "register"} => row[h] \in Wanted
    /\ pc \in Running /\ h \in session => row[h] \in Wanted
    /\ pc = "settle" => h \in session
    /\ pc = "unlink" => h \notin session

\* A step of a caller: only the row of its own torrent may change.
LEMMA RowTurn ==
    ASSUME TypeOK, AloneInv, NEW g \in Hash, RowAt(g), g \notin raced, NEW c \in Caller,
           NEW k, Goto(c, k) \/ Return(c), cpc[c] # "idle", UNCHANGED rst,
           g # req[c] => row'[g] = row[g] /\ (g \in session' <=> g \in session),
           g = req[c] => /\ Return(c) /\ g \in session' => row'[g] \in Wanted
                         /\ Goto(c, k) => Allowed(k, g)'
    PROVE  RowAt(g)'
<1>1. /\ \A d \in Caller : d # c => cpc'[d] = cpc[d] /\ req'[d] = req[d]
      /\ \/ cpc'[c] = k /\ req'[c] = req[c] /\ Goto(c, k)
         \/ cpc'[c] = "idle" /\ req'[c] = None /\ Return(c)
  BY OneCaller
<1>0. g # None
  BY TorrentConstants
<1>2. CASE g # req[c]
  <2>1. Handled(g)' <=> Handled(g)
    BY <1>0, <1>1, <1>2 DEF Handled
  <2>2. \A d \in Caller : req'[d] = g => req[d] = g /\ cpc'[d] = cpc[d]
    BY <1>0, <1>1, <1>2
  <2> QED
    BY <1>2, <2>1, <2>2 DEF RowAt
<1>3. CASE g = req[c]
  <2>1. rst.cur # g /\ \A d \in Caller : req[d] = g => d = c
    BY <1>0, <1>3 DEF AloneInv
  <2>2. \A d \in Caller : req'[d] = g => d = c /\ cpc'[c] = k /\ Goto(c, k)
    BY <1>0, <1>1, <1>3, <2>1
  <2>3. CASE Goto(c, k) /\ cpc'[c] = k /\ req'[c] = g
    <3>1. Handled(g)'
      BY <2>3 DEF Handled
    <3> QED
      BY <1>3, <2>1, <2>2, <2>3, <3>1 DEF RowAt, Allowed
  <2>4. CASE cpc'[c] = "idle" /\ req'[c] = None /\ Return(c)
    <3>1. \A d \in Caller : req'[d] # g
      BY <1>0, <1>1, <2>1, <2>4
    <3> QED
      BY <1>3, <2>1, <2>4, <3>1 DEF RowAt
  <2> QED
    BY <1>1, <1>3, <2>3, <2>4
<1> QED
  BY <1>2, <1>3

\* The resume file that is adopted has a row that is wanted, unless a lookup failed.
LEMMA FileFate ==
    ASSUME TypeOK, AloneInv, NEW h \in Hash, RestoreFile(h)
    PROVE  /\ rst.cur = None /\ (rst'.cur = None \/ rst'.cur = h)
           /\ \A x \in Hash : x # h => row'[x] = row[x]
           /\ rst'.cur # h => row' = row
           /\ rst'.cur = h /\ h \notin failed' => row'[h] \in Wanted
<1> DEFINE deleted(lost) == row[h] = "deleted" /\ "status" \notin lost
<1> DEFINE adopt(lost) == h \in resume /\ ~deleted(lost) /\ Associated(h, lost)
<1> DEFINE index(lost) == /\ adopt(lost) /\ row[h] = "absent"
                          /\ h \in site.foldered /\ "ensure" \notin lost
<1>1. PICK lost \in Lookups :
        /\ Restoring(h, adopt(lost), "addFile")
        /\ row' = IF index(lost) THEN [row EXCEPT ![h] = "null"] ELSE row
        /\ IF lost = {} THEN UNCHANGED failed ELSE Failing(h)
  BY DEF RestoreFile
<1>2. rst.cur = None /\ h # None
  BY TorrentConstants DEF RestoreFile, AloneInv
<1>3. rst'.cur = IF adopt(lost) THEN h ELSE None
  <2>1. rst \in RestoreType
    BY DEF TypeOK, RestoreType
  <2> HIDE DEF adopt
  <2> QED
    BY <1>1, <1>2, <2>1 DEF Restoring, RestoreType
<1>4. h \notin failed' => lost = {}
  BY <1>1 DEF Failing
<1>5. row \in [Hash -> Status]
  BY DEF TypeOK
<1>6. adopt(lost) /\ lost = {} => row'[h] \in Wanted
  BY <1>1, <1>5 DEF Wanted, Status, Associated
<1>7. \A x \in Hash : x # h => row'[x] = row[x]
  BY <1>1, <1>5
<1>8. ~adopt(lost) => row' = row
  BY <1>1
<1> HIDE DEF adopt
<1> QED
  BY <1>2, <1>3, <1>4, <1>6, <1>7, <1>8

\* Of the rows listed, one that is not added needs no client, unless its lookup failed.
LEMMA RowFate ==
    ASSUME TypeOK, AloneInv, ListInv, ~site.remote, NEW h \in Hash, RestoreRow(h)
    PROVE  /\ rst.cur = None /\ (rst'.cur = None \/ rst'.cur = h)
           /\ rst'.cur = h /\ h \notin failed' => row[h] \in Wanted
           /\ rst'.cur = None => h \in handles \/ payload[h] = "missing" \/ row[h] = "deleted"
<1> DEFINE adds(known) == /\ h \notin handles /\ payload[h] # "missing"
                          /\ ~(row[h] = "deleted" /\ known)
<1>1. PICK known \in BOOLEAN : /\ Restoring(h, adds(known), "addRow")
                              /\ IF known THEN UNCHANGED failed ELSE Failing(h)
  <2>1. PICK known \in IF site.remote THEN {FALSE} ELSE {TRUE, "db" \notin Faults} :
          /\ Restoring(h, adds(known), "addRow")
          /\ IF known \/ site.remote THEN UNCHANGED failed ELSE Failing(h)
    BY DEF RestoreRow
  <2> HIDE DEF adds
  <2> QED
    BY <2>1
<1>2. rst.cur = None /\ h # None /\ row[h] \in Status /\ row[h] # "absent"
  BY TorrentConstants DEF RestoreRow, AloneInv, ListInv, TypeOK
<1>3. rst'.cur = IF adds(known) THEN h ELSE None
  <2>1. rst \in RestoreType
    BY DEF TypeOK, RestoreType
  <2> HIDE DEF adds
  <2> QED
    BY <1>1, <1>2, <2>1 DEF Restoring, RestoreType
<1>4. h \notin failed' => known
  BY <1>1 DEF Failing
<1> QED
  BY <1>2, <1>3, <1>4 DEF Wanted, Status

\* A step keeps the rows of the torrents that run.
LEMMA RowStep ==
    ASSUME TypeOK, DownInv, AloneInv, TableInv, CalmInv, RowInv, ListInv, [Next]_vars,
        NEW g \in Hash, Sound(g)', ~site.remote, phase' = "ready"
    PROVE  RowAt(g)'
<1> USE DEF Sound, Calm, Failing
<1>1. ASSUME Start PROVE RowAt(g)'
  <2>1. session' = {} /\ rst'.cur = None /\ \A d \in Caller : req'[d] = None
    BY <1>1 DEF Start, DownInv, NoRestore, libVars, callVars
  <2> QED
    BY <2>1, TorrentConstants DEF RowAt, Handled
<1>2. ASSUME NEW h \in Hash, LibSaved(h) PROVE RowAt(g)'
  <2>1. RowAt(g) /\ UNCHANGED <<row, session, rst, req, cpc>>
    BY <1>2 DEF LibSaved, RowInv, Calm, history, callVars, diskVars, libVars
  <2> QED
    BY <2>1 DEF RowAt, Handled
<1>3. ASSUME NEW h \in Hash, LibDownload(h) PROVE RowAt(g)'
  <2>1. RowAt(g) /\ UNCHANGED <<row, session, rst, req, cpc>>
    BY <1>3 DEF LibDownload, RowInv, Calm, history, callVars, diskVars, libVars
  <2> QED
    BY <2>1 DEF RowAt, Handled
<1>4. ASSUME NEW h \in Hash, LoseFolder(h) PROVE RowAt(g)'
  <2> QED
    BY <1>4 DEF LoseFolder
<1>5. ASSUME ProcessAlert PROVE RowAt(g)'
  <2>1. RowAt(g) /\ UNCHANGED <<row, session, rst, req, cpc>>
    BY <1>5 DEF ProcessAlert, RowInv, Calm, history, callVars, diskVars, libVars
  <2> QED
    BY <2>1 DEF RowAt, Handled
<1>6. ASSUME NEW h \in Hash, PeriodicSave(h) PROVE RowAt(g)'
  <2>1. RowAt(g) /\ UNCHANGED <<row, session, rst, req, cpc>>
    BY <1>6 DEF PeriodicSave, RowInv, Calm, history, callVars, diskVars, libVars
  <2> QED
    BY <2>1 DEF RowAt, Handled
<1>7. ASSUME BeginRestore PROVE RowAt(g)'
  <2>1. /\ raced \subseteq raced' /\ hurried' = hurried /\ failed \subseteq failed'
        /\ UNCHANGED <<row, session, req, cpc, phase, site>> /\ rst.cur = None
    BY <1>7 DEF BeginRestore, Connected, diskVars, libVars, callVars, AloneInv, TypeOK
  <2>2. rst'.cur = None /\ RowAt(g)
    BY <1>7, <2>1 DEF RowInv, BeginRestore, NoRestore
  <2> QED
    BY <2>1, <2>2 DEF RowAt, Handled
<1>8. ASSUME BeginRemoteRestore PROVE RowAt(g)'
  <2>1. /\ raced \subseteq raced' /\ hurried' = hurried /\ failed \subseteq failed'
        /\ UNCHANGED <<row, session, req, cpc, phase, site>> /\ rst.cur = None
    BY <1>8 DEF BeginRemoteRestore, Connected, diskVars, libVars, callVars, AloneInv, TypeOK
  <2>2. rst'.cur = None /\ RowAt(g)
    BY <1>8, <2>1, RemoteList DEF RowInv, Wanted
  <2> QED
    BY <2>1, <2>2 DEF RowAt, Handled
<1>9. ASSUME NEW h \in Hash, RestoreFile(h) PROVE RowAt(g)'
  <2>1. /\ raced \subseteq raced' /\ hurried \subseteq hurried'
        /\ UNCHANGED <<session, req, cpc, phase, site>>
        /\ h = g => ~Handled(g)
    BY <1>9 DEF RestoreFile, Witness, libVars, callVars
  <2>2. failed \subseteq failed' /\ g # None
    BY <1>9, FileTurn, TorrentConstants
  <2>3. RowAt(g)
    BY <2>1, <2>2 DEF RowInv
  <2>4. /\ rst.cur = None /\ (rst'.cur = None \/ rst'.cur = h)
        /\ h # g => row'[g] = row[g]
        /\ rst'.cur # h => row' = row
        /\ rst'.cur = g => row'[g] \in Wanted
    BY <1>9, <2>2, FileFate
  <2> QED
    BY <2>1, <2>2, <2>3, <2>4 DEF RowAt, Handled
<1>10. ASSUME RestoreList PROVE RowAt(g)'
  <2>1. /\ raced \subseteq raced' /\ hurried' = hurried /\ failed \subseteq failed'
        /\ UNCHANGED <<row, session, req, cpc, phase, site>> /\ rst.cur = None
    BY <1>10 DEF RestoreList, Connected, diskVars, libVars, callVars, AloneInv, TypeOK
  <2>2. rst'.cur = None /\ RowAt(g)
    BY <1>10, <2>1, RowList DEF RowInv, Wanted
  <2> QED
    BY <2>1, <2>2 DEF RowAt, Handled
<1>11. ASSUME NEW h \in Hash, RestoreRow(h) PROVE RowAt(g)'
  <2>1. /\ raced \subseteq raced' /\ hurried \subseteq hurried'
        /\ UNCHANGED <<row, session, req, cpc, phase, site>>
        /\ h = g => ~Handled(g)
    BY <1>11 DEF RestoreRow, Witness, libVars, callVars, diskVars
  <2>2. failed \subseteq failed' /\ g # None
    BY <1>11, ListTurn, TorrentConstants
  <2>3. RowAt(g)
    BY <2>1, <2>2 DEF RowInv
  <2>4. /\ rst.cur = None /\ (rst'.cur = None \/ rst'.cur = h)
        /\ rst'.cur = g => row[g] \in Wanted
    BY <1>11, <2>2, RowFate
  <2> QED
    BY <2>1, <2>2, <2>3, <2>4 DEF RowAt, Handled
<1>12. ASSUME RestoreAdd PROVE RowAt(g)'
  <2>1. /\ UNCHANGED <<row, req, cpc, raced, hurried, phase, site>> /\ rst'.cur = None
        /\ rst.cur \in Hash /\ failed \subseteq failed' /\ g # None
        /\ session' = session \cup {rst.cur} \/ (session' = session /\ rst.cur \in failed')
    BY <1>12, TorrentConstants DEF RestoreAdd, LibAdd, callVars, diskVars, libVars, AloneInv, TypeOK
  <2>0. RowAt(g)
    BY <2>1 DEF RowInv
  <2>2. CASE g = rst.cur
    <3>1. \A d \in Caller : req[d] # g
      BY <2>1, <2>2 DEF AloneInv
    <3> QED
      BY <2>0, <2>1, <2>2, <3>1 DEF RowAt
  <2>3. CASE g # rst.cur
    BY <2>0, <2>1, <2>3 DEF RowAt, Handled
  <2> QED
    BY <2>2, <2>3
<1>13. ASSUME RestoreEnd PROVE RowAt(g)'
  <2>1. RowAt(g) /\ UNCHANGED <<row, session, req, cpc>> /\ rst.cur = None /\ rst'.cur = None
    BY <1>13 DEF RestoreEnd, RowInv, Calm, history, callVars, diskVars, libVars, AloneInv,
       NoRestore, TypeOK
  <2> QED
    BY <2>1 DEF RowAt, Handled
<1>14. ASSUME NEW c \in Caller, NEW op \in AllOps, NEW h \in Hash, Call(c, op, h) PROVE RowAt(g)'
  <2>1. /\ RowAt(g) /\ UNCHANGED <<row, session, rst>> /\ cpc[c] = "idle" /\ req[c] = None
        /\ cpc'[c] \in {"save", "mark", "move", "look", "list"} /\ req'[c] = h
        /\ \A d \in Caller : d # c => cpc'[d] = cpc[d] /\ req'[d] = req[d]
    BY <1>14 DEF Call, Witness, RowInv, Calm, FirstStep, AllOps, TypeOK, libVars, diskVars,
       AloneInv
  <2>2. CASE h = g
    <3>1. ~Handled(g)
      BY <1>14, <2>2 DEF Call, Witness, Calm
    <3>2. g \in session => row[g] \in Wanted
      BY <2>1, <3>1 DEF RowAt
    <3>3. \A d \in Caller : req'[d] = g => d = c
      BY <2>1, <3>1 DEF Handled
    <3>4. rst'.cur # g /\ Handled(g)'
      BY <2>1, <2>2, <3>1 DEF Handled
    <3> QED
      BY <2>1, <3>2, <3>3, <3>4 DEF RowAt, Running
  <2>3. CASE h # g
    <3>1. Handled(g)' <=> Handled(g)
      BY <2>1, <2>3, TorrentConstants DEF Handled
    <3>2. \A d \in Caller : req'[d] = g => req[d] = g /\ cpc'[d] = cpc[d]
      BY <2>1, <2>3
    <3> QED
      BY <2>1, <3>1, <3>2 DEF RowAt
  <2> QED
    BY <2>2, <2>3
<1>15. ASSUME NEW c \in Caller, SaveRow(c) PROVE RowAt(g)'
  <2>1. Goto(c, "add") \/ Return(c)
    BY <1>15 DEF SaveRow
  <2>2. /\ raced' = raced /\ hurried' = hurried /\ failed \subseteq failed'
        /\ UNCHANGED <<rst, phase, site, session>> /\ cpc[c] = "save"
    BY <1>15 DEF SaveRow, history, libVars
  <2>3. RowAt(g) /\ req[c] \in Hash
    BY <2>2 DEF RowInv, AloneInv, TypeOK
  <2>4. g # req[c] => row'[g] = row[g]
    BY <1>15, <2>3 DEF SaveRow, diskVars, TypeOK
  <2>5. g = req[c] => /\ Return(c) /\ g \in session' => row'[g] \in Wanted
                      /\ Goto(c, "add") => Allowed("add", g)'
    BY <1>15, <2>2, <2>3 DEF SaveRow, RowAt, Allowed, Running, Wanted, diskVars, TypeOK, Status,
       Cleared, Indexed
  <2> QED
    BY <2>1, <2>2, <2>3, <2>4, <2>5, RowTurn
<1>16. ASSUME NEW c \in Caller, Add(c) PROVE RowAt(g)'
  <2>1. Goto(c, "register") \/ Return(c)
    BY <1>16 DEF Add
  <2>2. /\ raced' = raced /\ hurried' = hurried /\ failed \subseteq failed'
        /\ UNCHANGED <<rst, phase, site, row>> /\ cpc[c] = "add"
        /\ session' = session \/ session' = session \cup {req[c]}
    BY <1>16 DEF Add, LibAdd, libVars
  <2>3. RowAt(g) /\ req[c] \in Hash
    BY <2>2 DEF RowInv, AloneInv, TypeOK
  <2>4. g = req[c] => row[g] \in Wanted
    BY <2>2, <2>3 DEF RowAt
  <2> QED
    BY <2>1, <2>2, <2>3, <2>4, RowTurn DEF Allowed
<1>17. ASSUME NEW c \in Caller, Register(c) PROVE RowAt(g)'
  <2>1. Goto(c, "count") \/ Return(c)
    BY <1>17 DEF Register
  <2>2. /\ req[c] \in Hash /\ cpc[c] \in {"register"} /\ RowAt(g) /\ UNCHANGED <<rst, raced>>
        /\ g # req[c] => row'[g] = row[g] /\ (g \in session' <=> g \in session)
    BY <1>17 DEF Register, RowInv, Calm, history, libVars, diskVars, AloneInv, TypeOK
  <2>3. g = req[c] => /\ Return(c) /\ g \in session' => row'[g] \in Wanted
                      /\ Goto(c, "count") => Allowed("count", g)'
    BY <1>17, <2>2 DEF Register, RowAt, Allowed, Running, Wanted, libVars, diskVars, history,
       TypeOK
  <2> QED
    BY <2>1, <2>2, <2>3, RowTurn DEF Calm
<1>18. ASSUME NEW c \in Caller, Count(c) PROVE RowAt(g)'
  <2>1. Goto(c, "count") \/ Return(c)
    BY <1>18 DEF Count
  <2>2. /\ req[c] \in Hash /\ cpc[c] \in {"count"} /\ RowAt(g) /\ UNCHANGED <<rst, raced>>
        /\ g # req[c] => row'[g] = row[g] /\ (g \in session' <=> g \in session)
    BY <1>18 DEF Count, RowInv, Calm, history, libVars, diskVars, AloneInv, TypeOK
  <2>3. g = req[c] => /\ Return(c) /\ g \in session' => row'[g] \in Wanted
                      /\ Goto(c, "count") => Allowed("count", g)'
    BY <1>18, <2>2 DEF Count, RowAt, Allowed, Running, Wanted, libVars, diskVars, history, TypeOK
  <2> QED
    BY <2>1, <2>2, <2>3, RowTurn DEF Calm
<1>19. ASSUME NEW c \in Caller, Move(c) PROVE RowAt(g)'
  <2>1. Goto(c, "count") \/ Return(c)
    BY <1>19 DEF Move
  <2>2. /\ req[c] \in Hash /\ cpc[c] \in {"move"} /\ RowAt(g) /\ UNCHANGED <<rst, raced>>
        /\ g # req[c] => row'[g] = row[g] /\ (g \in session' <=> g \in session)
    BY <1>19 DEF Move, RowInv, Calm, history, libVars, diskVars, AloneInv, TypeOK
  <2>3. g = req[c] => /\ Return(c) /\ g \in session' => row'[g] \in Wanted
                      /\ Goto(c, "count") => Allowed("count", g)'
    BY <1>19, <2>2 DEF Move, RowAt, Allowed, Running, Wanted, libVars, diskVars, history, TypeOK
  <2> QED
    BY <2>1, <2>2, <2>3, RowTurn DEF Calm
<1>20. ASSUME NEW c \in Caller, MarkDeleted(c) PROVE RowAt(g)'
  <2>1. /\ Goto(c, "remove") /\ cpc[c] \in {"mark", "condemn"}
        /\ raced' = raced /\ hurried' = hurried /\ failed \subseteq failed'
        /\ UNCHANGED <<rst, phase, site, session>>
    BY <1>20 DEF MarkDeleted, libVars
  <2>2. RowAt(g) /\ req[c] \in Hash
    BY <2>1 DEF RowInv, AloneInv, TypeOK
  <2>3. g # req[c] => row'[g] = row[g]
    BY <1>20, <2>2 DEF MarkDeleted, TypeOK
  <2>4. ~Return(c) /\ Allowed("remove", g)'
    BY <2>1 DEF Goto, Return, TypeOK, Allowed, Running
  <2> QED
    BY <2>1, <2>2, <2>3, <2>4, RowTurn
<1>21. ASSUME NEW c \in Caller, RemoveTorrent(c) PROVE RowAt(g)'
  <2>1. /\ req[c] \in Hash /\ cpc[c] = "remove" /\ RowAt(g) /\ UNCHANGED <<row, rst, raced, phase>>
    BY <1>21 DEF RemoveTorrent, RowInv, Calm, history, diskVars, AloneInv, TypeOK
  <2>2. CASE Goto(c, "unlink") /\ UNCHANGED libVars /\ req[c] \notin handles
    <3>1. g = req[c] => g \notin session
      <4> SUFFICES ASSUME g = req[c] PROVE g \notin session
        OBVIOUS
      <4>1. ~Awaited(g)
        BY <1>21, <2>1 DEF RemoveTorrent, history, CalmInv, Calm, CalmAt, Early
      <4>2. ~Half(g)
        BY <2>1 DEF Half, AloneInv, Calm
      <4> QED
        BY <2>1, <2>2, <4>1, <4>2 DEF TableInv, TableAt, Calm
    <3>2. ~Return(c)
      BY <2>1, <2>2 DEF Goto, Return, TypeOK
    <3>3. session' = session /\ "unlink" \notin Running
      BY <2>2 DEF libVars, Running
    <3> QED
      BY <2>1, <2>2, <3>1, <3>2, <3>3, RowTurn DEF Calm, Allowed
  <2>3. CASE Return(c) /\ UNCHANGED libVars /\ req[c] \notin session
    <3>1. session' = session /\ (Goto(c, "pop") \/ Return(c)) /\ Allowed("pop", g)'
      BY <2>3 DEF libVars, Allowed, Running
    <3> QED
      BY <2>1, <2>3, <3>1, RowTurn DEF Calm
  <2>4. CASE Goto(c, "pop") /\ LibRemove(req[c])
    <3>1. session' = session \ {req[c]} /\ Allowed("pop", g)'
      BY <2>4 DEF LibRemove, Allowed, Running
    <3> QED
      BY <2>1, <2>4, <3>1, RowTurn DEF Calm
  <2> QED
    BY <1>21, <2>2, <2>3, <2>4, <2>1 DEF RemoveTorrent, Connected
<1>22. ASSUME NEW c \in Caller, Pop(c) PROVE RowAt(g)'
  <2>1. Goto(c, "unlink") \/ Return(c)
    BY <1>22 DEF Pop
  <2>2. /\ req[c] \in Hash /\ cpc[c] \in {"pop"} /\ RowAt(g) /\ UNCHANGED <<rst, raced>>
        /\ g # req[c] => row'[g] = row[g] /\ (g \in session' <=> g \in session)
    BY <1>22 DEF Pop, RowInv, Calm, history, libVars, diskVars, AloneInv, TypeOK
  <2>3. g = req[c] => ~Return(c) /\ g \notin session'
    <3>1. Goto(c, "unlink") /\ session' = session /\ cpc[c] = "pop"
      BY <1>22 DEF Pop, libVars
    <3>2. ~Return(c)
      BY <1>22, <3>1 DEF Goto, Return, TypeOK
    <3>3. g = req[c] => TableAt(g)
      BY <2>2 DEF TableInv, Calm
    <3> QED
      BY <3>1, <3>2, <3>3 DEF TableAt
  <2> QED
    BY <2>1, <2>2, <2>3, RowTurn DEF Calm, Allowed
<1>23. ASSUME NEW c \in Caller, Unlink(c) PROVE RowAt(g)'
  <2>1. Goto(c, "unlink") \/ Return(c)
    BY <1>23 DEF Unlink
  <2>2. /\ req[c] \in Hash /\ cpc[c] \in {"unlink"} /\ RowAt(g) /\ UNCHANGED <<rst, raced>>
        /\ g # req[c] => row'[g] = row[g] /\ (g \in session' <=> g \in session)
    BY <1>23 DEF Unlink, RowInv, Calm, history, libVars, diskVars, AloneInv, TypeOK
  <2>3. g = req[c] => /\ Return(c) /\ g \in session' => row'[g] \in Wanted
                      /\ Goto(c, "unlink") => Allowed("unlink", g)'
    BY <1>23, <2>2 DEF Unlink, RowAt, Allowed, Running, Wanted, libVars, diskVars, history, TypeOK
  <2> QED
    BY <2>1, <2>2, <2>3, RowTurn DEF Calm
<1>24. ASSUME NEW c \in Caller, Reconcile(c) PROVE RowAt(g)'
  <2>1. Goto(c, "weigh") \/ Return(c)
    BY <1>24 DEF Reconcile
  <2>2. /\ raced' = raced /\ hurried' = hurried /\ failed \subseteq failed'
        /\ UNCHANGED <<rst, phase, site, session>> /\ cpc[c] = "list"
    BY <1>24 DEF Reconcile, history, libVars
  <2>3. RowAt(g) /\ req[c] \in Hash
    BY <2>2 DEF RowInv, AloneInv, TypeOK
  <2>4. g # req[c] => row'[g] = row[g]
    BY <1>24, <2>3 DEF Reconcile, diskVars, TypeOK
  <2>5. g = req[c] => /\ Return(c) /\ g \in session' => row'[g] \in Wanted
                      /\ Goto(c, "weigh") => Allowed("weigh", g)'
    BY <1>24, <2>2, <2>3 DEF Reconcile, RowAt, Allowed, Running, Wanted, diskVars, TypeOK
  <2> QED
    BY <2>1, <2>2, <2>3, <2>4, <2>5, RowTurn
<1>25. ASSUME NEW c \in Caller, Weigh(c) PROVE RowAt(g)'
  <2>1. PICK k \in {"settle", "remove", "decide"} : Goto(c, k) \/ Return(c)
    BY <1>25, WeighTurns
  <2>2. /\ UNCHANGED <<raced, hurried, failed, rst, phase, site, session, row>> /\ cpc[c] = "weigh"
    BY <1>25 DEF Weigh, history, libVars, diskVars
  <2>3. RowAt(g) /\ req[c] \in Hash
    BY <2>2 DEF RowInv, AloneInv, TypeOK
  <2>4. Goto(c, "settle") => req[c] \in session
    BY <1>25, <2>2 DEF Weigh, LiveComplete, Live, Goto, Return, TypeOK
  <2>5. g = req[c] /\ g \in session => row[g] \in Wanted
    BY <2>2, <2>3 DEF RowAt, Running
  <2>6. g = req[c] => /\ Return(c) /\ g \in session' => row'[g] \in Wanted
                      /\ Goto(c, k) => Allowed(k, g)'
    BY <2>1, <2>2, <2>4, <2>5 DEF Allowed
  <2> QED
    BY <2>1, <2>2, <2>3, <2>6, RowTurn
<1>26. ASSUME NEW c \in Caller, Settle(c) PROVE RowAt(g)'
  <2>1. Goto(c, "decide") \/ Return(c)
    BY <1>26 DEF Settle
  <2>2. /\ raced' = raced /\ hurried' = hurried /\ failed \subseteq failed'
        /\ UNCHANGED <<rst, phase, site, session>> /\ cpc[c] = "settle"
    BY <1>26 DEF Settle, history, libVars
  <2>3. RowAt(g) /\ req[c] \in Hash
    BY <2>2 DEF RowInv, AloneInv, TypeOK
  <2>4. g # req[c] => row'[g] = row[g]
    BY <1>26, <2>3 DEF Settle, diskVars, TypeOK
  <2>5. g = req[c] => /\ Return(c) /\ g \in session' => row'[g] \in Wanted
                      /\ Goto(c, "decide") => Allowed("decide", g)'
    BY <1>26, <2>2, <2>3 DEF Settle, RowAt, Allowed, Running, Wanted, diskVars, TypeOK
  <2> QED
    BY <2>1, <2>2, <2>3, <2>4, <2>5, RowTurn
<1>27. ASSUME NEW c \in Caller, Decide(c) PROVE RowAt(g)'
  <2>1. Goto(c, "condemn") \/ Return(c)
    BY <1>27 DEF Decide
  <2>2. /\ raced' = raced /\ hurried' = hurried /\ failed \subseteq failed'
        /\ UNCHANGED <<rst, phase, site, session>> /\ cpc[c] = "decide"
    BY <1>27 DEF Decide, history, libVars
  <2>3. RowAt(g) /\ req[c] \in Hash
    BY <2>2 DEF RowInv, AloneInv, TypeOK
  <2>4. g # req[c] => row'[g] = row[g]
    BY <1>27, <2>3 DEF Decide, diskVars, TypeOK
  <2>5. g = req[c] => /\ Return(c) /\ g \in session' => row'[g] \in Wanted
                      /\ Goto(c, "condemn") => Allowed("condemn", g)'
    BY <1>27, <2>2, <2>3 DEF Decide, RowAt, Allowed, Running, Wanted, diskVars, TypeOK
  <2> QED
    BY <2>1, <2>2, <2>3, <2>4, <2>5, RowTurn
<1>28. ASSUME NEW c \in Caller, LookComplete(c) PROVE RowAt(g)'
  <2>1. Goto(c, "write") \/ Return(c)
    BY <1>28 DEF LookComplete
  <2>2. /\ raced' = raced /\ hurried' = hurried /\ failed \subseteq failed'
        /\ UNCHANGED <<rst, phase, site, session>> /\ cpc[c] = "look"
    BY <1>28 DEF LookComplete, history, libVars
  <2>3. RowAt(g) /\ req[c] \in Hash
    BY <2>2 DEF RowInv, AloneInv, TypeOK
  <2>4. g # req[c] => row'[g] = row[g]
    BY <1>28, <2>3 DEF LookComplete, diskVars, TypeOK
  <2>5. g = req[c] => /\ Return(c) /\ g \in session' => row'[g] \in Wanted
                      /\ Goto(c, "write") => Allowed("write", g)'
    BY <1>28, <2>2, <2>3 DEF LookComplete, RowAt, Allowed, Running, Wanted, diskVars, TypeOK
  <2> QED
    BY <2>1, <2>2, <2>3, <2>4, <2>5, RowTurn
<1>29. ASSUME NEW c \in Caller, WriteComplete(c) PROVE RowAt(g)'
  <2>1. Goto(c, "idle") \/ Return(c)
    BY <1>29 DEF WriteComplete
  <2>2. /\ raced' = raced /\ hurried' = hurried /\ failed \subseteq failed'
        /\ UNCHANGED <<rst, phase, site, session>> /\ cpc[c] = "write"
    BY <1>29 DEF WriteComplete, history, libVars
  <2>3. RowAt(g) /\ req[c] \in Hash
    BY <2>2 DEF RowInv, AloneInv, TypeOK
  <2>4. g # req[c] => row'[g] = row[g]
    BY <1>29, <2>3 DEF WriteComplete, diskVars, TypeOK
  <2>5. g = req[c] => /\ Return(c) /\ g \in session' => row'[g] \in Wanted
                      /\ Goto(c, "idle") => Allowed("idle", g)'
    BY <1>29, <2>2, <2>3 DEF WriteComplete, RowAt, Allowed, Running, Wanted, diskVars, TypeOK
  <2> QED
    BY <2>1, <2>2, <2>3, <2>4, <2>5, RowTurn
<1>30. ASSUME Close PROVE RowAt(g)'
  <2> QED
    BY <1>30 DEF Close
<1>31. ASSUME CloseStop PROVE RowAt(g)'
  <2> QED
    BY <1>31 DEF CloseStop
<1>32. ASSUME Drain PROVE RowAt(g)'
  <2> QED
    BY <1>32 DEF Drain
<1>33. ASSUME Drained PROVE RowAt(g)'
  <2> QED
    BY <1>33 DEF Drained
<1>34. ASSUME CloseDone PROVE RowAt(g)'
  <2> QED
    BY <1>34 DEF CloseDone, Gone
<1>35. ASSUME Crash PROVE RowAt(g)'
  <2> QED
    BY <1>35 DEF Crash, Gone
<1>36. CASE UNCHANGED vars
  BY <1>36 DEF vars, diskVars, libVars, callVars, history, RowInv, RowAt, Calm, TypeOK,
      Handled
<1> QED
  BY <1>1, <1>2, <1>3, <1>4, <1>5, <1>6, <1>7, <1>8, <1>9, <1>10, <1>11, <1>12, <1>13,
      <1>14, <1>15, <1>16, <1>17, <1>18, <1>19, <1>20, <1>21, <1>22, <1>23, <1>24,
      <1>25, <1>26, <1>27, <1>28, <1>29, <1>30, <1>31, <1>32, <1>33, <1>34, <1>35, <1>36
      DEF Next, Library, AlertThread, Restore, CallerStep, Shutdown

-----------------------------------------------------------------------------
(* The rows of the torrents that a call takes away or has seen complete. *)

\* What the row of a torrent says when a call about it goes to pc.
Fate(c, pc, h) ==
    /\ pc = "write" => row[h] = "null"
    /\ pc = "weigh" => seen[c] = row[h]
    /\ pc \in {"remove", "pop", "unlink"} => row[h] \notin Wanted

\* A caller goes to one state and does not return at once.
LEMMA OneTurn ==
    ASSUME TypeOK, NEW c \in Caller, NEW k, NEW l, Goto(c, k), k # "idle", k # l
    PROVE  ~Return(c) /\ ~Goto(c, l)
BY DEF TypeOK, Goto, Return

\* A step of a caller: only the row of its own torrent may change.
LEMMA FateTurn ==
    ASSUME TypeOK, AloneInv, FateInv, NEW c \in Caller, req[c] \in Hash, cpc[c] # "idle",
           NEW k, Goto(c, k) \/ Return(c), raced' = raced, failed \subseteq failed', NEW d \in Caller,
           \A x \in Hash : x # req[c] => row'[x] = row[x],
           \A x \in Caller : x # c => seen'[x] = seen[x],
           Goto(c, k) /\ req[c] \notin raced \cup failed' => Fate(c, k, req[c])'
    PROVE  FateAt(d)'
<1>1. /\ d # c => cpc'[d] = cpc[d] /\ req'[d] = req[d]
      /\ \/ cpc'[c] = k /\ req'[c] = req[c] /\ Goto(c, k)
         \/ cpc'[c] = "idle" /\ req'[c] = None /\ Return(c)
  BY OneCaller
<1>2. CASE d = c
  BY <1>1, <1>2 DEF FateAt, Fate
<1>3. CASE d # c
  <2>1. cpc[d] = "idle" \/ req[d] \in raced \/ (req[d] \in Hash /\ req[d] # req[c])
    BY <1>3 DEF AloneInv, TypeOK
  <2>2. FateAt(d) /\ seen'[d] = seen[d]
    BY <1>3 DEF FateInv
  <2> QED
    BY <1>1, <1>3, <2>1, <2>2 DEF FateAt
<1> QED
  BY <1>2, <1>3

\* A step keeps what the calls have read or written of their rows.
LEMMA FateStep ==
    ASSUME TypeOK, AloneInv, FateInv, [Next]_vars, NEW d \in Caller
    PROVE  FateAt(d)'
<1>1. ASSUME Start PROVE FateAt(d)'
  BY <1>1 DEF Start, history, callVars, libVars, FateInv, FateAt, TypeOK
<1>2. ASSUME NEW h \in Hash, LibSaved(h) PROVE FateAt(d)'
  BY <1>2 DEF LibSaved, history, callVars, diskVars, FateInv, FateAt, TypeOK
<1>3. ASSUME NEW h \in Hash, LibDownload(h) PROVE FateAt(d)'
  BY <1>3 DEF LibDownload, history, callVars, libVars, FateInv, FateAt, TypeOK
<1>4. ASSUME NEW h \in Hash, LoseFolder(h) PROVE FateAt(d)'
  BY <1>4 DEF LoseFolder, history, callVars, libVars, FateInv, FateAt, TypeOK
<1>5. ASSUME ProcessAlert PROVE FateAt(d)'
  BY <1>5 DEF ProcessAlert, history, callVars, CountDown, WriteResume, HandlesAfter,
      FateInv, FateAt, TypeOK
<1>6. ASSUME NEW h \in Hash, PeriodicSave(h) PROVE FateAt(d)'
  BY <1>6 DEF PeriodicSave, history, callVars, diskVars, FateInv, FateAt, TypeOK
<1>7. ASSUME BeginRestore PROVE FateAt(d)'
  <2>1. UNCHANGED <<req, cpc, row, seen>> /\ raced \subseteq raced' /\ failed \subseteq failed'
    BY <1>7 DEF BeginRestore, callVars, diskVars, history, Failing, TypeOK
  <2> QED
    BY <2>1 DEF FateInv, FateAt
<1>8. ASSUME BeginRemoteRestore PROVE FateAt(d)'
  <2>1. UNCHANGED <<req, cpc, row, seen>> /\ raced \subseteq raced' /\ failed \subseteq failed'
    BY <1>8 DEF BeginRemoteRestore, callVars, diskVars, history, Failing, TypeOK
  <2> QED
    BY <2>1 DEF FateInv, FateAt
<1>9. ASSUME NEW h \in Hash, RestoreFile(h) PROVE FateAt(d)'
  <2>1. UNCHANGED <<req, cpc, seen>> /\ raced \subseteq raced' /\ (req[d] = h => req[d] \in raced')
    BY <1>9 DEF RestoreFile, callVars, Witness, Handled
  <2>2. failed \subseteq failed' /\ \A x \in Hash \ {h} : row'[x] = row[x]
    BY <1>9, FileTurn, FileFate
  <2> QED
    BY <2>1, <2>2 DEF FateInv, FateAt, AloneInv, TypeOK
<1>10. ASSUME RestoreList PROVE FateAt(d)'
  <2>1. UNCHANGED <<req, cpc, row, seen>> /\ raced \subseteq raced' /\ failed \subseteq failed'
    BY <1>10, RowList DEF RestoreList, callVars, diskVars, history, Failing, TypeOK
  <2> QED
    BY <2>1 DEF FateInv, FateAt
<1>11. ASSUME NEW h \in Hash, RestoreRow(h) PROVE FateAt(d)'
  <2>1. UNCHANGED <<req, cpc, row, seen>> /\ raced \subseteq raced' /\ failed \subseteq failed'
    BY <1>11, ListTurn DEF RestoreRow, callVars, diskVars, Witness
  <2> QED
    BY <2>1 DEF FateInv, FateAt
<1>12. ASSUME RestoreAdd PROVE FateAt(d)'
  <2>1. UNCHANGED <<req, cpc, row, seen>> /\ raced \subseteq raced' /\ failed \subseteq failed'
    BY <1>12 DEF RestoreAdd, callVars, diskVars, history, Failing, TypeOK
  <2> QED
    BY <2>1 DEF FateInv, FateAt
<1>13. ASSUME RestoreEnd PROVE FateAt(d)'
  BY <1>13 DEF RestoreEnd, history, callVars, libVars, diskVars, NoRestore, FateInv,
      FateAt, TypeOK
<1>14. ASSUME NEW c \in Caller, NEW op \in AllOps, NEW h \in Hash, Call(c, op, h) PROVE FateAt(d)'
  <2>1. /\ UNCHANGED <<row, seen, failed>> /\ raced \subseteq raced'
        /\ cpc'[c] \notin {"write", "weigh", "remove", "pop", "unlink"}
        /\ d # c => cpc'[d] = cpc[d] /\ req'[d] = req[d]
    BY <1>14 DEF Call, Witness, FirstStep, AllOps, TypeOK, diskVars
  <2> QED
    BY <2>1 DEF FateInv, FateAt
<1>15. ASSUME NEW c \in Caller, SaveRow(c) PROVE FateAt(d)'
  <2>1. Goto(c, "add") \/ Return(c)
    BY <1>15 DEF SaveRow
  <2>2. raced' = raced /\ failed \subseteq failed' /\ cpc[c] \in {"save"} /\ UNCHANGED seen
    BY <1>15 DEF SaveRow, history, callVars, Failing
  <2>3. req[c] \in Hash /\ FateAt(c)
    BY <2>2 DEF AloneInv, FateInv, TypeOK
  <2>4. \A x \in Hash : x # req[c] => row'[x] = row[x]
    BY <1>15, <2>3 DEF SaveRow, diskVars, TypeOK
  <2>5. Goto(c, "add") /\ req[c] \notin raced \cup failed' => Fate(c, "add", req[c])'
    BY DEF Fate
  <2> QED
    BY <2>1, <2>2, <2>3, <2>4, <2>5, FateTurn
<1>16. ASSUME NEW c \in Caller, Add(c) PROVE FateAt(d)'
  <2>1. Goto(c, "register") \/ Return(c)
    BY <1>16 DEF Add
  <2>2. raced' = raced /\ failed \subseteq failed' /\ cpc[c] \in {"add"} /\ UNCHANGED seen
    BY <1>16 DEF Add, history, callVars, Failing
  <2>3. req[c] \in Hash /\ FateAt(c)
    BY <2>2 DEF AloneInv, FateInv, TypeOK
  <2>4. \A x \in Hash : x # req[c] => row'[x] = row[x]
    BY <1>16, <2>3 DEF Add, diskVars, TypeOK
  <2>5. Goto(c, "register") /\ req[c] \notin raced \cup failed' => Fate(c, "register", req[c])'
    BY DEF Fate
  <2> QED
    BY <2>1, <2>2, <2>3, <2>4, <2>5, FateTurn
<1>17. ASSUME NEW c \in Caller, Register(c) PROVE FateAt(d)'
  <2>1. Goto(c, "count") \/ Return(c)
    BY <1>17 DEF Register
  <2>2. raced' = raced /\ failed \subseteq failed' /\ cpc[c] \in {"register"} /\ UNCHANGED seen
    BY <1>17 DEF Register, history, callVars, Failing
  <2>3. req[c] \in Hash /\ FateAt(c)
    BY <2>2 DEF AloneInv, FateInv, TypeOK
  <2>4. \A x \in Hash : x # req[c] => row'[x] = row[x]
    BY <1>17, <2>3 DEF Register, diskVars, TypeOK
  <2>5. Goto(c, "count") /\ req[c] \notin raced \cup failed' => Fate(c, "count", req[c])'
    BY DEF Fate
  <2> QED
    BY <2>1, <2>2, <2>3, <2>4, <2>5, FateTurn
<1>18. ASSUME NEW c \in Caller, Count(c) PROVE FateAt(d)'
  <2>1. Goto(c, "idle") \/ Return(c)
    BY <1>18 DEF Count
  <2>2. raced' = raced /\ failed \subseteq failed' /\ cpc[c] \in {"count"} /\ UNCHANGED seen
    BY <1>18 DEF Count, history, callVars, Failing
  <2>3. req[c] \in Hash /\ FateAt(c)
    BY <2>2 DEF AloneInv, FateInv, TypeOK
  <2>4. \A x \in Hash : x # req[c] => row'[x] = row[x]
    BY <1>18, <2>3 DEF Count, diskVars, TypeOK
  <2>5. Goto(c, "idle") /\ req[c] \notin raced \cup failed' => Fate(c, "idle", req[c])'
    BY DEF Fate
  <2> QED
    BY <2>1, <2>2, <2>3, <2>4, <2>5, FateTurn
<1>19. ASSUME NEW c \in Caller, Move(c) PROVE FateAt(d)'
  <2>1. Goto(c, "count") \/ Return(c)
    BY <1>19 DEF Move
  <2>2. raced' = raced /\ failed \subseteq failed' /\ cpc[c] \in {"move"} /\ UNCHANGED seen
    BY <1>19 DEF Move, history, callVars, Failing
  <2>3. req[c] \in Hash /\ FateAt(c)
    BY <2>2 DEF AloneInv, FateInv, TypeOK
  <2>4. \A x \in Hash : x # req[c] => row'[x] = row[x]
    BY <1>19, <2>3 DEF Move, diskVars, TypeOK
  <2>5. Goto(c, "count") /\ req[c] \notin raced \cup failed' => Fate(c, "count", req[c])'
    BY DEF Fate
  <2> QED
    BY <2>1, <2>2, <2>3, <2>4, <2>5, FateTurn
<1>20. ASSUME NEW c \in Caller, MarkDeleted(c) PROVE FateAt(d)'
  <2>1. Goto(c, "remove") \/ Return(c)
    BY <1>20 DEF MarkDeleted
  <2>2. raced' = raced /\ failed \subseteq failed' /\ cpc[c] \in {"mark", "condemn"} /\ UNCHANGED seen
    BY <1>20 DEF MarkDeleted, history, callVars, Failing
  <2>3. req[c] \in Hash /\ FateAt(c)
    BY <2>2 DEF AloneInv, FateInv, TypeOK
  <2>4. \A x \in Hash : x # req[c] => row'[x] = row[x]
    BY <1>20, <2>3 DEF MarkDeleted, diskVars, TypeOK
  <2>5. Goto(c, "remove") /\ req[c] \notin raced \cup failed' => Fate(c, "remove", req[c])'
    <3>1. req[c] \notin failed' => row'[req[c]] \notin Wanted
      BY <1>20, <2>3 DEF MarkDeleted, Failing, Wanted, TypeOK
    <3> QED
      BY <3>1 DEF Goto, Fate
  <2> QED
    BY <2>1, <2>2, <2>3, <2>4, <2>5, FateTurn
<1>21. ASSUME NEW c \in Caller, RemoveTorrent(c) PROVE FateAt(d)'
  <2>1. PICK k \in {"pop", "unlink"} : Goto(c, k) \/ Return(c)
    BY <1>21 DEF RemoveTorrent
  <2>2. raced' = raced /\ failed \subseteq failed' /\ cpc[c] \in {"remove"} /\ UNCHANGED seen
    BY <1>21 DEF RemoveTorrent, history, callVars, Failing
  <2>3. req[c] \in Hash /\ FateAt(c)
    BY <2>2 DEF AloneInv, FateInv, TypeOK
  <2>4. \A x \in Hash : x # req[c] => row'[x] = row[x]
    BY <1>21, <2>3 DEF RemoveTorrent, diskVars, TypeOK
  <2>5. Goto(c, k) /\ req[c] \notin raced \cup failed' => Fate(c, k, req[c])'
    <3>1. row' = row /\ (req[c] \notin raced \cup failed => row[req[c]] \notin Wanted)
      BY <1>21, <2>2, <2>3 DEF RemoveTorrent, diskVars, FateAt
    <3> QED
      BY <2>1, <2>2, <3>1 DEF Goto, Fate
  <2> QED
    BY <2>1, <2>2, <2>3, <2>4, <2>5, FateTurn
<1>22. ASSUME NEW c \in Caller, Pop(c) PROVE FateAt(d)'
  <2>1. Goto(c, "unlink") \/ Return(c)
    BY <1>22 DEF Pop
  <2>2. raced' = raced /\ failed \subseteq failed' /\ cpc[c] \in {"pop"} /\ UNCHANGED seen
    BY <1>22 DEF Pop, history, callVars, Failing
  <2>3. req[c] \in Hash /\ FateAt(c)
    BY <2>2 DEF AloneInv, FateInv, TypeOK
  <2>4. \A x \in Hash : x # req[c] => row'[x] = row[x]
    BY <1>22, <2>3 DEF Pop, diskVars, TypeOK
  <2>5. Goto(c, "unlink") /\ req[c] \notin raced \cup failed' => Fate(c, "unlink", req[c])'
    <3>1. row' = row /\ (req[c] \notin raced \cup failed => row[req[c]] \notin Wanted)
      BY <1>22, <2>2, <2>3 DEF Pop, diskVars, FateAt
    <3> QED
      BY <2>2, <3>1 DEF Goto, Fate
  <2> QED
    BY <2>1, <2>2, <2>3, <2>4, <2>5, FateTurn
<1>23. ASSUME NEW c \in Caller, Unlink(c) PROVE FateAt(d)'
  <2>1. Goto(c, "idle") \/ Return(c)
    BY <1>23 DEF Unlink
  <2>2. raced' = raced /\ failed \subseteq failed' /\ cpc[c] \in {"unlink"} /\ UNCHANGED seen
    BY <1>23 DEF Unlink, history, callVars, Failing
  <2>3. req[c] \in Hash /\ FateAt(c)
    BY <2>2 DEF AloneInv, FateInv, TypeOK
  <2>4. \A x \in Hash : x # req[c] => row'[x] = row[x]
    BY <1>23, <2>3 DEF Unlink, diskVars, TypeOK
  <2>5. Goto(c, "idle") /\ req[c] \notin raced \cup failed' => Fate(c, "idle", req[c])'
    BY DEF Fate
  <2> QED
    BY <2>1, <2>2, <2>3, <2>4, <2>5, FateTurn
<1>24. ASSUME NEW c \in Caller, Reconcile(c) PROVE FateAt(d)'
  <2>1. Goto(c, "weigh") \/ Return(c)
    BY <1>24 DEF Reconcile
  <2>2. UNCHANGED <<raced, failed, row>> /\ cpc[c] = "list"
    BY <1>24 DEF Reconcile, history, diskVars
  <2>3. req[c] \in Hash
    BY <2>2 DEF AloneInv, TypeOK
  <2>4. seen'[c] = row[req[c]] /\ \A x \in Caller : x # c => seen'[x] = seen[x]
    BY <1>24 DEF Reconcile, TypeOK
  <2>5. Goto(c, "weigh") => Fate(c, "weigh", req[c])'
    BY <2>2, <2>4 DEF Goto, Fate
  <2> QED
    BY <2>1, <2>2, <2>3, <2>4, <2>5, FateTurn
<1>25. ASSUME NEW c \in Caller, Weigh(c) PROVE FateAt(d)'
  <2>1. PICK k \in {"settle", "remove", "decide"} : Goto(c, k) \/ Return(c)
    BY <1>25, WeighTurns
  <2>2. raced' = raced /\ failed \subseteq failed' /\ cpc[c] \in {"weigh"} /\ UNCHANGED seen
    BY <1>25 DEF Weigh, history, callVars, Failing
  <2>3. req[c] \in Hash /\ FateAt(c)
    BY <2>2 DEF AloneInv, FateInv, TypeOK
  <2>4. \A x \in Hash : x # req[c] => row'[x] = row[x]
    BY <1>25, <2>3 DEF Weigh, diskVars, TypeOK
  <2>5. Goto(c, k) /\ req[c] \notin raced \cup failed' => Fate(c, k, req[c])'
    <3>1. row' = row /\ (req[c] \notin raced \cup failed => seen[c] = row[req[c]])
      BY <1>25, <2>2, <2>3 DEF Weigh, diskVars, FateAt
    <3>2. Goto(c, "remove") => seen[c] = "deleted"
      BY <1>25, <2>2 DEF Weigh, Goto, Return, TypeOK
    <3> QED
      BY <2>1, <2>2, <3>1, <3>2 DEF Goto, Fate, Wanted
  <2> QED
    BY <2>1, <2>2, <2>3, <2>4, <2>5, FateTurn
<1>26. ASSUME NEW c \in Caller, Settle(c) PROVE FateAt(d)'
  <2>1. Goto(c, "decide") \/ Return(c)
    BY <1>26 DEF Settle
  <2>2. raced' = raced /\ failed \subseteq failed' /\ cpc[c] \in {"settle"} /\ UNCHANGED seen
    BY <1>26 DEF Settle, history, callVars, Failing
  <2>3. req[c] \in Hash /\ FateAt(c)
    BY <2>2 DEF AloneInv, FateInv, TypeOK
  <2>4. \A x \in Hash : x # req[c] => row'[x] = row[x]
    BY <1>26, <2>3 DEF Settle, diskVars, TypeOK
  <2>5. Goto(c, "decide") /\ req[c] \notin raced \cup failed' => Fate(c, "decide", req[c])'
    BY DEF Fate
  <2> QED
    BY <2>1, <2>2, <2>3, <2>4, <2>5, FateTurn
<1>27. ASSUME NEW c \in Caller, Decide(c) PROVE FateAt(d)'
  <2>1. Goto(c, "condemn") \/ Return(c)
    BY <1>27 DEF Decide
  <2>2. raced' = raced /\ failed \subseteq failed' /\ cpc[c] \in {"decide"} /\ UNCHANGED seen
    BY <1>27 DEF Decide, history, callVars, Failing
  <2>3. req[c] \in Hash /\ FateAt(c)
    BY <2>2 DEF AloneInv, FateInv, TypeOK
  <2>4. \A x \in Hash : x # req[c] => row'[x] = row[x]
    BY <1>27, <2>3 DEF Decide, diskVars, TypeOK
  <2>5. Goto(c, "condemn") /\ req[c] \notin raced \cup failed' => Fate(c, "condemn", req[c])'
    BY DEF Fate
  <2> QED
    BY <2>1, <2>2, <2>3, <2>4, <2>5, FateTurn
<1>28. ASSUME NEW c \in Caller, LookComplete(c) PROVE FateAt(d)'
  <2>1. Goto(c, "write") \/ Return(c)
    BY <1>28 DEF LookComplete
  <2>2. raced' = raced /\ failed \subseteq failed' /\ cpc[c] \in {"look"} /\ UNCHANGED seen
    BY <1>28 DEF LookComplete, history, callVars, Failing
  <2>3. req[c] \in Hash /\ FateAt(c)
    BY <2>2 DEF AloneInv, FateInv, TypeOK
  <2>4. \A x \in Hash : x # req[c] => row'[x] = row[x]
    BY <1>28, <2>3 DEF LookComplete, diskVars, TypeOK
  <2>5. Goto(c, "write") /\ req[c] \notin raced \cup failed' => Fate(c, "write", req[c])'
    <3>1. Goto(c, "write") => row[req[c]] = "null" \/ req[c] \in failed'
      BY <1>28, OneTurn DEF LookComplete, Failing
    <3> QED
      BY <1>28, <3>1 DEF LookComplete, Goto, Fate, diskVars
  <2> QED
    BY <2>1, <2>2, <2>3, <2>4, <2>5, FateTurn
<1>29. ASSUME NEW c \in Caller, WriteComplete(c) PROVE FateAt(d)'
  <2>1. Goto(c, "idle") \/ Return(c)
    BY <1>29 DEF WriteComplete
  <2>2. raced' = raced /\ failed \subseteq failed' /\ cpc[c] \in {"write"} /\ UNCHANGED seen
    BY <1>29 DEF WriteComplete, history, callVars, Failing
  <2>3. req[c] \in Hash /\ FateAt(c)
    BY <2>2 DEF AloneInv, FateInv, TypeOK
  <2>4. \A x \in Hash : x # req[c] => row'[x] = row[x]
    BY <1>29, <2>3 DEF WriteComplete, diskVars, TypeOK
  <2>5. Goto(c, "idle") /\ req[c] \notin raced \cup failed' => Fate(c, "idle", req[c])'
    BY DEF Fate
  <2> QED
    BY <2>1, <2>2, <2>3, <2>4, <2>5, FateTurn
<1>30. ASSUME Close PROVE FateAt(d)'
  <2>1. UNCHANGED <<req, cpc, row, seen>> /\ raced \subseteq raced' /\ failed \subseteq failed'
    BY <1>30 DEF Close, callVars, diskVars, history, Failing, TypeOK
  <2> QED
    BY <2>1 DEF FateInv, FateAt
<1>31. ASSUME CloseStop PROVE FateAt(d)'
  BY <1>31 DEF CloseStop, history, callVars, libVars, diskVars, FateInv, FateAt, TypeOK
<1>32. ASSUME Drain PROVE FateAt(d)'
  BY <1>32 DEF Drain, history, callVars, diskVars, FateInv, FateAt, TypeOK
<1>33. ASSUME Drained PROVE FateAt(d)'
  BY <1>33 DEF Drained, history, callVars, libVars, diskVars, FateInv, FateAt, TypeOK
<1>34. ASSUME CloseDone PROVE FateAt(d)'
  <2> QED
    BY <1>34 DEF CloseDone, Gone, FateAt
<1>35. ASSUME Crash PROVE FateAt(d)'
  <2> QED
    BY <1>35 DEF Crash, Gone, FateAt
<1>36. CASE UNCHANGED vars
  BY <1>36 DEF vars, diskVars, libVars, callVars, history, FateInv, FateAt, TypeOK
<1> QED
  BY <1>1, <1>2, <1>3, <1>4, <1>5, <1>6, <1>7, <1>8, <1>9, <1>10, <1>11, <1>12, <1>13,
      <1>14, <1>15, <1>16, <1>17, <1>18, <1>19, <1>20, <1>21, <1>22, <1>23, <1>24,
      <1>25, <1>26, <1>27, <1>28, <1>29, <1>30, <1>31, <1>32, <1>33, <1>34, <1>35, <1>36
      DEF Next, Library, AlertThread, Restore, CallerStep, Shutdown

-----------------------------------------------------------------------------
(* What the restore, or a call, still has to add. *)

\* A step of a caller that is not about to add its torrent.
LEMMA KeptTurn ==
    ASSUME TypeOK, NEW g \in Hash, KeptAt(g), NEW c \in Caller, NEW k, Goto(c, k) \/ Return(c),
           cpc[c] # "add", UNCHANGED <<rst, payload>>,
           row[g] \in Wanted /\ g \in session => g \in session',
           row'[g] \in Wanted => row[g] \in Wanted
    PROVE  KeptAt(g)'
<1>1. \A d \in Caller : d # c => cpc'[d] = cpc[d] /\ req'[d] = req[d]
  BY OneCaller
<1> QED
  BY <1>1 DEF KeptAt

\* A step does not forget a torrent that the database wants.
LEMMA DurableStep ==
    ASSUME TypeOK, DownInv, AloneInv, TableInv, CalmInv, RowInv, ListInv, FateInv, DurableInv,
        [Next]_vars, NEW g \in Hash, Sound(g)', ~site.remote, phase' = "ready", Listed'
    PROVE  KeptAt(g)'
<1> USE DEF Sound, Calm, Failing
<1>1. ASSUME Start PROVE KeptAt(g)'
  <2> QED
    BY <1>1 DEF Start, DownInv, NoRestore, Listed, ListInv, TypeOK
<1>2. ASSUME NEW h \in Hash, LibSaved(h) PROVE KeptAt(g)'
  <2>1. KeptAt(g) /\ UNCHANGED <<row, session, payload, rst, req, cpc>>
    BY <1>2 DEF LibSaved, DurableInv, Calm, Listed, history, callVars, diskVars
  <2> QED
    BY <2>1 DEF KeptAt
<1>3. ASSUME NEW h \in Hash, LibDownload(h) PROVE KeptAt(g)'
  <2>1. KeptAt(g) /\ UNCHANGED <<row, session, rst, req, cpc>> /\ h \in session
        /\ (h # g => payload'[g] = payload[g])
    BY <1>3 DEF LibDownload, DurableInv, Calm, Listed, history, libVars, callVars, TypeOK
  <2> QED
    BY <2>1 DEF KeptAt
<1>4. ASSUME NEW h \in Hash, LoseFolder(h) PROVE KeptAt(g)'
  <2> QED
    BY <1>4 DEF LoseFolder
<1>5. ASSUME ProcessAlert PROVE KeptAt(g)'
  <2>1. KeptAt(g) /\ UNCHANGED <<row, session, payload, rst, req, cpc>>
    BY <1>5 DEF ProcessAlert, DurableInv, Calm, Listed, history, callVars, diskVars
  <2> QED
    BY <2>1 DEF KeptAt
<1>6. ASSUME NEW h \in Hash, PeriodicSave(h) PROVE KeptAt(g)'
  <2>1. KeptAt(g) /\ UNCHANGED <<row, session, payload, rst, req, cpc>>
    BY <1>6 DEF PeriodicSave, DurableInv, Calm, Listed, history, callVars, diskVars
  <2> QED
    BY <2>1 DEF KeptAt
<1>7. ASSUME BeginRestore PROVE KeptAt(g)'
  <2> QED
    BY <1>7 DEF BeginRestore, DownInv, NoRestore, Listed, ListInv, TypeOK
<1>8. ASSUME BeginRemoteRestore PROVE KeptAt(g)'
  <2> QED
    BY <1>8 DEF BeginRemoteRestore
<1>9. ASSUME NEW h \in Hash, RestoreFile(h) PROVE KeptAt(g)'
  <2> QED
    BY <1>9, FileTurn DEF RestoreFile, Listed, ListInv
<1>10. ASSUME RestoreList PROVE KeptAt(g)'
  <2>1. rst'.pc = "rows" /\ RestoreRows \ rst'.todo \subseteq failed' /\ row' = row
    BY <1>10, RowList DEF RestoreList, diskVars
  <2> QED
    BY <2>1 DEF RestoreRows, KeptAt, Wanted
<1>11. ASSUME NEW h \in Hash, RestoreRow(h) PROVE KeptAt(g)'
  <2>1. /\ UNCHANGED <<row, payload, session, handles, req, cpc, phase, site>> /\ rst.pc = "rows"
        /\ raced \subseteq raced' /\ hurried \subseteq hurried' /\ g # None
        /\ h = g => ~Handled(g) /\ ~Awaited(g)
    BY <1>11, TorrentConstants DEF RestoreRow, Witness, libVars, callVars, diskVars
  <2>2. /\ rst'.todo = rst.todo \ {h} /\ rst'.pc \in {"rows", "addRow"} /\ failed \subseteq failed'
        /\ rst.cur = None
        /\ rst'.cur = None \/ rst'.cur = h
        /\ rst'.cur = None => h \in handles \/ payload[h] = "missing" \/ row[h] = "deleted"
    BY <1>11, <2>1, ListTurn, RowFate
  <2>3. KeptAt(g)
    BY <2>1, <2>2 DEF DurableInv, Listed
  <2>4. CASE h = g
    <3>1. g \in handles <=> g \in session
      BY <2>1, <2>4 DEF Handled, Half, TableInv, TableAt
    <3> QED
      BY <2>1, <2>2, <2>4, <3>1 DEF KeptAt, Wanted
  <2>5. CASE h # g
    BY <2>1, <2>2, <2>3, <2>5 DEF KeptAt
  <2> QED
    BY <2>4, <2>5
<1>12. ASSUME RestoreAdd PROVE KeptAt(g)'
  <2>1. /\ UNCHANGED <<row, payload, req, cpc, raced, hurried, phase, site, restored>>
        /\ failed \subseteq failed' /\ g # None
        /\ session' = session \cup {rst.cur} \/ (session' = session /\ rst.cur \in failed')
    BY <1>12, TorrentConstants DEF RestoreAdd, LibAdd, libVars, callVars, diskVars
  <2>2. rst.pc = "addRow" /\ rst'.todo = rst.todo /\ rst'.pc = "rows"
    BY <1>12, <2>1 DEF RestoreAdd, Listed, ListInv, TypeOK
  <2>3. KeptAt(g)
    BY <2>1, <2>2 DEF DurableInv, Listed
  <2> QED
    BY <2>1, <2>2, <2>3 DEF KeptAt
<1>13. ASSUME RestoreEnd PROVE KeptAt(g)'
  <2>1. /\ KeptAt(g) /\ UNCHANGED <<row, payload, session, req, cpc>> /\ rst.cur = None /\ rst.todo = {}
    BY <1>13 DEF RestoreEnd, DurableInv, Calm, Listed, history, libVars, callVars, diskVars,
       AloneInv, TypeOK
  <2> QED
    BY <2>1, TorrentConstants DEF KeptAt
<1>14. ASSUME NEW c \in Caller, NEW op \in AllOps, NEW h \in Hash, Call(c, op, h) PROVE KeptAt(g)'
  <2>1. /\ KeptAt(g) /\ UNCHANGED <<row, payload, session, rst>> /\ cpc[c] = "idle"
        /\ \A d \in Caller : d # c => cpc'[d] = cpc[d] /\ req'[d] = req[d]
    BY <1>14 DEF Call, Witness, DurableInv, Calm, Listed, TypeOK, libVars, diskVars
  <2> QED
    BY <2>1 DEF KeptAt
<1>15. ASSUME NEW c \in Caller, SaveRow(c) PROVE KeptAt(g)'
  <2>1. /\ UNCHANGED <<payload, session, rst, phase, site, restored>> /\ cpc[c] = "save"
        /\ raced' = raced /\ hurried' = hurried /\ failed \subseteq failed'
        /\ Goto(c, "add") \/ Return(c)
    BY <1>15 DEF SaveRow, libVars
  <2>2. KeptAt(g)
    BY <2>1 DEF DurableInv, Listed
  <2>3. CASE req[c] = g
    <3>1. Goto(c, "add")
      BY <1>15, <2>3 DEF SaveRow
    <3>2. req'[c] = g /\ cpc'[c] = "add"
      BY <2>3, <3>1 DEF Goto, TypeOK
    <3> QED
      BY <3>2 DEF KeptAt
  <2>4. CASE req[c] # g
    <3>1. row'[g] = row[g]
      BY <1>15, <2>4 DEF SaveRow, TypeOK
    <3> QED
      BY <2>1, <2>2, <3>1, KeptTurn
  <2> QED
    BY <2>3, <2>4
<1>16. ASSUME NEW c \in Caller, Add(c) PROVE KeptAt(g)'
  <2>1. /\ UNCHANGED <<row, rst, raced, hurried, phase, site, restored, handles>> /\ cpc[c] = "add"
        /\ req[c] \in Hash /\ failed \subseteq failed'
    BY <1>16 DEF Add, AloneInv, TypeOK
  <2>0. KeptAt(g)
    BY <2>1 DEF DurableInv, Listed
  <2>2. CASE Return(c) /\ UNCHANGED <<payload, libVars>> /\ req[c] \in handles
    <3>1. \A d \in Caller : d # c => cpc'[d] = cpc[d] /\ req'[d] = req[d]
      BY <2>1, <2>2, OneCaller
    <3>2. CASE req[c] = g
      <4>1. ~Awaited(g)
        BY <2>1, <3>2 DEF CalmInv, Calm, CalmAt, Early
      <4>2. ~Half(g)
        BY <2>1, <3>2 DEF Half, AloneInv, Calm
      <4>3. g \in session'
        BY <2>1, <2>2, <3>2, <4>1, <4>2 DEF TableInv, TableAt, Calm, libVars
      <4> QED
        BY <4>3 DEF KeptAt
    <3>3. CASE req[c] # g
      BY <2>0, <2>1, <2>2, <3>1, <3>3 DEF KeptAt, libVars
    <3> QED
      BY <3>2, <3>3
  <2>3. CASE Goto(c, "register") /\ LibAdd(req[c])
    <3>1. session' = session \cup {req[c]} /\ (req[c] # g => payload'[g] = payload[g])
      BY <1>16, <2>1, <2>3 DEF Add, LibAdd, TypeOK
    <3>2. \A d \in Caller : d # c => cpc'[d] = cpc[d] /\ req'[d] = req[d]
      BY <2>1, <2>3, OneCaller
    <3> QED
      BY <2>0, <2>1, <3>1, <3>2 DEF KeptAt
  <2>4. CASE Return(c) /\ UNCHANGED libVars /\ req[c] \in failed'
    <3>1. \A d \in Caller : d # c => cpc'[d] = cpc[d] /\ req'[d] = req[d]
      BY <2>1, <2>4, OneCaller
    <3>2. req[c] # g /\ payload'[g] = payload[g]
      BY <1>16, <2>4 DEF Add, TypeOK
    <3> QED
      BY <2>0, <2>1, <2>4, <3>1, <3>2 DEF KeptAt, libVars
  <2> QED
    BY <1>16, <2>1, <2>2, <2>3, <2>4 DEF Add, Connected
<1>17. ASSUME NEW c \in Caller, Register(c) PROVE KeptAt(g)'
  <2>1. Goto(c, "count") \/ Return(c)
    BY <1>17 DEF Register
  <2>2. KeptAt(g) /\ cpc[c] # "add" /\ UNCHANGED <<rst, payload>>
    BY <1>17 DEF Register, DurableInv, Calm, Listed, history, diskVars, libVars
  <2>3. session' = session /\ row' = row
    BY <1>17 DEF Register, diskVars, libVars
  <2> QED
    BY <2>1, <2>2, <2>3, KeptTurn
<1>18. ASSUME NEW c \in Caller, Count(c) PROVE KeptAt(g)'
  <2>1. Goto(c, "idle") \/ Return(c)
    BY <1>18 DEF Count
  <2>2. KeptAt(g) /\ cpc[c] # "add" /\ UNCHANGED <<rst, payload>>
    BY <1>18 DEF Count, DurableInv, Calm, Listed, history, diskVars, libVars
  <2>3. session' = session /\ row' = row
    BY <1>18 DEF Count, diskVars, libVars
  <2> QED
    BY <2>1, <2>2, <2>3, KeptTurn
<1>19. ASSUME NEW c \in Caller, Move(c) PROVE KeptAt(g)'
  <2>1. Goto(c, "count") \/ Return(c)
    BY <1>19 DEF Move
  <2>2. KeptAt(g) /\ cpc[c] # "add" /\ UNCHANGED <<rst, payload>>
    BY <1>19 DEF Move, DurableInv, Calm, Listed, history, diskVars, libVars
  <2>3. session' = session /\ row' = row
    BY <1>19 DEF Move, diskVars, libVars
  <2> QED
    BY <2>1, <2>2, <2>3, KeptTurn
<1>20. ASSUME NEW c \in Caller, MarkDeleted(c) PROVE KeptAt(g)'
  <2>1. Goto(c, "remove") \/ Return(c)
    BY <1>20 DEF MarkDeleted
  <2>2. /\ cpc[c] \in {"mark", "condemn"} /\ UNCHANGED <<rst, payload, session, phase, site, restored>>
        /\ raced' = raced /\ hurried' = hurried /\ failed \subseteq failed'
    BY <1>20 DEF MarkDeleted, history, diskVars, libVars
  <2>3. KeptAt(g)
    BY <2>2 DEF DurableInv, Listed
  <2>4. row'[g] \in Wanted => row[g] \in Wanted
    BY <1>20 DEF MarkDeleted, TypeOK, Wanted
  <2> QED
    BY <2>1, <2>2, <2>3, <2>4, KeptTurn
<1>21. ASSUME NEW c \in Caller, RemoveTorrent(c) PROVE KeptAt(g)'
  <2>1. PICK k \in {"pop", "unlink"} : Goto(c, k) \/ Return(c)
    BY <1>21 DEF RemoveTorrent
  <2>2. KeptAt(g) /\ cpc[c] # "add" /\ UNCHANGED <<rst, payload>>
    BY <1>21 DEF RemoveTorrent, DurableInv, Calm, Listed, history, diskVars, libVars
  <2>3. row' = row /\ (row[g] \in Wanted /\ g \in session => g \in session')
    <3>1. req[c] = g => row[g] \notin Wanted
      BY <1>21 DEF RemoveTorrent, FateInv, FateAt, Calm, history
    <3> QED
      BY <1>21, <3>1 DEF RemoveTorrent, LibRemove, libVars, diskVars
  <2> QED
    BY <2>1, <2>2, <2>3, KeptTurn
<1>22. ASSUME NEW c \in Caller, Pop(c) PROVE KeptAt(g)'
  <2>1. Goto(c, "unlink") \/ Return(c)
    BY <1>22 DEF Pop
  <2>2. KeptAt(g) /\ cpc[c] # "add" /\ UNCHANGED <<rst, payload>>
    BY <1>22 DEF Pop, DurableInv, Calm, Listed, history, diskVars, libVars
  <2>3. session' = session /\ row' = row
    BY <1>22 DEF Pop, diskVars, libVars
  <2> QED
    BY <2>1, <2>2, <2>3, KeptTurn
<1>23. ASSUME NEW c \in Caller, Unlink(c) PROVE KeptAt(g)'
  <2>1. Goto(c, "idle") \/ Return(c)
    BY <1>23 DEF Unlink
  <2>2. KeptAt(g) /\ cpc[c] # "add" /\ UNCHANGED <<rst, payload>>
    BY <1>23 DEF Unlink, DurableInv, Calm, Listed, history, diskVars, libVars
  <2>3. session' = session /\ row' = row
    BY <1>23 DEF Unlink, diskVars, libVars
  <2> QED
    BY <2>1, <2>2, <2>3, KeptTurn
<1>24. ASSUME NEW c \in Caller, Reconcile(c) PROVE KeptAt(g)'
  <2>1. Goto(c, "weigh") \/ Return(c)
    BY <1>24 DEF Reconcile
  <2>2. /\ cpc[c] \in {"list"} /\ UNCHANGED <<rst, payload, session, phase, site, restored>>
        /\ raced' = raced /\ hurried' = hurried /\ failed \subseteq failed'
    BY <1>24 DEF Reconcile, history, diskVars, libVars
  <2>3. KeptAt(g)
    BY <2>2 DEF DurableInv, Listed
  <2>4. row'[g] \in Wanted => row[g] \in Wanted
    BY <1>24 DEF Reconcile, diskVars
  <2> QED
    BY <2>1, <2>2, <2>3, <2>4, KeptTurn
<1>25. ASSUME NEW c \in Caller, Weigh(c) PROVE KeptAt(g)'
  <2>1. PICK k \in {"settle", "remove", "decide"} : Goto(c, k) \/ Return(c)
    BY <1>25, WeighTurns
  <2>2. /\ cpc[c] \in {"weigh"} /\ UNCHANGED <<rst, payload, session, phase, site, restored>>
        /\ raced' = raced /\ hurried' = hurried /\ failed \subseteq failed'
    BY <1>25 DEF Weigh, history, diskVars, libVars
  <2>3. KeptAt(g)
    BY <2>2 DEF DurableInv, Listed
  <2>4. row'[g] \in Wanted => row[g] \in Wanted
    BY <1>25 DEF Weigh, diskVars
  <2> QED
    BY <2>1, <2>2, <2>3, <2>4, KeptTurn
<1>26. ASSUME NEW c \in Caller, Settle(c) PROVE KeptAt(g)'
  <2>1. Goto(c, "decide") \/ Return(c)
    BY <1>26 DEF Settle
  <2>2. /\ cpc[c] \in {"settle"} /\ UNCHANGED <<rst, payload, session, phase, site, restored>>
        /\ raced' = raced /\ hurried' = hurried /\ failed \subseteq failed'
    BY <1>26 DEF Settle, history, diskVars, libVars
  <2>3. KeptAt(g)
    BY <2>2 DEF DurableInv, Listed
  <2>4. row'[g] \in Wanted => row[g] \in Wanted
    <3>1. req[c] = g => row[g] \in Wanted
      BY <2>2 DEF RowInv, RowAt, Running
    <3> QED
      BY <1>26, <3>1 DEF Settle, TypeOK
  <2> QED
    BY <2>1, <2>2, <2>3, <2>4, KeptTurn
<1>27. ASSUME NEW c \in Caller, Decide(c) PROVE KeptAt(g)'
  <2>1. Goto(c, "condemn") \/ Return(c)
    BY <1>27 DEF Decide
  <2>2. /\ cpc[c] \in {"decide"} /\ UNCHANGED <<rst, payload, session, phase, site, restored>>
        /\ raced' = raced /\ hurried' = hurried /\ failed \subseteq failed'
    BY <1>27 DEF Decide, history, diskVars, libVars
  <2>3. KeptAt(g)
    BY <2>2 DEF DurableInv, Listed
  <2>4. row'[g] \in Wanted => row[g] \in Wanted
    BY <1>27 DEF Decide, diskVars
  <2> QED
    BY <2>1, <2>2, <2>3, <2>4, KeptTurn
<1>28. ASSUME NEW c \in Caller, LookComplete(c) PROVE KeptAt(g)'
  <2>1. Goto(c, "write") \/ Return(c)
    BY <1>28 DEF LookComplete
  <2>2. /\ cpc[c] \in {"look"} /\ UNCHANGED <<rst, payload, session, phase, site, restored>>
        /\ raced' = raced /\ hurried' = hurried /\ failed \subseteq failed'
    BY <1>28 DEF LookComplete, history, diskVars, libVars
  <2>3. KeptAt(g)
    BY <2>2 DEF DurableInv, Listed
  <2>4. row'[g] \in Wanted => row[g] \in Wanted
    BY <1>28 DEF LookComplete, diskVars
  <2> QED
    BY <2>1, <2>2, <2>3, <2>4, KeptTurn
<1>29. ASSUME NEW c \in Caller, WriteComplete(c) PROVE KeptAt(g)'
  <2>1. Goto(c, "idle") \/ Return(c)
    BY <1>29 DEF WriteComplete
  <2>2. /\ cpc[c] \in {"write"} /\ UNCHANGED <<rst, payload, session, phase, site, restored>>
        /\ raced' = raced /\ hurried' = hurried /\ failed \subseteq failed'
    BY <1>29 DEF WriteComplete, history, diskVars, libVars
  <2>3. KeptAt(g)
    BY <2>2 DEF DurableInv, Listed
  <2>4. row'[g] \in Wanted => row[g] \in Wanted
    <3>1. req[c] = g => row[g] = "null"
      BY <2>2 DEF FateInv, FateAt
    <3> QED
      BY <1>29, <3>1 DEF WriteComplete, TypeOK, Wanted
  <2> QED
    BY <2>1, <2>2, <2>3, <2>4, KeptTurn
<1>30. ASSUME Close PROVE KeptAt(g)'
  <2> QED
    BY <1>30 DEF Close
<1>31. ASSUME CloseStop PROVE KeptAt(g)'
  <2> QED
    BY <1>31 DEF CloseStop
<1>32. ASSUME Drain PROVE KeptAt(g)'
  <2> QED
    BY <1>32 DEF Drain
<1>33. ASSUME Drained PROVE KeptAt(g)'
  <2> QED
    BY <1>33 DEF Drained
<1>34. ASSUME CloseDone PROVE KeptAt(g)'
  <2> QED
    BY <1>34 DEF CloseDone, Gone
<1>35. ASSUME Crash PROVE KeptAt(g)'
  <2> QED
    BY <1>35 DEF Crash, Gone
<1>36. CASE UNCHANGED vars
  BY <1>36 DEF vars, diskVars, libVars, callVars, history, DurableInv, KeptAt, Calm,
      Listed, TypeOK
<1> QED
  BY <1>1, <1>2, <1>3, <1>4, <1>5, <1>6, <1>7, <1>8, <1>9, <1>10, <1>11, <1>12, <1>13,
      <1>14, <1>15, <1>16, <1>17, <1>18, <1>19, <1>20, <1>21, <1>22, <1>23, <1>24,
      <1>25, <1>26, <1>27, <1>28, <1>29, <1>30, <1>31, <1>32, <1>33, <1>34, <1>35, <1>36
      DEF Next, Library, AlertThread, Restore, CallerStep, Shutdown

-----------------------------------------------------------------------------
(* Counting the saves that are asked for and answered. *)

Pairs(s) == UNION {{h} \X (1..s[h]) : h \in Hash}
Slots(a) == {i \in DOMAIN a : a[i].kind \in SaveAlert}
Counting == {c \in Caller : cpc[c] = "count"}

\* The members of Pairs.
LEMMA InPairs ==
    ASSUME NEW s
    PROVE  /\ \A h \in Hash : \A i : <<h, i>> \in Pairs(s) <=> i \in 1..s[h]
           /\ \A x \in Pairs(s) : \E h \in Hash : \E i \in 1..s[h] : x = <<h, i>>
BY DEF Pairs

\* They are finitely many.
LEMMA PairsFinite ==
    ASSUME NEW s \in [Hash -> Nat]
    PROVE  IsFiniteSet(Pairs(s)) /\ Cardinality(Pairs(s)) \in Nat
<1> DEFINE F == [h \in Hash |-> {h} \X (1..s[h])]
<1> DEFINE T == {{h} \X (1..s[h]) : h \in Hash}
<1>1. F \in Surjection(Hash, T)
  BY DEF Surjection
<1>2. IsFiniteSet(T)
  BY <1>1, TorrentConstants, FS_Surjection
<1>3. ASSUME NEW S \in T PROVE IsFiniteSet(S)
  <2>1. PICK h \in Hash : S = {h} \X (1..s[h])
    BY <1>3
  <2>2. IsFiniteSet({h}) /\ IsFiniteSet(1..s[h])
    <3>1. IsFiniteSet({h})
      BY FS_Singleton
    <3>2. 1 \in Int /\ s[h] \in Int
      OBVIOUS
    <3>3. IsFiniteSet(1..s[h])
      BY <3>2, FS_Interval
    <3> QED
      BY <3>1, <3>3
  <2> QED
    BY <2>1, <2>2, FS_Product
<1> HIDE DEF T
<1>4. IsFiniteSet(UNION T)
  BY <1>2, <1>3, FS_UNION
<1> QED
  BY <1>4, FS_CardinalityType DEF Pairs, T

\* One save more for every torrent of a set.
LEMMA PairsMore ==
    ASSUME NEW s \in [Hash -> Nat], NEW hs \in SUBSET Hash, NEW t \in [Hash -> Nat],
           \A h \in Hash : t[h] = s[h] + IF h \in hs THEN 1 ELSE 0
    PROVE  Cardinality(Pairs(t)) <= Cardinality(Pairs(s)) + Cardinality(hs)
<1> DEFINE N == {<<h, t[h]>> : h \in hs}
<1> DEFINE F == [h \in hs |-> <<h, t[h]>>]
<1>1. F \in Surjection(hs, N)
  BY DEF Surjection
<1>2. IsFiniteSet(hs) /\ Cardinality(hs) \in Nat
  BY TorrentConstants, FS_Subset, FS_CardinalityType
<1>3. IsFiniteSet(N) /\ Cardinality(N) <= Cardinality(hs)
  BY <1>1, <1>2, FS_Surjection
<1>4. Cardinality(N) \in Nat
  BY <1>3, FS_CardinalityType
<1>5. Pairs(t) \subseteq Pairs(s) \cup N
  <2> SUFFICES ASSUME NEW x \in Pairs(t) PROVE x \in Pairs(s) \cup N
    OBVIOUS
  <2>0. PICK h \in Hash : \E i \in 1..t[h] : x = <<h, i>>
    BY InPairs
  <2>1. PICK i \in 1..t[h] : x = <<h, i>>
    BY <2>0
  <2>2. i \in 1..s[h] \/ (h \in hs /\ i = t[h])
    OBVIOUS
  <2>3. i \in 1..s[h] => <<h, i>> \in Pairs(s)
    BY InPairs
  <2> QED
    BY <2>1, <2>2, <2>3
<1> HIDE DEF N
<1>6. IsFiniteSet(Pairs(s)) /\ Cardinality(Pairs(s)) \in Nat /\ Cardinality(Pairs(t)) \in Nat
  BY PairsFinite
<1>7. /\ IsFiniteSet(Pairs(s) \cup N)
      /\ Cardinality(Pairs(s) \cup N) = Cardinality(Pairs(s)) + Cardinality(N) - Cardinality(Pairs(s) \cap N)
  BY <1>3, <1>6, FS_Union
<1>8. Cardinality(Pairs(s) \cap N) \in Nat
  BY <1>3, FS_Intersection, FS_CardinalityType
<1>9. Cardinality(Pairs(t)) <= Cardinality(Pairs(s) \cup N)
  BY <1>5, <1>7, FS_Subset
<1> QED
  BY <1>2, <1>3, <1>4, <1>6, <1>7, <1>8, <1>9

\* One save less.
LEMMA PairsLess ==
    ASSUME NEW s \in [Hash -> Nat], NEW h \in Hash, s[h] > 0
    PROVE  Cardinality(Pairs([s EXCEPT ![h] = s[h] - 1])) <= Cardinality(Pairs(s)) - 1
<1> DEFINE t == [s EXCEPT ![h] = s[h] - 1]
<1>1. t \in [Hash -> Nat] /\ \A g \in Hash : t[g] = IF g = h THEN s[h] - 1 ELSE s[g]
  OBVIOUS
<1> HIDE DEF t
<1>2. IsFiniteSet(Pairs(s)) /\ Cardinality(Pairs(s)) \in Nat /\ Cardinality(Pairs(t)) \in Nat
  BY <1>1, PairsFinite
<1>3. <<h, s[h]>> \in Pairs(s)
  BY InPairs
<1>4. Pairs(t) \subseteq Pairs(s) \ {<<h, s[h]>>}
  <2> SUFFICES ASSUME NEW x \in Pairs(t) PROVE x \in Pairs(s) /\ x # <<h, s[h]>>
    OBVIOUS
  <2>0. PICK g \in Hash : \E i \in 1..t[g] : x = <<g, i>>
    BY InPairs
  <2>1. PICK i \in 1..t[g] : x = <<g, i>>
    BY <2>0
  <2>2. i \in 1..s[g] /\ (g # h \/ i # s[h])
    BY <1>1
  <2>3. <<g, i>> \in Pairs(s)
    BY <2>2, InPairs
  <2> QED
    BY <2>1, <2>2, <2>3
<1>5. /\ IsFiniteSet(Pairs(s) \ {<<h, s[h]>>})
      /\ Cardinality(Pairs(s) \ {<<h, s[h]>>}) = Cardinality(Pairs(s)) - 1
  BY <1>2, <1>3, FS_RemoveElement
<1>6. Cardinality(Pairs(t)) <= Cardinality(Pairs(s)) - 1
  BY <1>4, <1>5, FS_Subset
<1> QED
  BY <1>6 DEF t

\* None any more for a torrent.
LEMMA PairsNone ==
    ASSUME NEW s \in [Hash -> Nat], NEW h \in Hash
    PROVE  Cardinality(Pairs([s EXCEPT ![h] = 0])) <= Cardinality(Pairs(s)) - s[h]
<1> DEFINE t == [s EXCEPT ![h] = 0]
<1> DEFINE N == {<<h, i>> : i \in 1..s[h]}
<1> DEFINE F == [x \in N |-> x[2]]
<1>1. t \in [Hash -> Nat] /\ \A g \in Hash : t[g] = IF g = h THEN 0 ELSE s[g]
  OBVIOUS
<1>2. F \in Surjection(N, 1..s[h])
  <2>1. \A x \in N : \E i \in 1..s[h] : x = <<h, i>>
    OBVIOUS
  <2>2. \A i \in 1..s[h] : <<h, i>> \in N /\ <<h, i>>[2] = i
    OBVIOUS
  <2>3. \A x \in N : x[2] \in 1..s[h]
    BY <2>1
  <2> HIDE DEF N
  <2> QED
    BY <2>2, <2>3 DEF Surjection
<1>3. N \subseteq Pairs(s)
  BY InPairs
<1>4. \A x \in Pairs(t) : x \in Pairs(s) /\ x \notin N
  <2> SUFFICES ASSUME NEW x \in Pairs(t) PROVE x \in Pairs(s) /\ x \notin N
    OBVIOUS
  <2>0. PICK g \in Hash : \E i \in 1..t[g] : x = <<g, i>>
    BY InPairs
  <2>1. PICK i \in 1..t[g] : x = <<g, i>>
    BY <2>0
  <2>2. g # h /\ i \in 1..s[g]
    BY <1>1
  <2>3. <<g, i>> \in Pairs(s)
    BY <2>2, InPairs
  <2> QED
    BY <2>1, <2>2, <2>3
<1> HIDE DEF N, F, t
<1>5. IsFiniteSet(Pairs(s)) /\ Cardinality(Pairs(s)) \in Nat /\ Cardinality(Pairs(t)) \in Nat
  BY <1>1, PairsFinite
<1>6. IsFiniteSet(N) /\ Cardinality(N) \in Nat
  BY <1>3, <1>5, FS_Subset, FS_CardinalityType
<1>7. Cardinality(1..s[h]) <= Cardinality(N) /\ Cardinality(1..s[h]) = s[h]
  <2>1. Cardinality(1..s[h]) <= Cardinality(N)
    BY <1>2, <1>6, FS_Surjection
  <2>2. Cardinality(1..s[h]) = s[h]
    BY FS_Interval
  <2> QED
    BY <2>1, <2>2
<1>8. /\ IsFiniteSet(Pairs(s) \ N)
      /\ Cardinality(Pairs(s) \ N) = Cardinality(Pairs(s)) - Cardinality(Pairs(s) \cap N)
  BY <1>5, FS_Difference
<1>9. Pairs(s) \cap N = N /\ Pairs(t) \in SUBSET (Pairs(s) \ N)
  BY <1>3, <1>4
<1>10. Cardinality(Pairs(t)) <= Cardinality(Pairs(s) \ N)
  BY <1>8, <1>9, FS_Subset
<1>11. Cardinality(Pairs(t)) <= Cardinality(Pairs(s)) - s[h]
  <2>1. Cardinality(Pairs(s) \ N) = Cardinality(Pairs(s)) - Cardinality(N)
    BY <1>8, <1>9
  <2>2. s[h] <= Cardinality(N) /\ s[h] \in Nat
    BY <1>7
  <2> QED
    BY <1>5, <1>6, <1>10, <2>1, <2>2
<1> QED
  BY <1>11 DEF t

\* The answered saves are finitely many.
LEMMA SlotsFinite ==
    ASSUME NEW a \in Seq(Alert)
    PROVE  IsFiniteSet(Slots(a)) /\ Cardinality(Slots(a)) \in Nat /\ Slots(a) \subseteq 1..Len(a)
<1>1. Slots(a) \subseteq 1..Len(a) /\ Len(a) \in Nat
  BY DEF Slots
<1>2. IsFiniteSet(1..Len(a))
  BY <1>1, FS_Interval
<1> QED
  BY <1>1, <1>2, FS_Subset, FS_CardinalityType

\* Alerts are posted.
LEMMA SlotsMore ==
    ASSUME NEW a \in Seq(Alert), NEW b \in Seq(Alert)
    PROVE  Cardinality(Slots(a \o b)) <= Cardinality(Slots(a)) + Len(b)
<1> DEFINE N == (Len(a) + 1)..(Len(a) + Len(b))
<1>1. a \o b \in Seq(Alert) /\ Len(a) \in Nat /\ Len(b) \in Nat
  BY Longer
<1>2. IsFiniteSet(N) /\ Cardinality(N) = Len(b)
  <2>1. Len(a) + 1 \in Int /\ Len(a) + Len(b) \in Int
    BY <1>1
  <2>2. /\ IsFiniteSet(N)
        /\ Cardinality(N) = IF Len(a) + 1 > Len(a) + Len(b) THEN 0
                            ELSE (Len(a) + Len(b)) - (Len(a) + 1) + 1
    BY <2>1, FS_Interval
  <2> QED
    BY <1>1, <2>2
<1>3. Slots(a \o b) \subseteq Slots(a) \cup N
  BY <1>1, Longer DEF Slots
<1> HIDE DEF N
<1>4. IsFiniteSet(Slots(a)) /\ Cardinality(Slots(a)) \in Nat /\ Cardinality(Slots(a \o b)) \in Nat
  BY <1>1, SlotsFinite
<1>5. /\ IsFiniteSet(Slots(a) \cup N)
      /\ Cardinality(Slots(a) \cup N) = Cardinality(Slots(a)) + Cardinality(N) - Cardinality(Slots(a) \cap N)
  BY <1>2, <1>4, FS_Union
<1>6. Cardinality(Slots(a) \cap N) \in Nat
  BY <1>4, FS_Intersection, FS_CardinalityType
<1>7. Cardinality(Slots(a \o b)) <= Cardinality(Slots(a) \cup N)
  BY <1>3, <1>5, FS_Subset
<1> QED
  BY <1>1, <1>2, <1>4, <1>5, <1>6, <1>7

\* An alert about no save is posted.
LEMMA SlotsNews ==
    ASSUME NEW a \in Seq(Alert), NEW x \in Alert, x.kind \notin SaveAlert
    PROVE  Slots(Append(a, x)) = Slots(a)
<1>1. /\ Len(a) \in Nat /\ DOMAIN Append(a, x) = 1..(Len(a) + 1) /\ DOMAIN a = 1..Len(a)
      /\ \A i \in 1..Len(a) : Append(a, x)[i] = a[i]
      /\ Append(a, x)[Len(a) + 1] = x
  OBVIOUS
<1>2. \A i \in 1..(Len(a) + 1) : i \in 1..Len(a) \/ i = Len(a) + 1
  BY <1>1
<1>3. \A i \in 1..Len(a) : i \in 1..(Len(a) + 1)
  BY <1>1
<1> QED
  BY <1>1, <1>2, <1>3 DEF Slots

\* The first alert is taken.
LEMMA SlotsLess ==
    ASSUME NEW a \in Seq(Alert), a # <<>>
    PROVE  Cardinality(Slots(Tail(a)))
             <= Cardinality(Slots(a)) - IF Head(a).kind \in SaveAlert THEN 1 ELSE 0
<1> DEFINE R == Slots(a) \ {1}
<1> DEFINE F == [i \in R |-> i - 1]
<1>1. /\ Tail(a) \in Seq(Alert) /\ Head(a) = a[1] /\ 1 \in DOMAIN a
      /\ \A i \in DOMAIN Tail(a) : i + 1 \in DOMAIN a /\ Tail(a)[i] = a[i + 1]
      /\ \A i \in DOMAIN a : i # 1 => i - 1 \in DOMAIN Tail(a) /\ Tail(a)[i - 1] = a[i]
      /\ DOMAIN a = 1..Len(a) /\ Len(a) \in Nat /\ DOMAIN Tail(a) \subseteq Nat \ {0}
  BY Shorter
<1>2. F \in [R -> Slots(Tail(a))]
  BY <1>1 DEF Slots
<1>3. \A j \in Slots(Tail(a)) : j + 1 \in R /\ F[j + 1] = j
  BY <1>1 DEF Slots
<1>4. F \in Surjection(R, Slots(Tail(a)))
  BY <1>2, <1>3 DEF Surjection
<1> HIDE DEF F
<1>5. IsFiniteSet(Slots(a)) /\ Cardinality(Slots(a)) \in Nat /\ Cardinality(Slots(Tail(a))) \in Nat
  BY <1>1, SlotsFinite
<1>6. /\ IsFiniteSet(R)
      /\ Cardinality(R) = IF 1 \in Slots(a) THEN Cardinality(Slots(a)) - 1 ELSE Cardinality(Slots(a))
  BY <1>5, FS_RemoveElement
<1>7. Cardinality(Slots(Tail(a))) <= Cardinality(R)
  BY <1>4, <1>6, FS_Surjection
<1>8. 1 \in Slots(a) <=> Head(a).kind \in SaveAlert
  BY <1>1 DEF Slots
<1> QED
  BY <1>5, <1>6, <1>7, <1>8

\* Outstanding, in the terms of these lemmas.
LEMMA Sum ==
    ASSUME TypeOK
    PROVE  /\ Outstanding = Cardinality(Pairs(saving)) + Cardinality(Slots(alerts))
           /\ Outstanding \in Nat /\ Cardinality(Pairs(saving)) \in Nat
           /\ Cardinality(Slots(alerts)) \in Nat /\ pending \in Nat
<1>1. saving \in [Hash -> Nat] /\ alerts \in Seq(Alert) /\ pending \in Nat
  BY DEF TypeOK
<1>2. Cardinality(Pairs(saving)) \in Nat /\ Cardinality(Slots(alerts)) \in Nat
  BY <1>1, PairsFinite, SlotsFinite
<1>3. Outstanding = Cardinality(Pairs(saving)) + Cardinality(Slots(alerts))
  BY DEF Outstanding, Asked, Answered, Pairs, Slots
<1> QED
  BY <1>1, <1>2, <1>3

\* The same after a step.
LEMMA SumNext ==
    ASSUME TypeOK'
    PROVE  /\ Outstanding' = Cardinality(Pairs(saving')) + Cardinality(Slots(alerts'))
           /\ Outstanding' \in Nat /\ Cardinality(Pairs(saving')) \in Nat
           /\ Cardinality(Slots(alerts')) \in Nat /\ pending' \in Nat
<1>1. saving' \in [Hash -> Nat] /\ alerts' \in Seq(Alert) /\ pending' \in Nat
  BY DEF TypeOK
<1>2. Cardinality(Pairs(saving')) \in Nat /\ Cardinality(Slots(alerts')) \in Nat
  BY <1>1, PairsFinite, SlotsFinite
<1>3. Outstanding' = Cardinality(Pairs(saving')) + Cardinality(Slots(alerts'))
  BY DEF Outstanding, Asked, Answered, Pairs, Slots
<1> QED
  BY <1>1, <1>2, <1>3

\* What the steps of the library and of the alert handler do to the sum.
LEMMA SumAsked ==
    ASSUME TypeOK, TypeOK', NEW hs \in SUBSET Hash, RequestSaves(hs), alerts' = alerts
    PROVE  Outstanding' <= Outstanding + Cardinality(hs)
<1>1. saving \in [Hash -> Nat] /\ saving' \in [Hash -> Nat]
  BY DEF TypeOK
<1>2. \A h \in Hash : saving'[h] = saving[h] + IF h \in hs THEN 1 ELSE 0
  BY DEF RequestSaves
<1>3. Cardinality(Pairs(saving')) <= Cardinality(Pairs(saving)) + Cardinality(hs)
  BY <1>1, <1>2, PairsMore
<1>4. Cardinality(hs) \in Nat
  BY TorrentConstants, FS_Subset, FS_CardinalityType
<1> QED
  BY <1>3, <1>4, Sum, SumNext

\* add_torrent asks for no save.
LEMMA SumAdded ==
    ASSUME TypeOK, TypeOK', NEW h \in Hash, LibAdd(h)
    PROVE  Outstanding' = Outstanding
<1>1. alerts \in Seq(Alert) /\ Note("added", h) \in Alert /\ Note("added", h).kind \notin SaveAlert
  BY DEF TypeOK, Note, Alert, SaveAlert
<1>2. saving' = saving /\ (alerts' = alerts \/ alerts' = Append(alerts, Note("added", h)))
  BY DEF LibAdd
<1>3. Slots(alerts') = Slots(alerts)
  BY <1>1, <1>2, SlotsNews
<1> QED
  BY <1>2, <1>3, Sum, SumNext

\* An answer takes the place of the save that was asked for.
LEMMA SumAnswered ==
    ASSUME TypeOK, TypeOK', NEW h \in Hash, LibSaved(h)
    PROVE  Outstanding' <= Outstanding
<1>1. PICK kind \in {"saved", "failed"} : alerts' = Append(alerts, Note(kind, h))
  BY DEF LibSaved
<1>2. alerts \in Seq(Alert) /\ Note(kind, h) \in Alert
  BY DEF TypeOK, Note, Alert
<1>3. /\ <<Note(kind, h)>> \in Seq(Alert) /\ Len(<<Note(kind, h)>>) = 1
      /\ alerts' = alerts \o <<Note(kind, h)>>
  BY <1>1, <1>2
<1>4. Cardinality(Slots(alerts')) <= Cardinality(Slots(alerts)) + 1
  BY <1>2, <1>3, SlotsMore
<1>5. Cardinality(Pairs(saving')) <= Cardinality(Pairs(saving)) - 1
  <2>1. saving \in [Hash -> Nat] /\ saving[h] > 0 /\ saving' = [saving EXCEPT ![h] = saving[h] - 1]
    BY DEF LibSaved, TypeOK
  <2> QED
    BY <2>1, PairsLess
<1> QED
  BY <1>4, <1>5, Sum, SumNext

\* remove_torrent answers the saves of the torrent.
LEMMA SumRemoved ==
    ASSUME TypeOK, TypeOK', NEW h \in Hash, LibRemove(h)
    PROVE  Outstanding' <= Outstanding
<1>1. PICK b : b = [i \in 1..saving[h] |-> Note("failed", h)]
  OBVIOUS
<1>2. saving \in [Hash -> Nat] /\ alerts \in Seq(Alert) /\ Note("failed", h) \in Alert
  BY DEF TypeOK, Note, Alert
<1>3. b \in [1..saving[h] -> Alert] /\ saving[h] \in Nat
  BY <1>1, <1>2
<1>4. b \in Seq(Alert) /\ Len(b) = saving[h]
  <2>1. b \in Seq(Alert)
    BY <1>3, IsASeq
  <2>2. DOMAIN b = 1..saving[h]
    BY <1>3
  <2> QED
    BY <1>3, <2>1, <2>2
<1>5. alerts \o b \in Seq(Alert)
  BY <1>2, <1>4
<1>6. alerts' = Append(alerts \o b, Note("removed", h)) /\ saving' = [saving EXCEPT ![h] = 0]
  BY <1>1 DEF LibRemove
<1>7. Note("removed", h) \in Alert /\ Note("removed", h).kind \notin SaveAlert
  BY DEF Note, Alert, SaveAlert
<1>8. Slots(alerts') = Slots(alerts \o b)
  BY <1>5, <1>6, <1>7, SlotsNews
<1>9. Cardinality(Slots(alerts \o b)) <= Cardinality(Slots(alerts)) + saving[h]
  BY <1>2, <1>4, SlotsMore
<1>10. Cardinality(Pairs(saving')) <= Cardinality(Pairs(saving)) - saving[h]
  BY <1>2, <1>6, PairsNone
<1> QED
  BY <1>3, <1>8, <1>9, <1>10, Sum, SumNext

\* An alert about a save is processed: one less is outstanding.
LEMMA SumTaken ==
    ASSUME TypeOK, TypeOK', alerts # <<>>, alerts' = Tail(alerts), saving' = saving
    PROVE  Outstanding' <= Outstanding - IF Head(alerts).kind \in SaveAlert THEN 1 ELSE 0
<1>1. alerts \in Seq(Alert)
  BY DEF TypeOK
<1>2. Cardinality(Slots(alerts'))
        <= Cardinality(Slots(alerts)) - IF Head(alerts).kind \in SaveAlert THEN 1 ELSE 0
  BY <1>1, SlotsLess
<1> QED
  BY <1>2, Sum, SumNext

\* The callers that are about to count a save.
LEMMA CountingTurn ==
    ASSUME TypeOK, NEW c \in Caller, NEW k, Goto(c, k) \/ Return(c)
    PROVE  /\ cpc[c] # "count" /\ (k # "count" \/ Return(c)) => Counting' = Counting
           /\ cpc[c] # "count" /\ k = "count" /\ Goto(c, k) =>
                Cardinality(Counting') = Cardinality(Counting) + 1
           /\ cpc[c] = "count" /\ Return(c) => Cardinality(Counting') = Cardinality(Counting) - 1
           /\ Cardinality(Counting) \in Nat /\ Cardinality(Counting') \in Nat
<1>0. Counting' = {d \in Caller : cpc'[d] = "count"}
  BY DEF Counting
<1>1. /\ \A d \in Caller : d # c => cpc'[d] = cpc[d]
      /\ Goto(c, k) => cpc'[c] = k
      /\ Return(c) => cpc'[c] = "idle"
  BY DEF TypeOK, Goto, Return
<1>2. IsFiniteSet(Counting) /\ IsFiniteSet(Counting')
  BY <1>0, TorrentConstants, FS_Subset DEF Counting
<1>3. Cardinality(Counting) \in Nat /\ Cardinality(Counting') \in Nat
  BY <1>2, FS_CardinalityType
<1>4. cpc[c] # "count" /\ (k # "count" \/ Return(c)) => Counting' = Counting
  BY <1>0, <1>1 DEF Counting
<1>5. ASSUME cpc[c] # "count", k = "count", Goto(c, k)
      PROVE  Cardinality(Counting') = Cardinality(Counting) + 1
  <2>1. Counting' = Counting \cup {c} /\ c \notin Counting
    BY <1>0, <1>1, <1>5 DEF Counting
  <2> QED
    BY <1>2, <2>1, FS_AddElement
<1>6. ASSUME cpc[c] = "count", Return(c)
      PROVE  Cardinality(Counting') = Cardinality(Counting) - 1
  <2>1. Counting' = Counting \ {c} /\ c \in Counting
    BY <1>0, <1>1, <1>6 DEF Counting
  <2> QED
    BY <1>2, <2>1, FS_RemoveElement
<1> QED
  BY <1>3, <1>4, <1>5, <1>6

\* The callers that are about to count are finitely many.
LEMMA CountingFinite == Cardinality(Counting) \in Nat /\ Cardinality(Counting') \in Nat
<1>1. Counting \in SUBSET Caller /\ Counting' \in SUBSET Caller
  BY DEF Counting
<1> QED
  BY <1>1, TorrentConstants, FS_Subset, FS_CardinalityType

\* PendingCovers, in the terms of these lemmas.
Covered == phase # "down" => Outstanding <= pending + Cardinality(Counting)

\* A step that asks for no save and processes none.
LEMMA CoversSame ==
    ASSUME TypeOK, TypeOK', Covered, UNCHANGED <<saving, alerts, pending, phase>>,
           Counting' = Counting \/ cpc' = cpc, phase' # "down"
    PROVE  Outstanding' <= pending' + Cardinality(Counting')
<1>1. Counting' = Counting
  BY DEF Counting
<1>2. Outstanding' = Outstanding
  BY Sum, SumNext
<1> QED
  BY <1>1, <1>2 DEF Covered

\* A step counts the saves it asks for before it forgets them.
LEMMA CountStep ==
    ASSUME TypeOK, TypeOK', DownInv, AloneInv, Covered, [Next]_vars, phase' # "down"
    PROVE  Outstanding' <= pending' + Cardinality(Counting')
<1>1. ASSUME Start PROVE Outstanding' <= pending' + Cardinality(Counting')
  <2>1. saving' = [h \in Hash |-> 0] /\ alerts' = <<>>
    BY <1>1 DEF Start, libVars, DownInv
  <2>2. Pairs(saving') = {} /\ Slots(alerts') = {}
    BY <2>1 DEF Pairs, Slots
  <2>3. Outstanding' = 0 /\ pending' \in Nat
    BY <2>2, SumNext, FS_EmptySet
  <2>4. Cardinality(Counting') \in Nat
    BY CountingFinite
  <2> QED
    BY <2>3, <2>4
<1>2. ASSUME NEW h \in Hash, LibSaved(h) PROVE Outstanding' <= pending' + Cardinality(Counting')
  <2>1. Outstanding' <= Outstanding /\ pending' = pending /\ Counting' = Counting /\ phase' = phase
    BY <1>2, SumAnswered DEF LibSaved, callVars, Counting
  <2> QED
    BY <2>1, Sum, SumNext, CountingFinite DEF Covered
<1>3. ASSUME NEW h \in Hash, LibDownload(h) PROVE Outstanding' <= pending' + Cardinality(Counting')
  <2> QED
    BY <1>3, CoversSame DEF LibDownload, history, callVars, libVars
<1>4. ASSUME NEW h \in Hash, LoseFolder(h) PROVE Outstanding' <= pending' + Cardinality(Counting')
  <2> QED
    BY <1>4, CoversSame DEF LoseFolder, history, callVars, libVars
<1>5. ASSUME ProcessAlert PROVE Outstanding' <= pending' + Cardinality(Counting')
  <2>1. /\ Outstanding' <= Outstanding - IF Head(alerts).kind \in SaveAlert THEN 1 ELSE 0
        /\ pending' = (IF Head(alerts).kind \in SaveAlert THEN CountDown ELSE pending)
        /\ Counting' = Counting /\ phase' = phase
    BY <1>5, SumTaken DEF ProcessAlert, callVars, Counting
  <2> QED
    BY <2>1, Sum, SumNext, CountingFinite DEF Covered, CountDown
<1>6. ASSUME NEW h \in Hash, PeriodicSave(h) PROVE Outstanding' <= pending' + Cardinality(Counting')
  <2>1. /\ Outstanding' <= Outstanding + Cardinality({h}) /\ Cardinality({h}) = 1
        /\ pending' = pending + 1 /\ Counting' = Counting /\ phase' = phase
    BY <1>6, SumAsked, FS_Singleton DEF PeriodicSave, callVars, Counting
  <2> QED
    BY <2>1, Sum, SumNext, CountingFinite DEF Covered
<1>7. ASSUME BeginRestore PROVE Outstanding' <= pending' + Cardinality(Counting')
  <2> QED
    BY <1>7, CoversSame DEF BeginRestore, history, callVars, libVars
<1>8. ASSUME BeginRemoteRestore PROVE Outstanding' <= pending' + Cardinality(Counting')
  <2> QED
    BY <1>8, CoversSame DEF BeginRemoteRestore, history, callVars, libVars
<1>9. ASSUME NEW h \in Hash, RestoreFile(h) PROVE Outstanding' <= pending' + Cardinality(Counting')
  <2> QED
    BY <1>9, CoversSame DEF RestoreFile, history, callVars, libVars
<1>10. ASSUME RestoreList PROVE Outstanding' <= pending' + Cardinality(Counting')
  <2> QED
    BY <1>10, CoversSame DEF RestoreList, history, callVars, libVars
<1>11. ASSUME NEW h \in Hash, RestoreRow(h) PROVE Outstanding' <= pending' + Cardinality(Counting')
  <2> QED
    BY <1>11, CoversSame DEF RestoreRow, history, callVars, libVars
<1>12. ASSUME RestoreAdd PROVE Outstanding' <= pending' + Cardinality(Counting')
  <2> PICK h : h = rst.cur
    OBVIOUS
  <2>1. h \in Hash /\ pending' = pending /\ Counting' = Counting /\ phase' = phase
    BY <1>12 DEF RestoreAdd, AloneInv, TypeOK, callVars, Counting
  <2>2. CASE LibAdd(h)
    BY <2>1, <2>2, SumAdded, Sum, SumNext, CountingFinite DEF Covered
  <2>3. CASE UNCHANGED <<saving, alerts>>
    BY <2>1, <2>3, CoversSame
  <2> QED
    BY <1>12, <2>2, <2>3 DEF RestoreAdd, libVars
<1>13. ASSUME RestoreEnd PROVE Outstanding' <= pending' + Cardinality(Counting')
  <2> QED
    BY <1>13, CoversSame DEF RestoreEnd, history, callVars, libVars
<1>14. ASSUME NEW c \in Caller, NEW op \in AllOps, NEW h \in Hash, Call(c, op, h)
       PROVE  Outstanding' <= pending' + Cardinality(Counting')
  <2>1. UNCHANGED <<saving, alerts, pending, phase>>
    BY <1>14 DEF Call, libVars
  <2>2. Counting' = Counting
    BY <1>14 DEF Call, FirstStep, AllOps, Counting, TypeOK
  <2> QED
    BY <2>1, <2>2, CoversSame
<1>15. ASSUME NEW c \in Caller, SaveRow(c) PROVE Outstanding' <= pending' + Cardinality(Counting')
  <2>1. Goto(c, "add") \/ Return(c)
    BY <1>15 DEF SaveRow
  <2>2. cpc[c] # "count" /\ UNCHANGED <<saving, alerts, pending, phase>>
    BY <1>15 DEF SaveRow, history, libVars
  <2>3. Counting' = Counting
    BY <2>1, <2>2, CountingTurn
  <2> QED
    BY <2>2, <2>3, CoversSame
<1>16. ASSUME NEW c \in Caller, Add(c) PROVE Outstanding' <= pending' + Cardinality(Counting')
  <2> PICK h : h = req[c]
    OBVIOUS
  <2>1. h \in Hash /\ cpc[c] # "count" /\ UNCHANGED <<pending, phase>> /\ (Goto(c, "register") \/ Return(c))
    BY <1>16 DEF Add, AloneInv, TypeOK, history
  <2>2. Counting' = Counting
    BY <2>1, CountingTurn
  <2>3. CASE UNCHANGED <<saving, alerts>>
    BY <2>1, <2>2, <2>3, CoversSame
  <2>4. CASE LibAdd(h)
    BY <2>1, <2>2, <2>4, SumAdded, Sum, SumNext, CountingFinite DEF Covered
  <2> QED
    BY <1>16, <2>3, <2>4 DEF Add, libVars
<1>17. ASSUME NEW c \in Caller, Register(c) PROVE Outstanding' <= pending' + Cardinality(Counting')
  <2> PICK h : h = req[c]
    OBVIOUS
  <2>1. h \in Hash /\ cpc[c] # "count" /\ UNCHANGED <<pending, phase, alerts>>
    BY <1>17 DEF Register, AloneInv, TypeOK, history
  <2>2. CASE Return(c) /\ Outstanding' <= Outstanding
    <3>1. Counting' = Counting
      BY <2>1, <2>2, CountingTurn
    <3> QED
      BY <2>1, <2>2, <3>1, Sum, SumNext, CountingFinite DEF Covered
  <2>3. CASE Goto(c, "count") /\ RequestSaves({h})
    <3>1. Outstanding' <= Outstanding + Cardinality({h}) /\ Cardinality({h}) = 1
      BY <2>1, <2>3, SumAsked, FS_Singleton
    <3>2. Cardinality(Counting') = Cardinality(Counting) + 1
      BY <2>1, <2>3, CountingTurn
    <3> QED
      BY <2>1, <3>1, <3>2, Sum, SumNext, CountingFinite DEF Covered
  <2>4. saving' = saving => Outstanding' <= Outstanding
    BY <2>1, Sum, SumNext
  <2>5. h \in session => {h} \cap session = {h}
    OBVIOUS
  <2>6. h \notin session /\ RequestSaves({h} \cap session) => Outstanding' <= Outstanding
    <3> SUFFICES ASSUME h \notin session, RequestSaves({h} \cap session) PROVE Outstanding' <= Outstanding
      OBVIOUS
    <3>1. {h} \cap session = {} /\ RequestSaves({}) /\ {} \in SUBSET Hash
      OBVIOUS
    <3>2. Outstanding' <= Outstanding + Cardinality({})
      BY <2>1, <3>1, SumAsked
    <3> QED
      BY <3>2, FS_EmptySet, Sum
  <2> QED
    BY <1>17, <2>2, <2>3, <2>4, <2>5, <2>6 DEF Register
<1>18. ASSUME NEW c \in Caller, Count(c) PROVE Outstanding' <= pending' + Cardinality(Counting')
  <2>1. cpc[c] = "count" /\ Return(c) /\ pending' = pending + 1 /\ UNCHANGED <<saving, alerts, phase>>
    BY <1>18 DEF Count, history, libVars
  <2>2. Cardinality(Counting') = Cardinality(Counting) - 1
    BY <2>1, CountingTurn
  <2> QED
    BY <2>1, <2>2, Sum, SumNext, CountingFinite DEF Covered
<1>19. ASSUME NEW c \in Caller, Move(c) PROVE Outstanding' <= pending' + Cardinality(Counting')
  <2> PICK h : h = req[c]
    OBVIOUS
  <2>1. h \in Hash /\ cpc[c] # "count" /\ UNCHANGED <<pending, phase, alerts>>
    BY <1>19 DEF Move, AloneInv, TypeOK, history
  <2>2. CASE Return(c) /\ Outstanding' <= Outstanding
    <3>1. Counting' = Counting
      BY <2>1, <2>2, CountingTurn
    <3> QED
      BY <2>1, <2>2, <3>1, Sum, SumNext, CountingFinite DEF Covered
  <2>3. CASE Goto(c, "count") /\ RequestSaves({h})
    <3>1. Outstanding' <= Outstanding + Cardinality({h}) /\ Cardinality({h}) = 1
      BY <2>1, <2>3, SumAsked, FS_Singleton
    <3>2. Cardinality(Counting') = Cardinality(Counting) + 1
      BY <2>1, <2>3, CountingTurn
    <3> QED
      BY <2>1, <3>1, <3>2, Sum, SumNext, CountingFinite DEF Covered
  <2>4. saving' = saving => Outstanding' <= Outstanding
    BY <2>1, Sum, SumNext
  <2> QED
    BY <1>19, <2>2, <2>3, <2>4 DEF Move
<1>20. ASSUME NEW c \in Caller, MarkDeleted(c) PROVE Outstanding' <= pending' + Cardinality(Counting')
  <2>1. Goto(c, "remove") \/ Return(c)
    BY <1>20 DEF MarkDeleted
  <2>2. cpc[c] # "count" /\ UNCHANGED <<saving, alerts, pending, phase>>
    BY <1>20 DEF MarkDeleted, history, libVars
  <2>3. Counting' = Counting
    BY <2>1, <2>2, CountingTurn
  <2> QED
    BY <2>2, <2>3, CoversSame
<1>21. ASSUME NEW c \in Caller, RemoveTorrent(c) PROVE Outstanding' <= pending' + Cardinality(Counting')
  <2> PICK h : h = req[c]
    OBVIOUS
  <2>1. h \in Hash /\ cpc[c] # "count" /\ UNCHANGED <<pending, phase>>
    BY <1>21 DEF RemoveTorrent, AloneInv, TypeOK, history
  <2>2. PICK k \in {"pop", "unlink"} : Goto(c, k) \/ Return(c)
    BY <1>21 DEF RemoveTorrent
  <2>3. Counting' = Counting
    BY <2>1, <2>2, CountingTurn
  <2>4. CASE UNCHANGED <<saving, alerts>>
    BY <2>1, <2>3, <2>4, CoversSame
  <2>5. CASE LibRemove(h)
    BY <2>1, <2>3, <2>5, SumRemoved, Sum, SumNext, CountingFinite DEF Covered
  <2> QED
    BY <1>21, <2>4, <2>5 DEF RemoveTorrent, libVars
<1>22. ASSUME NEW c \in Caller, Pop(c) PROVE Outstanding' <= pending' + Cardinality(Counting')
  <2>1. Goto(c, "unlink") \/ Return(c)
    BY <1>22 DEF Pop
  <2>2. cpc[c] # "count" /\ UNCHANGED <<saving, alerts, pending, phase>>
    BY <1>22 DEF Pop, history, libVars
  <2>3. Counting' = Counting
    BY <2>1, <2>2, CountingTurn
  <2> QED
    BY <2>2, <2>3, CoversSame
<1>23. ASSUME NEW c \in Caller, Unlink(c) PROVE Outstanding' <= pending' + Cardinality(Counting')
  <2>1. Goto(c, "idle") \/ Return(c)
    BY <1>23 DEF Unlink
  <2>2. cpc[c] # "count" /\ UNCHANGED <<saving, alerts, pending, phase>>
    BY <1>23 DEF Unlink, history, libVars
  <2>3. Counting' = Counting
    BY <2>1, <2>2, CountingTurn
  <2> QED
    BY <2>2, <2>3, CoversSame
<1>24. ASSUME NEW c \in Caller, Reconcile(c) PROVE Outstanding' <= pending' + Cardinality(Counting')
  <2>1. Goto(c, "weigh") \/ Return(c)
    BY <1>24 DEF Reconcile
  <2>2. cpc[c] # "count" /\ UNCHANGED <<saving, alerts, pending, phase>>
    BY <1>24 DEF Reconcile, history, libVars
  <2>3. Counting' = Counting
    BY <2>1, <2>2, CountingTurn
  <2> QED
    BY <2>2, <2>3, CoversSame
<1>25. ASSUME NEW c \in Caller, Weigh(c) PROVE Outstanding' <= pending' + Cardinality(Counting')
  <2>1. PICK k \in {"settle", "remove", "decide"} : Goto(c, k) \/ Return(c)
    BY <1>25, WeighTurns
  <2>2. cpc[c] # "count" /\ UNCHANGED <<saving, alerts, pending, phase>>
    BY <1>25 DEF Weigh, history, libVars
  <2>3. Counting' = Counting
    BY <2>1, <2>2, CountingTurn
  <2> QED
    BY <2>2, <2>3, CoversSame
<1>26. ASSUME NEW c \in Caller, Settle(c) PROVE Outstanding' <= pending' + Cardinality(Counting')
  <2>1. Goto(c, "decide") \/ Return(c)
    BY <1>26 DEF Settle
  <2>2. cpc[c] # "count" /\ UNCHANGED <<saving, alerts, pending, phase>>
    BY <1>26 DEF Settle, history, libVars
  <2>3. Counting' = Counting
    BY <2>1, <2>2, CountingTurn
  <2> QED
    BY <2>2, <2>3, CoversSame
<1>27. ASSUME NEW c \in Caller, Decide(c) PROVE Outstanding' <= pending' + Cardinality(Counting')
  <2>1. Goto(c, "condemn") \/ Return(c)
    BY <1>27 DEF Decide
  <2>2. cpc[c] # "count" /\ UNCHANGED <<saving, alerts, pending, phase>>
    BY <1>27 DEF Decide, history, libVars
  <2>3. Counting' = Counting
    BY <2>1, <2>2, CountingTurn
  <2> QED
    BY <2>2, <2>3, CoversSame
<1>28. ASSUME NEW c \in Caller, LookComplete(c) PROVE Outstanding' <= pending' + Cardinality(Counting')
  <2>1. Goto(c, "write") \/ Return(c)
    BY <1>28 DEF LookComplete
  <2>2. cpc[c] # "count" /\ UNCHANGED <<saving, alerts, pending, phase>>
    BY <1>28 DEF LookComplete, history, libVars
  <2>3. Counting' = Counting
    BY <2>1, <2>2, CountingTurn
  <2> QED
    BY <2>2, <2>3, CoversSame
<1>29. ASSUME NEW c \in Caller, WriteComplete(c) PROVE Outstanding' <= pending' + Cardinality(Counting')
  <2>1. Goto(c, "idle") \/ Return(c)
    BY <1>29 DEF WriteComplete
  <2>2. cpc[c] # "count" /\ UNCHANGED <<saving, alerts, pending, phase>>
    BY <1>29 DEF WriteComplete, history, libVars
  <2>3. Counting' = Counting
    BY <2>1, <2>2, CountingTurn
  <2> QED
    BY <2>2, <2>3, CoversSame
<1>30. ASSUME Close PROVE Outstanding' <= pending' + Cardinality(Counting')
  <2>1. PICK hs \in SUBSET Hash :
          /\ RequestSaves(hs) /\ pending' = pending + Cardinality(hs)
          /\ alerts' = alerts /\ Counting' = Counting /\ phase # "down"
    BY <1>30 DEF Close, callVars, Counting, TypeOK
  <2>2. Outstanding' <= Outstanding + Cardinality(hs) /\ Cardinality(hs) \in Nat
    BY <2>1, SumAsked, TorrentConstants, FS_Subset, FS_CardinalityType
  <2> QED
    BY <2>1, <2>2, Sum, SumNext, CountingFinite DEF Covered
<1>31. ASSUME CloseStop PROVE Outstanding' <= pending' + Cardinality(Counting')
  <2>1. UNCHANGED <<saving, alerts, pending>> /\ Counting' = Counting /\ phase # "down"
    BY <1>31 DEF CloseStop, libVars, callVars, Counting
  <2>2. Outstanding' = Outstanding
    BY <2>1, Sum, SumNext
  <2> QED
    BY <2>1, <2>2 DEF Covered
<1>32. ASSUME Drain PROVE Outstanding' <= pending' + Cardinality(Counting')
  <2>1. PICK hs \in SUBSET Hash :
          /\ RequestSaves(hs) /\ pending' = pending + Cardinality(hs)
          /\ alerts' = alerts /\ Counting' = Counting /\ phase # "down"
    BY <1>32 DEF Drain, callVars, Counting, TypeOK
  <2>2. Outstanding' <= Outstanding + Cardinality(hs) /\ Cardinality(hs) \in Nat
    BY <2>1, SumAsked, TorrentConstants, FS_Subset, FS_CardinalityType
  <2> QED
    BY <2>1, <2>2, Sum, SumNext, CountingFinite DEF Covered
<1>33. ASSUME Drained PROVE Outstanding' <= pending' + Cardinality(Counting')
  <2>1. UNCHANGED <<saving, alerts, pending>> /\ Counting' = Counting /\ phase # "down"
    BY <1>33 DEF Drained, libVars, callVars, Counting
  <2>2. Outstanding' = Outstanding
    BY <2>1, Sum, SumNext
  <2> QED
    BY <2>1, <2>2 DEF Covered
<1>34. ASSUME CloseDone PROVE Outstanding' <= pending' + Cardinality(Counting')
  <2> QED
    BY <1>34 DEF CloseDone, Gone
<1>35. ASSUME Crash PROVE Outstanding' <= pending' + Cardinality(Counting')
  <2> QED
    BY <1>35 DEF Crash, Gone
<1>36. CASE UNCHANGED vars
  BY <1>36, CoversSame DEF vars, libVars, callVars
<1> QED
  BY <1>1, <1>2, <1>3, <1>4, <1>5, <1>6, <1>7, <1>8, <1>9, <1>10, <1>11, <1>12, <1>13,
      <1>14, <1>15, <1>16, <1>17, <1>18, <1>19, <1>20, <1>21, <1>22, <1>23, <1>24,
      <1>25, <1>26, <1>27, <1>28, <1>29, <1>30, <1>31, <1>32, <1>33, <1>34, <1>35, <1>36
      DEF Next, Library, AlertThread, Restore, CallerStep, Shutdown

-----------------------------------------------------------------------------
(* What a close() that nobody disturbs has asked for. *)

CloseOk ==
    /\ \A h \in Hash : rst.pc = "idle" /\ ~Handled(h)
    /\ Faults \cap {"write", "save"} = {} => \A h \in (handles \cap session) \ hurried : Safe(h)
    /\ phase = "drained" => pending = 0

\* A step that touches nothing a close() waits for.
LEMMA CloseSame ==
    ASSUME CloseOk, UNCHANGED <<rst, req, handles, session, hurried, saving, resume, alerts, phase, pending>>
    PROVE  CloseOk'
<1>1. \A h : Handled(h)' <=> Handled(h)
  BY DEF Handled
<1>2. \A h : Safe(h)' <=> Safe(h)
  BY SameAlerts DEF Safe
<1> QED
  BY <1>1, <1>2 DEF CloseOk

\* A step keeps what a close() has asked for.
LEMMA CloseStep ==
    ASSUME TypeOK, NewsInv, AloneInv, CalmInv, CloseInv, [Next]_vars, Closing', raced'
        = {}
    PROVE  CloseOk'
<1>1. ASSUME Start PROVE CloseOk'
  <2> QED
    BY <1>1 DEF Start, Closing, callVars
<1>2. ASSUME NEW h \in Hash, LibSaved(h) PROVE CloseOk'
  <2>1. CloseOk /\ Saved(h) /\ UNCHANGED <<rst, req, handles, hurried, resume, phase, pending>>
    BY <1>2, LibSaves DEF LibSaved, history, callVars, diskVars, CloseInv, CloseOk, Closing
  <2>2. \A g : Handled(g)' <=> Handled(g)
    BY <2>1 DEF Handled
  <2>3. ASSUME NEW g \in Hash, "save" \notin Faults, Safe(g) PROVE Safe(g)'
    <3>1. CASE g = h
      BY <2>1, <2>3, <3>1 DEF Saved, Safe
    <3>2. CASE g # h
      <4>1. saving'[g] = saving[g] /\ (SavedWaits(g) => SavedWaits(g)')
        BY <2>1, <3>2 DEF Saved, TypeOK
      <4> QED
        BY <2>1, <2>3, <4>1 DEF Safe
    <3> QED
      BY <3>1, <3>2
  <2>4. session' = session /\ handles' \subseteq Hash
    BY <2>1 DEF Saved, TypeOK
  <2>5. Faults \cap {"write", "save"} = {} => \A g \in (handles' \cap session') \ hurried' : Safe(g)'
    <3> SUFFICES ASSUME Faults \cap {"write", "save"} = {}, NEW g \in (handles' \cap session') \ hurried'
                 PROVE  Safe(g)'
      OBVIOUS
    <3>1. g \in Hash /\ Safe(g) /\ "save" \notin Faults
      BY <2>1, <2>4 DEF CloseOk
    <3> QED
      BY <2>3, <3>1
  <2> QED
    BY <2>1, <2>2, <2>5 DEF CloseOk
<1>3. ASSUME NEW h \in Hash, LibDownload(h) PROVE CloseOk'
  <2>1. CloseOk
    BY <1>3 DEF LibDownload, history, CloseInv, CloseOk, Closing
  <2> QED
    BY <1>3, <2>1, CloseSame DEF LibDownload, history, libVars, callVars
<1>4. ASSUME NEW h \in Hash, LoseFolder(h) PROVE CloseOk'
  <2> QED
    BY <1>4 DEF LoseFolder, Closing, callVars
<1>5. ASSUME ProcessAlert PROVE CloseOk'
  <2> PICK a : a = Head(alerts)
    OBVIOUS
  <2>1. /\ CloseOk /\ raced = {} /\ UNCHANGED <<rst, req, session, hurried, saving, phase>>
        /\ alerts # <<>> /\ alerts' = Tail(alerts) /\ handles' = HandlesAfter(a)
        /\ (IF a.kind = "saved" THEN resume' \in WriteResume(a.hash) ELSE UNCHANGED resume)
        /\ pending' = IF a.kind \in SaveAlert THEN CountDown ELSE pending
    BY <1>5 DEF ProcessAlert, history, callVars, CloseInv, CloseOk, Closing
  <2>2. \A g : Handled(g)' <=> Handled(g)
    BY <2>1 DEF Handled
  <2>3. phase' = "drained" => pending' = 0
    BY <2>1 DEF CloseOk, CountDown
  <2>4. ASSUME Faults \cap {"write", "save"} = {}, NEW g \in (handles' \cap session') \ hurried'
        PROVE  Safe(g)'
    <3>1. g \in Hash /\ g \in session /\ Calm(g)
      BY <2>1, <2>4 DEF Calm, TypeOK
    <3>2. g \in handles
      <4>1. CASE a.kind = "added" /\ a.hash = g
        <5>1. AddedWaits(g)
          BY <2>1, <4>1, AlertTaken DEF SaveAlert
        <5>2. \A c \in Caller : req[c] # g
          BY <2>1, <3>1 DEF CloseOk, Handled
        <5> QED
          BY <3>1, <5>1, <5>2 DEF CalmInv, CalmAt
      <4>2. CASE ~(a.kind = "added" /\ a.hash = g)
        BY <2>1, <2>4, <4>2 DEF HandlesAfter
      <4> QED
        BY <4>1, <4>2
    <3>3. Safe(g)
      BY <2>1, <2>4, <3>1, <3>2 DEF CloseOk
    <3>4. a.kind = "saved" => resume' = resume \cup {a.hash}
      BY <2>1, <2>4 DEF WriteResume
    <3>5. resume \subseteq resume'
      BY <2>1, <3>4
    <3>6. SavedWaits(g) => SavedWaits(g)' \/ a = Note("saved", g)
      BY <2>1, AlertTaken
    <3>7. a = Note("saved", g) => g \in resume'
      BY <3>4 DEF Note
    <3> QED
      BY <2>1, <3>3, <3>5, <3>6, <3>7 DEF Safe
  <2> QED
    BY <2>1, <2>2, <2>3, <2>4 DEF CloseOk
<1>6. ASSUME NEW h \in Hash, PeriodicSave(h) PROVE CloseOk'
  <2>1. /\ CloseOk /\ UNCHANGED <<rst, req, session, handles, hurried, resume, alerts, phase>>
        /\ phase = "saving" /\ RequestSaves({h})
    BY <1>6 DEF PeriodicSave, Connected, callVars, diskVars, history, CloseInv, CloseOk, Closing
  <2>2. \A g : (Handled(g)' <=> Handled(g)) /\ (SavedWaits(g)' <=> SavedWaits(g))
    BY <2>1, SameAlerts DEF Handled
  <2>3. \A g \in Hash : saving[g] > 0 => saving'[g] > 0
    BY <2>1 DEF RequestSaves, TypeOK
  <2>4. \A g \in Hash : Safe(g) => Safe(g)'
    BY <2>1, <2>2, <2>3 DEF Safe
  <2> QED
    BY <2>1, <2>2, <2>4 DEF CloseOk, TypeOK
<1>7. ASSUME BeginRestore PROVE CloseOk'
  <2>1. phase = "saving" /\ raced' = Hash /\ UNCHANGED <<phase, handles, session>>
    BY <1>7 DEF BeginRestore, Connected, Closing, libVars
  <2>2. Hash = {} /\ handles = {}
    BY <2>1 DEF TypeOK
  <2> QED
    BY <2>1, <2>2 DEF CloseOk
<1>8. ASSUME BeginRemoteRestore PROVE CloseOk'
  <2>1. phase = "saving" /\ raced' = Hash /\ UNCHANGED <<phase, handles, session>>
    BY <1>8 DEF BeginRemoteRestore, Connected, Closing, libVars
  <2>2. Hash = {} /\ handles = {}
    BY <2>1 DEF TypeOK
  <2> QED
    BY <2>1, <2>2 DEF CloseOk
<1>9. ASSUME NEW h \in Hash, RestoreFile(h) PROVE CloseOk'
  <2>1. CloseOk /\ rst.pc # "idle" /\ Hash # {}
    BY <1>9 DEF RestoreFile, Witness, history, CloseInv, CloseOk, Closing, AloneInv, TypeOK
  <2> QED
    BY <2>1 DEF CloseOk
<1>10. ASSUME RestoreList PROVE CloseOk'
  <2>1. CloseOk /\ rst.pc # "idle" /\ UNCHANGED <<phase, pending, handles, session>>
    BY <1>10 DEF RestoreList, libVars, history, CloseInv, CloseOk, Closing
  <2>2. Hash = {} /\ handles = {}
    BY <2>1 DEF CloseOk, TypeOK
  <2> QED
    BY <2>1, <2>2 DEF CloseOk
<1>11. ASSUME NEW h \in Hash, RestoreRow(h) PROVE CloseOk'
  <2>1. CloseOk /\ rst.pc # "idle" /\ Hash # {}
    BY <1>11 DEF RestoreRow, Witness, history, CloseInv, CloseOk, Closing, AloneInv, TypeOK
  <2> QED
    BY <2>1 DEF CloseOk
<1>12. ASSUME RestoreAdd PROVE CloseOk'
  <2>1. CloseOk /\ rst.pc # "idle" /\ Hash # {}
    BY <1>12 DEF RestoreAdd, history, CloseInv, CloseOk, Closing, AloneInv, TypeOK
  <2> QED
    BY <2>1 DEF CloseOk
<1>13. ASSUME RestoreEnd PROVE CloseOk'
  <2>1. CloseOk /\ rst.pc # "idle" /\ UNCHANGED <<phase, pending, handles, session>>
    BY <1>13 DEF RestoreEnd, libVars, history, CloseInv, CloseOk, Closing
  <2>2. Hash = {} /\ handles = {}
    BY <2>1 DEF CloseOk, TypeOK
  <2> QED
    BY <2>1, <2>2 DEF CloseOk
<1>14. ASSUME NEW c \in Caller, NEW op \in AllOps, NEW h \in Hash, Call(c, op, h) PROVE CloseOk'
  <2>1. phase = "saving" => h \in raced'
    BY <1>14 DEF Call, Witness
  <2> QED
    BY <1>14, <2>1 DEF Call, Connected, Closing
<1>15. ASSUME NEW c \in Caller, SaveRow(c) PROVE CloseOk'
  <2>1. CloseOk /\ cpc[c] # "idle"
    BY <1>15 DEF SaveRow, history, CloseInv, CloseOk, Closing
  <2> QED
    BY <2>1 DEF CloseOk, AloneInv, Handled, TypeOK
<1>16. ASSUME NEW c \in Caller, Add(c) PROVE CloseOk'
  <2>1. CloseOk /\ cpc[c] # "idle"
    BY <1>16 DEF Add, history, CloseInv, CloseOk, Closing
  <2> QED
    BY <2>1 DEF CloseOk, AloneInv, Handled, TypeOK
<1>17. ASSUME NEW c \in Caller, Register(c) PROVE CloseOk'
  <2>1. CloseOk /\ cpc[c] # "idle"
    BY <1>17 DEF Register, history, CloseInv, CloseOk, Closing
  <2> QED
    BY <2>1 DEF CloseOk, AloneInv, Handled, TypeOK
<1>18. ASSUME NEW c \in Caller, Count(c) PROVE CloseOk'
  <2>1. CloseOk /\ cpc[c] # "idle"
    BY <1>18 DEF Count, history, CloseInv, CloseOk, Closing
  <2> QED
    BY <2>1 DEF CloseOk, AloneInv, Handled, TypeOK
<1>19. ASSUME NEW c \in Caller, Move(c) PROVE CloseOk'
  <2>1. CloseOk /\ cpc[c] # "idle"
    BY <1>19 DEF Move, history, CloseInv, CloseOk, Closing
  <2> QED
    BY <2>1 DEF CloseOk, AloneInv, Handled, TypeOK
<1>20. ASSUME NEW c \in Caller, MarkDeleted(c) PROVE CloseOk'
  <2>1. CloseOk /\ cpc[c] # "idle"
    BY <1>20 DEF MarkDeleted, history, CloseInv, CloseOk, Closing
  <2> QED
    BY <2>1 DEF CloseOk, AloneInv, Handled, TypeOK
<1>21. ASSUME NEW c \in Caller, RemoveTorrent(c) PROVE CloseOk'
  <2>1. CloseOk /\ cpc[c] # "idle"
    BY <1>21 DEF RemoveTorrent, history, CloseInv, CloseOk, Closing
  <2> QED
    BY <2>1 DEF CloseOk, AloneInv, Handled, TypeOK
<1>22. ASSUME NEW c \in Caller, Pop(c) PROVE CloseOk'
  <2>1. CloseOk /\ cpc[c] # "idle"
    BY <1>22 DEF Pop, history, CloseInv, CloseOk, Closing
  <2> QED
    BY <2>1 DEF CloseOk, AloneInv, Handled, TypeOK
<1>23. ASSUME NEW c \in Caller, Unlink(c) PROVE CloseOk'
  <2>1. CloseOk /\ cpc[c] # "idle"
    BY <1>23 DEF Unlink, history, CloseInv, CloseOk, Closing
  <2> QED
    BY <2>1 DEF CloseOk, AloneInv, Handled, TypeOK
<1>24. ASSUME NEW c \in Caller, Reconcile(c) PROVE CloseOk'
  <2>1. CloseOk /\ cpc[c] # "idle"
    BY <1>24 DEF Reconcile, history, CloseInv, CloseOk, Closing
  <2> QED
    BY <2>1 DEF CloseOk, AloneInv, Handled, TypeOK
<1>25. ASSUME NEW c \in Caller, Weigh(c) PROVE CloseOk'
  <2>1. CloseOk /\ cpc[c] # "idle"
    BY <1>25 DEF Weigh, history, CloseInv, CloseOk, Closing
  <2> QED
    BY <2>1 DEF CloseOk, AloneInv, Handled, TypeOK
<1>26. ASSUME NEW c \in Caller, Settle(c) PROVE CloseOk'
  <2>1. CloseOk /\ cpc[c] # "idle"
    BY <1>26 DEF Settle, history, CloseInv, CloseOk, Closing
  <2> QED
    BY <2>1 DEF CloseOk, AloneInv, Handled, TypeOK
<1>27. ASSUME NEW c \in Caller, Decide(c) PROVE CloseOk'
  <2>1. CloseOk /\ cpc[c] # "idle"
    BY <1>27 DEF Decide, history, CloseInv, CloseOk, Closing
  <2> QED
    BY <2>1 DEF CloseOk, AloneInv, Handled, TypeOK
<1>28. ASSUME NEW c \in Caller, LookComplete(c) PROVE CloseOk'
  <2>1. CloseOk /\ cpc[c] # "idle"
    BY <1>28 DEF LookComplete, history, CloseInv, CloseOk, Closing
  <2> QED
    BY <2>1 DEF CloseOk, AloneInv, Handled, TypeOK
<1>29. ASSUME NEW c \in Caller, WriteComplete(c) PROVE CloseOk'
  <2>1. CloseOk /\ cpc[c] # "idle"
    BY <1>29 DEF WriteComplete, history, CloseInv, CloseOk, Closing
  <2> QED
    BY <2>1 DEF CloseOk, AloneInv, Handled, TypeOK
<1>30. ASSUME Close PROVE CloseOk'
  <2>1. /\ InProgress = {} /\ UNCHANGED <<rst, req, session, handles, hurried, resume, alerts>>
        /\ RequestSaves(handles \cap session) /\ phase' = "saving"
    BY <1>30 DEF Close, callVars, diskVars
  <2>2. \A g \in Hash : rst'.pc = "idle" /\ ~Handled(g)'
    BY <2>1 DEF InProgress, Handled
  <2>3. \A g \in handles \cap session : saving'[g] > 0
    BY <2>1 DEF RequestSaves, TypeOK
  <2> QED
    BY <2>1, <2>2, <2>3 DEF CloseOk, Safe
<1>31. ASSUME CloseStop PROVE CloseOk'
  <2>1. /\ CloseOk /\ UNCHANGED <<rst, req, session, handles, hurried, resume, alerts, saving>>
        /\ phase' = "stopping"
    BY <1>31 DEF CloseStop, callVars, libVars, diskVars, history, CloseInv, CloseOk, Closing
  <2>2. \A g : (Handled(g)' <=> Handled(g)) /\ (SavedWaits(g)' <=> SavedWaits(g))
    BY <2>1, SameAlerts DEF Handled
  <2> QED
    BY <2>1, <2>2 DEF CloseOk, Safe
<1>32. ASSUME Drain PROVE CloseOk'
  <2>1. /\ CloseOk /\ UNCHANGED <<rst, req, session, handles, hurried, resume, alerts>>
        /\ phase' = "draining" /\ \E hs : RequestSaves(hs)
    BY <1>32 DEF Drain, callVars, diskVars, history, CloseInv, CloseOk, Closing
  <2>2. \A g : (Handled(g)' <=> Handled(g)) /\ (SavedWaits(g)' <=> SavedWaits(g))
    BY <2>1, SameAlerts DEF Handled
  <2>3. \A g \in Hash : saving[g] > 0 => saving'[g] > 0
    BY <2>1 DEF RequestSaves, TypeOK
  <2>4. \A g \in Hash : Safe(g) => Safe(g)'
    BY <2>1, <2>2, <2>3 DEF Safe
  <2> QED
    BY <2>1, <2>2, <2>4 DEF CloseOk, TypeOK
<1>33. ASSUME Drained PROVE CloseOk'
  <2>1. /\ CloseOk /\ UNCHANGED <<rst, req, session, handles, hurried, resume, alerts, saving>> /\ pending' = 0
    BY <1>33 DEF Drained, callVars, libVars, diskVars, history, CloseInv, CloseOk, Closing
  <2>2. \A g : (Handled(g)' <=> Handled(g)) /\ (SavedWaits(g)' <=> SavedWaits(g))
    BY <2>1, SameAlerts DEF Handled
  <2> QED
    BY <2>1, <2>2 DEF CloseOk, Safe
<1>34. ASSUME CloseDone PROVE CloseOk'
  <2> QED
    BY <1>34 DEF CloseDone, Gone, Closing
<1>35. ASSUME Crash PROVE CloseOk'
  <2> QED
    BY <1>35 DEF Crash, Gone, Closing
<1>36. CASE UNCHANGED vars
  <2>1. CloseOk
    BY <1>36 DEF vars, history, CloseInv, CloseOk, Closing
  <2> QED
    BY <1>36, <2>1, CloseSame DEF vars, diskVars, libVars, callVars, history
<1> QED
  BY <1>1, <1>2, <1>3, <1>4, <1>5, <1>6, <1>7, <1>8, <1>9, <1>10, <1>11, <1>12, <1>13,
      <1>14, <1>15, <1>16, <1>17, <1>18, <1>19, <1>20, <1>21, <1>22, <1>23, <1>24,
      <1>25, <1>26, <1>27, <1>28, <1>29, <1>30, <1>31, <1>32, <1>33, <1>34, <1>35, <1>36
      DEF Next, Library, AlertThread, Restore, CallerStep, Shutdown

\* The deployment is fixed.
LEMMA SiteStep == [Next]_vars => site' = site
BY DEF Next, Library, AlertThread, Restore, CallerStep, Shutdown, vars,
   Start, LibSaved, LibDownload, LoseFolder, ProcessAlert, PeriodicSave, BeginRestore,
   BeginRemoteRestore, RestoreFile, RestoreList, RestoreRow, RestoreAdd, RestoreEnd, Call,
   SaveRow, Add, Register, Count, Move, MarkDeleted, RemoveTorrent, Pop, Unlink, Reconcile,
   Weigh, Settle, Decide, LookComplete, WriteComplete, Close, CloseStop, Drain, Drained,
   CloseDone, Crash

-----------------------------------------------------------------------------
(* The theorems. *)

\* IndInv holds in the initial states ...
LEMMA InitInv == Init => IndInv
<1> SUFFICES ASSUME Init PROVE IndInv
  OBVIOUS
<1>1. TypeOK
  <2>1. alerts \in Seq(Alert) /\ resume \subseteq Hash
    BY TorrentConstants DEF Init
  <2>2. row \in [Hash -> Status] /\ payload \in [Hash -> {"missing", "folder", "partial", "full"}]
    BY DEF Init, Status
  <2>3. /\ saving \in [Hash -> Nat] /\ cpc \in [Caller -> CallerState]
        /\ req \in [Caller -> Hash \cup {None}] /\ seen \in [Caller -> Status \cup {None}]
    BY DEF Init, CallerState
  <2> QED
    BY <2>1, <2>2, <2>3 DEF Init, TypeOK, Phase, NoRestore
<1>2. DownInv
  BY DEF Init, DownInv, NoRestore
<1>3. NewsInv
  BY DEF Init, NewsInv
<1>4. AloneInv
  BY DEF Init, AloneInv, NoRestore
<1>5. \A h : ~Awaited(h) /\ Single(h) /\ ~AddedWaits(h)
  BY DEF Init, Awaited, Single, AddedWaits
<1>6. TableInv
  BY TorrentConstants DEF Init, TableInv, TableAt
<1>7. CalmInv
  BY <1>5, TorrentConstants DEF Init, CalmInv, CalmAt, NoRestore
<1>8. RowInv /\ DurableInv /\ CloseInv /\ PendingCovers
  BY DEF Init, RowInv, DurableInv, CloseInv, PendingCovers, Closing
<1>9. ListInv /\ FateInv
  BY DEF Init, ListInv, FateInv, FateAt, NoRestore
<1> QED
  BY <1>1, <1>2, <1>3, <1>4, <1>6, <1>7, <1>8, <1>9 DEF IndInv

\* ... and every step keeps it.
LEMMA StepInv == IndInv /\ [Next]_vars => IndInv'
<1> SUFFICES ASSUME IndInv, [Next]_vars PROVE IndInv'
  OBVIOUS
<1> USE DEF IndInv
<1>1. TypeOK'
  BY TypeStep
<1>2. DownInv'
  BY DownStep
<1>3. NewsInv'
  BY NewsStep
<1>4. AloneInv'
  BY AloneStep
<1>5. TableInv'
  BY TableStep DEF TableInv
<1>6. CalmInv'
  BY CalmStep DEF CalmInv
<1>0. site' = site
  BY SiteStep
<1>7. RowInv'
  BY <1>0, RowStep DEF RowInv
<1>8. ListInv'
  BY ListStep
<1>9. FateInv'
  BY FateStep DEF FateInv
<1>10. DurableInv'
  BY <1>0, DurableStep DEF DurableInv
<1>11. PendingCovers'
  <2>1. Covered /\ Counting' = {c \in Caller : cpc'[c] = "count"}
    BY DEF PendingCovers, Covered, Counting
  <2>2. phase' # "down" => Outstanding' <= pending' + Cardinality(Counting')
    BY <1>1, <2>1, CountStep
  <2> QED
    BY <2>1, <2>2 DEF PendingCovers
<1>12. CloseInv'
  <2>1. Closing' /\ raced' = {} => CloseOk'
    BY CloseStep
  <2> QED
    BY <2>1 DEF CloseInv, CloseOk
<1> QED
  BY <1>1, <1>2, <1>3, <1>4, <1>5, <1>6, <1>7, <1>8, <1>9, <1>10, <1>11, <1>12

\* IndInv holds in every state.
THEOREM SpecInv == Spec => []IndInv
BY InitInv, StepInv, PTL DEF Spec

\* The state keeps its types.
THEOREM TypeCorrect == Spec => []TypeOK
<1>1. IndInv => TypeOK
  BY DEF IndInv
<1> QED
  BY <1>1, SpecInv, PTL

\* Only calls that overlap about a torrent can leave the handles table and the
\* session apart (libtorrent.py 742-750, 955, 1072).
THEOREM HandlesSettledHolds == Spec => []HandlesSettled
<1>1. IndInv => HandlesSettled
  <2> SUFFICES ASSUME IndInv, NEW h \in Hash \ raced, Quiet(h) PROVE h \in handles <=> h \in session
    BY DEF HandlesSettled
  <2>1. ~Awaited(h) /\ ~Half(h)
    BY DEF Quiet, Handled, Half
  <2> QED
    BY <2>1 DEF IndInv, TableInv, TableAt
<1> QED
  BY <1>1, SpecInv, PTL

\* The client runs no torrent that the database has deleted or does not know
\* (libtorrent.py 123-125, 608-635), unless a call about it failed in this process.
THEOREM NeverResurrectsHolds == Spec => []NeverResurrects
<1>1. IndInv => NeverResurrects
  <2> SUFFICES ASSUME IndInv, phase = "ready", ~site.remote,
                      NEW h \in session \ (raced \cup hurried \cup failed), Quiet(h)
               PROVE  row[h] \in Wanted
    BY DEF NeverResurrects, Wanted
  <2>1. h \in Hash /\ Sound(h)
    BY DEF IndInv, TypeOK, Calm, Sound
  <2> QED
    BY <2>1 DEF IndInv, RowInv, RowAt, Quiet
<1> QED
  BY <1>1, SpecInv, PTL

\* A restored session runs every torrent that the database wants and whose
\* folder exists (libtorrent.py 639-678), unless a call about it failed.
THEOREM DurableHolds == Spec => []Durable
<1>1. IndInv => Durable
  <2> SUFFICES ASSUME IndInv, phase = "ready", restored, ~site.remote,
                      NEW h \in Hash \ (raced \cup hurried \cup failed), Quiet(h), row[h] \in Wanted,
                      payload[h] # "missing"
               PROVE  h \in session
    BY DEF Durable, Wanted
  <2>1. KeptAt(h)
    BY DEF IndInv, DurableInv, Listed, Calm, Sound
  <2>2. rst.cur # h /\ \A c \in Caller : req[c] # h
    BY DEF Quiet, Handled
  <2>3. rst.pc = "idle"
    BY DEF IndInv, ListInv
  <2> QED
    BY <2>1, <2>2, <2>3 DEF KeptAt
<1> QED
  BY <1>1, SpecInv, PTL

\* What is outstanding is counted, or about to be (libtorrent.py 955, 1284-1329).
THEOREM PendingCoversHolds == Spec => []PendingCovers
<1>1. IndInv => PendingCovers
  BY DEF IndInv
<1> QED
  BY <1>1, SpecInv, PTL

\* Where resume files can be written, a close() that nobody disturbs and that
\* ends by its counter has written those of the torrents it drops.
THEOREM CloseFlushesHolds == Faults \cap {"write", "save"} = {} => (Spec => []CloseFlushes)
<1> SUFFICES ASSUME Faults \cap {"write", "save"} = {} PROVE Spec => []CloseFlushes
  OBVIOUS
<1>1. IndInv => CloseFlushes
  <2> SUFFICES ASSUME IndInv, phase = "drained", raced = {}, NEW h \in (handles \cap session) \ hurried
               PROVE  h \in resume
    BY DEF CloseFlushes
  <2>1. CloseOk /\ pending = 0
    BY DEF IndInv, CloseInv, CloseOk, Closing
  <2>2. \A c \in Caller : cpc[c] # "count"
    BY <2>1 DEF CloseOk, Handled, IndInv, AloneInv, TypeOK
  <2>3. Counting = {}
    BY <2>2 DEF Counting
  <2>4. TypeOK /\ Outstanding <= 0
    <3>1. Outstanding <= pending + Cardinality(Counting)
      BY DEF IndInv, PendingCovers, Counting
    <3> QED
      BY <2>1, <2>3, <3>1, FS_EmptySet DEF IndInv
  <2>5. Cardinality(Pairs(saving)) = 0 /\ Cardinality(Slots(alerts)) = 0
    BY <2>4, Sum
  <2>6. Pairs(saving) = {} /\ Slots(alerts) = {}
    BY <2>4, <2>5, PairsFinite, SlotsFinite, FS_EmptySet DEF TypeOK
  <2>7. h \in Hash /\ saving[h] \in Nat /\ ~(saving[h] > 0)
    <3>1. h \in Hash /\ saving[h] \in Nat
      BY <2>4 DEF TypeOK
    <3>2. <<h, 1>> \in Pairs(saving) <=> 1 \in 1..saving[h]
      BY <3>1, InPairs
    <3> QED
      BY <2>6, <3>1, <3>2
  <2>8. ~SavedWaits(h)
    BY <2>6 DEF SavedWaits, Slots, Note, SaveAlert
  <2> QED
    BY <2>1, <2>7, <2>8 DEF CloseOk, Safe
<1> QED
  BY <1>1, SpecInv, PTL
=============================================================================
