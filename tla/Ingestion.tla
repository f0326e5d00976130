----------------------------- MODULE Ingestion -----------------------------
(***************************************************************************)
(* application/services/api_coordinator.py over ingestion_pipeline.py: the *)
(* requests that fan out to the metadata providers on a bounded executor,  *)
(* collect what arrives before the deadline, hand it to the caller and to  *)
(* the persistence sink; the schedule fetch on an executor of its own; and *)
(* close().                                                                *)
(*                                                                         *)
(* search, season, genre and top differ only in the endpoint and in the    *)
(* limit per provider.  Providers, the clock and the consumer of a stream  *)
(* are external: an answer may never come, a timer may run out at any      *)
(* time.  Submitting one call per provider is a single step.  Catalogue    *)
(* identity (resolve, dedupe by id) is module Catalog; here a payload is   *)
(* its fingerprint and finalizing succeeds or fails as a whole.            *)
(***************************************************************************)
EXTENDS Integers, Sequences, FiniteSets, SequencesExt, FiniteSetsExt

CONSTANTS
    Request,     \* requests, each made at most once
    Schedule,    \* those of them that are fetch_latest
    Provider,
    Scheduled,   \* those of them that have a schedule endpoint
    Payload,     \* fingerprints
    Offer,       \* what a provider has, in its order; None is a row that the
                 \* adapter refuses
    Limit,       \* limit of a request
    MaxWorkers,  \* of either executor
    Kinds,       \* the operations interactive requests use
    Faults       \* "provider": a call raises; "store": resolving or saving fails

None == "none"

ASSUME IngestionConstants ==
    /\ Schedule \subseteq Request /\ None \notin Payload
    /\ IsFiniteSet(Provider) /\ Scheduled \subseteq Provider /\ Scheduled # {}
    /\ Offer \in [Provider -> Seq(Payload \cup {None})]
    /\ Limit \in Nat /\ MaxWorkers \in Nat \ {0}
    /\ Kinds \subseteq {"search", "browse", "stream"}
    /\ Faults \subseteq {"provider", "store"}

VARIABLES
    pc,        \* where a request is
    kind,      \* which operation it is
    call,      \* its future for each provider
    out,       \* what the future returned; no property is about the order of rows
    cut,       \* calls that the deadline kept from some of their rows (history)
    line,      \* the queue of either executor: <<request, provider>>
    late,      \* requests whose deadline has passed
    taken,     \* providers whose future the request has seen
    got,       \* collected, without repetitions
    failed,    \* failed providers
    partial,   \* partial
    verdict,   \* IngestionResult.status, or how else the request ended
    shown,     \* what the caller received
    light,     \* list_light, set on all providers together
    stored,    \* what the sink has persisted
    open,      \* self._pipeline is not None
    shut,      \* how far close() is
    background,\* self._background_pipeline
    unlucky    \* requests that met a failing database (history)

requestVars == <<pc, kind, taken, got, failed, partial, verdict, shown>>
poolVars == <<call, out, line, cut>>
closeVars == <<open, shut, background>>
vars == <<requestVars, poolVars, late, light, stored, closeVars, unlucky>>

\* The providers a request asks, in the order of get_providers.
Asked(r) == IF r \in Schedule THEN Scheduled ELSE Provider
Order(r) == SetToSeq(Asked(r))
Calls(r) == [i \in 1..Len(Order(r)) |-> <<r, Order(r)[i]>>]

CallState == {None, "queued", "called", "done", "raised", "cancelled"}
Lane == {"main", "background"}

TypeOK ==
    /\ pc \in [Request -> {"idle", "begin", "submit", "wait", "give", "cancel", "sink", "end", "done"}]
    /\ kind \in [Request -> {None, "search", "browse", "stream", "schedule"}]
    /\ call \in [Request -> [Provider -> CallState]]
    /\ out \in [Request -> [Provider -> SUBSET Payload]]
    /\ cut \subseteq Request \X Provider
    /\ line \in [Lane -> Seq(Request \X Provider)]
    /\ late \subseteq Request
    /\ taken \in [Request -> SUBSET Provider] /\ got \in [Request -> SUBSET Payload]
    /\ failed \in [Request -> 0..Cardinality(Provider)] /\ partial \in [Request -> BOOLEAN]
    /\ verdict \in [Request -> {None, "complete", "partial", "failed", "streamed", "left", "refused"}]
    /\ shown \in [Request -> SUBSET Payload]
    /\ light \in BOOLEAN
    /\ stored \subseteq Payload /\ unlucky \subseteq Request
    /\ open \in BOOLEAN /\ shut \in {"no", "background", "main", "closed"}
    /\ background \in {None, "open", "shut"}

Init ==
    /\ pc = [r \in Request |-> "idle"] /\ kind = [r \in Request |-> None]
    /\ call = [r \in Request |-> [p \in Provider |-> None]]
    /\ out = [r \in Request |-> [p \in Provider |-> {}]]
    /\ line = [l \in Lane |-> <<>>] /\ cut = {}
    /\ late = {}
    /\ taken = [r \in Request |-> {}] /\ got = [r \in Request |-> {}]
    /\ failed = [r \in Request |-> 0] /\ partial = [r \in Request |-> FALSE]
    /\ verdict = [r \in Request |-> None] /\ shown = [r \in Request |-> {}]
    /\ light = FALSE
    /\ stored = {} /\ unlucky = {}
    /\ open = TRUE /\ shut = "no" /\ background = None

Goto(r, to) == pc' = [pc EXCEPT ![r] = to]

-----------------------------------------------------------------------------
(* The executors.  _run_one is a worker's call of one provider.             *)

\* The executor that a request's calls run on.
LaneOf(r) == IF r \in Schedule THEN "background" ELSE "main"

\* per_provider_limit
PerProvider(r) ==
    CASE kind[r] = "browse" -> Max({1, Limit})
      [] kind[r] = "schedule" -> Max({1, (3 * Limit) \div Cardinality(Scheduled)})
      [] OTHER -> Max({1, Limit \div Cardinality(Provider)})

\* The loop over a provider's rows: refused rows are skipped, and the limit is
\* looked at only after a row was kept.  The rows that are kept, by position.
Kept(rows, n) ==
    {i \in DOMAIN rows : rows[i] # None /\ \A j \in 1..(i-1) : j < n \/ rows[j] = None}

Busy(l) == {c \in Request \X Provider : LaneOf(c[1]) = l /\ call[c[1]][c[2]] = "called"}

\* A worker takes the oldest call: a cancelled one is dropped, a late one ends
\* at once with nothing and without asking the provider, any other goes out.
PickedUp(r, p) ==
    IF call[r][p] = "cancelled" THEN "cancelled" ELSE IF r \in late THEN "done" ELSE "called"

Pick(l) ==
    /\ line[l] # <<>> /\ Cardinality(Busy(l)) < MaxWorkers
    /\ line' = [line EXCEPT ![l] = Tail(line[l])]
    /\ LET r == Head(line[l])[1]
           p == Head(line[l])[2]
       IN  /\ call' = [call EXCEPT ![r][p] = PickedUp(r, p)]
           /\ cut' = cut \cup (IF PickedUp(r, p) = "done" THEN {<<r, p>>} ELSE {})
    /\ UNCHANGED <<requestVars, out, late, light, stored, closeVars, unlucky>>

\* A provider answers (external).  After the deadline the worker stops at the
\* next row, wherever it is; nobody reads what it returns to a request that is
\* over.
Answer(r, p) ==
    /\ call[r][p] = "called"
    /\ \/ /\ call' = [call EXCEPT ![r][p] = "done"]
          /\ LET rows == IF pc[r] = "done" THEN {} ELSE Kept(Offer[p], PerProvider(r)) IN
             \E n \in IF r \in late THEN 0..Len(Offer[p]) ELSE {Len(Offer[p])} :
                LET read == {i \in rows : i <= n} IN
                /\ out' = [out EXCEPT ![r][p] = {Offer[p][i] : i \in read}]
                /\ cut' = cut \cup (IF read = rows THEN {} ELSE {<<r, p>>})
       \/ /\ "provider" \in Faults
          /\ call' = [call EXCEPT ![r][p] = "raised"]
          /\ UNCHANGED <<out, cut>>
    /\ UNCHANGED <<requestVars, line, late, light, stored, closeVars, unlucky>>

\* Time passes: the deadline of _run_one.  The timer of as_completed is started
\* later with the same timeout and ends at any time after it.
Deadline(r) ==
    /\ pc[r] \in {"wait", "give"} /\ taken[r] # Asked(r) /\ r \notin late
    /\ late' = late \cup {r}
    /\ UNCHANGED <<requestVars, poolVars, light, stored, closeVars, unlucky>>

-----------------------------------------------------------------------------
(* The coordinator.                                                         *)

Refuse(r) == Goto(r, "done") /\ verdict' = [verdict EXCEPT ![r] = "refused"]

\* search_anime, browse_*, stream_*: the limiter, whose window is left open, and
\* the look at the pipeline.
Ask(r, k) ==
    /\ pc[r] = "idle" /\ r \notin Schedule /\ k \in Kinds
    /\ kind' = [kind EXCEPT ![r] = k]
    /\ \/ open /\ Goto(r, "begin") /\ UNCHANGED verdict
       \/ Refuse(r)
    /\ UNCHANGED <<poolVars, late, taken, got, failed, partial, shown, light, stored, closeVars, unlucky>>

\* fetch_latest: no limiter.
AskSchedule(r) ==
    /\ pc[r] = "idle" /\ r \in Schedule
    /\ kind' = [kind EXCEPT ![r] = "schedule"]
    /\ IF open THEN Goto(r, "begin") /\ UNCHANGED verdict ELSE Refuse(r)
    /\ UNCHANGED <<poolVars, late, taken, got, failed, partial, shown, light, stored, closeVars, unlucky>>

\* _set_list_light_mode(providers, True), after fetch_latest has got hold of its
\* pipeline, which it creates if there is none.
Lighten(r) ==
    /\ pc[r] = "begin"
    /\ light' = TRUE
    /\ background' = IF r \in Schedule THEN "open" ELSE background
    /\ Goto(r, "submit")
    /\ UNCHANGED <<kind, taken, got, failed, partial, verdict, shown, poolVars, late, stored,
                   open, shut, unlucky>>

\* Whether the executor takes calls: the main one does until its shutdown.
Accepting(r) == IF r \in Schedule THEN background = "open" ELSE shut \in {"no", "background"}

\* Once close() has dropped the pipeline, a request reaches the executor only if
\* it had looked the pipeline up before.
TooLate(r) == ~Accepting(r) \/ (r \notin Schedule /\ ~open)

\* One call for each provider is queued.
Admit(r) ==
    /\ Accepting(r)
    /\ line' = [line EXCEPT ![LaneOf(r)] = @ \o Calls(r)]
    /\ call' = [call EXCEPT ![r] = [p \in Provider |-> IF p \in Asked(r) THEN "queued" ELSE None]]
    /\ Goto(r, "wait") /\ UNCHANGED verdict

\* The executor takes the calls, or the request fails because close() came first.
Submit(r) ==
    /\ pc[r] = "submit"
    /\ \/ Admit(r)
       \/ /\ TooLate(r)
          /\ Goto(r, "end") /\ verdict' = [verdict EXCEPT ![r] = "refused"]
          /\ UNCHANGED <<call, line>>
    /\ UNCHANGED <<kind, taken, got, failed, partial, shown, out, cut, late, light, stored,
                   closeVars, unlucky>>

\* _deduplicate_payloads, and `seen' of stream.
FreshOf(r, rows) == rows \ got[r]

Finished(r) == {p \in Provider : call[r][p] \in {"done", "raised"}}

\* _finalize_catalog_records: a failing database gives nothing to show.
Finalized(r, rows) ==
    \/ shown' = [shown EXCEPT ![r] = @ \cup rows] /\ UNCHANGED unlucky
    \/ "store" \in Faults /\ unlucky' = unlucky \cup {r} /\ UNCHANGED shown

\* as_completed yields a future: its rows are collected, a failure is counted by
\* run and ignored by stream, which shows what is new at once.
Take(r, p) ==
    LET fresh == FreshOf(r, out[r][p]) IN
    /\ pc[r] = "wait" /\ p \in Finished(r) \ taken[r]
    /\ taken' = [taken EXCEPT ![r] = @ \cup {p}]
    /\ got' = [got EXCEPT ![r] = @ \cup fresh]
    /\ failed' = [failed EXCEPT ![r] = @ + IF call[r][p] = "raised" /\ kind[r] # "stream" THEN 1 ELSE 0]
    /\ IF kind[r] = "stream" /\ fresh # {}
         THEN Goto(r, "give") /\ Finalized(r, fresh)
         ELSE UNCHANGED <<pc, shown, unlucky>>
    /\ UNCHANGED <<kind, partial, verdict, poolVars, late, light, stored, closeVars>>

\* The consumer of a stream asks for more ...
Pull(r) ==
    /\ pc[r] = "give"
    /\ Goto(r, "wait")
    /\ UNCHANGED <<kind, taken, got, failed, partial, verdict, shown, poolVars, late, light,
                   stored, closeVars, unlucky>>

\* ... or goes away: the generators are closed, the calls stay where they are.
Abandon(r) ==
    /\ pc[r] = "give"
    /\ Goto(r, "end") /\ verdict' = [verdict EXCEPT ![r] = "left"]
    /\ UNCHANGED <<kind, taken, got, failed, partial, shown, poolVars, late, light,
                   stored, closeVars, unlucky>>

\* if not future.done()
Missed(r) == Asked(r) \ Finished(r)

\* Fault: as_completed without a timeout.
NoTimeout(r) == FALSE

\* The timer of as_completed may have run out.
TimeUp(r) == r \in late

\* as_completed gives up, although futures may have finished unseen.
GiveUp(r) ==
    /\ pc[r] = "wait" /\ TimeUp(r) /\ taken[r] # Asked(r)
    /\ failed' = [failed EXCEPT ![r] = @ + IF kind[r] = "stream" THEN 0 ELSE Cardinality(Missed(r))]
    /\ partial' = [partial EXCEPT ![r] = kind[r] # "stream"]
    /\ Goto(r, "cancel")
    /\ UNCHANGED <<kind, taken, got, verdict, shown, poolVars, late, light, stored, closeVars, unlucky>>

\* _cancel_pending: only a call that no worker has taken is cancelled.
CancelPending(r) ==
    /\ pc[r] = "cancel"
    /\ call' = [call EXCEPT ![r] = [p \in Provider |->
         IF call[r][p] = "queued" THEN "cancelled" ELSE call[r][p]]]
    /\ Goto(r, "sink")
    /\ UNCHANGED <<kind, taken, got, failed, partial, verdict, shown, out, line, cut, late,
                   light, stored, closeVars, unlucky>>

\* Fault: a request in which a provider failed is reported as complete.
SomeResult(r) == IF got[r] = {} /\ failed[r] = Cardinality(Asked(r)) THEN "failed" ELSE "complete"

\* The status of run.
Status(r) ==
    IF got[r] = {} /\ failed[r] = Cardinality(Asked(r)) THEN "failed"
    ELSE IF partial[r] \/ failed[r] > 0 THEN "partial"
    ELSE "complete"

\* Fault: the sink skips what a stream has already finalized for its caller.
Unshown(r) == got[r] \ shown[r]

\* What the sink is given.
Collected(r) == got[r]

\* Every future was seen, or the request gave up: the sink.  Its errors are
\* swallowed and change nothing about the status.
Sink(r) ==
    /\ pc[r] = "sink" \/ (pc[r] = "wait" /\ taken[r] = Asked(r))
    /\ \/ stored' = stored \cup Collected(r) /\ UNCHANGED unlucky
       \/ "store" \in Faults /\ got[r] # {} /\ unlucky' = unlucky \cup {r} /\ UNCHANGED stored
    /\ verdict' = [verdict EXCEPT ![r] = IF kind[r] = "stream" THEN "streamed" ELSE Status(r)]
    /\ Goto(r, "end")
    /\ UNCHANGED <<kind, taken, got, failed, partial, shown, poolVars, late, light, closeVars>>

\* finally: _set_list_light_mode(providers, False); then run's payloads are
\* finalized for the caller, and the locals and finished futures are gone.
End(r) ==
    /\ pc[r] = "end"
    /\ light' = FALSE
    /\ IF kind[r] \in {"search", "browse"} /\ got[r] # {} THEN Finalized(r, got[r])
                                                      ELSE UNCHANGED <<shown, unlucky>>
    /\ taken' = [taken EXCEPT ![r] = {}] /\ got' = [got EXCEPT ![r] = {}]
    /\ failed' = [failed EXCEPT ![r] = 0] /\ partial' = [partial EXCEPT ![r] = FALSE]
    /\ call' = [call EXCEPT ![r] = [p \in Provider |->
         IF p \in Finished(r) THEN None ELSE call[r][p]]]
    /\ out' = [out EXCEPT ![r] = [p \in Provider |-> {}]]
    /\ cut' = {c \in cut : c[1] # r}
    /\ Goto(r, "done")
    /\ UNCHANGED <<kind, verdict, line, late, stored, closeVars>>

-----------------------------------------------------------------------------
(* close() *)

\* self._pipeline = None; its executor is not its own.
Close ==
    /\ shut = "no" /\ open' = FALSE
    /\ shut' = "background"
    /\ UNCHANGED <<requestVars, poolVars, late, light, stored, background, unlucky>>

\* Fault: shutdown does not wait.
Whatever(l) == TRUE

\* executor.shutdown(wait=True): what was queued still runs, and is waited for.
Drained(l) == line[l] = <<>> /\ Busy(l) = {}

\* The background executor refuses new calls and is waited for ...
CloseBackground ==
    /\ shut = "background"
    /\ IF background = "open" THEN background' = "shut" /\ UNCHANGED shut
       ELSE /\ background = None \/ Drained("background")
            /\ background' = None /\ shut' = "main"
    /\ UNCHANGED <<requestVars, poolVars, late, light, stored, open, unlucky>>

\* ... then the main one.
CloseMain ==
    /\ shut = "main" /\ Drained("main")
    /\ shut' = "closed"
    /\ UNCHANGED <<requestVars, poolVars, late, light, stored, open, background, unlucky>>

-----------------------------------------------------------------------------
RequestStep(r) ==
    \/ Lighten(r) \/ Submit(r) \/ (\E p \in Provider : Take(r, p))
    \/ GiveUp(r) \/ CancelPending(r) \/ Sink(r) \/ End(r)

Next ==
    \/ \E r \in Request :
         \/ \E k \in Kinds : Ask(r, k)
         \/ AskSchedule(r) \/ RequestStep(r) \/ Deadline(r) \/ Pull(r) \/ Abandon(r)
         \/ \E p \in Provider : Answer(r, p)
    \/ \E l \in Lane : Pick(l)
    \/ Close \/ CloseBackground \/ CloseMain

Spec == Init /\ [][Next]_vars

\* Request threads are scheduled and time passes.  Nothing is assumed of the
\* providers, of the workers they hold up, or of a stream's consumer.
FairSpec ==
    /\ Spec
    /\ \A r \in Request : WF_vars(RequestStep(r)) /\ WF_vars(Deadline(r))

-----------------------------------------------------------------------------
(* Properties. *)

\* What a provider has for a request.
Whole(r, p) == {Offer[p][i] : i \in Kept(Offer[p], PerProvider(r))}

\* The status of a request is true although calls finish, fail and are given up
\* at the same time.  "complete" says that every call returned, none failed, and
\* what they returned is in the result: all that the provider has, except from a
\* call that met the deadline, which returns as if it were whole with what it
\* has by then, or without having asked at all.  No provider is counted as
\* failed and heard as well.
Delivered(r) == {p \in taken[r] : call[r][p] = "done"}
StatusTruthful ==
    \A r \in Request :
        /\ failed[r] + Cardinality(Delivered(r)) <= Cardinality(Asked(r))
        /\ verdict[r] = "complete" /\ pc[r] = "end" =>
             \A p \in Asked(r) :
               /\ call[r][p] = "done" /\ out[r][p] \subseteq got[r]
               /\ Whole(r, p) \subseteq got[r] \/ <<r, p>> \in cut

\* "The persistence sink is still invoked at the very end with the full
\* deduplicated set": what a finished request has shown is in the catalogue,
\* unless the database failed it or its consumer went away before the end.
ShownIsStored ==
    \A r \in Request \ unlucky :
        pc[r] = "done" /\ verdict[r] # "left" => shown[r] \subseteq stored

\* When close() has returned, no interactive call is queued or being made.
ClosedIsQuiet ==
    shut = "closed" =>
        \A r \in Request \ Schedule, p \in Provider : call[r][p] \notin {"queued", "called"}

\* A request returns though a provider never answers: no wait lasts for ever
\* (each request is made once).
Answered == []<>(\A r \in Request : pc[r] # "wait")

=============================================================================
