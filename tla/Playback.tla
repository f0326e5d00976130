------------------------------ MODULE Playback ------------------------------
(***************************************************************************)
(* On-demand HLS playback: application/playback (PlaybackService,          *)
(* SegmentResolver, playlist, resume) over adapters/media's                *)
(* FFmpegTranscoderAdapter, as used by concurrent request threads.         *)
(*                                                                         *)
(* A section under the service's lock, one under the transcoder's lock and *)
(* one look at a session's directory are each a single step.  Time is      *)
(* abstract: a wait may time out at any moment, a session may expire at    *)
(* any moment, and last_seen_at is the order in which sessions were seen.  *)
(* A segment file is its index; an ffmpeg process is the index it started  *)
(* at and the next index it will write.                                    *)
(***************************************************************************)
EXTENDS Integers, FiniteSets

CONSTANTS
    Session,    \* session ids (uuid4: each is created at most once)
    Thread,     \* request threads
    Lock,       \* restart-lock objects
    MaxActive,  \* max_active_sessions
    Total,      \* segments of an episode
    Durations,  \* total_segments a session may have: 0 (unknown) or Total
    Margin,     \* PREFETCH_MARGIN
    Window,     \* segments past the newest file that count as in flight
    MaxJump,    \* MAX_FORWARD_JUMP_SEGMENTS
    Lookahead,  \* EVENT_MANIFEST_LOOKAHEAD
    Ops         \* the operations the threads of this instance use; "expire" lets
                \* sessions expire

AllOps == {"create", "resolve", "manifest", "heartbeat", "stop", "cleanup", "expire"}

ASSUME MaxActiveAssumption == MaxActive \in Nat \ {0}
ASSUME TotalAssumption == Total \in Nat \ {0} /\ Durations \subseteq {0, Total}
ASSUME ContractAssumption ==
    /\ Margin \in Nat /\ Window \in Nat /\ MaxJump \in Nat /\ Lookahead \in Nat
    /\ Margin <= MaxJump /\ Lookahead <= MaxJump
ASSUME OpsAssumption == Ops \subseteq AllOps

None == "none"
ASSUME NoneAssumption == None \notin Session \cup Lock

VARIABLES
    (* FFmpegTranscoderAdapter and the session directories *)
    active,     \* the sessions of _active
    start,      \* start_segment_index of a session's process; NoProcess if none runs
    encoded,    \* the next index it will write
    dying,      \* the next index of a process a thread has taken from _active
                \* and not terminated yet
    files,      \* segment files of a session's directory
    (* PlaybackService *)
    sessions,   \* the sessions of _sessions
    created,    \* session ids drawn so far
    gone,       \* sessions stopped or cleaned up (history)
    expired,    \* sessions whose expires_at has passed
    older,      \* pairs of sessions, the first with the smaller last_seen_at
    total, anchor, begin, playhead, \* fields of a PlaybackSessionDTO
    lock,       \* _restart_locks
    (* the request threads *)
    pc, op, sid, seg,
    latest,     \* the thread's latest (or the playhead it has read)
    mine,       \* the restart lock it uses
    stale,      \* sessions it still has to tear down
    cur         \* the one it is tearing down

diskVars == <<active, start, encoded, dying, files>>
dtoVars == <<total, anchor, begin, playhead>>
serviceVars == <<sessions, created, gone, expired, older, lock>>
localVars == <<op, sid, seg, latest, mine, stale, cur>>
threadVars == <<pc, localVars>>
vars == <<diskVars, dtoVars, serviceVars, threadVars>>

Index == 0..(Total - 1)
NoProcess == -1

\* Sessions of _active whose process runs.
alive == {s \in Session : start[s] # NoProcess}

PcState == {"idle", "tearPop", "tearKill", "tearRm", "crtStart", "crtWait",
            "crtReg", "resGet", "look", "latest", "probe", "ensure", "noteStart",
            "await", "gate", "lockGet", "lockAcq", "relook", "seen", "seenSet",
            "final"}

TypeOK ==
    /\ alive \subseteq active /\ active \subseteq created
    /\ start \in [Session -> Index \cup {NoProcess}]
    /\ encoded \in [Session -> 0..Total \cup {NoProcess}]
    /\ dying \in [Thread -> 0..Total \cup {NoProcess}]
    /\ files \in [Session -> SUBSET Index]
    /\ sessions \subseteq created /\ created \subseteq Session /\ gone \subseteq created
    /\ expired \subseteq Session /\ older \subseteq Session \X Session
    /\ total \in [Session -> {0, Total}]
    /\ anchor \in [Session -> Index] /\ begin \in [Session -> Index]
    /\ playhead \in [Session -> Index]
    /\ lock \in [Session -> Lock \cup {None}]
    /\ pc \in [Thread -> PcState]
    /\ op \in [Thread -> AllOps \cup {None}]
    /\ sid \in [Thread -> Session \cup {None}]
    /\ seg \in [Thread -> 0..Total]
    /\ latest \in [Thread -> -1..(Total - 1)]
    /\ mine \in [Thread -> Lock \cup {None}]
    /\ stale \in [Thread -> SUBSET Session] /\ cur \in [Thread -> Session \cup {None}]

Init ==
    /\ active = {} /\ dying = [t \in Thread |-> NoProcess]
    /\ start = [s \in Session |-> NoProcess] /\ encoded = [s \in Session |-> NoProcess]
    /\ files = [s \in Session |-> {}]
    /\ sessions = {} /\ created = {} /\ gone = {} /\ expired = {} /\ older = {}
    /\ total = [s \in Session |-> 0] /\ anchor = [s \in Session |-> 0]
    /\ begin = [s \in Session |-> 0] /\ playhead = [s \in Session |-> 0]
    /\ lock = [s \in Session |-> None]
    /\ pc = [t \in Thread |-> "idle"] /\ op = [t \in Thread |-> None]
    /\ sid = [t \in Thread |-> None] /\ seg = [t \in Thread |-> 0]
    /\ latest = [t \in Thread |-> -1] /\ mine = [t \in Thread |-> None]
    /\ stale = [t \in Thread |-> {}] /\ cur = [t \in Thread |-> None]

Larger(m, n) == IF m >= n THEN m ELSE n
Smaller(m, n) == IF m <= n THEN m ELSE n

-----------------------------------------------------------------------------
(* resume.py and playlist.py *)

\* anchor_segment
AnchorSegment(r) == Larger(0, r - Margin)

\* latest_existing_segment
LatestExisting(s) ==
    IF files[s] = {} THEN -1
    ELSE CHOOSE i \in files[s] : \A j \in files[s] : j <= i

\* Fault: the whole episode is advertised while it is being encoded.
WholeEpisode(s) == Total - 1

\* event_manifest_end_index, and render_manifest's complete playlist
ManifestEnd(s) ==
    LET newest == LatestExisting(s) IN
    IF newest >= Total - 1 THEN Total - 1
    ELSE IF newest < 0 THEN Smaller(Total - 1, anchor[s] + Lookahead)
    ELSE Smaller(Total - 1, Larger(newest, anchor[s]) + Margin)

\* The segments render_manifest lists.
Advertised(s) == anchor[s]..ManifestEnd(s)

-----------------------------------------------------------------------------
(* ffmpeg_transcoder.py, under the transcoder's lock *)

\* _reap_finished_locked
Reaped == active \cap alive

\* SessionReusePolicy: source, audio and segment length are the session's own.
AllowsReuse(s, k) == s \in Reaped /\ start[s] = k

\* The key of _evict_oldest_locked: no session object ranks first, then the
\* one seen longest ago; started_at decides the rest.
LeastActive(v, candidates) ==
    \A u \in candidates \ {v} : v \notin sessions \/ (u \in sessions /\ <<v, u>> \in older)

\* Fault: a full transcoder evicts nobody.
NoEviction(s) == {Reaped \ {s}}

\* What is left of _active after the teardown of s and the eviction loop
\* (which takes one victim at most: _active never exceeds the cap).
Room(s) ==
    LET kept == Reaped \ {s} IN
    IF Cardinality(kept) < MaxActive THEN {kept}
    ELSE {kept \ {v} : v \in {w \in kept : LeastActive(w, kept)}}

\* purge_segments: a restart further back invalidates what was written.
Purged(s, k) == IF s \in Reaped /\ k < start[s] THEN {} ELSE files[s]

\* The processes of all sessions but those of S are terminated.
Terminated(f, S) == [s \in Session |-> IF s \in S THEN f[s] ELSE NoProcess]

\* ensure_hls_session: reuse the process, or replace it ...
EnsureDone(s, k) ==
    \/ /\ AllowsReuse(s, k)
       /\ active' = Reaped
       /\ UNCHANGED <<start, encoded, files>>
    \/ /\ ~AllowsReuse(s, k)
       /\ \E room \in Room(s) :
            /\ active' = room \cup {s}
            /\ start' = [Terminated(start, room) EXCEPT ![s] = k]
            /\ encoded' = [Terminated(encoded, room) EXCEPT ![s] = k]
       /\ files' = [files EXCEPT ![s] = Purged(s, k)]

\* ... or fail: the tools are missing, or the new process does not start,
\* after the old one and the victim are gone.
EnsureFails(s, k) ==
    \/ UNCHANGED <<active, start, encoded, files>>
    \/ /\ ~AllowsReuse(s, k)
       /\ \E room \in Room(s) :
            /\ active' = room
            /\ start' = Terminated(start, room) /\ encoded' = Terminated(encoded, room)
       /\ files' = [files EXCEPT ![s] = Purged(s, k)]

\* is_hls_session_running
Probe == active' = Reaped /\ UNCHANGED <<start, encoded, dying, files>>

-----------------------------------------------------------------------------
(* Threads. *)

Goto(t, where) == pc' = [pc EXCEPT ![t] = where]
Move(t, where) == Goto(t, where) /\ UNCHANGED localVars

\* The same, when `latest' has had its last use.
Forget(t, where) ==
    /\ Goto(t, where)
    /\ latest' = [latest EXCEPT ![t] = -1]
    /\ UNCHANGED <<op, sid, seg, mine, stale, cur>>

\* The end of a call, by return or by exception; `with lock' releases.
Return(t) ==
    /\ Goto(t, "idle")
    /\ op' = [op EXCEPT ![t] = None] /\ sid' = [sid EXCEPT ![t] = None]
    /\ seg' = [seg EXCEPT ![t] = 0] /\ latest' = [latest EXCEPT ![t] = -1]
    /\ mine' = [mine EXCEPT ![t] = None] /\ cur' = [cur EXCEPT ![t] = None]
    /\ UNCHANGED stale

\* The restart lock t waits for is not held.
LockFree(t) ==
    \A u \in Thread \ {t} :
        ~(sid[u] = sid[t] /\ mine[u] = mine[t] /\ pc[u] # "lockAcq")

\* last_seen_at = now
Touched(s) == {p \in older : p[1] # s} \cup ((created \ {s}) \X {s})
Unlocked(S) == [s \in Session |-> IF s \in S THEN None ELSE lock[s]]

-----------------------------------------------------------------------------
(* cleanup_stale_sessions, with which create_session and resolve_media_path *)
(* begin, and stop_session; both end in _teardown                          *)

\* Where a call goes on after its teardowns.
AfterTeardown(o) == IF o = "create" THEN "crtStart" ELSE "resGet"

\* A call, and its first section under the service's lock: sessions leave
\* _sessions together with their restart locks.
Call(t, o, s, i, popped, unlocked) ==
    /\ pc[t] = "idle" /\ o \in Ops
    /\ sessions' = sessions \ popped
    /\ gone' = gone \cup popped
    /\ lock' = Unlocked(unlocked)
    /\ stale' = [stale EXCEPT ![t] = popped]
    /\ op' = [op EXCEPT ![t] = o]
    /\ sid' = [sid EXCEPT ![t] = s] /\ seg' = [seg EXCEPT ![t] = i]
    /\ Goto(t, IF popped = {} THEN AfterTeardown(o) ELSE "tearPop")
    /\ UNCHANGED <<latest, mine, cur, diskVars, dtoVars, created, expired, older>>

\* A call that begins with, or is, cleanup_stale_sessions
CallSweep(t, o, s, i) == Call(t, o, s, i, sessions \cap expired, sessions \cap expired)

\* The segment to resume at; 0 for a fresh start.
CallCreate(t) == \E r \in Index : created # Session /\ CallSweep(t, "create", None, r)
\* A request for a session that is not known is a cleanup and no more.
CallResolve(t) == \E s \in sessions, i \in 0..Total : CallSweep(t, "resolve", s, i)
CallManifest(t) == \E s \in sessions : CallSweep(t, "manifest", s, 0)
CallCleanup(t) ==
    \/ sessions \cap expired # {} /\ CallSweep(t, "cleanup", None, 0)
    \/ sessions \cap expired = {} /\ pc[t] = "idle" /\ "cleanup" \in Ops /\ UNCHANGED vars
CallStop(t) == \E s \in sessions : Call(t, "stop", s, 0, {s}, {s})

\* stop_session of a session that is gone: only a lock that a late request
\* has put back leaves _restart_locks.
StopUnknown(t) ==
    /\ pc[t] = "idle" /\ "stop" \in Ops
    /\ \E s \in created \ sessions : lock' = Unlocked({s})
    /\ UNCHANGED <<diskVars, dtoVars, threadVars, sessions, created, gone, expired, older>>

\* stop_hls_session takes the process out under the lock ...
TearPop(t) ==
    /\ pc[t] = "tearPop"
    /\ \E s \in stale[t] :
         /\ active' = active \ {s}
         /\ start' = [start EXCEPT ![s] = NoProcess]
         /\ encoded' = [encoded EXCEPT ![s] = NoProcess]
         /\ dying' = [dying EXCEPT ![t] = encoded[s]]
         /\ stale' = [stale EXCEPT ![t] = @ \ {s}]
         /\ cur' = [cur EXCEPT ![t] = s]
    /\ Goto(t, "tearKill")
    /\ UNCHANGED <<files, op, sid, seg, latest, mine, dtoVars, serviceVars>>

\* On to the next one, or to the rest of the call.
TornDown(t) ==
    IF stale[t] = {} /\ op[t] \in {"stop", "cleanup"} THEN Return(t)
    ELSE /\ Goto(t, IF stale[t] = {} THEN AfterTeardown(op[t]) ELSE "tearPop")
         /\ cur' = [cur EXCEPT ![t] = None]
         /\ UNCHANGED <<op, sid, seg, latest, mine, stale>>

\* ... and terminates it without.
TearKill(t) ==
    /\ pc[t] = "tearKill"
    /\ dying' = [dying EXCEPT ![t] = NoProcess]
    /\ IF op[t] = "stop" THEN TornDown(t) ELSE Move(t, "tearRm")
    /\ UNCHANGED <<active, start, encoded, files, dtoVars, serviceVars>>

\* shutil.rmtree(session.output_dir), unless the session was stopped
TearRm(t) ==
    /\ pc[t] = "tearRm"
    /\ files' = [files EXCEPT ![cur[t]] = {}]
    /\ TornDown(t)
    /\ UNCHANGED <<active, start, encoded, dying, dtoVars, serviceVars>>

-----------------------------------------------------------------------------
(* create_session *)

\* A missing file, an incomplete one or an impossible resume is refused.
CreateRefused(t) ==
    /\ pc[t] = "crtStart"
    /\ Return(t)
    /\ UNCHANGED <<diskVars, dtoVars, serviceVars>>

\* A new id; its encode starts at the anchor.  Without a known duration
\* there is nothing to resume.
CreateStart(t) ==
    /\ pc[t] = "crtStart"
    /\ \E s \in Session \ created, n \in Durations :
         /\ n = 0 => seg[t] = 0
         /\ created' = created \cup {s}
         /\ older' = older \cup (created \X {s})
         /\ total' = [total EXCEPT ![s] = n]
         /\ anchor' = [anchor EXCEPT ![s] = AnchorSegment(seg[t])]
         /\ begin' = [begin EXCEPT ![s] = AnchorSegment(seg[t])]
         /\ playhead' = [playhead EXCEPT ![s] = seg[t]]
         /\ \/ /\ EnsureDone(s, AnchorSegment(seg[t]))
               /\ sid' = [sid EXCEPT ![t] = s] /\ Goto(t, "crtWait")
               /\ UNCHANGED <<op, seg, latest, mine, stale, cur>>
            \/ EnsureFails(s, AnchorSegment(seg[t])) /\ Return(t)
    /\ UNCHANGED <<dying, sessions, gone, expired, lock>>

\* What create_session waits for: the segment to play first,
\* or ffmpeg's own playlist, which follows its first segment.
Ready(s, r) == IF total[s] = 0 THEN files[s] # {} ELSE r \in files[s]

\* Fault: any segment of the encode is enough.
CreateEarly(t) ==
    /\ pc[t] = "crtWait" /\ files[sid[t]] # {}
    /\ Move(t, "crtReg")
    /\ UNCHANGED <<diskVars, dtoVars, serviceVars>>

CreateReady(t) ==
    /\ pc[t] = "crtWait" /\ Ready(sid[t], seg[t])
    /\ Move(t, "crtReg")
    /\ UNCHANGED <<diskVars, dtoVars, serviceVars>>

\* The process died or the wait timed out: an exception.  The wait for a
\* segment polls is_running, the one for ffmpeg's playlist the process itself.
CreateFails(t) ==
    /\ pc[t] = "crtWait" /\ ~Ready(sid[t], seg[t])
    /\ Return(t)
    /\ active' = IF total[sid[t]] # 0 THEN Reaped ELSE active \ ({sid[t]} \ alive)
    /\ UNCHANGED <<start, encoded, dying, files, dtoVars, serviceVars>>

\* The session and its restart lock enter the service; its last_seen_at is
\* the time at which create_session began.
CreateRegister(t) ==
    /\ pc[t] = "crtReg"
    /\ sessions' = sessions \cup {sid[t]}
    /\ \E l \in Lock : lock' = [lock EXCEPT ![sid[t]] = l]
    /\ Return(t)
    /\ UNCHANGED <<diskVars, dtoVars, created, gone, expired, older>>

-----------------------------------------------------------------------------
(* heartbeat: one section under the service's lock *)

\* The position is optional; the playhead never goes back here.
Heartbeat(t) ==
    /\ pc[t] = "idle" /\ "heartbeat" \in Ops
    /\ \E s \in sessions :
         /\ expired' = expired \ {s}
         /\ older' = Touched(s)
         /\ \E i \in Index :
              playhead' = [playhead EXCEPT ![s] = IF total[s] = 0 THEN @ ELSE Larger(@, i)]
    /\ UNCHANGED <<diskVars, threadVars, sessions, created, gone, lock, total, anchor,
                   begin>>

-----------------------------------------------------------------------------
(* resolve_media_path for a segment, and SegmentResolver.ensure_segment *)

Stay(t, where) == Move(t, where) /\ UNCHANGED <<diskVars, dtoVars, serviceVars>>
Leave(t) == Return(t) /\ UNCHANGED <<diskVars, dtoVars, serviceVars>>

\* An unknown session or a token that is not valid any more is refused; the
\* session object is used from here on, whoever removes it.
ResolveGet(t) ==
    /\ pc[t] = "resGet"
    /\ \/ Leave(t)
       \/ /\ sid[t] \in sessions
          /\ Stay(t, IF op[t] = "resolve" THEN "look" ELSE "final")

\* Fault: no segment is before the anchor.
NeverBefore(t) == FALSE

\* segment_index < session.hls_anchor_segment
BeforeAnchor(t) == seg[t] < anchor[sid[t]]

SegmentLook(t) ==
    /\ pc[t] = "look"
    /\ IF seg[t] \in files[sid[t]] THEN Stay(t, "seen")
       ELSE IF total[sid[t]] = 0 THEN Stay(t, "await")
       ELSE IF seg[t] >= total[sid[t]] \/ BeforeAnchor(t) THEN Leave(t)
       ELSE Stay(t, "latest")

\* Segments that the encode is about to write are waited for.
SegmentLatest(t) ==
    LET newest == LatestExisting(sid[t]) IN
    /\ pc[t] = "latest"
    /\ latest' = [latest EXCEPT ![t] = newest]
    /\ Goto(t, IF seg[t] <= newest + Window THEN "probe" ELSE "gate")
    /\ UNCHANGED <<op, sid, seg, mine, stale, cur, diskVars, dtoVars, serviceVars>>

\* is_running, then a restart outside the restart lock
SegmentProbe(t) ==
    /\ pc[t] = "probe"
    /\ Probe
    /\ Move(t, IF sid[t] \in Reaped THEN "await" ELSE "ensure")
    /\ UNCHANGED <<dtoVars, serviceVars>>

\* _restart_at: a failure is logged ...
Restart(t) ==
    /\ pc[t] = "ensure"
    /\ \/ EnsureDone(sid[t], seg[t]) /\ Move(t, "noteStart")
       \/ EnsureFails(sid[t], seg[t]) /\ Move(t, "await")
    /\ UNCHANGED <<dying, dtoVars, serviceVars>>

\* ... a success noted on the session, if it is still there.
RestartNote(t) ==
    LET s == sid[t] IN
    /\ pc[t] = "noteStart"
    /\ IF s \in sessions
         THEN /\ begin' = [begin EXCEPT ![s] = seg[t]]
              /\ playhead' = [playhead EXCEPT ![s] = Larger(@, seg[t])]
         ELSE UNCHANGED <<begin, playhead>>
    /\ Move(t, "await")
    /\ UNCHANGED <<diskVars, serviceVars, total, anchor>>

\* Fault: a timeout under the restart lock tries again.
AwaitForever(t) ==
    /\ pc[t] = "await"
    /\ IF total[sid[t]] = 0 THEN Stay(t, "final")
       ELSE Stay(t, IF seg[t] \in files[sid[t]] THEN "seen" ELSE "gate")

\* wait_for_file: the segment, or a timeout.  Past the lock that is an error;
\* before it, the gate is next; without a duration, the final look is.
Await(t) ==
    /\ pc[t] = "await"
    /\ IF total[sid[t]] = 0 THEN Stay(t, "final")
       ELSE IF seg[t] \in files[sid[t]] THEN Stay(t, "seen")
       ELSE IF mine[t] # None THEN Leave(t)
       ELSE Stay(t, "gate")

\* is_speculative_far_request, for a process that runs
EncodeHead(s, newest) == Larger(newest, playhead[s])
FarRequest(s, i, newest) ==
    /\ begin[s] <= EncodeHead(s, newest) + Margin
    /\ i > EncodeHead(s, newest) + MaxJump

\* Before the restart lock and again under it.
Gate(t) ==
    /\ pc[t] = "gate"
    /\ Probe
    /\ IF sid[t] \in Reaped /\ FarRequest(sid[t], seg[t], latest[t]) THEN Return(t)
       ELSE IF mine[t] = None THEN Move(t, "lockGet")
       ELSE Forget(t, "ensure")
    /\ UNCHANGED <<dtoVars, serviceVars>>

\* Fault: every request makes a lock of its own.
OwnLock(s) == {l \in Lock : l # lock[s] /\ \A u \in Thread : sid[u] = s => mine[u] # l}

\* _restart_lock: the session's lock, or a new object that nobody uses.
LockOf(s) ==
    IF lock[s] # None THEN {lock[s]}
    ELSE {l \in Lock : \A u \in Thread : sid[u] = s => mine[u] # l}

LockGet(t) ==
    /\ pc[t] = "lockGet"
    /\ \E l \in LockOf(sid[t]) :
         /\ lock' = [lock EXCEPT ![sid[t]] = l]
         /\ mine' = [mine EXCEPT ![t] = l]
    /\ Goto(t, "lockAcq")
    /\ UNCHANGED <<op, sid, seg, latest, stale, cur, diskVars, dtoVars, sessions,
                   created, gone, expired, older>>

LockAcquire(t) == pc[t] = "lockAcq" /\ LockFree(t) /\ Stay(t, "relook")

\* The file may have come while the thread waited for the lock.
SegmentRelook(t) ==
    /\ pc[t] = "relook"
    /\ Stay(t, IF seg[t] \in files[sid[t]] THEN "seen" ELSE "gate")

\* note_playhead_segment reads and writes without the service's lock.
SeenRead(t) ==
    /\ pc[t] = "seen"
    /\ latest' = [latest EXCEPT ![t] = playhead[sid[t]]]
    /\ Goto(t, "seenSet")
    /\ UNCHANGED <<op, sid, seg, mine, stale, cur, diskVars, dtoVars, serviceVars>>

\* Leaving ensure_segment releases the restart lock.
SeenWrite(t) ==
    /\ pc[t] = "seenSet"
    /\ playhead' = [playhead EXCEPT ![sid[t]] = Larger(latest[t], seg[t])]
    /\ mine' = [mine EXCEPT ![t] = None]
    /\ latest' = [latest EXCEPT ![t] = -1]
    /\ Goto(t, "final")
    /\ UNCHANGED <<op, sid, seg, stale, cur, diskVars, serviceVars, total, anchor, begin>>

\* The artifact must still be there; a session that is still there was seen now.
Final(t) ==
    /\ pc[t] = "final"
    /\ older' = IF sid[t] \in sessions /\ (op[t] = "manifest" \/ seg[t] \in files[sid[t]])
                THEN Touched(sid[t]) ELSE older
    /\ Return(t)
    /\ UNCHANGED <<diskVars, dtoVars, sessions, created, gone, expired, lock>>

-----------------------------------------------------------------------------
(* Time and ffmpeg. *)

Expire(s) ==
    /\ s \in sessions \ expired /\ "expire" \in Ops
    /\ expired' = expired \cup {s}
    /\ UNCHANGED <<diskVars, dtoVars, threadVars, sessions, created, gone, older, lock>>

\* The next segment is written ...
Encode(s) ==
    /\ s \in alive /\ encoded[s] < Total
    /\ files' = [files EXCEPT ![s] = @ \cup {encoded[s]}]
    /\ encoded' = [encoded EXCEPT ![s] = @ + 1]
    /\ UNCHANGED <<active, start, dying, dtoVars, serviceVars, threadVars>>

\* ... also by a process that is about to be terminated ...
EncodeOn(t) ==
    /\ dying[t] # NoProcess /\ dying[t] < Total
    /\ files' = [files EXCEPT ![cur[t]] = @ \cup {dying[t]}]
    /\ dying' = [dying EXCEPT ![t] = @ + 1]
    /\ UNCHANGED <<active, start, encoded, dtoVars, serviceVars, threadVars>>

\* ... and the process ends, after the last one or because it crashed.
Exit(s) ==
    /\ s \in alive
    /\ start' = [start EXCEPT ![s] = NoProcess]
    /\ encoded' = [encoded EXCEPT ![s] = NoProcess]
    /\ UNCHANGED <<active, dying, files, dtoVars, serviceVars, threadVars>>

CallSomething(t) ==
    \/ CallCreate(t) \/ CallResolve(t) \/ CallManifest(t) \/ CallStop(t) \/ StopUnknown(t)
    \/ CallCleanup(t) \/ Heartbeat(t)

ThreadStep(t) ==
    \/ TearPop(t) \/ TearKill(t) \/ TearRm(t)
    \/ CreateRefused(t) \/ CreateStart(t) \/ CreateReady(t) \/ CreateFails(t)
    \/ CreateRegister(t)
    \/ ResolveGet(t) \/ SegmentLook(t) \/ SegmentLatest(t) \/ SegmentProbe(t)
    \/ Restart(t) \/ RestartNote(t) \/ Await(t) \/ Gate(t)
    \/ LockGet(t) \/ LockAcquire(t) \/ SegmentRelook(t) \/ SeenRead(t) \/ SeenWrite(t)
    \/ Final(t)

Next ==
    \/ \E t \in Thread : CallSomething(t) \/ ThreadStep(t) \/ EncodeOn(t)
    \/ \E s \in Session : Expire(s) \/ Encode(s) \/ Exit(s)

Spec == Init /\ [][Next]_vars

\* Every request thread that can take a step does: each wait has a timeout.
FairSpec == Spec /\ \A t \in Thread : WF_vars(ThreadStep(t))

-----------------------------------------------------------------------------
(* What makes playback correct. *)

\* "concurrent session cap": _active never holds more than
\* max_active_sessions processes, whatever is created, restarted or evicted.
CapRespected == Cardinality(active) <= MaxActive

\* "Segments before hls_anchor_segment are never generated for a resume
\* session": no encode, first or restarted, begins or writes before the
\* anchor, so the playlist, which starts there, loses nothing.
Anchored ==
    \A s \in created :
        /\ \A i \in files[s] : i >= anchor[s]
        /\ s \in alive => start[s] >= anchor[s]

\* What the playlist advertises, the resolver does not refuse: no segment of
\* the manifest as it is rendered now is before the anchor, past the end or
\* "too far ahead of the playhead".
AdvertisedServable ==
    \A s \in sessions : total[s] # 0 =>
        \A i \in Advertised(s) : i \in Index /\ ~FarRequest(s, i, LatestExisting(s))

\* "/play must not return until the resume playhead segment exists": the
\* session that is about to be registered has its first segment on disk.
PlayReady ==
    \A t \in Thread : pc[t] = "crtReg" => Ready(sid[t], seg[t])

\* While a session lives, its seek-on-demand restarts under the restart lock
\* exclude each other, although stop and cleanup discard the lock object.  The
\* restart of the prefetch path (segment_resolver.py 95-97) takes no lock and
\* may coincide with one of them.
RestartSerialized ==
    \A t, u \in Thread :
        /\ t # u /\ sid[t] = sid[u] /\ sid[t] \in sessions
        /\ mine[t] # None /\ pc[t] # "lockAcq"
        => mine[u] = None \/ pc[u] = "lockAcq"

\* A restart lock that is held is released again.
LockReleased ==
    \A t \in Thread : mine[t] # None /\ pc[t] # "lockAcq" ~> mine[t] = None

-----------------------------------------------------------------------------
(* What a doc says and the code does not do. *)

\* "FFmpeg process and temp files are cleaned up": when every request is
\* over, a session that was stopped or cleaned up has no process.  Broken by a
\* request that got hold of the session before stop_session removed it and
\* restarts its encode afterwards.
StoppedHasNoProcess ==
    (\A t \in Thread : pc[t] = "idle") => gone \cap alive = {}
=============================================================================
