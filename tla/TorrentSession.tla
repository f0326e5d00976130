--------------------------- MODULE TorrentSession ---------------------------
(***************************************************************************)
(* adapters/torrent/libtorrent.py: the LibTorrent session, its handles     *)
(* table, its alert thread and its resume files, across crashes and        *)
(* restarts, with the callers that change it: downloads, deletions,        *)
(* reconciliation and overview polls of download_manager.py, the restore   *)
(* of the session, and close().  With site.remote the session lives in     *)
(* clients/torrent_daemon/app.py behind adapters/torrent/libtorrent_remote.*)
(*                                                                         *)
(* One call of the libtorrent library, one database statement, one file    *)
(* operation and one section under _resume_lock are each a single step.    *)
(* The library is external: add_torrent and remove_torrent take effect at  *)
(* once and post an alert; save_resume_data is answered later by an alert. *)
(* What fails is logged and swallowed where the code does so, and the call *)
(* goes on with what it has.                                               *)
(***************************************************************************)
EXTENDS Integers, Sequences, FiniteSets

CONSTANTS
    Hash,       \* canonical infohashes
    Caller,     \* threads that call the adapter
    Stray,      \* hashes with a resume file of an earlier database, no row
    Sites,      \* deployments: is the session in the daemon, and for which
                \* hashes does the save path carry an anime id
    Ops,        \* what the callers of this instance do
    Faults,     \* "write": a resume file cannot be written; "save": libtorrent
                \* cannot serialize; "deadline": close() runs out of time; "db": a
                \* database call fails; "add": add_torrent raises
    MaxAlerts,  \* bound: no call starts while more alerts wait
    MaxSaves,   \* bound: no call or periodic save starts while more are pending
    Steady      \* bound: once two calls about a torrent overlapped or one failed,
                \* no call, periodic save or restore turns to it, and while two
                \* overlapped close() does not begin

AllOps == {"download", "delete", "move", "reconcile", "complete"}
None == "none"

ASSUME TorrentConstants ==
    /\ IsFiniteSet(Hash) /\ IsFiniteSet(Caller) /\ Stray \subseteq Hash
    /\ Sites \subseteq [remote: BOOLEAN, foldered: SUBSET Hash]
    /\ Ops \subseteq AllOps
    /\ Faults \subseteq {"write", "save", "deadline", "db", "add"}
    /\ MaxAlerts \in Nat /\ MaxSaves \in Nat /\ Steady \in BOOLEAN
    /\ None \notin Hash

VARIABLES
    site,       \* the deployment, fixed
    (* what survives a crash *)
    row,        \* torrents and its index: absent, NULL status, complete, deleted
    resume,     \* the hashes that have a .resume file
    payload,    \* the save path: missing, an empty folder, partial, full
    (* the process *)
    phase,      \* down, ready, then close(): saving, stopping, draining, drained
    session,    \* torrents of lt.session
    handles,    \* keys of self.handles
    alerts,     \* posted by the library, not yet processed
    saving,     \* save_resume_data calls the library has not answered
    pending,    \* _pending_resume_saves
    restored,   \* _restored
    rst,        \* the thread inside _run_session_restore
    cpc, req,   \* the callers
    seen,       \* the status in the list that a reconciliation goes through
    (* history, for the properties; of this process *)
    raced,      \* two calls about the hash, or a call and close(), overlapped
    hurried,    \* a call began while an alert about the hash was waiting
    failed      \* the database or the library failed a call about the hash

diskVars == <<row, resume, payload>>
libVars == <<session, alerts, saving>>
callVars == <<cpc, req, seen>>
history == <<raced, hurried, failed>>
vars == <<site, diskVars, phase, libVars, handles, pending, restored, rst, callVars, history>>

Alert == [kind: {"added", "removed", "saved", "failed"}, hash: Hash]
SaveAlert == {"saved", "failed"}
Phase == {"down", "ready", "saving", "stopping", "draining", "drained"}
Status == {"absent", "null", "complete", "deleted"}
CallerState == {"idle", "save", "add", "register", "count", "mark", "remove",
                "pop", "unlink", "move", "look", "write", "list", "weigh", "settle",
                "decide", "condemn"}

TypeOK ==
    /\ site \in Sites
    /\ row \in [Hash -> Status]
    /\ payload \in [Hash -> {"missing", "folder", "partial", "full"}]
    /\ resume \subseteq Hash /\ session \subseteq Hash /\ handles \subseteq Hash
    /\ phase \in Phase
    /\ alerts \in Seq(Alert)
    /\ saving \in [Hash -> Nat] /\ pending \in Nat
    /\ restored \in BOOLEAN
    /\ rst \in [pc: {"idle", "files", "addFile", "rows", "addRow"},
                todo: SUBSET Hash, cur: Hash \cup {None}]
    /\ cpc \in [Caller -> CallerState] /\ req \in [Caller -> Hash \cup {None}]
    /\ seen \in [Caller -> Status \cup {None}]
    /\ raced \subseteq Hash /\ hurried \subseteq Hash /\ failed \subseteq Hash

NoRestore == [pc |-> "idle", todo |-> {}, cur |-> None]

\* The volatile state of a process that is not running.
Gone ==
    /\ phase' = "down" /\ session' = {} /\ handles' = {} /\ alerts' = <<>>
    /\ saving' = [h \in Hash |-> 0] /\ pending' = 0 /\ restored' = FALSE
    /\ rst' = NoRestore
    /\ cpc' = [c \in Caller |-> "idle"] /\ req' = [c \in Caller |-> None]
    /\ seen' = [c \in Caller |-> None]
    /\ raced' = {} /\ hurried' = {} /\ failed' = {}

Init ==
    /\ row = [h \in Hash |-> "absent"]
    /\ site \in Sites
    /\ resume \in SUBSET Stray
    /\ payload = [h \in Hash |-> IF h \in resume THEN "partial" ELSE "missing"]
    /\ phase = "down" /\ session = {} /\ handles = {} /\ alerts = <<>>
    /\ saving = [h \in Hash |-> 0] /\ pending = 0 /\ restored = FALSE
    /\ rst = NoRestore
    /\ cpc = [c \in Caller |-> "idle"] /\ req = [c \in Caller |-> None]
    /\ seen = [c \in Caller |-> None]
    /\ raced = {} /\ hurried = {} /\ failed = {}

-----------------------------------------------------------------------------
(* The library (external). *)

Note(kind, h) == [kind |-> kind, hash |-> h]

\* session.add_torrent: a torrent already there is returned as it is.
LibAdd(h) ==
    /\ session' = session \cup {h}
    /\ alerts' = IF h \in session THEN alerts ELSE Append(alerts, Note("added", h))
    /\ UNCHANGED saving

\* session.remove_torrent: its unanswered saves fail.
LibRemove(h) ==
    /\ session' = session \ {h}
    /\ alerts' = Append(alerts \o [i \in 1..saving[h] |-> Note("failed", h)],
                        Note("removed", h))
    /\ saving' = [saving EXCEPT ![h] = 0]

\* A save_resume_data call is answered.
LibSaved(h) ==
    /\ saving[h] > 0
    /\ saving' = [saving EXCEPT ![h] = @ - 1]
    /\ \E kind \in {"saved"} \cup (IF "save" \in Faults THEN {"failed"} ELSE {}) :
         alerts' = Append(alerts, Note(kind, h))
    /\ UNCHANGED <<site, diskVars, phase, session, handles, pending, restored, rst,
                   callVars, history>>

\* Pieces arrive for a torrent of the session.
LibDownload(h) ==
    /\ h \in session
    /\ payload' = [payload EXCEPT ![h] =
         CASE @ \in {"missing", "folder"} -> "partial" [] OTHER -> "full"]
    /\ UNCHANGED <<site, row, resume, phase, libVars, handles, pending, restored, rst,
                   callVars, history>>

\* handle.save_resume_data() on the handles that are valid.
RequestSaves(hs) == saving' = [h \in Hash |-> saving[h] + IF h \in hs THEN 1 ELSE 0]

\* Saves asked for and not yet processed by the alert handler.
Asked == UNION {{h} \X (1..saving[h]) : h \in Hash}
Answered == {i \in DOMAIN alerts : alerts[i].kind \in SaveAlert}
Outstanding == Cardinality(Asked) + Cardinality(Answered)

-----------------------------------------------------------------------------
(* The alert handler, run by _session_thread and by _drain_resume_saves. *)

\* _atomic_write_bytes: os.replace, else remove and rename; when the rename
\* fails after the remove, the old file is gone as well.
WriteResume(h) ==
    {resume \cup {h}} \cup (IF "write" \in Faults THEN {resume, resume \ {h}} ELSE {})

\* Fault: a failed save is not counted down (nor any other below zero).
CountDownTwice == IF pending > 1 THEN pending - 2 ELSE 0

\* if self._pending_resume_saves > 0: self._pending_resume_saves -= 1
CountDown == IF pending > 0 THEN pending - 1 ELSE 0

\* Fault: torrent_removed_alert is not handled.
KeepRemoved(a) == IF a.kind = "added" THEN handles \cup {a.hash} ELSE handles

\* torrent_added_alert and torrent_removed_alert
HandlesAfter(a) ==
    CASE a.kind = "added" -> handles \cup {a.hash}
      [] a.kind = "removed" -> handles \ {a.hash}
      [] OTHER -> handles

\* _process_alert on the oldest alert.
ProcessAlert ==
    /\ alerts # <<>> /\ phase \in {"ready", "saving", "stopping", "draining"}
    /\ LET a == Head(alerts) IN
         /\ handles' = HandlesAfter(a)
         /\ IF a.kind = "saved" THEN resume' \in WriteResume(a.hash)
                                ELSE UNCHANGED resume
         /\ pending' = IF a.kind \in SaveAlert THEN CountDown ELSE pending
    /\ alerts' = Tail(alerts)
    /\ UNCHANGED <<site, row, payload, phase, session, saving, restored, rst, callVars,
                   history>>

\* The bound Steady.
Usable(h) == Steady => h \notin raced \cup failed

\* _running: the session is there and its alert thread is not yet told to stop.
Connected == phase \in {"ready", "saving"}

\* _maybe_periodic_save, on the alert thread: one handle at a time.
PeriodicSave(h) ==
    /\ Connected /\ h \in handles \cap session
    /\ Outstanding < MaxSaves /\ pending <= MaxSaves /\ Usable(h)
    /\ RequestSaves({h})
    /\ pending' = pending + 1
    /\ UNCHANGED <<site, diskVars, phase, session, alerts, handles, restored, rst,
                   callVars, history>>

-----------------------------------------------------------------------------
(* Start and restore. *)

\* connect, and the callbacks of DownloadAdapter with their first purge, which
\* keeps the files whose status cannot be read.  The daemon has no callbacks: its
\* own restore then skips every resume file.
Start ==
    /\ phase = "down"
    /\ phase' = "ready"
    /\ restored' = site.remote
    /\ \E kept \in IF "db" \in Faults THEN SUBSET resume ELSE {{}} :
         resume' = {h \in resume : row[h] # "deleted"} \cup kept
    /\ UNCHANGED <<site, row, payload, libVars, handles, pending, rst, callVars, history>>

\* Fault: only finished torrents are listed.
CompleteRows == {h \in Hash : row[h] = "complete"}

\* list_torrents_for_restore
RestoreRows == {h \in Hash : row[h] \in {"null", "complete"}}

\* ensure_restored: the startup job, or any overview poll before it.
BeginRestore ==
    /\ Connected /\ rst.pc = "idle" /\ ~restored /\ \A h \in Hash : Usable(h)
    /\ rst' = [NoRestore EXCEPT !.pc = "files", !.todo = resume]
    /\ raced' = IF phase = "saving" THEN Hash ELSE raced
    /\ UNCHANGED <<site, diskVars, phase, libVars, handles, pending, restored, callVars,
                   hurried, failed>>

\* What the restore callback lists; a failing database leaves the list empty.
Listings == {RestoreRows} \cup (IF "db" \in Faults THEN {{}} ELSE {})
Listing(rows) == rst' = [NoRestore EXCEPT !.pc = "rows", !.todo = rows]

\* The remote adapter has neither is_restored nor _restored: every poll reads
\* the rows and posts them to the daemon.
BeginRemoteRestore ==
    /\ site.remote /\ Connected /\ rst.pc = "idle" /\ \A h \in Hash : Usable(h)
    /\ \E rows \in Listings : Listing(rows)
    /\ raced' = IF phase = "saving" THEN Hash ELSE raced
    /\ UNCHANGED <<site, diskVars, phase, libVars, handles, pending, restored, callVars,
                   hurried, failed>>

\* A caller or the restore is busy with the torrent; an alert about it waits.
Handled(h) == (\E c \in Caller : req[c] = h) \/ rst.cur = h
Awaited(h) == \E i \in DOMAIN alerts : alerts[i].hash = h /\ alerts[i].kind \notin SaveAlert

\* Recorded when a call, or the restore, turns to a torrent.
Witness(h) ==
    /\ raced' = IF Handled(h) \/ phase = "saving" THEN raced \cup {h} ELSE raced
    /\ hurried' = IF Awaited(h) THEN hurried \cup {h} ELSE hurried

\* Recorded when a call about a torrent met a failure.
Failing(h) == failed' = failed \cup {h}

\* Each of these callbacks may fail, and then says that there is nothing.
Lookups == SUBSET (IF "db" \in Faults THEN {"status", "index", "ensure"} ELSE {})

\* Fault: a resume file without an anime is loaded.
AnyFile(h, lost) == TRUE

\* _resolve_association: indexed, or the folder names the anime.
Associated(h, lost) == (row[h] # "absent" /\ "index" \notin lost) \/ h \in site.foldered

\* The restore turns to a torrent of its list, to add it in state pc, or passes it by.
Restoring(h, adds, pc) ==
    rst' = [rst EXCEPT !.todo = @ \ {h}, !.pc = IF adds THEN pc ELSE @,
                       !.cur = IF adds THEN h ELSE @]

\* _restore_from_resume_files, up to the decision to add the torrent: a status
\* that cannot be read is taken for none, and an index that cannot be written
\* for one that was.  The folder's anime is indexed.
RestoreFile(h) ==
    /\ rst.pc = "files" /\ h \in rst.todo
    /\ \E lost \in Lookups :
         LET deleted == row[h] = "deleted" /\ "status" \notin lost
             adopt == h \in resume /\ ~deleted /\ Associated(h, lost)
             index == adopt /\ row[h] = "absent" /\ h \in site.foldered /\ "ensure" \notin lost
         IN
         /\ Restoring(h, adopt, "addFile")
         /\ resume' = IF deleted THEN resume \ {h} ELSE resume
         /\ row' = IF index THEN [row EXCEPT ![h] = "null"] ELSE row
         /\ IF lost = {} THEN UNCHANGED failed ELSE Failing(h)
    /\ Witness(h)
    /\ UNCHANGED <<site, payload, phase, libVars, handles, pending, restored, callVars>>

\* The fallback asks for the rows once the files are done.
RestoreList ==
    /\ rst.pc = "files" /\ rst.todo = {}
    /\ \E rows \in Listings : Listing(rows) /\ failed' = failed \cup (RestoreRows \ rows)
    /\ UNCHANGED <<site, diskVars, phase, libVars, handles, pending, restored, callVars,
                   raced, hurried>>

\* _restore_from_database_fallback; without the status callback (the daemon)
\* a deleted row is not recognised, nor is it when the callback fails.
RestoreRow(h) ==
    /\ rst.pc = "rows" /\ h \in rst.todo
    /\ \E known \in IF site.remote THEN {FALSE} ELSE {TRUE, "db" \notin Faults} :
         /\ Restoring(h, /\ h \notin handles /\ payload[h] # "missing"
                         /\ ~(row[h] = "deleted" /\ known), "addRow")
         /\ IF known \/ site.remote THEN UNCHANGED failed ELSE Failing(h)
    /\ Witness(h)
    /\ UNCHANGED <<site, diskVars, phase, libVars, handles, pending, restored, callVars>>

\* session.add_torrent and the handles entry, for a file or for a row; if the
\* library refuses, the torrent is left out.
RestoreAdd ==
    /\ rst.pc \in {"addFile", "addRow"}
    /\ \/ LibAdd(rst.cur) /\ handles' = handles \cup {rst.cur} /\ UNCHANGED failed
       \/ "add" \in Faults /\ Failing(rst.cur) /\ UNCHANGED <<libVars, handles>>
    /\ rst' = [rst EXCEPT !.pc = IF @ = "addFile" THEN "files" ELSE "rows", !.cur = None]
    /\ UNCHANGED <<site, diskVars, phase, pending, restored, callVars, raced, hurried>>

\* _restored is set whatever failed before.
RestoreEnd ==
    /\ rst.pc = "rows" /\ rst.todo = {}
    /\ rst' = NoRestore
    /\ restored' = TRUE
    /\ UNCHANGED <<site, diskVars, phase, libVars, handles, pending, callVars, history>>

-----------------------------------------------------------------------------
(* The callers. *)

Goto(c, pc) == cpc' = [cpc EXCEPT ![c] = pc] /\ UNCHANGED req
Return(c) == cpc' = [cpc EXCEPT ![c] = "idle"] /\ req' = [req EXCEPT ![c] = None]

FirstStep(op) == CASE op = "download" -> "save" [] op = "delete" -> "mark"
                   [] op = "move" -> "move" [] op = "complete" -> "look"
                   [] op = "reconcile" -> "list"

\* A thread starts to download, delete, move, reconcile or poll a torrent.
Call(c, op, h) ==
    /\ Connected /\ cpc[c] = "idle" /\ op \in Ops
    /\ Len(alerts) <= MaxAlerts /\ pending <= MaxSaves /\ Usable(h)
    /\ cpc' = [cpc EXCEPT ![c] = FirstStep(op)]
    /\ req' = [req EXCEPT ![c] = h]
    /\ Witness(h)
    /\ UNCHANGED <<site, diskVars, phase, libVars, handles, pending, restored, rst, seen, failed>>

\* Clears "deleted" when the download is asked for, ...
Cleared(status) == IF status = "deleted" THEN "null" ELSE status
\* ... indexes the torrent when it is started.
Indexed(status) == IF status = "absent" THEN "null" ELSE status

\* The download manager does both before it calls the client.  The first is
\* only logged when it fails; the second ends the task, as its cancellation does.
SaveRow(c) ==
    LET h == req[c] IN
    /\ cpc[c] = "save"
    /\ \/ row' = [row EXCEPT ![h] = Indexed(Cleared(@))] /\ Goto(c, "add") /\ UNCHANGED failed
       \/ /\ "db" \in Faults /\ Failing(h)
          /\ \/ row' = [row EXCEPT ![h] = Indexed(@)] /\ Goto(c, "add")
             \/ row' = [row EXCEPT ![h] = Cleared(@)] /\ Return(c)
    /\ UNCHANGED <<site, resume, payload, phase, libVars, handles, pending, restored, rst, seen,
                   raced, hurried>>

\* add: a known handle is the answer; otherwise add_torrent, whose failure ends
\* the task and leaves the row.
Add(c) ==
    LET h == req[c] IN
    /\ cpc[c] = "add"
    /\ IF ~Connected \/ h \in handles
         THEN Return(c) /\ UNCHANGED <<payload, libVars, failed>>
         ELSE /\ payload' = [payload EXCEPT ![h] = IF @ = "missing" THEN "folder" ELSE @]
              /\ \/ LibAdd(h) /\ Goto(c, "register") /\ UNCHANGED failed
                 \/ "add" \in Faults /\ Failing(h) /\ Return(c) /\ UNCHANGED libVars
    /\ UNCHANGED <<site, row, resume, phase, handles, pending, restored, rst, seen,
                   raced, hurried>>

\* add, after add_torrent: unless the alert thread was faster, register the
\* handle and ask for its resume data (which an invalid handle refuses).
Register(c) ==
    LET h == req[c] IN
    /\ cpc[c] = "register"
    /\ IF h \in handles
         THEN Return(c) /\ UNCHANGED <<handles, saving>>
         ELSE /\ handles' = handles \cup {h}
              /\ RequestSaves({h} \cap session)
              /\ IF h \in session THEN Goto(c, "count") ELSE Return(c)
    /\ UNCHANGED <<site, diskVars, phase, session, alerts, pending, restored, rst, seen, history>>

\* The request is counted after it was made.
Count(c) ==
    /\ cpc[c] = "count"
    /\ pending' = pending + 1
    /\ Return(c)
    /\ UNCHANGED <<site, diskVars, phase, libVars, handles, restored, rst, seen, history>>

\* move: move_storage, then a save counted like that of add.
Move(c) ==
    LET h == req[c] IN
    /\ cpc[c] = "move"
    /\ IF Connected /\ h \in handles \cap session
         THEN RequestSaves({h}) /\ Goto(c, "count")
         ELSE Return(c) /\ UNCHANGED saving
    /\ UNCHANGED <<site, diskVars, phase, session, alerts, handles, pending, restored, rst, seen,
                   history>>

\* The manager marks the row, and calls the client whether or not that worked.
MarkDeleted(c) ==
    LET h == req[c] IN
    /\ cpc[c] \in {"mark", "condemn"}
    /\ \/ row' = [row EXCEPT ![h] = IF @ = "absent" THEN @ ELSE "deleted"] /\ UNCHANGED failed
       \/ "db" \in Faults /\ Failing(h) /\ UNCHANGED row
    /\ Goto(c, "remove")
    /\ UNCHANGED <<site, resume, payload, phase, libVars, handles, pending, restored, rst, seen,
                   raced, hurried>>

\* delete: remove_torrent raises on a handle that is no longer valid.
RemoveTorrent(c) ==
    LET h == req[c] IN
    /\ cpc[c] = "remove"
    /\ \/ ~Connected /\ Return(c) /\ UNCHANGED libVars
       \/ Connected /\ h \notin handles /\ Goto(c, "unlink") /\ UNCHANGED libVars
       \/ Connected /\ h \in handles \ session /\ Return(c) /\ UNCHANGED libVars
       \/ Connected /\ h \in handles \cap session /\ LibRemove(h) /\ Goto(c, "pop")
    /\ UNCHANGED <<site, diskVars, phase, handles, pending, restored, rst, seen, history>>

Pop(c) ==
    /\ cpc[c] = "pop"
    /\ handles' = handles \ {req[c]}
    /\ Goto(c, "unlink")
    /\ UNCHANGED <<site, diskVars, phase, libVars, pending, restored, rst, seen, history>>

\* delete, at last: the resume file.
Unlink(c) ==
    /\ cpc[c] = "unlink"
    /\ resume' = resume \ {req[c]}
    /\ Return(c)
    /\ UNCHANGED <<site, row, payload, phase, libVars, handles, pending, restored, rst, seen,
                   history>>

\* _lookup_live_torrent and _is_live_complete
Live(h) == h \in handles \cap session
LiveComplete(h) == Live(h) /\ payload[h] = "full"

\* reconcile_deleted_torrents lists the rows ...
Reconcile(c) ==
    /\ cpc[c] = "list"
    /\ IF row[req[c]] = "absent" THEN Return(c)
         ELSE Goto(c, "weigh") \/ ("db" \in Faults /\ Return(c))
    /\ seen' = [seen EXCEPT ![c] = row[req[c]]]
    /\ UNCHANGED <<site, diskVars, phase, libVars, handles, pending, restored, rst, history>>

\* ... and asks the client about each of them, when the row may have changed: a
\* seeding torrent counts as complete, a deleted one is removed, an active first
\* download is left alone.
Weigh(c) ==
    LET h == req[c] IN
    /\ cpc[c] = "weigh"
    /\ CASE LiveComplete(h) -> Goto(c, "settle")
         [] ~LiveComplete(h) /\ seen[c] = "deleted" -> Goto(c, "remove")
         [] ~LiveComplete(h) /\ seen[c] = "null" /\ Live(h) -> Return(c)
         [] OTHER -> Goto(c, "decide")
    /\ UNCHANGED <<site, diskVars, phase, libVars, handles, pending, restored, rst, seen, history>>

\* The seeding torrent is written as complete whatever the row says.
Settle(c) ==
    /\ cpc[c] = "settle"
    /\ \/ row' = [row EXCEPT ![req[c]] = IF @ = "absent" THEN @ ELSE "complete"]
       \/ "db" \in Faults /\ UNCHANGED row
    /\ Goto(c, "decide")
    /\ UNCHANGED <<site, resume, payload, phase, libVars, handles, pending, restored, rst, seen,
                   history>>

\* should_reconcile_torrent looks at the folder last: for a torrent named after
\* an episode, an absent payload condemns everything else.
Decide(c) ==
    /\ cpc[c] = "decide"
    /\ IF payload[req[c]] \in {"missing", "folder"} THEN Goto(c, "condemn") ELSE Return(c)
    /\ UNCHANGED <<site, diskVars, phase, libVars, handles, pending, restored, rst, seen, history>>

\* _maybe_mark_torrent_complete reads the status, and takes it for none when it
\* cannot ...
LookComplete(c) ==
    LET h == req[c] IN
    /\ cpc[c] = "look"
    /\ \/ /\ IF LiveComplete(h) /\ row[h] = "null" THEN Goto(c, "write") ELSE Return(c)
          /\ UNCHANGED failed
       \/ "db" \in Faults /\ LiveComplete(h) /\ Failing(h) /\ Goto(c, "write")
    /\ UNCHANGED <<site, diskVars, phase, libVars, handles, pending, restored, rst, seen,
                   raced, hurried>>

\* ... and writes "complete" in another call.
WriteComplete(c) ==
    /\ cpc[c] = "write"
    /\ \/ row' = [row EXCEPT ![req[c]] = IF @ = "absent" THEN @ ELSE "complete"]
       \/ "db" \in Faults /\ UNCHANGED row
    /\ Return(c)
    /\ UNCHANGED <<site, resume, payload, phase, libVars, handles, pending, restored, rst, seen,
                   history>>

-----------------------------------------------------------------------------
(* close(), crashes, and the files while nothing runs. *)

\* Torrents that a call, or an unfinished restore, may still touch.
InProgress == {h \in Hash : Handled(h) \/ rst.pc # "idle"}

\* close: a save for every valid handle, counted under the same lock.
Close ==
    LET valid == handles \cap session IN
    /\ phase = "ready" /\ (Steady => raced = {})
    /\ phase' = "saving"
    /\ RequestSaves(valid)
    /\ pending' = pending + Cardinality(valid)
    /\ raced' = raced \cup InProgress
    /\ UNCHANGED <<site, diskVars, session, alerts, handles, restored, rst, callVars,
                   hurried, failed>>

\* _running = False: no call is accepted any more.
CloseStop ==
    /\ phase = "saving"
    /\ phase' = "stopping"
    /\ UNCHANGED <<site, diskVars, libVars, handles, pending, restored, rst, callVars, history>>

\* The alert thread has ended; _drain_resume_saves asks again when the counter
\* says that nothing is pending.
Drain ==
    LET valid == IF pending = 0 THEN handles \cap session ELSE {} IN
    /\ phase = "stopping"
    /\ phase' = "draining"
    /\ RequestSaves(valid)
    /\ pending' = pending + Cardinality(valid)
    /\ UNCHANGED <<site, diskVars, session, alerts, handles, restored, rst, callVars, history>>

\* Fault: the drain stops as soon as no alert is waiting.
DrainUntilQuiet ==
    /\ phase = "draining" /\ alerts = <<>>
    /\ phase' = "drained"
    /\ UNCHANGED <<site, diskVars, libVars, handles, pending, restored, rst, callVars, history>>

\* The drain ends when the counter is zero ...
Drained ==
    /\ phase = "draining" /\ pending = 0
    /\ phase' = "drained"
    /\ UNCHANGED <<site, diskVars, libVars, handles, pending, restored, rst, callVars, history>>

\* ... or at its deadline; then the session is dropped.
CloseDone ==
    /\ phase = "drained" \/ (phase = "draining" /\ "deadline" \in Faults)
    /\ Gone
    /\ UNCHANGED <<site, diskVars>>

Crash == phase # "down" /\ Gone /\ UNCHANGED <<site, diskVars>>

\* Someone removes the folder while the program is not running.
LoseFolder(h) ==
    /\ phase = "down" /\ payload[h] # "missing"
    /\ payload' = [payload EXCEPT ![h] = "missing"]
    /\ UNCHANGED <<site, row, resume, phase, libVars, handles, pending, restored, rst,
                   callVars, history>>

-----------------------------------------------------------------------------
Library == \E h \in Hash : LibSaved(h) \/ LibDownload(h) \/ LoseFolder(h)
AlertThread == ProcessAlert \/ \E h \in Hash : PeriodicSave(h)
Restore == \/ BeginRestore \/ BeginRemoteRestore \/ RestoreList \/ RestoreAdd \/ RestoreEnd
           \/ \E h \in Hash : RestoreFile(h) \/ RestoreRow(h)
CallerStep(c) ==
    \/ \E op \in AllOps, h \in Hash : Call(c, op, h)
    \/ SaveRow(c) \/ Add(c) \/ Register(c) \/ Count(c) \/ Move(c)
    \/ MarkDeleted(c) \/ RemoveTorrent(c) \/ Pop(c) \/ Unlink(c)
    \/ Reconcile(c) \/ Weigh(c) \/ Settle(c) \/ Decide(c) \/ LookComplete(c) \/ WriteComplete(c)
Shutdown == Close \/ CloseStop \/ Drain \/ Drained \/ CloseDone \/ Crash

Next == Start \/ Library \/ AlertThread \/ Restore \/ Shutdown \/ \E c \in Caller : CallerStep(c)

Spec == Init /\ [][Next]_vars

-----------------------------------------------------------------------------
(* Properties. *)

\* No call, restore or waiting alert concerns the hash.
Quiet(h) == ~Handled(h) /\ ~Awaited(h)

\* Once its alerts are processed, a torrent is in the handles table exactly
\* when it is in the session, although caller threads and the alert thread
\* both write the table and disagree in between (libtorrent.py 742-750, 955,
\* 1072): only two overlapping calls about the same torrent can part them.
HandlesSettled ==
    phase = "ready" => \A h \in Hash \ raced : Quiet(h) => (h \in handles <=> h \in session)

\* The client never runs a torrent the database has deleted or does not know,
\* whatever resume files crashes and late alerts left behind (libtorrent.py
\* 123-125, 608-635), unless in this process a database call about it failed:
\* every such failure is swallowed, and its effect ends with the process.
NeverResurrects ==
    phase = "ready" /\ ~site.remote =>
      \A h \in session \ (raced \cup hurried \cup failed) :
        Quiet(h) => row[h] \in {"null", "complete"}

\* A restored session runs every torrent the database wants and whose folder
\* exists, also when the crash came between the add and its first resume save
\* or the resume file was lost (libtorrent.py 639-678); but a list, a lookup or
\* an add that failed is not made up for before the next start.
Durable ==
    phase = "ready" /\ restored /\ ~site.remote =>
      \A h \in Hash \ (raced \cup hurried \cup failed) :
        Quiet(h) /\ row[h] \in {"null", "complete"} /\ payload[h] # "missing" => h \in session

\* _pending_resume_saves may be too high but never too low: what is
\* outstanding is counted, or about to be counted by the thread that asked.
PendingCovers ==
    phase # "down" => Outstanding <= pending + Cardinality({c \in Caller : cpc[c] = "count"})

\* A close() that no call and no restore overlaps, and that ends by its counter
\* rather than its deadline, has written the resume file of every torrent it
\* drops (libtorrent.py 1284-1329).
CloseFlushes ==
    phase = "drained" /\ raced = {} => handles \cap session \subseteq resume \cup hurried
=============================================================================
