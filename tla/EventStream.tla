---------------------------- MODULE EventStream ----------------------------
(***************************************************************************)
(* How the end of one scan reaches the people who watch it: the events the *)
(* worker and cancel_scan publish after their commits (core/events.py,     *)
(* workers/context.py), the capped history in Redis, the WebSocket of      *)
(* main.py and the browser hook useScanStream.ts.                          *)
(*                                                                         *)
(* The scan itself is ScanLifecycle's, reduced to its status: one chain of *)
(* tasks and one cancel request write it.                                  *)
(***************************************************************************)
EXTENDS Naturals, FiniteSets, Sequences, FiniteSetsExt

CONSTANTS
    Viewers,      \* browsers
    Modules,      \* number of modules in the pipeline
    HistoryMax,   \* HISTORY_MAX_EVENTS
    Replays,      \* values of the query parameter `replay'
    MaxTroubles   \* bound on lost workers, lost publications and crashes

ASSUME StreamConstants ==
    /\ Modules \in Nat \ {0} /\ HistoryMax \in Nat \ {0}
    /\ Replays \subseteq Nat /\ MaxTroubles \in Nat

VARIABLES
    status,     \* scans.status
    chain,      \* the task of the scan that is waiting or running
    cancel,     \* the cancel_scan request
    log,        \* every event published so far
    kept,       \* how many of them, the last ones, the history list holds
    viewer,     \* the WebSocket connections
    troubles,   \* troubles so far
    silent,     \* history: an announcement of the end was lost
    rewritten   \* history: a final status was overwritten

streamVars == <<status, chain, cancel, log, kept, viewer, troubles, silent, rewritten>>
-----------------------------------------------------------------------------
Final == {"completed", "failed", "cancelled"}
ScanStatus == {"queued", "running"} \cup Final

\* Events: a status event always says "running"; a log line shows no status.
Running    == [type |-> "status", status |-> "running"]
Line       == [type |-> "log", status |-> "running"]
Ended(st)  == [type |-> "end", status |-> st]
Event      == {Running, Line} \cup {Ended(st) : st \in Final}

Trouble   == troubles < MaxTroubles /\ troubles' = troubles + 1
NoTrouble == UNCHANGED troubles

\* Mistake: the list is never trimmed.
KeptUntrimmed(n) == n + 1

Kept(n) == IF n < HistoryMax THEN n + 1 ELSE HistoryMax

\* PUBLISH, RPUSH and LTRIM in one MULTI/EXEC; an error of Redis is swallowed.
Publish(e) ==
    \/ /\ log' = Append(log, e) /\ kept' = Kept(kept)
       /\ NoTrouble /\ UNCHANGED silent
    \/ /\ Trouble
       /\ silent' = (silent \/ e.type = "end")
       /\ UNCHANGED <<log, kept>>

\* Write `new' over what was loaded as `old': a column that does not change is
\* left out of the UPDATE.
WriteStatus(old, new) ==
    /\ status' = IF old = new THEN status ELSE new
    /\ rewritten' = (rewritten \/ (status \in Final /\ status' # status))

\* The chain: run_pipeline (head, headLoaded, headMarked), the modules (module n)
\* and the callback.   `is' is the status loaded, later the one to announce; a
\* task that raised is "failed", and nothing comes after it.
HeadPCs  == {"head", "headLoaded", "headMarked"}
ClosePCs == {"closing", "closeLoaded", "summing", "ending"}
ChainRecord == [pc: HeadPCs \cup ClosePCs \cup {"module", "over", "failed"}, n: 0 .. Modules,
                is: ScanStatus, revoked: BOOLEAN]
ChainAt(pc) == chain.pc = pc
NobodyLeft == chain.pc \in {"over", "failed"} /\ cancel = "idle"

\* Connections.   `snap' is the status read before the socket was accepted,
\* `next' the first event the subscription has not delivered yet, `from' where
\* it began; `seen' and `shown' are what the browser got and displays.
ViewerPCs == {"out", "snapped", "subscribed", "replayed", "streaming", "closed"}
NoViewer == [pc |-> "out", snap |-> "queued", replay |-> 0, from |-> 0, next |-> 0,
             seen |-> {}, shown |-> "queued", ended |-> FALSE]
ViewerAt(v, pc) == viewer[v].pc = pc
ViewerMoves(v, next) == viewer' = [viewer EXCEPT ![v] = next]
Connected(v) == viewer[v].pc \notin {"out", "closed"}

StreamTypeOK ==
    /\ status \in ScanStatus
    /\ chain \in ChainRecord
    /\ cancel \in {"idle", "loaded", "committed"}
    /\ log \in Seq(Event)
    /\ kept \in 0 .. HistoryMax
    /\ viewer \in [Viewers -> [pc: ViewerPCs, snap: ScanStatus, replay: Nat, from: Nat,
                               next: Nat, seen: SUBSET Nat, shown: ScanStatus, ended: BOOLEAN]]
    /\ troubles \in Nat
    /\ silent \in BOOLEAN /\ rewritten \in BOOLEAN

StreamInit ==
    /\ status = "queued"
    /\ chain = [pc |-> "head", n |-> 0, is |-> "queued", revoked |-> FALSE]
    /\ cancel = "idle"
    /\ log = <<>> /\ kept = 0
    /\ viewer = [v \in Viewers |-> NoViewer]
    /\ troubles = 0
    /\ silent = FALSE /\ rewritten = FALSE
-----------------------------------------------------------------------------
(* The worker.                                                              *)

HeadLoad ==
    /\ ChainAt("head")
    /\ chain' = IF status = "cancelled" THEN [chain EXCEPT !.pc = "over"]
                ELSE [chain EXCEPT !.pc = "headLoaded", !.is = status]
    /\ UNCHANGED <<status, cancel, log, kept, viewer, troubles, silent, rewritten>>

HeadMark ==
    /\ ChainAt("headLoaded")
    /\ WriteStatus(chain.is, "running")
    /\ chain' = [chain EXCEPT !.pc = "headMarked", !.is = "queued"]
    /\ UNCHANGED <<cancel, log, kept, viewer, troubles, silent>>

\* emit_status, and the chain; the log lines around them are left out.
HeadDispatch ==
    /\ ChainAt("headMarked")
    /\ Publish(Running)
    /\ chain' = [chain EXCEPT !.pc = "module", !.n = 1]
    /\ UNCHANGED <<status, cancel, viewer, rewritten>>

\* set_stage publishes "running" whatever the row says; a cancelled scan makes
\* the module return early, and the chain goes on.
ModuleRuns ==
    /\ ChainAt("module")
    /\ Publish(Running)
    /\ \/ chain.n < Modules /\ chain' = [chain EXCEPT !.n = @ + 1]
       \/ chain.n = Modules /\ chain' = [chain EXCEPT !.pc = "closing"]
    /\ UNCHANGED <<status, cancel, viewer, rewritten>>

\* Its worker is lost after the publication, and the module is executed again.
ModuleAgain ==
    /\ ChainAt("module") /\ Trouble
    /\ log' = Append(log, Running) /\ kept' = Kept(kept)
    /\ UNCHANGED <<status, chain, cancel, viewer, silent, rewritten>>

\* A task raises: run_pipeline has no callback, and fail_scan, linked to the
\* modules, is not entered.  The callback may raise before it has committed; the
\* end is then lost if an earlier execution of it has closed the row.
TaskFails ==
    /\ \/ chain.pc \in {"headMarked", "module"} /\ Publish(Running)
       \/ /\ chain.pc \in {"head", "headLoaded", "closing", "closeLoaded"}
          /\ silent' = (silent \/ (chain.pc \in ClosePCs /\ status \in Final))
          /\ NoTrouble /\ UNCHANGED <<log, kept>>
    /\ chain' = [chain EXCEPT !.pc = "failed"]
    /\ UNCHANGED <<status, cancel, viewer, rewritten>>

CloseLoad ==
    /\ ChainAt("closing")
    /\ chain' = [chain EXCEPT !.pc = "closeLoaded", !.is = status]
    /\ UNCHANGED <<status, cancel, log, kept, viewer, troubles, silent, rewritten>>

Closed(old) == IF old = "cancelled" THEN old ELSE "completed"

\* Mistake: the callback announces its own outcome, also for a cancelled scan.
CloseCommitOutcome ==
    /\ ChainAt("closeLoaded")
    /\ WriteStatus(chain.is, Closed(chain.is))
    /\ chain' = [chain EXCEPT !.pc = "summing", !.is = "completed"]
    /\ UNCHANGED <<cancel, log, kept, viewer, troubles, silent>>

CloseCommit ==
    /\ ChainAt("closeLoaded")
    /\ WriteStatus(chain.is, Closed(chain.is))
    /\ chain' = [chain EXCEPT !.pc = "summing", !.is = Closed(chain.is)]
    /\ UNCHANGED <<cancel, log, kept, viewer, troubles, silent>>

CloseSummary ==
    /\ ChainAt("summing")
    /\ Publish(Line)
    /\ chain' = [chain EXCEPT !.pc = "ending"]
    /\ UNCHANGED <<status, cancel, viewer, rewritten>>

CloseEnd ==
    /\ ChainAt("ending")
    /\ Publish(Ended(chain.is))
    /\ chain' = [chain EXCEPT !.pc = "over"]
    /\ UNCHANGED <<status, cancel, viewer, rewritten>>

\* acks_late: a task whose worker is lost is executed again from its beginning,
\* the callback also when it was lost after its last publication.
WorkerDies ==
    /\ Trouble
    /\ \/ chain.pc \in HeadPCs /\ chain' = [chain EXCEPT !.pc = "head"]
       \/ /\ chain.pc \in ClosePCs \/ (ChainAt("over") /\ chain.n > 0)
          /\ chain' = [chain EXCEPT !.pc = "closing"]
    /\ UNCHANGED <<status, cancel, log, kept, viewer, silent, rewritten>>
-----------------------------------------------------------------------------
(* cancel_scan: load and revoke, commit, publish.                           *)

CancelLoads ==
    /\ cancel = "idle" /\ status \notin Final
    /\ cancel' = "loaded"
    /\ chain' = [chain EXCEPT !.revoked = TRUE]
    /\ UNCHANGED <<status, log, kept, viewer, troubles, silent, rewritten>>

\* A worker drops the revoked head task, or kills it.  The end is left to the
\* cancel, which says nothing more if it has committed and was overwritten.
HeadRevoked ==
    /\ chain.pc \in HeadPCs /\ chain.revoked
    /\ chain' = [chain EXCEPT !.pc = "over"]
    /\ silent' = (silent \/ (status \notin Final /\ cancel # "loaded"))
    /\ UNCHANGED <<status, cancel, log, kept, viewer, troubles, rewritten>>

CancelCommits ==
    /\ cancel = "loaded"
    /\ cancel' = "committed"
    /\ status' = "cancelled"
    /\ rewritten' = (rewritten \/ (status \in Final /\ status # "cancelled"))
    /\ UNCHANGED <<chain, log, kept, viewer, troubles, silent>>

CancelAnnounces ==
    /\ cancel = "committed"
    /\ Publish(Ended("cancelled"))
    /\ cancel' = "idle"
    /\ UNCHANGED <<status, chain, viewer, rewritten>>

ApiDies ==
    /\ cancel # "idle" /\ Trouble
    /\ cancel' = "idle" /\ silent' = TRUE
    /\ UNCHANGED <<status, chain, log, kept, viewer, rewritten>>

\* A day without an event: no task runs for so long.
HistoryExpires ==
    /\ kept > 0
    /\ NobodyLeft
    /\ kept' = 0
    /\ UNCHANGED <<status, chain, cancel, log, viewer, troubles, silent, rewritten>>
-----------------------------------------------------------------------------
(* scan_log_stream, and what the browser makes of each event.               *)

Shown(old, e) == IF e.type = "log" THEN old ELSE e.status

\* What is displayed after the events first .. last of the log.
ShownAfter(old, first, last) ==
    LET telling == {i \in first .. last : log[i].type # "log"} IN
    IF telling = {} THEN old ELSE log[Max(telling)].status

Connect(v, n) ==
    /\ ViewerAt(v, "out")
    /\ ViewerMoves(v, [NoViewer EXCEPT !.pc = "snapped", !.snap = status, !.replay = n,
                                       !.shown = status])
    /\ UNCHANGED <<status, chain, cancel, log, kept, troubles, silent, rewritten>>

Subscribe(v) ==
    /\ ViewerAt(v, "snapped")
    /\ ViewerMoves(v, [viewer[v] EXCEPT !.pc = "subscribed", !.from = Len(log) + 1,
                                        !.next = Len(log) + 1])
    /\ UNCHANGED <<status, chain, cancel, log, kept, troubles, silent, rewritten>>

Shows(v, first, last) ==
    [viewer[v] EXCEPT !.pc = "replayed",
                      !.seen = first .. last,
                      !.shown = ShownAfter(@, first, last),
                      !.ended = \E i \in first .. last : log[i].type = "end"]

Fewer(a, b) == IF a < b THEN a ELSE b

\* Mistake: the history is read before the subscription is made.
ReplayFirst(v) ==
    /\ ViewerAt(v, "subscribed") /\ NoTrouble
    /\ LET last == viewer[v].from - 1
           first == (last + 1) - Fewer(last, Fewer(viewer[v].replay, kept)) IN
       ViewerMoves(v, [Shows(v, first, last) EXCEPT !.next = Len(log) + 1])
    /\ UNCHANGED <<status, chain, cancel, log, kept, silent, rewritten>>

\* The last `replay' entries of the history; none if reading it fails.
Replay(v) ==
    /\ ViewerAt(v, "subscribed")
    /\ \/ /\ NoTrouble
          /\ LET first == (Len(log) + 1) - Fewer(viewer[v].replay, kept) IN
             ViewerMoves(v, Shows(v, first, Len(log)))
       \/ /\ Trouble
          /\ ViewerMoves(v, [viewer[v] EXCEPT !.pc = "replayed"])
    /\ UNCHANGED <<status, chain, cancel, log, kept, silent, rewritten>>

\* Mistake: a scan that had ended when the socket was opened is streamed too.
StreamAlways(v) ==
    /\ ViewerAt(v, "replayed")
    /\ ViewerMoves(v, [viewer[v] EXCEPT !.pc = "streaming"])
    /\ UNCHANGED <<status, chain, cancel, log, kept, troubles, silent, rewritten>>

\* already_finished: say so and close.
StreamOrClose(v) ==
    /\ ViewerAt(v, "replayed")
    /\ ViewerMoves(v, IF viewer[v].snap \in Final
                      THEN [viewer[v] EXCEPT !.pc = "closed", !.shown = viewer[v].snap, !.ended = TRUE]
                      ELSE [viewer[v] EXCEPT !.pc = "streaming"])
    /\ UNCHANGED <<status, chain, cancel, log, kept, troubles, silent, rewritten>>

Forward(v) ==
    LET n == viewer[v].next IN
    /\ ViewerAt(v, "streaming") /\ n <= Len(log)
    /\ ViewerMoves(v, [viewer[v] EXCEPT
          !.pc = IF log[n].type = "end" THEN "closed" ELSE @,
          !.next = n + 1,
          !.seen = @ \cup {n},
          !.shown = Shown(@, log[n]),
          !.ended = @ \/ log[n].type = "end"])
    /\ UNCHANGED <<status, chain, cancel, log, kept, troubles, silent, rewritten>>

\* The browser leaves, or an error of Redis ends the stream.
Disconnect(v) ==
    /\ ~ViewerAt(v, "out")
    /\ ViewerMoves(v, NoViewer)
    /\ UNCHANGED <<status, chain, cancel, log, kept, troubles, silent, rewritten>>
-----------------------------------------------------------------------------
ChainSteps ==
    \/ HeadLoad \/ HeadMark \/ HeadDispatch \/ ModuleRuns
    \/ CloseLoad \/ CloseCommit \/ CloseSummary \/ CloseEnd
CancelSteps == CancelCommits \/ CancelAnnounces
ServerSteps(v) == Subscribe(v) \/ Replay(v) \/ StreamOrClose(v) \/ Forward(v)

StreamNext ==
    \/ ChainSteps \/ TaskFails \/ ModuleAgain \/ WorkerDies \/ HeadRevoked
    \/ CancelLoads \/ CancelSteps \/ ApiDies
    \/ HistoryExpires
    \/ \E v \in Viewers : (\E n \in Replays : Connect(v, n)) \/ ServerSteps(v) \/ Disconnect(v)

\* Workers execute what the broker holds or fail, a handler goes on, and the coroutine of
\* a connection is scheduled.  Nobody has to connect, to leave or to cancel.
StreamFairness ==
    /\ WF_streamVars(ChainSteps) /\ WF_streamVars(CancelSteps)
    /\ \A v \in Viewers : WF_streamVars(ServerSteps(v))

StreamSpec == StreamInit /\ [][StreamNext]_streamVars
StreamFairSpec == StreamSpec /\ StreamFairness
-----------------------------------------------------------------------------
(* Properties.                                                              *)

\* The subscription is made before the history is read: whatever was replayed,
\* every later event is delivered or waits in the subscription.
NothingLostInTheGap ==
    \A v \in Viewers : viewer[v].pc \in {"replayed", "streaming", "closed"} =>
        \A i \in viewer[v].seen : \A j \in i + 1 .. Len(log) :
            j \in viewer[v].seen \/ j >= viewer[v].next

\* A stream that the server closed shows the status the row has, although events
\* come from two processes after their commits, unless a final status was
\* overwritten by a writer that had read the row before.
ClosedShowsTheRow ==
    \A v \in Viewers : ViewerAt(v, "closed") => viewer[v].shown = status \/ rewritten

\* The end was published before the subscription, but the snapshot did not show it
\* yet, and the history did not bring it: replay = 0, trimmed, expired, outnumbered.
Missed(v) ==
    /\ viewer[v].pc \in {"subscribed", "replayed", "streaming"}
    /\ viewer[v].snap \notin Final
    /\ \E i \in 1 .. viewer[v].from - 1 : log[i].type = "end" /\ i \notin viewer[v].seen

\* A task raised and left the row queued or running: the scan has no end to tell.
Stranded == ChainAt("failed") /\ status \notin Final

\* When nobody is left to announce the end of the scan, a connection that has
\* delivered every event has told it, unless the scan was left open by a task that
\* raised, the browser missed the end so, or its announcement was lost: what is
\* true when nothing can happen any more.
NobodyWaitsForNothing ==
    \A v \in Viewers :
        /\ ViewerAt(v, "streaming") /\ viewer[v].next > Len(log)
        /\ NobodyLeft
        => viewer[v].ended \/ Stranded \/ Missed(v) \/ silent

\* Everyone who stays connected is told the end, unless a task raised and the scan
\* has none, they missed it so, or its announcement was lost.
EveryViewerLearns ==
    \A v \in Viewers :
        Connected(v) ~> \/ ~Connected(v) \/ viewer[v].ended
                        \/ Stranded \/ Missed(v) \/ silent
=============================================================================
