--------------------------- MODULE ScanLifecycle ---------------------------
(***************************************************************************)
(* The life of the scan rows of one organisation: the HTTP handlers of     *)
(* routes/scans.py, the Celery tasks of workers/orchestrator.py, the       *)
(* pipeline stages between them, and the broker that carries the tasks.    *)
(*                                                                         *)
(* Handlers and tasks run in separate processes on PostgreSQL at READ      *)
(* COMMITTED.  Each loads a row, decides on what it loaded, and later      *)
(* commits an UPDATE of the columns it changed, so the load and the commit *)
(* are separate steps and every other process may act between them.        *)
(***************************************************************************)
EXTENDS Naturals, FiniteSets, Functions

CONSTANTS
    Scans,        \* ids of scan rows; a primary key is never used twice
    Requests,     \* HTTP handlers that may be in progress at the same time
    Tasks,        \* slots for the messages and running tasks of the broker
    Stages,       \* number of modules in the pipeline
    MaxActive,    \* settings.max_concurrent_scans_per_org
    MayHappen,    \* the kinds of faults a behaviour may contain
    MaxFaults     \* and how many of them

FaultKinds == {"worker", "redelivery", "api", "broker", "ambiguous", "pipeline", "module"}

ASSUME ConstantsOK ==
    /\ IsFiniteSet(Scans) /\ IsFiniteSet(Requests) /\ IsFiniteSet(Tasks)
    /\ Stages \in Nat \ {0}
    /\ MaxActive \in Nat \ {0}
    /\ MayHappen \subseteq FaultKinds
    /\ MaxFaults \in Nat

VARIABLES
    rows,         \* the table scans
    task,         \* Celery messages, waiting or being executed
    req,          \* HTTP handlers in progress
    revoked,      \* scans whose head task was revoked by cancel_scan
    faults,       \* faults so far, by kind
    orphaned      \* history: scans that lost the process responsible for them

vars == <<rows, task, req, revoked, faults, orphaned>>
-----------------------------------------------------------------------------
(* Rows.  "unborn" is an id not used yet, "deleted" a row that is gone.     *)

Active   == {"queued", "running"}
Terminal == {"completed", "failed", "cancelled"}
Status   == {"unborn", "deleted"} \cup Active \cup Terminal

\* current_stage: 0 is NULL, 1 the orchestrator, n + 1 the n-th module.
NoStage == 0
Orchestrator == 1
StageColumn == 0 .. Stages + 1

\* closed: completed_at is set.   dispatched: celery_task_id is set.
Row == [status: Status, stage: StageColumn, closed: BOOLEAN, dispatched: BOOLEAN]

BlankRow(s) == [status |-> s, stage |-> NoStage, closed |-> FALSE, dispatched |-> FALSE]
NoRow == BlankRow("unborn")

Exists(s)   == rows[s].status \in Active \cup Terminal
IsActive(s) == rows[s].status \in Active
ActiveScans == {s \in Scans : IsActive(s)}

\* The UPDATE of a unit of work that loaded `old' and holds `new': only the
\* columns that differ are written; the others keep what others committed.
Column(current, old, new) == IF new # old THEN new ELSE current

Merge(current, old, new) ==
    [status     |-> Column(current.status, old.status, new.status),
     stage      |-> Column(current.stage, old.stage, new.stage),
     closed     |-> Column(current.closed, old.closed, new.closed),
     dispatched |-> Column(current.dispatched, old.dispatched, new.dispatched)]

\* An UPDATE that matches no row is an error and the transaction rolls back.
Commit(s, old, new) ==
    rows' = IF Exists(s) THEN [rows EXCEPT ![s] = Merge(rows[s], old, new)] ELSE rows
-----------------------------------------------------------------------------
(* Tasks.  A waiting message is "ready"; "loaded" has read the row, "marked" *)
(* is run_pipeline after its RUNNING commit, "working" a stage after its     *)
(* set_stage.  `n' is the module of a stage.                                 *)

Kinds  == {"run", "stage", "finalise"}
Phases == {"ready", "loaded", "marked", "working"}

Message(kind, s, n) == [phase |-> "ready", kind |-> kind, scan |-> s, n |-> n, snap |-> NoRow]
TaskRecord == [phase: Phases, kind: Kinds, scan: Scans, n: 0 .. Stages, snap: Row]
NoTask == [phase |-> "none"]

Live(t) == task[t].phase # "none"
At(t, kind, phase) == task[t].phase = phase /\ Live(t) /\ task[t].kind = kind
Tokens(s) == {t \in Tasks : Live(t) /\ task[t].scan = s}

FaultsSoFar == FoldFunction(+, 0, faults)

Fault(kind) ==
    /\ kind \in MayHappen
    /\ FaultsSoFar < MaxFaults
    /\ faults' = [faults EXCEPT ![kind] = @ + 1]
NoFault == UNCHANGED faults

\* A message handed back to the broker, to be executed again from the start.
Again(t) == Message(task[t].kind, task[t].scan, task[t].n)

\* The task returns and is acknowledged; or (acks_late) its worker is lost
\* first, and the broker delivers it once more.
Retire(t) ==
    \/ task' = [task EXCEPT ![t] = NoTask] /\ NoFault
    \/ task' = [task EXCEPT ![t] = Again(t)] /\ Fault("worker")

\* The same, for a task that first publishes its successor.
HandOver(t, next) ==
    \/ task' = [task EXCEPT ![t] = next] /\ NoFault
    \/ /\ Fault("worker")
       /\ \E u \in Tasks :
            ~Live(u) /\ task' = [task EXCEPT ![t] = Again(t), ![u] = next]

\* Any task in execution may lose its worker (task_reject_on_worker_lost).
WorkerLost(t) ==
    /\ Live(t) /\ task[t].phase # "ready"
    /\ Fault("worker")
    /\ task' = [task EXCEPT ![t] = Again(t)]
    /\ UNCHANGED <<rows, req, revoked, orphaned>>

\* A message not acknowledged within the visibility timeout is delivered again,
\* while the first delivery may still be waiting or running.
Redelivered(t) ==
    /\ Live(t)
    /\ Fault("redelivery")
    /\ \E u \in Tasks : ~Live(u) /\ task' = [task EXCEPT ![u] = Again(t)]
    /\ UNCHANGED <<rows, req, revoked, orphaned>>
-----------------------------------------------------------------------------
(* Requests.  pc is where the handler is: "counted" passed the concurrency   *)
(* check, "inserted" committed the row, "accepted" and "refused" saw the     *)
(* broker call return or raise, "cancelling" and "deleting" hold a loaded row.*)

HoldingPCs == {"inserted", "accepted", "refused", "cancelling", "deleting"}
Idle    == [pc |-> "idle"]
Counted == [pc |-> "counted"]
Holding(pc, s, snap) == [pc |-> pc, scan |-> s, snap |-> snap]
RequestRecord == [pc: HoldingPCs, scan: Scans, snap: Row]

In(r, pc) == req[r].pc = pc
CancelPending(s) == \E r \in Requests : In(r, "cancelling") /\ req[r].scan = s

Goto(r, next) == req' = [req EXCEPT ![r] = next]

Publish(s) ==
    \E u \in Tasks : ~Live(u) /\ task' = [task EXCEPT ![u] = Message("run", s, 0)]

TypeOK ==
    /\ rows \in [Scans -> Row]
    /\ task \in [Tasks -> TaskRecord \cup {NoTask}]
    /\ req \in [Requests -> RequestRecord \cup {Idle, Counted}]
    /\ revoked \subseteq Scans
    /\ faults \in [FaultKinds -> Nat]
    /\ orphaned \subseteq Scans

Init ==
    /\ rows = [s \in Scans |-> NoRow]
    /\ task = [t \in Tasks |-> NoTask]
    /\ req = [r \in Requests |-> Idle]
    /\ revoked = {}
    /\ faults = [k \in FaultKinds |-> 0]
    /\ orphaned = {}
-----------------------------------------------------------------------------
(* create_scan: count, insert and commit, dispatch, store the task id.      *)

\* Mistake: the comparison is off by one.
CountActiveOffByOne(r) ==
    /\ In(r, "idle")
    /\ Cardinality(ActiveScans) <= MaxActive
    /\ Goto(r, Counted)
    /\ UNCHANGED <<rows, task, revoked, faults, orphaned>>

CountActive(r) ==
    /\ In(r, "idle")
    /\ Cardinality(ActiveScans) < MaxActive
    /\ Goto(r, Counted)
    /\ UNCHANGED <<rows, task, revoked, faults, orphaned>>

Insert(r, s) ==
    /\ In(r, "counted")
    /\ rows[s].status = "unborn"
    /\ rows' = [rows EXCEPT ![s] = BlankRow("queued")]
    /\ Goto(r, Holding("inserted", s, BlankRow("queued")))
    /\ UNCHANGED <<task, revoked, faults, orphaned>>

DispatchOk(r) ==
    /\ In(r, "inserted")
    /\ Publish(req[r].scan)
    /\ Goto(r, [req[r] EXCEPT !.pc = "accepted"])
    /\ UNCHANGED <<rows, revoked, faults, orphaned>>

\* Mistake: the handler tries again instead of closing the row.
DispatchRaisesRetries(r) ==
    /\ In(r, "inserted")
    /\ \/ Fault("broker") /\ UNCHANGED task
       \/ Fault("ambiguous") /\ Publish(req[r].scan)
    /\ UNCHANGED <<rows, req, revoked, orphaned>>

\* The broker refuses, or it accepts and the connection breaks before it says so.
DispatchRaises(r) ==
    /\ In(r, "inserted")
    /\ \/ Fault("broker") /\ UNCHANGED task
       \/ Fault("ambiguous") /\ Publish(req[r].scan)
    /\ Goto(r, [req[r] EXCEPT !.pc = "refused"])
    /\ UNCHANGED <<rows, revoked, orphaned>>

StoreTaskId(r) ==
    /\ In(r, "accepted")
    /\ Commit(req[r].scan, req[r].snap, [req[r].snap EXCEPT !.dispatched = TRUE])
    /\ Goto(r, Idle)
    /\ UNCHANGED <<task, revoked, faults, orphaned>>

MarkUndispatched(r) ==
    /\ In(r, "refused")
    /\ Commit(req[r].scan, req[r].snap,
              [req[r].snap EXCEPT !.status = "failed", !.closed = TRUE])
    /\ Goto(r, Idle)
    /\ UNCHANGED <<task, revoked, faults, orphaned>>

(* cancel_scan revokes the head task before it commits the new status.      *)

\* Mistake: no 409 for a scan that has ended.
CancelLoadAnyStatus(r, s) ==
    /\ In(r, "idle")
    /\ Exists(s)
    /\ revoked' = IF rows[s].dispatched THEN revoked \cup {s} ELSE revoked
    /\ Goto(r, Holding("cancelling", s, rows[s]))
    /\ UNCHANGED <<rows, task, faults, orphaned>>

CancelLoad(r, s) ==
    /\ In(r, "idle")
    /\ IsActive(s)
    /\ revoked' = IF rows[s].dispatched THEN revoked \cup {s} ELSE revoked
    /\ Goto(r, Holding("cancelling", s, rows[s]))
    /\ UNCHANGED <<rows, task, faults, orphaned>>

CancelCommit(r) ==
    /\ In(r, "cancelling")
    /\ Commit(req[r].scan, req[r].snap,
              [req[r].snap EXCEPT !.status = "cancelled", !.closed = TRUE, !.stage = NoStage])
    /\ Goto(r, Idle)
    /\ UNCHANGED <<task, revoked, faults, orphaned>>

(* delete_scan, and the retention sweep's single DELETE.                    *)

DeleteLoad(r, s) ==
    /\ In(r, "idle")
    /\ rows[s].status \in Terminal
    /\ Goto(r, Holding("deleting", s, NoRow))
    /\ UNCHANGED <<rows, task, revoked, faults, orphaned>>

DeleteCommit(r) ==
    /\ In(r, "deleting")
    /\ rows' = IF Exists(req[r].scan)
               THEN [rows EXCEPT ![req[r].scan] = BlankRow("deleted")] ELSE rows
    /\ Goto(r, Idle)
    /\ UNCHANGED <<task, revoked, faults, orphaned>>

Prune(s) ==
    /\ rows[s].status \in Terminal
    /\ rows' = [rows EXCEPT ![s] = BlankRow("deleted")]
    /\ UNCHANGED <<task, req, revoked, faults, orphaned>>

\* The API process dies; what it had not committed is lost.
ApiCrash(r) ==
    /\ ~In(r, "idle")
    /\ Fault("api")
    /\ orphaned' = IF req[r].pc \in {"inserted", "refused", "cancelling"}
                   THEN orphaned \cup {req[r].scan} ELSE orphaned
    /\ Goto(r, Idle)
    /\ UNCHANGED <<rows, task, revoked>>
-----------------------------------------------------------------------------
(* run_pipeline.                                                            *)

\* Mistake: run_pipeline starts a cancelled scan.
RunLoadUnchecked(t) ==
    LET s == task[t].scan IN
    /\ At(t, "run", "ready")
    /\ IF Exists(s)
       THEN task' = [task EXCEPT ![t].phase = "loaded", ![t].snap = rows[s]] /\ NoFault
       ELSE Retire(t)
    /\ UNCHANGED <<rows, req, revoked, orphaned>>

RunLoad(t) ==
    LET s == task[t].scan IN
    /\ At(t, "run", "ready")
    /\ IF Exists(s) /\ rows[s].status # "cancelled"
       THEN task' = [task EXCEPT ![t].phase = "loaded", ![t].snap = rows[s]] /\ NoFault
       ELSE Retire(t)
    /\ UNCHANGED <<rows, req, revoked, orphaned>>

RunMark(t) ==
    LET s == task[t].scan IN
    /\ At(t, "run", "loaded")
    /\ IF Exists(s)
       THEN /\ Commit(s, task[t].snap,
                     [task[t].snap EXCEPT !.status = "running", !.stage = Orchestrator])
            /\ task' = [task EXCEPT ![t].phase = "marked"] /\ NoFault
       ELSE Retire(t) /\ UNCHANGED rows
    /\ UNCHANGED <<req, revoked, orphaned>>

RunPublish(t) ==
    /\ At(t, "run", "marked")
    /\ HandOver(t, Message("stage", task[t].scan, 1))
    /\ UNCHANGED <<rows, req, revoked, orphaned>>

\* capture_baseline or apply_async raises: the task fails, and no error
\* callback is attached to it.
PipelineFails(t) ==
    /\ At(t, "run", "marked")
    /\ Fault("pipeline")
    /\ task' = [task EXCEPT ![t] = NoTask]
    /\ orphaned' = orphaned \cup {task[t].scan}
    /\ UNCHANGED <<rows, req, revoked>>

\* A worker drops a revoked message, or kills the revoked task it is executing.
\* The scan is left to the cancel that revoked it, if that has yet to commit.
Revoke(t) ==
    LET s == task[t].scan IN
    /\ Live(t) /\ task[t].kind = "run" /\ s \in revoked
    /\ task' = [task EXCEPT ![t] = NoTask]
    /\ orphaned' = IF IsActive(s) /\ ~CancelPending(s) THEN orphaned \cup {s} ELSE orphaned
    /\ UNCHANGED <<rows, req, revoked, faults>>

(* The modules.  Each opens with set_stage; a cancelled scan makes it return *)
(* early, but normally, so the chain goes on.                                *)

StageStart(t) ==
    LET s == task[t].scan IN
    /\ At(t, "stage", "ready")
    /\ Commit(s, rows[s], [rows[s] EXCEPT !.stage = task[t].n + 1])
    /\ task' = [task EXCEPT ![t].phase = "working"]
    /\ UNCHANGED <<req, revoked, faults, orphaned>>

\* Mistake: finalise_scan is not linked to the last module.
StageFinishUnlinked(t) ==
    /\ At(t, "stage", "working")
    /\ IF task[t].n < Stages
       THEN HandOver(t, Message("stage", task[t].scan, task[t].n + 1)) ELSE Retire(t)
    /\ UNCHANGED <<rows, req, revoked, orphaned>>

\* Mistake: the chain does not stop after its last module.
StageFinishUnbounded(t) ==
    /\ At(t, "stage", "working")
    /\ HandOver(t, Message("stage", task[t].scan, task[t].n + 1))
    /\ UNCHANGED <<rows, req, revoked, orphaned>>

StageFinish(t) ==
    LET s == task[t].scan  n == task[t].n IN
    /\ At(t, "stage", "working")
    /\ HandOver(t, IF n < Stages THEN Message("stage", s, n + 1) ELSE Message("finalise", s, 0))
    /\ UNCHANGED <<rows, req, revoked, orphaned>>

\* A module raises.  fail_scan is linked as the error callback of every module,
\* but it is a bound task, and such a callback Celery 5.4.0 calls with the id of
\* the failed task alone: the argument check raises before fail_scan is entered,
\* the failed task is acknowledged, and nothing follows it.
StageFails(t) ==
    /\ At(t, "stage", "working")
    /\ Fault("module")
    /\ task' = [task EXCEPT ![t] = NoTask]
    /\ orphaned' = orphaned \cup {task[t].scan}
    /\ UNCHANGED <<rows, req, revoked>>

(* finalise_scan: load, then write unless cancelled.                        *)

\* Mistake: the callback returns early when the row already has a completed_at.
FinaliseLoadOnce(t) ==
    LET s == task[t].scan IN
    /\ At(t, "finalise", "ready")
    /\ IF Exists(s) /\ ~rows[s].closed
       THEN task' = [task EXCEPT ![t].phase = "loaded", ![t].snap = rows[s]] /\ NoFault
       ELSE Retire(t)
    /\ UNCHANGED <<rows, req, revoked, orphaned>>

FinaliseLoad(t) ==
    LET s == task[t].scan IN
    /\ At(t, "finalise", "ready")
    /\ IF Exists(s)
       THEN task' = [task EXCEPT ![t].phase = "loaded", ![t].snap = rows[s]] /\ NoFault
       ELSE Retire(t)
    /\ UNCHANGED <<rows, req, revoked, orphaned>>

\* Mistake: current_stage is not cleared.
ClosedKeepingStage(snap) ==
    IF snap.status = "cancelled" THEN [snap EXCEPT !.closed = TRUE]
    ELSE [snap EXCEPT !.status = "completed", !.closed = TRUE]

Closed(snap) ==
    IF snap.status = "cancelled" THEN [snap EXCEPT !.closed = TRUE]
    ELSE [snap EXCEPT !.status = "completed", !.stage = NoStage, !.closed = TRUE]

FinaliseCommit(t) ==
    /\ At(t, "finalise", "loaded")
    /\ Commit(task[t].scan, task[t].snap, Closed(task[t].snap))
    /\ Retire(t)
    /\ UNCHANGED <<req, revoked, orphaned>>
-----------------------------------------------------------------------------
Starts(r) == \/ CountActive(r)
             \/ \E s \in Scans : CancelLoad(r, s) \/ DeleteLoad(r, s)

Continues(r) ==
    \/ \E s \in Scans : Insert(r, s)
    \/ DispatchOk(r) \/ DispatchRaises(r)
    \/ StoreTaskId(r) \/ MarkUndispatched(r)
    \/ CancelCommit(r) \/ DeleteCommit(r)

Executes(t) ==
    \/ RunLoad(t) \/ RunMark(t) \/ RunPublish(t)
    \/ StageStart(t) \/ StageFinish(t)
    \/ FinaliseLoad(t) \/ FinaliseCommit(t)

Next ==
    \/ \E r \in Requests : Starts(r) \/ Continues(r) \/ ApiCrash(r)
    \/ \E t \in Tasks : Executes(t) \/ PipelineFails(t) \/ StageFails(t) \/ Revoke(t)
                       \/ WorkerLost(t) \/ Redelivered(t)
    \/ \E s \in Scans : Prune(s)

\* A handler that started goes on, and a worker executes what the broker holds.
\* Nobody is obliged to start a request, and no fault has to happen.
Fairness ==
    /\ \A r \in Requests : WF_vars(Continues(r))
    /\ \A t \in Tasks : WF_vars(Executes(t))

Spec == Init /\ [][Next]_vars
FairSpec == Spec /\ Fairness
-----------------------------------------------------------------------------
(* Properties.                                                              *)

\* What task t is going to commit does not end scan s: its snapshot already has
\* the status it would write, so its UPDATE leaves the status column out.
WritesNoStatus(t) ==
    At(t, "finalise", "loaded") /\ task[t].snap.status \in {"completed", "cancelled"}

Drives(t, s)  == t \in Tokens(s) /\ ~WritesNoStatus(t)
Answers(r, s) == req[r].pc \in {"inserted", "refused", "cancelling"} /\ req[r].scan = s

\* An active scan counts against the organisation's limit and blocks its own
\* deletion, so somebody must be on the way to end it: a message or a task whose
\* commits still change the status, or a handler that will dispatch or close it.
\* The exceptions are the scans whose handler died, whose run_pipeline failed
\* after its RUNNING commit, of which a module failed, or that were killed by a
\* cancel already overwritten.
ActiveHasDriver ==
    \A s \in Scans : IsActive(s) =>
        \/ s \in orphaned
        \/ \E t \in Tasks : Drives(t, s)
        \/ \E r \in Requests : Answers(r, s)

\* acks_late delivers at least once, and nothing else multiplies a scan: a scan
\* has one task at a time, plus one for every delivery that was repeated.
OneTaskPerDelivery ==
    \A s \in Scans : Cardinality(Tokens(s)) <= 1 + faults["worker"] + faults["redelivery"]

\* The concurrency check and the INSERT are separate transactions, so the limit
\* can be passed, but by no more than the other handlers in progress.  Rows that
\* had ended and were started again by a repeated delivery are not counted.
CapOvershootBounded ==
      Cardinality({s \in Scans : IsActive(s) /\ ~rows[s].closed})
    + Cardinality({r \in Requests : In(r, "counted")})
        <= MaxActive - 1 + Cardinality(Requests)

\* Nothing gave a scan a second writer: no repeated delivery, no dispatch that
\* raised although the broker took the message.
SingleWriter == faults["worker"] + faults["redelivery"] + faults["ambiguous"] = 0

\* Once a scan that had one writer has ended, its row names no stage: no late
\* set_stage, stale snapshot or skipped column leaves one behind.
SettledShowsNoStage ==
    \A s \in Scans :
        SingleWriter /\ rows[s].status \in {"completed", "failed"} => rows[s].stage = NoStage

StaleWriter(s) ==
    \/ \E t \in Tokens(s) : task[t].phase = "loaded" /\ task[t].snap.status # "cancelled"
    \/ \E r \in Requests : In(r, "refused") /\ req[r].scan = s

\* A cancelled scan stays cancelled until it is deleted, whatever its chain does,
\* except for a writer that had read the row before the cancel was committed.
CancelHolds ==
    [][\A s \in Scans :
        rows[s].status = "cancelled" /\ ~StaleWriter(s)
            => rows'[s].status \in {"cancelled", "deleted"}]_vars

\* Every scan is settled for good at some time, the orphaned ones excepted.
EveryScanSettles == \A s \in Scans : <>[](~IsActive(s) \/ s \in orphaned)

(* What the scan list promises, and of which scans.                         *)

\* A process will write over a status that it has not seen.
Outdated(s) ==
    \/ \E t \in Tokens(s) : task[t].phase = "loaded" /\ task[t].snap.status # rows[s].status
    \/ \E r \in Requests : /\ req[r].pc \in {"refused", "cancelling"} /\ req[r].scan = s
                           /\ req[r].snap.status # rows[s].status
    \/ \E r \in Requests : In(r, "deleting") /\ req[r].scan = s /\ IsActive(s)

Contended == {s \in Scans : ~SingleWriter \/ Outdated(s)}

Board == INSTANCE ScanBoard WITH
    status    <- [s \in Scans |-> rows[s].status],
    contended <- Contended

\* Handlers, tasks and faults together show the users the life of a scan that
\* ScanBoard promises them: an uncontended scan is queued, runs, ends once, and
\* is removed only then.
ImplementsBoard == Board!BoardSpec

(* What the comments of the code say, without the exceptions.               *)

\* orchestrator.py: "so the scan row always reaches a terminal state".
AlwaysReachesTerminal == \A s \in Scans : IsActive(s) ~> ~IsActive(s)

\* orchestrator.py: "A cancelled scan may still have an in-flight chain; do not
\* overwrite."
CancelledIsFinal ==
    [][\A s \in Scans :
        rows[s].status = "cancelled" => rows'[s].status \in {"cancelled", "deleted"}]_vars
=============================================================================
