------------------------ MODULE ScanLifecycle_proofs ------------------------
(***************************************************************************)
(* Proofs about ScanLifecycle, for any number of scans, handlers, messages *)
(* and modules, and any budget of faults.                                  *)
(*                                                                         *)
(* In this order: types; ActiveHasDriver; CancelHolds; the refinement of   *)
(* ScanBoard; births; OneTaskPerDelivery; SettledShowsNoStage;             *)
(* CapOvershootBounded.  Each has an inductive invariant of its own, which *)
(* contains those of the parts it rests on.                                *)
(***************************************************************************)
EXTENDS ScanLifecycle, FiniteSetTheorems, TLAPS

\* A record of the task table is a task, not the empty slot.
LEMMA LiveTask ==
    ASSUME TypeOK, NEW t \in Tasks, Live(t)
    PROVE  task[t] \in TaskRecord
BY DEF TypeOK, Live, NoTask

\* A message of any kind is a task record.
LEMMA MessageType ==
    ASSUME ConstantsOK, NEW kind \in Kinds, NEW s \in Scans, NEW n \in 0 .. Stages
    PROVE  Message(kind, s, n) \in TaskRecord
BY DEF ConstantsOK, Message, TaskRecord, Phases, NoRow, BlankRow, Row, Status, StageColumn, NoStage

\* So is a message handed back to the broker.
LEMMA AgainType ==
    ASSUME ConstantsOK, TypeOK, NEW t \in Tasks, Live(t)
    PROVE  Again(t) \in TaskRecord
BY LiveTask, MessageType DEF Again, TaskRecord

\* A loaded row is a row, and what a unit of work writes to it as well.
LEMMA CommitType ==
    ASSUME ConstantsOK, TypeOK, NEW s \in Scans, NEW old \in Row, NEW new \in Row,
           Commit(s, old, new)
    PROVE  /\ rows' \in [Scans -> Row]
           /\ \A u \in Scans \ {s} : rows'[u] = rows[u]
           /\ ~Exists(s) => rows' = rows
           /\ Exists(s) => rows'[s].status = Column(rows[s].status, old.status, new.status)
<1>1. Merge(rows[s], old, new) \in Row
    BY DEF TypeOK, Row, Merge, Column
<1>2. QED
    BY <1>1 DEF Commit, TypeOK, Merge

\* A fault counts one up; no fault counts nothing.
LEMMA FaultType ==
    ASSUME ConstantsOK, TypeOK, NEW k, Fault(k) \/ NoFault
    PROVE  faults' \in [FaultKinds -> Nat]
BY DEF ConstantsOK, TypeOK, Fault, NoFault

\* Retiring a task keeps the types.
LEMMA RetireType ==
    ASSUME ConstantsOK, TypeOK, NEW t \in Tasks, Live(t), Retire(t)
    PROVE  /\ task' \in [Tasks -> TaskRecord \cup {NoTask}]
           /\ faults' \in [FaultKinds -> Nat]
BY AgainType, FaultType DEF Retire, TypeOK

\* Handing over to a successor keeps the types.
LEMMA HandOverType ==
    ASSUME ConstantsOK, TypeOK, NEW t \in Tasks, Live(t),
           NEW next \in TaskRecord, HandOver(t, next)
    PROVE  /\ task' \in [Tasks -> TaskRecord \cup {NoTask}]
           /\ faults' \in [FaultKinds -> Nat]
BY AgainType, FaultType DEF HandOver, TypeOK

\* Publishing the head task keeps the types.
LEMMA PublishType ==
    ASSUME ConstantsOK, TypeOK, NEW s \in Scans, Publish(s)
    PROVE  task' \in [Tasks -> TaskRecord \cup {NoTask}]
<1>1. Message("run", s, 0) \in TaskRecord
    BY MessageType DEF Kinds, ConstantsOK
<1>2. QED
    BY <1>1 DEF Publish, TypeOK

\* A handler past its INSERT or its SELECT holds a scan and a row.
LEMMA HoldingRequest ==
    ASSUME TypeOK, NEW r \in Requests, req[r].pc \in HoldingPCs
    PROVE  req[r] \in RequestRecord
BY DEF TypeOK, HoldingPCs, Idle, Counted

\* The writes of the handlers and of the tasks are rows.
LEMMA WrittenRow ==
    ASSUME ConstantsOK, NEW old \in Row
    PROVE  /\ [old EXCEPT !.dispatched = TRUE] \in Row
           /\ [old EXCEPT !.closed = TRUE] \in Row
           /\ [old EXCEPT !.status = "failed", !.closed = TRUE] \in Row
           /\ [old EXCEPT !.status = "cancelled", !.closed = TRUE, !.stage = NoStage] \in Row
           /\ [old EXCEPT !.status = "running", !.stage = Orchestrator] \in Row
           /\ Closed(old) \in Row
<1>1. {"failed", "cancelled", "running"} \cup Terminal \subseteq Status
    BY DEF Status, Active, Terminal
<1>2. NoStage \in StageColumn /\ Orchestrator \in StageColumn
    BY DEF ConstantsOK, NoStage, Orchestrator, StageColumn
<1>3. ASSUME NEW st \in Status, NEW sg \in StageColumn
      PROVE  /\ [old EXCEPT !.status = st, !.closed = TRUE] \in Row
             /\ [old EXCEPT !.status = st, !.stage = sg] \in Row
             /\ [old EXCEPT !.status = st, !.closed = TRUE, !.stage = sg] \in Row
             /\ [old EXCEPT !.status = st, !.stage = sg, !.closed = TRUE] \in Row
    BY DEF Row
<1>4. /\ [old EXCEPT !.dispatched = TRUE] \in Row
      /\ [old EXCEPT !.closed = TRUE] \in Row
    BY DEF Row
<1>5. Closed(old) \in Row
    BY <1>1, <1>2, <1>3, <1>4 DEF Closed, Terminal
<1>6. QED
    BY <1>1, <1>2, <1>3, <1>4, <1>5

\* A handler step that moves one request keeps the type of req.
LEMMA GotoType ==
    ASSUME TypeOK, NEW r \in Requests, NEW next \in RequestRecord \cup {Idle, Counted},
           Goto(r, next)
    PROVE  req' \in [Requests -> RequestRecord \cup {Idle, Counted}]
BY DEF TypeOK, Goto

\* What a handler holds after its INSERT, its SELECT or its broker call.
LEMMA HoldingType ==
    ASSUME NEW pc \in HoldingPCs, NEW s \in Scans, NEW snap \in Row
    PROVE  Holding(pc, s, snap) \in RequestRecord
BY DEF Holding, RequestRecord

\* A blank row is a row.
LEMMA BlankRowType ==
    ASSUME ConstantsOK, NEW st \in Status
    PROVE  BlankRow(st) \in Row
BY DEF ConstantsOK, BlankRow, Row, StageColumn, NoStage

-----------------------------------------------------------------------------
(* TypeOK is inductive: one lemma per actor, one step per action.           *)

LEMMA HandlerKeepsType ==
    ASSUME ConstantsOK, TypeOK, NEW r \in Requests, Starts(r) \/ Continues(r) \/ ApiCrash(r)
    PROVE  TypeOK'
<1> USE DEF HoldingPCs, Status, Active, Terminal
<1>1. CASE CountActive(r)
    BY <1>1, GotoType DEF CountActive, TypeOK
<1>2. ASSUME NEW s \in Scans, CancelLoad(r, s) PROVE TypeOK'
    <2>1. Holding("cancelling", s, rows[s]) \in RequestRecord
        BY HoldingType DEF TypeOK
    <2>2. QED
        BY <1>2, <2>1, GotoType DEF CancelLoad, TypeOK
<1>3. ASSUME NEW s \in Scans, DeleteLoad(r, s) PROVE TypeOK'
    <2>1. Holding("deleting", s, NoRow) \in RequestRecord
        BY HoldingType, BlankRowType DEF NoRow
    <2>2. QED
        BY <1>3, <2>1, GotoType DEF DeleteLoad, TypeOK
<1>4. ASSUME NEW s \in Scans, Insert(r, s) PROVE TypeOK'
    <2>1. BlankRow("queued") \in Row
        BY BlankRowType
    <2>2. Holding("inserted", s, BlankRow("queued")) \in RequestRecord
        BY <2>1, HoldingType
    <2>3. QED
        BY <1>4, <2>1, <2>2, GotoType DEF Insert, TypeOK
<1>5. CASE DispatchOk(r)
    <2>1. req[r] \in RequestRecord
        BY <1>5, HoldingRequest DEF DispatchOk, In
    <2>2. [req[r] EXCEPT !.pc = "accepted"] \in RequestRecord /\ req[r].scan \in Scans
        BY <2>1 DEF RequestRecord
    <2>3. QED
        BY <1>5, <2>2, GotoType, PublishType DEF DispatchOk, TypeOK
<1>6. CASE DispatchRaises(r)
    <2>1. req[r] \in RequestRecord
        BY <1>6, HoldingRequest DEF DispatchRaises, In
    <2>2. [req[r] EXCEPT !.pc = "refused"] \in RequestRecord /\ req[r].scan \in Scans
        BY <2>1 DEF RequestRecord
    <2>3. task' \in [Tasks -> TaskRecord \cup {NoTask}] /\ faults' \in [FaultKinds -> Nat]
        BY <1>6, <2>2, PublishType, FaultType DEF DispatchRaises, TypeOK
    <2>4. QED
        BY <1>6, <2>2, <2>3, GotoType DEF DispatchRaises, TypeOK
<1>7. ASSUME NEW new \in Row, In(r, "accepted") \/ In(r, "refused") \/ In(r, "cancelling"),
             Commit(req[r].scan, req[r].snap, new), Goto(r, Idle),
             UNCHANGED <<task, revoked, faults, orphaned>>
      PROVE  TypeOK'
    <2>1. req[r].scan \in Scans /\ req[r].snap \in Row
        BY <1>7, HoldingRequest DEF In, RequestRecord
    <2>2. rows' \in [Scans -> Row]
        BY <1>7, <2>1, CommitType
    <2>3. QED
        BY <1>7, <2>2, GotoType DEF TypeOK
<1>8. CASE StoreTaskId(r)
    <2>1. [req[r].snap EXCEPT !.dispatched = TRUE] \in Row
        BY <1>8, HoldingRequest, WrittenRow DEF StoreTaskId, In, RequestRecord
    <2>2. QED
        BY <1>7, <1>8, <2>1 DEF StoreTaskId
<1>9. CASE MarkUndispatched(r)
    <2>1. [req[r].snap EXCEPT !.status = "failed", !.closed = TRUE] \in Row
        BY <1>9, HoldingRequest, WrittenRow DEF MarkUndispatched, In, RequestRecord
    <2>2. QED
        BY <1>7, <1>9, <2>1 DEF MarkUndispatched
<1>10. CASE CancelCommit(r)
    <2>1. [req[r].snap EXCEPT !.status = "cancelled", !.closed = TRUE, !.stage = NoStage] \in Row
        BY <1>10, HoldingRequest, WrittenRow DEF CancelCommit, In, RequestRecord
    <2>2. QED
        BY <1>7, <1>10, <2>1 DEF CancelCommit
<1>11. CASE DeleteCommit(r)
    <2>1. rows' \in [Scans -> Row]
        BY <1>11, BlankRowType DEF DeleteCommit, TypeOK
    <2>2. QED
        BY <1>11, <2>1, GotoType DEF DeleteCommit, TypeOK
<1>12. CASE ApiCrash(r)
    <2>1. orphaned' \subseteq Scans
        BY <1>12, HoldingRequest DEF ApiCrash, TypeOK, RequestRecord
    <2>2. QED
        BY <1>12, <2>1, GotoType, FaultType DEF ApiCrash, TypeOK
<1>13. QED
    BY <1>1, <1>2, <1>3, <1>4, <1>5, <1>6, <1>8, <1>9, <1>10, <1>11, <1>12 DEF Starts, Continues

\* A step in which a task reads the row, or retires because it must not go on.
LEMMA LoadType ==
    ASSUME ConstantsOK, TypeOK, NEW t \in Tasks, Live(t),
           \/ task' = [task EXCEPT ![t].phase = "loaded", ![t].snap = rows[task[t].scan]] /\ NoFault
           \/ Retire(t)
    PROVE  /\ task' \in [Tasks -> TaskRecord \cup {NoTask}]
           /\ faults' \in [FaultKinds -> Nat]
<1>1. task[t] \in TaskRecord
    BY LiveTask
<1>2. [task[t] EXCEPT !.phase = "loaded", !.snap = rows[task[t].scan]] \in TaskRecord
    BY <1>1 DEF TaskRecord, Phases, TypeOK
<1>3. CASE task' = [task EXCEPT ![t].phase = "loaded", ![t].snap = rows[task[t].scan]] /\ NoFault
    <2>1. task' = [task EXCEPT ![t] = [task[t] EXCEPT !.phase = "loaded", !.snap = rows[task[t].scan]]]
        BY <1>3, <1>1 DEF TypeOK
    <2>2. QED
        BY <1>2, <1>3, <2>1 DEF TypeOK, NoFault
<1>4. QED
    BY <1>3, RetireType

LEMMA WorkerKeepsType ==
    ASSUME ConstantsOK, TypeOK, NEW t \in Tasks,
           Executes(t) \/ PipelineFails(t) \/ StageFails(t) \/ Revoke(t) \/ WorkerLost(t) \/ Redelivered(t)
    PROVE  TypeOK'
<1> USE DEF Kinds, Phases
<1>1. Live(t) /\ task[t] \in TaskRecord
    BY LiveTask DEF Executes, RunLoad, RunMark, RunPublish, StageStart, StageFinish, StageFails,
        FinaliseLoad, FinaliseCommit, PipelineFails, Revoke, WorkerLost, Redelivered, At
<1>2. /\ task[t].scan \in Scans /\ task[t].snap \in Row /\ task[t].n \in 0 .. Stages
    BY <1>1 DEF TaskRecord
<1>3. ASSUME NEW next \in Phases
      PROVE  [task EXCEPT ![t].phase = next] \in [Tasks -> TaskRecord \cup {NoTask}]
    <2>1. [task[t] EXCEPT !.phase = next] \in TaskRecord
        BY <1>1 DEF TaskRecord
    <2>2. QED
        BY <2>1 DEF TypeOK
<1>4. CASE RunLoad(t)
    BY <1>1, <1>4, LoadType DEF RunLoad, TypeOK
<1>5. CASE RunMark(t)
    <2>1. [task[t].snap EXCEPT !.status = "running", !.stage = Orchestrator] \in Row
        BY <1>2, WrittenRow
    <2>2. CASE Exists(task[t].scan)
        <3>1. rows' \in [Scans -> Row]
            BY <1>2, <1>5, <2>1, <2>2, CommitType DEF RunMark
        <3>2. QED
            BY <1>3, <1>5, <2>2, <3>1 DEF RunMark, TypeOK, NoFault
    <2>3. CASE ~Exists(task[t].scan)
        BY <1>1, <1>5, <2>3, RetireType DEF RunMark, TypeOK
    <2>4. QED
        BY <2>2, <2>3
<1>6. CASE RunPublish(t)
    <2>1. Message("stage", task[t].scan, 1) \in TaskRecord
        BY <1>2, MessageType DEF ConstantsOK
    <2>2. QED
        BY <1>1, <1>6, <2>1, HandOverType DEF RunPublish, TypeOK
<1>7. CASE StageStart(t)
    <2>1. [rows[task[t].scan] EXCEPT !.stage = task[t].n + 1] \in Row
        BY <1>2 DEF TypeOK, Row, StageColumn, ConstantsOK
    <2>2. rows' \in [Scans -> Row]
        BY <1>2, <1>7, <2>1, CommitType DEF StageStart, TypeOK
    <2>3. QED
        BY <1>3, <1>7, <2>2 DEF StageStart, TypeOK
<1>8. CASE StageFinish(t)
    <2>1. (IF task[t].n < Stages THEN Message("stage", task[t].scan, task[t].n + 1)
           ELSE Message("finalise", task[t].scan, 0)) \in TaskRecord
        BY <1>2, MessageType DEF ConstantsOK
    <2>2. QED
        BY <1>1, <1>8, <2>1, HandOverType DEF StageFinish, TypeOK
<1>9. CASE StageFails(t)
    BY <1>2, <1>9, FaultType DEF StageFails, TypeOK
<1>10. CASE FinaliseLoad(t)
    BY <1>1, <1>10, LoadType DEF FinaliseLoad, TypeOK
<1>11. ASSUME Commit(task[t].scan, task[t].snap, Closed(task[t].snap)),
              Retire(t), UNCHANGED <<req, revoked, orphaned>>
       PROVE  TypeOK'
    <2>1. Closed(task[t].snap) \in Row
        BY <1>2, WrittenRow
    <2>2. rows' \in [Scans -> Row]
        BY <1>2, <1>11, <2>1, CommitType
    <2>3. QED
        BY <1>1, <1>11, <2>2, RetireType DEF TypeOK
<1>12. CASE FinaliseCommit(t)
    BY <1>11, <1>12 DEF FinaliseCommit
<1>14. CASE PipelineFails(t)
    BY <1>2, <1>14, FaultType DEF PipelineFails, TypeOK
<1>15. CASE Revoke(t)
    BY <1>2, <1>15 DEF Revoke, TypeOK
<1>16. CASE WorkerLost(t)
    BY <1>1, <1>16, AgainType, FaultType DEF WorkerLost, TypeOK
<1>17. CASE Redelivered(t)
    BY <1>1, <1>17, AgainType, FaultType DEF Redelivered, TypeOK
<1>18. QED
    BY <1>4, <1>5, <1>6, <1>7, <1>8, <1>9, <1>10, <1>12, <1>14, <1>15, <1>16, <1>17 DEF Executes

LEMMA TypeInductive ==
    /\ Init => TypeOK
    /\ TypeOK /\ [Next]_vars => TypeOK'
<1>1. Init => TypeOK
    BY ConstantsOK, BlankRowType DEF Init, TypeOK, NoRow, Status
<1>2. ASSUME TypeOK, [Next]_vars PROVE TypeOK'
    <2>1. ASSUME NEW r \in Requests, Starts(r) \/ Continues(r) \/ ApiCrash(r) PROVE TypeOK'
        BY <1>2, <2>1, ConstantsOK, HandlerKeepsType
    <2>2. ASSUME NEW t \in Tasks,
                 Executes(t) \/ PipelineFails(t) \/ StageFails(t) \/ Revoke(t) \/ WorkerLost(t) \/ Redelivered(t)
          PROVE  TypeOK'
        BY <1>2, <2>2, ConstantsOK, WorkerKeepsType
    <2>3. ASSUME NEW s \in Scans, Prune(s) PROVE TypeOK'
        BY <1>2, <2>3, ConstantsOK, BlankRowType DEF Prune, TypeOK, Status
    <2>4. CASE UNCHANGED vars
        BY <1>2, <2>4 DEF vars, TypeOK
    <2>5. QED
        BY <1>2, <2>1, <2>2, <2>3, <2>4 DEF Next
<1>3. QED
    BY <1>1, <1>2

\* Every reachable state is well typed.
THEOREM TypeCorrect == Spec => []TypeOK
BY TypeInductive, PTL DEF Spec

-----------------------------------------------------------------------------
(* ActiveHasDriver.  It is not inductive alone: that a commit ends the scan   *)
(* depends on the status its snapshot holds, which SnapshotsOK records.       *)

SnapshotsOK ==
    /\ \A r \in Requests : In(r, "inserted") \/ In(r, "refused") => req[r].snap.status = "queued"
    /\ \A r \in Requests : In(r, "cancelling") => req[r].snap.status \in Active
    /\ \A t \in Tasks : At(t, "run", "loaded") => task[t].snap.status # "cancelled"

HasDriver(s) ==
    \/ s \in orphaned
    \/ \E t \in Tasks : Drives(t, s)
    \/ \E r \in Requests : Answers(r, s)

IInv == TypeOK /\ SnapshotsOK /\ ActiveHasDriver

\* A task that has not read the row will still write its status.
LEMMA UnreadTaskDrives ==
    ASSUME TypeOK, NEW t \in Tasks, Live(t), task[t].phase # "loaded" \/ task[t].kind = "run"
    PROVE  Drives(t, task[t].scan)
BY LiveTask DEF Drives, Tokens, WritesNoStatus, At

\* A step of task t leaves the other tasks and the handlers as they are; so an
\* active scan keeps its driver if t was not the one, or if a new one appears.
LEMMA TaskStepKeepsDriver ==
    ASSUME NEW t \in Tasks, NEW s \in Scans, ActiveHasDriver,
           \A u \in Tasks \ {t} : Live(u) => task'[u] = task[u],
           req' = req, orphaned \subseteq orphaned',
           \/ HasDriver(s)'
           \/ \E r \in Requests : Answers(r, s)
           \/ IsActive(s) /\ ~Drives(t, s)
    PROVE  HasDriver(s)'
<1>1. CASE \E r \in Requests : Answers(r, s)
    BY <1>1 DEF HasDriver, Answers
<1>2. ASSUME NEW u \in Tasks, Drives(u, s), u # t PROVE HasDriver(s)'
    BY <1>2 DEF HasDriver, Drives, Tokens, Live, WritesNoStatus, At
<1>3. CASE IsActive(s) /\ ~Drives(t, s)
    <2>1. HasDriver(s)
        BY <1>3 DEF ActiveHasDriver, HasDriver
    <2>2. QED
        BY <1>1, <1>2, <1>3, <2>1 DEF HasDriver
<1>4. QED
    BY <1>1, <1>3

\* A step of handler r leaves the tasks and the other handlers as they are.
LEMMA HandlerStepKeepsDriver ==
    ASSUME NEW r \in Requests, NEW s \in Scans, ActiveHasDriver,
           \A u \in Tasks : Live(u) => task'[u] = task[u],
           \A q \in Requests \ {r} : req'[q] = req[q],
           orphaned \subseteq orphaned',
           HasDriver(s)' \/ (IsActive(s) /\ ~Answers(r, s))
    PROVE  HasDriver(s)'
<1>1. ASSUME NEW u \in Tasks, Drives(u, s) PROVE HasDriver(s)'
    BY <1>1 DEF HasDriver, Drives, Tokens, Live, WritesNoStatus, At
<1>2. ASSUME NEW q \in Requests, Answers(q, s), q # r PROVE HasDriver(s)'
    BY <1>2 DEF HasDriver, Answers
<1>3. CASE IsActive(s) /\ ~Answers(r, s)
    <2>1. HasDriver(s)
        BY <1>3 DEF ActiveHasDriver, HasDriver
    <2>2. QED
        BY <1>1, <1>2, <1>3, <2>1 DEF HasDriver
<1>4. QED
    BY <1>3

\* What a commit of a handler or a callback leaves in the status column.
LEMMA CommitStatus ==
    ASSUME ConstantsOK, TypeOK, NEW z \in Scans, NEW old \in Row, NEW new \in Row,
           Commit(z, old, new), NEW s \in Scans, IsActive(s)',
           s = z => (old.status # new.status => new.status \notin Active)
    PROVE  /\ IsActive(s)
           /\ s = z => new.status = old.status
<1>1. CASE s = z
    BY <1>1, CommitType DEF IsActive, Exists, Column, Active, Terminal
<1>2. CASE s # z
    BY <1>2, CommitType DEF IsActive
<1>3. QED
    BY <1>1, <1>2

LEMMA HandlerKeepsActiveHasDriver ==
    ASSUME ConstantsOK, IInv, NEW r \in Requests, Starts(r) \/ Continues(r) \/ ApiCrash(r)
    PROVE  ActiveHasDriver'
<1> SUFFICES ASSUME NEW s \in Scans, IsActive(s)' PROVE HasDriver(s)'
    BY DEF ActiveHasDriver, HasDriver
<1> USE DEF IInv
<1>1. CASE CountActive(r)
    <2>1. IsActive(s) /\ ~Answers(r, s)
        BY <1>1 DEF CountActive, IsActive, Answers, In
    <2>2. QED
        BY <1>1, <2>1, HandlerStepKeepsDriver DEF CountActive, Goto, TypeOK
<1>2. ASSUME NEW z \in Scans, CancelLoad(r, z) \/ DeleteLoad(r, z) PROVE HasDriver(s)'
    <2>1. IsActive(s) /\ ~Answers(r, s)
        BY <1>2 DEF CancelLoad, DeleteLoad, IsActive, Answers, In
    <2>2. QED
        BY <1>2, <2>1, HandlerStepKeepsDriver DEF CancelLoad, DeleteLoad, Goto, TypeOK
<1>3. ASSUME NEW z \in Scans, Insert(r, z) PROVE HasDriver(s)'
    <2>1. s # z => IsActive(s) /\ ~Answers(r, s)
        BY <1>3 DEF Insert, IsActive, Answers, In, TypeOK
    <2>2. s = z => Answers(r, s)'
        BY <1>3 DEF Insert, Goto, Answers, Holding, TypeOK
    <2>3. HasDriver(s)' \/ (IsActive(s) /\ ~Answers(r, s))
        BY <2>1, <2>2 DEF HasDriver
    <2>4. QED
        BY <1>3, <2>3, HandlerStepKeepsDriver DEF Insert, Goto, TypeOK
<1>4. CASE DispatchOk(r)
    <2>1. req[r].scan \in Scans
        BY <1>4, HoldingRequest DEF DispatchOk, In, HoldingPCs, RequestRecord
    <2>2. PICK u \in Tasks : /\ ~Live(u)
                             /\ task' = [task EXCEPT ![u] = Message("run", req[r].scan, 0)]
        BY <1>4 DEF DispatchOk, Publish
    <2>3. s = req[r].scan => Drives(u, s)'
        BY <2>2 DEF Drives, Tokens, Live, WritesNoStatus, At, Message, TypeOK
    <2>4. IsActive(s)
        BY <1>4 DEF DispatchOk, IsActive
    <2>5. HasDriver(s)' \/ ~Answers(r, s)
        BY <2>3 DEF HasDriver, Answers
    <2>6. QED
        BY <1>4, <2>2, <2>4, <2>5, HandlerStepKeepsDriver DEF DispatchOk, Goto, TypeOK
<1>5. CASE DispatchRaises(r)
    <2>1. IsActive(s)
        BY <1>5 DEF DispatchRaises, IsActive
    <2>2. req[r] \in RequestRecord
        BY <1>5, HoldingRequest DEF DispatchRaises, In, HoldingPCs
    <2>3. Answers(r, s) => Answers(r, s)'
        BY <1>5, <2>2 DEF DispatchRaises, Answers, Goto, TypeOK, RequestRecord
    <2>4. \A u \in Tasks : Live(u) => task'[u] = task[u]
        BY <1>5 DEF DispatchRaises, Publish, TypeOK
    <2>5. HasDriver(s)' \/ ~Answers(r, s)
        BY <2>3 DEF HasDriver
    <2>6. QED
        BY <1>5, <2>1, <2>4, <2>5, HandlerStepKeepsDriver DEF DispatchRaises, Goto, TypeOK
<1>6. ASSUME In(r, "accepted") \/ In(r, "refused") \/ In(r, "cancelling"),
             NEW new \in Row, Commit(req[r].scan, req[r].snap, new), Goto(r, Idle),
             UNCHANGED <<task, revoked, faults, orphaned>>,
             In(r, "accepted") => new.status = req[r].snap.status,
             ~In(r, "accepted") => new.status \notin Active /\ new.status # req[r].snap.status
      PROVE  HasDriver(s)'
    <2>1. req[r].scan \in Scans /\ req[r].snap \in Row
        BY <1>6, HoldingRequest DEF In, HoldingPCs, RequestRecord
    <2>2. IsActive(s) /\ (s = req[r].scan => new.status = req[r].snap.status)
        BY <1>6, <2>1, CommitStatus
    <2>3. ~Answers(r, s)
        BY <1>6, <2>2 DEF Answers, In
    <2>4. QED
        BY <1>6, <2>2, <2>3, HandlerStepKeepsDriver DEF Goto, TypeOK
<1>7. CASE StoreTaskId(r)
    <2>1. req[r].snap \in Row
        BY <1>7, HoldingRequest DEF StoreTaskId, In, HoldingPCs, RequestRecord
    <2>2. [req[r].snap EXCEPT !.dispatched = TRUE].status = req[r].snap.status
        BY <2>1 DEF Row
    <2>3. QED
        BY <1>6, <1>7, <2>1, <2>2, WrittenRow DEF StoreTaskId
<1>8. CASE MarkUndispatched(r)
    <2>1. req[r].snap \in Row /\ req[r].snap.status = "queued"
        BY <1>8, HoldingRequest DEF MarkUndispatched, In, HoldingPCs, RequestRecord, SnapshotsOK
    <2>2. [req[r].snap EXCEPT !.status = "failed", !.closed = TRUE].status = "failed"
        BY <2>1 DEF Row
    <2>3. QED
        BY <1>6, <1>8, <2>1, <2>2, WrittenRow DEF MarkUndispatched, Active, In
<1>9. CASE CancelCommit(r)
    <2>1. req[r].snap \in Row /\ req[r].snap.status \in Active
        BY <1>9, HoldingRequest DEF CancelCommit, In, HoldingPCs, RequestRecord, SnapshotsOK
    <2>2. [req[r].snap EXCEPT !.status = "cancelled", !.closed = TRUE, !.stage = NoStage].status
            = "cancelled"
        BY <2>1 DEF Row
    <2>3. QED
        BY <1>6, <1>9, <2>1, <2>2, WrittenRow DEF CancelCommit, Active, In
<1>10. CASE DeleteCommit(r)
    <2>1. req[r].scan \in Scans
        BY <1>10, HoldingRequest DEF DeleteCommit, In, HoldingPCs, RequestRecord
    <2>2. IsActive(s) /\ ~Answers(r, s)
        BY <1>10, <2>1 DEF DeleteCommit, IsActive, Answers, In, Active, BlankRow, TypeOK
    <2>3. QED
        BY <1>10, <2>2, HandlerStepKeepsDriver DEF DeleteCommit, Goto, TypeOK
<1>11. CASE ApiCrash(r)
    <2>1. IsActive(s)
        BY <1>11 DEF ApiCrash, IsActive
    <2>2. Answers(r, s) => s \in orphaned'
        BY <1>11 DEF ApiCrash, Answers
    <2>3. HasDriver(s)' \/ ~Answers(r, s)
        BY <2>2 DEF HasDriver
    <2>4. QED
        BY <1>11, <2>1, <2>3, HandlerStepKeepsDriver DEF ApiCrash, Goto, TypeOK
<1>12. QED
    BY <1>1, <1>2, <1>3, <1>4, <1>5, <1>7, <1>8, <1>9, <1>10, <1>11 DEF Starts, Continues

\* The message that replaces a task drives the same scan.
LEMMA PublishedTaskDrives ==
    ASSUME TypeOK, NEW t \in Tasks, NEW kind \in Kinds, NEW z, NEW n,
           task'[t] = Message(kind, z, n)
    PROVE  Drives(t, z)'
BY DEF Drives, Tokens, Live, WritesNoStatus, At, Message

\* Retiring or handing over touches no other live task.
LEMMA SlotFrame ==
    ASSUME TypeOK, NEW t \in Tasks, Live(t), NEW next, Retire(t) \/ HandOver(t, next)
    PROVE  \A u \in Tasks \ {t} : Live(u) => task'[u] = task[u]
BY DEF Retire, HandOver, TypeOK

\* After a hand-over the successor is in the table.
LEMMA HandOverDrives ==
    ASSUME TypeOK, NEW t \in Tasks, Live(t), NEW kind \in Kinds, NEW n,
           HandOver(t, Message(kind, task[t].scan, n)), NEW s \in Scans, s = task[t].scan
    PROVE  HasDriver(s)'
<1>1. PICK u \in Tasks : task'[u] = Message(kind, task[t].scan, n)
    BY DEF HandOver, TypeOK
<1>2. Drives(u, s)'
    BY <1>1, PublishedTaskDrives
<1>3. QED
    BY <1>2 DEF HasDriver

LEMMA WorkerKeepsActiveHasDriver ==
    ASSUME ConstantsOK, IInv, NEW t \in Tasks,
           Executes(t) \/ PipelineFails(t) \/ StageFails(t) \/ Revoke(t) \/ WorkerLost(t) \/ Redelivered(t)
    PROVE  ActiveHasDriver'
<1> SUFFICES ASSUME NEW s \in Scans, IsActive(s)' PROVE HasDriver(s)'
    BY DEF ActiveHasDriver, HasDriver
<1> USE DEF IInv
<1>1. Live(t) /\ task[t] \in TaskRecord
    BY LiveTask DEF Executes, RunLoad, RunMark, RunPublish, StageStart, StageFinish, StageFails,
        FinaliseLoad, FinaliseCommit, PipelineFails, Revoke, WorkerLost, Redelivered, At
<1>2. task[t].scan \in Scans /\ task[t].snap \in Row /\ task[t].kind \in Kinds
    BY <1>1 DEF TaskRecord
<1>3. ~Drives(t, s) \/ s = task[t].scan
    BY DEF Drives, Tokens
<1>4. ASSUME NEW next \in Phases \ {"loaded"}, task' = [task EXCEPT ![t].phase = next]
      PROVE  s = task[t].scan => HasDriver(s)'
    <2>1. task'[t] = [task[t] EXCEPT !.phase = next]
        BY <1>4 DEF TypeOK
    <2>2. task'[t].phase = next /\ task'[t].scan = task[t].scan
        BY <1>1, <2>1 DEF TaskRecord
    <2>3. s = task[t].scan => Drives(t, s)'
        BY <2>2 DEF Drives, Tokens, Live, WritesNoStatus, At, Phases
    <2>4. QED
        BY <2>3 DEF HasDriver
<1>5. CASE RunLoad(t) \/ FinaliseLoad(t)
    <2>1. IsActive(s)
        BY <1>5 DEF RunLoad, FinaliseLoad, IsActive
    <2>2. CASE s = task[t].scan
        <3>1. task' = [task EXCEPT ![t].phase = "loaded", ![t].snap = rows[s]]
            BY <1>5, <2>1, <2>2 DEF RunLoad, FinaliseLoad, IsActive, Exists, Active
        <3>2. task'[t] = [task[t] EXCEPT !.phase = "loaded", !.snap = rows[s]]
            BY <3>1, <1>1 DEF TypeOK
        <3>3. task'[t].phase = "loaded" /\ task'[t].scan = s /\ task'[t].snap = rows[s]
            BY <1>1, <2>2, <3>2 DEF TaskRecord
        <3>4. Drives(t, s)'
            BY <2>1, <3>3 DEF Drives, Tokens, Live, WritesNoStatus, At, IsActive, Active
        <3>5. \A u \in Tasks \ {t} : Live(u) => task'[u] = task[u]
            BY <3>1 DEF TypeOK
        <3>6. QED
            BY <3>4 DEF HasDriver
    <2>3. CASE s # task[t].scan
        <3>1. \A u \in Tasks \ {t} : Live(u) => task'[u] = task[u]
            BY <1>1, <1>5, SlotFrame DEF RunLoad, FinaliseLoad, TypeOK
        <3>2. QED
            BY <1>3, <1>5, <2>1, <2>3, <3>1, TaskStepKeepsDriver DEF RunLoad, FinaliseLoad
    <2>4. QED
        BY <2>2, <2>3
<1>6. CASE RunMark(t)
    <2>1. CASE Exists(task[t].scan)
        <3>1. task' = [task EXCEPT ![t].phase = "marked"]
            BY <1>6, <2>1 DEF RunMark
        <3>2. s = task[t].scan => HasDriver(s)'
            BY <1>4, <3>1 DEF Phases
        <3>3. s # task[t].scan => IsActive(s)
            BY <1>2, <1>6, <2>1, CommitType, WrittenRow DEF RunMark, IsActive
        <3>4. QED
            BY <1>3, <1>6, <3>1, <3>2, <3>3, TaskStepKeepsDriver DEF RunMark, TypeOK
    <2>2. CASE ~Exists(task[t].scan)
        <3>1. IsActive(s) /\ s # task[t].scan
            BY <1>6, <2>2 DEF RunMark, IsActive, Exists
        <3>2. QED
            BY <1>1, <1>3, <1>6, <2>2, <3>1, SlotFrame, TaskStepKeepsDriver DEF RunMark
    <2>3. QED
        BY <2>1, <2>2
<1>7. ASSUME NEW kind \in Kinds, NEW n, HandOver(t, Message(kind, task[t].scan, n)),
             UNCHANGED <<rows, req, revoked, orphaned>>
      PROVE  HasDriver(s)'
    <2>1. IsActive(s)
        BY <1>7 DEF IsActive
    <2>2. s = task[t].scan => HasDriver(s)'
        BY <1>1, <1>7, HandOverDrives
    <2>3. \A u \in Tasks \ {t} : Live(u) => task'[u] = task[u]
        BY <1>1, <1>7, SlotFrame
    <2>4. QED
        BY <1>3, <1>7, <2>1, <2>2, <2>3, TaskStepKeepsDriver
<1>8. CASE RunPublish(t) \/ StageFinish(t)
    BY <1>7, <1>8 DEF RunPublish, StageFinish, StageFails, Kinds
<1>9. CASE StageStart(t)
    <2>1. task' = [task EXCEPT ![t].phase = "working"]
        BY <1>9 DEF StageStart
    <2>2. s = task[t].scan => HasDriver(s)'
        BY <1>4, <2>1 DEF Phases
    <2>3. s # task[t].scan => IsActive(s)
        BY <1>2, <1>9 DEF StageStart, Commit, IsActive, TypeOK
    <2>4. QED
        BY <1>3, <1>9, <2>1, <2>2, <2>3, TaskStepKeepsDriver DEF StageStart, TypeOK
<1>10. ASSUME Commit(task[t].scan, task[t].snap, Closed(task[t].snap)),
              Retire(t), UNCHANGED <<req, revoked, orphaned>>,
              task[t].snap.status \in {"completed", "cancelled"} => WritesNoStatus(t)
       PROVE  HasDriver(s)'
    <2>1. Closed(task[t].snap) \in Row
        BY <1>2, WrittenRow
    <2>2. Closed(task[t].snap).status =
              IF task[t].snap.status = "cancelled" THEN "cancelled" ELSE "completed"
        BY <1>2 DEF Closed, Row
    <2>3. IsActive(s) /\ (s = task[t].scan => Closed(task[t].snap).status = task[t].snap.status)
        BY <1>2, <1>10, <2>1, <2>2, CommitStatus DEF Terminal, Active
    <2>4. ~Drives(t, s)
        BY <1>3, <1>10, <2>2, <2>3 DEF Drives
    <2>5. QED
        BY <1>1, <1>10, <2>3, <2>4, SlotFrame, TaskStepKeepsDriver
<1>11. CASE FinaliseCommit(t)
    BY <1>10, <1>11 DEF FinaliseCommit, WritesNoStatus, Terminal
<1>12. CASE PipelineFails(t) \/ StageFails(t) \/ Revoke(t)
    <2>1. IsActive(s)
        BY <1>12 DEF PipelineFails, StageFails, Revoke, IsActive
    <2>2. s = task[t].scan => s \in orphaned' \/ \E r \in Requests : Answers(r, s)
        BY <1>12, <2>1 DEF PipelineFails, StageFails, Revoke, CancelPending, In, Answers
    <2>3. HasDriver(s)' \/ (\E r \in Requests : Answers(r, s)) \/ (IsActive(s) /\ ~Drives(t, s))
        BY <1>3, <2>1, <2>2 DEF HasDriver
    <2>4. QED
        BY <1>12, <2>3, TaskStepKeepsDriver DEF PipelineFails, StageFails, Revoke, TypeOK
<1>13. CASE WorkerLost(t) \/ Redelivered(t)
    <2>1. IsActive(s)
        BY <1>13 DEF WorkerLost, Redelivered, IsActive
    <2>2. PICK u \in Tasks : task'[u] = Again(t)
        BY <1>13 DEF WorkerLost, Redelivered, TypeOK
    <2>3. s = task[t].scan => Drives(u, s)'
        BY <1>2, <2>2, PublishedTaskDrives DEF Again
    <2>4. HasDriver(s)' \/ (IsActive(s) /\ ~Drives(t, s))
        BY <1>3, <2>1, <2>3 DEF HasDriver
    <2>5. QED
        BY <1>13, <2>4, TaskStepKeepsDriver DEF WorkerLost, Redelivered, TypeOK
<1>14. QED
    BY <1>5, <1>6, <1>8, <1>9, <1>11, <1>12, <1>13 DEF Executes

\* Only the steps that load a row put one into a snapshot.
LEMMA HandlerKeepsSnapshots ==
    ASSUME ConstantsOK, IInv, NEW r \in Requests, Starts(r) \/ Continues(r) \/ ApiCrash(r)
    PROVE  SnapshotsOK'
<1> USE DEF IInv
<1>1. \A q \in Requests \ {r} : req'[q] = req[q]
    BY DEF Starts, Continues, ApiCrash, CountActive, CancelLoad, DeleteLoad, Insert, DispatchOk,
        DispatchRaises, StoreTaskId, MarkUndispatched, CancelCommit, DeleteCommit, Goto, TypeOK
<1>2. \/ task' = task
      \/ \E u \in Tasks : \E s : task' = [task EXCEPT ![u] = Message("run", s, 0)]
    BY DEF Starts, Continues, ApiCrash, CountActive, CancelLoad, DeleteLoad, Insert, DispatchOk,
        DispatchRaises, StoreTaskId, MarkUndispatched, CancelCommit, DeleteCommit, Publish
<1>3. \A t \in Tasks : At(t, "run", "loaded")' => task'[t] = task[t]
    BY <1>2 DEF At, Live, Message, TypeOK
<1> DEFINE HoldsOK == /\ req'[r].pc \in {"inserted", "refused"} => req'[r].snap.status = "queued"
                      /\ req'[r].pc = "cancelling" => req'[r].snap.status \in Active
<1>4. HoldsOK
    <2>1. CASE CountActive(r) \/ StoreTaskId(r) \/ MarkUndispatched(r) \/ CancelCommit(r)
               \/ DeleteCommit(r) \/ ApiCrash(r)
        BY <2>1 DEF CountActive, StoreTaskId, MarkUndispatched, CancelCommit, DeleteCommit, ApiCrash,
            Goto, Idle, Counted, TypeOK
    <2>2. ASSUME NEW s \in Scans, CancelLoad(r, s) \/ DeleteLoad(r, s) \/ Insert(r, s)
          PROVE  HoldsOK
        BY <2>2 DEF CancelLoad, DeleteLoad, Insert, Goto, Holding, IsActive, BlankRow, TypeOK
    <2>3. CASE DispatchOk(r) \/ DispatchRaises(r)
        <3>1. req[r] \in RequestRecord /\ req[r].snap.status = "queued"
            BY <2>3, HoldingRequest DEF DispatchOk, DispatchRaises, In, HoldingPCs, SnapshotsOK
        <3>2. \E pc \in {"accepted", "refused"} : req'[r] = [req[r] EXCEPT !.pc = pc]
            BY <2>3 DEF DispatchOk, DispatchRaises, Goto, TypeOK
        <3>3. QED
            BY <3>1, <3>2 DEF RequestRecord
    <2>4. QED
        BY <2>1, <2>2, <2>3 DEF Starts, Continues
<1>5. QED
    BY <1>1, <1>3, <1>4 DEF SnapshotsOK, In, At, Live

LEMMA WorkerKeepsSnapshots ==
    ASSUME ConstantsOK, IInv, NEW t \in Tasks,
           Executes(t) \/ PipelineFails(t) \/ StageFails(t) \/ Revoke(t) \/ WorkerLost(t) \/ Redelivered(t)
    PROVE  SnapshotsOK'
<1> USE DEF IInv
<1>1. req' = req
    BY DEF Executes, RunLoad, RunMark, RunPublish, StageStart, StageFinish, StageFails,
        FinaliseLoad, FinaliseCommit, PipelineFails, Revoke, WorkerLost, Redelivered
<1>2. SUFFICES ASSUME NEW u \in Tasks, At(u, "run", "loaded")'
               PROVE  task'[u].snap.status # "cancelled"
    BY <1>1 DEF SnapshotsOK, In, At, Live
<1>3. CASE task'[u] = task[u]
    BY <1>2, <1>3 DEF SnapshotsOK, At, Live
<1>4. CASE RunLoad(t) /\ task'[u] # task[u]
    <2>1. Retire(t) => u = t /\ FALSE
        BY <1>2, <1>4 DEF Retire, Again, Message, NoTask, At, Live, TypeOK
    <2>2. task' = [task EXCEPT ![t].phase = "loaded", ![t].snap = rows[task[t].scan]]
        BY <1>4, <2>1 DEF RunLoad
    <2>3. u = t /\ task'[t] = [task[t] EXCEPT !.phase = "loaded", !.snap = rows[task[t].scan]]
        BY <1>4, <2>2 DEF TypeOK
    <2>4. task[t] \in TaskRecord
        BY <1>4, LiveTask DEF RunLoad, At
    <2>5. task'[t].snap = rows[task[t].scan]
        BY <2>3, <2>4 DEF TaskRecord
    <2>6. rows[task[t].scan].status # "cancelled"
        BY <1>4, <2>1 DEF RunLoad
    <2>7. QED
        BY <2>3, <2>5, <2>6
<1>5. CASE ~RunLoad(t) /\ task'[u] # task[u]
    <2>1. Live(t) /\ task[t] \in TaskRecord
        BY LiveTask DEF Executes, RunLoad, RunMark, RunPublish, StageStart, StageFinish, StageFails,
            FinaliseLoad, FinaliseCommit, PipelineFails, Revoke, WorkerLost, Redelivered, At
    <2>2. ASSUME NEW next, next = "marked" \/ next = "working", task' = [task EXCEPT ![t].phase = next]
          PROVE  FALSE
        <3>1. u = t /\ task'[t] = [task[t] EXCEPT !.phase = next]
            BY <1>5, <2>2 DEF TypeOK
        <3>2. QED
            BY <1>2, <2>1, <2>2, <3>1 DEF TaskRecord, At
    <2>3. ASSUME NEW kind, NEW s, NEW n, Retire(t) \/ HandOver(t, Message(kind, s, n))
          PROVE  FALSE
        BY <1>2, <1>5, <2>3 DEF Retire, HandOver, Again, Message, NoTask, At, Live, TypeOK
    <2>4. CASE RunMark(t) \/ StageStart(t)
        BY <2>2, <2>3, <2>4 DEF RunMark, StageStart
    <2>5. CASE RunPublish(t) \/ StageFinish(t) \/ FinaliseCommit(t)
        BY <2>3, <2>5 DEF RunPublish, StageFinish, StageFails, FinaliseCommit
    <2>6. CASE FinaliseLoad(t)
        <3>1. task' = [task EXCEPT ![t].phase = "loaded", ![t].snap = rows[task[t].scan]]
            BY <2>3, <2>6 DEF FinaliseLoad
        <3>2. u = t /\ task'[t] = [task[t] EXCEPT !.phase = "loaded", !.snap = rows[task[t].scan]]
            BY <1>5, <3>1 DEF TypeOK
        <3>3. task'[t].kind = task[t].kind
            BY <2>1, <3>2 DEF TaskRecord
        <3>4. QED
            BY <1>2, <2>6, <3>2, <3>3 DEF FinaliseLoad, At
    <2>7. CASE PipelineFails(t) \/ StageFails(t) \/ Revoke(t) \/ WorkerLost(t) \/ Redelivered(t)
        BY <1>2, <1>5, <2>7 DEF PipelineFails, StageFails, Revoke, WorkerLost, Redelivered, Again, Message,
            NoTask, At, Live, TypeOK
    <2>8. QED
        BY <1>5, <2>4, <2>5, <2>6, <2>7 DEF Executes
<1>6. QED
    BY <1>3, <1>4, <1>5

LEMMA Inductive ==
    /\ Init => IInv
    /\ IInv /\ [Next]_vars => IInv'
<1>1. ASSUME Init PROVE SnapshotsOK /\ ActiveHasDriver
    BY <1>1 DEF Init, SnapshotsOK, ActiveHasDriver, IsActive, Active, NoRow, BlankRow, NoTask, Idle,
        In, At, Live
<1>2. ASSUME TypeOK, SnapshotsOK, ActiveHasDriver, [Next]_vars PROVE SnapshotsOK' /\ ActiveHasDriver'
    <2>1. ASSUME NEW r \in Requests, Starts(r) \/ Continues(r) \/ ApiCrash(r)
          PROVE  SnapshotsOK' /\ ActiveHasDriver'
        BY <1>2, <2>1, ConstantsOK, HandlerKeepsSnapshots, HandlerKeepsActiveHasDriver DEF IInv
    <2>2. ASSUME NEW t \in Tasks,
                 Executes(t) \/ PipelineFails(t) \/ StageFails(t) \/ Revoke(t) \/ WorkerLost(t) \/ Redelivered(t)
          PROVE  SnapshotsOK' /\ ActiveHasDriver'
        BY <1>2, <2>2, ConstantsOK, WorkerKeepsSnapshots, WorkerKeepsActiveHasDriver DEF IInv
    <2>3. ASSUME NEW z \in Scans, Prune(z) PROVE SnapshotsOK' /\ ActiveHasDriver'
        <3>1. \A s \in Scans : IsActive(s)' => IsActive(s)
            BY <1>2, <2>3 DEF Prune, IsActive, Active, BlankRow, TypeOK
        <3>2. QED
            BY <1>2, <2>3, <3>1 DEF Prune, SnapshotsOK, ActiveHasDriver, In, At, Live, Drives, Tokens,
                WritesNoStatus, Answers
    <2>4. CASE UNCHANGED vars
        BY <1>2, <2>4 DEF vars, SnapshotsOK, ActiveHasDriver, IsActive, In, At, Live, Drives, Tokens,
            WritesNoStatus, Answers
    <2>5. QED
        BY <1>2, <2>1, <2>2, <2>3, <2>4 DEF Next
<1>3. (Init => TypeOK) /\ (TypeOK /\ [Next]_vars => TypeOK')
    BY TypeInductive
<1>4. QED
    BY <1>1, <1>2, <1>3 DEF IInv

\* An active scan has somebody on the way to end it: a message, a task or a
\* handler, whatever the interleaving, the crashes and the repeated deliveries,
\* unless its handler died, or its run_pipeline or one of its modules failed.
THEOREM ActiveScansHaveDrivers == Spec => []ActiveHasDriver
<1>1. IInv => ActiveHasDriver
    BY DEF IInv
<1>2. QED
    BY <1>1, Inductive, PTL DEF Spec

-----------------------------------------------------------------------------
(* CancelHolds.                                                             *)

\* The commit of a callback that read the cancelled row leaves it cancelled.
LEMMA CallbackRespectsCancel ==
    ASSUME ConstantsOK, TypeOK, NEW z \in Scans, NEW old \in Row,
           Commit(z, old, Closed(old)), old.status = "cancelled",
           rows[z].status = "cancelled"
    PROVE  rows'[z].status = "cancelled"
<1>1. Closed(old) \in Row /\ Closed(old).status = "cancelled"
    BY WrittenRow DEF Closed, Row
<1>2. QED
    BY <1>1, CommitType DEF Column, Exists, Terminal

LEMMA StepRespectsCancel ==
    ASSUME ConstantsOK, IInv, Next, NEW s \in Scans, rows[s].status = "cancelled", ~StaleWriter(s)
    PROVE  rows'[s].status \in {"cancelled", "deleted"}
<1> USE DEF IInv
<1>1. ASSUME NEW r \in Requests, Starts(r) \/ Continues(r) \/ ApiCrash(r)
      PROVE  rows'[s].status \in {"cancelled", "deleted"}
    <2>1. CASE rows' = rows
        BY <2>1
    <2>2. ASSUME NEW z \in Scans, Insert(r, z) PROVE rows'[s].status = "cancelled"
        BY <2>2 DEF Insert, TypeOK
    <2>3. CASE DeleteCommit(r)
        BY <2>3 DEF DeleteCommit, BlankRow, TypeOK
    <2>4. CASE StoreTaskId(r) \/ MarkUndispatched(r) \/ CancelCommit(r)
        <3>1. req[r].scan \in Scans /\ req[r].snap \in Row
            BY <2>4, HoldingRequest DEF StoreTaskId, MarkUndispatched, CancelCommit, In, HoldingPCs,
                RequestRecord
        <3>2. CASE s # req[r].scan
            BY <2>4, <3>1, <3>2, CommitType, WrittenRow DEF StoreTaskId, MarkUndispatched, CancelCommit
        <3>3. CASE s = req[r].scan /\ MarkUndispatched(r)
            BY <3>3 DEF MarkUndispatched, StaleWriter
        <3>4. CASE s = req[r].scan /\ StoreTaskId(r)
            <4>1. [req[r].snap EXCEPT !.dispatched = TRUE].status = req[r].snap.status
                BY <3>1 DEF Row
            <4>2. QED
                BY <3>1, <3>4, <4>1, CommitType, WrittenRow DEF StoreTaskId, Column, Exists, Terminal
        <3>5. CASE s = req[r].scan /\ CancelCommit(r)
            <4>1. [req[r].snap EXCEPT !.status = "cancelled", !.closed = TRUE, !.stage = NoStage].status
                    = "cancelled"
                BY <3>1 DEF Row
            <4>2. QED
                BY <3>1, <3>5, <4>1, CommitType, WrittenRow DEF CancelCommit, Column, Exists, Terminal
        <3>6. QED
            BY <2>4, <3>2, <3>3, <3>4, <3>5
    <2>5. QED
        BY <1>1, <2>1, <2>2, <2>3, <2>4 DEF Starts, Continues, ApiCrash, CountActive, CancelLoad,
            DeleteLoad, DispatchOk, DispatchRaises
<1>2. ASSUME NEW t \in Tasks,
             Executes(t) \/ PipelineFails(t) \/ StageFails(t) \/ Revoke(t) \/ WorkerLost(t) \/ Redelivered(t)
      PROVE  rows'[s].status \in {"cancelled", "deleted"}
    <2>1. CASE rows' = rows
        BY <2>1
    <2>2. CASE RunMark(t) \/ StageStart(t) \/ FinaliseCommit(t)
        <3>1. Live(t) /\ task[t] \in TaskRecord
            BY <2>2, LiveTask DEF RunMark, StageStart, FinaliseCommit, At
        <3>2. task[t].scan \in Scans /\ task[t].snap \in Row
            BY <3>1 DEF TaskRecord
        <3>3. CASE StageStart(t)
            BY <3>2, <3>3 DEF StageStart, Commit, Merge, Column, TypeOK, Row
        <3>4. CASE ~StageStart(t) /\ s # task[t].scan
            BY <2>2, <3>2, <3>4, CommitType, WrittenRow DEF RunMark, FinaliseCommit, Terminal
        <3>5. CASE ~StageStart(t) /\ s = task[t].scan
            <4>1. task[t].snap.status = "cancelled"
                BY <2>2, <3>1, <3>5 DEF RunMark, FinaliseCommit, At, StaleWriter, Tokens
            <4>2. ~RunMark(t)
                BY <4>1 DEF RunMark, SnapshotsOK
            <4>3. QED
                BY <2>2, <3>2, <3>5, <4>1, <4>2, CallbackRespectsCancel DEF FinaliseCommit,
                    Terminal
        <3>6. QED
            BY <3>3, <3>4, <3>5
    <2>3. QED
        BY <1>2, <2>1, <2>2 DEF Executes, RunLoad, RunPublish, StageFinish, StageFails, FinaliseLoad,
            PipelineFails, Revoke, WorkerLost, Redelivered
<1>3. ASSUME NEW z \in Scans, Prune(z) PROVE rows'[s].status \in {"cancelled", "deleted"}
    BY <1>3 DEF Prune, BlankRow, TypeOK
<1>4. QED
    BY <1>1, <1>2, <1>3 DEF Next

\* A cancelled scan stays cancelled until it is deleted, unless a task or a
\* handler read the row before the cancel was committed.
THEOREM CancelledScansHold == Spec => CancelHolds
<1>1. IInv /\ [Next]_vars =>
        [\A s \in Scans : rows[s].status = "cancelled" /\ ~StaleWriter(s)
            => rows'[s].status \in {"cancelled", "deleted"}]_vars
    BY ConstantsOK, StepRespectsCancel
<1>2. QED
    BY <1>1, Inductive, PTL DEF Spec, CancelHolds

-----------------------------------------------------------------------------
(* ImplementsBoard.  A step that writes a status is a step of ScanBoard, or   *)
(* an overwriting, if its snapshot was none that ScanBoard would have ended:  *)
(* as long as a scan has one writer, nobody loads a row that was completed or *)
(* failed in order to write it.                                               *)

\* The handler has committed the row and has not handed it to a task yet.
Undispatched(r) == req[r].pc \in {"inserted", "refused"}

\* No writer but the one that is still to come ends this scan.
Unended(s) == rows[s].status \in Active \cup {"cancelled", "deleted"}

OneWriter ==
    /\ \A t, u \in Tasks : Live(t) /\ Live(u) /\ task[t].scan = task[u].scan => t = u
    /\ \A r, q \in Requests :
            Undispatched(r) /\ Undispatched(q) /\ req[r].scan = req[q].scan => r = q
    /\ \A r \in Requests, t \in Tasks :
            Undispatched(r) /\ Live(t) => req[r].scan # task[t].scan
    /\ \A r \in Requests : Undispatched(r) => Unended(req[r].scan)
    /\ \A t \in Tasks : Live(t) => Unended(task[t].scan)
    /\ \A t \in Tasks : task[t].phase = "loaded" => task[t].snap.status \in Active \cup {"cancelled"}

BoardInv == IInv /\ (SingleWriter => OneWriter)

\* A step in which nobody becomes a second writer counts no fault that makes one.
LEMMA WriterFault ==
    ASSUME TypeOK, NEW k \in FaultKinds, Fault(k) \/ NoFault, SingleWriter'
    PROVE  /\ SingleWriter
           /\ Fault(k) => k \notin {"worker", "redelivery", "ambiguous"}
<1> DEFINE Kind == {"worker", "redelivery", "ambiguous"}
<1>1. \A j \in FaultKinds : faults[j] \in Nat /\ faults'[j] \in Nat /\ faults'[j] >= faults[j]
    BY DEF TypeOK, Fault, NoFault
<1>2. "worker" \in FaultKinds /\ "redelivery" \in FaultKinds /\ "ambiguous" \in FaultKinds
    BY DEF FaultKinds
<1>3. faults'["worker"] = 0 /\ faults'["redelivery"] = 0 /\ faults'["ambiguous"] = 0
    BY <1>1, <1>2 DEF SingleWriter
<1>4. SingleWriter
    BY <1>1, <1>2, <1>3 DEF SingleWriter
<1>5. ASSUME Fault(k) PROVE faults'[k] > 0
    BY <1>5 DEF TypeOK, Fault
<1>6. QED
    BY <1>3, <1>4, <1>5

\* With one writer, a task that returns is gone, and one that hands over is
\* followed by its successor.
LEMMA SingleRetire ==
    ASSUME TypeOK, NEW t \in Tasks, Retire(t), SingleWriter'
    PROVE  SingleWriter /\ task' = [task EXCEPT ![t] = NoTask]
BY WriterFault DEF Retire, FaultKinds

LEMMA SingleHandOver ==
    ASSUME TypeOK, NEW t \in Tasks, NEW next, HandOver(t, next), SingleWriter'
    PROVE  SingleWriter /\ task' = [task EXCEPT ![t] = next]
BY WriterFault DEF HandOver, FaultKinds

\* A commit that writes no status but "running" or "cancelled", or nothing, ends
\* no scan for its next writer.
LEMMA CommitKeepsUnended ==
    ASSUME ConstantsOK, TypeOK, NEW z \in Scans, NEW old \in Row, NEW new \in Row,
           Commit(z, old, new), new.status \in {old.status, "running", "cancelled"},
           NEW s \in Scans, Unended(s)
    PROVE  Unended(s)'
<1>1. CASE s = z
    BY <1>1, CommitType DEF Unended, Column, Active
<1>2. CASE s # z
    BY <1>2, CommitType DEF Unended
<1>3. QED
    BY <1>1, <1>2

\* A step of one task: it stays with its scan, or it is gone and may have ended it.
LEMMA TaskStepOneWriter ==
    ASSUME TypeOK, OneWriter, NEW t \in Tasks, Live(t), req' = req,
           \A u \in Tasks \ {t} : task'[u] = task[u],
           \/ task'[t] = NoTask
           \/ /\ task'[t].scan = task[t].scan
              /\ task'[t].phase = "loaded"
                    => task'[t].snap.status \in Active \cup {"cancelled"},
           \A s \in Scans : Unended(s) => Unended(s)' \/ (s = task[t].scan /\ task'[t] = NoTask)
    PROVE  OneWriter'
<1>1. \A u \in Tasks : Live(u)' => Live(u) /\ task'[u].scan = task[u].scan
    BY DEF Live, NoTask
<1>2. \A r \in Requests : Undispatched(r)' <=> Undispatched(r)
    BY DEF Undispatched
<1>3. \A u \in Tasks : Live(u) => task[u].scan \in Scans
    BY LiveTask DEF TaskRecord
<1>4. \A r \in Requests : Undispatched(r) => req[r].scan \in Scans
    BY HoldingRequest DEF Undispatched, HoldingPCs, RequestRecord
<1>5. \A t1, u \in Tasks : Live(t1)' /\ Live(u)' /\ task'[t1].scan = task'[u].scan => t1 = u
    BY <1>1 DEF OneWriter
<1>6. \A r \in Requests, u \in Tasks : Undispatched(r)' /\ Live(u)' => req'[r].scan # task'[u].scan
    BY <1>1, <1>2 DEF OneWriter
<1>7. \A r \in Requests : Undispatched(r)' => Unended(req[r].scan)'
    <2>1. SUFFICES ASSUME NEW r \in Requests, Undispatched(r)', NEW s \in Scans, s = req[r].scan
                   PROVE  Unended(s)'
        BY <1>2, <1>4 DEF Unended
    <2>2. Unended(s) /\ s # task[t].scan
        BY <1>2, <2>1 DEF OneWriter
    <2>3. QED
        BY <2>2
<1>8. \A u \in Tasks : Live(u)' => Unended(task[u].scan)'
    <2>1. SUFFICES ASSUME NEW u \in Tasks, Live(u)', NEW s \in Scans, s = task[u].scan
                   PROVE  Unended(s)'
        BY <1>1, <1>3 DEF Unended
    <2>2. Live(u) /\ Unended(s)
        BY <1>1, <2>1 DEF OneWriter
    <2>3. ~(s = task[t].scan /\ task'[t] = NoTask)
        BY <2>1, <2>2 DEF OneWriter, Live, NoTask
    <2>4. QED
        BY <2>2, <2>3
<1>9. \A u \in Tasks : task'[u].phase = "loaded" => task'[u].snap.status \in Active \cup {"cancelled"}
    BY DEF OneWriter, NoTask
<1>10. \A r, q \in Requests :
            Undispatched(r)' /\ Undispatched(q)' /\ req'[r].scan = req'[q].scan => r = q
    BY <1>2 DEF OneWriter
<1>11. QED
    BY <1>5, <1>6, <1>7, <1>8, <1>9, <1>10 DEF OneWriter

\* A step of one handler: it does not take up another scan, and ends the one it
\* had not dispatched only if it lets it go.
LEMMA HandlerStepOneWriter ==
    ASSUME TypeOK, OneWriter, NEW r \in Requests, task' = task,
           \A q \in Requests \ {r} : req'[q] = req[q],
           Undispatched(r)' => Undispatched(r) /\ req'[r].scan = req[r].scan,
           \A s \in Scans : Unended(s) =>
                Unended(s)' \/ (Undispatched(r) /\ s = req[r].scan /\ ~Undispatched(r)')
    PROVE  OneWriter'
<1>1. \A q \in Requests : Undispatched(q)' => Undispatched(q) /\ req'[q].scan = req[q].scan
    BY DEF Undispatched
<1>2. \A u \in Tasks : Live(u)' <=> Live(u)
    BY DEF Live
<1>3. \A u \in Tasks : Live(u) => task[u].scan \in Scans
    BY LiveTask DEF TaskRecord
<1>4. \A q \in Requests : Undispatched(q) => req[q].scan \in Scans
    BY HoldingRequest DEF Undispatched, HoldingPCs, RequestRecord
<1>5. \A q \in Requests : Undispatched(q)' => Unended(req[q].scan)'
    <2>1. SUFFICES ASSUME NEW q \in Requests, Undispatched(q)', NEW s \in Scans, s = req[q].scan
                   PROVE  Unended(s)'
        BY <1>1, <1>4 DEF Unended
    <2>2. Undispatched(q) /\ Unended(s)
        BY <1>1, <2>1 DEF OneWriter
    <2>3. ~(Undispatched(r) /\ s = req[r].scan /\ ~Undispatched(r)')
        BY <2>1, <2>2 DEF OneWriter
    <2>4. QED
        BY <2>2, <2>3
<1>6. \A u \in Tasks : Live(u)' => Unended(task[u].scan)'
    <2>1. SUFFICES ASSUME NEW u \in Tasks, Live(u)', NEW s \in Scans, s = task[u].scan
                   PROVE  Unended(s)'
        BY <1>2, <1>3 DEF Unended
    <2>2. Unended(s) /\ ~(Undispatched(r) /\ s = req[r].scan)
        BY <1>2, <2>1 DEF OneWriter
    <2>3. QED
        BY <2>2
<1>8. /\ \A t, u \in Tasks : Live(t)' /\ Live(u)' /\ task'[t].scan = task'[u].scan => t = u
      /\ \A p, q \in Requests :
            Undispatched(p)' /\ Undispatched(q)' /\ req'[p].scan = req'[q].scan => p = q
      /\ \A q \in Requests, t \in Tasks :
            Undispatched(q)' /\ Live(t)' => req'[q].scan # task'[t].scan
      /\ \A t \in Tasks : task'[t].phase = "loaded"
            => task'[t].snap.status \in Active \cup {"cancelled"}
    BY <1>1, <1>2 DEF OneWriter
<1>9. QED
    BY <1>5, <1>6, <1>8 DEF OneWriter

LEMMA HandlerKeepsOneWriter ==
    ASSUME ConstantsOK, IInv, OneWriter, SingleWriter', NEW r \in Requests,
           Starts(r) \/ Continues(r) \/ ApiCrash(r)
    PROVE  OneWriter'
<1> USE DEF IInv
<1>1. CASE CountActive(r) \/ ApiCrash(r)
    <2>1. ~Undispatched(r)' /\ task' = task /\ rows' = rows
        BY <1>1 DEF CountActive, ApiCrash, Goto, Undispatched, Idle, Counted, TypeOK
    <2>2. QED
        BY <1>1, <2>1, HandlerStepOneWriter DEF CountActive, ApiCrash, Goto, Unended, TypeOK
<1>2. ASSUME NEW s \in Scans, CancelLoad(r, s) \/ DeleteLoad(r, s) PROVE OneWriter'
    <2>1. ~Undispatched(r)' /\ task' = task /\ rows' = rows
        BY <1>2 DEF CancelLoad, DeleteLoad, Goto, Undispatched, Holding, TypeOK
    <2>2. QED
        BY <1>2, <2>1, HandlerStepOneWriter DEF CancelLoad, DeleteLoad, Goto, Unended, TypeOK
<1>3. ASSUME NEW s \in Scans, Insert(r, s) PROVE OneWriter'
    <2>1. ~Unended(s) /\ ~Undispatched(r)
        BY <1>3 DEF Insert, In, Undispatched, Unended, Active
    <2>2. /\ \A q \in Requests : Undispatched(q) => req[q].scan # s /\ req[q].scan \in Scans
          /\ \A t \in Tasks : Live(t) => task[t].scan # s /\ task[t].scan \in Scans
        BY <2>1, HoldingRequest, LiveTask DEF OneWriter, Undispatched, HoldingPCs, RequestRecord,
            TaskRecord
    <2>3. /\ req' = [req EXCEPT ![r] = Holding("inserted", s, BlankRow("queued"))]
          /\ task' = task
          /\ rows' = [rows EXCEPT ![s] = BlankRow("queued")]
        BY <1>3 DEF Insert, Goto
    <2>4. /\ Undispatched(r)' /\ req'[r].scan = s
          /\ \A q \in Requests \ {r} : req'[q] = req[q]
        BY <2>3 DEF Undispatched, Holding, TypeOK
    <2>5. /\ rows'[s].status = "queued"
          /\ \A z \in Scans \ {s} : rows'[z] = rows[z]
        BY <2>3 DEF BlankRow, TypeOK
    <2>6. \A q \in Requests : Undispatched(q)' =>
                /\ q # r => Undispatched(q) /\ req'[q].scan = req[q].scan
                /\ rows'[req'[q].scan].status \in Active \cup {"cancelled", "deleted"}
        BY <2>2, <2>4, <2>5 DEF OneWriter, Undispatched, Unended, Active
    <2>7. \A t \in Tasks : Live(t)' => Live(t) /\ task'[t] = task[t]
                /\ rows'[task'[t].scan].status \in Active \cup {"cancelled", "deleted"}
        BY <2>2, <2>3, <2>5 DEF OneWriter, Live, Unended
    <2>8. /\ \A q \in Requests : Undispatched(q)' => Unended(req[q].scan)'
          /\ \A t \in Tasks : Live(t)' => Unended(task[t].scan)'
        BY <2>6, <2>7 DEF Unended
    <2>9. /\ \A t, u \in Tasks : Live(t)' /\ Live(u)' /\ task'[t].scan = task'[u].scan => t = u
          /\ \A t \in Tasks : task'[t].phase = "loaded"
                => task'[t].snap.status \in Active \cup {"cancelled"}
        BY <2>3, <2>7 DEF OneWriter
    <2>10. /\ \A p, q \in Requests :
                Undispatched(p)' /\ Undispatched(q)' /\ req'[p].scan = req'[q].scan => p = q
           /\ \A q \in Requests, t \in Tasks :
                Undispatched(q)' /\ Live(t)' => req'[q].scan # task'[t].scan
        BY <2>2, <2>4, <2>6, <2>7 DEF OneWriter
    <2>11. QED
        BY <2>8, <2>9, <2>10 DEF OneWriter
<1>4. CASE DispatchOk(r)
    <2>1. Undispatched(r) /\ req[r] \in RequestRecord
        BY <1>4, HoldingRequest DEF DispatchOk, In, Undispatched, HoldingPCs
    <2>2. PICK u \in Tasks : ~Live(u) /\ task' = [task EXCEPT ![u] = Message("run", req[r].scan, 0)]
        BY <1>4 DEF DispatchOk, Publish
    <2>3. /\ ~Undispatched(r)' /\ rows' = rows
          /\ \A q \in Requests \ {r} : req'[q] = req[q]
        BY <1>4, <2>1 DEF DispatchOk, Goto, Undispatched, RequestRecord, TypeOK
    <2>4. /\ task'[u].scan = req[r].scan /\ task'[u].phase = "ready"
          /\ \A t \in Tasks \ {u} : task'[t] = task[t]
        BY <2>2 DEF Message, TypeOK
    <2>5. \A q \in Requests : Undispatched(q)' =>
                q # r /\ Undispatched(q) /\ req'[q].scan = req[q].scan
        BY <2>3 DEF Undispatched
    <2>6. \A t \in Tasks : t # u => (Live(t)' => Live(t) /\ task'[t].scan = task[t].scan)
        BY <2>4 DEF Live
    <2>7. /\ \A q \in Requests : Undispatched(q)' => Unended(req[q].scan)'
          /\ \A t \in Tasks : Live(t)' => Unended(task[t].scan)'
        BY <2>1, <2>3, <2>4, <2>5, <2>6 DEF OneWriter, Unended
    <2>8. /\ \A t, w \in Tasks : Live(t)' /\ Live(w)' /\ task'[t].scan = task'[w].scan => t = w
          /\ \A q \in Requests, t \in Tasks :
                Undispatched(q)' /\ Live(t)' => req'[q].scan # task'[t].scan
        BY <2>1, <2>4, <2>5, <2>6 DEF OneWriter
    <2>9. \A p, q \in Requests :
                Undispatched(p)' /\ Undispatched(q)' /\ req'[p].scan = req'[q].scan => p = q
        BY <2>5 DEF OneWriter
    <2>10. \A t \in Tasks : task'[t].phase = "loaded"
                => task'[t].snap.status \in Active \cup {"cancelled"}
        BY <2>4 DEF OneWriter
    <2>11. QED
        BY <2>7, <2>8, <2>9, <2>10 DEF OneWriter
<1>5. CASE DispatchRaises(r)
    <2>1. Undispatched(r) /\ req[r] \in RequestRecord
        BY <1>5, HoldingRequest DEF DispatchRaises, In, Undispatched, HoldingPCs
    <2>2. task' = task /\ rows' = rows
        BY <1>5, WriterFault DEF DispatchRaises, FaultKinds
    <2>3. req'[r].scan = req[r].scan /\ \A q \in Requests \ {r} : req'[q] = req[q]
        BY <1>5, <2>1 DEF DispatchRaises, Goto, RequestRecord, TypeOK
    <2>4. QED
        BY <2>1, <2>2, <2>3, HandlerStepOneWriter DEF Unended
<1>6. CASE StoreTaskId(r) \/ CancelCommit(r)
    <2>1. req[r].scan \in Scans /\ req[r].snap \in Row
        BY <1>6, HoldingRequest DEF StoreTaskId, CancelCommit, In, HoldingPCs, RequestRecord
    <2>2. ~Undispatched(r)' /\ \A q \in Requests \ {r} : req'[q] = req[q]
        BY <1>6 DEF StoreTaskId, CancelCommit, Goto, Idle, Undispatched, TypeOK
    <2>3. PICK new \in Row : /\ Commit(req[r].scan, req[r].snap, new)
                             /\ new.status \in {req[r].snap.status, "cancelled"}
        <3>1. CASE StoreTaskId(r)
            <4>1. [req[r].snap EXCEPT !.dispatched = TRUE].status = req[r].snap.status
                BY <2>1 DEF Row
            <4>2. QED
                BY <2>1, <3>1, <4>1, WrittenRow DEF StoreTaskId
        <3>2. CASE CancelCommit(r)
            <4>1. [req[r].snap EXCEPT !.status = "cancelled", !.closed = TRUE, !.stage = NoStage].status
                    = "cancelled"
                BY <2>1 DEF Row
            <4>2. QED
                BY <2>1, <3>2, <4>1, WrittenRow DEF CancelCommit
        <3>3. QED
            BY <1>6, <3>1, <3>2
    <2>4. \A s \in Scans : Unended(s) => Unended(s)'
        BY <2>1, <2>3, CommitKeepsUnended
    <2>5. task' = task
        BY <1>6 DEF StoreTaskId, CancelCommit
    <2>6. QED
        BY <2>2, <2>4, <2>5, HandlerStepOneWriter
<1>7. CASE MarkUndispatched(r)
    <2>1. req[r].scan \in Scans /\ req[r].snap \in Row /\ Undispatched(r)
        BY <1>7, HoldingRequest DEF MarkUndispatched, In, HoldingPCs, RequestRecord, Undispatched
    <2>2. ~Undispatched(r)' /\ \A q \in Requests \ {r} : req'[q] = req[q]
        BY <1>7 DEF MarkUndispatched, Goto, Idle, Undispatched, TypeOK
    <2>3. \A s \in Scans \ {req[r].scan} : rows'[s] = rows[s]
        BY <1>7, <2>1, WrittenRow, CommitType DEF MarkUndispatched
    <2>4. task' = task
        BY <1>7 DEF MarkUndispatched
    <2>5. QED
        BY <2>1, <2>2, <2>3, <2>4, HandlerStepOneWriter DEF Unended
<1>8. CASE DeleteCommit(r)
    <2>1. ~Undispatched(r)' /\ \A q \in Requests \ {r} : req'[q] = req[q]
        BY <1>8 DEF DeleteCommit, Goto, Idle, Undispatched, TypeOK
    <2>2. \A s \in Scans : Unended(s) => Unended(s)'
        BY <1>8 DEF DeleteCommit, Unended, BlankRow, TypeOK
    <2>3. task' = task
        BY <1>8 DEF DeleteCommit
    <2>4. QED
        BY <2>1, <2>2, <2>3, HandlerStepOneWriter
<1>9. QED
    BY <1>1, <1>2, <1>3, <1>4, <1>5, <1>6, <1>7, <1>8 DEF Starts, Continues

LEMMA WorkerKeepsOneWriter ==
    ASSUME ConstantsOK, IInv, OneWriter, SingleWriter', NEW t \in Tasks,
           Executes(t) \/ PipelineFails(t) \/ StageFails(t) \/ Revoke(t) \/ WorkerLost(t) \/ Redelivered(t)
    PROVE  OneWriter'
<1> USE DEF IInv
<1>1. Live(t) /\ task[t] \in TaskRecord
    BY LiveTask DEF Executes, RunLoad, RunMark, RunPublish, StageStart, StageFinish, StageFails,
        FinaliseLoad, FinaliseCommit, PipelineFails, Revoke, WorkerLost, Redelivered, At
<1>2. task[t].scan \in Scans /\ task[t].snap \in Row /\ task[t].phase # "none"
    BY <1>1 DEF TaskRecord, Phases
<1>3. req' = req
    BY DEF Executes, RunLoad, RunMark, RunPublish, StageStart, StageFinish, StageFails,
        FinaliseLoad, FinaliseCommit, PipelineFails, Revoke, WorkerLost, Redelivered
<1>4. ASSUME task' = [task EXCEPT ![t] = NoTask],
             \A s \in Scans \ {task[t].scan} : rows'[s].status = rows[s].status
      PROVE  OneWriter'
    BY <1>1, <1>3, <1>4, TaskStepOneWriter DEF Unended, TypeOK
<1>5. ASSUME NEW kind, NEW n, HandOver(t, Message(kind, task[t].scan, n)), rows' = rows
      PROVE  OneWriter'
    <2>1. task' = [task EXCEPT ![t] = Message(kind, task[t].scan, n)]
        BY <1>5, SingleHandOver
    <2>2. task'[t].scan = task[t].scan /\ task'[t].phase = "ready"
          /\ \A u \in Tasks \ {t} : task'[u] = task[u]
        BY <2>1 DEF Message, TypeOK
    <2>3. QED
        BY <1>1, <1>3, <1>5, <2>2, TaskStepOneWriter DEF Unended
<1>6. ASSUME task' = [task EXCEPT ![t].phase = "loaded", ![t].snap = rows[task[t].scan]],
             Exists(task[t].scan), rows' = rows
      PROVE  OneWriter'
    <2>1. task'[t] = [task[t] EXCEPT !.phase = "loaded", !.snap = rows[task[t].scan]]
          /\ \A u \in Tasks \ {t} : task'[u] = task[u]
        BY <1>6 DEF TypeOK
    <2>2. task'[t].scan = task[t].scan /\ task'[t].snap = rows[task[t].scan]
        BY <1>1, <2>1 DEF TaskRecord
    <2>3. rows[task[t].scan].status \in Active \cup {"cancelled"}
        BY <1>1, <1>6 DEF OneWriter, Unended, Exists, Active, Terminal
    <2>4. QED
        BY <1>1, <1>3, <1>6, <2>1, <2>2, <2>3, TaskStepOneWriter DEF Unended
<1>7. ASSUME NEW next \in {"marked", "working"}, task' = [task EXCEPT ![t].phase = next],
             \A s \in Scans : Unended(s) => Unended(s)'
      PROVE  OneWriter'
    <2>1. task'[t] = [task[t] EXCEPT !.phase = next] /\ \A u \in Tasks \ {t} : task'[u] = task[u]
        BY <1>7 DEF TypeOK
    <2>2. task'[t].scan = task[t].scan /\ task'[t].phase = next
        BY <1>1, <2>1 DEF TaskRecord
    <2>3. QED
        BY <1>1, <1>3, <1>7, <2>1, <2>2, TaskStepOneWriter
<1>8. CASE RunLoad(t)
    BY <1>4, <1>6, <1>8, SingleRetire DEF RunLoad
<1>9. CASE FinaliseLoad(t)
    BY <1>4, <1>6, <1>9, SingleRetire DEF FinaliseLoad
<1>10. CASE RunMark(t)
    <2>1. CASE Exists(task[t].scan)
        <3>1. /\ [task[t].snap EXCEPT !.status = "running", !.stage = Orchestrator] \in Row
              /\ [task[t].snap EXCEPT !.status = "running", !.stage = Orchestrator].status = "running"
            BY <1>2, WrittenRow DEF Row
        <3>2. \A s \in Scans : Unended(s) => Unended(s)'
            BY <1>2, <1>10, <2>1, <3>1, CommitKeepsUnended DEF RunMark
        <3>3. QED
            BY <1>7, <1>10, <2>1, <3>2 DEF RunMark
    <2>2. CASE ~Exists(task[t].scan)
        BY <1>4, <1>10, <2>2, SingleRetire DEF RunMark
    <2>3. QED
        BY <2>1, <2>2
<1>11. CASE RunPublish(t)
    BY <1>5, <1>11 DEF RunPublish
<1>12. CASE StageStart(t)
    <2>1. /\ [rows[task[t].scan] EXCEPT !.stage = task[t].n + 1] \in Row
          /\ [rows[task[t].scan] EXCEPT !.stage = task[t].n + 1].status = rows[task[t].scan].status
        BY <1>1, <1>2, <1>12 DEF TypeOK, Row, StageColumn, TaskRecord, ConstantsOK
    <2>2. \A s \in Scans : Unended(s) => Unended(s)'
        BY <1>2, <1>12, <2>1, CommitKeepsUnended DEF StageStart, TypeOK
    <2>3. QED
        BY <1>7, <1>12, <2>2 DEF StageStart
<1>13. CASE StageFinish(t)
    BY <1>5, <1>13 DEF StageFinish, StageFails
<1>14. CASE FinaliseCommit(t)
    <2>1. \A s \in Scans \ {task[t].scan} : rows'[s] = rows[s]
        BY <1>2, <1>14, WrittenRow, CommitType DEF FinaliseCommit, Terminal
    <2>2. QED
        BY <1>4, <1>14, <2>1, SingleRetire DEF FinaliseCommit
<1>15. CASE PipelineFails(t) \/ StageFails(t) \/ Revoke(t)
    BY <1>4, <1>15 DEF PipelineFails, StageFails, Revoke
<1>16. CASE WorkerLost(t) \/ Redelivered(t)
    BY <1>16, WriterFault DEF WorkerLost, Redelivered, FaultKinds
<1>17. QED
    BY <1>8, <1>9, <1>10, <1>11, <1>12, <1>13, <1>14, <1>15, <1>16 DEF Executes

LEMMA BoardInductive ==
    /\ Init => BoardInv
    /\ BoardInv /\ [Next]_vars => BoardInv'
<1>1. ASSUME Init PROVE OneWriter
    BY <1>1 DEF Init, OneWriter, Undispatched, Live, Idle, NoTask
<1>2. ASSUME IInv, SingleWriter => OneWriter, [Next]_vars, SingleWriter' PROVE OneWriter'
    <2>1. ASSUME NEW k \in FaultKinds, Fault(k) \/ NoFault PROVE OneWriter
        BY <1>2, <2>1, WriterFault DEF IInv
    <2>2. ASSUME NEW r \in Requests, Starts(r) \/ Continues(r) \/ ApiCrash(r) PROVE OneWriter'
        <3>1. \E k \in FaultKinds : Fault(k) \/ NoFault
            BY <2>2 DEF Starts, Continues, ApiCrash, CountActive, CancelLoad, DeleteLoad, Insert,
                DispatchOk, DispatchRaises, StoreTaskId, MarkUndispatched, CancelCommit, DeleteCommit,
                NoFault, FaultKinds
        <3>2. QED
            BY <1>2, <2>1, <2>2, <3>1, ConstantsOK, HandlerKeepsOneWriter
    <2>3. ASSUME NEW t \in Tasks,
                 Executes(t) \/ PipelineFails(t) \/ StageFails(t) \/ Revoke(t) \/ WorkerLost(t) \/ Redelivered(t)
          PROVE  OneWriter'
        <3>1. \E k \in FaultKinds : Fault(k) \/ NoFault
            BY <2>3 DEF Executes, RunLoad, RunMark, RunPublish, StageStart, StageFinish, StageFails,
                FinaliseLoad, FinaliseCommit, PipelineFails, Revoke, WorkerLost,
                Redelivered, Retire, HandOver, NoFault, FaultKinds
        <3>2. QED
            BY <1>2, <2>1, <2>3, <3>1, ConstantsOK, WorkerKeepsOneWriter
    <2>4. ASSUME NEW z \in Scans, Prune(z) PROVE OneWriter'
        <3>1. OneWriter
            BY <2>1, <2>4 DEF Prune, NoFault, FaultKinds
        <3>2. \A s \in Scans : Unended(s) => Unended(s)'
            BY <1>2, <2>4 DEF IInv, Prune, Unended, BlankRow, TypeOK
        <3>3. /\ \A t \in Tasks : Live(t) => task[t].scan \in Scans
              /\ \A r \in Requests : Undispatched(r) => req[r].scan \in Scans
            BY <1>2, LiveTask, HoldingRequest DEF IInv, Undispatched, HoldingPCs, RequestRecord,
                TaskRecord
        <3>4. task' = task /\ req' = req
            BY <2>4 DEF Prune
        <3>5. QED
            BY <3>1, <3>2, <3>3, <3>4 DEF OneWriter, Live, Undispatched, Unended
    <2>5. CASE UNCHANGED vars
        BY <1>2, <2>5 DEF vars, SingleWriter, OneWriter, Live, Undispatched, Unended
    <2>6. QED
        BY <1>2, <2>2, <2>3, <2>4, <2>5 DEF Next
<1>3. QED
    BY <1>1, <1>2, Inductive DEF BoardInv

\* One row changes, the way ScanBoard lets the status of a scan change.
LEMMA RowMoves ==
    ASSUME TypeOK, NEW z \in Scans, rows' \in [Scans -> Row],
           \A s \in Scans \ {z} : rows'[s].status = rows[s].status,
           NEW old, NEW new, old = rows[z].status, new = rows'[z].status,
           \/ new = old
           \/ old = "unborn" /\ new = "queued"
           \/ old = "queued" /\ new = "running"
           \/ old \in Active /\ new \in Terminal
           \/ old \in Terminal /\ new = "deleted"
           \/ z \in Contended /\ old \in Active \cup Terminal
                              /\ new \in {"running", "deleted"} \cup Terminal
    PROVE  Board!BoardNext
<1> DEFINE status == [s \in Scans |-> rows[s].status]
           next   == [s \in Scans |-> rows'[s].status]
<1>1. status[z] = old /\ next = [status EXCEPT ![z] = new]
    OBVIOUS
<1>2. Contended' \subseteq Scans
    BY DEF Contended
<1>3. new = old => next = status
    BY <1>1
<1>4. Board!Becomes(z, new)
    BY <1>1 DEF Board!Becomes
<1>5. new = old \/ Board!Moves(z)
    BY <1>1, <1>4 DEF Board!Moves, Board!Create, Board!Begin, Board!End, Board!Remove,
        Board!Overwrite, Board!Underway, Board!Ended, Active, Terminal
<1>6. QED
    BY <1>2, <1>3, <1>5 DEF Board!BoardNext

\* So does a commit whose snapshot had the status of the row, or whose scan is
\* contended.
LEMMA CommitMoves ==
    ASSUME ConstantsOK, TypeOK, NEW z \in Scans, NEW old \in Row, NEW new \in Row,
           Commit(z, old, new),
           new.status = old.status \/ new.status \in {"running"} \cup Terminal,
           rows[z].status # old.status => new.status = old.status \/ z \in Contended,
           \/ new.status = old.status
           \/ z \in Contended
           \/ old.status = "queued" /\ new.status = "running"
           \/ old.status \in Active /\ new.status \in Terminal
    PROVE  Board!BoardNext
<1>1. /\ rows' \in [Scans -> Row]
      /\ \A s \in Scans \ {z} : rows'[s].status = rows[s].status
      /\ rows'[z].status = rows[z].status \/ (Exists(z) /\ new.status # old.status
                                                /\ rows'[z].status = new.status)
    BY CommitType DEF Column
<1>2. QED
    BY <1>1, RowMoves DEF Exists

LEMMA HandlerImplementsBoard ==
    ASSUME ConstantsOK, BoardInv, TypeOK', NEW r \in Requests,
           Starts(r) \/ Continues(r) \/ ApiCrash(r)
    PROVE  Board!BoardNext
<1> USE DEF BoardInv, IInv
<1>1. CASE rows' = rows
    <2>1. Contended' \subseteq Scans
        BY DEF Contended
    <2>2. QED
        BY <1>1, <2>1 DEF Board!BoardNext
<1>2. ASSUME NEW s \in Scans, Insert(r, s) PROVE Board!BoardNext
    <2>1. /\ rows[s].status = "unborn" /\ rows'[s].status = "queued"
          /\ \A z \in Scans \ {s} : rows'[z].status = rows[z].status
        BY <1>2 DEF Insert, BlankRow, TypeOK
    <2>2. QED
        BY <2>1, RowMoves DEF TypeOK
<1>3. CASE StoreTaskId(r)
    <2>1. req[r].scan \in Scans /\ req[r].snap \in Row
        BY <1>3, HoldingRequest DEF StoreTaskId, In, HoldingPCs, RequestRecord
    <2>2. [req[r].snap EXCEPT !.dispatched = TRUE].status = req[r].snap.status
        BY <2>1 DEF Row
    <2>3. QED
        BY <1>3, <2>1, <2>2, WrittenRow, CommitMoves DEF StoreTaskId
<1>4. CASE MarkUndispatched(r)
    <2>1. req[r].scan \in Scans /\ req[r].snap \in Row /\ req[r].snap.status = "queued"
        BY <1>4, HoldingRequest DEF MarkUndispatched, In, HoldingPCs, RequestRecord, SnapshotsOK
    <2>2. [req[r].snap EXCEPT !.status = "failed", !.closed = TRUE].status = "failed"
        BY <2>1 DEF Row
    <2>3. rows[req[r].scan].status # req[r].snap.status => req[r].scan \in Contended
        BY <1>4, <2>1 DEF MarkUndispatched, In, Contended, Outdated
    <2>4. QED
        BY <1>4, <2>1, <2>2, <2>3, WrittenRow, CommitMoves DEF MarkUndispatched, Active, Terminal
<1>5. CASE CancelCommit(r)
    <2>1. req[r].scan \in Scans /\ req[r].snap \in Row /\ req[r].snap.status \in Active
        BY <1>5, HoldingRequest DEF CancelCommit, In, HoldingPCs, RequestRecord, SnapshotsOK
    <2>2. [req[r].snap EXCEPT !.status = "cancelled", !.closed = TRUE, !.stage = NoStage].status
            = "cancelled"
        BY <2>1 DEF Row
    <2>3. rows[req[r].scan].status # req[r].snap.status => req[r].scan \in Contended
        BY <1>5, <2>1 DEF CancelCommit, In, Contended, Outdated
    <2>4. QED
        BY <1>5, <2>1, <2>2, <2>3, WrittenRow, CommitMoves DEF CancelCommit, Terminal
<1>6. CASE DeleteCommit(r) /\ rows' # rows
    <2>1. req[r].scan \in Scans
        BY <1>6, HoldingRequest DEF DeleteCommit, In, HoldingPCs, RequestRecord
    <2>2. /\ Exists(req[r].scan) /\ rows'[req[r].scan].status = "deleted"
          /\ \A z \in Scans \ {req[r].scan} : rows'[z].status = rows[z].status
        BY <1>6, <2>1 DEF DeleteCommit, BlankRow, TypeOK
    <2>3. IsActive(req[r].scan) => req[r].scan \in Contended
        BY <1>6, <2>1 DEF DeleteCommit, Contended, Outdated
    <2>4. QED
        BY <2>1, <2>2, <2>3, RowMoves DEF TypeOK, Exists, IsActive
<1>7. QED
    BY <1>1, <1>2, <1>3, <1>4, <1>5, <1>6 DEF Starts, Continues, ApiCrash, CountActive, CancelLoad,
        DeleteLoad, DispatchOk, DispatchRaises

LEMMA WorkerImplementsBoard ==
    ASSUME ConstantsOK, BoardInv, NEW t \in Tasks,
           Executes(t) \/ PipelineFails(t) \/ StageFails(t) \/ Revoke(t) \/ WorkerLost(t) \/ Redelivered(t)
    PROVE  Board!BoardNext
<1> USE DEF BoardInv, IInv
<1>1. CASE rows' = rows
    <2>1. Contended' \subseteq Scans
        BY DEF Contended
    <2>2. QED
        BY <1>1, <2>1 DEF Board!BoardNext
<1>2. Live(t) /\ task[t] \in TaskRecord
    BY LiveTask DEF Executes, RunLoad, RunMark, RunPublish, StageStart, StageFinish, StageFails,
        FinaliseLoad, FinaliseCommit, PipelineFails, Revoke, WorkerLost, Redelivered, At
<1>3. task[t].scan \in Scans /\ task[t].snap \in Row
    BY <1>2 DEF TaskRecord
<1>4. /\ SingleWriter /\ task[t].phase = "loaded"
            => task[t].snap.status \in Active \cup {"cancelled"}
      /\ ~SingleWriter => task[t].scan \in Contended
      /\ task[t].phase = "loaded" /\ rows[task[t].scan].status # task[t].snap.status
            => task[t].scan \in Contended
    BY <1>2, <1>3 DEF OneWriter, Contended, Outdated, Tokens
<1>5. CASE RunMark(t) /\ rows' # rows
    <2> DEFINE new == [task[t].snap EXCEPT !.status = "running", !.stage = Orchestrator]
    <2>1. new \in Row /\ new.status = "running" /\ Commit(task[t].scan, task[t].snap, new)
        BY <1>3, <1>5, WrittenRow DEF RunMark, Row
    <2>2. task[t].phase = "loaded" /\ task[t].snap.status # "cancelled"
        BY <1>5 DEF RunMark, At, SnapshotsOK
    <2>3. task[t].scan \in Contended \/ task[t].snap.status \in {"queued", "running"}
        BY <1>4, <2>2 DEF Active
    <2> HIDE DEF new
    <2>4. QED
        BY <1>3, <1>4, <2>1, <2>2, <2>3, CommitMoves
<1>6. CASE StageStart(t)
    <2>1. /\ [rows[task[t].scan] EXCEPT !.stage = task[t].n + 1] \in Row
          /\ [rows[task[t].scan] EXCEPT !.stage = task[t].n + 1].status = rows[task[t].scan].status
        BY <1>2, <1>3, <1>6 DEF TypeOK, Row, StageColumn, TaskRecord, ConstantsOK
    <2>2. QED
        BY <1>3, <1>6, <2>1, CommitMoves DEF StageStart, TypeOK
<1>7. ASSUME task[t].phase = "loaded",
             Commit(task[t].scan, task[t].snap, Closed(task[t].snap))
      PROVE  Board!BoardNext
    <2> DEFINE new == Closed(task[t].snap)
    <2>1. new \in Row /\ Commit(task[t].scan, task[t].snap, new)
        BY <1>3, <1>7, WrittenRow
    <2>2. new.status = IF task[t].snap.status = "cancelled" THEN "cancelled" ELSE "completed"
        BY <1>3 DEF Closed, Row
    <2> HIDE DEF new
    <2>3. task[t].scan \in Contended \/ task[t].snap.status \in Active \cup {"cancelled"}
        BY <1>4, <1>7
    <2>4. QED
        BY <1>3, <1>4, <1>7, <2>1, <2>2, <2>3, CommitMoves DEF Terminal
<1>8. CASE FinaliseCommit(t)
    BY <1>7, <1>8 DEF FinaliseCommit, At, Terminal
<1>9. QED
    BY <1>1, <1>5, <1>6, <1>8 DEF Executes, RunLoad, RunPublish, StageFinish, StageFails,
        FinaliseLoad, PipelineFails, Revoke, WorkerLost, Redelivered

LEMMA StepImplementsBoard ==
    ASSUME ConstantsOK, BoardInv, [Next]_vars
    PROVE  Board!BoardNext
<1>1. TypeOK /\ TypeOK'
    BY TypeInductive DEF BoardInv, IInv
<1>2. ASSUME NEW s \in Scans, Prune(s) PROVE Board!BoardNext
    <2>1. /\ rows[s].status \in Terminal /\ rows'[s].status = "deleted"
          /\ \A z \in Scans \ {s} : rows'[z].status = rows[z].status
        BY <1>1, <1>2 DEF Prune, BlankRow, TypeOK
    <2>2. QED
        BY <1>1, <2>1, RowMoves DEF TypeOK
<1>3. CASE UNCHANGED vars
    <2>1. Contended' \subseteq Scans
        BY DEF Contended
    <2>2. QED
        BY <1>3, <2>1 DEF vars, Board!BoardNext
<1>4. QED
    BY <1>1, <1>2, <1>3, HandlerImplementsBoard, WorkerImplementsBoard DEF Next

\* The scan list is a ScanBoard: whatever handlers, tasks and faults do, a scan is
\* queued, runs, ends once and is removed only then, unless a process that holds
\* an outdated copy of it, or a second writer, is about to commit.
THEOREM ListIsScanBoard == Spec => ImplementsBoard
<1>1. Init => Board!BoardInit
    <2>1. ASSUME Init PROVE Contended = {}
        BY <2>1 DEF Init, Contended, Outdated, SingleWriter, FaultKinds, Tokens, Live, NoTask, In, Idle
    <2>2. ASSUME Init PROVE [s \in Scans |-> rows[s].status] = [s \in Scans |-> "unborn"]
        BY <2>2 DEF Init, NoRow, BlankRow
    <2>3. QED
        BY <2>1, <2>2 DEF Board!BoardInit
<1>2. BoardInv /\ [Next]_vars => [Board!BoardNext]_(Board!boardVars)
    BY ConstantsOK, StepImplementsBoard
<1>3. QED
    BY <1>1, <1>2, BoardInductive, PTL DEF Spec, ImplementsBoard, Board!BoardSpec

-----------------------------------------------------------------------------
(* Births.  What a task or a handler holds was inserted, and never becomes an *)
(* unused id again: that is a promise of ScanBoard.                           *)

Born(s) == rows[s].status # "unborn"

HeldIsBorn ==
    /\ \A t \in Tasks : Live(t) => Born(task[t].scan)
    /\ \A r \in Requests : req[r].pc \in HoldingPCs => Born(req[r].scan)

LEMMA BornStays ==
    ASSUME ConstantsOK, BoardInv, [Next]_vars, NEW s \in Scans, Born(s)
    PROVE  Born(s)'
<1>1. Board!BoardNext
    BY StepImplementsBoard
<1> DEFINE status == [z \in Scans |-> rows[z].status]
           next   == [z \in Scans |-> rows'[z].status]
<1>2. next = status \/ \E z \in Scans : \E st \in Status \ {"unborn"} : next = [status EXCEPT ![z] = st]
    BY <1>1 DEF Board!BoardNext, Board!Moves, Board!Create, Board!Begin, Board!End, Board!Remove,
        Board!Overwrite, Board!Becomes, Board!Underway, Board!Ended, Status, Active, Terminal
<1>3. status[s] = rows[s].status /\ next[s] = rows'[s].status
    OBVIOUS
<1>4. next[s] # "unborn"
    BY <1>2, <1>3 DEF Born
<1>5. QED
    BY <1>3, <1>4 DEF Born

\* Where the record of a slot comes from: it was there, follows one of the same
\* scan, or was published for the scan of a handler that had just inserted it; and
\* where its snapshot comes from.
FollowsTask(u, t) ==
    /\ Live(t) /\ task'[u].scan = task[t].scan
    /\ \/ task'[u].snap \in {NoRow, task[t].snap}
       \/ rows' = rows /\ task'[u].snap = rows[task[t].scan]

LEMMA TaskOrigin ==
    ASSUME ConstantsOK, TypeOK, Next, NEW u \in Tasks, Live(u)'
    PROVE  \/ \E t \in Tasks : FollowsTask(u, t)
           \/ \E r \in Requests : /\ DispatchOk(r) \/ DispatchRaises(r)
                                  /\ In(r, "inserted") /\ task'[u].scan = req[r].scan
                                  /\ task'[u].snap = NoRow
<1> DEFINE Follows == \E t \in Tasks : FollowsTask(u, t)
<1> USE DEF FollowsTask
<1>1. CASE task' = task
    BY <1>1 DEF Live
<1>2. ASSUME NEW r \in Requests, DispatchOk(r) \/ DispatchRaises(r)
      PROVE  Follows \/ (In(r, "inserted") /\ task'[u].scan = req[r].scan /\ task'[u].snap = NoRow)
    BY <1>1, <1>2 DEF DispatchOk, DispatchRaises, Publish, Message, Live, TypeOK
<1>3. ASSUME NEW t \in Tasks,
             Executes(t) \/ PipelineFails(t) \/ StageFails(t) \/ Revoke(t) \/ WorkerLost(t) \/ Redelivered(t)
      PROVE  Follows
    <2>1. Live(t) /\ task[t] \in TaskRecord
        BY <1>3, LiveTask DEF Executes, RunLoad, RunMark, RunPublish, StageStart, StageFinish,
            StageFails, FinaliseLoad, FinaliseCommit, PipelineFails, Revoke, WorkerLost,
            Redelivered, At
    <2>2. ASSUME Retire(t) PROVE Follows
        BY <2>1, <2>2 DEF Retire, Again, Message, Live, NoTask, TypeOK
    <2>3. ASSUME NEW kind, NEW n, HandOver(t, Message(kind, task[t].scan, n)) PROVE Follows
        BY <2>1, <2>3 DEF HandOver, Again, Message, Live, TypeOK
    <2>4. ASSUME NEW next,
                 \/ task' = [task EXCEPT ![t].phase = next]
                 \/ /\ task' = [task EXCEPT ![t].phase = next, ![t].snap = rows[task[t].scan]]
                    /\ rows' = rows
          PROVE  Follows
        <3>1. /\ task'[t].scan = task[t].scan
              /\ \/ task'[t].snap = task[t].snap
                 \/ rows' = rows /\ task'[t].snap = rows[task[t].scan]
              /\ \A w \in Tasks \ {t} : task'[w] = task[w]
            BY <2>1, <2>4 DEF TypeOK, TaskRecord
        <3>2. QED
            BY <2>1, <3>1 DEF Live
    <2>5. CASE RunLoad(t) \/ FinaliseLoad(t) \/ RunMark(t) \/ StageStart(t)
        BY <2>2, <2>4, <2>5 DEF RunLoad, FinaliseLoad, RunMark, StageStart
    <2>6. CASE RunPublish(t) \/ StageFinish(t) \/ FinaliseCommit(t)
        BY <2>2, <2>3, <2>6 DEF RunPublish, StageFinish, StageFails, FinaliseCommit
    <2>7. CASE PipelineFails(t) \/ StageFails(t) \/ Revoke(t) \/ WorkerLost(t) \/ Redelivered(t)
        BY <2>1, <2>7 DEF PipelineFails, StageFails, Revoke, WorkerLost, Redelivered, Again, Message, Live, NoTask,
            TypeOK
    <2>8. QED
        BY <1>3, <2>5, <2>6, <2>7 DEF Executes
<1>4. QED
    BY <1>1, <1>2, <1>3 DEF Next, Starts, Continues, ApiCrash, CountActive, CancelLoad, DeleteLoad,
        Insert, StoreTaskId, MarkUndispatched, CancelCommit, DeleteCommit, Prune

\* Where a handler got its scan from.
LEMMA RequestOrigin ==
    ASSUME ConstantsOK, TypeOK, Next, NEW q \in Requests, req'[q].pc \in HoldingPCs
    PROVE  \/ /\ req[q].pc \in HoldingPCs /\ req'[q].scan = req[q].scan
              /\ req'[q].snap = req[q].snap
           \/ \E s \in Scans : /\ Insert(q, s) \/ CancelLoad(q, s) \/ DeleteLoad(q, s)
                               /\ req'[q].scan = s
<1>1. CASE req'[q] = req[q]
    BY <1>1
<1>2. CASE DispatchOk(q) \/ DispatchRaises(q)
    <2>1. req[q] \in RequestRecord /\ req[q].pc \in HoldingPCs
        BY <1>2, HoldingRequest DEF DispatchOk, DispatchRaises, In, HoldingPCs
    <2>2. QED
        BY <1>2, <2>1 DEF DispatchOk, DispatchRaises, Goto, RequestRecord, TypeOK
<1>3. ASSUME NEW s \in Scans, Insert(q, s) \/ CancelLoad(q, s) \/ DeleteLoad(q, s)
      PROVE  req'[q].scan = s
    BY <1>3 DEF Insert, CancelLoad, DeleteLoad, Goto, Holding, TypeOK
<1>4. CASE CountActive(q) \/ StoreTaskId(q) \/ MarkUndispatched(q) \/ CancelCommit(q)
           \/ DeleteCommit(q) \/ ApiCrash(q)
    BY <1>4 DEF CountActive, StoreTaskId, MarkUndispatched, CancelCommit, DeleteCommit, ApiCrash, Goto,
        Idle, Counted, HoldingPCs, TypeOK
<1>5. ASSUME NEW r \in Requests \ {q}, Starts(r) \/ Continues(r) \/ ApiCrash(r)
      PROVE  req'[q] = req[q]
    BY <1>5 DEF Starts, Continues, ApiCrash, CountActive, CancelLoad, DeleteLoad, Insert, DispatchOk,
        DispatchRaises, StoreTaskId, MarkUndispatched, CancelCommit, DeleteCommit, Goto, TypeOK
<1>6. ASSUME NEW t \in Tasks,
             Executes(t) \/ PipelineFails(t) \/ StageFails(t) \/ Revoke(t) \/ WorkerLost(t) \/ Redelivered(t)
      PROVE  req' = req
    BY <1>6 DEF Executes, RunLoad, RunMark, RunPublish, StageStart, StageFinish, StageFails,
        FinaliseLoad, FinaliseCommit, PipelineFails, Revoke, WorkerLost, Redelivered
<1>7. ASSUME NEW s \in Scans, Prune(s) PROVE req' = req
    BY <1>7 DEF Prune
<1>8. QED
    BY <1>1, <1>2, <1>3, <1>4, <1>5, <1>6, <1>7 DEF Next, Starts, Continues

LEMMA HeldIsBornInductive ==
    /\ Init => HeldIsBorn
    /\ BoardInv /\ HeldIsBorn /\ [Next]_vars => HeldIsBorn'
<1>1. Init => HeldIsBorn
    BY DEF Init, HeldIsBorn, Live, NoTask, Idle, HoldingPCs
<1>2. ASSUME BoardInv, HeldIsBorn, Next PROVE HeldIsBorn'
    <2>1. TypeOK
        BY <1>2 DEF BoardInv, IInv
    <2>2. \A s \in Scans : Born(s) => Born(s)'
        BY <1>2, ConstantsOK, BornStays
    <2>3. \A t \in Tasks : Live(t) => task[t].scan \in Scans
        BY <2>1, LiveTask DEF TaskRecord
    <2>4. \A r \in Requests : req[r].pc \in HoldingPCs => req[r].scan \in Scans
        BY <2>1, HoldingRequest DEF RequestRecord
    <2>5. \A u \in Tasks : Live(u)' => task'[u].scan \in Scans /\ Born(task'[u].scan)
        BY <1>2, <2>1, <2>3, <2>4, ConstantsOK, TaskOrigin DEF FollowsTask, HeldIsBorn, In, HoldingPCs
    <2>6. ASSUME NEW q \in Requests, req'[q].pc \in HoldingPCs PROVE Born(req[q].scan)'
        <3>1. CASE req[q].pc \in HoldingPCs /\ req'[q].scan = req[q].scan
            <4>1. PICK s \in Scans : s = req[q].scan
                BY <3>1, <2>4
            <4>2. Born(s)'
                BY <1>2, <2>2, <3>1, <4>1 DEF HeldIsBorn
            <4>3. QED
                BY <3>1, <4>1, <4>2 DEF Born
        <3>2. ASSUME NEW s \in Scans, Insert(q, s) \/ CancelLoad(q, s) \/ DeleteLoad(q, s),
                     req'[q].scan = s
              PROVE  rows'[s].status # "unborn"
            BY <2>1, <3>2 DEF Insert, CancelLoad, DeleteLoad, BlankRow, IsActive, Active, Terminal, TypeOK
        <3>3. QED
            BY <1>2, <2>1, <2>6, <3>1, <3>2, ConstantsOK, RequestOrigin DEF Born
    <2>7. \A u \in Tasks : Live(u)' => Born(task[u].scan)'
        <3>1. SUFFICES ASSUME NEW u \in Tasks, Live(u)', NEW s \in Scans, s = task'[u].scan
                       PROVE  Born(s)'
            BY <2>5 DEF Born
        <3>2. QED
            BY <2>2, <2>5, <3>1
    <2>8. QED
        BY <2>6, <2>7 DEF HeldIsBorn
<1>3. ASSUME HeldIsBorn, UNCHANGED vars PROVE HeldIsBorn'
    BY <1>3 DEF HeldIsBorn, vars, Live, Born
<1>4. QED
    BY <1>1, <1>2, <1>3
-----------------------------------------------------------------------------
(* OneTaskPerDelivery.  A scan gets its first task from the handler that       *)
(* inserted it, which dispatches it once; every other one is a repetition.    *)

DispatchedOnce ==
    /\ \A r \in Requests : In(r, "inserted") => Tokens(req[r].scan) = {}
    /\ \A r, q \in Requests :
            In(r, "inserted") /\ In(q, "inserted") /\ req[r].scan = req[q].scan => r = q

DeliveryInv == BoardInv /\ HeldIsBorn /\ DispatchedOnce /\ OneTaskPerDelivery

LEMMA InsertedOrigin ==
    ASSUME TypeOK, Next, NEW r \in Requests, In(r, "inserted")'
    PROVE  \/ /\ req'[r] = req[r] /\ In(r, "inserted")
              /\ ~DispatchOk(r) /\ ~DispatchRaises(r)
           \/ \E s \in Scans : Insert(r, s) /\ req'[r].scan = s
<1>1. ASSUME DispatchOk(r) \/ DispatchRaises(r) PROVE FALSE
    <2>1. req[r] \in RequestRecord
        BY <1>1, HoldingRequest DEF DispatchOk, DispatchRaises, In, HoldingPCs
    <2>2. QED
        BY <1>1, <2>1 DEF DispatchOk, DispatchRaises, Goto, RequestRecord, In, TypeOK
<1>2. ASSUME NEW s \in Scans, Insert(r, s) PROVE req'[r].scan = s
    BY <1>2 DEF Insert, Goto, Holding, TypeOK
<1>3. ASSUME CountActive(r) \/ StoreTaskId(r) \/ MarkUndispatched(r) \/ CancelCommit(r)
             \/ DeleteCommit(r) \/ ApiCrash(r) \/ \E s \in Scans : CancelLoad(r, s) \/ DeleteLoad(r, s)
      PROVE  FALSE
    BY <1>3 DEF CountActive, StoreTaskId, MarkUndispatched, CancelCommit, DeleteCommit, ApiCrash,
        CancelLoad, DeleteLoad, Goto, Idle, Counted, Holding, In, TypeOK
<1>4. ASSUME NEW q \in Requests \ {r}, Starts(q) \/ Continues(q) \/ ApiCrash(q)
      PROVE  req'[r] = req[r]
    BY <1>4 DEF Starts, Continues, ApiCrash, CountActive, CancelLoad, DeleteLoad, Insert, DispatchOk,
        DispatchRaises, StoreTaskId, MarkUndispatched, CancelCommit, DeleteCommit, Goto, TypeOK
<1>5. ASSUME NEW t \in Tasks,
             Executes(t) \/ PipelineFails(t) \/ StageFails(t) \/ Revoke(t) \/ WorkerLost(t) \/ Redelivered(t)
      PROVE  req' = req
    BY <1>5 DEF Executes, RunLoad, RunMark, RunPublish, StageStart, StageFinish, StageFails,
        FinaliseLoad, FinaliseCommit, PipelineFails, Revoke, WorkerLost, Redelivered
<1>6. ASSUME NEW s \in Scans, Prune(s) PROVE req' = req
    BY <1>6 DEF Prune
<1>7. QED
    BY <1>1, <1>2, <1>3, <1>4, <1>5, <1>6 DEF Next, Starts, Continues, In

LEMMA DispatchStaysOnce ==
    ASSUME ConstantsOK, TypeOK, HeldIsBorn, DispatchedOnce, Next
    PROVE  DispatchedOnce'
<1>1. ASSUME NEW r \in Requests, In(r, "inserted")', NEW s \in Scans, Insert(r, s), req'[r].scan = s
      PROVE  /\ Tokens(s)' = {}
             /\ \A q \in Requests : In(q, "inserted")' /\ req'[q].scan = s => q = r
    <2>1. ~Born(s) /\ task' = task /\ \A q \in Requests \ {r} : req'[q] = req[q]
        BY <1>1 DEF Insert, Born, Goto, TypeOK
    <2>2. QED
        BY <2>1 DEF HeldIsBorn, Tokens, Live, In, HoldingPCs
<1>2. ASSUME NEW r \in Requests, req'[r] = req[r], In(r, "inserted"),
             ~DispatchOk(r), ~DispatchRaises(r), NEW u \in Tasks, Live(u)', task'[u].scan = req[r].scan
      PROVE  FALSE
    <2>1. ASSUME NEW q \in Requests, DispatchOk(q) \/ DispatchRaises(q), In(q, "inserted"),
                 task'[u].scan = req[q].scan
          PROVE  FALSE
        BY <1>2, <2>1 DEF DispatchedOnce
    <2>2. ASSUME NEW t \in Tasks, Live(t), task'[u].scan = task[t].scan PROVE FALSE
        BY <1>2, <2>2 DEF DispatchedOnce, Tokens
    <2>3. QED
        BY <1>2, <2>1, <2>2, TaskOrigin DEF FollowsTask
<1>3. \A r \in Requests : In(r, "inserted")' => Tokens(req[r].scan)' = {}
    BY <1>1, <1>2, InsertedOrigin DEF Tokens, Live
<1>4. \A r, q \in Requests :
            In(r, "inserted")' /\ In(q, "inserted")' /\ req'[r].scan = req'[q].scan => r = q
    BY <1>1, InsertedOrigin DEF DispatchedOnce
<1>5. QED
    BY <1>3, <1>4 DEF DispatchedOnce

\* One task more, for a repetition more or for the first dispatch, is no more
\* than there may be.
LEMMA OneMoreTask ==
    ASSUME ConstantsOK, TypeOK, TypeOK', NEW s \in Scans,
           Cardinality(Tokens(s)) <= 1 + faults["worker"] + faults["redelivery"],
           /\ faults'["worker"] >= faults["worker"]
           /\ faults'["redelivery"] >= faults["redelivery"],
           \/ Tokens(s)' \subseteq Tokens(s)
           \/ /\ \E u \in Tasks : Tokens(s)' \subseteq Tokens(s) \cup {u}
              /\ \/ Tokens(s) = {}
                 \/ faults'["worker"] + faults'["redelivery"]
                        > faults["worker"] + faults["redelivery"]
    PROVE  Cardinality(Tokens(s)') <= 1 + faults'["worker"] + faults'["redelivery"]
<1>1. IsFiniteSet(Tokens(s))
    BY FS_Subset DEF ConstantsOK, Tokens
<1>2. /\ faults["worker"] \in Nat /\ faults["redelivery"] \in Nat
      /\ faults'["worker"] \in Nat /\ faults'["redelivery"] \in Nat
    BY DEF TypeOK, FaultKinds
<1>3. Cardinality(Tokens(s)) \in Nat
    BY <1>1, FS_CardinalityType
<1>4. ASSUME Tokens(s)' \subseteq Tokens(s)
      PROVE  Cardinality(Tokens(s)') \in Nat /\ Cardinality(Tokens(s)') <= Cardinality(Tokens(s))
    BY <1>1, <1>4, FS_Subset, FS_CardinalityType
<1>5. ASSUME NEW u \in Tasks, Tokens(s)' \subseteq Tokens(s) \cup {u}
      PROVE  Cardinality(Tokens(s)') \in Nat /\ Cardinality(Tokens(s)') <= Cardinality(Tokens(s)) + 1
    <2>1. /\ IsFiniteSet(Tokens(s) \cup {u})
          /\ Cardinality(Tokens(s) \cup {u}) \in {Cardinality(Tokens(s)), Cardinality(Tokens(s)) + 1}
        BY <1>1, FS_AddElement
    <2>2. /\ IsFiniteSet(Tokens(s)')
          /\ Cardinality(Tokens(s)') <= Cardinality(Tokens(s) \cup {u})
        BY <1>5, <2>1, FS_Subset
    <2>3. Cardinality(Tokens(s)') \in Nat
        BY <2>2, FS_CardinalityType
    <2>4. QED
        BY <1>3, <2>1, <2>2, <2>3
<1>6. Tokens(s) = {} => Cardinality(Tokens(s)) = 0
    BY FS_EmptySet
<1>7. QED
    BY <1>2, <1>3, <1>4, <1>5, <1>6

\* What a fault counts.
LEMMA FaultCounts ==
    ASSUME TypeOK, NEW k \in FaultKinds, Fault(k) \/ NoFault
    PROVE  /\ faults'["worker"] >= faults["worker"]
           /\ faults'["redelivery"] >= faults["redelivery"]
           /\ Fault(k) /\ k \in {"worker", "redelivery"} =>
                faults'["worker"] + faults'["redelivery"] > faults["worker"] + faults["redelivery"]
BY DEF TypeOK, Fault, NoFault, FaultKinds

LEMMA DeliveryStep ==
    ASSUME ConstantsOK, TypeOK, TypeOK', DispatchedOnce, OneTaskPerDelivery, Next
    PROVE  OneTaskPerDelivery'
<1> SUFFICES ASSUME NEW s \in Scans
             PROVE  Cardinality(Tokens(s)') <= 1 + faults'["worker"] + faults'["redelivery"]
    BY DEF OneTaskPerDelivery
<1> DEFINE Grows == \E u \in Tasks : Tokens(s)' \subseteq Tokens(s) \cup {u}
           Repeated == faults'["worker"] + faults'["redelivery"]
                            > faults["worker"] + faults["redelivery"]
           Bounded == \/ Tokens(s)' \subseteq Tokens(s)
                      \/ Grows /\ (Tokens(s) = {} \/ Repeated)
           Monotone == /\ faults'["worker"] >= faults["worker"]
                       /\ faults'["redelivery"] >= faults["redelivery"]
<1>1. ASSUME NEW k \in FaultKinds, Fault(k) \/ NoFault PROVE Monotone
    BY <1>1, FaultCounts
<1>2. ASSUME task' = task PROVE Bounded
    BY <1>2 DEF Tokens, Live
<1>3. ASSUME NEW r \in Requests, In(r, "inserted"), Publish(req[r].scan) PROVE Bounded
    <2>1. PICK u \in Tasks : task' = [task EXCEPT ![u] = Message("run", req[r].scan, 0)]
        BY <1>3 DEF Publish
    <2>2. Tokens(s)' \subseteq Tokens(s) \cup {u} /\ (s # req[r].scan => Tokens(s)' \subseteq Tokens(s))
        BY <2>1 DEF Tokens, Live, Message, TypeOK
    <2>3. s = req[r].scan => Tokens(s) = {}
        BY <1>3 DEF DispatchedOnce
    <2>4. QED
        BY <2>2, <2>3
<1>4. ASSUME NEW t \in Tasks, Live(t), NEW x, task' = [task EXCEPT ![t] = x],
             x = NoTask \/ x.scan = task[t].scan
      PROVE  Tokens(s)' \subseteq Tokens(s)
    BY <1>4 DEF Tokens, Live, NoTask, TypeOK
<1>5. ASSUME NEW t \in Tasks, Live(t), Retire(t) PROVE Bounded /\ Monotone
    BY <1>1, <1>4, <1>5 DEF Retire, Again, Message, FaultKinds
<1>6. ASSUME NEW t \in Tasks, Live(t), NEW kind, NEW n, HandOver(t, Message(kind, task[t].scan, n))
      PROVE  Bounded /\ Monotone
    <2>1. CASE NoFault /\ task' = [task EXCEPT ![t] = Message(kind, task[t].scan, n)]
        BY <1>1, <1>4, <1>6, <2>1 DEF Message, FaultKinds
    <2>2. ASSUME Fault("worker"), NEW u \in Tasks,
                 task' = [task EXCEPT ![t] = Again(t), ![u] = Message(kind, task[t].scan, n)]
          PROVE  Bounded /\ Monotone
        <3>1. Tokens(s)' \subseteq Tokens(s) \cup {u}
            BY <1>6, <2>2 DEF Tokens, Live, Again, Message, TypeOK
        <3>2. QED
            BY <2>2, <3>1, FaultCounts DEF FaultKinds
    <2>3. QED
        BY <1>6, <2>1, <2>2 DEF HandOver
<1>7. ASSUME NEW t \in Tasks, Live(t), NEW next, NEW row,
             \/ task' = [task EXCEPT ![t].phase = next]
             \/ task' = [task EXCEPT ![t].phase = next, ![t].snap = row]
      PROVE  Bounded
    <2>1. task[t] \in TaskRecord
        BY <1>7, LiveTask
    <2>2. /\ task'[t].scan = task[t].scan
          /\ \A w \in Tasks \ {t} : task'[w] = task[w]
        BY <1>7, <2>1 DEF TypeOK, TaskRecord
    <2>3. QED
        BY <1>7, <2>2 DEF Tokens, Live
<1>8. ASSUME NEW r \in Requests, Starts(r) \/ Continues(r) \/ ApiCrash(r) PROVE Bounded /\ Monotone
    <2>1. CASE DispatchOk(r) \/ DispatchRaises(r)
        BY <1>1, <1>2, <1>3, <2>1 DEF DispatchOk, DispatchRaises, NoFault, FaultKinds
    <2>2. CASE ApiCrash(r)
        BY <1>1, <1>2, <2>2 DEF ApiCrash, FaultKinds
    <2>3. CASE task' = task /\ NoFault
        BY <1>1, <1>2, <2>3 DEF FaultKinds
    <2>4. QED
        BY <1>8, <2>1, <2>2, <2>3 DEF Starts, Continues, CountActive, CancelLoad, DeleteLoad, Insert,
            StoreTaskId, MarkUndispatched, CancelCommit, DeleteCommit, NoFault
<1>9. ASSUME NEW t \in Tasks,
             Executes(t) \/ PipelineFails(t) \/ StageFails(t) \/ Revoke(t) \/ WorkerLost(t) \/ Redelivered(t)
      PROVE  Bounded /\ Monotone
    <2>1. Live(t)
        BY <1>9 DEF Executes, RunLoad, RunMark, RunPublish, StageStart, StageFinish, StageFails,
            FinaliseLoad, FinaliseCommit, PipelineFails, Revoke, WorkerLost, Redelivered, At
    <2>2. CASE RunLoad(t) \/ FinaliseLoad(t) \/ RunMark(t) \/ StageStart(t)
        BY <1>1, <1>5, <1>7, <2>1, <2>2 DEF RunLoad, FinaliseLoad, RunMark, StageStart, NoFault, FaultKinds
    <2>3. CASE RunPublish(t) \/ StageFinish(t)
        BY <1>6, <2>1, <2>3 DEF RunPublish, StageFinish, StageFails
    <2>4. CASE FinaliseCommit(t)
        BY <1>5, <2>1, <2>4 DEF FinaliseCommit
    <2>5. CASE PipelineFails(t) \/ StageFails(t) \/ Revoke(t)
        BY <1>1, <1>4, <2>1, <2>5 DEF PipelineFails, StageFails, Revoke, NoFault, FaultKinds
    <2>6. CASE WorkerLost(t)
        BY <1>1, <1>4, <2>1, <2>6 DEF WorkerLost, Again, Message, FaultKinds
    <2>7. CASE Redelivered(t)
        <3>1. PICK u \in Tasks : task' = [task EXCEPT ![u] = Again(t)]
            BY <2>7 DEF Redelivered
        <3>2. Tokens(s)' \subseteq Tokens(s) \cup {u}
            BY <3>1 DEF Tokens, Live, TypeOK
        <3>3. QED
            BY <2>7, <3>2, FaultCounts DEF Redelivered, FaultKinds
    <2>8. QED
        BY <1>9, <2>2, <2>3, <2>4, <2>5, <2>6, <2>7 DEF Executes
<1>10. ASSUME NEW z \in Scans, Prune(z) PROVE Bounded /\ Monotone
    BY <1>1, <1>2, <1>10 DEF Prune, NoFault, FaultKinds
<1>11. Bounded /\ Monotone
    BY <1>8, <1>9, <1>10 DEF Next
<1>12. Cardinality(Tokens(s)) <= 1 + faults["worker"] + faults["redelivery"]
    BY DEF OneTaskPerDelivery
<1>13. QED
    BY <1>11, <1>12, OneMoreTask

LEMMA DeliveryInductive ==
    /\ Init => DeliveryInv
    /\ DeliveryInv /\ [Next]_vars => DeliveryInv'
<1>1. ASSUME Init PROVE DispatchedOnce /\ OneTaskPerDelivery
    <2>1. \A s \in Scans : Tokens(s) = {}
        BY <1>1 DEF Init, Tokens, Live, NoTask
    <2>2. faults["worker"] = 0 /\ faults["redelivery"] = 0
        BY <1>1 DEF Init, FaultKinds
    <2>3. QED
        BY <1>1, <2>1, <2>2, FS_EmptySet DEF Init, DispatchedOnce, OneTaskPerDelivery, In, Idle
<1>2. ASSUME DeliveryInv, [Next]_vars PROVE DispatchedOnce' /\ OneTaskPerDelivery'
    <2>1. TypeOK /\ TypeOK'
        BY <1>2, TypeInductive DEF DeliveryInv, BoardInv, IInv
    <2>2. CASE UNCHANGED vars
        BY <1>2, <2>2 DEF DeliveryInv, DispatchedOnce, OneTaskPerDelivery, vars, In, Tokens, Live
    <2>3. QED
        BY <1>2, <2>1, <2>2, ConstantsOK, DispatchStaysOnce, DeliveryStep DEF DeliveryInv
<1>3. QED
    BY <1>1, <1>2, BoardInductive, HeldIsBornInductive DEF DeliveryInv

\* A scan never has more tasks than the one it was dispatched with and one for
\* every delivery that was repeated.
THEOREM TasksAreRepetitions == Spec => []OneTaskPerDelivery
<1>1. DeliveryInv => OneTaskPerDelivery
    BY DEF DeliveryInv
<1>2. QED
    BY <1>1, DeliveryInductive, PTL DEF Spec
-----------------------------------------------------------------------------
(* SettledShowsNoStage.  The stage column of a scan is written by its chain,   *)
(* which is over when the scan has ended, and emptied by everybody else.      *)

Settled(s) == rows[s].status \in {"completed", "failed"}

\* A callback that is about to end the scan it has loaded.
Closing(t) == /\ At(t, "finalise", "loaded")
              /\ task[t].snap.status # "cancelled"

StagesOK ==
    /\ \A s \in Scans : Settled(s) => rows[s].stage = NoStage
    /\ \A r \in Requests : Undispatched(r) => rows[req[r].scan].stage = NoStage
    /\ \A t \in Tasks : Closing(t) => rows[task[t].scan].stage \in {task[t].snap.stage, NoStage}

StageInv == BoardInv /\ (SingleWriter => StagesOK)

\* A step that keeps or empties the column, and that settles no scan with a stage.
LEMMA LowerStage ==
    ASSUME TypeOK, StagesOK,
           \A s \in Scans : rows'[s].stage \in {rows[s].stage, NoStage},
           \A s \in Scans : Settled(s)' => Settled(s) \/ rows'[s].stage = NoStage,
           \A q \in Requests : Undispatched(q)' =>
                \/ Undispatched(q) /\ req'[q].scan = req[q].scan
                \/ rows'[req'[q].scan].stage = NoStage,
           \A u \in Tasks : Closing(u)' =>
                \/ Closing(u) /\ task'[u] = task[u]
                \/ rows' = rows /\ task'[u].snap = rows[task'[u].scan]
    PROVE  StagesOK'
<1>1. \A u \in Tasks : Closing(u) => task[u].scan \in Scans
    BY LiveTask DEF Closing, At, TaskRecord
<1>2. \A q \in Requests : Undispatched(q) => req[q].scan \in Scans
    BY HoldingRequest DEF Undispatched, HoldingPCs, RequestRecord
<1>3. \A s \in Scans : Settled(s)' => rows'[s].stage = NoStage
    BY DEF StagesOK
<1>4. \A q \in Requests : Undispatched(q)' => rows'[req'[q].scan].stage = NoStage
    BY <1>2 DEF StagesOK
<1>5. \A u \in Tasks : Closing(u)' => rows'[task'[u].scan].stage \in {task'[u].snap.stage, NoStage}
    BY <1>1 DEF StagesOK
<1>6. QED
    BY <1>3, <1>4, <1>5 DEF StagesOK

\* A step in which the only task of a scan writes its stage, and does not end it.
LEMMA RaiseStage ==
    ASSUME TypeOK, OneWriter, StagesOK, NEW t \in Tasks, Live(t), req' = req,
           \A u \in Tasks \ {t} : task'[u] = task[u], ~Closing(t)',
           \A s \in Scans \ {task[t].scan} : rows'[s] = rows[s],
           rows'[task[t].scan].status \notin {"completed", "failed"}
    PROVE  StagesOK'
<1>1. \A s \in Scans : Settled(s)' => rows'[s].stage = NoStage
    BY DEF StagesOK, Settled
<1>2. ASSUME NEW q \in Requests, Undispatched(q)' PROVE rows'[req'[q].scan].stage = NoStage
    <2>1. Undispatched(q) /\ req[q].scan \in Scans
        BY <1>2, HoldingRequest DEF Undispatched, HoldingPCs, RequestRecord
    <2>2. req[q].scan # task[t].scan
        BY <2>1 DEF OneWriter
    <2>3. QED
        BY <2>1, <2>2 DEF StagesOK
<1>3. ASSUME NEW u \in Tasks, Closing(u)'
      PROVE  rows'[task'[u].scan].stage \in {task'[u].snap.stage, NoStage}
    <2>1. u # t /\ task'[u] = task[u] /\ Closing(u) /\ Live(u)
        BY <1>3 DEF Closing, At, Live
    <2>2. task[u].scan \in Scans \ {task[t].scan}
        BY <2>1, LiveTask DEF OneWriter, TaskRecord
    <2>3. QED
        BY <2>1, <2>2 DEF StagesOK
<1>4. QED
    BY <1>1, <1>2, <1>3 DEF StagesOK

\* What a commit leaves in the stage column.
LEMMA CommitStage ==
    ASSUME ConstantsOK, TypeOK, NEW z \in Scans, NEW old \in Row, NEW new \in Row,
           Commit(z, old, new)
    PROVE  /\ \A u \in Scans \ {z} : rows'[u] = rows[u]
           /\ ~Exists(z) => rows' = rows
           /\ Exists(z) => rows'[z].stage = Column(rows[z].stage, old.stage, new.stage)
BY DEF Commit, Merge, TypeOK

LEMMA HandlerKeepsStages ==
    ASSUME ConstantsOK, IInv, OneWriter, StagesOK, NEW r \in Requests,
           Starts(r) \/ Continues(r) \/ ApiCrash(r)
    PROVE  StagesOK'
<1> USE DEF IInv
<1>1. \A u \in Tasks : Closing(u)' => Closing(u) /\ task'[u] = task[u]
    <2>1. \/ task' = task
          \/ \E u \in Tasks : \E s : task' = [task EXCEPT ![u] = Message("run", s, 0)]
        BY DEF Starts, Continues, ApiCrash, CountActive, CancelLoad, DeleteLoad, Insert, DispatchOk,
            DispatchRaises, StoreTaskId, MarkUndispatched, CancelCommit, DeleteCommit, Publish
    <2>2. QED
        BY <2>1 DEF Closing, At, Live, Message, TypeOK
<1>2. ASSUME NEW q \in Requests, Undispatched(q)'
      PROVE  \/ Undispatched(q) /\ req'[q].scan = req[q].scan
             \/ \E s \in Scans : Insert(r, s) /\ q = r
    <2>1. CASE q # r
        <3>1. req'[q] = req[q]
            BY <2>1 DEF Starts, Continues, ApiCrash, CountActive, CancelLoad, DeleteLoad, Insert,
                DispatchOk, DispatchRaises, StoreTaskId, MarkUndispatched, CancelCommit, DeleteCommit,
                Goto, TypeOK
        <3>2. QED
            BY <1>2, <3>1 DEF Undispatched
    <2>2. CASE DispatchOk(r) \/ DispatchRaises(r)
        <3>1. req[r] \in RequestRecord
            BY <2>2, HoldingRequest DEF DispatchOk, DispatchRaises, In, HoldingPCs
        <3>2. req'[r].scan = req[r].scan /\ Undispatched(r)
            BY <2>2, <3>1 DEF DispatchOk, DispatchRaises, Goto, RequestRecord, In, Undispatched, TypeOK
        <3>3. QED
            BY <1>2, <2>1, <3>2
    <2>3. CASE q = r /\ ~DispatchOk(r) /\ ~DispatchRaises(r)
        BY <1>2, <2>3 DEF Starts, Continues, ApiCrash, CountActive, CancelLoad, DeleteLoad, StoreTaskId,
            MarkUndispatched, CancelCommit, DeleteCommit, Goto, Idle, Counted, Holding, Undispatched, TypeOK
    <2>4. QED
        BY <2>1, <2>2, <2>3
<1>3. ASSUME NEW s \in Scans, Insert(r, s) PROVE StagesOK'
    <2>1. /\ rows' = [rows EXCEPT ![s] = BlankRow("queued")]
          /\ req'[r].scan = s
        BY <1>3 DEF Insert, Goto, Holding, TypeOK
    <2>2. /\ rows'[s].stage = NoStage /\ ~Settled(s)'
          /\ \A z \in Scans \ {s} : rows'[z] = rows[z]
        BY <2>1 DEF BlankRow, Settled, TypeOK
    <2>3. QED
        BY <1>1, <1>2, <2>1, <2>2, LowerStage DEF Settled
<1>4. ASSUME ~\E s \in Scans : Insert(r, s),
             \A s \in Scans : rows'[s].stage \in {rows[s].stage, NoStage},
             \A s \in Scans : Settled(s)' => Settled(s) \/ rows'[s].stage = NoStage
      PROVE  StagesOK'
    BY <1>1, <1>2, <1>4, LowerStage
<1>5. ASSUME In(r, "accepted") \/ In(r, "refused") \/ In(r, "cancelling"), NEW new \in Row,
             Commit(req[r].scan, req[r].snap, new),
             new.stage \in {req[r].snap.stage, NoStage},
             \/ new.status \in {req[r].snap.status, "cancelled"}
             \/ new.stage = req[r].snap.stage /\ In(r, "refused")
      PROVE  StagesOK'
    <2>1. req[r].scan \in Scans /\ req[r].snap \in Row
        BY <1>5, HoldingRequest DEF In, HoldingPCs, RequestRecord
    <2>2. \A s \in Scans : rows'[s].stage \in {rows[s].stage, NoStage}
        BY <1>5, <2>1, CommitStage DEF Column
    <2>3. In(r, "refused") => rows[req[r].scan].stage = NoStage
        BY DEF StagesOK, Undispatched, In
    <2>4. ASSUME NEW s \in Scans, Settled(s)' PROVE Settled(s) \/ rows'[s].stage = NoStage
        <3>1. CASE s # req[r].scan
            BY <1>5, <2>1, <2>4, <3>1, CommitType DEF Settled
        <3>2. CASE s = req[r].scan /\ new.status \in {req[r].snap.status, "cancelled"}
            BY <1>5, <2>1, <2>4, <3>2, CommitType DEF Settled, Column
        <3>3. CASE s = req[r].scan /\ In(r, "refused")
            BY <2>2, <2>3, <3>3
        <3>4. QED
            BY <1>5, <3>1, <3>2, <3>3
    <2>5. ~\E s \in Scans : Insert(r, s)
        BY <1>5 DEF Insert, In
    <2>6. QED
        BY <1>4, <2>2, <2>4, <2>5
<1>6. CASE StoreTaskId(r) \/ MarkUndispatched(r) \/ CancelCommit(r)
    <2>1. req[r].snap \in Row
        BY <1>6, HoldingRequest DEF StoreTaskId, MarkUndispatched, CancelCommit, In, HoldingPCs,
            RequestRecord
    <2>2. CASE StoreTaskId(r)
        <3>1. /\ [req[r].snap EXCEPT !.dispatched = TRUE].status = req[r].snap.status
              /\ [req[r].snap EXCEPT !.dispatched = TRUE].stage = req[r].snap.stage
            BY <2>1 DEF Row
        <3>2. QED
            BY <1>5, <2>1, <2>2, <3>1, WrittenRow DEF StoreTaskId
    <2>3. CASE MarkUndispatched(r)
        <3>1. [req[r].snap EXCEPT !.status = "failed", !.closed = TRUE].stage = req[r].snap.stage
            BY <2>1 DEF Row
        <3>2. QED
            BY <1>5, <2>1, <2>3, <3>1, WrittenRow DEF MarkUndispatched
    <2>4. CASE CancelCommit(r)
        <3> DEFINE new == [req[r].snap EXCEPT !.status = "cancelled", !.closed = TRUE, !.stage = NoStage]
        <3>1. new.status = "cancelled" /\ new.stage = NoStage /\ new \in Row
            BY <2>1, WrittenRow DEF Row
        <3>2. Commit(req[r].scan, req[r].snap, new) /\ In(r, "cancelling")
            BY <2>4 DEF CancelCommit
        <3> HIDE DEF new
        <3>3. QED
            BY <1>5, <3>1, <3>2
    <2>5. QED
        BY <1>6, <2>2, <2>3, <2>4
<1>7. CASE DeleteCommit(r)
    <2>1. ~\E s \in Scans : Insert(r, s)
        BY <1>7 DEF DeleteCommit, Insert, In
    <2>2. QED
        BY <1>4, <1>7, <2>1 DEF DeleteCommit, BlankRow, Settled, TypeOK
<1>8. CASE rows' = rows /\ ~\E s \in Scans : Insert(r, s)
    BY <1>4, <1>8 DEF Settled
<1>9. QED
    BY <1>3, <1>6, <1>7, <1>8 DEF Starts, Continues, ApiCrash, CountActive, CancelLoad, DeleteLoad,
        DispatchOk, DispatchRaises

LEMMA WorkerKeepsStages ==
    ASSUME ConstantsOK, IInv, OneWriter, StagesOK, NEW t \in Tasks, SingleWriter',
           Executes(t) \/ PipelineFails(t) \/ StageFails(t) \/ Revoke(t) \/ WorkerLost(t) \/ Redelivered(t)
    PROVE  StagesOK'
<1> USE DEF IInv
<1>1. Live(t) /\ task[t] \in TaskRecord
    BY LiveTask DEF Executes, RunLoad, RunMark, RunPublish, StageStart, StageFinish, StageFails,
        FinaliseLoad, FinaliseCommit, PipelineFails, Revoke, WorkerLost, Redelivered, At
<1>2. task[t].scan \in Scans /\ task[t].snap \in Row
    BY <1>1 DEF TaskRecord
<1>3. req' = req
    BY DEF Executes, RunLoad, RunMark, RunPublish, StageStart, StageFinish, StageFails,
        FinaliseLoad, FinaliseCommit, PipelineFails, Revoke, WorkerLost, Redelivered
<1>4. ASSUME rows' = rows, NEW x, task' = [task EXCEPT ![t] = x],
             x.phase = "loaded" => x.snap = rows[x.scan]
      PROVE  StagesOK'
    BY <1>3, <1>4, LowerStage DEF Closing, At, Live, Undispatched, Settled, TypeOK
<1>5. CASE RunLoad(t) \/ FinaliseLoad(t)
    <2>1. /\ rows' = rows
          /\ \/ task' = [task EXCEPT ![t] = NoTask]
             \/ task' = [task EXCEPT ![t].phase = "loaded", ![t].snap = rows[task[t].scan]]
        BY <1>5, SingleRetire DEF RunLoad, FinaliseLoad
    <2>2. CASE task' = [task EXCEPT ![t] = NoTask]
        BY <1>4, <2>1, <2>2 DEF NoTask
    <2>3. CASE task' = [task EXCEPT ![t].phase = "loaded", ![t].snap = rows[task[t].scan]]
        <3> DEFINE x == [task[t] EXCEPT !.phase = "loaded", !.snap = rows[task[t].scan]]
        <3>1. x.snap = rows[x.scan] /\ task' = [task EXCEPT ![t] = x]
            BY <1>1, <2>3 DEF TaskRecord, TypeOK
        <3> HIDE DEF x
        <3>2. QED
            BY <1>4, <2>1, <3>1
    <2>4. QED
        BY <2>1, <2>2, <2>3
<1>6. ASSUME NEW next \in {"marked", "working"}, task' = [task EXCEPT ![t].phase = next],
             \A s \in Scans \ {task[t].scan} : rows'[s] = rows[s],
             rows'[task[t].scan].status \notin {"completed", "failed"}
      PROVE  StagesOK'
    <2>1. task'[t].phase = next /\ \A u \in Tasks \ {t} : task'[u] = task[u]
        BY <1>1, <1>6 DEF TaskRecord, TypeOK
    <2>2. QED
        BY <1>1, <1>3, <1>6, <2>1, RaiseStage DEF Closing, At
<1>7. CASE RunMark(t)
    <2>1. CASE Exists(task[t].scan)
        <3>1. /\ [task[t].snap EXCEPT !.status = "running", !.stage = Orchestrator] \in Row
              /\ [task[t].snap EXCEPT !.status = "running", !.stage = Orchestrator].status = "running"
            BY <1>2, WrittenRow DEF Row
        <3>2. rows[task[t].scan].status \notin {"completed", "failed"}
            BY <1>1 DEF OneWriter, Unended, Active
        <3>3. QED
            BY <1>2, <1>6, <1>7, <2>1, <3>1, <3>2, CommitType DEF RunMark, Column
    <2>2. CASE ~Exists(task[t].scan)
        BY <1>4, <1>7, <2>2, SingleRetire DEF RunMark, NoTask
    <2>3. QED
        BY <2>1, <2>2
<1>8. CASE StageStart(t)
    <2>1. /\ [rows[task[t].scan] EXCEPT !.stage = task[t].n + 1] \in Row
          /\ [rows[task[t].scan] EXCEPT !.stage = task[t].n + 1].status = rows[task[t].scan].status
        BY <1>1, <1>2, <1>8 DEF TypeOK, Row, StageColumn, TaskRecord, ConstantsOK
    <2>2. rows[task[t].scan].status \notin {"completed", "failed"}
        BY <1>1 DEF OneWriter, Unended, Active
    <2>3. rows[task[t].scan] \in Row
        BY <1>2 DEF TypeOK
    <2>4. /\ \A s \in Scans \ {task[t].scan} : rows'[s] = rows[s]
          /\ rows'[task[t].scan].status = rows[task[t].scan].status
        BY <1>2, <1>8, <2>1, <2>3, CommitType DEF StageStart, Column
    <2>5. QED
        BY <1>6, <1>8, <2>2, <2>4 DEF StageStart
<1>9. ASSUME NEW kind, NEW n, HandOver(t, Message(kind, task[t].scan, n)), rows' = rows
      PROVE  StagesOK'
    BY <1>4, <1>9, SingleHandOver DEF Message
<1>10. CASE RunPublish(t) \/ StageFinish(t)
    BY <1>9, <1>10 DEF RunPublish, StageFinish, StageFails
<1>11. ASSUME At(t, "finalise", "loaded"),
              Commit(task[t].scan, task[t].snap, Closed(task[t].snap)), Retire(t)
       PROVE  StagesOK'
    <2> DEFINE z == task[t].scan
               old == task[t].snap
               new == Closed(old)
    <2>1. /\ new \in Row
          /\ old.status = "cancelled" => new.status = old.status /\ new.stage = old.stage
          /\ old.status # "cancelled" => new.stage = NoStage
        <3>1. new \in Row
            BY <1>2, <1>11, WrittenRow
        <3>2. QED
            BY <1>2, <3>1 DEF Closed, Row
    <2>2. old.status # "cancelled" => rows[z].stage \in {old.stage, NoStage}
        BY <1>11 DEF StagesOK, Closing
    <2>3. z \in Scans /\ old \in Row /\ Commit(z, old, new)
        BY <1>2, <1>11
    <2> HIDE DEF z, old, new
    <2>4. \A s \in Scans : rows'[s].stage \in {rows[s].stage, NoStage}
        BY <2>1, <2>3, CommitStage DEF Column
    <2>5. \A s \in Scans : Settled(s)' => Settled(s) \/ rows'[s].stage = NoStage
        BY <2>1, <2>2, <2>3, CommitStage, CommitType DEF Settled, Column
    <2>6. \A u \in Tasks : Closing(u)' => Closing(u) /\ task'[u] = task[u]
        BY <1>11, SingleRetire DEF Closing, At, Live, NoTask, TypeOK
    <2>7. QED
        BY <1>3, <2>4, <2>5, <2>6, LowerStage DEF Undispatched
<1>12. CASE FinaliseCommit(t)
    BY <1>11, <1>12 DEF FinaliseCommit, Terminal
<1>13. CASE PipelineFails(t) \/ StageFails(t) \/ Revoke(t)
    BY <1>4, <1>13 DEF PipelineFails, StageFails, Revoke, NoTask
<1>14. CASE WorkerLost(t) \/ Redelivered(t)
    BY <1>14, WriterFault DEF WorkerLost, Redelivered, FaultKinds
<1>15. QED
    BY <1>5, <1>7, <1>8, <1>10, <1>12, <1>13, <1>14 DEF Executes

\* Nobody's step takes a second writer away again.
LEMMA SingleBefore ==
    ASSUME TypeOK, [Next]_vars, SingleWriter'
    PROVE  SingleWriter
<1>1. CASE faults' = faults
    BY <1>1 DEF SingleWriter
<1>2. ASSUME NEW k \in FaultKinds, Fault(k) PROVE SingleWriter
    BY <1>2, WriterFault
<1>3. faults' = faults \/ \E k \in FaultKinds : Fault(k)
    BY DEF Next, Starts, Continues, ApiCrash, CountActive, CancelLoad, DeleteLoad, Insert, DispatchOk,
        DispatchRaises, StoreTaskId, MarkUndispatched, CancelCommit, DeleteCommit, Executes, RunLoad,
        RunMark, RunPublish, StageStart, StageFinish, StageFails, FinaliseLoad, FinaliseCommit,
        PipelineFails, Revoke, WorkerLost, Redelivered, Prune, Retire, HandOver, NoFault,
        FaultKinds, vars
<1>4. QED
    BY <1>1, <1>2, <1>3

LEMMA StageInductive ==
    /\ Init => StageInv
    /\ StageInv /\ [Next]_vars => StageInv'
<1>1. ASSUME Init PROVE StagesOK
    BY <1>1 DEF Init, StagesOK, Settled, Undispatched, Closing, At, Live, NoTask, Idle, NoRow, BlankRow
<1>2. ASSUME StageInv, [Next]_vars, SingleWriter' PROVE StagesOK'
    <2>1. IInv /\ TypeOK /\ OneWriter /\ StagesOK
        BY <1>2, SingleBefore DEF StageInv, BoardInv, IInv
    <2>2. ASSUME NEW z \in Scans, Prune(z) PROVE StagesOK'
        <3>1. /\ \A s \in Scans : rows'[s].stage \in {rows[s].stage, NoStage}
              /\ \A s \in Scans : Settled(s)' => Settled(s)
            BY <2>1, <2>2 DEF Prune, BlankRow, Settled, TypeOK
        <3>2. QED
            BY <2>1, <2>2, <3>1, LowerStage DEF Prune, Undispatched, Closing, At, Live
    <2>3. CASE UNCHANGED vars
        BY <2>1, <2>3 DEF vars, StagesOK, Settled, Undispatched, Closing, At, Live
    <2>4. QED
        BY <1>2, <2>1, <2>2, <2>3, ConstantsOK, HandlerKeepsStages, WorkerKeepsStages DEF Next
<1>3. QED
    BY <1>1, <1>2, BoardInductive DEF StageInv

\* A scan with one writer that completed or failed shows no stage.
THEOREM SettledScansShowNoStage == Spec => []SettledShowsNoStage
<1>1. StageInv => SettledShowsNoStage
    BY DEF StageInv, StagesOK, Settled, SettledShowsNoStage
<1>2. QED
    BY <1>1, StageInductive, PTL DEF Spec
-----------------------------------------------------------------------------
(* CapOvershootBounded.  A scan that had ended is not counted when it is       *)
(* started again, because completed_at is never taken back: whoever writes a  *)
(* status that ends a scan leaves it set, and nobody clears it.               *)

Open(s) == IsActive(s) /\ ~rows[s].closed
OpenScans == {s \in Scans : Open(s)}
CountedRequests == {r \in Requests : In(r, "counted")}

ClosedOK ==
    /\ \A s \in Scans : rows[s].status \in Terminal => rows[s].closed
    /\ \A t \in Tasks :
        Live(t) /\ task[t].snap.closed /\ Exists(task[t].scan) => rows[task[t].scan].closed
    /\ \A r \in Requests :
        req[r].pc \in HoldingPCs /\ req[r].snap.closed /\ Exists(req[r].scan)
            => rows[req[r].scan].closed

CapInv == BoardInv /\ HeldIsBorn /\ ClosedOK /\ CapOvershootBounded

\* A row that is gone does not come back.
LEMMA ExistedBefore ==
    ASSUME ConstantsOK, BoardInv, [Next]_vars, NEW s \in Scans, Born(s), Exists(s)'
    PROVE  Exists(s)
<1>1. Board!BoardNext
    BY StepImplementsBoard
<1> DEFINE status == [z \in Scans |-> rows[z].status]
           next   == [z \in Scans |-> rows'[z].status]
<1>2. \/ next = status
      \/ \E z \in Scans : \E st \in Status :
            /\ status[z] \in {"unborn"} \cup Active \cup Terminal
            /\ next = [status EXCEPT ![z] = st]
    BY <1>1 DEF Board!BoardNext, Board!Moves, Board!Create, Board!Begin, Board!End, Board!Remove,
        Board!Overwrite, Board!Becomes, Board!Underway, Board!Ended, Status, Active, Terminal
<1>3. status[s] = rows[s].status /\ next[s] = rows'[s].status
    OBVIOUS
<1>4. next[s] = status[s] \/ status[s] \in {"unborn"} \cup Active \cup Terminal
    BY <1>2, <1>3
<1>5. QED
    BY <1>3, <1>4 DEF Born, Exists

\* How a step leaves the rows: closed stays, who ends a scan closes it, and only
\* an INSERT opens one.
RowsClose ==
    /\ \A s \in Scans : Exists(s) /\ Exists(s)' /\ rows[s].closed => rows'[s].closed
    /\ \A s \in Scans : rows'[s].status \in Terminal => rows'[s].closed
    /\ \A s \in Scans : Open(s)' => Open(s)

LEMMA CommitCloses ==
    ASSUME ConstantsOK, TypeOK, ClosedOK, NEW z \in Scans, NEW old \in Row, NEW new \in Row,
           Commit(z, old, new),
           Exists(z) /\ old.closed => rows[z].closed,
           new.closed = old.closed \/ new.closed = TRUE,
           new.status # old.status /\ new.status \in Terminal => new.closed = TRUE
    PROVE  RowsClose
<1>1. CASE ~Exists(z)
    BY <1>1, CommitType DEF RowsClose, ClosedOK, Open, IsActive
<1>2. CASE Exists(z)
    <2>1. \A s \in Scans \ {z} : rows'[s] = rows[s]
        BY CommitType
    <2>2. /\ rows'[z].status = Column(rows[z].status, old.status, new.status)
          /\ rows'[z].closed = Column(rows[z].closed, old.closed, new.closed)
        BY <1>2 DEF Commit, Merge, TypeOK
    <2>3. rows[z].closed \in BOOLEAN /\ old.closed \in BOOLEAN /\ new.closed \in BOOLEAN
        BY DEF TypeOK, Row
    <2>4. rows[z].closed => rows'[z].closed
        BY <1>2, <2>2, <2>3 DEF Column
    <2>5. rows'[z].status \in Terminal => rows'[z].closed
        BY <1>2, <2>2, <2>3 DEF Column, ClosedOK
    <2>6. Open(z)' => Open(z)
        BY <1>2, <2>4 DEF Open, IsActive, Exists, ClosedOK, Active, Terminal
    <2>7. QED
        BY <2>1, <2>4, <2>5, <2>6 DEF RowsClose, ClosedOK, Open, IsActive
<1>3. QED
    BY <1>1, <1>2

\* A step that leaves the rows as they are, or deletes one.
LEMMA OthersClose ==
    ASSUME TypeOK, ClosedOK,
           rows' = rows \/ \E s \in Scans : rows' = [rows EXCEPT ![s] = BlankRow("deleted")]
    PROVE  RowsClose
<1>1. CASE rows' = rows
    BY <1>1 DEF RowsClose, ClosedOK, Open, IsActive
<1>2. ASSUME NEW s \in Scans, rows' = [rows EXCEPT ![s] = BlankRow("deleted")] PROVE RowsClose
    <2>1. rows'[s].status = "deleted" /\ \A z \in Scans \ {s} : rows'[z] = rows[z]
        BY <1>2 DEF BlankRow, TypeOK
    <2>2. QED
        BY <2>1 DEF RowsClose, ClosedOK, Open, IsActive, Exists, Active, Terminal
<1>3. QED
    BY <1>1, <1>2

LEMMA StepCloses ==
    ASSUME ConstantsOK, TypeOK, ClosedOK, Next, \A r \in Requests, s \in Scans : ~Insert(r, s)
    PROVE  RowsClose
<1>1. ASSUME NEW r \in Requests, Starts(r) \/ Continues(r) \/ ApiCrash(r) PROVE RowsClose
    <2>1. CASE StoreTaskId(r) \/ MarkUndispatched(r) \/ CancelCommit(r)
        <3>1. req[r].scan \in Scans /\ req[r].snap \in Row
            BY <2>1, HoldingRequest DEF StoreTaskId, MarkUndispatched, CancelCommit, In, HoldingPCs,
                RequestRecord
        <3>2. Exists(req[r].scan) /\ req[r].snap.closed => rows[req[r].scan].closed
            BY <2>1 DEF ClosedOK, StoreTaskId, MarkUndispatched, CancelCommit, In, HoldingPCs
        <3>3. CASE StoreTaskId(r)
            <4> DEFINE new == [req[r].snap EXCEPT !.dispatched = TRUE]
            <4>1. new \in Row /\ new.status = req[r].snap.status /\ new.closed = req[r].snap.closed
                BY <3>1, WrittenRow DEF Row
            <4>2. Commit(req[r].scan, req[r].snap, new)
                BY <3>3 DEF StoreTaskId
            <4> HIDE DEF new
            <4>3. QED
                BY <3>1, <3>2, <4>1, <4>2, CommitCloses
        <3>4. CASE MarkUndispatched(r)
            <4> DEFINE new == [req[r].snap EXCEPT !.status = "failed", !.closed = TRUE]
            <4>1. new \in Row /\ new.closed = TRUE
                BY <3>1, WrittenRow DEF Row
            <4>2. Commit(req[r].scan, req[r].snap, new)
                BY <3>4 DEF MarkUndispatched
            <4> HIDE DEF new
            <4>3. QED
                BY <3>1, <3>2, <4>1, <4>2, CommitCloses
        <3>5. CASE CancelCommit(r)
            <4> DEFINE new == [req[r].snap EXCEPT !.status = "cancelled", !.closed = TRUE,
                                                  !.stage = NoStage]
            <4>1. new \in Row /\ new.closed = TRUE
                BY <3>1, WrittenRow DEF Row
            <4>2. Commit(req[r].scan, req[r].snap, new)
                BY <3>5 DEF CancelCommit
            <4> HIDE DEF new
            <4>3. QED
                BY <3>1, <3>2, <4>1, <4>2, CommitCloses
        <3>6. QED
            BY <2>1, <3>3, <3>4, <3>5
    <2>2. CASE DeleteCommit(r)
        <3>1. req[r].scan \in Scans
            BY <2>2, HoldingRequest DEF DeleteCommit, In, HoldingPCs, RequestRecord
        <3>2. QED
            BY <2>2, <3>1, OthersClose DEF DeleteCommit
    <2>3. CASE rows' = rows
        BY <2>3, OthersClose
    <2>4. QED
        BY <1>1, <2>1, <2>2, <2>3 DEF Starts, Continues, ApiCrash, CountActive, CancelLoad, DeleteLoad,
            DispatchOk, DispatchRaises
<1>2. ASSUME NEW t \in Tasks,
             Executes(t) \/ PipelineFails(t) \/ StageFails(t) \/ Revoke(t) \/ WorkerLost(t) \/ Redelivered(t)
      PROVE  RowsClose
    <2>1. Live(t) /\ task[t] \in TaskRecord
        BY <1>2, LiveTask DEF Executes, RunLoad, RunMark, RunPublish, StageStart, StageFinish,
            StageFails, FinaliseLoad, FinaliseCommit, PipelineFails, Revoke, WorkerLost,
            Redelivered, At
    <2>2. task[t].scan \in Scans /\ task[t].snap \in Row
        BY <2>1 DEF TaskRecord
    <2>3. Exists(task[t].scan) /\ task[t].snap.closed => rows[task[t].scan].closed
        BY <2>1 DEF ClosedOK
    <2>4. CASE rows' = rows
        BY <2>4, OthersClose
    <2>5. CASE RunMark(t) /\ rows' # rows
        <3> DEFINE new == [task[t].snap EXCEPT !.status = "running", !.stage = Orchestrator]
        <3>1. new \in Row /\ new.status = "running" /\ new.closed = task[t].snap.closed
            BY <2>2, WrittenRow DEF Row
        <3>2. Commit(task[t].scan, task[t].snap, new)
            BY <2>5 DEF RunMark
        <3> HIDE DEF new
        <3>3. QED
            BY <2>2, <2>3, <3>1, <3>2, CommitCloses DEF Terminal
    <2>6. CASE StageStart(t)
        <3> DEFINE old == rows[task[t].scan]
                   new == [rows[task[t].scan] EXCEPT !.stage = task[t].n + 1]
        <3>1. new \in Row /\ new.status = old.status /\ new.closed = old.closed
            BY <2>1, <2>2 DEF TypeOK, Row, StageColumn, TaskRecord, ConstantsOK
        <3>2. Commit(task[t].scan, old, new) /\ old \in Row
            BY <2>2, <2>6 DEF StageStart, TypeOK
        <3> HIDE DEF new
        <3>3. QED
            BY <2>2, <3>1, <3>2, CommitCloses
    <2>7. ASSUME Commit(task[t].scan, task[t].snap, Closed(task[t].snap))
          PROVE  RowsClose
        <3> DEFINE new == Closed(task[t].snap)
        <3>1. new \in Row
            BY <2>2, WrittenRow
        <3>2. new.closed = TRUE
            BY <2>2 DEF Closed, Row
        <3>3. Commit(task[t].scan, task[t].snap, new)
            BY <2>7
        <3> HIDE DEF new
        <3>4. QED
            BY <2>2, <2>3, <3>1, <3>2, <3>3, CommitCloses
    <2>8. CASE FinaliseCommit(t)
        BY <2>7, <2>8 DEF FinaliseCommit, Terminal
    <2>9. QED
        BY <1>2, <2>4, <2>5, <2>6, <2>8 DEF Executes, RunLoad, RunPublish, StageFinish, StageFails,
            FinaliseLoad, PipelineFails, Revoke, WorkerLost, Redelivered
<1>3. ASSUME NEW s \in Scans, Prune(s) PROVE RowsClose
    BY <1>3, OthersClose DEF Prune
<1>4. QED
    BY <1>1, <1>2, <1>3 DEF Next

LEMMA ClosedStays ==
    ASSUME ConstantsOK, BoardInv, HeldIsBorn, ClosedOK, Next
    PROVE  ClosedOK'
<1>1. TypeOK
    BY DEF BoardInv, IInv
<1>2. \A s \in Scans : rows'[s].status \in Terminal => rows'[s].closed
    <2>1. ASSUME NEW r \in Requests, NEW z \in Scans, Insert(r, z), NEW s \in Scans,
                 rows'[s].status \in Terminal
          PROVE  rows'[s].closed
        BY <1>1, <2>1 DEF Insert, BlankRow, Terminal, ClosedOK, TypeOK
    <2>2. QED
        BY <1>1, <2>1, StepCloses DEF RowsClose
<1>3. ASSUME NEW s \in Scans, Born(s), Exists(s)', Exists(s) => rows[s].closed
      PROVE  rows'[s].closed
    <2>1. Exists(s)
        BY <1>3, ExistedBefore
    <2>2. ASSUME NEW r \in Requests, NEW z \in Scans, Insert(r, z) PROVE rows'[s] = rows[s]
        BY <1>1, <1>3, <2>2 DEF Insert, Born, TypeOK
    <2>3. QED
        BY <1>1, <1>3, <2>1, <2>2, StepCloses DEF RowsClose
<1>4. ASSUME NEW u \in Tasks, Live(u)', task'[u].snap.closed, Exists(task[u].scan)'
      PROVE  rows'[task'[u].scan].closed
    <2>1. ~NoRow.closed
        BY DEF NoRow, BlankRow
    <2>2. PICK t \in Tasks : FollowsTask(u, t) /\ task'[u].snap # NoRow
        BY <1>1, <1>4, <2>1, TaskOrigin
    <2>3. task[t].scan \in Scans /\ Born(task[t].scan) /\ task'[u].scan = task[t].scan
        BY <1>1, <2>2, LiveTask DEF FollowsTask, HeldIsBorn, TaskRecord
    <2>4. CASE rows' = rows /\ task'[u].snap = rows[task[t].scan]
        BY <1>4, <2>3, <2>4
    <2>5. CASE task'[u].snap = task[t].snap
        <3>1. PICK s \in Scans : s = task[t].scan
            BY <2>3
        <3>2. Exists(s) => rows[s].closed
            BY <1>4, <2>2, <2>5, <3>1 DEF ClosedOK, FollowsTask
        <3>3. Exists(s)'
            BY <1>4, <2>3, <3>1 DEF Exists
        <3>4. QED
            BY <1>3, <2>3, <3>1, <3>2, <3>3
    <2>6. QED
        BY <2>2, <2>4, <2>5 DEF FollowsTask
<1>5. ASSUME NEW q \in Requests, req'[q].pc \in HoldingPCs, req'[q].snap.closed, Exists(req[q].scan)'
      PROVE  rows'[req'[q].scan].closed
    <2>1. CASE req[q].pc \in HoldingPCs /\ req'[q].scan = req[q].scan /\ req'[q].snap = req[q].snap
        <3>1. PICK s \in Scans : s = req[q].scan
            BY <1>1, <2>1, HoldingRequest DEF RequestRecord
        <3>2. Born(s) /\ (Exists(s) => rows[s].closed)
            BY <1>5, <2>1, <3>1 DEF ClosedOK, HeldIsBorn
        <3>3. Exists(s)'
            BY <1>5, <2>1, <3>1 DEF Exists
        <3>4. QED
            BY <1>3, <2>1, <3>1, <3>2, <3>3
    <2>2. ASSUME NEW s \in Scans, Insert(q, s) \/ CancelLoad(q, s) \/ DeleteLoad(q, s),
                 req'[q].scan = s
          PROVE  rows'[req'[q].scan].closed
        BY <1>1, <1>5, <2>2 DEF Insert, CancelLoad, DeleteLoad, Goto, Holding, BlankRow, NoRow, TypeOK
    <2>3. QED
        BY <1>1, <1>5, <2>1, <2>2, RequestOrigin
<1>6. QED
    BY <1>2, <1>4, <1>5 DEF ClosedOK

\* Which handlers have passed the check after a step.
LEMMA CountedStep ==
    ASSUME TypeOK, Next
    PROVE  /\ \A r \in Requests : In(r, "counted")' => In(r, "counted") \/ CountActive(r)
           /\ \A r \in Requests, s \in Scans : Insert(r, s) => In(r, "counted") /\ ~In(r, "counted")'
<1>1. ASSUME NEW r \in Requests, In(r, "counted")', ~CountActive(r) PROVE In(r, "counted")
    <2>1. CASE req'[r] = req[r]
        BY <1>1, <2>1 DEF In
    <2>2. CASE DispatchOk(r) \/ DispatchRaises(r)
        <3>1. req[r] \in RequestRecord
            BY <2>2, HoldingRequest DEF DispatchOk, DispatchRaises, In, HoldingPCs
        <3>2. QED
            BY <1>1, <2>2, <3>1 DEF DispatchOk, DispatchRaises, Goto, RequestRecord, In, TypeOK
    <2>3. CASE StoreTaskId(r) \/ MarkUndispatched(r) \/ CancelCommit(r) \/ DeleteCommit(r) \/ ApiCrash(r)
               \/ \E s \in Scans : CancelLoad(r, s) \/ DeleteLoad(r, s) \/ Insert(r, s)
        BY <1>1, <2>3 DEF StoreTaskId, MarkUndispatched, CancelCommit, DeleteCommit, ApiCrash,
            CancelLoad, DeleteLoad, Insert, Goto, Idle, Holding, In, TypeOK
    <2>4. ASSUME NEW q \in Requests \ {r}, Starts(q) \/ Continues(q) \/ ApiCrash(q)
          PROVE  req'[r] = req[r]
        BY <2>4 DEF Starts, Continues, ApiCrash, CountActive, CancelLoad, DeleteLoad, Insert, DispatchOk,
            DispatchRaises, StoreTaskId, MarkUndispatched, CancelCommit, DeleteCommit, Goto, TypeOK
    <2>5. ASSUME NEW t \in Tasks,
                 Executes(t) \/ PipelineFails(t) \/ StageFails(t) \/ Revoke(t) \/ WorkerLost(t) \/ Redelivered(t)
          PROVE  req' = req
        BY <2>5 DEF Executes, RunLoad, RunMark, RunPublish, StageStart, StageFinish, StageFails,
            FinaliseLoad, FinaliseCommit, PipelineFails, Revoke, WorkerLost, Redelivered
    <2>6. ASSUME NEW s \in Scans, Prune(s) PROVE req' = req
        BY <2>6 DEF Prune
    <2>7. QED
        BY <1>1, <2>1, <2>2, <2>3, <2>4, <2>5, <2>6 DEF Next, Starts, Continues
<1>2. ASSUME NEW r \in Requests, NEW s \in Scans, Insert(r, s) PROVE ~In(r, "counted")' /\ In(r, "counted")
    BY <1>2 DEF Insert, Goto, Holding, In, TypeOK
<1>3. QED
    BY <1>1, <1>2

LEMMA CapStep ==
    ASSUME ConstantsOK, BoardInv, HeldIsBorn, ClosedOK, CapOvershootBounded, Next
    PROVE  CapOvershootBounded'
<1> DEFINE Cap == MaxActive - 1 + Cardinality(Requests)
<1>1. TypeOK
    BY DEF BoardInv, IInv
<1>2. /\ Cardinality(OpenScans) + Cardinality(CountedRequests) <= Cap
      /\ Cardinality(OpenScans') + Cardinality(CountedRequests') <= Cap => CapOvershootBounded'
    BY DEF CapOvershootBounded, OpenScans, Open, CountedRequests
<1>3. /\ IsFiniteSet(OpenScans) /\ IsFiniteSet(CountedRequests) /\ IsFiniteSet(ActiveScans)
      /\ IsFiniteSet(OpenScans') /\ IsFiniteSet(CountedRequests')
    BY FS_Subset DEF ConstantsOK, OpenScans, CountedRequests, ActiveScans
<1>4. /\ Cardinality(OpenScans) \in Nat /\ Cardinality(CountedRequests) \in Nat
      /\ Cardinality(OpenScans') \in Nat /\ Cardinality(CountedRequests') \in Nat
      /\ Cardinality(ActiveScans) \in Nat
      /\ Cardinality(Requests) \in Nat /\ MaxActive \in Nat
    BY <1>3, FS_CardinalityType DEF ConstantsOK
<1>5. ASSUME NEW r \in Requests, CountActive(r) PROVE CapOvershootBounded'
    <2>1. OpenScans' = OpenScans /\ OpenScans \subseteq ActiveScans
        BY <1>5 DEF CountActive, OpenScans, Open, IsActive, ActiveScans
    <2>2. Cardinality(OpenScans) <= Cardinality(ActiveScans) /\ Cardinality(ActiveScans) < MaxActive
        BY <1>3, <1>5, <2>1, FS_Subset DEF CountActive
    <2>3. Cardinality(CountedRequests') <= Cardinality(Requests)
        BY FS_Subset DEF ConstantsOK, CountedRequests
    <2>4. QED
        BY <1>2, <1>4, <2>1, <2>2, <2>3
<1>6. ASSUME NEW r \in Requests, NEW s \in Scans, Insert(r, s) PROVE CapOvershootBounded'
    <2>1. OpenScans' \subseteq OpenScans \cup {s}
        BY <1>1, <1>6 DEF Insert, OpenScans, Open, IsActive, TypeOK
    <2>2. r \in CountedRequests /\ CountedRequests' \subseteq CountedRequests \ {r}
        BY <1>1, <1>6, CountedStep DEF CountedRequests, CountActive, Insert, In, Goto, Holding, TypeOK
    <2>3. Cardinality(OpenScans') <= Cardinality(OpenScans) + 1
        <3>1. /\ IsFiniteSet(OpenScans \cup {s})
              /\ Cardinality(OpenScans \cup {s}) \in {Cardinality(OpenScans), Cardinality(OpenScans) + 1}
            BY <1>3, FS_AddElement
        <3>2. Cardinality(OpenScans') <= Cardinality(OpenScans \cup {s})
            BY <2>1, <3>1, FS_Subset
        <3>3. QED
            BY <1>4, <3>1, <3>2
    <2>4. Cardinality(CountedRequests') <= Cardinality(CountedRequests) - 1
        <3>1. /\ IsFiniteSet(CountedRequests \ {r})
              /\ Cardinality(CountedRequests \ {r}) = Cardinality(CountedRequests) - 1
            BY <1>3, <2>2, FS_RemoveElement
        <3>2. Cardinality(CountedRequests') <= Cardinality(CountedRequests \ {r})
            BY <2>2, <3>1, FS_Subset
        <3>3. QED
            BY <3>1, <3>2
    <2>5. QED
        BY <1>2, <1>4, <2>3, <2>4
<1>7. CASE /\ \A r \in Requests : ~CountActive(r)
           /\ \A r \in Requests, s \in Scans : ~Insert(r, s)
    <2>1. OpenScans' \subseteq OpenScans /\ CountedRequests' \subseteq CountedRequests
        BY <1>1, <1>7, StepCloses, CountedStep DEF RowsClose, OpenScans, CountedRequests
    <2>2. /\ Cardinality(OpenScans') <= Cardinality(OpenScans)
          /\ Cardinality(CountedRequests') <= Cardinality(CountedRequests)
        BY <1>3, <2>1, FS_Subset
    <2>3. QED
        BY <1>2, <1>4, <2>2
<1>8. QED
    BY <1>5, <1>6, <1>7

LEMMA CapInductive ==
    /\ Init => CapInv
    /\ CapInv /\ [Next]_vars => CapInv'
<1>1. ASSUME Init PROVE ClosedOK /\ CapOvershootBounded
    <2>1. ClosedOK
        BY <1>1 DEF Init, ClosedOK, NoRow, BlankRow, NoTask, Idle, Live, HoldingPCs, Terminal
    <2>2. OpenScans = {} /\ CountedRequests = {}
        BY <1>1 DEF Init, OpenScans, Open, IsActive, Active, CountedRequests, In, Idle, NoRow, BlankRow
    <2>3. Cardinality(Requests) \in Nat /\ MaxActive \in Nat \ {0}
        BY ConstantsOK, FS_CardinalityType DEF ConstantsOK
    <2>4. Cardinality(OpenScans) = 0 /\ Cardinality(CountedRequests) = 0
        BY <2>2, FS_EmptySet
    <2>5. Cardinality(OpenScans) + Cardinality(CountedRequests) <= MaxActive - 1 + Cardinality(Requests)
        BY <2>3, <2>4
    <2>6. QED
        BY <2>1, <2>5 DEF CapOvershootBounded, OpenScans, Open, CountedRequests
<1>2. ASSUME CapInv, [Next]_vars PROVE ClosedOK' /\ CapOvershootBounded'
    <2>1. CASE Next
        BY <1>2, <2>1, ConstantsOK, ClosedStays, CapStep DEF CapInv
    <2>2. CASE UNCHANGED vars
        BY <1>2, <2>2 DEF CapInv, ClosedOK, CapOvershootBounded, vars, Exists, IsActive, Live, In
    <2>3. QED
        BY <1>2, <2>1, <2>2
<1>3. QED
    BY <1>1, <1>2, BoardInductive, HeldIsBornInductive DEF CapInv

\* The limit of concurrent scans is passed by no more than the handlers that were
\* between their check and their INSERT.
THEOREM LimitOvershootBounded == Spec => []CapOvershootBounded
<1>1. CapInv => CapOvershootBounded
    BY DEF CapInv
<1>2. QED
    BY <1>1, CapInductive, PTL DEF Spec
=============================================================================
