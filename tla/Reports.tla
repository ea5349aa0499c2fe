------------------------------ MODULE Reports ------------------------------
(***************************************************************************)
(* Reports: the request that inserts a row and queues its build            *)
(* (routes/reports.py), the worker that writes the file and settles the    *)
(* row (workers/report_builder.py), and the two ways a report goes away,   *)
(* by a user and by the retention sweep (workers/scheduler.py).            *)
(*                                                                         *)
(* The file name holds the second of the request, so a path stands for a   *)
(* second: requests of the same second and format share a file.            *)
(***************************************************************************)
EXTENDS Naturals, FiniteSets

CONSTANTS
    MaxReports,     \* bound on the rows of reports
    MaxSecond,      \* bound on the seconds in which reports are requested
    Desks,          \* handlers and sweeps that may be in progress together
    MaxBreakdowns   \* bound on refusals, exceptions, lost workers and crashes

ASSUME ReportConstants ==
    /\ MaxReports \in Nat /\ MaxSecond \in Nat \ {0} /\ MaxBreakdowns \in Nat
    /\ IsFiniteSet(Desks)

VARIABLES
    second,      \* the clock
    report,      \* the table
    file,        \* the files, by path
    spare,       \* whose bytes the .html beside a path holds, empty if there is none
    build,       \* the build of each report: its message, or where it is executed
    desk,        \* handlers and sweeps in progress
    breakdowns,  \* breakdowns so far
    stranded,    \* history: reports nobody will build or settle any more
    withdrawn,   \* history: reports whose file somebody has begun to remove
    overlap,     \* history: those of them whose build had not ended by then
    unremoved,   \* history: those of them whose file could not be removed
    interrupted  \* history: reports whose build ended between a .html and its rename

fallbackVars == <<spare, interrupted>>
reportVars == <<second, report, file, build, desk, breakdowns, stranded, withdrawn,
                overlap, unremoved, fallbackVars>>
-----------------------------------------------------------------------------
ReportIds == 1 .. MaxReports
Paths     == 1 .. MaxSecond

ReportState == {"unborn", "pending", "ready", "failed", "gone"}
ReportRow   == [state: ReportState, path: Paths]
Present     == {id \in ReportIds : report[id].state \notin {"unborn", "gone"}}
SetState(id, st) == report' = [report EXCEPT ![id].state = st]
SettlesAs(id, st) == IF id \in Present THEN SetState(id, st) ELSE UNCHANGED report

\* A file: whose bytes it holds, and whether its last writer has finished it.
NoFile  == [of |-> {}, whole |-> FALSE]
File    == [of: SUBSET ReportIds, whole: BOOLEAN]
PathOf(id) == report[id].path
OnDisk  == {p \in Paths : file[p] # NoFile}

\* "fallback" is writing the .html, "replaced" has renamed it to the path of the report.
BuildPC == {"none", "queued", "loaded", "opened", "fallback", "replaced", "written",
            "broken", "done"}
UnderWay(id) == build[id] \notin {"none", "done"}
BuildMoves(id, pc) == build' = [build EXCEPT ![id] = pc]

DeskPC == {"free", "inserted", "refused", "deleting", "unlinked"}
DeskRecord == [pc: DeskPC, id: 0 .. MaxReports]
FreeDesk == [pc |-> "free", id |-> 0]
DeskAt(h, pc) == desk[h].pc = pc
DeskMoves(h, pc, id) == desk' = [desk EXCEPT ![h] = [pc |-> pc, id |-> id]]
DeskEnds(h) == desk' = [desk EXCEPT ![h] = FreeDesk]

\* The build of a report is still to come, or in progress.
BuildMayWrite(id) ==
    UnderWay(id) \/ \E h \in Desks : DeskAt(h, "inserted") /\ desk[h].id = id

Breakdown   == breakdowns < MaxBreakdowns /\ breakdowns' = breakdowns + 1
NoBreakdown == UNCHANGED breakdowns

ReportsTypeOK ==
    /\ second \in Paths
    /\ report \in [ReportIds -> ReportRow]
    /\ file \in [Paths -> File]
    /\ build \in [ReportIds -> BuildPC]
    /\ desk \in [Desks -> DeskRecord]
    /\ breakdowns \in Nat
    /\ stranded \subseteq ReportIds /\ withdrawn \subseteq ReportIds
    /\ overlap \subseteq ReportIds /\ unremoved \subseteq ReportIds
    /\ spare \in [Paths -> SUBSET ReportIds] /\ interrupted \subseteq ReportIds

ReportsInit ==
    /\ second = 1
    /\ report = [id \in ReportIds |-> [state |-> "unborn", path |-> 1]]
    /\ file = [p \in Paths |-> NoFile]
    /\ build = [id \in ReportIds |-> "none"]
    /\ desk = [h \in Desks |-> FreeDesk]
    /\ breakdowns = 0
    /\ stranded = {} /\ withdrawn = {} /\ overlap = {} /\ unremoved = {}
    /\ spare = [p \in Paths |-> {}] /\ interrupted = {}

NextSecond ==
    /\ second < MaxSecond
    /\ second' = second + 1
    /\ UNCHANGED <<report, file, build, desk, breakdowns, stranded, withdrawn, overlap,
                   unremoved, fallbackVars>>
-----------------------------------------------------------------------------
(* create_report: commit the row, then queue its build.                     *)

CreateReport(h, id) ==
    /\ DeskAt(h, "free")
    /\ report[id].state = "unborn" /\ \A k \in 1 .. id - 1 : report[k].state # "unborn"
    /\ report' = [report EXCEPT ![id] = [state |-> "pending", path |-> second]]
    /\ DeskMoves(h, "inserted", id)
    /\ UNCHANGED <<second, file, build, breakdowns, stranded, withdrawn, overlap,
                   unremoved, fallbackVars>>

DelayOk(h) ==
    /\ DeskAt(h, "inserted")
    /\ BuildMoves(desk[h].id, "queued")
    /\ DeskEnds(h)
    /\ UNCHANGED <<second, report, file, breakdowns, stranded, withdrawn, overlap,
                   unremoved, fallbackVars>>

\* Mistake: the broker's error is logged and the row is left as it is.
DelayRaisesLogged(h) ==
    /\ DeskAt(h, "inserted") /\ Breakdown
    /\ DeskEnds(h)
    /\ UNCHANGED <<second, report, file, build, stranded, withdrawn, overlap, unremoved, fallbackVars>>

\* The call raises; the broker may have taken the message all the same.
DelayRaises(h) ==
    /\ DeskAt(h, "inserted") /\ Breakdown
    /\ UNCHANGED build \/ BuildMoves(desk[h].id, "queued")
    /\ DeskMoves(h, "refused", desk[h].id)
    /\ UNCHANGED <<second, report, file, stranded, withdrawn, overlap, unremoved, fallbackVars>>

\* The UPDATE of a row that is gone raises and changes nothing.
MarkFailed(h) ==
    /\ DeskAt(h, "refused")
    /\ SettlesAs(desk[h].id, "failed")
    /\ DeskEnds(h)
    /\ UNCHANGED <<second, file, build, breakdowns, stranded, withdrawn, overlap,
                   unremoved, fallbackVars>>

(* delete_report and the sweep: the file first, then the row.               *)

DeleteLoad(h, id) ==
    /\ DeskAt(h, "free") /\ id \in Present
    /\ DeskMoves(h, "deleting", id)
    /\ UNCHANGED <<second, report, file, build, breakdowns, stranded, withdrawn, overlap,
                   unremoved, fallbackVars>>

Withdraws(id) ==
    /\ withdrawn' = withdrawn \cup {id}
    /\ overlap' = IF BuildMayWrite(id) THEN overlap \cup {id} ELSE overlap
    /\ UNCHANGED <<second, report, build, stranded, fallbackVars>>

\* Mistake: only the file of a report that is ready is removed.
DeleteUnlinkReady(h) ==
    LET id == desk[h].id IN
    /\ DeskAt(h, "deleting") /\ NoBreakdown
    /\ file' = IF report[id].state = "ready" THEN [file EXCEPT ![PathOf(id)] = NoFile] ELSE file
    /\ DeskMoves(h, "unlinked", id)
    /\ Withdraws(id)
    /\ UNCHANGED unremoved

\* A file that cannot be removed is left, and its row goes away.
DeleteUnlink(h) ==
    LET id == desk[h].id IN
    /\ DeskAt(h, "deleting")
    /\ \/ /\ NoBreakdown
          /\ file' = [file EXCEPT ![PathOf(id)] = NoFile] /\ UNCHANGED unremoved
       \/ /\ Breakdown
          /\ unremoved' = unremoved \cup {id} /\ UNCHANGED file
    /\ DeskMoves(h, "unlinked", id)
    /\ Withdraws(id)

\* The sweep, of a report that is old enough, as any may be.  Here the row stays
\* if the file does, and the next sweep tries again.
PruneUnlink(h, id) ==
    /\ DeskAt(h, "free") /\ id \in Present
    /\ file' = [file EXCEPT ![PathOf(id)] = NoFile]
    /\ DeskMoves(h, "unlinked", id)
    /\ Withdraws(id)
    /\ UNCHANGED <<breakdowns, unremoved>>

RemoveRow(h) ==
    /\ DeskAt(h, "unlinked")
    /\ SettlesAs(desk[h].id, "gone")
    /\ DeskEnds(h)
    /\ UNCHANGED <<second, file, build, breakdowns, stranded, withdrawn, overlap,
                   unremoved, fallbackVars>>

DeskDies(h) ==
    /\ ~DeskAt(h, "free") /\ Breakdown
    /\ stranded' = IF desk[h].pc \in {"inserted", "refused"} THEN stranded \cup {desk[h].id} ELSE stranded
    /\ DeskEnds(h)
    /\ UNCHANGED <<second, report, file, build, withdrawn, overlap, unremoved, fallbackVars>>
-----------------------------------------------------------------------------
(* build_report.                                                            *)

BuildLoad(id) ==
    /\ build[id] = "queued"
    /\ BuildMoves(id, IF id \in Present THEN "loaded" ELSE "done")
    /\ UNCHANGED <<second, report, file, desk, breakdowns, stranded, withdrawn, overlap,
                   unremoved, fallbackVars>>

\* os.makedirs is called outside the try block: nobody writes the row.
MakeDirsRaises(id) ==
    /\ build[id] = "loaded" /\ Breakdown
    /\ BuildMoves(id, "done")
    /\ stranded' = stranded \cup {id}
    /\ UNCHANGED <<second, report, file, desk, withdrawn, overlap, unremoved, fallbackVars>>

\* Collect the data and open the file, which empties it.
BuildOpens(id) ==
    /\ build[id] = "loaded"
    /\ file' = [file EXCEPT ![PathOf(id)] = [of |-> {id}, whole |-> FALSE]]
    /\ BuildMoves(id, "opened")
    /\ UNCHANGED <<second, report, desk, breakdowns, stranded, withdrawn, overlap,
                   unremoved, fallbackVars>>

\* WeasyPrint is missing, or raises an OSError before or after it opens the file:
\* a PDF is written as HTML, into a file of its own beside the path.
FallbackOpens(id) ==
    /\ build[id] \in {"loaded", "opened"}
    /\ spare' = [spare EXCEPT ![PathOf(id)] = {id}]
    /\ BuildMoves(id, "fallback")
    /\ UNCHANGED <<second, report, file, desk, breakdowns, stranded, withdrawn, overlap, unremoved,
                   interrupted>>

\* That file takes the place of the report's.  It is gone if a build of the same
\* second has renamed it first, and then the rename raises.
FallbackReplaces(id) ==
    /\ build[id] = "fallback"
    /\ IF spare[PathOf(id)] = {}
       THEN BuildMoves(id, "broken") /\ UNCHANGED file
       ELSE /\ file' = [file EXCEPT ![PathOf(id)] = [of |-> spare[PathOf(id)] \cup {id}, whole |-> TRUE]]
            /\ BuildMoves(id, "replaced")
    /\ spare' = [spare EXCEPT ![PathOf(id)] = {}]
    /\ UNCHANGED <<second, report, desk, breakdowns, stranded, withdrawn, overlap, unremoved,
                   interrupted>>

\* The rendering functions end by asking for the size of the file.
BuildCloses(id) ==
    /\ build[id] \in {"opened", "replaced"}
    /\ IF file[PathOf(id)] = NoFile
       THEN BuildMoves(id, "broken") /\ UNCHANGED file
       ELSE /\ file' = [file EXCEPT ![PathOf(id)] = [of |-> @.of \cup {id}, whole |-> TRUE]]
            /\ BuildMoves(id, "written")
    /\ UNCHANGED <<second, report, desk, breakdowns, stranded, withdrawn, overlap,
                   unremoved, fallbackVars>>

\* The .html of a build that ends before the rename stays where it is.
LeavesSpare(id) ==
    /\ interrupted' = IF build[id] = "fallback" THEN interrupted \cup {id} ELSE interrupted
    /\ UNCHANGED spare

\* Mistake: the exception is logged and not raised.
BuildRaisesLogged(id) ==
    /\ build[id] \in {"loaded", "opened", "fallback"} /\ Breakdown
    /\ BuildMoves(id, "written")
    /\ LeavesSpare(id)
    /\ UNCHANGED <<second, report, file, desk, stranded, withdrawn, overlap, unremoved>>

BuildRaises(id) ==
    /\ build[id] \in {"loaded", "opened", "fallback"} /\ Breakdown
    /\ BuildMoves(id, "broken")
    /\ LeavesSpare(id)
    /\ UNCHANGED <<second, report, file, desk, stranded, withdrawn, overlap, unremoved>>

\* The last write of a task.  If its worker is lost before it acknowledges the
\* message, the task is executed again.
BuildSettles(id) ==
    /\ \/ build[id] = "written" /\ SettlesAs(id, "ready")
       \/ build[id] = "broken" /\ SettlesAs(id, "failed")
    /\ \/ BuildMoves(id, "done") /\ NoBreakdown
       \/ BuildMoves(id, "queued") /\ Breakdown
    /\ UNCHANGED <<second, file, desk, stranded, withdrawn, overlap, unremoved, fallbackVars>>

BuilderLost(id) ==
    /\ UnderWay(id) /\ build[id] # "queued" /\ Breakdown
    /\ BuildMoves(id, "queued")
    /\ LeavesSpare(id)
    /\ UNCHANGED <<second, report, file, desk, stranded, withdrawn, overlap, unremoved>>
-----------------------------------------------------------------------------
DeskContinues(h) == DelayOk(h) \/ MarkFailed(h) \/ DeleteUnlink(h) \/ RemoveRow(h)

DeskStarts(h) ==
    \E id \in ReportIds : CreateReport(h, id) \/ DeleteLoad(h, id) \/ PruneUnlink(h, id)

BuildSteps(id) ==
    \/ BuildLoad(id) \/ BuildOpens(id) \/ BuildCloses(id) \/ BuildSettles(id)
    \/ FallbackOpens(id) \/ FallbackReplaces(id)

ReportsNext ==
    \/ NextSecond
    \/ \E h \in Desks : DeskStarts(h) \/ DeskContinues(h) \/ DelayRaises(h) \/ DeskDies(h)
    \/ \E id \in ReportIds :
        \/ BuildSteps(id)
        \/ MakeDirsRaises(id) \/ BuildRaises(id) \/ BuilderLost(id)

ReportsSpec == ReportsInit /\ [][ReportsNext]_reportVars
-----------------------------------------------------------------------------
(* Properties.                                                              *)

SharesPath(id) ==
    \E k \in ReportIds \ {id} : report[k].state # "unborn" /\ PathOf(k) = PathOf(id)

IsWhole(id) == file[PathOf(id)] = [of |-> {id}, whole |-> TRUE]

\* What a user can download is the whole of their own report, through crashes,
\* repeated builds and broker errors.  Not covered: reports whose build is executed
\* again after it made them ready, until it ends; requests of one second, whose
\* builds write one file; reports that are being removed; and a build that was
\* ready, is executed again, lost with its file half written, and stranded by
\* makedirs when it is executed a third time.
ReadyHasOwnFile ==
    \A id \in ReportIds : report[id].state = "ready" =>
        IsWhole(id) \/ UnderWay(id) \/ SharesPath(id) \/ id \in withdrawn \cup stranded

\* The page polls as long as anything is pending: a pending report has a handler
\* or a build that will settle it.  It has none if the API died in between, or
\* makedirs raised.
PendingHasBuilder ==
    \A id \in ReportIds : report[id].state = "pending" =>
        \/ UnderWay(id) \/ id \in stranded
        \/ \E h \in Desks : desk[h].pc \in {"inserted", "refused"} /\ desk[h].id = id

\* Deleting a row and the sweep remove the file the row names, and nothing looks for
\* others.  Files outlive their rows only if a report was removed before its build
\* had ended, or its file could not be deleted; and the .html of a PDF that falls
\* back stays, whatever happens to the row, only if its build was interrupted
\* before the rename.
OrphanFilesFromRaces ==
    /\ \A p \in OnDisk :
        \/ \E id \in Present : PathOf(id) = p
        \/ \E id \in overlap \cup unremoved : PathOf(id) = p
    /\ \A p \in Paths : spare[p] # {} =>
        \E id \in ReportIds : PathOf(id) = p /\ (build[id] = "fallback" \/ id \in interrupted)
=============================================================================
