--------------------------- MODULE Reports_proofs ---------------------------
(***************************************************************************)
(* Proofs about Reports, for any number of reports, seconds, handlers and  *)
(* breakdowns.                                                             *)
(*                                                                         *)
(* PendingHasBuilder is inductive once it is stated with the types: the    *)
(* step that ends a handler or a build is the one that settles the row, or *)
(* hands it to a build, or leaves it stranded.                             *)
(*                                                                         *)
(* The files: FilesInv says whose bytes a file can hold, that a build that *)
(* has closed its file has left it whole, that a row goes away after its   *)
(* file, and that a file is claimed by a report whose removal has not      *)
(* begun or by one of the races OrphanFilesFromRaces names, and a .html by *)
(* a build that is about to rename it or was interrupted.                  *)
(***************************************************************************)
EXTENDS Reports, TLAPS

\* A handler that is at work was given a report.
BusyHoldsReport == \A h \in Desks : desk[h].pc # "free" => desk[h].id \in ReportIds

ReportsInv == ReportsTypeOK /\ BusyHoldsReport /\ PendingHasBuilder

\* What a handler in progress holds is a report, and its path a path.
LEMMA HeldReport ==
    ASSUME ReportsTypeOK
    PROVE  /\ \A h \in Desks : desk[h].id \in 0 .. MaxReports
           /\ \A id \in ReportIds : PathOf(id) \in Paths
BY DEF ReportsTypeOK, DeskRecord, ReportRow, PathOf

\* A move of one handler.
LEMMA DeskMoved ==
    ASSUME ReportsTypeOK, NEW h \in Desks, NEW pc \in DeskPC, NEW id \in 0 .. MaxReports,
           DeskMoves(h, pc, id)
    PROVE  /\ desk' \in [Desks -> DeskRecord]
           /\ desk'[h].pc = pc /\ desk'[h].id = id
           /\ \A k \in Desks \ {h} : desk'[k] = desk[k]
BY DEF ReportsTypeOK, DeskMoves, DeskRecord

\* Its end.
LEMMA DeskEnded ==
    ASSUME ReportsTypeOK, ReportConstants, NEW h \in Desks, DeskEnds(h)
    PROVE  /\ desk' \in [Desks -> DeskRecord]
           /\ desk'[h].pc = "free"
           /\ \A k \in Desks \ {h} : desk'[k] = desk[k]
BY DEF ReportsTypeOK, ReportConstants, DeskEnds, DeskRecord, DeskPC, FreeDesk

\* A move of one build.
LEMMA BuildMoved ==
    ASSUME ReportsTypeOK, NEW id \in ReportIds, NEW pc \in BuildPC, BuildMoves(id, pc)
    PROVE  /\ build' \in [ReportIds -> BuildPC]
           /\ build'[id] = pc
           /\ \A k \in ReportIds \ {id} : build'[k] = build[k]
BY DEF ReportsTypeOK, BuildMoves

\* The UPDATE of one row.
LEMMA Settled ==
    ASSUME ReportsTypeOK, NEW id, NEW st \in ReportState, SettlesAs(id, st)
    PROVE  /\ report' \in [ReportIds -> ReportRow]
           /\ id \in Present => report'[id].state = st
           /\ \A k \in ReportIds : k # id \/ k \notin Present => report'[k] = report[k]
<1>1. CASE id \in Present
    <2>1. id \in ReportIds
        BY <1>1 DEF Present
    <2>2. report' = [report EXCEPT ![id].state = st]
        BY <1>1 DEF SettlesAs, SetState
    <2>3. QED
        BY <1>1, <2>1, <2>2 DEF ReportsTypeOK, ReportRow
<1>2. CASE id \notin Present
    BY <1>2 DEF SettlesAs, ReportsTypeOK
<1>3. QED
    BY <1>1, <1>2

\* A file that is removed.
LEMMA Removed ==
    ASSUME ReportsTypeOK, NEW p, file' = [file EXCEPT ![p] = NoFile]
    PROVE  file' \in [Paths -> File]
<1>1. NoFile \in File
    BY DEF NoFile, File
<1>2. QED
    BY <1>1 DEF ReportsTypeOK

\* A report that is withdrawn.
LEMMA Withdrawn ==
    ASSUME ReportsTypeOK, NEW id \in ReportIds, Withdraws(id)
    PROVE  /\ withdrawn' \subseteq ReportIds /\ overlap' \subseteq ReportIds
           /\ UNCHANGED <<second, report, build, stranded, spare, interrupted>>
BY DEF ReportsTypeOK, Withdraws, fallbackVars
-----------------------------------------------------------------------------
LEMMA ReportsInitOK == ReportConstants /\ ReportsInit => ReportsInv
BY DEF ReportConstants, ReportsInit, ReportsInv, ReportsTypeOK, BusyHoldsReport, PendingHasBuilder,
       Paths, ReportRow, ReportState, File, NoFile, BuildPC, DeskRecord, DeskPC, FreeDesk

\* Starting a handler.
LEMMA StartsOK ==
    ASSUME ReportConstants, ReportsInv, NEW h \in Desks, DeskStarts(h)
    PROVE  ReportsInv'
<1> USE DEF ReportsInv
<1>1. ASSUME NEW id \in ReportIds, CreateReport(h, id)
      PROVE  ReportsInv'
    <2>1. /\ desk' \in [Desks -> DeskRecord]
          /\ desk'[h].pc = "inserted" /\ desk'[h].id = id
          /\ \A k \in Desks \ {h} : desk'[k] = desk[k]
        BY <1>1, DeskMoved DEF CreateReport, DeskPC, ReportIds
    <2>2. /\ report' \in [ReportIds -> ReportRow]
          /\ \A k \in ReportIds \ {id} : report'[k] = report[k]
        BY <1>1 DEF CreateReport, ReportsTypeOK, ReportRow, ReportState
    <2>3. ReportsTypeOK'
        BY <1>1, <2>1, <2>2 DEF CreateReport, ReportsTypeOK, fallbackVars
    <2>4. BusyHoldsReport'
        BY <2>1 DEF BusyHoldsReport
    <2>5. PendingHasBuilder'
        <3>1. DeskAt(h, "free")
            BY <1>1 DEF CreateReport
        <3>2. QED
            BY <1>1, <2>1, <2>2, <3>1 DEF CreateReport, PendingHasBuilder, UnderWay, DeskAt
    <2>6. QED
        BY <2>3, <2>4, <2>5
<1>2. ASSUME NEW id \in ReportIds, DeleteLoad(h, id) \/ PruneUnlink(h, id)
      PROVE  ReportsInv'
    <2>1. PICK pc \in {"deleting", "unlinked"} : DeskMoves(h, pc, id)
        BY <1>2 DEF DeleteLoad, PruneUnlink
    <2>2. /\ desk' \in [Desks -> DeskRecord]
          /\ desk'[h].pc = pc /\ desk'[h].id = id
          /\ \A k \in Desks \ {h} : desk'[k] = desk[k]
        BY <2>1, DeskMoved DEF DeskPC, ReportIds
    <2>3. /\ UNCHANGED <<second, report, build, stranded, breakdowns, unremoved, spare, interrupted>>
          /\ withdrawn' \subseteq ReportIds /\ overlap' \subseteq ReportIds
        BY <1>2, Withdrawn DEF DeleteLoad, PruneUnlink, ReportsTypeOK, fallbackVars
    <2>4. file' \in [Paths -> File]
        BY <1>2, Removed DEF DeleteLoad, PruneUnlink, ReportsTypeOK
    <2>5. ReportsTypeOK'
        BY <2>2, <2>3, <2>4 DEF ReportsTypeOK
    <2>6. BusyHoldsReport'
        BY <2>2 DEF BusyHoldsReport
    <2>7. PendingHasBuilder'
        <3>1. DeskAt(h, "free")
            BY <1>2 DEF DeleteLoad, PruneUnlink
        <3>2. QED
            BY <2>2, <2>3, <3>1 DEF PendingHasBuilder, UnderWay, DeskAt
    <2>8. QED
        BY <2>5, <2>6, <2>7
<1>3. QED
    BY <1>1, <1>2 DEF DeskStarts

\* What a handler in progress does, and how it is lost.
LEMMA DesksOK ==
    ASSUME ReportConstants, ReportsInv, NEW h \in Desks,
           DeskContinues(h) \/ DelayRaises(h) \/ DeskDies(h)
    PROVE  ReportsInv'
<1> DEFINE id == desk[h].id
<1> USE DEF ReportsInv
<1>1. desk[h].pc # "free" /\ id \in ReportIds /\ id \in 0 .. MaxReports
    BY HeldReport DEF DeskContinues, DelayOk, MarkFailed, DeleteUnlink, RemoveRow, DelayRaises,
        DeskDies, DeskAt, BusyHoldsReport
<1>2. ASSUME DeskEnds(h)
      PROVE  /\ desk' \in [Desks -> DeskRecord]
             /\ desk'[h].pc = "free"
             /\ \A k \in Desks \ {h} : desk'[k] = desk[k]
             /\ BusyHoldsReport'
    BY <1>2, DeskEnded DEF BusyHoldsReport
<1>3. CASE DelayOk(h)
    <2>1. /\ build' \in [ReportIds -> BuildPC] /\ build'[id] = "queued"
          /\ \A k \in ReportIds \ {id} : build'[k] = build[k]
        BY <1>1, <1>3, BuildMoved DEF DelayOk, BuildPC
    <2>2. PendingHasBuilder'
        BY <1>2, <1>3, <2>1 DEF DelayOk, PendingHasBuilder, UnderWay
    <2>3. QED
        BY <1>2, <1>3, <2>1, <2>2 DEF DelayOk, ReportsTypeOK, fallbackVars
<1>4. CASE MarkFailed(h)
    <2>1. /\ report' \in [ReportIds -> ReportRow]
          /\ id \in Present => report'[id].state = "failed"
          /\ \A k \in ReportIds : k # id \/ k \notin Present => report'[k] = report[k]
        BY <1>4, Settled DEF MarkFailed, ReportState
    <2>2. report'[id].state # "pending"
        BY <1>1, <2>1 DEF Present
    <2>3. PendingHasBuilder'
        BY <1>2, <1>4, <2>1, <2>2 DEF MarkFailed, PendingHasBuilder, UnderWay
    <2>4. QED
        BY <1>2, <1>4, <2>1, <2>3 DEF MarkFailed, ReportsTypeOK, fallbackVars
<1>5. CASE DeleteUnlink(h)
    <2>1. /\ desk' \in [Desks -> DeskRecord]
          /\ desk'[h].pc = "unlinked" /\ desk'[h].id = id
          /\ \A k \in Desks \ {h} : desk'[k] = desk[k]
        BY <1>1, <1>5, DeskMoved DEF DeleteUnlink, DeskPC
    <2>2. /\ UNCHANGED <<second, report, build, stranded, spare, interrupted>>
          /\ withdrawn' \subseteq ReportIds /\ overlap' \subseteq ReportIds
        BY <1>1, <1>5, Withdrawn DEF DeleteUnlink
    <2>3. /\ file' \in [Paths -> File] /\ breakdowns' \in Nat /\ unremoved' \subseteq ReportIds
        BY <1>1, <1>5, Removed DEF DeleteUnlink, ReportsTypeOK, Breakdown, NoBreakdown
    <2>4. PendingHasBuilder'
        BY <1>5, <2>1, <2>2 DEF DeleteUnlink, PendingHasBuilder, UnderWay, DeskAt
    <2>5. BusyHoldsReport'
        BY <1>1, <2>1 DEF BusyHoldsReport
    <2>6. QED
        BY <2>1, <2>2, <2>3, <2>4, <2>5 DEF ReportsTypeOK
<1>6. CASE RemoveRow(h)
    <2>1. /\ report' \in [ReportIds -> ReportRow]
          /\ id \in Present => report'[id].state = "gone"
          /\ \A k \in ReportIds : k # id \/ k \notin Present => report'[k] = report[k]
        BY <1>6, Settled DEF RemoveRow, ReportState
    <2>2. report'[id].state # "pending"
        BY <1>1, <2>1 DEF Present
    <2>3. PendingHasBuilder'
        BY <1>2, <1>6, <2>1, <2>2 DEF RemoveRow, PendingHasBuilder, UnderWay
    <2>4. QED
        BY <1>2, <1>6, <2>1, <2>3 DEF RemoveRow, ReportsTypeOK, fallbackVars
<1>7. CASE DelayRaises(h)
    <2>1. /\ desk' \in [Desks -> DeskRecord]
          /\ desk'[h].pc = "refused" /\ desk'[h].id = id
          /\ \A k \in Desks \ {h} : desk'[k] = desk[k]
        BY <1>1, <1>7, DeskMoved DEF DelayRaises, DeskPC
    <2>2. /\ build' \in [ReportIds -> BuildPC]
          /\ \A k \in ReportIds \ {id} : build'[k] = build[k]
        BY <1>1, <1>7, BuildMoved DEF DelayRaises, BuildPC, ReportsTypeOK
    <2>3. PendingHasBuilder'
        BY <1>7, <2>1, <2>2 DEF DelayRaises, PendingHasBuilder, UnderWay
    <2>4. BusyHoldsReport'
        BY <1>1, <2>1 DEF BusyHoldsReport
    <2>5. QED
        BY <1>7, <2>1, <2>2, <2>3, <2>4 DEF DelayRaises, ReportsTypeOK, Breakdown, fallbackVars
<1>8. CASE DeskDies(h)
    <2>1. PendingHasBuilder'
        BY <1>2, <1>8 DEF DeskDies, PendingHasBuilder, UnderWay
    <2>2. stranded' \subseteq ReportIds
        BY <1>1, <1>8 DEF DeskDies, ReportsTypeOK
    <2>3. QED
        BY <1>2, <1>8, <2>1, <2>2 DEF DeskDies, ReportsTypeOK, Breakdown, fallbackVars
<1>9. QED
    BY <1>3, <1>4, <1>5, <1>6, <1>7, <1>8 DEF DeskContinues

\* What a build does, and how it goes wrong.
LEMMA BuildsOK ==
    ASSUME ReportConstants, ReportsInv, NEW id \in ReportIds,
           BuildSteps(id) \/ MakeDirsRaises(id) \/ BuildRaises(id) \/ BuilderLost(id)
    PROVE  ReportsInv'
<1> USE DEF ReportsInv
<1>1. PICK pc \in BuildPC \ {"none"} : BuildMoves(id, pc)
    BY DEF BuildSteps, BuildLoad, BuildOpens, BuildCloses, BuildSettles, MakeDirsRaises, BuildRaises,
        BuilderLost, FallbackOpens, FallbackReplaces, BuildPC
<1>2. /\ build' \in [ReportIds -> BuildPC] /\ build'[id] = pc
      /\ \A k \in ReportIds \ {id} : build'[k] = build[k]
    BY <1>1, BuildMoved
<1>3. UNCHANGED <<second, desk, withdrawn, overlap, unremoved>>
    BY DEF BuildSteps, BuildLoad, BuildOpens, BuildCloses, BuildSettles, MakeDirsRaises, BuildRaises,
        BuilderLost, FallbackOpens, FallbackReplaces
<1>4. BusyHoldsReport'
    BY <1>3 DEF BusyHoldsReport
<1>5. breakdowns' \in Nat
    BY DEF BuildSteps, BuildLoad, BuildOpens, BuildCloses, BuildSettles, MakeDirsRaises, BuildRaises,
        BuilderLost, FallbackOpens, FallbackReplaces, Breakdown, NoBreakdown, ReportsTypeOK
<1>6. stranded' \subseteq ReportIds /\ stranded \subseteq stranded'
    BY DEF BuildSteps, BuildLoad, BuildOpens, BuildCloses, BuildSettles, MakeDirsRaises, BuildRaises,
        BuilderLost, FallbackOpens, FallbackReplaces, ReportsTypeOK
<1>7. file' \in [Paths -> File]
    <2>1. PathOf(id) \in Paths /\ file \in [Paths -> File]
        BY HeldReport DEF ReportsTypeOK
    <2>2. CASE BuildOpens(id)
        BY <2>1, <2>2 DEF BuildOpens, File
    <2>3. CASE BuildCloses(id)
        <3>1. [of |-> file[PathOf(id)].of \cup {id}, whole |-> TRUE] \in File
            BY <2>1 DEF File
        <3>2. QED
            BY <2>1, <2>3, <3>1 DEF BuildCloses
    <2>4. CASE FallbackReplaces(id)
        <3>1. spare[PathOf(id)] \subseteq ReportIds
            BY <2>1 DEF ReportsTypeOK
        <3>2. [of |-> spare[PathOf(id)] \cup {id}, whole |-> TRUE] \in File
            BY <3>1 DEF File
        <3>3. QED
            BY <2>1, <2>4, <3>2 DEF FallbackReplaces
    <2>5. CASE UNCHANGED file
        BY <2>1, <2>5
    <2>6. QED
        BY <2>2, <2>3, <2>4, <2>5 DEF BuildSteps, BuildLoad, BuildSettles, FallbackOpens, MakeDirsRaises,
            BuildRaises, BuilderLost
\* The row is written by the last step only, which settles it.
<1>8. /\ report' \in [ReportIds -> ReportRow]
      /\ \A k \in ReportIds \ {id} : report'[k] = report[k]
      /\ report'[id].state = "pending" => report' = report /\ ~BuildSettles(id)
    <2>1. CASE BuildSettles(id)
        <3>1. PICK st \in {"ready", "failed"} : SettlesAs(id, st)
            BY <2>1 DEF BuildSettles
        <3>2. /\ report' \in [ReportIds -> ReportRow]
              /\ id \in Present => report'[id].state = st
              /\ \A k \in ReportIds : k # id \/ k \notin Present => report'[k] = report[k]
            BY <3>1, Settled DEF ReportState
        <3>3. QED
            BY <3>2 DEF Present
    <2>2. CASE ~BuildSettles(id)
        <3>1. UNCHANGED report
            BY <2>2 DEF BuildSteps, BuildLoad, BuildOpens, BuildCloses, FallbackOpens, FallbackReplaces,
                MakeDirsRaises, BuildRaises, BuilderLost
        <3>2. QED
            BY <2>2, <3>1 DEF ReportsTypeOK
    <2>3. QED
        BY <2>1, <2>2
<1>9. PendingHasBuilder'
    <2>1. ASSUME report'[id].state = "pending"
          PROVE  UnderWay(id)' \/ id \in stranded'
        <3>1. report[id].state = "pending" /\ ~BuildSettles(id)
            BY <1>8, <2>1
        <3>2. id \in Present
            BY <3>1 DEF Present
        <3>3. pc = "done" => MakeDirsRaises(id)
            BY <1>2, <3>1, <3>2 DEF BuildSteps, BuildLoad, BuildOpens, BuildCloses, FallbackOpens,
                FallbackReplaces, BuildRaises, BuilderLost, BuildMoves, ReportsTypeOK
        <3>4. MakeDirsRaises(id) => id \in stranded'
            BY DEF MakeDirsRaises
        <3>5. QED
            BY <1>1, <1>2, <3>3, <3>4 DEF UnderWay
    <2>2. ASSUME NEW k \in ReportIds, k # id, report'[k].state = "pending"
          PROVE  \/ UnderWay(k)' \/ k \in stranded'
                 \/ \E h \in Desks : desk'[h].pc \in {"inserted", "refused"} /\ desk'[h].id = k
        BY <1>2, <1>3, <1>6, <1>8, <2>2 DEF PendingHasBuilder, UnderWay
    <2>3. QED
        BY <2>1, <2>2 DEF PendingHasBuilder
<1>10. spare' \in [Paths -> SUBSET ReportIds] /\ interrupted' \subseteq ReportIds
    BY DEF BuildSteps, BuildLoad, BuildOpens, BuildCloses, BuildSettles, MakeDirsRaises, BuildRaises,
        BuilderLost, FallbackOpens, FallbackReplaces, LeavesSpare, fallbackVars, ReportsTypeOK
<1>11. QED
    BY <1>2, <1>3, <1>4, <1>5, <1>6, <1>7, <1>8, <1>9, <1>10 DEF ReportsTypeOK

LEMMA ReportsStepOK == ReportConstants /\ ReportsInv /\ [ReportsNext]_reportVars => ReportsInv'
<1> SUFFICES ASSUME ReportConstants, ReportsInv, [ReportsNext]_reportVars
             PROVE  ReportsInv'
    OBVIOUS
<1>1. CASE NextSecond
    BY <1>1 DEF NextSecond, fallbackVars, ReportsInv, ReportsTypeOK, BusyHoldsReport, PendingHasBuilder, UnderWay, Paths
<1>2. CASE UNCHANGED reportVars
    BY <1>2 DEF reportVars, fallbackVars, ReportsInv, ReportsTypeOK, BusyHoldsReport, PendingHasBuilder, UnderWay
<1>3. QED
    BY <1>1, <1>2, StartsOK, DesksOK, BuildsOK DEF ReportsNext
-----------------------------------------------------------------------------
\* The rows, files, builds and handlers are what the types say.
THEOREM ReportsTypeCorrect == ReportsSpec => []ReportsTypeOK
<1>1. ReportsInit => ReportsInv
    BY ReportsInitOK, ReportConstants
<1>2. ReportsInv /\ [ReportsNext]_reportVars => ReportsInv'
    BY ReportsStepOK, ReportConstants
<1>3. ReportsInv => ReportsTypeOK
    BY DEF ReportsInv
<1>4. QED
    BY <1>1, <1>2, <1>3, PTL DEF ReportsSpec

\* The reports page polls while a report is pending.  One that is has a build or
\* a handler that will settle it, whichever of them fails or is lost, except
\* where an API process dies or makedirs raises.
THEOREM PendingIsNotForgotten == ReportsSpec => []PendingHasBuilder
<1>1. ReportsInit => ReportsInv
    BY ReportsInitOK, ReportConstants
<1>2. ReportsInv /\ [ReportsNext]_reportVars => ReportsInv'
    BY ReportsStepOK, ReportConstants
<1>3. ReportsInv => PendingHasBuilder
    BY DEF ReportsInv
<1>4. QED
    BY <1>1, <1>2, <1>3, PTL DEF ReportsSpec
-----------------------------------------------------------------------------
(* Files.  The rows that were inserted, and what is kept about their files.  *)

Recorded == {id \in ReportIds : report[id].state # "unborn"}

\* Builds, handlers and removals are of rows that were inserted.
OfInserted ==
    /\ \A id \in ReportIds : build[id] # "none" => id \in Recorded
    /\ \A h \in Desks : desk[h].pc # "free" => desk[h].id \in Recorded
    /\ withdrawn \cup overlap \cup unremoved \cup interrupted \subseteq Recorded

\* The build of a report whose handler is about to queue it has not begun, and one
\* handler only will queue it.
InsertedOnce ==
    \A h \in Desks : DeskAt(h, "inserted") =>
        /\ build[desk[h].id] = "none"
        /\ \A g \in Desks \ {h} : DeskAt(g, "inserted") => desk[g].id # desk[h].id

\* A file has bytes only of reports that have its path.
BytesOfPath == \A p \in Paths : \A id \in file[p].of : id \in Recorded /\ PathOf(id) = p

\* A .html is that of a build that is about to rename it, or was interrupted.
SparesAreClaimed ==
    \A p \in Paths : \A id \in spare[p] :
        id \in Recorded /\ PathOf(id) = p /\ (build[id] = "fallback" \/ id \in interrupted)

\* A build that has closed its file has left it whole.
WrittenIsWhole ==
    \A id \in ReportIds : build[id] = "written" =>
        IsWhole(id) \/ SharesPath(id) \/ id \in withdrawn

\* A row goes away after its file.
RemovedIsWithdrawn ==
    /\ \A id \in Recorded \ Present : id \in withdrawn
    /\ \A h \in Desks : DeskAt(h, "unlinked") => desk[h].id \in withdrawn

\* A withdrawn report that may still be built was so when it was withdrawn.
LateBuildsOverlap == \A id \in withdrawn : BuildMayWrite(id) => id \in overlap

\* A file is that of a report whose removal has not begun, or one that was
\* withdrawn too early or could not be deleted.
Claims(id, p) == PathOf(id) = p /\ (id \notin withdrawn \/ id \in overlap \cup unremoved)
FilesAreClaimed == \A p \in OnDisk : \E id \in Recorded : Claims(id, p)

FilesInv ==
    /\ OfInserted /\ InsertedOnce /\ BytesOfPath /\ WrittenIsWhole /\ ReadyHasOwnFile
    /\ RemovedIsWithdrawn /\ LateBuildsOverlap /\ FilesAreClaimed /\ SparesAreClaimed

(* What a step can do to a row, a handler, a build, a file and a removal.    *)

RowStep(id) ==
    /\ id \in Recorded => id \in Recorded' /\ report'[id].path = report[id].path
    /\ report'[id].state = "ready" => report[id].state = "ready" \/ build[id] = "written"
    /\ build[id] = "broken" /\ build'[id] = "done" => report'[id].state # "ready"
    /\ id \in Recorded' \ Present' =>
          \/ id \in Recorded \ Present
          \/ \E h \in Desks : DeskAt(h, "unlinked") /\ desk[h].id = id

DeskStep(h) ==
    \/ desk'[h] = desk[h]
    \/ desk'[h].pc = "free"
    \/ /\ desk'[h].id \in Recorded'
       /\ desk'[h].pc = "inserted" => desk'[h].id \notin Recorded
       /\ desk'[h].pc = "unlinked" => desk'[h].id \in withdrawn'

Closes(id) ==
    /\ build[id] \in {"opened", "replaced"} /\ file[PathOf(id)] # NoFile
    /\ file'[PathOf(id)] = [of |-> file[PathOf(id)].of \cup {id}, whole |-> TRUE]

Ends(id) ==
    \/ id \notin Present \/ id \in stranded'
    \/ build[id] \in {"written", "broken"}

BuildStep(id) ==
    \/ build'[id] = build[id]
    \/ build'[id] = "queued" /\ \E h \in Desks : DeskAt(h, "inserted") /\ desk[h].id = id
    \/ /\ UnderWay(id) /\ build'[id] # "none"
       /\ build'[id] = "written" => Closes(id)
       /\ build'[id] = "done" => Ends(id)

Writing == {"loaded", "opened", "fallback", "replaced"}
Unlinked(p) == file'[p] = NoFile /\ \E id \in withdrawn' : id \in Recorded /\ PathOf(id) = p
Writes(id, p) ==
    /\ PathOf(id) = p
    /\ build[id] \in Writing /\ build'[id] \in {"opened", "replaced", "written"}
    /\ file'[p].of \subseteq file[p].of \cup spare[p] \cup {id}
    /\ UNCHANGED <<withdrawn, overlap>>
SpareStep(p) ==
    \A id \in spare'[p] :
        \/ /\ id \in spare[p]
           /\ build[id] = "fallback" => build'[id] = "fallback" \/ id \in interrupted'
        \/ PathOf(id) = p /\ build[id] \in Writing /\ build'[id] = "fallback"
FileStep(p) == file'[p] = file[p] \/ Unlinked(p) \/ \E id \in ReportIds : Writes(id, p)

WithdrawStep ==
    /\ withdrawn \subseteq withdrawn' /\ overlap \subseteq overlap' /\ unremoved \subseteq unremoved'
    /\ stranded \subseteq stranded'
    /\ overlap' \ overlap \subseteq withdrawn' /\ unremoved' \ unremoved \subseteq withdrawn'
    /\ \A id \in withdrawn' \ withdrawn :
          /\ id \in Recorded
          /\ BuildMayWrite(id) => id \in overlap'
          /\ file'[PathOf(id)] = NoFile \/ id \in unremoved'

\* The rows.
LEMMA RowsStep ==
    ASSUME ReportConstants, ReportsInv, OfInserted, [ReportsNext]_reportVars, NEW id \in ReportIds
    PROVE  RowStep(id)
<1>1. report[id] \in ReportRow /\ build[id] \in BuildPC
    BY DEF ReportsInv, ReportsTypeOK
<1>2. ASSUME report'[id] = report[id], build'[id] = "done" => build[id] # "broken"
      PROVE  RowStep(id)
    BY <1>2 DEF RowStep, Recorded, Present
<1>3. ASSUME NEW k, NEW st \in {"ready", "failed", "gone"}, SettlesAs(k, st),
             st = "ready" => build[k] = "written",
             st = "gone" => \E h \in Desks : DeskAt(h, "unlinked") /\ desk[h].id = k,
             k \in ReportIds /\ build[k] = "broken" => st # "ready",
             build[id] = "broken" /\ build'[id] = "done" => id = k
      PROVE  RowStep(id)
    <2>1. /\ k \in Present => report'[k].state = st
          /\ id # k \/ id \notin Present => report'[id] = report[id]
        BY <1>3, Settled DEF ReportsInv, ReportState
    <2>2. /\ PathOf(id)' = PathOf(id)
          /\ report'[id].state # "unborn" <=> report[id].state # "unborn"
        <3>1. CASE id = k /\ k \in Present
            <4>1. report' = [report EXCEPT ![k].state = st]
                BY <1>3, <3>1 DEF SettlesAs, SetState
            <4>2. QED
                BY <1>1, <1>3, <3>1, <4>1 DEF PathOf, Present, ReportRow, ReportsInv, ReportsTypeOK
        <3>2. CASE ~(id = k /\ k \in Present)
            BY <2>1, <3>2 DEF PathOf
        <3>3. QED
            BY <3>1, <3>2
    <2>3. CASE id = k /\ k \in Present
        BY <1>3, <2>1, <2>2, <2>3 DEF RowStep, Recorded, Present, PathOf
    <2>4. CASE ~(id = k /\ k \in Present)
        BY <1>3, <2>1, <2>2, <2>4 DEF RowStep, Recorded, Present, PathOf
    <2>5. QED
        BY <2>3, <2>4
<1>4. ASSUME NEW h \in Desks, DeskStarts(h)
      PROVE  RowStep(id)
    <2>1. ASSUME NEW k \in ReportIds, CreateReport(h, k)
          PROVE  RowStep(id)
        <3>1. /\ report[k].state = "unborn" /\ build' = build
              /\ report'[k].state = "pending"
              /\ k # id => report'[id] = report[id]
            BY <2>1 DEF CreateReport, ReportsInv, ReportsTypeOK
        <3>2. QED
            BY <1>2, <3>1 DEF RowStep, Recorded, Present
    <2>2. ASSUME NEW k \in ReportIds, DeleteLoad(h, k) \/ PruneUnlink(h, k)
          PROVE  RowStep(id)
        BY <1>2, <2>2 DEF DeleteLoad, PruneUnlink, Withdraws
    <2>3. QED
        BY <1>4, <2>1, <2>2 DEF DeskStarts
<1>5. ASSUME NEW h \in Desks, DelayOk(h) \/ DelayRaises(h)
      PROVE  RowStep(id)
    <2>1. report' = report /\ (UNCHANGED build \/ BuildMoves(desk[h].id, "queued"))
        BY <1>5 DEF DelayOk, DelayRaises
    <2>2. build'[id] = build[id] \/ build'[id] = "queued"
        BY <2>1 DEF BuildMoves, ReportsInv, ReportsTypeOK
    <2>3. QED
        BY <1>2, <2>1, <2>2
<1>6. ASSUME NEW h \in Desks, MarkFailed(h)
      PROVE  RowStep(id)
    BY <1>3, <1>6 DEF MarkFailed
<1>7. ASSUME NEW h \in Desks, RemoveRow(h)
      PROVE  RowStep(id)
    BY <1>3, <1>7 DEF RemoveRow
<1>8. ASSUME NEW h \in Desks, DeleteUnlink(h) \/ DeskDies(h)
      PROVE  RowStep(id)
    BY <1>2, <1>8 DEF DeleteUnlink, DeskDies, Withdraws
<1>9. ASSUME NEW k \in ReportIds, BuildSettles(k)
      PROVE  RowStep(id)
    <2>1. PICK pc \in {"done", "queued"} : BuildMoves(k, pc)
        BY <1>9 DEF BuildSettles
    <2>2. id # k => build'[id] = build[id]
        BY <2>1, BuildMoved DEF ReportsInv, BuildPC
    <2>3. CASE build[k] = "written" /\ SettlesAs(k, "ready")
        BY <1>3, <2>2, <2>3
    <2>4. CASE build[k] = "broken" /\ SettlesAs(k, "failed")
        BY <1>3, <2>2, <2>4
    <2>5. QED
        BY <1>9, <2>3, <2>4 DEF BuildSettles
<1>10. ASSUME NEW k \in ReportIds,
              \/ BuildLoad(k) \/ BuildOpens(k) \/ BuildCloses(k)
              \/ FallbackOpens(k) \/ FallbackReplaces(k)
              \/ MakeDirsRaises(k) \/ BuildRaises(k) \/ BuilderLost(k)
       PROVE  RowStep(id)
    <2>1. report' = report
        BY <1>10 DEF BuildLoad, BuildOpens, BuildCloses, FallbackOpens, FallbackReplaces, MakeDirsRaises,
            BuildRaises, BuilderLost
    <2>2. /\ build \in [ReportIds -> BuildPC]
          /\ \E pc \in BuildPC : BuildMoves(k, pc) /\ (pc = "done" => build[k] # "broken")
        BY <1>10 DEF BuildLoad, BuildOpens, BuildCloses, FallbackOpens, FallbackReplaces, MakeDirsRaises,
            BuildRaises, BuilderLost, BuildPC, ReportsInv, ReportsTypeOK
    <2>3. build'[id] = "done" => build[id] # "broken"
        BY <2>2 DEF BuildMoves
    <2>4. QED
        BY <1>2, <2>1, <2>3
<1>11. CASE NextSecond \/ UNCHANGED reportVars
    BY <1>2, <1>11 DEF NextSecond, reportVars
<1>12. QED
    BY <1>4, <1>5, <1>6, <1>7, <1>8, <1>9, <1>10, <1>11 DEF ReportsNext, DeskContinues, BuildSteps

\* The handlers.
LEMMA DesksStep ==
    ASSUME ReportConstants, ReportsInv, OfInserted, [ReportsNext]_reportVars, NEW h \in Desks
    PROVE  DeskStep(h)
<1>1. /\ ReportsTypeOK /\ desk[h].id \in 0 .. MaxReports
      /\ \A id \in ReportIds : id \in 0 .. MaxReports /\ RowStep(id)
    BY HeldReport, RowsStep DEF ReportsInv, ReportConstants, ReportIds
<1>2. \A id \in Recorded : id \in Recorded'
    BY <1>1 DEF RowStep, Recorded
<1>3. ASSUME NEW g \in Desks, NEW id \in ReportIds, CreateReport(g, id)
      PROVE  DeskStep(h)
    <2>1. /\ desk'[g].id = id /\ desk'[g].pc = "inserted"
          /\ \A d \in Desks \ {g} : desk'[d] = desk[d]
        BY <1>1, <1>3, DeskMoved DEF CreateReport, DeskPC
    <2>2. id \notin Recorded /\ id \in Recorded'
        BY <1>1, <1>3 DEF CreateReport, Recorded, ReportsTypeOK
    <2>3. QED
        BY <2>1, <2>2 DEF DeskStep
<1>4. ASSUME NEW g \in Desks, NEW id \in ReportIds, DeleteLoad(g, id) \/ PruneUnlink(g, id)
      PROVE  DeskStep(h)
    <2>1. PICK pc \in {"deleting", "unlinked"} :
              DeskMoves(g, pc, id) /\ (pc = "unlinked" => Withdraws(id))
        BY <1>4 DEF DeleteLoad, PruneUnlink
    <2>2. /\ desk'[g].id = id /\ desk'[g].pc = pc
          /\ \A d \in Desks \ {g} : desk'[d] = desk[d]
        BY <1>1, <2>1, DeskMoved DEF DeskPC
    <2>3. id \in Recorded'
        BY <1>2, <1>4 DEF DeleteLoad, PruneUnlink, Present, Recorded
    <2>4. pc = "unlinked" => id \in withdrawn'
        BY <2>1 DEF Withdraws
    <2>5. QED
        BY <2>1, <2>2, <2>3, <2>4 DEF DeskStep
<1>5. ASSUME NEW g \in Desks, DelayRaises(g) \/ DeleteUnlink(g)
      PROVE  DeskStep(h)
    <2> DEFINE id == desk[g].id
    <2>1. /\ desk[g].pc # "free" /\ id \in Recorded
        BY <1>5 DEF DelayRaises, DeleteUnlink, DeskAt, OfInserted
    <2>2. PICK pc \in {"refused", "unlinked"} :
              DeskMoves(g, pc, id) /\ (pc = "unlinked" => Withdraws(id))
        BY <1>5 DEF DelayRaises, DeleteUnlink
    <2>3. /\ desk'[g].id = id /\ desk'[g].pc = pc
          /\ \A d \in Desks \ {g} : desk'[d] = desk[d]
        BY <1>1, <2>1, <2>2, DeskMoved DEF DeskPC, Recorded
    <2>4. pc = "unlinked" => id \in withdrawn'
        BY <2>2 DEF Withdraws
    <2>5. QED
        BY <1>2, <2>1, <2>2, <2>3, <2>4 DEF DeskStep
<1>6. ASSUME NEW g \in Desks, DelayOk(g) \/ MarkFailed(g) \/ RemoveRow(g) \/ DeskDies(g)
      PROVE  DeskStep(h)
    <2>1. DeskEnds(g)
        BY <1>6 DEF DelayOk, MarkFailed, RemoveRow, DeskDies
    <2>2. QED
        BY <1>1, <2>1, DeskEnded DEF DeskStep
<1>7. CASE UNCHANGED desk
    BY <1>7 DEF DeskStep
<1>8. QED
    BY <1>3, <1>4, <1>5, <1>6, <1>7 DEF ReportsNext, DeskStarts, DeskContinues, NextSecond, BuildSteps,
        BuildLoad, BuildOpens, BuildCloses, BuildSettles, FallbackOpens, FallbackReplaces, MakeDirsRaises,
        BuildRaises, BuilderLost, reportVars

\* The builds.
LEMMA BuildsStep ==
    ASSUME ReportConstants, ReportsInv, OfInserted, [ReportsNext]_reportVars, NEW id \in ReportIds
    PROVE  BuildStep(id)
<1>1. ReportsTypeOK /\ build[id] \in BuildPC
    BY DEF ReportsInv, ReportsTypeOK
<1>2. CASE UNCHANGED build
    BY <1>2 DEF BuildStep
<1>3. ASSUME NEW h \in Desks, DelayOk(h) \/ DelayRaises(h)
      PROVE  BuildStep(id)
    <2>1. DeskAt(h, "inserted") /\ (UNCHANGED build \/ BuildMoves(desk[h].id, "queued"))
        BY <1>3 DEF DelayOk, DelayRaises
    <2>2. CASE BuildMoves(desk[h].id, "queued")
        BY <1>1, <2>1, <2>2 DEF BuildStep, BuildMoves, ReportsTypeOK
    <2>3. QED
        BY <1>2, <2>1, <2>2
<1>4. ASSUME NEW k \in ReportIds,
             BuildSteps(k) \/ MakeDirsRaises(k) \/ BuildRaises(k) \/ BuilderLost(k)
      PROVE  BuildStep(id)
    <2>1. PICK pc \in BuildPC \ {"none"} :
              /\ BuildMoves(k, pc) /\ UnderWay(k)
              /\ pc = "written" => BuildCloses(k) /\ file[PathOf(k)] # NoFile
              /\ pc = "done" => \/ k \notin Present \/ k \in stranded'
                                \/ build[k] \in {"written", "broken"}
        BY <1>4 DEF BuildSteps, BuildLoad, BuildOpens, BuildCloses, BuildSettles, FallbackOpens,
            FallbackReplaces, MakeDirsRaises, BuildRaises, BuilderLost, UnderWay, BuildPC
    <2>2. build'[k] = pc /\ \A j \in ReportIds \ {k} : build'[j] = build[j]
        BY <1>1, <2>1, BuildMoved
    <2>3. pc = "written" => Closes(k)
        <3>1. SUFFICES ASSUME pc = "written" PROVE Closes(k)
            OBVIOUS
        <3>2. build[k] \in {"opened", "replaced"} /\ file[PathOf(k)] # NoFile
            BY <2>1, <3>1 DEF BuildCloses
        <3>3. file' = [file EXCEPT ![PathOf(k)] = [of |-> @.of \cup {k}, whole |-> TRUE]]
            BY <2>1, <3>1, <3>2 DEF BuildCloses
        <3>4. PathOf(k) \in Paths
            BY <1>1, HeldReport
        <3>5. QED
            BY <1>1, <3>2, <3>3, <3>4 DEF Closes, ReportsTypeOK
    <2>4. CASE id = k
        BY <2>1, <2>2, <2>3, <2>4 DEF BuildStep, Ends
    <2>5. CASE id # k
        BY <2>2, <2>5 DEF BuildStep
    <2>6. QED
        BY <2>4, <2>5
<1>5. QED
    BY <1>2, <1>3, <1>4 DEF ReportsNext, DeskStarts, DeskContinues, NextSecond, CreateReport, DeleteLoad,
        PruneUnlink, Withdraws, DeleteUnlink, MarkFailed, RemoveRow, DeskDies, reportVars

\* The files.
LEMMA FilesStep ==
    ASSUME ReportConstants, ReportsInv, OfInserted, [ReportsNext]_reportVars, NEW p \in Paths
    PROVE  FileStep(p)
<1>1. ReportsTypeOK /\ file \in [Paths -> File]
    BY DEF ReportsInv, ReportsTypeOK
<1>2. CASE UNCHANGED file
    BY <1>2 DEF FileStep
<1>3. ASSUME NEW id \in Recorded, Withdraws(id), file' = [file EXCEPT ![PathOf(id)] = NoFile]
      PROVE  FileStep(p)
    BY <1>1, <1>3 DEF FileStep, Unlinked, Withdraws
<1>4. ASSUME NEW h \in Desks, DeleteUnlink(h)
      PROVE  FileStep(p)
    <2>1. desk[h].id \in Recorded
        BY <1>4 DEF DeleteUnlink, DeskAt, OfInserted
    <2>2. QED
        BY <1>2, <1>3, <1>4, <2>1 DEF DeleteUnlink
<1>5. ASSUME NEW h \in Desks, NEW id \in ReportIds, PruneUnlink(h, id)
      PROVE  FileStep(p)
    <2>1. id \in Recorded
        BY <1>5 DEF PruneUnlink, Present, Recorded
    <2>2. QED
        BY <1>3, <1>5, <2>1 DEF PruneUnlink
<1>6. ASSUME NEW id \in ReportIds, BuildOpens(id)
      PROVE  FileStep(p)
    <2>1. build'[id] = "opened" /\ PathOf(id) \in Paths
        BY <1>1, <1>6, BuildMoved, HeldReport DEF BuildOpens, BuildPC
    <2>2. /\ build[id] = "loaded" /\ UNCHANGED <<withdrawn, overlap>>
          /\ file' = [file EXCEPT ![PathOf(id)] = [of |-> {id}, whole |-> FALSE]]
        BY <1>6 DEF BuildOpens
    <2>3. CASE p = PathOf(id)
        BY <1>1, <2>1, <2>2, <2>3 DEF FileStep, Writes, Writing
    <2>4. CASE p # PathOf(id)
        BY <1>1, <2>2, <2>4 DEF FileStep
    <2>5. QED
        BY <2>3, <2>4
<1>7. ASSUME NEW id \in ReportIds, BuildCloses(id)
      PROVE  FileStep(p)
    <2>1. CASE file[PathOf(id)] = NoFile
        BY <1>2, <1>7, <2>1 DEF BuildCloses
    <2>2. CASE file[PathOf(id)] # NoFile
        <3>1. build'[id] = "written" /\ PathOf(id) \in Paths
            BY <1>1, <1>7, <2>2, BuildMoved, HeldReport DEF BuildCloses, BuildPC
        <3>2. /\ build[id] \in {"opened", "replaced"} /\ UNCHANGED <<withdrawn, overlap>>
              /\ file' = [file EXCEPT ![PathOf(id)] = [of |-> @.of \cup {id}, whole |-> TRUE]]
            BY <1>7, <2>2 DEF BuildCloses
        <3>3. CASE p = PathOf(id)
            BY <1>1, <3>1, <3>2, <3>3 DEF FileStep, Writes, Writing
        <3>4. CASE p # PathOf(id)
            BY <1>1, <3>2, <3>4 DEF FileStep
        <3>5. QED
            BY <3>3, <3>4
    <2>3. QED
        BY <2>1, <2>2
<1>8. ASSUME NEW id \in ReportIds, FallbackReplaces(id)
      PROVE  FileStep(p)
    <2>1. CASE spare[PathOf(id)] = {}
        BY <1>2, <1>8, <2>1 DEF FallbackReplaces
    <2>2. CASE spare[PathOf(id)] # {}
        <3>1. build'[id] = "replaced" /\ PathOf(id) \in Paths
            BY <1>1, <1>8, <2>2, BuildMoved, HeldReport DEF FallbackReplaces, BuildPC
        <3>2. /\ build[id] = "fallback" /\ UNCHANGED <<withdrawn, overlap>>
              /\ file' = [file EXCEPT ![PathOf(id)] = [of |-> spare[PathOf(id)] \cup {id}, whole |-> TRUE]]
            BY <1>8, <2>2 DEF FallbackReplaces
        <3>3. CASE p = PathOf(id)
            BY <1>1, <3>1, <3>2, <3>3 DEF FileStep, Writes, Writing
        <3>4. CASE p # PathOf(id)
            BY <1>1, <3>2, <3>4 DEF FileStep
        <3>5. QED
            BY <3>3, <3>4
    <2>3. QED
        BY <2>1, <2>2
<1>9. QED
    BY <1>2, <1>4, <1>5, <1>6, <1>7, <1>8 DEF ReportsNext, DeskStarts, DeskContinues, NextSecond, CreateReport,
        DeleteLoad, DelayOk, DelayRaises, MarkFailed, RemoveRow, DeskDies, BuildSteps, BuildLoad,
        BuildSettles, FallbackOpens, MakeDirsRaises, BuildRaises, BuilderLost, reportVars

\* The rows that are still to be queued.
LEMMA InsertsStep ==
    ASSUME ReportConstants, ReportsInv, OfInserted, InsertedOnce, [ReportsNext]_reportVars
    PROVE  InsertedOnce'
<1>1. /\ ReportsTypeOK /\ build \in [ReportIds -> BuildPC] /\ desk \in [Desks -> DeskRecord]
      /\ \A id \in ReportIds : id \in 0 .. MaxReports
      /\ \A h \in Desks : desk[h].id \in 0 .. MaxReports
    BY HeldReport DEF ReportsInv, ReportsTypeOK, ReportConstants, ReportIds
<1>2. ASSUME NEW h \in Desks, NEW id \in ReportIds, CreateReport(h, id)
      PROVE  InsertedOnce'
    <2>1. /\ desk'[h].id = id /\ \A k \in Desks \ {h} : desk'[k] = desk[k]
          /\ build' = build /\ id \notin Recorded
        BY <1>1, <1>2, DeskMoved DEF CreateReport, DeskPC, Recorded
    <2>2. QED
        BY <2>1 DEF InsertedOnce, OfInserted, DeskAt
<1>3. ASSUME NEW h \in Desks, DelayOk(h) \/ DelayRaises(h)
      PROVE  InsertedOnce'
    <2>1. /\ desk'[h].pc # "inserted" /\ \A k \in Desks \ {h} : desk'[k] = desk[k]
          /\ DeskAt(h, "inserted")
        BY <1>1, <1>3, DeskMoved, DeskEnded DEF DelayOk, DelayRaises, DeskPC
    <2>2. build' = build \/ build' = [build EXCEPT ![desk[h].id] = "queued"]
        BY <1>3 DEF DelayOk, DelayRaises, BuildMoves
    <2>3. ASSUME NEW id \in ReportIds, id # desk[h].id
          PROVE  build'[id] = build[id]
        BY <1>1, <2>2, <2>3
    <2>4. ASSUME NEW k \in Desks, desk'[k].pc = "inserted"
          PROVE  /\ k # h /\ desk'[k] = desk[k]
                 /\ desk[k].id \in ReportIds /\ desk[k].id # desk[h].id
        BY <2>1, <2>4 DEF InsertedOnce, DeskAt, ReportsInv, BusyHoldsReport
    <2>5. QED
        BY <2>3, <2>4 DEF InsertedOnce, DeskAt
<1>4. ASSUME NEW h \in Desks, UNCHANGED build, desk'[h].pc # "inserted",
             \A k \in Desks \ {h} : desk'[k] = desk[k]
      PROVE  InsertedOnce'
    BY <1>4 DEF InsertedOnce, DeskAt
<1>5. ASSUME NEW h \in Desks, MarkFailed(h) \/ RemoveRow(h) \/ DeskDies(h)
      PROVE  InsertedOnce'
    BY <1>1, <1>4, <1>5, DeskEnded DEF MarkFailed, RemoveRow, DeskDies
<1>6. ASSUME NEW h \in Desks, NEW id \in 0 .. MaxReports, NEW pc \in {"deleting", "unlinked"},
             DeskMoves(h, pc, id), UNCHANGED build
      PROVE  InsertedOnce'
    BY <1>1, <1>4, <1>6, DeskMoved DEF DeskPC
<1>7. ASSUME NEW h \in Desks, NEW id \in ReportIds, DeleteLoad(h, id) \/ PruneUnlink(h, id)
      PROVE  InsertedOnce'
    BY <1>1, <1>6, <1>7 DEF DeleteLoad, PruneUnlink, Withdraws
<1>8. ASSUME NEW h \in Desks, DeleteUnlink(h)
      PROVE  InsertedOnce'
    BY <1>1, <1>6, <1>8 DEF DeleteUnlink, Withdraws
<1>9. ASSUME NEW k \in ReportIds,
             BuildSteps(k) \/ MakeDirsRaises(k) \/ BuildRaises(k) \/ BuilderLost(k)
      PROVE  InsertedOnce'
    <2>1. PICK pc \in BuildPC : BuildMoves(k, pc) /\ build[k] # "none" /\ UNCHANGED desk
        BY <1>9 DEF BuildSteps, BuildLoad, BuildOpens, BuildCloses, BuildSettles, FallbackOpens,
            FallbackReplaces, MakeDirsRaises, BuildRaises, BuilderLost, UnderWay, BuildPC
    <2>2. QED
        BY <1>1, <2>1 DEF InsertedOnce, DeskAt, BuildMoves
<1>10. CASE UNCHANGED <<build, desk>>
    BY <1>10 DEF InsertedOnce, DeskAt
<1>11. QED
    BY <1>2, <1>3, <1>5, <1>7, <1>8, <1>9, <1>10 DEF ReportsNext, DeskStarts, DeskContinues, NextSecond,
        reportVars

\* The .html files, and whose builds were interrupted.
LEMMA SparesStep ==
    ASSUME ReportConstants, ReportsInv, OfInserted, InsertedOnce, SparesAreClaimed,
           [ReportsNext]_reportVars
    PROVE  /\ \A p \in Paths : SpareStep(p)
           /\ interrupted \subseteq interrupted' /\ interrupted' \subseteq Recorded'
<1>1. /\ ReportsTypeOK /\ spare \in [Paths -> SUBSET ReportIds] /\ build \in [ReportIds -> BuildPC]
      /\ Recorded \subseteq Recorded' /\ interrupted \subseteq Recorded
    BY RowsStep DEF ReportsInv, ReportsTypeOK, RowStep, Recorded, OfInserted
<1>2. CASE UNCHANGED fallbackVars /\ \A id \in ReportIds : build[id] = "fallback" => build'[id] = "fallback"
    BY <1>1, <1>2 DEF SpareStep, fallbackVars
<1>3. ASSUME NEW h \in Desks, DelayOk(h) \/ DelayRaises(h)
      PROVE  UNCHANGED fallbackVars /\ \A id \in ReportIds : build[id] = "fallback" => build'[id] = "fallback"
    <2>1. /\ build[desk[h].id] = "none"
          /\ build' = build \/ build' = [build EXCEPT ![desk[h].id] = "queued"]
        BY <1>3 DEF DelayOk, DelayRaises, InsertedOnce, BuildMoves
    <2>2. QED
        BY <1>1, <1>3, <2>1 DEF DelayOk, DelayRaises
<1>4. ASSUME NEW k \in ReportIds,
             \/ BuildLoad(k) \/ BuildOpens(k) \/ BuildCloses(k) \/ BuildSettles(k) \/ MakeDirsRaises(k)
      PROVE  UNCHANGED fallbackVars /\ \A id \in ReportIds : build[id] = "fallback" => build'[id] = "fallback"
    <2>1. PICK pc \in BuildPC : BuildMoves(k, pc) /\ build[k] # "fallback"
        BY <1>4 DEF BuildLoad, BuildOpens, BuildCloses, BuildSettles, MakeDirsRaises, BuildPC
    <2>2. QED
        BY <1>1, <1>4, <2>1 DEF BuildMoves, BuildLoad, BuildOpens, BuildCloses, BuildSettles, MakeDirsRaises
<1>5. ASSUME NEW k \in ReportIds, FallbackOpens(k)
      PROVE  /\ \A p \in Paths : SpareStep(p)
             /\ UNCHANGED interrupted
    <2>1. /\ spare' = [spare EXCEPT ![PathOf(k)] = {k}] /\ build[k] \in Writing /\ UNCHANGED interrupted
          /\ build' = [build EXCEPT ![k] = "fallback"]
        BY <1>5 DEF FallbackOpens, BuildMoves, Writing
    <2>2. QED
        BY <1>1, <2>1 DEF SpareStep
<1>6. ASSUME NEW k \in ReportIds, FallbackReplaces(k)
      PROVE  /\ \A p \in Paths : SpareStep(p)
             /\ UNCHANGED interrupted
    <2>1. spare' = [spare EXCEPT ![PathOf(k)] = {}] /\ UNCHANGED interrupted
        BY <1>6 DEF FallbackReplaces
    <2>2. PICK pc \in BuildPC : build' = [build EXCEPT ![k] = pc]
        BY <1>6 DEF FallbackReplaces, BuildMoves, BuildPC
    <2>3. ASSUME NEW p \in Paths, NEW id \in spare'[p]
          PROVE  id \in spare[p] /\ (build[id] = "fallback" => build'[id] = "fallback")
        <3>1. id \in spare[p] /\ p # PathOf(k)
            BY <1>1, <2>1, <2>3
        <3>2. id # k
            BY <3>1, <2>3 DEF SparesAreClaimed
        <3>3. QED
            BY <1>1, <2>2, <3>1, <3>2
    <2>4. QED
        BY <2>1, <2>3 DEF SpareStep
<1>7. ASSUME NEW k \in ReportIds, BuildRaises(k) \/ BuilderLost(k)
      PROVE  /\ \A p \in Paths : SpareStep(p)
             /\ interrupted \subseteq interrupted' /\ interrupted' \subseteq Recorded'
    <2>1. PICK pc \in BuildPC : BuildMoves(k, pc) /\ LeavesSpare(k) /\ k \in Recorded
        BY <1>7 DEF BuildRaises, BuilderLost, BuildPC, OfInserted, UnderWay
    <2>2. QED
        BY <1>1, <2>1 DEF LeavesSpare, BuildMoves, SpareStep
<1>8. CASE UNCHANGED <<fallbackVars, build>>
    BY <1>2, <1>8
<1>9. QED
    BY <1>1, <1>2, <1>3, <1>4, <1>5, <1>6, <1>7, <1>8 DEF ReportsNext, DeskStarts, DeskContinues, NextSecond,
        CreateReport, DeleteLoad, PruneUnlink, Withdraws, DeleteUnlink, MarkFailed, RemoveRow, DeskDies,
        BuildSteps, reportVars

\* The removals.
LEMMA WithdrawalsStep ==
    ASSUME ReportConstants, ReportsInv, OfInserted, [ReportsNext]_reportVars
    PROVE  WithdrawStep
<1>1. ReportsTypeOK /\ file \in [Paths -> File]
    BY DEF ReportsInv, ReportsTypeOK
<1>2. CASE UNCHANGED <<withdrawn, overlap, unremoved>> /\ stranded \subseteq stranded'
    BY <1>2 DEF WithdrawStep
<1>3. ASSUME NEW id \in Recorded, Withdraws(id),
             \/ file' = [file EXCEPT ![PathOf(id)] = NoFile] /\ UNCHANGED unremoved
             \/ unremoved' = unremoved \cup {id}
      PROVE  WithdrawStep
    <2>1. PathOf(id) \in Paths /\ id \in ReportIds
        BY <1>1, HeldReport DEF Recorded
    <2>2. /\ withdrawn' = withdrawn \cup {id} /\ stranded' = stranded
          /\ overlap' = IF BuildMayWrite(id) THEN overlap \cup {id} ELSE overlap
        BY <1>3 DEF Withdraws
    <2>3. file'[PathOf(id)] = NoFile \/ id \in unremoved'
        BY <1>1, <1>3, <2>1
    <2>4. unremoved \subseteq unremoved' /\ unremoved' \ unremoved \subseteq withdrawn'
        BY <1>3, <2>2
    <2>5. QED
        BY <2>2, <2>3, <2>4 DEF WithdrawStep
<1>4. ASSUME NEW h \in Desks, DeleteUnlink(h)
      PROVE  WithdrawStep
    <2>1. desk[h].id \in Recorded
        BY <1>4 DEF DeleteUnlink, DeskAt, OfInserted
    <2>2. QED
        BY <1>3, <1>4, <2>1 DEF DeleteUnlink
<1>5. ASSUME NEW h \in Desks, NEW id \in ReportIds, PruneUnlink(h, id)
      PROVE  WithdrawStep
    <2>1. id \in Recorded
        BY <1>5 DEF PruneUnlink, Present, Recorded
    <2>2. QED
        BY <1>3, <1>5, <2>1 DEF PruneUnlink
<1>6. QED
    BY <1>2, <1>4, <1>5 DEF ReportsNext, DeskStarts, DeskContinues, NextSecond, CreateReport, DeleteLoad,
        DelayOk, DelayRaises, MarkFailed, RemoveRow, DeskDies, BuildSteps, BuildLoad, BuildOpens,
        BuildCloses, BuildSettles, FallbackOpens, FallbackReplaces, MakeDirsRaises, BuildRaises, BuilderLost,
        reportVars

\* Rows keep their paths, so a path that is shared stays so.
LEMMA StillShared ==
    ASSUME ReportConstants, ReportsInv, OfInserted, [ReportsNext]_reportVars,
           NEW id \in Recorded, SharesPath(id)
    PROVE  SharesPath(id)'
<1>1. \A k \in Recorded : k \in Recorded' /\ report'[k].path = report[k].path
    BY RowsStep DEF RowStep, Recorded
<1>2. QED
    BY <1>1 DEF SharesPath, PathOf, Recorded

\* A file that is whole stays so while its build is not executed again, until it
\* is shared or withdrawn.
LEMMA StillWhole ==
    ASSUME ReportConstants, ReportsInv, OfInserted, [ReportsNext]_reportVars,
           NEW id \in Recorded, IsWhole(id), build[id] \notin Writing
    PROVE  IsWhole(id)' \/ SharesPath(id)' \/ id \in withdrawn'
<1>1. /\ id \in ReportIds /\ PathOf(id) \in Paths
      /\ PathOf(id)' = PathOf(id)
    BY RowsStep, HeldReport DEF RowStep, Recorded, ReportsInv, PathOf
<1>2. FileStep(PathOf(id))
    BY <1>1, FilesStep
<1>3. CASE file'[PathOf(id)] = file[PathOf(id)]
    BY <1>1, <1>3 DEF IsWhole
<1>4. ASSUME NEW k \in Recorded, k # id, PathOf(k) = PathOf(id)
      PROVE  SharesPath(id)'
    BY <1>4, StillShared DEF SharesPath, Recorded
<1>5. CASE Unlinked(PathOf(id))
    <2>1. PICK k \in withdrawn' : k \in Recorded /\ PathOf(k) = PathOf(id)
        BY <1>5 DEF Unlinked
    <2>2. QED
        BY <1>4, <2>1
<1>6. ASSUME NEW k \in ReportIds, Writes(k, PathOf(id))
      PROVE  SharesPath(id)'
    <2>1. k \in Recorded /\ k # id /\ PathOf(k) = PathOf(id)
        BY <1>6 DEF Writes, Writing, OfInserted
    <2>2. QED
        BY <1>4, <2>1
<1>7. QED
    BY <1>2, <1>3, <1>5, <1>6 DEF FileStep

\* A build is not queued again once it has ended.
LEMMA MayStillWrite ==
    ASSUME ReportConstants, ReportsInv, OfInserted, [ReportsNext]_reportVars,
           NEW id \in Recorded, BuildMayWrite(id)'
    PROVE  BuildMayWrite(id)
<1>1. id \in ReportIds
    BY DEF Recorded
<1>2. CASE UnderWay(id)'
    BY <1>1, <1>2, BuildsStep DEF BuildStep, UnderWay, BuildMayWrite
<1>3. ASSUME NEW h \in Desks, desk'[h].pc = "inserted", desk'[h].id = id
      PROVE  BuildMayWrite(id)
    <2>1. desk'[h] = desk[h]
        BY <1>3, DesksStep DEF DeskStep
    <2>2. QED
        BY <1>3, <2>1 DEF BuildMayWrite, DeskAt
<1>4. QED
    BY <1>2, <1>3 DEF BuildMayWrite, DeskAt

LEMMA FilesInitOK == ReportConstants /\ ReportsInit => FilesInv
<1> SUFFICES ASSUME ReportConstants, ReportsInit PROVE FilesInv
    OBVIOUS
<1>1. /\ Recorded = {} /\ OnDisk = {} /\ withdrawn = {} /\ overlap = {} /\ unremoved = {}
      /\ \A id \in ReportIds : build[id] = "none" /\ report[id].state = "unborn"
      /\ \A p \in Paths : file[p].of = {}
      /\ \A h \in Desks : desk[h].pc = "free"
      /\ interrupted = {} /\ \A p \in Paths : spare[p] = {}
    BY DEF ReportsInit, Recorded, OnDisk, NoFile, FreeDesk
<1>2. QED
    BY <1>1 DEF FilesInv, OfInserted, InsertedOnce, BytesOfPath, WrittenIsWhole, ReadyHasOwnFile, RemovedIsWithdrawn,
        LateBuildsOverlap, FilesAreClaimed, SparesAreClaimed, DeskAt

LEMMA FilesStepOK ==
    ASSUME ReportConstants, ReportsInv, FilesInv, [ReportsNext]_reportVars
    PROVE  FilesInv'
<1> USE DEF FilesInv
<1>1. /\ \A id \in ReportIds : RowStep(id) /\ BuildStep(id)
      /\ \A h \in Desks : DeskStep(h)
      /\ \A p \in Paths : FileStep(p)
      /\ WithdrawStep
      /\ \A p \in Paths : SpareStep(p)
      /\ interrupted \subseteq interrupted' /\ interrupted' \subseteq Recorded'
    BY RowsStep, DesksStep, BuildsStep, FilesStep, WithdrawalsStep, SparesStep
<1>2. /\ Recorded \subseteq Recorded' /\ Recorded \subseteq ReportIds /\ Recorded' \subseteq ReportIds
      /\ \A id \in Recorded : PathOf(id)' = PathOf(id) /\ PathOf(id) \in Paths
    BY <1>1, HeldReport DEF RowStep, Recorded, PathOf, ReportsInv
<1>3. OfInserted'
    <2>1. ASSUME NEW id \in ReportIds, build'[id] # "none"
          PROVE  id \in Recorded'
        <3>1. CASE build[id] # "none"
            BY <1>2, <3>1 DEF OfInserted
        <3>2. CASE build[id] = "none"
            <4>1. \E h \in Desks : DeskAt(h, "inserted") /\ desk[h].id = id
                BY <1>1, <2>1, <3>2 DEF BuildStep, UnderWay
            <4>2. QED
                BY <1>2, <4>1 DEF OfInserted, DeskAt
        <3>3. QED
            BY <3>1, <3>2
    <2>2. ASSUME NEW h \in Desks, desk'[h].pc # "free"
          PROVE  desk'[h].id \in Recorded'
        BY <1>1, <1>2, <2>2 DEF DeskStep, OfInserted
    <2>3. (withdrawn \cup overlap \cup unremoved \cup interrupted)' \subseteq Recorded'
        BY <1>1, <1>2 DEF WithdrawStep, OfInserted
    <2>4. QED
        BY <2>1, <2>2, <2>3 DEF OfInserted
<1>4. BytesOfPath'
    <2>1. SUFFICES ASSUME NEW p \in Paths, NEW id \in file'[p].of
                   PROVE  id \in Recorded /\ PathOf(id) = p
        BY <1>2 DEF BytesOfPath
    <2>2. CASE id \in file[p].of
        BY <2>2 DEF BytesOfPath
    <2>3. CASE id \notin file[p].of
        <3>1. PICK k \in ReportIds : Writes(k, p)
            BY <1>1, <2>3 DEF FileStep, Unlinked, NoFile
        <3>2. k \in Recorded
            BY <3>1 DEF Writes, Writing, OfInserted
        <3>3. id = k \/ id \in spare[p]
            BY <2>3, <3>1 DEF Writes
        <3>4. QED
            BY <3>1, <3>2, <3>3 DEF Writes, SparesAreClaimed
    <2>4. QED
        BY <2>2, <2>3
<1>5. WrittenIsWhole'
    <2>1. SUFFICES ASSUME NEW id \in ReportIds, build'[id] = "written"
                   PROVE  IsWhole(id)' \/ SharesPath(id)' \/ id \in withdrawn'
        BY DEF WrittenIsWhole
    <2>2. id \in Recorded
        BY <1>1, <2>1 DEF BuildStep, UnderWay, OfInserted
    <2>3. CASE build[id] = "written"
        BY <1>1, <2>2, <2>3, StillWhole, StillShared DEF WrittenIsWhole, WithdrawStep, Writing
    <2>4. CASE build[id] # "written"
        <3>1. Closes(id)
            BY <1>1, <2>1, <2>4 DEF BuildStep
        <3>2. CASE file[PathOf(id)].of \subseteq {id}
            BY <1>2, <2>2, <3>1, <3>2 DEF Closes, IsWhole
        <3>3. CASE ~(file[PathOf(id)].of \subseteq {id})
            <4>1. PICK k \in file[PathOf(id)].of : k # id
                BY <3>3
            <4>2. k \in Recorded /\ PathOf(k) = PathOf(id)
                BY <1>2, <2>2, <4>1 DEF BytesOfPath
            <4>3. SharesPath(id)
                BY <4>1, <4>2 DEF SharesPath, Recorded
            <4>4. QED
                BY <2>2, <4>3, StillShared
        <3>4. QED
            BY <3>2, <3>3
    <2>5. QED
        BY <2>3, <2>4
<1>6. ReadyHasOwnFile'
    <2>1. SUFFICES ASSUME NEW id \in ReportIds, report'[id].state = "ready", ~UnderWay(id)',
                          id \notin stranded'
                   PROVE  IsWhole(id)' \/ SharesPath(id)' \/ id \in withdrawn'
        BY DEF ReadyHasOwnFile
    <2>2. report[id].state = "ready" \/ build[id] = "written"
        BY <1>1, <2>1 DEF RowStep
    <2>3. id \in Recorded
        BY <2>2 DEF Recorded, OfInserted
    <2>4. /\ IsWhole(id) \/ SharesPath(id) \/ id \in withdrawn
          /\ build[id] \notin Writing
        <3>1. CASE build[id] = "written"
            BY <3>1 DEF WrittenIsWhole, Writing
        <3>2. CASE build[id] # "written" /\ ~UnderWay(id)
            BY <1>1, <2>1, <2>2, <3>2 DEF ReadyHasOwnFile, UnderWay, WithdrawStep, Writing
        <3>3. CASE build[id] # "written" /\ UnderWay(id)
            <4>1. build'[id] = "done" /\ Ends(id)
                BY <1>1, <2>1, <3>3 DEF BuildStep, UnderWay
            <4>2. id \in Present /\ build[id] # "broken"
                BY <1>1, <2>1, <2>2, <3>3, <4>1 DEF RowStep, Present
            <4>3. QED
                BY <2>1, <3>3, <4>1, <4>2 DEF Ends
        <3>4. QED
            BY <3>1, <3>2, <3>3
    <2>5. QED
        BY <1>1, <2>3, <2>4, StillWhole, StillShared DEF WithdrawStep
<1>7. RemovedIsWithdrawn'
    <2>1. ASSUME NEW id \in Recorded' \ Present'
          PROVE  id \in withdrawn'
        <3>1. \/ id \in Recorded \ Present
              \/ \E h \in Desks : DeskAt(h, "unlinked") /\ desk[h].id = id
            BY <1>1, <1>2, <2>1 DEF RowStep
        <3>2. QED
            BY <1>1, <3>1 DEF RemovedIsWithdrawn, WithdrawStep
    <2>2. ASSUME NEW h \in Desks, desk'[h].pc = "unlinked"
          PROVE  desk'[h].id \in withdrawn'
        BY <1>1, <2>2 DEF DeskStep, RemovedIsWithdrawn, WithdrawStep, DeskAt
    <2>3. QED
        BY <2>1, <2>2 DEF RemovedIsWithdrawn, DeskAt
<1>8. LateBuildsOverlap'
    <2>1. SUFFICES ASSUME NEW id \in withdrawn', BuildMayWrite(id)'
                   PROVE  id \in overlap'
        BY DEF LateBuildsOverlap
    <2>2. id \in Recorded
        BY <1>1 DEF WithdrawStep, OfInserted
    <2>3. BuildMayWrite(id)
        BY <2>1, <2>2, MayStillWrite
    <2>4. QED
        BY <1>1, <2>3 DEF WithdrawStep, LateBuildsOverlap
<1>9. FilesAreClaimed'
    <2>1. SUFFICES ASSUME NEW p \in Paths, file'[p] # NoFile
                   PROVE  \E id \in Recorded : /\ PathOf(id)' = p
                                               /\ id \notin withdrawn' \/ id \in (overlap \cup unremoved)'
        BY <1>2 DEF FilesAreClaimed, OnDisk, Claims
    <2>2. CASE file'[p] = file[p]
        <3>1. PICK id \in Recorded : Claims(id, p)
            BY <2>1, <2>2 DEF FilesAreClaimed, OnDisk
        <3>2. CASE id \in withdrawn' \ withdrawn
            BY <1>1, <1>2, <2>1, <3>1, <3>2 DEF WithdrawStep, Claims
        <3>3. CASE id \notin withdrawn' \ withdrawn
            BY <1>1, <1>2, <3>1, <3>3 DEF WithdrawStep, Claims
        <3>4. QED
            BY <3>2, <3>3
    <2>3. CASE Unlinked(p)
        BY <2>1, <2>3 DEF Unlinked
    <2>4. ASSUME NEW id \in ReportIds, Writes(id, p)
          PROVE  /\ id \in Recorded /\ PathOf(id)' = p
                 /\ id \notin withdrawn' \/ id \in overlap'
        <3>1. id \in Recorded /\ PathOf(id)' = p /\ BuildMayWrite(id)
            BY <1>2, <2>4 DEF Writes, Writing, OfInserted, BuildMayWrite, UnderWay
        <3>2. QED
            BY <2>4, <3>1 DEF Writes, LateBuildsOverlap
    <2>5. QED
        BY <1>1, <2>2, <2>3, <2>4 DEF FileStep
<1>10. SparesAreClaimed'
    <2>1. SUFFICES ASSUME NEW p \in Paths, NEW id \in spare'[p]
                   PROVE  /\ id \in Recorded' /\ PathOf(id)' = p
                          /\ build'[id] = "fallback" \/ id \in interrupted'
        BY DEF SparesAreClaimed, Paths
    <2>2. CASE id \in spare[p] /\ (build[id] = "fallback" => build'[id] = "fallback" \/ id \in interrupted')
        BY <1>1, <1>2, <2>2 DEF SparesAreClaimed
    <2>3. CASE PathOf(id) = p /\ build[id] \in Writing /\ build'[id] = "fallback"
        <3>1. id \in ReportIds
            BY <1>1, <2>1, ReportsStepOK DEF ReportsInv, ReportsTypeOK, ReportIds, Paths
        <3>2. id \in Recorded
            BY <2>3, <3>1 DEF Writing, OfInserted
        <3>3. QED
            BY <1>2, <2>3, <3>2
    <2>4. QED
        BY <1>1, <2>2, <2>3 DEF SpareStep
<1>11. InsertedOnce'
    BY InsertsStep
<1>12. QED
    BY <1>3, <1>4, <1>5, <1>6, <1>7, <1>8, <1>9, <1>10, <1>11

LEMMA FilesInvHolds == ReportsSpec => [](ReportsInv /\ FilesInv)
<1>1. ReportsInit => ReportsInv /\ FilesInv
    BY ReportsInitOK, FilesInitOK, ReportConstants
<1>2. ReportsInv /\ FilesInv /\ [ReportsNext]_reportVars => (ReportsInv /\ FilesInv)'
    BY ReportsStepOK, FilesStepOK, ReportConstants
<1>3. QED
    BY <1>1, <1>2, PTL DEF ReportsSpec

\* What a user can download is the whole of their own report, however builds are
\* repeated, lost or fail, but for requests of the same second, reports that are
\* being removed, and builds that makedirs stranded.
THEOREM DownloadsAreWhole == ReportsSpec => []ReadyHasOwnFile
<1>1. FilesInv => ReadyHasOwnFile
    BY DEF FilesInv
<1>2. QED
    BY <1>1, FilesInvHolds, PTL

\* A file that no row has is left behind only by a report that was removed while
\* its build could still write, or whose file could not be deleted; and the .html
\* of a PDF that falls back only by a build that was interrupted before the rename.
THEOREM OrphansComeFromRaces == ReportsSpec => []OrphanFilesFromRaces
<1>1. FilesInv => OrphanFilesFromRaces
    <2> SUFFICES ASSUME FilesInv PROVE OrphanFilesFromRaces
        OBVIOUS
    <2>1. ASSUME NEW p \in OnDisk
          PROVE  \/ \E id \in Present : PathOf(id) = p
                 \/ \E id \in overlap \cup unremoved : PathOf(id) = p
        <3>1. PICK id \in Recorded : Claims(id, p)
            BY DEF FilesInv, FilesAreClaimed
        <3>2. QED
            BY <3>1 DEF Claims, FilesInv, RemovedIsWithdrawn
    <2>2. ASSUME NEW p \in Paths, spare[p] # {}
          PROVE  \E id \in ReportIds : PathOf(id) = p /\ (build[id] = "fallback" \/ id \in interrupted)
        BY <2>2 DEF FilesInv, SparesAreClaimed, Recorded
    <2>3. QED
        BY <2>1, <2>2 DEF OrphanFilesFromRaces
<1>2. QED
    BY <1>1, FilesInvHolds, PTL
=============================================================================
