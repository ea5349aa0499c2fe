------------------------- MODULE EventStream_proofs -------------------------
(*****************************************************************************)
(* For any number of browsers, any pipeline, any capacity of the history,    *)
(* any `replay' and any bound on the troubles: the types of EventStream,     *)
(* and its three invariants.                                                 *)
(*                                                                           *)
(* None of the three is inductive.  That a closed stream shows the status of *)
(* the row needs to know that whoever can still announce an end (the         *)
(* callback, the cancel request, an event of the log, the snapshot of a      *)
(* connection) announces a status that `Holds': that of the row, unless a    *)
(* final status was overwritten.  Holds is stable, because every step that   *)
(* changes a final status records it in `rewritten' (StillHolds); so each    *)
(* part of StreamInv is kept by the steps that do not touch its own          *)
(* variable, and the rest is one look at the step that does.  That nothing   *)
(* is lost needs what was seen to have no gap before the next event of the   *)
(* subscription.  That nobody waits for nothing needs that an end is in the  *)
(* log when nobody is left to announce it (EndComes), and that a connection  *)
(* has told every end it has seen (Told).                                    *)
(*****************************************************************************)
EXTENDS EventStream, WellFoundedInduction, TLAPS

\* A final status is that of the row, unless a final status was overwritten.
Holds(st) == st \in Final => status = st \/ rewritten

\* Every end that was announced holds.
EndsHold == \A i \in 1 .. Len(log) : log[i].type = "end" => Holds(log[i].status)

\* The callback holds what it loaded, and announces what it committed or found.
ChainHolds ==
    /\ chain.pc = "closeLoaded" => Holds(chain.is)
    /\ chain.pc \in {"summing", "ending"} => chain.is \in Final /\ Holds(chain.is)

CancelHolds == cancel = "committed" => Holds("cancelled")

\* The history is the tail of the log.
KeptIsLogged == kept <= Len(log)

\* A snapshot of the end holds, and so does what a closed stream shows.
ShowsWhatHolds(r) ==
    /\ r.pc \notin {"out", "closed"} => Holds(r.snap)
    /\ r.pc = "closed" => r.shown \in Final /\ Holds(r.shown)

\* What was delivered has no gap before the next event to be delivered.
Gapless(r) ==
    /\ r.pc \in {"snapped", "subscribed"} => r.seen = {}
    /\ r.pc \in {"subscribed", "replayed", "streaming"} => r.next \in 1 .. Len(log) + 1
    /\ \A i \in r.seen : \A j \in i + 1 .. r.next - 1 : j \in r.seen

ViewerRecord == [pc: ViewerPCs, snap: ScanStatus, replay: Nat, from: Nat, next: Nat,
                 seen: SUBSET Nat, shown: ScanStatus, ended: BOOLEAN]

EventsOK == EndsHold /\ ChainHolds /\ CancelHolds /\ KeptIsLogged
ViewersOK == \A v \in Viewers : ShowsWhatHolds(viewer[v]) /\ Gapless(viewer[v])

StreamInv == StreamTypeOK /\ EventsOK /\ ViewersOK
-----------------------------------------------------------------------------
\* A step that changes a final status says so.
Recorded ==
    /\ rewritten => rewritten'
    /\ status \in Final => status' = status \/ rewritten'

LEMMA StillHolds ==
    ASSUME Recorded
    PROVE  \A st : Holds(st) => (st \in Final => status' = st \/ rewritten')
  BY DEF Recorded, Holds

LEMMA WrittenIsRecorded ==
    ASSUME NEW old, NEW new \in ScanStatus, WriteStatus(old, new), StreamTypeOK
    PROVE  /\ Recorded /\ status' \in ScanStatus /\ rewritten' \in BOOLEAN
           /\ old # new => status' = new
           /\ old = new => status' = status
<1>1. status \in ScanStatus /\ rewritten \in BOOLEAN BY DEF StreamTypeOK
<1> QED BY <1>1 DEF WriteStatus, Recorded

\* The log only grows, and the history stays its tail.
Grown ==
    /\ log' \in Seq(Event) /\ Len(log) <= Len(log')
    /\ \A i \in 1 .. Len(log) : log'[i] = log[i]
    /\ kept' \in 0 .. HistoryMax /\ kept' <= Len(log')

GrownBy(e) == Grown /\ \A i \in 1 .. Len(log') : i > Len(log) => log'[i] = e

LEMMA StatusOfEvents ==
    /\ Running \in Event /\ Line \in Event
    /\ \A st \in Final : Ended(st) \in Event /\ Ended(st).status = st
    /\ Running.type # "end" /\ Line.type # "end"
    /\ \A e \in Event : e.status \in ScanStatus
    /\ \A e \in Event : e.type = "end" => e.status \in Final
  BY DEF Event, Running, Line, Ended, Final, ScanStatus

LEMMA Appended ==
    ASSUME StreamTypeOK, KeptIsLogged, NEW e \in Event,
           log' = Append(log, e), kept' = Kept(kept)
    PROVE  GrownBy(e)
<1>1. /\ log \in Seq(Event) /\ kept \in 0 .. HistoryMax /\ HistoryMax \in Nat /\ HistoryMax # 0
      /\ kept <= Len(log) /\ Len(log) \in Nat
  BY StreamConstants DEF StreamTypeOK, KeptIsLogged
<1>2. log' \in Seq(Event) /\ Len(log') = Len(log) + 1
  BY <1>1
<1>3. \A i \in 1 .. Len(log') : log'[i] = IF i <= Len(log) THEN log[i] ELSE e
  BY <1>1, <1>2
<1>4. kept' \in 0 .. HistoryMax /\ kept' <= Len(log')
  BY <1>1, <1>2 DEF Kept
<1> QED BY <1>1, <1>2, <1>3, <1>4 DEF GrownBy, Grown

LEMMA Published ==
    ASSUME StreamTypeOK, KeptIsLogged, NEW e \in Event, Publish(e)
    PROVE  GrownBy(e) /\ troubles' \in Nat /\ silent' \in BOOLEAN
<1>1. /\ log \in Seq(Event) /\ kept \in 0 .. HistoryMax /\ troubles \in Nat
      /\ silent \in BOOLEAN /\ kept <= Len(log) /\ Len(log) \in Nat
  BY DEF StreamTypeOK, KeptIsLogged
<1>2. CASE /\ log' = Append(log, e) /\ kept' = Kept(kept)
           /\ NoTrouble /\ UNCHANGED silent
  BY <1>1, <1>2, Appended DEF NoTrouble
<1>3. CASE /\ Trouble
           /\ silent' = (silent \/ e.type = "end")
           /\ UNCHANGED <<log, kept>>
  <2>1. GrownBy(e) BY <1>1, <1>3 DEF GrownBy, Grown
  <2>2. troubles' \in Nat BY <1>1, <1>3 DEF Trouble
  <2>3. silent' \in BOOLEAN BY <1>1, <1>3
  <2> QED BY <2>1, <2>2, <2>3
<1> QED BY <1>2, <1>3 DEF Publish

\* A step of the worker, of the cancel or of the clock keeps every connection.
LEMMA ViewersKept ==
    ASSUME StreamTypeOK, ViewersOK, Recorded, log \in Seq(Event), log' \in Seq(Event),
           Len(log) <= Len(log'), UNCHANGED viewer
    PROVE  ViewersOK'
<1> SUFFICES ASSUME NEW v \in Viewers
             PROVE  ShowsWhatHolds(viewer[v])' /\ Gapless(viewer[v])'
  BY DEF ViewersOK
<1>1. ShowsWhatHolds(viewer[v]) /\ Gapless(viewer[v]) BY DEF ViewersOK
<1>2. viewer'[v] = viewer[v] OBVIOUS
<1>3. ShowsWhatHolds(viewer[v])'
  BY <1>1, <1>2, StillHolds DEF ShowsWhatHolds, Holds
<1>4. Len(log) \in Nat /\ Len(log') \in Nat OBVIOUS
<1>5. Gapless(viewer[v])'
  BY <1>1, <1>2, <1>4 DEF Gapless
<1> QED BY <1>3, <1>5

\* The announced ends hold after a step that appends e, if the status of e does.
LEMMA EndsKept ==
    ASSUME EndsHold, Recorded, log \in Seq(Event), NEW e, GrownBy(e),
           e.type = "end" => (e.status \in Final => status' = e.status \/ rewritten')
    PROVE  EndsHold'
<1> SUFFICES ASSUME NEW i \in 1 .. Len(log'), log'[i].type = "end", log'[i].status \in Final
             PROVE  status' = log'[i].status \/ rewritten'
  BY DEF EndsHold, Holds
<1>1. CASE i <= Len(log)
  <2>1. i \in 1 .. Len(log) /\ log'[i] = log[i] BY <1>1 DEF GrownBy, Grown
  <2> QED BY <2>1, StillHolds DEF EndsHold
<1>2. CASE i > Len(log)
  BY <1>2 DEF GrownBy
<1> QED
  <2>1. Len(log) \in Nat OBVIOUS
  <2> QED BY <1>1, <1>2, <2>1
-----------------------------------------------------------------------------
LEMMA StreamInitOK == StreamInit => StreamInv
<1> SUFFICES ASSUME StreamInit PROVE StreamInv
  OBVIOUS
<1>1. StreamConstants BY StreamConstants
<1>2. HistoryMax \in Nat /\ Modules \in Nat BY <1>1
<1>3. log \in Seq(Event) /\ Len(log) = 0 BY DEF StreamInit
<1>4. NoViewer \in ViewerRecord
  BY DEF NoViewer, ViewerRecord, ViewerPCs, ScanStatus, Final
<1>5. viewer \in [Viewers -> ViewerRecord] BY <1>4 DEF StreamInit
<1>6. chain \in ChainRecord
  BY <1>2 DEF StreamInit, ChainRecord, HeadPCs, ClosePCs, ScanStatus, Final
<1>7. StreamTypeOK
  <2>1. status \in ScanStatus BY DEF StreamInit, ScanStatus
  <2>2. kept \in 0 .. HistoryMax /\ troubles \in Nat BY <1>2 DEF StreamInit
  <2> QED BY <1>3, <1>5, <1>6, <2>1, <2>2 DEF StreamInit, StreamTypeOK, ViewerRecord
<1>8. EventsOK
  BY <1>3 DEF StreamInit, EventsOK, EndsHold, ChainHolds, CancelHolds, KeptIsLogged
<1>9. ViewersOK
  BY DEF StreamInit, ViewersOK, ShowsWhatHolds, Gapless, NoViewer
<1> QED BY <1>7, <1>8, <1>9 DEF StreamInv

\* What every step relies on.
LEMMA StreamFacts ==
    ASSUME StreamInv
    PROVE  /\ log \in Seq(Event) /\ Len(log) \in Nat /\ kept \in 0 .. HistoryMax
           /\ kept <= Len(log) /\ troubles \in Nat
           /\ status \in ScanStatus /\ chain \in ChainRecord
           /\ silent \in BOOLEAN /\ rewritten \in BOOLEAN
           /\ viewer \in [Viewers -> ViewerRecord]
           /\ cancel \in {"idle", "loaded", "committed"}
           /\ EndsHold /\ ChainHolds /\ CancelHolds /\ KeptIsLogged
           /\ StreamTypeOK /\ ViewersOK
  BY DEF StreamInv, StreamTypeOK, EventsOK, KeptIsLogged, ViewerRecord

LEMMA ChainFields ==
    ASSUME chain \in ChainRecord
    PROVE  /\ chain.pc \in HeadPCs \cup ClosePCs \cup {"module", "over", "failed"}
           /\ chain.n \in 0 .. Modules /\ chain.is \in ScanStatus
           /\ chain.revoked \in BOOLEAN
  BY DEF ChainRecord

\* The task moves and publishes `e', which is no end, or an end that holds.
LEMMA WorkerPublishes ==
    ASSUME StreamInv, NEW e \in Event, GrownBy(e), troubles' \in Nat, silent' \in BOOLEAN,
           e.type = "end" => Holds(e.status),
           chain' \in ChainRecord,
           chain'.pc # "closeLoaded",
           chain'.pc \in {"summing", "ending"} =>
               chain.pc \in {"summing", "ending"} /\ chain'.is = chain.is,
           cancel' \in {"idle", cancel},
           UNCHANGED <<status, viewer, rewritten>>
    PROVE  StreamInv'
<1>1. Recorded BY DEF Recorded
<1>2. EndsHold' BY <1>1, EndsKept, StreamFacts DEF Holds
<1>3. ChainHolds'
  <2>1. ChainHolds BY StreamFacts
  <2> QED BY <2>1 DEF ChainHolds, Holds
<1>4. CancelHolds'
  <2>1. CancelHolds BY StreamFacts
  <2> QED BY <2>1 DEF CancelHolds, Holds
<1>5. log' \in Seq(Event) /\ Len(log) <= Len(log') /\ kept' <= Len(log') /\ kept' \in 0 .. HistoryMax
  BY DEF GrownBy, Grown
<1>6. ViewersOK' BY <1>1, <1>5, ViewersKept, StreamFacts
<1>7. StreamTypeOK'
  BY <1>5, StreamFacts DEF StreamTypeOK, ViewerRecord
<1> QED BY <1>2, <1>3, <1>4, <1>5, <1>6, <1>7 DEF StreamInv, EventsOK, KeptIsLogged

\* The task or the cancel moves without a publication; the row may be written.
LEMMA WorkerMoves ==
    ASSUME StreamInv, Recorded, status' \in ScanStatus, rewritten' \in BOOLEAN,
           troubles' \in Nat, silent' \in BOOLEAN, chain' \in ChainRecord,
           cancel' \in {"idle", "loaded", "committed"},
           ChainHolds', CancelHolds', UNCHANGED <<log, kept, viewer>>
    PROVE  StreamInv'
<1>1. GrownBy(Running)
  BY StreamFacts DEF GrownBy, Grown
<1>2. EndsHold'
  BY <1>1, EndsKept, StreamFacts, StatusOfEvents
<1>3. ViewersOK' BY ViewersKept, StreamFacts
<1>4. StreamTypeOK'
  BY StreamFacts DEF StreamTypeOK, ViewerRecord
<1>5. KeptIsLogged' BY StreamFacts DEF KeptIsLogged
<1> QED BY <1>2, <1>3, <1>4, <1>5 DEF StreamInv, EventsOK

\* The status written does not concern what the cancel holds.
LEMMA CancelStill ==
    ASSUME CancelHolds, Recorded, UNCHANGED cancel
    PROVE  CancelHolds'
  BY StillHolds DEF CancelHolds, Holds, Final

LEMMA HeadOK ==
    ASSUME StreamInv, HeadLoad \/ HeadMark \/ HeadDispatch PROVE StreamInv'
<1> USE ChainFields, StreamFacts
<1>1. CASE HeadLoad
  <2> DEFINE c == IF status = "cancelled" THEN [chain EXCEPT !.pc = "over"]
                  ELSE [chain EXCEPT !.pc = "headLoaded", !.is = status]
  <2>1. chain' = c /\ Recorded BY <1>1 DEF HeadLoad, Recorded
  <2>2. c \in ChainRecord /\ c.pc \in {"over", "headLoaded"}
    BY DEF ChainRecord, HeadPCs
  <2> HIDE DEF c
  <2>3. ChainHolds' BY <2>1, <2>2 DEF ChainHolds
  <2>4. CancelHolds' BY <1>1, <2>1, CancelStill DEF HeadLoad
  <2>5. /\ status' \in ScanStatus /\ rewritten' \in BOOLEAN /\ troubles' \in Nat
        /\ silent' \in BOOLEAN /\ cancel' \in {"idle", "loaded", "committed"}
        /\ UNCHANGED <<log, kept, viewer>>
    BY <1>1 DEF HeadLoad
  <2> QED BY <2>1, <2>2, <2>3, <2>4, <2>5, WorkerMoves
<1>2. CASE HeadMark
  <2> DEFINE c == [chain EXCEPT !.pc = "headMarked", !.is = "queued"]
  <2>1. "running" \in ScanStatus /\ WriteStatus(chain.is, "running") /\ chain' = c
    BY <1>2 DEF HeadMark, ScanStatus
  <2>2. Recorded /\ status' \in ScanStatus /\ rewritten' \in BOOLEAN
    BY <2>1, WrittenIsRecorded
  <2>3. c \in ChainRecord /\ c.pc = "headMarked"
    BY DEF ChainRecord, HeadPCs, ScanStatus
  <2> HIDE DEF c
  <2>4. ChainHolds' BY <2>1, <2>3 DEF ChainHolds
  <2>5. CancelHolds' BY <1>2, <2>2, CancelStill DEF HeadMark
  <2>6. /\ troubles' \in Nat /\ silent' \in BOOLEAN
        /\ cancel' \in {"idle", "loaded", "committed"} /\ UNCHANGED <<log, kept, viewer>>
    BY <1>2 DEF HeadMark
  <2> QED BY <2>1, <2>2, <2>3, <2>4, <2>5, <2>6, WorkerMoves
<1>3. CASE HeadDispatch
  <2> DEFINE c == [chain EXCEPT !.pc = "module", !.n = 1]
  <2>1. Running \in Event /\ Running.type # "end" BY StatusOfEvents
  <2>2. GrownBy(Running) /\ troubles' \in Nat /\ silent' \in BOOLEAN
    BY <1>3, <2>1, Published DEF HeadDispatch
  <2>3. 1 \in 0 .. Modules BY StreamConstants
  <2>4. c \in ChainRecord /\ c.pc = "module"
    BY <2>3 DEF ChainRecord
  <2>5. chain' = c /\ UNCHANGED <<cancel, status, viewer, rewritten>>
    BY <1>3 DEF HeadDispatch
  <2> HIDE DEF c
  <2> QED BY <2>1, <2>2, <2>4, <2>5, WorkerPublishes
<1> QED BY <1>1, <1>2, <1>3

LEMMA ModulesOK ==
    ASSUME StreamInv, ModuleRuns \/ ModuleAgain PROVE StreamInv'
<1> USE ChainFields, StreamFacts
<1>1. Running \in Event /\ Running.type # "end" BY StatusOfEvents
<1>2. CASE ModuleRuns
  <2>1. GrownBy(Running) /\ troubles' \in Nat /\ silent' \in BOOLEAN
    BY <1>1, <1>2, Published DEF ModuleRuns
  <2>2. chain' \in ChainRecord /\ chain'.pc \in {"module", "closing"}
    <3> DEFINE more == [chain EXCEPT !.n = @ + 1]
               ends == [chain EXCEPT !.pc = "closing"]
    <3>1. ASSUME chain.n < Modules PROVE chain.n + 1 \in 0 .. Modules
      BY <3>1, StreamConstants
    <3>2. ASSUME chain.n < Modules, ChainAt("module")
          PROVE  more \in ChainRecord /\ more.pc = "module"
      BY <3>1, <3>2 DEF ChainRecord, ChainAt
    <3>3. ends \in ChainRecord /\ ends.pc = "closing"
      BY DEF ChainRecord, ClosePCs
    <3>4. (chain.n < Modules /\ chain' = more) \/ chain' = ends
      BY <1>2 DEF ModuleRuns
    <3>5. ChainAt("module") BY <1>2 DEF ModuleRuns
    <3> HIDE DEF more, ends
    <3> QED BY <3>2, <3>3, <3>4, <3>5
  <2>3. UNCHANGED <<cancel, status, viewer, rewritten>> BY <1>2 DEF ModuleRuns
  <2> QED BY <1>1, <2>1, <2>2, <2>3, WorkerPublishes
<1>3. CASE ModuleAgain
  <2>1. GrownBy(Running) BY <1>1, <1>3, Appended DEF ModuleAgain
  <2>2. troubles' \in Nat BY <1>3 DEF ModuleAgain, Trouble
  <2>3. UNCHANGED <<cancel, chain, silent, status, viewer, rewritten>> /\ chain.pc = "module"
    BY <1>3 DEF ModuleAgain, ChainAt
  <2> QED BY <1>1, <2>1, <2>2, <2>3, WorkerPublishes
<1> QED BY <1>2, <1>3

LEMMA TaskFailsOK ==
    ASSUME StreamInv, TaskFails PROVE StreamInv'
<1> USE ChainFields, StreamFacts
<1> DEFINE c == [chain EXCEPT !.pc = "failed"]
<1>1. chain' = c /\ UNCHANGED <<status, cancel, viewer, rewritten>> BY DEF TaskFails
<1>2. c \in ChainRecord /\ c.pc = "failed" BY DEF ChainRecord
<1> HIDE DEF c
<1>3. CASE Publish(Running)
  <2>1. Running \in Event /\ Running.type # "end" BY StatusOfEvents
  <2>2. GrownBy(Running) /\ troubles' \in Nat /\ silent' \in BOOLEAN
    BY <1>3, <2>1, Published
  <2> QED BY <1>1, <1>2, <2>1, <2>2, WorkerPublishes
<1>4. CASE /\ silent' = (silent \/ (chain.pc \in ClosePCs /\ status \in Final))
           /\ NoTrouble /\ UNCHANGED <<log, kept>>
  <2>1. troubles' \in Nat /\ silent' \in BOOLEAN BY <1>4 DEF NoTrouble
  <2>2. ChainHolds' BY <1>1, <1>2 DEF ChainHolds
  <2>3. Recorded BY <1>1 DEF Recorded
  <2>4. CancelHolds' BY <1>1, <2>3, CancelStill
  <2> QED BY <1>1, <1>2, <1>4, <2>1, <2>2, <2>3, <2>4, WorkerMoves
<1> QED BY <1>3, <1>4 DEF TaskFails

LEMMA CallbackOK ==
    ASSUME StreamInv, CloseLoad \/ CloseCommit \/ CloseSummary \/ CloseEnd PROVE StreamInv'
<1> USE ChainFields, StreamFacts
<1>1. CASE CloseLoad
  <2> DEFINE c == [chain EXCEPT !.pc = "closeLoaded", !.is = status]
  <2>1. chain' = c /\ Recorded BY <1>1 DEF CloseLoad, Recorded
  <2>2. c \in ChainRecord /\ c.pc = "closeLoaded" /\ c.is = status
    BY DEF ChainRecord, ClosePCs
  <2> HIDE DEF c
  <2>3. ChainHolds' BY <1>1, <2>1, <2>2 DEF ChainHolds, CloseLoad, Holds
  <2>4. CancelHolds' BY <1>1, <2>1, CancelStill DEF CloseLoad
  <2>5. /\ status' \in ScanStatus /\ rewritten' \in BOOLEAN /\ troubles' \in Nat
        /\ silent' \in BOOLEAN /\ cancel' \in {"idle", "loaded", "committed"}
        /\ UNCHANGED <<log, kept, viewer>>
    BY <1>1 DEF CloseLoad
  <2> QED BY <2>1, <2>2, <2>3, <2>4, <2>5, WorkerMoves
<1>2. CASE CloseCommit
  <2> DEFINE final == Closed(chain.is)
             c == [chain EXCEPT !.pc = "summing", !.is = final]
  <2>1. final \in Final /\ final \in ScanStatus BY DEF Closed, ScanStatus, Final
  <2>2. WriteStatus(chain.is, final) /\ chain' = c BY <1>2 DEF CloseCommit
  <2>3. Holds(chain.is) BY <1>2 DEF CloseCommit, ChainAt, ChainHolds
  <2>4. c \in ChainRecord /\ c.pc = "summing" /\ c.is = final
    BY <2>1 DEF ChainRecord, ClosePCs
  <2> HIDE DEF c, final
  <2>5. /\ Recorded /\ status' \in ScanStatus /\ rewritten' \in BOOLEAN
        /\ chain.is # final => status' = final
        /\ chain.is = final => status' = status
    BY <2>1, <2>2, WrittenIsRecorded
  <2>6. status' = final \/ rewritten'
    BY <2>1, <2>3, <2>5 DEF Holds, Recorded
  <2>7. ChainHolds' BY <2>1, <2>2, <2>4, <2>6 DEF ChainHolds, Holds
  <2>8. CancelHolds' BY <1>2, <2>5, CancelStill DEF CloseCommit
  <2>9. /\ troubles' \in Nat /\ silent' \in BOOLEAN
        /\ cancel' \in {"idle", "loaded", "committed"} /\ UNCHANGED <<log, kept, viewer>>
    BY <1>2 DEF CloseCommit
  <2> QED BY <2>2, <2>4, <2>5, <2>7, <2>8, <2>9, WorkerMoves
<1>3. CASE CloseSummary
  <2> DEFINE c == [chain EXCEPT !.pc = "ending"]
  <2>1. Line \in Event /\ Line.type # "end" BY StatusOfEvents
  <2>2. GrownBy(Line) /\ troubles' \in Nat /\ silent' \in BOOLEAN
    BY <1>3, <2>1, Published DEF CloseSummary
  <2>3. c \in ChainRecord /\ c.pc = "ending" /\ c.is = chain.is
    BY DEF ChainRecord, ClosePCs
  <2>4. /\ chain' = c /\ chain.pc = "summing"
        /\ UNCHANGED <<cancel, status, viewer, rewritten>>
    BY <1>3 DEF CloseSummary, ChainAt
  <2> HIDE DEF c
  <2> QED BY <2>1, <2>2, <2>3, <2>4, WorkerPublishes
<1>4. CASE CloseEnd
  <2> DEFINE c == [chain EXCEPT !.pc = "over"]
  <2>1. chain.is \in Final /\ Holds(chain.is) BY <1>4 DEF CloseEnd, ChainAt, ChainHolds
  <2>2. Ended(chain.is) \in Event /\ Ended(chain.is).status = chain.is
    BY <2>1, StatusOfEvents
  <2>3. GrownBy(Ended(chain.is)) /\ troubles' \in Nat /\ silent' \in BOOLEAN
    BY <1>4, <2>2, Published DEF CloseEnd
  <2>4. c \in ChainRecord /\ c.pc = "over"
    BY DEF ChainRecord
  <2>5. chain' = c /\ UNCHANGED <<cancel, status, viewer, rewritten>>
    BY <1>4 DEF CloseEnd
  <2>6. Holds(Ended(chain.is).status) BY <2>1, <2>2
  <2> HIDE DEF c
  <2> QED BY <2>2, <2>3, <2>4, <2>5, <2>6, WorkerPublishes
<1> QED BY <1>1, <1>2, <1>3, <1>4

LEMMA TroublesOK ==
    ASSUME StreamInv, WorkerDies \/ HeadRevoked \/ HistoryExpires PROVE StreamInv'
<1> USE ChainFields, StreamFacts
<1>1. CASE WorkerDies \/ HeadRevoked
  <2> DEFINE At(pc) == [chain EXCEPT !.pc = pc]
  <2>1. \A pc \in {"head", "closing", "over"} : At(pc) \in ChainRecord /\ At(pc).pc = pc
    BY DEF ChainRecord, HeadPCs, ClosePCs
  <2>2. \E pc \in {"head", "closing", "over"} : chain' = At(pc)
    BY <1>1 DEF WorkerDies, HeadRevoked
  <2> HIDE DEF At
  <2>3. chain' \in ChainRecord /\ chain'.pc \in {"head", "closing", "over"}
    BY <2>1, <2>2
  <2>4. ChainHolds' BY <2>3 DEF ChainHolds
  <2>5. troubles' \in Nat /\ silent' \in BOOLEAN
    <3>1. CASE WorkerDies BY <3>1 DEF WorkerDies, Trouble
    <3>2. CASE HeadRevoked
      BY <3>2 DEF HeadRevoked
    <3> QED BY <1>1, <3>1, <3>2
  <2>6. UNCHANGED <<status, rewritten, cancel, log, kept, viewer>>
    BY <1>1 DEF WorkerDies, HeadRevoked
  <2>7. Recorded BY <2>6 DEF Recorded
  <2>8. CancelHolds' BY <2>6, <2>7, CancelStill
  <2> QED BY <2>3, <2>4, <2>5, <2>6, <2>7, <2>8, WorkerMoves
<1>2. CASE HistoryExpires
  <2>1. /\ chain' = chain /\ chain.pc \in {"over", "failed"} /\ kept' = 0
        /\ UNCHANGED <<status, cancel, log, viewer, troubles, silent, rewritten>>
    BY <1>2 DEF HistoryExpires, NobodyLeft
  <2>2. GrownBy(Running)
    BY <2>1, StreamConstants DEF GrownBy, Grown
  <2> QED BY <2>1, <2>2, StatusOfEvents, WorkerPublishes
<1> QED BY <1>1, <1>2

LEMMA CancelOK ==
    ASSUME StreamInv, CancelLoads \/ CancelSteps \/ ApiDies PROVE StreamInv'
<1> USE StreamFacts
<1>1. CASE CancelLoads
  <2> DEFINE c == [chain EXCEPT !.revoked = TRUE]
  <2>1. /\ chain' = c /\ cancel' = "loaded"
        /\ UNCHANGED <<status, log, kept, viewer, troubles, silent, rewritten>>
    BY <1>1 DEF CancelLoads
  <2>2. c \in ChainRecord /\ c.pc = chain.pc /\ c.is = chain.is
    BY DEF ChainRecord
  <2> HIDE DEF c
  <2>3. Recorded BY <2>1 DEF Recorded
  <2>4. ChainHolds'
    <3>1. ChainHolds OBVIOUS
    <3> QED BY <2>1, <2>2, <3>1 DEF ChainHolds, Holds
  <2>5. CancelHolds' BY <2>1 DEF CancelHolds
  <2> QED BY <2>1, <2>2, <2>3, <2>4, <2>5, WorkerMoves
<1>2. CASE CancelCommits
  <2>1. /\ cancel' = "committed" /\ status' = "cancelled"
        /\ UNCHANGED <<chain, log, kept, viewer, troubles, silent>>
        /\ rewritten' = (rewritten \/ (status \in Final /\ status # "cancelled"))
    BY <1>2 DEF CancelCommits
  <2>2. Recorded /\ status' \in ScanStatus BY <2>1 DEF Recorded, ScanStatus, Final
  <2>3. rewritten' \in BOOLEAN BY <2>1
  <2>4. ChainHolds'
    <3>1. ChainHolds OBVIOUS
    <3> QED BY <2>1, <2>2, <3>1, StillHolds DEF ChainHolds, Holds
  <2>5. CancelHolds' BY <2>1 DEF CancelHolds, Holds
  <2> QED BY <2>1, <2>2, <2>3, <2>4, <2>5, WorkerMoves
<1>3. CASE CancelAnnounces
  <2>1. "cancelled" \in Final BY DEF Final
  <2>2. Ended("cancelled") \in Event /\ Ended("cancelled").status = "cancelled"
    BY <2>1, StatusOfEvents
  <2>3. /\ cancel = "committed" /\ cancel' = "idle" /\ Publish(Ended("cancelled"))
        /\ UNCHANGED <<status, chain, viewer, rewritten>>
    BY <1>3 DEF CancelAnnounces
  <2>4. GrownBy(Ended("cancelled")) /\ troubles' \in Nat /\ silent' \in BOOLEAN
    BY <2>2, <2>3, Published
  <2>5. Holds("cancelled") BY <2>3 DEF CancelHolds
  <2>6. EndsHold'
    <3>1. Recorded BY <2>3 DEF Recorded
    <3> QED BY <2>2, <2>3, <2>4, <2>5, <3>1, EndsKept DEF Holds
  <2>7. Recorded BY <2>3 DEF Recorded
  <2>8. ChainHolds' /\ CancelHolds'
    <3>1. ChainHolds OBVIOUS
    <3> QED BY <2>3, <3>1 DEF ChainHolds, CancelHolds, Holds
  <2>9. log' \in Seq(Event) /\ Len(log) <= Len(log') /\ kept' <= Len(log') /\ kept' \in 0 .. HistoryMax
    BY <2>4 DEF GrownBy, Grown
  <2>10. ViewersOK' BY <2>3, <2>7, <2>9, ViewersKept
  <2>11. StreamTypeOK' BY <2>3, <2>4, <2>9 DEF StreamTypeOK, ViewerRecord
  <2> QED BY <2>6, <2>8, <2>9, <2>10, <2>11 DEF StreamInv, EventsOK, KeptIsLogged
<1>4. CASE ApiDies
  <2>1. /\ cancel' = "idle" /\ silent' = TRUE /\ troubles' \in Nat
        /\ UNCHANGED <<status, chain, log, kept, viewer, rewritten>>
    BY <1>4 DEF ApiDies, Trouble
  <2>2. Recorded BY <2>1 DEF Recorded
  <2>3. ChainHolds'
    <3>1. ChainHolds OBVIOUS
    <3> QED BY <2>1, <3>1 DEF ChainHolds, Holds
  <2>4. CancelHolds' BY <2>1 DEF CancelHolds
  <2> QED BY <2>1, <2>2, <2>3, <2>4, WorkerMoves
<1> QED BY <1>1, <1>2, <1>3, <1>4 DEF CancelSteps
-----------------------------------------------------------------------------
\* A connection moves to a record that is typed, shows what holds and has no gap.
LEMMA ViewerMoved ==
    ASSUME StreamInv, NEW v \in Viewers, NEW r \in ViewerRecord,
           ShowsWhatHolds(r), Gapless(r), ViewerMoves(v, r), troubles' \in Nat,
           UNCHANGED <<status, chain, cancel, log, kept, silent, rewritten>>
    PROVE  StreamInv'
<1> USE StreamFacts
<1>1. /\ viewer' \in [Viewers -> ViewerRecord]
      /\ \A w \in Viewers : viewer'[w] = IF w = v THEN r ELSE viewer[w]
  BY DEF ViewerMoves
<1>2. \A w \in Viewers : ShowsWhatHolds(viewer'[w]) /\ Gapless(viewer'[w])
  BY <1>1 DEF ViewersOK
<1>3. ViewersOK' BY <1>2 DEF ViewersOK, ShowsWhatHolds, Gapless, Holds
<1>4. StreamTypeOK' BY <1>1 DEF StreamTypeOK, ViewerRecord
<1>5. EventsOK'
  <2>1. EventsOK BY DEF StreamInv
  <2> QED BY <2>1 DEF EventsOK, EndsHold, ChainHolds, CancelHolds, KeptIsLogged, Holds
<1> QED BY <1>3, <1>4, <1>5 DEF StreamInv

LEMMA ViewerFields ==
    ASSUME StreamInv, NEW v \in Viewers
    PROVE  /\ viewer[v] \in ViewerRecord
           /\ viewer[v].pc \in ViewerPCs /\ viewer[v].snap \in ScanStatus
           /\ viewer[v].replay \in Nat /\ viewer[v].from \in Nat /\ viewer[v].next \in Nat
           /\ viewer[v].seen \in SUBSET Nat /\ viewer[v].shown \in ScanStatus
           /\ viewer[v].ended \in BOOLEAN
           /\ ShowsWhatHolds(viewer[v]) /\ Gapless(viewer[v])
<1>1. viewer[v] \in ViewerRecord BY StreamFacts
<1> QED BY <1>1, StreamFacts DEF ViewerRecord, ViewersOK

\* The greatest element of a set of positions exists and belongs to it.
LEMMA MaxOfPositions ==
    ASSUME NEW last \in Nat, NEW S, S \subseteq 1 .. last, S # {}
    PROVE  Max(S) \in S
<1> DEFINE back == {last - i : i \in S}
<1>1. \A i \in S : i \in Nat /\ last - i \in Nat
  OBVIOUS
<1>2. back \subseteq Nat /\ back # {}
  BY <1>1
<1>3. PICK m \in back : \A k \in back : ~(<<k, m>> \in OpToRel(<, Nat))
  BY <1>2, WFMin, NatLessThanWellFounded, Zenon
<1>4. m \in Nat /\ \A k \in back : ~(k < m)
  BY <1>2, <1>3 DEF OpToRel
<1>5. PICK x \in S : m = last - x
  BY <1>3
<1>6. \A y \in S : x >= y
  <2> SUFFICES ASSUME NEW y \in S PROVE x >= y
    OBVIOUS
  <2>1. last - y \in back OBVIOUS
  <2>2. ~(last - y < last - x) BY <1>4, <1>5, <2>1
  <2>3. x \in Nat /\ y \in Nat BY <1>1
  <2> QED BY <2>2, <2>3
<1> QED BY <1>5, <1>6 DEF Max

LEMMA ShownIsStatus ==
    ASSUME log \in Seq(Event), NEW old \in ScanStatus, NEW first \in 1 .. Len(log) + 1
    PROVE  ShownAfter(old, first, Len(log)) \in ScanStatus
<1> DEFINE telling == {i \in first .. Len(log) : log[i].type # "log"}
<1>1. Len(log) \in Nat OBVIOUS
<1>2. telling \subseteq 1 .. Len(log) BY <1>1
<1>3. ASSUME telling # {} PROVE log[Max(telling)] \in Event
  <2>1. Max(telling) \in 1 .. Len(log)
    <3> HIDE DEF telling
    <3> QED BY <1>1, <1>2, <1>3, MaxOfPositions
  <2> HIDE DEF telling
  <2> QED BY <2>1
<1>4. ShownAfter(old, first, Len(log)) = IF telling = {} THEN old ELSE log[Max(telling)].status
  BY DEF ShownAfter
<1> HIDE DEF telling
<1> QED BY <1>3, <1>4, StatusOfEvents

\* What a step of a connection leaves alone.
Elsewhere == UNCHANGED <<status, chain, cancel, log, kept, silent, rewritten>>

LEMMA ConnectOK ==
    ASSUME StreamInv, NEW v \in Viewers, NEW n \in Replays, Connect(v, n)
    PROVE  StreamInv'
<1> USE StreamFacts, ViewerFields
<1> DEFINE r == [NoViewer EXCEPT !.pc = "snapped", !.snap = status, !.replay = n, !.shown = status]
<1>1. ViewerMoves(v, r) /\ troubles' \in Nat /\ Elsewhere BY DEF Connect, Elsewhere
<1>2. n \in Nat BY StreamConstants
<1>3. r \in ViewerRecord BY <1>2 DEF NoViewer, ViewerRecord, ViewerPCs
<1>4. ShowsWhatHolds(r) /\ Gapless(r)
  BY DEF NoViewer, ShowsWhatHolds, Gapless, Holds
<1> HIDE DEF r
<1> QED BY <1>1, <1>3, <1>4, ViewerMoved DEF Elsewhere

LEMMA SubscribesOrLeavesOK ==
    ASSUME StreamInv, NEW v \in Viewers, Subscribe(v) \/ Disconnect(v)
    PROVE  StreamInv'
<1> USE StreamFacts, ViewerFields
<1>1. CASE Subscribe(v)
  <2> DEFINE r == [viewer[v] EXCEPT !.pc = "subscribed", !.from = Len(log) + 1, !.next = Len(log) + 1]
  <2>1. ViewerMoves(v, r) /\ troubles' \in Nat /\ Elsewhere BY <1>1 DEF Subscribe, Elsewhere
  <2>2. viewer[v].pc = "snapped" BY <1>1 DEF Subscribe, ViewerAt
  <2>3. r \in ViewerRecord
    <3>1. Len(log) + 1 \in Nat OBVIOUS
    <3>2. viewer[v] \in ViewerRecord OBVIOUS
    <3> QED BY ONLY <3>1, <3>2 DEF ViewerRecord, ViewerPCs
  <2>4. /\ r.pc = "subscribed" /\ r.seen = viewer[v].seen /\ r.snap = viewer[v].snap
        /\ r.next = Len(log) + 1
    BY DEF ViewerRecord
  <2> HIDE DEF r
  <2>5. ShowsWhatHolds(r) BY <2>2, <2>4 DEF ShowsWhatHolds
  <2>6. Gapless(r) BY <2>2, <2>4 DEF Gapless
  <2> QED BY <2>1, <2>3, <2>5, <2>6, ViewerMoved DEF Elsewhere
<1>2. CASE Disconnect(v)
  <2>1. ViewerMoves(v, NoViewer) /\ troubles' \in Nat /\ Elsewhere
    BY <1>2 DEF Disconnect, Elsewhere
  <2>2. NoViewer \in ViewerRecord
    BY DEF NoViewer, ViewerRecord, ViewerPCs, ScanStatus, Final
  <2>3. ShowsWhatHolds(NoViewer) /\ Gapless(NoViewer)
    BY DEF NoViewer, ShowsWhatHolds, Gapless
  <2> QED BY <2>1, <2>2, <2>3, ViewerMoved DEF Elsewhere
<1> QED BY <1>1, <1>2

LEMMA ReplayOK ==
    ASSUME StreamInv, NEW v \in Viewers, Replay(v)
    PROVE  StreamInv'
<1> USE StreamFacts, ViewerFields
<1>1. viewer[v].pc = "subscribed" /\ Elsewhere BY DEF Replay, ViewerAt, Elsewhere
<1> DEFINE first == (Len(log) + 1) - Fewer(viewer[v].replay, kept)
           r == Shows(v, first, Len(log))
           none == [viewer[v] EXCEPT !.pc = "replayed"]
<1>2. first \in 1 .. Len(log) + 1 BY DEF Fewer
<1>3. \/ ViewerMoves(v, r) /\ NoTrouble
      \/ ViewerMoves(v, none) /\ Trouble
  BY DEF Replay
<1> HIDE DEF first
<1>4. troubles' \in Nat BY <1>3 DEF Trouble, NoTrouble
<1>5. CASE ViewerMoves(v, r)
  <2>1. ShownAfter(viewer[v].shown, first, Len(log)) \in ScanStatus
    BY <1>2, ShownIsStatus
  <2>2. first .. Len(log) \in SUBSET Nat BY <1>2
  <2>3. /\ r \in ViewerRecord /\ r.pc = "replayed" /\ r.seen = first .. Len(log)
        /\ r.snap = viewer[v].snap /\ r.next = viewer[v].next
    BY <2>1, <2>2 DEF Shows, ViewerRecord, ViewerPCs
  <2> HIDE DEF r
  <2>4. ShowsWhatHolds(r) BY <1>1, <2>3 DEF ShowsWhatHolds
  <2>5. r.next \in 1 .. Len(log) + 1 BY <1>1, <2>3 DEF Gapless
  <2>6. Gapless(r) BY <1>2, <2>3, <2>5 DEF Gapless
  <2> QED BY <1>1, <1>4, <1>5, <2>3, <2>4, <2>6, ViewerMoved DEF Elsewhere
<1>6. CASE ViewerMoves(v, none)
  <2>1. /\ none \in ViewerRecord /\ none.pc = "replayed" /\ none.seen = viewer[v].seen
        /\ none.snap = viewer[v].snap /\ none.next = viewer[v].next
    BY DEF ViewerRecord, ViewerPCs
  <2> HIDE DEF none
  <2>2. ShowsWhatHolds(none) BY <1>1, <2>1 DEF ShowsWhatHolds
  <2>3. Gapless(none) BY <1>1, <2>1 DEF Gapless
  <2> QED BY <1>1, <1>4, <1>6, <2>1, <2>2, <2>3, ViewerMoved DEF Elsewhere
<1> QED BY <1>3, <1>5, <1>6

LEMMA StreamOrCloseOK ==
    ASSUME StreamInv, NEW v \in Viewers, StreamOrClose(v)
    PROVE  StreamInv'
<1> USE StreamFacts, ViewerFields
<1>1. viewer[v].pc = "replayed" /\ Elsewhere /\ troubles' \in Nat
  BY DEF StreamOrClose, ViewerAt, Elsewhere
<1> DEFINE closed == [viewer[v] EXCEPT !.pc = "closed", !.shown = viewer[v].snap, !.ended = TRUE]
           goes == [viewer[v] EXCEPT !.pc = "streaming"]
<1>2. ViewerMoves(v, IF viewer[v].snap \in Final THEN closed ELSE goes)
  BY DEF StreamOrClose
<1>3. CASE viewer[v].snap \in Final
  <2>1. /\ closed \in ViewerRecord /\ closed.pc = "closed" /\ closed.seen = viewer[v].seen
        /\ closed.shown = viewer[v].snap /\ closed.next = viewer[v].next
    BY DEF ViewerRecord, ViewerPCs
  <2>2. ViewerMoves(v, closed) BY <1>2, <1>3
  <2> HIDE DEF closed
  <2>3. ShowsWhatHolds(closed) BY <1>1, <1>3, <2>1 DEF ShowsWhatHolds
  <2>4. Gapless(closed) BY <1>1, <2>1 DEF Gapless
  <2> QED BY <1>1, <2>1, <2>2, <2>3, <2>4, ViewerMoved DEF Elsewhere
<1>4. CASE viewer[v].snap \notin Final
  <2>1. /\ goes \in ViewerRecord /\ goes.pc = "streaming" /\ goes.seen = viewer[v].seen
        /\ goes.snap = viewer[v].snap /\ goes.next = viewer[v].next
    BY DEF ViewerRecord, ViewerPCs
  <2>2. ViewerMoves(v, goes) BY <1>2, <1>4
  <2> HIDE DEF goes
  <2>3. ShowsWhatHolds(goes) BY <1>1, <2>1 DEF ShowsWhatHolds
  <2>4. Gapless(goes) BY <1>1, <2>1 DEF Gapless
  <2> QED BY <1>1, <2>1, <2>2, <2>3, <2>4, ViewerMoved DEF Elsewhere
<1> QED BY <1>3, <1>4

LEMMA ForwardOK ==
    ASSUME StreamInv, NEW v \in Viewers, Forward(v)
    PROVE  StreamInv'
<1> USE StreamFacts, ViewerFields
<1> DEFINE n == viewer[v].next
           r == [viewer[v] EXCEPT
                   !.pc = IF log[n].type = "end" THEN "closed" ELSE @,
                   !.next = n + 1,
                   !.seen = @ \cup {n},
                   !.shown = Shown(@, log[n]),
                   !.ended = @ \/ log[n].type = "end"]
<1>1. /\ viewer[v].pc = "streaming" /\ n <= Len(log) /\ Elsewhere /\ troubles' \in Nat
      /\ ViewerMoves(v, r)
  BY DEF Forward, ViewerAt, Elsewhere
<1>2. n \in 1 .. Len(log) BY <1>1 DEF Gapless
<1>3. log[n] \in Event BY <1>2
<1>4. Shown(viewer[v].shown, log[n]) \in ScanStatus BY <1>3, StatusOfEvents DEF Shown
<1>5. r \in ViewerRecord
  <2>1. (viewer[v].ended \/ log[n].type = "end") \in BOOLEAN OBVIOUS
  <2>2. viewer[v].seen \cup {n} \in SUBSET Nat /\ n + 1 \in Nat OBVIOUS
  <2>3. (IF log[n].type = "end" THEN "closed" ELSE viewer[v].pc) \in ViewerPCs
    BY DEF ViewerPCs
  <2> HIDE DEF n
  <2> QED BY <1>4, <2>1, <2>2, <2>3 DEF ViewerRecord
<1>6. /\ r.pc = IF log[n].type = "end" THEN "closed" ELSE "streaming"
      /\ r.seen = viewer[v].seen \cup {n} /\ r.next = n + 1
      /\ r.snap = viewer[v].snap /\ r.shown = Shown(viewer[v].shown, log[n])
  BY <1>1 DEF ViewerRecord
<1> HIDE DEF r
<1>7. ShowsWhatHolds(r)
  <2>1. CASE log[n].type = "end"
    <3>1. log[n].status \in Final BY <1>3, <2>1, StatusOfEvents
    <3>2. Holds(log[n].status) BY <1>2, <2>1 DEF EndsHold
    <3>3. r.shown = log[n].status BY <1>6, <2>1 DEF Shown
    <3> QED BY <1>6, <2>1, <3>1, <3>2, <3>3 DEF ShowsWhatHolds
  <2>2. CASE log[n].type # "end"
    BY <1>1, <1>6, <2>2 DEF ShowsWhatHolds
  <2> QED BY <2>1, <2>2
<1>8. Gapless(r)
  <2>1. r.pc \notin {"snapped", "subscribed"} BY <1>6
  <2>2. r.next \in 1 .. Len(log) + 1 BY <1>2, <1>6
  <2>3. \A i \in viewer[v].seen : \A j \in i + 1 .. n - 1 : j \in viewer[v].seen
    BY DEF Gapless
  <2>4. \A i \in r.seen : \A j \in i + 1 .. r.next - 1 : j \in r.seen
    BY <1>2, <1>6, <2>3
  <2> QED BY <2>1, <2>2, <2>4 DEF Gapless
<1> QED BY <1>1, <1>5, <1>7, <1>8, ViewerMoved DEF Elsewhere

LEMMA StreamStepOK == StreamInv /\ [StreamNext]_streamVars => StreamInv'
<1> SUFFICES ASSUME StreamInv, [StreamNext]_streamVars PROVE StreamInv'
  OBVIOUS
<1>1. CASE ChainSteps
  BY <1>1, HeadOK, ModulesOK, CallbackOK DEF ChainSteps
<1>2. CASE TaskFails \/ ModuleAgain \/ WorkerDies \/ HeadRevoked \/ HistoryExpires
  BY <1>2, TaskFailsOK, ModulesOK, TroublesOK
<1>3. CASE CancelLoads \/ CancelSteps \/ ApiDies
  BY <1>3, CancelOK
<1>4. ASSUME NEW v \in Viewers,
             (\E n \in Replays : Connect(v, n)) \/ ServerSteps(v) \/ Disconnect(v)
      PROVE  StreamInv'
  <2>1. CASE \E n \in Replays : Connect(v, n)
    BY <2>1, ConnectOK
  <2>2. CASE Subscribe(v) \/ Disconnect(v)
    BY <2>2, SubscribesOrLeavesOK
  <2>3. CASE Replay(v) \/ StreamOrClose(v) \/ Forward(v)
    BY <2>3, ReplayOK, StreamOrCloseOK, ForwardOK
  <2> QED BY <1>4, <2>1, <2>2, <2>3 DEF ServerSteps
<1>5. CASE UNCHANGED streamVars
  BY <1>5 DEF streamVars, StreamInv, StreamTypeOK, EventsOK, EndsHold, ChainHolds, CancelHolds,
              KeptIsLogged, ViewersOK, ShowsWhatHolds, Gapless, Holds, ChainAt, Connected, ViewerAt
<1> QED BY <1>1, <1>2, <1>3, <1>4, <1>5 DEF StreamNext

LEMMA StreamInvHolds == StreamSpec => []StreamInv
  BY StreamInitOK, StreamStepOK, PTL DEF StreamSpec
-----------------------------------------------------------------------------
\* The types of the status, the chain of tasks, the log and the connections
\* (events.py, main.py and useScanStream.ts), also those the replay computes.
THEOREM StreamTypesHold == StreamSpec => []StreamTypeOK
<1>1. StreamInv => StreamTypeOK BY DEF StreamInv
<1> QED BY <1>1, StreamInvHolds, PTL

\* stream_log subscribes before it reads the history: whatever was replayed, no
\* later event is skipped.
THEOREM NothingIsSkipped == StreamSpec => []NothingLostInTheGap
<1>1. StreamInv => NothingLostInTheGap
  <2> SUFFICES ASSUME StreamInv, NEW v \in Viewers, NEW i \in viewer[v].seen,
                      NEW j \in i + 1 .. Len(log)
               PROVE  j \in viewer[v].seen \/ j >= viewer[v].next
    BY DEF NothingLostInTheGap
  <2>1. /\ viewer[v].seen \in SUBSET Nat /\ viewer[v].next \in Nat /\ Len(log) \in Nat
        /\ Gapless(viewer[v])
    BY StreamFacts, ViewerFields
  <2> QED BY <2>1 DEF Gapless
<1> QED BY <1>1, StreamInvHolds, PTL

\* The callback and cancel_scan announce after they commit, what they committed
\* or found: the stream that the server closed shows the status the row has.
THEOREM ClosedStreamsAgree == StreamSpec => []ClosedShowsTheRow
<1>1. StreamInv => ClosedShowsTheRow
  <2> SUFFICES ASSUME StreamInv, NEW v \in Viewers, ViewerAt(v, "closed")
               PROVE  viewer[v].shown = status \/ rewritten
    BY DEF ClosedShowsTheRow
  <2> QED BY ViewerFields DEF ShowsWhatHolds, Holds, ViewerAt
<1> QED BY <1>1, StreamInvHolds, PTL
-----------------------------------------------------------------------------
(* Whoever waits is owed an event.  The end of a scan is announced, or somebody *)
(* is left who will announce it, or a task raised and the scan has no end, or    *)
(* the announcement was lost (EndComes); and                                    *)
(* what a connection has delivered since it subscribed was told (Told).         *)

Announced == \E i \in 1 .. Len(log) : log[i].type = "end"

EndComes ==
    ~silent =>
        /\ status \in Final => \/ Announced \/ cancel = "committed"
                               \/ chain.pc \in ClosePCs
        /\ NobodyLeft => Announced \/ Stranded

Told(r) ==
    /\ r.pc \in {"out", "snapped", "subscribed"} => r.seen = {}
    /\ r.pc = "streaming" => r.snap \notin Final
    /\ r.pc \in {"subscribed", "replayed"} => r.next = r.from
    /\ r.pc \in {"subscribed", "replayed", "streaming"} =>
           /\ r.from \in 1 .. Len(log) + 1 /\ r.seen \subseteq 1 .. Len(log)
           /\ \A i \in r.from .. r.next - 1 : i \in r.seen
           /\ \A i \in r.seen : log[i].type = "end" => r.ended

AllTold == \A v \in Viewers : Told(viewer[v])

\* An event published is in the log from then on; an end that is not is lost.
LEMMA AnnouncedStays ==
    ASSUME StreamInv, Grown
    PROVE  Announced => Announced'
  BY StreamFacts DEF Announced, Grown

LEMMA PublishTells ==
    ASSUME StreamInv, NEW e \in Event, Publish(e)
    PROVE  /\ silent => silent'
           /\ Announced => Announced'
           /\ e.type = "end" => Announced' \/ silent'
<1>1. GrownBy(e) /\ silent' \in BOOLEAN BY Published, StreamFacts
<1>2. Announced => Announced' BY <1>1, AnnouncedStays DEF GrownBy
<1>3. silent => silent' BY DEF Publish
<1>4. ASSUME e.type = "end" PROVE Announced' \/ silent'
  <2>1. CASE log' = Append(log, e)
    <3>1. Len(log') = Len(log) + 1 /\ Len(log) \in Nat BY <2>1, StreamFacts
    <3>2. Len(log') \in 1 .. Len(log') /\ log'[Len(log')] = e
      BY <1>1, <3>1 DEF GrownBy
    <3> QED BY <1>4, <3>2 DEF Announced
  <2>2. CASE silent' = (silent \/ e.type = "end")
    BY <1>4, <2>2
  <2> QED BY <2>1, <2>2 DEF Publish
<1> QED BY <1>2, <1>3, <1>4

\* The task goes on, or is over; the cancel stays where it is.
LEMMA ChainStepTells ==
    ASSUME StreamInv, EndComes,
           ChainSteps \/ TaskFails \/ ModuleAgain \/ WorkerDies \/ HeadRevoked
    PROVE  EndComes'
<1> USE StreamFacts, ChainFields
<1>1. CASE HeadLoad
  <2>1. /\ chain.pc = "head" /\ chain'.pc \in {"over", "headLoaded"}
        /\ chain'.pc = "over" => status = "cancelled"
        /\ UNCHANGED <<status, cancel, log, silent>>
    BY <1>1 DEF HeadLoad, ChainAt, ChainRecord
  <2>2. "cancelled" \in Final BY DEF Final
  <2> QED BY <2>1, <2>2 DEF EndComes, Announced, NobodyLeft, Stranded, ChainAt, ClosePCs
<1>2. CASE HeadMark
  <2>1. /\ chain.pc = "headLoaded" /\ chain'.pc = "headMarked"
        /\ status' \in {"running", status} /\ UNCHANGED <<cancel, log, silent>>
    BY <1>2 DEF HeadMark, ChainAt, ChainRecord, WriteStatus
  <2>2. "running" \notin Final BY DEF Final
  <2> QED BY <2>1, <2>2 DEF EndComes, Announced, NobodyLeft, Stranded, ChainAt, ClosePCs
<1>3. CASE HeadDispatch \/ ModuleRuns
  <2>1. Publish(Running) /\ UNCHANGED <<status, cancel>>
    BY <1>3 DEF HeadDispatch, ModuleRuns
  <2>2. /\ silent => silent'
        /\ Announced => Announced'
    BY <2>1, PublishTells, StatusOfEvents
  <2>3. chain.pc \notin ClosePCs /\ chain'.pc \notin {"over", "failed"}
    <3>1. CASE HeadDispatch
      BY <3>1 DEF HeadDispatch, ChainAt, ChainRecord, ClosePCs
    <3>2. CASE ModuleRuns
      BY <3>2 DEF ModuleRuns, ChainAt, ChainRecord, ClosePCs
    <3> QED BY <1>3, <3>1, <3>2
  <2> QED BY <2>1, <2>2, <2>3 DEF EndComes, NobodyLeft, Stranded, ChainAt
<1>4. CASE ModuleAgain
  <2>1. Grown BY <1>4, Appended, StatusOfEvents DEF ModuleAgain, GrownBy
  <2>2. chain.pc = "module" /\ UNCHANGED <<status, chain, cancel, silent>>
    BY <1>4 DEF ModuleAgain, ChainAt
  <2>3. Announced => Announced' BY <2>1, AnnouncedStays
  <2> QED BY <2>2, <2>3 DEF EndComes, NobodyLeft, Stranded, ChainAt
<1>5. CASE CloseLoad \/ CloseCommit \/ CloseSummary
  <2>1. chain'.pc \in ClosePCs /\ chain'.pc \notin {"over", "failed"}
    BY <1>5 DEF CloseLoad, CloseCommit, CloseSummary, ChainRecord, ClosePCs
  <2> QED BY <2>1 DEF EndComes, NobodyLeft, Stranded, ChainAt
<1>6. CASE CloseEnd
  <2>1. chain.is \in Final /\ Publish(Ended(chain.is)) /\ UNCHANGED <<status, cancel>>
    BY <1>6 DEF CloseEnd, ChainAt, ChainHolds
  <2>2. Ended(chain.is) \in Event /\ Ended(chain.is).type = "end"
    BY <2>1, StatusOfEvents DEF Ended
  <2>3. Announced' \/ silent' BY <2>1, <2>2, PublishTells
  <2> QED BY <2>3 DEF EndComes, NobodyLeft, Stranded, ChainAt
<1>7. CASE WorkerDies
  <2>1. /\ UNCHANGED <<status, cancel, log, silent>> /\ chain'.pc \notin {"over", "failed"}
        /\ chain.pc \in ClosePCs => chain'.pc \in ClosePCs
    BY <1>7 DEF WorkerDies, ChainRecord, HeadPCs, ClosePCs
  <2> QED BY <2>1 DEF EndComes, Announced, NobodyLeft, Stranded, ChainAt
<1>8. CASE HeadRevoked
  <2>1. /\ UNCHANGED <<status, cancel, log>> /\ chain.pc \notin ClosePCs
        /\ silent' = (silent \/ (status \notin Final /\ cancel # "loaded"))
    BY <1>8 DEF HeadRevoked, HeadPCs, ClosePCs
  <2>2. Announced' = Announced BY <2>1 DEF Announced
  <2>3. ASSUME ~silent'
        PROVE  ~silent /\ (status \in Final \/ cancel = "loaded")
    BY <2>1, <2>3
  <2> QED BY <2>1, <2>2, <2>3 DEF EndComes, NobodyLeft, Stranded, ChainAt
<1>9. CASE TaskFails
  <2>1. chain'.pc = "failed" /\ UNCHANGED <<status, cancel>>
    BY <1>9 DEF TaskFails, ChainRecord
  <2>2. CASE chain.pc \in {"headMarked", "module"} /\ Publish(Running)
    <3>1. (silent => silent') /\ (Announced => Announced')
      BY <2>2, PublishTells, StatusOfEvents
    <3> QED BY <2>1, <2>2, <3>1 DEF EndComes, NobodyLeft, Stranded, ChainAt, ClosePCs
  <2>3. CASE /\ silent' = (silent \/ (chain.pc \in ClosePCs /\ status \in Final))
             /\ UNCHANGED log
    <3>1. Announced' = Announced BY <2>3 DEF Announced
    <3> QED BY <2>1, <2>3, <3>1 DEF EndComes, NobodyLeft, Stranded, ChainAt
  <2> QED BY <1>9, <2>2, <2>3 DEF TaskFails
<1> QED BY <1>1, <1>2, <1>3, <1>4, <1>5, <1>6, <1>7, <1>8, <1>9 DEF ChainSteps

LEMMA CancelStepTells ==
    ASSUME StreamInv, EndComes, CancelLoads \/ CancelSteps \/ ApiDies
    PROVE  EndComes'
<1> USE StreamFacts, ChainFields
<1>1. CASE CancelLoads
  <2>1. chain'.pc = chain.pc /\ status' \notin Final /\ cancel' = "loaded"
    BY <1>1 DEF CancelLoads, ChainRecord
  <2> QED BY <2>1 DEF EndComes, NobodyLeft, Stranded, ChainAt
<1>2. CASE CancelCommits
  BY <1>2 DEF CancelCommits, EndComes, NobodyLeft
<1>3. CASE CancelAnnounces
  <2>1. Publish(Ended("cancelled")) /\ Ended("cancelled").type = "end" /\ "cancelled" \in Final
    BY <1>3 DEF CancelAnnounces, Ended, Final
  <2>2. Announced' \/ silent' BY <2>1, StatusOfEvents, PublishTells
  <2> QED BY <2>2 DEF EndComes, NobodyLeft, Stranded, ChainAt
<1>4. CASE ApiDies
  BY <1>4 DEF ApiDies, EndComes
<1> QED BY <1>1, <1>2, <1>3, <1>4 DEF CancelSteps

\* The log grows while the connections stay where they are.
LEMMA StillTold ==
    ASSUME StreamInv, AllTold, Grown, UNCHANGED viewer
    PROVE  AllTold'
<1> SUFFICES ASSUME NEW v \in Viewers PROVE Told(viewer[v])'
  BY DEF AllTold
<1>1. Told(viewer[v]) /\ viewer'[v] = viewer[v] BY DEF AllTold
<1>2. /\ Len(log) \in Nat /\ Len(log') \in Nat /\ Len(log) <= Len(log')
      /\ \A i \in 1 .. Len(log) : log'[i] = log[i]
  BY StreamFacts DEF Grown
<1>3. \A i \in 1 .. Len(log) : i \in 1 .. Len(log') BY <1>2
<1>4. \A i \in 1 .. Len(log) + 1 : i \in 1 .. Len(log') + 1 BY <1>2
<1> QED BY <1>1, <1>2, <1>3, <1>4 DEF Told

\* One connection moves to a record that has told what it delivered.
LEMMA OneIsTold ==
    ASSUME StreamInv, AllTold, NEW v \in Viewers, NEW r, ViewerMoves(v, r), UNCHANGED log, Told(r)
    PROVE  AllTold'
<1>1. \A w \in Viewers : viewer'[w] = IF w = v THEN r ELSE viewer[w]
  BY StreamFacts DEF ViewerMoves
<1>2. \A w \in Viewers : Told(viewer'[w]) BY <1>1 DEF AllTold
<1> QED BY <1>2 DEF AllTold, Told

LEMMA ConnectionTells ==
    ASSUME StreamInv, AllTold, NEW v \in Viewers,
           \/ \E n \in Replays : Connect(v, n)
           \/ Subscribe(v) \/ StreamOrClose(v) \/ Disconnect(v)
    PROVE  AllTold'
<1> USE StreamFacts, ViewerFields
<1>1. Told(viewer[v]) BY DEF AllTold
<1>2. ASSUME NEW n \in Replays, Connect(v, n) PROVE AllTold'
  <2> DEFINE r == [NoViewer EXCEPT !.pc = "snapped", !.snap = status, !.replay = n, !.shown = status]
  <2>1. ViewerMoves(v, r) /\ UNCHANGED log BY <1>2 DEF Connect
  <2>2. Told(r) BY DEF Told, NoViewer
  <2> HIDE DEF r
  <2> QED BY <2>1, <2>2, OneIsTold
<1>3. CASE Subscribe(v)
  <2> DEFINE r == [viewer[v] EXCEPT !.pc = "subscribed", !.from = Len(log) + 1, !.next = Len(log) + 1]
  <2>1. ViewerMoves(v, r) /\ UNCHANGED log /\ viewer[v].pc = "snapped"
    BY <1>3 DEF Subscribe, ViewerAt
  <2>2. /\ r.pc = "subscribed" /\ r.seen = {} /\ r.from = Len(log) + 1 /\ r.next = Len(log) + 1
    BY <1>1, <2>1 DEF Told, ViewerRecord
  <2> HIDE DEF r
  <2>3. Told(r) BY <2>2 DEF Told
  <2> QED BY <2>1, <2>3, OneIsTold
<1>4. CASE StreamOrClose(v)
  <2> DEFINE closed == [viewer[v] EXCEPT !.pc = "closed", !.shown = viewer[v].snap, !.ended = TRUE]
             goes == [viewer[v] EXCEPT !.pc = "streaming"]
  <2>1. /\ ViewerMoves(v, IF viewer[v].snap \in Final THEN closed ELSE goes)
        /\ UNCHANGED log /\ viewer[v].pc = "replayed"
    BY <1>4 DEF StreamOrClose, ViewerAt
  <2>2. Told(closed) BY DEF Told, ViewerRecord
  <2>3. /\ goes.pc = "streaming" /\ goes.seen = viewer[v].seen /\ goes.from = viewer[v].from
        /\ goes.next = viewer[v].next /\ goes.snap = viewer[v].snap /\ goes.ended = viewer[v].ended
    BY DEF ViewerRecord
  <2> HIDE DEF closed, goes
  <2>4. ASSUME viewer[v].snap \notin Final PROVE Told(goes)
    BY <1>1, <2>1, <2>3, <2>4 DEF Told
  <2> QED BY <2>1, <2>2, <2>4, OneIsTold
<1>5. CASE Disconnect(v)
  <2>1. ViewerMoves(v, NoViewer) /\ UNCHANGED log BY <1>5 DEF Disconnect
  <2>2. Told(NoViewer) BY DEF Told, NoViewer
  <2> QED BY <2>1, <2>2, OneIsTold
<1> QED BY <1>2, <1>3, <1>4, <1>5

LEMMA ReplayTells ==
    ASSUME StreamInv, AllTold, NEW v \in Viewers, Replay(v)
    PROVE  AllTold'
<1> USE StreamFacts, ViewerFields
<1>1. Told(viewer[v]) /\ viewer[v].pc = "subscribed" /\ UNCHANGED log
  BY DEF AllTold, Replay, ViewerAt
<1> DEFINE first == (Len(log) + 1) - Fewer(viewer[v].replay, kept)
           r == Shows(v, first, Len(log))
           none == [viewer[v] EXCEPT !.pc = "replayed"]
<1>2. first \in 1 .. Len(log) + 1 BY DEF Fewer
<1>3. ViewerMoves(v, r) \/ ViewerMoves(v, none)
  BY DEF Replay
<1> HIDE DEF first
<1>4. Told(r)
  <2>1. /\ r.pc = "replayed" /\ r.seen = first .. Len(log) /\ r.from = viewer[v].from
        /\ r.next = viewer[v].next
        /\ r.ended = \E i \in first .. Len(log) : log[i].type = "end"
    BY DEF Shows, ViewerRecord
  <2> HIDE DEF r
  <2>2. /\ viewer[v].from \in 1 .. Len(log) + 1 /\ viewer[v].next = viewer[v].from
    BY <1>1 DEF Told
  <2>3. \A i \in r.seen : log[i].type = "end" => r.ended BY <2>1
  <2> QED BY <1>2, <2>1, <2>2, <2>3 DEF Told
<1>5. Told(none)
  <2>1. /\ none.pc = "replayed" /\ none.seen = viewer[v].seen /\ none.from = viewer[v].from
        /\ none.next = viewer[v].next /\ none.ended = viewer[v].ended
    BY DEF ViewerRecord
  <2> HIDE DEF none
  <2> QED BY <1>1, <2>1 DEF Told
<1> HIDE DEF r, none
<1> QED BY <1>1, <1>3, <1>4, <1>5, OneIsTold

LEMMA ForwardTells ==
    ASSUME StreamInv, AllTold, NEW v \in Viewers, Forward(v)
    PROVE  AllTold'
<1> USE StreamFacts, ViewerFields
<1> DEFINE n == viewer[v].next
           r == [viewer[v] EXCEPT
                   !.pc = IF log[n].type = "end" THEN "closed" ELSE @,
                   !.next = n + 1,
                   !.seen = @ \cup {n},
                   !.shown = Shown(@, log[n]),
                   !.ended = @ \/ log[n].type = "end"]
<1>1. /\ Told(viewer[v]) /\ viewer[v].pc = "streaming" /\ n <= Len(log) /\ UNCHANGED log
      /\ ViewerMoves(v, r)
  BY DEF AllTold, Forward, ViewerAt
<1>2. n \in 1 .. Len(log) BY <1>1 DEF Gapless
<1>3. /\ r.pc = IF log[n].type = "end" THEN "closed" ELSE "streaming"
      /\ r.seen = viewer[v].seen \cup {n} /\ r.next = n + 1 /\ r.from = viewer[v].from
      /\ r.snap = viewer[v].snap /\ r.ended = (viewer[v].ended \/ log[n].type = "end")
  BY <1>1 DEF ViewerRecord
<1> HIDE DEF r
<1>4. CASE log[n].type = "end"
  <2>1. r.pc = "closed" BY <1>3, <1>4
  <2>2. Told(r) BY <2>1 DEF Told
  <2> QED BY <1>1, <2>2, OneIsTold
<1>5. CASE log[n].type # "end"
  <2>1. r.pc = "streaming" BY <1>3, <1>5
  <2>2. r.from \in 1 .. Len(log) + 1 /\ r.seen \subseteq 1 .. Len(log) /\ r.snap \notin Final
    BY <1>1, <1>2, <1>3 DEF Told
  <2>3. \A i \in r.from .. r.next - 1 : i \in r.seen
    <3>1. \A i \in viewer[v].from .. n - 1 : i \in viewer[v].seen BY <1>1 DEF Told
    <3>2. viewer[v].from \in Nat BY DEF ViewerRecord
    <3> QED BY <1>2, <1>3, <3>1, <3>2
  <2>4. \A i \in r.seen : log[i].type = "end" => r.ended
    BY <1>1, <1>3, <1>5 DEF Told
  <2>5. Told(r) BY <2>1, <2>2, <2>3, <2>4 DEF Told
  <2> QED BY <1>1, <2>5, OneIsTold
<1> QED BY <1>4, <1>5

LEMMA TellingStep ==
    ASSUME StreamInv, EndComes, AllTold, [StreamNext]_streamVars
    PROVE  EndComes' /\ AllTold'
<1> USE StreamFacts
<1>1. CASE \/ ChainSteps \/ TaskFails \/ ModuleAgain \/ WorkerDies \/ HeadRevoked
            \/ CancelLoads \/ CancelSteps \/ ApiDies
  <2>1. EndComes' BY <1>1, ChainStepTells, CancelStepTells
  <2>2. Grown
    <3>1. ASSUME NEW e \in Event, Publish(e) PROVE Grown
      BY <3>1, Published DEF GrownBy
    <3>2. CASE UNCHANGED <<log, kept>>
      BY <3>2 DEF Grown
    <3>3. CASE ModuleAgain
      BY <3>3, Appended, StatusOfEvents DEF ModuleAgain, GrownBy
    <3>4. CASE CloseEnd
      <4>1. chain.is \in Final BY <3>4 DEF CloseEnd, ChainAt, ChainHolds
      <4> QED BY <3>1, <3>4, <4>1, StatusOfEvents DEF CloseEnd
    <3>5. CASE CancelAnnounces
      <4>1. "cancelled" \in Final BY DEF Final
      <4> QED BY <3>1, <3>5, <4>1, StatusOfEvents DEF CancelAnnounces
    <3>6. CASE HeadDispatch \/ ModuleRuns \/ CloseSummary
      BY <3>1, <3>6, StatusOfEvents DEF HeadDispatch, ModuleRuns, CloseSummary
    <3>7. CASE HeadLoad \/ HeadMark \/ CloseLoad \/ CloseCommit \/ WorkerDies \/ HeadRevoked
      BY <3>2, <3>7 DEF HeadLoad, HeadMark, CloseLoad, CloseCommit, WorkerDies, HeadRevoked
    <3>8. CASE CancelLoads \/ CancelCommits \/ ApiDies
      BY <3>2, <3>8 DEF CancelLoads, CancelCommits, ApiDies
    <3>9. CASE TaskFails
      BY <3>1, <3>2, <3>9, StatusOfEvents DEF TaskFails
    <3> QED BY <1>1, <3>3, <3>4, <3>5, <3>6, <3>7, <3>8, <3>9 DEF ChainSteps, CancelSteps
  <2>3. UNCHANGED viewer
    <3>1. CASE ChainSteps \/ TaskFails \/ ModuleAgain
      BY <3>1 DEF TaskFails, ChainSteps, HeadLoad, HeadMark, HeadDispatch, ModuleRuns, CloseLoad, CloseCommit,
                  CloseSummary, CloseEnd, ModuleAgain
    <3>2. CASE WorkerDies \/ HeadRevoked \/ CancelLoads \/ CancelSteps \/ ApiDies
      BY <3>2 DEF WorkerDies, HeadRevoked, CancelLoads, CancelSteps, CancelCommits, CancelAnnounces,
                  ApiDies
    <3> QED BY <1>1, <3>1, <3>2
  <2> QED BY <2>1, <2>2, <2>3, StillTold
<1>2. ASSUME UNCHANGED <<status, chain, cancel, log, silent>> PROVE EndComes'
  BY <1>2 DEF EndComes, Announced, NobodyLeft, Stranded, ChainAt
<1>3. CASE HistoryExpires
  <2>1. UNCHANGED <<status, chain, cancel, log, viewer, silent>> BY <1>3 DEF HistoryExpires
  <2> QED BY <1>2, <2>1 DEF AllTold, Told
<1>4. ASSUME NEW v \in Viewers,
             (\E n \in Replays : Connect(v, n)) \/ ServerSteps(v) \/ Disconnect(v)
      PROVE  EndComes' /\ AllTold'
  <2>1. UNCHANGED <<status, chain, cancel, log, silent>>
    BY <1>4 DEF Connect, ServerSteps, Subscribe, Replay, StreamOrClose, Forward, Disconnect
  <2> QED BY <1>2, <1>4, <2>1, ConnectionTells, ReplayTells, ForwardTells DEF ServerSteps
<1>5. CASE UNCHANGED streamVars
  BY <1>2, <1>5 DEF streamVars, AllTold, Told
<1> QED BY <1>1, <1>3, <1>4, <1>5 DEF StreamNext

\* The safety half of EveryViewerLearns: when neither the chain nor a cancel is
\* left to announce anything, a connection that has delivered every event has told
\* the end, unless a task raised and left the scan open, the end was missed before
\* the connection subscribed, or its announcement was lost.
THEOREM NobodyWaitsInVain == StreamSpec => []NobodyWaitsForNothing
<1>1. StreamInit => EndComes /\ AllTold
  BY DEF StreamInit, EndComes, AllTold, Told, NoViewer, Final, NobodyLeft
<1>2. /\ StreamInv /\ EndComes /\ AllTold /\ [StreamNext]_streamVars
      => EndComes' /\ AllTold'
  BY TellingStep
<1>3. StreamInv /\ EndComes /\ AllTold => NobodyWaitsForNothing
  <2> SUFFICES ASSUME StreamInv, EndComes, AllTold, NEW v \in Viewers,
                      ViewerAt(v, "streaming"), viewer[v].next > Len(log),
                      NobodyLeft, ~Stranded, ~silent, ~viewer[v].ended
               PROVE  Missed(v)
    BY DEF NobodyWaitsForNothing
  <2>1. PICK i \in 1 .. Len(log) : log[i].type = "end" BY DEF EndComes, Announced
  <2>2. Told(viewer[v]) /\ viewer[v].pc = "streaming" BY DEF AllTold, ViewerAt
  <2>3. i \notin viewer[v].seen BY <2>1, <2>2 DEF Told
  <2>4. /\ Len(log) \in Nat /\ viewer[v].next \in Nat /\ viewer[v].from \in Nat
    BY StreamFacts, ViewerFields
  <2>5. i \in 1 .. viewer[v].from - 1 BY <2>2, <2>3, <2>4 DEF Told
  <2> QED BY <2>1, <2>2, <2>3, <2>5 DEF Missed, Told
<1> QED BY <1>1, <1>2, <1>3, StreamInitOK, StreamStepOK, PTL DEF StreamSpec
=============================================================================
