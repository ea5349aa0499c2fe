--------------------------- MODULE Findings_proofs ---------------------------
(***************************************************************************)
(* Proofs about what is found and what becomes of it: Inventory, for any   *)
(* number of chains, rows and slips; Correlation, for any number of        *)
(* assets, scans, findings, attempts and setbacks; and Triage, for any     *)
(* number of analysts, rows and lost workers.                              *)
(*                                                                         *)
(* Inventory: what a chain that opened the port owes (an exposure, a       *)
(* finding) is still to be done by one of its modules, which finds what it *)
(* needs: the baseline its scan first captured, and the port it saw.       *)
(*                                                                         *)
(* Correlation: a finding is announced once because it is never in two     *)
(* hands: of the scans and messages at most one holds its id, and one that *)
(* holds it has not said it yet, but for the repetitions that are counted. *)
(*                                                                         *)
(* Triage: both properties excuse a commit that overwrites another's by a  *)
(* history of this row, which the next row starts afresh: a form must      *)
(* never be taken for one of the next row.  So the invariant has to know   *)
(* that the ids of rows are not used again, and that a form older than its *)
(* text was noted when it was loaded.                                      *)
(***************************************************************************)
EXTENDS Inventory, Correlation, Triage, TLAPS

(* Inventory: the invariant.  What is said of the chain that opened the port is *)
(* said of every chain, in case it is the one.                                  *)

Opened(c) == asset.open /\ opener = c

\* A chain that opened the port has come to the port scanner.
PastEnumeration(c) == Opened(c) => mods[c].pc \notin {"waiting", "enumerating", "inserting"}

\* Until its detector has ended a chain finds the baseline its scan first captured.
BaselineKept(c) ==
    Running(c) /\ c \notin blind => baseline[scanOf[c]] = said[scanOf[c]]

\* If it is executed again, the port scanner that opened the port finds it open,
\* and leaves it open only if the port answered.
ProbedOpen(c) ==
    Opened(c) => /\ ChainIs(c, "writing") => mods[c].old
                 /\ ChainIs(c, "reporting") => mods[c].open

Reported(c) ==
    Opened(c) /\ said[scanOf[c]] = "closed" =>
        \/ "exposure" \in issues \/ dismissed
        \/ WillCompare(c)
        \/ c \in blind \cup broken
        \/ mods[c].hosts = "others"

Found(c) ==
    Opened(c) =>
        \/ "service" \in issues \/ dismissed
        \/ mods[c].pc \in {"scanning", "writing", "reporting"}
        \/ c \in broken \cup left

ChainOK(c) == PastEnumeration(c) /\ BaselineKept(c) /\ ProbedOpen(c) /\ Reported(c) /\ Found(c)

OpenHasOpener == asset.open => InEstate /\ opener \in Chains

\* A chain that has not started is of a scan of its own, and no other chain is.
ScansNamed ==
    \A c \in Chains : ChainIs(c, "waiting") => \A d \in Chains : scanOf[d] = c <=> d = c

InventoryInv ==
    InventoryTypeOK /\ OpenHasOpener /\ ScansNamed /\ \A c \in Chains : ChainOK(c)
-----------------------------------------------------------------------------
(* Inventory: lemmas.                                                       *)

LEMMA FreshType ==
    ASSUME InventoryConstants, NEW pc \in ModPC, NEW hosts \in Hosts
    PROVE  /\ Fresh(pc, hosts) \in ModRecord
           /\ Fresh(pc, hosts).pc = pc /\ Fresh(pc, hosts).hosts = hosts
BY DEF InventoryConstants, Fresh, ModRecord, Snapshot

\* A move of one chain.
LEMMA ChainMoved ==
    ASSUME InventoryTypeOK, NEW c \in Chains, NEW next \in ModRecord, ChainMoves(c, next)
    PROVE  /\ mods' \in [Chains -> ModRecord]
           /\ mods'[c] = next
           /\ \A d \in Chains \ {c} : mods'[d] = mods[d]
BY DEF InventoryTypeOK, ChainMoves

LEMMA ChainFields ==
    ASSUME InventoryTypeOK, NEW c \in Chains
    PROVE  /\ mods[c] \in ModRecord /\ mods[c].pc \in ModPC /\ mods[c].hosts \in Hosts
           /\ mods[c].id \in 0 .. MaxRows /\ mods[c].old \in BOOLEAN /\ mods[c].open \in BOOLEAN
           /\ mods[c].before \in Snapshot
           /\ asset.id \in 0 .. MaxRows /\ asset.open \in BOOLEAN
           /\ SnapshotNow \in Snapshot
BY DEF InventoryTypeOK, ModRecord, AssetRow, SnapshotNow, Snapshot

\* The step of one chain as the others see it: if the port is open and theirs
\* after it, so it was before.
StillTheirs(d) ==
    Opened(d)' => /\ Opened(d) /\ asset'.id = asset.id
                  /\ dismissed' \/ (issues \subseteq issues' /\ dismissed' = dismissed)

Widens == blind \subseteq blind' /\ broken \subseteq broken' /\ left \subseteq left'

LEMMA OthersOK ==
    ASSUME NEW d \in Chains, ChainOK(d), StillTheirs(d), Widens,
           mods'[d] = mods[d], scanOf'[d] = scanOf[d], said'[scanOf[d]] = said[scanOf[d]],
           Running(d) => d \in blind' \/ baseline'[scanOf[d]] = baseline[scanOf[d]]
    PROVE  ChainOK(d)'
<1>1. PastEnumeration(d)' /\ BaselineKept(d)' /\ ProbedOpen(d)'
    BY DEF ChainOK, StillTheirs, Widens, PastEnumeration, BaselineKept, ProbedOpen, ChainIs, Running
<1>2. Reported(d)'
    <2>1. SUFFICES ASSUME Opened(d)', said[scanOf[d]] = "closed" PROVE Reported(d)'
        BY DEF Reported
    <2>2. Opened(d) /\ asset'.id = asset.id /\ Reported(d)
        BY <2>1 DEF StillTheirs, ChainOK
    <2>3. WillCompare(d) => WillCompare(d)'
        BY <2>2 DEF WillCompare, Newly, ChainIs
    <2>4. QED
        BY <2>1, <2>2, <2>3 DEF Reported, StillTheirs, Widens
<1>3. Found(d)'
    BY DEF ChainOK, StillTheirs, Widens, Found
<1>4. QED
    BY <1>1, <1>2, <1>3 DEF ChainOK

\* A step of one chain, which does not go back to the beginning.
LEMMA ScansNamedOK ==
    ASSUME InventoryInv, NEW c \in Chains, UNCHANGED scanOf, mods'[c].pc # "waiting",
           \A d \in Chains \ {c} : mods'[d] = mods[d]
    PROVE  ScansNamed'
BY DEF InventoryInv, ScansNamed, ChainIs

\* What a step that leaves the row alone has to show.
LEMMA ChainQuietOK ==
    ASSUME InventoryInv, NEW c \in Chains, NEW next \in ModRecord, ChainMoves(c, next),
           next.pc # "waiting",
           UNCHANGED <<asset, rowsUsed, scanOf, opener, dismissed>>,
           issues \subseteq issues', issues' \subseteq Issues,
           baseline' \in [Chains -> Snapshot \cup {"none"}], said' \in [Chains -> Snapshot \cup {"none"}],
           \A d \in Chains \ {c} :
               /\ said'[scanOf[d]] = said[scanOf[d]]
               /\ Running(d) => d \in blind' \/ baseline'[scanOf[d]] = baseline[scanOf[d]],
           slips' \in Nat,
           Widens, blind' \subseteq Chains, broken' \subseteq Chains, left' \subseteq Chains,
           ChainOK(c)'
    PROVE  InventoryInv'
<1>1. /\ mods' \in [Chains -> ModRecord]
      /\ \A d \in Chains \ {c} : mods'[d] = mods[d]
    BY ChainMoved DEF InventoryInv
<1>2. InventoryTypeOK'
    BY <1>1 DEF InventoryInv, InventoryTypeOK
<1>3. OpenHasOpener'
    BY DEF InventoryInv, OpenHasOpener, InEstate
<1>4. ASSUME NEW d \in Chains \ {c}
      PROVE  ChainOK(d)'
    BY <1>1, <1>4, OthersOK DEF InventoryInv, StillTheirs, Opened
<1>5. ScansNamed'
    BY <1>1, ChainMoved, ScansNamedOK DEF InventoryInv
<1>6. QED
    BY <1>2, <1>3, <1>4, <1>5 DEF InventoryInv

LEMMA SlipType == ASSUME InventoryTypeOK, Slip \/ NoSlip PROVE slips' \in Nat
BY DEF InventoryTypeOK, Slip, NoSlip

\* A new row.
LEMMA InsertsType ==
    ASSUME InventoryConstants, InventoryTypeOK, NEW open \in BOOLEAN, Inserts(open)
    PROVE  /\ rowsUsed' \in 0 .. MaxRows /\ asset' \in AssetRow
           /\ asset'.id # 0 /\ asset'.open = open /\ ~InEstate
           /\ issues' = {} /\ dismissed' = FALSE
BY DEF InventoryConstants, InventoryTypeOK, Inserts, AssetRow

LEMMA InventoryInitOK == InventoryConstants /\ InventoryInit => InventoryInv
<1> SUFFICES ASSUME InventoryConstants, InventoryInit PROVE InventoryInv
    OBVIOUS
<1>1. Fresh("waiting", "named") \in ModRecord /\ Fresh("waiting", "named").pc = "waiting"
    BY FreshType DEF ModPC, Hosts
<1>2. InventoryTypeOK
    <2>1. mods \in [Chains -> ModRecord]
        BY <1>1 DEF InventoryInit
    <2>2. asset \in AssetRow /\ rowsUsed \in 0 .. MaxRows
        BY DEF InventoryInit, InventoryConstants, NoAsset, AssetRow
    <2>3. QED
        BY <2>1, <2>2 DEF InventoryInit, InventoryTypeOK
<1>3. ~asset.open
    BY DEF InventoryInit, NoAsset
<1>4. OpenHasOpener
    BY <1>3 DEF OpenHasOpener
<1>5. ASSUME NEW c \in Chains
      PROVE  ChainOK(c)
    BY <1>1, <1>3 DEF InventoryInit, ChainOK, Opened, PastEnumeration, BaselineKept, ProbedOpen, Reported, Found,
        Running
<1>6. ScansNamed
    BY DEF InventoryInit, ScansNamed
<1>7. QED
    BY <1>2, <1>4, <1>5, <1>6 DEF InventoryInv
-----------------------------------------------------------------------------
(* Inventory: the steps of the modules.                                     *)

LEMMA CaptureOK ==
    ASSUME InventoryConstants, InventoryInv, NEW c \in Chains, Capture(c)
    PROVE  InventoryInv'
<1> DEFINE next == Fresh("enumerating", mods[c].hosts)
<1>1. /\ InventoryTypeOK /\ mods[c].hosts \in Hosts /\ SnapshotNow \in Snapshot
      /\ next \in ModRecord /\ next.pc = "enumerating"
    BY ChainFields, FreshType DEF InventoryInv, ModPC
<1>2. /\ ChainMoves(c, next) /\ mods[c].pc = "waiting"
      /\ said' = [said EXCEPT ![c] = SnapshotNow]
      /\ \/ baseline' = [baseline EXCEPT ![c] = SnapshotNow] /\ NoSlip /\ UNCHANGED blind
         \/ UNCHANGED baseline /\ Slip /\ blind' = blind \cup {c}
      /\ UNCHANGED <<asset, rowsUsed, issues, scanOf, opener, broken, left, dismissed>>
    BY DEF Capture, Captures, ChainIs, Advances
<1> HIDE DEF next
<1>3. mods'[c] = next
    BY <1>1, <1>2, ChainMoved
<1>4. /\ baseline' \in [Chains -> Snapshot \cup {"none"}] /\ said' \in [Chains -> Snapshot \cup {"none"}]
      /\ baseline'[c] = said'[c] \/ c \in blind'
      /\ slips' \in Nat /\ Widens /\ blind' \subseteq Chains
      /\ scanOf[c] = c
      /\ \A d \in Chains \ {c} : scanOf[d] \in Chains \ {c}
    BY <1>1, <1>2, SlipType DEF InventoryTypeOK, Widens, InventoryInv, ScansNamed, ChainIs
<1>5. ~Opened(c)'
    BY <1>2 DEF InventoryInv, ChainOK, PastEnumeration, Opened
<1>6. ChainOK(c)'
    BY <1>1, <1>2, <1>3, <1>4, <1>5 DEF ChainOK, PastEnumeration, BaselineKept, ProbedOpen, Reported, Found
<1>7. \A d \in Chains \ {c} : /\ said'[scanOf[d]] = said[scanOf[d]]
                             /\ baseline'[scanOf[d]] = baseline[scanOf[d]]
    BY <1>1, <1>2, <1>4 DEF InventoryTypeOK
<1>8. QED
    BY <1>1, <1>2, <1>4, <1>6, <1>7, ChainQuietOK DEF InventoryTypeOK, InventoryInv

\* A task is executed again after it has published the next one: chain d starts.
LEMMA RepeatsOK ==
    ASSUME InventoryConstants, InventoryInv, NEW c \in Chains, NEW d \in Chains,
           Recapture(c, d) \/ HandOverAgain(c, d)
    PROVE  InventoryInv'
<1>1. /\ InventoryTypeOK /\ SnapshotNow \in Snapshot /\ slips' \in Nat
      /\ mods[c].pc \in ModPC /\ mods[d].hosts \in Hosts /\ ScansNamed /\ OpenHasOpener
      /\ \A e \in Chains : ChainOK(e)
    BY ChainFields, SlipType DEF InventoryInv, Recapture, HandOverAgain, Repeats
<1>2. /\ mods[c].pc # "waiting" /\ mods[d].pc = "waiting" /\ d # c
      /\ scanOf' = [scanOf EXCEPT ![d] = scanOf[c]]
      /\ blind' = IF baseline'[scanOf[c]] = said[scanOf[c]] THEN blind
                  ELSE blind \cup {d} \cup {e \in Chains : scanOf[e] = scanOf[c]}
      /\ UNCHANGED <<asset, rowsUsed, issues, opener, said, broken, left, dismissed>>
    BY DEF Recapture, HandOverAgain, Repeats, ChainIs
<1>3. baseline' = [baseline EXCEPT ![scanOf[c]] = SnapshotNow] \/ UNCHANGED baseline
    BY DEF Recapture, HandOverAgain, Captures
<1>4. PICK next \in ModRecord : ChainMoves(d, next) /\ next.pc # "waiting"
    <2>1. CASE Recapture(c, d)
        BY <1>1, <2>1, FreshType DEF Recapture, Advances, ModPC
    <2>2. CASE HandOverAgain(c, d)
        <3>1. PICK pc \in HandedOver(mods[c].pc), hosts \in Hosts : ChainMoves(d, Fresh(pc, hosts))
            BY <2>2 DEF HandOverAgain
        <3>2. pc \in {"enumerating", "scanning", "tracing", "detecting"}
            BY <1>1 DEF HandedOver, ModPC
        <3>3. QED
            BY <3>1, <3>2, FreshType DEF ModPC
    <2>3. QED
        BY <2>1, <2>2
<1>5. /\ mods' \in [Chains -> ModRecord] /\ mods'[d] = next
      /\ \A e \in Chains \ {d} : mods'[e] = mods[e] /\ scanOf'[e] = scanOf[e]
      /\ scanOf' \in [Chains -> Chains] /\ scanOf'[d] = scanOf[c] /\ scanOf[c] \in Chains
      /\ baseline' \in [Chains -> Snapshot \cup {"none"}]
      /\ blind' \subseteq Chains /\ Widens
    BY <1>1, <1>2, <1>3, <1>4, ChainMoved DEF InventoryTypeOK, Widens
<1>6. InventoryTypeOK' /\ OpenHasOpener'
    BY <1>1, <1>2, <1>5 DEF InventoryTypeOK, OpenHasOpener, InEstate
<1>7. ScansNamed'
    BY <1>1, <1>2, <1>4, <1>5 DEF ScansNamed, ChainIs
<1>8. ASSUME NEW e \in Chains
      PROVE  e \in blind' \/ baseline'[scanOf'[e]] = said[scanOf'[e]] \/
             (e # d /\ baseline'[scanOf[e]] = baseline[scanOf[e]])
    BY <1>1, <1>2, <1>3, <1>5 DEF InventoryTypeOK
<1>9. ChainOK(d)'
    <2>1. ~Opened(d)'
        BY <1>1, <1>2 DEF ChainOK, PastEnumeration, Opened
    <2>2. BaselineKept(d)'
        BY <1>2, <1>8 DEF BaselineKept
    <2>3. QED
        BY <2>1, <2>2 DEF ChainOK, PastEnumeration, ProbedOpen, Reported, Found
<1>10. ASSUME NEW e \in Chains \ {d}
       PROVE  ChainOK(e)'
    <2>1. BaselineKept(e)'
        BY <1>1, <1>2, <1>5, <1>8 DEF BaselineKept, ChainOK, Widens, Running
    <2>2. PastEnumeration(e)' /\ ProbedOpen(e)' /\ Reported(e)' /\ Found(e)'
        BY <1>1, <1>2, <1>5 DEF ChainOK, PastEnumeration, ProbedOpen, Reported, Found, Opened, ChainIs,
            WillCompare, Newly, Widens
    <2>3. QED
        BY <2>1, <2>2 DEF ChainOK
<1>11. QED
    BY <1>6, <1>7, <1>9, <1>10 DEF InventoryInv

\* Steps that change nothing but where a chain is.
Places(c, next) ==
    /\ ChainMoves(c, next)
    /\ UNCHANGED <<asset, rowsUsed, issues, scanOf, opener, dismissed, said, baseline>>
    /\ slips' \in Nat
    /\ Widens /\ blind' \subseteq Chains /\ broken' \subseteq Chains /\ left' \subseteq Chains

LEMMA PlacesOK ==
    ASSUME InventoryInv, NEW c \in Chains, NEW next \in ModRecord, Places(c, next),
           Running(c) \/ next.pc \in {"over", "failed"},
           next.pc # "waiting",
           Opened(c) =>
              /\ next.pc \notin {"enumerating", "inserting"}
              /\ next.pc = "writing" => next.old
              /\ next.pc = "reporting" => next.open
              /\ Reported(c)' /\ Found(c)'
    PROVE  InventoryInv'
<1>1. mods'[c] = next /\ Opened(c)' = Opened(c) /\ InventoryTypeOK
    BY ChainMoved DEF Places, Opened, InventoryInv
<1>2. ChainOK(c)'
    <2>1. PastEnumeration(c)' /\ ProbedOpen(c)' /\ Reported(c)' /\ Found(c)'
        BY <1>1 DEF PastEnumeration, ProbedOpen, Reported, Found, ChainIs
    <2>2. BaselineKept(c)'
        BY <1>1 DEF BaselineKept, Places, Widens, InventoryInv, ChainOK, Running
    <2>3. QED
        BY <2>1, <2>2 DEF ChainOK
<1>3. QED
    BY <1>1, <1>2, ChainQuietOK DEF Places, InventoryTypeOK

\* subdomain_enum, and the host that the port scanner does not come to.
LEMMA EnumerateOK ==
    ASSUME InventoryConstants, InventoryInv, NEW c \in Chains,
           (\E hosts \in Hosts : Resolve(c, hosts)) \/ PassBy(c) \/ SkipUnsafe(c)
    PROVE  InventoryInv'
<1>1. InventoryTypeOK /\ mods[c].hosts \in Hosts /\ asset.id \in 0 .. MaxRows
    BY ChainFields DEF InventoryInv
<1>2. ASSUME NEW hosts \in Hosts, Resolve(c, hosts)
      PROVE  InventoryInv'
    <2> DEFINE pc == IF hosts = "named" THEN "inserting" ELSE "scanning"
               next == [Fresh(pc, hosts) EXCEPT !.id = IF hosts = "named" THEN asset.id ELSE 0]
    <2>1. pc \in ModPC
        BY DEF ModPC
    <2>2. next \in ModRecord /\ next.pc \in {"inserting", "scanning"}
        BY <1>1, <2>1, FreshType DEF ModRecord
    <2>3. Places(c, next) /\ mods[c].pc = "enumerating"
        BY <1>1, <1>2 DEF Resolve, Places, ChainIs, Widens, InventoryTypeOK
    <2>4. ~Opened(c)
        BY <2>3 DEF InventoryInv, ChainOK, PastEnumeration
    <2> HIDE DEF next
    <2>5. QED
        BY <2>2, <2>3, <2>4, PlacesOK DEF Running
<1>3. ASSUME PassBy(c) \/ SkipUnsafe(c)
      PROVE  InventoryInv'
    <2>1. PICK hosts \in Hosts : ChainMoves(c, Fresh("tracing", hosts))
        BY <1>1, <1>3 DEF PassBy, SkipUnsafe, Advances, Hosts
    <2> DEFINE next == Fresh("tracing", hosts)
    <2>2. next \in ModRecord /\ next.pc = "tracing"
        BY FreshType DEF ModPC
    <2> HIDE DEF next
    <2>3. Places(c, next) /\ mods[c].pc = "scanning" /\ (Opened(c) => c \in left')
        BY <1>1, <1>3, <2>1 DEF PassBy, SkipUnsafe, Places, ChainIs, LeavesOut, Opened, Widens,
            InventoryTypeOK, next
    <2>4. mods'[c] = next
        BY <1>1, <2>2, <2>3, ChainMoved DEF Places
    <2>5. WillCompare(c)'
        BY <2>2, <2>4 DEF WillCompare
    <2>6. Reported(c)' /\ Found(c)'
        BY <2>3, <2>5 DEF Reported, Found, Opened, Places
    <2>7. QED
        BY <2>2, <2>3, <2>6, PlacesOK DEF Running
<1>4. QED
    BY <1>2, <1>3

\* The probe, the trace, and the comparison of the detector.
LEMMA LooksOK ==
    ASSUME InventoryConstants, InventoryInv, NEW c \in Chains,
           \/ \E open \in BOOLEAN : Probe(c, open)
           \/ Trace(c) \/ Detect(c) \/ DetectUnread(c)
    PROVE  InventoryInv'
<1>1. /\ InventoryTypeOK /\ mods[c].hosts \in Hosts /\ ChainOK(c)
      /\ asset.id \in 0 .. MaxRows /\ asset.open \in BOOLEAN
    BY ChainFields DEF InventoryInv
<1>2. ASSUME NEW open \in BOOLEAN, Probe(c, open)
      PROVE  InventoryInv'
    <2> DEFINE next == [Fresh("writing", "named") EXCEPT !.id = asset.id, !.old = asset.open, !.open = open]
    <2>1. Fresh("writing", "named") \in ModRecord /\ Fresh("writing", "named").pc = "writing"
        BY FreshType DEF ModPC, Hosts
    <2>2. next \in ModRecord /\ next.pc = "writing" /\ next.old = asset.open
        BY <1>1, <2>1 DEF ModRecord
    <2>3. Places(c, next) /\ mods[c].pc = "scanning"
        BY <1>1, <1>2 DEF Probe, Places, ChainIs, Widens, InventoryTypeOK
    <2> HIDE DEF next
    <2>4. mods'[c] = next
        BY <1>1, <2>2, <2>3, ChainMoved DEF Places
    <2>5. Reported(c)' /\ Found(c)'
        BY <2>2, <2>4 DEF Reported, Found, WillCompare
    <2>6. QED
        BY <2>2, <2>3, <2>5, PlacesOK DEF Opened, Running
<1>3. ASSUME Trace(c)
      PROVE  InventoryInv'
    <2>1. PICK next \in ModRecord : ChainMoves(c, next) /\ next.pc \in {"detecting", "judging"}
        <3>1. /\ Fresh("detecting", mods[c].hosts) \in ModRecord
              /\ Fresh("detecting", mods[c].hosts).pc = "detecting"
              /\ Fresh("judging", mods[c].hosts) \in ModRecord
              /\ Fresh("judging", mods[c].hosts).pc = "judging"
            BY <1>1, FreshType DEF ModPC
        <3>2. /\ [Fresh("judging", mods[c].hosts) EXCEPT !.id = asset.id] \in ModRecord
              /\ [Fresh("judging", mods[c].hosts) EXCEPT !.id = asset.id].pc = "judging"
            BY <1>1, <3>1 DEF ModRecord
        <3>3. QED
            BY <1>3, <3>1, <3>2 DEF Trace, Advances
    <2>2. Places(c, next) /\ mods[c].pc = "tracing"
        BY <1>1, <1>3, <2>1 DEF Trace, Places, ChainIs, Widens, InventoryTypeOK
    <2>3. mods'[c] = next
        BY <1>1, <2>1, ChainMoved
    <2>4. Reported(c)'
        BY <2>1, <2>3 DEF Reported, WillCompare
    <2>5. Opened(c) => Found(c)'
        BY <1>1, <2>2 DEF ChainOK, Found, Places, Widens
    <2>6. QED
        BY <2>1, <2>2, <2>4, <2>5, PlacesOK DEF Running
<1>4. ASSUME NEW before \in Snapshot, ChainIs(c, "detecting"), Places(c, Comparing(c, before)),
             said[scanOf[c]] = "closed" => before = "closed" \/ c \in blind'
      PROVE  InventoryInv'
    <2> DEFINE next == Comparing(c, before)
    <2>1. Fresh("comparing", mods[c].hosts) \in ModRecord /\ Fresh("comparing", mods[c].hosts).pc = "comparing"
          /\ Fresh("comparing", mods[c].hosts).hosts = mods[c].hosts
        BY <1>1, FreshType DEF ModPC
    <2>2. /\ next \in ModRecord /\ next.pc = "comparing" /\ next.id = asset.id
          /\ next.old = asset.open /\ next.before = before /\ next.hosts = mods[c].hosts
        BY <1>1, <1>4, <2>1 DEF Comparing, ModRecord
    <2> HIDE DEF next
    <2>3. mods'[c] = next
        BY <1>1, <1>4, <2>2, ChainMoved DEF Places, next
    <2>4. Opened(c) => Reported(c)'
        BY <1>4, <2>2, <2>3 DEF InventoryInv, OpenHasOpener, InEstate, Opened, Reported, WillCompare, Newly,
            ChainIs, Places
    <2>5. Opened(c) => Found(c)'
        BY <1>1, <1>4 DEF ChainOK, Found, Places, Widens, ChainIs
    <2>6. QED
        BY <1>4, <2>2, <2>4, <2>5, PlacesOK DEF ChainIs, Running, next
<1>5. ASSUME Detect(c)
      PROVE  InventoryInv'
    <2> DEFINE before == BaselineOf(c)
    <2>1. before \in Snapshot
        BY <1>1 DEF InventoryTypeOK, Snapshot, BaselineOf
    <2>2. Places(c, Comparing(c, before)) /\ ChainIs(c, "detecting")
        BY <1>1, <1>5 DEF Detect, Places, Widens, InventoryTypeOK
    <2>3. c \notin blind => baseline[scanOf[c]] = said[scanOf[c]]
        BY <1>1, <2>2 DEF ChainOK, BaselineKept, ChainIs, Running
    <2>4. said[scanOf[c]] = "closed" => before = "closed" \/ c \in blind'
        BY <2>2, <2>3 DEF Places, Widens, BaselineOf
    <2>5. QED
        BY <1>4, <2>1, <2>2, <2>4
<1>6. ASSUME DetectUnread(c)
      PROVE  InventoryInv'
    <2>1. "absent" \in Snapshot /\ slips' \in Nat
        BY <1>1, <1>6, SlipType DEF Snapshot, DetectUnread
    <2>2. Places(c, Comparing(c, "absent")) /\ ChainIs(c, "detecting") /\ c \in blind'
        BY <1>1, <1>6, <2>1 DEF DetectUnread, Places, Widens, InventoryTypeOK
    <2>3. QED
        BY <1>4, <2>1, <2>2
<1>7. QED
    BY <1>2, <1>3, <1>5, <1>6

\* The end of a chain, exceptions, and modules executed again.
LEMMA ChainEndsOK ==
    ASSUME InventoryConstants, InventoryInv, NEW c \in Chains,
           CloseDiff(c) \/ ConflictRaises(c) \/ ModuleRaises(c) \/ ModuleLost(c)
    PROVE  InventoryInv'
<1>1. InventoryTypeOK /\ mods[c].hosts \in Hosts /\ ChainOK(c) /\ mods[c].pc \in ModPC
    BY ChainFields DEF InventoryInv
<1>2. ASSUME CloseDiff(c)
      PROVE  InventoryInv'
    <2> DEFINE next == Fresh("over", mods[c].hosts)
    <2>1. next \in ModRecord /\ next.pc = "over" /\ next.hosts = mods[c].hosts
        BY <1>1, FreshType DEF ModPC
    <2>2. /\ ChainMoves(c, next) /\ mods[c].pc = "closing" /\ slips' \in Nat
          /\ UNCHANGED <<asset, rowsUsed, issues, scanOf, opener, said, broken, left, dismissed>>
          /\ \/ /\ baseline' = [baseline EXCEPT ![scanOf[c]] = "none"]
                /\ blind' = blind \cup {d \in Chains \ {c} : scanOf[d] = scanOf[c] /\ Running(d)}
             \/ UNCHANGED <<baseline, blind>>
        BY <1>1, <1>2, SlipType DEF CloseDiff, ChainIs, Advances, Deletes
    <2> HIDE DEF next
    <2>3. mods'[c] = next
        BY <1>1, <2>1, <2>2, ChainMoved
    <2>4. /\ baseline' \in [Chains -> Snapshot \cup {"none"}]
          /\ \A d \in Chains \ {c} : Running(d) => d \in blind' \/ baseline'[scanOf[d]] = baseline[scanOf[d]]
          /\ blind \subseteq blind' /\ blind' \subseteq Chains
        BY <1>1, <2>2 DEF InventoryTypeOK
    <2>5. ChainOK(c)'
        BY <1>1, <2>1, <2>2, <2>3, <2>4 DEF ChainOK, PastEnumeration, BaselineKept, ProbedOpen, Reported, Found,
            Opened, ChainIs, WillCompare, Running
    <2>6. QED
        BY <1>1, <2>1, <2>2, <2>4, <2>5, ChainQuietOK DEF InventoryTypeOK, Widens
<1>3. ASSUME ConflictRaises(c) \/ ModuleRaises(c)
      PROVE  InventoryInv'
    <2> DEFINE next == Fresh("failed", mods[c].hosts)
    <2>1. next \in ModRecord /\ next.pc = "failed"
        BY <1>1, FreshType DEF ModPC
    <2>2. Raised(c) /\ slips' \in Nat
        BY <1>1, <1>3, SlipType DEF ConflictRaises, ModuleRaises
    <2>3. Places(c, next) /\ c \in broken'
        BY <1>1, <2>2 DEF Raised, Advances, Places, Widens, InventoryTypeOK
    <2>4. Reported(c)' /\ Found(c)'
        BY <2>3 DEF Reported, Found
    <2>5. QED
        BY <2>1, <2>3, <2>4, PlacesOK DEF Running
<1>4. ASSUME ModuleLost(c)
      PROVE  InventoryInv'
    <2> DEFINE next == Fresh(Entry(mods[c].pc), mods[c].hosts)
    <2>1. /\ mods[c].pc \in {"inserting", "writing", "reporting", "judging", "comparing", "closing"}
          /\ ChainMoves(c, next) /\ slips' \in Nat
          /\ UNCHANGED <<asset, rowsUsed, issues, baseline, scanOf, opener, said, blind, broken, left, dismissed>>
        BY <1>1, <1>4, SlipType DEF ModuleLost, Advances
    <2>2. Entry(mods[c].pc) = CASE mods[c].pc = "inserting" -> "enumerating"
                                [] mods[c].pc \in {"writing", "reporting"} -> "scanning"
                                [] mods[c].pc = "judging" -> "tracing"
                                [] mods[c].pc \in {"comparing", "closing"} -> "detecting"
        BY <2>1 DEF Entry
    <2>3. /\ Entry(mods[c].pc) \in {"enumerating", "scanning", "tracing", "detecting"}
          /\ Entry(mods[c].pc) = "enumerating" <=> mods[c].pc = "inserting"
          /\ Entry(mods[c].pc) = "scanning" <=> mods[c].pc \in {"writing", "reporting"}
        BY <2>1, <2>2
    <2>4. next \in ModRecord /\ next.pc = Entry(mods[c].pc)
        BY <1>1, <2>3, FreshType DEF ModPC
    <2> HIDE DEF next
    <2>5. Places(c, next) /\ mods'[c] = next
        BY <1>1, <2>1, <2>4, ChainMoved DEF Places, Widens, InventoryTypeOK
    <2>6. Opened(c) => Entry(mods[c].pc) # "enumerating"
        BY <1>1, <2>3 DEF ChainOK, PastEnumeration
    <2>7. Opened(c) => Reported(c)'
        BY <2>3, <2>4, <2>5, <2>6 DEF Reported, WillCompare
    <2>8. Opened(c) => Found(c)'
        BY <1>1, <2>1, <2>3, <2>4, <2>5 DEF ChainOK, Found, Opened
    <2>9. QED
        BY <2>1, <2>3, <2>4, <2>5, <2>6, <2>7, <2>8, PlacesOK DEF Running
<1>5. QED
    BY <1>2, <1>3, <1>4

\* Findings are recorded in a transaction of their own.
LEMMA RecordsOK ==
    ASSUME InventoryConstants, InventoryInv, NEW c \in Chains,
           ReportPorts(c) \/ Judge(c) \/ ReportExposure(c)
    PROVE  InventoryInv'
<1>1. /\ InventoryTypeOK /\ mods[c].hosts \in Hosts /\ ChainOK(c)
      /\ mods[c].open \in BOOLEAN
    BY ChainFields DEF InventoryInv
<1>2. PICK pc \in {"tracing", "detecting", "closing"} :
          /\ Advances(c, pc)
          /\ pc = "tracing" => ChainIs(c, "reporting") /\ (mods[c].open => "service" \in issues')
          /\ pc = "detecting" => ChainIs(c, "judging")
          /\ pc = "closing" => ChainIs(c, "comparing") /\ (Newly(c) => "exposure" \in issues')
    BY DEF ReportPorts, Judge, ReportExposure
<1> DEFINE next == Fresh(pc, mods[c].hosts)
<1>3. next \in ModRecord /\ next.pc = pc /\ next.hosts = mods[c].hosts
    BY <1>1, FreshType DEF ModPC
<1>4. ChainMoves(c, next)
    BY <1>2 DEF Advances
<1>5. /\ issues \subseteq issues' /\ issues' \subseteq Issues
      /\ UNCHANGED <<asset, rowsUsed, baseline, scanOf, slips, opener, said, blind, broken, left, dismissed>>
    BY <1>1 DEF ReportPorts, Judge, ReportExposure, Issues, InventoryTypeOK
<1> HIDE DEF next
<1>6. mods'[c] = next
    BY <1>1, <1>3, <1>4, ChainMoved
<1>7. PastEnumeration(c)' /\ BaselineKept(c)' /\ ProbedOpen(c)'
    BY <1>1, <1>2, <1>3, <1>5, <1>6 DEF ChainOK, PastEnumeration, BaselineKept, ProbedOpen, Opened, ChainIs,
        Running
<1>8. Reported(c)'
    <2>1. CASE pc = "closing"
        <3>1. /\ Reported(c) /\ mods[c].pc = "comparing" /\ (Newly(c) => "exposure" \in issues')
              /\ mods'[c].hosts = mods[c].hosts /\ Opened(c)' = Opened(c)
            BY <1>1, <1>2, <1>3, <1>5, <1>6, <2>1 DEF ChainOK, ChainIs, Opened
        <3>2. QED
            BY <1>5, <3>1 DEF Reported, WillCompare
    <2>2. CASE pc # "closing"
        BY <1>2, <1>3, <1>6, <2>2 DEF Reported, WillCompare
    <2>3. QED
        BY <2>1, <2>2
<1>9. Found(c)'
    <2>1. Opened(c)' = Opened(c) /\ Found(c) /\ ProbedOpen(c)
        BY <1>1, <1>5 DEF Opened, ChainOK
    <2>2. CASE pc = "tracing"
        BY <1>2, <2>1, <2>2 DEF Found, ProbedOpen, ChainIs
    <2>3. CASE pc # "tracing"
        BY <1>2, <1>5, <2>1, <2>3 DEF Found, ChainIs
    <2>4. QED
        BY <2>2, <2>3
<1>10. ChainOK(c)'
    BY <1>7, <1>8, <1>9 DEF ChainOK
<1>11. QED
    BY <1>1, <1>3, <1>4, <1>5, <1>10, ChainQuietOK DEF InventoryTypeOK, Widens

\* A chain that writes the row.
LEMMA WritesOK ==
    ASSUME InventoryConstants, InventoryInv, NEW c \in Chains, Persist(c) \/ WritePorts(c)
    PROVE  InventoryInv'
<1>1. /\ InventoryTypeOK /\ mods[c] \in ModRecord /\ mods[c].hosts \in Hosts /\ ChainOK(c)
      /\ mods[c].open \in BOOLEAN /\ mods[c].old \in BOOLEAN
      /\ asset \in AssetRow /\ asset.id \in 0 .. MaxRows /\ asset.open \in BOOLEAN
      /\ OpenHasOpener
    BY ChainFields DEF InventoryInv, InventoryTypeOK
<1>2. UNCHANGED <<baseline, scanOf, slips, said, blind, broken, left>>
    BY DEF Persist, WritePorts
\* The row after the step.
<1>3. /\ asset' \in AssetRow /\ asset'.id \in 0 .. MaxRows
      /\ rowsUsed' \in 0 .. MaxRows /\ issues' \subseteq Issues /\ dismissed' \in BOOLEAN
      /\ opener' \in Chains \cup {"nobody"}
      /\ InEstate => asset'.id = asset.id /\ issues' = issues /\ dismissed' = dismissed
      /\ asset'.id # 0
    <2>1. CASE InEstate
        BY <1>1, <2>1 DEF Persist, WritePorts, InEstate, Opens, AssetRow, InventoryTypeOK
    <2>2. CASE ~InEstate
        <3>1. PICK open \in BOOLEAN : Inserts(open)
            BY <1>1, <2>2 DEF Persist, WritePorts
        <3>2. opener' \in Chains \cup {"nobody"}
            BY <2>2 DEF Persist, WritePorts
        <3>3. QED
            BY <1>1, <2>2, <3>1, <3>2, InsertsType DEF AssetRow
    <2>3. QED
        BY <2>1, <2>2
<1>4. ASSUME NEW d \in Chains \ {c}
      PROVE  StillTheirs(d)
    <2>1. CASE InEstate
        <3>1. Opened(d)' => Opened(d)
            BY <1>1, <1>4, <2>1 DEF Persist, WritePorts, InEstate, Opens, Opened, AssetRow
        <3>2. QED
            BY <1>3, <2>1, <3>1 DEF StillTheirs
    <2>2. CASE ~InEstate
        <3>1. PICK open \in BOOLEAN : Inserts(open) /\ (open => opener' = c)
            BY <1>1, <2>2 DEF Persist, WritePorts
        <3>2. QED
            BY <1>1, <1>4, <3>1, InsertsType DEF StillTheirs, Opened
    <2>3. QED
        BY <2>1, <2>2
<1>5. OpenHasOpener'
    <2>1. asset'.open => opener' \in Chains
        <3>1. CASE InEstate
            BY <1>1, <3>1 DEF Persist, WritePorts, Opens, OpenHasOpener, AssetRow
        <3>2. CASE ~InEstate
            <4>1. PICK open \in BOOLEAN : Inserts(open) /\ (open => opener' = c)
                BY <1>1, <3>2 DEF Persist, WritePorts
            <4>2. QED
                BY <1>1, <4>1, InsertsType
        <3>3. QED
            BY <3>1, <3>2
    <2>2. QED
        BY <1>3, <2>1 DEF OpenHasOpener, InEstate
<1>6. PICK next \in ModRecord :
          /\ ChainMoves(c, next)
          /\ \/ mods[c].pc = "inserting" /\ next.pc = "scanning" /\ ~Opened(c)'
             \/ /\ mods[c].pc = "writing" /\ next.pc = "reporting" /\ next.open = mods[c].open
                /\ Opened(c)' => mods[c].open
    <2>1. CASE Persist(c)
        <3>1. Fresh("scanning", mods[c].hosts) \in ModRecord /\ Fresh("scanning", mods[c].hosts).pc = "scanning"
            BY <1>1, FreshType DEF ModPC
        <3>2. ChainMoves(c, Fresh("scanning", mods[c].hosts)) /\ mods[c].pc = "inserting"
            BY <2>1 DEF Persist, Advances, ChainIs
        <3>3. ~Opened(c)'
            <4>1. CASE InEstate
                BY <1>1, <2>1, <3>2, <4>1 DEF Persist, Opened, ChainOK, PastEnumeration
            <4>2. CASE ~InEstate
                BY <1>1, <2>1, <4>2, InsertsType DEF Persist, Opened
            <4>3. QED
                BY <4>1, <4>2
        <3>4. QED
            BY <3>1, <3>2, <3>3
    <2>2. CASE WritePorts(c)
        <3> DEFINE next == [mods[c] EXCEPT !.pc = "reporting", !.id = asset'.id]
        <3>1. ChainMoves(c, next) /\ mods[c].pc = "writing"
            BY <2>2 DEF WritePorts, ChainIs
        <3>2. next \in ModRecord /\ next.pc = "reporting" /\ next.open = mods[c].open
            BY <1>1, <1>3 DEF ModRecord, ModPC, AssetRow
        <3>3. Opened(c)' => mods[c].open
            <4>1. CASE InEstate
                <5>1. asset'.open = mods[c].open \/ (mods[c].open = mods[c].old /\ asset' = asset)
                    BY <1>1, <2>2, <4>1 DEF WritePorts, AssetRow
                <5>2. opener' = IF asset'.open /\ ~asset.open THEN c ELSE opener
                    BY <2>2, <4>1 DEF WritePorts, Opens
                <5>3. Opened(c) => mods[c].old
                    BY <1>1, <3>1 DEF ChainOK, ProbedOpen, ChainIs
                <5>4. QED
                    BY <1>1, <5>1, <5>2, <5>3 DEF Opened
            <4>2. CASE ~InEstate
                BY <1>1, <2>2, <4>2, InsertsType DEF WritePorts, Opened
            <4>3. QED
                BY <4>1, <4>2
        <3>4. QED
            BY <3>1, <3>2, <3>3
    <2>3. QED
        BY <2>1, <2>2
<1>7. /\ mods' \in [Chains -> ModRecord] /\ mods'[c] = next
      /\ \A d \in Chains \ {c} : mods'[d] = mods[d]
    BY <1>1, <1>6, ChainMoved
<1>8. ChainOK(c)'
    BY <1>1, <1>2, <1>6, <1>7 DEF ChainOK, PastEnumeration, BaselineKept, ProbedOpen, Reported, Found,
        WillCompare, ChainIs, Running
<1>9. ASSUME NEW d \in Chains \ {c}
      PROVE  ChainOK(d)'
    BY <1>2, <1>4, <1>7, <1>9, OthersOK DEF InventoryInv, Widens
<1>10. InventoryTypeOK'
    BY <1>1, <1>2, <1>3, <1>7 DEF InventoryTypeOK
<1>11. ScansNamed'
    BY <1>2, <1>6, <1>7, ScansNamedOK
<1>12. QED
    BY <1>5, <1>8, <1>9, <1>10, <1>11 DEF InventoryInv

\* The analysts.
LEMMA AnalystsOK ==
    ASSUME InventoryConstants, InventoryInv,
           CreateAsset \/ DeleteAsset \/ \E i \in Issues : DeleteIssue(i)
    PROVE  InventoryInv'
<1>1. InventoryTypeOK /\ OpenHasOpener /\ NoAsset \in AssetRow /\ ~NoAsset.open
    BY DEF InventoryInv, NoAsset, AssetRow, InventoryConstants
<1>2. UNCHANGED <<mods, slips, baseline, scanOf, said, blind, broken, left>>
    BY DEF CreateAsset, DeleteAsset, DeleteIssue
<1>3. /\ asset' \in AssetRow /\ rowsUsed' \in 0 .. MaxRows /\ issues' \subseteq Issues
      /\ dismissed' \in BOOLEAN /\ opener' \in Chains \cup {"nobody"}
      /\ \/ ~asset'.open
         \/ asset' = asset /\ opener' = opener /\ dismissed'
    BY <1>1, InsertsType DEF CreateAsset, DeleteAsset, DeleteIssue, InventoryTypeOK
<1>4. InventoryTypeOK'
    BY <1>1, <1>2, <1>3 DEF InventoryTypeOK
<1>5. OpenHasOpener'
    BY <1>1, <1>3 DEF OpenHasOpener, InEstate
<1>6. ASSUME NEW d \in Chains
      PROVE  ChainOK(d)'
    <2>1. StillTheirs(d)
        BY <1>3 DEF StillTheirs, Opened
    <2>2. QED
        BY <1>2, <2>1, OthersOK DEF InventoryInv, Widens
<1>7. ScansNamed'
    BY <1>2 DEF InventoryInv, ScansNamed, ChainIs
<1>8. QED
    BY <1>4, <1>5, <1>6, <1>7 DEF InventoryInv

LEMMA InventoryStepOK == InventoryConstants /\ InventoryInv /\ [InventoryNext]_inventoryVars => InventoryInv'
<1> SUFFICES ASSUME InventoryConstants, InventoryInv, [InventoryNext]_inventoryVars
             PROVE  InventoryInv'
    OBVIOUS
<1>1. CASE UNCHANGED inventoryVars
    <2>1. UNCHANGED <<asset, rowsUsed, issues, baseline, scanOf, mods, slips, opener, said, blind, broken, left,
                      dismissed>>
        BY <1>1 DEF inventoryVars
    <2>2. InventoryTypeOK' /\ OpenHasOpener' /\ ScansNamed'
        BY <2>1 DEF InventoryInv, InventoryTypeOK, OpenHasOpener, InEstate, ScansNamed, ChainIs
    <2>3. ASSUME NEW c \in Chains
          PROVE  ChainOK(c)'
        BY <2>1, OthersOK DEF InventoryInv, StillTheirs, Opened, Widens
    <2>4. QED
        BY <2>2, <2>3 DEF InventoryInv
<1>2. CASE InventoryNext
    BY <1>2, CaptureOK, RepeatsOK, EnumerateOK, LooksOK, ChainEndsOK, RecordsOK, WritesOK, AnalystsOK
    DEF InventoryNext, ModuleSteps
<1>3. QED
    BY <1>1, <1>2

LEMMA InventoryInvHolds == InventorySpec => []InventoryInv
<1>1. InventoryConstants
    BY InventoryConstants
<1>2. QED
    BY <1>1, InventoryInitOK, InventoryStepOK, PTL DEF InventorySpec

\* A port that a scan found open, and that its baseline had as closed, is reported
\* as a new exposure or has its detector still to come, with any number of scans
\* overlapping and any number of lost workers, assets deleted and created again.
\* The exceptions are named: its chain failed; the baseline could not be used, was
\* captured again after a change, or was deleted first by another chain that
\* run_pipeline or a module, executed again, had started for the same scan; or the
\* host was dropped from the list (change_detector, capture_baseline).
THEOREM NewExposureIsReported == InventorySpec => []ExposureReported
<1>1. InventoryInv => ExposureReported
    <2> SUFFICES ASSUME InventoryInv, asset.open, said[scanOf[opener]] = "closed"
                 PROVE  \/ "exposure" \in issues \/ dismissed
                        \/ WillCompare(opener)
                        \/ opener \in blind \cup broken
                        \/ mods[opener].hosts = "others"
        BY DEF ExposureReported
    <2>1. opener \in Chains
        BY DEF InventoryInv, OpenHasOpener
    <2>2. QED
        BY <2>1 DEF InventoryInv, ChainOK, Reported, Opened
<1>2. QED
    BY <1>1, InventoryInvHolds, PTL

\* An open sensitive port has its finding once the port scanner that wrote it has
\* ended, also if it was executed again, or another scan wrote the same ports in
\* between (port_scanner).
THEOREM OpenPortIsFound == InventorySpec => []OpenPortHasFinding
<1>1. InventoryInv => OpenPortHasFinding
    <2> SUFFICES ASSUME InventoryInv, asset.open PROVE Found(opener)
        BY DEF OpenPortHasFinding, Found, Opened
    <2>1. opener \in Chains
        BY DEF InventoryInv, OpenHasOpener
    <2>2. QED
        BY <2>1 DEF InventoryInv, ChainOK
<1>2. QED
    BY <1>1, InventoryInvHolds, PTL
-----------------------------------------------------------------------------
(* Correlation.                                                              *)

\* A finding that is held, by a scan or a message, exists and was not said yet.
Unsaid(ids) == ids \subseteq 1 .. births /\ \A id \in ids : posted[id] <= repeated[id]

HoldersOK ==
    /\ \A r \in Runs : Unsaid(crun[r].fresh)
    /\ \A n \in notices : Unsaid(n.ids)

\* It is held by one of them.
OneHolder ==
    /\ \A r, s \in Runs : r # s => crun[r].fresh \cap crun[s].fresh = {}
    /\ \A n, m \in notices : n # m => n.ids \cap m.ids = {}
    /\ \A r \in Runs, n \in notices : crun[r].fresh \cap n.ids = {}

\* Nobody speaks of findings that are still to be inserted.
BirthsOK ==
    /\ \A a \in Assets : found[a] <= births
    /\ \A id \in FindingIds : id > births => posted[id] = 0

\* A scan that has not started holds nothing.
QueuedHoldsNothing == \A r \in Runs : RunAt(r, "queued") => crun[r].fresh = {}

CorrelationInv ==
    /\ CorrelationTypeOK /\ BirthsOK /\ QueuedHoldsNothing
    /\ HoldersOK /\ OneHolder
    /\ AnnouncedOnce /\ NoBirthUnannounced
-----------------------------------------------------------------------------
(* Lemmas.                                                                   *)

LEMMA CorrelationInitOK == CorrelationConstants /\ CorrelationInit => CorrelationInv
<1> SUFFICES ASSUME CorrelationConstants, CorrelationInit
             PROVE  CorrelationInv
    OBVIOUS
<1>1. Unstarted \in RunRecord
    BY DEF Unstarted, RunRecord, RunPC
<1>2. CorrelationTypeOK
    BY <1>1 DEF CorrelationConstants, CorrelationInit, CorrelationTypeOK
<1>3. BirthsOK /\ HoldersOK /\ OneHolder /\ QueuedHoldsNothing
    BY DEF CorrelationInit, BirthsOK, HoldersOK, OneHolder, QueuedHoldsNothing, Unsaid, Unstarted
<1>4. AnnouncedOnce /\ NoBirthUnannounced
    BY DEF CorrelationConstants, CorrelationInit, AnnouncedOnce, NoBirthUnannounced
<1>5. QED
    BY <1>2, <1>3, <1>4 DEF CorrelationInv

\* A move of one scan.
LEMMA RunMoved ==
    ASSUME CorrelationTypeOK, NEW r \in Runs, NEW next \in RunRecord, RunMoves(r, next)
    PROVE  /\ crun' \in [Runs -> RunRecord]
           /\ crun'[r] = next
           /\ \A s \in Runs \ {r} : crun'[s] = crun[s]
BY DEF CorrelationTypeOK, RunMoves

\* Announcements that are given up.
LEMMA GivenUpOK ==
    ASSUME CorrelationTypeOK, NEW ids \in SUBSET FindingIds, NEW why \in Reason, GivenUp(ids, why)
    PROVE  /\ unsaid' \subseteq FindingIds \X Reason
           /\ unsaid \subseteq unsaid'
           /\ \A id \in ids : <<id, why>> \in unsaid'
BY DEF CorrelationTypeOK, GivenUp

\* Counting one more for some findings.
LEMMA MoreOK ==
    ASSUME NEW counts \in [FindingIds -> Nat], NEW ids
    PROVE  /\ More(counts, ids) \in [FindingIds -> Nat]
           /\ \A id \in FindingIds :
                More(counts, ids)[id] = IF id \in ids THEN counts[id] + 1 ELSE counts[id]
BY DEF More

\* A step that moves no finding from one hand to another.
Quiet ==
    /\ crun' \in [Runs -> RunRecord]
    /\ \A r \in Runs : crun'[r].fresh = crun[r].fresh
    /\ UNCHANGED <<births, notices, posted, repeated, unsaid>>

LEMMA QuietOK ==
    ASSUME CorrelationInv, Quiet
    PROVE  HoldersOK' /\ OneHolder' /\ AnnouncedOnce' /\ NoBirthUnannounced'
<1>1. HoldersOK'
    BY DEF CorrelationInv, Quiet, HoldersOK, Unsaid
<1>2. OneHolder'
    BY DEF CorrelationInv, Quiet, OneHolder
<1>3. AnnouncedOnce' /\ NoBirthUnannounced'
    BY DEF CorrelationInv, Quiet, AnnouncedOnce, NoBirthUnannounced
<1>4. QED
    BY <1>1, <1>2, <1>3
-----------------------------------------------------------------------------
(* The correlator.                                                           *)

\* The stages that collect nothing new.
LEMMA StagesOK ==
    ASSUME CorrelationConstants, CorrelationInv, NEW r \in Runs,
           LoadAssets(r) \/ FromCache(r) \/ AskNvd(r) \/ CancelSeen(r) \/ Attached(r) \/ Enrich(r)
    PROVE  CorrelationInv'
<1> USE DEF CorrelationInv
<1>1. crun[r] \in RunRecord
    BY DEF CorrelationTypeOK
<1>2. PICK next \in RunRecord :
            RunMoves(r, next) /\ next.fresh = crun[r].fresh /\ next.pc # "queued"
    <2>1. CASE LoadAssets(r)
        <3>1. [Unstarted EXCEPT !.pc = "looking", !.todo = present] \in RunRecord
            BY DEF Unstarted, RunRecord, RunPC, CorrelationTypeOK
        <3>2. crun[r].fresh = {}
            BY <2>1 DEF LoadAssets, QueuedHoldsNothing
        <3>3. QED
            BY <2>1, <3>1, <3>2 DEF LoadAssets, Unstarted
    <2>2. CASE FromCache(r) \/ AskNvd(r) \/ CancelSeen(r)
        <3>1. PICK knows \in BOOLEAN : Looked(r, knows)
            BY <2>2 DEF FromCache, AskNvd, CancelSeen
        <3>2. /\ [crun[r] EXCEPT !.pc = "attaching", !.knows = knows] \in RunRecord
              /\ [crun[r] EXCEPT !.pc = "attaching", !.knows = knows].fresh = crun[r].fresh
              /\ [crun[r] EXCEPT !.pc = "attaching", !.knows = knows].pc = "attaching"
            BY <1>1 DEF RunRecord, RunPC
        <3>3. QED
            BY <3>1, <3>2 DEF Looked
    <2>3. CASE Attached(r)
        <3>1. /\ [crun[r] EXCEPT !.pc = "enriching", !.todo = {}] \in RunRecord
              /\ [crun[r] EXCEPT !.pc = "enriching", !.todo = {}].fresh = crun[r].fresh
              /\ [crun[r] EXCEPT !.pc = "enriching", !.todo = {}].pc = "enriching"
            BY <1>1 DEF RunRecord, RunPC
        <3>2. QED
            BY <2>3, <3>1 DEF Attached
    <2>4. CASE Enrich(r)
        <3>1. /\ [crun[r] EXCEPT !.pc = "alerting"] \in RunRecord
              /\ [crun[r] EXCEPT !.pc = "alerting"].fresh = crun[r].fresh
              /\ [crun[r] EXCEPT !.pc = "alerting"].pc = "alerting"
            BY <1>1 DEF RunRecord, RunPC
        <3>2. QED
            BY <2>4, <3>1 DEF Enrich
    <2>5. QED
        BY <2>1, <2>2, <2>3, <2>4
<1>3. /\ crun' \in [Runs -> RunRecord] /\ crun'[r] = next
      /\ \A s \in Runs \ {r} : crun'[s] = crun[s]
    BY <1>2, RunMoved
<1>4. UNCHANGED <<present, found, births, notices, posted, repeated, unsaid>>
    BY DEF LoadAssets, FromCache, AskNvd, CancelSeen, Attached, Enrich
<1>5. cache' \in Answer \cup {"none"} /\ setbacks' \in Nat
    <2>1. cache' \in Answer \cup {"none", cache}
        BY DEF LoadAssets, FromCache, AskNvd, CancelSeen, Attached, Enrich, Answer
    <2>2. UNCHANGED setbacks \/ Setback
        BY DEF LoadAssets, FromCache, AskNvd, CancelSeen, Attached, Enrich, NoSetback
    <2>3. QED
        BY <2>1, <2>2 DEF Setback, CorrelationTypeOK
<1>6. Quiet
    BY <1>2, <1>3, <1>4 DEF Quiet
<1>7. CorrelationTypeOK' /\ BirthsOK'
    BY <1>3, <1>4, <1>5 DEF CorrelationTypeOK, BirthsOK
<1>8. QueuedHoldsNothing'
    BY <1>2, <1>3 DEF QueuedHoldsNothing, RunAt
<1>9. QED
    BY <1>6, <1>7, <1>8, QuietOK

\* The transaction that inserts a finding, or finds it there.
LEMMA AttachOK ==
    ASSUME CorrelationConstants, CorrelationInv, NEW r \in Runs, NEW a \in Assets, Attach(r, a)
    PROVE  CorrelationInv'
<1> DEFINE id == IF found[a] = 0 THEN births + 1 ELSE found[a]
           fresh == IF found[a] = 0 THEN {id} ELSE {}
           next == [crun[r] EXCEPT !.todo = @ \ {a}, !.fresh = @ \cup fresh]
<1> USE DEF CorrelationInv
<1>1. /\ RunAt(r, "attaching") /\ id \in FindingIds
      /\ found' = [found EXCEPT ![a] = id]
      /\ births' = IF id > births THEN id ELSE births
      /\ RunMoves(r, next)
      /\ UNCHANGED <<cache, present, notices, posted, repeated, unsaid, setbacks>>
    BY DEF Attach, Upserts
<1>2. crun[r] \in RunRecord /\ births \in 0 .. MaxBirths /\ found[a] \in 0 .. MaxBirths
    BY DEF CorrelationTypeOK
<1>3. fresh \subseteq FindingIds
    BY <1>1
<1> HIDE DEF fresh
<1>4. next \in RunRecord /\ next.fresh = crun[r].fresh \cup fresh /\ next.pc = "attaching"
    BY <1>1, <1>2, <1>3 DEF RunRecord, RunAt
<1> HIDE DEF next
<1>5. /\ crun' \in [Runs -> RunRecord] /\ crun'[r] = next
      /\ \A s \in Runs \ {r} : crun'[s] = crun[s]
    BY <1>1, <1>4, RunMoved
<1>6. births' \in births .. MaxBirths /\ id <= births'
    BY <1>1, <1>2 DEF FindingIds, CorrelationConstants
<1>7. CorrelationTypeOK'
    <2>1. found' \in [Assets -> 0 .. MaxBirths]
        BY <1>1 DEF CorrelationTypeOK, FindingIds
    <2>2. births' \in 0 .. MaxBirths
        BY <1>2, <1>6 DEF CorrelationConstants
    <2>3. QED
        BY <1>1, <1>5, <2>1, <2>2 DEF CorrelationTypeOK
<1>8. BirthsOK'
    <2>1. \A b \in Assets : found'[b] <= births'
        BY <1>1, <1>2, <1>6 DEF BirthsOK, CorrelationTypeOK, CorrelationConstants
    <2>2. \A i \in FindingIds : i > births' => posted'[i] = 0
        BY <1>1, <1>2, <1>6 DEF BirthsOK, FindingIds, CorrelationConstants
    <2>3. QED
        BY <2>1, <2>2 DEF BirthsOK
<1>9. QueuedHoldsNothing'
    BY <1>4, <1>5 DEF QueuedHoldsNothing, RunAt
<1>10. CASE found[a] # 0
    <2>1. fresh = {} /\ births' = births
        BY <1>1, <1>2, <1>10 DEF fresh, BirthsOK, CorrelationConstants
    <2>2. Quiet
        BY <1>1, <1>4, <1>5, <2>1 DEF Quiet
    <2>3. QED
        BY <1>7, <1>8, <1>9, <2>2, QuietOK
<1>11. CASE found[a] = 0
    <2>1. /\ fresh = {births + 1} /\ births' = births + 1 /\ births + 1 \in FindingIds
          /\ births \in Nat
        BY <1>1, <1>2, <1>11 DEF fresh, CorrelationConstants
    <2>2. posted[births + 1] = 0 /\ posted[births + 1] <= repeated[births + 1]
        BY <1>2, <2>1 DEF BirthsOK, CorrelationTypeOK
    <2>3. \A ids : Unsaid(ids) => Unsaid(ids)' /\ births + 1 \notin ids
        BY <1>1, <1>2, <2>1 DEF Unsaid
    <2>4. Unsaid(crun[r].fresh)'
        BY <1>1, <1>4, <1>5, <2>1, <2>2 DEF HoldersOK, Unsaid
    <2>5. HoldersOK'
        <3>1. ASSUME NEW s \in Runs, s # r
              PROVE  Unsaid(crun[s].fresh)'
            BY <1>1, <1>5, <2>1, <3>1 DEF HoldersOK, Unsaid
        <3>2. ASSUME NEW n \in notices
              PROVE  n.ids \subseteq 1 .. births' /\ \A i \in n.ids : posted'[i] <= repeated'[i]
            BY <1>1, <2>1 DEF HoldersOK, Unsaid
        <3>3. QED
            BY <1>1, <2>4, <3>1, <3>2 DEF HoldersOK, Unsaid
    <2>6. OneHolder'
        BY <1>1, <1>4, <1>5, <2>1, <2>3 DEF OneHolder, HoldersOK
    <2>7. AnnouncedOnce'
        BY <1>1 DEF AnnouncedOnce
    <2>8. NoBirthUnannounced'
        <3>1. births + 1 \in crun'[r].fresh
            BY <1>4, <1>5, <2>1
        <3>2. \A i \in 1 .. births' : i # births + 1 => i \in 1 .. births
            BY <1>2, <2>1
        <3>3. QED
            BY <1>1, <1>4, <1>5, <3>1, <3>2 DEF NoBirthUnannounced
    <2>9. QED
        BY <1>7, <1>8, <1>9, <2>5, <2>6, <2>7, <2>8
<1>12. QED
    BY <1>10, <1>11
\* A scan that ends, or starts again, and gives up what it held.
LEMMA DropOK ==
    ASSUME CorrelationConstants, CorrelationInv, NEW r \in Runs, NEW why \in Reason, NEW pc \in RunPC,
           RunMoves(r, [Unstarted EXCEPT !.pc = pc]), GivenUp(crun[r].fresh, why),
           UNCHANGED <<cache, present, found, births, notices, posted, repeated>>,
           setbacks' \in Nat
    PROVE  CorrelationInv'
<1> USE DEF CorrelationInv
<1>1. /\ [Unstarted EXCEPT !.pc = pc] \in RunRecord
      /\ [Unstarted EXCEPT !.pc = pc].fresh = {}
    BY DEF Unstarted, RunRecord
<1>2. /\ crun' \in [Runs -> RunRecord] /\ crun'[r].fresh = {}
      /\ \A s \in Runs \ {r} : crun'[s] = crun[s]
    BY <1>1, RunMoved
<1>3. crun[r].fresh \in SUBSET FindingIds
    BY DEF CorrelationTypeOK, RunRecord
<1>4. /\ unsaid' \subseteq FindingIds \X Reason /\ unsaid \subseteq unsaid'
      /\ \A id \in crun[r].fresh : <<id, why>> \in unsaid'
    BY <1>3, GivenUpOK
<1>5. CorrelationTypeOK' /\ BirthsOK' /\ AnnouncedOnce'
    BY <1>2, <1>4 DEF CorrelationTypeOK, BirthsOK, AnnouncedOnce
<1>6. QueuedHoldsNothing'
    BY <1>2 DEF QueuedHoldsNothing, RunAt
<1>7. HoldersOK'
    BY <1>2 DEF HoldersOK, Unsaid
<1>8. OneHolder'
    BY <1>2 DEF OneHolder
<1>9. NoBirthUnannounced'
    BY <1>2, <1>4 DEF NoBirthUnannounced
<1>10. QED
    BY <1>5, <1>6, <1>7, <1>8, <1>9

\* A scan that hands what it holds to the notifier, whatever it thinks of it.
LEMMA SendOK ==
    ASSUME CorrelationConstants, CorrelationInv, NEW r \in Runs,
           RunMoves(r, [Unstarted EXCEPT !.pc = "done"]),
           notices' = notices \cup {[ids |-> crun[r].fresh, attempt |-> 1]},
           unsaid' \subseteq FindingIds \X Reason, unsaid \subseteq unsaid',
           UNCHANGED <<cache, present, found, births, posted, repeated>>,
           setbacks' \in Nat
    PROVE  CorrelationInv'
<1> DEFINE message == [ids |-> crun[r].fresh, attempt |-> 1]
<1> USE DEF CorrelationInv
<1>1. /\ [Unstarted EXCEPT !.pc = "done"] \in RunRecord
      /\ [Unstarted EXCEPT !.pc = "done"].fresh = {}
    BY DEF Unstarted, RunRecord, RunPC
<1>2. /\ crun' \in [Runs -> RunRecord] /\ crun'[r].fresh = {}
      /\ \A s \in Runs \ {r} : crun'[s] = crun[s]
    BY <1>1, RunMoved
<1>3. message \in Notice /\ message.ids = crun[r].fresh
    BY DEF CorrelationTypeOK, CorrelationConstants, RunRecord, Notice
<1>4. notices' = notices \cup {message}
    OBVIOUS
<1> HIDE DEF message
<1>5. CorrelationTypeOK' /\ BirthsOK' /\ AnnouncedOnce'
    BY <1>2, <1>3, <1>4 DEF CorrelationTypeOK, BirthsOK, AnnouncedOnce
<1>6. QueuedHoldsNothing'
    BY <1>2 DEF QueuedHoldsNothing, RunAt
<1>7. HoldersOK'
    BY <1>2, <1>3, <1>4 DEF HoldersOK, Unsaid
<1>8. OneHolder'
    BY <1>2, <1>3, <1>4 DEF OneHolder
<1>9. NoBirthUnannounced'
    BY <1>2, <1>3, <1>4 DEF NoBirthUnannounced
<1>10. QED
    BY <1>5, <1>6, <1>7, <1>8, <1>9

\* The ends of a scan.
LEMMA EndsOK ==
    ASSUME CorrelationConstants, CorrelationInv, NEW r \in Runs,
           \/ \E a \in Assets : AttachRaises(r, a)
           \/ StageRaises(r) \/ AlertSent(r) \/ AlertRaises(r) \/ RunnerLost(r)
    PROVE  CorrelationInv'
<1>1. /\ setbacks \in Nat
      /\ unsaid \subseteq FindingIds \X Reason
      /\ crun[r].fresh \in SUBSET FindingIds
    BY DEF CorrelationInv, CorrelationTypeOK, RunRecord
<1>2. CASE StageRaises(r) \/ \E a \in Assets : AttachRaises(r, a)
    <2>1. Raises(r) /\ setbacks' \in Nat
        BY <1>1, <1>2 DEF StageRaises, AttachRaises, Setback, NoSetback
    <2>2. "task failed" \in Reason /\ "failed" \in RunPC
        BY DEF Reason, RunPC
    <2>3. QED
        BY <2>1, <2>2, DropOK DEF Raises
<1>3. CASE RunnerLost(r)
    <2>1. "worker lost" \in Reason /\ "queued" \in RunPC
        BY DEF Reason, RunPC
    <2>2. Unstarted = [Unstarted EXCEPT !.pc = "queued"]
        BY DEF Unstarted
    <2>3. setbacks' \in Nat
        <3>1. Setback
            BY <1>3 DEF RunnerLost
        <3>2. QED
            BY <1>1, <3>1 DEF Setback
    <2>4. RunMoves(r, [Unstarted EXCEPT !.pc = "queued"])
        BY <1>3, <2>2 DEF RunnerLost
    <2>5. QED
        BY <1>3, <2>1, <2>3, <2>4, DropOK DEF RunnerLost
<1>4. CASE AlertSent(r) /\ crun[r].fresh # {}
    BY <1>1, <1>4, SendOK DEF AlertSent
<1>5. CASE AlertSent(r) /\ crun[r].fresh = {}
    <2>1. GivenUp(crun[r].fresh, "task failed")
        <3>1. {<<id, "task failed">> : id \in crun[r].fresh} = {}
            BY <1>5
        <3>2. QED
            BY <1>5, <3>1 DEF AlertSent, GivenUp
    <2>2. "task failed" \in Reason /\ "done" \in RunPC
        BY DEF Reason, RunPC
    <2>3. QED
        BY <1>1, <1>5, <2>1, <2>2, DropOK DEF AlertSent
<1>6. CASE AlertRaises(r)
    <2>1. setbacks' \in Nat /\ "not queued" \in Reason /\ "done" \in RunPC
        <3>1. Setback
            BY <1>6 DEF AlertRaises
        <3>2. setbacks' \in Nat
            BY <1>1, <3>1 DEF Setback
        <3>3. QED
            BY <3>2 DEF Reason, RunPC
    <2>2. /\ GivenUp(crun[r].fresh, "not queued")
          /\ RunMoves(r, [Unstarted EXCEPT !.pc = "done"])
          /\ UNCHANGED <<cache, present, found, births, posted, repeated>>
        BY <1>6 DEF AlertRaises
    <2>3. unsaid' \subseteq FindingIds \X Reason /\ unsaid \subseteq unsaid'
        BY <1>1, <2>1, <2>2, GivenUpOK DEF CorrelationInv
    <2>4. CASE UNCHANGED notices
        BY <2>1, <2>2, <2>4, DropOK
    <2>5. CASE notices' = notices \cup {[ids |-> crun[r].fresh, attempt |-> 1]}
        BY <2>1, <2>2, <2>3, <2>5, SendOK
    <2>6. QED
        BY <1>6, <2>4, <2>5 DEF AlertRaises
<1>7. QED
    BY <1>2, <1>3, <1>4, <1>5, <1>6
-----------------------------------------------------------------------------
(* The notifier.                                                             *)

\* A message is taken away, or replaced by its next attempt; what it says is said
\* once more, or repeated, or given up.
Handled(n, next) ==
    /\ next \subseteq Notice
    /\ \A m \in next : m.ids = n.ids
    /\ \A m, k \in next : m = k
    /\ notices' = (notices \ {n}) \cup next
    /\ posted' \in [FindingIds -> Nat] /\ repeated' \in [FindingIds -> Nat]
    /\ \A id \in FindingIds \ n.ids : posted'[id] = posted[id] /\ repeated'[id] = repeated[id]
    /\ \A id \in n.ids : /\ posted'[id] >= posted[id]
                         /\ posted'[id] <= 1 + repeated'[id]
                         /\ next # {} => posted'[id] <= repeated'[id]
    /\ unsaid' \subseteq FindingIds \X Reason /\ unsaid \subseteq unsaid'
    /\ next = {} => \A id \in n.ids : \/ posted'[id] > 0
                                      \/ \E why \in Reason : <<id, why>> \in unsaid'
    /\ UNCHANGED <<cache, present, found, births, crun>>
    /\ setbacks' \in Nat

LEMMA NoticeOK ==
    ASSUME CorrelationConstants, CorrelationInv, NEW n \in notices, NEW next, Handled(n, next)
    PROVE  CorrelationInv'
<1> USE DEF CorrelationInv, Handled
<1>1. /\ births \in 0 .. MaxBirths /\ MaxBirths \in Nat
      /\ \A id \in 1 .. births : id \in FindingIds
      /\ Unsaid(n.ids) /\ n.ids \subseteq FindingIds
    BY DEF CorrelationConstants, CorrelationTypeOK, HoldersOK, FindingIds, Notice
<1>2. CorrelationTypeOK'
    BY DEF CorrelationTypeOK
<1>3. BirthsOK'
    <2>1. \A id \in FindingIds : id > births => id \notin n.ids
        BY <1>1 DEF Unsaid
    <2>2. QED
        BY <2>1 DEF BirthsOK
<1>4. QueuedHoldsNothing'
    BY DEF QueuedHoldsNothing, RunAt
<1>5. AnnouncedOnce'
    BY DEF AnnouncedOnce
<1>6. HoldersOK'
    <2>1. ASSUME NEW r \in Runs, NEW id \in crun[r].fresh
          PROVE  id \in 1 .. births /\ posted'[id] <= repeated'[id]
        <3>1. id \in 1 .. births /\ posted[id] <= repeated[id] /\ id \notin n.ids
            BY DEF HoldersOK, OneHolder, Unsaid
        <3>2. QED
            BY <1>1, <3>1
    <2>2. ASSUME NEW m \in notices \ {n}, NEW id \in m.ids
          PROVE  id \in 1 .. births /\ posted'[id] <= repeated'[id]
        <3>1. id \in 1 .. births /\ posted[id] <= repeated[id] /\ id \notin n.ids
            BY DEF HoldersOK, OneHolder, Unsaid
        <3>2. QED
            BY <1>1, <3>1
    <2>3. ASSUME NEW m \in next, NEW id \in m.ids
          PROVE  id \in 1 .. births /\ posted'[id] <= repeated'[id]
        BY <1>1 DEF Unsaid
    <2>4. QED
        BY <2>1, <2>2, <2>3 DEF HoldersOK, Unsaid
<1>7. OneHolder'
    BY DEF OneHolder
<1>8. NoBirthUnannounced'
    <2> SUFFICES ASSUME NEW id \in 1 .. births
                 PROVE  \/ posted'[id] > 0
                        \/ \E r \in Runs : id \in crun'[r].fresh
                        \/ \E m \in notices' : id \in m.ids
                        \/ \E why \in Reason : <<id, why>> \in unsaid'
        BY DEF NoBirthUnannounced
    <2>1. posted'[id] >= posted[id]
        BY <1>1 DEF CorrelationTypeOK
    <2>2. CASE id \in n.ids
        BY <2>2
    <2>3. CASE id \notin n.ids
        BY <1>1, <2>1, <2>3 DEF NoBirthUnannounced, CorrelationTypeOK
    <2>4. QED
        BY <2>2, <2>3
<1>9. QED
    BY <1>2, <1>3, <1>4, <1>5, <1>6, <1>7, <1>8

\* The next attempt of a message, if it has one.
Again(n) == IF n.attempt < MaxAttempts THEN {[n EXCEPT !.attempt = @ + 1]} ELSE {}

LEMMA AgainOK ==
    ASSUME CorrelationConstants, NEW n \in Notice
    PROVE  /\ Again(n) \in SUBSET Notice
           /\ \A m \in Again(n) : m.ids = n.ids
           /\ \A m, k \in Again(n) : m = k
<1>1. CASE n.attempt < MaxAttempts
    <2>1. /\ [n EXCEPT !.attempt = @ + 1] \in Notice
          /\ [n EXCEPT !.attempt = @ + 1].ids = n.ids
        BY <1>1 DEF Notice, CorrelationConstants
    <2>2. QED
        BY <1>1, <2>1 DEF Again
<1>2. CASE ~(n.attempt < MaxAttempts)
    BY <1>2 DEF Again
<1>3. QED
    BY <1>1, <1>2

\* What a retry leaves: the next attempt, or an announcement that is given up.
LEMMA RetryOK ==
    ASSUME CorrelationConstants, CorrelationTypeOK, NEW n \in notices, Retry(n)
    PROVE  /\ notices' = (notices \ {n}) \cup Again(n)
           /\ unsaid' \subseteq FindingIds \X Reason /\ unsaid \subseteq unsaid'
           /\ Again(n) = {} => \A id \in n.ids : \E why \in Reason : <<id, why>> \in unsaid'
<1>1. n.ids \in SUBSET FindingIds /\ "given up" \in Reason
    BY DEF CorrelationTypeOK, Notice, Reason
<1>2. notices' = (notices \ {n}) \cup Again(n)
    BY DEF Retry, Again
<1>3. CASE n.attempt < MaxAttempts
    BY <1>2, <1>3 DEF Retry, Again, CorrelationTypeOK
<1>4. CASE ~(n.attempt < MaxAttempts)
    BY <1>1, <1>2, <1>4, GivenUpOK DEF Retry
<1>5. QED
    BY <1>3, <1>4

LEMMA NotifierOK ==
    ASSUME CorrelationConstants, CorrelationInv, NEW n \in notices,
           NotifyMuted(n) \/ NotifyPosts(n) \/ NotifyFails(n) \/ NotifyTimesOut(n)
    PROVE  CorrelationInv'
<1> USE DEF CorrelationInv
<1>1. /\ n \in Notice /\ n.ids \in SUBSET FindingIds
      /\ posted \in [FindingIds -> Nat] /\ repeated \in [FindingIds -> Nat]
      /\ setbacks \in Nat /\ unsaid \subseteq FindingIds \X Reason
      /\ \A id \in n.ids : posted[id] <= repeated[id]
    BY DEF CorrelationTypeOK, Notice, HoldersOK, Unsaid
<1>2. \A id \in n.ids : posted[id] >= posted[id] /\ posted[id] <= 1 + repeated[id]
    BY <1>1
<1>3. /\ More(posted, n.ids) \in [FindingIds -> Nat]
      /\ \A id \in FindingIds :
            More(posted, n.ids)[id] = IF id \in n.ids THEN posted[id] + 1 ELSE posted[id]
      /\ More(repeated, n.ids) \in [FindingIds -> Nat]
      /\ \A id \in FindingIds :
            More(repeated, n.ids)[id] = IF id \in n.ids THEN repeated[id] + 1 ELSE repeated[id]
    BY <1>1, MoreOK
<1>4. CASE NotifyMuted(n)
    <2>1. /\ unsaid' \subseteq FindingIds \X Reason /\ unsaid \subseteq unsaid'
          /\ \A id \in n.ids : \E why \in Reason : <<id, why>> \in unsaid'
        BY <1>1, <1>4, GivenUpOK DEF NotifyMuted, Reason
    <2>2. /\ notices' = notices \ {n}
          /\ UNCHANGED <<cache, present, found, births, crun, posted, repeated, setbacks>>
        BY <1>4 DEF NotifyMuted
    <2>3. Handled(n, {})
        BY <1>1, <1>2, <2>1, <2>2 DEF Handled
    <2>4. QED
        BY <2>3, NoticeOK
<1>5. CASE NotifyPosts(n)
    <2>1. posted' = More(posted, n.ids) /\ UNCHANGED <<cache, present, found, births, crun, unsaid>>
        BY <1>5 DEF NotifyPosts
    <2>2. CASE notices' = notices \ {n} /\ NoSetback /\ UNCHANGED repeated
        <3>1. \A id \in n.ids : posted'[id] > 0 /\ posted'[id] >= posted[id]
                                /\ posted'[id] <= 1 + repeated'[id]
            BY <1>1, <1>3, <2>1, <2>2
        <3>2. notices' = (notices \ {n}) \cup {} /\ setbacks' \in Nat
            BY <1>1, <2>2 DEF NoSetback
        <3>3. Handled(n, {})
            BY <1>1, <1>3, <2>1, <2>2, <3>1, <3>2 DEF Handled
        <3>4. QED
            BY <3>3, NoticeOK
    <2>3. CASE UNCHANGED notices /\ Setback /\ repeated' = More(repeated, n.ids)
        <3>1. \A id \in n.ids : /\ posted'[id] >= posted[id]
                                /\ posted'[id] <= 1 + repeated'[id]
                                /\ posted'[id] <= repeated'[id]
            BY <1>1, <1>3, <2>1, <2>3
        <3>2. notices' = (notices \ {n}) \cup {n} /\ setbacks' \in Nat
            BY <1>1, <2>3 DEF Setback
        <3>3. Handled(n, {n})
            BY <1>1, <1>3, <2>1, <2>3, <3>1, <3>2 DEF Handled
        <3>4. QED
            BY <3>3, NoticeOK
    <2>4. QED
        BY <1>5, <2>2, <2>3 DEF NotifyPosts
<1>6. CASE NotifyFails(n)
    <2>1. /\ Retry(n)
          /\ UNCHANGED <<cache, present, found, births, crun, posted, repeated, setbacks>>
        BY <1>6 DEF NotifyFails
    <2>2. Handled(n, Again(n))
        BY <1>1, <1>2, <2>1, AgainOK, RetryOK DEF Handled
    <2>3. QED
        BY <2>2, NoticeOK
<1>7. CASE NotifyTimesOut(n)
    <2>1. /\ Retry(n) /\ setbacks' \in Nat
          /\ posted' = More(posted, n.ids) /\ repeated' = More(repeated, n.ids)
          /\ UNCHANGED <<cache, present, found, births, crun>>
        BY <1>1, <1>7 DEF NotifyTimesOut, Setback
    <2>2. \A id \in n.ids : /\ posted'[id] >= posted[id]
                            /\ posted'[id] <= 1 + repeated'[id]
                            /\ posted'[id] <= repeated'[id]
        BY <1>1, <1>3, <2>1
    <2>3. Handled(n, Again(n))
        BY <1>1, <1>3, <2>1, <2>2, AgainOK, RetryOK DEF Handled
    <2>4. QED
        BY <2>3, NoticeOK
<1>8. QED
    BY <1>4, <1>5, <1>6, <1>7
-----------------------------------------------------------------------------
(* Deletions, and the cache.                                                 *)

LEMMA DeletionsOK ==
    ASSUME CorrelationConstants, CorrelationInv,
           CacheExpires \/ \E a \in Assets : DeleteVulnerability(a) \/ DeleteHost(a)
    PROVE  CorrelationInv'
<1> USE DEF CorrelationInv
<1>1. UNCHANGED <<births, crun, notices, posted, repeated, unsaid, setbacks>>
    BY DEF CacheExpires, DeleteVulnerability, DeleteHost
<1>2. /\ cache' \in Answer \cup {"none"} /\ present' \subseteq Assets
      /\ found' \in [Assets -> 0 .. MaxBirths]
      /\ \A b \in Assets : found'[b] = found[b] \/ found'[b] = 0
    BY DEF CacheExpires, DeleteVulnerability, DeleteHost, CorrelationTypeOK, CorrelationConstants
<1>3. Quiet
    BY <1>1 DEF Quiet, CorrelationTypeOK
<1>4. CorrelationTypeOK'
    BY <1>1, <1>2 DEF CorrelationTypeOK
<1>5. BirthsOK' /\ QueuedHoldsNothing'
    BY <1>1, <1>2 DEF BirthsOK, QueuedHoldsNothing, RunAt, CorrelationTypeOK, CorrelationConstants
<1>6. QED
    BY <1>3, <1>4, <1>5, QuietOK

LEMMA CorrelationStepOK == CorrelationConstants /\ CorrelationInv /\ [CorrelationNext]_correlationVars => CorrelationInv'
<1> SUFFICES ASSUME CorrelationConstants, CorrelationInv, [CorrelationNext]_correlationVars
             PROVE  CorrelationInv'
    OBVIOUS
<1>1. CASE UNCHANGED correlationVars
    <2>1. Quiet
        BY <1>1 DEF correlationVars, Quiet, CorrelationInv, CorrelationTypeOK
    <2>2. CorrelationTypeOK' /\ BirthsOK' /\ QueuedHoldsNothing'
        BY <1>1 DEF correlationVars, CorrelationInv, CorrelationTypeOK, BirthsOK, QueuedHoldsNothing, RunAt
    <2>3. QED
        BY <2>1, <2>2, QuietOK DEF CorrelationInv
<1>2. QED
    BY <1>1, StagesOK, AttachOK, EndsOK, NotifierOK, DeletionsOK DEF CorrelationNext, Correlates
-----------------------------------------------------------------------------
\* The on-call reads of a finding once, from overlapping scans, tasks executed
\* again and messages sent again, but for repetitions nobody can tell from a loss.
THEOREM PagedOnce == CorrelationSpec => []AnnouncedOnce
<1>1. CorrelationInit => CorrelationInv
    BY CorrelationInitOK, CorrelationConstants
<1>2. CorrelationInv /\ [CorrelationNext]_correlationVars => CorrelationInv'
    BY CorrelationStepOK, CorrelationConstants
<1>3. CorrelationInv => AnnouncedOnce
    BY DEF CorrelationInv
<1>4. QED
    BY <1>1, <1>2, <1>3, PTL DEF CorrelationSpec

\* No critical finding is passed over: what no scan and no message holds any more
\* was posted, or ended in one of the places where the code gives up.
THEOREM NonePassedOver == CorrelationSpec => []NoBirthUnannounced
<1>1. CorrelationInit => CorrelationInv
    BY CorrelationInitOK, CorrelationConstants
<1>2. CorrelationInv /\ [CorrelationNext]_correlationVars => CorrelationInv'
    BY CorrelationStepOK, CorrelationConstants
<1>3. CorrelationInv => NoBirthUnannounced
    BY DEF CorrelationInv
<1>4. QED
    BY <1>1, <1>2, <1>3, PTL DEF CorrelationSpec
-----------------------------------------------------------------------------
(* Triage.                                                                   *)

RowIds == 1 .. MaxFindings

\* No row, and no form, has an id that is still to be given out.
IdsUsed ==
    /\ finding.id < nextId
    /\ \A a \in Analysts : edit[a].pc = "loaded" => edit[a].snap.id \in 1 .. nextId - 1

\* A form that will write a text it was opened with, over a newer one, was noted.
OldFormsNoted ==
    \A a \in Analysts :
        /\ edit[a].pc = "loaded" /\ edit[a].snap.id = finding.id
        /\ edit[a].asks \in Text /\ edit[a].asks # edit[a].snap.text
        => outdated

TriageInv == TriageTypeOK /\ IdsUsed /\ OldFormsNoted /\ CreditMatchesText /\ ResolvedIffClosed
-----------------------------------------------------------------------------
(* Lemmas.                                                                   *)

\* What the types say, field by field.
LEMMA Fields ==
    ASSUME TriageTypeOK
    PROVE  /\ finding.id \in 0 .. MaxFindings /\ finding.text \in Text /\ finding.credit \in Credit
           /\ finding.closed \in BOOLEAN /\ finding.resolved \in BOOLEAN
           /\ \A a \in Analysts : edit[a].snap \in FindingRow /\ edit[a].asks \in Request
BY DEF TriageTypeOK, FindingRow, EditRecord

\* No row is a row record.
LEMMA NoRowType == TriageConstants => NoRow \in FindingRow
BY DEF TriageConstants, NoRow, FindingRow, Text, Credit

\* What a handler loads.
LEMMA LoadedType ==
    ASSUME TriageConstants, TriageTypeOK, NEW request
    PROVE  /\ Loaded(request) \in FindingRow
           /\ Loaded(request).id = finding.id
           /\ request \notin Statuses => Loaded(request).text = finding.text
BY NoRowType, Fields DEF Loaded, NoRow, FindingRow, Text, Credit

\* The status and the time of resolution, as a request for a status leaves them.
LEMMA TriagedOK ==
    ASSUME TriageTypeOK, NEW old \in FindingRow, NEW st \in Statuses
    PROVE  /\ Triaged(old, st) \in FindingRow
           /\ Triaged(old, st).id = finding.id
           /\ Triaged(old, st).text = finding.text /\ Triaged(old, st).credit = finding.credit
           /\ ~SkewsStatus(old) => (Triaged(old, st).resolved <=> Triaged(old, st).closed)
<1>1. /\ finding \in FindingRow
      /\ old.closed \in BOOLEAN /\ old.resolved \in BOOLEAN
    BY DEF TriageTypeOK, FindingRow
<1>2. /\ Merged(finding.closed, old.closed, st = "closed") \in BOOLEAN
      /\ (IF st = "closed" THEN TRUE ELSE Merged(finding.resolved, old.resolved, FALSE)) \in BOOLEAN
    BY <1>1, Fields DEF Merged
<1>3. Triaged(old, st) \in FindingRow
    BY <1>1, <1>2 DEF Triaged, FindingRow
<1>4. /\ Triaged(old, st).closed = Merged(finding.closed, old.closed, st = "closed")
      /\ Triaged(old, st).resolved =
            (IF st = "closed" THEN TRUE ELSE Merged(finding.resolved, old.resolved, FALSE))
      /\ Triaged(old, st).id = finding.id
      /\ Triaged(old, st).text = finding.text /\ Triaged(old, st).credit = finding.credit
    BY <1>1 DEF Triaged, FindingRow
<1>5. ~SkewsStatus(old) => /\ Triaged(old, st).closed = (st = "closed")
                           /\ Triaged(old, st).resolved = (st = "closed")
    BY <1>1, <1>4, Fields DEF SkewsStatus, Merged
<1>6. QED
    BY <1>3, <1>4, <1>5

\* The text and the credit, as a request for a text leaves them.
LEMMA RewrittenOK ==
    ASSUME TriageTypeOK, NEW old \in FindingRow, NEW request \in Text \cup {"new"}
    PROVE  /\ Rewritten(old, request) \in FindingRow
           /\ Rewritten(old, request).id = finding.id
           /\ Rewritten(old, request).closed = finding.closed
           /\ Rewritten(old, request).resolved = finding.resolved
           /\ request = old.text => Rewritten(old, request) = finding
           /\ ~SkewsText(old) /\ request # old.text =>
                 /\ Rewritten(old, request).text = Typed(request)
                 /\ Rewritten(old, request).credit = "analyst"
<1>1. /\ finding \in FindingRow /\ old.credit \in Credit /\ "analyst" \in Credit
      /\ finding.credit \in Credit /\ Typed(request) \in Text
    BY DEF TriageTypeOK, FindingRow, Credit, Typed, Text
<1>2. CASE request = old.text
    BY <1>1, <1>2 DEF Rewritten
<1>3. CASE request # old.text
    <2>1. Rewritten(old, request) = [finding EXCEPT !.text = Typed(request),
                                                    !.credit = Merged(@, old.credit, "analyst")]
        BY <1>3 DEF Rewritten
    <2>2. Merged(finding.credit, old.credit, "analyst") \in Credit
        BY <1>1 DEF Merged
    <2>3. ~SkewsText(old) => Merged(finding.credit, old.credit, "analyst") = "analyst"
        BY DEF SkewsText, Merged
    <2>4. QED
        BY <1>1, <1>3, <2>1, <2>2, <2>3 DEF FindingRow
<1>4. QED
    BY <1>2, <1>3

\* Notes.
LEMMA AnnotatedOK ==
    ASSUME TriageTypeOK, NEW old \in FindingRow
    PROVE  /\ Annotated(old) \in FindingRow
           /\ Annotated(old).id = finding.id /\ Annotated(old).text = finding.text
           /\ Annotated(old).closed = finding.closed /\ Annotated(old).resolved = finding.resolved
           /\ ~SkewsText(old) => Annotated(old).credit = finding.credit
BY DEF TriageTypeOK, FindingRow, Annotated, SkewsText
-----------------------------------------------------------------------------
(* The steps.                                                                *)

LEMMA TriageInitOK == TriageConstants /\ TriageInit => TriageInv
<1> SUFFICES ASSUME TriageConstants, TriageInit
             PROVE  TriageInv
    OBVIOUS
<1>1. TriageTypeOK
    <2>1. Idle \in EditRecord /\ [pc |-> "none", snap |-> NoRow] \in EnrichRecord
        BY NoRowType DEF Idle, EditRecord, EnrichRecord, Request
    <2> DEFINE task == [pc |-> "none", snap |-> NoRow]
    <2>2. enrich = [id \in 1 .. MaxFindings |-> task]
        BY DEF TriageInit
    <2> HIDE DEF task
    <2>3. enrich \in [1 .. MaxFindings -> EnrichRecord]
        BY <2>1, <2>2 DEF task
    <2>4. edit \in [Analysts -> EditRecord] /\ finding \in FindingRow
        BY <2>1, NoRowType DEF TriageInit
    <2>5. nextId \in 1 .. MaxFindings + 1 /\ losses \in Nat
        BY DEF TriageConstants, TriageInit
    <2>6. QED
        BY <2>3, <2>4, <2>5 DEF TriageInit, TriageTypeOK
<1>2. IdsUsed /\ OldFormsNoted
    BY DEF TriageInit, IdsUsed, OldFormsNoted, Idle, NoRow
<1>3. CreditMatchesText /\ ResolvedIffClosed
    BY DEF TriageInit, CreditMatchesText, ResolvedIffClosed, Exists, NoRow
<1>4. QED
    BY <1>1, <1>2, <1>3 DEF TriageInv

\* Rows that come and go.
LEMMA RowsOK ==
    ASSUME TriageConstants, TriageInv, InsertByScan \/ CreateFinding \/ DeleteFinding
    PROVE  TriageInv'
<1> USE DEF TriageInv
<1>1. ASSUME NEW text \in {"template", "own"}, Inserted(text),
             enrich' \in [1 .. MaxFindings -> EnrichRecord]
      PROVE  TriageInv'
    <2>1. nextId \in RowIds /\ nextId' = nextId + 1 /\ UNCHANGED edit
        BY <1>1 DEF Inserted, TriageTypeOK, TriageConstants, RowIds
    <2>2. /\ finding' \in FindingRow /\ finding'.id = nextId /\ finding'.text = text
          /\ finding'.credit = "none" /\ finding'.closed = FALSE /\ finding'.resolved = FALSE
        <3>1. finding' = [id |-> nextId, closed |-> FALSE, resolved |-> FALSE, text |-> text,
                          credit |-> "none"]
            BY <1>1 DEF Inserted, NoRow
        <3>2. nextId \in 0 .. MaxFindings /\ text \in Text /\ "none" \in Credit
            BY <2>1 DEF RowIds, Text, Credit
        <3>3. QED
            BY <3>1, <3>2 DEF FindingRow
    <2>3. TriageTypeOK'
        BY <1>1, <2>1, <2>2 DEF Inserted, TriageTypeOK, TriageConstants, RowIds, Text
    <2>4. IdsUsed'
        BY <2>1, <2>2 DEF IdsUsed, RowIds
    <2>5. OldFormsNoted'
        BY <2>1, <2>2 DEF OldFormsNoted, IdsUsed, RowIds
    <2>6. CreditMatchesText' /\ ResolvedIffClosed'
        BY <2>2 DEF CreditMatchesText, ResolvedIffClosed
    <2>7. QED
        BY <2>3, <2>4, <2>5, <2>6
<1>2. CASE InsertByScan
    <2>1. enrich' \in [1 .. MaxFindings -> EnrichRecord]
        BY <1>2 DEF InsertByScan, EnrichMoves, TriageTypeOK, EnrichRecord
    <2>2. QED
        BY <1>1, <1>2, <2>1 DEF InsertByScan
<1>3. CASE CreateFinding
    BY <1>1, <1>3 DEF CreateFinding, TriageTypeOK
<1>4. CASE DeleteFinding
    <2>1. finding'.id = 0 /\ UNCHANGED <<edit, nextId>>
        BY <1>4 DEF DeleteFinding, NoRow
    <2>2. TriageTypeOK'
        BY <1>4, NoRowType DEF DeleteFinding, TriageTypeOK
    <2>3. IdsUsed' /\ OldFormsNoted'
        BY <2>1 DEF IdsUsed, OldFormsNoted, TriageTypeOK
    <2>4. CreditMatchesText' /\ ResolvedIffClosed'
        BY <2>1 DEF CreditMatchesText, ResolvedIffClosed, Exists
    <2>5. QED
        BY <2>2, <2>3, <2>4
<1>5. QED
    BY <1>2, <1>3, <1>4

\* A form that is loaded.
LEMMA LoadOK ==
    ASSUME TriageConstants, TriageInv, NEW a \in Analysts, NEW request \in Requests, UpdateLoad(a, request)
    PROVE  TriageInv'
<1> DEFINE form == [pc |-> "loaded", snap |-> Loaded(request), asks |-> request]
<1> USE DEF TriageInv
<1>1. request \in Request
    BY DEF Requests, Request, TriageTypeOK
<1>2. form \in EditRecord
    BY <1>1, LoadedType DEF EditRecord
<1>3. edit' = [edit EXCEPT ![a] = form]
    BY DEF UpdateLoad
<1> HIDE DEF form
<1>4. /\ edit' \in [Analysts -> EditRecord] /\ edit'[a] = form
      /\ \A b \in Analysts \ {a} : edit'[b] = edit[b]
    BY <1>2, <1>3 DEF TriageTypeOK
<1>5. UNCHANGED <<finding, texts, enrich, nextId, losses, skewed, raced>>
    BY DEF UpdateLoad
<1>6. outdated' \in BOOLEAN /\ (outdated => outdated')
    BY DEF UpdateLoad, TriageTypeOK
<1>7. TriageTypeOK'
    BY <1>4, <1>5, <1>6 DEF TriageTypeOK
<1>8. IdsUsed'
    <2>1. form.snap.id = finding.id
        BY LoadedType DEF form
    <2>2. finding.id \in 1 .. nextId - 1
        BY Fields DEF UpdateLoad, Exists, IdsUsed, TriageTypeOK
    <2>3. QED
        BY <1>4, <1>5, <2>1, <2>2 DEF IdsUsed
<1>9. OldFormsNoted'
    <2>1. form.asks \in Text /\ form.asks # form.snap.text => outdated'
        <3>1. ASSUME request \in Text
              PROVE  Loaded(request).text = finding.text
            BY <3>1, LoadedType DEF Text, Statuses
        <3>2. QED
            BY <3>1 DEF UpdateLoad, form
    <2>2. QED
        BY <1>4, <1>5, <1>6, <2>1 DEF OldFormsNoted
<1>10. CreditMatchesText' /\ ResolvedIffClosed'
    BY <1>5, <1>6 DEF CreditMatchesText, ResolvedIffClosed, Exists
<1>11. QED
    BY <1>7, <1>8, <1>9, <1>10

\* Which of them a form asks for.
LEMMA EditedIs ==
    ASSUME NEW old, NEW request
    PROVE  /\ request \in Statuses => Edited(old, request) = Triaged(old, request)
           /\ request \in Text \cup {"new"} => Edited(old, request) = Rewritten(old, request)
           /\ request = "notes" => Edited(old, request) = Annotated(old)
BY DEF Edited, Statuses, Text

\* What a form that is saved leaves in its row.
LEMMA EditedOK ==
    ASSUME TriageConstants, TriageInv, Exists, NEW old \in FindingRow, NEW request \in Request,
           request \in Text /\ request # old.text => outdated,
           NEW new, new = Edited(old, request)
    PROVE  /\ new \in FindingRow /\ new.id = finding.id
           /\ \/ (new.resolved <=> new.closed) \/ raced
              \/ request \in Statuses /\ SkewsStatus(old)
           /\ \/ new.credit = "claude" <=> new.text = "ai"
              \/ skewed
              \/ request \notin Statuses /\ SkewsText(old)
              \/ outdated /\ new.text = "ai"
<1> USE DEF TriageInv
<1>1. /\ (finding.resolved <=> finding.closed) \/ raced
      /\ \/ finding.credit = "claude" <=> finding.text = "ai"
         \/ skewed
         \/ outdated /\ finding.text = "ai"
    BY DEF CreditMatchesText, ResolvedIffClosed
<1>2. CASE request \in Statuses
    <2>1. new = Triaged(old, request)
        BY <1>2, EditedIs
    <2>2. QED
        BY <1>1, <1>2, <2>1, TriagedOK
<1>3. CASE request \in Text \cup {"new"}
    <2>1. request \notin Statuses /\ new = Rewritten(old, request)
        BY <1>3, EditedIs DEF Text, Statuses
    <2>2. /\ new \in FindingRow /\ new.id = finding.id
          /\ new.closed = finding.closed /\ new.resolved = finding.resolved
          /\ request = old.text => new = finding
          /\ ~SkewsText(old) /\ request # old.text =>
                new.text = Typed(request) /\ new.credit = "analyst"
        BY <1>3, <2>1, RewrittenOK
    <2>3. request = "new" => Typed(request) # "ai"
        BY DEF Typed
    <2>4. request \in Text => Typed(request) = request
        BY DEF Typed, Text
    <2>5. QED
        BY <1>1, <1>3, <2>1, <2>2, <2>3, <2>4
<1>4. CASE request = "notes"
    <2>1. request \notin Statuses /\ new = Annotated(old)
        BY <1>4, EditedIs DEF Statuses
    <2>2. QED
        BY <1>1, <2>1, AnnotatedOK
<1>5. QED
    BY <1>2, <1>3, <1>4 DEF Request

\* A form that is saved.
LEMMA CommitOK ==
    ASSUME TriageConstants, TriageInv, NEW a \in Analysts, UpdateCommit(a)
    PROVE  TriageInv'
<1> USE DEF TriageInv
<1>1. edit[a].pc = "loaded" /\ edit' = [edit EXCEPT ![a] = Idle]
    BY DEF UpdateCommit
<1>2. Idle \in EditRecord
    BY NoRowType DEF Idle, EditRecord, Request
<1>3. /\ edit' \in [Analysts -> EditRecord] /\ edit'[a].pc = "idle"
      /\ \A b \in Analysts \ {a} : edit'[b] = edit[b]
    BY <1>1, <1>2 DEF TriageTypeOK, Idle
<1>4. UNCHANGED <<enrich, nextId, losses, outdated>>
    BY DEF UpdateCommit
<1>5. /\ finding' \in FindingRow /\ finding'.id = finding.id
      /\ texts' \subseteq Text /\ skewed' \in BOOLEAN /\ raced' \in BOOLEAN
      /\ CreditMatchesText' /\ ResolvedIffClosed'
    <2>1. CASE finding.id = edit[a].snap.id
        <3>1. /\ finding' = Edited(edit[a].snap, edit[a].asks)
              /\ texts' = texts \cup {finding'.text}
              /\ skewed' = (skewed \/ (edit[a].asks \notin Statuses /\ SkewsText(edit[a].snap)))
              /\ raced' = (raced \/ (edit[a].asks \in Statuses /\ SkewsStatus(edit[a].snap)))
            BY <2>1 DEF UpdateCommit
        <3>2. /\ finding' \in FindingRow /\ finding'.id = finding.id
              /\ (finding'.resolved <=> finding'.closed) \/ raced'
              /\ \/ finding'.credit = "claude" <=> finding'.text = "ai"
                 \/ skewed'
                 \/ outdated /\ finding'.text = "ai"
            <4>1. /\ edit[a].snap \in FindingRow /\ edit[a].asks \in Request
                  /\ Exists
                BY <1>1, <2>1, Fields DEF IdsUsed, Exists, TriageTypeOK
            <4>2. edit[a].asks \in Text /\ edit[a].asks # edit[a].snap.text => outdated
                BY <1>1, <2>1 DEF OldFormsNoted
            <4>3. QED
                BY <3>1, <4>1, <4>2, EditedOK
        <3>3. finding'.text \in Text
            BY <3>2 DEF FindingRow
        <3>4. skewed' \in BOOLEAN /\ raced' \in BOOLEAN
            BY <3>1
        <3>5. CreditMatchesText' /\ ResolvedIffClosed'
            BY <1>4, <3>2 DEF CreditMatchesText, ResolvedIffClosed
        <3>6. QED
            BY <3>1, <3>2, <3>3, <3>4, <3>5 DEF TriageTypeOK
    <2>2. CASE finding.id # edit[a].snap.id
        <3>1. UNCHANGED <<finding, texts, skewed, raced>>
            BY <2>2 DEF UpdateCommit
        <3>2. QED
            BY <1>4, <3>1 DEF TriageTypeOK, CreditMatchesText, ResolvedIffClosed, Exists
    <2>3. QED
        BY <2>1, <2>2
<1>6. TriageTypeOK'
    BY <1>3, <1>4, <1>5 DEF TriageTypeOK
<1>7. IdsUsed'
    BY <1>3, <1>4, <1>5 DEF IdsUsed
<1>8. OldFormsNoted'
    BY <1>3, <1>4, <1>5 DEF OldFormsNoted
<1>9. QED
    BY <1>5, <1>6, <1>7, <1>8

\* The enrichment.
LEMMA EnrichOK ==
    ASSUME TriageConstants, TriageInv, NEW id \in 1 .. MaxFindings,
           EnrichLoad(id) \/ Generate(id) \/ FallBack(id) \/ EnrichCommit(id) \/ EnrichWorkerLost(id)
    PROVE  TriageInv'
<1> USE DEF TriageInv
<1>1. UNCHANGED <<edit, nextId, raced, outdated>>
    BY DEF EnrichLoad, Generate, FallBack, EnrichCommit, EnrichWorkerLost
<1>2. losses' \in Nat
    BY DEF EnrichLoad, Generate, FallBack, EnrichCommit, EnrichWorkerLost, TriageTypeOK
<1>3. enrich' \in [1 .. MaxFindings -> EnrichRecord]
    <2>1. enrich \in [1 .. MaxFindings -> EnrichRecord] /\ enrich[id] \in EnrichRecord
        BY DEF TriageTypeOK
    <2>2. /\ \A pc \in {"generating", "merging", "done"} : [enrich[id] EXCEPT !.pc = pc] \in EnrichRecord
          /\ \A pc \in {"queued", "done"} : [pc |-> pc, snap |-> NoRow] \in EnrichRecord
          /\ [pc |-> "merging", snap |-> Loaded("new")] \in EnrichRecord
        BY <2>1, NoRowType, LoadedType DEF EnrichRecord
    <2>3. QED
        BY <2>1, <2>2 DEF EnrichLoad, Generate, FallBack, EnrichCommit, EnrichWorkerLost, EnrichMoves
<1>4. /\ finding' \in FindingRow /\ finding'.id = finding.id
      /\ finding'.closed = finding.closed /\ finding'.resolved = finding.resolved
      /\ texts' \subseteq Text /\ skewed' \in BOOLEAN
      /\ CreditMatchesText'
    <2>1. CASE EnrichCommit(id) /\ finding.id = id
        <3> DEFINE old == enrich[id].snap
        <3>1. /\ finding' = [finding EXCEPT !.text = Merged(@, old.text, "ai"),
                                            !.credit = Merged(@, old.credit, "claude")]
              /\ texts' = texts \cup {finding'.text}
              /\ skewed' = (skewed \/ SkewsText(old))
            BY <2>1 DEF EnrichCommit
        <3>2. /\ finding \in FindingRow
              /\ Merged(finding.text, old.text, "ai") \in Text
              /\ Merged(finding.credit, old.credit, "claude") \in Credit
            BY Fields DEF TriageTypeOK, Merged, Text, Credit
        <3>3. /\ finding' \in FindingRow
              /\ finding'.text = Merged(finding.text, old.text, "ai")
              /\ finding'.credit = Merged(finding.credit, old.credit, "claude")
              /\ finding'.id = finding.id
              /\ finding'.closed = finding.closed /\ finding'.resolved = finding.resolved
            BY <3>1, <3>2 DEF FindingRow
        <3>4. ~SkewsText(old) => finding'.text = "ai" /\ finding'.credit = "claude"
            BY <3>3 DEF SkewsText, Merged
        <3>5. skewed' \in BOOLEAN /\ CreditMatchesText'
            BY <3>1, <3>4 DEF CreditMatchesText
        <3>6. QED
            BY <3>1, <3>2, <3>3, <3>5 DEF TriageTypeOK
    <2>2. CASE UNCHANGED <<finding, texts, skewed>>
        BY <1>1, <2>2 DEF TriageTypeOK, CreditMatchesText, Exists
    <2>3. QED
        BY <2>1, <2>2 DEF EnrichLoad, Generate, FallBack, EnrichCommit, EnrichWorkerLost
<1>5. TriageTypeOK'
    BY <1>1, <1>2, <1>3, <1>4 DEF TriageTypeOK
<1>6. IdsUsed' /\ OldFormsNoted'
    BY <1>1, <1>4 DEF IdsUsed, OldFormsNoted
<1>7. ResolvedIffClosed'
    BY <1>1, <1>4 DEF ResolvedIffClosed, Exists
<1>8. QED
    BY <1>4, <1>5, <1>6, <1>7

LEMMA TriageStepOK == TriageConstants /\ TriageInv /\ [TriageNext]_triageVars => TriageInv'
<1> SUFFICES ASSUME TriageConstants, TriageInv, [TriageNext]_triageVars
             PROVE  TriageInv'
    OBVIOUS
<1>1. CASE UNCHANGED triageVars
    BY <1>1 DEF triageVars, TriageInv, TriageTypeOK, IdsUsed, OldFormsNoted, CreditMatchesText,
        ResolvedIffClosed, Exists
<1>2. QED
    BY <1>1, RowsOK, LoadOK, CommitOK, EnrichOK DEF TriageNext
-----------------------------------------------------------------------------
\* A finding has a time of resolution exactly if it is closed, whatever statuses
\* analysts ask for at the same time, but for a request that had loaded another.
THEOREM ResolutionIsRight == TriageSpec => []ResolvedIffClosed
<1>1. TriageInit => TriageInv
    BY TriageInitOK, TriageConstants
<1>2. TriageInv /\ [TriageNext]_triageVars => TriageInv'
    BY TriageStepOK, TriageConstants
<1>3. TriageInv => ResolvedIffClosed
    BY DEF TriageInv
<1>4. QED
    BY <1>1, <1>2, <1>3, PTL DEF TriageSpec

\* The name on a remediation text is its author's, for forms and enrichment tasks
\* in any order, but for a commit of outdated columns and the model's text that
\* an older form put back.
THEOREM CreditIsRight == TriageSpec => []CreditMatchesText
<1>1. TriageInit => TriageInv
    BY TriageInitOK, TriageConstants
<1>2. TriageInv /\ [TriageNext]_triageVars => TriageInv'
    BY TriageStepOK, TriageConstants
<1>3. TriageInv => CreditMatchesText
    BY DEF TriageInv
<1>4. QED
    BY <1>1, <1>2, <1>3, PTL DEF TriageSpec
=============================================================================
