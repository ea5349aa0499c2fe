------------------------------ MODULE Inventory ------------------------------
(***************************************************************************)
(* One host of the estate, with one sensitive port, under overlapping      *)
(* scans: the baseline run_pipeline captures, the enumeration, the port    *)
(* scanner, the fingerprinter and the change detector (workers/), and the  *)
(* analysts who add and remove assets and findings (routes/assets.py).     *)
(*                                                                         *)
(* Each module loads the asset in one transaction and may record findings  *)
(* in a second one.  Whether the port answers is chosen at every probe.    *)
(* A scan has one chain of modules.  If run_pipeline or a module is        *)
(* executed again after it has published the next task, the scan gets a    *)
(* second one, and both use the baseline of the scan.  Status, risk score  *)
(* and technologies of the asset are left out.                             *)
(***************************************************************************)
EXTENDS Naturals, FiniteSets

CONSTANTS
    Chains,     \* the chains of modules, and their scans, named by their first chain
    MaxRows,    \* bound on the rows the host gets, one after the other
    MaxSlips    \* bound on lost workers, exceptions and errors of Redis

ASSUME InventoryConstants ==
    /\ IsFiniteSet(Chains) /\ MaxRows \in Nat /\ MaxSlips \in Nat

VARIABLES
    asset,      \* the row; id 0 is no row
    rowsUsed,   \* rows inserted so far
    issues,     \* the findings of the row
    baseline,   \* scan:{id}:baseline in Redis, as far as this host goes
    scanOf,     \* the scan a chain belongs to
    mods,       \* the module each chain is at
    slips,      \* slips so far
    opener,     \* history: the chain that last wrote the port open
    said,       \* history: what the first baseline of each scan said
    blind,      \* history: chains whose detector may find no baseline, or another one
    broken,     \* history: chains that have failed
    left,       \* history: chains whose port scanner wrote the row and, executed
                \* again, passed the host by
    dismissed   \* history: a finding of this row was deleted

inventoryVars == <<asset, rowsUsed, issues, baseline, scanOf, mods, slips, opener, said, blind,
                   broken, left, dismissed>>
-----------------------------------------------------------------------------
AssetRow == [id: 0 .. MaxRows, open: BOOLEAN]
NoAsset  == [id |-> 0, open |-> FALSE]
InEstate == asset.id # 0

\* "service": a sensitive service is exposed; "exposure": its port was opened.
\* "config": what the fingerprinter found.
Issues == {"service", "exposure", "config"}

Snapshot == {"absent", "closed", "open"}
SnapshotNow == IF ~InEstate THEN "absent" ELSE IF asset.open THEN "open" ELSE "closed"

\* The list of hosts a scan carries: with this host, with others only, or empty.
Hosts == {"named", "others", "empty"}

ModPC == {"waiting", "enumerating", "inserting", "scanning", "writing", "reporting",
          "tracing", "judging", "detecting", "comparing", "closing", "over", "failed"}

\* id, old: the row as the module loaded it; open: the answer of the port;
\* before: the baseline as the detector loaded it.
ModRecord == [pc: ModPC, hosts: Hosts, id: 0 .. MaxRows, old: BOOLEAN, open: BOOLEAN,
              before: Snapshot]
Fresh(pc, hosts) == [pc |-> pc, hosts |-> hosts, id |-> 0, old |-> FALSE, open |-> FALSE,
                     before |-> "absent"]

ChainIs(c, pc) == mods[c].pc = pc
Running(c) == mods[c].pc \notin {"waiting", "over", "failed"}
ChainMoves(c, next) == mods' = [mods EXCEPT ![c] = next]
Advances(c, pc) == ChainMoves(c, Fresh(pc, mods[c].hosts))

Slip   == slips < MaxSlips /\ slips' = slips + 1
NoSlip == UNCHANGED slips

InventoryTypeOK ==
    /\ asset \in AssetRow
    /\ rowsUsed \in 0 .. MaxRows
    /\ issues \subseteq Issues
    /\ baseline \in [Chains -> Snapshot \cup {"none"}]
    /\ scanOf \in [Chains -> Chains]
    /\ mods \in [Chains -> ModRecord]
    /\ slips \in Nat
    /\ opener \in Chains \cup {"nobody"}
    /\ said \in [Chains -> Snapshot \cup {"none"}]
    /\ blind \subseteq Chains /\ broken \subseteq Chains /\ left \subseteq Chains
    /\ dismissed \in BOOLEAN

InventoryInit ==
    /\ asset = NoAsset /\ rowsUsed = 0 /\ issues = {}
    /\ baseline = [c \in Chains |-> "none"]
    /\ scanOf = [c \in Chains |-> c]
    /\ mods = [c \in Chains |-> Fresh("waiting", "named")]
    /\ slips = 0
    /\ opener = "nobody"
    /\ said = [c \in Chains |-> "none"]
    /\ blind = {} /\ broken = {} /\ left = {} /\ dismissed = FALSE

\* A row for the host.  Two modules that both saw none: the second INSERT breaks
\* the unique constraint.
Inserts(open) ==
    /\ ~InEstate /\ rowsUsed < MaxRows
    /\ rowsUsed' = rowsUsed + 1
    /\ asset' = [id |-> rowsUsed + 1, open |-> open]
    /\ issues' = {} /\ dismissed' = FALSE

\* An exception fails the module, and the chain with it.
Raised(c) ==
    /\ Advances(c, "failed")
    /\ broken' = broken \cup {c}
    /\ UNCHANGED <<asset, rowsUsed, issues, baseline, scanOf, opener, said, blind, left, dismissed>>
-----------------------------------------------------------------------------
(* run_pipeline and capture_baseline.                                       *)

\* The first step of the module a chain is at, and those of the modules that have
\* handed over: of a chain that has failed, any may have.
Entry(pc) ==
    CASE pc \in {"enumerating", "inserting"}             -> "enumerating"
      [] pc \in {"scanning", "writing", "reporting"}     -> "scanning"
      [] pc \in {"tracing", "judging"}                   -> "tracing"
      [] pc \in {"detecting", "comparing", "closing"}    -> "detecting"

HandedOver(pc) ==
    CASE pc \in {"waiting", "enumerating", "inserting"}  -> {}
      [] pc \in {"scanning", "writing", "reporting"}     -> {"enumerating"}
      [] pc \in {"tracing", "judging"}                   -> {"enumerating", "scanning"}
      [] pc \in {"detecting", "comparing", "closing"}    -> {"enumerating", "scanning", "tracing"}
      [] pc \in {"over", "failed"}                       -> {"enumerating", "scanning", "tracing",
                                                             "detecting"}


Captures(scan) == baseline' = [baseline EXCEPT ![scan] = SnapshotNow]

\* The first execution for a scan.  An error of Redis counts as an empty estate.
Capture(c) ==
    /\ ChainIs(c, "waiting")
    /\ said' = [said EXCEPT ![c] = SnapshotNow]
    /\ \/ Captures(c) /\ NoSlip /\ UNCHANGED blind
       \/ UNCHANGED baseline /\ Slip /\ blind' = blind \cup {c}
    /\ Advances(c, "enumerating")
    /\ UNCHANGED <<asset, rowsUsed, issues, scanOf, opener, broken, left, dismissed>>

\* A task is executed again after it has published the next one: the scan of c goes
\* on as chain d too.
Repeats(c, d) ==
    /\ ~ChainIs(c, "waiting") /\ ChainIs(d, "waiting") /\ Slip
    /\ scanOf' = [scanOf EXCEPT ![d] = scanOf[c]]
    /\ blind' = IF baseline'[scanOf[c]] = said[scanOf[c]] THEN blind
                ELSE blind \cup {d} \cup {e \in Chains : scanOf[e] = scanOf[c]}
    /\ UNCHANGED <<asset, rowsUsed, issues, opener, said, broken, left, dismissed>>

\* It was run_pipeline, which captures the baseline again unless Redis fails.
Recapture(c, d) ==
    /\ Captures(scanOf[c]) \/ UNCHANGED baseline
    /\ Advances(d, "enumerating")
    /\ Repeats(c, d)

\* It was a module, with the list of hosts it had been given.
HandOverAgain(c, d) ==
    /\ UNCHANGED baseline
    /\ \E pc \in HandedOver(mods[c].pc), hosts \in Hosts : ChainMoves(d, Fresh(pc, hosts))
    /\ Repeats(c, d)

(* subdomain_enum: resolve, and _persist what resolves.                     *)

Resolve(c, hosts) ==
    /\ ChainIs(c, "enumerating")
    /\ ChainMoves(c, [Fresh(IF hosts = "named" THEN "inserting" ELSE "scanning", hosts)
                        EXCEPT !.id = IF hosts = "named" THEN asset.id ELSE 0])
    /\ UNCHANGED <<asset, rowsUsed, issues, baseline, scanOf, slips, opener, said, blind,
                   broken, left, dismissed>>

\* The row it loaded is gone, or it found none and there is one now.
Conflict(c) == mods[c].id # asset.id

Persist(c) ==
    /\ ChainIs(c, "inserting")
    /\ ~Conflict(c)
    /\ IF InEstate THEN UNCHANGED <<asset, rowsUsed, issues, opener, dismissed>>
                   ELSE Inserts(FALSE) /\ opener' = "nobody"
    /\ Advances(c, "scanning")
    /\ UNCHANGED <<baseline, scanOf, slips, said, blind, broken, left>>

(* port_scanner: probe, write the ports, record the findings.               *)

LeavesOut(c) == left' = IF opener = c THEN left \cup {c} ELSE left

\* Passive mode, a cancelled scan, or a list of other hosts.
PassBy(c) ==
    /\ ChainIs(c, "scanning")
    /\ Advances(c, "tracing")
    /\ LeavesOut(c)
    /\ UNCHANGED <<asset, rowsUsed, issues, baseline, scanOf, slips, opener, said, blind,
                   broken, dismissed>>

\* The name points inward: the host is dropped from the list.
SkipUnsafe(c) ==
    /\ ChainIs(c, "scanning") /\ mods[c].hosts # "others"
    /\ \E hosts \in {"others", "empty"} : ChainMoves(c, Fresh("tracing", hosts))
    /\ LeavesOut(c)
    /\ UNCHANGED <<asset, rowsUsed, issues, baseline, scanOf, slips, opener, said, blind,
                   broken, dismissed>>

\* An empty list stands for the target, which is this host.
Probe(c, open) ==
    /\ ChainIs(c, "scanning") /\ mods[c].hosts # "others"
    /\ ChainMoves(c, [Fresh("writing", "named") EXCEPT !.id = asset.id, !.old = asset.open,
                                                      !.open = open])
    /\ UNCHANGED <<asset, rowsUsed, issues, baseline, scanOf, slips, opener, said, blind,
                   broken, left, dismissed>>

Opens(c, was, is) == opener' = IF is /\ ~was THEN c ELSE opener

\* The UPDATE sets the whole list of ports, and leaves it out if it is as it was
\* loaded.  If another port has changed, this one is written as it was probed.
WritePorts(c) ==
    LET m == mods[c] IN
    /\ ChainIs(c, "writing")
    /\ ~Conflict(c)
    /\ IF InEstate
       THEN /\ \/ asset' = [asset EXCEPT !.open = m.open]
               \/ m.open = m.old /\ UNCHANGED asset
            /\ Opens(c, asset.open, asset'.open)
            /\ UNCHANGED <<rowsUsed, issues, dismissed>>
       ELSE Inserts(m.open) /\ opener' = IF m.open THEN c ELSE "nobody"
    /\ ChainMoves(c, [m EXCEPT !.pc = "reporting", !.id = asset'.id])
    /\ UNCHANGED <<baseline, scanOf, slips, said, blind, broken, left>>

\* Mistake: a port that was open before has its finding already.
ReportPortsNew(c) ==
    LET m == mods[c] IN
    /\ ChainIs(c, "reporting")
    /\ m.open /\ ~m.old => ~Conflict(c)
    /\ issues' = IF m.open /\ ~m.old THEN issues \cup {"service"} ELSE issues
    /\ Advances(c, "tracing")
    /\ UNCHANGED <<asset, rowsUsed, baseline, scanOf, slips, opener, said, blind,
                   broken, left, dismissed>>

ReportPorts(c) ==
    LET m == mods[c] IN
    /\ ChainIs(c, "reporting")
    /\ m.open => ~Conflict(c)
    /\ issues' = IF m.open THEN issues \cup {"service"} ELSE issues
    /\ Advances(c, "tracing")
    /\ UNCHANGED <<asset, rowsUsed, baseline, scanOf, slips, opener, said, blind,
                   broken, left, dismissed>>

(* fingerprinter.  It skips a host that does not answer or has no row.      *)

Trace(c) ==
    /\ ChainIs(c, "tracing")
    /\ \/ Advances(c, "detecting")
       \/ /\ mods[c].hosts # "others" /\ InEstate
          /\ ChainMoves(c, [Fresh("judging", mods[c].hosts) EXCEPT !.id = asset.id])
    /\ UNCHANGED <<asset, rowsUsed, issues, baseline, scanOf, slips, opener, said, blind,
                   broken, left, dismissed>>

Judge(c) ==
    /\ ChainIs(c, "judging")
    /\ \/ UNCHANGED issues
       \/ ~Conflict(c) /\ issues' = issues \cup {"config"}
    /\ Advances(c, "detecting")
    /\ UNCHANGED <<asset, rowsUsed, baseline, scanOf, slips, opener, said, blind,
                   broken, left, dismissed>>
-----------------------------------------------------------------------------
(* change_detector.                                                         *)

\* What the detector loads: the baseline, or nothing if there is none, and the
\* row.  `old' is whether the port is open on it.
Comparing(c, before) ==
    [Fresh("comparing", mods[c].hosts) EXCEPT !.id = asset.id, !.old = asset.open, !.before = before]

BaselineOf(c) == IF baseline[scanOf[c]] = "none" THEN "absent" ELSE baseline[scanOf[c]]
Deletes(c) == baseline' = [baseline EXCEPT ![scanOf[c]] = "none"]

\* Mistake: the baseline is deleted as soon as it is read.
DetectTakes(c) ==
    /\ ChainIs(c, "detecting")
    /\ ChainMoves(c, Comparing(c, BaselineOf(c)))
    /\ Deletes(c)
    /\ UNCHANGED <<asset, rowsUsed, issues, scanOf, slips, opener, said, blind,
                   broken, left, dismissed>>

Detect(c) ==
    /\ ChainIs(c, "detecting")
    /\ ChainMoves(c, Comparing(c, BaselineOf(c)))
    /\ UNCHANGED <<asset, rowsUsed, issues, baseline, scanOf, slips, opener, said, blind,
                   broken, left, dismissed>>

\* An error of Redis reads as a first scan.
DetectUnread(c) ==
    /\ ChainIs(c, "detecting") /\ Slip
    /\ ChainMoves(c, Comparing(c, "absent"))
    /\ blind' = blind \cup {c}
    /\ UNCHANGED <<asset, rowsUsed, issues, baseline, scanOf, opener, said, broken, left, dismissed>>

\* A host the baseline does not have is left to the port scanner, and one the
\* scan did not look at is left alone.
Newly(c) == /\ mods[c].id # 0 /\ mods[c].old
            /\ mods[c].before = "closed"
            /\ mods[c].hosts # "others"

ReportExposure(c) ==
    /\ ChainIs(c, "comparing")
    /\ Newly(c) => ~Conflict(c)
    /\ issues' = IF Newly(c) THEN issues \cup {"exposure"} ELSE issues
    /\ Advances(c, "closing")
    /\ UNCHANGED <<asset, rowsUsed, baseline, scanOf, slips, opener, said, blind,
                   broken, left, dismissed>>

\* The last thing is to delete the baseline, which another chain of the scan may
\* still need; an error of Redis leaves it.
CloseDiff(c) ==
    /\ ChainIs(c, "closing")
    /\ \/ /\ Deletes(c) /\ NoSlip
          /\ blind' = blind \cup {d \in Chains \ {c} : scanOf[d] = scanOf[c] /\ Running(d)}
       \/ UNCHANGED <<baseline, blind>> /\ Slip
    /\ Advances(c, "over")
    /\ UNCHANGED <<asset, rowsUsed, issues, scanOf, opener, said, broken, left, dismissed>>
-----------------------------------------------------------------------------
(* Exceptions and lost workers.                                             *)

\* Where a row that came or went under the module makes its transaction fail.
ConflictRaises(c) ==
    /\ Conflict(c)
    /\ \/ mods[c].pc \in {"inserting", "writing", "judging"}
       \/ ChainIs(c, "reporting") /\ mods[c].open
       \/ ChainIs(c, "comparing") /\ Newly(c)
    /\ Raised(c) /\ NoSlip

\* The module is executed again from its beginning, with the list it was given.
ModuleLost(c) ==
    /\ mods[c].pc \in {"inserting", "writing", "reporting", "judging", "comparing", "closing"}
    /\ Slip
    /\ Advances(c, Entry(mods[c].pc))
    /\ UNCHANGED <<asset, rowsUsed, issues, baseline, scanOf, opener, said, blind,
                   broken, left, dismissed>>

ModuleRaises(c) ==
    /\ Running(c) /\ Slip
    /\ Raised(c)

(* Analysts.                                                                *)

CreateAsset ==
    /\ Inserts(FALSE) /\ opener' = "nobody"
    /\ UNCHANGED <<baseline, scanOf, mods, slips, said, blind, broken, left>>

\* The findings go with the row.
DeleteAsset ==
    /\ InEstate
    /\ asset' = NoAsset /\ issues' = {}
    /\ opener' = "nobody" /\ dismissed' = FALSE
    /\ UNCHANGED <<rowsUsed, baseline, scanOf, mods, slips, said, blind, broken, left>>

DeleteIssue(i) ==
    /\ i \in issues
    /\ issues' = issues \ {i} /\ dismissed' = TRUE
    /\ UNCHANGED <<asset, rowsUsed, baseline, scanOf, mods, slips, opener, said, blind, broken, left>>
-----------------------------------------------------------------------------
ModuleSteps(c) ==
    \/ Capture(c)
    \/ \E hosts \in Hosts : Resolve(c, hosts)
    \/ Persist(c) \/ PassBy(c) \/ SkipUnsafe(c)
    \/ \E open \in BOOLEAN : Probe(c, open)
    \/ WritePorts(c) \/ ReportPorts(c) \/ Trace(c) \/ Judge(c)
    \/ Detect(c) \/ ReportExposure(c) \/ CloseDiff(c)

InventoryNext ==
    \/ \E c, d \in Chains : Recapture(c, d) \/ HandOverAgain(c, d)
    \/ \E c \in Chains : \/ ModuleSteps(c) \/ DetectUnread(c) \/ ConflictRaises(c)
                         \/ ModuleLost(c) \/ ModuleRaises(c)
    \/ CreateAsset \/ DeleteAsset
    \/ \E i \in Issues : DeleteIssue(i)

InventorySpec == InventoryInit /\ [][InventoryNext]_inventoryVars
-----------------------------------------------------------------------------
(* Properties.                                                              *)

\* The chain has written the port open, and its detector will still compare it.
WillCompare(c) ==
    \/ mods[c].pc \in {"scanning", "writing", "reporting", "tracing", "judging", "detecting"}
    \/ ChainIs(c, "comparing") /\ mods[c].id = asset.id /\ Newly(c)

\* The signal that matters most: a port that a scan found open, and that the
\* baseline of this scan had as closed, is reported as a new exposure, or the
\* detector of the chain that found it has yet to run.  Lost workers, overlapping
\* scans and assets added or removed meanwhile make no exception.  It can be missed
\* if the chain failed, if the baseline could not be written or read or was captured
\* again after a change, if another chain of the same scan deleted the baseline
\* first, or if the host left the list because its name had come to point inward.
ExposureReported ==
    (asset.open /\ opener # "nobody") =>
        (said[scanOf[opener]] = "closed" =>
            \/ "exposure" \in issues \/ dismissed
            \/ WillCompare(opener)
            \/ opener \in blind \cup broken
            \/ mods[opener].hosts = "others")

\* An open sensitive port has its finding as soon as the module that wrote it
\* has ended, also if that module was executed again or another scan wrote the
\* same ports in between.  The module does not come to it if it fails, or if the
\* scan is cancelled or the name points inward when it is executed again.
OpenPortHasFinding ==
    asset.open =>
        \/ "service" \in issues \/ dismissed
        \/ mods[opener].pc \in {"scanning", "writing", "reporting"}
        \/ opener \in broken \cup left
=============================================================================
