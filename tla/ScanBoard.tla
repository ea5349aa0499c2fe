----------------------------- MODULE ScanBoard -----------------------------
(***************************************************************************)
(* What the users of the scan list are promised, without handlers, tasks   *)
(* and faults: a scan is queued, runs, ends once, and is removed only when *)
(* it has ended.  Only a contended scan, which a process is about to write *)
(* that has seen it otherwise, may leave that path; and even that one never *)
(* returns to the queue, and never comes back once it is removed.          *)
(***************************************************************************)
CONSTANT Scans

VARIABLES
    status,     \* what the list shows
    contended   \* scans with a writer that has seen another status

boardVars == <<status, contended>>

Underway == {"queued", "running"}
Ended    == {"completed", "failed", "cancelled"}

Becomes(s, st) == status' = [status EXCEPT ![s] = st]

BoardInit ==
    /\ status = [s \in Scans |-> "unborn"]
    /\ contended = {}

Create(s) == status[s] = "unborn" /\ Becomes(s, "queued")
Begin(s)  == status[s] = "queued" /\ Becomes(s, "running")
End(s)    == status[s] \in Underway /\ \E st \in Ended : Becomes(s, st)
Remove(s) == status[s] \in Ended /\ Becomes(s, "deleted")

Overwrite(s) ==
    /\ s \in contended
    /\ status[s] \in Underway \cup Ended
    /\ \E st \in {"running", "deleted"} \cup Ended : Becomes(s, st)

Moves(s) == Create(s) \/ Begin(s) \/ End(s) \/ Remove(s) \/ Overwrite(s)

BoardNext ==
    /\ contended' \subseteq Scans
    /\ UNCHANGED status \/ \E s \in Scans : Moves(s)

BoardSpec == BoardInit /\ [][BoardNext]_boardVars
=============================================================================
