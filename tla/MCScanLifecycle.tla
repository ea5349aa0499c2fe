-------------------------- MODULE MCScanLifecycle --------------------------
(***************************************************************************)
(* Instances of ScanLifecycle for TLC.                                     *)
(***************************************************************************)
EXTENDS ScanLifecycle, TLC

Interchangeable == Permutations(Scans) \cup Permutations(Requests) \cup Permutations(Tasks)
\* Bound: with a second scan nothing has failed, been removed or been run to its end.
SecondScanBounded ==
    \/ \E s \in Scans : rows[s].status = "unborn"
    \/ /\ FaultsSoFar = 0
       /\ \A s \in Scans : rows[s].status \notin {"deleted", "completed", "failed"}
=============================================================================
