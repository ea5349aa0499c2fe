---------------------------- MODULE MCComponents ----------------------------
(***************************************************************************)
(* Instances, for TLC, of the modules around the scans.  They share no     *)
(* variable, so nothing is gained by interleaving their steps: a behaviour *)
(* of this module is one of one of them, and a run explores all of them,   *)
(* each from its own initial state.                                        *)
(***************************************************************************)
EXTENDS Sessions, RateLimit, TokenClient, Reports, Inventory, Correlation, Triage, TLC

VARIABLE focus  \* the module that moves

componentVars == <<focus, sessionVars, limiterVars, clientVars, reportVars,
                   inventoryVars, correlationVars, triageVars>>

ComponentsInit ==
    /\ SessionsInit /\ LimiterInit /\ ClientInit /\ ReportsInit
    /\ InventoryInit /\ CorrelationInit /\ TriageInit
    /\ focus \in {"sessions", "limiter", "client", "reports", "inventory", "correlation", "triage"}

ComponentsNext ==
    /\ UNCHANGED focus
    /\ IF focus = "sessions"    THEN SessionsNext    ELSE UNCHANGED sessionVars
    /\ IF focus = "limiter"     THEN LimiterNext     ELSE UNCHANGED limiterVars
    /\ IF focus = "client"      THEN ClientNext      ELSE UNCHANGED clientVars
    /\ IF focus = "reports"     THEN ReportsNext     ELSE UNCHANGED reportVars
    /\ IF focus = "inventory"   THEN InventoryNext   ELSE UNCHANGED inventoryVars
    /\ IF focus = "correlation" THEN CorrelationNext ELSE UNCHANGED correlationVars
    /\ IF focus = "triage"      THEN TriageNext      ELSE UNCHANGED triageVars

ComponentsSpec == ComponentsInit /\ [][ComponentsNext]_componentVars

\* Every variable of the seven modules has its type.
ComponentsTypeOK ==
    /\ SessionsTypeOK /\ LimiterTypeOK /\ ClientTypeOK /\ ReportsTypeOK
    /\ InventoryTypeOK /\ CorrelationTypeOK /\ TriageTypeOK

\* The modules share their names: one pair is the handlers, pages and requests, the
\* other the scans and refresh tokens.
Interchangeable == Permutations(Analysts) \cup Permutations(Chains)
=============================================================================
