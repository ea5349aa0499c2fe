------------------------- MODULE Components_proofs -------------------------
(***************************************************************************)
(* A behaviour of MCComponents is a behaviour of each of the seven         *)
(* modules: of the one that moves, and, stuttering, of the six others.  So *)
(* what is proved of their specifications holds of the one that TLC runs,  *)
(* and the types of all of them follow from their invariants.              *)
(***************************************************************************)
EXTENDS MCComponents, Access_proofs, Reports_proofs, Findings_proofs

\* A step of one module leaves the variables of the others alone.
LEMMA ComponentsStep ==
    ASSUME [ComponentsNext]_componentVars
    PROVE  /\ [SessionsNext]_sessionVars /\ [LimiterNext]_limiterVars
           /\ [ClientNext]_clientVars /\ [ReportsNext]_reportVars
           /\ [InventoryNext]_inventoryVars /\ [CorrelationNext]_correlationVars
           /\ [TriageNext]_triageVars
<1>1. CASE ComponentsNext
    BY <1>1, Zenon DEF ComponentsNext
<1>2. CASE UNCHANGED componentVars
    <2>1. /\ UNCHANGED sessionVars /\ UNCHANGED limiterVars /\ UNCHANGED clientVars
          /\ UNCHANGED reportVars /\ UNCHANGED inventoryVars
          /\ UNCHANGED correlationVars /\ UNCHANGED triageVars
        BY <1>2 DEF componentVars
    <2>2. QED
        BY <2>1
<1>3. QED
    BY <1>1, <1>2

\* The run of TLC explores nothing but behaviours of the modules.
THEOREM EachIsItself ==
    ComponentsSpec => /\ SessionsSpec /\ LimiterSpec /\ ClientSpec /\ ReportsSpec
                      /\ InventorySpec /\ CorrelationSpec /\ TriageSpec
<1>1. ComponentsInit => /\ SessionsInit /\ LimiterInit /\ ClientInit /\ ReportsInit
                        /\ InventoryInit /\ CorrelationInit /\ TriageInit
    BY DEF ComponentsInit
<1>2. [ComponentsNext]_componentVars =>
          /\ [SessionsNext]_sessionVars /\ [LimiterNext]_limiterVars
          /\ [ClientNext]_clientVars /\ [ReportsNext]_reportVars
          /\ [InventoryNext]_inventoryVars /\ [CorrelationNext]_correlationVars
          /\ [TriageNext]_triageVars
    BY ComponentsStep
<1>3. QED
    BY <1>1, <1>2, PTL DEF ComponentsSpec, SessionsSpec, LimiterSpec, ClientSpec, ReportsSpec,
                           InventorySpec, CorrelationSpec, TriageSpec

\* Sessions, counters, the tokens of a browser, reports, inventory, findings and
\* remediation texts: every variable keeps its type, whatever handlers, workers and
\* pages do.
THEOREM ComponentsTyped == ComponentsSpec => []ComponentsTypeOK
<1>1. /\ SessionsInit => SessionsInv
      /\ SessionsInv /\ [SessionsNext]_sessionVars => SessionsInv'
    BY SessionsInitOK, SessionsStepOK, SessionConstants
<1>2. /\ LimiterInit => LimiterInv
      /\ LimiterInv /\ [LimiterNext]_limiterVars => LimiterInv'
    BY LimiterInitOK, LimiterStepOK, LimiterConstants
<1>3. /\ ClientInit => ClientInv
      /\ ClientInv /\ [ClientNext]_clientVars => ClientInv'
    BY ClientInitOK, ClientStepOK
<1>4. /\ ReportsInit => ReportsInv
      /\ ReportsInv /\ [ReportsNext]_reportVars => ReportsInv'
    BY ReportsInitOK, ReportsStepOK, ReportConstants
<1>5. /\ InventoryInit => InventoryInv
      /\ InventoryInv /\ [InventoryNext]_inventoryVars => InventoryInv'
    BY InventoryInitOK, InventoryStepOK, InventoryConstants
<1>6. /\ CorrelationInit => CorrelationInv
      /\ CorrelationInv /\ [CorrelationNext]_correlationVars => CorrelationInv'
    BY CorrelationInitOK, CorrelationStepOK, CorrelationConstants
<1>7. /\ TriageInit => TriageInv
      /\ TriageInv /\ [TriageNext]_triageVars => TriageInv'
    BY TriageInitOK, TriageStepOK, TriageConstants
<1>8. /\ SessionsInv /\ LimiterInv /\ ClientInv /\ ReportsInv
      /\ InventoryInv /\ CorrelationInv /\ TriageInv
      => ComponentsTypeOK
    BY DEF ComponentsTypeOK, SessionsInv, LimiterInv, ClientInv, ReportsInv, InventoryInv,
           CorrelationInv, TriageInv
<1>9. QED
    BY <1>1, <1>2, <1>3, <1>4, <1>5, <1>6, <1>7, <1>8, EachIsItself, PTL
       DEF SessionsSpec, LimiterSpec, ClientSpec, ReportsSpec, InventorySpec, CorrelationSpec,
           TriageSpec
=============================================================================
