--------------------------- MODULE MCWorkflowRun ---------------------------
(***************************************************************************)
(* inspect is an agent whose failure does not stop the run; check asks     *)
(* whether it left a result.  With one, each runs an agent per item of it; *)
(* without, the tool fallback runs, and report after it.                   *)
(***************************************************************************)
EXTENDS WorkflowRun

CONSTANTS inspect, check, each, fallback, report

MCOrder == <<inspect, check, each, fallback, report>>
MCKind == [s \in {inspect, check, each, fallback, report} |->
             CASE s = inspect -> "agent" [] s = check -> "condition"
               [] s = each -> "foreach" [] OTHER -> "tool"]
MCDependsOn == (inspect :> {}) @@ (check :> {inspect}) @@ (each :> {check, inspect})
                 @@ (fallback :> {check}) @@ (report :> {fallback})
MCContinueOnError == {inspect}
MCSource == [s \in {check, each} |-> inspect]
MCThen == (check :> {each})
MCElse == (check :> {fallback})
MCItems == {1, 2}
MCParent == [i \in MCItems |-> each]
=============================================================================
