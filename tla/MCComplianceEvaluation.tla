----------------------- MODULE MCComplianceEvaluation -----------------------
(***************************************************************************)
(* Policies, devices and scopes for ComplianceEvaluation.                  *)
(***************************************************************************)
EXTENDS ComplianceEvaluation

CONSTANTS p1, p2, d1, d2, d3, w

\* Both policies are wired to the same workflow.
Shared == [p \in Policies |-> [d \in Devices |-> w]]
Uncapped == [p \in Policies |-> NoCap]
CapOne  == [p \in Policies |-> IF p = p1 THEN 1 ELSE NoCap]
AnyPair    == Pairs
ThreePairs == Pairs \ {<<p2, d2>>}
Setting(auto, on, devices) == [autoRun |-> auto, enabled |-> on, scope |-> devices]
\* Re-armed as it was; without autoRun and narrowed to one device; disabled.
AnySave == {Setting(TRUE, TRUE, Devices), Setting(FALSE, TRUE, {d1}),
            Setting(TRUE, FALSE, Devices)}
ReArm   == {Setting(TRUE, TRUE, Devices)}
Fleet   == {[policies |-> Policies, devices |-> Devices]}
=============================================================================
