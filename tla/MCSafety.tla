------------------------------- MODULE MCSafety -------------------------------
(***************************************************************************)
(* Five parts of the system of which only safety is checked and that share *)
(* no state: the policy steps on a device, the comparisons of policy       *)
(* conditions, the risk score, the session of a browser and the export of  *)
(* the audit log.  A behaviour exercises one part; the others stay as they *)
(* are.                                                                    *)
(***************************************************************************)
EXTENDS PolicyQuarantine, PolicyRules, RiskScore, BrowserSession, LogExport, TLC

CONSTANTS base, extra, lock, watch, p1, p2, e1, e2, x1, x2

Step(kind, policy) == [kind |-> kind, policy |-> policy]

\* A primary policy and a numbered one.
WithPrimary == <<Entry(base, NoPrio, TRUE), Entry(extra, 25, FALSE)>>
Edited == {<<Entry(extra, NoPrio, TRUE), Entry(base, 60, FALSE)>>}

AllSteps == {Step("replace", lock), Step("addTop", watch), Step("addTop", lock),
             Step("addBottom", lock),
             Step("restore", NoPolicy), Step("monitor", NoPolicy)}

MCNumbers  == 0..2
MCVersions == {<<0>>, <<1>>, <<2>>, <<1, 0>>, <<1, 1>>, <<1, 2>>, <<0, 2>>, <<1, 0, 1>>}

\* The tabs of a browser are alike, and nothing here asks what eventually happens.
TabsAlike == Permutations({p1, p2})

VARIABLE part

SafetyInit ==
  /\ part \in {"quarantine", "conditions", "risk", "session", "export"}
  /\ Init /\ RuleInit /\ RiskInit /\ SessionInit /\ ExportInit
  /\ part # "conditions" => input.field = "count" /\ {input.value.n, input.mine.n, input.other.n} = {1}
  /\ part # "risk" => finding.source = "nobody"
  /\ part # "session" => configured = Longest

SafetyNext ==
  /\ UNCHANGED <<part, input>>
  /\ \/ part = "quarantine" /\ Next /\ UNCHANGED <<riskVars, sessionVars, exportVars>>
     \/ part = "risk" /\ RiskNext /\ UNCHANGED <<vars, sessionVars, exportVars>>
     \/ part = "session" /\ SessionNext /\ UNCHANGED <<vars, riskVars, exportVars>>
     \/ part = "export" /\ ExportNext /\ UNCHANGED <<vars, riskVars, sessionVars>>

SafetySpec ==
  SafetyInit /\ [][SafetyNext]_<<part, input, vars, riskVars, sessionVars, exportVars>>
=============================================================================
