-------------------------- MODULE MCCaseLifecycle --------------------------
(***************************************************************************)
(* One policy and device, the compliance pass and the administrators.      *)
(***************************************************************************)
EXTENDS CaseLifecycle

CONSTANTS pair1, admin1, evaluator, manual

=============================================================================
