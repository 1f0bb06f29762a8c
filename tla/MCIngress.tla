------------------------------ MODULE MCIngress ------------------------------
(***************************************************************************)
(* Two calls, one forced pass beside the scheduler's.                      *)
(***************************************************************************)
EXTENDS Ingress

CONSTANTS t1, f1
=============================================================================
