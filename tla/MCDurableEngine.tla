--------------------------- MODULE MCDurableEngine ---------------------------
(***************************************************************************)
(* Small workflows and device lists for DurableEngine.                     *)
(***************************************************************************)
EXTENDS DurableEngine

CONSTANTS d1, d2

OneTarget   == <<d1>>
TwoTargets  == <<d1, d2>>

\* An action, a wait, an action: the failing first step goes straight to the last.
WaitKind      == <<"action", "wait", "action">>
WaitOnSuccess == <<Unset, Unset, Unset>>
WaitOnFailure == <<3, End, End>>

\* A script; a wait after its success, an action after its failure.
ScriptKind      == <<"script", "wait", "action">>
ScriptOnSuccess == <<2, End, Unset>>
ScriptOnFailure == <<3, End, End>>

\* A script, a wait after its success and an action after its failure, both of
\* which lead back to it; the action has a restore script.
CycleKind      == <<"script", "wait", "action">>
CycleOnSuccess == <<2, 1, 1>>
CycleOnFailure == <<3, End, End>>
=============================================================================
