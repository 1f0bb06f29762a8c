----------------------------- MODULE WorkflowRun -----------------------------
(***************************************************************************)
(* What the durable engine promises its callers, without chains, rows,     *)
(* tokens or claims: a run walks each of its devices once, a device may be *)
(* parked and taken up again, its outcome is given once and never taken    *)
(* back, and the run is completed, with the outcomes as its log, when every *)
(* device has one.  DurableEngine implements it (DurableEngine!RunPromise).*)
(***************************************************************************)
CONSTANT Devices

Outcomes == {"success", "partial", "failed"}

VARIABLES
  run,     \* "absent", "running" or "completed"
  state,   \* per device: "untaken", "walking", "parked" or its outcome
  log      \* per device: the outcome in the completed run's log, or "none"

vars == <<run, state, log>>

Init ==
  /\ run = "absent"
  /\ state = [d \in Devices |-> "untaken"]
  /\ log = [d \in Devices |-> "none"]

\* The launch creates the run's row.
Launch ==
  /\ run = "absent"
  /\ run' = "running"
  /\ UNCHANGED <<state, log>>

\* A worker takes the device, parks it at a wait, or takes it up again.
Walk(d, from, to) ==
  /\ run = "running"
  /\ state[d] = from
  /\ state' = [state EXCEPT ![d] = to]
  /\ UNCHANGED <<run, log>>

\* The device reaches its end; whatever happened on the way, it is walked then.
Outcome(d) == \E o \in Outcomes : Walk(d, "walking", o)

\* Only a run all of whose devices have an outcome is completed, with those.
Complete ==
  /\ run = "running"
  /\ \A d \in Devices : state[d] \in Outcomes
  /\ run' = "completed"
  /\ log' = state
  /\ UNCHANGED state

Next ==
  \/ Launch \/ Complete
  \/ \E d \in Devices :
       \/ Walk(d, "untaken", "walking")
       \/ Walk(d, "walking", "parked")
       \/ Walk(d, "parked", "walking")
       \/ Outcome(d)

Spec == Init /\ [][Next]_vars
=============================================================================
