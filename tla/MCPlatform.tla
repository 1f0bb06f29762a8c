------------------------------ MODULE MCPlatform -------------------------------
(***************************************************************************)
(* Four parts of the system that share no state and that have to get       *)
(* somewhere: the job runner, the certificates of a device, the inventory  *)
(* of apps and the cache of vulnerabilities.  A behaviour exercises one    *)
(* part; the others stay as they are.                                      *)
(***************************************************************************)
EXTENDS DeviceCertificates, JobRunner, AppInventory, VulnCache

CONSTANTS j1, r1, r2, d1, d2, d3, m1, a1, a2, a3, v1, v2

MCApps     == <<a1, a2, a3>>

VARIABLE part

Init ==
  /\ part \in {"jobs", "certificates", "apps", "vulnerabilities"}
  /\ JobInit /\ CertInit /\ AppInit /\ VulnInit
  /\ part # "certificates" => enrolled
  /\ part # "apps" => oldest = <<d1, d2, d3>> /\ indexed = {}
  /\ apps[m1] \in {{}, AppKeys}
  /\ part # "vulnerabilities" => apps[m1] = {} /\ os[m1] = v1 /\ patch[m1] = Unheld

Next ==
  /\ UNCHANGED part
  /\ \/ part = "jobs" /\ JobNext /\ UNCHANGED <<certVars, appVars, vulnVars>>
     \/ part = "certificates" /\ CertNext /\ UNCHANGED <<jobVars, appVars, vulnVars>>
     \/ part = "apps" /\ AppNext /\ UNCHANGED <<jobVars, certVars, vulnVars>>
     \/ part = "vulnerabilities" /\ VulnNext /\ UNCHANGED <<jobVars, certVars, appVars>>

Spec == Init /\ [][Next]_<<part, jobVars, certVars, appVars, vulnVars>>

\* The timer of the monitor fires again and again, and its runs go on.
JobFairness ==
  /\ WF_jobVars(part = "jobs" /\ Tick(Monitor))
  /\ WF_jobVars(part = "jobs" /\ Watch)
  /\ WF_jobVars(part = "jobs" /\ Heartbeat(Monitor))
  /\ WF_jobVars(part = "jobs" /\ Release(Monitor))

\* A handler goes on or fails, the agent asks as long as it is not accepted,
\* and a pull of the fleet returns.
CertFairness ==
  /\ \A r \in Requests :
       /\ WF_certVars(/\ part = "certificates"
                      /\ Handle(r) \/ (RequestFails(r) /\ faults' = faults))
       /\ WF_certVars(part = "certificates" /\ AgentAsks(r) /\ ~Accepted)
  /\ WF_certVars(/\ part = "certificates" /\ FleetStep
                 /\ Fleet!PullReads(1) \/ Fleet!PullReturns(1))
  /\ WF_certVars(part = "certificates" /\ FleetStep /\ Fleet!Expire)

\* The refresher's timer fires again and again, and handlers go on.
AppFairness ==
  /\ WF_appVars(part = "apps" /\ RefresherStep)
  /\ \A d \in Reporters : WF_appVars(part = "apps" /\ HandleReport(d))

\* The tick comes, a refresh goes on, time passes.
VulnFairness ==
  /\ WF_vulnVars(part = "vulnerabilities" /\ Start(Scheduled))
  /\ WF_vulnVars(part = "vulnerabilities" /\ IntervalPasses)
  /\ \A r \in Refreshers : WF_vulnVars(part = "vulnerabilities" /\ RefreshStep(r))

FairSpec == Spec /\ JobFairness /\ CertFairness /\ AppFairness /\ VulnFairness

---------------------------------------------------------------------------
(* The other properties are those of the modules. *)

\* Liveness is claimed of the part that a behaviour exercises: the device of an
\* agent that asks is served, and the fleet is fetched and judged again and again.
DeviceIsServed  == part = "certificates" => EnrolledIsServed
AppsTurnOver    == part = "apps" => FleetTurnsOver
VerdictsStayNew == part = "vulnerabilities" => FleetIsJudged
=============================================================================
