------------------------------- MODULE Ingress -------------------------------
(***************************************************************************)
(* What comes in about one device: reports of its agent                    *)
(* (deviceData.service.ts) and calls of an external tool that fire or      *)
(* resolve a trigger (triggers.service.ts).  Each stores what it was told, *)
(* and asks for a forced evaluation of the device, which a cooldown may    *)
(* refuse (compliance.service.ts); the scheduler's pass (complianceJobs.ts)*)
(* evaluates every policy that is due.  Passes and triggers work from the  *)
(* list of FleetCache.                                                     *)
(***************************************************************************)
EXTENDS Naturals, Sequences, FiniteSets

CONSTANTS
  Agent,        \* the agent's report being handled: it waits for the answer
  ToolCalls,    \* the tool's calls handled at once; one if it waits, too
  ForcedPasses, \* forced evaluations running at once
  NoList,
  MaxInputs,    \* bound: reports of the agent and calls of the tool
  MaxFaults     \* bound: exceptions

Tick   == "tick"
Calls  == {Agent} \cup ToolCalls
Passes == ForcedPasses \cup {Tick}
Parts  == <<"attributes", "alarm">>

ASSUME BoundsAssumption ==
  /\ MaxInputs \in Nat /\ MaxFaults \in Nat /\ Agent \notin ToolCalls
  /\ Tick \notin ForcedPasses /\ Calls \cap Passes = {}

VARIABLES
  attributes,   \* DevicePushData: the number of the report it holds, 0 for none
  alarm,        \* TriggerFireState.status of the trigger and the device
  call,         \* per call: what it is, how far it is, the report it carries
  pass,         \* per pass: how far it is
  due,          \* a policy's evaluation interval is over
  cooldown,     \* lastForcedDeviceEvaluationAt is less than 15 seconds ago
  verdict,      \* what the last verdict on the device was based on
  counted, launched,          \* fireCount, and the runs of the trigger
  reports, signals, faults,   \* bounds' counters
  believed,     \* what the tool may believe the alarm is (history)
  cache, inFlight, pull, got

listVars == <<cache, inFlight, pull, got>>
runVars  == <<counted, launched>>
vars == <<attributes, alarm, call, pass, due, cooldown, verdict, runVars,
          reports, signals, faults, believed, listVars>>

Fleet == INSTANCE FleetCache WITH
  Callers <- Calls \cup Passes, PullIds <- 1..2,
  source  <- [attributes |-> attributes, alarm |-> alarm]

NoCall  == [kind |-> "none", stage |-> "free", report |-> 0]
Free(q) == call[q] = NoCall
At(q, kind, stage) == call[q].kind = kind /\ call[q].stage = stage
Step(q, stage) == call' = [call EXCEPT ![q].stage = stage]
Budget == reports + signals < MaxInputs

Init ==
  /\ attributes = 0 /\ alarm = "none"
  /\ call = [q \in Calls |-> NoCall]
  /\ pass = [p \in Passes |-> "idle"]
  /\ due = TRUE /\ cooldown = FALSE
  /\ verdict = [attributes |-> 0, alarm |-> "none"]
  /\ counted = 0 /\ launched = 0
  /\ reports = 0 /\ signals = 0 /\ faults = 0
  /\ believed = {"none"}
  /\ Fleet!Init

---------------------------------------------------------------------------
(* Forced evaluation *)

\* triggerEventDrivenReEvaluation: forceEvaluateNow, whose refusal within the
\* cooldown is swallowed.  The cooldown starts before anything else is known.
ForceEvaluation ==
  IF cooldown \/ \A p \in ForcedPasses : pass[p] # "idle"
  THEN UNCHANGED <<cooldown, pass>>
  ELSE /\ cooldown' = TRUE
       /\ \E p \in ForcedPasses :
            /\ pass[p] = "idle"
            /\ pass' = [pass EXCEPT ![p] = "starting"]

CooldownEnds ==
  /\ cooldown /\ cooldown' = FALSE
  /\ UNCHANGED <<attributes, alarm, call, pass, due, verdict, runVars, reports,
                 signals, faults, believed, listVars>>

---------------------------------------------------------------------------
(* reportDeviceData: one report at a time, each with the device's new state *)

ReportArrives ==
  /\ Free(Agent) /\ Budget
  /\ reports' = reports + 1
  /\ call' = [call EXCEPT ![Agent] = [kind |-> "report", stage |-> "store", report |-> reports + 1]]
  /\ UNCHANGED <<attributes, alarm, pass, due, cooldown, verdict, runVars,
                 signals, faults, believed, listVars>>

StoreReport(q) ==
  /\ At(q, "report", "store")
  /\ attributes' = call[q].report
  /\ Step(q, "drop")
  /\ UNCHANGED <<alarm, pass, due, cooldown, verdict, runVars, reports, signals,
                 faults, believed, listVars>>

\* The cached list is dropped, and the device's evaluation forced.
DropAndEvaluate(q) ==
  /\ At(q, "report", "drop")
  /\ Fleet!Dropped
  /\ ForceEvaluation
  /\ call' = [call EXCEPT ![q] = NoCall]
  /\ UNCHANGED <<attributes, alarm, due, verdict, runVars, reports, signals,
                 faults, believed, inFlight, pull, got>>

---------------------------------------------------------------------------
(* fireTrigger and resolveTrigger *)

\* The tool fires, or reports that the condition is over.
SignalArrives(q, kind) ==
  /\ Free(q) /\ Budget
  /\ signals' = signals + 1
  /\ call' = [call EXCEPT ![q] = [kind |-> kind, stage |-> "find", report |-> 0]]
  /\ UNCHANGED <<attributes, alarm, pass, due, cooldown, verdict, runVars,
                 reports, faults, believed, listVars>>

\* The trigger, the workflow and the credential were found: the device is
\* looked up in the list, cached or not.
FindDevice(q) ==
  /\ At(q, "fire", "find") \/ At(q, "resolve", "find")
  /\ Fleet!Ask(q, FALSE)
  /\ Step(q, "found")
  /\ UNCHANGED <<attributes, alarm, pass, due, cooldown, verdict, runVars,
                 reports, signals, faults, believed>>

\* launchWorkflowRun comes first ...
LaunchRun(q) ==
  /\ At(q, "fire", "found") /\ got[q].stage = "has"
  /\ launched' = launched + 1
  /\ Step(q, "count")
  /\ Fleet!Forget(q)
  /\ UNCHANGED <<attributes, alarm, pass, due, cooldown, verdict, counted,
                 reports, signals, faults, believed, cache, inFlight, pull>>

CountFire(q) ==
  /\ At(q, "fire", "count")
  /\ counted' = counted + 1
  /\ Step(q, "mark")
  /\ UNCHANGED <<attributes, alarm, pass, due, cooldown, verdict, launched,
                 reports, signals, faults, believed, listVars>>

StaysResolved(q) ==   \* Variation: the upsert's update leaves the status alone.
  /\ At(q, "fire", "mark")
  /\ alarm' = IF alarm = "none" THEN "active" ELSE alarm
  /\ Step(q, "case")
  /\ UNCHANGED <<attributes, pass, due, cooldown, verdict, runVars, reports,
                 signals, faults, believed, listVars>>

\* ... then the device is marked; a fire re-activates whatever came before.
MarkFired(q) ==
  /\ At(q, "fire", "mark")
  /\ alarm' = "active"
  /\ Step(q, "case")
  /\ UNCHANGED <<attributes, pass, due, cooldown, verdict, runVars, reports,
                 signals, faults, believed, listVars>>

MarkResolved(q) ==
  /\ At(q, "resolve", "found") /\ got[q].stage = "has"
  /\ alarm' = "resolved"
  /\ Step(q, "answer")
  /\ Fleet!Forget(q)
  /\ UNCHANGED <<attributes, pass, due, cooldown, verdict, runVars, reports,
                 signals, faults, believed, cache, inFlight, pull>>

OpenCase(q) ==
  /\ At(q, "fire", "case")
  /\ Step(q, "answer")
  /\ UNCHANGED <<attributes, alarm, pass, due, cooldown, verdict, runVars,
                 reports, signals, faults, believed, listVars>>

Meaning(q) == IF call[q].kind = "fire" THEN "active" ELSE "resolved"

Answer(q) ==
  /\ call[q].stage = "answer"
  /\ ForceEvaluation
  /\ believed' = {Meaning(q)}
  /\ call' = [call EXCEPT ![q] = NoCall]
  /\ UNCHANGED <<attributes, alarm, due, verdict, runVars, reports, signals,
                 faults, listVars>>

\* Any awaited call may throw, the pull it waited for included: the caller gets
\* an error, and what was done so far stays.
CallFails(q) ==
  /\ \/ /\ faults < MaxFaults /\ faults' = faults + 1
        /\ call[q].stage \in {"find", "count", "mark", "case", "store"} \/ got[q].stage = "has"
     \/ /\ got[q].stage = "failed" /\ UNCHANGED faults
  /\ believed' = IF call[q].kind = "report" THEN believed ELSE believed \cup {Meaning(q)}
  /\ call' = [call EXCEPT ![q] = NoCall]
  /\ Fleet!Forget(q)
  /\ UNCHANGED <<attributes, alarm, pass, due, cooldown, verdict, runVars,
                 reports, signals, cache, inFlight, pull>>

---------------------------------------------------------------------------
(* Passes: the pull, the verdict on the device, and the end *)

PolicyBecomesDue ==
  /\ ~due /\ due' = TRUE
  /\ UNCHANGED <<attributes, alarm, call, pass, cooldown, verdict, runVars,
                 reports, signals, faults, believed, listVars>>

TickStarts ==
  /\ pass[Tick] = "idle" /\ due
  /\ pass' = [pass EXCEPT ![Tick] = "starting"]
  /\ UNCHANGED <<attributes, alarm, call, due, cooldown, verdict, runVars,
                 reports, signals, faults, believed, listVars>>

\* runComplianceEvaluation always refreshes.
PassAsks(p) ==
  /\ pass[p] = "starting"
  /\ Fleet!Ask(p, TRUE)
  /\ pass' = [pass EXCEPT ![p] = "judging"]
  /\ UNCHANGED <<attributes, alarm, call, due, cooldown, verdict, runVars,
                 reports, signals, faults, believed>>

\* The verdict is saved; only a pass over every device stamps lastEvaluatedAt.
Judge(p) ==
  /\ pass[p] = "judging" /\ got[p].stage = "has"
  /\ verdict' = got[p].list
  /\ pass' = [pass EXCEPT ![p] = "idle"]
  /\ due' = IF p = Tick THEN FALSE ELSE due
  /\ Fleet!Forget(p)
  /\ UNCHANGED <<attributes, alarm, call, cooldown, runVars, reports, signals,
                 faults, believed, cache, inFlight, pull>>

PassFails(p) ==
  /\ pass[p] = "judging"
  /\ \/ got[p].stage = "failed" /\ UNCHANGED faults
     \/ got[p].stage = "has" /\ faults < MaxFaults /\ faults' = faults + 1
  /\ pass' = [pass EXCEPT ![p] = "idle"]
  /\ Fleet!Forget(p)
  /\ UNCHANGED <<attributes, alarm, call, due, cooldown, verdict, runVars,
                 reports, signals, believed, cache, inFlight, pull>>

---------------------------------------------------------------------------
FleetStep ==
  /\ \/ \E k \in 1..2 : Fleet!PullReads(k) \/ Fleet!PullReturns(k)
     \/ Fleet!Expire
  /\ UNCHANGED <<attributes, alarm, call, pass, due, cooldown, verdict, runVars,
                 reports, signals, faults, believed>>

FleetFails ==
  /\ faults < MaxFaults /\ faults' = faults + 1
  /\ \E k \in 1..2 : Fleet!PullFails(k)
  /\ UNCHANGED <<attributes, alarm, call, pass, due, cooldown, verdict, runVars,
                 reports, signals, believed>>

HandleCall(q) ==
  \/ StoreReport(q) \/ DropAndEvaluate(q) \/ FindDevice(q) \/ LaunchRun(q)
  \/ CountFire(q) \/ MarkFired(q) \/ MarkResolved(q) \/ OpenCase(q) \/ Answer(q)
  \/ CallFails(q)
RunPass(p) == PassAsks(p) \/ Judge(p) \/ PassFails(p)

Next ==
  \/ ReportArrives \/ \E q \in Calls : HandleCall(q)
  \/ \E q \in ToolCalls, kind \in {"fire", "resolve"} : SignalArrives(q, kind)
  \/ \E p \in Passes : RunPass(p)
  \/ TickStarts \/ PolicyBecomesDue \/ CooldownEnds \/ FleetStep \/ FleetFails

Spec == Init /\ [][Next]_vars

\* Awaited calls answer, intervals end, and the scheduler ticks for ever.
Fairness ==
  /\ \A p \in Passes : WF_vars(RunPass(p))
  /\ \A q \in Calls : WF_vars(HandleCall(q))
  /\ WF_vars(TickStarts) /\ WF_vars(PolicyBecomesDue) /\ WF_vars(CooldownEnds)
  /\ \A k \in 1..2 : WF_vars((Fleet!PullReads(k) \/ Fleet!PullReturns(k)) /\ FleetStep)

FairSpec == Spec /\ Fairness

---------------------------------------------------------------------------
(* Properties *)

TypeOK ==
  /\ attributes \in 0..MaxInputs /\ alarm \in {"none", "active", "resolved"}
  /\ \A q \in Calls : call[q].kind \in {"none", "report", "fire", "resolve"}
  /\ pass \in [Passes -> {"idle", "starting", "judging"}]
  /\ due \in BOOLEAN /\ cooldown \in BOOLEAN
  /\ counted <= launched
  /\ Fleet!TypeOK

\* A tool that sends its calls one after the other finds the device marked the
\* way its last call asked for; after a call that failed, that way or as before.
AlarmFollowsSender ==
  (\A q \in ToolCalls : Free(q)) => alarm \in believed

\* Requests are coalesced, so the list served never goes back to older
\* attributes, however long a pull takes and whoever asks meanwhile.
ListsNeverGoBack ==
  [][cache # NoList /\ cache' # NoList => cache'.attributes >= cache.attributes]_vars

\* A report or signal whose forced evaluation was refused by the cooldown, or
\* joined a pull that had read the device before, is judged in the end: when
\* nothing more comes in, the verdict is that of what is stored.
VerdictConverges ==
  <>[](verdict = [attributes |-> attributes, alarm |-> alarm])
=============================================================================
