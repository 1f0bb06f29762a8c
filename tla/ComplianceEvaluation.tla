------------------------ MODULE ComplianceEvaluation ------------------------
(***************************************************************************)
(* The evaluation of compliance policies (compliance.service.ts): passes   *)
(* that flag the devices violating a policy, launch its workflow or queue  *)
(* the violation for review, and forget the flag on recovery; the reviewers *)
(* who approve or dismiss violations; the administrator who saves and      *)
(* deletes policies; the autoRun circuit breaker and the daily alert limit. *)
(*                                                                         *)
(* The flags are one JSON value per workspace, which every writer loads    *)
(* whole and saves whole.  A pass is started by the scheduler, by an       *)
(* administrator or by a device, and nothing keeps two from overlapping.   *)
(***************************************************************************)
EXTENDS Integers, Sequences, FiniteSets, Functions

CONSTANTS
  Policies, Devices,
  WorkflowOf,     \* [policy -> [device -> the workflow run on a violation]]
  NoWorkflow,
  BatchCap,       \* [policy -> autoRunBatchCap]
  NoCap,          \* "No limit"
  Threshold,      \* AUTORUN_CIRCUIT_BREAKER_THRESHOLD
  AlertMax,       \* alertWebhookMaxPerDay
  Scopes,         \* what a pass may be asked to evaluate: [policies, devices]
  Saves,          \* what an administrator may save: [autoRun, enabled, scope]
  MayViolate,     \* the pairs whose device may come to violate the policy
  Passes, Reviewers,
  OnePass,        \* a pass starts only when no other is in flight
  QuietState,     \* nobody else holds a copy of the flags while a pass runs
  FailsAt,        \* the stages at which a pass may throw or be cut short
  MaxFlips,       \* bound: times a pair comes to match or stops matching
  MaxActs,        \* bound: saves, deletions, reviews, edits, days and failures
  MaxEvents       \* bound: both together

VARIABLES
  policy,       \* the CompliancePolicy rows
  destructive,  \* the workflows that hold a destructive step
  violating,    \* the pairs <<policy, device>> that match the conditions now
  state,        \* ComplianceEvaluationState: the flags
  rows,         \* the ComplianceViolation rows, by id
  runs,         \* the workflow runs, in launch order
  pass, reviewer, admin,
  autoLaunches, \* history: launches by passes since a pair last recovered
  failedThen,   \* history: the failed runs when a save last cleared a trip
  sent, day,    \* history: alerts of a policy sent today; the date
  uncounted,    \* history: those of them the policy's counter does not hold
  nextId, flips, acts

vars == <<policy, destructive, violating, state, rows, runs, pass, reviewer, admin,
          autoLaunches, failedThen, sent, day, uncounted, nextId, flips, acts>>

Pairs     == Policies \X Devices
Workflows == {WorkflowOf[p][d] : p \in Policies, d \in Devices} \ {NoWorkflow}
HasFlow(p) == \A d \in Devices : WorkflowOf[p][d] # NoWorkflow

Statuses  == {"autorun_blocked", "autorun_capped", "auto_fired", "no_workflow",
              "pending", "approved", "dismissed"}
FailedRuns == {r \in DOMAIN runs : runs[r].outcome = "failed"}
NoFlag    == [violation |-> 0, status |-> "none"]
Flag(v, s) == [violation |-> v, status |-> s]
Flagged(map, k) == map[k] # NoFlag
NoFlags   == [k \in Pairs |-> NoFlag]
NoRows    == [v \in {} |-> 0]
NoRuns    == [key \in Workflows \X Devices |-> 0]

\* todo, current: the policies to come and the one at hand; left: its devices to come.
\* seen, matched, old, destructive: what the pass has read.  map, new: the flags and rows
\* it will save.  launched: its runs.  fired: those of the policy.  alerts: to be sent.
\* count, today: the counter of the alert just tried, and the date it is for.
IdlePass  == [stage |-> "idle", todo |-> {}, current |-> "none", devices |-> {}, left |-> {},
              seen |-> NoRows, matched |-> {}, old |-> NoRows, destructive |-> {},
              map |-> NoFlags, new |-> NoRows, launched |-> NoRuns,
              blocked |-> FALSE, fired |-> 0, alerts |-> {}, count |-> 0, today |-> 0]
IdleReviewer == [stage |-> "idle"]
IdleAdmin == [stage |-> "idle"]

ASSUME ComplianceAssumption ==
  /\ BatchCap \in [Policies -> (Nat \ {0}) \cup {NoCap}]
  /\ \A p \in Policies : DOMAIN WorkflowOf[p] = Devices
  /\ Threshold \in Nat \ {0} /\ AlertMax \in Nat
  /\ \A s \in Scopes : s.policies \subseteq Policies /\ s.devices \subseteq Devices
  /\ FailsAt \subseteq {"pull", "load", "policy", "device", "save", "rows", "alerts", "count"}
  /\ Saves \subseteq [autoRun : BOOLEAN, enabled : BOOLEAN, scope : SUBSET Devices]
  /\ MayViolate \subseteq Pairs /\ {OnePass, QuietState} \subseteq BOOLEAN
  /\ {MaxFlips, MaxActs, MaxEvents} \subseteq Nat

TypeOK ==
  /\ DOMAIN policy \subseteq Policies
  /\ \A p \in DOMAIN policy : /\ policy[p].alertsSent \in 0..AlertMax
                              /\ policy[p].scope \subseteq Devices
  /\ destructive \subseteq Workflows
  /\ violating \subseteq Pairs
  /\ \A k \in Pairs : state[k].violation \in 0..nextId
  /\ \A v \in DOMAIN rows : /\ rows[v].status \in Statuses
                            /\ rows[v].policy \in Policies /\ rows[v].device \in Devices
                            /\ rows[v].run \in 0..Len(runs)
  /\ \A r \in DOMAIN runs : runs[r].outcome \in {"running", "failed", "success"}
  /\ flips \in 0..MaxFlips /\ acts \in 0..MaxActs

Init ==
  /\ policy = [p \in Policies |->
       [autoRun |-> HasFlow(p), enabled |-> TRUE, scope |-> Devices,
        acked |-> FALSE, tripped |-> FALSE, alertsSent |-> 0, alertsDate |-> 0]]
  /\ destructive = {} /\ violating = {} /\ state = NoFlags /\ rows = NoRows /\ runs = <<>>
  /\ pass = [x \in Passes |-> IdlePass] /\ reviewer = [r \in Reviewers |-> IdleReviewer]
  /\ admin = IdleAdmin
  /\ autoLaunches = [k \in Pairs |-> 0] /\ failedThen = [p \in Policies |-> {}]
  /\ sent = [p \in Policies |-> 0] /\ uncounted = [p \in Policies |-> 0]
  /\ day = 1 /\ nextId = 0
  /\ flips = 0 /\ acts = 0

Act == /\ acts < MaxActs /\ flips + acts < MaxEvents
       /\ acts' = acts + 1 /\ UNCHANGED flips

\* Nobody but a pass holds, or is about to save, a copy of the flags.
FlagsFree == /\ admin.stage = "idle"
             /\ \A r \in Reviewers : reviewer[r].stage # "save"
NoPass    == \A x \in Passes : pass[x].stage = "idle"

---------------------------------------------------------------------------
(* A pass: runComplianceEvaluation *)

\* The enabled policies, read once; what they said is not read again.
StartPass(x) ==
  /\ pass[x].stage = "idle"
  /\ OnePass => NoPass
  /\ QuietState => FlagsFree
  /\ \E s \in Scopes :
       LET todo == {p \in s.policies \cap DOMAIN policy : policy[p].enabled}
       IN /\ todo # {}
          /\ pass' = [pass EXCEPT ![x].stage = "pull", ![x].todo = todo, ![x].seen = policy,
                                  ![x].devices = s.devices]
  /\ UNCHANGED <<policy, destructive, violating, state, rows, runs, reviewer, admin,
                 autoLaunches, failedThen, sent, day, uncounted, nextId, flips, acts>>

\* getDevicesFull: the devices as they are now.
PullDevices(x) ==
  /\ pass[x].stage = "pull"
  /\ pass' = [pass EXCEPT ![x].stage = "load", ![x].matched = violating]
  /\ UNCHANGED <<policy, destructive, violating, state, rows, runs, reviewer, admin,
                 autoLaunches, failedThen, sent, day, uncounted, nextId, flips, acts>>

\* The workflows, the flags and the violations.
LoadState(x) ==
  /\ pass[x].stage = "load"
  /\ pass' = [pass EXCEPT ![x].stage = "policy", ![x].map = state, ![x].old = rows,
                          ![x].destructive = destructive]
  /\ UNCHANGED <<policy, destructive, violating, state, rows, runs, reviewer, admin,
                 autoLaunches, failedThen, sent, day, uncounted, nextId, flips, acts>>

\* autorunCircuitBreakerCheck: the latest finished automatic runs all failed.
BreakerTrips(p, old) ==
  LET finished == {v \in DOMAIN old : /\ old[v].policy = p /\ old[v].status = "auto_fired"
                                      /\ runs[old[v].run].outcome # "running"}
      latest   == {v \in finished : Cardinality({u \in finished : u > v}) < Threshold}
  IN  /\ Cardinality(latest) = Threshold
      /\ \A v \in latest : runs[old[v].run].outcome = "failed"

Unacknowledged(x, p) == /\ Range(WorkflowOf[p]) \cap pass[x].destructive # {}
                        /\ ~pass[x].seen[p].acked

\* Once per policy, in whatever order the query gave: may it run on its own in
\* this pass?  A trip is saved at once; the update of a policy deleted meanwhile throws
\* and ends the pass.  Only the devices of its audience and platform are evaluated.
JudgePolicy(x) ==
  /\ pass[x].stage = "policy"
  /\ \E p \in pass[x].todo :
       LET auto  == pass[x].seen[p].autoRun /\ HasFlow(p)
           held  == auto /\ (pass[x].seen[p].tripped \/ Unacknowledged(x, p))
           trips == auto /\ ~held /\ BreakerTrips(p, pass[x].old)
       IN IF trips /\ p \notin DOMAIN policy
          THEN pass' = [pass EXCEPT ![x] = IdlePass] /\ UNCHANGED policy
          ELSE /\ policy' = IF trips THEN [policy EXCEPT ![p].tripped = TRUE] ELSE policy
               /\ pass' = [pass EXCEPT
                    ![x].stage = "device", ![x].current = p, ![x].todo = @ \ {p},
                    ![x].left = pass[x].devices \cap pass[x].seen[p].scope,
                    ![x].blocked = held \/ trips, ![x].fired = 0]
  /\ UNCHANGED <<destructive, violating, state, rows, runs, reviewer, admin,
                 autoLaunches, failedThen, sent, day, uncounted, nextId, flips, acts>>

CapLate(x, p) ==   \* Variation: the cap is compared one launch too late.
  BatchCap[p] # NoCap /\ pass[x].fired > BatchCap[p]
CapReached(x, p) == BatchCap[p] # NoCap /\ pass[x].fired >= BatchCap[p]

\* The status of a new violation.
Verdict(x, p) ==
  LET auto == pass[x].seen[p].autoRun /\ HasFlow(p)
  IN CASE auto /\ pass[x].blocked                            -> "autorun_blocked"
       [] auto /\ ~pass[x].blocked /\ CapReached(x, p)       -> "autorun_capped"
       [] auto /\ ~pass[x].blocked /\ ~CapReached(x, p)      -> "auto_fired"
       [] ~auto /\ ~HasFlow(p)                               -> "no_workflow"
       [] ~auto /\ HasFlow(p)                                -> "pending"

NeverShared(x, p, d) == 0   \* Variation: every policy launches for itself.
\* The run of the same workflow launched for the device earlier in this pass.
SharedRun(x, p, d) == pass[x].launched[<<WorkflowOf[p][d], d>>]

NewRun(p, d, auto) == [workflow |-> WorkflowOf[p][d], device |-> d, policy |-> p,
                       auto |-> auto, outcome |-> "running"]

KeepFlag(map, k) == map   \* Variation: recovery leaves the flag.
Unflag(map, k)   == [map EXCEPT ![k] = NoFlag]

Recover(x, d) ==
  LET k == <<pass[x].current, d>> IN
  /\ k \notin pass[x].matched
  /\ pass' = [pass EXCEPT ![x].left = @ \ {d},
                          ![x].map = IF Flagged(@, k) THEN Unflag(@, k) ELSE @]
  /\ autoLaunches' = IF Flagged(pass[x].map, k) THEN [autoLaunches EXCEPT ![k] = 0]
                     ELSE autoLaunches
  /\ UNCHANGED <<runs, nextId>>

StillFlagged(x, d) ==
  LET k == <<pass[x].current, d>> IN
  /\ k \in pass[x].matched /\ Flagged(pass[x].map, k)
  /\ pass' = [pass EXCEPT ![x].left = @ \ {d}]
  /\ UNCHANGED <<runs, nextId, autoLaunches>>

\* rows with one more, or with those of more.
With(more, all) == [v \in DOMAIN more \cup DOMAIN all |->
                      IF v \in DOMAIN more THEN more[v] ELSE all[v]]

NewViolation(x, d) ==
  LET c == pass[x]
      p == c.current
      k == <<p, d>>
      v == nextId + 1
      status == Verdict(x, p)
      fires  == status = "auto_fired"
      shared == SharedRun(x, p, d)
      launch == fires /\ shared = 0
      run    == IF ~fires THEN 0 ELSE IF launch THEN Len(runs) + 1 ELSE shared
      row    == [policy |-> p, device |-> d, status |-> status, run |-> run]
  IN
  /\ k \in c.matched /\ ~Flagged(c.map, k)
  /\ nextId' = v
  /\ runs' = IF launch THEN Append(runs, NewRun(p, d, TRUE)) ELSE runs
  /\ autoLaunches' = IF launch THEN [autoLaunches EXCEPT ![k] = @ + 1] ELSE autoLaunches
  /\ pass' = [pass EXCEPT ![x] =
       [c EXCEPT
          !.left = c.left \ {d}, !.map = [c.map EXCEPT ![k] = Flag(v, status)],
          !.new = With([u \in {v} |-> row], c.new),
          !.launched = [c.launched EXCEPT ![<<WorkflowOf[p][d], d>>] =
                          IF launch THEN run ELSE @],
          !.fired = IF fires THEN c.fired + 1 ELSE c.fired]]

\* The devices come in the order of the list that was pulled.
EvaluateDevice(x) ==
  /\ pass[x].stage = "device" /\ pass[x].left # {}
  /\ LET d == CHOOSE d \in pass[x].left : TRUE
     IN Recover(x, d) \/ StillFlagged(x, d) \/ NewViolation(x, d)
  /\ UNCHANGED <<policy, destructive, violating, state, rows, reviewer, admin,
                  failedThen, sent, day, uncounted, flips, acts>>

\* Past the last device of the policy.
EndPolicy(x) ==
  /\ pass[x].stage = "device" /\ pass[x].left = {}
  /\ LET p     == pass[x].current
         found == \E v \in DOMAIN pass[x].new : pass[x].new[v].policy = p
     IN pass' = [pass EXCEPT ![x].stage = IF pass[x].todo = {} THEN "save" ELSE "policy",
                             ![x].alerts = IF found THEN @ \cup {p} ELSE @]
  /\ UNCHANGED <<policy, destructive, violating, state, rows, runs, reviewer, admin,
                 autoLaunches, failedThen, sent, day, uncounted, nextId, flips, acts>>

\* saveComplianceState, then createMany.
SaveState(x) ==
  /\ pass[x].stage = "save"
  /\ state' = pass[x].map
  /\ pass' = [pass EXCEPT ![x].stage = "rows"]
  /\ UNCHANGED <<policy, destructive, violating, rows, runs, reviewer, admin,
                 autoLaunches, failedThen, sent, day, uncounted, nextId, flips, acts>>

CreateViolations(x) ==
  /\ pass[x].stage = "rows"
  /\ rows' = With(pass[x].new, rows)
  /\ pass' = [pass EXCEPT ![x] = IF @.alerts = {} THEN IdlePass
                                 ELSE [IdlePass EXCEPT !.stage = "alerts", !.seen = pass[x].seen,
                                                       !.alerts = pass[x].alerts]]
  /\ UNCHANGED <<policy, destructive, violating, state, runs, reviewer, admin,
                 autoLaunches, failedThen, sent, day, uncounted, nextId, flips, acts>>

AlertsForgotten(c) == 0   \* Variation: the counter is not read back.
\* The counter of the policy as the pass read it, void on another day.
AlertsToday(c) == IF c.alertsDate = day THEN c.alertsSent ELSE 0

SentAfter(so) == IF so < AlertMax THEN so + 1 ELSE so

\* firePolicyViolationAlert: one message per policy with new violations, unless
\* its limit for the day is reached.
SendAlert(x) ==
  /\ pass[x].stage = "alerts"
  /\ \E p \in pass[x].alerts :
       LET so == AlertsToday(pass[x].seen[p]) IN
       /\ sent' = IF so < AlertMax THEN [sent EXCEPT ![p] = @ + 1] ELSE sent
       /\ pass' = [pass EXCEPT ![x].stage = "count", ![x].current = p, ![x].alerts = @ \ {p},
                               ![x].count = SentAfter(so), ![x].today = day]
  /\ UNCHANGED <<policy, destructive, violating, state, rows, runs, reviewer, admin,
                 autoLaunches, failedThen, day, uncounted, nextId, flips, acts>>

\* The delivery fails, for all the sender knows: the alert does not count.
AlertFails(x) ==
  /\ pass[x].stage = "alerts" /\ "alerts" \in FailsAt
  /\ Act
  /\ \E p \in pass[x].alerts, delivered \in {0, 1} :
       LET so == AlertsToday(pass[x].seen[p]) IN
       /\ so < AlertMax
       /\ sent' = [sent EXCEPT ![p] = @ + delivered]
       /\ uncounted' = [uncounted EXCEPT ![p] = @ + delivered]
       /\ pass' = [pass EXCEPT ![x].stage = "count", ![x].current = p, ![x].alerts = @ \ {p},
                               ![x].count = so, ![x].today = day]
  /\ UNCHANGED <<policy, destructive, violating, state, rows, runs, reviewer, admin,
                 autoLaunches, failedThen, day, nextId>>

\* The next alert, or the end of the pass.
AfterCount(x) == [pass EXCEPT ![x] = IF @.alerts = {} THEN IdlePass
                                     ELSE [@ EXCEPT !.stage = "alerts"]]

\* The counter is written after the alert was sent; that of a deleted policy is not.
CountAlert(x) ==
  /\ pass[x].stage = "count"
  /\ LET c == pass[x]
         p == c.current
     IN policy' = IF p \in DOMAIN policy
                  THEN [policy EXCEPT ![p].alertsSent = c.count, ![p].alertsDate = c.today]
                  ELSE policy
  /\ pass' = AfterCount(x)
  /\ UNCHANGED <<destructive, violating, state, rows, runs, reviewer, admin,
                 autoLaunches, failedThen, sent, day, uncounted, nextId, flips, acts>>

\* What the write at hand would add to the counter of today.
Uncounted(x) == IF pass[x].stage = "count" /\ pass[x].today = day
                THEN pass[x].count - AlertsToday(pass[x].seen[pass[x].current]) ELSE 0
Loses(x) == uncounted' = [p \in Policies |-> uncounted[p] +
                            IF p = pass[x].current THEN Uncounted(x) ELSE 0]

\* The write fails, which is logged and nothing else.
CountFails(x) ==
  /\ pass[x].stage = "count" /\ "count" \in FailsAt
  /\ Act
  /\ pass' = AfterCount(x) /\ Loses(x)
  /\ UNCHANGED <<policy, destructive, violating, state, rows, runs, reviewer, admin,
                 autoLaunches, failedThen, sent, day, nextId>>

\* A call of the pass throws, or the process stops: nothing is undone.
PassFails(x) ==
  /\ pass[x].stage \in FailsAt
  /\ Act
  /\ pass' = [pass EXCEPT ![x] = IdlePass] /\ Loses(x)
  /\ UNCHANGED <<policy, destructive, violating, state, rows, runs, reviewer, admin,
                 autoLaunches, failedThen, sent, day, nextId>>

Evaluate(x) == \/ PullDevices(x) \/ LoadState(x) \/ JudgePolicy(x) \/ EvaluateDevice(x)
               \/ EndPolicy(x) \/ SaveState(x) \/ CreateViolations(x) \/ SendAlert(x) \/ CountAlert(x)

Breaks(x) == AlertFails(x) \/ CountFails(x) \/ PassFails(x)

---------------------------------------------------------------------------
(* Reviewers: approveViolationCore, dismissViolationCore *)

ReviewUnchanged == UNCHANGED <<policy, destructive, violating, pass, admin, autoLaunches,
                               failedThen, sent, day, uncounted, nextId>>

\* The status is looked at once, before the launch.  Every other status is
\* those of the violations a safety limit sent to review included.
Approve(r, v) ==
  /\ reviewer[r].stage = "idle" /\ v \in DOMAIN rows /\ rows[v].status = "pending"
  /\ Act
  /\ reviewer' = [reviewer EXCEPT ![r] =
       [stage |-> "launch", violation |-> v, pair |-> <<rows[v].policy, rows[v].device>>]]
  /\ UNCHANGED <<state, rows, runs>> /\ ReviewUnchanged

LaunchApproved(r) ==
  /\ reviewer[r].stage = "launch"
  /\ runs' = Append(runs, NewRun(reviewer[r].pair[1], reviewer[r].pair[2], FALSE))
  /\ reviewer' = [reviewer EXCEPT ![r] =
       [stage |-> "update", violation |-> @.violation, pair |-> @.pair, run |-> Len(runs) + 1]]
  /\ UNCHANGED <<state, rows, flips, acts>> /\ ReviewUnchanged

\* The update of a row deleted meanwhile throws.
RecordApproval(r) ==
  /\ reviewer[r].stage = "update"
  /\ LET v == reviewer[r].violation
     IN IF v \in DOMAIN rows
        THEN /\ rows' = [rows EXCEPT ![v].status = "approved", ![v].run = reviewer[r].run]
             /\ reviewer' = [reviewer EXCEPT ![r] =
                  [stage |-> "load", verdict |-> "approved", pair |-> @.pair]]
        ELSE reviewer' = [reviewer EXCEPT ![r] = IdleReviewer] /\ UNCHANGED rows
  /\ UNCHANGED <<state, runs, flips, acts>> /\ ReviewUnchanged

\* Whatever the status is.
Dismiss(r, v) ==
  /\ reviewer[r].stage = "idle" /\ v \in DOMAIN rows
  /\ Act
  /\ rows' = [rows EXCEPT ![v].status = "dismissed"]
  /\ reviewer' = [reviewer EXCEPT ![r] =
       [stage |-> "load", verdict |-> "dismissed",
        pair |-> <<rows[v].policy, rows[v].device>>]]
  /\ UNCHANGED <<state, runs>> /\ ReviewUnchanged

Cleared(k, verdict)  == [state EXCEPT ![k] = NoFlag]   \* Variation: the review ends it.
Reviewed(k, verdict) == [state EXCEPT ![k].status = verdict]

LoadFlags(r) ==
  /\ reviewer[r].stage = "load"
  /\ QuietState => NoPass /\ FlagsFree
  /\ LET k == reviewer[r].pair
     IN reviewer' = [reviewer EXCEPT ![r] =
          IF Flagged(state, k)
          THEN [stage |-> "save", map |-> Reviewed(k, reviewer[r].verdict)]
          ELSE IdleReviewer]
  /\ UNCHANGED <<state, rows, runs, flips, acts>> /\ ReviewUnchanged

SaveFlags(r) ==
  /\ reviewer[r].stage = "save"
  /\ state' = reviewer[r].map
  /\ reviewer' = [reviewer EXCEPT ![r] = IdleReviewer]
  /\ UNCHANGED <<rows, runs, flips, acts>> /\ ReviewUnchanged

Review(r) == LaunchApproved(r) \/ RecordApproval(r) \/ LoadFlags(r) \/ SaveFlags(r)

---------------------------------------------------------------------------
(* The administrator: updateCompliancePolicy, deleteCompliancePolicy *)

AdminUnchanged == UNCHANGED <<destructive, violating, runs, pass, reviewer, autoLaunches,
                               sent, day, uncounted, nextId>>

\* A save re-arms autoRun; a destructive workflow must be acknowledged.  It
\* leaves the flags alone, those of devices it no longer covers included.
SavePolicy(p, s) ==
  /\ p \in DOMAIN policy /\ (s.autoRun => HasFlow(p))
  /\ Act
  /\ policy' = [policy EXCEPT
       ![p].autoRun = s.autoRun, ![p].enabled = s.enabled, ![p].scope = s.scope,
       ![p].tripped = FALSE,
       ![p].acked = s.autoRun /\ Range(WorkflowOf[p]) \cap destructive # {}]
  /\ failedThen' = IF policy[p].tripped THEN [failedThen EXCEPT ![p] = FailedRuns]
                   ELSE failedThen
  /\ UNCHANGED <<state, rows, admin>> /\ AdminUnchanged

DeleteViolations(p) ==
  /\ admin.stage = "idle" /\ p \in DOMAIN policy
  /\ QuietState => NoPass /\ FlagsFree
  /\ Act
  /\ rows' = [v \in {u \in DOMAIN rows : rows[u].policy # p} |-> rows[v]]
  /\ admin' = [stage |-> "load", policy |-> p]
  /\ UNCHANGED <<policy, state, failedThen>> /\ AdminUnchanged

KeepFlags(p) == state   \* Variation: the flags of the policy are kept.
Purged(p) == [k \in Pairs |-> IF k[1] = p THEN NoFlag ELSE state[k]]

LoadForDelete ==
  /\ admin.stage = "load"
  /\ admin' = IF Purged(admin.policy) = state
              THEN [stage |-> "policy", policy |-> admin.policy]
              ELSE [stage |-> "save", policy |-> admin.policy, map |-> Purged(admin.policy)]
  /\ UNCHANGED <<policy, state, rows, failedThen, flips, acts>> /\ AdminUnchanged

SavePurged ==
  /\ admin.stage = "save"
  /\ state' = admin.map
  /\ admin' = [stage |-> "policy", policy |-> admin.policy]
  /\ UNCHANGED <<policy, rows, failedThen, flips, acts>> /\ AdminUnchanged

DeletePolicy ==
  /\ admin.stage = "policy"
  /\ policy' = [p \in DOMAIN policy \ {admin.policy} |-> policy[p]]
  /\ admin' = IdleAdmin
  /\ UNCHANGED <<state, rows, failedThen, flips, acts>> /\ AdminUnchanged

---------------------------------------------------------------------------
(* The fleet, the runs and the calendar *)

WorldUnchanged == UNCHANGED <<policy, state, rows, pass, reviewer, admin, autoLaunches,
                               nextId>>

Flip(k) ==
  /\ flips < MaxFlips /\ flips + acts < MaxEvents
  /\ flips' = flips + 1 /\ UNCHANGED acts
  /\ violating' = IF k \in violating THEN violating \ {k} ELSE violating \cup {k}
  /\ UNCHANGED <<destructive, runs, failedThen, sent, day, uncounted>> /\ WorldUnchanged

\* The outcome of a run on its one device.
RunEnds(r, outcome) ==
  /\ runs[r].outcome = "running"
  /\ runs' = [runs EXCEPT ![r].outcome = outcome]
  /\ UNCHANGED <<destructive, violating, failedThen, sent, day, uncounted, flips, acts>>
  /\ WorldUnchanged

WorkflowEdited(w) ==
  /\ w \notin destructive
  /\ Act
  /\ destructive' = destructive \cup {w}
  /\ UNCHANGED <<violating, runs, failedThen, sent, day, uncounted>> /\ WorldUnchanged

NewDay ==
  /\ Act
  /\ day' = day + 1 /\ sent' = [p \in Policies |-> 0] /\ uncounted' = [p \in Policies |-> 0]
  /\ UNCHANGED <<destructive, violating, runs, failedThen>> /\ WorldUnchanged

Next ==
  \/ \E x \in Passes : StartPass(x) \/ Evaluate(x) \/ Breaks(x)
  \/ \E r \in Reviewers : \/ Review(r)
                          \/ \E v \in DOMAIN rows : Approve(r, v) \/ Dismiss(r, v)
  \/ \E p \in Policies : DeleteViolations(p) \/ \E s \in Saves : SavePolicy(p, s)
  \/ LoadForDelete \/ SavePurged \/ DeletePolicy
  \/ \E k \in MayViolate : Flip(k)
  \/ \E r \in DOMAIN runs : \E o \in {"failed", "success"} : RunEnds(r, o)
  \/ \E w \in Workflows : WorkflowEdited(w)
  \/ NewDay

Spec == Init /\ [][Next]_vars

\* The event loop carries on what has begun, and the scheduler's tick starts a
\* pass again and again.  Runs may never end, reviewers may never come.
Fairness == /\ \A x \in Passes : WF_vars(Evaluate(x))
            /\ WF_vars(\E x \in Passes : StartPass(x))
            /\ \A r \in Reviewers : WF_vars(Review(r))
            /\ WF_vars(LoadForDelete \/ SavePurged \/ DeletePolicy)

FairSpec == Spec /\ Fairness

---------------------------------------------------------------------------
(* Properties *)

\* A pair that violates a policy is remediated automatically at most once
\* until a pass has seen it recover: what the flags are for (lines 272-274).
OneAutoLaunch == \A k \in Pairs : autoLaunches[k] <= 1

\* Every flag names a violation row of its own pair, the one reviewers see,
\* except while the pass or the deletion that makes it so is under way.
FlagsHaveRows ==
  \A k \in Pairs : Flagged(state, k) =>
    LET v == state[k].violation
        about(m) == v \in DOMAIN m /\ <<m[v].policy, m[v].device>> = k
    IN  \/ about(rows)
        \/ \E x \in Passes : pass[x].stage = "rows" /\ about(pass[x].new)
        \/ admin.stage # "idle" /\ admin.policy = k[1]

\* Policies that share a workflow launch it once per device in a pass: their
\* violations name the same run (firedWorkflowThisPass).
SharedWorkflowOnce ==
  \A x \in Passes : pass[x].stage \in {"device", "policy", "save", "rows"} =>
    \A v, u \in DOMAIN pass[x].new :
      LET a == pass[x].new[v]
          b == pass[x].new[u]
      IN (/\ {a.status, b.status} = {"auto_fired"} /\ a.device = b.device
          /\ WorkflowOf[a.policy][a.device] = WorkflowOf[b.policy][b.device])
         => a.run = b.run

\* One pass never remediates more devices of a policy than its batch cap.
WithinBatchCap ==
  \A x \in Passes : pass[x].stage \in {"device", "policy", "save", "rows"} =>
    \A p \in Policies : BatchCap[p] # NoCap =>
      Cardinality({v \in DOMAIN pass[x].new : /\ pass[x].new[v].policy = p
                                              /\ pass[x].new[v].status = "auto_fired"})
        <= BatchCap[p]

\* A policy sends no more alerts a day than its limit, and one more for every
\* alert that its counter does not hold: one that was delivered although its
\* delivery failed, or whose count was not stored.
DailyAlertLimit == \A p \in Policies : sent[p] <= AlertMax + uncounted[p]

\* Once devices stop changing, a device that an enabled policy covers is flagged
\* exactly if it violates it, and a deleted policy flags nobody.  The flags of
\* a disabled policy, or of a device it no longer covers, stay as they are.
FlagsConverge ==
  <>[](\A k \in Pairs :
         IF k[1] \in DOMAIN policy
         THEN policy[k[1]].enabled /\ k[2] \in policy[k[1]].scope =>
                (Flagged(state, k) <=> k \in violating)
         ELSE ~Flagged(state, k))

\* A policy whose trip was cleared by a save trips again only if a run has failed
\* since ("it re-trips on its own if the same failure repeats").
TripNeedsNewFailure ==
  [][\A p \in DOMAIN policy \cap DOMAIN policy' :
       ~policy[p].tripped /\ policy'[p].tripped => FailedRuns # failedThen[p]]_vars
=============================================================================
