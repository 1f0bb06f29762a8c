--------------------------- MODULE ComplianceProofs ---------------------------
(***************************************************************************)
(* What the passes promise, for any number of policies, devices, passes    *)
(* and reviewers: the batch cap and the shared run, whoever overlaps; the  *)
(* daily limit of alerts, as long as passes do not overlap; one launch per *)
(* violation and a row behind every flag, as long as nobody else holds the *)
(* flags meanwhile and no pass is cut short between a launch and its save. *)
(***************************************************************************)
EXTENDS ComplianceEvaluation, FiniteSetTheorems, TLAPS

---------------------------------------------------------------------------
(* Shapes: what the fields hold, given the last id n and the number of runs m *)

Fields == {"stage", "todo", "current", "devices", "left", "seen", "matched", "old",
           "destructive", "map", "new", "launched", "blocked", "fired", "alerts",
           "count", "today"}

PolicyRow == [autoRun : BOOLEAN, enabled : BOOLEAN, scope : SUBSET Devices,
              acked : BOOLEAN, tripped : BOOLEAN,
              alertsSent : 0..AlertMax, alertsDate : Nat]
Run == [workflow : Workflows \cup {NoWorkflow}, device : Devices, policy : Policies,
        auto : BOOLEAN, outcome : {"running", "failed", "success"}]

Table(t)   == DOMAIN t \subseteq Policies /\ t \in [DOMAIN t -> PolicyRow]
Map(g, n)  == /\ DOMAIN g = Pairs
              /\ \A k \in Pairs : \/ g[k] = NoFlag
                                  \/ g[k] \in [violation : 1..n, status : Statuses]
Listed(t, n, m) ==
  /\ DOMAIN t \subseteq 1..n
  /\ t \in [DOMAIN t -> [policy : Policies, device : Devices, status : Statuses, run : 0..m]]

PassFits(c, n, m) ==
  /\ DOMAIN c = Fields
  /\ c.stage \in {"idle", "pull", "load", "policy", "device", "save", "rows", "alerts",
                 "count"}
  /\ c.stage = "idle" => c = IdlePass
  /\ c.todo \cup c.alerts \subseteq DOMAIN c.seen
  /\ c.stage \in {"device", "count"} => c.current \in DOMAIN c.seen
  /\ c.count \in 0..AlertMax /\ c.today \in Nat
  /\ c.devices \cup c.left \subseteq Devices /\ c.matched \subseteq Pairs
  /\ Table(c.seen) /\ Map(c.map, n) /\ Listed(c.new, n, m) /\ IsFiniteSet(DOMAIN c.new)
  /\ c.launched \in [Workflows \X Devices -> 0..m] /\ c.fired \in Nat

ReviewFits(w, n, m) ==
  /\ w.stage \in {"launch", "update", "load"} => w.pair \in Pairs
  /\ w.stage = "update" => w.run \in 0..m
  /\ w.stage = "load" => w.verdict \in {"approved", "dismissed"}
  /\ w.stage = "save" => Map(w.map, n)

AdminFits(a, n) ==
  /\ a.stage # "idle" => a.policy \in Policies
  /\ a.stage = "save" => Map(a.map, n)

Shapes ==
  /\ Table(policy) /\ destructive \subseteq Workflows /\ violating \subseteq Pairs
  /\ nextId \in Nat /\ runs \in Seq(Run) /\ flips \in 0..MaxFlips /\ acts \in 0..MaxActs
  /\ day \in Nat
  /\ Map(state, nextId) /\ Listed(rows, nextId, Len(runs))
  /\ DOMAIN pass = Passes /\ \A x \in Passes : PassFits(pass[x], nextId, Len(runs))
  /\ DOMAIN reviewer = Reviewers /\ \A r \in Reviewers : ReviewFits(reviewer[r], nextId, Len(runs))
  /\ AdminFits(admin, nextId)

LEMMA NoFlagIsNone == NoFlag \notin [violation : Nat \ {0}, status : Statuses]
BY DEF NoFlag

\* More ids and more runs leave what was read as it was.
LEMMA MapGrows ==
  ASSUME NEW g, NEW n \in Nat, NEW n2 \in Nat, n <= n2, Map(g, n)
  PROVE  Map(g, n2)
<1>1. 1..n \subseteq 1..n2
  OBVIOUS
<1>2. QED
  BY <1>1 DEF Map

LEMMA ListedGrows ==
  ASSUME NEW t, NEW n \in Nat, NEW n2 \in Nat, n <= n2,
         NEW m \in Nat, NEW m2 \in Nat, m <= m2, Listed(t, n, m)
  PROVE  Listed(t, n2, m2)
<1>1. 1..n \subseteq 1..n2 /\ 0..m \subseteq 0..m2
  OBVIOUS
<1>2. QED
  BY <1>1 DEF Listed

LEMMA PassGrows ==
  ASSUME NEW c, NEW n \in Nat, NEW n2 \in Nat, n <= n2,
         NEW m \in Nat, NEW m2 \in Nat, m <= m2, PassFits(c, n, m)
  PROVE  PassFits(c, n2, m2)
<1>1. 0..m \subseteq 0..m2
  OBVIOUS
<1>2. Map(c.map, n2) /\ Listed(c.new, n2, m2)
  BY MapGrows, ListedGrows DEF PassFits
<1>3. QED
  BY <1>1, <1>2 DEF PassFits

LEMMA ReviewGrows ==
  ASSUME NEW w, NEW n \in Nat, NEW n2 \in Nat, n <= n2,
         NEW m \in Nat, NEW m2 \in Nat, m <= m2, ReviewFits(w, n, m)
  PROVE  ReviewFits(w, n2, m2)
<1>1. 0..m \subseteq 0..m2
  OBVIOUS
<1>2. QED
  BY <1>1, MapGrows DEF ReviewFits

LEMMA AdminGrows ==
  ASSUME NEW a, NEW n \in Nat, NEW n2 \in Nat, n <= n2, AdminFits(a, n)
  PROVE  AdminFits(a, n2)
BY MapGrows DEF AdminFits

\* The flag of one pair may be set or taken away.
LEMMA MapSet ==
  ASSUME NEW g, NEW n \in Nat, Map(g, n), NEW k, NEW f,
         f = NoFlag \/ f \in [violation : 1..n, status : Statuses]
  PROVE  Map([g EXCEPT ![k] = f], n)
BY DEF Map

LEMMA NoRowsListed == ASSUME NEW n \in Nat, NEW m \in Nat PROVE Listed(NoRows, n, m) /\ DOMAIN NoRows = {}
BY DEF NoRows, Listed

LEMMA IdleFits ==
  ASSUME NEW n \in Nat, NEW m \in Nat
  PROVE  PassFits(IdlePass, n, m)
<1>1. DOMAIN IdlePass = Fields
  BY DEF IdlePass, Fields
<1>2. /\ IdlePass.stage = "idle" /\ IdlePass.todo = {} /\ IdlePass.alerts = {}
      /\ IdlePass.devices = {} /\ IdlePass.left = {} /\ IdlePass.matched = {}
      /\ IdlePass.seen = NoRows /\ IdlePass.map = NoFlags /\ IdlePass.new = NoRows
      /\ IdlePass.launched = NoRuns /\ IdlePass.fired = 0
      /\ IdlePass.count \in 0..AlertMax /\ IdlePass.today = 0
  BY ComplianceAssumption DEF IdlePass
<1>3. Map(NoFlags, n)
  BY DEF Map, NoFlags
<1>4. Table(NoRows)
  BY NoRowsListed DEF Table, NoRows
<1>5. NoRuns \in [Workflows \X Devices -> 0..m]
  BY DEF NoRuns
<1>6. Listed(NoRows, n, m) /\ IsFiniteSet(DOMAIN NoRows)
  BY NoRowsListed, FS_EmptySet
<1>7. QED
  BY <1>1, <1>2, <1>3, <1>4, <1>5, <1>6 DEF PassFits

---------------------------------------------------------------------------
(* Every step keeps the shapes *)

\* What is untouched still fits, as ids and runs only become more.
LEMMA ShapesKeep ==
  ASSUME Shapes,
         nextId' \in Nat, nextId <= nextId', runs' \in Seq(Run), Len(runs) <= Len(runs'),
         policy' = policy \/ Table(policy'),
         destructive' \subseteq Workflows, violating' \subseteq Pairs,
         flips' \in 0..MaxFlips, acts' \in 0..MaxActs, day' \in Nat,
         state' = state \/ Map(state', nextId'),
         rows' = rows \/ Listed(rows', nextId', Len(runs')),
         DOMAIN pass' = Passes,
         \A x \in Passes : pass'[x] = pass[x] \/ PassFits(pass'[x], nextId', Len(runs')),
         DOMAIN reviewer' = Reviewers,
         \A r \in Reviewers : \/ reviewer'[r] = reviewer[r]
                              \/ ReviewFits(reviewer'[r], nextId', Len(runs')),
         admin' = admin \/ AdminFits(admin', nextId')
  PROVE  Shapes'
<1>1. Len(runs) \in Nat /\ Len(runs') \in Nat /\ nextId \in Nat
  BY DEF Shapes
<1>2. Table(policy') /\ Map(state', nextId') /\ Listed(rows', nextId', Len(runs'))
  BY <1>1, MapGrows, ListedGrows DEF Shapes
<1>3. \A x \in Passes : PassFits(pass'[x], nextId', Len(runs'))
  BY <1>1, PassGrows DEF Shapes
<1>4. \A r \in Reviewers : ReviewFits(reviewer'[r], nextId', Len(runs'))
  BY <1>1, ReviewGrows DEF Shapes
<1>5. AdminFits(admin', nextId')
  BY <1>1, AdminGrows DEF Shapes
<1>6. QED
  BY <1>2, <1>3, <1>4, <1>5 DEF Shapes

\* A step of one pass that adds no id and no run.
LEMMA PassStepFits ==
  ASSUME Shapes, NEW x \in Passes, NEW c, pass' = [pass EXCEPT ![x] = c],
         PassFits(c, nextId, Len(runs)),
         policy' = policy \/ Table(policy'),
         state' = state \/ Map(state', nextId),
         rows' = rows \/ Listed(rows', nextId, Len(runs)),
         acts' \in 0..MaxActs,
         UNCHANGED <<destructive, violating, runs, reviewer, admin, day, nextId, flips>>
  PROVE  Shapes'
<1>1. DOMAIN pass' = Passes
  BY DEF Shapes
<1>2. \A y \in Passes : pass'[y] = pass[y] \/ PassFits(pass'[y], nextId, Len(runs))
  BY DEF Shapes
<1>3. QED
  BY <1>1, <1>2, ShapesKeep DEF Shapes

LEMMA StartPassShapes == ASSUME Shapes, NEW x \in Passes, StartPass(x) PROVE Shapes'
<1>1. PICK s \in Scopes :
        pass' = [pass EXCEPT ![x].stage = "pull",
                             ![x].todo = {p \in s.policies \cap DOMAIN policy : policy[p].enabled},
                             ![x].seen = policy, ![x].devices = s.devices]
  BY DEF StartPass
<1> DEFINE todo == {p \in s.policies \cap DOMAIN policy : policy[p].enabled}
           c == [pass[x] EXCEPT !.stage = "pull", !.todo = todo,
                                !.seen = policy, !.devices = s.devices]
<1>2. pass' = [pass EXCEPT ![x] = c]
  BY <1>1 DEF Shapes
<1>3. PassFits(pass[x], nextId, Len(runs)) /\ Table(policy) /\ s.devices \subseteq Devices
  BY ComplianceAssumption DEF Shapes
<1>4. pass[x].alerts = {}
  <2>1. pass[x] = IdlePass
    BY <1>3 DEF StartPass, PassFits
  <2>2. QED
    BY <2>1 DEF IdlePass
<1>5. PassFits(c, nextId, Len(runs))
  BY <1>3, <1>4 DEF PassFits, Fields
<1>6. QED
  BY <1>2, <1>5, PassStepFits DEF StartPass, Shapes

LEMMA PullShapes == ASSUME Shapes, NEW x \in Passes, PullDevices(x) PROVE Shapes'
<1> DEFINE c == [pass[x] EXCEPT !.stage = "load", !.matched = violating]
<1>1. pass' = [pass EXCEPT ![x] = c]
  BY DEF PullDevices, Shapes
<1>2. PassFits(pass[x], nextId, Len(runs)) /\ violating \subseteq Pairs
  BY DEF Shapes
<1>3. PassFits(c, nextId, Len(runs))
  BY <1>2 DEF PassFits, Fields
<1>4. QED
  BY <1>1, <1>3, PassStepFits DEF PullDevices, Shapes

LEMMA LoadShapes == ASSUME Shapes, NEW x \in Passes, LoadState(x) PROVE Shapes'
<1> DEFINE c == [pass[x] EXCEPT !.stage = "policy", !.map = state, !.old = rows,
                                !.destructive = destructive]
<1>1. pass' = [pass EXCEPT ![x] = c]
  BY DEF LoadState, Shapes
<1>2. PassFits(pass[x], nextId, Len(runs)) /\ Map(state, nextId)
  BY DEF Shapes
<1>3. PassFits(c, nextId, Len(runs))
  BY <1>2 DEF PassFits, Fields
<1>4. QED
  BY <1>1, <1>3, PassStepFits DEF LoadState, Shapes

\* What judging a policy does: a policy is tripped at most, and the pass ends or goes on.
LEMMA Judged ==
  ASSUME NEW x \in Passes, JudgePolicy(x)
  PROVE  \E p \in pass[x].todo, blocked \in BOOLEAN :
           /\ policy' = policy \/ policy' = [policy EXCEPT ![p].tripped = TRUE]
           /\ \/ pass' = [pass EXCEPT ![x] = IdlePass] /\ p \notin DOMAIN policy
              \/ pass' = [pass EXCEPT
                   ![x].stage = "device", ![x].current = p, ![x].todo = @ \ {p},
                   ![x].left = pass[x].devices \cap pass[x].seen[p].scope,
                   ![x].blocked = blocked, ![x].fired = 0]
BY DEF JudgePolicy

\* A column of a policy's row is written.
LEMMA TableSet ==
  ASSUME Table(policy), NEW p, NEW row, row \in PolicyRow
  PROVE  Table([policy EXCEPT ![p] = row])
BY DEF Table

LEMMA JudgeShapes == ASSUME Shapes, NEW x \in Passes, JudgePolicy(x) PROVE Shapes'
<1>1. PICK p \in pass[x].todo, blocked \in BOOLEAN :
           /\ policy' = policy \/ policy' = [policy EXCEPT ![p].tripped = TRUE]
           /\ \/ pass' = [pass EXCEPT ![x] = IdlePass] /\ p \notin DOMAIN policy
              \/ pass' = [pass EXCEPT
                   ![x].stage = "device", ![x].current = p, ![x].todo = @ \ {p},
                   ![x].left = pass[x].devices \cap pass[x].seen[p].scope,
                   ![x].blocked = blocked, ![x].fired = 0]
  BY Judged
<1> DEFINE c == [pass[x] EXCEPT !.stage = "device", !.current = p, !.todo = @ \ {p},
                   !.left = pass[x].devices \cap pass[x].seen[p].scope,
                   !.blocked = blocked, !.fired = 0]
<1>2. pass' = [pass EXCEPT ![x] = IdlePass] \/ pass' = [pass EXCEPT ![x] = c]
  BY <1>1 DEF Shapes
<1>3. PassFits(pass[x], nextId, Len(runs)) /\ Table(policy) /\ nextId \in Nat /\ Len(runs) \in Nat
  BY DEF Shapes
<1>4. PassFits(c, nextId, Len(runs))
  BY <1>3 DEF PassFits, Fields
<1>5. policy' = policy \/ Table(policy')
  <2>1. p \in DOMAIN policy => [policy[p] EXCEPT !.tripped = TRUE] \in PolicyRow
    BY <1>3 DEF Table, PolicyRow
  <2>2. p \notin DOMAIN policy => [policy EXCEPT ![p].tripped = TRUE] = policy
    BY <1>3 DEF Table
  <2>3. QED
    BY <1>1, <1>3, <2>1, <2>2, TableSet DEF Table
<1>6. \E d \in {IdlePass, c} : pass' = [pass EXCEPT ![x] = d] /\ PassFits(d, nextId, Len(runs))
  BY <1>2, <1>3, <1>4, IdleFits
<1>7. QED
  BY <1>5, <1>6, PassStepFits DEF JudgePolicy, Shapes

\* The verdict on a new violation, and when it is to launch.
LEMMA VerdictKnown ==
  ASSUME NEW x, NEW p
  PROVE  /\ Verdict(x, p) \in Statuses
         /\ Verdict(x, p) = "auto_fired" => HasFlow(p) /\ ~CapReached(x, p)
<1> DEFINE auto == pass[x].seen[p].autoRun /\ HasFlow(p)
           blocked == pass[x].blocked
           capped  == CapReached(x, p)
           flow    == HasFlow(p)
           v       == CASE auto /\ blocked                -> "autorun_blocked"
                        [] auto /\ ~blocked /\ capped  -> "autorun_capped"
                        [] auto /\ ~blocked /\ ~capped -> "auto_fired"
                        [] ~auto /\ ~flow              -> "no_workflow"
                        [] ~auto /\ flow               -> "pending"
<1>1. Verdict(x, p) = v
  BY DEF Verdict
<1>2. auto => flow
  OBVIOUS
<1> HIDE DEF auto, blocked, capped, flow
<1>3. CASE auto /\ blocked
  BY <1>1, <1>3 DEF Statuses
<1>4. CASE auto /\ ~blocked /\ capped
  BY <1>1, <1>4 DEF Statuses
<1>5. CASE auto /\ ~blocked /\ ~capped
  BY <1>1, <1>2, <1>5 DEF Statuses, flow, capped
<1>6. CASE ~auto /\ ~flow
  BY <1>1, <1>6 DEF Statuses
<1>7. CASE ~auto /\ flow
  BY <1>1, <1>7 DEF Statuses
<1>8. QED
  BY <1>3, <1>4, <1>5, <1>6, <1>7

\* The pass after it.
FlagsWith(x, d, status) ==
  [pass[x].map EXCEPT ![<<pass[x].current, d>>] = Flag(nextId + 1, status)]
RowOf(x, d, status, run) == [u \in {nextId + 1} |->
  [policy |-> pass[x].current, device |-> d, status |-> status, run |-> run]]
RunsWith(x, d, run, launch) ==
  [pass[x].launched EXCEPT ![<<WorkflowOf[pass[x].current][d], d>>] = IF launch THEN run ELSE @]
FiredWith(x, status) == IF status = "auto_fired" THEN pass[x].fired + 1 ELSE pass[x].fired
Grown(x, d, status, run, launch) ==
  [pass[x] EXCEPT
     !.left = pass[x].left \ {d}, !.map = FlagsWith(x, d, status),
     !.new = With(RowOf(x, d, status, run), pass[x].new),
     !.launched = RunsWith(x, d, run, launch), !.fired = FiredWith(x, status)]

\* What a new violation adds: an id, a row, a flag, and a run if it launches one.
Adds(x, d, status, run, launch) ==
  LET p == pass[x].current
      key == <<WorkflowOf[p][d], d>>
  IN
  /\ <<p, d>> \in Pairs /\ ~Flagged(pass[x].map, <<p, d>>)
  /\ status \in Statuses /\ launch \in BOOLEAN
  /\ launch => status = "auto_fired"
  /\ status = "auto_fired" =>
       /\ key \in Workflows \X Devices /\ ~CapReached(x, p)
       /\ run # 0 /\ (launch \/ run = pass[x].launched[key])
       /\ launch <=> pass[x].launched[key] = 0
  /\ run \in 0..Len(runs')
  /\ nextId' = nextId + 1
  /\ runs' \in Seq(Run) /\ Len(runs') = IF launch THEN Len(runs) + 1 ELSE Len(runs)
  /\ autoLaunches' = IF launch THEN [autoLaunches EXCEPT ![<<p, d>>] = @ + 1] ELSE autoLaunches
  /\ pass' = [pass EXCEPT ![x] = Grown(x, d, status, run, launch)]

LEMMA WorkflowKnown ==
  ASSUME NEW p \in Policies, NEW d \in Devices
  PROVE  /\ WorkflowOf[p][d] \in Workflows \cup {NoWorkflow}
         /\ HasFlow(p) => WorkflowOf[p][d] \in Workflows
BY DEF Workflows, HasFlow

LEMMA ViolationAdds ==
  ASSUME Shapes, NEW x \in Passes, pass[x].stage = "device", NEW d, NewViolation(x, d)
  PROVE  \E status, run, launch : Adds(x, d, status, run, launch)
<1> DEFINE p == pass[x].current
           status == Verdict(x, p)
           fires  == status = "auto_fired"
           shared == SharedRun(x, p, d)
           launch == fires /\ shared = 0
           run    == IF ~fires THEN 0 ELSE IF launch THEN Len(runs) + 1 ELSE shared
           key    == <<WorkflowOf[p][d], d>>
<1>1. PassFits(pass[x], nextId, Len(runs)) /\ runs \in Seq(Run) /\ Len(runs) \in Nat
  BY DEF Shapes
<1>2. <<p, d>> \in Pairs /\ ~Flagged(pass[x].map, <<p, d>>)
  BY <1>1 DEF NewViolation, PassFits
<1>3. p \in Policies /\ d \in Devices
  BY <1>2 DEF Pairs
<1>4. status \in Statuses /\ (fires => HasFlow(p) /\ ~CapReached(x, p))
  BY VerdictKnown
<1>5. /\ WorkflowOf[p][d] \in Workflows \cup {NoWorkflow}
      /\ fires => key \in Workflows \X Devices
  BY <1>3, <1>4, WorkflowKnown
<1>6. shared = pass[x].launched[key]
  BY DEF SharedRun
<1>7. fires => shared \in 0..Len(runs)
  BY <1>1, <1>5, <1>6 DEF PassFits
<1>8. runs' = IF launch THEN Append(runs, NewRun(p, d, TRUE)) ELSE runs
  BY Zenon DEF NewViolation
<1>9. NewRun(p, d, TRUE) \in Run
  BY <1>3, <1>5 DEF NewRun, Run
<1>10. runs' \in Seq(Run) /\ Len(runs') = IF launch THEN Len(runs) + 1 ELSE Len(runs)
  <2>1. CASE launch
    <3>1. ASSUME NEW e \in Run PROVE Append(runs, e) \in Seq(Run) /\ Len(Append(runs, e)) = Len(runs) + 1
      BY <1>1
    <3>2. QED
      BY <1>8, <1>9, <2>1, <3>1, Zenon
  <2>2. CASE ~launch
    BY <1>1, <1>8, <2>2
  <2>3. QED
    BY <2>1, <2>2
<1>11. run \in 0..Len(runs')
  BY <1>1, <1>7, <1>10
<1>12. /\ nextId' = nextId + 1
       /\ autoLaunches' = IF launch THEN [autoLaunches EXCEPT ![<<p, d>>] = @ + 1] ELSE autoLaunches
  BY DEF NewViolation
<1>14. pass' = [pass EXCEPT ![x] = Grown(x, d, status, run, launch)]
  BY Zenon DEF NewViolation, Grown, FlagsWith, RowOf, RunsWith, FiredWith
<1>15. fires => run # 0 /\ (launch \/ run = pass[x].launched[key])
                /\ (launch <=> pass[x].launched[key] = 0)
  BY <1>1, <1>6
<1>16. launch \in BOOLEAN /\ (launch => fires)
  OBVIOUS
<1> HIDE DEF p, status, shared, run
<1>17. Adds(x, d, status, run, launch)
  BY <1>2, <1>4, <1>5, <1>10, <1>11, <1>12, <1>14, <1>15, <1>16 DEF Adds, p
<1>18. QED
  BY <1>17

\* The rows of both tables, as long as their columns fit.
LEMMA WithListed ==
  ASSUME NEW t, NEW u, NEW n, NEW m, Listed(t, n, m), Listed(u, n, m)
  PROVE  Listed(With(t, u), n, m) /\ DOMAIN With(t, u) = DOMAIN t \cup DOMAIN u
BY DEF With, Listed

LEMMA ViolationShapes ==
  ASSUME Shapes, NEW x \in Passes, pass[x].stage = "device", NEW d, NewViolation(x, d),
         UNCHANGED <<policy, destructive, violating, state, rows, reviewer, admin,
                     day, flips, acts>>
  PROVE  Shapes'
<1>1. PICK status, run, launch : Adds(x, d, status, run, launch)
  BY ViolationAdds
<1> DEFINE p   == pass[x].current
           n   == nextId + 1
           m   == Len(runs')
           one == RowOf(x, d, status, run)
           map == FlagsWith(x, d, status)
           new == With(one, pass[x].new)
           launched == RunsWith(x, d, run, launch)
           fired == FiredWith(x, status)
           c == Grown(x, d, status, run, launch)
<1>2. /\ PassFits(pass[x], nextId, Len(runs)) /\ nextId \in Nat /\ n \in Nat
      /\ Len(runs) \in Nat /\ m \in Nat /\ Len(runs) <= m /\ nextId <= n
  BY <1>1 DEF Shapes, Adds
<1>3. PassFits(pass[x], n, m)
  BY <1>2, PassGrows
<1>4. /\ pass' = [pass EXCEPT ![x] = c] /\ DOMAIN c = Fields
      /\ c.left = pass[x].left \ {d} /\ c.map = map /\ c.new = new
      /\ c.launched = launched /\ c.fired = fired
      /\ c.stage = "device" /\ c.todo = pass[x].todo /\ c.current = pass[x].current
      /\ c.devices = pass[x].devices /\ c.seen = pass[x].seen
      /\ c.matched = pass[x].matched /\ c.alerts = pass[x].alerts
      /\ c.count = pass[x].count /\ c.today = pass[x].today
  <2>1. DOMAIN pass[x] = Fields
    BY <1>2 DEF PassFits
  <2>2. pass' = [pass EXCEPT ![x] = c]
    BY <1>1 DEF Adds
  <2>3. QED
    BY <2>1, <2>2 DEF Grown, Fields
<1>5. p \in Policies /\ d \in Devices /\ status \in Statuses /\ run \in 0..m
  BY <1>1 DEF Adds, Pairs
<1>6. Map(map, n)
  <2>1. Flag(n, status) \in [violation : 1..n, status : Statuses]
    BY <1>2, <1>5 DEF Flag
  <2>2. Map(pass[x].map, n)
    BY <1>3 DEF PassFits
  <2>3. QED
    BY <1>2, <2>1, <2>2, MapSet DEF FlagsWith
<1>7. Listed(one, n, m) /\ DOMAIN one = {n}
  BY <1>2, <1>5 DEF Listed, RowOf
<1>8. Listed(new, n, m) /\ DOMAIN new = {n} \cup DOMAIN pass[x].new
  <2>1. Listed(pass[x].new, n, m)
    BY <1>3 DEF PassFits
  <2> HIDE DEF one, n, m
  <2>2. QED
    BY <1>7, <2>1, WithListed
<1>9. IsFiniteSet(DOMAIN new)
  <2>1. IsFiniteSet(DOMAIN pass[x].new)
    BY <1>2 DEF PassFits
  <2>2. QED
    <3> HIDE DEF new, n
    <3>1. IsFiniteSet(DOMAIN pass[x].new \cup {n})
      BY <2>1, FS_AddElement
    <3>2. DOMAIN new = DOMAIN pass[x].new \cup {n}
      BY <1>8
    <3>3. QED
      BY <3>1, <3>2
<1>10. launched \in [Workflows \X Devices -> 0..m]
  BY <1>3, <1>5 DEF PassFits, RunsWith
<1>11. fired \in Nat
  BY <1>3 DEF PassFits, FiredWith
<1> HIDE DEF map, new, launched, fired, n, m, c
<1>12. PassFits(c, n, m)
  BY <1>3, <1>4, <1>6, <1>8, <1>9, <1>10, <1>11 DEF PassFits
<1>13. /\ DOMAIN pass' = Passes
       /\ \A y \in Passes : pass'[y] = pass[y] \/ PassFits(pass'[y], n, m)
  BY <1>4, <1>12 DEF Shapes
<1>14. nextId' = n /\ runs' \in Seq(Run)
  BY <1>1 DEF Adds, n
<1>15. QED
  BY <1>2, <1>13, <1>14, ShapesKeep DEF Shapes, m

LEMMA RecoverShapes ==
  ASSUME Shapes, NEW x \in Passes, pass[x].stage = "device", NEW d,
         Recover(x, d) \/ StillFlagged(x, d),
         UNCHANGED <<policy, destructive, violating, state, rows, reviewer, admin,
                     day, flips, acts>>
  PROVE  Shapes'
<1> DEFINE k == <<pass[x].current, d>>
           map == IF Recover(x, d) /\ Flagged(pass[x].map, k) THEN Unflag(pass[x].map, k)
                  ELSE pass[x].map
           c == [pass[x] EXCEPT !.left = @ \ {d}, !.map = map]
<1>1. PassFits(pass[x], nextId, Len(runs)) /\ nextId \in Nat
  BY DEF Shapes
<1>2. Map(map, nextId)
  BY <1>1, MapSet DEF PassFits, Unflag
<1>3. pass' = [pass EXCEPT ![x] = c]
  <2>1. CASE Recover(x, d)
    BY <1>1, <2>1 DEF Recover, Shapes, PassFits, Fields
  <2>2. CASE ~Recover(x, d)
    BY <1>1, <2>2 DEF StillFlagged, Shapes, PassFits, Fields
  <2>3. QED
    BY <2>1, <2>2
<1> HIDE DEF map
<1>4. PassFits(c, nextId, Len(runs))
  BY <1>1, <1>2 DEF PassFits, Fields
<1>5. UNCHANGED <<runs, nextId>>
  BY DEF Recover, StillFlagged
<1>6. QED
  BY <1>3, <1>4, <1>5, PassStepFits DEF Shapes

LEMMA EvaluateShapes == ASSUME Shapes, NEW x \in Passes, EvaluateDevice(x) PROVE Shapes'
<1>1. PICK d : Recover(x, d) \/ StillFlagged(x, d) \/ NewViolation(x, d)
  BY DEF EvaluateDevice
<1>2. QED
  BY <1>1, RecoverShapes, ViolationShapes DEF EvaluateDevice

LEMMA EndShapes == ASSUME Shapes, NEW x \in Passes, EndPolicy(x) PROVE Shapes'
<1> DEFINE p     == pass[x].current
           found == \E v \in DOMAIN pass[x].new : pass[x].new[v].policy = p
           next  == IF pass[x].todo = {} THEN "save" ELSE "policy"
           due   == IF found THEN pass[x].alerts \cup {p} ELSE pass[x].alerts
           c == [pass[x] EXCEPT !.stage = next, !.alerts = due]
<1>1. PassFits(pass[x], nextId, Len(runs))
  BY DEF Shapes
<1>2. pass' = [pass EXCEPT ![x] = c]
  BY DEF EndPolicy, Shapes
<1>3. p \in DOMAIN pass[x].seen
  BY <1>1 DEF EndPolicy, PassFits
<1>4. due \subseteq DOMAIN pass[x].seen /\ next \in {"save", "policy"}
  BY <1>1, <1>3 DEF PassFits
<1> HIDE DEF due, next
<1>5. PassFits(c, nextId, Len(runs))
  BY <1>1, <1>4 DEF PassFits, Fields
<1>6. QED
  BY <1>2, <1>5, PassStepFits DEF EndPolicy, Shapes

LEMMA SaveShapes == ASSUME Shapes, NEW x \in Passes, SaveState(x) PROVE Shapes'
<1> DEFINE c == [pass[x] EXCEPT !.stage = "rows"]
<1>1. PassFits(pass[x], nextId, Len(runs))
  BY DEF Shapes
<1>2. pass' = [pass EXCEPT ![x] = c] /\ state' = pass[x].map
  BY DEF SaveState, Shapes
<1>3. PassFits(c, nextId, Len(runs)) /\ Map(state', nextId)
  BY <1>1, <1>2 DEF PassFits, Fields
<1>4. QED
  BY <1>2, <1>3, PassStepFits DEF SaveState, Shapes

\* The pass that has only alerts to send.
Alerting(c) == [IdlePass EXCEPT !.stage = "alerts", !.seen = c.seen, !.alerts = c.alerts]

LEMMA AlertingFits ==
  ASSUME NEW n \in Nat, NEW m \in Nat, NEW c, PassFits(c, n, m)
  PROVE  /\ PassFits(Alerting(c), n, m)
         /\ Alerting(c).stage = "alerts" /\ Alerting(c).todo = {}
         /\ Alerting(c).seen = c.seen /\ Alerting(c).alerts = c.alerts
         /\ Alerting(c).new = NoRows
<1> DEFINE a == Alerting(c)
<1>1. PassFits(IdlePass, n, m) /\ IdlePass.todo = {} /\ IdlePass.new = NoRows
  BY IdleFits DEF IdlePass
<1>2. /\ a.stage = "alerts" /\ a.seen = c.seen /\ a.alerts = c.alerts /\ DOMAIN a = Fields
      /\ a.todo = {} /\ a.devices = IdlePass.devices /\ a.left = IdlePass.left
      /\ a.matched = IdlePass.matched /\ a.map = IdlePass.map /\ a.new = NoRows
      /\ a.launched = IdlePass.launched /\ a.fired = IdlePass.fired
      /\ a.count = IdlePass.count /\ a.today = IdlePass.today
  BY <1>1 DEF Alerting, PassFits, Fields
<1> HIDE DEF a
<1>3. PassFits(a, n, m)
  BY <1>1, <1>2 DEF PassFits
<1>4. QED
  BY <1>2, <1>3 DEF a

LEMMA CreateShapes == ASSUME Shapes, NEW x \in Passes, CreateViolations(x) PROVE Shapes'
<1>1. PassFits(pass[x], nextId, Len(runs)) /\ Listed(rows, nextId, Len(runs))
      /\ nextId \in Nat /\ Len(runs) \in Nat
  BY DEF Shapes
<1>2. \E c \in {IdlePass, Alerting(pass[x])} : pass' = [pass EXCEPT ![x] = c]
  BY DEF CreateViolations, Alerting
<1>3. \A c \in {IdlePass, Alerting(pass[x])} : PassFits(c, nextId, Len(runs))
  BY <1>1, IdleFits, AlertingFits
<1>4. Listed(rows', nextId, Len(runs))
  BY <1>1, WithListed DEF CreateViolations, PassFits
<1>5. QED
  BY <1>2, <1>3, <1>4, PassStepFits DEF CreateViolations, Shapes

LEMMA SentInRange ==
  ASSUME NEW so \in 0..AlertMax
  PROVE  SentAfter(so) \in 0..AlertMax
BY ComplianceAssumption DEF SentAfter

LEMMA ActShapes == ASSUME Shapes, Act PROVE acts' \in 0..MaxActs /\ flips' = flips
BY ComplianceAssumption DEF Act, Shapes

\* The steps of a pass about its alerts.
AlertStep(x) == SendAlert(x) \/ AlertFails(x) \/ CountAlert(x) \/ CountFails(x)

\* The pass that has tried to send the alert of p, and is to store that count.
Tried(c, p, n) == [c EXCEPT !.stage = "count", !.current = p, !.alerts = @ \ {p},
                            !.count = n, !.today = day]

LEMMA TriedFits ==
  ASSUME Shapes, NEW x \in Passes, NEW p \in pass[x].alerts, NEW n \in 0..AlertMax
  PROVE  PassFits(Tried(pass[x], p, n), nextId, Len(runs))
<1>1. PassFits(pass[x], nextId, Len(runs)) /\ day \in Nat
  BY DEF Shapes
<1>2. QED
  BY <1>1 DEF PassFits, Fields, Tried

\* What is left of a pass after a count.
Counted1(c) == IF c.alerts = {} THEN IdlePass ELSE [c EXCEPT !.stage = "alerts"]

LEMMA CountedFits ==
  ASSUME Shapes, NEW x \in Passes
  PROVE  PassFits(Counted1(pass[x]), nextId, Len(runs))
<1>1. PassFits(pass[x], nextId, Len(runs)) /\ nextId \in Nat /\ Len(runs) \in Nat
  BY DEF Shapes
<1>2. PassFits([pass[x] EXCEPT !.stage = "alerts"], nextId, Len(runs))
  BY <1>1 DEF PassFits, Fields
<1>3. QED
  BY <1>1, <1>2, IdleFits DEF Counted1

LEMMA AlertShapes ==
  ASSUME Shapes, NEW x \in Passes, SendAlert(x) \/ AlertFails(x) PROVE Shapes'
<1>1. PICK p \in pass[x].alerts :
        LET so == AlertsToday(pass[x].seen[p]) IN
        \E n \in {so, SentAfter(so)} :
          pass' = [pass EXCEPT ![x].stage = "count", ![x].current = p,
                               ![x].alerts = @ \ {p}, ![x].count = n, ![x].today = day]
  BY DEF SendAlert, AlertFails
<1> DEFINE so == AlertsToday(pass[x].seen[p])
<1>0. PICK n \in {so, SentAfter(so)} :
          pass' = [pass EXCEPT ![x].stage = "count", ![x].current = p,
                               ![x].alerts = @ \ {p}, ![x].count = n, ![x].today = day]
  BY <1>1
<1>2. PassFits(pass[x], nextId, Len(runs))
  BY DEF Shapes
<1>3. p \in DOMAIN pass[x].seen /\ pass[x].seen[p] \in PolicyRow
  BY <1>2 DEF PassFits, Table
<1>4. so \in 0..AlertMax
  BY <1>3, ComplianceAssumption DEF AlertsToday, PolicyRow
<1> HIDE DEF so
<1>5. n \in 0..AlertMax
  BY <1>4, SentInRange
<1>6. pass' = [pass EXCEPT ![x] = Tried(pass[x], p, n)]
  BY <1>0 DEF Shapes, Tried
<1>7. acts' \in 0..MaxActs /\ flips' = flips
  BY ActShapes DEF SendAlert, AlertFails, Shapes
<1>8. QED
  BY <1>5, <1>6, <1>7, TriedFits, PassStepFits DEF SendAlert, AlertFails

LEMMA CountShapes ==
  ASSUME Shapes, NEW x \in Passes, CountAlert(x) \/ CountFails(x) PROVE Shapes'
<1>1. pass' = [pass EXCEPT ![x] = Counted1(pass[x])]
  BY DEF CountAlert, CountFails, AfterCount, Counted1
<1>2. acts' \in 0..MaxActs /\ flips' = flips
  BY ActShapes DEF CountAlert, CountFails, Shapes
<1>3. policy' = policy \/ Table(policy')
  <2> DEFINE p   == pass[x].current
             row == [policy[p] EXCEPT !.alertsSent = pass[x].count, !.alertsDate = pass[x].today]
  <2>1. PassFits(pass[x], nextId, Len(runs)) /\ Table(policy)
    BY DEF Shapes
  <2>2. ASSUME p \in DOMAIN policy PROVE row \in PolicyRow
    BY <2>1, <2>2 DEF Table, PolicyRow, PassFits
  <2>3. policy' = policy \/ (p \in DOMAIN policy /\ policy' = [policy EXCEPT ![p] = row])
    BY <2>1 DEF CountAlert, CountFails, Table
  <2> HIDE DEF row
  <2>4. QED
    BY <2>1, <2>2, <2>3, TableSet
<1>4. QED
  BY <1>1, <1>2, <1>3, CountedFits, PassStepFits DEF CountAlert, CountFails

LEMMA FailShapes == ASSUME Shapes, NEW x \in Passes, PassFails(x) PROVE Shapes'
<1>1. PassFits(IdlePass, nextId, Len(runs))
  BY IdleFits DEF Shapes
<1>2. acts' \in 0..MaxActs /\ flips' = flips
  BY ActShapes DEF PassFails
<1>3. QED
  BY <1>1, <1>2, PassStepFits DEF PassFails, Shapes

---------------------------------------------------------------------------
(* Reviewers, the administrator and the world *)

\* A step of one reviewer.
LEMMA ReviewStepFits ==
  ASSUME Shapes, NEW r \in Reviewers, NEW w, reviewer' = [reviewer EXCEPT ![r] = w],
         runs' \in Seq(Run), Len(runs) <= Len(runs'), ReviewFits(w, nextId, Len(runs')),
         state' = state \/ Map(state', nextId),
         rows' = rows \/ Listed(rows', nextId, Len(runs')),
         acts' \in 0..MaxActs, flips' = flips, ReviewUnchanged
  PROVE  Shapes'
<1>1. DOMAIN reviewer' = Reviewers
  BY DEF Shapes
<1>2. \A q \in Reviewers : reviewer'[q] = reviewer[q] \/ ReviewFits(reviewer'[q], nextId, Len(runs'))
  BY DEF Shapes
<1>3. nextId' = nextId /\ nextId \in Nat
  BY DEF Shapes, ReviewUnchanged
<1>4. QED
  BY <1>1, <1>2, <1>3, ShapesKeep DEF Shapes, ReviewUnchanged

\* One that launches nothing.
LEMMA ReviewOnlyFits ==
  ASSUME Shapes, NEW r \in Reviewers, NEW w, reviewer' = [reviewer EXCEPT ![r] = w],
         runs' = runs, ReviewFits(w, nextId, Len(runs)),
         state' = state \/ Map(state', nextId),
         rows' = rows \/ Listed(rows', nextId, Len(runs)),
         acts' \in 0..MaxActs, flips' = flips, ReviewUnchanged
  PROVE  Shapes'
<1>1. runs' \in Seq(Run) /\ Len(runs) <= Len(runs') /\ Len(runs') = Len(runs)
  BY DEF Shapes
<1>2. QED
  BY <1>1, ReviewStepFits

LEMMA RowKnown ==
  ASSUME Shapes, NEW v \in DOMAIN rows
  PROVE  <<rows[v].policy, rows[v].device>> \in Pairs
BY DEF Shapes, Listed, Pairs

\* The status of a row changes.
LEMMA RowSet ==
  ASSUME NEW t, NEW n, NEW m, Listed(t, n, m), NEW v \in DOMAIN t,
         NEW row, row \in [policy : Policies, device : Devices, status : Statuses, run : 0..m]
  PROVE  Listed([t EXCEPT ![v] = row], n, m)
BY DEF Listed

LEMMA ApproveShapes ==
  ASSUME Shapes, NEW r \in Reviewers, NEW v \in DOMAIN rows, Approve(r, v) PROVE Shapes'
<1> DEFINE w == [stage |-> "launch", violation |-> v,
                 pair |-> <<rows[v].policy, rows[v].device>>]
<1>1. ReviewFits(w, nextId, Len(runs))
  BY RowKnown DEF ReviewFits
<1>2. acts' \in 0..MaxActs /\ flips' = flips
  BY ActShapes DEF Approve
<1>3. reviewer' = [reviewer EXCEPT ![r] = w] /\ UNCHANGED <<state, rows, runs>> /\ ReviewUnchanged
  BY Zenon DEF Approve
<1> HIDE DEF w
<1>4. QED
  BY <1>1, <1>2, <1>3, ReviewOnlyFits

LEMMA LaunchShapes ==
  ASSUME Shapes, NEW r \in Reviewers, LaunchApproved(r) PROVE Shapes'
<1> DEFINE k == reviewer[r].pair
           run == NewRun(k[1], k[2], FALSE)
           w == [stage |-> "update", violation |-> reviewer[r].violation, pair |-> k,
                 run |-> Len(runs) + 1]
<1>1. k \in Pairs /\ runs \in Seq(Run) /\ Len(runs) \in Nat
  BY DEF LaunchApproved, Shapes, ReviewFits
<1>2. run \in Run
  <2>1. k[1] \in Policies /\ k[2] \in Devices
    BY <1>1 DEF Pairs
  <2>2. WorkflowOf[k[1]][k[2]] \in Workflows \cup {NoWorkflow}
    BY <2>1, WorkflowKnown
  <2>3. QED
    BY <2>1, <2>2 DEF NewRun, Run
<1>3. runs' = Append(runs, run) /\ reviewer' = [reviewer EXCEPT ![r] = w]
      /\ UNCHANGED <<state, rows, flips, acts>> /\ ReviewUnchanged
  BY Zenon DEF LaunchApproved
<1> HIDE DEF run
<1>4. runs' \in Seq(Run) /\ Len(runs') = Len(runs) + 1
  BY <1>1, <1>2, <1>3
<1>5. ReviewFits(w, nextId, Len(runs'))
  BY <1>1, <1>4 DEF ReviewFits
<1> HIDE DEF w
<1>6. Len(runs) <= Len(runs') /\ acts' \in 0..MaxActs
  BY <1>1, <1>3, <1>4 DEF Shapes
<1>7. QED
  BY <1>3, <1>4, <1>5, <1>6, ReviewStepFits

LEMMA RecordShapes ==
  ASSUME Shapes, NEW r \in Reviewers, RecordApproval(r) PROVE Shapes'
<1> DEFINE v == reviewer[r].violation
           w == [stage |-> "load", verdict |-> "approved", pair |-> reviewer[r].pair]
           row == [rows[v] EXCEPT !.status = "approved", !.run = reviewer[r].run]
<1>1. /\ reviewer[r].pair \in Pairs /\ reviewer[r].run \in 0..Len(runs)
      /\ Listed(rows, nextId, Len(runs)) /\ runs \in Seq(Run) /\ Len(runs) \in Nat
      /\ acts \in 0..MaxActs
  BY DEF RecordApproval, Shapes, ReviewFits
<1>2. ReviewFits(w, nextId, Len(runs)) /\ ReviewFits(IdleReviewer, nextId, Len(runs))
  BY <1>1 DEF ReviewFits, IdleReviewer
<1>3. v \in DOMAIN rows => rows' = [rows EXCEPT ![v] = row]
  BY <1>1 DEF RecordApproval, Listed
<1>4. rows' = rows \/ Listed(rows', nextId, Len(runs))
  <2>1. CASE v \in DOMAIN rows
    <3>1. row \in [policy : Policies, device : Devices, status : Statuses, run : 0..Len(runs)]
      BY <1>1, <2>1 DEF Listed, Statuses
    <3>2. Listed([rows EXCEPT ![v] = row], nextId, Len(runs))
      <4> HIDE DEF v, row
      <4>1. QED
        BY <1>1, <2>1, <3>1, RowSet
    <3>3. QED
      BY <1>3, <2>1, <3>2
  <2>2. CASE v \notin DOMAIN rows
    BY <2>2 DEF RecordApproval
  <2>3. QED
    BY <2>1, <2>2
<1>5. PICK u \in {w, IdleReviewer} : reviewer' = [reviewer EXCEPT ![r] = u]
  BY Zenon DEF RecordApproval
<1>6. UNCHANGED <<state, runs, flips, acts>> /\ ReviewUnchanged
  BY DEF RecordApproval
<1>7. ReviewFits(u, nextId, Len(runs))
  BY <1>2
<1>8. acts' \in 0..MaxActs
  BY <1>1, <1>6
<1> HIDE DEF w
<1>9. QED
  BY <1>4, <1>5, <1>6, <1>7, <1>8, ReviewOnlyFits

LEMMA DismissShapes ==
  ASSUME Shapes, NEW r \in Reviewers, NEW v \in DOMAIN rows, Dismiss(r, v) PROVE Shapes'
<1> DEFINE w == [stage |-> "load", verdict |-> "dismissed",
                 pair |-> <<rows[v].policy, rows[v].device>>]
           row == [rows[v] EXCEPT !.status = "dismissed"]
<1>1. ReviewFits(w, nextId, Len(runs))
  BY RowKnown DEF ReviewFits
<1>2. acts' \in 0..MaxActs /\ flips' = flips
  BY ActShapes DEF Dismiss
<1>3. reviewer' = [reviewer EXCEPT ![r] = w] /\ UNCHANGED <<state, runs>> /\ ReviewUnchanged
  BY Zenon DEF Dismiss
<1>4. Listed(rows, nextId, Len(runs)) /\ runs \in Seq(Run) /\ Len(runs) \in Nat
  BY DEF Shapes
<1>5. rows' = [rows EXCEPT ![v] = row]
  BY <1>4 DEF Dismiss, Listed
<1>6. row \in [policy : Policies, device : Devices, status : Statuses, run : 0..Len(runs)]
  BY <1>4 DEF Listed, Statuses
<1>7. Listed(rows', nextId, Len(runs))
  BY <1>4, <1>5, <1>6, RowSet
<1> HIDE DEF w
<1>8. QED
  BY <1>1, <1>2, <1>3, <1>7, ReviewOnlyFits

\* A review changes the status of a flag, never the violation it names.
LEMMA ReviewedFits ==
  ASSUME NEW n, Map(state, n), NEW k \in Pairs, Flagged(state, k),
         NEW verdict \in {"approved", "dismissed"}
  PROVE  /\ Map(Reviewed(k, verdict), n)
         /\ \A l \in Pairs : /\ Flagged(Reviewed(k, verdict), l) <=> Flagged(state, l)
                             /\ Reviewed(k, verdict)[l].violation = state[l].violation
<1> DEFINE f == [state[k] EXCEPT !.status = verdict]
<1>1. state[k] \in [violation : 1..n, status : Statuses]
  BY DEF Map, Flagged
<1>2. f \in [violation : 1..n, status : Statuses] /\ f.violation = state[k].violation /\ f # NoFlag
  BY <1>1 DEF Statuses, NoFlag
<1>3. Reviewed(k, verdict) = [state EXCEPT ![k] = f]
  BY <1>1 DEF Reviewed, Map
<1> HIDE DEF f
<1>4. QED
  BY <1>2, <1>3 DEF Map, Flagged

LEMMA LoadFlagsShapes ==
  ASSUME Shapes, NEW r \in Reviewers, LoadFlags(r) PROVE Shapes'
<1> DEFINE k == reviewer[r].pair
           w == IF Flagged(state, k)
                THEN [stage |-> "save", map |-> Reviewed(k, reviewer[r].verdict)]
                ELSE IdleReviewer
<1>1. /\ k \in Pairs /\ reviewer[r].verdict \in {"approved", "dismissed"} /\ Map(state, nextId)
      /\ runs \in Seq(Run) /\ Len(runs) \in Nat /\ acts \in 0..MaxActs
  BY DEF LoadFlags, Shapes, ReviewFits
<1>2. ReviewFits(w, nextId, Len(runs))
  <2>1. CASE Flagged(state, k)
    <3>1. Map(Reviewed(k, reviewer[r].verdict), nextId)
      BY <1>1, <2>1, ReviewedFits
    <3>2. QED
      BY <2>1, <3>1 DEF ReviewFits
  <2>2. CASE ~Flagged(state, k)
    BY <2>2 DEF ReviewFits, IdleReviewer
  <2>3. QED
    BY <2>1, <2>2
<1>3. reviewer' = [reviewer EXCEPT ![r] = w] /\ UNCHANGED <<state, rows, runs, flips, acts>>
      /\ ReviewUnchanged
  BY Zenon DEF LoadFlags
<1>4. acts' \in 0..MaxActs
  BY <1>1, <1>3
<1> HIDE DEF w
<1>5. QED
  BY <1>2, <1>3, <1>4, ReviewOnlyFits

LEMMA SaveFlagsShapes ==
  ASSUME Shapes, NEW r \in Reviewers, SaveFlags(r) PROVE Shapes'
<1>1. Map(reviewer[r].map, nextId) /\ runs \in Seq(Run) /\ Len(runs) \in Nat
      /\ acts \in 0..MaxActs
  BY DEF SaveFlags, Shapes, ReviewFits
<1>2. ReviewFits(IdleReviewer, nextId, Len(runs))
  BY DEF ReviewFits, IdleReviewer
<1>3. /\ reviewer' = [reviewer EXCEPT ![r] = IdleReviewer] /\ state' = reviewer[r].map
      /\ UNCHANGED <<rows, runs, flips, acts>> /\ ReviewUnchanged
  BY Zenon DEF SaveFlags
<1>4. acts' \in 0..MaxActs /\ Map(state', nextId)
  BY <1>1, <1>3
<1>5. QED
  BY <1>2, <1>3, <1>4, ReviewOnlyFits

\* A step of the administrator.
LEMMA AdminStepFits ==
  ASSUME Shapes, AdminUnchanged, AdminFits(admin', nextId),
         policy' = policy \/ Table(policy'),
         state' = state \/ Map(state', nextId),
         rows' = rows \/ Listed(rows', nextId, Len(runs)),
         acts' \in 0..MaxActs, flips' = flips
  PROVE  Shapes'
<1>1. /\ nextId' = nextId /\ nextId \in Nat /\ runs' = runs /\ runs \in Seq(Run)
      /\ Len(runs) \in Nat /\ pass' = pass /\ reviewer' = reviewer
  BY DEF Shapes, AdminUnchanged
<1>2. QED
  BY <1>1, ShapesKeep DEF Shapes, AdminUnchanged

LEMMA SavePolicyShapes ==
  ASSUME Shapes, NEW p \in Policies, NEW s \in Saves, SavePolicy(p, s) PROVE Shapes'
<1> DEFINE acked == s.autoRun /\ Range(WorkflowOf[p]) \cap destructive # {}
           row == [policy[p] EXCEPT !.autoRun = s.autoRun, !.enabled = s.enabled,
                                    !.scope = s.scope, !.tripped = FALSE, !.acked = acked]
<1>1. p \in DOMAIN policy /\ Table(policy)
  BY DEF SavePolicy, Shapes
<1>2. policy' = [policy EXCEPT ![p] = row]
  BY <1>1 DEF SavePolicy, Table
<1>3. acked \in BOOLEAN /\ s \in [autoRun : BOOLEAN, enabled : BOOLEAN, scope : SUBSET Devices]
  BY ComplianceAssumption
<1> HIDE DEF acked
<1>4. row \in PolicyRow
  BY <1>1, <1>3 DEF Table, PolicyRow
<1>5. Table(policy')
  BY <1>1, <1>2, <1>4, TableSet
<1>6. acts' \in 0..MaxActs /\ flips' = flips
  BY ActShapes DEF SavePolicy
<1>7. UNCHANGED <<state, rows, admin>> /\ AdminUnchanged /\ AdminFits(admin, nextId)
  BY DEF SavePolicy, Shapes
<1>8. QED
  BY <1>5, <1>6, <1>7, AdminStepFits

LEMMA DeleteViolationsShapes ==
  ASSUME Shapes, NEW p \in Policies, DeleteViolations(p) PROVE Shapes'
<1>1. AdminFits(admin', nextId)
  BY DEF DeleteViolations, AdminFits
<1>2. Listed(rows, nextId, Len(runs))
  BY DEF Shapes
<1>3. Listed(rows', nextId, Len(runs))
  BY <1>2 DEF DeleteViolations, Listed
<1>4. acts' \in 0..MaxActs /\ flips' = flips
  BY ActShapes DEF DeleteViolations
<1>5. UNCHANGED <<policy, state>> /\ AdminUnchanged
  BY DEF DeleteViolations
<1>6. QED
  BY <1>1, <1>3, <1>4, <1>5, AdminStepFits

LEMMA PurgedFits == ASSUME NEW n, Map(state, n), NEW p PROVE Map(Purged(p), n)
BY DEF Purged, Map

LEMMA LoadForDeleteShapes == ASSUME Shapes, LoadForDelete PROVE Shapes'
<1>1. admin.policy \in Policies /\ Map(Purged(admin.policy), nextId) /\ acts \in 0..MaxActs
  BY PurgedFits DEF LoadForDelete, Shapes, AdminFits
<1>2. AdminFits(admin', nextId)
  BY <1>1 DEF LoadForDelete, AdminFits
<1>3. UNCHANGED <<policy, state, rows, flips, acts>> /\ AdminUnchanged
  BY DEF LoadForDelete
<1>4. QED
  BY <1>1, <1>2, <1>3, AdminStepFits

LEMMA SavePurgedShapes == ASSUME Shapes, SavePurged PROVE Shapes'
<1>1. admin.policy \in Policies /\ Map(state', nextId) /\ acts \in 0..MaxActs
  BY DEF SavePurged, Shapes, AdminFits
<1>2. AdminFits(admin', nextId)
  BY <1>1 DEF SavePurged, AdminFits
<1>3. UNCHANGED <<policy, rows, flips, acts>> /\ AdminUnchanged
  BY DEF SavePurged
<1>4. QED
  BY <1>1, <1>2, <1>3, AdminStepFits

LEMMA DeletePolicyShapes == ASSUME Shapes, DeletePolicy PROVE Shapes'
<1>1. Table(policy) /\ acts \in 0..MaxActs
  BY DEF Shapes
<1>2. Table(policy') /\ AdminFits(admin', nextId)
  BY <1>1 DEF DeletePolicy, Table, AdminFits, IdleAdmin
<1>3. UNCHANGED <<state, rows, flips, acts>> /\ AdminUnchanged
  BY DEF DeletePolicy
<1>4. QED
  BY <1>1, <1>2, <1>3, AdminStepFits

LEMMA RunEndsShapes ==
  ASSUME Shapes, NEW r \in DOMAIN runs, NEW o \in {"failed", "success"}, RunEnds(r, o)
  PROVE  Shapes'
<1> DEFINE run == [runs[r] EXCEPT !.outcome = o]
<1>1. runs \in Seq(Run) /\ r \in 1..Len(runs) /\ runs[r] \in Run
  BY DEF Shapes
<1>2. run \in Run
  BY <1>1 DEF Run
<1>3. runs' = [runs EXCEPT ![r] = run]
  BY DEF RunEnds
<1> HIDE DEF run
<1>4. runs' \in Seq(Run) /\ Len(runs') = Len(runs) /\ Len(runs) \in Nat
  BY <1>1, <1>2, <1>3
<1>5. QED
  BY <1>4, ShapesKeep DEF RunEnds, WorldUnchanged, Shapes

\* The fleet, the edit of a workflow and the calendar.
LEMMA WorldShapes ==
  ASSUME Shapes,
         \/ \E k \in MayViolate : Flip(k)
         \/ \E w \in Workflows : WorkflowEdited(w)
         \/ NewDay
  PROVE  Shapes'
<1>1. runs' = runs /\ runs \in Seq(Run) /\ Len(runs) <= Len(runs') /\ WorldUnchanged
  BY DEF Flip, WorkflowEdited, NewDay, Shapes
<1>2. violating' \subseteq Pairs /\ destructive' \subseteq Workflows
  BY ComplianceAssumption DEF Flip, WorkflowEdited, NewDay, Shapes
<1>3. flips' \in 0..MaxFlips /\ acts' \in 0..MaxActs /\ day' \in Nat
  <2>1. CASE \E k \in MayViolate : Flip(k)
    BY <2>1, ComplianceAssumption DEF Flip, Shapes
  <2>2. CASE NewDay \/ \E w \in Workflows : WorkflowEdited(w)
    BY <2>2, ActShapes DEF WorkflowEdited, NewDay, Shapes
  <2>3. QED
    BY <2>1, <2>2
<1>4. QED
  BY <1>1, <1>2, <1>3, ShapesKeep DEF WorldUnchanged, Shapes

LEMMA InitShapes == ASSUME Init PROVE Shapes
<1>1. nextId = 0 /\ runs = <<>> /\ Len(runs) = 0 /\ runs \in Seq(Run)
  BY DEF Init
<1>2. Table(policy)
  <2>1. \A p \in Policies : HasFlow(p) \in BOOLEAN
    BY DEF HasFlow
  <2>2. QED
    BY <2>1, ComplianceAssumption DEF Init, Table, PolicyRow
<1>3. Map(state, 0)
  BY DEF Init, NoFlags, Map
<1>4. Listed(rows, 0, 0)
  BY NoRowsListed DEF Init
<1>5. DOMAIN pass = Passes /\ \A x \in Passes : PassFits(pass[x], 0, 0)
  BY IdleFits DEF Init
<1>6. /\ DOMAIN reviewer = Reviewers /\ \A r \in Reviewers : ReviewFits(reviewer[r], 0, 0)
      /\ AdminFits(admin, 0)
  BY DEF Init, ReviewFits, AdminFits, IdleReviewer, IdleAdmin
<1>7. QED
  BY <1>1, <1>2, <1>3, <1>4, <1>5, <1>6, ComplianceAssumption DEF Init, Shapes

LEMMA NextShapes == ASSUME Shapes, [Next]_vars PROVE Shapes'
<1>1. ASSUME NEW x \in Passes, StartPass(x) \/ Evaluate(x) \/ Breaks(x) PROVE Shapes'
  BY <1>1, StartPassShapes, PullShapes, LoadShapes, JudgeShapes, EvaluateShapes, EndShapes,
     SaveShapes, CreateShapes, AlertShapes, CountShapes, FailShapes DEF Evaluate, Breaks
<1>2. ASSUME NEW r \in Reviewers,
             Review(r) \/ \E v \in DOMAIN rows : Approve(r, v) \/ Dismiss(r, v)
      PROVE  Shapes'
  BY <1>2, ApproveShapes, LaunchShapes, RecordShapes, DismissShapes, LoadFlagsShapes,
     SaveFlagsShapes DEF Review
<1>3. ASSUME NEW p \in Policies, DeleteViolations(p) \/ \E s \in Saves : SavePolicy(p, s)
      PROVE  Shapes'
  BY <1>3, DeleteViolationsShapes, SavePolicyShapes
<1>4. CASE LoadForDelete \/ SavePurged \/ DeletePolicy
  BY <1>4, LoadForDeleteShapes, SavePurgedShapes, DeletePolicyShapes
<1>5. CASE \/ \E k \in MayViolate : Flip(k)
           \/ \E w \in Workflows : WorkflowEdited(w)
           \/ NewDay
  BY <1>5, WorldShapes
<1>6. CASE \E r \in DOMAIN runs : \E o \in {"failed", "success"} : RunEnds(r, o)
  BY <1>6, RunEndsShapes
<1>7. CASE UNCHANGED vars
  BY <1>7 DEF vars, Shapes
<1>8. QED
  BY <1>1, <1>2, <1>3, <1>4, <1>5, <1>6, <1>7 DEF Next

\* The fields of the tables, the flags and the passes stay within their types.
THEOREM TypeCorrect == Spec => []TypeOK
<1>1. Init => Shapes
  BY InitShapes
<1>2. Shapes /\ [Next]_vars => Shapes'
  BY NextShapes
<1>3. Shapes => TypeOK
  <2> SUFFICES ASSUME Shapes PROVE TypeOK
    OBVIOUS
  <2>1. \A p \in DOMAIN policy : /\ policy[p].alertsSent \in 0..AlertMax
                                 /\ policy[p].scope \subseteq Devices
    BY DEF Shapes, Table, PolicyRow
  <2>2. \A k \in Pairs : state[k].violation \in 0..nextId
    BY DEF Shapes, Map, NoFlag
  <2>3. \A v \in DOMAIN rows : /\ rows[v].status \in Statuses
                               /\ rows[v].policy \in Policies /\ rows[v].device \in Devices
                               /\ rows[v].run \in 0..Len(runs)
    BY DEF Shapes, Listed
  <2>4. \A r \in DOMAIN runs : runs[r].outcome \in {"running", "failed", "success"}
    <3>1. \A r \in DOMAIN runs : runs[r] \in Run
      BY DEF Shapes
    <3>2. QED
      BY <3>1 DEF Run
  <2>5. QED
    BY <2>1, <2>2, <2>3, <2>4 DEF Shapes, Table, TypeOK
<1>4. QED
  BY <1>1, <1>2, <1>3, PTL DEF Spec

---------------------------------------------------------------------------
(* What a step of a pass changes in it *)

\* Nothing of what it has read, found, launched and is still to do.
Kept(b, c) == /\ c.todo = b.todo /\ c.seen = b.seen /\ c.alerts = b.alerts
              /\ c.new = b.new /\ c.launched = b.launched

OnlyPass(x) == DOMAIN pass' = Passes /\ \A y \in Passes \ {x} : pass'[y] = pass[y]

LEMMA IdleHoldsNothing ==
  /\ IdlePass.stage = "idle" /\ IdlePass.todo = {} /\ IdlePass.alerts = {}
  /\ IdlePass.new = NoRows /\ IdlePass.launched = NoRuns /\ IdlePass.fired = 0
  /\ DOMAIN IdlePass.new = {}
BY NoRowsListed DEF IdlePass

LEMMA Started ==
  ASSUME Shapes, NEW x \in Passes, StartPass(x)
  PROVE  /\ OnlyPass(x) /\ pass[x] = IdlePass
         /\ pass'[x].stage = "pull" /\ pass'[x].todo \subseteq DOMAIN policy
         /\ pass'[x].seen = policy /\ pass'[x].alerts = {}
         /\ pass'[x].new = NoRows /\ pass'[x].launched = NoRuns
<1>1. DOMAIN pass = Passes /\ DOMAIN pass[x] = Fields /\ pass[x] = IdlePass
  BY DEF StartPass, Shapes, PassFits
<1>2. PICK todo \in SUBSET DOMAIN policy : \E devices :
        pass' = [pass EXCEPT ![x].stage = "pull", ![x].todo = todo, ![x].seen = policy,
                             ![x].devices = devices]
  BY DEF StartPass
<1>3. QED
  BY <1>1, <1>2, IdleHoldsNothing DEF OnlyPass, Fields

LEMMA Pulled ==
  ASSUME Shapes, NEW x \in Passes, PullDevices(x)
  PROVE  OnlyPass(x) /\ pass'[x].stage = "load" /\ Kept(pass[x], pass'[x])
<1>1. DOMAIN pass = Passes /\ DOMAIN pass[x] = Fields
  BY DEF Shapes, PassFits
<1>2. QED
  BY <1>1 DEF PullDevices, OnlyPass, Fields, Kept

LEMMA Loaded ==
  ASSUME Shapes, NEW x \in Passes, LoadState(x)
  PROVE  /\ OnlyPass(x) /\ pass'[x].stage = "policy" /\ Kept(pass[x], pass'[x])
         /\ pass'[x].map = state
<1>1. DOMAIN pass = Passes /\ DOMAIN pass[x] = Fields
  BY DEF Shapes, PassFits
<1>2. QED
  BY <1>1 DEF LoadState, OnlyPass, Fields, Kept

\* The alert columns are left to the alerts.
SameAlerts == /\ DOMAIN policy' = DOMAIN policy
              /\ \A p \in DOMAIN policy : /\ policy'[p].alertsSent = policy[p].alertsSent
                                          /\ policy'[p].alertsDate = policy[p].alertsDate

LEMMA JudgedTo ==
  ASSUME Shapes, NEW x \in Passes, JudgePolicy(x)
  PROVE  /\ OnlyPass(x) /\ SameAlerts
         /\ \E p \in pass[x].todo :
              \/ p \notin DOMAIN policy /\ pass'[x] = IdlePass
              \/ /\ pass'[x].stage = "device" /\ pass'[x].current = p
                 /\ pass'[x].todo = pass[x].todo \ {p} /\ pass'[x].seen = pass[x].seen
                 /\ pass'[x].alerts = pass[x].alerts /\ pass'[x].new = pass[x].new
                 /\ pass'[x].launched = pass[x].launched /\ pass'[x].map = pass[x].map
                 /\ pass'[x].fired = 0
<1>1. DOMAIN pass = Passes /\ DOMAIN pass[x] = Fields /\ Table(policy)
  BY DEF Shapes, PassFits
<1>2. PICK p \in pass[x].todo, blocked \in BOOLEAN :
           /\ policy' = policy \/ policy' = [policy EXCEPT ![p].tripped = TRUE]
           /\ \/ pass' = [pass EXCEPT ![x] = IdlePass] /\ p \notin DOMAIN policy
              \/ pass' = [pass EXCEPT
                   ![x].stage = "device", ![x].current = p, ![x].todo = @ \ {p},
                   ![x].left = pass[x].devices \cap pass[x].seen[p].scope,
                   ![x].blocked = blocked, ![x].fired = 0]
  BY Judged
<1>3. SameAlerts
  BY <1>1, <1>2 DEF SameAlerts, Table, PolicyRow
<1>4. CASE pass' = [pass EXCEPT ![x] = IdlePass] /\ p \notin DOMAIN policy
  BY <1>1, <1>3, <1>4 DEF OnlyPass
<1>5. CASE pass' = [pass EXCEPT
                   ![x].stage = "device", ![x].current = p, ![x].todo = @ \ {p},
                   ![x].left = pass[x].devices \cap pass[x].seen[p].scope,
                   ![x].blocked = blocked, ![x].fired = 0]
  BY <1>1, <1>3, <1>5 DEF OnlyPass, Fields
<1>6. QED
  BY <1>2, <1>4, <1>5

LEMMA Recovered ==
  ASSUME Shapes, NEW x \in Passes, NEW d, Recover(x, d) \/ StillFlagged(x, d)
  PROVE  /\ OnlyPass(x) /\ pass'[x].stage = pass[x].stage /\ Kept(pass[x], pass'[x])
         /\ pass'[x].current = pass[x].current /\ pass'[x].fired = pass[x].fired
         /\ \/ pass'[x].map = pass[x].map /\ autoLaunches' = autoLaunches
            \/ /\ pass'[x].map = [pass[x].map EXCEPT ![<<pass[x].current, d>>] = NoFlag]
               /\ autoLaunches' = [autoLaunches EXCEPT ![<<pass[x].current, d>>] = 0]
<1>1. DOMAIN pass = Passes /\ DOMAIN pass[x] = Fields
  BY DEF Shapes, PassFits
<1>2. CASE StillFlagged(x, d)
  BY <1>1, <1>2 DEF StillFlagged, OnlyPass, Fields, Kept
<1>3. CASE Recover(x, d)
  <2>1. CASE Flagged(pass[x].map, <<pass[x].current, d>>)
    BY <1>1, <1>3, <2>1 DEF Recover, OnlyPass, Fields, Kept, Unflag
  <2>2. CASE ~Flagged(pass[x].map, <<pass[x].current, d>>)
    BY <1>1, <1>3, <2>2 DEF Recover, OnlyPass, Fields, Kept
  <2>3. QED
    BY <2>1, <2>2
<1>4. QED
  BY <1>2, <1>3

LEMMA Ended ==
  ASSUME Shapes, NEW x \in Passes, EndPolicy(x)
  PROVE  /\ OnlyPass(x) /\ pass'[x].stage \in {"policy", "save"}
         /\ pass'[x].todo = pass[x].todo /\ pass'[x].seen = pass[x].seen
         /\ pass'[x].alerts \subseteq pass[x].alerts \cup {pass[x].current}
         /\ pass'[x].new = pass[x].new /\ pass'[x].launched = pass[x].launched
         /\ pass'[x].map = pass[x].map
<1> DEFINE p     == pass[x].current
           found == \E v \in DOMAIN pass[x].new : pass[x].new[v].policy = p
           next  == IF pass[x].todo = {} THEN "save" ELSE "policy"
           due   == IF found THEN pass[x].alerts \cup {p} ELSE pass[x].alerts
<1>1. DOMAIN pass = Passes /\ DOMAIN pass[x] = Fields
  BY DEF Shapes, PassFits
<1>2. pass' = [pass EXCEPT ![x] = [pass[x] EXCEPT !.stage = next, !.alerts = due]]
  BY DEF EndPolicy, Shapes
<1>3. next \in {"policy", "save"} /\ due \subseteq pass[x].alerts \cup {p}
  OBVIOUS
<1> HIDE DEF next, due
<1>4. QED
  BY <1>1, <1>2, <1>3 DEF OnlyPass, Fields

LEMMA Saved ==
  ASSUME Shapes, NEW x \in Passes, SaveState(x)
  PROVE  OnlyPass(x) /\ pass'[x].stage = "rows" /\ Kept(pass[x], pass'[x])
<1>1. DOMAIN pass = Passes /\ DOMAIN pass[x] = Fields
  BY DEF Shapes, PassFits
<1>2. QED
  BY <1>1 DEF SaveState, OnlyPass, Fields, Kept

LEMMA Created ==
  ASSUME Shapes, NEW x \in Passes, CreateViolations(x)
  PROVE  /\ OnlyPass(x) /\ pass'[x].todo = {} /\ pass'[x].new = NoRows
         /\ pass'[x].launched = NoRuns
         /\ \/ pass'[x] = IdlePass
            \/ /\ pass'[x].stage = "alerts" /\ pass'[x].seen = pass[x].seen
               /\ pass'[x].alerts = pass[x].alerts
<1>1. /\ DOMAIN pass = Passes /\ PassFits(pass[x], nextId, Len(runs))
      /\ nextId \in Nat /\ Len(runs) \in Nat
  BY DEF Shapes
<1>2. PICK c \in {IdlePass, Alerting(pass[x])} : pass' = [pass EXCEPT ![x] = c]
  BY DEF CreateViolations, Alerting
<1>3. Alerting(pass[x]).launched = NoRuns
  BY IdleHoldsNothing, IdleFits, <1>1 DEF Alerting, PassFits, Fields
<1>4. pass'[x] = c /\ OnlyPass(x)
  BY <1>1, <1>2 DEF OnlyPass
<1>5. CASE c = IdlePass
  BY <1>4, <1>5, IdleHoldsNothing
<1>6. CASE c = Alerting(pass[x])
  BY <1>1, <1>3, <1>4, <1>6, AlertingFits
<1>7. QED
  BY <1>2, <1>5, <1>6

LEMMA Alerted ==
  ASSUME Shapes, NEW x \in Passes, AlertStep(x)
  PROVE  /\ OnlyPass(x) /\ pass[x].stage \in {"alerts", "count"}
         /\ \/ pass'[x] = IdlePass
            \/ /\ pass'[x].stage \in {"alerts", "count"} /\ pass'[x].todo = pass[x].todo
               /\ pass'[x].new = pass[x].new /\ pass'[x].launched = pass[x].launched
         /\ UNCHANGED <<state, rows, runs, reviewer, admin, autoLaunches, nextId>>
         /\ DOMAIN policy' = DOMAIN policy
<1>1. DOMAIN pass = Passes /\ DOMAIN pass[x] = Fields /\ Table(policy)
  BY DEF Shapes, PassFits
<1>2. CASE SendAlert(x) \/ AlertFails(x)
  <2>1. PICK p, n : pass' = [pass EXCEPT ![x].stage = "count", ![x].current = p,
                                         ![x].alerts = @ \ {p}, ![x].count = n,
                                         ![x].today = day]
    BY <1>2 DEF SendAlert, AlertFails
  <2>2. /\ OnlyPass(x) /\ pass'[x].stage = "count" /\ pass'[x].todo = pass[x].todo
        /\ pass'[x].new = pass[x].new /\ pass'[x].launched = pass[x].launched
    BY <1>1, <2>1 DEF OnlyPass, Fields
  <2>3. QED
    BY <1>2, <2>2 DEF SendAlert, AlertFails
<1>3. CASE CountAlert(x) \/ CountFails(x)
  <2> DEFINE c == [pass[x] EXCEPT !.stage = "alerts"]
  <2>1. pass' = [pass EXCEPT ![x] = IdlePass] \/ pass' = [pass EXCEPT ![x] = c]
    BY <1>3 DEF CountAlert, CountFails, AfterCount
  <2>2. /\ c.stage = "alerts" /\ c.todo = pass[x].todo
        /\ c.new = pass[x].new /\ c.launched = pass[x].launched
    BY <1>1 DEF Fields
  <2> HIDE DEF c
  <2>3. OnlyPass(x) /\ (pass'[x] = IdlePass \/ pass'[x] = c)
    BY <1>1, <2>1 DEF OnlyPass
  <2>4. /\ DOMAIN policy' = DOMAIN policy /\ pass[x].stage = "count"
        /\ UNCHANGED <<state, rows, runs, reviewer, admin, autoLaunches, nextId>>
    BY <1>3 DEF CountAlert, CountFails
  <2>5. QED
    BY <2>2, <2>3, <2>4
<1>4. QED
  BY <1>2, <1>3 DEF AlertStep

LEMMA Failed == ASSUME Shapes, NEW x \in Passes, PassFails(x)
                PROVE  OnlyPass(x) /\ pass'[x] = IdlePass
BY DEF PassFails, Shapes, OnlyPass

LEMMA Violated ==
  ASSUME Shapes, NEW x \in Passes, NEW d, NEW status, NEW run, NEW launch,
         Adds(x, d, status, run, launch)
  PROVE  /\ OnlyPass(x) /\ pass'[x].stage = pass[x].stage
         /\ pass'[x].todo = pass[x].todo /\ pass'[x].current = pass[x].current
         /\ pass'[x].seen = pass[x].seen /\ pass'[x].alerts = pass[x].alerts
         /\ pass'[x].map = FlagsWith(x, d, status)
         /\ pass'[x].new = With(RowOf(x, d, status, run), pass[x].new)
         /\ pass'[x].launched = RunsWith(x, d, run, launch)
         /\ pass'[x].fired = FiredWith(x, status)
<1>1. DOMAIN pass = Passes /\ DOMAIN pass[x] = Fields
  BY DEF Shapes, PassFits
<1>2. pass' = [pass EXCEPT ![x] = Grown(x, d, status, run, launch)]
  BY DEF Adds
<1>3. QED
  BY <1>1, <1>2 DEF Grown, Fields, OnlyPass

\* The rows of a pass after a new violation: those it had, and one of the pair.
LEMMA RowAdded ==
  ASSUME Shapes, NEW x \in Passes, NEW d, NEW status, NEW run, NEW launch,
         Adds(x, d, status, run, launch)
  PROVE  LET new == pass'[x].new
             v   == nextId + 1
         IN /\ DOMAIN new = DOMAIN pass[x].new \cup {v}
            /\ v \notin DOMAIN pass[x].new /\ v \notin DOMAIN rows
            /\ \A u \in DOMAIN pass[x].new : new[u] = pass[x].new[u]
            /\ new[v] = [policy |-> pass[x].current, device |-> d, status |-> status,
                         run |-> run]
<1>1. DOMAIN pass[x].new \subseteq 1..nextId /\ DOMAIN rows \subseteq 1..nextId /\ nextId \in Nat
  BY DEF Shapes, PassFits, Listed
<1>2. nextId + 1 \notin 1..nextId
  BY <1>1
<1> DEFINE v == nextId + 1
           row == [policy |-> pass[x].current, device |-> d, status |-> status, run |-> run]
<1>3. v \notin DOMAIN pass[x].new /\ v \notin DOMAIN rows
  BY <1>1, <1>2
<1>4. pass'[x].new = With(RowOf(x, d, status, run), pass[x].new)
  BY Violated
<1>5. RowOf(x, d, status, run) = [u \in {v} |-> row]
  BY DEF RowOf
<1> HIDE DEF v, row
<1>6. /\ DOMAIN pass'[x].new = DOMAIN pass[x].new \cup {v} /\ pass'[x].new[v] = row
      /\ \A u \in DOMAIN pass[x].new : pass'[x].new[u] = pass[x].new[u]
  BY <1>3, <1>4, <1>5 DEF With
<1>7. QED
  BY <1>3, <1>6 DEF v, row

---------------------------------------------------------------------------
(* The batch cap and the shared run: whoever overlaps, a pass counts its own *)

FiredBy(c, p) == {v \in DOMAIN c.new : c.new[v].policy = p /\ c.new[v].status = "auto_fired"}

\* A policy still to come has launched nothing; that at hand no more than was counted.
CapHeld(c) ==
  /\ \A p \in c.todo : FiredBy(c, p) = {}
  /\ c.stage = "device" => /\ c.current \notin c.todo
                           /\ Cardinality(FiredBy(c, c.current)) <= c.fired
  /\ \A p \in Policies : BatchCap[p] # NoCap => Cardinality(FiredBy(c, p)) <= BatchCap[p]

\* Each automatic violation names the run remembered for its workflow and device.
RunsShared(c) ==
  \A v \in DOMAIN c.new : c.new[v].status = "auto_fired" =>
    /\ c.new[v].run # 0
    /\ c.launched[<<WorkflowOf[c.new[v].policy][c.new[v].device], c.new[v].device>>]
         = c.new[v].run

Own == \A x \in Passes : CapHeld(pass[x]) /\ RunsShared(pass[x])

\* The bound is a number.
LEMMA CapKnown == ASSUME NEW p \in Policies, BatchCap[p] # NoCap PROVE BatchCap[p] \in Nat \ {0}
BY ComplianceAssumption

LEMMA OwnEmpty == ASSUME NEW c, c.new = NoRows, c.stage # "device" PROVE CapHeld(c) /\ RunsShared(c)
<1>1. DOMAIN c.new = {}
  BY IdleHoldsNothing
<1>2. \A p : FiredBy(c, p) = {} /\ Cardinality(FiredBy(c, p)) = 0
  BY <1>1, FS_EmptySet DEF FiredBy
<1>3. \A p \in Policies : BatchCap[p] # NoCap => Cardinality(FiredBy(c, p)) <= BatchCap[p]
  BY <1>2, CapKnown
<1>4. QED
  BY <1>1, <1>2, <1>3 DEF CapHeld, RunsShared

LEMMA OwnKept ==
  ASSUME NEW b, NEW c, CapHeld(b), RunsShared(b), c.new = b.new, c.launched = b.launched,
         c.todo \subseteq b.todo,
         c.stage = "device" => /\ c.current \notin c.todo
                               /\ \/ c.current \in b.todo /\ c.fired = 0
                                  \/ b.stage = "device" /\ c.current = b.current /\ c.fired = b.fired
  PROVE  CapHeld(c) /\ RunsShared(c)
<1>1. \A p : FiredBy(c, p) = FiredBy(b, p)
  BY DEF FiredBy
<1>2. RunsShared(c)
  BY DEF RunsShared
<1>3. c.stage = "device" => Cardinality(FiredBy(c, c.current)) <= c.fired
  <2>1. CASE c.current \in b.todo /\ c.fired = 0
    BY <1>1, <2>1, FS_EmptySet DEF CapHeld
  <2>2. CASE b.stage = "device" /\ c.current = b.current /\ c.fired = b.fired
    BY <1>1, <2>2 DEF CapHeld
  <2>3. QED
    BY <2>1, <2>2
<1>4. QED
  BY <1>1, <1>2, <1>3 DEF CapHeld

LEMMA OwnAdds ==
  ASSUME Shapes, NEW x \in Passes, pass[x].stage = "device", CapHeld(pass[x]),
         RunsShared(pass[x]), NEW d, NEW status, NEW run, NEW launch,
         Adds(x, d, status, run, launch)
  PROVE  CapHeld(pass'[x]) /\ RunsShared(pass'[x])
<1> DEFINE b == pass[x]
           c == pass'[x]
           p == b.current
           v == nextId + 1
           key == <<WorkflowOf[p][d], d>>
<1>1. /\ c.stage = "device" /\ c.todo = b.todo /\ c.current = p
      /\ c.launched = RunsWith(x, d, run, launch) /\ c.fired = FiredWith(x, status)
  BY Violated
<1>2. /\ DOMAIN c.new = DOMAIN b.new \cup {v} /\ v \notin DOMAIN b.new
      /\ \A u \in DOMAIN b.new : c.new[u] = b.new[u]
      /\ c.new[v] = [policy |-> p, device |-> d, status |-> status, run |-> run]
  BY RowAdded
<1>3. p \in Policies /\ d \in Devices
  BY DEF Adds, Pairs
<1>4. b.launched \in [Workflows \X Devices -> 0..Len(runs)] /\ b.fired \in Nat
      /\ IsFiniteSet(DOMAIN b.new)
  BY DEF Shapes, PassFits
<1>5. \A q : FiredBy(c, q) = IF q = p /\ status = "auto_fired" THEN FiredBy(b, q) \cup {v}
                             ELSE FiredBy(b, q)
  <2>1. c.new[v].policy = p /\ c.new[v].status = status
    BY <1>2
  <2> HIDE DEF b, c, p, v
  <2>2. QED
    BY <1>2, <2>1 DEF FiredBy
<1>6. \A q : /\ IsFiniteSet(FiredBy(b, q)) /\ Cardinality(FiredBy(b, q)) \in Nat
             /\ Cardinality(FiredBy(b, q) \cup {v}) = Cardinality(FiredBy(b, q)) + 1
  <2> TAKE q
  <2>1. FiredBy(b, q) \subseteq DOMAIN b.new
    BY DEF FiredBy
  <2>2. IsFiniteSet(FiredBy(b, q))
    BY <1>4, <2>1, FS_Subset
  <2>3. v \notin FiredBy(b, q)
    BY <1>2, <2>1
  <2>4. QED
    BY <2>2, <2>3, FS_AddElement, FS_CardinalityType
<1>7. c.fired = IF status = "auto_fired" THEN b.fired + 1 ELSE b.fired
  BY <1>1 DEF FiredWith
<1>8. status = "auto_fired" /\ BatchCap[p] # NoCap => b.fired < BatchCap[p]
  BY <1>3, <1>4, CapKnown DEF Adds, CapReached
<1>9. p \notin b.todo /\ Cardinality(FiredBy(b, p)) <= b.fired
  BY DEF CapHeld
<1>10. CapHeld(c)
  <2>1. \A q \in c.todo : FiredBy(c, q) = {}
    BY <1>1, <1>5, <1>9 DEF CapHeld
  <2>2. Cardinality(FiredBy(c, p)) <= c.fired
    <3> HIDE DEF b, c, p, v
    <3>1. QED
      BY <1>4, <1>5, <1>6, <1>7, <1>9
  <2>3. \A q \in Policies : BatchCap[q] # NoCap => Cardinality(FiredBy(c, q)) <= BatchCap[q]
    <3> TAKE q \in Policies
    <3> HAVE BatchCap[q] # NoCap
    <3>1. BatchCap[q] \in Nat /\ Cardinality(FiredBy(b, q)) <= BatchCap[q]
      BY CapKnown DEF CapHeld
    <3>2. q = p /\ status = "auto_fired" => Cardinality(FiredBy(b, q)) + 1 <= BatchCap[q]
      <4> HIDE DEF b, c, p, v
      <4>1. QED
        BY <1>4, <1>6, <1>8, <1>9, <3>1
    <3> HIDE DEF b, c, p, v
    <3>3. QED
      BY <1>5, <1>6, <3>1, <3>2
  <2>4. QED
    BY <1>1, <1>9, <2>1, <2>2, <2>3 DEF CapHeld
<1>11. RunsShared(c)
  <2> SUFFICES ASSUME NEW u \in DOMAIN c.new, c.new[u].status = "auto_fired"
               PROVE  /\ c.new[u].run # 0
                      /\ c.launched[<<WorkflowOf[c.new[u].policy][c.new[u].device],
                                      c.new[u].device>>] = c.new[u].run
    BY DEF RunsShared
  <2>1. c.launched = [b.launched EXCEPT ![key] = IF launch THEN run ELSE @]
    BY <1>1 DEF RunsWith
  <2>2. CASE u = v
    <3>1. /\ c.new[u].policy = p /\ c.new[u].device = d /\ status = "auto_fired"
          /\ c.new[u].run = run
      BY <1>2, <2>2
    <3>2. /\ key \in DOMAIN b.launched /\ run # 0
          /\ launch \/ run = b.launched[key]
      BY <1>4, <3>1 DEF Adds
    <3> HIDE DEF b, c, p, v
    <3>3. QED
      BY <2>1, <3>1, <3>2 DEF key
  <2>3. CASE u # v
    <3> DEFINE other == <<WorkflowOf[b.new[u].policy][b.new[u].device], b.new[u].device>>
    <3>1. u \in DOMAIN b.new /\ c.new[u] = b.new[u]
      BY <1>2, <2>3
    <3>2. b.new[u].run # 0 /\ b.launched[other] = b.new[u].run
      BY <3>1 DEF RunsShared
    <3>3. launch => b.launched[key] = 0
      BY DEF Adds
    <3>4. c.launched[other] = b.launched[other]
      <4> HIDE DEF other, key, b, c
      <4>1. QED
        BY <2>1, <1>4, <3>2, <3>3
    <3>5. QED
      BY <3>1, <3>2, <3>4
  <2>4. QED
    BY <2>2, <2>3
<1>12. QED
  BY <1>10, <1>11

\* Only the passes have a say in it.
LEMMA OwnMoves ==
  ASSUME Own, NEW x \in Passes, OnlyPass(x), CapHeld(pass'[x]), RunsShared(pass'[x])
  PROVE  Own'
BY DEF Own, OnlyPass

LEMMA NextOwn == ASSUME Shapes, Own, [Next]_vars PROVE Own'
<1>1. ASSUME NEW x \in Passes, StartPass(x) \/ Evaluate(x) \/ Breaks(x) PROVE Own'
  <2> DEFINE b == pass[x]
             c == pass'[x]
  <2>1. CapHeld(b) /\ RunsShared(b)
    BY DEF Own
  <2>2. CASE StartPass(x)
    BY <2>2, Started, OwnEmpty, OwnMoves
  <2>3. CASE PullDevices(x)
    <3>1. OnlyPass(x) /\ c.stage = "load" /\ Kept(b, c)
      BY <2>3, Pulled
    <3>2. QED
      BY <2>1, <3>1, OwnKept, OwnMoves DEF Kept
  <2>4. CASE LoadState(x)
    <3>1. OnlyPass(x) /\ c.stage = "policy" /\ Kept(b, c)
      BY <2>4, Loaded
    <3>2. QED
      BY <2>1, <3>1, OwnKept, OwnMoves DEF Kept
  <2>5. CASE JudgePolicy(x)
    <3>1. PICK p \in b.todo :
              \/ c = IdlePass
              \/ /\ c.stage = "device" /\ c.current = p
                 /\ c.todo = b.todo \ {p} /\ c.new = b.new
                 /\ c.launched = b.launched /\ c.fired = 0
      BY <2>5, JudgedTo
    <3>2. OnlyPass(x)
      BY <2>5, JudgedTo
    <3>3. CASE c = IdlePass
      BY <3>2, <3>3, IdleHoldsNothing, OwnEmpty, OwnMoves
    <3>4. CASE c # IdlePass
      <4>1. CapHeld(c) /\ RunsShared(c)
        BY <2>1, <3>1, <3>4, OwnKept
      <4>2. QED
        BY <3>2, <4>1, OwnMoves
    <3>5. QED
      BY <3>3, <3>4
  <2>6. CASE EvaluateDevice(x)
    <3>1. PICK d : Recover(x, d) \/ StillFlagged(x, d) \/ NewViolation(x, d)
      BY <2>6 DEF EvaluateDevice
    <3>2. b.stage = "device"
      BY <2>6 DEF EvaluateDevice
    <3>3. CASE Recover(x, d) \/ StillFlagged(x, d)
      <4>1. /\ OnlyPass(x) /\ c.stage = b.stage /\ Kept(b, c)
            /\ c.current = b.current /\ c.fired = b.fired
        BY <3>3, Recovered
      <4>2. c.current \notin c.todo
        BY <2>1, <3>2, <4>1 DEF CapHeld, Kept
      <4>3. CapHeld(c) /\ RunsShared(c)
        BY <2>1, <3>2, <4>1, <4>2, OwnKept DEF Kept
      <4>4. QED
        BY <4>1, <4>3, OwnMoves
    <3>4. CASE NewViolation(x, d)
      <4>1. PICK status, run, launch : Adds(x, d, status, run, launch)
        BY <3>2, <3>4, ViolationAdds
      <4>2. OnlyPass(x) /\ CapHeld(c) /\ RunsShared(c)
        BY <2>1, <3>2, <4>1, Violated, OwnAdds
      <4>3. QED
        BY <4>2, OwnMoves
    <3>5. QED
      BY <3>1, <3>3, <3>4
  <2>7. CASE EndPolicy(x)
    <3>1. /\ OnlyPass(x) /\ c.stage # "device" /\ c.todo = b.todo /\ c.new = b.new
          /\ c.launched = b.launched
      BY <2>7, Ended
    <3>2. QED
      BY <2>1, <3>1, OwnKept, OwnMoves
  <2>8. CASE SaveState(x)
    <3>1. OnlyPass(x) /\ c.stage = "rows" /\ Kept(b, c)
      BY <2>8, Saved
    <3>2. QED
      BY <2>1, <3>1, OwnKept, OwnMoves DEF Kept
  <2>9. CASE CreateViolations(x)
    <3>1. OnlyPass(x) /\ c.new = NoRows /\ c.stage # "device"
      BY <2>9, Created, IdleHoldsNothing
    <3>2. QED
      BY <3>1, OwnEmpty, OwnMoves
  <2>10. CASE AlertStep(x)
    <3>1. OnlyPass(x)
      BY <2>10, Alerted
    <3>2. \/ c = IdlePass
          \/ /\ c.stage # "device" /\ c.todo = b.todo
             /\ c.new = b.new /\ c.launched = b.launched
      BY <2>10, Alerted
    <3>3. CASE c = IdlePass
      BY <3>1, <3>3, IdleHoldsNothing, OwnEmpty, OwnMoves
    <3>4. CASE c # IdlePass
      BY <2>1, <3>1, <3>2, <3>4, OwnKept, OwnMoves
    <3>5. QED
      BY <3>3, <3>4
  <2>11. CASE PassFails(x)
    BY <2>11, Failed, IdleHoldsNothing, OwnEmpty, OwnMoves
  <2>12. QED
    BY <1>1, <2>2, <2>3, <2>4, <2>5, <2>6, <2>7, <2>8, <2>9, <2>10, <2>11
    DEF Evaluate, Breaks, AlertStep
<1>2. ASSUME pass' = pass PROVE Own'
  BY <1>2 DEF Own
<1>3. ASSUME ~ \E x \in Passes : StartPass(x) \/ Evaluate(x) \/ Breaks(x) PROVE pass' = pass
  BY <1>3, ZenonT(30) DEF Next, vars, Review, LaunchApproved, RecordApproval, LoadFlags, SaveFlags, Approve,
     Dismiss, ReviewUnchanged, SavePolicy, DeleteViolations, LoadForDelete, SavePurged,
     DeletePolicy, AdminUnchanged, Flip, RunEnds, WorkflowEdited, NewDay, WorldUnchanged
<1>4. QED
  BY <1>1, <1>2, <1>3

LEMMA AlwaysOwn == Spec => [](Shapes /\ Own)
<1>1. Init => Shapes /\ Own
  BY InitShapes, IdleHoldsNothing, OwnEmpty DEF Init, Own
<1>2. Shapes /\ Own /\ [Next]_vars => (Shapes /\ Own)'
  BY NextShapes, NextOwn
<1>3. QED
  BY <1>1, <1>2, PTL DEF Spec

\* However passes overlap and wherever they are cut short, none remediates more devices of
\* a policy than its batch cap.
THEOREM CapRespected == Spec => []WithinBatchCap
<1>1. Own => WithinBatchCap
  BY DEF Own, CapHeld, WithinBatchCap, FiredBy
<1>2. QED
  BY <1>1, AlwaysOwn, PTL

\* However passes overlap, the policies of one pass that share a workflow share its run.
THEOREM WorkflowShared == Spec => []SharedWorkflowOnce
<1>1. Own => SharedWorkflowOnce
  <2> SUFFICES ASSUME Own PROVE SharedWorkflowOnce
    OBVIOUS
  <2>1. ASSUME NEW x \in Passes, NEW v \in DOMAIN pass[x].new, NEW u \in DOMAIN pass[x].new
        PROVE  LET a == pass[x].new[v]
                   b == pass[x].new[u]
               IN (/\ {a.status, b.status} = {"auto_fired"} /\ a.device = b.device
                   /\ WorkflowOf[a.policy][a.device] = WorkflowOf[b.policy][b.device])
                  => a.run = b.run
    <3> DEFINE a == pass[x].new[v]
               b == pass[x].new[u]
    <3>1. SUFFICES ASSUME {a.status, b.status} = {"auto_fired"}, a.device = b.device,
                          WorkflowOf[a.policy][a.device] = WorkflowOf[b.policy][b.device]
                   PROVE  a.run = b.run
      OBVIOUS
    <3>2. a.status = "auto_fired" /\ b.status = "auto_fired"
      BY <3>1
    <3>3. RunsShared(pass[x])
      BY DEF Own
    <3>4. /\ a.run = pass[x].launched[<<WorkflowOf[a.policy][a.device], a.device>>]
          /\ b.run = pass[x].launched[<<WorkflowOf[b.policy][b.device], b.device>>]
      BY <3>2, <3>3 DEF RunsShared
    <3> HIDE DEF a, b
    <3>5. QED
      BY <3>1, <3>4
  <2>2. QED
    BY <2>1 DEF SharedWorkflowOnce
<1>2. QED
  BY <1>1, AlwaysOwn, PTL

---------------------------------------------------------------------------
(* The daily limit of alerts, as long as passes do not overlap *)

Alone == \A x, y \in Passes : pass[x].stage # "idle" /\ pass[y].stage # "idle" => x = y

\* The counter of a policy's row is that of the messages sent today, those lost apart.
Counted(r, p) == r.alertsDate <= day /\ AlertsToday(r) = sent[p] - uncounted[p]

\* What a pass has read of the policies it has still to alert on is not out of date.
CountsSeen(c) ==
  /\ \A p \in c.todo \cup c.alerts : Counted(c.seen[p], p)
  /\ c.stage = "device" => Counted(c.seen[c.current], c.current)
  /\ c.stage \in {"alerts", "count"} => c.todo = {}
  /\ c.stage = "count" =>
       /\ c.current \notin c.alerts
       /\ c.today <= day /\ c.seen[c.current].alertsDate <= c.today
       /\ sent[c.current] - uncounted[c.current] = IF c.today = day THEN c.count ELSE 0

\* The pass has sent the alert of p and is to write its counter, which is as it was.
AtCount(x, p) == pass[x].stage = "count" /\ pass[x].current = p
Behind(r, c)  == r.alertsDate <= c.today /\ AlertsToday(r) = AlertsToday(c.seen[c.current])

Counters ==
  /\ sent \in [Policies -> Int] /\ uncounted \in [Policies -> Int]
  /\ \A p \in Policies : sent[p] - uncounted[p] \in 0..AlertMax
  /\ \A p \in DOMAIN policy : Counted(policy[p], p) \/ \E x \in Passes : AtCount(x, p)
  /\ \A x \in Passes : \A p \in DOMAIN policy : AtCount(x, p) => Behind(policy[p], pass[x])
  /\ \A x \in Passes : CountsSeen(pass[x])

LEMMA AloneMoves ==
  ASSUME Shapes, Alone, NEW x \in Passes, OnlyPass(x), pass[x].stage # "idle" \/ NoPass
  PROVE  Alone'
BY DEF Alone, OnlyPass, NoPass

LEMMA PassMoves ==
  ASSUME Shapes, NEW x \in Passes, StartPass(x) \/ Evaluate(x) \/ Breaks(x)
  PROVE  OnlyPass(x)
<1>1. ASSUME EvaluateDevice(x) PROVE OnlyPass(x)
  <2>1. PICK d : Recover(x, d) \/ StillFlagged(x, d) \/ NewViolation(x, d)
    BY <1>1 DEF EvaluateDevice
  <2>2. ASSUME NewViolation(x, d) PROVE OnlyPass(x)
    BY <1>1, <2>2, ViolationAdds, Violated DEF EvaluateDevice
  <2>3. QED
    BY <2>1, <2>2, Recovered
<1>2. QED
  BY <1>1, Started, Pulled, Loaded, JudgedTo, Ended, Saved, Created, Alerted, Failed
  DEF Evaluate, Breaks, AlertStep

LEMMA PassActive ==
  ASSUME NEW x \in Passes, Evaluate(x) \/ Breaks(x)
  PROVE  pass[x].stage # "idle"
BY ComplianceAssumption
   DEF Evaluate, PullDevices, LoadState, JudgePolicy, EvaluateDevice, EndPolicy, SaveState,
       CreateViolations, SendAlert, CountAlert, Breaks, AlertFails, CountFails, PassFails

\* Every step is one of a pass, or leaves them all as they are.
LEMMA OthersKeepPass ==
  ASSUME [Next]_vars, ~ \E x \in Passes : StartPass(x) \/ Evaluate(x) \/ Breaks(x)
  PROVE  pass' = pass
BY DEF Next, vars, Review, LaunchApproved, RecordApproval, LoadFlags, SaveFlags, Approve,
   Dismiss, ReviewUnchanged, SavePolicy, DeleteViolations, LoadForDelete, SavePurged,
   DeletePolicy, AdminUnchanged, Flip, RunEnds, WorkflowEdited, NewDay, WorldUnchanged

LEMMA NextAlone ==
  ASSUME OnePass, Shapes, Alone, [Next]_vars
  PROVE  Alone'
<1>1. ASSUME NEW x \in Passes, StartPass(x) PROVE Alone'
  BY <1>1, PassMoves, AloneMoves DEF StartPass
<1>2. ASSUME NEW x \in Passes, Evaluate(x) \/ Breaks(x) PROVE Alone'
  BY <1>2, PassMoves, PassActive, AloneMoves
<1>3. CASE pass' = pass
  BY <1>3 DEF Alone
<1>4. QED
  BY <1>1, <1>2, <1>3, OthersKeepPass

\* An idle pass has nothing to alert on.
LEMMA IdleCounts == CountsSeen(IdlePass)
BY IdleHoldsNothing DEF CountsSeen

\* A step that sends nothing, and leaves the counters to the alerts.
LEMMA CountersKept ==
  ASSUME Shapes, Counters, UNCHANGED <<sent, day, uncounted>>,
         DOMAIN policy' \subseteq DOMAIN policy,
         \A p \in DOMAIN policy' : /\ policy'[p].alertsSent = policy[p].alertsSent
                                   /\ policy'[p].alertsDate = policy[p].alertsDate,
         \A x \in Passes : \/ pass'[x] = pass[x]
                           \/ pass[x].stage # "count" /\ pass'[x].stage # "count",
         \A x \in Passes : CountsSeen(pass'[x])
  PROVE  Counters'
<1>1. \A p \in DOMAIN policy' : (Counted(policy[p], p) => Counted(policy[p], p)')
  BY DEF Counted, AlertsToday
<1>2. \A x \in Passes : \A p : AtCount(x, p)' <=> AtCount(x, p)
  BY DEF AtCount
<1>3. \A x \in Passes : \A p \in DOMAIN policy' :
        AtCount(x, p) /\ Behind(policy[p], pass[x]) => Behind(policy[p], pass[x])'
  BY DEF AtCount, Behind, AlertsToday
<1>4. \A x \in Passes : CountsSeen(pass[x])'
  BY DEF CountsSeen, Counted, AlertsToday
<1>5. QED
  BY <1>1, <1>2, <1>3, <1>4 DEF Counters

LEMMA SameIsSame ==
  ASSUME policy' = policy
  PROVE  /\ DOMAIN policy' \subseteq DOMAIN policy
         /\ \A p \in DOMAIN policy' : /\ policy'[p].alertsSent = policy[p].alertsSent
                                      /\ policy'[p].alertsDate = policy[p].alertsDate
OBVIOUS

\* A step of one pass.
LEMMA CountersMoves ==
  ASSUME Shapes, Counters, NEW x \in Passes, OnlyPass(x), CountsSeen(pass'[x]),
         pass[x].stage # "count", pass'[x].stage # "count",
         UNCHANGED <<sent, day, uncounted>>, policy' = policy \/ SameAlerts
  PROVE  Counters'
<1>1. \A y \in Passes : /\ CountsSeen(pass'[y])
                        /\ \/ pass'[y] = pass[y]
                           \/ pass[y].stage # "count" /\ pass'[y].stage # "count"
  BY DEF Counters, OnlyPass
<1>2. QED
  BY <1>1, SameIsSame, CountersKept DEF SameAlerts

\* The pass at work is the only one.
LEMMA OthersIdle ==
  ASSUME Shapes, Alone, NEW x \in Passes, pass[x].stage # "idle", OnlyPass(x)
  PROVE  \A y \in Passes \ {x} : pass[y] = IdlePass /\ pass'[y] = IdlePass
BY DEF Shapes, Alone, PassFits, OnlyPass

\* What an attempt to send does, whether it succeeds or not: the difference between
\* the alerts sent and those lost becomes the count to be stored.
LEMMA Attempted ==
  ASSUME Shapes, Counters, NEW x \in Passes, SendAlert(x) \/ AlertFails(x)
  PROVE  /\ pass[x].stage = "alerts" /\ UNCHANGED <<policy, day>>
         /\ sent' \in [Policies -> Int] /\ uncounted' \in [Policies -> Int]
         /\ \E p \in pass[x].alerts, n \in 0..AlertMax :
              /\ p \in Policies /\ p \in DOMAIN pass[x].seen
              /\ sent'[p] - uncounted'[p] = n
              /\ \A q \in Policies \ {p} : sent'[q] = sent[q] /\ uncounted'[q] = uncounted[q]
              /\ pass'[x].stage = "count" /\ pass'[x].current = p /\ pass'[x].todo = pass[x].todo
              /\ pass'[x].alerts = pass[x].alerts \ {p} /\ pass'[x].seen = pass[x].seen
              /\ pass'[x].count = n /\ pass'[x].today = day
<1>1. /\ DOMAIN pass = Passes /\ DOMAIN pass[x] = Fields /\ pass[x].alerts \subseteq DOMAIN pass[x].seen
      /\ Table(pass[x].seen) /\ AlertMax \in Nat
  BY ComplianceAssumption DEF Shapes, PassFits
<1>2. pass[x].stage = "alerts" /\ UNCHANGED <<policy, day>>
  BY DEF SendAlert, AlertFails
<1>3. PICK p \in pass[x].alerts, a \in {0, 1}, u \in {0, 1}, n \in 0..AlertMax :
        /\ n = AlertsToday(pass[x].seen[p]) + a - u
        /\ sent' = [sent EXCEPT ![p] = @ + a] /\ uncounted' = [uncounted EXCEPT ![p] = @ + u]
        /\ pass' = [pass EXCEPT ![x].stage = "count", ![x].current = p,
                                ![x].alerts = @ \ {p}, ![x].count = n, ![x].today = day]
  <2>1. \A p \in pass[x].alerts : AlertsToday(pass[x].seen[p]) \in 0..AlertMax
    BY <1>1 DEF AlertsToday, Table, PolicyRow
  <2>2. /\ sent \in [Policies -> Int] /\ uncounted \in [Policies -> Int]
        /\ \A p \in pass[x].alerts : p \in Policies
    BY <1>1 DEF Counters, Table
  <2>3. \A p \in pass[x].alerts : /\ sent = [sent EXCEPT ![p] = @ + 0]
                                  /\ uncounted = [uncounted EXCEPT ![p] = @ + 0]
    BY <2>2
  <2>4. CASE SendAlert(x)
    <3>1. PICK p \in pass[x].alerts :
            LET so == AlertsToday(pass[x].seen[p]) IN
            /\ sent' = IF so < AlertMax THEN [sent EXCEPT ![p] = @ + 1] ELSE sent
            /\ pass' = [pass EXCEPT ![x].stage = "count", ![x].current = p,
                            ![x].alerts = @ \ {p}, ![x].count = SentAfter(so), ![x].today = day]
      BY <2>4 DEF SendAlert
    <3> DEFINE so == AlertsToday(pass[x].seen[p])
               a  == IF so < AlertMax THEN 1 ELSE 0
    <3>2. so \in 0..AlertMax /\ uncounted' = uncounted
      BY <2>1, <2>4 DEF SendAlert
    <3> HIDE DEF so
    <3>3. /\ SentAfter(so) = so + a - 0 /\ SentAfter(so) \in 0..AlertMax
          /\ a \in {0, 1} /\ sent' = [sent EXCEPT ![p] = @ + a]
      <4>1. CASE so < AlertMax
        <5>1. sent' = [sent EXCEPT ![p] = @ + 1]
          BY <3>1, <4>1 DEF so
        <5>2. QED
          BY <1>1, <3>2, <4>1, <5>1 DEF SentAfter
      <4>2. CASE ~(so < AlertMax)
        <5>1. sent' = sent
          BY <3>1, <4>2 DEF so
        <5>2. sent = [sent EXCEPT ![p] = @ + 0]
          BY <2>3
        <5>3. QED
          BY <1>1, <3>2, <4>2, <5>1, <5>2 DEF SentAfter
      <4>3. QED
        BY <4>1, <4>2
    <3>4. uncounted' = [uncounted EXCEPT ![p] = @ + 0]
      BY <2>3, <3>2
    <3> HIDE DEF a
    <3>5. QED
      BY <3>1, <3>3, <3>4 DEF so
  <2>5. CASE AlertFails(x)
    <3>1. PICK p \in pass[x].alerts, a \in {0, 1} :
            LET so == AlertsToday(pass[x].seen[p]) IN
            /\ sent' = [sent EXCEPT ![p] = @ + a] /\ uncounted' = [uncounted EXCEPT ![p] = @ + a]
            /\ pass' = [pass EXCEPT ![x].stage = "count", ![x].current = p,
                            ![x].alerts = @ \ {p}, ![x].count = so, ![x].today = day]
      BY <2>5 DEF AlertFails
    <3> DEFINE so == AlertsToday(pass[x].seen[p])
    <3>2. so \in 0..AlertMax
      BY <2>1
    <3> HIDE DEF so
    <3>3. so = so + a - a
      BY <3>2
    <3>4. QED
      BY <3>1, <3>2, <3>3 DEF so
  <2>6. QED
    BY <2>4, <2>5
<1>4. p \in Policies /\ p \in DOMAIN pass[x].seen
  BY <1>1 DEF Table
<1>5. AlertsToday(pass[x].seen[p]) = sent[p] - uncounted[p]
  BY DEF Counters, CountsSeen, Counted
<1>6. /\ sent' \in [Policies -> Int] /\ uncounted' \in [Policies -> Int]
      /\ sent'[p] = sent[p] + a /\ uncounted'[p] = uncounted[p] + u
      /\ sent[p] \in Int /\ uncounted[p] \in Int
      /\ \A q \in Policies \ {p} : sent'[q] = sent[q] /\ uncounted'[q] = uncounted[q]
  BY <1>3, <1>4 DEF Counters
<1>7. sent'[p] - uncounted'[p] = n /\ n \in 0..AlertMax
  BY <1>3, <1>5, <1>6
<1>8. /\ pass'[x].stage = "count" /\ pass'[x].current = p /\ pass'[x].todo = pass[x].todo
      /\ pass'[x].alerts = pass[x].alerts \ {p} /\ pass'[x].seen = pass[x].seen
      /\ pass'[x].count = n /\ pass'[x].today = day
  BY <1>1, <1>3 DEF Fields
<1>9. QED
  BY <1>2, <1>4, <1>6, <1>7, <1>8

LEMMA AttemptCounters ==
  ASSUME Shapes, Alone, Counters, NEW x \in Passes, SendAlert(x) \/ AlertFails(x)
  PROVE  Counters'
<1> DEFINE b == pass[x]
           c == pass'[x]
<1>1. /\ b.stage = "alerts" /\ UNCHANGED <<policy, day>>
      /\ sent' \in [Policies -> Int] /\ uncounted' \in [Policies -> Int]
  BY Attempted
<1>2. PICK p \in b.alerts, n \in 0..AlertMax :
              /\ p \in Policies /\ p \in DOMAIN b.seen
              /\ sent'[p] - uncounted'[p] = n
              /\ \A q \in Policies \ {p} : sent'[q] = sent[q] /\ uncounted'[q] = uncounted[q]
              /\ c.stage = "count" /\ c.current = p /\ c.todo = b.todo
              /\ c.alerts = b.alerts \ {p} /\ c.seen = b.seen
              /\ c.count = n /\ c.today = day
  BY Attempted
<1>3. OnlyPass(x)
  BY Alerted DEF AlertStep
<1>4. \A y \in Passes \ {x} : pass[y] = IdlePass /\ pass'[y] = IdlePass
  BY <1>1, <1>3, OthersIdle
<1>5. /\ \A q \in b.alerts : Counted(b.seen[q], q) /\ q \in Policies
      /\ b.todo = {} /\ day \in Nat /\ DOMAIN policy \subseteq Policies
  BY <1>1 DEF Counters, CountsSeen, Shapes, PassFits, Table
<1>6. \A q \in DOMAIN policy : Counted(policy[q], q)
  BY <1>1, <1>4, IdleHoldsNothing DEF Counters, AtCount
<1>7. \A q \in Policies : sent'[q] - uncounted'[q] \in 0..AlertMax
  BY <1>2 DEF Counters
<1>9. \A q \in DOMAIN policy' : Counted(policy[q], q)' \/ \E y \in Passes : AtCount(y, q)'
  <2> TAKE q \in DOMAIN policy'
  <2>1. CASE q = p
    BY <1>2, <2>1 DEF AtCount
  <2>2. CASE q # p
    BY <1>1, <1>2, <1>5, <1>6, <2>2 DEF Counted, AlertsToday
  <2>3. QED
    BY <2>1, <2>2
<1>10. \A y \in Passes : \A q \in DOMAIN policy' : AtCount(y, q)' => Behind(policy[q], pass[y])'
  <2> TAKE y \in Passes
  <2> TAKE q \in DOMAIN policy'
  <2> HAVE AtCount(y, q)'
  <2>1. y = x /\ q = p
    BY <1>2, <1>4, IdleHoldsNothing DEF AtCount
  <2>2. Counted(policy[p], p) /\ Counted(b.seen[p], p)
    BY <1>1, <1>5, <1>6, <2>1
  <2>3. QED
    BY <1>1, <1>2, <2>1, <2>2 DEF Behind, Counted, AlertsToday
<1>11. CountsSeen(pass[x])'
  <2>1. \A q \in c.alerts : Counted(b.seen[q], q)'
    BY <1>1, <1>2, <1>5 DEF Counted, AlertsToday
  <2>2. Counted(b.seen[p], p)
    BY <1>5
  <2>3. /\ c.current \notin c.alerts /\ c.today <= day' /\ c.seen[c.current].alertsDate <= c.today
        /\ sent'[p] - uncounted'[p] = IF c.today = day' THEN c.count ELSE 0
    BY <1>1, <1>2, <1>5, <2>2 DEF Counted
  <2>4. QED
    BY <1>2, <1>5, <2>1, <2>3 DEF CountsSeen
<1>12. \A y \in Passes : CountsSeen(pass[y])'
  BY <1>4, <1>11, IdleHoldsNothing DEF CountsSeen
<1>13. QED
  BY <1>1, <1>7, <1>9, <1>10, <1>12 DEF Counters

\* The count is stored, or lost: what it would have added is then among the alerts lost.
LEMMA CountCounters ==
  ASSUME Shapes, Alone, Counters, NEW x \in Passes, pass[x].stage = "count",
         CountAlert(x) \/ CountFails(x) \/ PassFails(x)
  PROVE  Counters'
<1> DEFINE c == pass'[x]
<1>1. PICK b : b = pass[x]
  OBVIOUS
<1>2. PICK p : p = b.current
  OBVIOUS
<1>3. /\ PassFits(b, nextId, Len(runs)) /\ Table(policy) /\ Table(b.seen) /\ p \in DOMAIN b.seen
      /\ p \in Policies /\ day \in Nat /\ DOMAIN b = Fields /\ b.count \in 0..AlertMax
      /\ b.today \in Nat /\ AlertMax \in Nat
  BY <1>1, <1>2, ComplianceAssumption DEF Shapes, PassFits, Table
<1>4. /\ b.todo = {} /\ p \notin b.alerts /\ b.today <= day /\ b.seen[p].alertsDate <= b.today
      /\ sent[p] - uncounted[p] = IF b.today = day THEN b.count ELSE 0
      /\ \A q \in b.alerts : Counted(b.seen[q], q)
      /\ p \in DOMAIN policy => Behind(policy[p], b)
      /\ sent \in [Policies -> Int] /\ uncounted \in [Policies -> Int]
  BY <1>1, <1>2 DEF Counters, CountsSeen, AtCount
<1>5. PICK so \in 0..AlertMax : so = AlertsToday(b.seen[p]) /\ (b.today # day => so = 0)
  <2>1. b.seen[p] \in PolicyRow
    BY <1>3 DEF Table
  <2>2. b.seen[p].alertsDate \in Nat /\ b.seen[p].alertsSent \in 0..AlertMax
    BY <2>1 DEF PolicyRow
  <2>3. QED
    BY <1>3, <1>4, <2>2 DEF AlertsToday
<1>6. /\ OnlyPass(x) /\ UNCHANGED <<sent, day>>
      /\ \/ c = IdlePass
         \/ /\ c.stage = "alerts" /\ c.todo = b.todo /\ c.seen = b.seen
            /\ c.alerts = b.alerts
  <2>1. CASE PassFails(x)
    BY <2>1, Failed DEF PassFails
  <2>2. CASE CountAlert(x) \/ CountFails(x)
    <3>1. pass' = [pass EXCEPT ![x] = IF b.alerts = {} THEN IdlePass
                                      ELSE [b EXCEPT !.stage = "alerts"]]
      BY <1>1, <2>2 DEF CountAlert, CountFails, AfterCount
    <3>2. OnlyPass(x) /\ UNCHANGED <<sent, day>>
      BY <2>2, Alerted DEF AlertStep, CountAlert, CountFails
    <3>3. c = IF b.alerts = {} THEN IdlePass ELSE [b EXCEPT !.stage = "alerts"]
      BY <3>1 DEF Shapes
    <3>4. QED
      BY <1>3, <3>2, <3>3 DEF Fields
  <2>3. QED
    BY <2>1, <2>2
<1>7. \A y \in Passes \ {x} : pass[y] = IdlePass /\ pass'[y] = IdlePass
  BY <1>6, OthersIdle
<1>8. \A q \in DOMAIN policy \ {p} : Counted(policy[q], q) /\ q \in Policies
  BY <1>1, <1>2, <1>3, <1>7, IdleHoldsNothing DEF Counters, AtCount, Table
<1>9. /\ uncounted' \in [Policies -> Int]
      /\ \A q \in Policies \ {p} : uncounted'[q] = uncounted[q]
      /\ sent[p] - uncounted'[p] \in 0..AlertMax
      /\ DOMAIN policy' = DOMAIN policy
      /\ \A q \in DOMAIN policy \ {p} : policy'[q] = policy[q]
      /\ p \in DOMAIN policy => Counted(policy[p], p)'
  <2>1. CASE CountAlert(x)
    <3>1. uncounted' = uncounted /\ DOMAIN policy' = DOMAIN policy
          /\ \A q \in DOMAIN policy \ {p} : policy'[q] = policy[q]
      BY <1>1, <1>2, <2>1 DEF CountAlert
    <3>2. p \in DOMAIN policy => policy'[p].alertsSent = b.count /\ policy'[p].alertsDate = b.today
      <4>1. p \in DOMAIN policy => policy[p] \in PolicyRow
        BY <1>3 DEF Table
      <4>2. QED
        BY <1>1, <1>2, <2>1, <4>1 DEF CountAlert, PolicyRow
    <3>3. p \in DOMAIN policy => Counted(policy[p], p)'
      BY <1>3, <1>4, <1>6, <3>1, <3>2 DEF Counted, AlertsToday
    <3>4. sent[p] - uncounted'[p] \in 0..AlertMax
      BY <1>3, <1>4, <3>1
    <3>5. QED
      BY <1>4, <3>1, <3>3, <3>4
  <2>2. CASE CountFails(x) \/ PassFails(x)
    <3>1. PICK u \in Int : u = IF b.today = day THEN b.count - so ELSE 0
      BY <1>3
    <3>2. policy' = policy /\ uncounted' = [q \in Policies |-> uncounted[q] +
                                               IF q = p THEN u ELSE 0]
      BY <1>1, <1>2, <1>5, <2>2, <3>1 DEF CountFails, PassFails, Loses, Uncounted
    <3>3. /\ uncounted' \in [Policies -> Int] /\ uncounted'[p] = uncounted[p] + u
          /\ \A q \in Policies \ {p} : uncounted'[q] = uncounted[q]
      BY <1>3, <1>4, <3>1, <3>2
    <3>4. sent[p] - uncounted'[p] = so
      <4>1. sent[p] \in Int /\ uncounted[p] \in Int
        BY <1>3, <1>4
      <4>2. QED
        BY <1>3, <1>4, <1>5, <3>1, <3>3, <4>1
    <3>5. p \in DOMAIN policy => Counted(policy[p], p)'
      <4> SUFFICES ASSUME p \in DOMAIN policy PROVE Counted(policy[p], p)'
        OBVIOUS
      <4>1. policy[p].alertsDate <= b.today /\ AlertsToday(policy[p]) = so
        BY <1>2, <1>4, <1>5 DEF Behind
      <4>2. policy[p].alertsDate \in Nat
        BY <1>3 DEF Table, PolicyRow
      <4>3. QED
        BY <1>3, <1>4, <1>6, <3>2, <3>4, <4>1, <4>2 DEF Counted, AlertsToday
    <3>6. QED
      BY <1>5, <3>2, <3>3, <3>4, <3>5
  <2>3. QED
    BY <2>1, <2>2
<1>10. \A q \in DOMAIN policy' : Counted(policy[q], q)'
  <2>1. \A q \in DOMAIN policy \ {p} : Counted(policy[q], q)'
    BY <1>6, <1>8, <1>9 DEF Counted, AlertsToday
  <2>2. QED
    BY <1>9, <2>1
<1>11. \A y \in Passes : \A q : ~AtCount(y, q)'
  BY <1>6, <1>7, IdleHoldsNothing DEF AtCount
<1>12. \A q \in Policies : sent'[q] - uncounted'[q] \in 0..AlertMax
  BY <1>6, <1>9 DEF Counters
<1>13. CountsSeen(pass[x])'
  <2>1. \A q \in b.alerts : q \in Policies \ {p}
    BY <1>3, <1>4 DEF PassFits, Table
  <2>2. \A q \in b.alerts : Counted(b.seen[q], q)'
    BY <1>4, <1>6, <1>9, <2>1 DEF Counted, AlertsToday
  <2>3. CASE c = IdlePass
    BY <2>3, IdleHoldsNothing DEF CountsSeen
  <2>4. CASE c # IdlePass
    BY <1>4, <1>6, <2>2, <2>4 DEF CountsSeen
  <2>5. QED
    BY <2>3, <2>4
<1>14. \A y \in Passes : CountsSeen(pass[y])'
  BY <1>7, <1>13, IdleHoldsNothing DEF CountsSeen
<1>15. QED
  BY <1>4, <1>6, <1>9, <1>10, <1>11, <1>12, <1>14 DEF Counters

LEMMA PassCounters ==
  ASSUME OnePass, Shapes, Alone, Counters, NEW x \in Passes,
         StartPass(x) \/ Evaluate(x) \/ Breaks(x)
  PROVE  Counters'
<1> DEFINE b == pass[x]
           c == pass'[x]
<1>1. CountsSeen(b)
  BY DEF Counters
<1>2. CASE StartPass(x)
  <2>1. CountsSeen(c) /\ b.stage # "count" /\ c.stage # "count"
    <3>1. \A p \in DOMAIN policy : Counted(policy[p], p)
      BY <1>2 DEF StartPass, NoPass, Counters, AtCount
    <3>2. QED
      BY <1>2, <3>1, Started DEF CountsSeen, StartPass
  <2>2. OnlyPass(x) /\ UNCHANGED <<sent, day, uncounted, policy>>
    BY <1>2, Started DEF StartPass
  <2>3. QED
    BY <2>1, <2>2, CountersMoves
<1>3. CASE PullDevices(x) \/ LoadState(x) \/ SaveState(x)
  <2>1. OnlyPass(x) /\ c.stage \notin {"device", "alerts", "count"} /\ Kept(b, c)
    BY <1>3, Pulled, Loaded, Saved
  <2>2. CountsSeen(c) /\ b.stage # "count" /\ UNCHANGED <<sent, day, uncounted, policy>>
    BY <1>1, <1>3, <2>1 DEF Kept, CountsSeen, PullDevices, LoadState, SaveState
  <2>3. QED
    BY <2>1, <2>2, CountersMoves
<1>4. CASE JudgePolicy(x)
  <2>1. PICK p \in b.todo :
              \/ c = IdlePass
              \/ /\ c.stage = "device" /\ c.current = p /\ c.todo = b.todo \ {p}
                 /\ c.seen = b.seen /\ c.alerts = b.alerts
    BY <1>4, JudgedTo
  <2>2. OnlyPass(x) /\ SameAlerts /\ b.stage = "policy" /\ UNCHANGED <<sent, day, uncounted>>
    BY <1>4, JudgedTo DEF JudgePolicy
  <2>3. CASE c = IdlePass
    <3>1. c.stage # "count"
      BY <2>3, IdleHoldsNothing
    <3>2. QED
      BY <2>2, <2>3, <3>1, IdleCounts, CountersMoves
  <2>4. CASE c # IdlePass
    <3>1. CountsSeen(c)
      BY <1>1, <2>1, <2>4 DEF CountsSeen
    <3>2. QED
      BY <2>1, <2>2, <2>4, <3>1, CountersMoves
  <2>5. QED
    BY <2>3, <2>4
<1>5. CASE EvaluateDevice(x)
  <2>1. PICK d : Recover(x, d) \/ StillFlagged(x, d) \/ NewViolation(x, d)
    BY <1>5 DEF EvaluateDevice
  <2>2. b.stage = "device" /\ UNCHANGED <<sent, day, uncounted, policy>>
    BY <1>5 DEF EvaluateDevice
  <2>3. /\ OnlyPass(x) /\ c.stage = "device" /\ c.todo = b.todo /\ c.seen = b.seen
        /\ c.alerts = b.alerts /\ c.current = b.current
    <3>1. CASE Recover(x, d) \/ StillFlagged(x, d)
      BY <2>2, <3>1, Recovered DEF Kept
    <3>2. CASE NewViolation(x, d)
      BY <2>2, <3>2, ViolationAdds, Violated
    <3>3. QED
      BY <2>1, <3>1, <3>2
  <2>4. CountsSeen(c)
    BY <1>1, <2>2, <2>3 DEF CountsSeen
  <2>5. QED
    BY <2>2, <2>3, <2>4, CountersMoves
<1>6. CASE EndPolicy(x)
  <2>1. /\ OnlyPass(x) /\ c.stage \in {"policy", "save"} /\ c.todo = b.todo
        /\ c.seen = b.seen /\ c.alerts \subseteq b.alerts \cup {b.current}
    BY <1>6, Ended
  <2>2. b.stage = "device" /\ UNCHANGED <<sent, day, uncounted, policy>>
    BY <1>6 DEF EndPolicy
  <2>3. CountsSeen(c)
    BY <1>1, <2>1, <2>2 DEF CountsSeen
  <2>4. QED
    BY <2>1, <2>2, <2>3, CountersMoves
<1>7. CASE CreateViolations(x)
  <2>1. /\ OnlyPass(x) /\ c.todo = {} /\ b.stage = "rows" /\ c.stage # "count"
        /\ \/ c = IdlePass
           \/ c.stage = "alerts" /\ c.seen = b.seen /\ c.alerts = b.alerts
    BY <1>7, Created, IdleHoldsNothing DEF CreateViolations
  <2>2. CountsSeen(c)
    BY <1>1, <2>1, IdleCounts DEF CountsSeen
  <2>3. UNCHANGED <<sent, day, uncounted, policy>>
    BY <1>7 DEF CreateViolations
  <2>4. QED
    BY <2>1, <2>2, <2>3, CountersMoves
<1>8. CASE AlertStep(x) \/ (PassFails(x) /\ b.stage = "count")
  <2>1. CASE SendAlert(x) \/ AlertFails(x)
    BY <2>1, AttemptCounters
  <2>2. CASE CountAlert(x) \/ CountFails(x) \/ (PassFails(x) /\ b.stage = "count")
    BY <2>2, CountCounters DEF CountAlert, CountFails
  <2>3. QED
    BY <1>8, <2>1, <2>2 DEF AlertStep
<1>9. CASE PassFails(x) /\ b.stage # "count"
  <2>1. uncounted \in [Policies -> Int]
    BY DEF Counters
  <2>2. uncounted' = [p \in Policies |-> uncounted[p] + 0]
    BY <1>9 DEF PassFails, Loses, Uncounted
  <2>3. uncounted' = uncounted
    BY <2>1, <2>2
  <2>4. /\ OnlyPass(x) /\ CountsSeen(c) /\ c.stage # "count"
        /\ UNCHANGED <<sent, day, uncounted, policy>>
    BY <1>9, <2>3, Failed, IdleCounts, IdleHoldsNothing DEF PassFails
  <2>5. QED
    BY <1>9, <2>4, CountersMoves
<1>10. QED
  BY <1>2, <1>3, <1>4, <1>5, <1>6, <1>7, <1>8, <1>9 DEF Evaluate, Breaks, AlertStep

\* Steps of anyone else send nothing; a new day finds every counter out of date.
LEMMA OtherCounters ==
  ASSUME Shapes, Counters, [Next]_vars, pass' = pass,
         ~ \E x \in Passes : StartPass(x) \/ Evaluate(x) \/ Breaks(x)
  PROVE  Counters'
<1>1. CASE NewDay
  <2>1. /\ day' = day + 1 /\ day \in Nat /\ policy' = policy
        /\ sent' = [p \in Policies |-> 0] /\ uncounted' = [p \in Policies |-> 0]
        /\ AlertMax \in Nat /\ Table(policy)
    BY <1>1, ComplianceAssumption DEF NewDay, WorldUnchanged, Shapes
  <2>2. /\ \A p \in DOMAIN policy : p \in Policies /\ policy[p].alertsDate \in Nat
        /\ \A p \in Policies : sent'[p] - uncounted'[p] = 0
    BY <2>1 DEF Table, PolicyRow
  <2>3. ASSUME NEW x \in Passes
        PROVE  /\ pass[x].today \in Nat /\ pass[x].alerts \subseteq DOMAIN pass[x].seen
               /\ pass[x].todo \subseteq DOMAIN pass[x].seen
               /\ \A p \in DOMAIN pass[x].seen : p \in Policies /\ pass[x].seen[p].alertsDate \in Nat
               /\ pass[x].stage \in {"device", "count"} => pass[x].current \in DOMAIN pass[x].seen
    BY <2>3 DEF Shapes, PassFits, Table, PolicyRow
  <2>4. \A p \in DOMAIN policy : Counted(policy[p], p)'
    <3> TAKE p \in DOMAIN policy
    <3>1. policy[p].alertsDate <= day
      <4>1. CASE Counted(policy[p], p)
        BY <4>1 DEF Counted
      <4>2. CASE \E x \in Passes : AtCount(x, p)
        <5>1. PICK x \in Passes : AtCount(x, p)
          BY <4>2
        <5>2. policy[p].alertsDate <= pass[x].today /\ pass[x].today <= day
          BY <5>1 DEF Counters, Behind, CountsSeen, AtCount
        <5>3. QED
          BY <2>1, <2>2, <2>3, <5>2
      <4>3. QED
        BY <4>1, <4>2 DEF Counters
    <3>2. QED
      BY <2>1, <2>2, <3>1 DEF Counted, AlertsToday
  <2>5. ASSUME NEW x \in Passes PROVE CountsSeen(pass[x])'
    <3>1. CountsSeen(pass[x])
      BY DEF Counters
    <3>2. \A p \in DOMAIN pass[x].seen : pass[x].seen[p].alertsDate <= day =>
            pass[x].seen[p].alertsDate <= day' /\ pass[x].seen[p].alertsDate # day'
      BY <2>1, <2>3
    <3>3. \A p \in pass[x].todo \cup pass[x].alerts : Counted(pass[x].seen[p], p)'
      BY <2>1, <2>2, <2>3, <3>1, <3>2 DEF CountsSeen, Counted, AlertsToday
    <3>4. pass[x].stage = "device" => Counted(pass[x].seen[pass[x].current], pass[x].current)'
      BY <2>1, <2>2, <2>3, <3>1, <3>2 DEF CountsSeen, Counted, AlertsToday
    <3>5. pass[x].stage = "count" =>
            pass[x].today <= day' /\ pass[x].today # day' /\ pass[x].current \in Policies
      BY <2>1, <2>3, <3>1 DEF CountsSeen
    <3>6. QED
      BY <2>2, <3>1, <3>3, <3>4, <3>5 DEF CountsSeen
  <2>6. ASSUME NEW x \in Passes, NEW p \in DOMAIN policy, AtCount(x, p)
        PROVE  Behind(policy[p], pass[x])'
    <3>1. /\ policy[p].alertsDate <= pass[x].today /\ pass[x].today <= day
          /\ pass[x].seen[p].alertsDate <= pass[x].today /\ pass[x].current = p
          /\ p \in DOMAIN pass[x].seen
      BY <2>3, <2>6 DEF Counters, Behind, CountsSeen, AtCount
    <3>2. policy[p].alertsDate # day' /\ pass[x].seen[p].alertsDate # day'
      BY <2>1, <2>2, <2>3, <3>1
    <3>3. QED
      BY <2>1, <3>1, <3>2 DEF Behind, AlertsToday
  <2>7. \A x \in Passes : \A p : AtCount(x, p)' => AtCount(x, p)
    BY DEF AtCount
  <2>8. sent' \in [Policies -> Int] /\ uncounted' \in [Policies -> Int]
    BY <2>1
  <2>9. QED
    BY <2>1, <2>2, <2>4, <2>5, <2>6, <2>7, <2>8 DEF Counters
<1>2. CASE ~NewDay
  <2>1. UNCHANGED <<sent, day, uncounted>>
    BY <1>2 DEF Next, vars, Review, LaunchApproved, RecordApproval, LoadFlags, SaveFlags, Approve,
       Dismiss, ReviewUnchanged, SavePolicy, DeleteViolations, LoadForDelete, SavePurged,
       DeletePolicy, AdminUnchanged, Flip, RunEnds, WorkflowEdited
  <2>2. /\ DOMAIN policy' \subseteq DOMAIN policy
        /\ \A p \in DOMAIN policy' : /\ policy'[p].alertsSent = policy[p].alertsSent
                                     /\ policy'[p].alertsDate = policy[p].alertsDate
    <3>1. CASE \E p \in Policies, s \in Saves : SavePolicy(p, s)
      BY <3>1 DEF SavePolicy, Shapes, Table, PolicyRow
    <3>2. CASE DeletePolicy
      BY <3>2 DEF DeletePolicy
    <3>3. CASE policy' = policy
      BY <3>3
    <3>4. ASSUME ~DeletePolicy, ~ \E p \in Policies, s \in Saves : SavePolicy(p, s)
          PROVE  policy' = policy
      BY <1>2, <3>4 DEF Next, vars, Review, LaunchApproved, RecordApproval, LoadFlags, SaveFlags,
         Approve, Dismiss, ReviewUnchanged, DeleteViolations, LoadForDelete, SavePurged, Flip,
         RunEnds, WorkflowEdited, WorldUnchanged
    <3>5. QED
      BY <3>1, <3>2, <3>3, <3>4
  <2>3. \A x \in Passes : CountsSeen(pass'[x])
    BY DEF Counters
  <2>4. QED
    BY <2>1, <2>2, <2>3, CountersKept
<1>3. QED
  BY <1>1, <1>2

LEMMA InitCounters == ASSUME Init PROVE Alone /\ Counters
<1>1. Alone
  BY IdleHoldsNothing DEF Init, Alone
<1>2. \A x \in Passes : CountsSeen(pass[x])
  BY IdleCounts DEF Init
<1>3. \A p \in DOMAIN policy : Counted(policy[p], p)
  BY DEF Init, Counted, AlertsToday
<1>4. \A x \in Passes : \A p : ~AtCount(x, p)
  BY IdleHoldsNothing DEF Init, AtCount
<1>5. /\ sent \in [Policies -> Int] /\ uncounted \in [Policies -> Int]
      /\ \A p \in Policies : sent[p] - uncounted[p] \in 0..AlertMax
  BY ComplianceAssumption DEF Init
<1>6. QED
  BY <1>2, <1>1, <1>3, <1>4, <1>5 DEF Counters

\* As long as a pass starts only when no other is in flight, a policy sends no more alerts
\* a day than its limit, although the counter is read when the pass starts.
THEOREM AlertsLimited == ASSUME OnePass PROVE Spec => []DailyAlertLimit
<1>1. Init => Shapes /\ Alone /\ Counters
  BY InitShapes, InitCounters
<1>2. Shapes /\ Alone /\ Counters /\ [Next]_vars => (Shapes /\ Alone /\ Counters)'
  BY NextShapes, NextAlone, PassCounters, OtherCounters, OthersKeepPass
<1>3. Counters => DailyAlertLimit
  BY ComplianceAssumption DEF Counters, DailyAlertLimit
<1>4. QED
  BY <1>1, <1>2, <1>3, PTL DEF Spec

---------------------------------------------------------------------------
(* One holder of the flags at a time, as long as nobody holds them during a pass *)

SameFlags(g, h) == \A k \in Pairs : /\ Flagged(g, k) <=> Flagged(h, k)
                                    /\ g[k].violation = h[k].violation

\* Whoever is about to save the flags knows what they are; a pass evaluates only policies
\* that are still there.
Quiet ==
  /\ \A x \in Passes : pass[x].stage # "idle" =>
       /\ FlagsFree /\ pass[x].todo \subseteq DOMAIN policy
       /\ pass[x].stage = "device" => pass[x].current \in DOMAIN policy
  /\ admin.stage # "idle" => \A r \in Reviewers : reviewer[r].stage # "save"
  /\ \A r, q \in Reviewers : reviewer[r].stage = "save" /\ reviewer[q].stage = "save" => r = q
  /\ \A r \in Reviewers : reviewer[r].stage = "save" => SameFlags(reviewer[r].map, state)
  /\ admin.stage = "save" => admin.map = Purged(admin.policy)
  /\ admin.stage = "policy" => \A k \in Pairs : k[1] = admin.policy => ~Flagged(state, k)

Holding(x) == pass[x].stage \in {"policy", "device", "save"}

\* The flags as the pass x has them, or as they are saved.
Current(x) == IF Holding(x) THEN pass[x].map ELSE state

\* The pair needs no launch: its policy is gone or going, or it is flagged.
Spent(k) == \/ k[1] \notin DOMAIN policy
            \/ admin.stage # "idle" /\ admin.policy = k[1]
            \/ \E x \in Passes : Holding(x) /\ Flagged(pass[x].map, k)
            \/ (\A x \in Passes : ~Holding(x)) /\ Flagged(state, k)

LaunchedOnce ==
  /\ autoLaunches \in [Pairs -> 0..1]
  /\ \A k \in Pairs : autoLaunches[k] # 0 => Spent(k)

\* The violation of a flag has a row of its own pair.
About(m, v, k) == v \in DOMAIN m /\ <<m[v].policy, m[v].device>> = k

RowsBehind ==
  /\ \A k \in Pairs : Flagged(state, k) =>
       \/ About(rows, state[k].violation, k)
       \/ \E x \in Passes : pass[x].stage = "rows" /\ About(pass[x].new, state[k].violation, k)
       \/ admin.stage # "idle" /\ admin.policy = k[1]
  /\ \A x \in Passes : Holding(x) => \A k \in Pairs : Flagged(pass[x].map, k) =>
       \/ About(rows, pass[x].map[k].violation, k)
       \/ About(pass[x].new, pass[x].map[k].violation, k)
  /\ \A x \in Passes : DOMAIN pass[x].new \cap DOMAIN rows = {}

LEMMA SameIsReflexive == ASSUME NEW g PROVE SameFlags(g, g)
BY DEF SameFlags

\* While a pass runs or starts nobody else has the flags, and it is the only one.
LEMMA PassFree ==
  ASSUME OnePass, QuietState, Alone, Quiet, NEW x \in Passes,
         StartPass(x) \/ Evaluate(x) \/ Breaks(x)
  PROVE  FlagsFree /\ \A y \in Passes \ {x} : pass[y].stage = "idle"
<1>1. CASE StartPass(x)
  BY <1>1 DEF StartPass, NoPass
<1>2. CASE Evaluate(x) \/ Breaks(x)
  BY <1>2, PassActive DEF Quiet, Alone
<1>3. QED
  BY <1>1, <1>2

\* A pass leaves the administrator and the reviewers alone.
LEMMA PassLeaves ==
  ASSUME NEW x \in Passes, StartPass(x) \/ Evaluate(x) \/ Breaks(x)
  PROVE  UNCHANGED <<admin, reviewer>>
BY DEF StartPass, Evaluate, Breaks, PassFails, PullDevices, LoadState, JudgePolicy,
       EvaluateDevice, EndPolicy, SaveState, CreateViolations, SendAlert, CountAlert,
       AlertFails, CountFails

LEMMA PassLeavesPolicies ==
  ASSUME Shapes, NEW x \in Passes, StartPass(x) \/ Evaluate(x) \/ Breaks(x)
  PROVE  DOMAIN policy' = DOMAIN policy
<1>1. ASSUME AlertStep(x) PROVE DOMAIN policy' = DOMAIN policy
  BY <1>1, Alerted
<1>2. QED
  BY <1>1, JudgedTo DEF SameAlerts, AlertStep, StartPass, Evaluate, Breaks, PassFails,
     PullDevices, LoadState, EvaluateDevice, EndPolicy, SaveState, CreateViolations

\* What it is still to evaluate are policies of the list it began with.
LEMMA TodoShrinks ==
  ASSUME Shapes, Quiet, NEW x \in Passes, StartPass(x) \/ Evaluate(x) \/ Breaks(x)
  PROVE  /\ pass'[x].todo \subseteq DOMAIN policy
         /\ pass'[x].stage = "device" => pass'[x].current \in DOMAIN policy
<1> DEFINE b == pass[x]
           c == pass'[x]
<1>1. CASE StartPass(x)
  BY <1>1, Started
<1>2. ASSUME Evaluate(x) \/ Breaks(x)
      PROVE  b.todo \subseteq DOMAIN policy /\ (b.stage = "device" => b.current \in DOMAIN policy)
  BY <1>2, PassActive DEF Quiet
<1>3. CASE PullDevices(x) \/ LoadState(x) \/ SaveState(x)
  <2>1. c.stage # "device" /\ Kept(b, c)
    BY <1>3, Pulled, Loaded, Saved
  <2>2. QED
    BY <1>2, <1>3, <2>1 DEF Kept, Evaluate
<1>4. CASE JudgePolicy(x)
  <2>1. PICK p \in b.todo :
              \/ c = IdlePass
              \/ c.stage = "device" /\ c.current = p /\ c.todo = b.todo \ {p}
    BY <1>4, JudgedTo
  <2>2. b.todo \subseteq DOMAIN policy
    BY <1>2, <1>4 DEF Evaluate
  <2>3. QED
    BY <2>1, <2>2, IdleHoldsNothing
<1>5. CASE EvaluateDevice(x)
  <2>1. PICK d : Recover(x, d) \/ StillFlagged(x, d) \/ NewViolation(x, d)
    BY <1>5 DEF EvaluateDevice
  <2>2. c.todo = b.todo /\ c.current = b.current /\ b.stage = "device"
    <3>1. CASE Recover(x, d) \/ StillFlagged(x, d)
      BY <1>5, <3>1, Recovered DEF Kept, EvaluateDevice
    <3>2. CASE NewViolation(x, d)
      BY <1>5, <3>2, ViolationAdds, Violated DEF EvaluateDevice
    <3>3. QED
      BY <2>1, <3>1, <3>2
  <2>3. QED
    BY <1>2, <1>5, <2>2 DEF Evaluate
<1>6. CASE EndPolicy(x)
  BY <1>2, <1>6, Ended DEF Evaluate
<1>7. CASE CreateViolations(x)
  BY <1>7, Created, IdleHoldsNothing
<1>8. CASE AlertStep(x)
  <2>1. c = IdlePass \/ (c.stage # "device" /\ c.todo = b.todo)
    BY <1>8, Alerted
  <2>2. QED
    BY <1>2, <1>8, <2>1, IdleHoldsNothing DEF Evaluate, Breaks, AlertStep
<1>9. CASE PassFails(x)
  BY <1>9, Failed, IdleHoldsNothing
<1>10. QED
  BY <1>1, <1>3, <1>4, <1>5, <1>6, <1>7, <1>8, <1>9 DEF Evaluate, Breaks, AlertStep

LEMMA PassQuiet ==
  ASSUME OnePass, QuietState, Shapes, Alone, Quiet, NEW x \in Passes,
         StartPass(x) \/ Evaluate(x) \/ Breaks(x)
  PROVE  Quiet'
<1>1. FlagsFree /\ \A y \in Passes \ {x} : pass[y].stage = "idle"
  BY PassFree
<1>2. UNCHANGED <<admin, reviewer>> /\ DOMAIN policy' = DOMAIN policy /\ OnlyPass(x)
  BY PassLeaves, PassLeavesPolicies, PassMoves
<1>3. FlagsFree'
  BY <1>1, <1>2 DEF FlagsFree
<1>4. \A y \in Passes : pass'[y].stage # "idle" =>
        /\ pass'[y].todo \subseteq DOMAIN policy'
        /\ pass'[y].stage = "device" => pass'[y].current \in DOMAIN policy'
  BY <1>1, <1>2, TodoShrinks DEF OnlyPass
<1>5. QED
  BY <1>3, <1>4 DEF Quiet, FlagsFree

\* A step of a reviewer that is not about the flags.
LEMMA ReviewQuiet ==
  ASSUME Quiet, NEW r \in Reviewers, DOMAIN reviewer = Reviewers, NEW w,
         reviewer' = [reviewer EXCEPT ![r] = w], w.stage # "save", state' = state,
         ReviewUnchanged
  PROVE  Quiet'
<1>1. /\ \A q \in Reviewers : reviewer'[q].stage = "save" => reviewer'[q] = reviewer[q] /\ q # r
      /\ UNCHANGED <<policy, pass, admin, state>>
  BY DEF ReviewUnchanged
<1>2. FlagsFree => FlagsFree'
  BY <1>1 DEF FlagsFree
<1>3. Purged(admin.policy)' = Purged(admin.policy)
  BY <1>1 DEF Purged
<1>4. QED
  BY <1>1, <1>2, <1>3 DEF Quiet

LEMMA LoadFlagsQuiet ==
  ASSUME QuietState, Shapes, Quiet, NEW r \in Reviewers, LoadFlags(r)
  PROVE  Quiet'
<1> DEFINE k == reviewer[r].pair
           verdict == reviewer[r].verdict
           w == [stage |-> "save", map |-> Reviewed(k, verdict)]
<1>1. /\ k \in Pairs /\ verdict \in {"approved", "dismissed"} /\ Map(state, nextId)
      /\ DOMAIN reviewer = Reviewers
  BY DEF LoadFlags, Shapes, ReviewFits
<1>2. state' = state /\ ReviewUnchanged /\ NoPass /\ FlagsFree
  BY DEF LoadFlags
<1>3. CASE Flagged(state, k)
  <2>1. SameFlags(Reviewed(k, verdict), state)
    BY <1>1, <1>3, ReviewedFits DEF SameFlags
  <2>2. reviewer' = [reviewer EXCEPT ![r] = w]
    BY <1>3 DEF LoadFlags
  <2>3. w.stage = "save" /\ w.map = Reviewed(k, verdict)
    OBVIOUS
  <2> HIDE DEF w
  <2>4. \A q \in Reviewers : reviewer'[q].stage = "save" =>
          q = r /\ SameFlags(reviewer'[q].map, state')
    BY <1>1, <1>2, <2>1, <2>2, <2>3 DEF FlagsFree
  <2>5. NoPass' /\ admin'.stage = "idle"
    BY <1>2 DEF NoPass, ReviewUnchanged, FlagsFree
  <2>6. QED
    BY <2>4, <2>5 DEF Quiet, NoPass
<1>4. CASE ~Flagged(state, k)
  <2>1. reviewer' = [reviewer EXCEPT ![r] = IdleReviewer] /\ IdleReviewer.stage # "save"
    BY <1>4 DEF LoadFlags, IdleReviewer
  <2>2. QED
    BY <1>1, <1>2, <2>1, ReviewQuiet
<1>5. QED
  BY <1>3, <1>4

\* A save replaces the row of one policy and leaves the table its policies.
LEMMA SavedTable ==
  ASSUME NEW p, NEW s, SavePolicy(p, s)
  PROVE  DOMAIN policy' = DOMAIN policy
<1> DEFINE saved(w) == [w EXCEPT
       !.autoRun = s.autoRun, !.enabled = s.enabled, !.scope = s.scope, !.tripped = FALSE,
       !.acked = s.autoRun /\ Range(WorkflowOf[p]) \cap destructive # {}]
<1>1. policy' = [policy EXCEPT ![p] = saved(@)]
  BY DEF SavePolicy
<1> HIDE DEF saved
<1>2. QED
  BY <1>1

\* Saving a review changes the status of a flag at most.
LEMMA SaveFlagsSame ==
  ASSUME Shapes, Quiet, NEW r \in Reviewers, SaveFlags(r)
  PROVE  /\ SameFlags(state', state) /\ NoPass /\ admin.stage = "idle"
         /\ \A q \in Reviewers : reviewer'[q].stage # "save"
<1>1. reviewer[r].stage = "save" /\ state' = reviewer[r].map
      /\ reviewer' = [reviewer EXCEPT ![r] = IdleReviewer] /\ DOMAIN reviewer = Reviewers
  BY DEF SaveFlags, Shapes
<1>2. NoPass /\ admin.stage = "idle"
  BY <1>1 DEF Quiet, FlagsFree, NoPass
<1>3. \A q \in Reviewers : reviewer'[q].stage # "save"
  BY <1>1 DEF Quiet, IdleReviewer
<1>4. QED
  BY <1>1, <1>2, <1>3 DEF Quiet

LEMMA SaveFlagsQuiet ==
  ASSUME Shapes, Quiet, NEW r \in Reviewers, SaveFlags(r) PROVE Quiet'
<1>1. /\ \A q \in Reviewers : reviewer'[q].stage # "save"
      /\ NoPass' /\ admin'.stage = "idle"
  BY SaveFlagsSame DEF SaveFlags, ReviewUnchanged, NoPass
<1>2. QED
  BY <1>1 DEF Quiet, NoPass

LEMMA ReviewsQuiet ==
  ASSUME QuietState, Shapes, Quiet, NEW r \in Reviewers,
         Review(r) \/ \E v \in DOMAIN rows : Approve(r, v) \/ Dismiss(r, v)
  PROVE  Quiet'
<1>1. DOMAIN reviewer = Reviewers
  BY DEF Shapes
<1>2. ASSUME NEW v \in DOMAIN rows, Approve(r, v) PROVE Quiet'
  <2> DEFINE w == [stage |-> "launch", violation |-> v,
                   pair |-> <<rows[v].policy, rows[v].device>>]
  <2>1. reviewer' = [reviewer EXCEPT ![r] = w] /\ state' = state /\ ReviewUnchanged
    BY <1>2, Zenon DEF Approve
  <2>2. w.stage # "save"
    OBVIOUS
  <2> HIDE DEF w
  <2>3. QED
    BY <1>1, <2>1, <2>2, ReviewQuiet
<1>3. ASSUME NEW v \in DOMAIN rows, Dismiss(r, v) PROVE Quiet'
  <2> DEFINE w == [stage |-> "load", verdict |-> "dismissed",
                   pair |-> <<rows[v].policy, rows[v].device>>]
  <2>1. reviewer' = [reviewer EXCEPT ![r] = w] /\ state' = state /\ ReviewUnchanged
    BY <1>3, Zenon DEF Dismiss
  <2>2. w.stage # "save"
    OBVIOUS
  <2> HIDE DEF w
  <2>3. QED
    BY <1>1, <2>1, <2>2, ReviewQuiet
<1>4. CASE LaunchApproved(r)
  <2> DEFINE w == [stage |-> "update", violation |-> reviewer[r].violation,
                   pair |-> reviewer[r].pair, run |-> Len(runs) + 1]
  <2>1. reviewer' = [reviewer EXCEPT ![r] = w] /\ state' = state /\ ReviewUnchanged
    BY <1>4, Zenon DEF LaunchApproved
  <2>2. w.stage # "save"
    OBVIOUS
  <2> HIDE DEF w
  <2>3. QED
    BY <1>1, <2>1, <2>2, ReviewQuiet
<1>5. CASE RecordApproval(r)
  <2> DEFINE w == [stage |-> "load", verdict |-> "approved", pair |-> reviewer[r].pair]
  <2>1. PICK u \in {w, IdleReviewer} : reviewer' = [reviewer EXCEPT ![r] = u]
    BY <1>5, Zenon DEF RecordApproval
  <2>2. u.stage # "save"
    BY DEF IdleReviewer
  <2>3. state' = state /\ ReviewUnchanged
    BY <1>5 DEF RecordApproval
  <2> HIDE DEF w
  <2>4. QED
    BY <1>1, <2>1, <2>2, <2>3, ReviewQuiet
<1>6. QED
  BY <1>2, <1>3, <1>4, <1>5, LoadFlagsQuiet, SaveFlagsQuiet DEF Review

LEMMA AdminQuiet ==
  ASSUME QuietState, Shapes, Quiet,
         \/ \E p \in Policies : DeleteViolations(p) \/ \E s \in Saves : SavePolicy(p, s)
         \/ LoadForDelete \/ SavePurged \/ DeletePolicy
  PROVE  Quiet'
<1>1. AdminUnchanged
  BY DEF DeleteViolations, SavePolicy, LoadForDelete, SavePurged, DeletePolicy
<1>2. CASE \E p \in Policies, s \in Saves : SavePolicy(p, s)
  <2>1. DOMAIN policy' = DOMAIN policy
    BY <1>2, SavedTable
  <2>2. UNCHANGED <<state, admin>>
    BY <1>2, Zenon DEF SavePolicy
  <2>3. UNCHANGED <<pass, reviewer>>
    BY <1>1, Zenon DEF AdminUnchanged
  <2>4. Purged(admin.policy)' = Purged(admin.policy) /\ (FlagsFree => FlagsFree')
    BY <2>1, <2>2, <2>3 DEF Purged, FlagsFree
  <2>5. QED
    BY <2>1, <2>2, <2>3, <2>4 DEF Quiet
<1>3. ASSUME admin.stage # "idle" \/ (NoPass /\ FlagsFree)
      PROVE  NoPass' /\ \A r \in Reviewers : reviewer'[r].stage # "save"
  BY <1>1, <1>3 DEF Quiet, NoPass, FlagsFree, AdminUnchanged
<1>4. CASE \E p \in Policies : DeleteViolations(p)
  <2>1. admin'.stage = "load" /\ NoPass /\ FlagsFree
    BY <1>4 DEF DeleteViolations
  <2>2. QED
    BY <1>3, <2>1 DEF Quiet, NoPass
<1>5. CASE LoadForDelete
  <2>1. /\ state' = state /\ admin'.policy = admin.policy /\ admin.stage # "idle"
        /\ admin'.stage = "save" => admin'.map = Purged(admin.policy)
        /\ admin'.stage = "policy" => Purged(admin.policy) = state
    BY <1>5 DEF LoadForDelete
  <2>2. Purged(admin.policy)' = Purged(admin.policy)
    BY <2>1 DEF Purged
  <2>3. \A k \in Pairs : k[1] = admin.policy => Purged(admin.policy)[k] = NoFlag
    BY DEF Purged
  <2>4. QED
    BY <1>3, <2>1, <2>2, <2>3 DEF Quiet, NoPass, Flagged
<1>6. CASE SavePurged
  <2>1. /\ state' = Purged(admin.policy) /\ admin'.policy = admin.policy
        /\ admin'.stage = "policy" /\ admin.stage # "idle"
    BY <1>6 DEF SavePurged, Quiet
  <2>2. \A k \in Pairs : k[1] = admin.policy => Purged(admin.policy)[k] = NoFlag
    BY DEF Purged
  <2>3. QED
    BY <1>3, <2>1, <2>2 DEF Quiet, NoPass, Flagged
<1>7. CASE DeletePolicy
  <2>1. admin'.stage = "idle" /\ admin.stage # "idle"
    BY <1>7 DEF DeletePolicy, IdleAdmin
  <2>2. QED
    BY <1>3, <2>1 DEF Quiet, NoPass
<1>8. QED
  BY <1>2, <1>4, <1>5, <1>6, <1>7

\* The fleet, the runs and the calendar touch nothing of this.
LEMMA WorldIsElsewhere ==
  ASSUME \/ \E k \in MayViolate : Flip(k)
         \/ \E r \in DOMAIN runs : \E o \in {"failed", "success"} : RunEnds(r, o)
         \/ \E w \in Workflows : WorkflowEdited(w)
         \/ NewDay
         \/ UNCHANGED vars
  PROVE  UNCHANGED <<policy, state, rows, pass, reviewer, admin, autoLaunches, nextId>>
BY DEF Flip, RunEnds, WorkflowEdited, NewDay, WorldUnchanged, vars

LEMMA NextQuiet ==
  ASSUME OnePass, QuietState, Shapes, Alone, Quiet, [Next]_vars PROVE Quiet'
<1>1. CASE UNCHANGED <<policy, state, rows, pass, reviewer, admin, autoLaunches, nextId>>
  <2>1. Purged(admin.policy)' = Purged(admin.policy) /\ (FlagsFree => FlagsFree')
    BY <1>1 DEF Purged, FlagsFree
  <2>2. QED
    BY <1>1, <2>1 DEF Quiet
<1>2. QED
  BY <1>1, PassQuiet, ReviewsQuiet, AdminQuiet, WorldIsElsewhere DEF Next

---------------------------------------------------------------------------
(* One launch per violation *)

LEMMA SpentNow ==
  ASSUME NEW x \in Passes, admin.stage = "idle", NEW k,
         \A y \in Passes \ {x} : pass[y].stage = "idle"
  PROVE  Spent(k) <=> k[1] \notin DOMAIN policy \/ Flagged(Current(x), k)
BY DEF Spent, Current, Holding

\* What a pass does to the flags: nothing, it forgets one, or it adds one for a policy
\* that exists; it launches only in adding one.
FlagStep(x) ==
  \/ Current(x)' = Current(x) /\ autoLaunches' = autoLaunches
  \/ \E k : /\ Current(x)' = [Current(x) EXCEPT ![k] = NoFlag]
            /\ autoLaunches' = [autoLaunches EXCEPT ![k] = 0]
  \/ \E k \in Pairs : \E f :
       /\ ~Flagged(Current(x), k) /\ k[1] \in DOMAIN policy /\ f # NoFlag
       /\ Current(x)' = [Current(x) EXCEPT ![k] = f]
       /\ \/ autoLaunches' = autoLaunches
          \/ autoLaunches' = [autoLaunches EXCEPT ![k] = @ + 1]

LEMMA AddsFlag ==
  ASSUME Shapes, Quiet, NEW x \in Passes, pass[x].stage = "device",
         NEW d, NEW status, NEW run, NEW launch, Adds(x, d, status, run, launch)
  PROVE  FlagStep(x)
<1> DEFINE k == <<pass[x].current, d>>
           f == Flag(nextId + 1, status)
<1>1. Current(x) = pass[x].map /\ Current(x)' = FlagsWith(x, d, status)
  BY Violated DEF Current, Holding
<1>2. /\ k \in Pairs /\ ~Flagged(pass[x].map, k)
      /\ \/ autoLaunches' = autoLaunches
         \/ autoLaunches' = [autoLaunches EXCEPT ![k] = @ + 1]
  BY DEF Adds
<1>3. k[1] \in DOMAIN policy
  BY DEF Quiet
<1>4. f # NoFlag
  BY DEF Flag, NoFlag, Shapes
<1>5. Current(x)' = [Current(x) EXCEPT ![k] = f]
  BY <1>1 DEF FlagsWith
<1> HIDE DEF k, f
<1>6. ~Flagged(Current(x), k)
  BY <1>1, <1>2
<1>7. QED
  BY <1>2, <1>3, <1>4, <1>5, <1>6 DEF FlagStep

LEMMA PassFlagStep ==
  ASSUME Shapes, Quiet, FailsAt \cap {"policy", "device", "save"} = {}, NEW x \in Passes,
         StartPass(x) \/ Evaluate(x) \/ Breaks(x)
  PROVE  FlagStep(x)
<1> DEFINE b == pass[x]
           c == pass'[x]
<1>1. CASE StartPass(x) \/ PullDevices(x)
  <2>1. /\ b.stage \in {"idle", "pull"} /\ c.stage \in {"pull", "load"}
        /\ UNCHANGED <<state, autoLaunches>>
    BY <1>1, Started, Pulled DEF StartPass, PullDevices
  <2>2. QED
    BY <2>1 DEF FlagStep, Current, Holding
<1>2. CASE LoadState(x)
  <2>1. b.stage = "load" /\ c.stage = "policy" /\ c.map = state /\ UNCHANGED autoLaunches
    BY <1>2, Loaded DEF LoadState
  <2>2. QED
    BY <2>1 DEF FlagStep, Current, Holding
<1>3. CASE JudgePolicy(x)
  <2>1. PICK p \in b.todo :
              \/ p \notin DOMAIN policy /\ c = IdlePass
              \/ c.stage = "device" /\ c.map = b.map
    BY <1>3, JudgedTo
  <2>2. b.stage = "policy" /\ UNCHANGED <<state, autoLaunches>>
    BY <1>3 DEF JudgePolicy
  <2>3. p \in DOMAIN policy
    BY <2>2 DEF Quiet
  <2>4. c.stage = "device" /\ c.map = b.map
    BY <2>1, <2>3
  <2>5. QED
    BY <2>2, <2>4 DEF FlagStep, Current, Holding
<1>4. CASE EvaluateDevice(x)
  <2>1. PICK d : Recover(x, d) \/ StillFlagged(x, d) \/ NewViolation(x, d)
    BY <1>4 DEF EvaluateDevice
  <2>2. b.stage = "device"
    BY <1>4 DEF EvaluateDevice
  <2>3. CASE Recover(x, d) \/ StillFlagged(x, d)
    <3>1. /\ c.stage = b.stage
          /\ \/ c.map = b.map /\ autoLaunches' = autoLaunches
             \/ /\ c.map = [b.map EXCEPT ![<<b.current, d>>] = NoFlag]
                /\ autoLaunches' = [autoLaunches EXCEPT ![<<b.current, d>>] = 0]
      BY <2>3, Recovered
    <3>2. Current(x) = b.map /\ Current(x)' = c.map
      BY <2>2, <3>1 DEF Current, Holding
    <3>3. QED
      BY <3>1, <3>2 DEF FlagStep
  <2>4. CASE NewViolation(x, d)
    BY <2>2, <2>4, ViolationAdds, AddsFlag
  <2>5. QED
    BY <2>1, <2>3, <2>4
<1>5. CASE EndPolicy(x)
  <2>1. /\ b.stage = "device" /\ c.stage \in {"policy", "save"} /\ c.map = b.map
        /\ UNCHANGED autoLaunches
    BY <1>5, Ended DEF EndPolicy
  <2>2. QED
    BY <2>1 DEF FlagStep, Current, Holding
<1>6. CASE SaveState(x)
  <2>1. b.stage = "save" /\ c.stage = "rows" /\ state' = b.map /\ UNCHANGED autoLaunches
    BY <1>6, Saved DEF SaveState
  <2>2. QED
    BY <2>1 DEF FlagStep, Current, Holding
<1>7. CASE CreateViolations(x) \/ AlertStep(x) \/ PassFails(x)
  <2>1. ~Holding(x) /\ UNCHANGED <<state, autoLaunches>>
    BY <1>7, Alerted, ComplianceAssumption DEF CreateViolations, PassFails, Holding
  <2>2. c.stage \in {"idle", "alerts", "count"}
    BY <1>7, Created, Alerted, Failed, IdleHoldsNothing
  <2>3. QED
    BY <2>1, <2>2 DEF FlagStep, Current, Holding
<1>8. QED
  BY <1>1, <1>2, <1>3, <1>4, <1>5, <1>6, <1>7 DEF Evaluate, Breaks, AlertStep

LEMMA PassLaunches ==
  ASSUME OnePass, QuietState, FailsAt \cap {"policy", "device", "save"} = {},
         Shapes, Alone, Quiet, LaunchedOnce,
         NEW x \in Passes, StartPass(x) \/ Evaluate(x) \/ Breaks(x)
  PROVE  LaunchedOnce'
<1>1. /\ admin.stage = "idle" /\ admin'.stage = "idle" /\ DOMAIN policy' = DOMAIN policy
      /\ \A y \in Passes \ {x} : pass[y].stage = "idle" /\ pass'[y].stage = "idle"
  BY PassFree, PassLeaves, PassLeavesPolicies, PassMoves DEF FlagsFree, OnlyPass
<1>2. \A k : Spent(k) <=> k[1] \notin DOMAIN policy \/ Flagged(Current(x), k)
  BY <1>1, SpentNow
<1>3. \A k : Spent(k)' <=> k[1] \notin DOMAIN policy \/ Flagged(Current(x)', k)
  BY <1>1 DEF Spent, Current, Holding
<1>4. DOMAIN Current(x) = Pairs
  BY DEF Current, Shapes, PassFits, Map
<1>5. FlagStep(x)
  BY PassFlagStep
<1>6. CASE Current(x)' = Current(x) /\ autoLaunches' = autoLaunches
  BY <1>2, <1>3, <1>6 DEF LaunchedOnce
<1>7. ASSUME NEW k, Current(x)' = [Current(x) EXCEPT ![k] = NoFlag],
             autoLaunches' = [autoLaunches EXCEPT ![k] = 0]
      PROVE  LaunchedOnce'
  <2>1. autoLaunches' \in [Pairs -> 0..1]
    <3>1. autoLaunches \in [Pairs -> 0..1]
      BY DEF LaunchedOnce
    <3>2. CASE k \in Pairs
      BY <1>7, <3>1, <3>2
    <3>3. CASE k \notin Pairs
      BY <1>7, <3>1, <3>3
    <3>4. QED
      BY <3>2, <3>3
  <2>2. ASSUME NEW l \in Pairs, autoLaunches'[l] # 0 PROVE Spent(l)'
    <3>1. l # k /\ autoLaunches[l] # 0 /\ Current(x)'[l] = Current(x)[l]
      BY <1>4, <1>7, <2>2 DEF LaunchedOnce
    <3>2. QED
      BY <1>2, <1>3, <3>1 DEF LaunchedOnce, Flagged
  <2>3. QED
    BY <2>1, <2>2 DEF LaunchedOnce
<1>8. ASSUME NEW k \in Pairs, NEW f, ~Flagged(Current(x), k), k[1] \in DOMAIN policy,
             f # NoFlag, Current(x)' = [Current(x) EXCEPT ![k] = f],
             \/ autoLaunches' = autoLaunches
             \/ autoLaunches' = [autoLaunches EXCEPT ![k] = @ + 1]
      PROVE  LaunchedOnce'
  <2>1. autoLaunches[k] = 0
    BY <1>2, <1>8 DEF LaunchedOnce
  <2>2. autoLaunches' \in [Pairs -> 0..1]
    BY <1>8, <2>1 DEF LaunchedOnce
  <2>3. ASSUME NEW l \in Pairs, autoLaunches'[l] # 0 PROVE Spent(l)'
    <3>1. CASE l = k
      <4>1. Current(x)'[k] = f
        BY <1>4, <1>8
      <4>2. QED
        BY <1>3, <1>8, <3>1, <4>1 DEF Flagged
    <3>2. CASE l # k
      <4>1. autoLaunches[l] # 0 /\ Current(x)'[l] = Current(x)[l]
        BY <1>4, <1>8, <2>3, <3>2 DEF LaunchedOnce
      <4>2. QED
        BY <1>2, <1>3, <4>1 DEF LaunchedOnce, Flagged
    <3>3. QED
      BY <3>1, <3>2
  <2>4. QED
    BY <2>2, <2>3 DEF LaunchedOnce
<1>9. QED
  BY <1>5, <1>6, <1>7, <1>8 DEF FlagStep

\* Nobody else launches, and what they do to the flags leaves a launched pair spent.
LEMMA SpentKeeps ==
  ASSUME LaunchedOnce, UNCHANGED autoLaunches, \A k \in Pairs : Spent(k) => Spent(k)'
  PROVE  LaunchedOnce'
BY DEF LaunchedOnce

LEMMA ReviewLaunches ==
  ASSUME Shapes, Quiet, LaunchedOnce, NEW r \in Reviewers,
         Review(r) \/ \E v \in DOMAIN rows : Approve(r, v) \/ Dismiss(r, v)
  PROVE  LaunchedOnce'
<1>1. ReviewUnchanged
  BY DEF Review, LaunchApproved, RecordApproval, LoadFlags, SaveFlags, Approve, Dismiss
<1>2. state' = state \/ SameFlags(state', state)
  BY SaveFlagsSame DEF Review, LaunchApproved, RecordApproval, LoadFlags, Approve, Dismiss
<1>3. \A k \in Pairs : Flagged(state', k) <=> Flagged(state, k)
  BY <1>2 DEF SameFlags
<1>4. \A k \in Pairs : Spent(k) => Spent(k)'
  BY <1>1, <1>3 DEF Spent, Holding, ReviewUnchanged
<1>5. QED
  BY <1>1, <1>4, SpentKeeps DEF ReviewUnchanged

LEMMA AdminLaunches ==
  ASSUME Shapes, Quiet, LaunchedOnce,
         \/ \E p \in Policies : DeleteViolations(p) \/ \E s \in Saves : SavePolicy(p, s)
         \/ LoadForDelete \/ SavePurged \/ DeletePolicy
  PROVE  LaunchedOnce'
<1>1. AdminUnchanged
  BY DEF DeleteViolations, SavePolicy, LoadForDelete, SavePurged, DeletePolicy
<1>2. \A x \in Passes : Holding(x)' <=> Holding(x)
  BY <1>1 DEF AdminUnchanged, Holding
<1>3. CASE \E p \in Policies : DeleteViolations(p) \/ \E s \in Saves : SavePolicy(p, s)
  <2>1. /\ state' = state /\ DOMAIN policy' = DOMAIN policy
        /\ admin.stage # "idle" => admin' = admin
    <3>1. CASE \E p \in Policies : DeleteViolations(p)
      BY <3>1, Zenon DEF DeleteViolations
    <3>2. CASE \E p \in Policies, s \in Saves : SavePolicy(p, s)
      <4>1. state' = state /\ admin' = admin
        BY <3>2, Zenon DEF SavePolicy
      <4>2. QED
        BY <3>2, <4>1, SavedTable
    <3>3. QED
      BY <1>3, <3>1, <3>2
  <2>2. QED
    BY <1>1, <1>2, <2>1, SpentKeeps DEF Spent, AdminUnchanged
<1>4. CASE LoadForDelete
  <2>1. /\ state' = state /\ policy' = policy /\ admin'.stage # "idle"
        /\ admin'.policy = admin.policy
    BY <1>4 DEF LoadForDelete
  <2>2. QED
    BY <1>1, <1>2, <2>1, SpentKeeps DEF Spent, AdminUnchanged
<1>5. CASE SavePurged
  <2>1. /\ state' = Purged(admin.policy) /\ policy' = policy /\ admin'.stage # "idle"
        /\ admin'.policy = admin.policy
    BY <1>5 DEF SavePurged, Quiet
  <2>2. \A k \in Pairs : k[1] # admin.policy => state'[k] = state[k]
    BY <2>1 DEF Purged
  <2>3. \A k \in Pairs : Spent(k) => Spent(k)'
    BY <1>1, <1>2, <2>1, <2>2 DEF Spent, AdminUnchanged, Flagged
  <2>4. QED
    BY <1>1, <2>3, SpentKeeps DEF AdminUnchanged
<1>6. CASE DeletePolicy
  <2>1. state' = state /\ DOMAIN policy' = DOMAIN policy \ {admin.policy}
    BY <1>6 DEF DeletePolicy
  <2>2. QED
    BY <1>1, <1>2, <2>1, SpentKeeps DEF Spent, AdminUnchanged
<1>7. QED
  BY <1>3, <1>4, <1>5, <1>6

LEMMA NextLaunches ==
  ASSUME OnePass, QuietState, FailsAt \cap {"policy", "device", "save"} = {},
         Shapes, Alone, Quiet, LaunchedOnce, [Next]_vars
  PROVE  LaunchedOnce'
<1>1. CASE UNCHANGED <<policy, state, rows, pass, reviewer, admin, autoLaunches, nextId>>
  BY <1>1 DEF LaunchedOnce, Spent, Holding
<1>2. QED
  BY <1>1, PassLaunches, ReviewLaunches, AdminLaunches, WorldIsElsewhere DEF Next

LEMMA InitQuiet == ASSUME Init PROVE Quiet /\ LaunchedOnce
BY IdleHoldsNothing DEF Init, Quiet, LaunchedOnce, FlagsFree, IdleAdmin, IdleReviewer

\* When passes do not overlap, nobody else holds the flags meanwhile and no pass is cut short
\* between reading them and saving them, a pair is remediated automatically at most once
\* until a pass has seen it recover.
THEOREM LaunchesOnce ==
  ASSUME OnePass, QuietState, FailsAt \cap {"policy", "device", "save"} = {}
  PROVE  Spec => []OneAutoLaunch
<1>1. Init => Shapes /\ Alone /\ Quiet /\ LaunchedOnce
  BY InitShapes, InitCounters, InitQuiet
<1>2. Shapes /\ Alone /\ Quiet /\ LaunchedOnce /\ [Next]_vars
        => (Shapes /\ Alone /\ Quiet /\ LaunchedOnce)'
  BY NextShapes, NextAlone, NextQuiet, NextLaunches
<1>3. LaunchedOnce => OneAutoLaunch
  BY DEF LaunchedOnce, OneAutoLaunch
<1>4. QED
  BY <1>1, <1>2, <1>3, PTL DEF Spec

---------------------------------------------------------------------------
(* A row behind every flag *)

\* What the only pass, or an idle one, has to do with it.
Backed(c, st, rw) ==
  /\ \A k \in Pairs : Flagged(st, k) =>
       \/ About(rw, st[k].violation, k)
       \/ c.stage = "rows" /\ About(c.new, st[k].violation, k)
  /\ c.stage \in {"policy", "device", "save"} => \A k \in Pairs : Flagged(c.map, k) =>
       About(rw, c.map[k].violation, k) \/ About(c.new, c.map[k].violation, k)
  /\ DOMAIN c.new \cap DOMAIN rw = {}

LEMMA RowsAreBacked ==
  ASSUME RowsBehind, NEW x \in Passes, admin.stage = "idle",
         \A y \in Passes \ {x} : pass[y].stage = "idle"
  PROVE  Backed(pass[x], state, rows)
BY DEF RowsBehind, Backed, Holding

LEMMA BackedAreRows ==
  ASSUME Shapes, NEW x \in Passes, OnlyPass(x),
         \A y \in Passes \ {x} : pass[y].stage = "idle", Backed(pass'[x], state', rows')
  PROVE  RowsBehind'
<1>1. \A y \in Passes \ {x} : pass'[y].stage = "idle" /\ DOMAIN pass'[y].new = {}
  BY IdleHoldsNothing DEF OnlyPass, Shapes, PassFits
<1>2. \A k \in Pairs : Flagged(state', k) =>
        \/ About(rows', state'[k].violation, k)
        \/ \E y \in Passes : pass'[y].stage = "rows" /\ About(pass'[y].new, state'[k].violation, k)
  BY DEF Backed
<1>3. \A y \in Passes : Holding(y)' => \A k \in Pairs : Flagged(pass'[y].map, k) =>
        \/ About(rows', pass'[y].map[k].violation, k)
        \/ About(pass'[y].new, pass'[y].map[k].violation, k)
  BY <1>1 DEF Backed, Holding
<1>4. \A y \in Passes : DOMAIN pass'[y].new \cap DOMAIN rows' = {}
  BY <1>1 DEF Backed
<1>5. QED
  BY <1>2, <1>3, <1>4 DEF RowsBehind, About

LEMMA BackedKept ==
  ASSUME NEW b, NEW c, NEW st, NEW rw, Backed(b, st, rw), b.stage # "rows", c.stage # "rows",
         \/ c.new = b.new
         \/ c.new = NoRows,
         c.stage \in {"policy", "device", "save"} =>
           \/ c.map = st
           \/ b.stage \in {"policy", "device", "save"} /\ c.map = b.map /\ c.new = b.new
  PROVE  Backed(c, st, rw)
<1>1. DOMAIN NoRows = {}
  BY IdleHoldsNothing
<1>2. QED
  BY <1>1 DEF Backed

LEMMA BackedAdds ==
  ASSUME Shapes, NEW x \in Passes, pass[x].stage = "device", Backed(pass[x], state, rows),
         NEW d, NEW status, NEW run, NEW launch, Adds(x, d, status, run, launch)
  PROVE  Backed(pass'[x], state, rows)
<1> DEFINE b == pass[x]
           c == pass'[x]
           k == <<b.current, d>>
           v == nextId + 1
           f == Flag(v, status)
<1>1. c.stage = "device" /\ c.map = [b.map EXCEPT ![k] = f]
  BY Violated DEF FlagsWith
<1>2. /\ DOMAIN c.new = DOMAIN b.new \cup {v} /\ v \notin DOMAIN rows
      /\ \A u \in DOMAIN b.new : c.new[u] = b.new[u]
      /\ c.new[v] = [policy |-> b.current, device |-> d, status |-> status, run |-> run]
  BY RowAdded
<1>3. f.violation = v /\ k \in Pairs /\ DOMAIN b.map = Pairs
  BY DEF Flag, Adds, Shapes, PassFits, Map
<1>4. About(c.new, v, k)
  BY <1>2 DEF About
<1> HIDE DEF b, c, k, v, f
<1>5. \A u, l : About(b.new, u, l) => About(c.new, u, l)
  BY <1>2 DEF About
<1>6. \A l \in Pairs : Flagged(c.map, l) =>
        About(rows, c.map[l].violation, l) \/ About(c.new, c.map[l].violation, l)
  <2> TAKE l \in Pairs
  <2>1. CASE l = k
    BY <1>1, <1>3, <1>4, <2>1
  <2>2. CASE l # k
    <3>1. c.map[l] = b.map[l] /\ b.stage = "device"
      BY <1>1, <1>3, <2>2 DEF b
    <3>2. QED
      BY <1>5, <3>1 DEF Backed, Flagged, b
  <2>3. QED
    BY <2>1, <2>2
<1>7. DOMAIN c.new \cap DOMAIN rows = {}
  BY <1>2 DEF Backed, b
<1>8. \A l \in Pairs : Flagged(state, l) => About(rows, state[l].violation, l)
  BY DEF Backed
<1>9. Backed(c, state, rows)
  BY <1>1, <1>6, <1>7, <1>8 DEF Backed
<1>10. QED
  BY <1>9 DEF c

LEMMA PassRows ==
  ASSUME OnePass, QuietState, "rows" \notin FailsAt, Shapes, Alone, Quiet, RowsBehind,
         NEW x \in Passes, StartPass(x) \/ Evaluate(x) \/ Breaks(x)
  PROVE  RowsBehind'
<1> DEFINE b == pass[x]
           c == pass'[x]
<1>1. /\ admin.stage = "idle" /\ OnlyPass(x)
      /\ \A y \in Passes \ {x} : pass[y].stage = "idle"
  BY PassFree, PassMoves DEF FlagsFree
<1>2. Backed(b, state, rows)
  BY <1>1, RowsAreBacked
<1>3. ASSUME Backed(c, state, rows), UNCHANGED <<state, rows>> PROVE RowsBehind'
  BY <1>1, <1>3, BackedAreRows
<1>4. CASE StartPass(x)
  <2>1. c.stage = "pull" /\ c.new = NoRows /\ b.stage # "rows" /\ UNCHANGED <<state, rows>>
    BY <1>4, Started DEF StartPass
  <2>2. QED
    BY <1>2, <1>3, <2>1, BackedKept
<1>5. CASE PullDevices(x)
  <2>1. c.stage = "load" /\ c.new = b.new /\ b.stage # "rows" /\ UNCHANGED <<state, rows>>
    BY <1>5, Pulled DEF PullDevices, Kept
  <2>2. QED
    BY <1>2, <1>3, <2>1, BackedKept
<1>6. CASE LoadState(x)
  <2>1. /\ c.stage = "policy" /\ c.new = b.new /\ c.map = state /\ b.stage # "rows"
        /\ UNCHANGED <<state, rows>>
    BY <1>6, Loaded DEF LoadState, Kept
  <2>2. QED
    BY <1>2, <1>3, <2>1, BackedKept
<1>7. CASE JudgePolicy(x)
  <2>1. b.stage = "policy" /\ UNCHANGED <<state, rows>>
    BY <1>7 DEF JudgePolicy
  <2>2. PICK p \in b.todo :
           c = IdlePass \/ (c.stage = "device" /\ c.new = b.new /\ c.map = b.map)
    BY <1>7, JudgedTo
  <2>3. CASE c = IdlePass
    BY <1>2, <1>3, <2>1, <2>3, IdleHoldsNothing, BackedKept
  <2>4. CASE c.stage = "device" /\ c.new = b.new /\ c.map = b.map
    BY <1>2, <1>3, <2>1, <2>4, BackedKept
  <2>5. QED
    BY <2>2, <2>3, <2>4
<1>8. CASE EvaluateDevice(x)
  <2>1. PICK d : Recover(x, d) \/ StillFlagged(x, d) \/ NewViolation(x, d)
    BY <1>8 DEF EvaluateDevice
  <2>2. b.stage = "device" /\ UNCHANGED <<state, rows>>
    BY <1>8 DEF EvaluateDevice
  <2>3. CASE Recover(x, d) \/ StillFlagged(x, d)
    <3>1. /\ c.stage = "device" /\ c.new = b.new
          /\ c.map = b.map \/ c.map = [b.map EXCEPT ![<<b.current, d>>] = NoFlag]
      BY <2>2, <2>3, Recovered DEF Kept
    <3>2. DOMAIN b.map = Pairs
      BY DEF Shapes, PassFits, Map
    <3>3. \A k \in Pairs : Flagged(c.map, k) => Flagged(b.map, k) /\ c.map[k] = b.map[k]
      BY <3>1, <3>2 DEF Flagged
    <3>4. Backed(c, state, rows)
      BY <1>2, <2>2, <3>1, <3>3 DEF Backed
    <3>5. QED
      BY <1>3, <2>2, <3>4
  <2>4. CASE NewViolation(x, d)
    BY <1>2, <1>3, <2>2, <2>4, ViolationAdds, BackedAdds
  <2>5. QED
    BY <2>1, <2>3, <2>4
<1>9. CASE EndPolicy(x)
  <2>1. /\ b.stage = "device" /\ c.stage \in {"policy", "save"} /\ c.new = b.new
        /\ c.map = b.map /\ UNCHANGED <<state, rows>>
    BY <1>9, Ended DEF EndPolicy
  <2>2. QED
    BY <1>2, <1>3, <2>1, BackedKept
<1>10. CASE SaveState(x)
  <2>1. /\ b.stage = "save" /\ c.stage = "rows" /\ c.new = b.new /\ state' = b.map
        /\ rows' = rows
    BY <1>10, Saved DEF SaveState, Kept
  <2>2. Backed(c, state', rows')
    BY <1>2, <2>1 DEF Backed
  <2>3. QED
    BY <1>1, <2>2, BackedAreRows
<1>11. CASE CreateViolations(x)
  <2>1. /\ b.stage = "rows" /\ rows' = With(b.new, rows) /\ state' = state
        /\ c.new = NoRows /\ c.stage \in {"idle", "alerts"}
    BY <1>11, Created, IdleHoldsNothing DEF CreateViolations
  <2>2. DOMAIN b.new \cap DOMAIN rows = {}
    BY <1>2 DEF Backed
  <2>3. \A v, k : About(rows, v, k) \/ About(b.new, v, k) => About(rows', v, k)
    BY <2>1, <2>2 DEF About, With
  <2>4. Backed(c, state', rows')
    BY <1>2, <2>1, <2>3, IdleHoldsNothing DEF Backed
  <2>5. QED
    BY <1>1, <2>4, BackedAreRows
<1>12. CASE AlertStep(x)
  <2>1. b.stage \in {"alerts", "count"} /\ UNCHANGED <<state, rows>>
    BY <1>12, Alerted
  <2>2. c.stage \in {"idle", "alerts", "count"} /\ (c.new = NoRows \/ c.new = b.new)
    BY <1>12, Alerted, IdleHoldsNothing
  <2>3. QED
    BY <1>2, <1>3, <2>1, <2>2, BackedKept
<1>13. CASE PassFails(x)
  <2>1. c.stage = "idle" /\ c.new = NoRows /\ b.stage # "rows" /\ UNCHANGED <<state, rows>>
    BY <1>13, Failed, IdleHoldsNothing DEF PassFails
  <2>2. QED
    BY <1>2, <1>3, <2>1, BackedKept
<1>14. QED
  BY <1>4, <1>5, <1>6, <1>7, <1>8, <1>9, <1>10, <1>11, <1>12, <1>13
  DEF Evaluate, Breaks, AlertStep

\* A review changes what a row says of its run, not which pair it is about.
LEMMA ReviewRows ==
  ASSUME Shapes, Quiet, RowsBehind, NEW r \in Reviewers,
         Review(r) \/ \E v \in DOMAIN rows : Approve(r, v) \/ Dismiss(r, v)
  PROVE  RowsBehind'
<1>1. ReviewUnchanged
  BY DEF Review, LaunchApproved, RecordApproval, LoadFlags, SaveFlags, Approve, Dismiss
<1>2. SameFlags(state', state)
  BY SaveFlagsSame, SameIsReflexive
     DEF Review, LaunchApproved, RecordApproval, LoadFlags, Approve, Dismiss
<1>3. /\ DOMAIN rows' = DOMAIN rows
      /\ \A u \in DOMAIN rows : /\ rows'[u].policy = rows[u].policy
                                /\ rows'[u].device = rows[u].device
  <2>1. \A u \in DOMAIN rows : DOMAIN rows[u] = {"policy", "device", "status", "run"}
    BY DEF Shapes, Listed
  <2>2. CASE RecordApproval(r)
    BY <2>1, <2>2 DEF RecordApproval
  <2>3. CASE \E v \in DOMAIN rows : Dismiss(r, v)
    BY <2>1, <2>3 DEF Dismiss
  <2>4. CASE UNCHANGED rows
    BY <2>4
  <2>5. QED
    BY <2>2, <2>3, <2>4 DEF Review, LaunchApproved, LoadFlags, SaveFlags, Approve
<1>4. \A v, k : About(rows', v, k) <=> About(rows, v, k)
  BY <1>3 DEF About
<1>5. UNCHANGED <<pass, admin>>
  BY <1>1 DEF ReviewUnchanged
<1>6. \A k \in Pairs : Flagged(state, k)' =>
        \/ About(rows, state[k].violation, k)'
        \/ \E x \in Passes : pass[x].stage = "rows" /\ About(pass[x].new, state'[k].violation, k)
        \/ admin.stage # "idle" /\ admin.policy = k[1]
  BY <1>2, <1>4 DEF RowsBehind, SameFlags, Flagged
<1>7. \A x \in Passes : Holding(x) => \A k \in Pairs : Flagged(pass[x].map, k) =>
        \/ About(rows', pass[x].map[k].violation, k)
        \/ About(pass[x].new, pass[x].map[k].violation, k)
  BY <1>4 DEF RowsBehind
<1>8. \A x \in Passes : DOMAIN pass[x].new \cap DOMAIN rows' = {}
  BY <1>3 DEF RowsBehind
<1>9. QED
  BY <1>5, <1>6, <1>7, <1>8 DEF RowsBehind, Holding, Flagged, About

LEMMA AdminRows ==
  ASSUME QuietState, Shapes, Quiet, RowsBehind,
         \/ \E p \in Policies : DeleteViolations(p) \/ \E s \in Saves : SavePolicy(p, s)
         \/ LoadForDelete \/ SavePurged \/ DeletePolicy
  PROVE  RowsBehind'
<1>1. pass' = pass
  BY DEF DeleteViolations, SavePolicy, LoadForDelete, SavePurged, DeletePolicy, AdminUnchanged
<1>2. CASE \E p \in Policies, s \in Saves : SavePolicy(p, s)
  <2>1. UNCHANGED <<state, rows, admin>>
    BY <1>2 DEF SavePolicy
  <2>2. QED
    BY <1>1, <2>1 DEF RowsBehind, Holding, About
<1>3. ASSUME NEW p \in Policies, DeleteViolations(p) PROVE RowsBehind'
  <2>1. /\ NoPass /\ FlagsFree /\ state' = state /\ admin' = [stage |-> "load", policy |-> p]
        /\ rows' = [v \in {u \in DOMAIN rows : rows[u].policy # p} |-> rows[v]]
    BY <1>3 DEF DeleteViolations
  <2>2. admin'.stage # "idle" /\ admin'.policy = p
    BY <2>1
  <2>3. \A v, k : About(rows, v, k) /\ k[1] # p => About(rows', v, k)
    BY <2>1 DEF About
  <2>4. \A k \in Pairs : Flagged(state, k) => About(rows, state[k].violation, k)
    BY <2>1 DEF RowsBehind, NoPass, FlagsFree
  <2>5. \A x \in Passes : ~Holding(x)' /\ DOMAIN pass[x].new \cap DOMAIN rows' = {}
    BY <1>1, <2>1 DEF NoPass, Holding, RowsBehind
  <2>6. QED
    BY <1>1, <2>1, <2>2, <2>3, <2>4, <2>5 DEF RowsBehind, About
<1>4. CASE LoadForDelete
  <2>1. /\ UNCHANGED <<state, rows>> /\ admin'.stage # "idle" /\ admin'.policy = admin.policy
    BY <1>4 DEF LoadForDelete
  <2>2. QED
    BY <1>1, <2>1 DEF RowsBehind, Holding, About
<1>5. CASE SavePurged
  <2>1. /\ state' = Purged(admin.policy) /\ rows' = rows /\ admin'.stage # "idle"
        /\ admin'.policy = admin.policy
    BY <1>5 DEF SavePurged, Quiet
  <2>2. \A k \in Pairs : k[1] # admin.policy => state'[k] = state[k]
    BY <2>1 DEF Purged
  <2>3. QED
    BY <1>1, <2>1, <2>2 DEF RowsBehind, Holding, About, Flagged
<1>6. CASE DeletePolicy
  <2>1. UNCHANGED <<state, rows>> /\ \A k \in Pairs : k[1] = admin.policy => ~Flagged(state, k)
    BY <1>6 DEF DeletePolicy, Quiet
  <2>2. QED
    BY <1>1, <2>1 DEF RowsBehind, Holding, About
<1>7. QED
  BY <1>2, <1>3, <1>4, <1>5, <1>6

LEMMA NextRows ==
  ASSUME OnePass, QuietState, "rows" \notin FailsAt, Shapes, Alone, Quiet, RowsBehind,
         [Next]_vars
  PROVE  RowsBehind'
<1>1. CASE UNCHANGED <<policy, state, rows, pass, reviewer, admin, autoLaunches, nextId>>
  BY <1>1 DEF RowsBehind, Holding, About
<1>2. QED
  BY <1>1, PassRows, ReviewRows, AdminRows, WorldIsElsewhere DEF Next

LEMMA InitRows == ASSUME Init PROVE RowsBehind
BY IdleHoldsNothing DEF Init, RowsBehind, Holding, NoFlags, Flagged

\* When passes do not overlap, nobody else holds the flags meanwhile and no pass is cut short
\* between saving its flags and its rows, every flag names a row of its own pair.
THEOREM FlagsBacked ==
  ASSUME OnePass, QuietState, "rows" \notin FailsAt
  PROVE  Spec => []FlagsHaveRows
<1>1. Init => Shapes /\ Alone /\ Quiet /\ RowsBehind
  BY InitShapes, InitCounters, InitQuiet, InitRows
<1>2. Shapes /\ Alone /\ Quiet /\ RowsBehind /\ [Next]_vars
        => (Shapes /\ Alone /\ Quiet /\ RowsBehind)'
  BY NextShapes, NextAlone, NextQuiet, NextRows
<1>3. RowsBehind => FlagsHaveRows
  BY DEF RowsBehind, FlagsHaveRows, About
<1>4. QED
  BY <1>1, <1>2, <1>3, PTL DEF Spec

=============================================================================
