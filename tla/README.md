# Formal models of applivery-soar

TLA+ models of the stateful core of `applivery-soar`: the durable workflow engine and the
promise it implements, the policy quarantine steps, the compliance evaluation, the case life
cycle, what comes in (agents' reports, external triggers, the shared device list), device
certificates, the job runner with its monitor, the inventory of apps, the cache of
vulnerabilities, the export of the audit log, and how a session of the browser application
ends; and of two pure functions everything rests on, the comparison of policy conditions and
the risk score.  The modules translate the TypeScript under `src/backend/src`; paths below are
relative to it unless they start with `docs/`, `backend/docs/`, `frontend/` (`src/frontend/src`)
or `schema.prisma` (`src/backend/prisma`).
`PROJECT.json` lists the source lines of every definition, the runs, the mutants that show
each property can fail, the disagreements found, and every hazard at its line.

## 1. The system

One Node.js process (or several replicas) serves the dashboard, the device agents and
inbound webhooks, talks to Applivery (the MDM) over HTTP, keeps its state in Postgres, and
runs 26 periodic jobs.  There is one event loop per process: code runs without interruption
between two `await`s, and at every `await` anything else may come in.  Almost nothing is
done in a database transaction, so nearly every handler is a sequence
*read, await, decide, await, write* and the interesting question is who comes in between.

| Component | State | Operations | Hard behaviour | What makes it correct |
|---|---|---|---|---|
| Durable workflow engine (`workflows/durableEngine.ts`, `scriptLogReconciler.ts`) | `WorkflowRun`, `WorkflowRunResult`, `WorkflowPendingStep`, `ScriptRunTracking` rows; chains in memory | launch, run a step, park, resume by timer or token, finalize | two resumers of one row, crash mid-chain, exceptions at every call, stale "waiting" | one continuation per device, resume where the log leads, complete once and with every result, every run completes |
| Policy steps (`workflows/workflowSteps.ts`, `devices/devices.service.ts`) | the device's policy stack (in Applivery), `PolicyQuarantineEntry`, the shared in-flight pull | replace, add, restore, monitor, reassign | decisions from a shared, possibly old pull; half-failed steps | the original stack is never lost, a decision uses current data, adding never removes |
| Compliance evaluation (`compliance/compliance.service.ts`, `complianceJobs.ts`) | policies, one JSON map of suppression flags, violations, launched runs | pass, approve, dismiss, save, delete, trip | load-all/save-all of the map, minutes-long passes, limits counted from old reads | one remediation per episode, flags agree with rows and, finally, with devices, limits hold |
| Cases, SLA, tickets (`cases/*.ts`, `integrations/integrations.service.ts`) | `Case` rows with their links, remote tickets | create, update, upsert by a pass, recover, dispatch, ticket sync, SLA tick | five writers of one row, ticks over old lists | one case per device and policy, status agrees with `closedAt`, each clock notified exactly once |
| Job runner and its monitor (`jobs/`, `queue/`, `systemHealth/`) | the set of running jobs, `SystemHealthJob` rows | tick, skip, heartbeat, release; look, alert, recover | failures, calls that hang, restarts; a look that acts on rows read earlier and creates rows itself | lasting trouble is reported, once; a recovery is announced only after a heartbeat |
| Triggers, agents' reports, forced evaluation (`workflows/triggers.service.ts`, `deviceData/`) | `Trigger`, `TriggerFireState`, `DevicePushData`, the cooldown | fire, resolve, report, force | launch before mark, errors half-way, a refused or coalesced evaluation | the alarm is what the sender asked for last; in the end the verdict is about what is stored |
| Shared device list (`services/liveCache.ts`, `getDevicesFull`) | one cached list, the pull in flight | ask, read, return, fail, invalidate, expire | a torn or old pull stored after an invalidation | never goes back to older data, nobody waits for ever |
| Device certificates (`mtls/`) | `DeviceCertificate`, CA key and serial counter | register, renew, revoke, expire, replace the CA | check-then-create, half-done renewals, lost answers | one serial, one certificate; no active certificate nobody holds; the device is served in the end |
| Inventory of apps (`appLists/`, `deviceData/`) | a row of two slots per device, buffered reports | report, reconcile, rank, fetch | a row written back whole, a budget, devices that always fail | the latest report is kept, the fleet turns over |
| Vulnerability cache (`catalogs/vulnService.ts`) | `VulnServiceCache` rows, the interval | refresh by tick or on demand, evict, judge | answers matched by position, a batch cap, overlapping refreshes, rows that expire | a row tells of its own key; every device is judged again and again |
| Audit log export (`logExportDestinations/`, `auditLogs/`) | `AuditLogEntry` rows, a cursor per destination | record, ship, move the cursor, rotate | stamped before stored, failures before and after the upload, a rotation beside it | nothing falls behind a cursor unshipped; only missed ticks cost entries |
| Browser session (`frontend/composables/useSessionGuards.ts`) | the localStorage that tabs share, timers and tokens per tab | activity, check, suspend, reload, renew, sign in and out | tabs that sleep, a default before the setting is known, a stamp another tab clears | idle tabs sign out, attended ones do not |
| Condition evaluation (`compliance/complianceEvaluate.ts`) | none | evaluate | data not reported, versions of unequal length | opposites exclude each other, thresholds are ordered |
| Risk score (`devices/deviceNormalize.ts`) | none | compute | caps, factors that stand in for one another | one more finding never lowers score or tier |
| The rest | single rows, catalogues, reports, the Vue frontend, roles | create, read, update, delete | little | — |

How they interact.  A compliance pass pulls the fleet (`getDevicesFull`), sets and clears
flags, launches workflow runs, opens, reopens and resolves cases.  A workflow run walks its
steps per device, pulls the fleet and pushes policy stacks, and consults a compliance policy
for its recovery gate.  A script step leaves a tracking row; the reconciler job polls
Applivery and resumes the chain through the row's token, while the resumer job resumes it
when its time is up.  Cases dispatch events to Jira or ServiceNow, whose tickets two jobs
poll and update.  An inbound trigger launches a run, opens a case and forces a pass; so does
an agent's report, less the run and the case.  Registrations, triggers and passes all read
the device list that one cache and one pull in flight serve.

## 2. Modules

```
WorkflowRun <= DurableEngine -- MCDurableEngine      proofs: DurableEngineProofs
               ComplianceEvaluation -- MCComplianceEvaluation   ComplianceProofs
               CaseLifecycle -- MCCaseLifecycle              CaseLifecycleProofs
FleetCache  <- Ingress -- MCIngress                                IngressProofs

FleetCache  <- DeviceCertificates --.
               JobRunner -----------|                             PlatformProofs
               AppInventory --------+- MCPlatform                 (of all four)
               VulnCache -----------'

               PolicyQuarantine ----.                     PolicyQuarantineProofs
               PolicyRules ---------|                            JudgementProofs
               RiskScore -----------+- MCSafety          (of rules and the score)
               LogExport -----------|                               SafetyProofs
               BrowserSession ------'- MCBrowserSession       (of the last two)
```

`<=` is refinement, `<-` instantiation; the modules at the right margin hold the proofs.

Each component module declares CONSTANTS with a named assumption, one action per operation
or per stretch of code between two awaits, and its properties at its end.  A definition
whose comment begins "Variation" is never used by the specification: it is the mutated form
of the definition beside it.

### DurableEngine

One run of one workflow over a list of entries.  `row` are the pending rows, `results` the
result rows, `run` and `blob` the run row and the results its log was written with.
`chain` holds what is in memory: one chain per entry (`Fresh(i)`), one per timer resume
(`Timer(r)`), one per token resume (`Token(r)`), and the launcher.  A chain's `stage` is the
await it stands at: `step` (in the loop of `runDeviceStepChain`), `dispatched`
(script sent, row not yet created), `waiting` (row created, result row not yet written),
`finish`, `read` and `write` (upsert, then `finalizeRunIfDone`), `claimed`/`cleanup`
(`resumeOne` before its try and in its finally), `reported`/`taken` (the reconciler before
and after the DELETE of the row).  The log is kept, because the loop guard is its length
and a resume continues where it leads.  `Throw` lets any awaited call fail and ends where
the code's try/catch nesting ends; `Crash` empties memory and keeps the database.  `Recover`
writes the whole list of `runRecoverySteps` into the log: an entry for each step of the log that
has a restore script (`Restorable`) and one for each recovery step of the workflow
(`RecoverySteps`), each with an outcome of its own.  So the log as a whole has no bound that the
guard sets; `LogBounded` says what has one: no step is executed past the guard, no script result
stands more than one entry past it, and a log that is parked is within it.

Abstractions: steps are of four kinds (`action` stands for every step that calls out and
returns, `invalid` for one that cannot run); time is the nondeterminism of `ClaimDue`;
the claim takes one row where the SQL takes a batch (every batch is a sequence of claims);
the workflow may be deleted but is not edited between a park and its resume; each row is
used once.

**WorkflowRun** is what the engine promises its callers, without chains, rows, tokens or
claims: a device is *untaken*, *walking*, *parked* or has an outcome; an outcome is given
once and never taken back; a run is completed only when all its devices have one, with those
outcomes as its log.  `DurableEngine` instantiates it (`Promised`) with the result rows, the run
row and the log as they are in the database, and `RunPromise` is its specification: a step of
the engine is a step of the promise or leaves it alone.  An engine that starts a second chain
for a device walks it again after its outcome, which the promise does not have.

### PolicyQuarantine

One device, several chains.  `stack` is what Applivery holds, `snapshot` the
`PolicyQuarantineEntry`, `pull` the promise in `devicesFullInFlight`: whoever calls
`getDevicesFull(refresh = true)` starts a pull or joins the one in flight, which is modelled
with the moment it *reads* the device (`PullReads`) apart from the moment it *returns*
(`PullReturns`).  `Active`, `Applied` and `NewPriority` are `extractActivePolicies`,
`applyDevicePolicies` and the priority arithmetic of `executePolicyAddStep`, with the clamp;
`Active` says which positions of the device's list survive (the first of each policy) and where
each goes, instead of walking the list.
`original`, `during` and `since` are history variables of the properties: the first stack, the
stacks since the pull in flight began, and those of the pull that served a chain's step.

### ComplianceEvaluation

Passes, reviewers and an administrator over policies and devices.  A pass carries the
policies it read first (`seen`), the devices it pulled (`matched`), the map it loaded
(`map`), the violations it will create (`new`) and the runs it launched (`launched`); it is
cut at its awaits: pull, load, one stage per policy (`JudgePolicy`), one per device
(`EvaluateDevice`), the end of the policy (`EndPolicy`), save of the map, creation of the rows,
two stages per alert, because it is sent first and counted afterwards: the delivery may fail, with
or without the alert having arrived, and so may the write of the counter, which is logged and nothing
else.  `uncounted` is the history of the alerts the counter does not hold.  `SavePolicy` changes the
automatic run, whether the policy is enabled and the devices it covers (`scope`, for audience and platform); a
disabled policy is left out by every pass and keeps its flags.  The policies to come and those to alert on are sets, taken in any order, and
the runs launched so far a number for each workflow and device, 0 for none.  The map is loaded whole and saved whole by
passes, reviews and deletions.  Which device matches which policy is the input `violating`.
The e-mail alert is left out (it counts like the webhook one), and so are the tags and smart
attributes a pass sets at its end.

### CaseLifecycle

Case rows with status, `closedAt`, acknowledgement, SLA clock and links; remote tickets with
who marked them done.  `proc` holds the request of each administrator and the compliance
pass, `sync` and `sla` the two ticks.  Each of them reads in one step and writes in a later
one, with what it read kept in between.  `late` is the set of clocks of a case that time has
overtaken; thresholds and severities only decide when that happens.  The tick of the SLA stamps a
clock and notifies afterwards, over three awaited calls; `SlaFails` ends it in between, and
`lost` are the clocks stamped and never told of.  Abstractions: one
ticketing integration; "false positive" counts as closed; a manual ticket sync saves and
re-reads the status in one step; a ticket marked done in Jira is discovered when fetched.

### FleetCache and Ingress

`FleetCache` is `getDevicesFull` over `liveCache.ts`: a caller is served from the cache
(`Ask`), joins the pull in flight (`JoinOrStart`) or starts one.  A pull reads its parts one
after the other (`PullReads`), so its list may mix moments; when it returns it is stored even
if the cache was invalidated meanwhile (`PullReturns`), and a failure reaches everyone who
joined (`PullFails`).  What the parts contain is the `source` its user supplies.

`Ingress` instantiates it with two parts of one device, the agent's attributes and the
trigger's alarm.  `call` holds the agent's report and the tool's calls, cut at their awaits:
a report is stored, the cache dropped, an evaluation forced; a fire finds the device, launches
(`LaunchRun`), counts, marks (`MarkFired`), opens a case and answers.  `ForceEvaluation` is
refused within the cooldown and the refusal is swallowed.  `pass` are the forced passes and
the scheduler's; a pass always refreshes, and `Judge` records what its verdict was based on.
`believed` is a history variable: what the tool may take the alarm to be, two values after a
call that failed.  Abstractions: one device, one trigger and one policy; of a pass the verdict
and the stamp of the policy only (the rest is `ComplianceEvaluation`); a forced pass that finds
none of `ForcedPasses` free is treated like a refused one, which is a bound.

### DeviceCertificates

The certificates of one device.  `req` are the requests at work, cut at their awaits:
`CheckActive`, `AskFleet`/`CheckKnown` (over `FleetCache`), or `Authenticate` and `Supersede`
for a renewal, then `ReadCa`, `ClaimSerial`, `IssueRecord`, `Answer`.  `ReadCa` and
`ClaimSerial` are apart because the key is read in one query and the number claimed in
another.  The agent (`held`, `waits`) sends one request at a time, but may give up on one the
server is still at work on; then `lost` says that an answer went astray, as it does when a request
throws after its row was created, at the audit event (`RequestFails`).  A certificate is `Accepted`
if its chain leads to the authority of the day, it has not expired, and the device has any active
row, as the proxy and `verifyMtlsIdentity` see it.  An administrator
replaces the authority or revokes, rows expire, the device is enrolled late.  Abstractions:
the signature is the pair of authority and serial; the purge of old rows is left out because nothing
reads them.

### JobRunner

Slots, runs and heartbeats of the jobs (`runJobOnce`), and the monitor, which is one of them
(`checkSystemHealthAndAlert`): it reads all rows once and then alerts, recovers or stays
silent about one job after another; a notice is sent in one step (`SendAlert`, `SendRecovery`) and
its mark written in the next (`Mark`), whether or not it was delivered.  Two history variables:
`beaten`, the jobs that have
reported since they were found unhealthy, and `said`, what the recipients heard last of each job,
"unsure" after a failed delivery or a stop between notice and mark.  A run may end, throw or stay for ever; a heartbeat
may fail to be written, which is swallowed; the process may restart.  Abstraction: an interval
is the nondeterminism of `Overdue`.

### AppInventory

What agents report of their apps and what the refresher fetches.  A row has two slots and is
read and written back whole; a report of a device the serial number index does not know is
buffered and moved later (`Reconcile`).  `oldest` is the fleet in the order of the age of its
fetched lists, which is all the ranking looks at; a fetch that fails keeps the old age.  Reports
and the reconciliation may fail at any await; `acked` is the latest report that was answered with
success, which is the one its agent may rely on.

### PolicyRules and RiskScore

Pure functions.  `PolicyRules` has one operator for each way `complianceEvaluate.ts` compares
a field, and the policy's combination of conditions; its state is one input and never changes.
Texts are words of which the lower-numbered are parts of the higher; a version is the sequence
of its numbers.  `RiskScore` is `computeDeviceRisk`, its weights and caps included; `finding`
is what is known against a device and worsens step by step.  Left out there: the wording of the
factors.

### VulnCache

The rows of the cache and up to two refreshes at once, the scheduler's and an administrator's.
A refresh decides everything from one read of fleet and rows (`Start`); then it evicts row by
row, asks about OS versions one by one (`QueryOs`) and about the batch of apps chunk by chunk
(`QueryChunk`), and stores the answers by their position (`Store`).  A failed OS call is only
counted, a failed chunk gives up the batch, a failed write the rest of it, and whatever failed
the interval begins anew (`Finish`).  `Judged` is when a device has a verdict: fresh rows for
its version and for all its apps.  The version is looked up under `OsKey`, for an Apple device the one
its OS patch level begins with, while a refresh asks about the `osVersion` of the fleet only (`Asked`).  Time is the age of a row in intervals.  Abstractions: what a
row says is the key it was asked about;
the retries of a chunk are one call that fails or not.  That a chunk's answer has one result per
app is the assumption `FullAnswers`.

### LogExport

`export` is the daily tick: whom it has left, whom it is at, and what it has read
(`ReadNew`), shipped (`Ship`) and not yet recorded (`MoveCursor`).  An entry is stamped by the
process (`Stamp`) and found by queries later (`StoreEntry`).  The rotation deletes what is past
its retention, in any instant.  An upload may fail before or after it took effect; a restart
ends the tick.  `shipped` and `missed` are history variables.  Abstractions: only batch
destinations; one rotation deletes all that is old.

### BrowserSession

The tabs of one browser.  They share `stored` (the session in the localStorage) and `stamp`
(the age of the last activity); each has its timer, the setting it has loaded, its token and
whether a refresh is in flight.  A tab checks once after each step of time (`Check`), may be
suspended with its timer, and resumes (`Resume`), is loaded again with what the localStorage
holds (`Load`), or finds the session gone (`LoadsLogin`).  The setting may be one nobody ever
saved, its answer may arrive (`SettingArrives`) or fail (`SettingFails`), and one that differs restarts
the timer although nobody used the page.  Two history variables keep these apart: `unattended`, the time since
a page was used, and `rearmed`, the time since such an answer.
Abstraction: a step of time is longer than the minute between two checks, and what is due
comes before time goes on.

### MCPlatform and MCSafety

Small parts that share no state are checked side by side: `part` says which of them a behaviour
exercises, and the others stay at one initial state.  `MCPlatform` holds the four that must get
somewhere and gives each its fairness; `MCSafety` the five of which only safety is claimed.

## 3. What is checked

States are distinct states of the complete exploration, on two workers.

| Run | States | Bounds | Question |
|---|---|---|---|
| `durable_faults` | 2,836,305 | 1 device, script-wait cycle, a recovery policy with a recovery step, a step with a restore script, 3 rows, guard 3, 1 crash, 2 exceptions, 1 change of workflow or credential, no assumption at all | Whatever fails or overtakes, does a resume continue where its log leads, is no step executed past the guard, is a log only written complete? |
| `durable_script` | 16,691 | 2 devices one after the other, script with two branches then a wait, 4 rows; fair | While scripts answer early, in time or never: has a device one continuation, is the engine a `WorkflowRun`, and does the run complete? |
| `durable_restart` | violation | 1 device, 1 crash; fair | "a run survives a process restart mid-wait" |
| `durable_late_answer` | violation | 1 device, a late answer | "that always means timed out" |
| `compliance_passes` | 2,021,846 | 2 policies sharing a workflow, in any order, 2 devices, 1 pass at a time, 4 events of which 2 acts of people or failures and 2 changes of a device; policies that are disabled, re-scoped, deleted; lost alerts and lost counts; fair | One remediation per episode, flags with rows, shared runs, batch cap, daily limit, and convergence |
| `compliance_rearm` | violation | threshold 3, 3 devices, 1 save; the trace of 34 states trips, saves and trips again | "re-trips on its own if the same failure repeats" |
| `cases_lifecycle` | 1,017,438 | 1 pair, 2 cases, 1 ticket, 2 violations, 1 administrator, a tick that may be cut short; fair | One case per pair, status and `closedAt`, each clock notified at most once, and in the end unless the tick was cut short |
| `cases_ticket` | violation | 1 case, 2 tickets | "was marked done externally" |
| `ingress` | 886,698 | the agent and one tool call, 1 forced pass beside the scheduler's, 3 inputs, 1 exception, 2 pulls; fair | Is the alarm what its sender asked for, does the device list never go back, and is the last verdict about what is stored? |
| `platform` | 650,707 | jobs: 1 and the monitor, 3 failures, 1 restart; certificates: 2 requests, 2 authorities, 3 rows, 1 exception, 2 events; apps: 3 devices, 1 that reports twice, 1 that fails, 2 fetches a tick; vulnerabilities: 1 Apple device, 3 apps, 2 OS versions and a patch level that names one of them or none, batches of 2 in chunks of 1, rows that live 2 intervals, 1 change of the fleet, 1 forced refresh, 1 error; fair | The safety and the progress of these four parts |
| `safety` | 1,323,542 | policy steps: 1 chain of 4 steps of 6 kinds, 2 failures, 2 foreign pulls, 1 reassignment; conditions: numbers 0..2, 8 versions; risk: 4 findings; session: 2 interchangeable tabs (symmetry), limits 1 and 3 or none saved, default 2, tokens that live 1; export: 2 entries, 2 destinations, ticks every 3 instants, 7 instants, retention of 2 days, 1 outage, 1 switch | Is the way back from quarantine kept and does an added policy leave the others alone and outrank them? Do conditions fit together, does a worse device score no lower, does an idle tab end within its window and one in use stay, does an entry reach every destination? |
| `browser_idle` | violation | 2 tabs | "Signs everyone out automatically" |

Why the bounds are enough.  The interference these properties are about needs at most two
actors on one object: the second device exists for the shared cursor and for a run that is
completed by the other device's chain; two rows per device allow a park after a resume;
guard 3 is exceeded by the cycle of two steps; two violations per pair give a recurrence;
a second case is only ever wrong; a second tab is one beside the tab that signs out.  Three inputs are a fire, its resolve and a report between
them, or a report within the cooldown of another; one exception ends one call and leaves a
retry.  Three errors in a row are what the monitor calls a streak; two requests are one the
agent gave up on and its successor; a third device shows whether a failing one starves the
others.  Two limits, one below and one above the default, are enough for a tab to be
checked against too short and too long a window before it knows its setting.  Two changes of a device are
a violation and its recovery: that a pair flagged again is launched anew, once, is proved (`LaunchesOnce`) and not in
the run.  Versions have up to three numbers and differ at each place.  Three apps do not fit a batch
of two, and a retention of two ticks is one in which a single missed tick must not cost an entry.
`Concurrency` 1 in `durable_script` is `WORKFLOW_RUN_CONCURRENCY` at its limit.  Crashes and faults come
singly or in pairs because each ends a chain.  Every counter in a guard (`MaxRows`,
`MaxCrashes`, `MaxFaults`, `MaxChanges`, `MaxSteps`, `MaxPulls`, `MaxEdits`, `MaxFlips`,
`MaxActs`, `MaxEvents`, `MaxCases`, `MaxTickets`, `MaxInputs`, `MaxCerts`, `MaxFailures`,
`MaxReports`, `MaxFindings`, `MaxForced`, `MaxErrors`, `MaxTime`, `MaxOutages`, `MaxSwitches`) bounds the environment, never a handler
in the middle.  Deadlock is not checked: every one of these systems may come to rest when
its work is done and its environment's bounds are used up.

### Disagreements found

Five runs check a sentence of the code's own comments or documentation and find it refuted;
`PROJECT.json` quotes them.

* `durable_restart`: `claimedAt` is never reset, so a crash between claim and deletion
  leaves a row no tick looks at again, and its run open for ever.
* `durable_late_answer`: the token DELETE ignores `claimedAt`; an answer that arrives while
  the timeout branch runs starts the success branch as well.
* `compliance_rearm`: the breaker looks at the last three finished runs, however old; a policy
  that tripped and is saved trips again in the next pass before anything has run.
* `cases_ticket`: closing a case moves its ticket to done without recording it; after a
  reopening the ticket sync resolves the case "because the ticket was marked done".
* `browser_idle`: a sign-out clears the stamp of the last activity for every tab, and a tab reads
  a missing stamp as now, so an idle tab beside it is never signed out (`docs/settings.md:11`).

More show in the models and have no run of their own.  `workflowSteps.ts` says that its
decisions need current state, but a forced refresh joins a pull that has already read the
device: with `FreshPulls` off, a monitor may judge the device as it was before the step before it, and
`MonitorIsFresh` promises no more than a state since that pull began.
A reload of a page hands out a full window again once its setting arrives (`SettingArrives`;
`useSessionGuards.ts:166-174` calls that "exactly the bug being fixed"), as long as the page is not
idle for the default yet.
"each clock only notifies once per case" (`backend/docs/cases.md:52`): a reopened case has its clocks
restarted and is notified again.
`vulnService.ts:405` has the OS patch level benefit "every OS-level source uniformly" and `:415` asks
for "the exact string" the refresh used; the refresh asks about `osVersion` only, so an Apple device whose
patch level names a version nothing reports has no verdict for its OS (`Asked`).
`installedApps.service.ts:116` leaves "the other slot untouched", but writes back what it read of it
(`PutFetched`).
And `autorun_capped` and `autorun_blocked` violations are queued "for a manual Approve"
(`backend/docs/edr-xdr-mtd-dex-integration-guide.md:206`), which `reviewViolation` refuses for
every status but `pending`; `Approve` has that guard, so they can only be dismissed.
A forced refresh of the vulnerabilities takes the first `MAX_APPS_PER_TICK` apps whatever their
age, so it never reaches the rest (`Batch`; `backend/docs/settings.md:246` says that it
"re-checks every combo").
A renewal that fails for want of a network signs out a user who is at work (`RenewalFails`;
`backend/docs/ARCHITECTURE.md:35`).

### Assumptions, and what happens without them

An assumption that has a name of its own is a CONSTANT, so that it can be switched off; those "in" a
property are part of its formula.  None of them is enforced by
the code: a passing run that switches one on says "apart from this window, the property
holds", and the window itself is listed as a hazard.  Switching it off gives a
counterexample unless noted.

| Assumption | Meaning | Without it |
|---|---|---|
| `ParkSettles` (`durable_script`) | no row is resumed before its parking has written "waiting" | a late "waiting" overwrites a final status (`RunPromise`), the run stays open |
| `AnswersInTime` | no answer after the row was claimed | `durable_late_answer` |
| `MaxFaults = 0` in `durable_script` | no exceptions | a caught exception after a park marks the device failed while its row is resumed later (`RunPromise`) |
| no duplicates in the list | one entry per device | two chains walk the device at once (`OneContinuation`), and, since results are counted per device and entries per list, the run never completes (`RunCompletes`) |
| one chain (`safety`) | no second workflow on the device | `Restorable` fails: a restore deletes the snapshot of a quarantine that began after it looked; `AddKeepsOthers` fails: two steps push what they each read |
| `QuietSteps`, `FreshPulls` | no reassignment mid-step; no joining of an old pull | the step pushes back the old stack (`AddKeepsOthers`, `Restorable`); `MonitorIsFresh` needs neither |
| `ProperStacks` | the first stack has a primary policy, first and without a number, a number for every other one, and no policy twice; no reassigned stack has one twice | a stack of numbered policies only loses a number at its first push (`AddKeepsOthers`) |
| `OnePass` | passes do not overlap | a violation is recorded and remediated twice, and the daily limit is exceeded |
| `QuietState` | no review or deletion saves the map during a pass | `OneAutoLaunch` and `FlagsHaveRows` fail |
| `FailsAt` | a pass fails only while it pulls, alerts or counts | cut after the save of the map: flags without rows; cut in the loop: launched again |
| counted alerts (in `DailyAlertLimit`) | the counter holds every alert that was sent | each alert that it does not hold lets one more out |
| enabled, covered (in `FlagsConverge`) | the policy is enabled and covers the device in the end | nothing ever forgets such flags |
| a tick not cut short (in `BreachesAreNotified`) | the SLA tick gets from the stamp to the notice | the breach is stamped and never notified |
| `Calm` contains `update`, `evaluate`, `sla` (`cases_lifecycle`) | nobody comes between the read and the write of these handlers | `update`: `ClosedAtAgrees` fails; `evaluate`: a second case; `sla`: a breach of the reopened clock is never notified |
| `ToolCalls` has one member (`ingress`) | the tool waits for its answers | a fire overtaken by the resolve of the same alert marks the device last: `AlarmFollowsSender` fails |
| `QuietCa` | the authority is not replaced between the read of its key and the claim of a number | `SerialsUnique` fails |
| no lost answers (in `DeviceIsServed`, `ActiveIsHeld`) | the agent gets every answer it waits for: it does not give up, and the audit event after the row does not throw | it registers and is refused, as the server has an active row nobody holds |
| the same authority (in `DeviceIsServed`) | the authority that signed the agent's certificate is in use | the chain is broken, renewal answers 401 and registration 409, until an administrator revokes the row |
| delivered notices (in `NoticesConverge`) | the last notice was delivered and marked | the recipients' last word may be wrong or doubled; the mark is right all the same |
| `AllBeatOnce` | every job has reported before the monitor's first look | the mark of the first alert creates a row with a heartbeat of now: a recovery is announced that never was (`RecoveryFollowsHeartbeat`) |
| `QuietRow` | no report is handled between the refresher's read and write of the row, or of what is buffered for it | the older row is written back (`LatestReportIsKept`) |
| `Asked` (in `VerdictsStayNew`) | the version an Apple device's patch level names is some device's `osVersion` | no refresh asks about it: the device is never judged by its OS |
| `Failing` is smaller than `PerTick` | fewer devices always fail than a tick may fetch | they rank first for ever (`AppsTurnOver`) |
| `FullAnswers` | the vulnerability service answers for every app of a chunk, in order | a shorter answer shifts: an app gets the row of its neighbour (`RowsTellTheirKey`), and the chunk after it as well |
| `SettledReads` | when the export reads the log, every entry stamped so far is stored | an entry stored after the read with a stamp before the newest shipped is never exported (`NothingSkipped`) |
| `Told` (`browser_idle` only) | a timeout is saved, and a tab told before it is suspended | not needed for anything: it keeps the trace of the disagreement short; `safety` runs without it |
| answers not counted (in `IdlePageIsSignedOut`) | the last answer that changed a setting is older than the limit | each load of a tab buys a full window where a timeout is saved |
| a stamp is stored (in `IdlePageIsSignedOut`) | | `browser_idle` |
| a device keeps its source of evidence (`RiskScore`) | | the first attribute of an agent hides what Android reported: a worse device scores lower |

`attach` and `sync` are not needed in `Calm` for the properties of `cases_lifecycle`: links
may be lost, and are, but no property there depends on them.

Also visible in the models and not stated as properties: an answer between dispatch and park
is lost; a row outlives the failed chain that parked it; a reopening straight into
"investigating" leaves the acknowledge clock running; only the first of several tickets is
closed.

### Fairness

Liveness is checked under weak fairness of the steps the event loop performs by itself once
an awaited call has answered, and of the periodic ticks.  Nothing is assumed of the others:
scripts may never answer, faults and crashes may or may not come, administrators and
reviewers need not act, runs need not end, clocks need not expire.  In `ingress` the
cooldown ends, policies become due and the scheduler ticks; in `platform` the timers of the
monitor and of the refresher fire again and again (a job that is watched need not), cached
lists expire, a refresh of the vulnerabilities goes on and the next one becomes due, a certificate request goes on or fails, and an agent asks for as long as it has
no certificate, which is what the agent script's loop does.  It is the assumption
that awaited calls settle (no HTTP call hangs for ever) and that the timers of
`backgroundJobs.ts` keep firing.

## 4. What is proved

`DurableEngineProofs`, for every workflow, list, guard, concurrency and bound that satisfies
`ConfigAssumption`, and for every value of the assumption switches a theorem does not name:

* `TypeCorrect`: `Spec => []TypeOK`.  `TypeOK` is inductive; the lemmas before it say that
  updates of a field of a chain or row stay within the record sets.
* `SnapshotsComplete`: `Spec => []SnapshotComplete`.  Not inductive: a finalization writes
  what it read earlier.  `SnapshotInv` adds that whatever a chain at stage `write` has seen
  is final for every device.  That holds at the read because the list covers the devices, so
  there are at most `Targets` of them and `Targets` final results are all of them (lemmas
  `DeviceBound`, `AllDoneIsAll`); no other step makes a chain ready to write
  (`OtherSteps`).  It needs no assumption on duplicates: with duplicates the run simply does
  not complete.
* `LogsFollowed`: `Spec => []AtFollowsLog`, and `LogsBounded`: `Spec => []LogBounded`.
  Neither is inductive, because a chain ends at a park and another begins at the resume.
  `LogInv` carries both over it: every row ever written keeps a log that ends with the step
  that parked, no longer than the guard, and the successor of that step (`Parked`); whoever
  resumes, by time or by token, belongs to a row that was written (`Links`).  A result entry
  is appended to such a log only, so `Implied` may look one entry back.  What a recovery appends, however
  many entries, is no step and no result and leads nowhere.
* `NeverForks`: `InTime => (Spec => []OneContinuation)`, in workflows of waits and scripts, with
  crashes, exceptions at every call, refused resumes and resumes that overtake their parking.
  `InTime` asks for a list that names no device twice, and that no script answers after its
  row's timer fired or that there is no script: without either the theorem is false
  (`durable_late_answer`).  `ForkInv` adds to the property how far a row must have come for the chains
  that act on it (`RowsFollow`: a chain that claimed one finds it claimed, one that reported
  finds it not yet claimed, two chains never dispatch for one row) and that the entries from the cursor on
  are untouched (`Untaken`).  Most steps only take continuations away (`Shrinks`); the others
  replace one by another of the same device.
* `PromiseIsKept`: `Orderly => (Spec => RunPromise)`, the refinement of `WorkflowRun`, for every
  workflow, list and concurrency, with crashes and with workflows and credentials that go away.
  `StepPromised` maps each step: `Launch` is the promise's; `StartFresh` takes an untaken
  device; the row of a wait or of a script (`Park`, `PersistScript`) parks it; a claim or a
  token resume (`ClaimDue`, `TakeRow`) walks it on; `Finish` is its outcome;
  `FinalizeWrite` completes the run or, the second time, changes nothing; everything else is a stutter.  `PromiseInv` says why these are
  steps of the promise: a device is in one pair of hands, or in one row, or has its outcome
  (`Turns`), a finalization about to write has seen the results as they still are, all of them
  final (`RunInv`), and the cursor divides the untaken from the taken (`CursorInv`).  `Orderly`
  excludes repeated devices, exceptions (`MaxFaults = 0`), resumes that overtake their
  parking and late answers, since each of them breaks the promise (section 3); the run
  `durable_script` checks the same instance of it.

`PolicyQuarantineProofs`, for every set of steps, every stack and every bound:

* `MonitorsJudgeAnew`: `Spec => []MonitorIsFresh`, for any number of chains and without an assumption.
  `ReadsAreNew` says what the pull in flight has read, the device had since it began (`during`), and
  what a chain holds, since the pull that served it began (`since`).
* `WayBackIsKept`: `Restorable` with one chain (`OneChain`), under `QuietSteps`, `FreshPulls` and
  `ProperStacks`.  `WayBackInv` adds what the chain knows at each await (`Knows`): before
  it creates the row there is none and it holds the device's stack, which is the original one;
  while it pushes there is a row; before it deletes the row the original stack is back.  Calls may
  fail before or after they take effect, any number of times.  With two chains the theorem is
  false.  That the stacks a step begins from survive being read and pushed back is proved of
  `Active` and `Applied` (`ProperStacksRoundTrip`), from lemmas that say which entry stands where in
  what they return (`ActiveOfDistinct`, `AppliedOfSlots`).
* `OthersStay`: `AddKeepsOthers`, and `NewOnTop`: `TopOutranks`, two action properties under the
  same conditions.  The invariant is `AddInv`: `WayBackInv`, and that the stacks on the device and in the
  snapshot stay in their slots (`SlotInv`: one primary entry, first and without a number, a
  number for every other one).  Then appending an entry to what was read and pushing that moves
  nobody else (`AddedToSlots`), and the new number is one below the least, or the clamp's.

`ComplianceProofs`, for any sets of policies, devices, passes and reviewers, rests on `TypeCorrect`
(`Shapes`, what every field holds given the last id and the number of runs):

* `CapRespected`: `Spec => []WithinBatchCap`, and `WorkflowShared`: `Spec => []SharedWorkflowOnce`,
  under no condition, because a pass decides both from its own record.  `Own` says that the
  policies still to come have remediated nothing, that the policy at hand has remediated no more than was counted (`CapHeld`),
  and that each automatic violation names the run remembered for its workflow and device
  (`RunsShared`).
* `AlertsLimited`: `DailyAlertLimit` under `OnePass`, with alerts whose delivery and counts whose write
  fails at any time.  The counter a pass alerts by was read when it
  began; `Counters` says that it still is what was sent and counted today of every policy the pass has yet to alert
  on, and that an alert sent whose write is to come is one more.
* `LaunchesOnce`: `OneAutoLaunch` under `OnePass`, `QuietState` and no failure between the load and the
  save of the flags (`FailsAt`).  `LaunchedOnce` says that a pair already remediated needs no
  launch: it is flagged in the map of the pass that holds one, or in the saved map if none does, or its
  policy is gone.  `Quiet` says that whoever is about to save the flags knows what they are.
* `FlagsBacked`: `FlagsHaveRows` under `OnePass`, `QuietState` and no failure of the creation of the rows.
  `RowsBehind` follows a flag from the pass that sets it over the save to the rows, and over a
  deletion.

`CaseLifecycleProofs`, for any number of pairs, administrators, cases and requests.  `Calm`
names the handlers nobody overtakes, and each theorem asks for the one it needs:

* `OneCase`: `"evaluate" \in Calm => (Spec => []OneCasePerPair)`, and `ViolationsAreInOpenCases`:
  `ViolationsReachOpenCase` under the same condition.  `PassKnows` says of each await of the
  compliance pass what it has learnt (there is no open case of the pair; this is the closed one;
  there is none) and that it still holds.  Every other handler keeps to the frames `Aside` and
  `Respects`: it adds cases of no pair only, moves none to another pair and, while the pass
  searches, leaves the status of the cases of its pair alone.
* `ClosedAtAlwaysAgrees`: `"update" \in Calm => (Spec => []ClosedAtAgrees)`.  `UpdatesKnow`: the
  status an update has read is still the status it writes over.
* `NotifiedOnce`: `Spec => []NotifiedOncePerClock`, whoever overtakes whom.  The stamp is written
  before the notice (`StampedFirst`), every other handler leaves a clock as it is or starts the
  next one (`Clocked`), and so a clock the tick has read is unchanged, with its stamps, or over
  (`TickReads`).  A tick that is cut short leaves the stamp, so nobody repeats what it may have said.

The smaller parts, each for every value of its constants:

| Module | Theorem | The invariant it takes |
|---|---|---|
| `PlatformProofs` | `SerialsAreUnique`: `QuietCa => (CertSpec => []SerialsUnique)` | every number of an authority in a row or on its way to one is below the counter, and no two are equal |
| | `ActiveRowsAreHeld`: `CertSpec => []ActiveIsHeld` | `HeldInv`: while every answer reached the agent it waits for the one request that is at work; an active row is the agent's, or that request's; a request that fails after its row counts as a lost answer |
| | `TypeCorrect`; `NoFalseRecovery`: `AllBeatOnce => (JobSpec => RecoveryFollowsHeartbeat)`, an action property | a row that is marked alerted and is healthy, in the table or in what the monitor read of it, belongs to a job that has beaten since |
| | `LatestReportsAreKept`: `QuietRow => (AppSpec => []LatestReportIsKept)` | what the refresher has read of a row, or of the buffer, is still there, because the device's report is not handled meanwhile; a report being handled is the newest, held once its slot is written, and kept when it is answered |
| | `RowsAreTheirOwn`: `FullAnswers => (VulnSpec => []RowsTellTheirKey)` | what a refresh has asked about is the beginning of its batch, and its answers are about that, one each |
| `IngressProofs` | `MarkFollowsSender`: `OneSender => (Spec => []AlarmFollowsSender)` | until its call has marked the device the tool is right about the mark; from then on the mark is what the call means |
| | `ListsAdvance`: `Spec => ListsNeverGoBack`, an action property | only the pull callers join is running, and what it has read is no older than the list that is served |
| `JudgementProofs` | `ConditionsFit`: `Natural => (RuleSpec => []ConditionsFitTogether)` | none: a lemma per kind of comparison, versions of any length compared at the first place they differ |
| | `TypeCorrect`; `WorseScoresNoLower`, an action property | the source of the evidence does not change; each capped part of the sum grows with its findings |
| `SafetyProofs` | `NoEntryIsSkipped`: `SettledReads => (ExportSpec => []NothingSkipped)` | a batch that is being shipped is all the destination did not have when the log was last read, and what is stored since is newer than that |
| | `NothingIsLostUnmissed`: `SettledReads => (ExportSpec => []NothingLostUnmissed)` | a destination that lacks an entry has missed every tick begun since that has ended (`MissInv`); lemmas on the calendar (`DayOf`) turn retention into days |
| | `IdlePagesSignOut`: `SessionSpec => []IdlePageIsSignedOut` | the stamp is no younger than the last use of a page or the last answer that restarted a timer, and a check that let a page stay holds until time passes |
| | `AttendedPagesStay`: `SessionSpec => AttendedStaysSignedIn`, an action property | neither the stamp nor its timer is ahead of a page in use (`Keeps`); a login over an old stamp counts as no later use |

Only model-checked: liveness (`RunCompletes`, `FlagsConverge`, `BreachesAreNotified`,
`VerdictConverges`, `NoticesConverge`, `DeviceIsServed`, `AppsTurnOver`, `VerdictsStayNew`),
which the prover cannot reason about under fairness.  Every other property of a passing run is a theorem.
What the theorems ask for beyond the assumptions on the constants is what the run assumes as well
(the table above), and the instance of the run satisfies it.  `FleetCache` is reasoned about where it is
used, in `IngressProofs` and `PlatformProofs`.  The type invariant is a run's property only in
`DurableEngine`; that of `ComplianceEvaluation`, of `JobRunner` and of `RiskScore` are theorems.

## 5. Not modelled

The models cover the code that keeps state others depend on; by lines that is a small part
of the repository.  `PROJECT.json` gives the reason for each component left out.

* The frontend (over half of the implementation) but for the session: components and stores
  that show what the API returns and send what the user entered.
* Catalogues and their synchronisation, analytics, dashboards, reports, help: derived data,
  recomputed from what they read; a wrong answer lasts until the next computation.
* Roles, settings, credentials, configuration import and export: single rows
  written by one request, no step that waits for another.  Of authentication the life of a
  session is modelled, the check of a password or a token is not.
* Compliance markers (tags and smart attributes), the delivery of single audit entries to a
  syslog or webhook destination (sent once, never retried), automatic runs of cases, Play
  Integrity, the webhook receiver.
* The in-memory workflow engine and the dry run: they keep nothing by design.
* More than one replica: every module assumes one tick of each job at a time.

## 6. Plan

What is left, in order of importance to the system:

1. **Proofs.**  The promise with exceptions: a weaker `WorkflowRun` in which an outcome may be
   taken back, so that `RunPromise` says something of `MaxFaults > 0` too.  A theorem about two
   chains on one device: what of `Restorable` survives without `OneChain`.  The type invariants of
   `Ingress` and `FleetCache`, of which the proofs use parts (`CallTypes`, `ReportsInOrder`).
2. **Two replicas** of the job runner, and what the ticks of cases and of the resumer then do.
3. **Compliance markers** (a tag shared by two policies) and the approval by two reviewers, as
   extensions of `ComplianceEvaluation`.
4. **Counts read before a launch**: the hourly and per-device caps of automatic case runs, the
   token bucket of the calls to Applivery.
5. **Scheduled reports and the import of a configuration**, whose steps may stop half-way.
6. **A composition** of passes with `CaseLifecycle`, in which the pass's failure points and the
   case upsert meet.

The `violation` runs stay as regression checks of the five disagreements until the code, the
comments or the documents change.
