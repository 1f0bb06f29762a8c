---------------------------- MODULE DurableEngine ----------------------------
(***************************************************************************)
(* The durable (Postgres-backed) workflow engine: durableEngine.ts, the    *)
(* launch in workflows.service.ts and the script result reconciler.        *)
(*                                                                         *)
(* One run of one workflow over a list of devices.  A device's chain of    *)
(* steps is walked by an in-memory "chain"; at a wait the chain leaves a   *)
(* WorkflowPendingStep row behind and ends, and a later chain (started by  *)
(* the timer job, or by the reconciler through the row's token) carries on *)
(* from that row.  Every await between two database calls is a point where *)
(* other chains, a crash of the process or an exception may come in.       *)
(***************************************************************************)
EXTENDS Integers, Sequences, FiniteSets

CONSTANTS
  Devices,        \* device ids
  None,           \* no device
  Targets,        \* the launch's device list has this many entries
  DeviceOf,       \* the device of each entry of the list
  StepCount,      \* the workflow's steps are 1..StepCount, in order
  StepKind,       \* [1..StepCount -> {"action","invalid","wait","script"}]
  OnSuccess,      \* target of a step that succeeded, Unset for "the next one"
  OnFailure,      \* target of a step that failed
  HasRecovery,    \* the workflow has an enabled recovery policy
  RecoverySteps,  \* the length of the workflow's recovery.steps
  Restorable,     \* the "Run script" action steps with a restore script
  LogCap,         \* the loop guard of runDeviceStepChain (50 in the code)
  Concurrency,    \* WORKFLOW_RUN_CONCURRENCY (20 in the code)
  MaxRows,        \* bound: pending rows ever created
  MaxCrashes,     \* bound: process crashes
  MaxFaults,      \* bound: exceptions thrown by a database or network call
  MaxChanges,     \* bound: workflow deletions and credential changes
  ParkSettles,       \* no row is resumed before its parking wrote the result row
  AnswersInTime,     \* a script never answers once its row's timer fired
  AnswersAfterPark   \* a script never answers before its row exists

End   == 0
Unset == -1
Steps == 1..StepCount
Rows  == 1..MaxRows
Total == Targets

ASSUME ConfigAssumption ==
  /\ Devices # {} /\ IsFiniteSet(Devices) /\ None \notin Devices
  /\ Targets \in Nat \ {0} /\ DeviceOf \in [1..Targets -> Devices]
  /\ \A d \in Devices : \E i \in 1..Targets : DeviceOf[i] = d
  /\ StepCount \in Nat \ {0}
  /\ StepKind \in [Steps -> {"action", "invalid", "wait", "script"}]
  /\ OnSuccess \in [Steps -> Steps \cup {End, Unset}]
  /\ OnFailure \in [Steps -> Steps \cup {End}]
  /\ RecoverySteps \in Nat
  /\ Restorable \subseteq {s \in Steps : StepKind[s] = "action"}
  /\ LogCap \in Nat \ {0} /\ Concurrency \in Nat \ {0} /\ MaxRows \in Nat
  /\ MaxCrashes \in Nat /\ MaxFaults \in Nat /\ MaxChanges \in Nat
  /\ {HasRecovery, ParkSettles, AnswersInTime, AnswersAfterPark}
       \subseteq BOOLEAN

VARIABLES
  run,       \* the WorkflowRun row's status
  blob,      \* the results the finished run's log blob was written with
  results,   \* the WorkflowRunResult row of each device
  row,       \* WorkflowPendingStep rows
  tracking,  \* ScriptRunTracking rows, by the pending row their token names
  chain,     \* in-memory chains
  cursor,    \* executeWorkflowRunDurable's shared cursor
  workflowExists, credential,   \* what a resume needs
  crashes, faults, changes      \* bounds' counters

vars == <<run, blob, results, row, tracking, chain, cursor,
          workflowExists, credential, crashes, faults, changes>>
env  == <<workflowExists, credential, crashes, changes>>

(***************************************************************************)
(* Chains: one per entry of the device list, one per timer resume and one  *)
(* per token resume of a row, and the background task of the launch.       *)
(***************************************************************************)
Fresh(i) == <<"fresh", i>>
Timer(r) == <<"timer", r>>
Token(r) == <<"token", r>>
Launcher == <<"launch", 0>>
Chains == ({"fresh"} \X (1..Targets)) \cup ({"timer", "token"} \X Rows)
            \cup {Launcher}

Final    == {"success", "partial", "failed"}
Statuses == {"none", "waiting"} \cup Final
Entries  == [step : Steps \cup {End}, kind : {"step", "result", "recovery", "error"},
             ok : BOOLEAN]
StepEntry(s, ok) == [step |-> s, kind |-> "step", ok |-> ok]
Note(kind, ok)   == [step |-> End, kind |-> kind, ok |-> ok]

NoResults == [d \in Devices |-> "none"]
NoRow     == [stage |-> "unused", device |-> None, kind |-> "timer",
              next |-> End, onFailure |-> End, log |-> <<>>]
NoChain   == [stage |-> "idle", mode |-> "chain", device |-> None, at |-> End,
              log |-> <<>>, row |-> 0, seen |-> NoResults]

RowSet == [stage : {"unused", "reserved", "parked", "claimed", "deleted"},
           device : Devices \cup {None}, kind : {"timer", "script"},
           next : Steps \cup {End}, onFailure : Steps \cup {End},
           log : Seq(Entries)]
Stages   == {"idle", "fanout", "claimed", "reported", "taken", "step",
             "dispatched", "waiting", "finish", "read", "write", "cleanup",
             "ended"}
ChainSet == [stage : Stages, mode : {"chain", "caught", "refused"},
             device : Devices \cup {None}, at : Steps \cup {End},
             log : Seq(Entries), row : Rows \cup {0},
             seen : [Devices -> Statuses]]

Init ==
  /\ run = "absent" /\ blob = NoResults /\ results = NoResults
  /\ row = [r \in Rows |-> NoRow]
  /\ tracking = [r \in Rows |-> "none"]
  /\ chain = [c \in Chains |-> NoChain]
  /\ cursor = 1
  /\ workflowExists = TRUE /\ credential = TRUE
  /\ crashes = 0 /\ faults = 0 /\ changes = 0

(***************************************************************************)
(* Where a step leads: onSuccess, else the next step in order, else end;   *)
(* onFailure, else end.                                                    *)
(***************************************************************************)
SuccNoEnd(s, ok) ==   \* Variation: always the next step in order, the last one's too.
  IF ~ok THEN OnFailure[s] ELSE s + 1

Succ(s, ok) ==
  IF ~ok THEN OnFailure[s]
  ELSE IF OnSuccess[s] # Unset THEN OnSuccess[s]
  ELSE IF s < StepCount THEN s + 1 ELSE End

\* The chain's own verdict; a caught error or a refused resume is "failed".
Verdict(c) ==
  LET oks == {chain[c].log[k].ok : k \in DOMAIN chain[c].log} IN
  IF chain[c].mode # "chain" THEN "failed"
  ELSE IF FALSE \notin oks THEN "success"
  ELSE IF TRUE \in oks THEN "partial" ELSE "failed"

Running(device, at, log) ==
  [NoChain EXCEPT !.stage = "step", !.device = device, !.at = at, !.log = log]

\* What is left of a chain that returned: resumeOne still deletes its row.
Returned(c) == [NoChain EXCEPT !.stage = IF c[1] = "timer" THEN "cleanup" ELSE "ended"]

NextRow(r) == row[r].stage = "unused" /\ \A q \in Rows : q < r => row[q].stage # "unused"

---------------------------------------------------------------------------
(* launchWorkflowRun and executeWorkflowRunDurable *)

Launch ==
  /\ run = "absent"
  /\ run' = "running"
  /\ chain' = [chain EXCEPT ![Launcher].stage = "fanout"]
  /\ UNCHANGED <<blob, results, row, tracking, cursor, env, faults>>

StartFreshTwice(i) ==   \* Variation: the shared cursor is not advanced.
  /\ chain[Launcher].stage = "fanout" /\ cursor = i
  /\ chain[Fresh(i)].stage \in {"idle", "ended"}
  /\ chain' = [chain EXCEPT ![Fresh(i)] = Running(DeviceOf[i], 1, <<>>)]
  /\ UNCHANGED <<run, blob, results, row, tracking, cursor, env, faults>>

\* A free worker takes the next entry of the list.
StartFresh(i) ==
  /\ chain[Launcher].stage = "fanout"
  /\ cursor = i
  /\ Cardinality({j \in 1..Targets :
        chain[Fresh(j)].stage \notin {"idle", "ended"}}) < Concurrency
  /\ cursor' = cursor + 1
  /\ chain' = [chain EXCEPT ![Fresh(i)] = Running(DeviceOf[i], 1, <<>>)]
  /\ UNCHANGED <<run, blob, results, row, tracking, env, faults>>

\* Promise.all of the workers settled: a last finalizeRunIfDone.
FanoutDone ==
  /\ chain[Launcher].stage = "fanout"
  /\ cursor > Targets
  /\ \A i \in 1..Targets : chain[Fresh(i)].stage = "ended"
  /\ chain' = [chain EXCEPT ![Launcher].stage = "read"]
  /\ UNCHANGED <<run, blob, results, row, tracking, cursor, env, faults>>

---------------------------------------------------------------------------
(* runDeviceStepChain *)

MoreByOne(c) ==   \* Variation: <= in the while condition.
  chain[c].stage = "step" /\ chain[c].at # End /\ Len(chain[c].log) <= LogCap

\* The while condition: the log's length is the loop guard, carried over a park.
More(c) ==
  /\ chain[c].stage = "step"
  /\ chain[c].at # End
  /\ Len(chain[c].log) < LogCap

\* A step that runs and returns: any action, a step that cannot run, a script
\* that could not be dispatched.
RunStep(c) ==
  /\ More(c)
  /\ LET s == chain[c].at IN
     /\ StepKind[s] # "wait"
     /\ \E ok \in (IF StepKind[s] = "action" THEN BOOLEAN ELSE {FALSE}) :
          chain' = [chain EXCEPT ![c].log = Append(@, StepEntry(s, ok)),
                                 ![c].at  = Succ(s, ok)]
  /\ UNCHANGED <<run, blob, results, row, tracking, cursor, env, faults>>

\* What runRecoverySteps executes: the restore script of every entry of the log
\* that has one, then recovery.steps.
Recoveries(log) ==
  Cardinality({k \in DOMAIN log : log[k].kind = "step" /\ log[k].step \in Restorable})
    + RecoverySteps

\* The device no longer violates the recovery policy: the entries of the recovery
\* are pushed, all of them, and the loop is left.
Recover(c) ==
  /\ More(c) /\ HasRecovery
  /\ \E ok \in [1..Recoveries(chain[c].log) -> BOOLEAN] :
       chain' = [chain EXCEPT
         ![c].log = @ \o [k \in 1..Recoveries(@) |-> Note("recovery", ok[k])],
         ![c].at  = End, ![c].stage = "finish"]
  /\ UNCHANGED <<run, blob, results, row, tracking, cursor, env, faults>>

\* A wait step: the pending row is created, the result row is not yet written.
Park(c) ==
  /\ More(c) /\ StepKind[chain[c].at] = "wait"
  /\ \E r \in Rows :
       /\ NextRow(r)
       /\ LET log == Append(chain[c].log, StepEntry(chain[c].at, TRUE)) IN
          /\ row' = [row EXCEPT ![r] =
               [stage |-> "parked", device |-> chain[c].device, kind |-> "timer",
                next |-> Succ(chain[c].at, TRUE), onFailure |-> End, log |-> log]]
          /\ chain' = [chain EXCEPT ![c].stage = "waiting", ![c].log = log,
                                    ![c].row = r]
  /\ UNCHANGED <<run, blob, results, tracking, cursor, env, faults>>

\* A run_script_wait step: executeRunScript dispatches the script and records
\* the dispatch, best effort, before the pending row exists ("reserved").
Dispatch(c) ==
  /\ More(c) /\ StepKind[chain[c].at] = "script"
  /\ \E r \in Rows, recorded \in BOOLEAN :
       /\ NextRow(r)
       /\ recorded \/ faults < MaxFaults
       /\ faults' = IF recorded THEN faults ELSE faults + 1
       /\ tracking' = [tracking EXCEPT ![r] = IF recorded THEN "awaiting" ELSE "none"]
       /\ LET log == Append(chain[c].log, StepEntry(chain[c].at, TRUE)) IN
          /\ row' = [row EXCEPT ![r] =
               [stage |-> "reserved", device |-> chain[c].device, kind |-> "script",
                next |-> Succ(chain[c].at, TRUE),
                onFailure |-> Succ(chain[c].at, FALSE), log |-> log]]
          /\ chain' = [chain EXCEPT ![c].stage = "dispatched", ![c].log = log,
                                    ![c].row = r]
  /\ UNCHANGED <<run, blob, results, cursor, env>>

PersistScript(c) ==
  /\ chain[c].stage = "dispatched"
  /\ row' = [row EXCEPT ![chain[c].row].stage = "parked"]
  /\ chain' = [chain EXCEPT ![c].stage = "waiting"]
  /\ UNCHANGED <<run, blob, results, tracking, cursor, env, faults>>

\* upsertRunResult("waiting"), and the chain returns.
MarkWaiting(c) ==
  /\ chain[c].stage = "waiting"
  /\ results' = [results EXCEPT ![chain[c].device] = "waiting"]
  /\ chain' = [chain EXCEPT ![c] = Returned(c)]
  /\ UNCHANGED <<run, blob, row, tracking, cursor, env, faults>>

LoopExit(c) ==
  /\ chain[c].stage = "step" /\ ~More(c)
  /\ chain' = [chain EXCEPT ![c].stage = "finish"]
  /\ UNCHANGED <<run, blob, results, row, tracking, cursor, env, faults>>

\* upsertRunResult("done").
Finish(c) ==
  /\ chain[c].stage = "finish"
  /\ results' = [results EXCEPT ![chain[c].device] = Verdict(c)]
  /\ chain' = [chain EXCEPT ![c].stage = "read"]
  /\ UNCHANGED <<run, blob, row, tracking, cursor, env, faults>>

---------------------------------------------------------------------------
(* finalizeRunIfDone: reads the run and its results, then writes *)

AllReported ==   \* Variation: counts every result row, not the done ones.
  Cardinality({d \in Devices : results[d] # "none"}) >= Total
MoreThanAllDone ==   \* Variation: > for >=.
  Cardinality({d \in Devices : results[d] \in Final}) > Total
AllDone == Cardinality({d \in Devices : results[d] \in Final}) >= Total

FinalizeRead(c) ==
  /\ chain[c].stage = "read"
  /\ chain' = [chain EXCEPT ![c] =
       IF run # "completed" /\ AllDone
       THEN [@ EXCEPT !.stage = "write", !.seen = results]
       ELSE Returned(c)]
  /\ UNCHANGED <<run, blob, results, row, tracking, cursor, env, faults>>

FinalizeWrite(c) ==
  /\ chain[c].stage = "write"
  /\ run' = "completed"
  /\ blob' = chain[c].seen
  /\ chain' = [chain EXCEPT ![c] = Returned(c)]
  /\ UNCHANGED <<results, row, tracking, cursor, env, faults>>

---------------------------------------------------------------------------
(* resumeDueWorkflowSteps *)

\* The chain that parked row r also wrote its "waiting" result row.
Settled(r) == \A c \in Chains : ~(chain[c].stage = "waiting" /\ chain[c].row = r)

\* The atomic claim: UPDATE ... WHERE due AND claimedAt IS NULL.
ClaimDue(r) ==
  /\ row[r].stage = "parked"
  /\ ParkSettles => Settled(r)
  /\ AnswersInTime => chain[Token(r)].stage # "reported"
  /\ row' = [row EXCEPT ![r].stage = "claimed"]
  /\ chain' = [chain EXCEPT ![Timer(r)].stage = "claimed"]
  /\ UNCHANGED <<run, blob, results, tracking, cursor, env, faults>>

RestartedChain(r, at, log) ==   \* Variation: a resume starts from the first step.
  Running(row[r].device, 1, log)

\* The chain a resume of row r at step `at` continues with, or a refusal.
Resumed(r, at, log) ==
  IF workflowExists /\ credential
  THEN Running(row[r].device, at, log)
  ELSE [NoChain EXCEPT !.stage = "finish", !.mode = "refused",
          !.device = row[r].device, !.log = Append(log, Note("error", FALSE))]

TimerResume(r) ==
  /\ chain[Timer(r)].stage = "claimed"
  /\ chain' = [chain EXCEPT ![Timer(r)] =
       IF row[r].kind = "timer" THEN Resumed(r, row[r].next, row[r].log)
       ELSE Resumed(r, row[r].onFailure,
              IF workflowExists /\ credential
              THEN Append(row[r].log, Note("result", FALSE)) ELSE row[r].log)]
  /\ UNCHANGED <<run, blob, results, row, tracking, cursor, env, faults>>

\* The finally block.
Cleanup(r) ==
  /\ chain[Timer(r)].stage = "cleanup"
  /\ row' = [row EXCEPT ![r].stage = "deleted"]
  /\ chain' = [chain EXCEPT ![Timer(r)].stage = "ended"]
  /\ UNCHANGED <<run, blob, results, tracking, cursor, env, faults>>

---------------------------------------------------------------------------
(* runScriptLogReconcilerTick and resumeWorkflowPendingStepByToken *)

\* The script's counters moved, or the reconciler gave up: the outcome goes to
\* the audit log and the tracking row is deleted.
Report(r) ==
  /\ tracking[r] = "awaiting"
  /\ AnswersInTime => row[r].stage \in {"reserved", "parked"}
  /\ AnswersAfterPark => row[r].stage # "reserved"
  /\ \E outcome \in {"succeeded", "failed"} :
       tracking' = [tracking EXCEPT ![r] = outcome]
  /\ chain' = [chain EXCEPT ![Token(r)].stage = "reported"]
  /\ UNCHANGED <<run, blob, results, row, cursor, env, faults>>

ReadRow(r) ==   \* Variation: the row is read by its token, not deleted.
  /\ chain[Token(r)].stage = "reported" /\ (ParkSettles => Settled(r))
  /\ chain' = [chain EXCEPT ![Token(r)].stage =
       IF row[r].stage \in {"parked", "claimed"} THEN "taken" ELSE "ended"]
  /\ UNCHANGED <<run, blob, results, row, tracking, cursor, env, faults>>

\* DELETE ... WHERE pendingToken RETURNING: claimed or not, the row is taken.
TakeRow(r) ==
  /\ chain[Token(r)].stage = "reported"
  /\ ParkSettles => Settled(r)
  /\ IF row[r].stage \in {"parked", "claimed"}
     THEN /\ row' = [row EXCEPT ![r].stage = "deleted"]
          /\ chain' = [chain EXCEPT ![Token(r)].stage = "taken"]
     ELSE /\ chain' = [chain EXCEPT ![Token(r)].stage = "ended"]
          /\ UNCHANGED row
  /\ UNCHANGED <<run, blob, results, tracking, cursor, env, faults>>

TokenResume(r) ==
  /\ chain[Token(r)].stage = "taken"
  /\ LET ok == tracking[r] = "succeeded" IN
     chain' = [chain EXCEPT ![Token(r)] =
       Resumed(r, IF ok THEN row[r].next ELSE row[r].onFailure,
               Append(row[r].log, Note("result", ok)))]
  /\ UNCHANGED <<run, blob, results, row, tracking, cursor, env, faults>>

---------------------------------------------------------------------------
(* Exceptions, crashes and the environment *)

\* runDeviceStepChain's catch: an error entry, then upsert done/failed.
Caught(c) ==
  [chain[c] EXCEPT !.stage = "finish", !.mode = "caught",
                   !.log = Append(@, Note("error", FALSE))]

\* An awaited call throws.  Inside the chain's try it is caught once; the
\* catch's own writes are swallowed one by one; before the try of resumeOne, in
\* the token resume and in the launcher it ends the whole call.
Throw(c) ==
  /\ faults < MaxFaults
  /\ faults' = faults + 1
  /\ LET x == chain[c] IN
     \/ /\ x.mode = "chain" /\ c # Launcher
        /\ x.stage \in {"step", "dispatched", "waiting", "finish", "read", "write"}
        /\ chain' = [chain EXCEPT ![c] = Caught(c)]
     \/ /\ x.mode = "caught" /\ x.stage = "finish"
        /\ chain' = [chain EXCEPT ![c].stage = "read"]
     \/ /\ x.mode = "caught" /\ x.stage \in {"read", "write"}
        /\ chain' = [chain EXCEPT ![c] = Returned(c)]
     \/ /\ x.mode = "refused"
        /\ x.stage \in {"finish", "read", "write"}
        /\ chain' = [chain EXCEPT ![c] = Returned(c)]
     \/ /\ \/ x.stage \in {"claimed", "reported", "taken", "cleanup"}
           \/ (c = Launcher /\ x.stage \in {"read", "write"})
        /\ chain' = [chain EXCEPT ![c] = [NoChain EXCEPT !.stage = "ended"]]
  /\ UNCHANGED <<run, blob, results, row, tracking, cursor, env>>

\* The process dies: every chain in memory is gone, the database stays.
Crash ==
  /\ crashes < MaxCrashes
  /\ crashes' = crashes + 1
  /\ chain' = [c \in Chains |->
       IF chain[c].stage = "idle" THEN chain[c] ELSE [NoChain EXCEPT !.stage = "ended"]]
  /\ UNCHANGED <<run, blob, results, row, tracking, cursor,
                 workflowExists, credential, faults, changes>>

DeleteWorkflow ==
  /\ changes < MaxChanges /\ changes' = changes + 1
  /\ workflowExists /\ workflowExists' = FALSE
  /\ UNCHANGED <<run, blob, results, row, tracking, chain, cursor, credential,
                 crashes, faults>>

ChangeCredential ==
  /\ changes < MaxChanges /\ changes' = changes + 1
  /\ credential' = ~credential
  /\ UNCHANGED <<run, blob, results, row, tracking, chain, cursor,
                 workflowExists, crashes, faults>>

---------------------------------------------------------------------------
\* What a chain does by itself, as long as its awaited calls answer.
Advance(c) ==
  \/ RunStep(c) \/ Recover(c) \/ Park(c) \/ Dispatch(c) \/ PersistScript(c)
  \/ MarkWaiting(c) \/ LoopExit(c) \/ Finish(c)
  \/ FinalizeRead(c) \/ FinalizeWrite(c)

ResumeRow(r) == TimerResume(r) \/ Cleanup(r) \/ TakeRow(r) \/ TokenResume(r)

Next ==
  \/ Launch \/ FanoutDone \/ Crash \/ DeleteWorkflow \/ ChangeCredential
  \/ \E i \in 1..Targets : StartFresh(i)
  \/ \E c \in Chains : Advance(c) \/ Throw(c)
  \/ \E r \in Rows : ClaimDue(r) \/ ResumeRow(r) \/ Report(r)

Spec == Init /\ [][Next]_vars

\* The event loop runs every continuation whose awaited call answered, and the
\* resumer job ticks forever.  Scripts, faults and crashes owe nothing.
Fairness ==
  /\ WF_vars(FanoutDone) /\ WF_vars(\E i \in 1..Targets : StartFresh(i))
  /\ \A c \in Chains : WF_vars(Advance(c))
  /\ \A r \in Rows : WF_vars(ClaimDue(r)) /\ WF_vars(ResumeRow(r))

FairSpec == Spec /\ Fairness

---------------------------------------------------------------------------
(* Properties *)

\* Every row, chain and counter keeps its shape.
TypeOK ==
  /\ run \in {"absent", "running", "completed"}
  /\ blob \in [Devices -> Statuses]
  /\ results \in [Devices -> Statuses]
  /\ row \in [Rows -> RowSet]
  /\ tracking \in [Rows -> {"none", "awaiting", "succeeded", "failed"}]
  /\ chain \in [Chains -> ChainSet]
  /\ cursor \in 1..(Targets + 1)
  /\ workflowExists \in BOOLEAN /\ credential \in BOOLEAN
  /\ crashes \in 0..MaxCrashes /\ faults \in 0..MaxFaults
  /\ changes \in 0..MaxChanges

\* Where a chain must be, judging by its log alone.
Implied(log) ==
  IF log = <<>> THEN 1
  ELSE LET e == log[Len(log)] IN
       IF e.kind = "step" THEN Succ(e.step, e.ok)
       ELSE IF e.kind = "result" THEN Succ(log[Len(log) - 1].step, e.ok)
       ELSE End

\* A chain, however often it was parked, resumed or answered late, executes next
\* exactly the step the log it was persisted with leads to: no step is skipped
\* or repeated by a resume, and a script's outcome selects its branch.
AtFollowsLog ==
  \A c \in Chains : chain[c].stage = "step" => chain[c].at = Implied(chain[c].log)

\* The loop guard survives a park: however often a device's log is parked, resumed
\* or answered late, no step is executed past the cap and no script's result taken
\* beyond it, so a cyclic workflow ends.  (Only a recovery and an error, which end
\* the chain, write further entries.)
LogBounded ==
  /\ \A c \in Chains : \A k \in DOMAIN chain[c].log :
       /\ chain[c].log[k].kind = "step" => k <= LogCap
       /\ chain[c].log[k].kind = "result" => k <= LogCap + 1
  /\ \A r \in Rows : Len(row[r].log) <= LogCap

\* A run is only ever completed with a log blob in which every device has its
\* final status, however finalizations interleave with chains and with each other.
SnapshotComplete ==
  run = "completed" => \A d \in Devices : blob[d] \in Final

\* What may still act on device d: an entry of the list no worker took yet, a
\* chain in its loop, a resume on its way to the loop, and a parked row.
Carries(c, d) ==
  \/ c[1] = "fresh" /\ chain[c].stage = "idle" /\ DeviceOf[c[2]] = d
  \/ chain[c].stage \in {"step", "dispatched"} /\ chain[c].device = d
  \/ chain[c].stage \in {"claimed", "taken"} /\ row[c[2]].device = d
Holds(r, d) == row[r].stage = "parked" /\ row[r].device = d

\* A device has at most one continuation at any time: no two chains walk its
\* steps together, and no chain walks them while a row waits to be resumed.
OneContinuation ==
  \A d \in Devices :
    /\ \A b, c \in Chains : Carries(b, d) /\ Carries(c, d) => b = c
    /\ \A q, r \in Rows : Holds(q, d) /\ Holds(r, d) => q = r
    /\ \A c \in Chains, r \in Rows : ~(Carries(c, d) /\ Holds(r, d))

\* What a device looks like to a caller of the engine: its outcome once the
\* result row has one, parked while a row waits for it, else walked or not taken.
DeviceState ==
  [d \in Devices |->
     IF results[d] \in Final THEN results[d]
     ELSE IF \E r \in Rows : Holds(r, d) THEN "parked"
     ELSE IF \E i \in 1..Targets : DeviceOf[i] = d /\ i < cursor THEN "walking"
     ELSE "untaken"]

Promised == INSTANCE WorkflowRun WITH state <- DeviceState, log <- blob

\* The engine implements WorkflowRun: however fresh chains, timer and token
\* resumes and finalizations interleave, a device is walked by turns, its outcome
\* is given once and not overwritten by a late "waiting", and the run is completed
\* once, with exactly the outcomes of its devices.
RunPromise == Promised!Spec

\* Every launched run completes.
RunCompletes == run = "running" ~> run = "completed"

\* "picks resumable rows back up on its own schedule, so a run survives a process
\* restart mid-wait": a parked device gets its final status.
ParkedIsResumed ==
  \A r \in Rows : row[r].stage = "parked" ~>
    (row[r].stage # "unused" /\ results[row[r].device] \in Final)

\* "the fast path is script_log_reconciler_loop resolving pendingToken early and
\* deleting this row itself; if the timer-based resumer claims a 'script' row
\* instead, that always means timed out": not both resume the row.
TimedOutMeansUnresolved ==
  \A r \in Rows : chain[Timer(r)].stage \in {"claimed", "step", "dispatched"} =>
                  chain[Token(r)].stage \notin {"taken", "step", "dispatched"}
=============================================================================
