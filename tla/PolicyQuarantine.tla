--------------------------- MODULE PolicyQuarantine ---------------------------
(***************************************************************************)
(* The policy steps of a workflow on one device: policy_replace,           *)
(* policy_add, policy_restore and monitor (workflowSteps.ts), the push of  *)
(* a policy stack (applyDevicePolicies) and the shared pull of the fleet   *)
(* (getDevicesFull) through which every step reads the device.             *)
(*                                                                         *)
(* Chains of several workflows may act on the device at once.  Every await *)
(* is a point where another chain, another reader of the fleet or an       *)
(* administrator may come in, and where a call may fail.                   *)
(***************************************************************************)
EXTENDS Integers, Sequences, SequencesExt

CONSTANTS
  Chains,        \* the chains that act on the device
  Steps,         \* the steps a workflow may hold: [kind, policy]
  FirstStack,    \* the device's policies before any step
  EditedStacks,  \* what an administrator may reassign the device to
  NoPolicy,      \* the step names no policy
  MaxSteps,      \* bound: steps a chain runs
  MaxFaults,     \* bound: calls that fail
  MaxPulls,      \* bound: fleet pulls started by other requests
  MaxEdits,      \* bound: reassignments by an administrator
  QuietSteps,    \* an administrator never acts while a step is running
  FreshPulls     \* a step never joins a pull that has read the device already

VARIABLES
  stack,      \* the device's policies, as Applivery holds them
  snapshot,   \* the PolicyQuarantineEntry row of the device
  pull,       \* the pull in devicesFullInFlight, and the cached list
  chain,      \* the chains
  original,   \* history: the stack before the first quarantine step
  during,     \* history: the stacks the device had since the pull in flight began
  since,      \* history: the same, of the pull that served a chain's step
  faults, pulls, edits

vars == <<stack, snapshot, pull, chain, original, during, since, faults, pulls, edits>>

NoPrio == -1
Baseline == 100
PriorityStep == 10
PriorityMin == 0
PriorityMax == 10000

Policies   == {s.policy : s \in Steps} \cup {p.id : p \in Range(FirstStack)}
              \cup UNION {{p.id : p \in Range(e)} : e \in EditedStacks}
Entry(id, prio, primary) == [id |-> id, prio |-> prio, primary |-> primary]
StackSet   == Seq([id : Policies, prio : {NoPrio} \cup (PriorityMin..PriorityMax),
                   primary : BOOLEAN])
NoSnapshot == [kept |-> FALSE, policies |-> <<>>]
Kept(s)    == [kept |-> TRUE, policies |-> s]
NoPull     == [stage |-> "none", data |-> <<>>, cached |-> <<>>]
Idle(n)    == [stage |-> "idle", step |-> [kind |-> "none", policy |-> NoPolicy],
               data |-> <<>>, ran |-> n]
Kinds      == {"replace", "addTop", "addBottom", "restore", "monitor"}

ASSUME QuarantineAssumption ==
  /\ \A s \in Steps : s.kind \in Kinds
  /\ FirstStack \in StackSet /\ EditedStacks \subseteq StackSet
  /\ MaxSteps \in Nat /\ MaxFaults \in Nat /\ MaxPulls \in Nat /\ MaxEdits \in Nat
  /\ {QuietSteps, FreshPulls} \subseteq BOOLEAN

TypeOK ==
  /\ stack \in StackSet /\ original \in StackSet
  /\ snapshot.kept \in BOOLEAN /\ snapshot.policies \in StackSet
  /\ pull.stage \in {"none", "reading", "read"} /\ {pull.data, pull.cached} \subseteq StackSet
  /\ \A c \in Chains :
       /\ chain[c].stage \in {"idle", "pulling", "pulled", "create", "put", "judge",
                              "hasQuarantine", "lookup", "restorePut", "delete", "dead"}
       /\ chain[c].data \in StackSet /\ chain[c].ran \in 0..MaxSteps

Init ==
  /\ stack = FirstStack /\ original = FirstStack
  /\ snapshot = NoSnapshot /\ pull = NoPull
  /\ chain = [c \in Chains |-> Idle(0)]
  /\ during = {} /\ since = [c \in Chains |-> {}]
  /\ faults = 0 /\ pulls = 0 /\ edits = 0

---------------------------------------------------------------------------
(* Reading and pushing a stack *)

\* extractActivePolicies: the primary slot first, one entry per policy.
Active(s) ==
  LET first   == {k \in DOMAIN s : \A j \in 1..(k - 1) : s[j].id # s[k].id}
      upTo(k) == Cardinality({j \in first : j <= k})
  IN  [n \in 1..Cardinality(first) |-> s[CHOOSE k \in first : upTo(k) = n]]

AppliedInOrder(ps) ==   \* Variation: priorities follow the position.
  [k \in DOMAIN ps |-> Entry(ps[k].id, IF k = 1 THEN NoPrio ELSE k, k = 1)]

\* applyDevicePolicies: the flagged entry, else the first one, goes to the
\* primary slot, which has no priority; the others keep theirs.
Applied(ps) ==
  IF ps = <<>> THEN <<>>
  ELSE LET flagged == {k \in DOMAIN ps : ps[k].primary}
           lead    == IF flagged = {} THEN 1
                      ELSE CHOOSE k \in flagged : \A j \in flagged : k <= j
           rest    == RemoveAt(ps, lead)
       IN <<Entry(ps[lead].id, NoPrio, TRUE)>> \o
          [k \in DOMAIN rest |->
             Entry(rest[k].id, IF rest[k].prio = NoPrio THEN k ELSE rest[k].prio, FALSE)]

NumbersOf(ps) == {p.prio : p \in Range(ps)} \ {NoPrio}
Least(S)    == CHOOSE n \in S : \A m \in S : n <= m
Greatest(S) == CHOOSE n \in S : \A m \in S : n >= m

SamePriority(ps, kind) ==   \* Variation: the step of 10 is forgotten.
  IF NumbersOf(ps) = {} THEN Baseline
  ELSE IF kind = "addTop" THEN Least(NumbersOf(ps)) ELSE Greatest(NumbersOf(ps))

\* The priority executePolicyAddStep gives the new entry.
NewPriority(ps, kind) ==
  LET lowest  == IF NumbersOf(ps) = {} THEN Baseline ELSE Least(NumbersOf(ps))
      highest == IF NumbersOf(ps) = {} THEN Baseline ELSE Greatest(NumbersOf(ps))
  IN  IF kind = "addTop"
      THEN Greatest({PriorityMin, lowest - PriorityStep})
      ELSE Least({PriorityMax, highest + PriorityStep})

\* The stack a replace or add step pushes, from the one it read.
Pushed(c) ==
  LET step == chain[c].step IN
  IF step.kind = "replace" THEN <<Entry(step.policy, NoPrio, FALSE)>>
  ELSE Append(chain[c].data,
              Entry(step.policy, NewPriority(chain[c].data, step.kind), FALSE))

Push(ps) ==
  /\ stack' = Applied(ps)
  /\ during' = IF pull.stage = "none" THEN during ELSE during \cup {Active(stack')}

To(c, stage) == chain' = [chain EXCEPT ![c].stage = stage]
StepDone(c)  == chain' = [chain EXCEPT ![c] = Idle(chain[c].ran)]
Midway(c)    == chain[c].stage \notin {"idle", "dead"}

---------------------------------------------------------------------------
(* getDevicesFull: one pull at a time, shared by every caller *)

\* A step that reads the device starts a pull or joins the one in flight.
BeginRead(c) ==
  /\ chain[c].stage = "idle" /\ chain[c].ran < MaxSteps
  /\ FreshPulls => pull.stage # "read"
  /\ \E s \in {t \in Steps : t.kind # "restore"} :
       chain' = [chain EXCEPT ![c] = [stage |-> "pulling", step |-> s,
                                      data |-> <<>>, ran |-> @.ran + 1]]
  /\ during' = IF pull.stage = "none" THEN {Active(stack)} ELSE during
  /\ pull' = IF pull.stage = "none" THEN [pull EXCEPT !.stage = "reading"] ELSE pull
  /\ UNCHANGED <<stack, snapshot, original, since, faults, pulls, edits>>

\* The dashboard, the compliance scheduler or a device report pulls the fleet.
ForeignPull ==
  /\ pulls < MaxPulls /\ pulls' = pulls + 1
  /\ pull.stage = "none"
  /\ pull' = [pull EXCEPT !.stage = "reading"]
  /\ during' = {Active(stack)}
  /\ UNCHANGED <<stack, snapshot, chain, original, since, faults, edits>>

ReadsCached ==   \* Variation: the live cache is not bypassed.
  /\ pull.stage = "reading"
  /\ pull' = [pull EXCEPT !.stage = "read", !.data =
                 IF pull.cached = <<>> THEN Active(stack) ELSE pull.cached]
  /\ UNCHANGED <<stack, snapshot, chain, original, during, since, faults, pulls, edits>>

\* The device list is fetched; the enrichment that follows takes long.
PullReads ==
  /\ pull.stage = "reading"
  /\ pull' = [pull EXCEPT !.stage = "read", !.data = Active(stack)]
  /\ UNCHANGED <<stack, snapshot, chain, original, during, since, faults, pulls, edits>>

\* The promise settles: the result stays in the live cache.
PullReturns ==
  /\ pull.stage = "read"
  /\ pull' = [stage |-> "none", data |-> <<>>, cached |-> pull.data]
  /\ chain' = [c \in Chains |->
       IF chain[c].stage = "pulling"
       THEN [chain[c] EXCEPT !.stage = "pulled", !.data = pull.data] ELSE chain[c]]
  /\ since' = [c \in Chains |-> IF chain[c].stage = "pulling" THEN during ELSE since[c]]
  /\ during' = {}
  /\ UNCHANGED <<stack, snapshot, original, faults, pulls, edits>>

\* getFullDevice swallows the failure: the step of every waiting chain fails.
PullFails ==
  /\ pull.stage # "none"
  /\ faults < MaxFaults /\ faults' = faults + 1
  /\ pull' = [pull EXCEPT !.stage = "none", !.data = <<>>]
  /\ chain' = [c \in Chains |->
       IF chain[c].stage = "pulling" THEN Idle(chain[c].ran) ELSE chain[c]]
  /\ during' = {}
  /\ UNCHANGED <<stack, snapshot, original, since, pulls, edits>>

---------------------------------------------------------------------------
(* policy_replace and policy_add *)

\* snapshotPoliciesIfNeeded looks for the row ...
FindSnapshot(c) ==
  /\ chain[c].stage = "pulled" /\ chain[c].step.kind # "monitor"
  /\ To(c, IF snapshot.kept THEN "put" ELSE "create")
  /\ UNCHANGED <<stack, snapshot, pull, original, during, since, faults, pulls, edits>>

\* ... and creates it; the unique key makes the second creation throw, and the
\* chain's catch stops the chain.
CreateSnapshot(c) ==
  /\ chain[c].stage = "create"
  /\ IF snapshot.kept
     THEN To(c, "dead") /\ UNCHANGED snapshot
     ELSE snapshot' = Kept(chain[c].data) /\ To(c, "put")
  /\ UNCHANGED <<stack, pull, original, during, since, faults, pulls, edits>>

PutStack(c) ==
  /\ chain[c].stage = "put"
  /\ Push(Pushed(c))
  /\ StepDone(c)
  /\ UNCHANGED <<snapshot, pull, original, since, faults, pulls, edits>>

---------------------------------------------------------------------------
(* policy_restore *)

BeginRestore(c) ==
  /\ chain[c].stage = "idle" /\ chain[c].ran < MaxSteps
  /\ \E s \in {t \in Steps : t.kind = "restore"} :
       chain' = [chain EXCEPT ![c] = [stage |-> "lookup", step |-> s,
                                      data |-> <<>>, ran |-> @.ran + 1]]
  /\ UNCHANGED <<stack, snapshot, pull, original, during, since, faults, pulls, edits>>

LookupSnapshot(c) ==
  /\ chain[c].stage = "lookup"
  /\ chain' = [chain EXCEPT ![c] =
       IF snapshot.kept
       THEN [@ EXCEPT !.stage = "restorePut", !.data = snapshot.policies]
       ELSE Idle(@.ran)]
  /\ UNCHANGED <<stack, snapshot, pull, original, during, since, faults, pulls, edits>>

PutRestored(c) ==
  /\ chain[c].stage = "restorePut"
  /\ Push(chain[c].data)
  /\ To(c, "delete")
  /\ UNCHANGED <<snapshot, pull, original, since, faults, pulls, edits>>

\* Deleting a row that is gone throws.
DeleteSnapshot(c) ==
  /\ chain[c].stage = "delete"
  /\ IF snapshot.kept
     THEN snapshot' = NoSnapshot /\ StepDone(c)
     ELSE To(c, "dead") /\ UNCHANGED snapshot
  /\ UNCHANGED <<stack, pull, original, during, since, faults, pulls, edits>>

---------------------------------------------------------------------------
(* monitor *)

\* policyViolated on the device that was read; restoreOnCompliant is set.
Judge(c) ==
  /\ chain[c].stage = "pulled" /\ chain[c].step.kind = "monitor"
  /\ To(c, "judge")
  /\ UNCHANGED <<stack, snapshot, pull, original, during, since, faults, pulls, edits>>

StillViolating(c) ==
  /\ chain[c].stage = "judge"
  /\ StepDone(c)
  /\ UNCHANGED <<stack, snapshot, pull, original, during, since, faults, pulls, edits>>

\* Compliant again: the row is looked up, and again by the restore.
CompliantAgain(c) ==
  /\ chain[c].stage = "judge"
  /\ IF snapshot.kept THEN To(c, "lookup") ELSE StepDone(c)
  /\ UNCHANGED <<stack, snapshot, pull, original, during, since, faults, pulls, edits>>

---------------------------------------------------------------------------
(* Failures and the administrator *)

\* The push is refused (the step fails, the chain goes on) or the call throws
\* with or without having taken effect (the chain stops, as on a crash).
PutFails(c) ==
  /\ chain[c].stage \in {"put", "restorePut"}
  /\ faults < MaxFaults /\ faults' = faults + 1
  /\ \/ StepDone(c) /\ UNCHANGED <<stack, during>>
     \/ To(c, "dead") /\ UNCHANGED <<stack, during>>
     \/ /\ To(c, "dead")
        /\ Push(IF chain[c].stage = "put" THEN Pushed(c) ELSE chain[c].data)
  /\ UNCHANGED <<snapshot, pull, original, since, pulls, edits>>

\* A database call throws, or the process dies.
Dies(c) ==
  /\ Midway(c) /\ chain[c].stage \notin {"put", "restorePut"}
  /\ faults < MaxFaults /\ faults' = faults + 1
  /\ To(c, "dead")
  /\ UNCHANGED <<stack, snapshot, pull, original, during, since, pulls, edits>>

\* updateDevicePolicies, from the device modal; the cached list is dropped.
Reassign ==
  /\ edits < MaxEdits /\ edits' = edits + 1
  /\ QuietSteps => \A c \in Chains : ~Midway(c)
  /\ \E s \in EditedStacks : Push(s)
  /\ original' = IF snapshot.kept THEN original ELSE stack'
  /\ pull' = [pull EXCEPT !.cached = <<>>]
  /\ UNCHANGED <<snapshot, chain, since, faults, pulls>>

StepOf(c) ==
  \/ BeginRead(c) \/ FindSnapshot(c) \/ CreateSnapshot(c) \/ PutStack(c)
  \/ BeginRestore(c) \/ LookupSnapshot(c) \/ PutRestored(c) \/ DeleteSnapshot(c)
  \/ Judge(c) \/ StillViolating(c) \/ CompliantAgain(c)
  \/ PutFails(c) \/ Dies(c)

Next ==
  \/ ForeignPull \/ PullReads \/ PullReturns \/ PullFails \/ Reassign
  \/ \E c \in Chains : StepOf(c)

Spec == Init /\ [][Next]_vars

---------------------------------------------------------------------------
(* Properties *)

\* The way back is never lost: without a snapshot the device has its original
\* policies, and a snapshot holds exactly those ("put back exactly the policy
\* stack that was in place before the first quarantine step touched this
\* device").
Restorable ==
  IF snapshot.kept THEN snapshot.policies = Active(original) ELSE stack = original

\* A monitor step judges a state the device has had since the pull began that
\* the step started or joined, never an older cached one ("these decisions need
\* current state"; without FreshPulls that may be older than the step).
MonitorIsFresh ==
  \A c \in Chains : chain[c].stage = "judge" => chain[c].data \in since[c]

\* A policy_add step puts its policy alongside the others: none of the policies
\* on the device goes away, and none changes its priority or its slot.
AddKeepsOthers ==
  [][\A c \in Chains :
       chain[c].stage = "put" /\ chain[c].step.kind # "replace" /\ stack' # stack
       => Range(Active(stack)) \subseteq Range(stack')]_vars

\* A policy added on top gets a lower number than every numbered policy, but for
\* one that has the least number there is already.
TopOutranks ==
  [][\A c \in Chains :
       chain[c].stage = "put" /\ chain[c].step.kind = "addTop" /\ stack' # stack
       => \A n \in NumbersOf(Active(stack)) \ {PriorityMin} : stack'[Len(stack')].prio < n]_vars
=============================================================================
