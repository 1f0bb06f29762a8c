------------------------- MODULE DurableEngineProofs -------------------------
(***************************************************************************)
(* Safety theorems of the durable workflow engine, for every workflow,     *)
(* device list and bound: types, the log blob of a completed run, the one  *)
(* continuation of a device, the logs, and the engine as an implementation *)
(* of WorkflowRun.                                                         *)
(***************************************************************************)
EXTENDS DurableEngine, FiniteSetTheorems, TLAPS

USE DEF Rows, Steps, End, Unset

\* The chains of a list entry and of a row are chains.
LEMMA ChainIds ==
  /\ \A i \in 1..Targets : Fresh(i) \in Chains
  /\ \A r \in Rows : Timer(r) \in Chains /\ Token(r) \in Chains
  /\ Launcher \in Chains
BY DEF Fresh, Timer, Token, Launcher, Chains

\* A step leads to a step of the workflow or to its end.
LEMMA SuccType == \A s \in Steps, ok \in BOOLEAN : Succ(s, ok) \in Steps \cup {End}
BY ConfigAssumption DEF Succ, ConfigAssumption

\* Entries of the log, and what appending one gives.
LEMMA StepEntryType == \A s \in Steps, ok \in BOOLEAN : StepEntry(s, ok) \in Entries
BY Zenon DEF StepEntry, Entries

LEMMA NoteType ==
  \A k \in {"result", "recovery", "error"}, ok \in BOOLEAN : Note(k, ok) \in Entries
BY Zenon DEF Note, Entries

LEMMA AppendType ==
  \A log \in Seq(Entries), e \in Entries : Append(log, e) \in Seq(Entries)
OBVIOUS

LEMMA AppendStep ==
  \A log \in Seq(Entries), s \in Steps, ok \in BOOLEAN :
    Append(log, StepEntry(s, ok)) \in Seq(Entries)
BY Zenon, StepEntryType, AppendType

LEMMA AppendNote ==
  \A log \in Seq(Entries), k \in {"result", "recovery", "error"}, ok \in BOOLEAN :
    Append(log, Note(k, ok)) \in Seq(Entries)
BY Zenon, NoteType, AppendType

LEMMA BlankTypes ==
  /\ NoResults \in [Devices -> Statuses]
  /\ NoRow \in RowSet
  /\ NoChain \in ChainSet
<1>1. NoResults \in [Devices -> Statuses]
  BY DEF NoResults, Statuses
<1>2. NoRow \in RowSet
  BY DEF NoRow, RowSet
<1>3. NoChain \in ChainSet
  BY <1>1 DEF NoChain, ChainSet, Stages
<1>4. QED
  BY <1>1, <1>2, <1>3

\* Updating a field of a chain or a row within the field's type.
LEMMA ChainUpdate ==
  ASSUME NEW x \in ChainSet
  PROVE  /\ \A s \in Stages : [x EXCEPT !.stage = s] \in ChainSet
         /\ \A m \in {"chain", "caught", "refused"} : [x EXCEPT !.mode = m] \in ChainSet
         /\ \A d \in Devices \cup {None} : [x EXCEPT !.device = d] \in ChainSet
         /\ \A at \in Steps \cup {End} : [x EXCEPT !.at = at] \in ChainSet
         /\ \A log \in Seq(Entries) : [x EXCEPT !.log = log] \in ChainSet
         /\ \A r \in Rows \cup {0} : [x EXCEPT !.row = r] \in ChainSet
         /\ \A f \in [Devices -> Statuses] : [x EXCEPT !.seen = f] \in ChainSet
<1>1. \A s \in Stages : [x EXCEPT !.stage = s] \in ChainSet BY DEF ChainSet
<1>2. \A m \in {"chain", "caught", "refused"} : [x EXCEPT !.mode = m] \in ChainSet
  BY DEF ChainSet
<1>3. \A d \in Devices \cup {None} : [x EXCEPT !.device = d] \in ChainSet BY DEF ChainSet
<1>4. \A at \in Steps \cup {End} : [x EXCEPT !.at = at] \in ChainSet BY DEF ChainSet
<1>5. \A log \in Seq(Entries) : [x EXCEPT !.log = log] \in ChainSet BY DEF ChainSet
<1>6. \A r \in Rows \cup {0} : [x EXCEPT !.row = r] \in ChainSet BY DEF ChainSet
<1>7. \A f \in [Devices -> Statuses] : [x EXCEPT !.seen = f] \in ChainSet BY DEF ChainSet
<1>8. QED
  BY <1>1, <1>2, <1>3, <1>4, <1>5, <1>6, <1>7

LEMMA RowUpdate ==
  \A x \in RowSet, s \in {"unused", "reserved", "parked", "claimed", "deleted"} :
    [x EXCEPT !.stage = s] \in RowSet
BY DEF RowSet

LEMMA StageTypes ==
  {"idle", "fanout", "claimed", "reported", "taken", "step", "dispatched", "waiting",
   "finish", "read", "write", "cleanup", "ended"} \subseteq Stages
BY DEF Stages

\* The chain a resume or a worker starts.
LEMMA RunningType ==
  ASSUME NEW d \in Devices \cup {None}, NEW at \in Steps \cup {End}, NEW log \in Seq(Entries)
  PROVE  Running(d, at, log) \in ChainSet
BY ChainUpdate, BlankTypes, StageTypes DEF Running

LEMMA ReturnedType ==
  /\ \A c \in Chains : Returned(c) \in ChainSet
  /\ [NoChain EXCEPT !.stage = "ended"] \in ChainSet
BY ChainUpdate, BlankTypes, StageTypes DEF Returned

LEMMA CaughtType ==
  ASSUME NEW c, chain[c] \in ChainSet
  PROVE  Caught(c) \in ChainSet
<1>1. chain[c].log \in Seq(Entries)
  BY DEF ChainSet
<1>2. Append(chain[c].log, Note("error", FALSE)) \in Seq(Entries)
  BY <1>1, AppendNote, Zenon
<1>3. [chain[c] EXCEPT !.stage = "finish"] \in ChainSet
  BY ChainUpdate, StageTypes
<1>4. [[chain[c] EXCEPT !.stage = "finish"] EXCEPT !.mode = "caught"] \in ChainSet
  BY <1>3, ChainUpdate
<1>5. [[chain[c] EXCEPT !.stage = "finish"] EXCEPT !.mode = "caught"].log = chain[c].log
  BY DEF ChainSet
<1>6. QED
  BY <1>2, <1>4, <1>5, ChainUpdate DEF Caught

LEMMA ResumedType ==
  ASSUME TypeOK, NEW r \in Rows, NEW at \in Steps \cup {End}, NEW log \in Seq(Entries)
  PROVE  Resumed(r, at, log) \in ChainSet
<1>1. row[r].device \in Devices \cup {None}
  BY DEF TypeOK, RowSet
<1>2. Append(log, Note("error", FALSE)) \in Seq(Entries)
  BY AppendNote, Zenon
<1>3. Running(row[r].device, at, log) \in ChainSet
  BY <1>1, RunningType
<1>4. [NoChain EXCEPT !.stage = "finish", !.mode = "refused",
          !.device = row[r].device, !.log = Append(log, Note("error", FALSE))] \in ChainSet
  BY <1>1, <1>2, BlankTypes, ChainUpdate, StageTypes
<1>5. QED
  BY <1>3, <1>4 DEF Resumed

\* The verdict of a chain is a final status.
LEMMA VerdictType == \A c : Verdict(c) \in Final
BY DEF Verdict, Final

\* Assigning one chain or one row.
LEMMA AssignType ==
  /\ \A f \in [Chains -> ChainSet], c \in Chains, x \in ChainSet :
       [f EXCEPT ![c] = x] \in [Chains -> ChainSet]
  /\ \A f \in [Rows -> RowSet], r \in Rows, x \in RowSet :
       [f EXCEPT ![r] = x] \in [Rows -> RowSet]
OBVIOUS

\* A recovery leaves the loop with the log it had, and entries of its own after it.
LEMMA RecoverEffect ==
  ASSUME NEW c \in Chains, chain \in [Chains -> ChainSet], Recover(c)
  PROVE  \E log \in Seq(Entries) :
           /\ chain' = [chain EXCEPT ![c] =
                [chain[c] EXCEPT !.log = log, !.at = End, !.stage = "finish"]]
           /\ \A k \in DOMAIN log : IF k <= Len(chain[c].log) THEN log[k] = chain[c].log[k]
                                     ELSE log[k].kind = "recovery"
<1> DEFINE old == chain[c].log
           n == Recoveries(old)
           set == {k \in DOMAIN old : old[k].kind = "step" /\ old[k].step \in Restorable}
<1>1. old \in Seq(Entries) /\ Len(old) \in Nat /\ DOMAIN old = 1..Len(old)
  BY DEF ChainSet
<1>2. n \in Nat
  <2>1. IsFiniteSet(1..Len(old)) /\ set \subseteq 1..Len(old)
    BY <1>1, FS_Interval
  <2>2. Cardinality(set) \in Nat
    BY <2>1, FS_Subset, FS_CardinalityType
  <2>3. n = Cardinality(set) + RecoverySteps
    BY DEF Recoveries
  <2>4. QED
    BY <2>2, <2>3, ConfigAssumption DEF ConfigAssumption
<1>3. PICK ok \in [1..n -> BOOLEAN] :
        chain' = [chain EXCEPT
          ![c].log = old \o [k \in 1..n |-> Note("recovery", ok[k])],
          ![c].at  = End, ![c].stage = "finish"]
  BY DEF Recover
<1> DEFINE notes == [k \in 1..n |-> Note("recovery", ok[k])]
           log == old \o notes
<1>4. chain' = [chain EXCEPT ![c] =
                  [chain[c] EXCEPT !.log = log, !.at = End, !.stage = "finish"]]
  BY <1>3
<1> HIDE DEF old, n
<1>5. /\ \A k \in 1..n : notes[k] \in Entries /\ notes[k].kind = "recovery"
      /\ DOMAIN notes = 1..n
  <2>1. ASSUME NEW k \in 1..n PROVE notes[k] \in Entries /\ notes[k].kind = "recovery"
    <3>1. ok[k] \in BOOLEAN /\ notes[k] = Note("recovery", ok[k])
      BY <1>3, <2>1
    <3>2. Note("recovery", ok[k]).kind = "recovery"
      BY DEF Note
    <3>3. QED
      BY <3>1, <3>2, NoteType
  <2>2. QED
    BY <2>1
<1> HIDE DEF notes
<1>6. notes \in Seq(Entries) /\ Len(notes) = n
  <2>1. notes = [k \in 1..n |-> notes[k]]
    BY DEF notes
  <2>2. notes \in [1..n -> Entries]
    BY <1>5, <2>1
  <2>3. QED
    BY <1>2, <1>5, <2>2
<1>7. /\ log \in Seq(Entries) /\ Len(log) = Len(old) + n /\ DOMAIN log = 1..Len(log)
      /\ \A k \in 1..Len(log) : log[k] = IF k <= Len(old) THEN old[k] ELSE notes[k - Len(old)]
  <2>1. log \in Seq(Entries)
    BY <1>1, <1>6
  <2>2. Len(log) = Len(old) + n
    BY <1>1, <1>6
  <2>3. \A k \in 1..(Len(old) + n) : log[k] = IF k <= Len(old) THEN old[k] ELSE notes[k - Len(old)]
    BY <1>1, <1>6
  <2> HIDE DEF log
  <2>4. QED
    BY <2>1, <2>2, <2>3
<1> HIDE DEF log
<1>8. \A k \in DOMAIN log : IF k <= Len(old) THEN log[k] = old[k]
                                                ELSE log[k].kind = "recovery"
  BY <1>1, <1>2, <1>5, <1>7
<1>9. QED
  BY <1>4, <1>7, <1>8 DEF old

\* Every variable keeps its type, whatever the workflow, the device list and the
\* bounds.
THEOREM TypeCorrect == Spec => []TypeOK
<1>1. Init => TypeOK
  BY BlankTypes, ConfigAssumption DEF Init, TypeOK, ConfigAssumption
<1>2. TypeOK /\ [Next]_vars => TypeOK'
  <2> SUFFICES ASSUME TypeOK, [Next]_vars PROVE TypeOK'
    OBVIOUS
  <2>0. /\ chain \in [Chains -> ChainSet] /\ row \in [Rows -> RowSet]
        /\ \A c \in Chains : chain[c] \in ChainSet
        /\ \A r \in Rows : row[r] \in RowSet
    BY DEF TypeOK
  <2>1. CASE Launch
    <3>1. chain' \in [Chains -> ChainSet]
      BY <2>0, <2>1, ChainIds, ChainUpdate, StageTypes, AssignType DEF Launch
    <3>2. QED
      BY <2>1, <3>1 DEF Launch, TypeOK, env
  <2>2. CASE FanoutDone
    <3>1. chain' \in [Chains -> ChainSet]
      BY <2>0, <2>2, ChainIds, ChainUpdate, StageTypes, AssignType DEF FanoutDone
    <3>2. QED
      BY <2>2, <3>1 DEF FanoutDone, TypeOK, env
  <2>3. CASE Crash
    <3>1. chain' \in [Chains -> ChainSet]
      BY <2>0, <2>3, ReturnedType DEF Crash
    <3>2. crashes \in 0..MaxCrashes /\ MaxCrashes \in Nat
      BY ConfigAssumption DEF TypeOK, ConfigAssumption
    <3>3. crashes < MaxCrashes /\ crashes' = crashes + 1
      BY <2>3, Zenon DEF Crash
    <3>4. crashes' \in 0..MaxCrashes
      BY <3>2, <3>3
    <3>5. QED
      BY <2>3, <3>1, <3>4 DEF Crash, TypeOK
  <2>4. CASE DeleteWorkflow
    <3>1. changes' \in 0..MaxChanges
      BY <2>4, ConfigAssumption DEF DeleteWorkflow, TypeOK, ConfigAssumption
    <3>2. QED
      BY <2>4, <3>1 DEF DeleteWorkflow, TypeOK
  <2>5. CASE ChangeCredential
    <3>1. changes' \in 0..MaxChanges
      BY <2>5, ConfigAssumption DEF ChangeCredential, TypeOK, ConfigAssumption
    <3>2. credential' \in BOOLEAN
      BY <2>5 DEF ChangeCredential
    <3>3. QED
      BY <2>5, <3>1, <3>2 DEF ChangeCredential, TypeOK
  <2>6. ASSUME NEW i \in 1..Targets, StartFresh(i) PROVE TypeOK'
    <3>1. Running(DeviceOf[i], 1, <<>>) \in ChainSet
      <4>1. DeviceOf[i] \in Devices /\ 1 \in Steps /\ <<>> \in Seq(Entries)
        BY ConfigAssumption DEF ConfigAssumption
      <4>2. QED
        BY <4>1, RunningType
    <3>2. chain' \in [Chains -> ChainSet]
      BY <2>0, <2>6, <3>1, ChainIds, AssignType DEF StartFresh
    <3>3. cursor' \in 1..(Targets + 1)
      BY <2>6, ConfigAssumption DEF StartFresh, TypeOK, ConfigAssumption
    <3>4. QED
      BY <2>6, <3>2, <3>3 DEF StartFresh, TypeOK, env
  <2>7. ASSUME NEW c \in Chains, Advance(c) PROVE TypeOK'
    <3> DEFINE x == chain[c]
    <3>0. /\ x \in ChainSet /\ x.log \in Seq(Entries) /\ x.at \in Steps \cup {End}
          /\ More(c) => x.at \in Steps
          /\ x.device \in Devices \cup {None} /\ x.seen \in [Devices -> Statuses]
      BY <2>0 DEF ChainSet, More
    <3>1. CASE RunStep(c)
      <4>1. PICK ok \in BOOLEAN :
              chain' = [chain EXCEPT ![c] =
                [x EXCEPT !.log = Append(x.log, StepEntry(x.at, ok)), !.at = Succ(x.at, ok)]]
        BY <2>0, <3>1 DEF RunStep
      <4>2. /\ Append(x.log, StepEntry(x.at, ok)) \in Seq(Entries)
            /\ Succ(x.at, ok) \in Steps \cup {End}
        BY <3>0, <3>1, SuccType, AppendStep, Zenon DEF RunStep
      <4>3. [x EXCEPT !.log = Append(x.log, StepEntry(x.at, ok)), !.at = Succ(x.at, ok)]
              \in ChainSet
        BY <3>0, <4>2, ChainUpdate
      <4>4. chain' \in [Chains -> ChainSet]
        BY <2>0, <4>1, <4>3, AssignType
      <4>5. QED
        BY <3>1, <4>4 DEF RunStep, TypeOK, env
    <3>2. CASE Recover(c)
      <4>1. PICK log \in Seq(Entries) :
              chain' = [chain EXCEPT ![c] =
                [x EXCEPT !.log = log, !.at = End, !.stage = "finish"]]
        BY <2>0, <3>2, RecoverEffect
      <4>2. [x EXCEPT !.log = log, !.at = End] \in ChainSet
        BY <3>0, ChainUpdate
      <4>3. [[x EXCEPT !.log = log, !.at = End] EXCEPT !.stage = "finish"] \in ChainSet
        BY <4>2, ChainUpdate, StageTypes
      <4>4. chain' \in [Chains -> ChainSet]
        BY <2>0, <4>1, <4>3, AssignType
      <4>5. QED
        BY <3>2, <4>4 DEF Recover, TypeOK, env
    <3>3. CASE Park(c)
      <4> DEFINE log == Append(x.log, StepEntry(x.at, TRUE))
                 parked == [stage |-> "parked", device |-> x.device, kind |-> "timer",
                            next |-> Succ(x.at, TRUE), onFailure |-> End, log |-> log]
      <4>1. PICK r \in Rows :
              /\ row' = [row EXCEPT ![r] = parked]
              /\ chain' = [chain EXCEPT ![c] =
                   [x EXCEPT !.stage = "waiting", !.log = log, !.row = r]]
        BY <2>0, <3>3 DEF Park
      <4>2. log \in Seq(Entries) /\ Succ(x.at, TRUE) \in Steps \cup {End}
        BY <3>0, <3>3, SuccType, AppendStep, Zenon DEF Park
      <4>3. parked \in RowSet
        BY <3>0, <4>2 DEF RowSet
      <4> HIDE DEF log, parked
      <4>4. [x EXCEPT !.stage = "waiting", !.log = log, !.row = r] \in ChainSet
        BY <3>0, <4>2, ChainUpdate, StageTypes
      <4>5. chain' \in [Chains -> ChainSet] /\ row' \in [Rows -> RowSet]
        BY <2>0, <4>1, <4>3, <4>4, AssignType
      <4>6. QED
        BY <3>3, <4>5 DEF Park, TypeOK, env
    <3>4. CASE Dispatch(c)
      <4> DEFINE log == Append(x.log, StepEntry(x.at, TRUE))
                 reserved == [stage |-> "reserved", device |-> x.device, kind |-> "script",
                              next |-> Succ(x.at, TRUE), onFailure |-> Succ(x.at, FALSE),
                              log |-> log]
      <4>1. /\ log \in Seq(Entries) /\ Succ(x.at, TRUE) \in Steps \cup {End}
            /\ Succ(x.at, FALSE) \in Steps \cup {End}
        BY <3>0, <3>4, SuccType, AppendStep, Zenon DEF Dispatch
      <4>2. reserved \in RowSet
        BY <3>0, <4>1 DEF RowSet
      <4> HIDE DEF log, reserved
      <4>3. PICK r \in Rows, recorded \in BOOLEAN :
              /\ recorded \/ faults < MaxFaults
              /\ faults' = IF recorded THEN faults ELSE faults + 1
              /\ tracking' = [tracking EXCEPT ![r] =
                                IF recorded THEN "awaiting" ELSE "none"]
              /\ row' = [row EXCEPT ![r] = reserved]
              /\ chain' = [chain EXCEPT ![c].stage = "dispatched", ![c].log = log,
                                        ![c].row = r]
        BY <3>4, Zenon DEF Dispatch, log, reserved
      <4>4. chain' = [chain EXCEPT ![c] =
                   [x EXCEPT !.stage = "dispatched", !.log = log, !.row = r]]
        BY <2>0, <4>3
      <4>5. [x EXCEPT !.stage = "dispatched", !.log = log, !.row = r] \in ChainSet
        BY <3>0, <4>1, ChainUpdate, StageTypes
      <4>6. chain' \in [Chains -> ChainSet] /\ row' \in [Rows -> RowSet]
        BY <2>0, <4>2, <4>3, <4>4, <4>5, AssignType
      <4>7. faults' \in 0..MaxFaults
        <5>1. faults \in 0..MaxFaults /\ MaxFaults \in Nat
          BY ConfigAssumption DEF TypeOK, ConfigAssumption
        <5>2. faults' = faults \/ (faults < MaxFaults /\ faults' = faults + 1)
          BY <4>3
        <5>3. QED
          BY <5>1, <5>2
      <4>8. tracking' \in [Rows -> {"none", "awaiting", "succeeded", "failed"}]
        BY <4>3 DEF TypeOK
      <4>9. QED
        BY <3>4, <4>6, <4>7, <4>8 DEF Dispatch, TypeOK, env
    <3>5. CASE PersistScript(c)
      <4>1. row' \in [Rows -> RowSet]
        BY <2>0, <3>5, RowUpdate DEF PersistScript
      <4>2. chain' \in [Chains -> ChainSet]
        BY <2>0, <3>5, ChainUpdate, StageTypes, AssignType DEF PersistScript
      <4>3. QED
        BY <3>5, <4>1, <4>2 DEF PersistScript, TypeOK, env
    <3>6. CASE MarkWaiting(c)
      <4>1. results' \in [Devices -> Statuses]
        BY <3>6 DEF MarkWaiting, TypeOK, Statuses
      <4>2. chain' \in [Chains -> ChainSet]
        BY <2>0, <3>6, ReturnedType, AssignType DEF MarkWaiting
      <4>3. QED
        BY <3>6, <4>1, <4>2 DEF MarkWaiting, TypeOK, env
    <3>7. CASE LoopExit(c)
      <4>1. chain' \in [Chains -> ChainSet]
        BY <2>0, <3>7, ChainUpdate, StageTypes, AssignType DEF LoopExit
      <4>2. QED
        BY <3>7, <4>1 DEF LoopExit, TypeOK, env
    <3>8. CASE Finish(c)
      <4>1. results' \in [Devices -> Statuses]
        BY <3>8, VerdictType DEF Finish, TypeOK, Statuses
      <4>2. chain' \in [Chains -> ChainSet]
        BY <2>0, <3>8, ChainUpdate, StageTypes, AssignType DEF Finish
      <4>3. QED
        BY <3>8, <4>1, <4>2 DEF Finish, TypeOK, env
    <3>9. CASE FinalizeRead(c)
      <4>1. [x EXCEPT !.stage = "write", !.seen = results] \in ChainSet
        BY <3>0, ChainUpdate, StageTypes DEF TypeOK
      <4>2. chain' \in [Chains -> ChainSet]
        BY <2>0, <3>9, <4>1, ReturnedType, AssignType DEF FinalizeRead
      <4>3. QED
        BY <3>9, <4>2 DEF FinalizeRead, TypeOK, env
    <3>10. CASE FinalizeWrite(c)
      <4>1. chain' \in [Chains -> ChainSet]
        BY <2>0, <3>10, ReturnedType, AssignType DEF FinalizeWrite
      <4>2. blob' \in [Devices -> Statuses]
        BY <3>0, <3>10 DEF FinalizeWrite
      <4>3. QED
        BY <3>10, <4>1, <4>2 DEF FinalizeWrite, TypeOK, env
    <3>11. QED
      BY <2>7, <3>1, <3>2, <3>3, <3>4, <3>5, <3>6, <3>7, <3>8, <3>9, <3>10 DEF Advance
  <2>8. ASSUME NEW c \in Chains, Throw(c) PROVE TypeOK'
    <3> DEFINE x == chain[c]
    <3>1. faults' \in 0..MaxFaults
      BY <2>8, ConfigAssumption DEF Throw, TypeOK, ConfigAssumption
    <3>2. PICK y \in ChainSet : chain' = [chain EXCEPT ![c] = y]
      <4>1. [x EXCEPT !.stage = "read"] \in ChainSet
        BY <2>0, ChainUpdate, StageTypes
      <4>2. Caught(c) \in ChainSet /\ Returned(c) \in ChainSet
            /\ [NoChain EXCEPT !.stage = "ended"] \in ChainSet
        BY <2>0, CaughtType, ReturnedType
      <4>3. QED
        BY <2>0, <2>8, <4>1, <4>2 DEF Throw
    <3>3. chain' \in [Chains -> ChainSet]
      BY <2>0, <3>2, AssignType
    <3>4. QED
      BY <2>8, <3>1, <3>3 DEF Throw, TypeOK, env
  <2>9. ASSUME NEW r \in Rows, ClaimDue(r) PROVE TypeOK'
    <3>1. chain' \in [Chains -> ChainSet] /\ row' \in [Rows -> RowSet]
      BY <2>0, <2>9, ChainIds, ChainUpdate, RowUpdate, StageTypes, AssignType DEF ClaimDue
    <3>2. QED
      BY <2>9, <3>1 DEF ClaimDue, TypeOK, env
  <2>10. ASSUME NEW r \in Rows, ResumeRow(r) PROVE TypeOK'
    <3>0. /\ row[r].next \in Steps \cup {End} /\ row[r].onFailure \in Steps \cup {End}
          /\ row[r].log \in Seq(Entries)
      BY <2>0 DEF RowSet
    <3>1. CASE TimerResume(r)
      <4>1. Append(row[r].log, Note("result", FALSE)) \in Seq(Entries)
        BY <3>0, AppendNote, Zenon
      <4>2. PICK y \in ChainSet : chain' = [chain EXCEPT ![Timer(r)] = y]
        BY <3>0, <3>1, <4>1, ResumedType DEF TimerResume
      <4>3. chain' \in [Chains -> ChainSet]
        BY <2>0, <4>2, ChainIds, AssignType
      <4>4. QED
        BY <3>1, <4>3 DEF TimerResume, TypeOK, env
    <3>2. CASE Cleanup(r)
      <4>1. chain' \in [Chains -> ChainSet] /\ row' \in [Rows -> RowSet]
        BY <2>0, <3>2, ChainIds, ChainUpdate, RowUpdate, StageTypes, AssignType DEF Cleanup
      <4>2. QED
        BY <3>2, <4>1 DEF Cleanup, TypeOK, env
    <3>3. CASE TakeRow(r)
      <4>1. \A s \in Stages :
              [chain EXCEPT ![Token(r)].stage = s] \in [Chains -> ChainSet]
        BY <2>0, ChainIds, ChainUpdate, AssignType
      <4>2. [row EXCEPT ![r].stage = "deleted"] \in [Rows -> RowSet]
        BY <2>0, RowUpdate, AssignType
      <4>3. chain' \in [Chains -> ChainSet] /\ row' \in [Rows -> RowSet]
        BY <2>0, <3>3, <4>1, <4>2, StageTypes DEF TakeRow
      <4>4. QED
        BY <3>3, <4>3 DEF TakeRow, TypeOK, env
    <3>4. CASE TokenResume(r)
      <4> DEFINE ok == tracking[r] = "succeeded"
                 log == Append(row[r].log, Note("result", ok))
      <4>1. log \in Seq(Entries)
        <5>1. ok \in BOOLEAN
          OBVIOUS
        <5> HIDE DEF ok
        <5>2. QED
          BY <3>0, <5>1, AppendNote, Zenon
      <4>2. chain' = [chain EXCEPT ![Token(r)] =
                        Resumed(r, IF ok THEN row[r].next ELSE row[r].onFailure, log)]
        BY <3>4 DEF TokenResume
      <4> HIDE DEF log, ok
      <4>3. PICK y \in ChainSet : chain' = [chain EXCEPT ![Token(r)] = y]
        BY <3>0, <4>1, <4>2, ResumedType
      <4>4. chain' \in [Chains -> ChainSet]
        BY <2>0, <4>3, ChainIds, AssignType
      <4>5. QED
        BY <3>4, <4>4 DEF TokenResume, TypeOK, env
    <3>5. QED
      BY <2>10, <3>1, <3>2, <3>3, <3>4 DEF ResumeRow
  <2>11. ASSUME NEW r \in Rows, Report(r) PROVE TypeOK'
    <3>1. chain' \in [Chains -> ChainSet]
      BY <2>0, <2>11, ChainIds, ChainUpdate, StageTypes, AssignType DEF Report
    <3>2. tracking' \in [Rows -> {"none", "awaiting", "succeeded", "failed"}]
      BY <2>11 DEF Report, TypeOK
    <3>3. QED
      BY <2>11, <3>1, <3>2 DEF Report, TypeOK, env
  <2>12. CASE UNCHANGED vars
    BY <2>12 DEF vars, TypeOK
  <2>13. QED
    BY <2>1, <2>2, <2>3, <2>4, <2>5, <2>6, <2>7, <2>8, <2>9, <2>10, <2>11, <2>12 DEF Next
<1>3. QED
  BY <1>1, <1>2, PTL DEF Spec

---------------------------------------------------------------------------
(***************************************************************************)
(* The log blob of a completed run.                                        *)
(***************************************************************************)

\* The list has an entry for every device, so there are at most Total devices.
LEMMA DeviceBound == Cardinality(Devices) <= Total /\ IsFiniteSet(Devices)
<1>1. DeviceOf \in Surjection(1..Targets, Devices)
  BY ConfigAssumption DEF ConfigAssumption, Surjection
<1>2. ExistsSurjection(1..Targets, Devices)
  BY <1>1 DEF ExistsSurjection
<1>3. QED
  BY <1>2, FS_SurjCardinalityBound, ConfigAssumption DEF ConfigAssumption, Total

\* Total final results are the results of all devices.
LEMMA AllDoneIsAll == AllDone => \A d \in Devices : results[d] \in Final
<1> DEFINE done == {d \in Devices : results[d] \in Final}
<1>1. done \in SUBSET Devices
  OBVIOUS
<1>2. /\ IsFiniteSet(done) /\ Cardinality(done) <= Cardinality(Devices)
      /\ Cardinality(Devices) = Cardinality(done) => Devices = done
  BY <1>1, DeviceBound, FS_Subset, Zenon
<1>3. Cardinality(done) \in Nat /\ Cardinality(Devices) \in Nat
  BY <1>2, DeviceBound, FS_CardinalityType
<1>4. Total \in Nat
  BY ConfigAssumption DEF ConfigAssumption, Total
<1>5. ASSUME AllDone PROVE Devices = done
  <2>1. Cardinality(done) >= Total
    BY <1>5 DEF AllDone
  <2>2. Cardinality(Devices) = Cardinality(done)
    BY <1>2, <1>3, <1>4, <2>1, DeviceBound
  <2>3. QED
    BY <1>2, <2>2
<1>6. QED
  BY <1>5

\* A finalization that is about to write saw every device final, and so did the
\* one that wrote.
SnapshotInv ==
  /\ \A c \in Chains : chain[c].stage = "write" =>
                      \A d \in Devices : chain[c].seen[d] \in Final
  /\ run = "completed" => \A d \in Devices : blob[d] \in Final

\* No step but the read of a finalization makes a chain ready to write.
NoNewWriter == \A c \in Chains : chain'[c].stage = "write" => chain'[c] = chain[c]

LEMMA OtherSteps ==
  ASSUME TypeOK, [Next]_vars,
         \A c \in Chains : ~FinalizeRead(c) /\ ~FinalizeWrite(c)
  PROVE  NoNewWriter /\ UNCHANGED blob /\ (run' = "completed" => run = "completed")
<1>0. /\ chain \in [Chains -> ChainSet]
      /\ \A c \in Chains : [NoChain EXCEPT !.stage = "ended"].stage = "ended"
                          /\ Returned(c).stage # "write"
                          /\ Caught(c).stage # "write"
  <2>1. chain \in [Chains -> ChainSet]
    BY DEF TypeOK
  <2>2. [NoChain EXCEPT !.stage = "ended"].stage = "ended"
    BY DEF NoChain
  <2>3. \A c \in Chains : Returned(c).stage # "write"
    BY DEF Returned, NoChain
  <2>4. \A c \in Chains : Caught(c).stage # "write"
    BY <2>1 DEF Caught, ChainSet
  <2>5. QED
    BY <2>1, <2>2, <2>3, <2>4
<1>00. \A d, at, log : Running(d, at, log).stage = "step"
  BY DEF Running, NoChain
<1>01. \A r, at, log : Resumed(r, at, log).stage # "write"
  BY <1>00 DEF Resumed, NoChain
<1>1. CASE Launch
  BY <1>0, <1>1, ChainIds DEF Launch, NoNewWriter, ChainSet
<1>2. CASE FanoutDone
  BY <1>0, <1>2, ChainIds DEF FanoutDone, NoNewWriter, ChainSet
<1>3. CASE Crash
  BY <1>0, <1>3 DEF Crash, NoNewWriter
<1>4. CASE DeleteWorkflow \/ ChangeCredential \/ UNCHANGED vars
  BY <1>0, <1>4 DEF DeleteWorkflow, ChangeCredential, vars, NoNewWriter
<1>5. ASSUME NEW i \in 1..Targets, StartFresh(i)
      PROVE  NoNewWriter /\ UNCHANGED blob /\ (run' = "completed" => run = "completed")
  BY <1>0, <1>00, <1>5, ChainIds DEF StartFresh, NoNewWriter
<1>6. ASSUME NEW c \in Chains, Advance(c)
      PROVE  NoNewWriter /\ UNCHANGED blob /\ (run' = "completed" => run = "completed")
  <2>1. CASE RunStep(c) \/ Recover(c) \/ Park(c) \/ Dispatch(c)
    <3>1. chain[c].stage = "step" /\ UNCHANGED <<blob, run>>
      BY <2>1 DEF RunStep, Recover, Park, Dispatch, More
    <3>2. chain'[c].stage # "write" /\ \A b \in Chains \ {c} : chain'[b] = chain[b]
      <4>1. CASE RunStep(c)
        BY <1>0, <3>1, <4>1 DEF RunStep, ChainSet
      <4>2. CASE Recover(c)
        <5>1. PICK log \in Seq(Entries) :
                chain' = [chain EXCEPT ![c] =
                  [chain[c] EXCEPT !.log = log, !.at = End, !.stage = "finish"]]
          BY <1>0, <4>2, RecoverEffect
        <5>2. QED
          BY <1>0, <5>1 DEF ChainSet
      <4>3. CASE Park(c)
        BY <1>0, <3>1, <4>3 DEF Park, ChainSet
      <4>4. CASE Dispatch(c)
        BY <1>0, <3>1, <4>4 DEF Dispatch, ChainSet
      <4>5. QED
        BY <2>1, <4>1, <4>2, <4>3, <4>4
    <3>3. QED
      BY <3>1, <3>2 DEF NoNewWriter
  <2>2. CASE PersistScript(c)
    BY <1>0, <2>2 DEF PersistScript, NoNewWriter, ChainSet
  <2>3. CASE MarkWaiting(c)
    BY <1>0, <2>3 DEF MarkWaiting, NoNewWriter
  <2>4. CASE LoopExit(c)
    BY <1>0, <2>4 DEF LoopExit, NoNewWriter, ChainSet
  <2>5. CASE Finish(c)
    BY <1>0, <2>5 DEF Finish, NoNewWriter, ChainSet
  <2>6. QED
    BY <1>6, <2>1, <2>2, <2>3, <2>4, <2>5 DEF Advance
<1>7. ASSUME NEW c \in Chains, Throw(c)
      PROVE  NoNewWriter /\ UNCHANGED blob /\ (run' = "completed" => run = "completed")
  <2>1. [chain[c] EXCEPT !.stage = "read"].stage = "read"
    BY <1>0 DEF ChainSet
  <2>2. QED
    BY <1>0, <1>7, <2>1 DEF Throw, NoNewWriter
<1>8. ASSUME NEW r \in Rows, ClaimDue(r) \/ ResumeRow(r) \/ Report(r)
      PROVE  NoNewWriter /\ UNCHANGED blob /\ (run' = "completed" => run = "completed")
  <2>1. CASE ClaimDue(r)
    BY <1>0, <2>1, ChainIds DEF ClaimDue, NoNewWriter, ChainSet
  <2>2. CASE TimerResume(r)
    BY <1>0, <1>01, <2>2, ChainIds DEF TimerResume, NoNewWriter
  <2>3. CASE Cleanup(r)
    BY <1>0, <2>3, ChainIds DEF Cleanup, NoNewWriter, ChainSet
  <2>4. CASE TakeRow(r)
    BY <1>0, <2>4, ChainIds DEF TakeRow, NoNewWriter, ChainSet
  <2>5. CASE TokenResume(r)
    BY <1>0, <1>01, <2>5, ChainIds DEF TokenResume, NoNewWriter
  <2>6. CASE Report(r)
    BY <1>0, <2>6, ChainIds DEF Report, NoNewWriter, ChainSet
  <2>7. QED
    BY <1>8, <2>1, <2>2, <2>3, <2>4, <2>5, <2>6 DEF ResumeRow
<1>9. QED
  BY <1>1, <1>2, <1>3, <1>4, <1>5, <1>6, <1>7, <1>8 DEF Next

\* A completed run's log blob has the final status of every device, whatever
\* crashes, exceptions, late answers and racing finalizations came before.
THEOREM SnapshotsComplete == Spec => []SnapshotComplete
<1>1. Init => SnapshotInv
  BY DEF Init, SnapshotInv, NoChain
<1>2. TypeOK /\ SnapshotInv /\ [Next]_vars => SnapshotInv'
  <2> SUFFICES ASSUME TypeOK, SnapshotInv, [Next]_vars PROVE SnapshotInv'
    OBVIOUS
  <2>1. ASSUME NEW c \in Chains, FinalizeRead(c) PROVE SnapshotInv'
    <3>1. Returned(c).stage # "write" /\ chain \in [Chains -> ChainSet]
      BY DEF Returned, NoChain, TypeOK
    <3>2. /\ [chain[c] EXCEPT !.stage = "write", !.seen = results].seen = results
      BY <3>1 DEF ChainSet
    <3>3. chain'[c].stage = "write" => \A d \in Devices : chain'[c].seen[d] \in Final
      BY <2>1, <3>1, <3>2, AllDoneIsAll DEF FinalizeRead
    <3>4. /\ \A b \in Chains \ {c} : chain'[b] = chain[b]
          /\ UNCHANGED <<run, blob>>
      BY <2>1, <3>1 DEF FinalizeRead
    <3>5. QED
      BY <3>3, <3>4 DEF SnapshotInv
  <2>2. ASSUME NEW c \in Chains, FinalizeWrite(c) PROVE SnapshotInv'
    <3>1. Returned(c).stage # "write" /\ chain \in [Chains -> ChainSet]
      BY DEF Returned, NoChain, TypeOK
    <3>2. /\ \A b \in Chains \ {c} : chain'[b] = chain[b]
          /\ chain'[c].stage # "write"
          /\ blob' = chain[c].seen /\ chain[c].stage = "write"
      BY <2>2, <3>1 DEF FinalizeWrite
    <3>3. QED
      BY <3>2 DEF SnapshotInv
  <2>3. CASE \A c \in Chains : ~FinalizeRead(c) /\ ~FinalizeWrite(c)
    BY <2>3, OtherSteps DEF SnapshotInv, NoNewWriter
  <2>4. QED
    BY <2>1, <2>2, <2>3
<1>3. SnapshotInv => SnapshotComplete
  BY DEF SnapshotInv, SnapshotComplete
<1>4. QED
  BY <1>1, <1>2, <1>3, TypeCorrect, PTL DEF Spec

---------------------------------------------------------------------------
(***************************************************************************)
(* What the actions change.                                                *)
(***************************************************************************)

\* Chains of different kinds differ, and so do chains of one kind.
LEMMA ChainShapes ==
  /\ \A i \in 1..Targets : Fresh(i)[1] = "fresh" /\ Fresh(i)[2] = i
  /\ \A r \in Rows : /\ Timer(r)[1] = "timer" /\ Timer(r)[2] = r
                     /\ Token(r)[1] = "token" /\ Token(r)[2] = r
  /\ Launcher[1] = "launch"
  /\ \A c \in Chains : \/ c = Launcher
                       \/ \E i \in 1..Targets : c = Fresh(i)
                       \/ \E r \in Rows : c = Timer(r) \/ c = Token(r)
BY DEF Fresh, Timer, Token, Launcher, Chains

\* What is left of a chain, and what starts one.
LEMMA ReturnedStage ==
  ASSUME NEW c \in Chains
  PROVE  /\ Returned(c).stage \in {"cleanup", "ended"}
         /\ c[1] # "timer" => Returned(c).stage = "ended"
BY DEF Returned, NoChain

LEMMA StoppedStage == [NoChain EXCEPT !.stage = "ended"].stage = "ended"
BY DEF NoChain

LEMMA RunningStage ==
  ASSUME NEW d, NEW at, NEW log
  PROVE  Running(d, at, log).stage = "step" /\ Running(d, at, log).device = d
BY DEF Running, NoChain

LEMMA ResumedStage ==
  ASSUME NEW r, NEW at, NEW log
  PROVE  Resumed(r, at, log).stage \in {"step", "finish"} /\ Resumed(r, at, log).device = row[r].device
<1>1. CASE workflowExists /\ credential
  BY <1>1, RunningStage DEF Resumed
<1>2. CASE ~(workflowExists /\ credential)
  BY <1>2 DEF Resumed, NoChain
<1>3. QED
  BY <1>1, <1>2

\* A chain in its loop stays in it, or leaves it with the device it had.
LEMMA LoopEffect ==
  ASSUME TypeOK, NEW c \in Chains, RunStep(c) \/ Recover(c) \/ LoopExit(c)
  PROVE  /\ chain[c].stage = "step" /\ UNCHANGED <<row, tracking, cursor, results>>
         /\ \E y : /\ chain' = [chain EXCEPT ![c] = y] /\ y.stage \in {"step", "finish"}
                   /\ y.device = chain[c].device
<1>0. chain \in [Chains -> ChainSet] /\ chain[c] \in ChainSet
  BY DEF TypeOK
<1>1. chain[c].stage = "step" /\ UNCHANGED <<row, tracking, cursor, results>>
  BY DEF RunStep, Recover, LoopExit, More
<1>2. CASE RunStep(c)
  <2>1. PICK log, at :
          chain' = [chain EXCEPT ![c] = [chain[c] EXCEPT !.log = log, !.at = at]]
    <3>1. PICK ok \in BOOLEAN :
            chain' = [chain EXCEPT ![c] =
              [chain[c] EXCEPT !.log = Append(chain[c].log, StepEntry(chain[c].at, ok)),
                               !.at = Succ(chain[c].at, ok)]]
      BY <1>0, <1>2 DEF RunStep
    <3>2. QED
      BY <3>1
  <2>2. /\ [chain[c] EXCEPT !.log = log, !.at = at].stage = "step"
        /\ [chain[c] EXCEPT !.log = log, !.at = at].device = chain[c].device
    BY <1>0, <1>1 DEF ChainSet
  <2>3. QED
    BY <1>1, <2>1, <2>2
<1>21. CASE Recover(c)
  <2>1. PICK log \in Seq(Entries) :
          chain' = [chain EXCEPT ![c] =
            [chain[c] EXCEPT !.log = log, !.at = End, !.stage = "finish"]]
    BY <1>0, <1>21, RecoverEffect
  <2> DEFINE y == [chain[c] EXCEPT !.log = log, !.at = End, !.stage = "finish"]
  <2>2. y.stage = "finish" /\ y.device = chain[c].device
    BY <1>0 DEF ChainSet
  <2> HIDE DEF y
  <2>3. QED
    BY <1>1, <2>1, <2>2 DEF y
<1>3. CASE LoopExit(c)
  <2>1. chain' = [chain EXCEPT ![c] = [chain[c] EXCEPT !.stage = "finish"]]
    BY <1>0, <1>3 DEF LoopExit
  <2>2. /\ [chain[c] EXCEPT !.stage = "finish"].stage = "finish"
        /\ [chain[c] EXCEPT !.stage = "finish"].device = chain[c].device
    BY <1>0 DEF ChainSet
  <2>3. QED
    BY <1>1, <2>1, <2>2
<1>4. QED
  BY <1>2, <1>21, <1>3

\* The writes at a chain's end.
LEMMA EndEffect ==
  ASSUME TypeOK, NEW c \in Chains,
         MarkWaiting(c) \/ Finish(c) \/ FinalizeRead(c) \/ FinalizeWrite(c)
  PROVE  /\ chain[c].stage \in {"waiting", "finish", "read", "write"}
         /\ UNCHANGED <<row, tracking, cursor>>
         /\ \E y : /\ chain' = [chain EXCEPT ![c] = y]
                   /\ y.stage \in {"read", "write", "cleanup", "ended"}
<1>0. chain \in [Chains -> ChainSet] /\ chain[c] \in ChainSet
  BY DEF TypeOK
<1>1. /\ [chain[c] EXCEPT !.stage = "write", !.seen = results].stage = "write"
      /\ [chain[c] EXCEPT !.stage = "read"].stage = "read"
      /\ Returned(c).stage \in {"cleanup", "ended"}
  BY <1>0, ReturnedStage DEF ChainSet
<1>2. \/ chain' = [chain EXCEPT ![c] = Returned(c)]
      \/ chain' = [chain EXCEPT ![c] = [chain[c] EXCEPT !.stage = "read"]]
      \/ chain' = [chain EXCEPT ![c] = [chain[c] EXCEPT !.stage = "write", !.seen = results]]
  BY <1>0 DEF MarkWaiting, Finish, FinalizeRead, FinalizeWrite
<1>3. /\ chain[c].stage \in {"waiting", "finish", "read", "write"}
      /\ UNCHANGED <<row, tracking, cursor>>
  BY DEF MarkWaiting, Finish, FinalizeRead, FinalizeWrite
<1>4. QED
  BY <1>1, <1>2, <1>3

LEMMA ThrowEffect ==
  ASSUME TypeOK, NEW c \in Chains, Throw(c)
  PROVE  /\ chain[c].stage # "idle" /\ UNCHANGED <<row, tracking, cursor>>
         /\ \E y : /\ chain' = [chain EXCEPT ![c] = y]
                   /\ y.stage \in {"finish", "read", "cleanup", "ended"}
<1>0. chain \in [Chains -> ChainSet] /\ chain[c] \in ChainSet
  BY DEF TypeOK
<1>1. /\ [chain[c] EXCEPT !.stage = "read"].stage = "read" /\ Caught(c).stage = "finish"
      /\ Returned(c).stage \in {"cleanup", "ended"} /\ [NoChain EXCEPT !.stage = "ended"].stage = "ended"
  BY <1>0, ReturnedStage, StoppedStage DEF ChainSet, Caught
<1>2. \/ chain' = [chain EXCEPT ![c] = Caught(c)]
      \/ chain' = [chain EXCEPT ![c] = [chain[c] EXCEPT !.stage = "read"]]
      \/ chain' = [chain EXCEPT ![c] = Returned(c)]
      \/ chain' = [chain EXCEPT ![c] = [NoChain EXCEPT !.stage = "ended"]]
  BY <1>0 DEF Throw
<1>3. chain[c].stage # "idle" /\ UNCHANGED <<row, tracking, cursor>>
  BY DEF Throw
<1>4. QED
  BY <1>1, <1>2, <1>3

\* What a wait changes: a new row, and the chain that left it.
LEMMA ParkEffect ==
  ASSUME TypeOK, NEW c \in Chains, Park(c)
  PROVE  \E r \in Rows :
            /\ NextRow(r)
            /\ row'[r].stage = "parked" /\ row'[r].device = chain[c].device
            /\ \A q \in Rows \ {r} : row'[q] = row[q]
            /\ chain'[c].stage = "waiting" /\ chain'[c].row = r /\ chain'[c].device = chain[c].device
            /\ \A b \in Chains \ {c} : chain'[b] = chain[b]
            /\ UNCHANGED <<tracking, cursor, results>>
<1> DEFINE x == chain[c]
           log == Append(x.log, StepEntry(x.at, TRUE))
           parked == [stage |-> "parked", device |-> x.device, kind |-> "timer",
                      next |-> Succ(x.at, TRUE), onFailure |-> End, log |-> log]
           y(r) == [x EXCEPT !.stage = "waiting", !.log = log, !.row = r]
<1>1. PICK r \in Rows :
        /\ NextRow(r)
        /\ row' = [row EXCEPT ![r] = parked]
        /\ chain' = [chain EXCEPT ![c] = y(r)]
  BY DEF Park, TypeOK
<1>2. /\ parked.stage = "parked" /\ parked.device = chain[c].device
      /\ y(r).stage = "waiting" /\ y(r).row = r /\ y(r).device = chain[c].device
  BY DEF TypeOK, ChainSet
<1>3. UNCHANGED <<tracking, cursor, results>>
  BY DEF Park
<1>4. row \in [Rows -> RowSet] /\ chain \in [Chains -> ChainSet]
  BY DEF TypeOK
<1> HIDE DEF parked, y
<1>5. QED
  BY <1>1, <1>2, <1>3, <1>4

\* What the dispatch of a script changes.
LEMMA DispatchEffect ==
  ASSUME TypeOK, NEW c \in Chains, Dispatch(c)
  PROVE  \E r \in Rows :
            /\ NextRow(r)
            /\ row'[r].stage = "reserved" /\ row'[r].device = chain[c].device
            /\ \A q \in Rows \ {r} : row'[q] = row[q] /\ tracking'[q] = tracking[q]
            /\ chain'[c].stage = "dispatched" /\ chain'[c].row = r /\ chain'[c].device = chain[c].device
            /\ \A b \in Chains \ {c} : chain'[b] = chain[b]
            /\ UNCHANGED <<cursor, results>>
<1> DEFINE x == chain[c]
           log == Append(x.log, StepEntry(x.at, TRUE))
           reserved == [stage |-> "reserved", device |-> x.device, kind |-> "script",
                        next |-> Succ(x.at, TRUE), onFailure |-> Succ(x.at, FALSE), log |-> log]
           y(r) == [x EXCEPT !.stage = "dispatched", !.log = log, !.row = r]
<1>1. PICK r \in Rows, recorded \in BOOLEAN :
        /\ NextRow(r)
        /\ row' = [row EXCEPT ![r] = reserved]
        /\ tracking' = [tracking EXCEPT ![r] = IF recorded THEN "awaiting" ELSE "none"]
        /\ chain' = [chain EXCEPT ![c] = y(r)]
  <2>1. \A r : [chain EXCEPT ![c].stage = "dispatched", ![c].log = log, ![c].row = r]
                = [chain EXCEPT ![c] = y(r)]
    BY DEF TypeOK
  <2>2. PICK r \in Rows, recorded \in BOOLEAN :
          /\ NextRow(r)
          /\ row' = [row EXCEPT ![r] = reserved]
          /\ tracking' = [tracking EXCEPT ![r] = IF recorded THEN "awaiting" ELSE "none"]
          /\ chain' = [chain EXCEPT ![c].stage = "dispatched", ![c].log = log, ![c].row = r]
    BY Zenon DEF Dispatch
  <2>3. QED
    BY <2>1, <2>2
<1>2. /\ reserved.stage = "reserved" /\ reserved.device = chain[c].device
      /\ y(r).stage = "dispatched" /\ y(r).row = r /\ y(r).device = chain[c].device
  BY DEF TypeOK, ChainSet
<1>3. UNCHANGED <<cursor, results>>
  BY DEF Dispatch
<1>4. row \in [Rows -> RowSet] /\ chain \in [Chains -> ChainSet] /\ DOMAIN tracking = Rows
  BY DEF TypeOK
<1> HIDE DEF reserved, y
<1>5. QED
  BY <1>1, <1>2, <1>3, <1>4

\* A resume starts a chain of the row's device, or one that refuses it.
LEMMA ResumeEffect ==
  ASSUME TypeOK, NEW r \in Rows, NEW c \in Chains,
         (c = Timer(r) /\ TimerResume(r)) \/ (c = Token(r) /\ TokenResume(r))
  PROVE  /\ chain[c].stage \in {"claimed", "taken"} /\ c[2] = r
         /\ UNCHANGED <<row, tracking, cursor, results>>
         /\ \E y : /\ chain' = [chain EXCEPT ![c] = y] /\ y.stage \in {"step", "finish"}
                   /\ y.device = row[r].device
<1>1. \E at, log : chain' = [chain EXCEPT ![c] = Resumed(r, at, log)]
  <2>1. TimerResume(r) => \E at, log : chain' = [chain EXCEPT ![Timer(r)] = Resumed(r, at, log)]
    BY DEF TimerResume
  <2>2. TokenResume(r) => \E at, log : chain' = [chain EXCEPT ![Token(r)] = Resumed(r, at, log)]
    BY DEF TokenResume
  <2>3. QED
    BY <2>1, <2>2
<1>2. \A at, log : /\ Resumed(r, at, log).stage \in {"step", "finish"}
                   /\ Resumed(r, at, log).device = row[r].device
  BY ResumedStage
<1>3. chain[c].stage \in {"claimed", "taken"} /\ UNCHANGED <<row, tracking, cursor, results>>
  BY DEF TimerResume, TokenResume
<1>4. c[2] = r
  BY ChainShapes
<1>5. PICK at, log : chain' = [chain EXCEPT ![c] = Resumed(r, at, log)]
  BY <1>1
<1>6. \E y : /\ chain' = [chain EXCEPT ![c] = y] /\ y.stage \in {"step", "finish"}
             /\ y.device = row[r].device
  BY <1>2, <1>5
<1>7. QED
  BY <1>3, <1>4, <1>6

---------------------------------------------------------------------------
(***************************************************************************)
(* One continuation per device.                                            *)
(***************************************************************************)

\* No device is listed twice, and no script answers once its row's timer fired:
\* that is assumed, or there is no script.
InTime ==
  /\ \A i, j \in 1..Targets : DeviceOf[i] = DeviceOf[j] => i = j
  /\ AnswersInTime \/ \A s \in Steps : StepKind[s] # "script"

\* How far a row has come, judging by the chains that act on it.
RowsFollow ==
  /\ AnswersInTime \/ \A r \in Rows : tracking[r] = "none"
  /\ \A c \in Chains : chain[c].stage = "dispatched" =>
       /\ chain[c].row \in Rows /\ row[chain[c].row].stage = "reserved"
       /\ row[chain[c].row].device = chain[c].device
  /\ \A b, c \in Chains :
       chain[b].stage = "dispatched" /\ chain[c].stage = "dispatched" /\ chain[b].row = chain[c].row
       => b = c
  /\ \A c \in Chains :
       /\ chain[c].stage = "claimed" => \E r \in Rows : c = Timer(r) /\ row[r].stage = "claimed"
       /\ chain[c].stage = "taken" => \E r \in Rows : c = Token(r) /\ row[r].stage = "deleted"
       /\ chain[c].stage = "reported" =>
            AnswersInTime /\ \E r \in Rows : c = Token(r) /\ row[r].stage \in {"reserved", "parked"}
  /\ \A r \in Rows : chain[Timer(r)].stage # "idle" => row[r].stage \in {"claimed", "deleted"}

\* The workers have not reached the entries from the cursor on.
Untaken == \A i \in 1..Targets : i >= cursor => chain[Fresh(i)].stage = "idle"

ForkInv == RowsFollow /\ Untaken /\ OneContinuation

\* A step that only takes continuations away.
Shrinks ==
  /\ \A c \in Chains, d \in Devices : Carries(c, d)' => Carries(c, d)
  /\ \A r \in Rows, d \in Devices : Holds(r, d)' => Holds(r, d)

LEMMA ShrinkKeeps == OneContinuation /\ Shrinks => OneContinuation'
BY DEF OneContinuation, Shrinks

\* A step by which chain c leaves its device d0 in row r.
LEMMA ParkKeeps ==
  ASSUME OneContinuation, NEW c \in Chains, NEW r \in Rows, NEW d0,
         \A d \in Devices : d = d0 => Carries(c, d),
         \A b \in Chains, d \in Devices : Carries(b, d)' => b # c /\ Carries(b, d),
         \A q \in Rows, d \in Devices : Holds(q, d)' => Holds(q, d) \/ (q = r /\ d = d0)
  PROVE  OneContinuation'
BY DEF OneContinuation

\* A step by which chain c takes the device of row r up again.
LEMMA ResumeKeeps ==
  ASSUME OneContinuation, NEW c \in Chains, NEW r \in Rows, row[r].stage = "parked",
         \A b \in Chains, d \in Devices :
           Carries(b, d)' => (b # c /\ Carries(b, d)) \/ (b = c /\ row[r].device = d),
         \A q \in Rows, d \in Devices : Holds(q, d)' => q # r /\ Holds(q, d)
  PROVE  OneContinuation'
<1>1. \A d \in Devices : row[r].device = d => Holds(r, d)
  BY DEF Holds
<1>2. QED
  BY <1>1 DEF OneContinuation

\* A chain that rests carries what it carried, when a row changes that is new or
\* keeps its device.
LEMMA OthersCarry ==
  ASSUME RowsFollow, NEW r \in Rows, \A q \in Rows \ {r} : row'[q] = row[q],
         row[r].stage = "unused" \/ row'[r].device = row[r].device,
         NEW b \in Chains, chain'[b] = chain[b], NEW d, Carries(b, d)'
  PROVE  Carries(b, d)
<1>1. CASE chain[b].stage \in {"claimed", "taken"}
  <2>1. PICK q \in Rows : (b = Timer(q) \/ b = Token(q)) /\ row[q].stage # "unused"
    BY <1>1 DEF RowsFollow
  <2>2. b[2] = q /\ row'[q].device = row[q].device
    BY <2>1, ChainShapes
  <2>3. QED
    BY <1>1, <2>2 DEF Carries
<1>2. CASE chain[b].stage \notin {"claimed", "taken"}
  BY <1>2 DEF Carries
<1>3. QED
  BY <1>1, <1>2

\* A step of chain c alone, which neither takes up a device nor parks one.
LEMMA OneChainForks ==
  ASSUME TypeOK, ForkInv, NEW c \in Chains, NEW y,
         chain' = [chain EXCEPT ![c] = y], UNCHANGED <<row, tracking, cursor>>,
         chain[c].stage # "idle" \/ c = Launcher,
         y.stage \in {"fanout", "step", "finish", "read", "write", "cleanup", "ended"},
         \A d \in Devices : y.stage = "step" /\ y.device = d => Carries(c, d)
  PROVE  ForkInv'
<1>1. chain'[c] = y /\ \A b \in Chains \ {c} : chain'[b] = chain[b]
  BY DEF TypeOK
<1>2. RowsFollow'
  <2>1. \A b \in Chains : chain'[b].stage \in {"dispatched", "claimed", "reported", "taken"}
          => chain'[b] = chain[b]
    BY <1>1
  <2>2. \A r \in Rows : chain'[Timer(r)].stage # "idle" => chain[Timer(r)].stage # "idle"
    BY <1>1, ChainIds, ChainShapes
  <2>3. QED
    BY <2>1, <2>2 DEF ForkInv, RowsFollow
<1>3. Untaken'
  <2>1. \A i \in 1..Targets : chain[Fresh(i)].stage = "idle" => chain'[Fresh(i)].stage = "idle"
    BY <1>1, ChainIds, ChainShapes
  <2>2. QED
    BY <2>1 DEF ForkInv, Untaken
<1>4. Shrinks
  <2>1. ASSUME NEW b \in Chains, NEW d \in Devices, Carries(b, d)' PROVE Carries(b, d)
    <3>1. CASE b = c
      BY <1>1, <2>1, <3>1 DEF Carries
    <3>2. CASE b # c
      BY <1>1, <2>1, <3>2 DEF Carries
    <3>3. QED
      BY <3>1, <3>2
  <2>2. QED
    BY <2>1 DEF Shrinks, Holds
<1>5. QED
  BY <1>2, <1>3, <1>4, ShrinkKeeps DEF ForkInv

\* A step of chain c on row r: the other rows and their chains stay as they are.
LEMMA OneRowForks ==
  ASSUME TypeOK, ForkInv, NEW r \in Rows, NEW c \in Chains,
         \A b \in Chains \ {c} : chain'[b] = chain[b],
         \A q \in Rows \ {r} : row'[q] = row[q], UNCHANGED cursor,
         AnswersInTime \/ \A q \in Rows : tracking'[q] = "none",
         chain[c].stage # "idle" \/ c \in {Timer(r), Token(r)},
         row'[r] = row[r] \/ \A b \in Chains \ {c} : ~(chain[b].stage = "dispatched" /\ chain[b].row = r),
         chain'[c].stage = "dispatched" =>
           /\ \A b \in Chains \ {c} : ~(chain[b].stage = "dispatched" /\ chain[b].row = r)
           /\ chain'[c].row = r /\ row'[r].stage = "reserved" /\ row'[r].device = chain'[c].device,
         /\ chain'[c].stage = "claimed" => c = Timer(r)
         /\ chain'[c].stage \in {"reported", "taken"} => c = Token(r),
         /\ chain'[Timer(r)].stage = "claimed" => row'[r].stage = "claimed"
         /\ chain'[Token(r)].stage = "taken" => row'[r].stage = "deleted"
         /\ chain'[Token(r)].stage = "reported" => AnswersInTime /\ row'[r].stage \in {"reserved", "parked"}
         /\ chain'[Timer(r)].stage # "idle" => row'[r].stage \in {"claimed", "deleted"}
  PROVE  RowsFollow' /\ Untaken'
<1>1. ASSUME NEW b \in Chains, chain'[b].stage = "dispatched"
      PROVE  /\ chain'[b].row \in Rows /\ row'[chain'[b].row].stage = "reserved"
             /\ row'[chain'[b].row].device = chain'[b].device
             /\ b # c => chain'[b] = chain[b]
  <2>1. CASE b = c
    BY <1>1, <2>1
  <2>2. CASE b # c
    <3>1. /\ chain'[b] = chain[b] /\ chain[b].row \in Rows
          /\ row[chain[b].row].stage = "reserved" /\ row[chain[b].row].device = chain[b].device
      BY <1>1, <2>2 DEF ForkInv, RowsFollow
    <3>2. row'[chain[b].row] = row[chain[b].row]
      BY <1>1, <2>2, <3>1
    <3>3. QED
      BY <3>1, <3>2
  <2>3. QED
    BY <2>1, <2>2
<1>2. \A b, e \in Chains :
        chain'[b].stage = "dispatched" /\ chain'[e].stage = "dispatched"
        /\ chain'[b].row = chain'[e].row => b = e
  BY <1>1 DEF ForkInv, RowsFollow
<1>3. ASSUME NEW b \in Chains
      PROVE  /\ chain'[b].stage = "claimed" => \E q \in Rows : b = Timer(q) /\ row'[q].stage = "claimed"
             /\ chain'[b].stage = "taken" => \E q \in Rows : b = Token(q) /\ row'[q].stage = "deleted"
             /\ chain'[b].stage = "reported" =>
                  AnswersInTime /\ \E q \in Rows : b = Token(q) /\ row'[q].stage \in {"reserved", "parked"}
  <2>1. CASE b \in {Timer(r), Token(r)}
    <3>1. /\ chain'[Timer(r)].stage \notin {"taken", "reported"}
          /\ chain'[Token(r)].stage # "claimed"
      BY ChainIds, ChainShapes DEF ForkInv, RowsFollow
    <3>2. QED
      BY <2>1, <3>1
  <2>2. CASE b \notin {Timer(r), Token(r)}
    <3>1. chain'[b].stage \in {"claimed", "taken", "reported"} => chain'[b] = chain[b]
      BY <2>2
    <3>2. \A q \in Rows : b \in {Timer(q), Token(q)} => row'[q] = row[q]
      BY <2>2
    <3>3. QED
      BY <3>1, <3>2 DEF ForkInv, RowsFollow
  <2>3. QED
    BY <2>1, <2>2
<1>4. ASSUME NEW q \in Rows, chain'[Timer(q)].stage # "idle"
      PROVE  row'[q].stage \in {"claimed", "deleted"}
  <2>1. CASE q = r
    BY <1>4, <2>1
  <2>2. CASE q # r
    <3>1. chain[Timer(q)].stage # "idle"
      BY <1>4, <2>2, ChainIds, ChainShapes
    <3>2. QED
      BY <2>2, <3>1 DEF ForkInv, RowsFollow
  <2>3. QED
    BY <2>1, <2>2
<1>5. Untaken'
  <2>1. \A i \in 1..Targets : chain[Fresh(i)].stage = "idle" => chain'[Fresh(i)] = chain[Fresh(i)]
    BY ChainIds, ChainShapes
  <2>2. QED
    BY <2>1 DEF ForkInv, Untaken
<1>6. QED
  BY <1>1, <1>2, <1>3, <1>4, <1>5 DEF RowsFollow

LEMMA StartForks ==
  ASSUME TypeOK, ForkInv, NEW i \in 1..Targets, StartFresh(i)
  PROVE  ForkInv'
<1> DEFINE c == Fresh(i)
           y == Running(DeviceOf[i], 1, <<>>)
<1>1. /\ chain' = [chain EXCEPT ![c] = y] /\ UNCHANGED <<row, tracking>>
      /\ cursor = i /\ cursor' = i + 1 /\ c \in Chains
  BY ChainIds DEF StartFresh
<1>2. y.stage = "step" /\ y.device = DeviceOf[i]
  BY RunningStage
<1>3. chain[c].stage = "idle"
  BY <1>1 DEF ForkInv, Untaken
<1> HIDE DEF y
<1>4. chain'[c] = y /\ \A b \in Chains \ {c} : chain'[b] = chain[b]
  BY <1>1 DEF TypeOK
<1>5. RowsFollow'
  <2>1. \A b \in Chains : chain'[b].stage \in {"dispatched", "claimed", "reported", "taken"}
          => chain'[b] = chain[b]
    BY <1>2, <1>4
  <2>2. \A r \in Rows : chain'[Timer(r)] = chain[Timer(r)]
    BY <1>4, ChainIds, ChainShapes
  <2>3. QED
    BY <1>1, <2>1, <2>2 DEF ForkInv, RowsFollow
<1>6. Untaken'
  <2>1. ASSUME NEW j \in 1..Targets, j >= i + 1 PROVE chain'[Fresh(j)].stage = "idle"
    <3>1. chain'[Fresh(j)] = chain[Fresh(j)]
      BY <1>4, <2>1, ChainIds, ChainShapes
    <3>2. QED
      BY <1>1, <2>1, <3>1 DEF ForkInv, Untaken
  <2>2. QED
    BY <1>1, <2>1 DEF Untaken
<1>7. Shrinks
  <2>1. ASSUME NEW b \in Chains, NEW d \in Devices, Carries(b, d)' PROVE Carries(b, d)
    <3>1. CASE b = c
      BY <1>2, <1>3, <1>4, <2>1, <3>1, ChainShapes DEF Carries
    <3>2. CASE b # c
      BY <1>1, <1>4, <2>1, <3>2 DEF Carries
    <3>3. QED
      BY <3>1, <3>2
  <2>2. QED
    BY <1>1, <2>1 DEF Shrinks, Holds
<1>8. QED
  BY <1>5, <1>6, <1>7, ShrinkKeeps DEF ForkInv

LEMMA ParkForks ==
  ASSUME TypeOK, ForkInv, NEW c \in Chains, Park(c)
  PROVE  ForkInv'
<1>0. PICK d0 : d0 = chain[c].device
  OBVIOUS
<1>1. PICK r \in Rows :
        /\ NextRow(r)
        /\ row'[r].stage = "parked" /\ row'[r].device = d0
        /\ \A q \in Rows \ {r} : row'[q] = row[q]
        /\ chain'[c].stage = "waiting"
        /\ \A b \in Chains \ {c} : chain'[b] = chain[b]
        /\ UNCHANGED <<tracking, cursor>>
  BY <1>0, ParkEffect
<1>2. /\ chain[c].stage = "step" /\ row[r].stage = "unused"
      /\ \A d \in Devices : d = d0 => Carries(c, d)
  BY <1>0, <1>1 DEF Park, More, Carries, NextRow
<1>3. /\ \A b \in Chains : ~(chain[b].stage = "dispatched" /\ chain[b].row = r)
      /\ chain[Timer(r)].stage = "idle" /\ chain[Token(r)].stage \notin {"taken", "reported"}
  BY <1>2, ChainIds, ChainShapes DEF ForkInv, RowsFollow
<1>4. /\ chain'[Timer(r)].stage = "idle" /\ chain'[Token(r)].stage \notin {"taken", "reported"}
      /\ AnswersInTime \/ \A q \in Rows : tracking'[q] = "none"
  BY <1>1, <1>2, <1>3, ChainIds DEF ForkInv, RowsFollow
<1>5. RowsFollow' /\ Untaken'
  BY <1>1, <1>2, <1>3, <1>4, OneRowForks
<1>6. \A b \in Chains, d \in Devices : Carries(b, d)' => b # c /\ Carries(b, d)
  <2>1. ASSUME NEW b \in Chains, NEW d \in Devices, Carries(b, d)' PROVE b # c /\ Carries(b, d)
    <3>1. b # c
      BY <1>1, <2>1 DEF Carries
    <3>2. QED
      BY <1>1, <1>2, <2>1, <3>1, OthersCarry DEF ForkInv
  <2>2. QED
    BY <2>1
<1>7. \A q \in Rows, d \in Devices : Holds(q, d)' => Holds(q, d) \/ (q = r /\ d = d0)
  BY <1>1 DEF Holds
<1>8. OneContinuation'
  BY <1>2, <1>6, <1>7, ParkKeeps DEF ForkInv
<1>9. QED
  BY <1>5, <1>8 DEF ForkInv

LEMMA DispatchForks ==
  ASSUME InTime, TypeOK, ForkInv, NEW c \in Chains, Dispatch(c)
  PROVE  ForkInv'
<1>0. PICK d0 : d0 = chain[c].device
  OBVIOUS
<1>1. PICK r \in Rows :
        /\ NextRow(r)
        /\ row'[r].stage = "reserved" /\ row'[r].device = d0
        /\ \A q \in Rows \ {r} : row'[q] = row[q]
        /\ chain'[c].stage = "dispatched" /\ chain'[c].row = r /\ chain'[c].device = d0
        /\ \A b \in Chains \ {c} : chain'[b] = chain[b]
        /\ UNCHANGED cursor
  BY <1>0, DispatchEffect
<1>2. /\ chain[c].stage = "step" /\ row[r].stage = "unused" /\ AnswersInTime
      /\ \A d \in Devices : d = d0 => Carries(c, d)
  <2>1. chain[c].at \in Steps
    BY DEF Dispatch, More, TypeOK, ChainSet
  <2>2. QED
    BY <1>0, <1>1, <2>1 DEF Dispatch, More, Carries, NextRow, InTime
<1>3. /\ \A b \in Chains : ~(chain[b].stage = "dispatched" /\ chain[b].row = r)
      /\ chain[Timer(r)].stage = "idle" /\ chain[Token(r)].stage \notin {"taken", "reported"}
  BY <1>2, ChainIds, ChainShapes DEF ForkInv, RowsFollow
<1>4. chain'[Timer(r)].stage = "idle" /\ chain'[Token(r)].stage \notin {"taken", "reported"}
  BY <1>1, <1>2, <1>3, ChainIds
<1>5. RowsFollow' /\ Untaken'
  BY <1>1, <1>2, <1>3, <1>4, OneRowForks
<1>6. Shrinks
  <2>1. ASSUME NEW b \in Chains, NEW d \in Devices, Carries(b, d)' PROVE Carries(b, d)
    <3>1. CASE b = c
      BY <1>1, <1>2, <2>1, <3>1 DEF Carries
    <3>2. CASE b # c
      BY <1>1, <1>2, <2>1, <3>2, OthersCarry DEF ForkInv
    <3>3. QED
      BY <3>1, <3>2
  <2>2. \A q \in Rows, d \in Devices : Holds(q, d)' => Holds(q, d)
    BY <1>1 DEF Holds
  <2>3. QED
    BY <2>1, <2>2 DEF Shrinks
<1>7. QED
  BY <1>5, <1>6, ShrinkKeeps DEF ForkInv

LEMMA PersistForks ==
  ASSUME TypeOK, ForkInv, NEW c \in Chains, PersistScript(c)
  PROVE  ForkInv'
<1>0. PICK d0, r : d0 = chain[c].device /\ r = chain[c].row
  OBVIOUS
<1>1. /\ chain[c].stage = "dispatched" /\ r \in Rows
      /\ row[r].stage = "reserved" /\ row[r].device = d0
      /\ \A d \in Devices : d = d0 => Carries(c, d)
  BY <1>0 DEF PersistScript, ForkInv, RowsFollow, Carries
<1>2. /\ row'[r].stage = "parked" /\ row'[r].device = d0
      /\ \A q \in Rows \ {r} : row'[q] = row[q]
      /\ chain'[c].stage = "waiting"
      /\ \A b \in Chains \ {c} : chain'[b] = chain[b]
      /\ UNCHANGED <<tracking, cursor>>
  BY <1>0, <1>1 DEF PersistScript, TypeOK, ChainSet, RowSet
<1>3. /\ \A b \in Chains \ {c} : ~(chain[b].stage = "dispatched" /\ chain[b].row = r)
      /\ chain[Timer(r)].stage = "idle" /\ chain[Token(r)].stage # "taken"
      /\ chain[Token(r)].stage = "reported" => AnswersInTime
  BY <1>0, <1>1, ChainIds, ChainShapes DEF ForkInv, RowsFollow
<1>4. /\ chain'[Timer(r)].stage = "idle" /\ chain'[Token(r)].stage # "taken"
      /\ chain'[Token(r)].stage = "reported" => AnswersInTime
      /\ AnswersInTime \/ \A q \in Rows : tracking'[q] = "none"
  BY <1>1, <1>2, <1>3, ChainIds DEF ForkInv, RowsFollow
<1>5. RowsFollow' /\ Untaken'
  BY <1>1, <1>2, <1>3, <1>4, OneRowForks
<1>6. \A b \in Chains, d \in Devices : Carries(b, d)' => b # c /\ Carries(b, d)
  <2>1. ASSUME NEW b \in Chains, NEW d \in Devices, Carries(b, d)' PROVE b # c /\ Carries(b, d)
    <3>1. b # c
      BY <1>2, <2>1 DEF Carries
    <3>2. QED
      BY <1>1, <1>2, <2>1, <3>1, OthersCarry DEF ForkInv
  <2>2. QED
    BY <2>1
<1>7. \A q \in Rows, d \in Devices : Holds(q, d)' => Holds(q, d) \/ (q = r /\ d = d0)
  BY <1>2 DEF Holds
<1>8. OneContinuation'
  BY <1>1, <1>6, <1>7, ParkKeeps DEF ForkInv
<1>9. QED
  BY <1>5, <1>8 DEF ForkInv

LEMMA ClaimForks ==
  ASSUME TypeOK, ForkInv, NEW r \in Rows, ClaimDue(r)
  PROVE  ForkInv'
<1> DEFINE c == Timer(r)
<1>0. c \in Chains /\ Token(r) \in Chains /\ c # Token(r)
  BY ChainIds, ChainShapes
<1>1. /\ row[r].stage = "parked" /\ row'[r].stage = "claimed" /\ row'[r].device = row[r].device
      /\ \A q \in Rows \ {r} : row'[q] = row[q]
      /\ chain'[c].stage = "claimed"
      /\ \A b \in Chains \ {c} : chain'[b] = chain[b]
      /\ UNCHANGED <<tracking, cursor>>
      /\ AnswersInTime => chain[Token(r)].stage # "reported"
  BY <1>0 DEF ClaimDue, TypeOK, ChainSet, RowSet
<1>2. /\ \A b \in Chains : ~(chain[b].stage = "dispatched" /\ chain[b].row = r)
      /\ chain[Token(r)].stage \notin {"taken", "reported"}
      /\ AnswersInTime \/ \A q \in Rows : tracking'[q] = "none"
  BY <1>0, <1>1, ChainShapes DEF ForkInv, RowsFollow
<1>3. chain'[Token(r)].stage \notin {"taken", "reported"}
  BY <1>0, <1>1, <1>2
<1>4. RowsFollow' /\ Untaken'
  BY <1>0, <1>1, <1>2, <1>3, OneRowForks
<1>5. \A b \in Chains, d \in Devices :
        Carries(b, d)' => (b # c /\ Carries(b, d)) \/ (b = c /\ row[r].device = d)
  <2>1. ASSUME NEW b \in Chains, NEW d \in Devices, Carries(b, d)', b # c PROVE Carries(b, d)
    BY <1>1, <2>1, OthersCarry DEF ForkInv
  <2>2. ASSUME NEW d \in Devices, Carries(c, d)' PROVE row[r].device = d
    BY <1>1, <2>2, ChainShapes DEF Carries
  <2>3. QED
    BY <2>1, <2>2
<1>6. \A q \in Rows, d \in Devices : Holds(q, d)' => q # r /\ Holds(q, d)
  BY <1>1 DEF Holds
<1>7. OneContinuation'
  BY <1>0, <1>1, <1>5, <1>6, ResumeKeeps DEF ForkInv
<1>8. QED
  BY <1>4, <1>7 DEF ForkInv

LEMMA TakeForks ==
  ASSUME TypeOK, ForkInv, NEW r \in Rows, TakeRow(r)
  PROVE  ForkInv'
<1> DEFINE c == Token(r)
<1>0. /\ c \in Chains /\ Timer(r) \in Chains /\ c # Timer(r)
      /\ chain \in [Chains -> ChainSet] /\ row \in [Rows -> RowSet]
  BY ChainIds, ChainShapes DEF TypeOK
<1>1. chain[c].stage = "reported" /\ UNCHANGED <<tracking, cursor>>
  BY DEF TakeRow
<1>2. row[r].stage \in {"reserved", "parked"}
  BY <1>0, <1>1, ChainShapes DEF ForkInv, RowsFollow
<1>3. CASE row[r].stage = "parked"
  <2>1. /\ row'[r].stage = "deleted" /\ row'[r].device = row[r].device
        /\ \A q \in Rows \ {r} : row'[q] = row[q]
        /\ chain'[c].stage = "taken"
        /\ \A b \in Chains \ {c} : chain'[b] = chain[b]
    BY <1>0, <1>3 DEF TakeRow, ChainSet, RowSet
  <2>2. /\ chain'[Timer(r)] = chain[Timer(r)] /\ chain[Timer(r)].stage = "idle"
        /\ \A b \in Chains : ~(chain[b].stage = "dispatched" /\ chain[b].row = r)
        /\ AnswersInTime \/ \A q \in Rows : tracking'[q] = "none"
    BY <1>0, <1>1, <1>3, <2>1 DEF ForkInv, RowsFollow
  <2>3. RowsFollow' /\ Untaken'
    BY <1>0, <1>1, <2>1, <2>2, OneRowForks
  <2>4. \A b \in Chains, d \in Devices :
          Carries(b, d)' => (b # c /\ Carries(b, d)) \/ (b = c /\ row[r].device = d)
    <3>1. ASSUME NEW b \in Chains, NEW d \in Devices, Carries(b, d)', b # c PROVE Carries(b, d)
      BY <2>1, <3>1, OthersCarry DEF ForkInv
    <3>2. ASSUME NEW d \in Devices, Carries(c, d)' PROVE row[r].device = d
      BY <2>1, <3>2, ChainShapes DEF Carries
    <3>3. QED
      BY <3>1, <3>2
  <2>5. \A q \in Rows, d \in Devices : Holds(q, d)' => q # r /\ Holds(q, d)
    BY <2>1 DEF Holds
  <2>6. OneContinuation'
    BY <1>0, <1>3, <2>4, <2>5, ResumeKeeps DEF ForkInv
  <2>7. QED
    BY <2>3, <2>6 DEF ForkInv
<1>4. CASE row[r].stage = "reserved"
  <2> DEFINE y == [chain[c] EXCEPT !.stage = "ended"]
  <2>1. chain' = [chain EXCEPT ![c] = y] /\ UNCHANGED row
    BY <1>0, <1>4 DEF TakeRow
  <2>2. y.stage = "ended"
    BY <1>0 DEF ChainSet
  <2> HIDE DEF y
  <2>3. QED
    BY <1>0, <1>1, <2>1, <2>2, OneChainForks
<1>5. QED
  BY <1>2, <1>3, <1>4

LEMMA ReportForks ==
  ASSUME TypeOK, ForkInv, NEW r \in Rows, Report(r)
  PROVE  ForkInv'
<1> DEFINE c == Token(r)
<1>0. /\ c \in Chains /\ Timer(r) \in Chains /\ c # Timer(r)
      /\ chain \in [Chains -> ChainSet]
  BY ChainIds, ChainShapes DEF TypeOK
<1>1. AnswersInTime
  BY DEF Report, ForkInv, RowsFollow
<1>2. row[r].stage \in {"reserved", "parked"} /\ UNCHANGED <<row, cursor>>
  BY <1>1 DEF Report
<1>3. chain'[c].stage = "reported" /\ \A b \in Chains \ {c} : chain'[b] = chain[b]
  BY <1>0 DEF Report, ChainSet
<1>4. chain'[Timer(r)].stage = "idle"
  BY <1>0, <1>2, <1>3 DEF ForkInv, RowsFollow
<1>5. RowsFollow' /\ Untaken'
  BY <1>0, <1>1, <1>2, <1>3, <1>4, OneRowForks
<1>6. Shrinks
  <2>1. ASSUME NEW b \in Chains, NEW d \in Devices, Carries(b, d)' PROVE Carries(b, d)
    BY <1>2, <1>3, <2>1 DEF Carries
  <2>2. QED
    BY <1>2, <2>1 DEF Shrinks, Holds
<1>7. QED
  BY <1>5, <1>6, ShrinkKeeps DEF ForkInv

LEMMA CleanupForks ==
  ASSUME TypeOK, ForkInv, NEW r \in Rows, Cleanup(r)
  PROVE  ForkInv'
<1> DEFINE c == Timer(r)
<1>0. /\ c \in Chains /\ c # Token(r) /\ Token(r) \in Chains
      /\ chain \in [Chains -> ChainSet] /\ row \in [Rows -> RowSet]
  BY ChainIds, ChainShapes DEF TypeOK
<1>1. /\ chain[c].stage = "cleanup" /\ UNCHANGED <<tracking, cursor>>
      /\ row'[r].stage = "deleted" /\ row'[r].device = row[r].device
      /\ \A q \in Rows \ {r} : row'[q] = row[q]
      /\ chain'[c].stage = "ended"
      /\ \A b \in Chains \ {c} : chain'[b] = chain[b]
  BY <1>0 DEF Cleanup, ChainSet, RowSet
<1>2. /\ row[r].stage \in {"claimed", "deleted"}
      /\ AnswersInTime \/ \A q \in Rows : tracking'[q] = "none"
  BY <1>1 DEF ForkInv, RowsFollow
<1>3. /\ \A b \in Chains : ~(chain[b].stage = "dispatched" /\ chain[b].row = r)
      /\ chain'[Token(r)] = chain[Token(r)] /\ chain[Token(r)].stage # "reported"
  BY <1>0, <1>1, <1>2, ChainShapes DEF ForkInv, RowsFollow
<1>4. RowsFollow' /\ Untaken'
  BY <1>0, <1>1, <1>2, <1>3, OneRowForks
<1>5. Shrinks
  <2>1. ASSUME NEW b \in Chains, NEW d \in Devices, Carries(b, d)' PROVE Carries(b, d)
    <3>1. b # c
      BY <1>1, <2>1 DEF Carries
    <3>2. QED
      BY <1>1, <2>1, <3>1, OthersCarry DEF ForkInv
  <2>2. \A q \in Rows, d \in Devices : Holds(q, d)' => Holds(q, d)
    BY <1>1 DEF Holds
  <2>3. QED
    BY <2>1, <2>2 DEF Shrinks
<1>6. QED
  BY <1>4, <1>5, ShrinkKeeps DEF ForkInv

LEMMA CrashForks ==
  ASSUME TypeOK, ForkInv, Crash
  PROVE  ForkInv'
<1>1. UNCHANGED <<row, tracking, cursor>>
  BY DEF Crash
<1>2. \A c \in Chains : \/ chain[c].stage = "idle" /\ chain'[c] = chain[c]
                        \/ chain[c].stage # "idle" /\ chain'[c].stage = "ended"
  BY StoppedStage DEF Crash
<1>3. RowsFollow' /\ Untaken'
  BY <1>1, <1>2, ChainIds DEF ForkInv, RowsFollow, Untaken
<1>4. Shrinks
  BY <1>1, <1>2 DEF Shrinks, Carries, Holds
<1>5. QED
  BY <1>3, <1>4, ShrinkKeeps DEF ForkInv

LEMMA ForkStep ==
  ASSUME InTime, TypeOK, ForkInv, [Next]_vars
  PROVE  ForkInv'
<1>1. CASE Launch \/ FanoutDone
  <2>1. PICK s \in {"fanout", "read"} :
          chain' = [chain EXCEPT ![Launcher] = [chain[Launcher] EXCEPT !.stage = s]]
    BY <1>1 DEF Launch, FanoutDone, TypeOK
  <2>2. UNCHANGED <<row, tracking, cursor>>
    BY <1>1 DEF Launch, FanoutDone
  <2> DEFINE y == [chain[Launcher] EXCEPT !.stage = s]
  <2>3. y.stage = s
    BY ChainIds DEF TypeOK, ChainSet
  <2> HIDE DEF y
  <2>4. QED
    BY <2>1, <2>2, <2>3, OneChainForks, ChainIds DEF y
<1>2. CASE Crash
  BY <1>2, CrashForks
<1>3. CASE DeleteWorkflow \/ ChangeCredential \/ UNCHANGED vars
  <2>1. UNCHANGED <<chain, row, tracking, cursor>>
    BY <1>3 DEF DeleteWorkflow, ChangeCredential, vars
  <2>2. QED
    BY <2>1 DEF ForkInv, RowsFollow, Untaken, OneContinuation, Carries, Holds
<1>4. ASSUME NEW i \in 1..Targets, StartFresh(i) PROVE ForkInv'
  BY <1>4, StartForks
<1>5. ASSUME NEW c \in Chains, Advance(c) PROVE ForkInv'
  <2>1. CASE RunStep(c) \/ Recover(c) \/ LoopExit(c)
    <3>1. /\ chain[c].stage = "step" /\ UNCHANGED <<row, tracking, cursor>>
      BY <2>1, LoopEffect
    <3>2. PICK y : /\ chain' = [chain EXCEPT ![c] = y] /\ y.stage \in {"step", "finish"}
                   /\ y.device = chain[c].device
      BY <2>1, LoopEffect
    <3>3. \A d \in Devices : y.device = d => Carries(c, d)
      BY <3>1, <3>2 DEF Carries
    <3>4. QED
      BY <3>1, <3>2, <3>3, OneChainForks
  <2>2. CASE MarkWaiting(c) \/ Finish(c) \/ FinalizeRead(c) \/ FinalizeWrite(c)
    <3>1. /\ chain[c].stage # "idle" /\ UNCHANGED <<row, tracking, cursor>>
      BY <2>2, EndEffect
    <3>2. PICK y : /\ chain' = [chain EXCEPT ![c] = y]
                   /\ y.stage \in {"read", "write", "cleanup", "ended"}
      BY <2>2, EndEffect
    <3>3. QED
      BY <3>1, <3>2, OneChainForks
  <2>3. QED
    BY <1>5, <2>1, <2>2, ParkForks, DispatchForks, PersistForks DEF Advance
<1>6. ASSUME NEW c \in Chains, Throw(c) PROVE ForkInv'
  <2>1. /\ chain[c].stage # "idle" /\ UNCHANGED <<row, tracking, cursor>>
    BY <1>6, ThrowEffect
  <2>2. PICK y : /\ chain' = [chain EXCEPT ![c] = y]
                 /\ y.stage \in {"finish", "read", "cleanup", "ended"}
    BY <1>6, ThrowEffect
  <2>3. QED
    BY <2>1, <2>2, OneChainForks
<1>7. ASSUME NEW r \in Rows, ClaimDue(r) \/ ResumeRow(r) \/ Report(r) PROVE ForkInv'
  <2>1. ASSUME NEW c \in Chains, (c = Timer(r) /\ TimerResume(r)) \/ (c = Token(r) /\ TokenResume(r))
        PROVE  ForkInv'
    <3>1. /\ chain[c].stage \in {"claimed", "taken"} /\ c[2] = r
          /\ UNCHANGED <<row, tracking, cursor>>
      BY <2>1, ResumeEffect
    <3>2. PICK y : /\ chain' = [chain EXCEPT ![c] = y] /\ y.stage \in {"step", "finish"}
                   /\ y.device = row[r].device
      BY <2>1, ResumeEffect
    <3>3. \A d \in Devices : y.device = d => Carries(c, d)
      BY <3>1, <3>2 DEF Carries
    <3>4. QED
      BY <3>1, <3>2, <3>3, OneChainForks
  <2>2. QED
    BY <1>7, <2>1, ClaimForks, TakeForks, ReportForks, CleanupForks, ChainIds DEF ResumeRow
<1>8. QED
  BY <1>1, <1>2, <1>3, <1>4, <1>5, <1>6, <1>7 DEF Next

\* A device never has two continuations, in any workflow of waits and scripts: with
\* crashes, exceptions, refused resumes and resumes that overtake their parking.
\* Only a list that names a device twice or an answer after the timer can fork it.
THEOREM NeverForks == InTime => (Spec => []OneContinuation)
<1> SUFFICES ASSUME InTime PROVE Spec => []OneContinuation
  OBVIOUS
<1>1. Init => ForkInv
  <2> SUFFICES ASSUME Init PROVE ForkInv
    OBVIOUS
  <2>1. \A c \in Chains : chain[c].stage = "idle"
    BY DEF Init, NoChain
  <2>2. \A r \in Rows : row[r].stage = "unused" /\ tracking[r] = "none"
    BY DEF Init, NoRow
  <2>3. \A c \in Chains, d \in Devices :
          Carries(c, d) => \E i \in 1..Targets : c = Fresh(i) /\ DeviceOf[i] = d
    BY <2>1, ChainShapes DEF Carries
  <2>4. OneContinuation
    BY <2>2, <2>3 DEF OneContinuation, Holds, InTime
  <2>5. QED
    BY <2>1, <2>2, <2>4, ChainIds DEF ForkInv, RowsFollow, Untaken
<1>2. TypeOK /\ ForkInv /\ [Next]_vars => ForkInv'
  BY ForkStep
<1>3. ForkInv => OneContinuation
  BY DEF ForkInv
<1>4. QED
  BY <1>1, <1>2, <1>3, TypeCorrect, PTL DEF Spec

---------------------------------------------------------------------------
(***************************************************************************)
(* The logs, which outlive the chains.                                     *)
(***************************************************************************)

\* A chain is where its log leads to; no step is past the cap, and a script's result
\* is at most one past it.
Follows(x) == x.stage = "step" => x.at = Implied(x.log)
Capped(log) ==
  \A k \in DOMAIN log : /\ log[k].kind = "step" => k <= LogCap
                        /\ log[k].kind = "result" => k <= LogCap + 1
Bounded(x) == Capped(x.log)
ChainOK(x) == Follows(x) /\ Bounded(x)

\* A row keeps a log that ends with the step that parked, and where that leads.
Parked(x) ==
  x.stage # "unused" =>
    /\ Len(x.log) > 0
    /\ x.log[Len(x.log)].kind = "step" /\ x.log[Len(x.log)].ok = TRUE
    /\ x.next = Succ(x.log[Len(x.log)].step, TRUE)
    /\ x.kind = "script" => x.onFailure = Succ(x.log[Len(x.log)].step, FALSE)
RowOK(x) == Len(x.log) <= LogCap /\ Parked(x)

\* A resume belongs to a row that was written, one by token to a script's, and so
\* does a chain that has dispatched a script.
TokenUsed(r) == chain[Token(r)].stage \in {"reported", "taken"}
Link(r) ==
  /\ chain[Timer(r)].stage # "idle" => row[r].stage # "unused"
  /\ tracking[r] # "none" => row[r].stage # "unused" /\ row[r].kind = "script"
  /\ TokenUsed(r) => tracking[r] # "none"
Links == /\ \A r \in Rows : Link(r)
         /\ \A c \in Chains : chain[c].stage = "dispatched" =>
              chain[c].row \in Rows /\ row[chain[c].row].stage # "unused"

LogInv == /\ \A c \in Chains : ChainOK(chain[c])
          /\ \A r \in Rows : RowOK(row[r])
          /\ Links

\* The step a row was parked at.
StepOf(r) == row[r].log[Len(row[r].log)].step

\* What Implied says of a log that was just extended.
LEMMA ImpliedStep ==
  ASSUME NEW log \in Seq(Entries), NEW s \in Steps, NEW ok \in BOOLEAN
  PROVE  Implied(Append(log, StepEntry(s, ok))) = Succ(s, ok)
<1>1. StepEntry(s, ok) \in Entries
  BY StepEntryType
<1> DEFINE new == Append(log, StepEntry(s, ok))
<1>2. new # <<>> /\ Len(new) = Len(log) + 1 /\ new[Len(new)] = StepEntry(s, ok)
  BY <1>1
<1> HIDE DEF new
<1>3. StepEntry(s, ok).kind = "step" /\ StepEntry(s, ok).step = s /\ StepEntry(s, ok).ok = ok
  BY DEF StepEntry
<1>4. Implied(new) = Succ(s, ok)
  BY <1>2, <1>3 DEF Implied
<1>5. QED
  BY <1>4 DEF new

LEMMA ImpliedNote ==
  ASSUME NEW log \in Seq(Entries), NEW kind \in {"result", "recovery", "error"},
         NEW ok \in BOOLEAN
  PROVE  /\ kind # "result" => Implied(Append(log, Note(kind, ok))) = End
         /\ kind = "result" /\ Len(log) > 0 =>
              Implied(Append(log, Note(kind, ok))) = Succ(log[Len(log)].step, ok)
<1>1. Note(kind, ok) \in Entries
  BY NoteType
<1> DEFINE new == Append(log, Note(kind, ok))
<1>2. /\ new # <<>> /\ Len(new) = Len(log) + 1 /\ new[Len(new)] = Note(kind, ok)
      /\ Len(log) > 0 => new[Len(new) - 1] = log[Len(log)]
  BY <1>1
<1> HIDE DEF new
<1>3. Note(kind, ok).kind = kind /\ Note(kind, ok).ok = ok
  BY DEF Note
<1>4. /\ kind # "result" => Implied(new) = End
      /\ kind = "result" /\ Len(log) > 0 => Implied(new) = Succ(log[Len(log)].step, ok)
  BY <1>2, <1>3 DEF Implied
<1>5. QED
  BY <1>4 DEF new

\* What Implied says of a log that a row was written with.
LEMMA ImpliedParked ==
  ASSUME NEW log \in Seq(Entries), Len(log) > 0, log[Len(log)].kind = "step",
         log[Len(log)].ok = TRUE
  PROVE  Implied(log) = Succ(log[Len(log)].step, TRUE)
<1>1. log # <<>>
  OBVIOUS
<1>2. QED
  BY <1>1 DEF Implied

LEMMA AppendLast ==
  ASSUME NEW log \in Seq(Entries), NEW e \in Entries
  PROVE  /\ Append(log, e) \in Seq(Entries) /\ Len(Append(log, e)) = Len(log) + 1
         /\ Append(log, e)[Len(Append(log, e))] = e
OBVIOUS

LEMMA AppendLength ==
  ASSUME NEW log \in Seq(Entries), NEW e
  PROVE  Len(Append(log, e)) = Len(log) + 1
OBVIOUS

LEMMA LogTypes ==
  ASSUME TypeOK
  PROVE  /\ chain \in [Chains -> ChainSet] /\ row \in [Rows -> RowSet]
         /\ \A c \in Chains : chain[c] \in ChainSet /\ chain[c].log \in Seq(Entries)
         /\ \A r \in Rows : row[r] \in RowSet /\ row[r].log \in Seq(Entries)
         /\ LogCap \in Nat
BY ConfigAssumption DEF TypeOK, ChainSet, RowSet, ConfigAssumption

LEMMA MoreTypes ==
  ASSUME TypeOK, NEW c \in Chains, More(c)
  PROVE  /\ chain[c] \in ChainSet /\ chain[c].log \in Seq(Entries) /\ chain[c].stage = "step"
         /\ Len(chain[c].log) < LogCap /\ LogCap \in Nat /\ Len(chain[c].log) \in Nat
         /\ chain[c].at \in Steps
<1>1. chain[c] \in ChainSet /\ chain[c].log \in Seq(Entries) /\ LogCap \in Nat
  BY LogTypes
<1>2. chain[c].at \in Steps \cup {End}
  BY <1>1 DEF ChainSet
<1>3. QED
  BY <1>1, <1>2 DEF More

\* What keeps a log capped: a step short of the cap, a result at it, an error.
LEMMA CappedAppend ==
  ASSUME NEW log \in Seq(Entries), Capped(log), NEW e \in Entries, LogCap \in Nat,
         e.kind = "step" => Len(log) < LogCap, e.kind = "result" => Len(log) <= LogCap
  PROVE  Capped(Append(log, e))
<1>1. \A k \in DOMAIN Append(log, e) : k \in DOMAIN log \/ k = Len(log) + 1
  OBVIOUS
<1>2. /\ \A k \in DOMAIN log : Append(log, e)[k] = log[k]
      /\ Append(log, e)[Len(log) + 1] = e /\ Len(log) \in Nat
  OBVIOUS
<1>3. QED
  BY <1>1, <1>2 DEF Capped

LEMMA CappedShort ==
  ASSUME NEW log \in Seq(Entries), Len(log) <= LogCap, LogCap \in Nat
  PROVE  Capped(log)
<1>1. \A k \in DOMAIN log : k \in Nat /\ k <= LogCap
  OBVIOUS
<1>2. QED
  BY <1>1 DEF Capped

LEMMA CappedError ==
  ASSUME NEW log \in Seq(Entries), Capped(log), LogCap \in Nat
  PROVE  Capped(Append(log, Note("error", FALSE)))
<1>1. Note("error", FALSE) \in Entries /\ Note("error", FALSE).kind = "error"
  BY NoteType DEF Note
<1>2. QED
  BY <1>1, CappedAppend

\* Chains that are not in their loop.
LEMMA BlankOK ==
  /\ ChainOK(NoChain) /\ RowOK(NoRow)
  /\ \A c \in Chains : ChainOK(Returned(c)) /\ Returned(c).stage \notin {"reported", "taken", "dispatched"}
  /\ LET e == [NoChain EXCEPT !.stage = "ended"]
     IN ChainOK(e) /\ e.stage = "ended"
<1>1. LogCap \in Nat
  BY ConfigAssumption DEF ConfigAssumption
<1>2. QED
  BY <1>1 DEF ChainOK, Follows, Bounded, Capped, RowOK, Parked, Returned, NoChain, NoRow

\* The same chain at another stage than the loop.
LEMMA OtherStage ==
  ASSUME NEW x \in ChainSet, ChainOK(x), NEW s \in Stages \ {"step"}
  PROVE  ChainOK([x EXCEPT !.stage = s]) /\ [x EXCEPT !.stage = s].stage = s
BY DEF ChainOK, Follows, Bounded, ChainSet

LEMMA CaughtOK ==
  ASSUME TypeOK, NEW c \in Chains, ChainOK(chain[c]), chain[c].mode = "chain"
  PROVE  ChainOK(Caught(c)) /\ Caught(c).stage = "finish"
<1>1. chain[c] \in ChainSet /\ chain[c].log \in Seq(Entries) /\ LogCap \in Nat
  BY LogTypes
<1>2. /\ Caught(c).log = Append(chain[c].log, Note("error", FALSE))
      /\ Caught(c).stage = "finish" /\ Caught(c).mode = "caught"
  BY <1>1 DEF Caught, ChainSet
<1>3. Capped(Caught(c).log)
  BY <1>1, <1>2, CappedError DEF ChainOK, Bounded
<1>4. QED
  BY <1>2, <1>3 DEF ChainOK, Follows, Bounded

\* A chain that is resumed where its log leads to, or refused.
LEMMA ResumedOK ==
  ASSUME TypeOK, NEW r \in Rows, NEW at, NEW log \in Seq(Entries),
         Capped(log),
         workflowExists /\ credential => at = Implied(log)
  PROVE  ChainOK(Resumed(r, at, log)) /\ Resumed(r, at, log).stage \in {"step", "finish"}
<1>1. LogCap \in Nat /\ Len(log) \in Nat
  BY LogTypes
<1>2. CASE workflowExists /\ credential
  <2>1. /\ Resumed(r, at, log).stage = "step" /\ Resumed(r, at, log).at = at
        /\ Resumed(r, at, log).log = log
    BY <1>2 DEF Resumed, Running, NoChain
  <2>2. QED
    BY <1>1, <1>2, <2>1 DEF ChainOK, Follows, Bounded
<1>3. CASE ~(workflowExists /\ credential)
  <2>1. /\ Resumed(r, at, log).stage = "finish" /\ Resumed(r, at, log).mode = "refused"
        /\ Resumed(r, at, log).log = Append(log, Note("error", FALSE))
    BY <1>3 DEF Resumed, NoChain
  <2>2. Capped(Append(log, Note("error", FALSE)))
    BY <1>1, CappedError
  <2>3. QED
    BY <2>1, <2>2 DEF ChainOK, Follows, Bounded
<1>4. QED
  BY <1>2, <1>3

\* A step that changes one chain to one that is well-formed and no resume to be.
LEMMA OneChain ==
  ASSUME TypeOK, LogInv, NEW c \in Chains, NEW y,
         chain' = [chain EXCEPT ![c] = y], ChainOK(y),
         y.stage \notin {"reported", "taken", "dispatched"},
         chain[c].stage # "idle" \/ \A r \in Rows : c # Timer(r),
         UNCHANGED <<row, tracking>>
  PROVE  LogInv'
<1>1. chain'[c] = y /\ \A b \in Chains \ {c} : chain'[b] = chain[b]
  BY LogTypes
<1>2. \A b \in Chains : ChainOK(chain'[b])
  BY <1>1 DEF LogInv
<1>3. ASSUME NEW r \in Rows PROVE Link(r)'
  BY <1>1, ChainIds DEF LogInv, Links, Link, TokenUsed
<1>4. QED
  BY <1>1, <1>2, <1>3 DEF LogInv, Links

LEMMA StepKeepsLog ==
  ASSUME TypeOK, LogInv, NEW c \in Chains, RunStep(c) \/ Recover(c)
  PROVE  LogInv'
<1> DEFINE x == chain[c]
<1>1. /\ x \in ChainSet /\ x.log \in Seq(Entries) /\ x.stage = "step" /\ Len(x.log) < LogCap
      /\ LogCap \in Nat /\ Len(x.log) \in Nat /\ x.at \in Steps /\ chain \in [Chains -> ChainSet]
      /\ UNCHANGED <<row, tracking>>
  BY LogTypes, MoreTypes DEF RunStep, Recover
<1>2. CASE RunStep(c)
  <2>1. PICK ok \in BOOLEAN :
          chain' = [chain EXCEPT ![c] =
            [x EXCEPT !.log = Append(x.log, StepEntry(x.at, ok)), !.at = Succ(x.at, ok)]]
    BY <1>1, <1>2 DEF RunStep
  <2> DEFINE y == [x EXCEPT !.log = Append(x.log, StepEntry(x.at, ok)), !.at = Succ(x.at, ok)]
  <2>2. y.stage = "step" /\ y.at = Succ(x.at, ok) /\ y.log = Append(x.log, StepEntry(x.at, ok))
    BY <1>1 DEF ChainSet
  <2>3. Implied(y.log) = y.at /\ Capped(y.log)
    <3>1. Capped(x.log)
      BY DEF LogInv, ChainOK, Bounded
    <3>2. StepEntry(x.at, ok) \in Entries /\ StepEntry(x.at, ok).kind = "step"
      BY <1>1, StepEntryType DEF StepEntry
    <3>3. QED
      BY <1>1, <2>2, <3>1, <3>2, CappedAppend, ImpliedStep
  <2>4. ChainOK(y) /\ y.stage \notin {"reported", "taken", "dispatched"}
    BY <1>1, <2>2, <2>3 DEF ChainOK, Follows, Bounded
  <2> HIDE DEF y
  <2>5. chain' = [chain EXCEPT ![c] = y]
    BY <2>1 DEF y
  <2>6. QED
    BY <1>1, <2>4, <2>5, OneChain
<1>3. CASE Recover(c)
  <2>1. PICK log \in Seq(Entries) :
          /\ chain' = [chain EXCEPT ![c] =
               [x EXCEPT !.log = log, !.at = End, !.stage = "finish"]]
          /\ \A k \in DOMAIN log : IF k <= Len(x.log) THEN log[k] = x.log[k]
                                    ELSE log[k].kind = "recovery"
    BY <1>1, <1>3, RecoverEffect
  <2> DEFINE y == [x EXCEPT !.log = log, !.at = End, !.stage = "finish"]
  <2>2. y.stage = "finish" /\ y.log = log
    BY <1>1 DEF ChainSet
  <2>3. Capped(log)
    BY <1>1, <2>1 DEF Capped
  <2>4. ChainOK(y) /\ y.stage \notin {"reported", "taken", "dispatched"}
    BY <2>2, <2>3 DEF ChainOK, Follows, Bounded
  <2> HIDE DEF y
  <2>5. chain' = [chain EXCEPT ![c] = y]
    BY <2>1 DEF y
  <2>6. QED
    BY <1>1, <2>4, <2>5, OneChain
<1>4. QED
  BY <1>2, <1>3

\* A step that writes a new row, and puts the chain out of its loop.
LEMMA NewRow ==
  ASSUME TypeOK, LogInv, NEW c \in Chains, NEW r \in Rows, NEW x, NEW y,
         row[r].stage = "unused", row' = [row EXCEPT ![r] = x], chain' = [chain EXCEPT ![c] = y],
         RowOK(x), ChainOK(y), x.stage # "unused",
         chain[c].stage = "step", y.stage \in {"waiting", "dispatched"}, y.row = r,
         \A q \in Rows \ {r} : tracking'[q] = tracking[q],
         tracking'[r] # "none" => x.kind = "script"
  PROVE  LogInv'
<1>1. /\ chain'[c] = y /\ \A b \in Chains \ {c} : chain'[b] = chain[b]
      /\ row'[r] = x /\ \A q \in Rows \ {r} : row'[q] = row[q]
  BY LogTypes
<1>2. (\A b \in Chains : ChainOK(chain'[b])) /\ \A q \in Rows : RowOK(row'[q])
  BY <1>1 DEF LogInv
<1>3. ~TokenUsed(r)'
  BY <1>1, ChainIds DEF LogInv, Links, Link, TokenUsed
<1>4. ASSUME NEW q \in Rows PROVE Link(q)'
  <2>1. CASE q = r
    BY <1>1, <1>3, <2>1 DEF Link
  <2>2. CASE q # r
    BY <1>1, <2>2, ChainIds DEF LogInv, Links, Link, TokenUsed
  <2>3. QED
    BY <2>1, <2>2
<1>5. \A b \in Chains : chain'[b].stage = "dispatched" =>
        chain'[b].row \in Rows /\ row'[chain'[b].row].stage # "unused"
  BY <1>1 DEF LogInv, Links
<1>6. QED
  BY <1>2, <1>4, <1>5 DEF LogInv, Links

\* The rows and chains that a wait step and a script step leave behind.
LEMMA ParkedChainOK ==
  ASSUME NEW x \in ChainSet, NEW log \in Seq(Entries), Len(log) <= LogCap, LogCap \in Nat,
         NEW s \in {"waiting", "dispatched"}, NEW r \in Rows
  PROVE  LET y == [x EXCEPT !.stage = s, !.log = log, !.row = r]
         IN ChainOK(y) /\ y.stage = s /\ y.row = r
<1> DEFINE y == [x EXCEPT !.stage = s, !.log = log, !.row = r]
<1>1. y.stage = s /\ y.log = log /\ y.row = r
  BY DEF ChainSet
<1> HIDE DEF y
<1>2. ChainOK(y)
  BY <1>1, CappedShort DEF ChainOK, Follows, Bounded
<1>3. QED
  BY <1>1, <1>2 DEF y

LEMMA ParkedRowOK ==
  ASSUME NEW log \in Seq(Entries), Len(log) <= LogCap, Len(log) > 0, NEW at \in Steps,
         log[Len(log)] = StepEntry(at, TRUE), NEW s \in {"parked", "reserved"}, NEW d, NEW f,
         NEW k \in {"timer", "script"}, k = "script" => f = Succ(at, FALSE)
  PROVE  LET z == [stage |-> s, device |-> d, kind |-> k, next |-> Succ(at, TRUE),
                   onFailure |-> f, log |-> log]
         IN RowOK(z) /\ z.stage # "unused" /\ z.kind = k
<1> DEFINE z == [stage |-> s, device |-> d, kind |-> k, next |-> Succ(at, TRUE),
                 onFailure |-> f, log |-> log]
<1>1. /\ z.stage = s /\ z.kind = k /\ z.next = Succ(at, TRUE) /\ z.onFailure = f /\ z.log = log
  OBVIOUS
<1>2. LET e == log[Len(log)] IN e.kind = "step" /\ e.step = at /\ e.ok = TRUE
  BY DEF StepEntry
<1> HIDE DEF z
<1>3. RowOK(z)
  BY <1>1, <1>2 DEF RowOK, Parked
<1>4. QED
  BY <1>1, <1>3 DEF z

LEMMA ParkKeepsLog ==
  ASSUME TypeOK, LogInv, NEW c \in Chains, Park(c) \/ Dispatch(c)
  PROVE  LogInv'
<1> DEFINE x == chain[c]
           log == Append(x.log, StepEntry(x.at, TRUE))
<1>1. More(c)
  BY DEF Park, Dispatch
<1>2. /\ x \in ChainSet /\ x.log \in Seq(Entries) /\ Len(x.log) < LogCap /\ Len(x.log) \in Nat
      /\ LogCap \in Nat /\ x.at \in Steps /\ x.stage = "step" /\ chain \in [Chains -> ChainSet]
      /\ tracking \in [Rows -> {"none", "awaiting", "succeeded", "failed"}]
  BY <1>1, LogTypes, MoreTypes DEF TypeOK
<1>3. StepEntry(x.at, TRUE) \in Entries
  BY <1>2, StepEntryType
<1>4. /\ log \in Seq(Entries) /\ Len(log) = Len(x.log) + 1
      /\ log[Len(log)] = StepEntry(x.at, TRUE)
  BY <1>2, <1>3, AppendLast
<1>5. Len(log) <= LogCap /\ Len(log) > 0
  BY <1>2, <1>4
<1> HIDE DEF log
<1>7. CASE Park(c)
  <2>1. PICK r \in Rows :
          /\ row[r].stage = "unused"
          /\ row' = [row EXCEPT ![r] =
               [stage |-> "parked", device |-> x.device, kind |-> "timer",
                next |-> Succ(x.at, TRUE), onFailure |-> End, log |-> log]]
          /\ chain' = [chain EXCEPT ![c] = [x EXCEPT !.stage = "waiting", !.log = log, !.row = r]]
    BY <1>2, <1>7 DEF Park, NextRow, log
  <2>2. tracking' = tracking /\ tracking[r] = "none"
    BY <1>7, <2>1 DEF Park, LogInv, Links, Link
  <2> DEFINE z == [stage |-> "parked", device |-> x.device, kind |-> "timer",
                   next |-> Succ(x.at, TRUE), onFailure |-> End, log |-> log]
             y == [x EXCEPT !.stage = "waiting", !.log = log, !.row = r]
  <2>3. ChainOK(y) /\ y.stage = "waiting" /\ y.row = r
    BY <1>2, <1>4, <1>5, ParkedChainOK
  <2>4. RowOK(z) /\ z.stage # "unused"
    BY <1>2, <1>4, <1>5, ParkedRowOK
  <2> HIDE DEF y, z
  <2>5. row' = [row EXCEPT ![r] = z] /\ chain' = [chain EXCEPT ![c] = y]
    BY <2>1 DEF y, z
  <2>6. /\ chain[c].stage = "step" /\ row[r].stage = "unused"
        /\ \A q \in Rows \ {r} : tracking'[q] = tracking[q]
        /\ tracking'[r] # "none" => z.kind = "script"
    BY <1>2, <2>1, <2>2
  <2>7. RowOK(z) /\ z.stage # "unused" /\ ChainOK(y) /\ y.stage \in {"waiting", "dispatched"}
        /\ y.row = r
    BY <2>3, <2>4
  <2> HIDE DEF x, log
  <2>8. QED
    BY <2>5, <2>6, <2>7, NewRow
<1>8. CASE Dispatch(c)
  <2>1. PICK r \in Rows, recorded \in BOOLEAN :
          /\ row[r].stage = "unused"
          /\ tracking' = [tracking EXCEPT ![r] = IF recorded THEN "awaiting" ELSE "none"]
          /\ row' = [row EXCEPT ![r] =
               [stage |-> "reserved", device |-> x.device, kind |-> "script",
                next |-> Succ(x.at, TRUE), onFailure |-> Succ(x.at, FALSE), log |-> log]]
          /\ chain' = [chain EXCEPT ![c].stage = "dispatched", ![c].log = log, ![c].row = r]
    BY <1>8, Zenon DEF Dispatch, NextRow, log
  <2> DEFINE z == [stage |-> "reserved", device |-> x.device, kind |-> "script",
                   next |-> Succ(x.at, TRUE), onFailure |-> Succ(x.at, FALSE), log |-> log]
             y == [x EXCEPT !.stage = "dispatched", !.log = log, !.row = r]
  <2>2. \A q \in Rows \ {r} : tracking'[q] = tracking[q]
    BY <1>2, <2>1
  <2>3. ChainOK(y) /\ y.stage = "dispatched" /\ y.row = r
    BY <1>2, <1>4, <1>5, ParkedChainOK
  <2>4. RowOK(z) /\ z.stage # "unused" /\ z.kind = "script"
    BY <1>2, <1>4, <1>5, ParkedRowOK
  <2>5. chain' = [chain EXCEPT ![c] = y]
    BY <1>2, <2>1
  <2> HIDE DEF y, z
  <2>6. row' = [row EXCEPT ![r] = z]
    BY <2>1 DEF z
  <2>7. /\ chain[c].stage = "step" /\ row[r].stage = "unused"
        /\ tracking'[r] # "none" => z.kind = "script"
    BY <1>2, <2>1, <2>4
  <2>8. RowOK(z) /\ z.stage # "unused" /\ ChainOK(y) /\ y.stage \in {"waiting", "dispatched"}
        /\ y.row = r
    BY <2>3, <2>4
  <2> HIDE DEF x, log
  <2>9. QED
    BY <2>2, <2>5, <2>6, <2>7, <2>8, NewRow
<1>9. QED
  BY <1>7, <1>8

\* Moves of a row that was written, and of the chains that resume it.
LEMMA RowMoves ==
  ASSUME TypeOK, LogInv, NEW c \in Chains, NEW y, NEW r \in Rows, NEW s,
         row[r].stage # "unused", s \in {"parked", "claimed", "deleted"},
         row' = [row EXCEPT ![r].stage = s] \/ row' = row,
         chain' = [chain EXCEPT ![c] = y], ChainOK(y), UNCHANGED tracking,
         chain[c].stage # "idle" \/ c = Timer(r),
         y.stage # "dispatched",
         y.stage \in {"reported", "taken"} => c = Token(r) /\ tracking[r] # "none"
  PROVE  LogInv'
<1>1. /\ chain'[c] = y /\ \A b \in Chains \ {c} : chain'[b] = chain[b]
      /\ row'[r].stage # "unused" /\ \A q \in Rows \ {r} : row'[q] = row[q]
      /\ row'[r].log = row[r].log /\ row'[r].next = row[r].next /\ row'[r].kind = row[r].kind
      /\ row'[r].onFailure = row[r].onFailure
  <2>1. chain \in [Chains -> ChainSet] /\ row \in [Rows -> RowSet]
    BY LogTypes
  <2>2. CASE row' = [row EXCEPT ![r].stage = s]
    BY <2>1, <2>2 DEF RowSet
  <2>3. CASE row' = row
    BY <2>1, <2>3
  <2>4. QED
    BY <2>2, <2>3
<1>2. \A b \in Chains : ChainOK(chain'[b])
  BY <1>1 DEF LogInv
<1>3. ASSUME NEW q \in Rows PROVE RowOK(row'[q])
  <2>1. RowOK(row[q])
    BY DEF LogInv
  <2>2. CASE q = r
    BY <1>1, <2>1, <2>2 DEF RowOK, Parked
  <2>3. QED
    BY <1>1, <2>1, <2>2
<1>4. ASSUME NEW q \in Rows PROVE Link(q)'
  <2>1. \A p \in Rows : Timer(p) = Timer(q) \/ Token(p) = Token(q) => p = q
    BY DEF Timer, Token
  <2>2. CASE q = r
    BY <1>1, <2>2, ChainIds DEF LogInv, Links, Link, TokenUsed
  <2>3. CASE q # r
    BY <1>1, <2>1, <2>3, ChainIds DEF LogInv, Links, Link, TokenUsed
  <2>4. QED
    BY <2>2, <2>3
<1>5. \A b \in Chains : chain'[b].stage = "dispatched" =>
        chain'[b].row \in Rows /\ row'[chain'[b].row].stage # "unused"
  BY <1>1 DEF LogInv, Links
<1>6. QED
  BY <1>2, <1>3, <1>4, <1>5 DEF LogInv, Links

LEMMA ResumeKeepsLog ==
  ASSUME TypeOK, LogInv, NEW r \in Rows, ClaimDue(r) \/ ResumeRow(r) \/ Report(r)
  PROVE  LogInv'
<1>0. /\ chain \in [Chains -> ChainSet] /\ row \in [Rows -> RowSet]
      /\ Timer(r) \in Chains /\ Token(r) \in Chains
      /\ row[r].log \in Seq(Entries) /\ Len(row[r].log) \in Nat /\ LogCap \in Nat
      /\ Len(row[r].log) <= LogCap
      /\ ChainOK(chain[Timer(r)]) /\ ChainOK(chain[Token(r)])
      /\ chain[Timer(r)] \in ChainSet /\ chain[Token(r)] \in ChainSet
  BY LogTypes, ChainIds DEF LogInv, RowOK
<1>1. ASSUME NEW ok \in BOOLEAN, row[r].stage # "unused"
      PROVE  /\ Implied(Append(row[r].log, Note("result", ok))) = Succ(StepOf(r), ok)
             /\ Append(row[r].log, Note("result", ok)) \in Seq(Entries)
             /\ Capped(Append(row[r].log, Note("result", ok)))
  <2>1. Len(row[r].log) > 0
    BY <1>1 DEF LogInv, RowOK, Parked
  <2>2. Implied(Append(row[r].log, Note("result", ok))) = Succ(StepOf(r), ok)
    BY <1>0, <2>1, ImpliedNote DEF StepOf
  <2>3. /\ Append(row[r].log, Note("result", ok)) \in Seq(Entries)
        /\ Capped(Append(row[r].log, Note("result", ok)))
    <3>1. Note("result", ok) \in Entries /\ Note("result", ok).kind = "result"
      BY NoteType DEF Note
    <3>2. QED
      BY <1>0, <3>1, AppendLast, CappedShort, CappedAppend
  <2>4. QED
    BY <1>0, <2>2, <2>3
<1>10. ASSUME row[r].stage # "unused"
       PROVE  /\ Implied(row[r].log) = Succ(StepOf(r), TRUE)
              /\ row[r].next = Succ(StepOf(r), TRUE)
              /\ row[r].kind = "script" => row[r].onFailure = Succ(StepOf(r), FALSE)
  <2>1. Parked(row[r])
    BY DEF LogInv, RowOK
  <2>2. Implied(row[r].log) = Succ(StepOf(r), TRUE)
    BY <1>0, <1>10, <2>1, ImpliedParked DEF Parked, StepOf
  <2>3. QED
    BY <1>10, <2>1, <2>2 DEF Parked, StepOf
<1>2. CASE ClaimDue(r)
  <2>1. /\ row[r].stage = "parked" /\ row' = [row EXCEPT ![r].stage = "claimed"]
        /\ chain' = [chain EXCEPT ![Timer(r)] = [chain[Timer(r)] EXCEPT !.stage = "claimed"]]
        /\ tracking' = tracking
    BY <1>0, <1>2 DEF ClaimDue
  <2>2. /\ ChainOK([chain[Timer(r)] EXCEPT !.stage = "claimed"])
        /\ [chain[Timer(r)] EXCEPT !.stage = "claimed"].stage = "claimed"
    BY <1>0, OtherStage, StageTypes
  <2>3. QED
    BY <1>0, <2>1, <2>2, RowMoves
<1>3. CASE TimerResume(r)
  <2>1. /\ row[r].stage # "unused" /\ UNCHANGED <<row, tracking>> /\ chain[Timer(r)].stage # "idle"
    BY <1>3 DEF TimerResume, LogInv, Links, Link
  <2>2. PICK at \in Steps \cup {End}, log \in Seq(Entries) :
          /\ chain' = [chain EXCEPT ![Timer(r)] = Resumed(r, at, log)]
          /\ Capped(log) /\ (workflowExists /\ credential => at = Implied(log))
    <3>0. row[r].next \in Steps \cup {End} /\ row[r].onFailure \in Steps \cup {End}
          /\ row[r].kind \in {"timer", "script"}
      BY LogTypes DEF RowSet
    <3>1. CASE row[r].kind = "timer"
      <4>1. chain' = [chain EXCEPT ![Timer(r)] = Resumed(r, row[r].next, row[r].log)]
        BY <1>3, <3>1 DEF TimerResume
      <4>2. row[r].next = Implied(row[r].log)
        BY <1>10, <2>1
      <4>3. Capped(row[r].log)
        BY <1>0, CappedShort
      <4>4. QED
        BY <1>0, <3>0, <4>1, <4>2, <4>3
    <3>2. CASE row[r].kind = "script" /\ workflowExists /\ credential
      <4> DEFINE log == Append(row[r].log, Note("result", FALSE))
      <4>1. chain' = [chain EXCEPT ![Timer(r)] = Resumed(r, row[r].onFailure, log)]
        BY <1>3, <3>2 DEF TimerResume
      <4>2. log \in Seq(Entries) /\ Capped(log) /\ row[r].onFailure = Implied(log)
        BY <1>1, <1>10, <2>1, <3>2
      <4> HIDE DEF log
      <4>3. QED
        BY <3>0, <4>1, <4>2
    <3>3. CASE row[r].kind = "script" /\ ~(workflowExists /\ credential)
      <4>1. chain' = [chain EXCEPT ![Timer(r)] = Resumed(r, row[r].onFailure, row[r].log)]
        BY <1>3, <3>3 DEF TimerResume
      <4>2. Capped(row[r].log)
        BY <1>0, CappedShort
      <4>3. QED
        BY <1>0, <3>0, <3>3, <4>1, <4>2
    <3>4. QED
      BY <3>0, <3>1, <3>2, <3>3
  <2>3. ChainOK(Resumed(r, at, log)) /\ Resumed(r, at, log).stage \in {"step", "finish"}
    BY <2>2, ResumedOK
  <2>4. QED
    BY <1>0, <2>1, <2>2, <2>3, OneChain
<1>4. CASE Cleanup(r)
  <2>1. /\ chain[Timer(r)].stage = "cleanup" /\ row' = [row EXCEPT ![r].stage = "deleted"]
        /\ chain' = [chain EXCEPT ![Timer(r)] = [chain[Timer(r)] EXCEPT !.stage = "ended"]]
        /\ tracking' = tracking
    BY <1>0, <1>4 DEF Cleanup
  <2>2. /\ ChainOK([chain[Timer(r)] EXCEPT !.stage = "ended"])
        /\ [chain[Timer(r)] EXCEPT !.stage = "ended"].stage = "ended"
    BY <1>0, OtherStage, StageTypes
  <2>3. row[r].stage # "unused"
    BY <2>1 DEF LogInv, Links, Link
  <2>4. QED
    BY <1>0, <2>1, <2>2, <2>3, RowMoves
<1>5. CASE TakeRow(r)
  <2>1. tracking[r] # "none" /\ row[r].stage # "unused" /\ chain[Token(r)].stage # "idle"
    BY <1>5 DEF TakeRow, LogInv, Links, Link, TokenUsed
  <2>2. PICK s \in {"taken", "ended"} :
          /\ chain' = [chain EXCEPT ![Token(r)] = [chain[Token(r)] EXCEPT !.stage = s]]
          /\ row' = [row EXCEPT ![r].stage = "deleted"] \/ row' = row
          /\ tracking' = tracking
    BY <1>0, <1>5 DEF TakeRow
  <2>3. /\ ChainOK([chain[Token(r)] EXCEPT !.stage = s])
        /\ [chain[Token(r)] EXCEPT !.stage = s].stage = s
    BY <1>0, OtherStage, StageTypes
  <2>4. QED
    BY <1>0, <2>1, <2>2, <2>3, RowMoves
<1>6. CASE TokenResume(r)
  <2>1. /\ row[r].stage # "unused" /\ row[r].kind = "script" /\ UNCHANGED <<row, tracking>>
        /\ chain[Token(r)].stage # "idle"
    BY <1>6 DEF TokenResume, LogInv, Links, Link, TokenUsed
  <2>2. PICK ok \in BOOLEAN :
          chain' = [chain EXCEPT ![Token(r)] =
            Resumed(r, IF ok THEN row[r].next ELSE row[r].onFailure,
                    Append(row[r].log, Note("result", ok)))]
    BY <1>6 DEF TokenResume
  <2> DEFINE at == IF ok THEN row[r].next ELSE row[r].onFailure
             log == Append(row[r].log, Note("result", ok))
  <2>3. log \in Seq(Entries) /\ Capped(log) /\ at = Implied(log)
    BY <1>1, <1>10, <2>1
  <2> HIDE DEF at, log
  <2>4. ChainOK(Resumed(r, at, log)) /\ Resumed(r, at, log).stage \in {"step", "finish"}
    BY <2>3, ResumedOK
  <2>5. chain' = [chain EXCEPT ![Token(r)] = Resumed(r, at, log)]
    BY <2>2 DEF at, log
  <2>6. QED
    BY <1>0, <2>1, <2>4, <2>5, OneChain
<1>7. CASE Report(r)
  <2>1. /\ tracking[r] = "awaiting" /\ row' = row
        /\ chain' = [chain EXCEPT ![Token(r)] = [chain[Token(r)] EXCEPT !.stage = "reported"]]
    BY <1>0, <1>7 DEF Report
  <2>2. tracking'[r] # "none" /\ \A q \in Rows \ {r} : tracking'[q] = tracking[q]
    BY <1>7 DEF Report, TypeOK
  <2>3. /\ ChainOK([chain[Token(r)] EXCEPT !.stage = "reported"])
        /\ [chain[Token(r)] EXCEPT !.stage = "reported"].stage = "reported"
    BY <1>0, OtherStage, StageTypes
  <2>4. /\ chain'[Token(r)].stage = "reported" /\ ChainOK(chain'[Token(r)])
        /\ \A b \in Chains \ {Token(r)} : chain'[b] = chain[b]
    BY <1>0, <2>1, <2>3
  <2>5. \A q \in Rows : Timer(q) # Token(r) /\ (Token(q) = Token(r) => q = r)
    BY DEF Timer, Token
  <2>6. ASSUME NEW q \in Rows PROVE Link(q)'
    BY <2>1, <2>2, <2>4, <2>5, ChainIds DEF LogInv, Links, Link, TokenUsed
  <2>7. QED
    BY <2>1, <2>4, <2>6 DEF LogInv, Links
<1>8. QED
  BY <1>2, <1>3, <1>4, <1>5, <1>6, <1>7 DEF ResumeRow

LEMMA AdvanceKeepsLog ==
  ASSUME TypeOK, LogInv, NEW c \in Chains, Advance(c)
  PROVE  LogInv'
<1>0. /\ chain \in [Chains -> ChainSet] /\ chain[c] \in ChainSet /\ ChainOK(chain[c])
      /\ row \in [Rows -> RowSet]
  BY LogTypes DEF LogInv
<1>1. ASSUME NEW s \in Stages \ {"step", "reported", "taken", "dispatched"},
             chain[c].stage # "idle",
             chain' = [chain EXCEPT ![c] = [chain[c] EXCEPT !.stage = s]], UNCHANGED <<row, tracking>>
      PROVE  LogInv'
  BY <1>0, <1>1, OtherStage, OneChain
<1>2. CASE MarkWaiting(c) \/ FinalizeWrite(c)
  BY <1>2, BlankOK, OneChain DEF MarkWaiting, FinalizeWrite
<1>3. CASE LoopExit(c)
  <2>1. chain' = [chain EXCEPT ![c] = [chain[c] EXCEPT !.stage = "finish"]] /\ chain[c].stage # "idle"
    BY <1>0, <1>3 DEF LoopExit
  <2>2. QED
    BY <1>1, <1>3, <2>1, StageTypes DEF LoopExit
<1>4. CASE Finish(c)
  <2>1. chain' = [chain EXCEPT ![c] = [chain[c] EXCEPT !.stage = "read"]] /\ chain[c].stage # "idle"
    BY <1>0, <1>4 DEF Finish
  <2>2. QED
    BY <1>1, <1>4, <2>1, StageTypes DEF Finish
<1>5. CASE FinalizeRead(c)
  <2> DEFINE y == [chain[c] EXCEPT !.stage = "write", !.seen = results]
  <2>1. y.stage = "write" /\ ChainOK(y)
    BY <1>0 DEF ChainOK, Follows, Bounded, ChainSet
  <2> HIDE DEF y
  <2>2. chain' = [chain EXCEPT ![c] = y] \/ chain' = [chain EXCEPT ![c] = Returned(c)]
    BY <1>5 DEF FinalizeRead, y
  <2>3. UNCHANGED <<row, tracking>> /\ chain[c].stage # "idle"
    BY <1>5 DEF FinalizeRead
  <2>4. QED
    BY <2>1, <2>2, <2>3, BlankOK, OneChain
<1>6. CASE PersistScript(c)
  <2>1. /\ row' = [row EXCEPT ![chain[c].row].stage = "parked"] /\ tracking' = tracking
        /\ chain' = [chain EXCEPT ![c] = [chain[c] EXCEPT !.stage = "waiting"]]
    BY <1>0, <1>6 DEF PersistScript
  <2>2. ChainOK([chain[c] EXCEPT !.stage = "waiting"])
        /\ [chain[c] EXCEPT !.stage = "waiting"].stage = "waiting"
    BY <1>0, OtherStage, StageTypes
  <2>3. chain[c].stage = "dispatched" /\ chain[c].row \in Rows /\ row[chain[c].row].stage # "unused"
    BY <1>6 DEF PersistScript, LogInv, Links
  <2>4. QED
    BY <1>0, <2>1, <2>2, <2>3, RowMoves
<1>7. QED
  BY <1>2, <1>3, <1>4, <1>5, <1>6, StepKeepsLog, ParkKeepsLog DEF Advance

\* What is thrown is caught once, swallowed, or ends the call.
LEMMA ThrowKeepsLog ==
  ASSUME TypeOK, LogInv, NEW c \in Chains, Throw(c)
  PROVE  LogInv'
<1> DEFINE x == chain[c]
           gone == [NoChain EXCEPT !.stage = "ended"]
<1>0. chain \in [Chains -> ChainSet] /\ x \in ChainSet /\ ChainOK(x)
  BY LogTypes DEF LogInv
<1>1. UNCHANGED <<row, tracking>>
  BY DEF Throw
<1>2. \/ x.mode = "chain" /\ x.stage # "idle" /\ chain' = [chain EXCEPT ![c] = Caught(c)]
      \/ x.stage # "idle" /\ chain' = [chain EXCEPT ![c] = [x EXCEPT !.stage = "read"]]
      \/ x.stage # "idle" /\ chain' = [chain EXCEPT ![c] = Returned(c)]
      \/ x.stage # "idle" /\ chain' = [chain EXCEPT ![c] = gone]
  BY <1>0 DEF Throw
<1> HIDE DEF x, gone
<1>3. CASE x.mode = "chain" /\ x.stage # "idle" /\ chain' = [chain EXCEPT ![c] = Caught(c)]
  BY <1>0, <1>1, <1>3, CaughtOK, OneChain DEF x
<1>4. CASE x.stage # "idle" /\ chain' = [chain EXCEPT ![c] = [x EXCEPT !.stage = "read"]]
  <2>1. ChainOK([x EXCEPT !.stage = "read"]) /\ [x EXCEPT !.stage = "read"].stage = "read"
    BY <1>0, OtherStage, StageTypes
  <2>2. QED
    BY <1>0, <1>1, <1>4, <2>1, OneChain DEF x
<1>5. CASE x.stage # "idle" /\ chain' = [chain EXCEPT ![c] = Returned(c)]
  BY <1>0, <1>1, <1>5, BlankOK, OneChain DEF x
<1>6. CASE x.stage # "idle" /\ chain' = [chain EXCEPT ![c] = gone]
  <2>1. ChainOK(gone) /\ gone.stage = "ended"
    BY BlankOK DEF gone
  <2>2. QED
    BY <1>0, <1>1, <1>6, <2>1, OneChain DEF x
<1>7. QED
  BY <1>2, <1>3, <1>4, <1>5, <1>6

\* The launch, its workers, and its end.
LEMMA LaunchKeepsLog ==
  ASSUME TypeOK, LogInv, Launch \/ FanoutDone \/ \E i \in 1..Targets : StartFresh(i)
  PROVE  LogInv'
<1>0. /\ chain \in [Chains -> ChainSet] /\ Launcher \in Chains
      /\ chain[Launcher] \in ChainSet /\ ChainOK(chain[Launcher])
      /\ \A r \in Rows : Launcher # Timer(r)
  BY LogTypes, ChainIds DEF LogInv, Launcher, Timer
<1>1. ASSUME NEW s \in {"fanout", "read"},
             chain' = [chain EXCEPT ![Launcher] = [chain[Launcher] EXCEPT !.stage = s]],
             UNCHANGED <<row, tracking>>
      PROVE  LogInv'
  <2>1. /\ ChainOK([chain[Launcher] EXCEPT !.stage = s])
        /\ [chain[Launcher] EXCEPT !.stage = s].stage = s
    BY <1>0, OtherStage, StageTypes
  <2>2. QED
    BY <1>0, <1>1, <2>1, OneChain
<1>2. CASE Launch
  BY <1>0, <1>1, <1>2 DEF Launch
<1>3. CASE FanoutDone
  BY <1>0, <1>1, <1>3 DEF FanoutDone
<1>4. ASSUME NEW i \in 1..Targets, StartFresh(i) PROVE LogInv'
  <2> DEFINE y == Running(DeviceOf[i], 1, <<>>)
  <2>1. chain' = [chain EXCEPT ![Fresh(i)] = y] /\ UNCHANGED <<row, tracking>>
    BY <1>4 DEF StartFresh
  <2>2. y.stage = "step" /\ y.at = 1 /\ y.log = <<>>
    BY DEF Running, NoChain
  <2>3. Implied(<<>>) = 1 /\ LogCap \in Nat /\ Len(<<>>) = 0
    BY ConfigAssumption DEF Implied, ConfigAssumption
  <2>4. ChainOK(y)
    BY <2>2, <2>3 DEF ChainOK, Follows, Bounded, Capped
  <2>5. Fresh(i) \in Chains /\ \A r \in Rows : Fresh(i) # Timer(r)
    BY ChainIds DEF Fresh, Timer
  <2> HIDE DEF y
  <2>6. y.stage = "step"
    BY <2>2
  <2>7. QED
    BY <2>1, <2>4, <2>5, <2>6, OneChain
<1>5. QED
  BY <1>2, <1>3, <1>4

\* A crash leaves no chain but those that never began.
LEMMA CrashKeepsLog ==
  ASSUME TypeOK, LogInv, Crash
  PROVE  LogInv'
<1> DEFINE gone == [NoChain EXCEPT !.stage = "ended"]
<1>1. UNCHANGED <<row, tracking>>
  BY DEF Crash
<1>2. \A c \in Chains : chain'[c] = IF chain[c].stage = "idle" THEN chain[c] ELSE gone
  BY DEF Crash
<1>3. ChainOK(gone) /\ gone.stage = "ended"
  BY BlankOK
<1> HIDE DEF gone
<1>4. \A c \in Chains : ChainOK(chain'[c])
  BY <1>2, <1>3 DEF LogInv
<1>5. \A c \in Chains : chain'[c].stage \in {"idle", "ended"}
  BY <1>2, <1>3
<1>6. ASSUME NEW r \in Rows PROVE Link(r)'
  BY <1>1, <1>2, <1>5, ChainIds DEF LogInv, Links, Link, TokenUsed
<1>7. \A c \in Chains : chain'[c].stage # "dispatched"
  BY <1>5
<1>8. QED
  BY <1>1, <1>4, <1>6, <1>7 DEF LogInv, Links

LEMMA LogStep == TypeOK /\ LogInv /\ [Next]_vars => LogInv'
<1> SUFFICES ASSUME TypeOK, LogInv, [Next]_vars PROVE LogInv'
  OBVIOUS
<1>1. ASSUME UNCHANGED <<chain, row, tracking>> PROVE LogInv'
  BY <1>1 DEF LogInv, Links, Link, TokenUsed
<1>2. CASE UNCHANGED vars
  BY <1>1, <1>2 DEF vars
<1>3. CASE DeleteWorkflow \/ ChangeCredential
  BY <1>1, <1>3 DEF DeleteWorkflow, ChangeCredential
<1>4. CASE Launch \/ FanoutDone \/ \E i \in 1..Targets : StartFresh(i)
  BY <1>4, LaunchKeepsLog
<1>5. CASE Crash
  BY <1>5, CrashKeepsLog
<1>6. ASSUME NEW c \in Chains, Advance(c) \/ Throw(c) PROVE LogInv'
  BY <1>6, AdvanceKeepsLog, ThrowKeepsLog
<1>7. ASSUME NEW r \in Rows, ClaimDue(r) \/ ResumeRow(r) \/ Report(r) PROVE LogInv'
  BY <1>7, ResumeKeepsLog
<1>8. QED
  BY <1>2, <1>3, <1>4, <1>5, <1>6, <1>7 DEF Next

LEMMA LogInit == Init => LogInv
<1> SUFFICES ASSUME Init PROVE LogInv
  OBVIOUS
<1>1. /\ \A c \in Chains : chain[c] = NoChain
      /\ \A r \in Rows : row[r] = NoRow /\ tracking[r] = "none"
  BY DEF Init
<1>2. NoChain.stage = "idle"
  BY DEF NoChain
<1>3. Links
  BY <1>1, <1>2, ChainIds DEF Links, Link, TokenUsed
<1>4. QED
  BY <1>1, <1>3, BlankOK DEF LogInv

\* Whatever parks, resumes, late answers, exceptions and crashes a chain went
\* through, it stands where its log leads to: resumeOne and the token resume skip
\* no step and repeat none.
THEOREM LogsFollowed == Spec => []AtFollowsLog
<1>1. LogInv => AtFollowsLog
  BY DEF LogInv, ChainOK, Follows, AtFollowsLog
<1>2. QED
  BY <1>1, LogInit, LogStep, TypeCorrect, PTL DEF Spec

\* The loop guard of runDeviceStepChain bounds the steps of all of a device's chains
\* together: the rows carry the log, so a cyclic workflow ends, whatever recoveries
\* and errors write after it.
THEOREM LogsBounded == Spec => []LogBounded
<1>1. LogInv => LogBounded
  BY DEF LogInv, ChainOK, Bounded, Capped, RowOK, LogBounded
<1>2. QED
  BY <1>1, LogInit, LogStep, TypeCorrect, PTL DEF Spec

---------------------------------------------------------------------------
(***************************************************************************)
(* What the engine promises its callers: the steps of WorkflowRun.         *)
(***************************************************************************)

\* The bounds of the promise: no device is listed twice, no call fails, and a row
\* is neither resumed before its parking is done nor answered after its timer.  The
\* process may crash, and workflow and credential may go away.
Orderly ==
  /\ \A i, j \in 1..Targets : DeviceOf[i] = DeviceOf[j] => i = j
  /\ MaxFaults = 0 /\ ParkSettles /\ AnswersInTime

\* Chain c has device d in its hands: until it has written the device's outcome, or
\* "waiting" for the row that it left.
Walks(c, d) ==
  \/ c[1] = "fresh" /\ chain[c].stage = "idle" /\ DeviceOf[c[2]] = d
  \/ chain[c].stage \in {"step", "dispatched", "waiting", "finish"} /\ chain[c].device = d
  \/ chain[c].stage \in {"claimed", "taken"} /\ row[c[2]].device = d

\* How far a row has come, judging by the chains that act on it.
RowsKeepUp ==
  /\ \A c \in Chains : chain[c].stage = "dispatched" =>
       /\ chain[c].row \in Rows /\ row[chain[c].row].stage = "reserved"
       /\ row[chain[c].row].device = chain[c].device
  /\ \A b, c \in Chains :
       chain[b].stage = "dispatched" /\ chain[c].stage = "dispatched" /\ chain[b].row = chain[c].row
       => b = c
  /\ \A c \in Chains : chain[c].stage = "waiting" =>
       chain[c].row \in Rows /\ Holds(chain[c].row, chain[c].device)
  /\ \A c \in Chains :
       /\ chain[c].stage = "claimed" => c[1] = "timer"
       /\ chain[c].stage \in {"reported", "taken"} => c[1] = "token"
  /\ \A r \in Rows :
       /\ chain[Timer(r)].stage = "claimed" => row[r].stage = "claimed"
       /\ chain[Timer(r)].stage # "idle" => row[r].stage \in {"claimed", "deleted"}
       /\ chain[Token(r)].stage = "reported" => row[r].stage \in {"reserved", "parked"}
       /\ chain[Token(r)].stage = "taken" => row[r].stage = "deleted"
       /\ chain[Token(r)].stage # "idle" => tracking[r] \in {"succeeded", "failed"}
       /\ row[r].stage = "unused" => tracking[r] = "none"

\* The workers have taken the entries before the cursor.
CursorInv == \A i \in 1..Targets : chain[Fresh(i)].stage = "idle" <=> i >= cursor

\* A device is in one pair of hands at a time, or waits in one row, and in none
\* once it has its outcome; a chain and a row have the same device only while the
\* chain is about to write "waiting" for that row.
Turns ==
  \A d \in Devices :
    /\ \A b, c \in Chains : Walks(b, d) /\ Walks(c, d) => b = c
    /\ \A q, r \in Rows : Holds(q, d) /\ Holds(r, d) => q = r
    /\ \A c \in Chains, r \in Rows :
         Walks(c, d) /\ Holds(r, d) => chain[c].stage = "waiting" /\ chain[c].row = r
    /\ results[d] \in Final =>
         /\ \A c \in Chains : ~Walks(c, d)
         /\ \A r \in Rows : ~Holds(r, d)

\* Nothing moves before the launch; a finalization that is about to write has seen
\* the results as they are, and so has the one that wrote.
RunInv ==
  /\ run = "absent" => /\ \A c \in Chains : chain[c].stage = "idle"
                       /\ \A r \in Rows : row[r].stage = "unused"
  /\ \A c \in Chains : chain[c].stage = "write" =>
       chain[c].seen = results /\ \A d \in Devices : results[d] \in Final
  /\ run = "completed" => blob = results /\ \A d \in Devices : results[d] \in Final

PromiseInv == RowsKeepUp /\ CursorInv /\ Turns /\ RunInv

\* A step that takes devices out of hands and rows, and gives no outcome.
LEMMA TurnsShrink ==
  ASSUME Turns,
         \A c \in Chains, d \in Devices : Walks(c, d)' =>
           /\ Walks(c, d)
           /\ chain[c].stage = "waiting" =>
                chain'[c].stage = "waiting" /\ chain'[c].row = chain[c].row,
         \A r \in Rows, d \in Devices : Holds(r, d)' => Holds(r, d),
         \A d \in Devices : results'[d] \in Final => results[d] \in Final
  PROVE  Turns'
BY DEF Turns

\* A step by which chain c leaves its device d0 in row r.
LEMMA TurnsPark ==
  ASSUME Turns, NEW c \in Chains, NEW r \in Rows, NEW d0,
         \A d \in Devices : d = d0 => Walks(c, d), chain[c].stage # "waiting",
         chain'[c].stage = "waiting", chain'[c].row = r,
         \A b \in Chains \ {c} : chain'[b] = chain[b],
         \A b \in Chains, d \in Devices : Walks(b, d)' => Walks(b, d),
         \A q \in Rows, d \in Devices : Holds(q, d)' => Holds(q, d) \/ (q = r /\ d = d0),
         UNCHANGED results
  PROVE  Turns'
<1> SUFFICES ASSUME NEW d \in Devices
             PROVE  /\ \A b, e \in Chains : Walks(b, d)' /\ Walks(e, d)' => b = e
                    /\ \A q, s \in Rows : Holds(q, d)' /\ Holds(s, d)' => q = s
                    /\ \A b \in Chains, s \in Rows :
                         Walks(b, d)' /\ Holds(s, d)' =>
                           chain'[b].stage = "waiting" /\ chain'[b].row = s
                    /\ results'[d] \in Final =>
                         /\ \A b \in Chains : ~Walks(b, d)'
                         /\ \A s \in Rows : ~Holds(s, d)'
  BY DEF Turns
<1>1. CASE d = d0
  <2>1. Walks(c, d) /\ results[d] \notin Final /\ \A q \in Rows : ~Holds(q, d)
    BY <1>1 DEF Turns
  <2>2. QED
    BY <1>1, <2>1 DEF Turns
<1>2. CASE d # d0
  <2>1. ASSUME NEW b \in Chains, Walks(b, d)'
        PROVE  Walks(b, d) /\ (\A s \in Rows : Holds(s, d) =>
                                 chain'[b].stage = "waiting" /\ chain'[b].row = s)
    <3>1. Walks(b, d)
      BY <2>1
    <3>2. ASSUME NEW s \in Rows, Holds(s, d)
          PROVE  chain'[b].stage = "waiting" /\ chain'[b].row = s
      <4>1. chain[b].stage = "waiting" /\ chain[b].row = s
        BY <3>1, <3>2 DEF Turns
      <4>2. QED
        BY <4>1
    <3>3. QED
      BY <3>1, <3>2
  <2>2. QED
    BY <1>2, <2>1 DEF Turns
<1>3. QED
  BY <1>1, <1>2

\* A step by which chain c takes up the device of row r.
LEMMA TurnsResume ==
  ASSUME Turns, NEW c \in Chains, NEW r \in Rows, row[r].stage = "parked",
         \A b \in Chains : ~(chain[b].stage = "waiting" /\ chain[b].row = r),
         \A b \in Chains \ {c} : chain'[b] = chain[b], chain[c].stage # "waiting",
         \A b \in Chains, d \in Devices :
           Walks(b, d)' => Walks(b, d) \/ (b = c /\ d = row[r].device),
         \A q \in Rows, d \in Devices : Holds(q, d)' => Holds(q, d) /\ q # r,
         UNCHANGED results
  PROVE  Turns'
<1> SUFFICES ASSUME NEW d \in Devices
             PROVE  /\ \A b, e \in Chains : Walks(b, d)' /\ Walks(e, d)' => b = e
                    /\ \A q, s \in Rows : Holds(q, d)' /\ Holds(s, d)' => q = s
                    /\ \A b \in Chains, s \in Rows :
                         Walks(b, d)' /\ Holds(s, d)' =>
                           chain'[b].stage = "waiting" /\ chain'[b].row = s
                    /\ results'[d] \in Final =>
                         /\ \A b \in Chains : ~Walks(b, d)'
                         /\ \A s \in Rows : ~Holds(s, d)'
  BY DEF Turns
<1>1. CASE d = row[r].device
  <2>1. Holds(r, d)
    BY <1>1 DEF Holds
  <2>2. results[d] \notin Final /\ (\A b \in Chains : ~Walks(b, d))
        /\ \A q \in Rows : Holds(q, d) => q = r
    BY <2>1 DEF Turns
  <2>3. QED
    BY <1>1, <2>2
<1>2. CASE d # row[r].device
  <2>1. ASSUME NEW b \in Chains, Walks(b, d)', NEW s \in Rows, Holds(s, d)'
        PROVE  chain'[b].stage = "waiting" /\ chain'[b].row = s
    <3>1. Walks(b, d) /\ Holds(s, d)
      BY <1>2, <2>1
    <3>2. chain[b].stage = "waiting" /\ chain[b].row = s
      BY <3>1 DEF Turns
    <3>3. QED
      BY <3>2
  <2>2. QED
    BY <1>2, <2>1 DEF Turns
<1>3. QED
  BY <1>1, <1>2

PromiseCore == RowsKeepUp /\ CursorInv /\ Turns

\* A step of chain c alone, which neither takes up a device nor parks one.
LEMMA QuietRows ==
  ASSUME TypeOK, PromiseCore, NEW c \in Chains, NEW y,
         chain' = [chain EXCEPT ![c] = y], UNCHANGED <<row, tracking, cursor>>,
         chain[c].stage # "idle" \/ c = Launcher,
         y.stage \in {"fanout", "step", "finish", "read", "write", "cleanup", "ended"}
  PROVE  RowsKeepUp' /\ CursorInv'
<1>1. chain'[c] = y /\ \A b \in Chains \ {c} : chain'[b] = chain[b]
  BY DEF TypeOK
<1>2. RowsKeepUp'
  <2>1. \A b \in Chains : chain'[b].stage \in {"dispatched", "waiting", "claimed", "reported", "taken"}
          => chain'[b] = chain[b]
    BY <1>1
  <2>2. \A r \in Rows : chain'[Timer(r)].stage # "idle" => chain[Timer(r)].stage # "idle"
    BY <1>1, ChainIds, ChainShapes
  <2>3. \A r \in Rows : chain'[Token(r)].stage # "idle" => chain[Token(r)].stage # "idle"
    BY <1>1, ChainIds, ChainShapes
  <2>4. QED
    BY <2>1, <2>2, <2>3, ChainIds DEF PromiseCore, RowsKeepUp, Holds
<1>3. CursorInv'
  <2>1. \A i \in 1..Targets : chain'[Fresh(i)].stage = "idle" <=> chain[Fresh(i)].stage = "idle"
    BY <1>1, ChainIds, ChainShapes
  <2>2. QED
    BY <2>1 DEF PromiseCore, CursorInv
<1>4. QED
  BY <1>2, <1>3

LEMMA QuietStep ==
  ASSUME TypeOK, PromiseCore, NEW c \in Chains, NEW y,
         chain' = [chain EXCEPT ![c] = y], UNCHANGED <<row, tracking, cursor>>,
         chain[c].stage # "idle" \/ c = Launcher,
         y.stage \in {"fanout", "step", "finish", "read", "write", "cleanup", "ended"},
         \A d \in Devices : y.stage \in {"step", "finish"} /\ y.device = d =>
           Walks(c, d) /\ chain[c].stage # "waiting",
         \A d \in Devices : results'[d] \in Final => results[d] \in Final
  PROVE  PromiseCore'
<1>1. chain'[c] = y /\ \A b \in Chains \ {c} : chain'[b] = chain[b]
  BY DEF TypeOK
<1>2. RowsKeepUp' /\ CursorInv'
  BY QuietRows
<1>3. Turns'
  <2>1. ASSUME NEW b \in Chains, NEW d \in Devices, Walks(b, d)'
        PROVE  /\ Walks(b, d)
               /\ chain[b].stage = "waiting" =>
                    chain'[b].stage = "waiting" /\ chain'[b].row = chain[b].row
    <3>1. CASE b = c
      BY <1>1, <2>1, <3>1 DEF Walks
    <3>2. CASE b # c
      BY <1>1, <2>1, <3>2 DEF Walks
    <3>3. QED
      BY <3>1, <3>2
  <2>2. \A r \in Rows, d \in Devices : Holds(r, d)' => Holds(r, d)
    BY DEF Holds
  <2>3. QED
    BY <2>1, <2>2, TurnsShrink DEF PromiseCore
<1>4. QED
  BY <1>2, <1>3 DEF PromiseCore

LEMMA QuietActions ==
  ASSUME TypeOK, PromiseCore,
         \/ Launch \/ FanoutDone
         \/ \E c \in Chains : RunStep(c) \/ Recover(c) \/ LoopExit(c) \/ MarkWaiting(c)
                              \/ FinalizeRead(c) \/ FinalizeWrite(c)
         \/ \E r \in Rows : TimerResume(r) \/ TokenResume(r)
  PROVE  PromiseCore'
<1>0. chain \in [Chains -> ChainSet] /\ results \in [Devices -> Statuses]
      /\ \A c \in Chains : chain[c] \in ChainSet
  BY DEF TypeOK
<1>1. CASE Launch \/ FanoutDone
  <2>1. PICK s \in {"fanout", "read"} :
          chain' = [chain EXCEPT ![Launcher] = [chain[Launcher] EXCEPT !.stage = s]]
    BY <1>0, <1>1 DEF Launch, FanoutDone
  <2>2. UNCHANGED <<row, tracking, cursor, results>>
    BY <1>1 DEF Launch, FanoutDone
  <2> DEFINE y == [chain[Launcher] EXCEPT !.stage = s]
  <2>3. y.stage = s
    BY <1>0, ChainIds DEF ChainSet
  <2> HIDE DEF y
  <2>4. QED
    BY <2>1, <2>2, <2>3, QuietStep, ChainIds DEF y
<1>2. ASSUME NEW c \in Chains, RunStep(c) \/ Recover(c) \/ LoopExit(c) PROVE PromiseCore'
  <2>1. chain[c].stage = "step" /\ UNCHANGED <<row, tracking, cursor, results>>
    BY <1>2, LoopEffect
  <2>2. PICK y : /\ chain' = [chain EXCEPT ![c] = y] /\ y.stage \in {"step", "finish"}
                 /\ y.device = chain[c].device
    BY <1>2, LoopEffect
  <2>3. \A d \in Devices : y.device = d => Walks(c, d) /\ chain[c].stage # "waiting"
    BY <2>1, <2>2 DEF Walks
  <2>4. QED
    BY <2>1, <2>2, <2>3, QuietStep
<1>3. ASSUME NEW c \in Chains, MarkWaiting(c) PROVE PromiseCore'
  <2>1. /\ chain[c].stage = "waiting" /\ UNCHANGED <<row, tracking, cursor>>
        /\ chain' = [chain EXCEPT ![c] = Returned(c)]
    BY <1>3 DEF MarkWaiting
  <2>2. \A d \in Devices : results'[d] \in Final => results[d] \in Final
    BY <1>0, <1>3 DEF MarkWaiting, Final
  <2>3. Returned(c).stage \in {"cleanup", "ended"}
    BY ReturnedStage
  <2>4. QED
    BY <2>1, <2>2, <2>3, QuietStep
<1>4. ASSUME NEW c \in Chains, FinalizeRead(c) \/ FinalizeWrite(c) PROVE PromiseCore'
  <2>1. chain[c].stage # "idle" /\ UNCHANGED <<row, tracking, cursor, results>>
    BY <1>4 DEF FinalizeRead, FinalizeWrite
  <2>2. PICK y : /\ chain' = [chain EXCEPT ![c] = y]
                 /\ y.stage \in {"read", "write", "cleanup", "ended"}
    BY <1>4, EndEffect
  <2>3. QED
    BY <2>1, <2>2, QuietStep
<1>5. ASSUME NEW r \in Rows, NEW c \in Chains,
             (c = Timer(r) /\ TimerResume(r)) \/ (c = Token(r) /\ TokenResume(r))
      PROVE  PromiseCore'
  <2>1. /\ chain[c].stage \in {"claimed", "taken"} /\ c[2] = r
        /\ UNCHANGED <<row, tracking, cursor, results>>
    BY <1>5, ResumeEffect
  <2>2. PICK y : /\ chain' = [chain EXCEPT ![c] = y] /\ y.stage \in {"step", "finish"}
                 /\ y.device = row[r].device
    BY <1>5, ResumeEffect
  <2>3. \A d \in Devices : y.device = d => Walks(c, d) /\ chain[c].stage # "waiting"
    BY <2>1, <2>2 DEF Walks
  <2>4. QED
    BY <2>1, <2>2, <2>3, QuietStep
<1>6. QED
  BY <1>1, <1>2, <1>3, <1>4, <1>5, ChainIds

\* A chain that rests has the devices it had, when a row changes that is new or
\* keeps its device.
LEMMA OthersWalk ==
  ASSUME RowsKeepUp, NEW r \in Rows, \A q \in Rows \ {r} : row'[q] = row[q],
         row[r].stage = "unused" \/ row'[r].device = row[r].device,
         NEW b \in Chains, chain'[b] = chain[b], NEW d, Walks(b, d)'
  PROVE  Walks(b, d)
<1>1. CASE chain[b].stage \in {"claimed", "taken"}
  <2>1. PICK q \in Rows : b = Timer(q) \/ b = Token(q)
    BY <1>1, ChainShapes DEF RowsKeepUp
  <2>2. b[2] = q /\ row[q].stage # "unused"
    BY <1>1, <2>1, ChainShapes DEF RowsKeepUp
  <2>3. row'[q].device = row[q].device
    BY <2>2
  <2>4. QED
    BY <1>1, <2>2, <2>3 DEF Walks
<1>2. CASE chain[b].stage \notin {"claimed", "taken"}
  BY <1>2 DEF Walks
<1>3. QED
  BY <1>1, <1>2

LEMMA StartStep ==
  ASSUME TypeOK, PromiseCore, NEW i \in 1..Targets, StartFresh(i)
  PROVE  PromiseCore'
<1> DEFINE c == Fresh(i)
           y == Running(DeviceOf[i], 1, <<>>)
<1>1. /\ chain' = [chain EXCEPT ![c] = y] /\ UNCHANGED <<row, tracking, results>>
      /\ cursor = i /\ cursor' = i + 1 /\ c \in Chains
  BY ChainIds DEF StartFresh
<1>2. y.stage = "step" /\ y.device = DeviceOf[i]
  BY RunningStage
<1>3. chain[c].stage = "idle"
  BY <1>1 DEF PromiseCore, CursorInv
<1> HIDE DEF y
<1>4. chain'[c] = y /\ \A b \in Chains \ {c} : chain'[b] = chain[b]
  BY <1>1 DEF TypeOK
<1>5. RowsKeepUp'
  <2>1. \A b \in Chains : chain'[b].stage \in {"dispatched", "waiting", "claimed", "reported", "taken"}
          => chain'[b] = chain[b]
    BY <1>2, <1>4
  <2>2. \A r \in Rows : chain'[Timer(r)] = chain[Timer(r)] /\ chain'[Token(r)] = chain[Token(r)]
    BY <1>4, ChainIds, ChainShapes
  <2>3. QED
    BY <1>1, <2>1, <2>2, ChainIds DEF PromiseCore, RowsKeepUp, Holds
<1>6. CursorInv'
  <2>1. ASSUME NEW j \in 1..Targets PROVE chain'[Fresh(j)].stage = "idle" <=> j >= i + 1
    <3>1. CASE j = i
      BY <1>2, <1>4, <3>1
    <3>2. CASE j # i
      <4>1. chain'[Fresh(j)] = chain[Fresh(j)]
        BY <1>4, <3>2, ChainIds, ChainShapes
      <4>2. chain[Fresh(j)].stage = "idle" <=> j >= i
        BY <1>1 DEF PromiseCore, CursorInv
      <4>3. QED
        BY <3>2, <4>1, <4>2
    <3>3. QED
      BY <3>1, <3>2
  <2>2. QED
    BY <1>1, <2>1 DEF CursorInv
<1>7. Turns'
  <2>1. ASSUME NEW b \in Chains, NEW d \in Devices, Walks(b, d)'
        PROVE  /\ Walks(b, d)
               /\ chain[b].stage = "waiting" =>
                    chain'[b].stage = "waiting" /\ chain'[b].row = chain[b].row
    <3>1. CASE b = c
      BY <1>2, <1>3, <1>4, <2>1, <3>1, ChainShapes DEF Walks
    <3>2. CASE b # c
      BY <1>1, <1>4, <2>1, <3>2 DEF Walks
    <3>3. QED
      BY <3>1, <3>2
  <2>2. \A r \in Rows, d \in Devices : Holds(r, d)' => Holds(r, d)
    BY <1>1 DEF Holds
  <2>3. QED
    BY <1>1, <2>1, <2>2, TurnsShrink DEF PromiseCore
<1>8. QED
  BY <1>5, <1>6, <1>7 DEF PromiseCore

LEMMA FinishStep ==
  ASSUME TypeOK, PromiseCore, NEW c \in Chains, Finish(c)
  PROVE  PromiseCore'
<1> DEFINE y == [chain[c] EXCEPT !.stage = "read"]
<1>0. PICK d0 : d0 = chain[c].device
  OBVIOUS
<1>1. /\ chain[c].stage = "finish" /\ UNCHANGED <<row, tracking, cursor>>
      /\ chain' = [chain EXCEPT ![c] = y]
      /\ \A d \in Devices \ {d0} : results'[d] = results[d]
  BY <1>0 DEF Finish, TypeOK
<1>2. y.stage = "read"
  BY DEF TypeOK, ChainSet
<1> HIDE DEF y
<1>3. RowsKeepUp' /\ CursorInv'
  BY <1>1, <1>2, QuietRows
<1>4. chain'[c] = y /\ \A b \in Chains \ {c} : chain'[b] = chain[b]
  BY <1>1 DEF TypeOK
<1>5. \A b \in Chains, d \in Devices : Walks(b, d)' => b # c /\ Walks(b, d) /\ chain'[b] = chain[b]
  BY <1>1, <1>2, <1>4 DEF Walks
<1>6. \A r \in Rows, d \in Devices : Holds(r, d)' => Holds(r, d)
  BY <1>1 DEF Holds
<1>7. ASSUME d0 \in Devices
      PROVE  (\A b \in Chains : ~Walks(b, d0)') /\ \A r \in Rows : ~Holds(r, d0)'
  <2>1. Walks(c, d0)
    BY <1>0, <1>1 DEF Walks
  <2>2. QED
    BY <1>1, <1>5, <1>6, <1>7, <2>1 DEF PromiseCore, Turns
<1>8. Turns'
  BY <1>1, <1>5, <1>6, <1>7 DEF PromiseCore, Turns
<1>9. QED
  BY <1>3, <1>8 DEF PromiseCore

\* Nobody acts on a row before it exists.
LEMMA UntouchedRow ==
  ASSUME RowsKeepUp, NEW r \in Rows, row[r].stage = "unused"
  PROVE  chain[Timer(r)].stage = "idle" /\ chain[Token(r)].stage = "idle"
<1>1. /\ chain[Timer(r)].stage # "idle" => row[r].stage \in {"claimed", "deleted"}
      /\ chain[Token(r)].stage # "idle" => tracking[r] \in {"succeeded", "failed"}
      /\ row[r].stage = "unused" => tracking[r] = "none"
  BY DEF RowsKeepUp
<1>2. QED
  BY <1>1

LEMMA ParkStep ==
  ASSUME TypeOK, PromiseCore, NEW c \in Chains, Park(c)
  PROVE  PromiseCore'
<1>0. PICK d0 : d0 = chain[c].device
  OBVIOUS
<1>1. PICK r \in Rows :
        /\ NextRow(r)
        /\ row'[r].stage = "parked" /\ row'[r].device = d0
        /\ \A q \in Rows \ {r} : row'[q] = row[q]
        /\ chain'[c].stage = "waiting" /\ chain'[c].row = r /\ chain'[c].device = d0
        /\ \A b \in Chains \ {c} : chain'[b] = chain[b]
        /\ UNCHANGED <<tracking, cursor, results>>
  BY <1>0, ParkEffect
<1>2. /\ chain[c].stage = "step" /\ row[r].stage = "unused"
      /\ \A d \in Devices : d = d0 => Walks(c, d)
  BY <1>0, <1>1 DEF Park, More, Walks, NextRow
<1>3. chain[Timer(r)].stage = "idle" /\ chain[Token(r)].stage = "idle"
  BY <1>2, UntouchedRow DEF PromiseCore
<1>4. RowsKeepUp'
  <2>1. \A b \in Chains : chain'[b].stage = "dispatched" =>
          /\ chain'[b] = chain[b] /\ chain[b].row # r
    BY <1>1, <1>2 DEF PromiseCore, RowsKeepUp
  <2>2. \A b \in Chains \ {c} : chain'[b].stage = "waiting" =>
          /\ chain'[b] = chain[b] /\ chain[b].row # r
    BY <1>1, <1>2 DEF PromiseCore, RowsKeepUp, Holds
  <2>3. \A b \in Chains : chain'[b].stage \in {"claimed", "reported", "taken"} => chain'[b] = chain[b]
    BY <1>1
  <2>4. chain'[Timer(r)].stage = "idle" /\ chain'[Token(r)].stage = "idle"
    BY <1>1, <1>2, <1>3, ChainIds
  <2>5. \A q \in Rows : /\ chain'[Timer(q)].stage # "idle" => chain[Timer(q)].stage # "idle"
                        /\ chain'[Token(q)].stage # "idle" => chain[Token(q)].stage # "idle"
    BY <1>1, <1>2, ChainIds
  <2>6. ASSUME NEW b \in Chains, chain'[b].stage = "dispatched"
        PROVE  /\ chain'[b].row \in Rows /\ row'[chain'[b].row].stage = "reserved"
               /\ row'[chain'[b].row].device = chain'[b].device
    <3>1. chain'[b] = chain[b] /\ chain[b].row \in Rows \ {r}
      BY <2>1, <2>6 DEF PromiseCore, RowsKeepUp
    <3>2. row'[chain[b].row] = row[chain[b].row]
      BY <1>1, <3>1
    <3>3. QED
      BY <2>6, <3>1, <3>2 DEF PromiseCore, RowsKeepUp
  <2>65. ASSUME NEW b \in Chains, chain'[b].stage = "waiting"
        PROVE  chain'[b].row \in Rows /\ Holds(chain[b].row, chain[b].device)'
    <3>1. CASE b = c
      BY <1>1, <3>1 DEF Holds
    <3>2. CASE b # c
      <4>1. chain'[b] = chain[b] /\ chain[b].row \in Rows \ {r} /\ Holds(chain[b].row, chain[b].device)
        BY <2>2, <2>65, <3>2 DEF PromiseCore, RowsKeepUp
      <4>2. row'[chain[b].row] = row[chain[b].row]
        BY <1>1, <4>1
      <4>3. QED
        BY <4>1, <4>2 DEF Holds
    <3>3. QED
      BY <3>1, <3>2
  <2>7. \A q \in Rows :
       /\ chain'[Timer(q)].stage = "claimed" => row'[q].stage = "claimed"
       /\ chain'[Timer(q)].stage # "idle" => row'[q].stage \in {"claimed", "deleted"}
       /\ chain'[Token(q)].stage = "reported" => row'[q].stage \in {"reserved", "parked"}
       /\ chain'[Token(q)].stage = "taken" => row'[q].stage = "deleted"
       /\ chain'[Token(q)].stage # "idle" => tracking'[q] \in {"succeeded", "failed"}
       /\ row'[q].stage = "unused" => tracking'[q] = "none"
    BY <1>1, <2>3, <2>4, <2>5, ChainIds DEF PromiseCore, RowsKeepUp
  <2>8. /\ \A b, e \in Chains :
             chain'[b].stage = "dispatched" /\ chain'[e].stage = "dispatched"
             /\ chain'[b].row = chain'[e].row => b = e
        /\ \A b \in Chains :
             /\ chain'[b].stage = "claimed" => b[1] = "timer"
             /\ chain'[b].stage \in {"reported", "taken"} => b[1] = "token"
    BY <2>1, <2>3 DEF PromiseCore, RowsKeepUp
  <2>10. QED
    BY <2>6, <2>65, <2>7, <2>8 DEF RowsKeepUp
<1>5. CursorInv'
  <2>1. \A i \in 1..Targets : chain'[Fresh(i)].stage = "idle" <=> chain[Fresh(i)].stage = "idle"
    BY <1>1, <1>2, ChainIds
  <2>2. QED
    BY <1>1, <2>1 DEF PromiseCore, CursorInv
<1>6. Turns'
  <2>1. \A b \in Chains, d \in Devices : Walks(b, d)' => Walks(b, d)
    <3>1. ASSUME NEW b \in Chains, NEW d \in Devices, Walks(b, d)', b # c PROVE Walks(b, d)
      <4>1. chain'[b] = chain[b]
        BY <1>1, <3>1
      <4>2. QED
        BY <1>1, <1>2, <3>1, <4>1, OthersWalk DEF PromiseCore
    <3>2. ASSUME NEW d \in Devices, Walks(c, d)' PROVE Walks(c, d)
      BY <1>1, <1>2, <3>2 DEF Walks
    <3>3. QED
      BY <3>1, <3>2
  <2>2. \A q \in Rows, d \in Devices : Holds(q, d)' => Holds(q, d) \/ (q = r /\ d = d0)
    BY <1>1 DEF Holds
  <2>3. chain[c].stage # "waiting" /\ Turns /\ UNCHANGED results
    BY <1>1, <1>2 DEF PromiseCore
  <2>4. QED
    BY <1>1, <1>2, <2>1, <2>2, <2>3, TurnsPark
<1>7. QED
  BY <1>4, <1>5, <1>6 DEF PromiseCore

LEMMA DispatchStep ==
  ASSUME TypeOK, PromiseCore, NEW c \in Chains, Dispatch(c)
  PROVE  PromiseCore'
<1>0. PICK d0 : d0 = chain[c].device
  OBVIOUS
<1>1. PICK r \in Rows :
        /\ NextRow(r)
        /\ row'[r].stage = "reserved" /\ row'[r].device = d0
        /\ \A q \in Rows \ {r} : row'[q] = row[q] /\ tracking'[q] = tracking[q]
        /\ chain'[c].stage = "dispatched" /\ chain'[c].row = r /\ chain'[c].device = d0
        /\ \A b \in Chains \ {c} : chain'[b] = chain[b]
        /\ UNCHANGED <<cursor, results>>
  BY <1>0, DispatchEffect
<1>2. chain[c].stage = "step" /\ row[r].stage = "unused"
  BY <1>1 DEF Dispatch, More, NextRow
<1>3. chain[Timer(r)].stage = "idle" /\ chain[Token(r)].stage = "idle"
  BY <1>2, UntouchedRow DEF PromiseCore
<1>4. RowsKeepUp'
  <2>1. \A b \in Chains \ {c} : chain'[b].stage = "dispatched" =>
          /\ chain'[b] = chain[b] /\ chain[b].row # r
    BY <1>1, <1>2 DEF PromiseCore, RowsKeepUp
  <2>2. \A b \in Chains : chain'[b].stage = "waiting" =>
          /\ chain'[b] = chain[b] /\ chain[b].row # r
    BY <1>1, <1>2 DEF PromiseCore, RowsKeepUp, Holds
  <2>3. \A b \in Chains : chain'[b].stage \in {"claimed", "reported", "taken"} => chain'[b] = chain[b]
    BY <1>1
  <2>4. chain'[Timer(r)].stage = "idle" /\ chain'[Token(r)].stage = "idle"
    BY <1>1, <1>2, <1>3, ChainIds
  <2>5. \A q \in Rows : /\ chain'[Timer(q)].stage # "idle" => chain[Timer(q)].stage # "idle"
                        /\ chain'[Token(q)].stage # "idle" => chain[Token(q)].stage # "idle"
    BY <1>1, <1>2, ChainIds
  <2>6. ASSUME NEW b \in Chains, chain'[b].stage = "dispatched"
        PROVE  /\ chain'[b].row \in Rows /\ row'[chain'[b].row].stage = "reserved"
               /\ row'[chain'[b].row].device = chain'[b].device
    <3>1. CASE b = c
      BY <1>1, <3>1
    <3>2. CASE b # c
      <4>1. chain'[b] = chain[b] /\ chain[b].row \in Rows \ {r}
        BY <2>1, <2>6, <3>2 DEF PromiseCore, RowsKeepUp
      <4>2. row'[chain[b].row] = row[chain[b].row]
        BY <1>1, <4>1
      <4>3. QED
        BY <2>6, <4>1, <4>2 DEF PromiseCore, RowsKeepUp
    <3>3. QED
      BY <3>1, <3>2
  <2>7. ASSUME NEW b \in Chains, chain'[b].stage = "waiting"
        PROVE  chain'[b].row \in Rows /\ Holds(chain[b].row, chain[b].device)'
    <3>1. chain'[b] = chain[b] /\ chain[b].row \in Rows \ {r} /\ Holds(chain[b].row, chain[b].device)
      BY <2>2, <2>7 DEF PromiseCore, RowsKeepUp
    <3>2. row'[chain[b].row] = row[chain[b].row]
      BY <1>1, <3>1
    <3>3. QED
      BY <3>1, <3>2 DEF Holds
  <2>8. \A q \in Rows :
       /\ chain'[Timer(q)].stage = "claimed" => row'[q].stage = "claimed"
       /\ chain'[Timer(q)].stage # "idle" => row'[q].stage \in {"claimed", "deleted"}
       /\ chain'[Token(q)].stage = "reported" => row'[q].stage \in {"reserved", "parked"}
       /\ chain'[Token(q)].stage = "taken" => row'[q].stage = "deleted"
       /\ chain'[Token(q)].stage # "idle" => tracking'[q] \in {"succeeded", "failed"}
       /\ row'[q].stage = "unused" => tracking'[q] = "none"
    BY <1>1, <2>3, <2>4, <2>5, ChainIds DEF PromiseCore, RowsKeepUp
  <2>9. /\ \A b, e \in Chains :
             chain'[b].stage = "dispatched" /\ chain'[e].stage = "dispatched"
             /\ chain'[b].row = chain'[e].row => b = e
        /\ \A b \in Chains :
             /\ chain'[b].stage = "claimed" => b[1] = "timer"
             /\ chain'[b].stage \in {"reported", "taken"} => b[1] = "token"
    BY <1>1, <2>1, <2>3 DEF PromiseCore, RowsKeepUp
  <2>10. QED
    BY <2>6, <2>7, <2>8, <2>9 DEF RowsKeepUp
<1>5. CursorInv'
  <2>1. \A i \in 1..Targets : chain'[Fresh(i)].stage = "idle" <=> chain[Fresh(i)].stage = "idle"
    BY <1>1, <1>2, ChainIds
  <2>2. QED
    BY <1>1, <2>1 DEF PromiseCore, CursorInv
<1>6. Turns'
  <2>1. ASSUME NEW b \in Chains, NEW d \in Devices, Walks(b, d)'
        PROVE  /\ Walks(b, d)
               /\ chain[b].stage = "waiting" =>
                    chain'[b].stage = "waiting" /\ chain'[b].row = chain[b].row
    <3>1. CASE b = c
      BY <1>0, <1>1, <1>2, <2>1, <3>1 DEF Walks
    <3>2. CASE b # c
      <4>1. chain'[b] = chain[b]
        BY <1>1, <3>2
      <4>2. QED
        BY <1>1, <1>2, <2>1, <4>1, OthersWalk DEF PromiseCore
    <3>3. QED
      BY <3>1, <3>2
  <2>2. \A q \in Rows, d \in Devices : Holds(q, d)' => Holds(q, d)
    BY <1>1 DEF Holds
  <2>3. QED
    BY <1>1, <2>1, <2>2, TurnsShrink DEF PromiseCore
<1>7. QED
  BY <1>4, <1>5, <1>6 DEF PromiseCore

LEMMA PersistStep ==
  ASSUME TypeOK, PromiseCore, NEW c \in Chains, PersistScript(c)
  PROVE  PromiseCore'
<1>0. PICK d0, r : d0 = chain[c].device /\ r = chain[c].row
  OBVIOUS
<1>1. /\ chain[c].stage = "dispatched" /\ r \in Rows
      /\ row[r].stage = "reserved" /\ row[r].device = d0
      /\ \A d \in Devices : d = d0 => Walks(c, d)
  BY <1>0 DEF PersistScript, PromiseCore, RowsKeepUp, Walks
<1>2. /\ row'[r].stage = "parked" /\ row'[r].device = d0
      /\ \A q \in Rows \ {r} : row'[q] = row[q]
      /\ chain'[c].stage = "waiting" /\ chain'[c].row = r /\ chain'[c].device = d0
      /\ \A b \in Chains \ {c} : chain'[b] = chain[b]
      /\ UNCHANGED <<tracking, cursor, results>>
  BY <1>0, <1>1 DEF PersistScript, TypeOK, ChainSet, RowSet
<1>3. chain[Timer(r)].stage = "idle" /\ chain[Token(r)].stage # "taken"
  BY <1>1 DEF PromiseCore, RowsKeepUp
<1>4. RowsKeepUp'
  <2>1. \A b \in Chains : chain'[b].stage = "dispatched" =>
          /\ chain'[b] = chain[b] /\ chain[b].row # r
    BY <1>0, <1>1, <1>2 DEF PromiseCore, RowsKeepUp
  <2>2. \A b \in Chains \ {c} : chain'[b].stage = "waiting" =>
          /\ chain'[b] = chain[b] /\ chain[b].row # r
    BY <1>1, <1>2 DEF PromiseCore, RowsKeepUp, Holds
  <2>3. \A b \in Chains : chain'[b].stage \in {"claimed", "reported", "taken"} => chain'[b] = chain[b]
    BY <1>2
  <2>4. chain'[Timer(r)].stage = "idle" /\ chain'[Token(r)].stage # "taken"
    BY <1>1, <1>2, <1>3, ChainIds
  <2>5. \A q \in Rows : /\ chain'[Timer(q)].stage # "idle" => chain[Timer(q)].stage # "idle"
                        /\ chain'[Token(q)].stage # "idle" => chain[Token(q)].stage # "idle"
    BY <1>1, <1>2, ChainIds
  <2>6. ASSUME NEW b \in Chains, chain'[b].stage = "dispatched"
        PROVE  /\ chain'[b].row \in Rows /\ row'[chain'[b].row].stage = "reserved"
               /\ row'[chain'[b].row].device = chain'[b].device
    <3>1. chain'[b] = chain[b] /\ chain[b].row \in Rows \ {r}
      BY <2>1, <2>6 DEF PromiseCore, RowsKeepUp
    <3>2. row'[chain[b].row] = row[chain[b].row]
      BY <1>2, <3>1
    <3>3. QED
      BY <2>6, <3>1, <3>2 DEF PromiseCore, RowsKeepUp
  <2>7. ASSUME NEW b \in Chains, chain'[b].stage = "waiting"
        PROVE  chain'[b].row \in Rows /\ Holds(chain[b].row, chain[b].device)'
    <3>1. CASE b = c
      BY <1>1, <1>2, <3>1 DEF Holds
    <3>2. CASE b # c
      <4>1. chain'[b] = chain[b] /\ chain[b].row \in Rows \ {r} /\ Holds(chain[b].row, chain[b].device)
        BY <2>2, <2>7, <3>2 DEF PromiseCore, RowsKeepUp
      <4>2. row'[chain[b].row] = row[chain[b].row]
        BY <1>2, <4>1
      <4>3. QED
        BY <4>1, <4>2 DEF Holds
    <3>3. QED
      BY <3>1, <3>2
  <2>8. \A q \in Rows :
       /\ chain'[Timer(q)].stage = "claimed" => row'[q].stage = "claimed"
       /\ chain'[Timer(q)].stage # "idle" => row'[q].stage \in {"claimed", "deleted"}
       /\ chain'[Token(q)].stage = "reported" => row'[q].stage \in {"reserved", "parked"}
       /\ chain'[Token(q)].stage = "taken" => row'[q].stage = "deleted"
       /\ chain'[Token(q)].stage # "idle" => tracking'[q] \in {"succeeded", "failed"}
       /\ row'[q].stage = "unused" => tracking'[q] = "none"
    BY <1>2, <2>3, <2>4, <2>5, ChainIds DEF PromiseCore, RowsKeepUp
  <2>9. /\ \A b, e \in Chains :
             chain'[b].stage = "dispatched" /\ chain'[e].stage = "dispatched"
             /\ chain'[b].row = chain'[e].row => b = e
        /\ \A b \in Chains :
             /\ chain'[b].stage = "claimed" => b[1] = "timer"
             /\ chain'[b].stage \in {"reported", "taken"} => b[1] = "token"
    BY <2>1, <2>3 DEF PromiseCore, RowsKeepUp
  <2>10. QED
    BY <2>6, <2>7, <2>8, <2>9 DEF RowsKeepUp
<1>5. CursorInv'
  <2>1. \A i \in 1..Targets : chain'[Fresh(i)].stage = "idle" <=> chain[Fresh(i)].stage = "idle"
    BY <1>1, <1>2, ChainIds
  <2>2. QED
    BY <1>2, <2>1 DEF PromiseCore, CursorInv
<1>6. Turns'
  <2>1. \A b \in Chains, d \in Devices : Walks(b, d)' => Walks(b, d)
    <3>1. ASSUME NEW b \in Chains, NEW d \in Devices, Walks(b, d)', b # c PROVE Walks(b, d)
      <4>1. chain'[b] = chain[b]
        BY <1>2, <3>1
      <4>2. QED
        BY <1>1, <1>2, <3>1, <4>1, OthersWalk DEF PromiseCore
    <3>2. ASSUME NEW d \in Devices, Walks(c, d)' PROVE Walks(c, d)
      BY <1>1, <1>2, <3>2 DEF Walks
    <3>3. QED
      BY <3>1, <3>2
  <2>2. \A q \in Rows, d \in Devices : Holds(q, d)' => Holds(q, d) \/ (q = r /\ d = d0)
    BY <1>2 DEF Holds
  <2>3. chain[c].stage # "waiting" /\ Turns /\ UNCHANGED results
    BY <1>1, <1>2 DEF PromiseCore
  <2>4. QED
    BY <1>1, <1>2, <2>1, <2>2, <2>3, TurnsPark
<1>7. QED
  BY <1>4, <1>5, <1>6 DEF PromiseCore

\* A resume's or the reconciler's step on row r: its own chain c and the row.
LEMMA RowStep ==
  ASSUME TypeOK, PromiseCore, NEW r \in Rows, NEW c \in {Timer(r), Token(r)},
         \A b \in Chains \ {c} : chain'[b] = chain[b],
         \A q \in Rows \ {r} : row'[q] = row[q] /\ tracking'[q] = tracking[q],
         row'[r].device = row[r].device, UNCHANGED cursor,
         chain[c].stage \notin {"step", "dispatched", "waiting", "finish"},
         chain'[c].stage \in {"claimed", "reported", "taken", "ended"},
         row'[r] = row[r] \/ \A b \in Chains : ~(chain[b].stage = "waiting" /\ chain[b].row = r),
         row'[r] = row[r] \/ row[r].stage # "reserved",
         /\ chain'[Timer(r)].stage = "claimed" => row'[r].stage = "claimed"
         /\ chain'[Timer(r)].stage # "idle" => row'[r].stage \in {"claimed", "deleted"}
         /\ chain'[Token(r)].stage = "reported" => row'[r].stage \in {"reserved", "parked"}
         /\ chain'[Token(r)].stage = "taken" => row'[r].stage = "deleted"
         /\ chain'[Token(r)].stage # "idle" => tracking'[r] \in {"succeeded", "failed"}
         /\ row'[r].stage = "unused" => tracking'[r] = "none",
         /\ chain'[Timer(r)].stage \notin {"reported", "taken"}
         /\ chain'[Token(r)].stage # "claimed"
  PROVE  /\ RowsKeepUp' /\ CursorInv'
         /\ \A b \in Chains \ {c}, d \in Devices : Walks(b, d)' => Walks(b, d)
<1>0. c \in Chains /\ Timer(r) \in Chains /\ Token(r) \in Chains
  BY ChainIds
<1>1. RowsKeepUp'
  <2>1. ASSUME NEW b \in Chains, chain'[b].stage = "dispatched"
        PROVE  /\ chain'[b] = chain[b] /\ chain[b].row \in Rows
               /\ row'[chain[b].row].stage = "reserved"
               /\ row'[chain[b].row].device = chain[b].device
    <3>1. chain'[b] = chain[b]
      BY <2>1
    <3>2. /\ chain[b].row \in Rows /\ row[chain[b].row].stage = "reserved"
          /\ row[chain[b].row].device = chain[b].device
      BY <2>1, <3>1 DEF PromiseCore, RowsKeepUp
    <3>3. row'[chain[b].row] = row[chain[b].row]
      BY <3>2
    <3>4. QED
      BY <3>1, <3>2, <3>3
  <2>2. ASSUME NEW b \in Chains, chain'[b].stage = "waiting"
        PROVE  /\ chain'[b] = chain[b] /\ chain[b].row \in Rows
               /\ row'[chain[b].row].stage = "parked"
               /\ row'[chain[b].row].device = chain[b].device
    <3>1. chain'[b] = chain[b]
      BY <2>2
    <3>2. /\ chain[b].row \in Rows /\ row[chain[b].row].stage = "parked"
          /\ row[chain[b].row].device = chain[b].device
      BY <2>2, <3>1 DEF PromiseCore, RowsKeepUp, Holds
    <3>3. row'[chain[b].row] = row[chain[b].row]
      BY <2>2, <3>1, <3>2
    <3>4. QED
      BY <3>1, <3>2, <3>3
  <2>3. ASSUME NEW q \in Rows \ {r}
        PROVE  chain'[Timer(q)] = chain[Timer(q)] /\ chain'[Token(q)] = chain[Token(q)]
    BY ChainIds, ChainShapes
  <2>4. \A q \in Rows :
       /\ chain'[Timer(q)].stage = "claimed" => row'[q].stage = "claimed"
       /\ chain'[Timer(q)].stage # "idle" => row'[q].stage \in {"claimed", "deleted"}
       /\ chain'[Token(q)].stage = "reported" => row'[q].stage \in {"reserved", "parked"}
       /\ chain'[Token(q)].stage = "taken" => row'[q].stage = "deleted"
       /\ chain'[Token(q)].stage # "idle" => tracking'[q] \in {"succeeded", "failed"}
       /\ row'[q].stage = "unused" => tracking'[q] = "none"
    <3> SUFFICES ASSUME NEW q \in Rows
                 PROVE  /\ chain'[Timer(q)].stage = "claimed" => row'[q].stage = "claimed"
                        /\ chain'[Timer(q)].stage # "idle" => row'[q].stage \in {"claimed", "deleted"}
                        /\ chain'[Token(q)].stage = "reported" => row'[q].stage \in {"reserved", "parked"}
                        /\ chain'[Token(q)].stage = "taken" => row'[q].stage = "deleted"
                        /\ chain'[Token(q)].stage # "idle" => tracking'[q] \in {"succeeded", "failed"}
                        /\ row'[q].stage = "unused" => tracking'[q] = "none"
      OBVIOUS
    <3>1. CASE q = r
      BY <3>1
    <3>2. CASE q # r
      BY <2>3, <3>2 DEF PromiseCore, RowsKeepUp
    <3>3. QED
      BY <3>1, <3>2
  <2>5. /\ \A b, e \in Chains :
             chain'[b].stage = "dispatched" /\ chain'[e].stage = "dispatched"
             /\ chain'[b].row = chain'[e].row => b = e
        /\ \A b \in Chains :
             /\ chain'[b].stage = "claimed" => b[1] = "timer"
             /\ chain'[b].stage \in {"reported", "taken"} => b[1] = "token"
    <3>1. \A b, e \in Chains :
             chain'[b].stage = "dispatched" /\ chain'[e].stage = "dispatched"
             /\ chain'[b].row = chain'[e].row => b = e
      BY <2>1 DEF PromiseCore, RowsKeepUp
    <3>2. ASSUME NEW b \in Chains
          PROVE  /\ chain'[b].stage = "claimed" => b[1] = "timer"
                 /\ chain'[b].stage \in {"reported", "taken"} => b[1] = "token"
      <4>1. CASE b = c
        BY <4>1, ChainShapes
      <4>2. CASE b # c
        BY <4>2 DEF PromiseCore, RowsKeepUp
      <4>3. QED
        BY <4>1, <4>2
    <3>3. QED
      BY <3>1, <3>2
  <2>6. \A b \in Chains : chain'[b].stage = "waiting" =>
           chain'[b].row \in Rows /\ row'[chain'[b].row].stage = "parked"
           /\ row'[chain'[b].row].device = chain'[b].device
    BY <2>2
  <2>7. \A b \in Chains : chain'[b].stage = "dispatched" =>
           chain'[b].row \in Rows /\ row'[chain'[b].row].stage = "reserved"
           /\ row'[chain'[b].row].device = chain'[b].device
    BY <2>1
  <2>8. QED
    BY <2>4, <2>5, <2>6, <2>7 DEF RowsKeepUp, Holds
<1>2. CursorInv'
  <2>1. \A i \in 1..Targets : chain'[Fresh(i)] = chain[Fresh(i)]
    BY ChainIds, ChainShapes
  <2>2. QED
    BY <2>1 DEF PromiseCore, CursorInv
<1>3. ASSUME NEW b \in Chains \ {c}, NEW d \in Devices, Walks(b, d)' PROVE Walks(b, d)
  BY <1>3, OthersWalk DEF PromiseCore
<1>4. QED
  BY <1>1, <1>2, <1>3

LEMMA ClaimStep ==
  ASSUME Orderly, TypeOK, PromiseCore, NEW r \in Rows, ClaimDue(r)
  PROVE  PromiseCore'
<1> DEFINE c == Timer(r)
<1>1. /\ row[r].stage = "parked" /\ row'[r].stage = "claimed" /\ row'[r].device = row[r].device
      /\ \A q \in Rows \ {r} : row'[q] = row[q] /\ tracking'[q] = tracking[q]
      /\ chain'[c].stage = "claimed"
      /\ \A b \in Chains \ {c} : chain'[b] = chain[b]
      /\ UNCHANGED <<tracking, cursor, results>>
  BY ChainIds DEF ClaimDue, TypeOK, ChainSet, RowSet
<1>2. /\ \A b \in Chains : ~(chain[b].stage = "waiting" /\ chain[b].row = r)
      /\ chain[Token(r)].stage # "reported"
  BY DEF ClaimDue, Orderly, Settled
<1>3. /\ chain[c].stage = "idle" /\ chain[Token(r)].stage # "taken" /\ tracking[r] = tracking[r]
      /\ chain[Token(r)].stage # "idle" => tracking[r] \in {"succeeded", "failed"}
      /\ chain[Token(r)].stage # "claimed"
  BY <1>1, ChainIds, ChainShapes DEF PromiseCore, RowsKeepUp
<1>4. chain'[Token(r)] = chain[Token(r)] /\ c \in {Timer(r), Token(r)} /\ c \in Chains
  BY <1>1, ChainIds, ChainShapes
<1>5. /\ RowsKeepUp' /\ CursorInv'
      /\ \A b \in Chains \ {c}, d \in Devices : Walks(b, d)' => Walks(b, d)
  BY <1>1, <1>2, <1>3, <1>4, RowStep
<1>6. ASSUME NEW d \in Devices, Walks(c, d)' PROVE d = row[r].device
  BY <1>1, <1>6, ChainShapes DEF Walks
<1>7. \A q \in Rows, d \in Devices : Holds(q, d)' => Holds(q, d) /\ q # r
  BY <1>1 DEF Holds
<1>8. Turns'
  <2>1. Turns /\ chain[c].stage # "waiting" /\ UNCHANGED results
    BY <1>1, <1>3 DEF PromiseCore
  <2>2. \A b \in Chains, d \in Devices : Walks(b, d)' => Walks(b, d) \/ (b = c /\ d = row[r].device)
    BY <1>5, <1>6
  <2>3. QED
    BY <1>1, <1>2, <1>4, <1>7, <2>1, <2>2, TurnsResume
<1>9. QED
  BY <1>5, <1>8 DEF PromiseCore

LEMMA TakeStep ==
  ASSUME Orderly, TypeOK, PromiseCore, NEW r \in Rows, TakeRow(r)
  PROVE  PromiseCore'
<1> DEFINE c == Token(r)
<1>0. /\ c \in {Timer(r), Token(r)} /\ c \in Chains /\ c # Timer(r) /\ Timer(r) \in Chains
      /\ chain \in [Chains -> ChainSet] /\ row \in [Rows -> RowSet]
  BY ChainIds, ChainShapes DEF TypeOK
<1>1. /\ chain[c].stage = "reported" /\ UNCHANGED <<tracking, cursor, results>>
      /\ \A b \in Chains : ~(chain[b].stage = "waiting" /\ chain[b].row = r)
  BY DEF TakeRow, Orderly, Settled
<1>2. row[r].stage \in {"reserved", "parked"} /\ tracking[r] \in {"succeeded", "failed"}
  BY <1>1 DEF PromiseCore, RowsKeepUp
<1>3. CASE row[r].stage = "parked"
  <2>1. /\ row'[r].stage = "deleted" /\ row'[r].device = row[r].device
        /\ \A q \in Rows \ {r} : row'[q] = row[q] /\ tracking'[q] = tracking[q]
        /\ chain'[c].stage = "taken"
        /\ \A b \in Chains \ {c} : chain'[b] = chain[b]
    BY <1>0, <1>3 DEF TakeRow, ChainSet, RowSet
  <2>2. chain'[Timer(r)] = chain[Timer(r)] /\ chain[Timer(r)].stage = "idle"
    BY <1>0, <1>3, <2>1 DEF PromiseCore, RowsKeepUp
  <2>3. /\ RowsKeepUp' /\ CursorInv'
        /\ \A b \in Chains \ {c}, d \in Devices : Walks(b, d)' => Walks(b, d)
    BY <1>0, <1>1, <1>2, <1>3, <2>1, <2>2, RowStep
  <2>4. ASSUME NEW d \in Devices, Walks(c, d)' PROVE d = row[r].device
    BY <2>1, <2>4, ChainShapes DEF Walks
  <2>5. \A q \in Rows, d \in Devices : Holds(q, d)' => Holds(q, d) /\ q # r
    BY <2>1 DEF Holds
  <2>6. Turns'
    <3>1. Turns /\ chain[c].stage # "waiting" /\ UNCHANGED results
      BY <1>1 DEF PromiseCore
    <3>2. \A b \in Chains, d \in Devices : Walks(b, d)' => Walks(b, d) \/ (b = c /\ d = row[r].device)
      BY <2>3, <2>4
    <3>3. QED
      BY <1>0, <1>1, <1>3, <2>1, <2>5, <3>1, <3>2, TurnsResume
  <2>7. QED
    BY <2>3, <2>6 DEF PromiseCore
<1>4. CASE row[r].stage = "reserved"
  <2> DEFINE y == [chain[c] EXCEPT !.stage = "ended"]
  <2>1. chain' = [chain EXCEPT ![c] = y] /\ UNCHANGED row
    BY <1>0, <1>4 DEF TakeRow
  <2>2. y.stage = "ended"
    BY <1>0 DEF ChainSet
  <2> HIDE DEF y
  <2>3. QED
    BY <1>0, <1>1, <2>1, <2>2, QuietStep
<1>5. QED
  BY <1>2, <1>3, <1>4

LEMMA ReportStep ==
  ASSUME Orderly, TypeOK, PromiseCore, NEW r \in Rows, Report(r)
  PROVE  PromiseCore'
<1> DEFINE c == Token(r)
<1>0. /\ c \in {Timer(r), Token(r)} /\ c \in Chains /\ c # Timer(r) /\ Timer(r) \in Chains
      /\ chain \in [Chains -> ChainSet] /\ tracking \in [Rows -> {"none", "awaiting", "succeeded", "failed"}]
  BY ChainIds, ChainShapes DEF TypeOK
<1>1. /\ tracking[r] = "awaiting" /\ row[r].stage \in {"reserved", "parked"}
      /\ UNCHANGED <<row, cursor, results>>
      /\ tracking'[r] \in {"succeeded", "failed"} /\ \A q \in Rows \ {r} : tracking'[q] = tracking[q]
  BY <1>0 DEF Report, Orderly
<1>2. chain'[c].stage = "reported" /\ \A b \in Chains \ {c} : chain'[b] = chain[b]
  BY <1>0 DEF Report, ChainSet
<1>3. chain[c].stage = "idle" /\ chain[Timer(r)].stage = "idle"
  <2>1. /\ chain[c].stage # "idle" => tracking[r] \in {"succeeded", "failed"}
        /\ chain[Timer(r)].stage # "idle" => row[r].stage \in {"claimed", "deleted"}
    BY DEF PromiseCore, RowsKeepUp
  <2>2. QED
    BY <1>1, <2>1
<1>4. chain'[Timer(r)] = chain[Timer(r)]
  BY <1>0, <1>2
<1>5. /\ RowsKeepUp' /\ CursorInv'
      /\ \A b \in Chains \ {c}, d \in Devices : Walks(b, d)' => Walks(b, d)
  BY <1>0, <1>1, <1>2, <1>3, <1>4, RowStep
<1>6. Turns'
  <2>1. ASSUME NEW b \in Chains, NEW d \in Devices, Walks(b, d)'
        PROVE  /\ Walks(b, d)
               /\ chain[b].stage = "waiting" =>
                    chain'[b].stage = "waiting" /\ chain'[b].row = chain[b].row
    <3>1. b # c
      BY <1>2, <2>1 DEF Walks
    <3>2. QED
      BY <1>2, <1>5, <2>1, <3>1
  <2>2. \A q \in Rows, d \in Devices : Holds(q, d)' => Holds(q, d)
    BY <1>1 DEF Holds
  <2>3. QED
    BY <1>1, <2>1, <2>2, TurnsShrink DEF PromiseCore
<1>7. QED
  BY <1>5, <1>6 DEF PromiseCore

LEMMA CleanupStep ==
  ASSUME TypeOK, PromiseCore, NEW r \in Rows, Cleanup(r)
  PROVE  PromiseCore'
<1> DEFINE c == Timer(r)
<1>0. /\ c \in {Timer(r), Token(r)} /\ c \in Chains /\ c # Token(r) /\ Token(r) \in Chains
      /\ chain \in [Chains -> ChainSet] /\ row \in [Rows -> RowSet]
  BY ChainIds, ChainShapes DEF TypeOK
<1>1. /\ chain[c].stage = "cleanup" /\ UNCHANGED <<tracking, cursor, results>>
      /\ row'[r].stage = "deleted" /\ row'[r].device = row[r].device
      /\ \A q \in Rows \ {r} : row'[q] = row[q] /\ tracking'[q] = tracking[q]
      /\ chain'[c].stage = "ended"
      /\ \A b \in Chains \ {c} : chain'[b] = chain[b]
  BY <1>0 DEF Cleanup, ChainSet, RowSet
<1>2. row[r].stage \in {"claimed", "deleted"}
  BY <1>1 DEF PromiseCore, RowsKeepUp
<1>3. /\ chain'[Token(r)] = chain[Token(r)] /\ chain[Token(r)].stage \notin {"reported", "claimed"}
      /\ chain[Token(r)].stage # "idle" => tracking[r] \in {"succeeded", "failed"}
  <2>1. /\ chain[Token(r)].stage = "reported" => row[r].stage \in {"reserved", "parked"}
        /\ chain[Token(r)].stage # "idle" => tracking[r] \in {"succeeded", "failed"}
        /\ chain[Token(r)].stage = "claimed" => Token(r)[1] = "timer"
    BY <1>0 DEF PromiseCore, RowsKeepUp
  <2>2. QED
    BY <1>0, <1>1, <1>2, <2>1, ChainShapes
<1>4. \A b \in Chains : ~(chain[b].stage = "waiting" /\ chain[b].row = r)
  BY <1>2 DEF PromiseCore, RowsKeepUp, Holds
<1>5. /\ RowsKeepUp' /\ CursorInv'
      /\ \A b \in Chains \ {c}, d \in Devices : Walks(b, d)' => Walks(b, d)
  BY <1>0, <1>1, <1>2, <1>3, <1>4, RowStep
<1>6. Turns'
  <2>1. ASSUME NEW b \in Chains, NEW d \in Devices, Walks(b, d)'
        PROVE  /\ Walks(b, d)
               /\ chain[b].stage = "waiting" =>
                    chain'[b].stage = "waiting" /\ chain'[b].row = chain[b].row
    <3>1. b # c
      BY <1>1, <2>1 DEF Walks
    <3>2. QED
      BY <1>1, <1>5, <2>1, <3>1
  <2>2. \A q \in Rows, d \in Devices : Holds(q, d)' => Holds(q, d)
    BY <1>1 DEF Holds
  <2>3. QED
    BY <1>1, <2>1, <2>2, TurnsShrink DEF PromiseCore
<1>7. QED
  BY <1>5, <1>6 DEF PromiseCore

LEMMA CrashStep ==
  ASSUME TypeOK, PromiseCore, Crash
  PROVE  PromiseCore'
<1>1. UNCHANGED <<row, tracking, cursor, results>>
  BY DEF Crash
<1>2. \A c \in Chains : \/ chain[c].stage = "idle" /\ chain'[c] = chain[c]
                        \/ chain[c].stage # "idle" /\ chain'[c].stage = "ended"
  BY StoppedStage DEF Crash
<1>3. RowsKeepUp'
  <2>1. \A c \in Chains : chain'[c].stage \in {"idle", "ended"}
    BY <1>2
  <2>2. \A c \in Chains : chain'[c].stage # "idle" => chain[c].stage # "idle"
    BY <1>2
  <2>3. QED
    BY <1>1, <2>1, <2>2, ChainIds DEF PromiseCore, RowsKeepUp
<1>4. CursorInv'
  BY <1>1, <1>2, ChainIds DEF PromiseCore, CursorInv
<1>5. Turns'
  <2>1. ASSUME NEW b \in Chains, NEW d \in Devices, Walks(b, d)'
        PROVE  Walks(b, d) /\ chain[b].stage # "waiting"
    BY <1>1, <1>2, <2>1 DEF Walks
  <2>2. \A r \in Rows, d \in Devices : Holds(r, d)' => Holds(r, d)
    BY <1>1 DEF Holds
  <2>3. QED
    BY <1>1, <2>1, <2>2, TurnsShrink DEF PromiseCore
<1>6. QED
  BY <1>3, <1>4, <1>5 DEF PromiseCore

LEMMA NoThrow ==
  ASSUME Orderly, TypeOK, NEW c \in Chains
  PROVE  ~Throw(c)
BY DEF Orderly, TypeOK, Throw

LEMMA CoreStays ==
  ASSUME Orderly, TypeOK, PromiseCore, [Next]_vars
  PROVE  PromiseCore'
<1>1. CASE Launch \/ FanoutDone
  BY <1>1, QuietActions
<1>2. CASE Crash
  BY <1>2, CrashStep
<1>3. CASE DeleteWorkflow \/ ChangeCredential \/ UNCHANGED vars
  <2>1. UNCHANGED <<chain, row, tracking, cursor, results>>
    BY <1>3 DEF DeleteWorkflow, ChangeCredential, vars
  <2>2. QED
    BY <2>1 DEF PromiseCore, RowsKeepUp, CursorInv, Turns, Walks, Holds
<1>4. ASSUME NEW i \in 1..Targets, StartFresh(i) PROVE PromiseCore'
  BY <1>4, StartStep
<1>5. ASSUME NEW c \in Chains, Advance(c) PROVE PromiseCore'
  BY <1>5, QuietActions, ParkStep, DispatchStep, PersistStep, FinishStep DEF Advance
<1>6. ASSUME NEW c \in Chains, Throw(c) PROVE PromiseCore'
  BY <1>6, NoThrow
<1>7. ASSUME NEW r \in Rows, ClaimDue(r) \/ ResumeRow(r) \/ Report(r) PROVE PromiseCore'
  BY <1>7, QuietActions, ClaimStep, CleanupStep, TakeStep, ReportStep DEF ResumeRow
<1>8. QED
  BY <1>1, <1>2, <1>3, <1>4, <1>5, <1>6, <1>7 DEF Next

\* Before the launch nothing else happens.
LEMMA AbsentStep ==
  ASSUME TypeOK, PromiseCore, RunInv, run = "absent", [Next]_vars
  PROVE  \/ Launch
         \/ UNCHANGED <<run, row>> /\ \A c \in Chains : chain'[c].stage = "idle"
<1>1. /\ \A c \in Chains : chain[c].stage = "idle"
      /\ \A r \in Rows : row[r].stage = "unused" /\ tracking[r] = "none"
  BY DEF RunInv, PromiseCore, RowsKeepUp
<1>2. CASE Crash
  BY <1>1, <1>2 DEF Crash
<1>3. CASE DeleteWorkflow \/ ChangeCredential \/ UNCHANGED vars
  BY <1>1, <1>3 DEF DeleteWorkflow, ChangeCredential, vars
<1>4. ~FanoutDone /\ \A i \in 1..Targets : ~StartFresh(i)
  BY <1>1, ChainIds DEF FanoutDone, StartFresh
<1>5. ASSUME NEW c \in Chains PROVE ~Advance(c) /\ ~Throw(c)
  <2>1. ~Advance(c)
    BY <1>1 DEF Advance, RunStep, Recover, Park, Dispatch, PersistScript, MarkWaiting,
                LoopExit, Finish, FinalizeRead, FinalizeWrite, More
  <2>2. ~Throw(c)
    BY <1>1 DEF Throw
  <2>3. QED
    BY <2>1, <2>2
<1>6. ASSUME NEW r \in Rows PROVE ~ClaimDue(r) /\ ~ResumeRow(r) /\ ~Report(r)
  BY <1>1, ChainIds DEF ClaimDue, ResumeRow, TimerResume, Cleanup, TakeRow, TokenResume, Report
<1>7. QED
  BY <1>2, <1>3, <1>4, <1>5, <1>6 DEF Next

\* Result rows are written where a chain leaves its device, and nowhere else.
LEMMA ResultsMove ==
  ASSUME [Next]_vars
  PROVE  UNCHANGED results \/ \E c \in Chains : MarkWaiting(c) \/ Finish(c)
<1>1. CASE Launch \/ FanoutDone \/ Crash \/ DeleteWorkflow \/ ChangeCredential \/ UNCHANGED vars
  BY <1>1 DEF Launch, FanoutDone, Crash, DeleteWorkflow, ChangeCredential, vars
<1>2. ASSUME NEW i \in 1..Targets, StartFresh(i) PROVE UNCHANGED results
  BY <1>2 DEF StartFresh
<1>3. ASSUME NEW c \in Chains, Advance(c)
      PROVE  UNCHANGED results \/ MarkWaiting(c) \/ Finish(c)
  BY <1>3 DEF Advance, RunStep, Recover, Park, Dispatch, PersistScript, LoopExit,
              FinalizeRead, FinalizeWrite
<1>4. ASSUME NEW c \in Chains, Throw(c) PROVE UNCHANGED results
  BY <1>4 DEF Throw
<1>5. ASSUME NEW r \in Rows, ClaimDue(r) \/ ResumeRow(r) \/ Report(r) PROVE UNCHANGED results
  BY <1>5 DEF ClaimDue, ResumeRow, TimerResume, Cleanup, TakeRow, TokenResume, Report
<1>6. QED
  BY <1>1, <1>2, <1>3, <1>4, <1>5 DEF Next

\* Once every device has its outcome, no result row changes any more.
LEMMA ResultsSettle ==
  ASSUME TypeOK, Turns, [Next]_vars, \A d \in Devices : results[d] \in Final
  PROVE  UNCHANGED results
<1> SUFFICES ASSUME NEW c \in Chains, MarkWaiting(c) \/ Finish(c) PROVE UNCHANGED results
  BY ResultsMove
<1>1. chain[c].stage \in {"waiting", "finish"}
  BY DEF MarkWaiting, Finish
<1>2. chain[c].device \notin Devices
  BY <1>1 DEF Turns, Walks
<1>3. \E v : results' = [results EXCEPT ![chain[c].device] = v]
  BY DEF MarkWaiting, Finish
<1>4. results \in [Devices -> Statuses]
  BY DEF TypeOK
<1>5. QED
  BY <1>2, <1>3, <1>4

LEMMA RunStays ==
  ASSUME TypeOK, PromiseCore, RunInv, [Next]_vars
  PROVE  RunInv'
<1>0. Turns
  BY DEF PromiseCore
<1>1. run' = "absent" => /\ \A c \in Chains : chain'[c].stage = "idle"
                         /\ \A r \in Rows : row'[r].stage = "unused"
  <2>1. run' = "absent" => run = "absent"
    BY DEF Next, vars, Launch, FanoutDone, Crash, DeleteWorkflow, ChangeCredential, StartFresh,
           Advance, RunStep, Recover, Park, Dispatch, PersistScript, MarkWaiting, LoopExit,
           Finish, FinalizeRead, FinalizeWrite, Throw, ClaimDue, ResumeRow, TimerResume,
           Cleanup, TakeRow, TokenResume, Report
  <2>2. Launch => run' # "absent"
    BY DEF Launch
  <2>3. run = "absent" => \A r \in Rows : row[r].stage = "unused"
    BY DEF RunInv
  <2>4. QED
    BY <2>1, <2>2, <2>3, AbsentStep
<1>2. ASSUME NEW c \in Chains, FinalizeRead(c)
      PROVE  /\ \A b \in Chains : chain'[b].stage = "write" =>
                  chain'[b].seen = results' /\ \A d \in Devices : results'[d] \in Final
             /\ run' = "completed" => blob' = results' /\ \A d \in Devices : results'[d] \in Final
  <2>1. UNCHANGED <<run, blob, results>> /\ \A b \in Chains \ {c} : chain'[b] = chain[b]
    BY <1>2 DEF FinalizeRead
  <2>2. chain'[c].stage = "write" =>
          chain'[c].seen = results /\ \A d \in Devices : results[d] \in Final
    <3>1. CASE run # "completed" /\ AllDone
      <4>1. chain'[c] = [chain[c] EXCEPT !.stage = "write", !.seen = results]
        BY <1>2, <3>1 DEF FinalizeRead, TypeOK
      <4>2. chain'[c].seen = results
        BY <4>1 DEF TypeOK, ChainSet
      <4>3. QED
        BY <3>1, <4>2, AllDoneIsAll
    <3>2. CASE ~(run # "completed" /\ AllDone)
      <4>1. chain'[c] = Returned(c)
        BY <1>2, <3>2 DEF FinalizeRead, TypeOK
      <4>2. QED
        BY <4>1, ReturnedStage
    <3>3. QED
      BY <3>1, <3>2
  <2>3. QED
    BY <2>1, <2>2 DEF RunInv
<1>3. ASSUME NEW c \in Chains, FinalizeWrite(c)
      PROVE  /\ \A b \in Chains : chain'[b].stage = "write" =>
                  chain'[b].seen = results' /\ \A d \in Devices : results'[d] \in Final
             /\ run' = "completed" => blob' = results' /\ \A d \in Devices : results'[d] \in Final
  <2>1. /\ UNCHANGED results /\ blob' = chain[c].seen /\ chain[c].stage = "write"
        /\ \A b \in Chains \ {c} : chain'[b] = chain[b]
        /\ chain'[c] = Returned(c)
    BY <1>3 DEF FinalizeWrite, TypeOK
  <2>2. chain'[c].stage # "write"
    BY <2>1, ReturnedStage
  <2>3. QED
    BY <2>1, <2>2 DEF RunInv
<1>4. ASSUME \A c \in Chains : ~FinalizeRead(c) /\ ~FinalizeWrite(c)
      PROVE  /\ \A b \in Chains : chain'[b].stage = "write" =>
                  chain'[b].seen = results' /\ \A d \in Devices : results'[d] \in Final
             /\ run' = "completed" => blob' = results' /\ \A d \in Devices : results'[d] \in Final
  <2>1. NoNewWriter /\ UNCHANGED blob /\ (run' = "completed" => run = "completed")
    BY <1>4, OtherSteps
  <2>2. (\A d \in Devices : results[d] \in Final) => UNCHANGED results
    BY <1>0, ResultsSettle
  <2>3. QED
    BY <2>1, <2>2 DEF RunInv, NoNewWriter
<1>5. QED
  BY <1>1, <1>2, <1>3, <1>4 DEF RunInv

LEMMA PromiseInit ==
  ASSUME Orderly, Init
  PROVE  PromiseInv
<1>1. /\ \A c \in Chains : chain[c].stage = "idle"
      /\ \A r \in Rows : row[r].stage = "unused" /\ tracking[r] = "none"
      /\ \A d \in Devices : results[d] \notin Final
      /\ cursor = 1 /\ run = "absent"
  BY DEF Init, NoChain, NoRow, NoResults, Final
<1>2. RowsKeepUp
  BY <1>1, ChainIds DEF RowsKeepUp
<1>3. CursorInv
  BY <1>1, ChainIds DEF CursorInv
<1>4. Turns
  <2>1. \A c \in Chains, d \in Devices : Walks(c, d) =>
          \E i \in 1..Targets : c = Fresh(i) /\ DeviceOf[i] = d
    BY <1>1 DEF Walks, Chains, Fresh, Launcher
  <2>2. \A b, c \in Chains, d \in Devices : Walks(b, d) /\ Walks(c, d) => b = c
    BY <2>1 DEF Orderly
  <2>3. \A r \in Rows, d \in Devices : ~Holds(r, d)
    BY <1>1 DEF Holds
  <2>4. QED
    BY <1>1, <2>2, <2>3 DEF Turns
<1>5. RunInv
  BY <1>1 DEF RunInv
<1>6. QED
  BY <1>2, <1>3, <1>4, <1>5 DEF PromiseInv

LEMMA PromiseInvariant == Orderly => (Spec => [](TypeOK /\ PromiseInv))
<1> SUFFICES ASSUME Orderly PROVE Spec => [](TypeOK /\ PromiseInv)
  OBVIOUS
<1>1. Init => PromiseInv
  BY PromiseInit
<1>2. TypeOK /\ PromiseInv /\ [Next]_vars => PromiseInv'
  BY CoreStays, RunStays DEF PromiseInv, PromiseCore
<1>3. QED
  BY <1>1, <1>2, TypeCorrect, PTL DEF Spec

(***************************************************************************)
(* The steps of WorkflowRun, seen in the engine's.                         *)
(***************************************************************************)
Taken(d) == \E i \in 1..Targets : DeviceOf[i] = d /\ i < cursor
Waits(d) == \E r \in Rows : Holds(r, d)

LEMMA StateOf ==
  ASSUME NEW d \in Devices
  PROVE  /\ DeviceState[d] = IF results[d] \in Final THEN results[d]
                             ELSE IF Waits(d) THEN "parked"
                             ELSE IF Taken(d) THEN "walking" ELSE "untaken"
         /\ DeviceState'[d] = IF results'[d] \in Final THEN results'[d]
                              ELSE IF Waits(d)' THEN "parked"
                              ELSE IF Taken(d)' THEN "walking" ELSE "untaken"
BY DEF DeviceState, Waits, Taken

LEMMA SameState ==
  ASSUME NEW d \in Devices,
         results'[d] = results[d] \/ (results'[d] \notin Final /\ results[d] \notin Final),
         Waits(d)' <=> Waits(d), Taken(d)' <=> Taken(d)
  PROVE  DeviceState'[d] = DeviceState[d]
BY StateOf

LEMMA Stutters ==
  ASSUME \A d \in Devices : DeviceState'[d] = DeviceState[d], UNCHANGED <<run, blob>>
  PROVE  UNCHANGED Promised!vars
<1>1. DeviceState' = DeviceState
  BY DEF DeviceState
<1>2. QED
  BY <1>1 DEF Promised!vars

LEMMA OneStateMoves ==
  ASSUME NEW S, NEW f, NEW g, f = [x \in S |-> f[x]], g = [x \in S |-> g[x]],
         NEW d \in S, NEW to, g[d] = to, \A e \in S \ {d} : g[e] = f[e]
  PROVE  g = [f EXCEPT ![d] = to]
OBVIOUS

LEMMA WalkStep ==
  ASSUME NEW d \in Devices, NEW from, NEW to,
         run = "running", UNCHANGED <<run, blob>>,
         DeviceState[d] = from, DeviceState'[d] = to,
         \A e \in Devices \ {d} : DeviceState'[e] = DeviceState[e]
  PROVE  Promised!Walk(d, from, to)
<1>1. /\ DeviceState = [x \in Devices |-> DeviceState[x]]
      /\ DeviceState' = [x \in Devices |-> DeviceState'[x]]
  BY DEF DeviceState
<1>2. DeviceState' = [DeviceState EXCEPT ![d] = to]
  BY <1>1, OneStateMoves
<1>3. QED
  BY <1>2 DEF Promised!Walk

\* What has a device in hand was given it by a worker, and gives it no outcome yet.
LEMMA HandsTaken ==
  ASSUME Orderly, TypeOK, PromiseInv, NEW d \in Devices
  PROVE  /\ \A c \in Chains : Walks(c, d) =>
              /\ results[d] \notin Final /\ run # "completed"
              /\ chain[c].stage # "idle" => Taken(d) /\ run = "running"
              /\ chain[c].stage = "idle" => ~Taken(d) /\ ~Waits(d)
              /\ chain[c].stage # "waiting" => ~Waits(d)
         /\ \A r \in Rows : Holds(r, d) => results[d] \notin Final /\ Taken(d) /\ run = "running"
<1>0. cursor \in Nat /\ Targets \in Nat
  BY ConfigAssumption DEF TypeOK, ConfigAssumption
<1>1. PICK i \in 1..Targets : DeviceOf[i] = d
  BY ConfigAssumption DEF ConfigAssumption
<1>2. \A c \in Chains : Walks(c, d) => results[d] \notin Final /\ run # "completed"
  BY DEF PromiseInv, Turns, RunInv
<1>3. \A r \in Rows : Holds(r, d) => results[d] \notin Final /\ run # "completed"
  BY DEF PromiseInv, Turns, RunInv
<1>4. ~Taken(d) => chain[Fresh(i)].stage = "idle" /\ Walks(Fresh(i), d) /\ Fresh(i) \in Chains
  BY <1>0, <1>1, ChainIds, ChainShapes DEF Taken, PromiseInv, CursorInv, Walks
<1>5. ASSUME NEW c \in Chains, Walks(c, d), chain[c].stage # "idle"
      PROVE  Taken(d) /\ run = "running"
  <2>1. Taken(d)
    BY <1>4, <1>5 DEF PromiseInv, Turns
  <2>2. run # "absent"
    BY <1>5 DEF PromiseInv, RunInv
  <2>3. QED
    BY <1>2, <1>5, <2>1, <2>2 DEF TypeOK
<1>6. ASSUME NEW r \in Rows, Holds(r, d)
      PROVE  Taken(d) /\ run = "running"
  <2>1. Taken(d)
    BY <1>4, <1>6 DEF PromiseInv, Turns
  <2>2. run # "absent"
    BY <1>6 DEF PromiseInv, RunInv, Holds
  <2>3. QED
    BY <1>3, <1>6, <2>1, <2>2 DEF TypeOK
<1>7. ASSUME NEW c \in Chains, Walks(c, d), chain[c].stage = "idle"
      PROVE  ~Taken(d)
  <2>1. PICK j \in 1..Targets : c = Fresh(j) /\ DeviceOf[j] = d
    BY <1>7, ChainShapes DEF Walks
  <2>2. j >= cursor
    BY <1>7, <2>1 DEF PromiseInv, CursorInv
  <2>3. \A k \in 1..Targets : DeviceOf[k] = d => k = j
    BY <2>1 DEF Orderly
  <2>4. QED
    BY <1>0, <2>2, <2>3 DEF Taken
<1>8. ASSUME NEW c \in Chains, Walks(c, d), chain[c].stage # "waiting"
      PROVE  ~Waits(d)
  BY <1>8 DEF PromiseInv, Turns, Waits
<1>9. QED
  BY <1>2, <1>3, <1>5, <1>6, <1>7, <1>8

\* Steps that a caller does not see.
LEMMA UnseenStep ==
  ASSUME UNCHANGED <<run, blob, results, row, cursor>>
  PROVE  UNCHANGED Promised!vars
<1>1. ASSUME NEW d \in Devices PROVE DeviceState'[d] = DeviceState[d]
  <2>1. (Waits(d)' <=> Waits(d)) /\ (Taken(d)' <=> Taken(d))
    BY DEF Waits, Holds, Taken
  <2>2. QED
    BY <2>1, SameState
<1>2. QED
  BY <1>1, Stutters

\* Row r changes, and nothing else a caller's view of the devices depends on.
OnlyRow(r) ==
  /\ \A q \in Rows \ {r} : row'[q] = row[q]
  /\ UNCHANGED <<run, blob, results, cursor>>

LEMMA OtherDevices ==
  ASSUME NEW r \in Rows, OnlyRow(r), NEW d \in Devices, Holds(r, d)' <=> Holds(r, d)
  PROVE  DeviceState'[d] = DeviceState[d]
<1>1. Waits(d)' <=> Waits(d)
  BY DEF OnlyRow, Waits, Holds
<1>2. Taken(d)' <=> Taken(d)
  BY DEF OnlyRow, Taken
<1>3. QED
  BY <1>1, <1>2, SameState DEF OnlyRow

LEMMA RowUnseen ==
  ASSUME NEW r \in Rows, OnlyRow(r), row[r].stage # "parked", row'[r].stage # "parked"
  PROVE  UNCHANGED Promised!vars
<1>1. \A d \in Devices : DeviceState'[d] = DeviceState[d]
  BY OtherDevices DEF Holds
<1>2. QED
  BY <1>1, Stutters DEF OnlyRow

\* A chain leaves its device in a row.
LEMMA RowParks ==
  ASSUME Orderly, TypeOK, PromiseInv, NEW c \in Chains, NEW r \in Rows, OnlyRow(r),
         chain[c].stage \in {"step", "dispatched"},
         row[r].stage # "parked", row'[r].stage = "parked",
         row'[r].device = chain[c].device
  PROVE  [Promised!Next]_Promised!vars
<1>1. \A e \in Devices : e # chain[c].device => DeviceState'[e] = DeviceState[e]
  BY OtherDevices DEF Holds
<1>2. CASE chain[c].device \notin Devices
  BY <1>1, <1>2, Stutters DEF OnlyRow
<1>3. ASSUME NEW d \in Devices, d = chain[c].device
      PROVE  Promised!Walk(d, "walking", "parked")
  <2>1. Walks(c, d)
    BY <1>3 DEF Walks
  <2>2. results[d] \notin Final /\ Taken(d) /\ run = "running" /\ ~Waits(d)
    BY <2>1, HandsTaken
  <2>3. DeviceState[d] = "walking"
    BY <2>2, StateOf
  <2>4. Waits(d)' /\ results'[d] \notin Final
    BY <1>3, <2>2 DEF Waits, Holds, OnlyRow
  <2>5. DeviceState'[d] = "parked"
    BY <2>4, StateOf
  <2>6. QED
    BY <1>1, <1>3, <2>2, <2>3, <2>5, WalkStep DEF OnlyRow
<1>4. QED
  BY <1>2, <1>3 DEF Promised!Next

\* A parked row is claimed or taken.
LEMMA RowResumes ==
  ASSUME Orderly, TypeOK, PromiseInv, NEW r \in Rows, OnlyRow(r),
         row[r].stage = "parked", row'[r].stage # "parked"
  PROVE  [Promised!Next]_Promised!vars
<1>1. \A e \in Devices : e # row[r].device => DeviceState'[e] = DeviceState[e]
  BY OtherDevices DEF Holds
<1>2. CASE row[r].device \notin Devices
  BY <1>1, <1>2, Stutters DEF OnlyRow
<1>3. ASSUME NEW d \in Devices, d = row[r].device
      PROVE  Promised!Walk(d, "parked", "walking")
  <2>1. Holds(r, d)
    BY <1>3 DEF Holds
  <2>2. results[d] \notin Final /\ Taken(d) /\ run = "running" /\ Waits(d)
    BY <2>1, HandsTaken DEF Waits
  <2>3. DeviceState[d] = "parked"
    BY <2>2, StateOf
  <2>4. \A q \in Rows : ~Holds(q, d)'
    BY <2>1 DEF PromiseInv, Turns, Holds, OnlyRow
  <2>5. ~Waits(d)' /\ results'[d] \notin Final /\ Taken(d)'
    BY <2>2, <2>4 DEF Waits, Taken, OnlyRow
  <2>6. DeviceState'[d] = "walking"
    BY <2>5, StateOf
  <2>7. QED
    BY <1>1, <1>3, <2>2, <2>3, <2>6, WalkStep DEF OnlyRow
<1>4. QED
  BY <1>2, <1>3 DEF Promised!Next

\* The engine's steps, one by one.
LEMMA LaunchPromised == ASSUME Launch PROVE Promised!Launch
<1>1. DeviceState' = DeviceState
  BY DEF Launch, DeviceState, Holds
<1>2. QED
  BY <1>1 DEF Launch, Promised!Launch

LEMMA StartPromised ==
  ASSUME Orderly, TypeOK, PromiseInv, NEW i \in 1..Targets, StartFresh(i)
  PROVE  Promised!Walk(DeviceOf[i], "untaken", "walking")
<1> DEFINE d == DeviceOf[i]
<1>0. d \in Devices /\ cursor \in Nat /\ Targets \in Nat
  BY ConfigAssumption DEF TypeOK, ConfigAssumption
<1>1. /\ chain[Launcher].stage = "fanout" /\ cursor = i /\ cursor' = cursor + 1
      /\ UNCHANGED <<run, blob, results, row>>
  BY DEF StartFresh
<1>2. Fresh(i) \in Chains /\ chain[Fresh(i)].stage = "idle" /\ Walks(Fresh(i), d)
  BY <1>0, <1>1, ChainIds, ChainShapes DEF PromiseInv, CursorInv, Walks
<1>3. results[d] \notin Final /\ run # "completed" /\ ~Taken(d) /\ ~Waits(d)
  BY <1>0, <1>2, HandsTaken
<1>4. run = "running"
  BY <1>1, <1>3, ChainIds DEF PromiseInv, RunInv, TypeOK
<1>5. Taken(d)' /\ \A e \in Devices \ {d} : Taken(e)' <=> Taken(e)
  BY <1>0, <1>1 DEF Taken
<1>6. \A e \in Devices : Waits(e)' <=> Waits(e)
  BY <1>1 DEF Waits, Holds
<1>7. DeviceState[d] = "untaken" /\ DeviceState'[d] = "walking"
  BY <1>0, <1>1, <1>3, <1>5, <1>6, StateOf
<1>8. \A e \in Devices \ {d} : DeviceState'[e] = DeviceState[e]
  BY <1>1, <1>5, <1>6, SameState
<1>9. QED
  BY <1>0, <1>1, <1>4, <1>7, <1>8, WalkStep

LEMMA ParkPromised ==
  ASSUME Orderly, TypeOK, PromiseInv, NEW c \in Chains, Park(c)
  PROVE  [Promised!Next]_Promised!vars
<1>1. PICK r \in Rows :
        /\ NextRow(r)
        /\ row'[r].stage = "parked" /\ row'[r].device = chain[c].device
        /\ \A q \in Rows \ {r} : row'[q] = row[q]
  BY ParkEffect
<1>2. chain[c].stage = "step" /\ row[r].stage = "unused" /\ OnlyRow(r)
  BY <1>1 DEF Park, More, OnlyRow, NextRow
<1>3. QED
  BY <1>1, <1>2, RowParks

LEMMA DispatchPromised ==
  ASSUME TypeOK, NEW c \in Chains, Dispatch(c)
  PROVE  UNCHANGED Promised!vars
<1>1. PICK r \in Rows :
        /\ NextRow(r) /\ row'[r].stage = "reserved"
        /\ \A q \in Rows \ {r} : row'[q] = row[q]
  BY DispatchEffect
<1>2. row[r].stage = "unused" /\ OnlyRow(r)
  BY <1>1 DEF Dispatch, OnlyRow, NextRow
<1>3. QED
  BY <1>1, <1>2, RowUnseen

LEMMA PersistPromised ==
  ASSUME Orderly, TypeOK, PromiseInv, NEW c \in Chains, PersistScript(c)
  PROVE  [Promised!Next]_Promised!vars
<1>1. PICK r : r = chain[c].row
  OBVIOUS
<1>2. /\ chain[c].stage = "dispatched" /\ r \in Rows
      /\ row[r].stage = "reserved" /\ row[r].device = chain[c].device
  BY <1>1 DEF PersistScript, PromiseInv, RowsKeepUp
<1>3. row \in [Rows -> RowSet] /\ row' = [row EXCEPT ![r].stage = "parked"]
  BY <1>1 DEF PersistScript, TypeOK
<1>4. row'[r].stage = "parked" /\ row'[r].device = row[r].device
  BY <1>2, <1>3 DEF RowSet
<1>5. OnlyRow(r)
  BY <1>2, <1>3 DEF PersistScript, OnlyRow
<1>6. QED
  BY <1>2, <1>4, <1>5, RowParks

LEMMA MarkPromised ==
  ASSUME Orderly, TypeOK, PromiseInv, NEW c \in Chains, MarkWaiting(c)
  PROVE  UNCHANGED Promised!vars
<1>1. /\ results' = [results EXCEPT ![chain[c].device] = "waiting"]
      /\ chain[c].stage = "waiting" /\ UNCHANGED <<run, blob, row, cursor>>
      /\ results \in [Devices -> Statuses]
  BY DEF MarkWaiting, TypeOK
<1>2. ASSUME NEW d \in Devices PROVE DeviceState'[d] = DeviceState[d]
  <2>1. (Waits(d)' <=> Waits(d)) /\ (Taken(d)' <=> Taken(d))
    BY <1>1 DEF Waits, Holds, Taken
  <2>2. CASE d # chain[c].device
    BY <1>1, <2>1, <2>2, SameState
  <2>3. CASE d = chain[c].device
    <3>1. results[d] \notin Final
      BY <1>1, <2>3, HandsTaken DEF Walks
    <3>2. results'[d] \notin Final
      BY <1>1, <2>3 DEF Final
    <3>3. QED
      BY <2>1, <3>1, <3>2, SameState
  <2>4. QED
    BY <2>2, <2>3
<1>3. QED
  BY <1>1, <1>2, Stutters

LEMMA FinishPromised ==
  ASSUME Orderly, TypeOK, PromiseInv, NEW c \in Chains, Finish(c)
  PROVE  [Promised!Next]_Promised!vars
<1>0. PICK v : v = Verdict(c)
  OBVIOUS
<1>1. /\ results' = [results EXCEPT ![chain[c].device] = v] /\ v \in Final
      /\ chain[c].stage = "finish" /\ UNCHANGED <<run, blob, row, cursor>>
      /\ results \in [Devices -> Statuses]
  BY <1>0, VerdictType DEF Finish, TypeOK
<1>2. \A d \in Devices : (Waits(d)' <=> Waits(d)) /\ (Taken(d)' <=> Taken(d))
  BY <1>1 DEF Waits, Holds, Taken
<1>3. \A d \in Devices : d # chain[c].device => DeviceState'[d] = DeviceState[d]
  BY <1>1, <1>2, SameState
<1>4. CASE chain[c].device \notin Devices
  BY <1>1, <1>3, <1>4, Stutters
<1>5. ASSUME NEW d \in Devices, d = chain[c].device
      PROVE  Promised!Outcome(d)
  <2>1. results[d] \notin Final /\ Taken(d) /\ run = "running" /\ ~Waits(d)
    BY <1>1, <1>5, HandsTaken DEF Walks
  <2>2. DeviceState[d] = "walking"
    BY <2>1, StateOf
  <2>3. results'[d] = v
    BY <1>1, <1>5
  <2>4. DeviceState'[d] = v
    BY <1>1, <2>3, StateOf
  <2>5. Promised!Walk(d, "walking", v)
    BY <1>1, <1>3, <1>5, <2>1, <2>2, <2>4, WalkStep
  <2>6. v \in Promised!Outcomes
    BY <1>1 DEF Final, Promised!Outcomes
  <2>7. QED
    BY <2>5, <2>6 DEF Promised!Outcome
<1>6. QED
  BY <1>4, <1>5 DEF Promised!Next

LEMMA WritePromised ==
  ASSUME TypeOK, PromiseInv, NEW c \in Chains, FinalizeWrite(c)
  PROVE  [Promised!Next]_Promised!vars
<1>1. /\ chain[c].stage = "write" /\ run' = "completed" /\ blob' = chain[c].seen
      /\ UNCHANGED <<results, row, cursor>>
  BY DEF FinalizeWrite
<1>2. chain[c].seen = results /\ \A d \in Devices : results[d] \in Final
  BY <1>1 DEF PromiseInv, RunInv
<1>3. run \in {"running", "completed"}
  BY <1>1 DEF TypeOK, PromiseInv, RunInv
<1>4. DeviceState' = DeviceState
  BY <1>1 DEF DeviceState, Holds
<1>5. \A d \in Devices : DeviceState[d] = results[d]
  BY <1>2, StateOf
<1>6. DeviceState = results
  <2>1. DeviceState = [d \in Devices |-> DeviceState[d]]
    BY DEF DeviceState
  <2>2. results \in [Devices -> Statuses]
    BY DEF TypeOK
  <2>3. QED
    BY <1>5, <2>1, <2>2
<1>7. CASE run = "running"
  <2>1. \A d \in Devices : DeviceState[d] \in Promised!Outcomes
    BY <1>2, <1>5 DEF Final, Promised!Outcomes
  <2>2. Promised!Complete
    BY <1>1, <1>2, <1>4, <1>6, <1>7, <2>1 DEF Promised!Complete
  <2>3. QED
    BY <2>2 DEF Promised!Next
<1>8. CASE run = "completed"
  BY <1>1, <1>2, <1>4, <1>8 DEF PromiseInv, RunInv, Promised!vars
<1>9. QED
  BY <1>3, <1>7, <1>8

LEMMA ClaimPromised ==
  ASSUME Orderly, TypeOK, PromiseInv, NEW r \in Rows, ClaimDue(r)
  PROVE  [Promised!Next]_Promised!vars
<1>1. row[r].stage = "parked" /\ row'[r].stage = "claimed" /\ OnlyRow(r)
  BY DEF ClaimDue, TypeOK, RowSet, OnlyRow
<1>2. QED
  BY <1>1, RowResumes

LEMMA CleanupPromised ==
  ASSUME TypeOK, PromiseInv, NEW r \in Rows, Cleanup(r)
  PROVE  UNCHANGED Promised!vars
<1>1. row[r].stage # "parked"
  BY DEF Cleanup, PromiseInv, RowsKeepUp
<1>2. row'[r].stage = "deleted" /\ OnlyRow(r)
  BY DEF Cleanup, TypeOK, RowSet, OnlyRow
<1>3. QED
  BY <1>1, <1>2, RowUnseen

LEMMA TakePromised ==
  ASSUME Orderly, TypeOK, PromiseInv, NEW r \in Rows, TakeRow(r)
  PROVE  [Promised!Next]_Promised!vars
<1>1. row[r].stage \in {"reserved", "parked"}
  BY DEF TakeRow, PromiseInv, RowsKeepUp
<1>2. CASE row[r].stage = "reserved"
  <2>1. UNCHANGED <<run, blob, results, row, cursor>>
    BY <1>2 DEF TakeRow
  <2>2. QED
    BY <2>1, UnseenStep
<1>3. CASE row[r].stage = "parked"
  <2>1. row'[r].stage = "deleted" /\ OnlyRow(r)
    BY <1>3 DEF TakeRow, TypeOK, RowSet, OnlyRow
  <2>2. QED
    BY <1>3, <2>1, RowResumes
<1>4. QED
  BY <1>1, <1>2, <1>3

LEMMA StepPromised ==
  ASSUME Orderly, TypeOK, PromiseInv, [Next]_vars
  PROVE  [Promised!Next]_Promised!vars
<1>1. CASE Launch
  BY <1>1, LaunchPromised DEF Promised!Next
<1>2. CASE FanoutDone \/ Crash \/ DeleteWorkflow \/ ChangeCredential \/ UNCHANGED vars
  <2>1. UNCHANGED <<run, blob, results, row, cursor>>
    BY <1>2 DEF FanoutDone, Crash, DeleteWorkflow, ChangeCredential, vars
  <2>2. QED
    BY <2>1, UnseenStep
<1>3. ASSUME NEW i \in 1..Targets, StartFresh(i) PROVE [Promised!Next]_Promised!vars
  <2>1. DeviceOf[i] \in Devices
    BY ConfigAssumption DEF ConfigAssumption
  <2>2. QED
    BY <1>3, <2>1, StartPromised DEF Promised!Next
<1>4. ASSUME NEW c \in Chains, Advance(c) PROVE [Promised!Next]_Promised!vars
  <2>1. CASE RunStep(c) \/ Recover(c) \/ LoopExit(c) \/ FinalizeRead(c)
    <3>1. UNCHANGED <<run, blob, results, row, cursor>>
      BY <2>1 DEF RunStep, Recover, LoopExit, FinalizeRead
    <3>2. QED
      BY <3>1, UnseenStep
  <2>2. QED
    BY <1>4, <2>1, ParkPromised, DispatchPromised, PersistPromised, MarkPromised,
       FinishPromised, WritePromised DEF Advance
<1>5. ASSUME NEW c \in Chains, Throw(c) PROVE [Promised!Next]_Promised!vars
  BY <1>5, NoThrow
<1>6. ASSUME NEW r \in Rows, ClaimDue(r) \/ ResumeRow(r) \/ Report(r)
      PROVE  [Promised!Next]_Promised!vars
  <2>1. CASE TimerResume(r) \/ TokenResume(r) \/ Report(r)
    <3>1. UNCHANGED <<run, blob, results, row, cursor>>
      BY <2>1 DEF TimerResume, TokenResume, Report
    <3>2. QED
      BY <3>1, UnseenStep
  <2>2. QED
    BY <1>6, <2>1, ClaimPromised, CleanupPromised, TakePromised DEF ResumeRow
<1>7. QED
  BY <1>1, <1>2, <1>3, <1>4, <1>5, <1>6 DEF Next

\* The engine implements WorkflowRun: whatever the workflow, however fresh chains,
\* timer and token resumes, finalizations and crashes interleave, a device is taken
\* once, walked by turns and given its outcome once, and the run is completed once,
\* with exactly the outcomes of its devices.
THEOREM PromiseIsKept == Orderly => (Spec => RunPromise)
<1> SUFFICES ASSUME Orderly PROVE Spec => RunPromise
  OBVIOUS
<1>1. Init => Promised!Init
  <2> SUFFICES ASSUME Init PROVE Promised!Init
    OBVIOUS
  <2>1. \A d \in Devices : DeviceState[d] = "untaken"
    <3>1. cursor = 1 /\ Targets \in Nat
      BY ConfigAssumption DEF Init, ConfigAssumption
    <3>2. \A d \in Devices : results[d] \notin Final /\ ~Waits(d)
      BY DEF Init, NoResults, NoRow, Final, Waits, Holds
    <3>3. \A d \in Devices : ~Taken(d)
      BY <3>1 DEF Taken
    <3>4. QED
      BY <3>2, <3>3, StateOf
  <2>2. DeviceState = [d \in Devices |-> "untaken"]
    BY <2>1 DEF DeviceState
  <2>3. QED
    BY <2>2 DEF Init, NoResults, Promised!Init
<1>2. TypeOK /\ PromiseInv /\ [Next]_vars => [Promised!Next]_Promised!vars
  BY StepPromised
<1>3. Spec => [](TypeOK /\ PromiseInv)
  BY PromiseInvariant
<1>4. QED
  BY <1>1, <1>2, <1>3, PTL DEF Spec, RunPromise, Promised!Spec

=============================================================================
