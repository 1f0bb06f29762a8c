---------------------------- MODULE PlatformProofs -----------------------------
(***************************************************************************)
(* The parts of MCPlatform.  The notices of the job that watches the       *)
(* others, for any set of jobs and any number of failures and restarts,    *)
(* provided every job has reported before the first look.  The agent's     *)
(* latest report, for any fleet, budget and number of reports, as long as  *)
(* no report comes between the refresher's reads and its writes            *)
(* (QuietRow).  The serials of the certificates and the row that  *)
(* is the active one.  And the rows of the vulnerability cache, which are  *)
(* those of their key when the service answers in full (FullAnswers).      *)
(***************************************************************************)
EXTENDS JobRunner, AppInventory, DeviceCertificates, VulnCache, FiniteSetTheorems,
        SequenceTheorems, TLAPS

---------------------------------------------------------------------------
(* The job runner *)

Rows == [exists : BOOLEAN, late : BOOLEAN, errors : 0..Streak, alerted : BOOLEAN]
Entries == [unhealthy : BOOLEAN, alerted : BOOLEAN]

JobTypes ==
  /\ slot \subseteq Watched /\ todo \subseteq Watched /\ beaten \subseteq Watched
  /\ sending \subseteq todo /\ said = [j \in Watched |-> said[j]]
  /\ row \in [Watched -> Rows]
  /\ read \in [Watched -> Entries]
  /\ DOMAIN run = Watched
  /\ \A j \in Watched : run[j] # "idle" => j \in slot
  /\ \A j \in Watched : row[j].exists

\* A job that has not reported since it was found unhealthy still is.
SilentIsUnhealthy == \A j \in Watched : j \notin beaten => Unhealthy(row[j])

\* What the monitor is about to call recovered has reported.
RecoveredHasBeaten ==
  \A j \in todo : read[j].alerted /\ ~read[j].unhealthy => j \in beaten

\* A notice goes out during the look, by what was read.
SendsByRead == /\ sending # {} => run[Monitor] = "watching"
               /\ \A j \in sending : Alerts(j) \/ Recovers(j)

JobCore == JobTypes /\ SilentIsUnhealthy /\ RecoveredHasBeaten
JobInv  == JobCore /\ SendsByRead

LEMMA JobInitInv == AllBeatOnce /\ JobInit => JobInv
BY DEF JobInit, JobInv, JobCore, JobTypes, SilentIsUnhealthy, RecoveredHasBeaten, SendsByRead, NewRow, Rows, Unread, Entries,
       Streak, Watched

\* recordJobHeartbeat and the marks keep a row a row.
LEMMA RowsStayRows ==
  ASSUME NEW old \in Rows, NEW status, old.exists
  PROVE  /\ Beaten(old, status) \in Rows /\ Beaten(old, status).exists
         /\ MarkedRow(old) = [old EXCEPT !.alerted = TRUE]
<1>1. old.errors \in 0..Streak /\ Streak = 3
  BY DEF Rows, Streak
<1>2. (IF status = Ok THEN 0 ELSE IF old.errors < Streak THEN old.errors + 1 ELSE old.errors) \in 0..Streak
  BY <1>1
<1>3. QED
  BY <1>2 DEF Beaten, MarkedRow, Rows

\* A mark says nothing of a job's health.
LEMMA MarksKeepHealth ==
  ASSUME NEW old \in Rows, NEW mark \in BOOLEAN
  PROVE  /\ [old EXCEPT !.alerted = mark] \in Rows
         /\ [old EXCEPT !.alerted = mark].exists = old.exists
         /\ Unhealthy([old EXCEPT !.alerted = mark]) <=> Unhealthy(old)
BY DEF Rows, Unhealthy

LEMMA CoreStep == ASSUME JobCore, [JobNext]_jobVars PROVE JobCore'
<1> USE DEF JobCore, JobTypes, noticeVars
<1>1. ASSUME NEW j \in Watched, Tick(j) PROVE JobCore'
  BY <1>1 DEF Tick, SilentIsUnhealthy, RecoveredHasBeaten
<1>2. ASSUME NEW j \in Watched, RunEnds(j) PROVE JobCore'
  BY <1>2 DEF RunEnds, SilentIsUnhealthy, RecoveredHasBeaten
<1>3. ASSUME NEW j \in Watched, RunThrows(j) PROVE JobCore'
  <2>1. /\ slot' = slot /\ row' = row /\ beaten' = beaten /\ j \in slot
        /\ run' = [run EXCEPT ![j] = Error]
    BY <1>3 DEF RunThrows
  <2>2. \/ CutShort
        \/ UNCHANGED <<read, todo, noticeVars>>
    BY <1>3 DEF RunThrows
  <2>3. JobTypes'
    <3>1. read' \in [Watched -> Entries] /\ todo' \subseteq Watched
      <4>1. Unread \in [Watched -> Entries]
        BY DEF Unread, Entries
      <4>2. QED
        BY <2>2, <4>1 DEF CutShort
    <3>2. sending' \subseteq todo' /\ said' = [i \in Watched |-> said'[i]]
      BY <2>2 DEF CutShort, noticeVars
    <3>3. QED
      BY <2>1, <3>1, <3>2
  <2>4. RecoveredHasBeaten'
    BY <2>1, <2>2 DEF RecoveredHasBeaten, CutShort
  <2>5. SilentIsUnhealthy'
    BY <2>1 DEF SilentIsUnhealthy
  <2>6. QED
    BY <2>3, <2>4, <2>5
<1>4. ASSUME NEW j \in Watched, Heartbeat(j) PROVE JobCore'
  <2>1. /\ UNCHANGED <<slot, todo, read, noticeVars>>
        /\ run' = [run EXCEPT ![j] = "ending"] /\ j \in slot
    BY <1>4 DEF Heartbeat, Ok, Error
  <2>2. CASE row' = [row EXCEPT ![j] = Beaten(@, run[j])] /\ beaten' = beaten \cup {j}
    <3>1. row' \in [Watched -> Rows] /\ \A i \in Watched : row'[i].exists
      BY <2>2, RowsStayRows
    <3>2. SilentIsUnhealthy'
      BY <2>2 DEF SilentIsUnhealthy
    <3>3. RecoveredHasBeaten'
      BY <2>1, <2>2 DEF RecoveredHasBeaten
    <3>4. QED
      BY <2>1, <2>2, <3>1, <3>2, <3>3
  <2>3. CASE UNCHANGED <<row, beaten>>
    BY <2>1, <2>3 DEF SilentIsUnhealthy, RecoveredHasBeaten
  <2>4. QED
    BY <1>4, <2>2, <2>3 DEF Heartbeat
<1>5. ASSUME NEW j \in Watched, Release(j) PROVE JobCore'
  BY <1>5 DEF Release, SilentIsUnhealthy, RecoveredHasBeaten
<1>6. ASSUME NEW j \in Watched, Overdue(j) PROVE JobCore'
  <2>1. row' = [row EXCEPT ![j] = [row[j] EXCEPT !.late = TRUE]]
    BY <1>6 DEF Overdue
  <2>2. row' \in [Watched -> Rows] /\ \A i \in Watched : row'[i].exists
    <3> DEFINE late == [row[j] EXCEPT !.late = TRUE]
    <3>1. row[j] \in Rows /\ row[j].exists
      OBVIOUS
    <3>2. late \in Rows /\ late.exists
      BY <3>1 DEF Rows
    <3>3. row' = [row EXCEPT ![j] = late]
      BY <2>1
    <3> HIDE DEF late
    <3>4. QED
      BY <3>2, <3>3
  <2>3. SilentIsUnhealthy'
    BY <1>6, <2>1 DEF SilentIsUnhealthy, Unhealthy, Overdue
  <2>4. QED
    BY <1>6, <2>2, <2>3 DEF Overdue, RecoveredHasBeaten
<1>7. ASSUME ReadRows PROVE JobCore'
  <2>1. read' \in [Watched -> Entries]
    BY <1>7 DEF ReadRows, Entries, Unhealthy, Rows, Streak
  <2>2. SilentIsUnhealthy'
    BY <1>7 DEF ReadRows, SilentIsUnhealthy
  <2>3. RecoveredHasBeaten'
    BY <1>7 DEF ReadRows, SilentIsUnhealthy, RecoveredHasBeaten
  <2>4. QED
    BY <1>7, <2>1, <2>2, <2>3 DEF ReadRows, Watched
<1>8. ASSUME NEW j \in Watched, NEW notice, Deliver(j, notice) PROVE JobCore'
  <2>1. sending' \subseteq todo' /\ said' = [i \in Watched |-> said'[i]]
    BY <1>8 DEF Deliver
  <2>2. UNCHANGED <<slot, run, row, read, todo, beaten>>
    BY <1>8 DEF Deliver
  <2>3. SilentIsUnhealthy' /\ RecoveredHasBeaten'
    BY <2>2 DEF SilentIsUnhealthy, RecoveredHasBeaten
  <2>4. sending' \subseteq todo'
    BY <1>8 DEF Deliver
  <2>5. QED
    BY <2>1, <2>2, <2>3, <2>4
<1>9. ASSUME NEW j \in Watched, Mark(j) PROVE JobCore'
  <2>1. PICK mark \in BOOLEAN : row' = [row EXCEPT ![j] = [row[j] EXCEPT !.alerted = mark]]
    <3>1. MarkedRow(row[j]) = [row[j] EXCEPT !.alerted = TRUE]
      BY RowsStayRows
    <3>2. QED
      BY <1>9, <3>1 DEF Mark
  <2>2. row' \in [Watched -> Rows] /\ \A i \in Watched : row'[i].exists
    BY <2>1, MarksKeepHealth
  <2>3. SilentIsUnhealthy'
    <3>1. \A i \in Watched : Unhealthy(row'[i]) <=> Unhealthy(row[i])
      <4>1. Unhealthy([row[j] EXCEPT !.alerted = mark]) <=> Unhealthy(row[j])
        BY MarksKeepHealth
      <4>2. QED
        BY <2>1, <4>1
    <3>2. beaten' = beaten
      BY <1>9 DEF Mark
    <3>3. QED
      BY <3>1, <3>2 DEF SilentIsUnhealthy
  <2>4. QED
    BY <1>9, <2>2, <2>3 DEF Mark, RecoveredHasBeaten
<1>10. ASSUME NEW j \in Watched, NothingToSay(j) PROVE JobCore'
  BY <1>10 DEF NothingToSay, SilentIsUnhealthy, RecoveredHasBeaten
<1>11. ASSUME WatchEnds PROVE JobCore'
  BY <1>11 DEF WatchEnds, SilentIsUnhealthy, RecoveredHasBeaten, Unread, Entries, Watched
<1>12. ASSUME Restart PROVE JobCore'
  BY <1>12 DEF Restart, CutShort, SilentIsUnhealthy, RecoveredHasBeaten, Unread, Entries
<1>13. CASE UNCHANGED jobVars
  BY <1>13 DEF jobVars, SilentIsUnhealthy, RecoveredHasBeaten
<1>14. QED
  BY <1>1, <1>2, <1>3, <1>4, <1>5, <1>6, <1>7, <1>8, <1>9, <1>10, <1>11, <1>12, <1>13
     DEF JobNext, Watch, SendAlert, SendRecovery

LEMMA SendsStep == ASSUME JobInv, [JobNext]_jobVars PROVE SendsByRead'
<1> USE DEF JobInv, JobCore, JobTypes, SendsByRead, Alerts, Recovers, noticeVars
<1>1. ASSUME sending' = {} PROVE SendsByRead'
  BY <1>1
<1>2. ASSUME UNCHANGED <<sending, read>>, run'[Monitor] = run[Monitor] \/ sending = {} PROVE SendsByRead'
  BY <1>2
<1>3. ASSUME NEW j \in Watched,
             Tick(j) \/ RunEnds(j) \/ Heartbeat(j) \/ Release(j) \/ Overdue(j) \/ NothingToSay(j)
      PROVE  SendsByRead'
  <2>1. UNCHANGED <<sending, read>>
    BY <1>3 DEF Tick, RunEnds, Heartbeat, Release, Overdue, NothingToSay
  <2>2. run' = run \/ (run' = [run EXCEPT ![j] = run'[j]] /\ (run[j] # "watching" \/ j \notin slot))
    BY <1>3 DEF Tick, RunEnds, Heartbeat, Release, Overdue, NothingToSay, Ok, Error
  <2>3. run[Monitor] = "watching" => Monitor \in slot
    BY DEF Watched
  <2>4. QED
    BY <1>2, <2>1, <2>2, <2>3
<1>4. ASSUME NEW j \in Watched, RunThrows(j) PROVE SendsByRead'
  <2>1. CASE j = Monitor
    BY <1>1, <1>4, <2>1 DEF RunThrows, CutShort
  <2>2. CASE j # Monitor
    BY <1>2, <1>4, <2>2 DEF RunThrows
  <2>3. QED
    BY <2>1, <2>2
<1>5. ASSUME NEW j \in Watched, SendAlert(j) \/ SendRecovery(j) PROVE SendsByRead'
  <2>1. sending' = {j} /\ UNCHANGED <<run, read>> /\ run[Monitor] = "watching"
    BY <1>5 DEF SendAlert, SendRecovery, Deliver
  <2>2. Alerts(j) \/ Recovers(j)
    BY <1>5 DEF SendAlert, SendRecovery
  <2>3. QED
    BY <2>1, <2>2
<1>6. ASSUME NEW j \in Watched, Mark(j) PROVE SendsByRead'
  BY <1>1, <1>6 DEF Mark
<1>7. CASE ReadRows
  <2>1. sending = {} /\ sending' = sending
    BY <1>7 DEF ReadRows
  <2>2. QED
    BY <1>1, <2>1
<1>8. CASE WatchEnds
  <2>1. sending = {} /\ sending' = sending
    BY <1>8 DEF WatchEnds
  <2>2. QED
    BY <1>1, <2>1
<1>9. CASE Restart
  BY <1>1, <1>9 DEF Restart, CutShort
<1>10. CASE UNCHANGED jobVars
  BY <1>2, <1>10 DEF jobVars
<1>11. QED
  BY <1>3, <1>4, <1>5, <1>6, <1>7, <1>8, <1>9, <1>10 DEF JobNext, Watch

LEMMA JobStepInv == ASSUME JobInv, [JobNext]_jobVars PROVE JobInv'
BY CoreStep, SendsStep DEF JobInv

THEOREM Invariance == AllBeatOnce => (JobSpec => []JobInv)
BY JobInitInv, JobStepInv, PTL DEF JobSpec

\* runJobOnce and checkSystemHealthAndAlert: types, and no run without its slot.
THEOREM TypeCorrect == AllBeatOnce => (JobSpec => []JobTypeOK)
<1>1. JobInv => JobTypeOK
  BY DEF JobInv, JobCore, JobTypes, JobTypeOK, Rows
<1>2. QED
  BY <1>1, Invariance, PTL

\* Only Mark takes a mark away, from the job that is being sent about.
LEMMA MarksGoByMark ==
  ASSUME JobInv, JobNext, NEW j \in Watched, row[j].alerted, ~row'[j].alerted
  PROVE  j \in todo /\ read[j].alerted /\ ~read[j].unhealthy
<1>1. PICK i \in Watched : Mark(i) \/ Heartbeat(i) \/ Overdue(i)
  BY DEF JobNext, Watch, Tick, RunEnds, RunThrows, Release, ReadRows, SendAlert, SendRecovery, Deliver,
         NothingToSay, WatchEnds, Restart
<1>2. row[i] \in Rows /\ row[i].exists /\ row \in [Watched -> Rows]
  BY DEF JobInv, JobCore, JobTypes
<1>3. i = j
  BY <1>1, <1>2 DEF Mark, Heartbeat, Overdue
<1>4. CASE Mark(i)
  <2>1. i \in todo /\ ~Alerts(i) => row'[i].alerted = FALSE
    BY <1>2, <1>4 DEF Mark, Rows
  <2>2. Alerts(i) => row'[i].alerted
    BY <1>2, <1>4, RowsStayRows DEF Mark, Rows
  <2>3. i \in sending /\ i \in todo /\ ~Alerts(i)
    BY <1>3, <1>4, <2>2 DEF Mark, JobInv, JobCore, JobTypes
  <2>4. Recovers(i)
    BY <2>3 DEF JobInv, SendsByRead
  <2>5. QED
    BY <1>3, <2>3, <2>4 DEF Recovers
<1>5. CASE Heartbeat(i)
  <2>1. row' = row \/ row'[i] = Beaten(row[i], run[i])
    BY <1>2, <1>5, Zenon DEF Heartbeat
  <2>2. Beaten(row[i], run[i]).alerted = row[i].alerted
    BY <1>2 DEF Beaten, Rows
  <2>3. QED
    BY <1>3, <2>1, <2>2
<1>6. CASE Overdue(i)
  BY <1>2, <1>3, <1>6 DEF Overdue, Rows
<1>7. QED
  BY <1>1, <1>4, <1>5, <1>6

\* Only SendRecovery tells the recipients that a job is up.
LEMMA UpIsSaidBySend ==
  ASSUME JobInv, JobNext, NEW j \in Watched, said[j] # "up", said'[j] = "up"
  PROVE  j \in todo /\ read[j].alerted /\ ~read[j].unhealthy
<1>1. \/ \E i \in Watched : SendAlert(i) \/ SendRecovery(i)
      \/ CutShort
      \/ said' = said
  BY DEF JobNext, Watch, Tick, RunEnds, RunThrows, Heartbeat, Release, Overdue, ReadRows, Mark,
         NothingToSay, WatchEnds, Restart, noticeVars
<1>2. ~CutShort /\ said' # said
  BY DEF CutShort
<1>3. PICK i \in Watched : SendAlert(i) \/ SendRecovery(i)
  BY <1>1, <1>2
<1>4. i = j /\ SendRecovery(j)
  BY <1>3 DEF SendAlert, SendRecovery, Deliver, JobInv, JobCore, JobTypes
<1>5. QED
  BY <1>4 DEF SendRecovery, Recovers, Deliver

\* checkSystemHealthAndAlert: a recovery is announced, and marked, only after the
\* job has reported again.
THEOREM NoFalseRecovery == AllBeatOnce => (JobSpec => RecoveryFollowsHeartbeat)
<1>1. ASSUME JobInv, JobNext, NEW j \in Watched, Announced(j)
      PROVE  j \in beaten
  <2>1. j \in todo /\ read[j].alerted /\ ~read[j].unhealthy
    BY <1>1, MarksGoByMark, UpIsSaidBySend DEF Announced
  <2>2. QED
    BY <1>1, <2>1 DEF JobInv, JobCore, RecoveredHasBeaten
<1>2. JobInv /\ [JobNext]_jobVars => [\A j \in Watched : Announced(j) => j \in beaten]_jobVars
  BY <1>1
<1>3. QED
  BY <1>2, Invariance, PTL DEF JobSpec, RecoveryFollowsHeartbeat

---------------------------------------------------------------------------
(* The inventory of apps *)

Reports == {"none", "match", "put", "clear", "answer"}

AppTypes == /\ newest \in [Devices -> Nat] /\ acked \in [Devices -> Nat]
            /\ pending \in [Devices -> Nat] /\ selfReported \in [Devices -> Nat]
            /\ report \in [Devices -> Reports]
            /\ tick = [stage |-> tick.stage, rows |-> tick.rows, batch |-> tick.batch,
                       self |-> tick.self]
            /\ tick.rows \in [Devices -> Nat]

\* A report that is being handled is the newest there is; after the write of its
\* slot it is the one held, and before its answer the one kept.
HandlesNewest(d) == /\ acked[d] <= newest[d]
                    /\ report[d] # "none" => newest[d] > 0
                    /\ report[d] = "clear" => selfReported[d] = newest[d]
                    /\ report[d] = "answer" => Kept(d) = newest[d]

\* The refresher has a device to itself from its read to its write, so what it
\* read is what it finds.
Reconciling(d) == tick.stage = "reconcile" /\ tick.rows[d] # 0
Storing(d)     == tick.stage = "put" /\ Head(tick.batch) = d
ReadsCurrent(d) == /\ Reconciling(d) => report[d] = "none" /\ tick.rows[d] = pending[d]
                   /\ Storing(d) => report[d] = "none" /\ tick.self = selfReported[d]

KeepsAcked(d) == acked[d] <= Kept(d)

AppInv == AppTypes /\ \A d \in Devices : HandlesNewest(d) /\ ReadsCurrent(d) /\ KeepsAcked(d)

LEMMA AppInitInv == AppInit => AppInv
<1> SUFFICES ASSUME AppInit PROVE AppInv
  OBVIOUS
<1>1. /\ newest = [d \in Devices |-> 0]
      /\ pending = newest /\ selfReported = newest /\ acked = newest
      /\ report = [d \in Devices |-> "none"] /\ tick = Idle
  BY DEF AppInit
<1>2. AppTypes
  BY <1>1 DEF AppTypes, Reports, Idle
<1>3. \A d \in Devices : HandlesNewest(d) /\ ReadsCurrent(d) /\ KeepsAcked(d)
  BY <1>1 DEF HandlesNewest, ReadsCurrent, Reconciling, Storing, KeepsAcked, Kept, Idle
<1>4. QED
  BY <1>2, <1>3 DEF AppInv

\* reportDeviceApps, for the device whose report it is; nothing changes for others.
LEMMA ReportKeepsInv ==
  ASSUME QuietRow, AppInv, NEW d \in Devices, Arrives(d) \/ HandleReport(d) \/ ReportFails(d)
  PROVE  AppInv'
<1> USE DEF AppInv, AppTypes, HandlesNewest, ReadsCurrent, Reconciling, Storing, KeepsAcked, Kept,
            Reports
<1>1. report[d] \in Reports /\ newest[d] \in Nat /\ selfReported[d] \in Nat /\ acked[d] \in Nat
      /\ pending[d] \in Nat
  OBVIOUS
<1>2. CASE Arrives(d)
  <2>1. /\ newest' = [newest EXCEPT ![d] = newest[d] + 1]
        /\ report' = [report EXCEPT ![d] = "match"] /\ report[d] = "none"
        /\ ~Reconciling(d) /\ ~Storing(d)
        /\ UNCHANGED <<acked, pending, selfReported, tick>>
    BY <1>2 DEF Arrives, Stage, InUse
  <2>2. \A e \in Devices \ {d} : report'[e] = report[e] /\ newest'[e] = newest[e]
    BY <2>1
  <2>3. QED
    BY <1>1, <2>1, <2>2
<1>3. CASE Match(d) /\ d \in indexed
  <2>1. /\ report' = [report EXCEPT ![d] = "put"] /\ report[d] = "match"
        /\ UNCHANGED <<newest, acked, pending, selfReported, tick>>
    BY <1>3 DEF Match, Stage
  <2>2. QED
    BY <1>1, <2>1
<1>4. CASE Match(d) /\ d \notin indexed
  <2>1. /\ report' = [report EXCEPT ![d] = "answer"] /\ report[d] = "match"
        /\ pending' = [pending EXCEPT ![d] = newest[d]]
        /\ UNCHANGED <<newest, acked, selfReported, tick>>
    BY <1>4 DEF Match, Stage
  <2>2. ~Reconciling(d) /\ ~Storing(d) /\ newest[d] > 0
    BY <2>1
  <2>3. QED
    BY <1>1, <2>1, <2>2
<1>5. CASE PutReport(d)
  <2>1. /\ selfReported' = [selfReported EXCEPT ![d] = newest[d]]
        /\ report' = [report EXCEPT ![d] = "clear"] /\ report[d] = "put"
        /\ UNCHANGED <<newest, acked, pending, tick>>
    BY <1>5 DEF PutReport, Stage
  <2>2. QED
    BY <1>1, <2>1
<1>6. CASE ClearBuffered(d)
  <2>1. /\ pending' = [pending EXCEPT ![d] = 0]
        /\ report' = [report EXCEPT ![d] = "answer"] /\ report[d] = "clear"
        /\ UNCHANGED <<newest, acked, selfReported, tick>>
    BY <1>6 DEF ClearBuffered, Stage
  <2>2. QED
    BY <1>1, <2>1
<1>7. CASE Acknowledge(d)
  <2>1. /\ acked' = [acked EXCEPT ![d] = newest[d]]
        /\ report' = [report EXCEPT ![d] = "none"] /\ report[d] = "answer"
        /\ UNCHANGED <<newest, pending, selfReported, tick>>
    BY <1>7 DEF Acknowledge, Stage
  <2>2. QED
    BY <1>1, <2>1
<1>8. CASE ReportFails(d)
  <2>1. /\ report' = [report EXCEPT ![d] = "none"]
        /\ UNCHANGED <<newest, acked, pending, selfReported, tick>>
    BY <1>8 DEF ReportFails, Stage
  <2>2. QED
    BY <1>1, <2>1
<1>9. QED
  BY <1>2, <1>3, <1>4, <1>5, <1>6, <1>7, <1>8 DEF HandleReport

\* reconcilePendingAppReports: the buffered report it read is the one buffered still.
LEMMA ReconcileKeepsInv ==
  ASSUME AppInv, NEW d \in Devices, Reconcile(d) \/ ReconcileFails(d)
  PROVE  AppInv'
<1> USE DEF AppInv, AppTypes, HandlesNewest, ReadsCurrent, Reconciling, Storing, KeepsAcked, Kept
<1>1. tick.rows[d] \in Nat /\ tick.rows[d] = pending[d] /\ pending[d] # 0 /\ report[d] = "none"
      /\ tick.stage = "reconcile"
  BY DEF Reconcile, ReconcileFails
<1>2. /\ tick'.stage = "reconcile" /\ tick' = [stage |-> tick'.stage, rows |-> tick'.rows,
                                              batch |-> tick'.batch, self |-> tick'.self]
      /\ UNCHANGED <<newest, acked, report>>
  BY DEF Reconcile, ReconcileFails
<1>3. CASE Reconcile(d)
  <2>1. /\ tick'.rows = [tick.rows EXCEPT ![d] = 0]
        /\ selfReported' = [selfReported EXCEPT ![d] = pending[d]]
        /\ pending' = [pending EXCEPT ![d] = 0]
    BY <1>1, <1>3 DEF Reconcile
  <2>2. QED
    BY <1>1, <1>2, <2>1
<1>4. CASE ReconcileFails(d)
  <2>1. /\ tick'.rows = [e \in Devices |-> 0] /\ pending' = pending
        /\ selfReported' = [selfReported EXCEPT ![d] = pending[d]] \/ selfReported' = selfReported
    BY <1>1, <1>4 DEF ReconcileFails, Idle
  <2>2. QED
    BY <1>1, <1>2, <2>1
<1>5. QED
  BY <1>3, <1>4

\* fetchAndStoreInstalledApps: the slot of the agent's reports is written back as read.
LEMMA FetchKeepsInv ==
  ASSUME QuietRow, AppInv, Fetch \/ PutFetched
  PROVE  AppInv'
<1> USE DEF AppInv, AppTypes, HandlesNewest, ReadsCurrent, Reconciling, Storing, KeepsAcked, Kept
<1>1. CASE Fetch
  BY <1>1 DEF Fetch
<1>2. CASE PutFetched
  <2>1. /\ selfReported' = [selfReported EXCEPT ![Head(tick.batch)] = tick.self]
        /\ tick.stage = "put" /\ tick'.stage = "fetch" /\ tick'.rows = tick.rows
        /\ tick' = [stage |-> tick'.stage, rows |-> tick'.rows, batch |-> tick'.batch,
                    self |-> tick'.self]
        /\ UNCHANGED <<newest, acked, report, pending>>
    BY <1>2 DEF PutFetched, OtherSlot
  <2>2. selfReported' = selfReported
    BY <2>1
  <2>3. QED
    BY <2>1, <2>2
<1>3. QED
  BY <1>1, <1>2

LEMMA AppStepInv == ASSUME QuietRow, AppInv, [AppNext]_appVars PROVE AppInv'
<1>1. CASE TickStarts
  <2>1. /\ \A d \in Devices : report[d] = "none"
        /\ tick'.stage = "reconcile" /\ tick'.rows = pending
        /\ tick' = [stage |-> tick'.stage, rows |-> tick'.rows, batch |-> tick'.batch,
                    self |-> tick'.self]
        /\ UNCHANGED <<newest, acked, report, pending, selfReported>>
    BY <1>1 DEF TickStarts, Idle
  <2>2. QED
    BY <2>1 DEF AppInv, AppTypes, HandlesNewest, ReadsCurrent, Reconciling, Storing, KeepsAcked, Kept
<1>2. ASSUME UNCHANGED <<newest, acked, report, pending, selfReported>>,
             tick'.stage \in {"idle", "fetch"}, tick'.rows \in [Devices -> Nat],
             tick' = [stage |-> tick'.stage, rows |-> tick'.rows, batch |-> tick'.batch,
                      self |-> tick'.self]
      PROVE  AppInv'
  BY <1>2 DEF AppInv, AppTypes, HandlesNewest, ReadsCurrent, Reconciling, Storing, KeepsAcked, Kept
<1>3. CASE PickBatch
  BY <1>2, <1>3 DEF PickBatch, AppInv, AppTypes
<1>4. CASE TickEnds
  <2>1. tick' = [stage |-> "idle", rows |-> [d \in Devices |-> 0], batch |-> <<>>, self |-> 0]
    BY <1>4 DEF TickEnds, Idle
  <2>2. UNCHANGED <<newest, acked, report, pending, selfReported>>
    BY <1>4 DEF TickEnds
  <2>3. QED
    BY <1>2, <2>1, <2>2
<1>5. ASSUME UNCHANGED <<newest, acked, report, pending, selfReported, tick>> PROVE AppInv'
  BY <1>5 DEF AppInv, AppTypes, HandlesNewest, ReadsCurrent, Reconciling, Storing, KeepsAcked, Kept
<1>6. CASE \E d \in Reporters : GrowsOld(d) \/ IndexChanges(d)
  BY <1>5, <1>6 DEF GrowsOld, IndexChanges
<1>7. CASE UNCHANGED appVars
  BY <1>5, <1>7 DEF appVars
<1>8. QED
  BY <1>1, <1>3, <1>4, <1>6, <1>7, ReportKeepsInv, ReconcileKeepsInv, FetchKeepsInv,
     AppAssumption DEF AppNext, RefresherStep, AppAssumption

\* installedApps.service.ts and deviceData.service.ts: if no report is handled
\* between the refresher's reads and its writes, no report that was answered with
\* success gives way to an older one, whatever fails half way.
THEOREM LatestReportsAreKept == QuietRow => (AppSpec => []LatestReportIsKept)
<1> SUFFICES ASSUME QuietRow PROVE AppSpec => []LatestReportIsKept
  OBVIOUS
<1>1. AppInit => AppInv
  BY AppInitInv
<1>2. AppInv /\ [AppNext]_appVars => AppInv'
  BY AppStepInv
<1>3. AppInv => LatestReportIsKept
  BY DEF AppInv, KeepsAcked, LatestReportIsKept
<1>4. QED
  BY <1>1, <1>2, <1>3, PTL DEF AppSpec

---------------------------------------------------------------------------
(* The certificates *)


CertRows == [ca : Nat, serial : Nat, expired : BOOLEAN, superseded : BOOLEAN, revoked : BOOLEAN,
         by : Requests]
StageNames == {"none", "check", "known", "fleet", "auth", "supersede", "ca", "serial", "record",
               "answer"}
Stages == [stage : StageNames, ca : Nat, serial : Nat]

Types == /\ ca \in Nat /\ counter \in Nat
         /\ cert \in Seq(CertRows)
         /\ req \in [Requests -> Stages]

Signing(r)   == At(r, "serial") \/ At(r, "record")
Recording(r) == At(r, "record")

\* Who signs does it with the authority in use, under a number below the counter
\* that nobody else has.
SignsWithCurrent == \A r \in Requests : Signing(r) => req[r].ca = ca
ClaimsBelow      == \A r \in Requests : Recording(r) => req[r].serial < counter
ClaimsDiffer     == \A r, s \in Requests :
                      Recording(r) /\ Recording(s) /\ r # s => req[r].serial # req[s].serial

\* So are the numbers of the rows, which are none of those claimed.
RowsBelow  == \A i \in 1..Len(cert) :
                cert[i].ca <= ca /\ (cert[i].ca = ca => cert[i].serial < counter)
RowsDiffer == \A r \in Requests, i \in 1..Len(cert) :
                Recording(r) /\ cert[i].ca = ca => cert[i].serial # req[r].serial
Unique     == \A i, j \in 1..Len(cert) :
                cert[i].ca = cert[j].ca /\ cert[i].serial = cert[j].serial => i = j

Inv == /\ Types /\ SignsWithCurrent /\ ClaimsBelow /\ ClaimsDiffer
       /\ RowsBelow /\ RowsDiffer /\ Unique

LEMMA InitInv == CertInit => Inv
<1> SUFFICES ASSUME CertInit PROVE Inv
  OBVIOUS
<1>1. NoRequest \in Stages /\ NoRequest.stage = "none"
  BY DEF NoRequest, Stages, StageNames
<1>2. Types
  BY <1>1 DEF CertInit, Types
<1>3. \A r \in Requests : ~Signing(r) /\ ~Recording(r)
  BY <1>1 DEF CertInit, Signing, Recording, At
<1>4. Len(cert) = 0
  BY DEF CertInit
<1>5. QED
  BY <1>2, <1>3, <1>4 DEF Inv, SignsWithCurrent, ClaimsBelow, ClaimsDiffer, RowsBelow, RowsDiffer, Unique

\* A step that numbers no row and lets no request near the authority.
LEMMA QuietStep ==
  ASSUME Inv, UNCHANGED caVars, req' \in [Requests -> Stages],
         \A r \in Requests : req'[r] = req[r] \/ req'[r].stage \notin {"serial", "record"},
         cert' \in Seq(CertRows), Len(cert') = Len(cert),
         \A i \in 1..Len(cert) : cert'[i].ca = cert[i].ca /\ cert'[i].serial = cert[i].serial
  PROVE  Inv'
<1> USE DEF Inv, Types, caVars, Signing, Recording, At
<1>1. \A r \in Requests : Signing(r)' => Signing(r) /\ req'[r] = req[r]
  OBVIOUS
<1>2. \A r \in Requests : Recording(r)' => Recording(r) /\ req'[r] = req[r]
  OBVIOUS
<1>3. SignsWithCurrent' /\ ClaimsBelow' /\ ClaimsDiffer'
  BY <1>1, <1>2 DEF SignsWithCurrent, ClaimsBelow, ClaimsDiffer
<1>4. RowsBelow' /\ Unique'
  BY DEF RowsBelow, Unique
<1>5. RowsDiffer'
  BY <1>2 DEF RowsDiffer
<1>6. QED
  BY <1>3, <1>4, <1>5

\* The steps of a handler that only move it on.
LEMMA StagesStayStages ==
  ASSUME req \in [Requests -> Stages], NEW r \in Requests, NEW s \in StageNames, NEW n \in Nat
  PROVE  /\ [req EXCEPT ![r].stage = s] \in [Requests -> Stages]
         /\ [req EXCEPT ![r].stage = s][r].stage = s
         /\ [req EXCEPT ![r] = NoRequest] \in [Requests -> Stages]
         /\ [req EXCEPT ![r] = Begun(s, n)] \in [Requests -> Stages]
<1>1. NoRequest \in Stages /\ Begun(s, n) \in Stages
  BY DEF NoRequest, Begun, Stages, StageNames
<1>2. [req[r] EXCEPT !.stage = s] \in Stages /\ [req[r] EXCEPT !.stage = s].stage = s
  BY DEF Stages
<1>3. QED
  BY <1>1, <1>2

LEMMA MovesOn ==
  ASSUME Inv, NEW r \in Requests, UNCHANGED <<caVars, cert>>,
         \/ \E s \in StageNames \ {"serial", "record"}, n \in Nat :
              req' = [req EXCEPT ![r].stage = s] \/ req' = [req EXCEPT ![r] = Begun(s, n)]
         \/ req' = [req EXCEPT ![r] = NoRequest]
         \/ req' = req
  PROVE  Inv'
<1>1. req \in [Requests -> Stages] /\ cert \in Seq(CertRows)
  BY DEF Inv, Types
<1>2. req' \in [Requests -> Stages]
  <2>1. "none" \in StageNames /\ 0 \in Nat /\ [req EXCEPT ![r] = NoRequest] \in [Requests -> Stages]
    BY <1>1, StagesStayStages DEF StageNames
  <2>2. \A s \in StageNames, n \in Nat :
          /\ [req EXCEPT ![r].stage = s] \in [Requests -> Stages]
          /\ [req EXCEPT ![r] = Begun(s, n)] \in [Requests -> Stages]
    BY <1>1, StagesStayStages
  <2>3. CASE \E s \in StageNames \ {"serial", "record"}, n \in Nat :
               req' = [req EXCEPT ![r].stage = s] \/ req' = [req EXCEPT ![r] = Begun(s, n)]
    <3>1. PICK s \in StageNames \ {"serial", "record"}, n \in Nat :
            req' = [req EXCEPT ![r].stage = s] \/ req' = [req EXCEPT ![r] = Begun(s, n)]
      BY <2>3
    <3>2. s \in StageNames
      OBVIOUS
    <3>3. QED
      BY <2>2, <3>1, <3>2
  <2>4. QED
    BY <1>1, <2>1, <2>3
<1>3. \A q \in Requests : req'[q] = req[q] \/ req'[q].stage \notin {"serial", "record"}
  <2>1. CASE \E s \in StageNames \ {"serial", "record"} : req' = [req EXCEPT ![r].stage = s]
    BY <1>1, <2>1, StagesStayStages
  <2>2. CASE \E s \in StageNames \ {"serial", "record"}, n \in Nat : req' = [req EXCEPT ![r] = Begun(s, n)]
    BY <1>1, <2>2 DEF Begun
  <2>3. CASE req' = [req EXCEPT ![r] = NoRequest]
    BY <1>1, <2>3 DEF NoRequest
  <2>4. QED
    BY <2>1, <2>2, <2>3
<1>4. QED
  BY <1>1, <1>2, <1>3, QuietStep

\* A mark on a row leaves its number alone.
LEMMA MarksKeepNumbers ==
  ASSUME Inv, UNCHANGED caVars, cert' \in Seq(CertRows), Len(cert') = Len(cert),
         \A i \in 1..Len(cert) : cert'[i].ca = cert[i].ca /\ cert'[i].serial = cert[i].serial,
         NEW r \in Requests, NEW s \in StageNames \ {"serial", "record"},
         req' = req \/ req' = [req EXCEPT ![r].stage = s]
  PROVE  Inv'
<1>1. req \in [Requests -> Stages]
  BY DEF Inv, Types
<1>2. req' \in [Requests -> Stages]
  <2>1. s \in StageNames
    OBVIOUS
  <2>2. [req EXCEPT ![r].stage = s] \in [Requests -> Stages]
    BY <1>1, <2>1, StagesStayStages
  <2>3. QED
    BY <1>1, <2>2
<1>3. \A q \in Requests : req'[q] = req[q] \/ req'[q].stage \notin {"serial", "record"}
  <2>1. CASE req' = [req EXCEPT ![r].stage = s]
    <3>1. req'[r].stage = s
      BY <1>1, <2>1, StagesStayStages
    <3>2. \A q \in Requests \ {r} : req'[q] = req[q]
      BY <1>1, <2>1
    <3>3. QED
      BY <3>1, <3>2
  <2>2. QED
    BY <2>1
<1>4. QED
  BY <1>2, <1>3, QuietStep

LEMMA RowsAreNumbered ==
  ASSUME cert \in Seq(CertRows)
  PROVE  \A i \in 1..Len(cert) : cert[i] \in CertRows /\ cert[i].ca \in Nat /\ cert[i].serial \in Nat
<1>1. \A i \in 1..Len(cert) : cert[i] \in CertRows
  OBVIOUS
<1>2. QED
  BY <1>1 DEF CertRows

\* Supersede, Revoke and Expires mark rows that stay rows.
LEMMA CertRowsStay ==
  ASSUME NEW c \in CertRows
  PROVE  /\ Superseded(c) \in CertRows /\ Superseded(c).ca = c.ca /\ Superseded(c).serial = c.serial
         /\ [c EXCEPT !.revoked = TRUE] \in CertRows
         /\ [c EXCEPT !.revoked = TRUE].ca = c.ca /\ [c EXCEPT !.revoked = TRUE].serial = c.serial
         /\ [c EXCEPT !.expired = TRUE] \in CertRows
         /\ [c EXCEPT !.expired = TRUE].ca = c.ca /\ [c EXCEPT !.expired = TRUE].serial = c.serial
BY DEF CertRows, Superseded

LEMMA SupersedeKeepsInv ==
  ASSUME Inv, NEW r \in Requests, Supersede(r)
  PROVE  Inv'
<1>1. cert \in Seq(CertRows)
  BY DEF Inv, Types
<1>2. cert' = [i \in 1..Len(cert) |-> Superseded(cert[i])]
  BY <1>1 DEF Supersede
<1>3. \A i \in 1..Len(cert) : cert'[i] = Superseded(cert[i]) /\ cert[i] \in CertRows
  BY <1>1, <1>2
<1>4. cert' \in Seq(CertRows) /\ Len(cert') = Len(cert)
  <2>1. \A i \in 1..Len(cert) : Superseded(cert[i]) \in CertRows
    BY <1>3, CertRowsStay
  <2>2. Len(cert) \in Nat
    BY <1>1
  <2>3. QED
    BY <1>2, <2>1, <2>2
<1>5. req' = [req EXCEPT ![r].stage = "ca"] /\ UNCHANGED caVars /\ "ca" \in StageNames
  BY DEF Supersede, Step, StageNames
<1>6. \A i \in 1..Len(cert) : cert'[i].ca = cert[i].ca /\ cert'[i].serial = cert[i].serial
  BY <1>3, CertRowsStay
<1>7. "ca" \in StageNames \ {"serial", "record"}
  BY <1>5
<1>8. QED
  BY <1>4, <1>5, <1>6, <1>7, MarksKeepNumbers

LEMMA MarkKeepsInv ==
  ASSUME Inv, NEW i \in DOMAIN cert, Revoke(i) \/ Expires(i)
  PROVE  Inv'
<1>1. cert \in Seq(CertRows) /\ i \in 1..Len(cert) /\ cert[i] \in CertRows
      /\ req \in [Requests -> Stages]
  BY DEF Inv, Types
<1>2. PICK c \in CertRows : cert' = [cert EXCEPT ![i] = c] /\ c.ca = cert[i].ca /\ c.serial = cert[i].serial
  <2>1. CASE cert' = [cert EXCEPT ![i] = [cert[i] EXCEPT !.revoked = TRUE]]
    BY <1>1, <2>1, CertRowsStay
  <2>2. CASE cert' = [cert EXCEPT ![i] = [cert[i] EXCEPT !.expired = TRUE]]
    BY <1>1, <2>2, CertRowsStay
  <2>3. QED
    BY <2>1, <2>2 DEF Revoke, Expires
<1>3. cert' \in Seq(CertRows) /\ Len(cert') = Len(cert)
  BY <1>1, <1>2
<1>4. \A k \in 1..Len(cert) : cert'[k].ca = cert[k].ca /\ cert'[k].serial = cert[k].serial
  BY <1>1, <1>2
<1>5. UNCHANGED <<caVars, req>>
  BY DEF Revoke, Expires
<1>6. QED
  BY <1>1, <1>3, <1>4, <1>5, QuietStep

\* issueLeaf reads the authority: the request signs with the one in use.
LEMMA ReadCaKeepsInv ==
  ASSUME Inv, NEW r \in Requests, ReadCa(r)
  PROVE  Inv'
<1> USE DEF Inv, Types, ReadCa, caVars
<1>1. req'[r] = [stage |-> "serial", ca |-> ca, serial |-> 0]
      /\ \A q \in Requests \ {r} : req'[q] = req[q]
  OBVIOUS
<1>2. [stage |-> "serial", ca |-> ca, serial |-> 0] \in Stages
  BY DEF Stages, StageNames
<1>3. req' \in [Requests -> Stages]
  BY <1>2
<1>4. \A q \in Requests : Recording(q)' => Recording(q) /\ q # r
  BY <1>1 DEF Recording, At
<1>5. SignsWithCurrent'
  BY <1>1 DEF SignsWithCurrent, Signing, At
<1>6. ClaimsBelow' /\ ClaimsDiffer' /\ RowsDiffer'
  BY <1>1, <1>4 DEF ClaimsBelow, ClaimsDiffer, RowsDiffer
<1>7. RowsBelow' /\ Unique'
  BY DEF RowsBelow, Unique
<1>8. QED
  BY <1>3, <1>5, <1>6, <1>7

\* claimNextSerial: the number is below the counter from then on, and new.
LEMMA ClaimKeepsInv ==
  ASSUME Inv, NEW r \in Requests, ClaimSerial(r)
  PROVE  Inv'
<1> USE DEF Inv, Types, ClaimSerial
<1>1. /\ req'[r].stage = "record" /\ req'[r].serial = counter /\ req'[r].ca = req[r].ca
      /\ \A q \in Requests \ {r} : req'[q] = req[q]
      /\ counter' = counter + 1 /\ ca' = ca /\ cert' = cert
  BY DEF Stages
<1>2. req' \in [Requests -> Stages]
  BY DEF Stages, StageNames
<1>3. req[r].ca = ca
  BY DEF SignsWithCurrent, Signing
<1>4. SignsWithCurrent'
  BY <1>1, <1>3 DEF SignsWithCurrent, Signing, At
<1>5. \A q \in Requests : req[q].serial \in Nat
  BY DEF Stages
<1>6. ClaimsBelow'
  BY <1>1, <1>5 DEF ClaimsBelow, Recording, At
<1>7. ClaimsDiffer'
  BY <1>1, <1>5 DEF ClaimsDiffer, ClaimsBelow, Recording, At
<1>8. \A i \in 1..Len(cert) : cert[i].serial \in Nat
  BY RowsAreNumbered
<1>9. RowsBelow' /\ Unique'
  BY <1>1, <1>8 DEF RowsBelow, Unique
<1>10. RowsDiffer'
  BY <1>1, <1>8 DEF RowsDiffer, RowsBelow, Recording, At
<1>11. QED
  BY <1>1, <1>2, <1>4, <1>6, <1>7, <1>9, <1>10

\* issueCertificateRecord: the claimed number becomes a row's.
LEMMA IssueKeepsInv ==
  ASSUME Inv, NEW r \in Requests, IssueRecord(r)
  PROVE  Inv'
<1> DEFINE new == [ca |-> req[r].ca, serial |-> req[r].serial, expired |-> FALSE,
                   superseded |-> FALSE, revoked |-> FALSE, by |-> r]
<1>1. /\ cert \in Seq(CertRows) /\ req \in [Requests -> Stages] /\ ca \in Nat /\ counter \in Nat
      /\ Recording(r) /\ req[r].ca = ca /\ req[r].serial < counter
  BY DEF Inv, Types, IssueRecord, SignsWithCurrent, ClaimsBelow, Signing, Recording
<1>2. cert' = Append(cert, new) /\ UNCHANGED caVars /\ req' = [req EXCEPT ![r].stage = "answer"]
  BY DEF IssueRecord, Step
<1>3. new \in CertRows /\ new.ca = ca /\ new.serial = req[r].serial
  BY <1>1 DEF CertRows, Stages
<1> HIDE DEF new
<1>4. /\ cert' \in Seq(CertRows) /\ Len(cert') = Len(cert) + 1 /\ cert'[Len(cert) + 1] = new
      /\ \A i \in 1..Len(cert) : cert'[i] = cert[i]
  BY <1>1, <1>2, <1>3
<1>5. req' \in [Requests -> Stages] /\ req'[r].stage = "answer"
      /\ \A q \in Requests \ {r} : req'[q] = req[q]
  <2>1. "answer" \in StageNames
    BY DEF StageNames
  <2>2. QED
    BY <1>1, <1>2, <2>1, StagesStayStages
<1>6. \A q \in Requests : (Signing(q)' => Signing(q) /\ q # r) /\ (Recording(q)' => Recording(q) /\ q # r)
  BY <1>5 DEF Signing, Recording, At
<1>7. SignsWithCurrent' /\ ClaimsBelow' /\ ClaimsDiffer'
  BY <1>2, <1>5, <1>6 DEF Inv, caVars, SignsWithCurrent, ClaimsBelow, ClaimsDiffer
<1>8. \A i \in 1..Len(cert') : i \in 1..Len(cert) \/ i = Len(cert) + 1
  BY <1>1, <1>4
<1>9. RowsBelow'
  BY <1>1, <1>2, <1>3, <1>4, <1>8 DEF Inv, RowsBelow, caVars
<1>10. RowsDiffer'
  BY <1>1, <1>2, <1>3, <1>4, <1>5, <1>6, <1>8 DEF Inv, RowsDiffer, ClaimsDiffer, caVars
<1>11. Unique'
  BY <1>1, <1>3, <1>4, <1>8 DEF Inv, Unique, RowsDiffer
<1>12. Types'
  BY <1>1, <1>2, <1>4, <1>5 DEF Inv, Types, caVars
<1>13. QED
  BY <1>7, <1>9, <1>10, <1>11, <1>12 DEF Inv

\* generateCa and uploadCa: nobody is signing, and no row is of the new authority.
LEMMA ReplaceKeepsInv ==
  ASSUME QuietCa, Inv, ReplaceCa
  PROVE  Inv'
<1> USE DEF Inv, Types, ReplaceCa
<1>1. \A r \in Requests : ~Signing(r)' /\ ~Recording(r)'
  BY DEF Signing, Recording, At
<1>2. SignsWithCurrent' /\ ClaimsBelow' /\ ClaimsDiffer' /\ RowsDiffer'
  BY <1>1 DEF SignsWithCurrent, ClaimsBelow, ClaimsDiffer, RowsDiffer
<1>3. \A i \in 1..Len(cert) : cert[i].ca \in Nat
  BY RowsAreNumbered
<1>4. RowsBelow' /\ Unique'
  BY <1>3 DEF RowsBelow, Unique
<1>5. QED
  BY <1>2, <1>4

LEMMA StepInv == ASSUME QuietCa, Inv, [CertNext]_certVars PROVE Inv'
<1> USE DEF StageNames
<1>1. ASSUME NEW r \in Requests, AgentAsks(r) PROVE Inv'
  <2>1. \E s \in StageNames \ {"serial", "record"}, n \in Nat :
          req' = [req EXCEPT ![r].stage = s] \/ req' = [req EXCEPT ![r] = Begun(s, n)]
    BY <1>1 DEF AgentAsks, Accepted, Inv, Types
  <2>2. UNCHANGED <<caVars, cert>>
    BY <1>1 DEF AgentAsks
  <2>3. QED
    BY <2>1, <2>2, MovesOn
<1>2. ASSUME NEW r \in Requests, CheckActive(r) PROVE Inv'
  BY <1>2, MovesOn DEF CheckActive, Refuse, Step
<1>3. ASSUME NEW r \in Requests, AskFleet(r) PROVE Inv'
  BY <1>3, MovesOn DEF AskFleet, Step
<1>4. ASSUME NEW r \in Requests, CheckKnown(r) PROVE Inv'
  BY <1>4, MovesOn DEF CheckKnown, Refuse, Step
<1>5. ASSUME NEW r \in Requests, Authenticate(r) PROVE Inv'
  BY <1>5, MovesOn DEF Authenticate, Refuse, Step
<1>6. ASSUME NEW r \in Requests, Answer(r) PROVE Inv'
  BY <1>6, MovesOn DEF Answer
<1>7. ASSUME NEW r \in Requests, RequestFails(r) PROVE Inv'
  BY <1>7, MovesOn DEF RequestFails, Refuse
<1>8. ASSUME NEW r \in Requests, Handle(r) PROVE Inv'
  BY <1>2, <1>3, <1>4, <1>5, <1>6, <1>8, SupersedeKeepsInv, ReadCaKeepsInv, ClaimKeepsInv,
     IssueKeepsInv DEF Handle
<1>9. ASSUME NEW i \in DOMAIN cert, Revoke(i) \/ Expires(i) PROVE Inv'
  BY <1>9, MarkKeepsInv
<1>10. ASSUME UNCHANGED <<caVars, cert, req>> PROVE Inv'
  BY <1>10, QuietStep DEF Inv, Types
<1>11. CASE GivesUp \/ Enrol \/ FleetStep \/ FleetFails \/ UNCHANGED certVars
  BY <1>10, <1>11 DEF GivesUp, Enrol, FleetStep, FleetFails, certVars
<1>12. CASE ReplaceCa
  BY <1>12, ReplaceKeepsInv
<1>13. QED
  BY <1>1, <1>7, <1>8, <1>9, <1>11, <1>12 DEF CertNext

\* issueLeaf and claimNextSerial: no authority signs two certificates with one
\* serial number.
THEOREM SerialsAreUnique == QuietCa => (CertSpec => []SerialsUnique)
<1> SUFFICES ASSUME QuietCa PROVE CertSpec => []SerialsUnique
  OBVIOUS
<1>1. CertInit => Inv
  BY InitInv
<1>2. Inv /\ [CertNext]_certVars => Inv'
  BY StepInv
<1>3. Inv => SerialsUnique
  BY DEF Inv, Types, Unique, SerialsUnique
<1>4. QED
  BY <1>1, <1>2, <1>3, PTL DEF CertSpec
---------------------------------------------------------------------------
(* No active row that the agent does not hold.  While every certificate    *)
(* issued reaches it, one request at a time is at work; between the check  *)
(* or the superseding and the new row nothing is active, and afterwards    *)
(* only the newest row.                                                    *)

Later == {"known", "fleet", "ca", "serial", "record"}
NoneActive == \A i \in 1..Len(cert) : ~Active(cert[i])
HeldActive == \A i \in 1..Len(cert) : Active(cert[i]) => i = held
LastActive(r) == /\ Len(cert) > 0 /\ cert[Len(cert)].by = r
                 /\ \A i \in 1..Len(cert) : Active(cert[i]) => i = Len(cert)

Listens   == /\ got = [r \in Requests |-> got[r]]
             /\ \A r \in Requests : got[r].stage # "none" => At(r, "fleet")
RowTypes  == cert \in Seq(CertRows) /\ req \in [Requests -> Stages] /\ ca \in Nat /\ counter \in Nat

OneAtWork == \A r \in Requests : req[r] # NoRequest => waits = r
Unissued  == \A r \in Requests : req[r].stage \in Later => NoneActive
Issued    == \A r \in Requests : At(r, "answer") => LastActive(r)
Unchecked == (\A r \in Requests : req[r].stage \notin Later \cup {"answer"}) => HeldActive

HeldInv == /\ RowTypes /\ Listens
           /\ ~lost => OneAtWork /\ Unissued /\ Issued /\ Unchecked

LEMMA HeldInit == CertInit => HeldInv
<1> SUFFICES ASSUME CertInit PROVE HeldInv
  OBVIOUS
<1>1. NoRequest \in Stages /\ NoRequest.stage = "none"
  BY DEF NoRequest, Stages, StageNames
<1>2. RowTypes
  BY <1>1 DEF CertInit, RowTypes
<1>3. \A r \in Requests : req[r] = NoRequest
  BY DEF CertInit
<1>4. got = [r \in Requests |-> Fleet!Nothing] /\ Fleet!Nothing.stage = "none"
  BY DEF CertInit, Fleet!Init, Fleet!Nothing
<1>5. Listens
  BY <1>4 DEF Listens
<1>6. HeldActive /\ OneAtWork /\ Unissued /\ Issued
  BY <1>1, <1>3 DEF CertInit, HeldActive, OneAtWork, Unissued, Issued, At, Later
<1>7. QED
  BY <1>2, <1>5, <1>6 DEF HeldInv, Unchecked

\* While no answer was lost, a request that is at work is alone.
LEMMA Alone ==
  ASSUME HeldInv, ~lost, NEW r \in Requests, req[r] # NoRequest
  PROVE  waits = r /\ \A q \in Requests \ {r} : req[q] = NoRequest
BY DEF HeldInv, OneAtWork

LEMMA BusyStage == \A r \in Requests : req[r].stage # "none" => req[r] # NoRequest
BY DEF NoRequest

\* What the stage of the only request says of the rows.
LEMMA StageMeans ==
  ASSUME HeldInv, ~lost, NEW r \in Requests
  PROVE  /\ req[r].stage \in {"check", "auth", "supersede"} => HeldActive
         /\ req[r].stage \in Later => NoneActive /\ HeldActive
<1>1. req[r].stage \in Later => NoneActive
  BY DEF HeldInv, Unissued
<1>2. NoneActive => HeldActive
  BY DEF NoneActive, HeldActive
<1>3. ASSUME req[r].stage \in {"check", "auth", "supersede"} PROVE HeldActive
  <2>1. \A q \in Requests \ {r} : req[q] = NoRequest
    BY <1>3, Alone, BusyStage
  <2>2. \A q \in Requests : req[q].stage \notin Later \cup {"answer"}
    BY <1>3, <2>1 DEF NoRequest, Later
  <2>3. QED
    BY <2>2 DEF HeldInv, Unchecked
<1>4. QED
  BY <1>1, <1>2, <1>3

\* A handler goes on to a stage that fits the rows.
LEMMA GoesOn ==
  ASSUME HeldInv, Listens', NEW r \in Requests, NEW s \in StageNames \ {"none", "answer"},
         req[r].stage # "none",
         req' \in [Requests -> Stages], req'[r].stage = s,
         \A q \in Requests \ {r} : req'[q] = req[q],
         UNCHANGED <<cert, held, waits, lost>>, ca' \in Nat, counter' \in Nat,
         ~lost => IF s \in Later THEN NoneActive ELSE HeldActive
  PROVE  HeldInv'
<1>1. RowTypes'
  BY DEF HeldInv, RowTypes
<1>2. ASSUME ~lost PROVE OneAtWork' /\ Unissued' /\ Issued' /\ Unchecked'
  <2>1. waits = r /\ \A q \in Requests \ {r} : req'[q] = NoRequest
    BY <1>2, Alone, BusyStage
  <2>2. NoRequest.stage = "none"
    BY DEF NoRequest
  <2>3. OneAtWork' /\ Issued'
    BY <2>1, <2>2 DEF OneAtWork, Issued, At
  <2>4. Unissued' /\ Unchecked'
    BY <1>2, <2>1, <2>2 DEF Unissued, Unchecked, NoneActive, HeldActive, Later
  <2>5. QED
    BY <2>3, <2>4
<1>3. QED
  BY <1>1, <1>2 DEF HeldInv

\* A handler ends, and the agent holds whatever is active.
LEMMA Ends ==
  ASSUME HeldInv, Listens', NEW r \in Requests, req[r].stage # "none",
         req' = [req EXCEPT ![r] = NoRequest],
         waits' = IF waits = r THEN "nothing" ELSE waits,
         UNCHANGED <<cert, caVars>>,
         ~lost' => ~lost /\ HeldActive'
  PROVE  HeldInv'
<1>1. NoRequest \in Stages /\ NoRequest.stage = "none"
  BY DEF NoRequest, Stages, StageNames
<1>2. RowTypes'
  BY <1>1 DEF HeldInv, RowTypes, caVars
<1>3. ASSUME ~lost' PROVE OneAtWork' /\ Unissued' /\ Issued' /\ Unchecked'
  <2>1. \A q \in Requests : req'[q] = NoRequest
    BY <1>3, Alone, BusyStage DEF HeldInv, RowTypes
  <2>2. QED
    BY <1>1, <1>3, <2>1 DEF OneAtWork, Unissued, Issued, Unchecked, At, Later
<1>4. QED
  BY <1>2, <1>3 DEF HeldInv

\* CertRows become inactive, or nothing changes that the invariant is about.
LEMMA Marks ==
  ASSUME HeldInv, cert' \in Seq(CertRows), Len(cert') = Len(cert),
         \A i \in 1..Len(cert) : cert'[i].by = cert[i].by /\ (Active(cert'[i]) => Active(cert[i])),
         UNCHANGED <<req, held>>, ca' \in Nat, counter' \in Nat, Listens',
         ~lost' => ~lost /\ UNCHANGED waits
  PROVE  HeldInv'
<1>1. RowTypes' /\ Len(cert) \in Nat
  BY DEF HeldInv, RowTypes
<1>2. ASSUME ~lost' PROVE OneAtWork' /\ Unissued' /\ Issued' /\ Unchecked'
  <2>1. OneAtWork'
    BY <1>2 DEF HeldInv, OneAtWork
  <2>2. (NoneActive => NoneActive') /\ (HeldActive => HeldActive')
        /\ \A r \in Requests : LastActive(r) => LastActive(r)'
    BY <1>1 DEF NoneActive, HeldActive, LastActive
  <2>3. QED
    BY <1>2, <2>1, <2>2 DEF HeldInv, Unissued, Issued, Unchecked, At
<1>3. QED
  BY <1>1, <1>2 DEF HeldInv

\* A handler that does not wait for the fleet has nothing to hear of it.
LEMMA NotListening ==
  ASSUME HeldInv, NEW r \in Requests, UNCHANGED listVars, req[r].stage # "fleet",
         \A q \in Requests \ {r} : req'[q] = req[q]
  PROVE  Listens'
BY DEF HeldInv, Listens, listVars, At

LEMMA ForgetListens ==
  ASSUME HeldInv, NEW r \in Requests, Fleet!Forget(r),
         \A q \in Requests \ {r} : req'[q] = req[q]
  PROVE  Listens'
<1>1. got' = [got EXCEPT ![r] = Fleet!Nothing] /\ Fleet!Nothing.stage = "none"
  BY DEF Fleet!Forget, Fleet!Nothing
<1>2. got' = [q \in Requests |-> got'[q]] /\ got'[r].stage = "none"
      /\ \A q \in Requests \ {r} : got'[q] = got[q]
  BY <1>1 DEF HeldInv, Listens
<1>3. QED
  BY <1>2 DEF HeldInv, Listens, At

LEMMA AskListens ==
  ASSUME HeldInv, NEW r \in Requests, Fleet!Ask(r, FALSE), req'[r].stage = "fleet",
         \A q \in Requests \ {r} : req'[q] = req[q]
  PROVE  Listens'
<1>1. PICK answer : got' = [got EXCEPT ![r] = answer]
  BY DEF Fleet!Ask, Fleet!JoinOrStart, Fleet!StartPull
<1>2. got' = [q \in Requests |-> got'[q]] /\ \A q \in Requests \ {r} : got'[q] = got[q]
  BY <1>1 DEF HeldInv, Listens
<1>3. QED
  BY <1>2 DEF HeldInv, Listens, At

\* A pull answers those who wait for it.
LEMMA FleetListens ==
  ASSUME HeldInv, FleetStep \/ FleetFails
  PROVE  Listens'
<1>1. \/ got' = got
      \/ \E answer : got' = [c \in Requests |-> IF got[c] = Fleet!WaitsFor(1) THEN answer ELSE got[c]]
  BY DEF FleetStep, FleetFails, Fleet!PullReads, Fleet!PullReturns, Fleet!Expire, Fleet!PullFails,
     Fleet!Settle
<1>2. req' = req /\ Fleet!WaitsFor(1).stage = "waits"
  BY DEF FleetStep, FleetFails, Fleet!WaitsFor
<1>3. QED
  BY <1>1, <1>2 DEF HeldInv, Listens, At

LEMMA AskKeepsHeld ==
  ASSUME HeldInv, NEW r \in Requests, AgentAsks(r)
  PROVE  HeldInv'
<1>1. PICK s \in {"check", "auth"}, n \in Nat : req' = [req EXCEPT ![r] = Begun(s, n)]
  BY DEF AgentAsks, Accepted, HeldInv, RowTypes
<1>2. /\ req \in [Requests -> Stages] /\ req[r] = NoRequest /\ waits = "nothing" /\ waits' = r
      /\ UNCHANGED <<caVars, cert, held, lost, listVars>>
  BY DEF AgentAsks, Busy, HeldInv, RowTypes
<1>3. req' \in [Requests -> Stages] /\ req'[r].stage = s
      /\ \A q \in Requests \ {r} : req'[q] = req[q]
  <2>1. s \in StageNames /\ Begun(s, n).stage = s
    BY DEF StageNames, Begun
  <2>2. req' \in [Requests -> Stages]
    BY <1>1, <1>2, <2>1, StagesStayStages
  <2>3. QED
    BY <1>1, <1>2, <2>1, <2>2
<1>4. RowTypes' /\ Listens'
  BY <1>2, <1>3, NotListening DEF HeldInv, RowTypes, caVars, NoRequest
<1>5. ASSUME ~lost PROVE OneAtWork' /\ Unissued' /\ Issued' /\ Unchecked'
  <2>1. \A q \in Requests : req[q] = NoRequest
    BY <1>2, <1>5, CertAssumption DEF HeldInv, OneAtWork, CertAssumption
  <2>2. HeldActive
    BY <1>5, <2>1 DEF HeldInv, Unchecked, NoRequest, Later
  <2>3. QED
    BY <1>2, <1>3, <2>1, <2>2
    DEF OneAtWork, Unissued, Issued, Unchecked, HeldActive, At, NoRequest, Later
<1>6. QED
  BY <1>2, <1>4, <1>5 DEF HeldInv

\* assertNotAlreadyActive, assertKnownApplivertyDevice and verifyMtlsIdentity.
LEMMA ChecksKeepHeld ==
  ASSUME HeldInv, NEW r \in Requests,
         CheckActive(r) \/ AskFleet(r) \/ CheckKnown(r) \/ Authenticate(r)
  PROVE  HeldInv'
<1> DEFINE Leaves == /\ req' = [req EXCEPT ![r] = NoRequest]
                     /\ waits' = IF waits = r THEN "nothing" ELSE waits
           Moves(s) == req' = [req EXCEPT ![r].stage = s] /\ waits' = waits
           Fits(s)  == ~lost => IF s \in Later THEN NoneActive ELSE HeldActive
<1>1. /\ req \in [Requests -> Stages] /\ ca \in Nat /\ counter \in Nat /\ cert \in Seq(CertRows)
      /\ UNCHANGED <<ca, counter, cert, held, lost>> /\ req[r].stage # "none"
      /\ ~lost => HeldActive
  <2>1. req[r].stage \in {"check", "known", "fleet", "auth"}
    BY DEF CheckActive, AskFleet, CheckKnown, Authenticate, At
  <2>2. ~lost => HeldActive
    BY <2>1, StageMeans DEF Later
  <2>3. UNCHANGED <<ca, counter, cert, held, lost>>
    BY DEF CheckActive, AskFleet, CheckKnown, Authenticate, agentVars, caVars
  <2>4. QED
    BY <2>1, <2>2, <2>3 DEF HeldInv, RowTypes
<1>2. Leaves \/ \E s \in {"known", "fleet", "ca", "supersede"} : Moves(s) /\ Fits(s)
  <2>1. CASE CheckActive(r)
    <3>1. DOMAIN cert = 1..Len(cert)
      BY <1>1
    <3>2. Leaves \/ (Moves("known") /\ NoneActive)
      BY <2>1, <3>1 DEF CheckActive, Refuse, Step, HasActive, NoneActive
    <3>3. NoneActive => Fits("known")
      BY DEF Later
    <3>4. QED
      BY <3>2, <3>3
  <2>2. CASE AskFleet(r)
    <3>1. Moves("fleet") /\ Fits("fleet")
      BY <2>2, StageMeans DEF AskFleet, Step, At, Later, agentVars
    <3>2. QED
      BY <3>1
  <2>3. CASE CheckKnown(r)
    <3>1. Leaves \/ Moves("ca")
      BY <2>3 DEF CheckKnown, Refuse, Step
    <3>2. Fits("ca")
      BY <2>3, StageMeans DEF CheckKnown, At, Later
    <3>3. QED
      BY <3>1, <3>2
  <2>4. CASE Authenticate(r)
    <3>1. Leaves \/ Moves("supersede")
      BY <2>4 DEF Authenticate, Refuse, Step
    <3>2. Fits("supersede")
      BY <1>1 DEF Later
    <3>3. QED
      BY <3>1, <3>2
  <2>5. QED
    BY <2>1, <2>2, <2>3, <2>4
<1>3. \A q \in Requests \ {r} : req'[q] = req[q]
  BY <1>1, <1>2
<1>4. Listens'
  <2>1. CASE CheckActive(r) \/ Authenticate(r)
    BY <1>3, <2>1, NotListening DEF CheckActive, Authenticate, At
  <2>2. CASE CheckKnown(r)
    BY <1>3, <2>2, ForgetListens DEF CheckKnown
  <2>3. CASE AskFleet(r)
    <3>1. req'[r].stage = "fleet"
      BY <1>1, <2>3, StagesStayStages DEF AskFleet, Step, StageNames
    <3>2. QED
      BY <1>3, <2>3, <3>1, AskListens DEF AskFleet
  <2>4. QED
    BY <2>1, <2>2, <2>3
<1>5. CASE Leaves
  <2>1. ~lost => HeldActive'
    BY <1>1 DEF HeldActive
  <2>2. QED
    BY <1>1, <1>4, <1>5, <2>1, Ends DEF caVars
<1>6. ASSUME NEW s \in {"known", "fleet", "ca", "supersede"}, Moves(s), Fits(s)
      PROVE  HeldInv'
  <2>1. s \in StageNames \ {"none", "answer"}
    BY DEF StageNames
  <2>2. req' \in [Requests -> Stages] /\ req'[r].stage = s
    BY <1>1, <1>6, <2>1, StagesStayStages
  <2>3. QED
    BY <1>1, <1>3, <1>4, <1>6, <2>1, <2>2, GoesOn
<1>7. QED
  BY <1>2, <1>5, <1>6

\* Supersede: no row is active afterwards.
LEMMA SupersedeKeepsHeld ==
  ASSUME HeldInv, NEW r \in Requests, Supersede(r)
  PROVE  HeldInv'
<1>1. cert \in Seq(CertRows) /\ req \in [Requests -> Stages] /\ req[r].stage = "supersede"
  BY DEF HeldInv, RowTypes, Supersede, At
<1>2. /\ cert' = [i \in 1..Len(cert) |-> Superseded(cert[i])]
      /\ req' = [req EXCEPT ![r].stage = "ca"] /\ UNCHANGED <<caVars, held, waits, lost, listVars>>
  BY <1>1 DEF Supersede, Step, agentVars
<1>3. \A i \in 1..Len(cert) : cert[i] \in CertRows /\ cert'[i] = Superseded(cert[i])
  BY <1>1, <1>2
<1>4. cert' \in Seq(CertRows) /\ Len(cert') = Len(cert)
  <2>1. \A i \in 1..Len(cert) : Superseded(cert[i]) \in CertRows
    BY <1>3, CertRowsStay
  <2>2. Len(cert) \in Nat
    BY <1>1
  <2>3. QED
    BY <1>2, <2>1, <2>2
<1>5. \A c \in CertRows : ~Active(Superseded(c))
  BY DEF CertRows, Superseded, Active
<1>6. NoneActive'
  BY <1>3, <1>4, <1>5 DEF NoneActive
<1>7. req' \in [Requests -> Stages] /\ req'[r].stage = "ca"
      /\ \A q \in Requests \ {r} : req'[q] = req[q]
  BY <1>1, <1>2, StagesStayStages DEF StageNames
<1>8. RowTypes' /\ Listens'
  BY <1>1, <1>2, <1>4, <1>7, NotListening DEF HeldInv, RowTypes, caVars
<1>9. ASSUME ~lost PROVE OneAtWork' /\ Unissued' /\ Issued' /\ Unchecked'
  <2>1. waits = r /\ \A q \in Requests \ {r} : req'[q] = NoRequest
    BY <1>1, <1>7, <1>9, Alone, BusyStage
  <2>2. QED
    <3>1. HeldActive'
      BY <1>6 DEF NoneActive, HeldActive
    <3>2. OneAtWork' /\ Issued'
      BY <1>2, <1>7, <2>1 DEF OneAtWork, Issued, At, NoRequest
    <3>3. QED
      BY <1>6, <3>1, <3>2 DEF Unissued, Unchecked
<1>10. QED
  BY <1>2, <1>8, <1>9 DEF HeldInv

\* issueLeaf up to the number.
LEMMA SignsKeepHeld ==
  ASSUME HeldInv, NEW r \in Requests, ReadCa(r) \/ ClaimSerial(r)
  PROVE  HeldInv'
<1>1. /\ req \in [Requests -> Stages] /\ ca \in Nat /\ counter \in Nat
      /\ UNCHANGED <<ca, cert, held, lost, waits, listVars>> /\ req[r].stage \in {"ca", "serial"}
      /\ counter' \in Nat /\ ca' \in Nat
  BY DEF HeldInv, RowTypes, ReadCa, ClaimSerial, At, agentVars, caVars
<1>2. PICK s \in {"serial", "record"} :
        /\ req' \in [Requests -> Stages] /\ req'[r].stage = s
        /\ \A q \in Requests \ {r} : req'[q] = req[q]
  BY <1>1 DEF ReadCa, ClaimSerial, Stages, StageNames
<1>3. s \in StageNames \ {"none", "answer"} /\ s \in Later
  BY DEF StageNames, Later
<1>4. Listens'
  BY <1>1, <1>2, NotListening
<1>5. ~lost => NoneActive
  BY <1>1, StageMeans DEF Later
<1>6. QED
  BY <1>1, <1>2, <1>3, <1>4, <1>5, GoesOn

\* issueCertificateRecord: the new row is the only active one.
LEMMA IssueKeepsHeld ==
  ASSUME HeldInv, NEW r \in Requests, IssueRecord(r)
  PROVE  HeldInv'
<1> DEFINE new == [ca |-> req[r].ca, serial |-> req[r].serial, expired |-> FALSE,
                   superseded |-> FALSE, revoked |-> FALSE, by |-> r]
<1>1. /\ cert \in Seq(CertRows) /\ req \in [Requests -> Stages] /\ req[r].stage = "record"
  BY DEF HeldInv, RowTypes, IssueRecord, At
<1>2. /\ cert' = Append(cert, new) /\ req' = [req EXCEPT ![r].stage = "answer"]
      /\ UNCHANGED <<caVars, held, waits, lost, listVars>>
  BY DEF IssueRecord, Step, agentVars
<1>3. new \in CertRows /\ new.by = r
  BY <1>1 DEF CertRows, Stages
<1> HIDE DEF new
<1>4. /\ cert' \in Seq(CertRows) /\ Len(cert') = Len(cert) + 1 /\ cert'[Len(cert')] = new
      /\ \A i \in 1..Len(cert) : cert'[i] = cert[i]
  BY <1>1, <1>2, <1>3
<1>5. req' \in [Requests -> Stages] /\ req'[r].stage = "answer"
      /\ \A q \in Requests \ {r} : req'[q] = req[q]
  BY <1>1, <1>2, StagesStayStages DEF StageNames
<1>6. RowTypes' /\ Listens'
  BY <1>1, <1>2, <1>4, <1>5, NotListening DEF HeldInv, RowTypes, caVars
<1>7. ASSUME ~lost PROVE OneAtWork' /\ Unissued' /\ Issued' /\ Unchecked'
  <2>1. waits = r /\ \A q \in Requests \ {r} : req'[q] = NoRequest
    BY <1>1, <1>5, <1>7, Alone, BusyStage
  <2>2. NoneActive
    BY <1>1, <1>7, StageMeans DEF Later
  <2>3. LastActive(r)'
    BY <1>1, <1>3, <1>4, <2>2 DEF LastActive, NoneActive
  <2>4. QED
    BY <1>2, <1>5, <2>1, <2>3 DEF OneAtWork, Unissued, Issued, Unchecked, At, NoRequest, Later
<1>8. QED
  BY <1>2, <1>6, <1>7 DEF HeldInv

\* The answer reaches the agent: it holds the newest row.
LEMMA AnswerKeepsHeld ==
  ASSUME HeldInv, NEW r \in Requests, Answer(r)
  PROVE  HeldInv'
<1>1. /\ req' = [req EXCEPT ![r] = NoRequest] /\ req[r].stage = "answer"
      /\ req \in [Requests -> Stages] /\ cert \in Seq(CertRows)
      /\ IF waits = r THEN held' = Newest(r) /\ waits' = "nothing" ELSE UNCHANGED <<held, waits>>
      /\ UNCHANGED <<caVars, cert, lost, listVars>>
  BY DEF Answer, At, HeldInv, RowTypes
<1>2. \A q \in Requests \ {r} : req'[q] = req[q]
  BY <1>1
<1>3. Listens'
  BY <1>1, <1>2, NotListening
<1>4. ASSUME ~lost PROVE HeldActive'
  <2>1. waits = r /\ LastActive(r)
    BY <1>1, <1>4, Alone, BusyStage DEF HeldInv, Issued, At
  <2>2. Newest(r) = Len(cert)
    <3>1. Len(cert) \in DOMAIN cert /\ Len(cert) \in Nat /\ DOMAIN cert = 1..Len(cert)
      BY <1>1, <2>1 DEF LastActive
    <3> DEFINE n == Len(cert)
               Mine(i) == cert[i].by = r /\ \A j \in DOMAIN cert : cert[j].by = r => j <= i
    <3>2. cert[n].by = r
      BY <2>1 DEF LastActive
    <3> HIDE DEF n
    <3>3. Mine(n)
      BY <3>1, <3>2 DEF n
    <3>4. \A i \in DOMAIN cert : Mine(i) => i = n
      BY <3>1, <3>2 DEF n
    <3>5. n \in DOMAIN cert /\ Newest(r) = CHOOSE i \in DOMAIN cert : Mine(i)
      BY <3>1 DEF n, Newest
    <3> HIDE DEF Mine
    <3>6. QED
      BY <3>3, <3>4, <3>5 DEF n
  <2>3. QED
    BY <1>1, <2>1, <2>2 DEF LastActive, HeldActive
<1>5. waits' = IF waits = r THEN "nothing" ELSE waits
  BY <1>1
<1>6. QED
  BY <1>1, <1>3, <1>4, <1>5, Ends

LEMMA FailsKeepsHeld ==
  ASSUME HeldInv, NEW r \in Requests, RequestFails(r)
  PROVE  HeldInv'
<1>1. /\ req' = [req EXCEPT ![r] = NoRequest] /\ waits' = IF waits = r THEN "nothing" ELSE waits
      /\ UNCHANGED <<caVars, cert, held>> /\ Fleet!Forget(r)
      /\ req \in [Requests -> Stages]
  BY DEF RequestFails, Refuse, HeldInv, RowTypes
<1>2. req[r].stage \in StageNames \ {"none"}
  <2>1. req[r].stage \in StageNames
    BY <1>1 DEF Stages
  <2>2. req[r].stage # "none"
    BY DEF RequestFails, HeldInv, Listens, At
  <2>3. QED
    BY <2>1, <2>2
<1>3. Listens'
  BY <1>1, ForgetListens
<1>4. ~lost' => ~lost /\ HeldActive'
  <2>1. ~lost' => ~lost /\ req[r].stage # "answer"
    BY DEF RequestFails, At
  <2>2. QED
    BY <1>1, <1>2, <2>1, StageMeans DEF Later, HeldActive, StageNames
<1>5. QED
  BY <1>1, <1>2, <1>3, <1>4, Ends

\* The administrator and the clock take certificates away.
LEMMA MarkKeepsHeld ==
  ASSUME HeldInv, NEW i \in DOMAIN cert, Revoke(i) \/ Expires(i)
  PROVE  HeldInv'
<1>1. cert \in Seq(CertRows) /\ i \in 1..Len(cert) /\ cert[i] \in CertRows
      /\ UNCHANGED <<caVars, req, held, waits, lost, listVars>> /\ ca \in Nat /\ counter \in Nat
  BY DEF HeldInv, RowTypes, Revoke, Expires, agentVars
<1>2. PICK c \in CertRows : cert' = [cert EXCEPT ![i] = c] /\ c.by = cert[i].by /\ ~Active(c)
  <2> DEFINE r == [cert[i] EXCEPT !.revoked = TRUE]
             e == [cert[i] EXCEPT !.expired = TRUE]
  <2>0. r \in CertRows /\ r.by = cert[i].by /\ ~Active(r) /\ e \in CertRows /\ e.by = cert[i].by /\ ~Active(e)
    BY <1>1 DEF CertRows, Active
  <2> HIDE DEF r, e
  <2>1. CASE cert' = [cert EXCEPT ![i] = r]
    BY <2>0, <2>1
  <2>2. CASE cert' = [cert EXCEPT ![i] = e]
    BY <2>0, <2>2
  <2>3. QED
    BY <2>1, <2>2 DEF Revoke, Expires, r, e
<1>3. cert' \in Seq(CertRows) /\ Len(cert') = Len(cert)
  BY <1>1, <1>2
<1>4. \A k \in 1..Len(cert) : cert'[k].by = cert[k].by /\ (Active(cert'[k]) => Active(cert[k]))
  BY <1>1, <1>2
<1>5. Listens'
  BY <1>1 DEF HeldInv, Listens, At, listVars
<1>6. QED
  BY <1>1, <1>3, <1>4, <1>5, Marks DEF caVars

LEMMA HeldStep == ASSUME HeldInv, [CertNext]_certVars PROVE HeldInv'
<1>1. ASSUME NEW r \in Requests, Handle(r) PROVE HeldInv'
  BY <1>1, ChecksKeepHeld, SupersedeKeepsHeld, SignsKeepHeld, IssueKeepsHeld, AnswerKeepsHeld
  DEF Handle
<1>2. ASSUME UNCHANGED <<cert, req, held>>, ca' \in Nat, counter' \in Nat, Listens',
             ~lost' => ~lost /\ UNCHANGED waits
      PROVE  HeldInv'
  BY <1>2, Marks DEF HeldInv, RowTypes
<1>3. CASE GivesUp \/ ReplaceCa \/ Enrol \/ UNCHANGED certVars
  <2>1. Listens'
    BY <1>3 DEF GivesUp, ReplaceCa, Enrol, certVars, listVars, HeldInv, Listens, At
  <2>2. /\ UNCHANGED <<cert, req, held>> /\ ca' \in Nat /\ counter' \in Nat
        /\ ~lost' => ~lost /\ UNCHANGED waits
    BY <1>3 DEF GivesUp, ReplaceCa, Enrol, certVars, agentVars, caVars, HeldInv, RowTypes
  <2>3. QED
    BY <1>2, <2>1, <2>2
<1>4. CASE FleetStep \/ FleetFails
  BY <1>2, <1>4, FleetListens DEF FleetStep, FleetFails, agentVars, caVars, HeldInv, RowTypes
<1>5. QED
  BY <1>1, <1>3, <1>4, AskKeepsHeld, FailsKeepsHeld, MarkKeepsHeld DEF CertNext

\* registerDevice and renewDevice: as long as every certificate issued reached the
\* agent, no failed or refused request leaves an active row that it does not hold.
THEOREM ActiveRowsAreHeld == CertSpec => []ActiveIsHeld
<1>1. CertInit => HeldInv
  BY HeldInit
<1>2. HeldInv /\ [CertNext]_certVars => HeldInv'
  BY HeldStep
<1>3. HeldInv => ActiveIsHeld
  <2> SUFFICES ASSUME HeldInv, Busy = {}, ~lost PROVE \A i \in DOMAIN cert : Active(cert[i]) => i = held
    BY DEF ActiveIsHeld
  <2>1. \A r \in Requests : req[r] = NoRequest
    BY DEF Busy
  <2>2. HeldActive /\ DOMAIN cert = 1..Len(cert)
    BY <2>1 DEF HeldInv, RowTypes, Unchecked, NoRequest, Later
  <2>3. QED
    BY <2>2 DEF HeldActive
<1>4. QED
  BY <1>1, <1>2, <1>3, PTL DEF CertSpec

---------------------------------------------------------------------------
(* The cache of vulnerabilities *)

\* What a refresh has asked about is the beginning of its batch, and so are its answers.
Told(w) == /\ w.batch \in Seq(ToSet(w.batch)) /\ w.asked \in 0..Len(w.batch)
           /\ w.answers = SubSeq(w.batch, 1, w.asked)

RefreshFields == {"stage", "stale", "osTodo", "batch", "asked", "answers"}

VulnInv == /\ DOMAIN entry = Keys /\ RowsTellTheirKey
           /\ DOMAIN refresh = Refreshers
           /\ \A r \in Refreshers : DOMAIN refresh[r] = RefreshFields /\ Told(refresh[r])

LEMMA NothingIsTold ==
  ASSUME NEW w, w.batch \in Seq(ToSet(w.batch)), w.asked = 0, w.answers = <<>>
  PROVE  Told(w)
<1>1. SubSeq(w.batch, 1, 0) = <<>>
  BY SubSeqEmpty
<1>2. Len(w.batch) \in Nat
  BY LenProperties
<1>3. QED
  BY <1>1, <1>2 DEF Told

LEMMA IdleIsTold == Told(NoRefresh) /\ DOMAIN NoRefresh = RefreshFields
<1>1. NoRefresh.batch = <<>> /\ NoRefresh.asked = 0 /\ NoRefresh.answers = <<>>
  BY DEF NoRefresh
<1>2. NoRefresh.batch \in Seq(ToSet(NoRefresh.batch))
  BY <1>1, EmptySeq
<1>3. QED
  BY <1>1, <1>2, NothingIsTold DEF NoRefresh, RefreshFields

LEMMA BatchIsASeq == ASSUME NEW r PROVE Batch(r) \in Seq(ToSet(Batch(r)))
<1> DEFINE wanted == {i \in DOMAIN AppOrder : AppOrder[i] \in Present /\ ~Skips(r, AppOrder[i])}
           count  == IF Cardinality(wanted) < BatchCap THEN Cardinality(wanted) ELSE BatchCap
           app(n) == AppOrder[CHOOSE i \in wanted : Cardinality({j \in wanted : j < i}) = n - 1]
<1>1. AppOrder \in Seq(AppKeys) /\ BatchCap \in Nat
  BY VulnAssumption
<1>2. IsFiniteSet(DOMAIN AppOrder)
  <2>1. DOMAIN AppOrder = 1..Len(AppOrder) /\ Len(AppOrder) \in Nat
    BY <1>1, LenProperties
  <2>2. QED
    BY <2>1, FS_Interval
<1>3. Cardinality(wanted) \in Nat
  <2>1. wanted \subseteq DOMAIN AppOrder
    OBVIOUS
  <2> HIDE DEF wanted
  <2>2. QED
    BY <1>2, <2>1, FS_Subset, FS_CardinalityType
<1>4. count \in Nat
  BY <1>1, <1>3
<1>5. Batch(r) = [n \in 1..count |-> app(n)]
  BY Zenon DEF Batch
<1> HIDE DEF wanted, count, app
<1>6. DOMAIN Batch(r) = 1..count /\ Batch(r) \in [1..count -> ToSet(Batch(r))]
  BY <1>5 DEF ToSet
<1>7. QED
  BY <1>4, <1>6

\* A chunk that is answered in full carries the answers on.
LEMMA ChunkIsTold ==
  ASSUME NEW s, s \in Seq(ToSet(s)), NEW a \in 0..Len(s), NEW chunk,
         LET rest == SubSeq(s, a + 1, Len(s))
         IN  chunk = SubSeq(rest, 1, IF Len(rest) < ChunkSize THEN Len(rest) ELSE ChunkSize)
  PROVE  /\ a + Len(chunk) \in 0..Len(s)
         /\ SubSeq(s, 1, a) \o chunk = SubSeq(s, 1, a + Len(chunk))
<1> DEFINE S == ToSet(s)
           rest == SubSeq(s, a + 1, Len(s))
           l == IF Len(rest) < ChunkSize THEN Len(rest) ELSE ChunkSize
<1>1. s \in Seq(S) /\ Len(s) \in Nat /\ ChunkSize \in Nat \ {0}
  BY LenProperties, VulnAssumption
<1>2. rest \in Seq(S) /\ Len(rest) = Len(s) - a
        /\ \A i \in 1..(Len(s) - a) : rest[i] = s[a + i]
  <2>1. \A i \in (a + 1)..Len(s) : s[i] \in S
    BY <1>1
  <2>2. QED
    BY <1>1, <2>1
<1>3. l \in 0..(Len(s) - a)
  BY <1>1, <1>2
<1> HIDE DEF rest, l, S
<1>4. chunk = SubSeq(rest, 1, l)
  BY DEF rest, l
<1>5. chunk \in Seq(S) /\ Len(chunk) = l /\ \A i \in 1..l : chunk[i] = rest[i]
  <2>1. \A i \in 1..l : rest[i] \in S
    BY <1>1, <1>2, <1>3
  <2>2. SubSeq(rest, 1, l) \in Seq(S)
    BY <1>1, <1>2, <1>3, <2>1
  <2>3. Len(SubSeq(rest, 1, l)) = l /\ \A i \in 1..l : SubSeq(rest, 1, l)[i] = rest[i]
    BY <1>1, <1>2, <1>3
  <2>4. QED
    BY <1>4, <2>2, <2>3
<1>6. a + Len(chunk) \in 0..Len(s)
  BY <1>1, <1>3, <1>5
<1>7. chunk = SubSeq(s, a + 1, a + l)
  <2>1. SubSeq(s, a + 1, a + l) \in Seq(S) /\ Len(SubSeq(s, a + 1, a + l)) = l
        /\ \A i \in 1..l : SubSeq(s, a + 1, a + l)[i] = s[a + i]
    BY <1>1, <1>3
  <2>2. \A i \in 1..l : chunk[i] = s[a + i]
    BY <1>1, <1>2, <1>3, <1>5
  <2>3. QED
    BY <1>3, <1>5, <2>1, <2>2, SeqEqual
<1>8. SubSeq(s, 1, a) \o SubSeq(s, a + 1, a + l) = SubSeq(s, 1, a + l)
  BY <1>1, <1>3, ConcatAdjacentSubSeq
<1>9. QED
  BY <1>5, <1>6, <1>7, <1>8

\* A refresh moves on without touching what it was told.
LEMMA RefreshKeeps ==
  ASSUME VulnInv, NEW r \in Refreshers, NEW w, refresh' = [refresh EXCEPT ![r] = w],
         DOMAIN w = RefreshFields, Told(w), DOMAIN entry' = Keys, RowsTellTheirKey'
  PROVE  VulnInv'
BY DEF VulnInv

LEMMA SameIsTold ==
  ASSUME NEW w, NEW u, Told(w), u.batch = w.batch, u.asked = w.asked, u.answers = w.answers
  PROVE  Told(u)
BY DEF Told

LEMMA RefreshTells ==
  ASSUME FullAnswers, VulnInv, NEW r \in Refreshers, Start(r) \/ RefreshStep(r)
  PROVE  VulnInv'
<1> DEFINE w == refresh[r]
<1>1. DOMAIN refresh = Refreshers /\ DOMAIN w = RefreshFields /\ Told(w)
      /\ DOMAIN entry = Keys /\ RowsTellTheirKey
  BY DEF VulnInv
<1>2. CASE Start(r)
  <2> DEFINE stale  == {k \in Keys \ Present : entry[k] # Unheld}
             osTodo == {k \in Present \cap OsVersions : ~Skips(r, k)}
             u == [stage |-> "evict", stale |-> stale, osTodo |-> osTodo,
                   batch |-> Batch(r), asked |-> 0, answers |-> <<>>]
  <2>1. refresh' = [refresh EXCEPT ![r] = u] /\ entry' = entry
    BY <1>2, Zenon DEF Start
  <2>2. Told(u) /\ DOMAIN u = RefreshFields
    <3>1. u.batch = Batch(r) /\ u.asked = 0 /\ u.answers = <<>> /\ DOMAIN u = RefreshFields
      BY DEF RefreshFields
    <3> HIDE DEF u
    <3>2. QED
      BY <3>1, BatchIsASeq, NothingIsTold
  <2> HIDE DEF u
  <2>3. QED
    BY <1>1, <2>1, <2>2, RefreshKeeps DEF RowsTellTheirKey
<1>3. CASE Evict(r)
  <2>1. PICK k \in w.stale :
          IF entry[k] = Unheld THEN refresh' = [refresh EXCEPT ![r] = NoRefresh] /\ entry' = entry
          ELSE /\ entry' = [entry EXCEPT ![k] = Unheld]
               /\ refresh' = [refresh EXCEPT ![r].stale = @ \ {k}]
    BY <1>3 DEF Evict
  <2>2. DOMAIN entry' = Keys /\ RowsTellTheirKey'
    BY <1>1, <2>1 DEF RowsTellTheirKey
  <2>3. CASE entry[k] = Unheld
    BY <2>1, <2>2, <2>3, IdleIsTold, RefreshKeeps
  <2>4. CASE entry[k] # Unheld
    <3> DEFINE u == [w EXCEPT !.stale = @ \ {k}]
    <3>1. refresh' = [refresh EXCEPT ![r] = u]
      BY <1>1, <2>1, <2>4
    <3>2. /\ u.batch = w.batch /\ u.asked = w.asked /\ u.answers = w.answers
          /\ DOMAIN u = RefreshFields
      BY <1>1 DEF RefreshFields
    <3> HIDE DEF u
    <3>3. QED
      BY <1>1, <2>2, <3>1, <3>2, SameIsTold, RefreshKeeps
  <2>5. QED
    BY <2>3, <2>4
<1>4. CASE Evicted(r) \/ OsDone(r)
  <2>1. PICK st \in {"os", "apps"} : refresh' = [refresh EXCEPT ![r].stage = st] /\ entry' = entry
    BY <1>4 DEF Evicted, OsDone
  <2> DEFINE u == [w EXCEPT !.stage = st]
  <2>2. refresh' = [refresh EXCEPT ![r] = u]
    BY <1>1, <2>1
  <2>3. /\ u.batch = w.batch /\ u.asked = w.asked /\ u.answers = w.answers
        /\ DOMAIN u = RefreshFields
    BY <1>1 DEF RefreshFields
  <2> HIDE DEF u
  <2>4. QED
    BY <1>1, <2>1, <2>2, <2>3, SameIsTold, RefreshKeeps DEF RowsTellTheirKey
<1>5. CASE QueryOs(r)
  <2>1. PICK k \in w.osTodo :
          /\ refresh' = [refresh EXCEPT ![r].osTodo = @ \ {k}]
          /\ entry' = [entry EXCEPT ![k] = [age |-> 0, of |-> k]] \/ entry' = entry
    BY <1>5 DEF QueryOs
  <2> DEFINE u == [w EXCEPT !.osTodo = @ \ {k}]
  <2>2. refresh' = [refresh EXCEPT ![r] = u]
    BY <1>1, <2>1
  <2>3. /\ u.batch = w.batch /\ u.asked = w.asked /\ u.answers = w.answers
        /\ DOMAIN u = RefreshFields
    BY <1>1 DEF RefreshFields
  <2>4. DOMAIN entry' = Keys /\ RowsTellTheirKey'
    BY <1>1, <2>1 DEF RowsTellTheirKey
  <2> HIDE DEF u
  <2>5. QED
    BY <1>1, <2>2, <2>3, <2>4, SameIsTold, RefreshKeeps
<1>6. CASE QueryChunk(r)
  <2> DEFINE rest  == SubSeq(w.batch, w.asked + 1, Len(w.batch))
             chunk == SubSeq(rest, 1, IF Len(rest) < ChunkSize THEN Len(rest) ELSE ChunkSize)
             u == [w EXCEPT !.answers = @ \o chunk, !.asked = @ + Len(chunk)]
             g == [w EXCEPT !.stage = "done"]
  <2>1. \/ refresh' = [refresh EXCEPT ![r].answers = @ \o chunk, ![r].asked = @ + Len(chunk)]
        \/ refresh' = [refresh EXCEPT ![r].stage = "done"]
    BY <1>6 DEF QueryChunk, Answers
  <2>2. entry' = entry
    BY <1>6 DEF QueryChunk
  <2>3. /\ w.asked + Len(chunk) \in 0..Len(w.batch)
        /\ SubSeq(w.batch, 1, w.asked) \o chunk = SubSeq(w.batch, 1, w.asked + Len(chunk))
    BY <1>1, ChunkIsTold DEF Told
  <2> HIDE DEF chunk
  <2>4. Told(u) /\ DOMAIN u = RefreshFields
    BY <1>1, <2>3 DEF Told, RefreshFields
  <2>5. Told(g) /\ DOMAIN g = RefreshFields
    BY <1>1 DEF Told, RefreshFields
  <2>6. refresh' = [refresh EXCEPT ![r] = u] \/ refresh' = [refresh EXCEPT ![r] = g]
    BY <1>1, <2>1
  <2> HIDE DEF u, g
  <2>7. QED
    BY <1>1, <2>2, <2>4, <2>5, <2>6, RefreshKeeps DEF RowsTellTheirKey
<1>7. CASE Store(r)
  <2> DEFINE batch == w.batch
             answers == w.answers
             Row(i) == [age |-> 0, of |-> IF i > Len(answers) THEN entry[batch[i]].of
                                          ELSE answers[i]]
             u == [w EXCEPT !.stage = "done"]
  <2>1. w.asked = Len(batch) /\ refresh' = [refresh EXCEPT ![r] = u]
    BY <1>1, <1>7 DEF Store
  <2>2. PICK n \in 0..Len(batch) :
          entry' = [k \in Keys |-> IF \E i \in 1..n : batch[i] = k
                                   THEN Row(CHOOSE i \in 1..n : batch[i] = k) ELSE entry[k]]
    BY <1>7, Zenon DEF Store
  <2>3. answers = batch /\ Len(batch) \in Nat
    BY <1>1, <2>1, SubSeqFull, LenProperties DEF Told
  <2>4. \A k \in Keys : entry'[k] # Unheld => entry'[k].of = k
    <3> TAKE k \in Keys
    <3>1. CASE \E i \in 1..n : batch[i] = k
      <4> DEFINE j == CHOOSE i \in 1..n : batch[i] = k
      <4>1. j \in 1..n /\ batch[j] = k
        BY <3>1
      <4>2. entry'[k] = Row(j)
        BY <2>2, <3>1
      <4>3. Row(j).of = answers[j]
        BY <2>2, <2>3, <4>1
      <4>4. QED
        BY <2>3, <4>1, <4>2, <4>3
    <3>2. CASE ~ \E i \in 1..n : batch[i] = k
      BY <1>1, <2>2, <3>2 DEF RowsTellTheirKey
    <3>3. QED
      BY <3>1, <3>2
  <2>5. DOMAIN entry' = Keys /\ RowsTellTheirKey'
    BY <2>2, <2>4 DEF RowsTellTheirKey
  <2>6. Told(u) /\ DOMAIN u = RefreshFields
    BY <1>1 DEF Told, RefreshFields
  <2> HIDE DEF u
  <2>7. QED
    BY <2>1, <2>5, <2>6, RefreshKeeps
<1>8. CASE Finish(r)
  <2>1. refresh' = [refresh EXCEPT ![r] = NoRefresh] /\ entry' = entry
    BY <1>8 DEF Finish
  <2>2. QED
    BY <1>1, <2>1, IdleIsTold, RefreshKeeps DEF RowsTellTheirKey
<1>9. QED
  BY <1>2, <1>3, <1>4, <1>5, <1>6, <1>7, <1>8 DEF RefreshStep

\* As long as the service answers for every app of a chunk, a row holds what it said about
\* the row's own key, whatever overlaps, fails or is evicted meanwhile.
THEOREM RowsAreTheirOwn == FullAnswers => (VulnSpec => []RowsTellTheirKey)
<1> SUFFICES ASSUME FullAnswers PROVE VulnSpec => []RowsTellTheirKey
  OBVIOUS
<1>1. VulnInit => VulnInv
  BY IdleIsTold DEF VulnInit, VulnInv, RowsTellTheirKey
<1>2. VulnInv /\ [VulnNext]_vulnVars => VulnInv'
  <2> SUFFICES ASSUME VulnInv, [VulnNext]_vulnVars PROVE VulnInv'
    OBVIOUS
  <2>1. CASE BackendRestarts
    BY <2>1, IdleIsTold DEF BackendRestarts, VulnInv, RowsTellTheirKey
  <2>2. CASE FleetChanges \/ UNCHANGED vulnVars
    BY <2>2 DEF FleetChanges, vulnVars, VulnInv, RowsTellTheirKey
  <2>3. CASE IntervalPasses
    <3>1. refresh' = refresh /\ DOMAIN entry' = Keys
      BY <2>3 DEF IntervalPasses
    <3>2. RowsTellTheirKey'
      <4> SUFFICES ASSUME NEW k \in Keys, entry'[k] # Unheld PROVE entry'[k].of = k
        BY DEF RowsTellTheirKey
      <4>1. entry[k] # Unheld
            /\ entry'[k] = [entry[k] EXCEPT !.age = IF @ < Lifetime THEN @ + 1 ELSE @]
        BY <2>3 DEF IntervalPasses
      <4>2. QED
        BY <4>1 DEF VulnInv, RowsTellTheirKey
    <3>3. QED
      BY <3>1, <3>2 DEF VulnInv
  <2>4. QED
    BY <2>1, <2>2, <2>3, RefreshTells DEF VulnNext
<1>3. VulnInv => RowsTellTheirKey
  BY DEF VulnInv
<1>4. QED
  BY <1>1, <1>2, <1>3, PTL DEF VulnSpec

=============================================================================
