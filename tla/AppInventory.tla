---------------------------- MODULE AppInventory -----------------------------
(***************************************************************************)
(* The inventory of installed apps: what the agents report                 *)
(* (reportDeviceApps in deviceData.service.ts), what is fetched from       *)
(* Applivery within a budget (installedAppsJobs.ts), and the row that      *)
(* holds both, one slot each (installedApps.service.ts).                   *)
(*                                                                         *)
(* A report is a number, growing with every report of the device; of a     *)
(* fetched list only its age counts, which is the device's place in        *)
(* `oldest`.  The row is read and written back whole, without a lock: what *)
(* comes in between is lost, unless QuietRow assumes that nothing does.    *)
(* (A report also writes the fetched list back; that the list may then be  *)
(* an older one is left out.)                                              *)
(***************************************************************************)
EXTENDS Naturals, SequencesExt

CONSTANTS
  Devices,     \* the devices of the fleet that a policy's app list covers
  Reporters,   \* those whose agent reports its apps
  Failing,     \* those whose list Applivery never returns
  PerTick,     \* the fetches one tick may spend
  MaxReports,  \* bound: reports of an agent
  QuietRow     \* assumption: no report is handled between the refresher's read
               \* and its write of the device's row, or of what is buffered for it

ASSUME AppAssumption == Reporters \subseteq Devices /\ Failing \subseteq Devices

VARIABLES
  indexed,   \* the devices in the serial number index
  newest,    \* per device: its agent's latest report (0 for none)
  acked,     \* per device: the latest report that was answered with success
  report,    \* per device: where the report being handled stands
  pending,   \* PendingAppReport
  selfReported,  \* the slot of the agent's reports: the one held, 0 for none
  fresh,     \* the report held is younger than 150 minutes
  oldest,    \* the devices by the age of their fetched list, the oldest first
  fetched,   \* the devices that have an entry from Applivery, be it an error
  tick       \* the refresher: stage, buffered rows it read, devices to fetch, row it read

appVars == <<indexed, newest, acked, report, pending, selfReported, fresh, oldest, fetched, tick>>

Idle == [stage |-> "idle", rows |-> [d \in Devices |-> 0], batch |-> <<>>, self |-> 0]

AppInit ==
  /\ indexed \in SUBSET Reporters
  /\ newest = [d \in Devices |-> 0]
  /\ pending = newest /\ selfReported = newest /\ acked = newest
  /\ report = [d \in Devices |-> "none"]
  /\ fresh = [d \in Devices |-> FALSE]
  /\ oldest \in SetToSeqs(Devices) /\ fetched = {}
  /\ tick = Idle

---------------------------------------------------------------------------
(* reportDeviceApps *)

Stage(d, stage) == report' = [report EXCEPT ![d] = stage]

\* The refresher stands between a read and a write that concern d.
InUse(d) == \/ tick.stage = "put" /\ Head(tick.batch) = d
            \/ tick.stage = "reconcile" /\ tick.rows[d] # 0

Arrives(d) ==
  /\ report[d] = "none" /\ newest[d] < MaxReports
  /\ QuietRow => ~InUse(d)
  /\ newest' = [newest EXCEPT ![d] = @ + 1]
  /\ Stage(d, "match")
  /\ UNCHANGED <<indexed, acked, pending, selfReported, fresh, oldest, fetched, tick>>

\* The index knows the device, or the report is buffered by serial number.
Match(d) ==
  /\ report[d] = "match"
  /\ IF d \in indexed
     THEN Stage(d, "put") /\ UNCHANGED pending
     ELSE Stage(d, "answer") /\ pending' = [pending EXCEPT ![d] = newest[d]]
  /\ UNCHANGED <<indexed, newest, acked, selfReported, fresh, oldest, fetched, tick>>

\* upsertInstalledAppsSlot: the whole row is written, one slot changed.
PutReport(d) ==
  /\ report[d] = "put"
  /\ selfReported' = [selfReported EXCEPT ![d] = newest[d]]
  /\ fresh' = [fresh EXCEPT ![d] = TRUE]
  /\ Stage(d, "clear")
  /\ UNCHANGED <<indexed, newest, acked, pending, oldest, fetched, tick>>

\* An older report that was buffered is not needed any more.
ClearBuffered(d) ==
  /\ report[d] = "clear"
  /\ pending' = [pending EXCEPT ![d] = 0]
  /\ Stage(d, "answer")
  /\ UNCHANGED <<indexed, newest, acked, selfReported, fresh, oldest, fetched, tick>>

\* The audit event is recorded and the agent gets its answer.
Acknowledge(d) ==
  /\ report[d] = "answer"
  /\ acked' = [acked EXCEPT ![d] = newest[d]]
  /\ Stage(d, "none")
  /\ UNCHANGED <<indexed, newest, pending, selfReported, fresh, oldest, fetched, tick>>

\* Any await may throw: the agent gets a 500, and what was written stays.  After
\* the write of the slot an older report may stay buffered.
ReportFails(d) ==
  /\ report[d] # "none"
  /\ Stage(d, "none")
  /\ UNCHANGED <<indexed, newest, acked, pending, selfReported, fresh, oldest, fetched, tick>>

\* The report held grows older than 150 minutes.
GrowsOld(d) ==
  /\ fresh[d]
  /\ fresh' = [fresh EXCEPT ![d] = FALSE]
  /\ UNCHANGED <<indexed, newest, acked, report, pending, selfReported, oldest, fetched, tick>>

\* The index is rebuilt by each pull of the fleet, and expires.
IndexChanges(d) ==
  /\ indexed' = IF d \in indexed THEN indexed \ {d} ELSE indexed \cup {d}
  /\ UNCHANGED <<newest, acked, report, pending, selfReported, fresh, oldest, fetched, tick>>

---------------------------------------------------------------------------
(* runInstalledAppsRefresherTick *)

\* reconcilePendingAppReports reads every buffered row first ...
TickStarts ==
  /\ tick.stage = "idle"
  /\ QuietRow => \A d \in Devices : report[d] = "none"
  /\ tick' = [Idle EXCEPT !.stage = "reconcile", !.rows = pending]
  /\ UNCHANGED <<indexed, newest, acked, report, pending, selfReported, fresh, oldest, fetched>>

\* ... and moves them one by one: the slot is written from the row that was
\* read, then whatever is buffered for the device is deleted.
Reconcile(d) ==
  /\ tick.stage = "reconcile" /\ tick.rows[d] # 0
  /\ selfReported' = [selfReported EXCEPT ![d] = tick.rows[d]]
  /\ fresh' = [fresh EXCEPT ![d] = TRUE]
  /\ pending' = [pending EXCEPT ![d] = 0]
  /\ tick' = [tick EXCEPT !.rows[d] = 0]
  /\ UNCHANGED <<indexed, newest, acked, report, oldest, fetched>>

\* An error ends the reconciliation, before or after the write of a slot; the
\* tick goes on.
ReconcileFails(d) ==
  /\ tick.stage = "reconcile" /\ tick.rows[d] # 0
  /\ \/ UNCHANGED <<selfReported, fresh>>
     \/ /\ selfReported' = [selfReported EXCEPT ![d] = tick.rows[d]]
        /\ fresh' = [fresh EXCEPT ![d] = TRUE]
  /\ tick' = [tick EXCEPT !.rows = Idle.rows]
  /\ UNCHANGED <<indexed, newest, acked, report, pending, oldest, fetched>>

NewestFirst == SelectSeq(Reverse(oldest), LAMBDA d : ~fresh[d])   \* Variation.
\* Devices whose own report is fresh need no fetch; the rest, oldest first.
Ranked == SelectSeq(oldest, LAMBDA d : ~fresh[d])

Smaller(m, n) == IF m < n THEN m ELSE n
PickBatch ==
  /\ tick.stage = "reconcile" /\ \A d \in Devices : tick.rows[d] = 0
  /\ tick' = [tick EXCEPT !.stage = "fetch", !.batch = SubSeq(Ranked, 1, Smaller(PerTick, Len(Ranked)))]
  /\ UNCHANGED <<indexed, newest, acked, report, pending, selfReported, fresh, oldest, fetched>>

\* fetchAndStoreInstalledApps: the list, then the row is read ...
Fetch ==
  /\ tick.stage = "fetch" /\ tick.batch # <<>>
  /\ QuietRow => report[Head(tick.batch)] = "none"
  /\ tick' = [tick EXCEPT !.stage = "put", !.self = selfReported[Head(tick.batch)]]
  /\ UNCHANGED <<indexed, newest, acked, report, pending, selfReported, fresh, oldest, fetched>>

Moved(d) == Append(SelectSeq(oldest, LAMBDA e : e # d), d)

OneSlot(held) == 0   \* Variation: the row has room for one source.
OtherSlot(held) == held

\* ... and written: after an error with the old list and its old age, which is
\* now if there was no entry before.
PutFetched ==
  LET d == Head(tick.batch) IN
  /\ tick.stage = "put"
  /\ selfReported' = [selfReported EXCEPT ![d] = OtherSlot(tick.self)]
  /\ oldest' = IF d \in Failing \cap fetched THEN oldest ELSE Moved(d)
  /\ fetched' = fetched \cup {d}
  /\ tick' = [tick EXCEPT !.stage = "fetch", !.batch = Tail(@)]
  /\ UNCHANGED <<indexed, newest, acked, report, pending, fresh>>

TickEnds ==
  /\ tick.stage = "fetch" /\ tick.batch = <<>>
  /\ tick' = Idle
  /\ UNCHANGED <<indexed, newest, acked, report, pending, selfReported, fresh, oldest, fetched>>

RefresherStep ==
  \/ \E d \in Devices : Reconcile(d) \/ ReconcileFails(d)
  \/ TickStarts \/ PickBatch \/ Fetch \/ PutFetched \/ TickEnds

HandleReport(d) == Match(d) \/ PutReport(d) \/ ClearBuffered(d) \/ Acknowledge(d)

AppNext ==
  \/ \E d \in Reporters : Arrives(d) \/ HandleReport(d) \/ ReportFails(d) \/ GrowsOld(d) \/ IndexChanges(d)
  \/ RefresherStep

AppSpec == AppInit /\ [][AppNext]_appVars

---------------------------------------------------------------------------
(* Properties *)

AppTypeOK ==
  /\ indexed \subseteq Reporters
  /\ \A d \in Devices : {selfReported[d], pending[d], acked[d]} \subseteq 0..newest[d]
  /\ tick.stage \in {"idle", "reconcile", "fetch", "put"}
  /\ IsInjective(oldest)

\* What the row holds, or what is buffered to become it.
Kept(d) == IF pending[d] # 0 THEN pending[d] ELSE selfReported[d]

\* No report that was answered with success gives way to an older one: neither
\* a fetch from Applivery, nor the reconciliation of what was buffered, nor a
\* later report that fails half way brings an older list back.
LatestReportIsKept == \A d \in Devices : acked[d] <= Kept(d)

\* With fewer devices that always fail than a tick may fetch, the whole fleet
\* turns over: every other device is fetched again and again, unless its own
\* reports are fresh.
FleetTurnsOver ==
  \A d \in Devices \ Failing :
    []<>(fresh[d] \/ (tick.stage = "put" /\ Head(tick.batch) = d))
=============================================================================
