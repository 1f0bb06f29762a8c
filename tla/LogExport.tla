------------------------------ MODULE LogExport ------------------------------
(***************************************************************************)
(* The batch export of the audit log and its rotation:                     *)
(* logExportDestinations.service.ts, auditLog.ts, auditLogs.service.ts.    *)
(*                                                                         *)
(* Once a day a tick ships to every enabled destination the entries newer  *)
(* than its cursor, and moves the cursor to the newest of them; another    *)
(* job deletes the entries past their retention.  Time passes in instants, *)
(* Day of them between two ticks; a tick ends before the next one is due.  *)
(***************************************************************************)
EXTENDS Integers

CONSTANTS
  Entries,       \* rows of AuditLogEntry
  Destinations,  \* rows of LogExportDestination of a batch type
  Never,         \* no lastExportedAt yet, no entry yet
  Day,           \* LOG_EXPORT_SCHEDULER_TICK_MS in instants
  Retention,     \* auditLogRetentionDays
  SettledReads,  \* assumption: when the log is read every entry stamped so far is
                 \* stored, and none is stamped any more in that instant
  MaxTime,       \* bound: instants
  MaxOutages,    \* bound: failed calls, failed queries, restarts
  MaxSwitches    \* bound: destinations switched on or off

ASSUME ExportAssumption ==
  /\ Never \notin Int
  /\ Day \in Nat \ {0} /\ Retention \in Nat \ {0}
  /\ SettledReads \in BOOLEAN

VARIABLES
  now,
  written,   \* per entry: createdAt, or Never
  table,     \* the entries a query finds
  rotated,   \* the entries the rotation deleted
  enabled,   \* the destinations switched on
  cursor,    \* per destination: lastExportedAt
  export,    \* the tick: whom it still has to serve, whom it has served, and
             \* what it holds for the one it is at
  tickDue,   \* the tick of this instant has not begun
  lastRead,  \* the instant of the last read of the log, or Never
  shipped,   \* per destination: the entries that reached it (history)
  missed,    \* per destination: the ticks that did not serve it (history)
  outages, switches

timeVars == <<now, tickDue, lastRead>>
logVars  == <<written, table, rotated>>
destVars == <<enabled, cursor, switches>>
history  == <<shipped, missed>>

exportVars == <<timeVars, logVars, destVars, history, export, outages>>

NoTick == [stage |-> "none", left |-> {}, served |-> {}, at |-> Never, batch |-> {}]

ExportInit ==
  /\ now = 0 /\ written = [e \in Entries |-> Never]
  /\ table = {} /\ rotated = {}
  /\ enabled = Destinations /\ cursor = [d \in Destinations |-> Never]
  /\ export = NoTick /\ tickDue = TRUE /\ lastRead = Never
  /\ shipped = [d \in Destinations |-> {}] /\ missed = [d \in Destinations |-> 0]
  /\ outages = 0 /\ switches = 0

Outage == outages < MaxOutages /\ outages' = outages + 1

InFlight == {e \in Entries : written[e] # Never} \ (table \cup rotated)

---------------------------------------------------------------------------
(* recordAuditEvent *)

\* The entry is stamped before it is stored ...
Stamp(e) ==
  /\ written[e] = Never
  /\ SettledReads => now # lastRead
  /\ written' = [written EXCEPT ![e] = now]
  /\ UNCHANGED <<destVars, timeVars, history, table, rotated, export, outages>>

\* ... and found by queries once it is.
StoreEntry(e) ==
  /\ e \in InFlight
  /\ table' = table \cup {e}
  /\ UNCHANGED <<destVars, timeVars, history, written, rotated, export, outages>>

---------------------------------------------------------------------------
(* runLogExportSchedulerTick *)

\* The enabled destinations are loaded once.
ExportBegins ==
  /\ tickDue /\ tickDue' = FALSE
  /\ export' = [NoTick EXCEPT !.stage = "next", !.left = enabled]
  /\ UNCHANGED <<logVars, destVars, history, now, lastRead, outages>>

\* createdAt: { gt: lastExportedAt }, or all there is.
NewEntries(d) == {e \in table : cursor[d] = Never \/ written[e] > cursor[d]}

Served(d) == [export EXCEPT !.stage = "next", !.left = @ \ {d}, !.served = @ \cup {d},
                            !.at = Never, !.batch = {}]
Skipped(d) == [Served(d) EXCEPT !.served = export.served]

\* What is new is read; nothing new, or a failed query, and the next one is up.
ReadNew(d) ==
  /\ export.stage = "next" /\ d \in export.left
  /\ SettledReads => InFlight = {}
  /\ lastRead' = now
  /\ \/ /\ NewEntries(d) # {} /\ UNCHANGED outages
        /\ export' = [export EXCEPT !.stage = "ship", !.at = d, !.batch = NewEntries(d)]
     \/ NewEntries(d) = {} /\ export' = Served(d) /\ UNCHANGED outages
     \/ Outage /\ export' = Skipped(d)
  /\ UNCHANGED <<logVars, destVars, history, now, tickDue>>

\* runBatchExport: the file is stored, or the call fails before or after it is.
Ship(d) ==
  /\ export.stage = "ship" /\ export.at = d
  /\ \/ /\ shipped' = [shipped EXCEPT ![d] = @ \cup export.batch]
        /\ export' = [export EXCEPT !.stage = "shipped"] /\ UNCHANGED outages
     \/ /\ Outage /\ export' = Skipped(d)
        /\ shipped' \in {shipped, [shipped EXCEPT ![d] = @ \cup export.batch]}
  /\ UNCHANGED <<logVars, destVars, timeVars, missed>>

WhenShipped(newest) ==   \* Variation: the cursor is the time of the export.
  now

NewCursor(newest) == written[newest]

\* lastExportedAt is that of the newest entry shipped, or stays if that fails.
MoveCursor(d) ==
  /\ export.stage = "shipped" /\ export.at = d
  /\ \/ /\ \E newest \in export.batch :
             /\ \A e \in export.batch : written[e] <= written[newest]
             /\ cursor' = [cursor EXCEPT ![d] = NewCursor(newest)]
        /\ export' = Served(d) /\ UNCHANGED outages
     \/ Outage /\ export' = Skipped(d) /\ UNCHANGED cursor
  /\ UNCHANGED <<logVars, timeVars, history, enabled, switches>>

\* Whom the tick has not served has missed it.
EndsTick ==
  /\ export' = NoTick
  /\ missed' = [d \in Destinations |-> IF d \in export.served THEN missed[d] ELSE missed[d] + 1]
  /\ UNCHANGED <<logVars, destVars, timeVars, shipped>>

ExportEnds == export.stage = "next" /\ export.left = {} /\ EndsTick /\ UNCHANGED outages

\* The process dies, and the rest of the tick with it.
ExportDies == export.stage # "none" /\ Outage /\ EndsTick

---------------------------------------------------------------------------
(* rotateAuditLogsForAllWorkspaces, updateLogExportDestination, time *)

AtLeastADayOld(e) ==   \* Variation: the day under way counts in full.
  written[e] < now - (Retention - 1) * Day

PastRetention(e) == written[e] < now - Retention * Day

Rotate ==
  LET old == {e \in table : PastRetention(e)}
  IN  /\ old # {}
      /\ table' = table \ old /\ rotated' = rotated \cup old
      /\ UNCHANGED <<destVars, timeVars, history, written, export, outages>>

SwitchDestination(d) ==
  /\ switches < MaxSwitches /\ switches' = switches + 1
  /\ enabled' = IF d \in enabled THEN enabled \ {d} ELSE enabled \cup {d}
  /\ UNCHANGED <<logVars, timeVars, history, cursor, export, outages>>

InstantPasses ==
  /\ now < MaxTime /\ ~tickDue
  /\ now' = now + 1 /\ tickDue' = (now' % Day = 0)
  /\ tickDue' => export.stage = "none"
  /\ UNCHANGED <<logVars, destVars, history, lastRead, export, outages>>

ExportNext ==
  \/ \E e \in Entries : Stamp(e) \/ StoreEntry(e)
  \/ \E d \in Destinations : ReadNew(d) \/ Ship(d) \/ MoveCursor(d) \/ SwitchDestination(d)
  \/ ExportBegins \/ ExportEnds \/ ExportDies \/ Rotate \/ InstantPasses

ExportSpec == ExportInit /\ [][ExportNext]_exportVars

---------------------------------------------------------------------------
(* Properties *)

\* No entry that is in the log, or about to be, lies at or below the cursor of a
\* destination it has not reached: whatever failed or died in between, the next
\* ticks still look for it.
NothingSkipped ==
  \A d \in Destinations, e \in table \cup InFlight :
    cursor[d] # Never /\ written[e] <= cursor[d] => e \in shipped[d]

\* The rotation takes an entry away from a destination only if the ticks of all
\* the days of retention but one failed to serve it (of the last day the rotation
\* may overtake the tick).
NothingLostUnmissed ==
  \A d \in Destinations, e \in rotated : e \in shipped[d] \/ missed[d] >= Retention - 1
=============================================================================
