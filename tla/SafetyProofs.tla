----------------------------- MODULE SafetyProofs ------------------------------
(***************************************************************************)
(* Two parts of MCSafety.  No entry of the audit log is skipped, for any   *)
(* set of entries and destinations and any number of failures, restarts,   *)
(* rotations and switches, provided that the log is read when the entries  *)
(* stamped so far are stored, and none that a destination lacks is deleted *)
(* before nearly all the days of its retention were missed.  And idle tabs *)
(* sign out and attended ones do not, for any number of tabs and limits,   *)
(* however often they are suspended, loaded again, renewed or given        *)
(* another limit.                                                          *)
(***************************************************************************)
EXTENDS LogExport, BrowserSession, TLAPS

---------------------------------------------------------------------------
(* The export of the audit log *)

Live == table \cup InFlight
Holding == export.stage \in {"ship", "shipped"}

Ticks == [stage : {"none", "next", "ship", "shipped"}, left : SUBSET Destinations,
          served : SUBSET Destinations, at : Destinations \cup {Never}, batch : SUBSET Entries]

LogTypes ==
  /\ now \in Int /\ lastRead \in Int \cup {Never}
  /\ written \in [Entries -> Int \cup {Never}]
  /\ table \cup rotated \subseteq {e \in Entries : written[e] # Never}
  /\ cursor \in [Destinations -> Int \cup {Never}]
  /\ shipped \in [Destinations -> SUBSET Entries]
  /\ enabled \subseteq Destinations /\ export \in Ticks
  /\ Holding => export.at \in Destinations

\* What is stamped, read and passed by a cursor is in that order.
Clocks ==
  /\ lastRead # Never => lastRead <= now
  /\ \A e \in Entries : written[e] # Never => written[e] <= now
  /\ \A d \in Destinations : cursor[d] # Never => lastRead # Never /\ cursor[d] <= lastRead

\* The tick holds all there was, at the last read, that its destination lacks.
BatchIsWhole ==
  Holding =>
    /\ lastRead # Never
    /\ \A e \in export.batch : written[e] # Never /\ written[e] <= lastRead
    /\ \A e \in Live :
         written[e] <= lastRead => e \in export.batch \cup shipped[export.at]

ShippedIsShipped == export.stage = "shipped" => export.batch \subseteq shipped[export.at]

LogInv == LogTypes /\ Clocks /\ BatchIsWhole /\ ShippedIsShipped /\ NothingSkipped

LogSettled == SettledReads /\ Never \notin Int /\ Day \in Nat

LEMMA LiveIsStamped ==
  ASSUME LogTypes PROVE \A e \in Live : e \in Entries /\ written[e] \in Int
BY DEF LogTypes, Live, InFlight

LEMMA LogInit == ExportInit /\ Never \notin Int => LogInv
BY DEF ExportInit, NoTick, LogInv, LogTypes, Ticks, Clocks, BatchIsWhole, ShippedIsShipped, NothingSkipped,
       Live, InFlight, Holding

\* A step that changes no entry, cursor or read, and leaves the tick with less.
LEMMA Quieter ==
  ASSUME Never \notin Int, LogInv, now' \in Int, now' >= now, UNCHANGED <<lastRead, written, cursor>>,
         Live' \subseteq Live,
         table' \cup rotated' \subseteq {e \in Entries : written[e] # Never},
         shipped' \in [Destinations -> SUBSET Entries],
         \A d \in Destinations : shipped[d] \subseteq shipped'[d],
         enabled' \subseteq Destinations,
         \/ export' = export
         \/ export' \in Ticks /\ ~Holding'
  PROVE  LogInv'
<1> USE DEF LogInv
<1>1. LogTypes' /\ Clocks'
  BY DEF LogTypes, Clocks, Holding
<1>2. NothingSkipped'
  BY DEF NothingSkipped, Live
<1>3. BatchIsWhole' /\ ShippedIsShipped'
  BY DEF LogTypes, Holding, BatchIsWhole, ShippedIsShipped
<1>4. QED
  BY <1>1, <1>2, <1>3

\* The tick lets go of a destination, served or not.
LEMMA LetGo ==
  ASSUME LogTypes, NEW d \in Destinations, export' \in {Served(d), Skipped(d)}
  PROVE  export' \in Ticks /\ ~Holding'
<1>1. Served(d) \in Ticks /\ Served(d).stage = "next"
  BY DEF LogTypes, Ticks, Served
<1>2. Skipped(d) \in Ticks /\ Skipped(d).stage = "next"
  BY <1>1 DEF LogTypes, Ticks, Skipped
<1>3. QED
  BY <1>1, <1>2 DEF Holding

LEMMA StampKeeps == ASSUME LogSettled, LogInv, NEW e \in Entries, Stamp(e) PROVE LogInv'
<1> USE DEF LogInv, LogSettled
<1>1. /\ written' = [written EXCEPT ![e] = now] /\ written[e] = Never /\ now # lastRead
      /\ UNCHANGED <<now, lastRead, table, rotated, enabled, cursor, shipped, export>>
  BY DEF Stamp, destVars, timeVars, history
<1>2. LogTypes' /\ Clocks'
  BY <1>1 DEF LogTypes, Clocks, Holding
<1>3. Live' \subseteq Live \cup {e} /\ written'[e] = now
  BY <1>1 DEF LogTypes, Live, InFlight
<1>4. lastRead # Never => lastRead < now
  BY <1>1 DEF LogTypes, Clocks
<1>5. \A f \in Live' : f # e => f \in Live /\ written'[f] = written[f]
  BY <1>1, <1>3 DEF LogTypes, Live, InFlight
<1>6. NothingSkipped'
  <2> SUFFICES ASSUME NEW d \in Destinations, NEW f \in Live', cursor[d] # Never, written'[f] <= cursor[d]
               PROVE  f \in shipped[d]
    BY <1>1 DEF NothingSkipped, Live
  <2>1. f # e
    BY <1>3, <1>4 DEF LogTypes, Clocks
  <2>2. QED
    BY <1>5, <2>1 DEF NothingSkipped, Live
<1>7. BatchIsWhole'
  <2> SUFFICES ASSUME Holding
               PROVE  /\ \A f \in export.batch : written'[f] # Never /\ written'[f] <= lastRead
                      /\ \A f \in Live' : written'[f] <= lastRead => f \in export.batch \cup shipped[export.at]
    BY <1>1 DEF BatchIsWhole, Holding
  <2>1. e \notin export.batch
    BY <1>1 DEF BatchIsWhole
  <2>2. \A f \in export.batch : written'[f] # Never /\ written'[f] <= lastRead
    BY <1>1, <2>1 DEF BatchIsWhole, LogTypes
  <2>3. \A f \in Live' : written'[f] <= lastRead => f # e
    BY <1>3, <1>4 DEF BatchIsWhole, LogTypes
  <2>4. QED
    BY <1>5, <2>2, <2>3 DEF BatchIsWhole
<1>8. QED
  BY <1>1, <1>2, <1>6, <1>7 DEF ShippedIsShipped

LEMMA ReadKeeps == ASSUME LogSettled, LogInv, NEW d \in Destinations, ReadNew(d) PROVE LogInv'
<1> USE DEF LogInv, LogSettled
<1>1. /\ lastRead' = now /\ InFlight = {} /\ export.stage = "next"
      /\ UNCHANGED <<now, written, table, rotated, enabled, cursor, shipped>>
  BY DEF ReadNew, logVars, destVars, history
<1>2. Live' = Live /\ Live = table
  BY <1>1 DEF Live, InFlight
<1>3. Clocks' /\ NothingSkipped'
  BY <1>1, <1>2 DEF LogTypes, Clocks, NothingSkipped, Live
<1>4. CASE /\ NewEntries(d) # {}
           /\ export' = [export EXCEPT !.stage = "ship", !.at = d, !.batch = NewEntries(d)]
  <2>1. export'.batch = NewEntries(d) /\ export'.stage = "ship" /\ export'.at = d
    BY <1>4 DEF LogTypes, Ticks
  <2>2. LogTypes'
    <3>1. export' \in Ticks
      BY <1>4 DEF LogTypes, Ticks, NewEntries
    <3>2. QED
      BY <1>1, <2>1, <3>1 DEF LogTypes, Holding
  <2>3. \A e \in NewEntries(d) : written[e] # Never /\ written[e] <= now
    BY DEF LogTypes, Clocks, NewEntries
  <2>4. \A e \in Live : e \in NewEntries(d) \cup shipped[d]
    <3> SUFFICES ASSUME NEW e \in table, cursor[d] # Never, ~(written[e] > cursor[d])
                 PROVE  e \in shipped[d]
      BY <1>2 DEF NewEntries
    <3>1. written[e] <= cursor[d]
      BY DEF LogTypes
    <3>2. QED
      BY <3>1 DEF NothingSkipped
  <2>5. BatchIsWhole' /\ ShippedIsShipped'
    BY <1>1, <1>2, <2>1, <2>3, <2>4 DEF BatchIsWhole, ShippedIsShipped, LogTypes
  <2>6. QED
    BY <1>3, <2>2, <2>5
<1>5. CASE export' \in {Served(d), Skipped(d)}
  <2>1. export' \in Ticks /\ ~Holding'
    BY <1>5, LetGo
  <2>2. QED
    BY <1>1, <1>3, <2>1 DEF LogTypes, Holding, BatchIsWhole, ShippedIsShipped
<1>6. QED
  BY <1>4, <1>5 DEF ReadNew

LEMMA ShipKeeps == ASSUME LogSettled, LogInv, NEW d \in Destinations, Ship(d) PROVE LogInv'
<1> USE DEF LogInv, LogSettled
<1>1. /\ export.stage = "ship" /\ export.at = d /\ Holding
      /\ UNCHANGED <<now, lastRead, written, table, rotated, enabled, cursor>>
  BY DEF Ship, logVars, destVars, timeVars, Holding
<1>2. Live' = Live
  BY <1>1 DEF Live, InFlight
<1> DEFINE more == [shipped EXCEPT ![d] = @ \cup export.batch]
<1>3. /\ more \in [Destinations -> SUBSET Entries]
      /\ \A x \in Destinations : shipped[x] \subseteq more[x]
      /\ export.batch \subseteq more[d]
  BY DEF LogTypes, Ticks
<1> HIDE DEF more
<1>4. CASE shipped' = more /\ export' = [export EXCEPT !.stage = "shipped"]
  <2>1. export'.batch = export.batch /\ export'.at = d /\ export'.stage = "shipped" /\ export' \in Ticks
    BY <1>1, <1>4 DEF LogTypes, Ticks
  <2>2. LogTypes' /\ Clocks' /\ NothingSkipped'
    BY <1>1, <1>2, <1>3, <1>4, <2>1 DEF LogTypes, Clocks, NothingSkipped, Live, Holding
  <2>3. BatchIsWhole'
    BY <1>1, <1>2, <1>3, <1>4, <2>1 DEF BatchIsWhole
  <2>4. ShippedIsShipped'
    BY <1>3, <1>4, <2>1 DEF ShippedIsShipped
  <2>5. QED
    BY <2>2, <2>3, <2>4
<1>5. CASE export' = Skipped(d) /\ shipped' \in {shipped, more}
  <2>1. export' \in Ticks /\ ~Holding'
    BY <1>5, LetGo
  <2>2. shipped' \in [Destinations -> SUBSET Entries]
        /\ \A x \in Destinations : shipped[x] \subseteq shipped'[x]
    BY <1>3, <1>5 DEF LogTypes
  <2>3. QED
    BY <1>1, <1>2, <2>1, <2>2, Quieter DEF LogTypes
<1>6. QED
  BY <1>4, <1>5 DEF Ship, more

LEMMA MoveKeeps == ASSUME LogSettled, LogInv, NEW d \in Destinations, MoveCursor(d) PROVE LogInv'
<1> USE DEF LogInv, LogSettled
<1>1. /\ export.stage = "shipped" /\ export.at = d /\ Holding
      /\ UNCHANGED <<now, lastRead, written, table, rotated, shipped>>
      /\ export' \in Ticks /\ ~Holding' /\ enabled' = enabled
  BY LetGo DEF MoveCursor, logVars, history, timeVars, Holding
<1>2. Live' = Live
  BY <1>1 DEF Live, InFlight
<1>3. ASSUME NEW newest \in export.batch, cursor' = [cursor EXCEPT ![d] = written[newest]]
      PROVE  LogInv'
  <2>1. written[newest] \in Int /\ written[newest] <= lastRead /\ lastRead \in Int
    BY <1>1 DEF LogTypes, Ticks, BatchIsWhole
  <2>2. LogTypes' /\ Clocks'
    BY <1>1, <1>3, <2>1 DEF LogTypes, Clocks
  <2>3. NothingSkipped'
    <3> SUFFICES ASSUME NEW x \in Destinations, NEW e \in Live, cursor'[x] # Never, written[e] <= cursor'[x]
                 PROVE  e \in shipped[x]
      BY <1>1, <1>2 DEF NothingSkipped, Live
    <3>1. CASE x = d
      <4>1. cursor'[d] = written[newest]
        BY <1>3 DEF LogTypes
      <4>2. written[e] <= lastRead
        BY <2>1, <3>1, <4>1, LiveIsStamped
      <4>3. QED
        BY <1>1, <3>1, <4>2 DEF BatchIsWhole, ShippedIsShipped
    <3>2. CASE x # d
      BY <1>3, <3>2 DEF LogTypes, NothingSkipped, Live
    <3>3. QED
      BY <3>1, <3>2
  <2>4. QED
    BY <1>1, <2>2, <2>3 DEF BatchIsWhole, ShippedIsShipped, Holding
<1>4. CASE cursor' = cursor
  BY <1>1, <1>2, <1>4, Quieter DEF LogTypes
<1>5. QED
  BY <1>3, <1>4 DEF MoveCursor, NewCursor

LEMMA LogStep == ASSUME LogSettled, LogInv, [ExportNext]_exportVars PROVE LogInv'
<1> USE DEF LogSettled
<1>1. ASSUME NEW e \in Entries, StoreEntry(e) PROVE LogInv'
  <2>1. Live' = Live /\ table' \cup rotated' \subseteq {f \in Entries : written[f] # Never}
    BY <1>1 DEF StoreEntry, Live, InFlight, LogInv, LogTypes
  <2>2. QED
    BY <1>1, <2>1, Quieter DEF StoreEntry, destVars, timeVars, history, LogInv, LogTypes
<1>2. ASSUME Rotate PROVE LogInv'
  <2>1. Live' \subseteq Live /\ table' \cup rotated' \subseteq {f \in Entries : written[f] # Never}
    BY <1>2 DEF Rotate, Live, InFlight, LogInv, LogTypes
  <2>2. QED
    BY <1>2, <2>1, Quieter DEF Rotate, destVars, timeVars, history, LogInv, LogTypes
<1>3. ASSUME UNCHANGED <<logVars, lastRead, cursor, shipped>>, now' \in {now, now + 1},
             enabled' \subseteq Destinations, export' = export \/ (export' \in Ticks /\ ~Holding')
      PROVE  LogInv'
  <2>1. Live' = Live
    BY <1>3 DEF Live, InFlight, logVars
  <2>2. QED
    BY <1>3, <2>1, Quieter DEF LogInv, LogTypes, logVars
<1>4. CASE ExportBegins
  BY <1>3, <1>4 DEF ExportBegins, NoTick, Ticks, Holding, LogInv, LogTypes, destVars, history
<1>5. CASE ExportEnds \/ ExportDies
  BY <1>3, <1>5 DEF ExportEnds, ExportDies, EndsTick, NoTick, Ticks, Holding, LogInv, LogTypes, logVars, destVars, timeVars
<1>6. ASSUME NEW d \in Destinations, SwitchDestination(d) PROVE LogInv'
  BY <1>3, <1>6 DEF SwitchDestination, timeVars, history, LogInv, LogTypes
<1>7. CASE InstantPasses
  BY <1>3, <1>7 DEF InstantPasses, destVars, history, LogInv, LogTypes
<1>8. CASE UNCHANGED exportVars
  BY <1>3, <1>8 DEF exportVars, timeVars, logVars, destVars, history, LogInv, LogTypes
<1>9. QED
  BY <1>1, <1>2, <1>4, <1>5, <1>6, <1>7, <1>8, StampKeeps, ReadKeeps, ShipKeeps, MoveKeeps DEF ExportNext

\* runLogExportSchedulerTick: whatever fails or dies between the read of the log,
\* the export and the move of lastExportedAt, no entry falls behind the cursor of a
\* destination that never got it.
THEOREM NoEntryIsSkipped == SettledReads => (ExportSpec => []NothingSkipped)
<1> SUFFICES ASSUME SettledReads PROVE ExportSpec => []NothingSkipped
  OBVIOUS
<1>1. LogSettled
  BY ExportAssumption DEF LogSettled
<1>2. ExportInit => LogInv
  BY <1>1, LogInit DEF LogSettled
<1>3. LogInv /\ [ExportNext]_exportVars => LogInv'
  BY <1>1, LogStep
<1>4. LogInv => NothingSkipped
  BY DEF LogInv
<1>5. QED
  BY <1>2, <1>3, <1>4, PTL DEF ExportSpec

---------------------------------------------------------------------------
(* The rotation and the ticks a destination missed *)

DayOf(t) == t \div Day

LEMMA DayParts ==
  ASSUME NEW a \in Int
  PROVE  /\ DayOf(a) \in Int /\ a % Day \in Int
         /\ a = Day * DayOf(a) + (a % Day) /\ 0 <= a % Day /\ a % Day < Day
BY ExportAssumption DEF DayOf

LEMMA DayBounds ==
  ASSUME NEW a \in Int
  PROVE  /\ Day \in Nat \ {0} /\ DayOf(a) \in Int
         /\ Day * DayOf(a) <= a /\ a < Day * DayOf(a) + Day
<1> DEFINE q == DayOf(a)
           r == a % Day
<1>1. q \in Int /\ r \in Int /\ a = Day * q + r /\ 0 <= r /\ r < Day
  BY DayParts
<1>2. Day \in Nat \ {0}
  BY ExportAssumption
<1> HIDE DEF q, r
<1>3. Day * q <= a /\ a < Day * q + Day
  BY <1>1, <1>2
<1>4. QED
  BY <1>1, <1>2, <1>3 DEF q

\* What lies between the multiples of Day determines the day.
LEMMA DayIs ==
  ASSUME NEW a \in Int, NEW k \in Int, Day * k <= a, a < Day * k + Day
  PROVE  DayOf(a) = k
<1> DEFINE q == DayOf(a)
<1>1. Day \in Nat \ {0} /\ q \in Int /\ Day * q <= a /\ a < Day * q + Day
  BY DayBounds
<1> HIDE DEF q
<1>2. ~(q <= k - 1)
  <2>1. SUFFICES ASSUME q <= k - 1 PROVE FALSE
    OBVIOUS
  <2>2. Day * (k - 1 - q) >= 0
    BY <1>1, <2>1
  <2>3. QED
    BY <1>1, <2>2
<1>3. ~(k <= q - 1)
  <2>1. SUFFICES ASSUME k <= q - 1 PROVE FALSE
    OBVIOUS
  <2>2. Day * (q - 1 - k) >= 0
    BY <1>1, <2>1
  <2>3. QED
    BY <1>1, <2>2
<1>4. q = k
  BY <1>1, <1>2, <1>3
<1>5. QED
  BY <1>4 DEF q

\* Days follow the instants.
LEMMA DaysInOrder ==
  ASSUME NEW a \in Int, NEW b \in Int, a <= b
  PROVE  DayOf(a) <= DayOf(b)
<1>1. DayOf(a) \in Int /\ DayOf(b) \in Int /\ Day \in Nat \ {0}
      /\ Day * DayOf(a) <= a /\ b < Day * DayOf(b) + Day
  BY DayBounds
<1>2. SUFFICES ASSUME DayOf(b) + 1 <= DayOf(a) PROVE FALSE
  BY <1>1
<1>3. Day * (DayOf(a) - DayOf(b) - 1) >= 0
  BY <1>1, <1>2
<1>4. QED
  BY <1>1, <1>3

\* A day begins where Day divides the instant, and only there.
LEMMA NextDay ==
  ASSUME NEW a \in Int
  PROVE  DayOf(a + 1) = IF (a + 1) % Day = 0 THEN DayOf(a) + 1 ELSE DayOf(a)
<1> DEFINE q == DayOf(a)
           r == a % Day
<1>1. Day \in Nat \ {0} /\ q \in Int /\ r \in 0..(Day - 1) /\ a = Day * q + r
  BY DayParts, ExportAssumption
<1>2. CASE r = Day - 1
  <2>1. a + 1 = Day * (q + 1)
    <3> HIDE DEF q, r
    <3>1. Day * (q + 1) = Day * q + Day /\ Day * q \in Int
      BY <1>1
    <3>2. QED
      BY <1>1, <1>2, <3>1
  <2>2. DayOf(a + 1) = q + 1
    BY <1>1, <2>1, DayIs
  <2>3. (a + 1) % Day = 0
    BY <1>1, <2>1, <2>2, DayParts
  <2>4. QED
    BY <2>2, <2>3
<1>3. CASE r < Day - 1
  <2>1. DayOf(a + 1) = q
    BY <1>1, <1>3, DayIs
  <2>2. a + 1 = Day * q + ((a + 1) % Day) /\ (a + 1) % Day \in Int
    BY <1>1, <2>1, DayParts
  <2>3. (a + 1) % Day = r + 1
    <3> HIDE DEF q, r
    <3>1. QED
      BY <1>1, <2>2
  <2>4. QED
    BY <1>1, <2>1, <2>3
<1>4. QED
  BY <1>1, <1>2, <1>3

\* What is past retention lies that many days back.
LEMMA RetentionDays ==
  ASSUME NEW a \in Int, NEW b \in Int, a < b - Retention * Day
  PROVE  DayOf(b) >= DayOf(a) + Retention
<1>1. Day \in Nat \ {0} /\ Retention \in Nat \ {0} /\ DayOf(a) \in Int /\ DayOf(b) \in Int
      /\ Day * DayOf(a) <= a /\ b < Day * DayOf(b) + Day
  BY DayBounds, ExportAssumption
<1>2. Day * (DayOf(a) + Retention) < Day * DayOf(b) + Day
  BY <1>1
<1>3. SUFFICES ASSUME DayOf(b) + 1 <= DayOf(a) + Retention PROVE FALSE
  BY <1>1
<1>4. Day * (DayOf(a) + Retention - DayOf(b) - 1) >= 0
  BY <1>1, <1>3
<1>5. QED
  BY <1>1, <1>2, <1>4

\* The ticks begun after an entry was stamped that have ended, today's excepted.
Unfinished == IF tickDue \/ export.stage # "none" THEN 1 ELSE 0
Chances(e) == DayOf(now) - DayOf(written[e]) - Unfinished

TicksCounted ==
  /\ missed \in [Destinations -> Nat] /\ tickDue \in BOOLEAN
  /\ export.stage = "none" => export.served = {}

\* A tick reads the log on the day it is for.
ReadToday == Holding => lastRead # Never /\ DayOf(lastRead) = DayOf(now)

\* Whom the tick has served has everything of the days before.
ServedHaveAll ==
  \A d \in export.served, e \in Live :
    DayOf(written[e]) < DayOf(now) => e \in shipped[d]

\* What a destination lacks, it missed at every tick since.
LacksWhatItMissed ==
  \A d \in Destinations, e \in Live : e \in shipped[d] \/ missed[d] >= Chances(e)

MissInv == TicksCounted /\ ReadToday /\ ServedHaveAll /\ LacksWhatItMissed /\ NothingLostUnmissed

LEMMA MissInit == ExportInit => MissInv
BY DEF ExportInit, NoTick, MissInv, TicksCounted, ReadToday, ServedHaveAll, LacksWhatItMissed,
       NothingLostUnmissed, Live, InFlight, Holding

\* A step of one tick's day that takes nothing from a destination.
LEMMA SameDay ==
  ASSUME MissInv, DayOf(now') = DayOf(now), Unfinished' = Unfinished,
         UNCHANGED <<written, rotated, missed>>, tickDue' \in BOOLEAN, Live' = Live,
         \A d \in Destinations : shipped[d] \subseteq shipped'[d],
         export'.stage = "none" => export'.served = {},
         ReadToday', ServedHaveAll'
  PROVE  MissInv'
<1>1. \A e : Chances(e)' = Chances(e)
  BY DEF Chances
<1>2. LacksWhatItMissed'
  BY <1>1 DEF MissInv, LacksWhatItMissed
<1>3. NothingLostUnmissed'
  BY DEF MissInv, NothingLostUnmissed
<1>4. QED
  BY <1>2, <1>3 DEF MissInv, TicksCounted

LEMMA StampMisses == ASSUME LogInv, MissInv, NEW e \in Entries, Stamp(e) PROVE MissInv'
<1>1. /\ written' = [written EXCEPT ![e] = now] /\ now \in Int
      /\ UNCHANGED <<now, tickDue, lastRead, table, rotated, shipped, missed, export>>
  BY DEF Stamp, timeVars, history, LogInv, LogTypes
<1>2. Live' \subseteq Live \cup {e} /\ written'[e] = now
      /\ \A f \in Live : f # e => written'[f] = written[f]
  BY <1>1 DEF Live, InFlight, LogInv, LogTypes
<1>3. DayOf(now) \in Int /\ Unfinished \in {0, 1} /\ Unfinished' = Unfinished
  BY <1>1, DayParts DEF Unfinished
<1>4. LacksWhatItMissed'
  <2>1. \A d \in Destinations : missed[d] \in Nat
    BY DEF MissInv, TicksCounted
  <2>2. Chances(e)' <= 0
    BY <1>1, <1>2, <1>3 DEF Chances
  <2>3. \A f \in Live : f # e => Chances(f)' = Chances(f)
    BY <1>1, <1>2, <1>3 DEF Chances
  <2>4. Chances(e)' \in Int
    BY <1>1, <1>2, <1>3 DEF Chances
  <2>5. QED
    BY <1>1, <1>2, <2>1, <2>2, <2>3, <2>4 DEF MissInv, LacksWhatItMissed
<1>5. ServedHaveAll'
  BY <1>1, <1>2, <1>3 DEF MissInv, ServedHaveAll
<1>6. TicksCounted' /\ ReadToday' /\ NothingLostUnmissed'
  BY <1>1 DEF MissInv, TicksCounted, ReadToday, Holding, NothingLostUnmissed
<1>7. QED
  BY <1>4, <1>5, <1>6 DEF MissInv

LEMMA ReadMisses ==
  ASSUME SettledReads, LogInv, MissInv, NEW d \in Destinations, ReadNew(d)
  PROVE  MissInv'
<1>1. /\ export.stage = "next" /\ InFlight = {} /\ lastRead' = now /\ now \in Int /\ now # Never
      /\ UNCHANGED <<now, tickDue, written, table, rotated, shipped, missed, cursor>>
  BY ExportAssumption DEF ReadNew, logVars, destVars, history, LogInv, LogTypes
<1>2. \/ export' = [export EXCEPT !.stage = "ship", !.at = d, !.batch = NewEntries(d)]
      \/ NewEntries(d) = {} /\ export' = Served(d)
      \/ export' = Skipped(d)
  BY DEF ReadNew
<1>3. /\ export'.stage \in {"ship", "next"}
      /\ export'.served = export.served \/ (NewEntries(d) = {} /\ export'.served = export.served \cup {d})
  BY <1>2 DEF Served, Skipped, LogInv, LogTypes, Ticks
<1>4. Live' = Live /\ Live = table
  BY <1>1 DEF Live, InFlight
<1>5. NewEntries(d) = {} => \A e \in Live : e \in shipped[d]
  <2> SUFFICES ASSUME NewEntries(d) = {}, NEW e \in Live PROVE e \in shipped[d]
    OBVIOUS
  <2>1. cursor[d] # Never /\ ~(written[e] > cursor[d])
    BY <1>4 DEF NewEntries
  <2>2. written[e] \in Int /\ cursor[d] \in Int
    BY <2>1, LiveIsStamped DEF LogInv, LogTypes
  <2>3. written[e] <= cursor[d]
    BY <2>1, <2>2
  <2>4. QED
    BY <2>1, <2>3 DEF LogInv, NothingSkipped, Live
<1>6. ServedHaveAll'
  BY <1>1, <1>3, <1>4, <1>5 DEF MissInv, ServedHaveAll
<1>7. ReadToday'
  BY <1>1 DEF ReadToday
<1>8. Unfinished' = Unfinished /\ tickDue \in BOOLEAN
  BY <1>1, <1>3 DEF Unfinished, MissInv, TicksCounted
<1>9. QED
  BY <1>1, <1>3, <1>4, <1>6, <1>7, <1>8, SameDay

LEMMA ShipMisses ==
  ASSUME LogInv, MissInv, NEW d \in Destinations, Ship(d)
  PROVE  MissInv'
<1>1. /\ export.stage = "ship"
      /\ UNCHANGED <<now, tickDue, lastRead, written, table, rotated, missed>>
  BY DEF Ship, logVars, timeVars
<1>2. export'.stage \in {"shipped", "next"} /\ export'.served = export.served
  BY DEF Ship, Skipped, Served, LogInv, LogTypes, Ticks
<1>3. \A c \in Destinations : shipped[c] \subseteq shipped'[c]
  BY DEF Ship, LogInv, LogTypes
<1>4. Live' = Live
  BY <1>1 DEF Live, InFlight
<1>5. ServedHaveAll'
  <2>1. export.served \subseteq Destinations
    BY DEF LogInv, LogTypes, Ticks
  <2>2. QED
    BY <1>1, <1>2, <1>3, <1>4, <2>1 DEF MissInv, ServedHaveAll
<1>6. ReadToday'
  BY <1>1 DEF MissInv, ReadToday, Holding
<1>7. Unfinished' = Unfinished /\ tickDue' \in BOOLEAN
  BY <1>1, <1>2 DEF Unfinished, MissInv, TicksCounted
<1>8. QED
  BY <1>1, <1>2, <1>3, <1>4, <1>5, <1>6, <1>7, SameDay

LEMMA MoveMisses ==
  ASSUME LogInv, MissInv, NEW d \in Destinations, MoveCursor(d)
  PROVE  MissInv'
<1>1. /\ export.stage = "shipped" /\ export.at = d
      /\ UNCHANGED <<now, tickDue, lastRead, written, table, rotated, shipped, missed>>
  BY DEF MoveCursor, logVars, timeVars, history
<1>2. export' \in {Served(d), Skipped(d)}
  BY DEF MoveCursor
<1>3. export'.stage = "next" /\ export'.served \subseteq export.served \cup {d}
  BY <1>2 DEF Served, Skipped, LogInv, LogTypes, Ticks
<1>4. Live' = Live
  BY <1>1 DEF Live, InFlight
<1>5. \A e \in Live : DayOf(written[e]) < DayOf(now) => e \in shipped[d]
  <2> SUFFICES ASSUME NEW e \in Live, DayOf(written[e]) < DayOf(now) PROVE e \in shipped[d]
    OBVIOUS
  <2>1. lastRead # Never /\ DayOf(lastRead) = DayOf(now)
    BY <1>1 DEF MissInv, ReadToday, Holding
  <2>2. written[e] \in Int /\ lastRead \in Int
    BY <2>1, LiveIsStamped DEF LogInv, LogTypes
  <2>3. written[e] <= lastRead
    <3>1. SUFFICES ASSUME lastRead <= written[e] PROVE FALSE
      BY <2>2
    <3>2. DayOf(lastRead) <= DayOf(written[e])
      BY <2>2, <3>1, DaysInOrder
    <3>3. DayOf(lastRead) \in Int /\ DayOf(written[e]) \in Int
      BY <2>2, DayParts
    <3>4. QED
      BY <2>1, <3>2, <3>3
  <2>4. QED
    BY <1>1, <2>3 DEF LogInv, BatchIsWhole, ShippedIsShipped, Holding
<1>6. ServedHaveAll'
  BY <1>1, <1>3, <1>4, <1>5 DEF MissInv, ServedHaveAll
<1>7. ReadToday'
  BY <1>3 DEF ReadToday, Holding
<1>8. Unfinished' = Unfinished /\ tickDue' \in BOOLEAN
  BY <1>1, <1>3 DEF Unfinished, MissInv, TicksCounted
<1>9. QED
  BY <1>1, <1>3, <1>4, <1>6, <1>7, <1>8, SameDay

\* The tick ends: whom it has not served has missed one more, and the others
\* have everything of the days before.
LEMMA EndMisses ==
  ASSUME LogInv, MissInv, EndsTick, export.stage # "none"
  PROVE  MissInv'
<1>1. /\ export'.stage = "none" /\ export'.served = {}
      /\ missed' = [d \in Destinations |-> IF d \in export.served THEN missed[d] ELSE missed[d] + 1]
      /\ UNCHANGED <<now, tickDue, lastRead, written, table, rotated, shipped>>
  BY DEF EndsTick, NoTick, logVars, timeVars
<1>2. Live' = Live
  BY <1>1 DEF Live, InFlight
<1>3. \A d \in Destinations : missed[d] \in Nat /\ missed'[d] \in {missed[d], missed[d] + 1}
  BY <1>1 DEF MissInv, TicksCounted
<1>4. Unfinished = 1 /\ Unfinished' \in {0, 1}
  BY DEF Unfinished
<1>5. LacksWhatItMissed'
  <2> SUFFICES ASSUME NEW d \in Destinations, NEW e \in Live, e \notin shipped[d]
               PROVE  missed'[d] >= Chances(e)'
    BY <1>1, <1>2 DEF LacksWhatItMissed
  <2>1. DayOf(now) \in Int /\ DayOf(written[e]) \in Int
    BY LiveIsStamped, DayParts DEF LogInv, LogTypes
  <2>2. /\ Chances(e) = DayOf(now) - DayOf(written[e]) - 1
        /\ Chances(e)' = DayOf(now) - DayOf(written[e]) - Unfinished'
    BY <1>1, <1>4 DEF Chances
  <2>3. CASE d \in export.served
    <3>1. ~(DayOf(written[e]) < DayOf(now))
      BY <2>3 DEF MissInv, ServedHaveAll
    <3>2. QED
      BY <1>3, <1>4, <2>1, <2>2, <3>1
  <2>4. CASE d \notin export.served
    <3>1. missed'[d] = missed[d] + 1 /\ missed[d] >= Chances(e)
      BY <1>1, <2>4 DEF MissInv, LacksWhatItMissed
    <3>2. QED
      BY <1>3, <1>4, <2>1, <2>2, <3>1
  <2>5. QED
    BY <2>3, <2>4
<1>6. NothingLostUnmissed'
  <2>1. \A d \in Destinations : missed'[d] >= missed[d]
    BY <1>3
  <2>2. QED
    BY <1>1, <1>3, <2>1, ExportAssumption DEF MissInv, NothingLostUnmissed
<1>7. TicksCounted' /\ ReadToday' /\ ServedHaveAll'
  BY <1>1, <1>3 DEF MissInv, TicksCounted, ReadToday, Holding, ServedHaveAll
<1>8. QED
  BY <1>5, <1>6, <1>7 DEF MissInv

\* What the rotation takes has had all the chances of its retention but one.
LEMMA RotateMisses ==
  ASSUME LogInv, MissInv, Rotate
  PROVE  MissInv'
<1> DEFINE old == {e \in table : PastRetention(e)}
<1>1. /\ table' = table \ old /\ rotated' = rotated \cup old
      /\ UNCHANGED <<now, tickDue, lastRead, written, shipped, missed, export>>
  BY DEF Rotate, timeVars, history
<1>2. Live' \subseteq Live
  BY <1>1 DEF Live, InFlight
<1>3. \A e : Chances(e)' = Chances(e)
  BY <1>1 DEF Chances, Unfinished
<1>4. NothingLostUnmissed'
  <2> SUFFICES ASSUME NEW d \in Destinations, NEW e \in old, e \notin shipped[d]
               PROVE  missed[d] >= Retention - 1
    BY <1>1 DEF MissInv, NothingLostUnmissed
  <2>1. e \in Live /\ written[e] \in Int /\ now \in Int /\ written[e] < now - Retention * Day
    BY LiveIsStamped DEF Live, PastRetention, LogInv, LogTypes
  <2>2. DayOf(now) >= DayOf(written[e]) + Retention
    BY <2>1, RetentionDays
  <2>3. missed[d] >= Chances(e) /\ missed[d] \in Nat
    BY <2>1 DEF MissInv, LacksWhatItMissed, TicksCounted
  <2>4. Unfinished \in {0, 1} /\ DayOf(now) \in Int /\ DayOf(written[e]) \in Int /\ Retention \in Nat
    BY <2>1, DayParts, ExportAssumption DEF Unfinished
  <2>5. QED
    BY <2>2, <2>3, <2>4 DEF Chances
<1>5. LacksWhatItMissed' /\ ServedHaveAll'
  BY <1>1, <1>2, <1>3 DEF MissInv, LacksWhatItMissed, ServedHaveAll
<1>6. TicksCounted' /\ ReadToday'
  BY <1>1 DEF MissInv, TicksCounted, ReadToday, Holding
<1>7. QED
  BY <1>4, <1>5, <1>6 DEF MissInv

\* A new day begins only when no tick is under way, and brings one.
LEMMA InstantMisses ==
  ASSUME LogInv, MissInv, InstantPasses
  PROVE  MissInv'
<1>1. /\ now \in Int /\ now' = now + 1 /\ ~tickDue /\ tickDue' = (now' % Day = 0)
      /\ tickDue' => export.stage = "none"
      /\ UNCHANGED <<lastRead, written, table, rotated, shipped, missed, export>>
  BY DEF InstantPasses, logVars, destVars, history, LogInv, LogTypes
<1>2. Live' = Live
  BY <1>1 DEF Live, InFlight
<1>3. CASE ~tickDue'
  <2>1. DayOf(now') = DayOf(now)
    BY <1>1, <1>3, NextDay
  <2>2. Unfinished' = Unfinished
    BY <1>1, <1>3 DEF Unfinished
  <2>3. ReadToday' /\ ServedHaveAll'
    BY <1>1, <1>2, <2>1 DEF MissInv, ReadToday, Holding, ServedHaveAll
  <2>4. QED
    BY <1>1, <1>2, <1>3, <2>1, <2>2, <2>3, SameDay DEF MissInv, TicksCounted
<1>4. CASE tickDue'
  <2>1. DayOf(now') = DayOf(now) + 1 /\ DayOf(now) \in Int
    BY <1>1, <1>4, NextDay, DayParts
  <2>2. Unfinished' = 1 /\ Unfinished = 0
    BY <1>1, <1>4 DEF Unfinished
  <2>3. \A e \in Live : Chances(e)' = Chances(e)
    <3> SUFFICES ASSUME NEW e \in Live PROVE Chances(e)' = Chances(e)
      OBVIOUS
    <3>1. DayOf(written[e]) \in Int /\ written' = written
      BY <1>1, LiveIsStamped, DayParts DEF LogInv
    <3>2. QED
      BY <2>1, <2>2, <3>1 DEF Chances
  <2>4. LacksWhatItMissed' /\ NothingLostUnmissed'
    BY <1>1, <1>2, <2>3 DEF MissInv, LacksWhatItMissed, NothingLostUnmissed
  <2>5. TicksCounted' /\ ReadToday' /\ ServedHaveAll'
    BY <1>1, <1>4 DEF MissInv, TicksCounted, ReadToday, Holding, ServedHaveAll
  <2>6. QED
    BY <2>4, <2>5 DEF MissInv
<1>5. QED
  BY <1>3, <1>4

LEMMA MissStep ==
  ASSUME SettledReads, LogInv, MissInv, [ExportNext]_exportVars
  PROVE  MissInv'
<1>1. ASSUME UNCHANGED <<timeVars, written, rotated, history, export>>, Live' = Live PROVE MissInv'
  BY <1>1 DEF MissInv, TicksCounted, ReadToday, ServedHaveAll, LacksWhatItMissed, NothingLostUnmissed,
              Holding, Chances, Unfinished, timeVars, history
<1>2. ASSUME NEW e \in Entries, StoreEntry(e) PROVE MissInv'
  BY <1>1, <1>2 DEF StoreEntry, Live, InFlight
<1>3. ASSUME NEW d \in Destinations, SwitchDestination(d) PROVE MissInv'
  BY <1>1, <1>3 DEF SwitchDestination, Live, InFlight, logVars
<1>4. CASE UNCHANGED exportVars
  BY <1>1, <1>4 DEF exportVars, Live, InFlight, logVars
<1>5. CASE ExportBegins
  <2>1. /\ tickDue /\ ~tickDue' /\ tickDue' \in BOOLEAN /\ export'.stage = "next" /\ export'.served = {}
        /\ UNCHANGED <<now, lastRead, written, table, rotated, shipped, missed>>
    BY <1>5 DEF ExportBegins, NoTick, logVars, history
  <2>2. Unfinished' = Unfinished /\ Live' = Live
    BY <2>1 DEF Unfinished, Live, InFlight
  <2>3. ReadToday' /\ ServedHaveAll'
    BY <2>1 DEF ReadToday, Holding, ServedHaveAll
  <2>4. QED
    BY <2>1, <2>2, <2>3, SameDay
<1>6. CASE ExportEnds \/ ExportDies
  BY <1>6, EndMisses DEF ExportEnds, ExportDies
<1>7. QED
  BY <1>2, <1>3, <1>4, <1>5, <1>6, StampMisses, ReadMisses, ShipMisses, MoveMisses, RotateMisses, InstantMisses
     DEF ExportNext

\* rotateAuditLogsForAllWorkspaces: an entry that a destination never got is
\* deleted only after the ticks of all the days of its retention but one failed
\* to serve that destination, whatever failed, died or was switched in between.
THEOREM NothingIsLostUnmissed == SettledReads => (ExportSpec => []NothingLostUnmissed)
<1> SUFFICES ASSUME SettledReads PROVE ExportSpec => []NothingLostUnmissed
  OBVIOUS
<1>1. LogSettled
  BY ExportAssumption DEF LogSettled
<1>2. ExportInit => LogInv /\ MissInv
  BY <1>1, LogInit, MissInit DEF LogSettled
<1>3. LogInv /\ MissInv /\ [ExportNext]_exportVars => (LogInv /\ MissInv)'
  BY <1>1, LogStep, MissStep
<1>4. MissInv => NothingLostUnmissed
  BY DEF MissInv
<1>5. QED
  BY <1>2, <1>3, <1>4, PTL DEF ExportSpec

---------------------------------------------------------------------------
(* The session of a browser *)

SessionTypes ==
  /\ place \in [Pages -> {"out", "awake", "asleep"}]
  /\ setting \in [Pages -> Limits \cup {Unknown}]
  /\ timer \in [Pages -> Nat] /\ unattended \in [Pages -> Nat] /\ rearmed \in Nat
  /\ stamp \in Nat \cup {NoStamp}
  /\ configured \in Limits \cup {Unknown} /\ checked \subseteq Pages

\* The stamp was left by a page that was used, or told its setting.
StampIsSomeones ==
  stamp # NoStamp => rearmed <= stamp \/ \E q \in Pages : unattended[q] <= stamp

\* A check that lets a page stay holds until time passes.
ChecksHold == \A p \in checked : Awake(p) /\ stamp # NoStamp => stamp < Limit(p)

IdleInv == SessionTypes /\ StampIsSomeones /\ ChecksHold

\* Neither the stamp nor the timer of a page is ahead of its use.
Keeps(p) ==
  /\ stamp # NoStamp => stamp <= unattended[p]
  /\ SignedIn(p) => Limit(p) <= timer[p] + unattended[p]

UseInv == SessionTypes /\ \A p \in Pages : Keeps(p)

LEMMA LimitsAreBounded ==
  /\ Limits \subseteq Nat \ {0} /\ Default \in Nat \ {0} /\ Longest \in Nat
  /\ \A k \in Limits \cup {Default} : k <= Longest
  /\ NoStamp \notin Nat /\ Unknown \notin Nat
<1>1. Longest \in Limits \cup {Default} /\ \A k \in Limits \cup {Default} : k <= Longest
  BY SessionAssumption DEF SessionAssumption, Longest
<1>2. QED
  BY <1>1, SessionAssumption DEF SessionAssumption

LEMMA LimitIsTyped ==
  ASSUME SessionTypes, NEW p \in Pages
  PROVE  Limit(p) \in Nat \ {0} /\ Limit(p) <= Longest /\ Elapsed \in Nat
BY LimitsAreBounded DEF SessionTypes, Limit, Elapsed

---------------------------------------------------------------------------
(* Steps in groups, by what they do to stamp, timer and history *)

\* Page p signs out; whoever did it.
LEMMA LogoutKeeps ==
  ASSUME NEW p \in Pages, NEW age \in Nat, Logout(p), UNCHANGED rearmed,
         unattended' = [unattended EXCEPT ![p] = age] \/ UNCHANGED unattended
  PROVE  /\ IdleInv => IdleInv'
         /\ UseInv => UseInv'
<1>1. SessionTypes => SessionTypes'
  BY LimitsAreBounded DEF SessionTypes, Logout, Forgets
<1>2. IdleInv => IdleInv'
  BY <1>1 DEF IdleInv, StampIsSomeones, ChecksHold, Logout
<1>3. ASSUME UseInv PROVE UseInv'
  <2>1. stamp' = NoStamp
    BY DEF Logout
  <2>2. ASSUME NEW q \in Pages PROVE Keeps(q)'
    <3>1. CASE q = p
      BY <2>1, <3>1, <1>3 DEF Logout, Keeps, SignedIn, UseInv, SessionTypes
    <3>2. CASE q # p
      <4>1. /\ place'[q] = place[q] /\ setting'[q] = setting[q] /\ timer'[q] = timer[q]
            /\ unattended'[q] = unattended[q]
        BY <1>3, <3>2 DEF Logout, Forgets, UseInv, SessionTypes
      <4>2. QED
        BY <1>3, <2>1, <4>1 DEF UseInv, Keeps, SignedIn, Limit
    <3>3. QED
      BY <3>1, <3>2
  <2>3. QED
    BY <1>1, <1>3, <2>2 DEF UseInv
<1>4. QED
  BY <1>2, <1>3

\* Page p is used, or gets another limit.
LEMMA UseKeeps ==
  ASSUME NEW p \in Pages, ResetIdleTimer(p, Limit(p)'),
         UNCHANGED <<place, checked>>, configured' \in Limits \cup {Unknown},
         setting' \in [Pages -> Limits \cup {Unknown}],
         \A q \in Pages \ {p} : setting'[q] = setting[q],
         Attended(p) \/ (rearmed' = 0 /\ UNCHANGED unattended)
  PROVE  /\ IdleInv => IdleInv'
         /\ UseInv => UseInv'
<1>1. ASSUME SessionTypes PROVE SessionTypes' /\ stamp' = 0 /\ timer'[p] = Limit(p)'
  <2>1. Limit(p)' \in Nat
    BY LimitsAreBounded DEF Limit
  <2>2. QED
    BY <1>1, <2>1, LimitsAreBounded DEF SessionTypes, ResetIdleTimer, Attended
<1>2. ASSUME IdleInv PROVE IdleInv'
  <2>1. SessionTypes /\ SessionTypes' /\ stamp' = 0
    BY <1>1, <1>2 DEF IdleInv
  <2>2. rearmed' = 0 \/ unattended'[p] = 0
    BY <2>1 DEF Attended, SessionTypes
  <2>3. \A q \in Pages : Limit(q)' \in Nat \ {0}
    BY <2>1, LimitsAreBounded DEF SessionTypes, Limit
  <2>4. ChecksHold'
    BY <2>1, <2>3 DEF ChecksHold, SessionTypes
  <2>5. QED
    BY <2>1, <2>2, <2>4 DEF IdleInv, StampIsSomeones
<1>3. ASSUME UseInv PROVE UseInv'
  <2>1. SessionTypes /\ SessionTypes' /\ stamp' = 0 /\ timer'[p] = Limit(p)'
    BY <1>1, <1>3 DEF UseInv
  <2>2. ASSUME NEW q \in Pages PROVE Keeps(q)'
    <3>1. Limit(q)' \in Nat /\ unattended'[q] \in Nat
      BY <2>1, LimitsAreBounded DEF SessionTypes, Limit
    <3>2. CASE q = p
      BY <2>1, <3>1, <3>2 DEF Keeps
    <3>3. CASE q # p
      <4>1. /\ place'[q] = place[q] /\ setting'[q] = setting[q] /\ timer'[q] = timer[q]
            /\ unattended'[q] = unattended[q]
        BY <2>1, <3>3 DEF ResetIdleTimer, Attended, SessionTypes
      <4>2. QED
        BY <1>3, <2>1, <3>1, <4>1 DEF UseInv, Keeps, SignedIn, Limit
    <3>4. QED
      BY <3>2, <3>3
  <2>3. QED
    BY <2>1, <2>2 DEF UseInv
<1>4. QED
  BY <1>2, <1>3

\* Page p is loaded, or was visible again or checked, and stays: its timer gets
\* what is left of its limit.
LEMMA StayKeeps ==
  ASSUME NEW p \in Pages, NEW limit \in Limits \cup {Default}, Elapsed < limit, Resync(p, limit),
         place' = [place EXCEPT ![p] = "awake"],
         checked' = checked \ {p} \/ checked' = checked \cup {p},
         UNCHANGED <<stamp, configured, rearmed>>,
         \/ setting' = setting /\ limit = Limit(p) /\ SignedIn(p)
         \/ setting' = [setting EXCEPT ![p] = Unknown] /\ limit = Default,
         unattended' = [unattended EXCEPT ![p] = Elapsed] \/ UNCHANGED unattended
  PROVE  /\ IdleInv => IdleInv'
         /\ UseInv => UseInv'
<1>1. ASSUME SessionTypes PROVE SessionTypes' /\ Limit(p)' = limit /\ Elapsed \in Nat /\ limit \in Nat \ {0}
  <2>1. Elapsed \in Nat /\ limit \in Nat \ {0}
    BY <1>1, LimitIsTyped, LimitsAreBounded
  <2>2. limit - Elapsed \in Nat
    BY <2>1
  <2>3. SessionTypes'
    BY <1>1, <2>1, <2>2 DEF SessionTypes, Resync
  <2>4. Limit(p)' = limit
    BY <1>1, LimitsAreBounded DEF Limit, SessionTypes
  <2>5. QED
    BY <2>1, <2>3, <2>4
<1>2. ASSUME IdleInv PROVE IdleInv'
  <2>1. SessionTypes /\ SessionTypes' /\ Limit(p)' = limit
    BY <1>1, <1>2 DEF IdleInv
  <2>2. ASSUME NEW q \in checked', Awake(q)', stamp' # NoStamp PROVE stamp' < Limit(q)'
    <3>1. CASE q = p
      BY <2>1, <2>2, <3>1 DEF Elapsed
    <3>2. CASE q # p
      <4>1. q \in Pages /\ q \in checked /\ place'[q] = place[q] /\ setting'[q] = setting[q]
        BY <2>1, <2>2, <3>2 DEF SessionTypes
      <4>2. QED
        BY <1>2, <2>2, <4>1 DEF IdleInv, ChecksHold, Awake, Limit
    <3>3. QED
      BY <3>1, <3>2
  <2>3. StampIsSomeones'
    <3>1. ASSUME stamp # NoStamp, rearmed > stamp PROVE \E q \in Pages : unattended'[q] <= stamp
      <4>1. stamp \in Nat /\ rearmed \in Nat
        BY <2>1, <3>1 DEF SessionTypes
      <4>2. PICK q \in Pages : unattended[q] <= stamp
        BY <1>2, <3>1, <4>1 DEF IdleInv, StampIsSomeones
      <4>3. unattended'[q] \in {stamp, unattended[q]}
        BY <2>1, <3>1 DEF SessionTypes, Elapsed
      <4>4. QED
        BY <4>1, <4>2, <4>3
    <3>2. QED
      BY <2>1, <3>1 DEF StampIsSomeones, SessionTypes
  <2>4. QED
    BY <2>1, <2>2, <2>3 DEF IdleInv, ChecksHold
<1>3. ASSUME UseInv PROVE UseInv'
  <2>1. SessionTypes /\ SessionTypes' /\ Limit(p)' = limit /\ Elapsed \in Nat /\ limit \in Nat \ {0}
    BY <1>1, <1>3 DEF UseInv
  <2>2. ASSUME NEW q \in Pages PROVE Keeps(q)'
    <3>1. CASE q = p
      <4>1. timer'[p] = limit - Elapsed
        BY <2>1 DEF Resync, SessionTypes
      <4>2. Elapsed <= unattended'[p] /\ unattended'[p] \in Nat
        BY <1>3, <2>1 DEF UseInv, Keeps, SessionTypes, Elapsed
      <4>3. stamp' # NoStamp => stamp' <= unattended'[p]
        BY <4>2 DEF Elapsed
      <4>4. Limit(p)' <= timer'[p] + unattended'[p]
        BY <2>1, <4>1, <4>2
      <4>5. QED
        BY <3>1, <4>3, <4>4 DEF Keeps
    <3>2. CASE q # p
      <4>1. /\ place'[q] = place[q] /\ setting'[q] = setting[q] /\ timer'[q] = timer[q]
            /\ unattended'[q] = unattended[q]
        BY <2>1, <3>2 DEF Resync, SessionTypes
      <4>2. QED
        BY <1>3, <4>1 DEF UseInv, Keeps, SignedIn, Limit
    <3>3. QED
      BY <3>1, <3>2
  <2>3. QED
    BY <2>1, <2>2 DEF UseInv
<1>4. QED
  BY <1>2, <1>3

\* A step that touches neither stamp, timers nor history, and makes no page busier.
LEMMA RestKeeps ==
  ASSUME UNCHANGED <<stamp, historyVars>>, SessionTypes',
         checked' \subseteq checked,
         \A p \in Pages : /\ Awake(p)' => Awake(p)
                          /\ SignedIn(p)' => /\ SignedIn(p) /\ timer'[p] = timer[p]
                                             /\ setting'[p] = setting[p]
  PROVE  /\ IdleInv => IdleInv'
         /\ UseInv => UseInv'
<1>1. ASSUME IdleInv PROVE IdleInv'
  <2>1. ASSUME NEW p \in Pages, Awake(p)' PROVE Awake(p) /\ Limit(p)' = Limit(p)
    <3>1. SignedIn(p)'
      BY <2>1 DEF Awake, SignedIn
    <3>2. QED
      BY <2>1, <3>1 DEF Limit
  <2>2. ChecksHold'
    BY <1>1, <2>1 DEF IdleInv, SessionTypes, ChecksHold
  <2>3. QED
    BY <1>1, <2>2 DEF IdleInv, StampIsSomeones, historyVars
<1>2. UseInv => UseInv'
  BY DEF UseInv, Keeps, Limit, historyVars
<1>3. QED
  BY <1>1, <1>2

LEMMA OlderIsLater ==
  /\ Older(NoStamp) = NoStamp
  /\ \A a \in Nat : Older(a) \in Nat /\ (Older(a) = a + 1 \/ Older(a) = Longest)
  /\ \A a, b \in Nat : a <= b => Older(a) <= Older(b)
BY LimitsAreBounded DEF Older

LEMMA TimeKeeps ==
  ASSUME TimePasses
  PROVE  /\ IdleInv => IdleInv'
         /\ UseInv => UseInv'
<1>1. ASSUME SessionTypes PROVE SessionTypes'
  <2>1. stamp' \in Nat \cup {NoStamp} /\ rearmed' \in Nat
    BY <1>1, OlderIsLater DEF TimePasses, SessionTypes
  <2>2. unattended' \in [Pages -> Nat]
    BY <1>1, OlderIsLater DEF TimePasses, SessionTypes
  <2>3. timer' \in [Pages -> Nat]
    BY <1>1 DEF TimePasses, SessionTypes, Less
  <2>4. QED
    BY <1>1, <2>1, <2>2, <2>3 DEF TimePasses, SessionTypes
<1>2. ASSUME IdleInv PROVE IdleInv'
  <2>1. SessionTypes /\ SessionTypes' /\ ChecksHold'
    BY <1>1, <1>2 DEF IdleInv, TimePasses, ChecksHold
  <2>2. ASSUME stamp' # NoStamp
        PROVE  rearmed' <= stamp' \/ \E q \in Pages : unattended'[q] <= stamp'
    <3>1. stamp \in Nat /\ stamp' = Older(stamp) /\ rearmed \in Nat /\ rearmed' = Older(rearmed)
      BY <2>1, <2>2, OlderIsLater DEF TimePasses, SessionTypes
    <3>2. CASE rearmed <= stamp
      BY <3>1, <3>2, OlderIsLater
    <3>3. CASE \E q \in Pages : unattended[q] <= stamp
      <4>1. PICK q \in Pages : unattended[q] <= stamp
        BY <3>3
      <4>2. unattended'[q] = Older(unattended[q]) /\ unattended[q] \in Nat
        BY <2>1 DEF TimePasses, SessionTypes
      <4>3. unattended'[q] <= stamp'
        BY <3>1, <4>1, <4>2, OlderIsLater
      <4>4. QED
        BY <4>3
    <3>4. QED
      BY <1>2, <3>1, <3>2, <3>3, LimitsAreBounded DEF IdleInv, StampIsSomeones
  <2>3. QED
    BY <2>1, <2>2 DEF IdleInv, StampIsSomeones
<1>3. ASSUME UseInv PROVE UseInv'
  <2>1. SessionTypes /\ SessionTypes' /\ UNCHANGED <<place, setting>>
    BY <1>1, <1>3 DEF UseInv, TimePasses
  <2>2. ASSUME NEW p \in Pages PROVE Keeps(p)'
    <3>1. Keeps(p)
      BY <1>3 DEF UseInv
    <3>2. /\ unattended'[p] = Older(unattended[p]) /\ unattended[p] \in Nat
          /\ timer'[p] = Less(timer[p]) /\ timer[p] \in Nat
          /\ stamp' = Older(stamp)
      BY <2>1 DEF TimePasses, SessionTypes
    <3>3. stamp' # NoStamp => stamp' <= unattended'[p]
      BY <2>1, <3>1, <3>2, OlderIsLater DEF Keeps, SessionTypes
    <3>4. ASSUME SignedIn(p) PROVE Limit(p) <= timer'[p] + unattended'[p]
      <4>1. Limit(p) <= timer[p] + unattended[p] /\ Limit(p) \in Nat /\ Limit(p) <= Longest
        BY <2>1, <3>1, <3>4, LimitIsTyped DEF Keeps
      <4>2. timer'[p] \in Nat /\ timer[p] <= timer'[p] + 1
        BY <3>2 DEF Less
      <4>3. QED
        BY <3>2, <4>1, <4>2, OlderIsLater, LimitsAreBounded
    <3>5. QED
      BY <2>1, <3>3, <3>4 DEF Keeps, SignedIn, Limit
  <2>3. QED
    BY <2>1, <2>2 DEF UseInv
<1>4. QED
  BY <1>2, <1>3

---------------------------------------------------------------------------

LEMMA InitKeeps == SessionInit => IdleInv /\ UseInv
<1> SUFFICES ASSUME SessionInit PROVE IdleInv /\ UseInv
  OBVIOUS
<1>1. SessionTypes
  BY LimitsAreBounded DEF SessionInit, SessionTypes
<1>2. QED
  BY <1>1 DEF SessionInit, IdleInv, UseInv, StampIsSomeones, ChecksHold, Keeps, SignedIn

LEMMA PageKeeps ==
  ASSUME SessionTypes, NEW p \in Pages, PageStep(p)
  PROVE  /\ IdleInv => IdleInv'
         /\ UseInv => UseInv'
<1> DEFINE Kept == (IdleInv => IdleInv') /\ (UseInv => UseInv')
<1>0. Limit(p) \in Limits \cup {Default} /\ Elapsed \in Nat
  BY LimitIsTyped DEF SessionTypes, Limit
<1>1. CASE Activity(p)
  <2>1. Limit(p)' = Limit(p) /\ ResetIdleTimer(p, Limit(p)')
    BY <1>1 DEF Activity, Limit
  <2>2. /\ configured' \in Limits \cup {Unknown} /\ UNCHANGED <<place, setting, checked>>
        /\ setting' \in [Pages -> Limits \cup {Unknown}] /\ Attended(p)
    BY <1>1 DEF Activity, SessionTypes
  <2>3. QED
    BY <2>1, <2>2, UseKeeps
<1>2. CASE TimerFires(p) \/ SignOut(p) \/ RenewalFails(p)
  BY <1>2, LogoutKeeps DEF TimerFires, SignOut, RenewalFails, Attended, historyVars
<1>3. CASE Check(p) \/ Resume(p)
  <2>1. CASE Logout(p)
    BY <1>3, <2>1, LogoutKeeps DEF Check, Resume, historyVars
  <2>2. CASE ~Logout(p)
    <3>1. /\ Elapsed < Limit(p) /\ Resync(p, Limit(p)) /\ SignedIn(p)
          /\ checked' = checked \cup {p} \/ checked' = checked \ {p}
          /\ UNCHANGED <<setting, stamp, configured, unattended, rearmed>>
      BY <1>3, <2>2 DEF Check, Resume, Awake, SignedIn, historyVars
    <3>2. place' = [place EXCEPT ![p] = "awake"]
      BY <1>3, <2>2 DEF Check, Resume, SessionTypes, Awake
    <3>3. QED
      BY <1>0, <3>1, <3>2, StayKeeps
  <2>3. QED
    BY <2>1, <2>2
<1>4. CASE Load(p) \/ SignIn(p)
  <2>1. PICK token : Mount(p, token)
    BY <1>4 DEF Load, SignIn
  <2>2. /\ UNCHANGED rearmed
        /\ unattended' = [unattended EXCEPT ![p] = Elapsed] \/ UNCHANGED unattended
    BY <1>4 DEF Load, SignIn, historyVars
  <2>3. CASE Logout(p)
    BY <1>0, <2>2, <2>3, LogoutKeeps
  <2>4. CASE ~Logout(p)
    <3>1. /\ Elapsed < Default /\ Resync(p, Default)
          /\ place' = [place EXCEPT ![p] = "awake"] /\ checked' = checked \ {p}
          /\ setting' = [setting EXCEPT ![p] = Unknown]
          /\ UNCHANGED <<stamp, configured>>
      BY <2>1, <2>4 DEF Mount, Forgets
    <3>2. QED
      BY <2>2, <3>1, StayKeeps
  <2>5. QED
    BY <2>3, <2>4
<1>5. CASE Suspend(p)
  <2>1. SessionTypes'
    BY <1>5 DEF SessionTypes, Suspend, historyVars
  <2>2. \A q \in Pages : (Awake(q)' => Awake(q)) /\ (SignedIn(q)' => SignedIn(q))
    BY <1>5 DEF SessionTypes, Suspend, Awake, SignedIn
  <2>3. QED
    BY <1>5, <2>1, <2>2, RestKeeps DEF Suspend
<1>6. CASE LoadsLogin(p)
  <2>1. SessionTypes'
    BY <1>6 DEF SessionTypes, LoadsLogin, Forgets, historyVars
  <2>2. ~SignedIn(p)' /\ ~Awake(p)'
    BY <1>6 DEF SessionTypes, LoadsLogin, SignedIn, Awake
  <2>3. \A q \in Pages \ {p} : place'[q] = place[q] /\ setting'[q] = setting[q] /\ timer'[q] = timer[q]
    BY <1>6 DEF SessionTypes, LoadsLogin, Forgets
  <2>4. QED
    BY <1>6, <2>1, <2>2, <2>3, RestKeeps DEF LoadsLogin, Awake, SignedIn
<1>7. CASE SettingArrives(p)
  <2>1. CASE configured # setting[p] /\ ResetIdleTimer(p, Limit(p)') /\ rearmed' = 0
    <3>1. /\ UNCHANGED <<place, checked, configured, unattended>>
          /\ configured' \in Limits \cup {Unknown}
          /\ setting' \in [Pages -> Limits \cup {Unknown}]
          /\ \A q \in Pages \ {p} : setting'[q] = setting[q]
      BY <1>7 DEF SettingArrives, SessionTypes
    <3>2. QED
      BY <2>1, <3>1, UseKeeps
  <2>2. CASE configured = setting[p] /\ UNCHANGED <<timer, stamp, rearmed>>
    <3>1. setting' = setting /\ UNCHANGED <<place, checked, timer, stamp, configured, unattended, rearmed>>
      BY <1>7, <2>2 DEF SettingArrives, SessionTypes
    <3>2. SessionTypes'
      BY <3>1 DEF SessionTypes
    <3>3. QED
      BY <3>1, <3>2, RestKeeps DEF Awake, SignedIn, historyVars
  <2>3. QED
    BY <1>7, <2>1, <2>2 DEF SettingArrives
<1>8. ASSUME NEW m \in Limits, SaveSetting(p, m) PROVE Kept
  <2>1. Limit(p)' = m
    BY <1>8, LimitsAreBounded DEF SaveSetting, Limit, SessionTypes
  <2>2. ResetIdleTimer(p, Limit(p)')
    BY <1>8, <2>1 DEF SaveSetting, ResetIdleTimer
  <2>3. /\ configured' \in Limits \cup {Unknown}
        /\ setting' \in [Pages -> Limits \cup {Unknown}]
        /\ \A q \in Pages \ {p} : setting'[q] = setting[q]
        /\ Attended(p) /\ UNCHANGED <<place, checked>>
    BY <1>8 DEF SaveSetting, SessionTypes
  <2>4. QED
    BY <2>2, <2>3, UseKeeps
<1>9. CASE SettingFails(p) \/ Unauthorized(p) \/ RenewalSucceeds(p)
  <2>1. UNCHANGED <<place, setting, timer, checked, stamp, configured, historyVars>>
    BY <1>9 DEF SettingFails, Unauthorized, RenewalSucceeds
  <2>2. SessionTypes'
    BY <2>1 DEF SessionTypes, historyVars
  <2>3. QED
    BY <2>1, <2>2, RestKeeps DEF Awake, SignedIn
<1>10. QED
  BY <1>1, <1>2, <1>3, <1>4, <1>5, <1>6, <1>7, <1>8, <1>9 DEF PageStep

LEMMA StepKeeps ==
  ASSUME SessionTypes, [SessionNext]_sessionVars
  PROVE  /\ IdleInv => IdleInv'
         /\ UseInv => UseInv'
<1>1. CASE (\E m \in Limits : SavedElsewhere(m)) \/ UNCHANGED sessionVars
  <2>1. UNCHANGED <<place, setting, timer, checked, stamp, historyVars>>
    BY <1>1 DEF SavedElsewhere, pageVars, sessionVars
  <2>2. configured' \in Limits \cup {Unknown}
    BY <1>1 DEF SavedElsewhere, sessionVars, SessionTypes
  <2>3. SessionTypes'
    BY <2>1, <2>2 DEF SessionTypes, historyVars
  <2>4. QED
    BY <2>1, <2>3, RestKeeps DEF Awake, SignedIn
<1>2. QED
  BY <1>1, PageKeeps, TimeKeeps DEF SessionNext

\* useSessionGuards.ts: for any number of tabs, limits and token lifetimes, a tab
\* that has run its check and finds a stamp stays signed in only within its limit
\* after the last use or the last setting told to a tab.  A load that tells no other
\* setting (none is saved, or fetchState fails) never prolongs the window; one that
\* does starts it again.
THEOREM IdlePagesSignOut == SessionSpec => []IdlePageIsSignedOut
<1>1. IdleInv /\ [SessionNext]_sessionVars => IdleInv'
  BY StepKeeps DEF IdleInv
<1>2. IdleInv => IdlePageIsSignedOut
  <2> SUFFICES ASSUME IdleInv, stamp # NoStamp, NEW p \in Pages, Settled(p)
               PROVE  WindowOpen(Limit(p))
    BY DEF IdlePageIsSignedOut
  <2>1. stamp \in Nat /\ rearmed \in Nat /\ stamp < Limit(p) /\ Limit(p) \in Nat
    BY LimitIsTyped DEF IdleInv, SessionTypes, ChecksHold, Settled
  <2>2. CASE rearmed <= stamp
    BY <2>1, <2>2 DEF WindowOpen
  <2>3. CASE \E q \in Pages : unattended[q] <= stamp
    <3>1. PICK q \in Pages : unattended[q] <= stamp /\ unattended[q] \in Nat
      BY <2>3 DEF IdleInv, SessionTypes
    <3>2. QED
      BY <2>1, <3>1 DEF WindowOpen
  <2>4. QED
    BY <2>2, <2>3 DEF IdleInv, StampIsSomeones
<1>3. QED
  BY <1>1, <1>2, InitKeeps, PTL DEF SessionSpec

\* What is known of a page that is in use, when it ends.
LEMMA OutOfTime ==
  ASSUME UseInv, NEW p \in Pages, SignedIn(p)
  PROVE  /\ Elapsed >= Limit(p) => unattended[p] >= Limit(p)
         /\ Elapsed >= Default => unattended[p] >= Default
         /\ timer[p] = 0 => unattended[p] >= Limit(p)
<1>1. /\ unattended[p] \in Nat /\ Elapsed \in Nat /\ Default \in Nat /\ timer[p] \in Nat
      /\ Limit(p) \in Nat \ {0}
  BY LimitIsTyped, LimitsAreBounded DEF UseInv, SessionTypes
<1>2. Elapsed <= unattended[p] /\ Limit(p) <= timer[p] + unattended[p]
  BY <1>1 DEF UseInv, Keeps, Elapsed
<1>3. QED
  BY <1>1, <1>2

\* A page that ends by itself was checked too late, or its timer fired.
LEMMA EndsInTime ==
  ASSUME UseInv, SessionNext, NEW p \in Pages, EndsByItself(p)
  PROVE  unattended[p] >= IF Load(p) THEN Default ELSE Limit(p)
<1>1. SessionTypes /\ SignedIn(p) /\ place'[p] = "out" /\ place[p] # "out"
  BY DEF UseInv, EndsByItself, SignedIn
<1>2. ASSUME Load(p) PROVE unattended[p] >= Default
  <2>1. Elapsed >= Default
    BY <1>1, <1>2 DEF Load, Mount, SessionTypes
  <2>2. QED
    BY <1>1, <2>1, OutOfTime
<1>3. ASSUME ~Load(p) PROVE unattended[p] >= Limit(p)
  <2>1. PICK q \in Pages : PageStep(q)
    BY <1>1 DEF SessionNext, TimePasses, SavedElsewhere, pageVars
  <2>2. q = p
    <3>1. ASSUME q # p PROVE place'[p] = place[p]
      BY <1>1, <2>1, <3>1 DEF PageStep, Activity, TimerFires, Check, Suspend, Resume, Load, LoadsLogin,
        SignIn, SignOut, SettingArrives, SettingFails, SaveSetting, Unauthorized, RenewalSucceeds, RenewalFails,
        Mount, Logout, Forgets, SessionTypes
    <3>2. QED
      BY <1>1, <3>1
  <2>3. TimerFires(p) \/ Check(p) \/ Resume(p)
    BY <1>1, <1>3, <2>1, <2>2 DEF PageStep, EndsByItself, Activity, Suspend, SignIn, SettingArrives, SettingFails,
      SaveSetting, Unauthorized, RenewalSucceeds, SessionTypes, Awake, SignedIn
  <2>4. timer[p] = 0 \/ Elapsed >= Limit(p)
    <3>1. CASE TimerFires(p)
      BY <3>1 DEF TimerFires
    <3>2. CASE Check(p)
      BY <1>1, <3>2 DEF Check, Awake
    <3>3. CASE Resume(p)
      BY <1>1, <3>3 DEF Resume, SessionTypes
    <3>4. QED
      BY <2>3, <3>1, <3>2, <3>3
  <2>5. QED
    BY <1>1, <2>4, OutOfTime
<1>4. QED
  BY <1>2, <1>3

\* useSessionGuards.ts: for any number of tabs and any limits, no resume, reload,
\* other tab, changed, late or missing setting signs out a tab that was used within
\* its limit.
THEOREM AttendedPagesStay == SessionSpec => AttendedStaysSignedIn
<1>1. UseInv /\ [SessionNext]_sessionVars => UseInv'
  BY StepKeeps DEF UseInv
<1>2. UseInv /\ [SessionNext]_sessionVars =>
        [ \A p \in Pages :
            EndsByItself(p) => unattended[p] >= IF Load(p) THEN Default ELSE Limit(p) ]_sessionVars
  BY EndsInTime
<1>3. QED
  BY <1>1, <1>2, InitKeeps, PTL DEF SessionSpec, AttendedStaysSignedIn
=============================================================================
