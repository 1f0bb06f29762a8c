-------------------------- MODULE CaseLifecycleProofs --------------------------
(***************************************************************************)
(* What the cases promise, for any number of policies, devices, requests,  *)
(* cases and tickets: one case per pair and violations in open cases, as   *)
(* long as nobody overtakes the pass on its cases; closing times that      *)
(* agree with the statuses, as long as nobody overtakes an update; and one *)
(* notice per clock, whoever overtakes whom.                               *)
(***************************************************************************)
EXTENDS CaseLifecycle, TLAPS

Columns == {"status", "pair", "closedAt", "acked", "clock", "late", "stamped", "told",
            "lost", "violations", "refs"}

\* The rows are numbered from 1, and have their columns.
Listed == \E n \in Nat : kase = [c \in 1..n |-> kase[c]]
Rows   == \A c \in Ids : DOMAIN kase[c] = Columns

\* Only the pass searches, and it sends no update.
Roles ==
  /\ DOMAIN proc = Procs
  /\ \A x \in Admins : proc[x].at \notin {"find", "upsert", "recover"}
  /\ proc[Evaluator].at # "update"

Shapes == Listed /\ Rows /\ Roles

---------------------------------------------------------------------------
(* Edits of the rows *)

\* Row d becomes new.
Writes(d, new) == kase' = [kase EXCEPT ![d] = new]

LEMMA Edited ==
  ASSUME Listed, Rows, NEW d, NEW new, d \in Ids => DOMAIN new = Columns,
         Writes(d, new)
  PROVE  /\ Listed' /\ Rows' /\ Ids' = Ids
         /\ \A c \in Ids : kase'[c] = IF c = d THEN new ELSE kase[c]
<1>1. PICK n \in Nat : kase = [c \in 1..n |-> kase[c]]
  BY DEF Listed
<1>2. /\ kase' = [c \in 1..n |-> kase'[c]] /\ Ids = 1..n /\ Ids' = 1..n
      /\ \A c \in Ids : kase'[c] = IF c = d THEN new ELSE kase[c]
  BY <1>1 DEF Ids, Writes
<1>3. QED
  BY <1>2 DEF Listed, Rows, Ids

LEMMA Unedited ==
  ASSUME Listed, Rows, kase' = kase
  PROVE  Listed' /\ Rows' /\ Ids' = Ids
BY DEF Listed, Rows, Ids

LEMMA ListIsFunction ==
  ASSUME NEW S, NEW list \in Seq(S)
  PROVE  DOMAIN list = 1..Len(list) /\ list = [c \in 1..Len(list) |-> list[c]]
OBVIOUS

LEMMA Added ==
  ASSUME Listed, Rows, NEW new, DOMAIN new = Columns, kase' = Append(kase, new)
  PROVE  /\ Listed' /\ Rows' /\ Len(kase) \in Nat
         /\ Len(kase) + 1 \notin Ids /\ Ids' = Ids \cup {Len(kase) + 1}
         /\ kase'[Len(kase) + 1] = new
         /\ \A c \in Ids : kase'[c] = kase[c]
<1>1. PICK n \in Nat : kase = [c \in 1..n |-> kase[c]]
  BY DEF Listed
<1> DEFINE S == {kase[c] : c \in 1..n} \cup {new}
<1>2. kase \in Seq(S) /\ new \in S
  BY <1>1
<1>3. Len(kase) = n /\ DOMAIN kase = 1..n
  BY <1>1, <1>2
<1> HIDE DEF S
<1>4. /\ kase' \in Seq(S) /\ Len(kase') = n + 1
      /\ kase'[n + 1] = new /\ \A c \in 1..n : kase'[c] = kase[c]
  BY <1>2, <1>3
<1>5. kase' = [c \in 1..(n + 1) |-> kase'[c]] /\ Ids' = 1..(n + 1) /\ Ids = 1..n
  <2>1. DOMAIN kase' = 1..(n + 1) /\ kase' = [c \in 1..(n + 1) |-> kase'[c]]
    BY <1>4, ListIsFunction
  <2>2. QED
    BY <1>3, <2>1 DEF Ids
<1>6. Listed' /\ Ids' = Ids \cup {n + 1} /\ n + 1 \notin Ids
  <2>1. n + 1 \in Nat
    OBVIOUS
  <2>2. Listed'
    BY <1>5, <2>1, Zenon DEF Listed
  <2>3. QED
    BY <1>5, <2>2
<1>7. ASSUME NEW c \in Ids' PROVE DOMAIN kase'[c] = Columns
  <2>1. c \in Ids \/ c = n + 1
    BY <1>6
  <2>2. QED
    BY <1>3, <1>4, <1>5, <2>1 DEF Rows
<1>8. Rows'
  BY <1>7 DEF Rows
<1>9. QED
  BY <1>3, <1>4, <1>5, <1>6, <1>8

LEMMA RestartedRow ==
  ASSUME NEW k, DOMAIN k = Columns, NEW acked
  PROVE  LET r == Restarted(k, acked)
         IN  /\ DOMAIN r = Columns /\ r.status = k.status /\ r.pair = k.pair /\ ~r.closedAt
             /\ r.violations = k.violations /\ r.told = {} /\ r.stamped = {} /\ r.clock = k.clock + 1
BY DEF Restarted, Columns

LEMMA ResolvedRow ==
  ASSUME NEW k, DOMAIN k = Columns
  PROVE  LET r == Resolved(k)
         IN  /\ DOMAIN r = Columns /\ r.status = "resolved" /\ r.pair = k.pair /\ r.closedAt
             /\ r.violations = k.violations /\ r.told = k.told /\ r.stamped = k.stamped
             /\ r.clock = k.clock
BY DEF Resolved, Columns

\* A column of one row is written.
LEMMA ColumnWritten ==
  ASSUME NEW k, DOMAIN k = Columns, NEW new
  PROVE  /\ [k EXCEPT !.refs = new] = [f \in Columns |-> IF f = "refs" THEN new ELSE k[f]]
         /\ [k EXCEPT !.late = new] = [f \in Columns |-> IF f = "late" THEN new ELSE k[f]]
         /\ [k EXCEPT !.told = new] = [f \in Columns |-> IF f = "told" THEN new ELSE k[f]]
         /\ [k EXCEPT !.lost = new] = [f \in Columns |-> IF f = "lost" THEN new ELSE k[f]]
         /\ [k EXCEPT !.stamped = new] = [f \in Columns |-> IF f = "stamped" THEN new ELSE k[f]]
         /\ [k EXCEPT !.violations = new] = [f \in Columns |-> IF f = "violations" THEN new ELSE k[f]]
OBVIOUS

LEMMA UpdatedRow ==
  ASSUME NEW k, DOMAIN k = Columns, NEW seen, NEW ask, NEW u, u = Updated(k, seen, ask)
  PROVE  /\ DOMAIN u = Columns /\ u.pair = k.pair /\ u.violations = k.violations
         /\ u.status = IF ask.status = Keep THEN k.status ELSE ask.status
         /\ IF Reopens(seen, ask)
            THEN ~u.closedAt /\ u.told = {} /\ u.stamped = {} /\ u.clock = k.clock + 1
            ELSE /\ u.told = k.told /\ u.stamped = k.stamped /\ u.clock = k.clock
                 /\ (u.closedAt <=> (Closes(seen, ask) \/ k.closedAt))
<1> DEFINE kept == [k EXCEPT !.status = IF ask.status = Keep THEN @ ELSE ask.status]
           acks == ~seen.acked /\ (ask.assign \/ ask.status = "investigating")
           opened == Restarted(kept, FALSE)
           ended  == [kept EXCEPT !.closedAt = TRUE, !.acked = @ \/ acks]
           other  == [kept EXCEPT !.acked = @ \/ acks]
<1>1. u = CASE Reopens(seen, ask) -> opened
            [] Closes(seen, ask)  -> ended
            [] OTHER              -> other
  BY DEF Updated
<1>2. /\ DOMAIN kept = Columns /\ kept.pair = k.pair /\ kept.violations = k.violations
      /\ kept.status = (IF ask.status = Keep THEN k.status ELSE ask.status)
      /\ kept.told = k.told /\ kept.stamped = k.stamped /\ kept.clock = k.clock
      /\ kept.closedAt = k.closedAt
  BY DEF Columns
<1> HIDE DEF kept
<1>3. /\ DOMAIN opened = Columns /\ opened.pair = kept.pair /\ opened.violations = kept.violations
      /\ opened.status = kept.status /\ ~opened.closedAt
      /\ opened.told = {} /\ opened.stamped = {} /\ opened.clock = kept.clock + 1
  BY <1>2, RestartedRow
<1>4. /\ DOMAIN ended = Columns /\ ended.pair = kept.pair /\ ended.violations = kept.violations
      /\ ended.status = kept.status /\ ended.closedAt = TRUE
      /\ ended.told = kept.told /\ ended.stamped = kept.stamped /\ ended.clock = kept.clock
  BY <1>2 DEF Columns
<1>5. /\ DOMAIN other = Columns /\ other.pair = kept.pair /\ other.violations = kept.violations
      /\ other.status = kept.status /\ other.closedAt = kept.closedAt
      /\ other.told = kept.told /\ other.stamped = kept.stamped /\ other.clock = kept.clock
  BY <1>2 DEF Columns
<1> HIDE DEF kept, acks, opened, ended, other
<1>6. ~(Reopens(seen, ask) /\ Closes(seen, ask))
  BY DEF Reopens, Closes, Open, Closed
<1>7. CASE Reopens(seen, ask)
  <2>1. u = opened
    BY <1>1, <1>6, <1>7
  <2>2. QED
    BY <1>2, <1>3, <1>7, <2>1
<1>8. CASE ~Reopens(seen, ask) /\ Closes(seen, ask)
  <2>1. u = ended
    BY <1>1, <1>8
  <2>2. QED
    BY <1>2, <1>4, <1>8, <2>1
<1>9. CASE ~Reopens(seen, ask) /\ ~Closes(seen, ask)
  <2>1. u = other
    BY <1>1, <1>9
  <2>2. QED
    BY <1>2, <1>5, <1>9, <2>1
<1>10. QED
  BY <1>7, <1>8, <1>9

---------------------------------------------------------------------------
(* What a step does to the cases, as far as the others can tell *)

Searching == {"find", "upsert", "recover"}

Looks(c) == kase'[c].pair = kase[c].pair /\ kase'[c].violations = kase[c].violations
Status(c) == kase'[c].status = kase[c].status
Ticks(c) == /\ kase'[c].clock = kase[c].clock
            /\ kase'[c].told = kase[c].told /\ kase'[c].stamped = kase[c].stamped

\* A step of somebody else than the pass: the pass goes on as it was or ends,
\* pairs and violations stay, and a new case has neither.
Aside ==
  /\ flag' = flag /\ flips' = flips
  /\ proc'[Evaluator] = proc[Evaluator] \/ proc'[Evaluator].at \notin Searching
  /\ Ids \subseteq Ids' /\ \A c \in Ids : Looks(c)
  /\ \A c \in Ids' \ Ids : kase'[c].pair = Manual /\ kase'[c].violations = {}

\* It leaves the cases alone that a calm pass is about to write.
Respects ==
  "evaluate" \in Calm /\ proc[Evaluator].at \in Searching =>
    \A c \in Ids : kase[c].pair = proc[Evaluator].pair => Status(c)

\* A step of somebody else than the SLA tick: a clock goes on as it was or restarts.
Clocked ==
  /\ sla' = sla /\ Ids \subseteq Ids'
  /\ \A c \in Ids : \/ Ticks(c)
                    \/ /\ kase'[c].clock = kase[c].clock + 1
                       /\ kase'[c].told = {} /\ kase'[c].stamped = {}
  /\ \A c \in Ids' \ Ids : kase'[c].clock = 1 /\ kase'[c].told = {} /\ kase'[c].stamped = {}

Quiet == Shapes' /\ Ids' = Ids /\ \A c \in Ids : Looks(c) /\ Status(c) /\ Ticks(c)
                                                  /\ kase'[c].closedAt = kase[c].closedAt

\* Some case may be closed, with its time.
Resolves(d) ==
  /\ Ids' = Ids
  /\ \A c \in Ids : \/ Status(c) /\ kase'[c].closedAt = kase[c].closedAt
                    \/ c = d /\ kase'[c].status = "resolved" /\ kase'[c].closedAt

LEMMA CalmPass ==
  ASSUME NEW who, who # Evaluator, NEW cases, Calmly(who, cases),
         "evaluate" \in Calm, proc[Evaluator].at \in Searching
  PROVE  \A c \in cases \cap Ids : kase[c].pair # proc[Evaluator].pair
BY DEF Calmly, HeldBy, KindOf, Searching, Procs, Ids

LEMMA CalmUpdates ==
  ASSUME NEW who, NEW cases, Calmly(who, cases), "update" \in Calm,
         NEW x \in Procs, x # who, proc[x].at = "update"
  PROVE  proc[x].case \notin cases
BY DEF Calmly, HeldBy, KindOf

LEMMA NothingWritten ==
  ASSUME Shapes, kase' = kase, Roles'
  PROVE  Quiet
BY Unedited DEF Shapes, Quiet, Looks, Status, Ticks

\* Refs, due times and lost notices are nobody else's business.
LEMMA RowKept ==
  ASSUME Shapes, Roles', NEW d, NEW row, Writes(d, row),
         d \in Ids => /\ DOMAIN row = Columns
                      /\ \A f \in Columns \ {"refs", "late", "lost"} : row[f] = kase[d][f]
  PROVE  Quiet
<1>1. /\ Listed' /\ Rows' /\ Ids' = Ids
      /\ \A c \in Ids : kase'[c] = IF c = d THEN row ELSE kase[c]
  BY Edited DEF Shapes
<1>2. ASSUME NEW c \in Ids PROVE \A f \in Columns \ {"refs", "late", "lost"} : kase'[c][f] = kase[c][f]
  BY <1>1
<1>3. QED
  BY <1>1, <1>2 DEF Quiet, Shapes, Looks, Status, Ticks, Columns

LEMMA RefsWritten ==
  ASSUME Shapes, Roles', NEW d, NEW new, kase' = [kase EXCEPT ![d].refs = new]
  PROVE  Quiet
<1> DEFINE row == [kase[d] EXCEPT !.refs = new]
<1>1. d \in Ids => row = [f \in Columns |-> IF f = "refs" THEN new ELSE kase[d][f]]
  BY ColumnWritten DEF Shapes, Rows
<1>2. d \in Ids => /\ DOMAIN row = Columns
                   /\ \A f \in Columns \ {"refs", "late", "lost"} : row[f] = kase[d][f]
  BY <1>1, Zenon
<1>3. Writes(d, row)
  BY DEF Writes
<1> HIDE DEF row
<1>4. QED
  BY <1>2, <1>3, RowKept, Zenon

LEMMA LateWritten ==
  ASSUME Shapes, Roles', NEW d, NEW new, kase' = [kase EXCEPT ![d].late = new]
  PROVE  Quiet
<1> DEFINE row == [kase[d] EXCEPT !.late = new]
<1>1. d \in Ids => row = [f \in Columns |-> IF f = "late" THEN new ELSE kase[d][f]]
  BY ColumnWritten DEF Shapes, Rows
<1>2. d \in Ids => /\ DOMAIN row = Columns
                   /\ \A f \in Columns \ {"refs", "late", "lost"} : row[f] = kase[d][f]
  BY <1>1, Zenon
<1>3. Writes(d, row)
  BY DEF Writes
<1> HIDE DEF row
<1>4. QED
  BY <1>2, <1>3, RowKept, Zenon

\* The handler of x goes on at one of these stages, and nobody else moves.
GoesOn(x, stages) ==
  /\ DOMAIN proc' = DOMAIN proc /\ \A y \in DOMAIN proc : y # x => proc'[y] = proc[y]
  /\ x \in DOMAIN proc => proc'[x].at \in stages

LEMMA MovesOn ==
  ASSUME Roles, NEW x \in Procs, NEW stages, GoesOn(x, stages),
         stages \cap Searching = {}, x = Evaluator => "update" \notin stages
  PROVE  /\ Roles'
         /\ proc'[Evaluator] = proc[Evaluator] \/ proc'[Evaluator].at \notin Searching
BY DEF Roles, Searching, Procs, GoesOn

LEMMA QuietIsAside ==
  ASSUME Shapes, Quiet, flag' = flag, flips' = flips,
         proc'[Evaluator] = proc[Evaluator] \/ proc'[Evaluator].at \notin Searching
  PROVE  Aside /\ Respects /\ (sla' = sla => Clocked)
BY DEF Quiet, Aside, Respects, Clocked

\* The requests that only read, and the calls to the ticketing system.
LEMMA AskedAside ==
  ASSUME Shapes, NEW x \in Admins, NEW c \in Ids,
         UpdateRead(x, c) \/ Retry(x, c) \/ ManualFetch(x, c)
  PROVE  Quiet /\ Aside /\ Respects /\ Clocked
<1>1. /\ x \in Procs /\ x # Evaluator
      /\ kase' = kase /\ flag' = flag /\ sla' = sla /\ flips' = flips
  BY CaseAssumption DEF UpdateRead, Retry, ManualFetch, Ask, Procs
<1>2. GoesOn(x, {"update", "dispatch", "save"})
  <2>1. CASE UpdateRead(x, c)
    <3>1. PICK ask \in Asks : proc' = [proc EXCEPT ![x] =
            [at |-> "update", case |-> c, ask |-> ask,
             seen |-> [status |-> kase[c].status, acked |-> kase[c].acked]]]
      BY <2>1, Zenon DEF UpdateRead
    <3>2. QED
      BY <3>1, Zenon DEF GoesOn
  <2>2. CASE Retry(x, c)
    BY <2>2, Zenon DEF Retry, GoesOn
  <2>3. CASE ManualFetch(x, c)
    <3>1. PICK answered, done : proc' = [proc EXCEPT ![x] =
            [at |-> "save", case |-> c, refs |-> Checked(kase[c].refs, answered),
             done |-> Newly(kase[c].refs, answered)]]
      BY <2>3, Zenon DEF ManualFetch
    <3>2. QED
      BY <3>1, Zenon DEF GoesOn
  <2>4. QED
    BY <2>1, <2>2, <2>3
<1>3. Roles' /\ (proc'[Evaluator] = proc[Evaluator] \/ proc'[Evaluator].at \notin Searching)
  BY <1>1, <1>2, MovesOn DEF Shapes, Searching
<1>4. QED
  BY <1>1, <1>3, NothingWritten, QuietIsAside

LEMMA FinishGoesOn ==
  ASSUME Shapes, NEW x \in Procs,
         OpenTicket(x) \/ CloseTicket(x) \/ AttachRead(x) \/ AttachWrite(x)
  PROVE  GoesOn(x, {"attach", "append", "idle"})
<1>1. CASE OpenTicket(x)
  <2>1. \/ proc' = [proc EXCEPT ![x] =
              [at |-> "attach", case |-> proc[x].case, ticket |-> Len(ticket) + 1]]
        \/ proc' = [proc EXCEPT ![x] = [at |-> "idle"]]
    BY <1>1, Zenon DEF OpenTicket, Idle
  <2>2. CASE proc' = [proc EXCEPT ![x] =
              [at |-> "attach", case |-> proc[x].case, ticket |-> Len(ticket) + 1]]
    BY <2>2, Zenon DEF GoesOn
  <2>3. CASE proc' = [proc EXCEPT ![x] = [at |-> "idle"]]
    BY <2>3, Zenon DEF GoesOn
  <2>4. QED
    BY <2>1, <2>2, <2>3
<1>2. CASE CloseTicket(x)
  BY <1>2, Zenon DEF CloseTicket, GoesOn, Idle
<1>3. CASE AttachRead(x)
  BY <1>3, Zenon DEF AttachRead, GoesOn
<1>4. CASE AttachWrite(x)
  BY <1>4, Zenon DEF AttachWrite, GoesOn, Idle
<1>5. QED
  BY <1>1, <1>2, <1>3, <1>4

LEMMA TicketAside ==
  ASSUME Shapes, NEW x \in Procs, OpenTicket(x) \/ CloseTicket(x) \/ AttachRead(x)
  PROVE  Quiet /\ Aside /\ Respects /\ Clocked
<1>1. kase' = kase /\ flag' = flag /\ sla' = sla /\ flips' = flips
  BY DEF OpenTicket, CloseTicket, AttachRead
<1>2. GoesOn(x, {"attach", "append", "idle"})
  BY FinishGoesOn
<1>3. Roles' /\ (proc'[Evaluator] = proc[Evaluator] \/ proc'[Evaluator].at \notin Searching)
  BY <1>1, <1>2, MovesOn DEF Shapes, Searching
<1>4. QED
  BY <1>1, <1>3, NothingWritten, QuietIsAside

LEMMA AttachAside ==
  ASSUME Shapes, NEW x \in Procs, AttachWrite(x)
  PROVE  Quiet /\ Aside /\ Respects /\ Clocked
<1>1. flag' = flag /\ sla' = sla /\ flips' = flips /\ GoesOn(x, {"idle"})
  BY Zenon DEF AttachWrite, GoesOn, Idle
<1>2. Roles' /\ (proc'[Evaluator] = proc[Evaluator] \/ proc'[Evaluator].at \notin Searching)
  BY <1>1, MovesOn DEF Shapes, Searching
<1>3. PICK d, new : kase' = [kase EXCEPT ![d].refs = new]
  BY Zenon DEF AttachWrite
<1>4. QED
  BY <1>1, <1>2, <1>3, RefsWritten, QuietIsAside

\* The sync tick's reads and the time that passes.
LEMMA SyncAside ==
  ASSUME Shapes, SyncScan \/ (\E c \in Ids : SyncFetch(c)) \/ SyncSave
  PROVE  Quiet /\ Aside /\ Respects /\ Clocked
<1>1. /\ flag' = flag /\ sla' = sla /\ flips' = flips /\ proc' = proc
      /\ kase' = kase \/ \E d, new : kase' = [kase EXCEPT ![d].refs = new]
  BY Zenon DEF SyncScan, SyncFetch, SyncSave
<1>2. Roles'
  BY <1>1 DEF Shapes, Roles
<1>3. Quiet
  BY <1>1, <1>2, NothingWritten, RefsWritten, Zenon
<1>4. QED
  BY <1>1, <1>3, QuietIsAside

LEMMA TimeAside ==
  ASSUME Shapes, NEW c \in Ids, NEW k \in Kinds, TimePasses(c, k)
  PROVE  Quiet /\ Aside /\ Respects /\ Clocked
<1>1. /\ flag' = flag /\ sla' = sla /\ flips' = flips /\ proc' = proc
      /\ \E d, new : kase' = [kase EXCEPT ![d].late = new]
  BY Zenon DEF TimePasses
<1>2. Roles'
  BY <1>1 DEF Shapes, Roles
<1>3. Quiet
  BY <1>1, <1>2, LateWritten, Zenon
<1>4. QED
  BY <1>1, <1>3, QuietIsAside

LEMMA CreateAside ==
  ASSUME Shapes, NEW x \in Admins, CreateCase(x)
  PROVE  /\ Shapes' /\ Aside /\ Respects /\ Clocked
         /\ \A c \in Ids : Status(c) /\ kase'[c].closedAt = kase[c].closedAt
         /\ \A c \in Ids' \ Ids : kase'[c].status = "open" /\ ~kase'[c].closedAt
<1> DEFINE row == NewCase(Manual, {}, FALSE)
<1>1. /\ flag' = flag /\ sla' = sla /\ flips' = flips /\ kase' = Append(kase, row)
      /\ GoesOn(x, {"dispatch"})
  BY Zenon DEF CreateCase, Ask, GoesOn
<1>2. /\ DOMAIN row = Columns /\ row.pair = Manual /\ row.violations = {}
      /\ row.told = {} /\ row.stamped = {} /\ row.clock = 1
      /\ row.status = "open" /\ ~row.closedAt
  BY DEF NewCase, Columns
<1>3. kase' = Append(kase, row)
  BY <1>1
<1> HIDE DEF row
<1>4. /\ Listed' /\ Rows' /\ Len(kase) \in Nat
      /\ Ids' = Ids \cup {Len(kase) + 1} /\ kase'[Len(kase) + 1] = row
      /\ \A c \in Ids : kase'[c] = kase[c]
  BY <1>2, <1>3, Added DEF Shapes
<1>5. Roles' /\ (proc'[Evaluator] = proc[Evaluator] \/ proc'[Evaluator].at \notin Searching)
  BY <1>1, CaseAssumption, MovesOn DEF Shapes, Searching, Procs
<1>6. QED
  BY <1>1, <1>2, <1>4, <1>5 DEF Shapes, Aside, Respects, Clocked, Looks, Status, Ticks

\* One row is written by somebody whom a calm pass keeps off its cases.
LEMMA WriteAside ==
  ASSUME Shapes, Roles', NEW who, NEW d, NEW row, Writes(d, row), Calmly(who, {d}),
         who # Evaluator \/ proc[Evaluator].at \notin Searching, flag' = flag, flips' = flips, sla' = sla,
         proc'[Evaluator] = proc[Evaluator] \/ proc'[Evaluator].at \notin Searching,
         d \in Ids => /\ DOMAIN row = Columns
                      /\ row.pair = kase[d].pair /\ row.violations = kase[d].violations
                      /\ \/ /\ row.clock = kase[d].clock /\ row.told = kase[d].told
                            /\ row.stamped = kase[d].stamped
                         \/ row.clock = kase[d].clock + 1 /\ row.told = {} /\ row.stamped = {}
  PROVE  /\ Shapes' /\ Aside /\ Respects /\ Clocked /\ Ids' = Ids
         /\ \A c \in Ids : kase'[c] = IF c = d THEN row ELSE kase[c]
<1>1. /\ Listed' /\ Rows' /\ Ids' = Ids
      /\ \A c \in Ids : kase'[c] = IF c = d THEN row ELSE kase[c]
  BY Edited DEF Shapes
<1>2. Shapes' /\ Aside /\ Clocked
  BY <1>1 DEF Shapes, Aside, Clocked, Looks, Ticks
<1>3. Respects
  BY <1>1, CalmPass DEF Respects, Status
<1>4. QED
  BY <1>1, <1>2, <1>3

LEMMA UpdateWriteAside ==
  ASSUME Shapes, NEW x \in Procs, UpdateWrite(x)
  PROVE  /\ Shapes' /\ Aside /\ Respects /\ Clocked /\ Ids' = Ids
         /\ LET u == proc[x] IN \A c \in Ids :
              kase'[c] = IF c = u.case THEN Updated(kase[c], u.seen, u.ask) ELSE kase[c]
         /\ GoesOn(x, {"dispatch", "idle"})
<1> DEFINE u == proc[x]
           row == Updated(kase[u.case], u.seen, u.ask)
<1>1. /\ proc[x].at = "update" /\ Calmly(x, {u.case}) /\ Writes(u.case, row)
      /\ flag' = flag /\ sla' = sla /\ flips' = flips
  BY Zenon DEF UpdateWrite, Writes
<1>2. GoesOn(x, {"dispatch", "idle"})
  <2>1. \/ proc' = [proc EXCEPT ![x] = [at |-> "dispatch", case |-> u.case,
               event |-> IF Closes(u.seen, u.ask) THEN "closed" ELSE "reopened"]]
        \/ proc' = [proc EXCEPT ![x] = [at |-> "idle"]]
    BY Zenon DEF UpdateWrite, Idle
  <2>2. CASE proc' = [proc EXCEPT ![x] = [at |-> "idle"]]
    BY <2>2, Zenon DEF GoesOn
  <2>3. CASE proc' = [proc EXCEPT ![x] = [at |-> "dispatch", case |-> u.case,
               event |-> IF Closes(u.seen, u.ask) THEN "closed" ELSE "reopened"]]
    BY <2>3, Zenon DEF GoesOn
  <2>4. QED
    BY <2>1, <2>2, <2>3
<1>3. /\ Roles' /\ x # Evaluator
      /\ proc'[Evaluator] = proc[Evaluator] \/ proc'[Evaluator].at \notin Searching
  BY <1>1, <1>2, MovesOn DEF Shapes, Searching, Roles
<1>4. u.case \in Ids =>
        /\ DOMAIN row = Columns
        /\ row.pair = kase[u.case].pair /\ row.violations = kase[u.case].violations
        /\ \/ /\ row.clock = kase[u.case].clock /\ row.told = kase[u.case].told
              /\ row.stamped = kase[u.case].stamped
           \/ row.clock = kase[u.case].clock + 1 /\ row.told = {} /\ row.stamped = {}
  <2>1. u.case \in Ids => DOMAIN kase[u.case] = Columns
    BY DEF Shapes, Rows
  <2>2. QED
    BY <2>1, UpdatedRow
<1>5. row = Updated(kase[u.case], u.seen, u.ask)
  OBVIOUS
<1> HIDE DEF row
<1>6. QED
  BY <1>1, <1>2, <1>3, <1>4, <1>5, WriteAside

LEMMA SyncResolveAside ==
  ASSUME Shapes, SyncResolve
  PROVE  Shapes' /\ Aside /\ Respects /\ Clocked /\ Resolves(sync.case) /\ proc' = proc
<1> DEFINE d == sync.case
           row == Resolved(kase[d])
<1>1. /\ Calmly("sync", {d}) /\ Writes(d, row)
      /\ flag' = flag /\ sla' = sla /\ flips' = flips /\ proc' = proc
  BY Zenon DEF SyncResolve, Writes
<1>2. Roles' /\ Evaluator # "sync"
  BY <1>1, CaseAssumption DEF Shapes, Roles
<1>3. d \in Ids =>
        /\ DOMAIN row = Columns
        /\ row.pair = kase[d].pair /\ row.violations = kase[d].violations
        /\ row.clock = kase[d].clock /\ row.told = kase[d].told
        /\ row.stamped = kase[d].stamped
        /\ row.status = "resolved" /\ row.closedAt
  BY ResolvedRow DEF Shapes, Rows
<1> HIDE DEF row
<1>4. QED
  BY <1>1, <1>2, <1>3, WriteAside DEF Resolves, Status

LEMMA ManualSaveWrites ==
  ASSUME Shapes, NEW x \in Procs, ManualSave(x)
  PROVE  \/ Writes(proc[x].case, [kase[proc[x].case] EXCEPT !.refs = proc[x].refs])
         \/ Writes(proc[x].case, Resolved([kase[proc[x].case] EXCEPT !.refs = proc[x].refs]))
<1> DEFINE d == proc[x].case
           row == [kase[d] EXCEPT !.refs = proc[x].refs]
           saved == [kase EXCEPT ![d] = row]
<1>1. PICK n \in Nat : kase = [c \in 1..n |-> kase[c]]
  BY DEF Shapes, Listed
<1>2. kase' = saved \/ kase' = [saved EXCEPT ![d] = Resolved(@)]
  BY Zenon DEF ManualSave
<1>3. ASSUME NEW resolved, NEW k, resolved = [[kase EXCEPT ![d] = k] EXCEPT ![d] = Resolved(@)]
      PROVE  resolved = [kase EXCEPT ![d] = Resolved(k)]
  BY <1>1, <1>3
<1>4. QED
  BY <1>2, <1>3, Zenon DEF Writes

LEMMA ManualSaveAside ==
  ASSUME Shapes, NEW x \in Procs, ManualSave(x)
  PROVE  /\ Shapes' /\ Aside /\ Respects /\ Clocked /\ Resolves(proc[x].case)
         /\ GoesOn(x, {"idle"})
<1> DEFINE d == proc[x].case
           read == [kase[d] EXCEPT !.refs = proc[x].refs]
<1>1. /\ proc[x].at = "save" /\ Calmly(x, {d})
      /\ flag' = flag /\ sla' = sla /\ flips' = flips /\ GoesOn(x, {"idle"})
  BY Zenon DEF ManualSave, GoesOn, Idle
<1>2. /\ Roles'
      /\ proc'[Evaluator] = proc[Evaluator] \/ proc'[Evaluator].at \notin Searching
  BY <1>1, MovesOn DEF Shapes, Searching
<1>3. d \in Ids => read = [f \in Columns |-> IF f = "refs" THEN proc[x].refs ELSE kase[d][f]]
  BY ColumnWritten DEF Shapes, Rows
<1>4. d \in Ids => /\ DOMAIN read = Columns
                   /\ \A f \in Columns \ {"refs", "late", "lost"} : read[f] = kase[d][f]
  BY <1>3, Zenon
<1>5. Writes(d, read) \/ Writes(d, Resolved(read))
  BY ManualSaveWrites
<1> HIDE DEF read
<1>6. CASE Writes(d, read)
  BY <1>1, <1>2, <1>4, <1>6, RowKept, QuietIsAside DEF Quiet, Resolves
<1>7. CASE Writes(d, Resolved(read))
  <2>1. Evaluator # x \/ proc[Evaluator].at \notin Searching
    BY <1>1 DEF Searching
  <2>2. d \in Ids =>
          LET row == Resolved(read)
          IN  /\ DOMAIN row = Columns
              /\ row.pair = kase[d].pair /\ row.violations = kase[d].violations
              /\ row.clock = kase[d].clock /\ row.told = kase[d].told
              /\ row.stamped = kase[d].stamped
              /\ row.status = "resolved" /\ row.closedAt
    BY <1>4, ResolvedRow DEF Columns
  <2>3. QED
    BY <1>1, <1>2, <1>7, <2>1, <2>2, WriteAside DEF Resolves, Status
<1>8. QED
  BY <1>5, <1>6, <1>7

---------------------------------------------------------------------------
(* The SLA tick *)

\* It touches nothing but stamps and notices.
OnlyStamps ==
  /\ Shapes' /\ Ids' = Ids /\ flag' = flag /\ flips' = flips /\ proc' = proc
  /\ \A c \in Ids : /\ Looks(c) /\ Status(c) /\ kase'[c].clock = kase[c].clock
                    /\ kase'[c].closedAt = kase[c].closedAt

LEMMA SlaReads ==
  ASSUME Shapes, SlaScan \/ \E c \in Ids : SlaCheck(c)
  PROVE  OnlyStamps /\ kase' = kase
<1>1. kase' = kase /\ flag' = flag /\ flips' = flips /\ proc' = proc
  BY Zenon DEF SlaScan, SlaCheck
<1>2. Roles'
  BY <1>1 DEF Shapes, Roles
<1>3. Quiet
  BY <1>1, <1>2, NothingWritten
<1>4. QED
  BY <1>1, <1>3 DEF Quiet, OnlyStamps, Ticks

LEMMA SlaStamps ==
  ASSUME Shapes, SlaStamp
  PROVE  /\ OnlyStamps
         /\ \A c \in Ids : /\ kase'[c].told = kase[c].told
                           /\ kase'[c].stamped = IF c = sla.case
                                THEN kase[c].stamped \cup {FirstOf(sla.due)} ELSE kase[c].stamped
<1> DEFINE d == sla.case
           new == kase[d].stamped \cup {FirstOf(sla.due)}
           row == [kase[d] EXCEPT !.stamped = new]
<1>1. Writes(d, row) /\ flag' = flag /\ flips' = flips /\ proc' = proc
  BY Zenon DEF SlaStamp, Writes
<1>2. Roles'
  BY <1>1 DEF Shapes, Roles
<1>3. d \in Ids => row = [f \in Columns |-> IF f = "stamped" THEN new ELSE kase[d][f]]
  BY ColumnWritten DEF Shapes, Rows
<1>4. d \in Ids => /\ DOMAIN row = Columns /\ row.stamped = new
                   /\ \A f \in Columns \ {"stamped"} : row[f] = kase[d][f]
  BY <1>3, Zenon DEF Columns
<1> HIDE DEF row
<1>5. /\ Listed' /\ Rows' /\ Ids' = Ids
      /\ \A c \in Ids : kase'[c] = IF c = d THEN row ELSE kase[c]
  BY <1>1, <1>4, Edited DEF Shapes
<1>6. ASSUME NEW c \in Ids PROVE \A f \in Columns \ {"stamped"} : kase'[c][f] = kase[c][f]
  BY <1>4, <1>5
<1>7. QED
  BY <1>1, <1>2, <1>4, <1>5, <1>6 DEF OnlyStamps, Shapes, Looks, Status, Columns

LEMMA SlaNotifies ==
  ASSUME Shapes, SlaNotify
  PROVE  /\ OnlyStamps
         /\ \A c \in Ids :
              /\ kase'[c].stamped = kase[c].stamped
              /\ kase'[c].told =
                   IF c = sla.case /\ kase[c].clock = sla.seen[c].clock
                   THEN kase[c].told \cup {FirstOf(sla.due)} ELSE kase[c].told
<1> DEFINE d == sla.case
           new == kase[d].told \cup {FirstOf(sla.due)}
           row == [kase[d] EXCEPT !.told = new]
<1>1. /\ flag' = flag /\ flips' = flips /\ proc' = proc
      /\ IF kase[d].clock = sla.seen[d].clock THEN Writes(d, row) ELSE kase' = kase
  BY Zenon DEF SlaNotify, Writes
<1>2. Roles'
  BY <1>1 DEF Shapes, Roles
<1>3. CASE kase[d].clock # sla.seen[d].clock
  <2>1. Quiet /\ kase' = kase
    BY <1>1, <1>2, <1>3, NothingWritten
  <2>2. QED
    BY <1>1, <1>3, <2>1 DEF Quiet, OnlyStamps
<1>4. CASE kase[d].clock = sla.seen[d].clock
  <2>1. d \in Ids => row = [f \in Columns |-> IF f = "told" THEN new ELSE kase[d][f]]
    BY ColumnWritten DEF Shapes, Rows
  <2>2. d \in Ids => /\ DOMAIN row = Columns /\ row.told = new
                     /\ \A f \in Columns \ {"told"} : row[f] = kase[d][f]
    BY <2>1, Zenon DEF Columns
  <2>3. Writes(d, row)
    BY <1>1, <1>4
  <2> HIDE DEF row
  <2>4. /\ Listed' /\ Rows' /\ Ids' = Ids
        /\ \A c \in Ids : kase'[c] = IF c = d THEN row ELSE kase[c]
    BY <2>2, <2>3, Edited DEF Shapes
  <2>5. ASSUME NEW c \in Ids PROVE \A f \in Columns \ {"told"} : kase'[c][f] = kase[c][f]
    BY <2>2, <2>4
  <2>6. QED
    BY <1>1, <1>2, <1>4, <2>2, <2>4, <2>5 DEF OnlyStamps, Shapes, Looks, Status, Columns
<1>5. QED
  BY <1>3, <1>4

\* A tick cut short leaves the stamps and the notices as they are.
LEMMA SlaEnds ==
  ASSUME Shapes, SlaFails
  PROVE  Quiet /\ UNCHANGED <<flag, flips, proc>> /\ sla'.at = "idle"
<1> DEFINE d == sla.case
           new == kase[d].lost \cup {FirstOf(sla.due)}
           row == [kase[d] EXCEPT !.lost = new]
<1>1. /\ flag' = flag /\ flips' = flips /\ proc' = proc /\ sla' = Idle
      /\ IF kase[d].clock = sla.seen[d].clock THEN Writes(d, row) ELSE kase' = kase
  BY Zenon DEF SlaFails, Writes
<1>2. Roles'
  BY <1>1 DEF Shapes, Roles
<1>3. CASE kase[d].clock # sla.seen[d].clock
  BY <1>1, <1>2, <1>3, NothingWritten DEF Idle
<1>4. CASE kase[d].clock = sla.seen[d].clock
  <2>1. d \in Ids => row = [f \in Columns |-> IF f = "lost" THEN new ELSE kase[d][f]]
    BY ColumnWritten DEF Shapes, Rows
  <2>2. d \in Ids => /\ DOMAIN row = Columns
                     /\ \A f \in Columns \ {"refs", "late", "lost"} : row[f] = kase[d][f]
    BY <2>1, Zenon
  <2>3. Writes(d, row)
    BY <1>1, <1>4
  <2> HIDE DEF row
  <2>4. Quiet
    BY <1>2, <2>2, <2>3, RowKept, Zenon
  <2>5. QED
    BY <1>1, <2>4 DEF Idle
<1>5. QED
  BY <1>3, <1>4

---------------------------------------------------------------------------
(* The pass *)

\* Its searches write nothing.
LEMMA PassReads ==
  ASSUME Shapes, (\E p \in Pairs : FindOpen(p) \/ FindRecovered(p)) \/ FindClosed
  PROVE  Quiet /\ Shapes' /\ Clocked
<1>1. kase' = kase /\ sla' = sla
  BY Zenon DEF FindOpen, FindRecovered, FindClosed
<1>2. GoesOn(Evaluator, Searching) \/ proc' = proc
  <2>1. ASSUME NEW p \in Pairs, FindOpen(p) PROVE GoesOn(Evaluator, Searching)
    <3>1. CASE proc' = [proc EXCEPT ![Evaluator] = [at |-> "find", pair |-> p]]
      BY <3>1, Zenon DEF GoesOn, Searching
    <3>2. ASSUME NEW c, proc' = [proc EXCEPT ![Evaluator] =
                                  [at |-> "upsert", pair |-> p, how |-> "link", case |-> c]]
          PROVE  GoesOn(Evaluator, Searching)
      BY <3>2, Zenon DEF GoesOn, Searching
    <3>3. QED
      BY <2>1, <3>1, <3>2, Zenon DEF FindOpen
  <2>2. ASSUME NEW p \in Pairs, FindRecovered(p), proc' # proc
        PROVE  GoesOn(Evaluator, Searching)
    <3>1. PICK c : proc' = [proc EXCEPT ![Evaluator] = [at |-> "recover", pair |-> p, case |-> c]]
      BY <2>2, Zenon DEF FindRecovered
    <3>2. QED
      BY <3>1, Zenon DEF GoesOn, Searching
  <2>3. ASSUME FindClosed PROVE GoesOn(Evaluator, Searching)
    <3>1. PICK h, c : proc' = [proc EXCEPT ![Evaluator] =
                       [at |-> "upsert", pair |-> proc[Evaluator].pair, how |-> h, case |-> c]]
      BY <2>3, Zenon DEF FindClosed
    <3>2. QED
      BY <3>1, Zenon DEF GoesOn, Searching
  <2>4. QED
    BY <2>1, <2>2, <2>3
<1>3. Roles'
  BY <1>2, CaseAssumption DEF GoesOn, Searching, Shapes, Roles, Procs
<1>4. QED
  BY <1>1, <1>3, NothingWritten DEF Quiet, Clocked

Same(c) == /\ Looks(c) /\ Status(c) /\ Ticks(c)
           /\ kase'[c].closedAt = kase[c].closedAt

\* The flag of the pair is set to f, and the pass is at this stage.
Flags(f, stage) ==
  /\ flag' = [flag EXCEPT ![proc[Evaluator].pair] = f] /\ flips' = flips /\ sla' = sla
  /\ GoesOn(Evaluator, {stage})

LEMMA PassRoles ==
  ASSUME Shapes, NEW f, NEW stage, Flags(f, stage), stage \in {"idle", "dispatch"}
  PROVE  /\ Roles' /\ proc'[Evaluator].at \notin Searching
         /\ \A x \in Admins : proc'[x] = proc[x]
BY CaseAssumption DEF Flags, GoesOn, Shapes, Roles, Searching, Procs

LEMMA Links ==
  ASSUME Shapes, Upsert, proc[Evaluator].how = "link"
  PROVE  /\ Shapes' /\ Ids' = Ids /\ Flags(flips, "idle")
         /\ \A c \in Ids :
              /\ kase'[c].pair = kase[c].pair /\ Status(c) /\ Ticks(c)
              /\ kase'[c].closedAt = kase[c].closedAt
              /\ kase'[c].violations = IF c = proc[Evaluator].case
                   THEN kase[c].violations \cup {flips} ELSE kase[c].violations
<1> DEFINE d == proc[Evaluator].case
           new == kase[d].violations \cup {flips}
           row == [kase[d] EXCEPT !.violations = new]
<1>1. /\ flag' = [flag EXCEPT ![proc[Evaluator].pair] = flips] /\ flips' = flips
      /\ sla' = sla /\ Writes(d, row) /\ proc' = [proc EXCEPT ![Evaluator] = [at |-> "idle"]]
  BY Zenon DEF Upsert, Writes, Idle
<1>2. GoesOn(Evaluator, {"idle"})
  BY <1>1, Zenon DEF GoesOn
<1>3. Flags(flips, "idle")
  BY <1>1, <1>2, Zenon DEF Flags
<1>4. d \in Ids => row = [f \in Columns |-> IF f = "violations" THEN new ELSE kase[d][f]]
  BY ColumnWritten DEF Shapes, Rows
<1>5. d \in Ids => /\ DOMAIN row = Columns /\ row.violations = new
                   /\ \A f \in Columns \ {"violations"} : row[f] = kase[d][f]
  BY <1>4, Zenon DEF Columns
<1>6. Writes(d, row)
  BY <1>1
<1> HIDE DEF row
<1>7. /\ Listed' /\ Rows' /\ Ids' = Ids
      /\ \A c \in Ids : kase'[c] = IF c = d THEN row ELSE kase[c]
  BY <1>5, <1>6, Edited DEF Shapes
<1>8. ASSUME NEW c \in Ids PROVE \A f \in Columns \ {"violations"} : kase'[c][f] = kase[c][f]
  BY <1>5, <1>7
<1>9. Roles'
  BY <1>3, PassRoles
<1>10. QED
  BY <1>3, <1>5, <1>7, <1>8, <1>9 DEF Shapes, Status, Ticks, Columns

LEMMA ReopensCase ==
  ASSUME Shapes, Upsert, proc[Evaluator].how = "reopen"
  PROVE  /\ Shapes' /\ Ids' = Ids /\ Flags(flips, "dispatch")
         /\ \A c \in Ids :
              IF c # proc[Evaluator].case THEN Same(c)
              ELSE /\ kase'[c].pair = kase[c].pair /\ kase'[c].status = "open"
                   /\ ~kase'[c].closedAt /\ kase'[c].violations = kase[c].violations \cup {flips}
                   /\ kase'[c].clock = kase[c].clock + 1
                   /\ kase'[c].told = {} /\ kase'[c].stamped = {}
<1> DEFINE d == proc[Evaluator].case
           r1 == Restarted(kase[d], AutoAssign)
           row == Recurred(kase[d], flips)
<1>1. /\ flag' = [flag EXCEPT ![proc[Evaluator].pair] = flips] /\ flips' = flips
      /\ sla' = sla /\ Writes(d, row)
      /\ proc' = [proc EXCEPT ![Evaluator] = [at |-> "dispatch", case |-> d, event |-> "reopened"]]
  BY Zenon DEF Upsert, Writes
<1>2. GoesOn(Evaluator, {"dispatch"})
  BY <1>1, Zenon DEF GoesOn
<1>3. Flags(flips, "dispatch")
  BY <1>1, <1>2, Zenon DEF Flags
<1>4. d \in Ids => /\ DOMAIN r1 = Columns /\ r1.pair = kase[d].pair /\ ~r1.closedAt
                   /\ r1.violations = kase[d].violations /\ r1.told = {} /\ r1.stamped = {}
                   /\ r1.clock = kase[d].clock + 1
  BY RestartedRow DEF Shapes, Rows
<1>5. row = [r1 EXCEPT !.status = "open", !.violations = @ \cup {flips}]
  BY DEF Recurred
<1> HIDE DEF r1, row
<1>6. d \in Ids => /\ DOMAIN row = Columns /\ row.pair = kase[d].pair /\ ~row.closedAt
                   /\ row.status = "open" /\ row.violations = kase[d].violations \cup {flips}
                   /\ row.told = {} /\ row.stamped = {} /\ row.clock = kase[d].clock + 1
  BY <1>4, <1>5, Zenon DEF Columns
<1>7. /\ Listed' /\ Rows' /\ Ids' = Ids
      /\ \A c \in Ids : kase'[c] = IF c = d THEN row ELSE kase[c]
  BY <1>1, <1>6, Edited DEF Shapes
<1>8. Roles'
  BY <1>3, PassRoles
<1>9. QED
  BY <1>3, <1>6, <1>7, <1>8 DEF Shapes, Same, Looks, Status, Ticks

LEMMA Creates ==
  ASSUME Shapes, Upsert, proc[Evaluator].how = "create"
  PROVE  /\ Shapes' /\ Flags(flips, "dispatch") /\ \A c \in Ids : Same(c)
         /\ \E n : /\ n \notin Ids /\ Ids' = Ids \cup {n}
                   /\ kase'[n].pair = proc[Evaluator].pair /\ kase'[n].violations = {flips}
                   /\ kase'[n].status = "open" /\ ~kase'[n].closedAt
                   /\ kase'[n].clock = 1 /\ kase'[n].told = {} /\ kase'[n].stamped = {}
<1> DEFINE row == NewCase(proc[Evaluator].pair, {flips}, AutoAssign)
<1>1. /\ flag' = [flag EXCEPT ![proc[Evaluator].pair] = flips] /\ flips' = flips
      /\ sla' = sla /\ kase' = Append(kase, row)
      /\ proc' = [proc EXCEPT ![Evaluator] =
                    [at |-> "dispatch", case |-> Len(kase) + 1, event |-> "created"]]
  BY Zenon DEF Upsert
<1>2. GoesOn(Evaluator, {"dispatch"})
  BY <1>1, Zenon DEF GoesOn
<1>3. Flags(flips, "dispatch")
  BY <1>1, <1>2, Zenon DEF Flags
<1>4. /\ DOMAIN row = Columns /\ row.pair = proc[Evaluator].pair /\ row.violations = {flips}
      /\ row.status = "open" /\ ~row.closedAt
      /\ row.clock = 1 /\ row.told = {} /\ row.stamped = {}
  BY DEF NewCase, Columns
<1>5. kase' = Append(kase, row)
  BY <1>1
<1> HIDE DEF row
<1>6. /\ Listed' /\ Rows' /\ Len(kase) + 1 \notin Ids
      /\ Ids' = Ids \cup {Len(kase) + 1} /\ kase'[Len(kase) + 1] = row
      /\ \A c \in Ids : kase'[c] = kase[c]
  BY <1>4, <1>5, Added DEF Shapes
<1>7. Roles'
  BY <1>3, PassRoles
<1>8. QED
  BY <1>3, <1>4, <1>6, <1>7 DEF Shapes, Same, Looks, Status, Ticks

LEMMA Recovers ==
  ASSUME Shapes, MarkRecovered
  PROVE  /\ Shapes' /\ Ids' = Ids /\ (Flags(0, "idle") \/ Flags(0, "dispatch"))
         /\ \A c \in Ids :
              \/ Same(c)
              \/ /\ c = proc[Evaluator].case /\ Looks(c) /\ Ticks(c)
                 /\ kase'[c].status = "resolved" /\ kase'[c].closedAt
<1> DEFINE d == proc[Evaluator].case
           row == Resolved(kase[d])
<1>1. /\ flag' = [flag EXCEPT ![proc[Evaluator].pair] = 0] /\ flips' = flips /\ sla' = sla
      /\ Writes(d, row) \/ kase' = kase
      /\ \/ proc' = [proc EXCEPT ![Evaluator] = [at |-> "dispatch", case |-> d, event |-> "closed"]]
         \/ proc' = [proc EXCEPT ![Evaluator] = [at |-> "idle"]]
  BY Zenon DEF MarkRecovered, Writes, Idle
<1>2. Flags(0, "idle") \/ Flags(0, "dispatch")
  <2>1. CASE proc' = [proc EXCEPT ![Evaluator] = [at |-> "dispatch", case |-> d, event |-> "closed"]]
    BY <1>1, <2>1, Zenon DEF GoesOn, Flags
  <2>2. CASE proc' = [proc EXCEPT ![Evaluator] = [at |-> "idle"]]
    BY <1>1, <2>2, Zenon DEF GoesOn, Flags
  <2>3. QED
    BY <1>1, <2>1, <2>2
<1>3. Roles'
  BY <1>2, PassRoles
<1>4. CASE kase' = kase
  BY <1>2, <1>3, <1>4, NothingWritten DEF Quiet, Same
<1>5. CASE Writes(d, row)
  <2>1. d \in Ids => /\ DOMAIN row = Columns /\ row.status = "resolved" /\ row.pair = kase[d].pair
                     /\ row.closedAt /\ row.violations = kase[d].violations
                     /\ row.told = kase[d].told /\ row.stamped = kase[d].stamped
                     /\ row.clock = kase[d].clock
    BY ResolvedRow DEF Shapes, Rows
  <2> HIDE DEF row
  <2>2. /\ Listed' /\ Rows' /\ Ids' = Ids
        /\ \A c \in Ids : kase'[c] = IF c = d THEN row ELSE kase[c]
    BY <1>5, <2>1, Edited DEF Shapes
  <2>3. QED
    BY <1>2, <1>3, <2>1, <2>2 DEF Shapes, Same, Looks, Status, Ticks
<1>6. QED
  BY <1>1, <1>4, <1>5

---------------------------------------------------------------------------
(* Violations belong to one pair *)

\* The pass is about a pair, and writes a case of that pair.
PassPairs ==
  LET e == proc[Evaluator] IN
  /\ e.at \in Searching => e.pair \in Pairs
  /\ e.at = "upsert" => e.how \in {"link", "reopen", "create"}
  /\ (e.at = "upsert" /\ e.how # "create") \/ e.at = "recover" =>
       e.case \in Ids /\ kase[e.case].pair = e.pair

\* What flags a pair is in no case of another, and the violation of the pass is new.
Belongs ==
  /\ flips \in Nat /\ flag \in [Pairs -> 0..flips]
  /\ \A c \in Ids : kase[c].violations \subseteq 1..flips
  /\ \A p \in Pairs, c \in Ids : flag[p] \in kase[c].violations => kase[c].pair = p
  /\ proc[Evaluator].at \in {"find", "upsert"} =>
       /\ \A p \in Pairs : flag[p] # flips
       /\ \A c \in Ids : flips \notin kase[c].violations

BaseInv == Shapes /\ PassPairs /\ Belongs

LEMMA BaseInit == Init => BaseInv
<1> SUFFICES ASSUME Init PROVE BaseInv
  OBVIOUS
<1>1. kase = <<>> /\ Ids = {}
  BY DEF Init, Ids
<1>2. Listed
  <2>1. kase = [c \in 1..0 |-> kase[c]]
    BY <1>1
  <2>2. QED
    BY <2>1 DEF Listed
<1>3. DOMAIN proc = Procs /\ \A x \in Procs : proc[x].at = "idle"
  BY DEF Init, Idle
<1>4. Roles
  BY <1>3 DEF Roles, Procs
<1>5. flips = 0 /\ flag = [p \in Pairs |-> 0] /\ proc[Evaluator].at = "idle"
  BY <1>3 DEF Init, Procs
<1>6. QED
  BY <1>1, <1>2, <1>4, <1>5 DEF BaseInv, Shapes, Rows, PassPairs, Belongs, Searching

LEMMA AsideBase == ASSUME BaseInv, Shapes', Aside PROVE BaseInv'
<1>1. PassPairs'
  BY DEF BaseInv, PassPairs, Aside, Looks, Searching
<1>2. Belongs'
  <2>1. /\ flips' \in Nat /\ flag' \in [Pairs -> 0..flips']
    BY DEF BaseInv, Belongs, Aside
  <2>2. ASSUME NEW c \in Ids'
        PROVE  /\ kase'[c].violations \subseteq 1..flips
               /\ \A p \in Pairs : flag[p] \in kase'[c].violations => kase'[c].pair = p
               /\ proc[Evaluator].at \in {"find", "upsert"} => flips \notin kase'[c].violations
    <3>1. CASE c \in Ids
      BY <3>1 DEF BaseInv, Belongs, Aside, Looks
    <3>2. CASE c \notin Ids
      BY <3>2 DEF Aside
    <3>3. QED
      BY <3>1, <3>2
  <2>3. QED
    BY <2>1, <2>2 DEF BaseInv, Belongs, Aside, Searching
<1>3. QED
  BY <1>1, <1>2 DEF BaseInv

\* What the searches find.
LEMMA FindsOpen ==
  ASSUME Shapes, NEW p \in Pairs, FindOpen(p)
  PROVE  /\ kase' = kase /\ flag' = flag /\ flips' = flips + 1 /\ flag[p] = 0
         /\ \A x \in Admins : proc'[x] = proc[x]
         /\ proc'[Evaluator].pair = p
         /\ \/ proc'[Evaluator].at = "find" /\ Opened(p) = {}
            \/ /\ proc'[Evaluator].at = "upsert" /\ proc'[Evaluator].how = "link"
               /\ proc'[Evaluator].case \in Opened(p)
<1>1. kase' = kase /\ flag' = flag /\ flips' = flips + 1 /\ flag[p] = 0
  BY Zenon DEF FindOpen
<1>2. DOMAIN proc = Procs /\ Evaluator \in Procs /\ Admins \subseteq Procs /\ Evaluator \notin Admins
  BY CaseAssumption DEF Shapes, Roles, Procs
<1>3. CASE proc' = [proc EXCEPT ![Evaluator] = [at |-> "find", pair |-> p]] /\ Opened(p) = {}
  BY <1>1, <1>2, <1>3, Zenon
<1>4. ASSUME NEW c \in Opened(p),
             proc' = [proc EXCEPT ![Evaluator] =
                        [at |-> "upsert", pair |-> p, how |-> "link", case |-> c]]
      PROVE  /\ \A x \in Admins : proc'[x] = proc[x]
             /\ proc'[Evaluator].pair = p /\ proc'[Evaluator].at = "upsert"
             /\ proc'[Evaluator].how = "link" /\ proc'[Evaluator].case \in Opened(p)
  BY <1>2, <1>4, Zenon
<1>5. QED
  BY <1>1, <1>3, <1>4, Zenon DEF FindOpen

LEMMA FindsClosed ==
  ASSUME Shapes, FindClosed
  PROVE  LET e == proc[Evaluator]
             n == proc'[Evaluator]
         IN  /\ kase' = kase /\ flag' = flag /\ flips' = flips
             /\ \A x \in Admins : proc'[x] = proc[x]
             /\ e.at = "find" /\ n.at = "upsert" /\ n.pair = e.pair
             /\ \/ n.how = "reopen" /\ n.case \in Recurring(e.pair)
                \/ n.how = "create" /\ Recurring(e.pair) = {}
<1> DEFINE e == proc[Evaluator]
           n == proc'[Evaluator]
<1>1. kase' = kase /\ flag' = flag /\ flips' = flips /\ e.at = "find"
  BY Zenon DEF FindClosed
<1>2. DOMAIN proc = Procs /\ Evaluator \in Procs /\ Admins \subseteq Procs /\ Evaluator \notin Admins
  BY CaseAssumption DEF Shapes, Roles, Procs
<1>3. ASSUME NEW c, Recurring(e.pair) = {},
             proc' = [proc EXCEPT ![Evaluator] =
                        [at |-> "upsert", pair |-> e.pair, how |-> "create", case |-> c]]
      PROVE  /\ \A x \in Admins : proc'[x] = proc[x]
             /\ n.at = "upsert" /\ n.pair = e.pair /\ n.how = "create"
  BY <1>2, <1>3, Zenon
<1>4. ASSUME NEW c \in Recurring(e.pair),
             proc' = [proc EXCEPT ![Evaluator] =
                        [at |-> "upsert", pair |-> e.pair, how |-> "reopen", case |-> c]]
      PROVE  /\ \A x \in Admins : proc'[x] = proc[x]
             /\ n.at = "upsert" /\ n.pair = e.pair /\ n.how = "reopen" /\ n.case \in Recurring(e.pair)
  BY <1>2, <1>4, Zenon
<1>5. QED
  BY <1>1, <1>3, <1>4, Zenon DEF FindClosed

LEMMA FindsRecovered ==
  ASSUME Shapes, NEW p \in Pairs, FindRecovered(p)
  PROVE  LET n == proc'[Evaluator]
         IN  /\ kase' = kase /\ flips' = flips /\ proc[Evaluator].at = "idle"
             /\ \A x \in Admins : proc'[x] = proc[x]
             /\ \/ /\ flag' = flag /\ n.at = "recover" /\ n.pair = p
                   /\ n.case \in Ids /\ flag[p] \in kase[n.case].violations
                \/ flag' = [flag EXCEPT ![p] = 0] /\ proc' = proc
<1> DEFINE n == proc'[Evaluator]
           linked == {c \in Ids : IsOpen(c) /\ flag[p] \in kase[c].violations}
<1>1. kase' = kase /\ flips' = flips /\ proc[Evaluator].at = "idle"
  <2>1. kase' = kase /\ flips' = flips /\ proc[Evaluator] = Idle
    BY Zenon DEF FindRecovered
  <2>2. QED
    BY <2>1 DEF Idle
<1>2. DOMAIN proc = Procs /\ Evaluator \in Procs /\ Admins \subseteq Procs /\ Evaluator \notin Admins
  BY CaseAssumption DEF Shapes, Roles, Procs
<1>3. ASSUME NEW c \in linked,
             proc' = [proc EXCEPT ![Evaluator] = [at |-> "recover", pair |-> p, case |-> c]]
      PROVE  /\ \A x \in Admins : proc'[x] = proc[x]
             /\ n.at = "recover" /\ n.pair = p
             /\ n.case \in Ids /\ flag[p] \in kase[n.case].violations
  BY <1>2, <1>3, Zenon
<1>4. QED
  BY <1>1, <1>3, Zenon DEF FindRecovered

LEMMA FlagSet ==
  ASSUME BaseInv, NEW p \in Pairs, NEW f \in 0..flips, flag' = [flag EXCEPT ![p] = f]
  PROVE  /\ flag' \in [Pairs -> 0..flips] /\ flag'[p] = f
         /\ \A q \in Pairs : q # p => flag'[q] = flag[q]
BY DEF BaseInv, Belongs

\* The steps of the pass.
PassStep == (\E p \in Pairs : FindOpen(p) \/ FindRecovered(p)) \/ FindClosed \/ Upsert \/ MarkRecovered

LEMMA PassBase == ASSUME BaseInv, PassStep PROVE BaseInv'
<1> USE DEF BaseInv
<1>1. ASSUME NEW p \in Pairs, FindOpen(p) PROVE BaseInv'
  <2>1. Quiet /\ Shapes'
    BY <1>1, PassReads
  <2>2. PassPairs'
    BY <1>1, <2>1, FindsOpen DEF PassPairs, Opened, CasesOf, Quiet, Looks, Searching
  <2>3. Belongs'
    BY <1>1, <2>1, FindsOpen DEF Belongs, Quiet
  <2>4. QED
    BY <2>1, <2>2, <2>3
<1>2. ASSUME NEW p \in Pairs, FindRecovered(p) PROVE BaseInv'
  <2>1. Quiet /\ Shapes' /\ kase' = kase /\ flips' = flips
    BY <1>2, PassReads, FindsRecovered
  <2>2. PassPairs'
    BY <1>2, <2>1, FindsRecovered DEF PassPairs, Belongs, Quiet, Searching
  <2>3. CASE flag' = flag /\ proc'[Evaluator].at = "recover"
    BY <2>1, <2>2, <2>3 DEF Belongs, Quiet
  <2>4. CASE flag' = [flag EXCEPT ![p] = 0] /\ proc' = proc
    <3>1. 0 \in 0..flips
      BY DEF Belongs
    <3>2. flag' \in [Pairs -> 0..flips] /\ flag'[p] = 0 /\ \A q \in Pairs : q # p => flag'[q] = flag[q]
      BY <2>4, <3>1, FlagSet
    <3>3. Belongs'
      BY <1>2, <2>1, <2>4, <3>2, FindsRecovered DEF Belongs, Quiet
    <3>4. QED
      BY <2>1, <2>2, <3>3
  <2>5. QED
    BY <1>2, <2>3, <2>4, FindsRecovered
<1>3. ASSUME FindClosed PROVE BaseInv'
  <2>1. Quiet /\ Shapes'
    BY <1>3, PassReads
  <2>2. PassPairs'
    BY <1>3, <2>1, FindsClosed DEF PassPairs, Recurring, CasesOf, Quiet, Looks, Searching
  <2>3. Belongs'
    BY <1>3, <2>1, FindsClosed DEF Belongs, Quiet
  <2>4. QED
    BY <2>1, <2>2, <2>3
<1>4. ASSUME Upsert PROVE BaseInv'
  <2> DEFINE e == proc[Evaluator]
  <2>1. e.at = "upsert"
    BY <1>4, Zenon DEF Upsert
  <2>2. /\ e.pair \in Pairs /\ e.how \in {"link", "reopen", "create"}
        /\ e.how # "create" => e.case \in Ids /\ kase[e.case].pair = e.pair
    BY <2>1 DEF PassPairs, Searching
  <2>3. /\ Shapes' /\ (Flags(flips, "idle") \/ Flags(flips, "dispatch"))
        /\ Ids \subseteq Ids' /\ \A c \in Ids : kase'[c].pair = kase[c].pair
        /\ \A c \in Ids : \/ kase'[c].violations = kase[c].violations
                          \/ /\ kase[c].pair = e.pair
                             /\ kase'[c].violations = kase[c].violations \cup {flips}
        /\ \A c \in Ids' \ Ids : kase'[c].pair = e.pair /\ kase'[c].violations = {flips}
    <3>1. CASE e.how = "link"
      BY <1>4, <2>2, <3>1, Links
    <3>2. CASE e.how = "reopen"
      BY <1>4, <2>2, <3>2, ReopensCase DEF Same, Looks
    <3>3. CASE e.how = "create"
      BY <1>4, <3>3, Creates DEF Same, Looks
    <3>4. QED
      BY <2>2, <3>1, <3>2, <3>3
  <2>4. flag' = [flag EXCEPT ![e.pair] = flips] /\ flips' = flips
    BY <2>3, Zenon DEF Flags
  <2>5. proc'[Evaluator].at \notin Searching
    BY <2>3, PassRoles
  <2>6. flips \in 0..flips /\ flips \in Nat
    BY DEF Belongs
  <2>7. /\ flag' \in [Pairs -> 0..flips] /\ flag'[e.pair] = flips
        /\ \A q \in Pairs : q # e.pair => flag'[q] = flag[q]
    BY <2>2, <2>4, <2>6, FlagSet
  <2>8. PassPairs'
    BY <2>5 DEF PassPairs, Searching
  <2>9. ASSUME NEW c \in Ids'
        PROVE  /\ kase'[c].violations \subseteq 1..flips
               /\ \A p \in Pairs : flag'[p] \in kase'[c].violations => kase'[c].pair = p
    <3>1. flips \in 1..flips
      BY <2>1, <2>2, <2>6 DEF Belongs
    <3>2. \A p \in Pairs : flag[p] # flips
      BY <2>1 DEF Belongs
    <3>3. CASE c \in Ids
      <4>1. /\ kase[c].violations \subseteq 1..flips /\ flips \notin kase[c].violations
            /\ \A p \in Pairs : flag[p] \in kase[c].violations => kase[c].pair = p
        BY <2>1, <3>3 DEF Belongs
      <4>2. QED
        BY <2>3, <2>7, <3>1, <3>2, <3>3, <4>1
    <3>4. CASE c \notin Ids
      BY <2>3, <2>7, <3>1, <3>2, <3>4
    <3>5. QED
      BY <3>3, <3>4
  <2>10. Belongs'
    BY <2>4, <2>5, <2>6, <2>7, <2>9 DEF Belongs, Searching
  <2>11. QED
    BY <2>3, <2>8, <2>10
<1>5. ASSUME MarkRecovered PROVE BaseInv'
  <2> DEFINE e == proc[Evaluator]
  <2>1. e.at = "recover" /\ e.pair \in Pairs
    <3>1. e.at = "recover"
      BY <1>5, Zenon DEF MarkRecovered
    <3>2. QED
      BY <3>1 DEF PassPairs, Searching
  <2>2. /\ Shapes' /\ Ids' = Ids /\ (Flags(0, "idle") \/ Flags(0, "dispatch"))
        /\ \A c \in Ids : Looks(c)
    BY <1>5, Recovers DEF Same
  <2>3. flag' = [flag EXCEPT ![e.pair] = 0] /\ flips' = flips
    BY <2>2, Zenon DEF Flags
  <2>4. proc'[Evaluator].at \notin Searching
    BY <2>2, PassRoles
  <2>5. 0 \in 0..flips
    BY DEF Belongs
  <2>6. /\ flag' \in [Pairs -> 0..flips] /\ flag'[e.pair] = 0
        /\ \A q \in Pairs : q # e.pair => flag'[q] = flag[q]
    BY <2>1, <2>3, <2>5, FlagSet
  <2>7. PassPairs' /\ Belongs'
    BY <2>2, <2>3, <2>4, <2>6 DEF PassPairs, Belongs, Searching, Looks
  <2>8. QED
    BY <2>2, <2>7
<1>6. QED
  BY <1>1, <1>2, <1>3, <1>4, <1>5 DEF PassStep

\* The steps of everybody else.
OtherStep ==
  \/ \E x \in Admins : \/ CreateCase(x)
                       \/ \E c \in Ids : UpdateRead(x, c) \/ Retry(x, c) \/ ManualFetch(x, c)
  \/ \E x \in Procs : Finish(x)
  \/ SyncTick \/ SlaTick \/ SlaFails
  \/ \E c \in Ids, k \in Kinds : TimePasses(c, k)

LEMMA StepsAreSomebodys == [Next]_vars => PassStep \/ OtherStep \/ UNCHANGED vars
BY DEF Next, Pass, PassStep, OtherStep

LEMMA OthersAside ==
  ASSUME Shapes, OtherStep \/ UNCHANGED vars
  PROVE  Shapes' /\ Aside /\ Respects
<1>1. ASSUME NEW x \in Admins, CreateCase(x) PROVE Shapes' /\ Aside /\ Respects
  BY <1>1, CreateAside
<1>2. ASSUME NEW x \in Admins, NEW c \in Ids, UpdateRead(x, c) \/ Retry(x, c) \/ ManualFetch(x, c)
      PROVE  Shapes' /\ Aside /\ Respects
  BY <1>2, AskedAside DEF Quiet
<1>3. ASSUME NEW x \in Procs, Finish(x) PROVE Shapes' /\ Aside /\ Respects
  <2>1. CASE UpdateWrite(x)
    BY <2>1, UpdateWriteAside
  <2>2. CASE OpenTicket(x) \/ CloseTicket(x) \/ AttachRead(x)
    BY <2>2, TicketAside DEF Quiet
  <2>3. CASE AttachWrite(x)
    BY <2>3, AttachAside DEF Quiet
  <2>4. CASE ManualSave(x)
    BY <2>4, ManualSaveAside
  <2>5. QED
    BY <1>3, <2>1, <2>2, <2>3, <2>4 DEF Finish
<1>4. ASSUME SyncTick PROVE Shapes' /\ Aside /\ Respects
  <2>1. CASE SyncScan \/ (\E c \in Ids : SyncFetch(c)) \/ SyncSave
    BY <2>1, SyncAside DEF Quiet
  <2>2. CASE SyncResolve
    BY <2>2, SyncResolveAside
  <2>3. QED
    BY <1>4, <2>1, <2>2 DEF SyncTick
<1>5. ASSUME SlaTick PROVE Shapes' /\ Aside /\ Respects
  <2>1. OnlyStamps
    BY <1>5, SlaReads, SlaStamps, SlaNotifies DEF SlaTick
  <2>2. QED
    BY <2>1 DEF OnlyStamps, Aside, Respects
<1>6. ASSUME NEW c \in Ids, NEW k \in Kinds, TimePasses(c, k)
      PROVE  Shapes' /\ Aside /\ Respects
  BY <1>6, TimeAside DEF Quiet
<1>7. ASSUME UNCHANGED vars PROVE Shapes' /\ Aside /\ Respects
  <2>1. kase' = kase /\ flag' = flag /\ flips' = flips /\ proc' = proc
    BY <1>7 DEF vars
  <2>2. Roles'
    BY <2>1 DEF Shapes, Roles
  <2>3. Quiet
    BY <2>1, <2>2, NothingWritten
  <2>4. QED
    BY <2>1, <2>3, QuietIsAside DEF Quiet
<1>8. ASSUME SlaFails PROVE Shapes' /\ Aside /\ Respects
  BY <1>8, SlaEnds, QuietIsAside DEF Quiet
<1>9. QED
  BY <1>1, <1>2, <1>3, <1>4, <1>5, <1>6, <1>7, <1>8 DEF OtherStep

LEMMA BaseStep == ASSUME BaseInv, [Next]_vars PROVE BaseInv'
BY StepsAreSomebodys, PassBase, OthersAside, AsideBase DEF BaseInv

---------------------------------------------------------------------------
(* One case per pair *)

\* What a calm pass has found still holds when it writes.
PassKnows ==
  LET e == proc[Evaluator] IN
  /\ e.at = "find" => \A c \in Ids : kase[c].pair = e.pair => ~IsOpen(c)
  /\ e.at = "upsert" /\ e.how = "create" => \A c \in Ids : kase[c].pair # e.pair
  /\ e.at = "upsert" /\ e.how = "link" => IsOpen(e.case)

CaseInv == BaseInv /\ OneCasePerPair /\ PassKnows

LEMMA AsideCases ==
  ASSUME CaseInv, "evaluate" \in Calm, Aside, Respects
  PROVE  OneCasePerPair' /\ PassKnows'
<1>1. OneCasePerPair'
  BY DEF CaseInv, OneCasePerPair, Aside, Looks
<1>2. PassKnows'
  <2>1. CASE proc'[Evaluator].at \notin Searching
    BY <2>1 DEF PassKnows, Searching
  <2>2. CASE proc'[Evaluator] = proc[Evaluator] /\ proc[Evaluator].at \in Searching
    <3> DEFINE e == proc[Evaluator]
    <3>1. e.pair \in Pairs /\ e.pair # Manual
      BY <2>2, CaseAssumption DEF CaseInv, BaseInv, PassPairs
    <3>2. \A c \in Ids' : kase'[c].pair = e.pair => c \in Ids /\ kase[c].pair = e.pair /\ Status(c)
      BY <2>2, <3>1 DEF Aside, Respects, Looks
    <3>3. \A c \in Ids' : kase'[c].pair = e.pair => (IsOpen(c)' <=> IsOpen(c))
      BY <3>2 DEF IsOpen, Status
    <3>4. e.at = "upsert" /\ e.how = "link" => e.case \in Ids' /\ kase'[e.case].pair = e.pair
      BY DEF CaseInv, BaseInv, PassPairs, Aside, Looks
    <3>5. QED
      BY <2>2, <3>2, <3>3, <3>4 DEF CaseInv, PassKnows, IsOpen
  <2>3. QED
    BY <2>1, <2>2 DEF Aside
<1>3. QED
  BY <1>1, <1>2

LEMMA PassCases ==
  ASSUME CaseInv, PassStep
  PROVE  OneCasePerPair' /\ PassKnows'
<1> USE DEF CaseInv, BaseInv
<1>1. ASSUME NEW p \in Pairs, FindOpen(p) PROVE OneCasePerPair' /\ PassKnows'
  BY <1>1, FindsOpen DEF OneCasePerPair, PassKnows, Opened, CasesOf, IsOpen, Ids
<1>2. ASSUME NEW p \in Pairs, FindRecovered(p) PROVE OneCasePerPair' /\ PassKnows'
  BY <1>2, FindsRecovered DEF OneCasePerPair, PassKnows, Ids
<1>3. ASSUME FindClosed PROVE OneCasePerPair' /\ PassKnows'
  BY <1>3, FindsClosed DEF OneCasePerPair, PassKnows, Recurring, Opened, CasesOf, IsOpen, Ids
<1>4. ASSUME Upsert PROVE OneCasePerPair' /\ PassKnows'
  <2> DEFINE e == proc[Evaluator]
  <2>1. e.at = "upsert" /\ e.how \in {"link", "reopen", "create"}
    <3>1. e.at = "upsert"
      BY <1>4, Zenon DEF Upsert
    <3>2. QED
      BY <3>1 DEF PassPairs
  <2>2. CASE e.how = "link"
    <3>1. PassKnows'
      BY <1>4, <2>2, Links, PassRoles DEF PassKnows, Searching
    <3>2. Ids' = Ids /\ \A c \in Ids : kase'[c].pair = kase[c].pair
      <4>1. Shapes
        OBVIOUS
      <4>2. QED
        BY <1>4, <2>2, <4>1, Links, Zenon
    <3>3. OneCasePerPair'
      BY <3>2 DEF OneCasePerPair
    <3>4. QED
      BY <3>1, <3>3
  <2>3. CASE e.how = "reopen"
    <3>1. PassKnows'
      BY <1>4, <2>3, ReopensCase, PassRoles DEF PassKnows, Searching
    <3>2. QED
      BY <1>4, <2>3, <3>1, ReopensCase DEF OneCasePerPair, Same, Looks
  <2>4. CASE e.how = "create"
    <3>1. PassKnows'
      BY <1>4, <2>4, Creates, PassRoles DEF PassKnows, Searching
    <3>2. PICK n : /\ n \notin Ids /\ Ids' = Ids \cup {n}
                   /\ kase'[n].pair = e.pair /\ \A c \in Ids : kase'[c].pair = kase[c].pair
      BY <1>4, <2>4, Creates DEF Same, Looks
    <3>3. \A c \in Ids : kase[c].pair # e.pair
      BY <2>1, <2>4 DEF PassKnows
    <3>4. OneCasePerPair'
      BY <3>2, <3>3 DEF OneCasePerPair
    <3>5. QED
      BY <3>1, <3>4
  <2>5. QED
    BY <2>1, <2>2, <2>3, <2>4
<1>5. ASSUME MarkRecovered PROVE OneCasePerPair' /\ PassKnows'
  <2>1. PassKnows'
    BY <1>5, Recovers, PassRoles DEF PassKnows, Searching
  <2>2. QED
    BY <1>5, <2>1, Recovers DEF OneCasePerPair, Same, Looks
<1>6. QED
  BY <1>1, <1>2, <1>3, <1>4, <1>5 DEF PassStep

LEMMA CaseInitInv == Init => CaseInv
BY BaseInit DEF Init, CaseInv, OneCasePerPair, PassKnows, Ids, Idle, Procs

LEMMA CaseStepInv == ASSUME CaseInv, "evaluate" \in Calm, [Next]_vars PROVE CaseInv'
<1>1. BaseInv'
  BY BaseStep DEF CaseInv
<1>2. OneCasePerPair' /\ PassKnows'
  BY StepsAreSomebodys, PassCases, OthersAside, AsideCases DEF CaseInv, BaseInv
<1>3. QED
  BY <1>1, <1>2 DEF CaseInv

\* upsertCaseForViolation: a device and a policy never get a second case, whatever
\* administrators and ticks do, if they keep off the cases a pass is about to write.
THEOREM OneCase == "evaluate" \in Calm => (Spec => []OneCasePerPair)
<1> SUFFICES ASSUME "evaluate" \in Calm PROVE Spec => []OneCasePerPair
  OBVIOUS
<1>1. CaseInv => OneCasePerPair
  BY DEF CaseInv
<1>2. QED
  BY <1>1, CaseInitInv, CaseStepInv, PTL DEF Spec

\* upsertCaseForViolation: a violation a pass records is linked to an open case of its
\* policy and device, found, reopened or created, under the same condition.
THEOREM ViolationsAreInOpenCases ==
  "evaluate" \in Calm => (Spec => ViolationsReachOpenCase)
<1> SUFFICES ASSUME "evaluate" \in Calm PROVE Spec => ViolationsReachOpenCase
  OBVIOUS
<1> DEFINE Reached == \A p \in Pairs : flag'[p] # 0 /\ flag'[p] # flag[p] =>
                        \E c \in DOMAIN kase' : /\ kase'[c].status \in Open /\ kase'[c].pair = p
                                                /\ flag'[p] \in kase'[c].violations
<1>1. ASSUME CaseInv, [Next]_vars PROVE Reached
  <2>1. CASE OtherStep \/ UNCHANGED vars
    BY <1>1, <2>1, OthersAside DEF CaseInv, BaseInv, Aside
  <2>2. ASSUME NEW p \in Pairs, FindOpen(p) \/ FindRecovered(p) PROVE Reached
    <3>1. flag' = flag \/ flag' = [flag EXCEPT ![p] = 0]
      BY <1>1, <2>2, FindsOpen, FindsRecovered DEF CaseInv, BaseInv
    <3>2. 0 \in 0..flips
      BY <1>1 DEF CaseInv, BaseInv, Belongs
    <3>3. CASE flag' = [flag EXCEPT ![p] = 0]
      BY <1>1, <3>2, <3>3, FlagSet DEF CaseInv
    <3>4. QED
      BY <3>1, <3>3
  <2>3. CASE FindClosed
    BY <1>1, <2>3, FindsClosed DEF CaseInv, BaseInv
  <2>4. CASE MarkRecovered
    <3>1. proc[Evaluator].at = "recover"
      BY <2>4, Zenon DEF MarkRecovered
    <3>2. proc[Evaluator].pair \in Pairs
      BY <1>1, <3>1 DEF CaseInv, BaseInv, PassPairs, Searching
    <3>3. flag' = [flag EXCEPT ![proc[Evaluator].pair] = 0]
      BY <1>1, <2>4, Recovers, Zenon DEF CaseInv, BaseInv, Flags
    <3>4. 0 \in 0..flips
      BY <1>1 DEF CaseInv, BaseInv, Belongs
    <3>5. QED
      BY <1>1, <3>2, <3>3, <3>4, FlagSet DEF CaseInv
  <2>5. CASE Upsert
    <3> DEFINE e == proc[Evaluator]
    <3>1. e.at = "upsert"
      BY <2>5, Zenon DEF Upsert
    <3>2. /\ e.pair \in Pairs /\ e.how \in {"link", "reopen", "create"}
          /\ e.how # "create" => e.case \in Ids /\ kase[e.case].pair = e.pair
          /\ e.how = "link" => kase[e.case].status \in Open
      BY <1>1, <3>1 DEF CaseInv, BaseInv, PassPairs, PassKnows, IsOpen, Searching
    <3>3. /\ Flags(flips, "idle") \/ Flags(flips, "dispatch")
          /\ \E c \in Ids' : /\ kase'[c].status \in Open /\ kase'[c].pair = e.pair
                             /\ flips \in kase'[c].violations
      <4>1. CASE e.how = "link"
        <5>1. Shapes
          BY <1>1 DEF CaseInv, BaseInv
        <5>2. /\ Flags(flips, "idle") /\ Ids' = Ids
              /\ kase'[e.case].pair = kase[e.case].pair
              /\ kase'[e.case].status = kase[e.case].status
              /\ flips \in kase'[e.case].violations
          BY <5>1, <2>5, <3>2, <4>1, Links, ZenonT(60) DEF Status
        <5>3. QED
          BY <3>2, <4>1, <5>2
      <4>2. CASE e.how = "reopen"
        BY <1>1, <2>5, <3>2, <4>2, ReopensCase DEF CaseInv, BaseInv, Open
      <4>3. CASE e.how = "create"
        BY <1>1, <2>5, <3>2, <4>3, Creates DEF CaseInv, BaseInv, Open
      <4>4. QED
        BY <3>2, <4>1, <4>2, <4>3
    <3>4. flag' = [flag EXCEPT ![e.pair] = flips]
      BY <3>3, Zenon DEF Flags
    <3>5. flips \in 0..flips
      BY <1>1 DEF CaseInv, BaseInv, Belongs
    <3>6. flag'[e.pair] = flips /\ \A q \in Pairs : q # e.pair => flag'[q] = flag[q]
      BY <1>1, <3>2, <3>4, <3>5, FlagSet DEF CaseInv
    <3>7. QED
      BY <3>3, <3>6 DEF Ids
  <2>6. QED
    BY <1>1, <2>1, <2>2, <2>3, <2>4, <2>5, StepsAreSomebodys DEF PassStep
<1>2. QED
  BY <1>1, CaseInitInv, CaseStepInv, PTL DEF Spec, ViolationsReachOpenCase

---------------------------------------------------------------------------
(* One notice per clock *)

\* A notice is stamped before it goes out.
StampedFirst ==
  \A c \in Ids : kase[c].clock \in Nat /\ kase[c].told \subseteq kase[c].stamped

\* No clock runs back behind what the tick read.
TickReads ==
  /\ sla.at \in {"idle", "scan", "stamp", "notify"}
  /\ sla.at # "idle" => \A c \in DOMAIN sla.seen :
       /\ c \in Ids /\ sla.seen[c].clock \in Nat /\ sla.seen[c].clock <= kase[c].clock
       /\ sla.seen[c].clock = kase[c].clock /\ (sla.at = "scan" \/ c # sla.case) =>
            sla.seen[c].stamped = kase[c].stamped

\* What is due on an unchanged clock is not yet stamped, but for what is being notified.
TickWrites ==
  sla.at \in {"stamp", "notify"} =>
    /\ DOMAIN sla = {"at", "seen", "case", "due"} /\ sla.case \in DOMAIN sla.seen
    /\ sla.seen[sla.case].clock = kase[sla.case].clock =>
         LET row == kase[sla.case]
             k   == FirstOf(sla.due)
         IN  /\ sla.due \subseteq Kinds /\ sla.due \cap row.told = {}
             /\ k \in sla.due
             /\ sla.at = "stamp"  => sla.due \cap row.stamped = {}
             /\ sla.at = "notify" => k \in row.stamped /\ (sla.due \ {k}) \cap row.stamped = {}

NoticeInv == BaseInv /\ StampedFirst /\ TickReads /\ TickWrites

LEMMA PassClocked == ASSUME BaseInv, PassStep PROVE Clocked
<1>1. Shapes
  BY DEF BaseInv
<1>2. CASE (\E p \in Pairs : FindOpen(p) \/ FindRecovered(p)) \/ FindClosed
  BY <1>1, <1>2, PassReads
<1>3. CASE Upsert
  <2>1. proc[Evaluator].how \in {"link", "reopen", "create"}
    <3>1. proc[Evaluator].at = "upsert"
      BY <1>3, Zenon DEF Upsert
    <3>2. QED
      BY <3>1 DEF BaseInv, PassPairs
  <2>2. CASE proc[Evaluator].how = "link"
    <3>1. Ids' = Ids /\ Flags(flips, "idle") /\ \A c \in Ids : Ticks(c)
      BY <1>1, <1>3, <2>2, Links, Zenon
    <3>2. QED
      BY <3>1 DEF Clocked, Flags
  <2>3. CASE proc[Evaluator].how = "reopen"
    BY <1>1, <1>3, <2>3, ReopensCase DEF Clocked, Flags, Same
  <2>4. CASE proc[Evaluator].how = "create"
    BY <1>1, <1>3, <2>4, Creates DEF Clocked, Flags, Same
  <2>5. QED
    BY <2>1, <2>2, <2>3, <2>4
<1>4. CASE MarkRecovered
  BY <1>1, <1>4, Recovers DEF Clocked, Flags, Same
<1>5. QED
  BY <1>2, <1>3, <1>4 DEF PassStep

LEMMA OthersClocked ==
  ASSUME Shapes, OtherStep \/ UNCHANGED vars, ~SlaTick, ~SlaFails
  PROVE  Clocked
<1>1. CASE UNCHANGED vars
  BY <1>1 DEF vars, Clocked, Ticks, Ids
<1>2. ASSUME NEW x \in Admins, CreateCase(x) PROVE Clocked
  BY <1>2, CreateAside
<1>3. ASSUME NEW x \in Admins, NEW c \in Ids, UpdateRead(x, c) \/ Retry(x, c) \/ ManualFetch(x, c)
      PROVE  Clocked
  BY <1>3, AskedAside
<1>4. ASSUME NEW x \in Procs, Finish(x) PROVE Clocked
  BY <1>4, UpdateWriteAside, TicketAside, AttachAside, ManualSaveAside DEF Finish
<1>5. ASSUME SyncTick PROVE Clocked
  BY <1>5, SyncAside, SyncResolveAside DEF SyncTick
<1>6. ASSUME NEW c \in Ids, NEW k \in Kinds, TimePasses(c, k) PROVE Clocked
  BY <1>6, TimeAside
<1>7. QED
  BY <1>1, <1>2, <1>3, <1>4, <1>5, <1>6 DEF OtherStep

LEMMA ClockedNotices ==
  ASSUME NoticeInv, Clocked
  PROVE  StampedFirst' /\ TickReads' /\ TickWrites'
<1>1. StampedFirst'
  BY DEF NoticeInv, StampedFirst, Clocked, Ticks
<1>2. TickReads'
  BY DEF NoticeInv, StampedFirst, TickReads, Clocked, Ticks
<1>3. TickWrites'
  <2>1. ASSUME sla.at \in {"stamp", "notify"} PROVE Ticks(sla.case) \/
            sla.seen[sla.case].clock < kase'[sla.case].clock
    BY <2>1 DEF NoticeInv, StampedFirst, TickReads, TickWrites, Clocked
  <2>2. QED
    BY <2>1 DEF NoticeInv, TickReads, TickWrites, Clocked, Ticks
<1>4. QED
  BY <1>1, <1>2, <1>3

\* The tick goes on with the cases it has read but for one.
Rest(c, next) ==
  \/ next.at = "idle"
  \/ /\ next.at = "scan" /\ DOMAIN next.seen = DOMAIN sla.seen \ {c}
     /\ \A d \in DOMAIN next.seen : next.seen[d] = sla.seen[d]

LEMMA NextRests == ASSUME NEW c PROVE Rest(c, NextCase(sla, c))
<1> DEFINE rest == [d \in DOMAIN sla.seen \ {c} |-> sla.seen[d]]
<1>1. NextCase(sla, c) = Idle \/ NextCase(sla, c) = [at |-> "scan", seen |-> rest]
  BY DEF NextCase
<1>2. CASE NextCase(sla, c) = Idle
  BY <1>2 DEF Rest, Idle
<1>3. CASE NextCase(sla, c) = [at |-> "scan", seen |-> rest]
  BY <1>3 DEF Rest
<1>4. QED
  BY <1>1, <1>2, <1>3

LEMMA ReadNotices ==
  ASSUME NoticeInv, SlaScan \/ \E c \in Ids : SlaCheck(c)
  PROVE  StampedFirst' /\ TickReads' /\ TickWrites'
<1>1. kase' = kase /\ Ids' = Ids /\ StampedFirst'
  BY SlaReads DEF NoticeInv, BaseInv, OnlyStamps, StampedFirst
<1>2. CASE SlaScan
  <2>1. PICK cases : /\ cases = {c \in Ids : IsOpen(c)}
                     /\ sla' = [at |-> "scan", seen |-> [c \in cases |-> Snapshot(c)]]
    BY <1>2, Zenon DEF SlaScan
  <2>2. /\ sla'.at = "scan" /\ DOMAIN sla'.seen = cases
        /\ \A c \in cases : sla'.seen[c] = Snapshot(c)
    BY <2>1
  <2>3. \A c \in cases : /\ c \in Ids /\ sla'.seen[c].clock = kase[c].clock
                         /\ sla'.seen[c].stamped = kase[c].stamped
    BY <2>1, <2>2 DEF Snapshot
  <2>4. QED
    BY <1>1, <2>2, <2>3 DEF NoticeInv, StampedFirst, TickReads, TickWrites
<1>3. ASSUME NEW c \in Ids, SlaCheck(c) PROVE TickReads' /\ TickWrites'
  <2>1. sla.at = "scan" /\ c \in DOMAIN sla.seen
    BY <1>3, Zenon DEF SlaCheck
  <2>2. PICK late \in SUBSET Kinds :
          LET due == Due(sla.seen[c], late)
          IN  IF due = {} THEN sla' = NextCase(sla, c)
              ELSE sla' = [at |-> "stamp", seen |-> sla.seen, case |-> c, due |-> due]
    BY <1>3, Zenon DEF SlaCheck
  <2>3. CASE sla' = NextCase(sla, c)
    <3>1. Rest(c, sla')
      BY <2>3, NextRests
    <3>2. QED
      BY <1>1, <2>1, <3>1 DEF NoticeInv, TickReads, TickWrites, Rest
  <2>4. CASE sla' # NextCase(sla, c)
    <3> DEFINE due == Due(sla.seen[c], late)
    <3>1. sla' = [at |-> "stamp", seen |-> sla.seen, case |-> c, due |-> due] /\ due # {}
      BY <2>2, <2>4
    <3>2. due \cap sla.seen[c].stamped = {} /\ due \subseteq Kinds
      BY DEF Due
    <3> HIDE DEF due
    <3>3. /\ DOMAIN sla' = {"at", "seen", "case", "due"} /\ sla'.at = "stamp"
          /\ sla'.seen = sla.seen /\ sla'.case = c /\ sla'.due = due
      BY <3>1
    <3>4. TickReads'
      BY <1>1, <2>1, <3>3 DEF NoticeInv, TickReads
    <3>5. FirstOf(due) \in due
      BY <3>1, <3>2 DEF FirstOf, Kinds
    <3>6. sla.seen[c].clock = kase[c].clock =>
            due \cap kase[c].stamped = {} /\ due \cap kase[c].told = {}
      BY <2>1, <3>2 DEF NoticeInv, StampedFirst, TickReads
    <3>7. TickWrites'
      BY <1>1, <2>1, <3>2, <3>3, <3>5, <3>6 DEF TickWrites, FirstOf
    <3>8. QED
      BY <3>4, <3>7
  <2>5. QED
    BY <2>3, <2>4
<1>4. QED
  BY <1>1, <1>2, <1>3

LEMMA StampNotices ==
  ASSUME NoticeInv, SlaStamp
  PROVE  StampedFirst' /\ TickReads' /\ TickWrites'
<1>1. sla.at = "stamp" /\ sla' = [sla EXCEPT !.at = "notify"]
  BY Zenon DEF SlaStamp
<1>2. DOMAIN sla = {"at", "seen", "case", "due"} /\ sla.case \in DOMAIN sla.seen /\ sla.case \in Ids
  BY <1>1 DEF NoticeInv, TickReads, TickWrites
<1>3. /\ DOMAIN sla' = DOMAIN sla /\ sla'.at = "notify" /\ sla'.seen = sla.seen
      /\ sla'.case = sla.case /\ sla'.due = sla.due
  BY <1>1, <1>2
<1>4. Shapes
  BY DEF NoticeInv, BaseInv
<1>5. /\ Ids' = Ids
      /\ \A c \in Ids : kase'[c].clock = kase[c].clock /\ kase'[c].told = kase[c].told
      /\ \A c \in Ids : c # sla.case => kase'[c].stamped = kase[c].stamped
      /\ kase'[sla.case].stamped = kase[sla.case].stamped \cup {FirstOf(sla.due)}
  <2>1. /\ OnlyStamps
        /\ \A c \in Ids : kase'[c].told = kase[c].told
        /\ \A c \in Ids : c # sla.case => kase'[c].stamped = kase[c].stamped
        /\ kase'[sla.case].stamped = kase[sla.case].stamped \cup {FirstOf(sla.due)}
    BY <1>2, <1>4, SlaStamps, Zenon
  <2>2. QED
    BY <2>1 DEF OnlyStamps
<1>6. StampedFirst'
  BY <1>5 DEF NoticeInv, StampedFirst
<1>7. TickReads'
  BY <1>1, <1>3, <1>5 DEF NoticeInv, TickReads
<1>8. TickWrites'
  <2>1. FirstOf(sla.due)' = FirstOf(sla.due)
    BY <1>3 DEF FirstOf
  <2>2. QED
    BY <1>1, <1>2, <1>3, <1>5, <2>1 DEF NoticeInv, TickWrites
<1>9. QED
  BY <1>6, <1>7, <1>8

LEMMA SentNotices ==
  ASSUME NoticeInv, SlaNotify
  PROVE  StampedFirst' /\ TickReads' /\ TickWrites'
<1> DEFINE k == FirstOf(sla.due)
<1>1. /\ sla.at = "notify"
      /\ \/ sla' = NextCase(sla, sla.case)
         \/ sla' = [sla EXCEPT !.at = "stamp", !.due = sla.due \ {k}] /\ sla.due # {k}
  BY Zenon DEF SlaNotify
<1>2. DOMAIN sla = {"at", "seen", "case", "due"} /\ sla.case \in DOMAIN sla.seen /\ sla.case \in Ids
  BY <1>1 DEF NoticeInv, TickReads, TickWrites
<1>3. Shapes
  BY DEF NoticeInv, BaseInv
<1>4. /\ Ids' = Ids
      /\ \A c \in Ids : kase'[c].clock = kase[c].clock /\ kase'[c].stamped = kase[c].stamped
      /\ \A c \in Ids : \/ kase'[c].told = kase[c].told
                        \/ /\ c = sla.case /\ kase[c].clock = sla.seen[c].clock
                           /\ kase'[c].told = kase[c].told \cup {k}
  <2>1. /\ OnlyStamps
        /\ \A c \in Ids : kase'[c].stamped = kase[c].stamped
        /\ \A c \in Ids : \/ kase'[c].told = kase[c].told
                          \/ /\ c = sla.case /\ kase[c].clock = sla.seen[c].clock
                             /\ kase'[c].told = kase[c].told \cup {k}
    BY <1>3, SlaNotifies, Zenon
  <2>2. QED
    BY <2>1 DEF OnlyStamps
<1>5. StampedFirst'
  BY <1>1, <1>2, <1>4 DEF NoticeInv, StampedFirst, TickWrites
<1>6. CASE sla' = NextCase(sla, sla.case)
  <2>1. Rest(sla.case, sla')
    BY <1>6, NextRests
  <2>2. QED
    BY <1>1, <1>4, <1>5, <2>1 DEF NoticeInv, TickReads, TickWrites, Rest
<1>7. CASE sla' = [sla EXCEPT !.at = "stamp", !.due = sla.due \ {k}] /\ sla.due # {k}
  <2>1. /\ DOMAIN sla' = DOMAIN sla /\ sla'.at = "stamp" /\ sla'.seen = sla.seen
        /\ sla'.case = sla.case /\ sla'.due = sla.due \ {k}
    BY <1>2, <1>7
  <2>2. TickReads'
    BY <1>1, <1>4, <2>1 DEF NoticeInv, TickReads
  <2>3. TickWrites'
    <3>1. sla.due \subseteq Kinds /\ k \in sla.due => FirstOf(sla.due \ {k}) \in sla.due \ {k}
      BY <1>7 DEF FirstOf, Kinds
    <3>2. FirstOf(sla.due)' = FirstOf(sla.due \ {k})
      BY <2>1 DEF FirstOf
    <3> HIDE DEF k
    <3>3. QED
      BY <1>1, <1>2, <1>4, <2>1, <3>1, <3>2 DEF NoticeInv, TickWrites, k
  <2>4. QED
    BY <1>5, <2>2, <2>3
<1>8. QED
  BY <1>1, <1>6, <1>7

LEMMA CutNotices ==
  ASSUME NoticeInv, SlaFails
  PROVE  StampedFirst' /\ TickReads' /\ TickWrites'
<1>1. Shapes
  BY DEF NoticeInv, BaseInv
<1>2. Quiet /\ sla'.at = "idle"
  BY <1>1, SlaEnds
<1>3. QED
  BY <1>2 DEF NoticeInv, Quiet, Ticks, StampedFirst, TickReads, TickWrites

LEMMA NoticeStep == ASSUME NoticeInv, [Next]_vars PROVE NoticeInv'
<1>1. BaseInv'
  BY BaseStep DEF NoticeInv
<1>2. CASE SlaTick
  BY <1>1, <1>2, ReadNotices, StampNotices, SentNotices DEF SlaTick, NoticeInv
<1>3. CASE SlaFails
  BY <1>1, <1>3, CutNotices DEF NoticeInv
<1>4. CASE ~SlaTick /\ ~SlaFails
  <2>1. Clocked
    BY <1>4, StepsAreSomebodys, PassClocked, OthersClocked DEF NoticeInv, BaseInv
  <2>2. QED
    BY <1>1, <2>1, ClockedNotices DEF NoticeInv
<1>5. QED
  BY <1>2, <1>3, <1>4

LEMMA NoticeInit == Init => NoticeInv
<1>1. Init => Ids = {} /\ sla.at = "idle"
  BY DEF Init, Ids, Idle
<1>2. QED
  BY <1>1, BaseInit DEF NoticeInv, StampedFirst, TickReads, TickWrites

\* runCaseSlaMonitorTick: the stamp is written before the notices go out, so a clock is
\* never notified twice, whoever overtakes whom.
THEOREM NotifiedOnce == Spec => []NotifiedOncePerClock
<1>1. NoticeInv => NotifiedOncePerClock
  BY DEF NoticeInv, TickWrites, NotifiedOncePerClock
<1>2. QED
  BY <1>1, NoticeInit, NoticeStep, PTL DEF Spec

---------------------------------------------------------------------------
(* The closing time *)

StatusesKnown == \A c \in Ids : kase[c].status \in Open \cup Closed

\* What a calm update has read still holds when it writes.
UpdatesKnow ==
  \A x \in Admins : proc[x].at = "update" =>
    LET u == proc[x] IN
    /\ u.case \in Ids /\ u.seen.status = kase[u.case].status
    /\ u.ask.status \in Open \cup Closed \cup {Keep}

ClosedInv == BaseInv /\ StatusesKnown /\ ClosedAtAgrees /\ UpdatesKnow

\* A row that is written has a closing time to fit its status; the updates under way go
\* on as they were or are over, and what they read has kept its status.
Closings ==
  /\ \A c \in Ids' : \/ c \in Ids /\ Status(c) /\ kase'[c].closedAt = kase[c].closedAt
                     \/ /\ kase'[c].status \in Open \cup Closed
                        /\ kase'[c].closedAt <=> kase'[c].status \in Closed
  /\ \A x \in Admins : proc'[x].at = "update" =>
       /\ proc'[x] = proc[x]
       /\ proc[x].case \in Ids => proc[x].case \in Ids' /\ Status(proc[x].case)

LEMMA ClosingsFit ==
  ASSUME ClosedInv, BaseInv', Closings
  PROVE  ClosedInv'
<1>1. StatusesKnown' /\ ClosedAtAgrees'
  BY DEF ClosedInv, StatusesKnown, ClosedAtAgrees, Closings, Status
<1>2. UpdatesKnow'
  BY DEF ClosedInv, UpdatesKnow, Closings, Status
<1>3. QED
  BY <1>1, <1>2 DEF ClosedInv

\* The handlers that do not touch a status.
LEMMA QuietFits ==
  ASSUME Shapes, Quiet, \A x \in Admins : proc'[x] = proc[x] \/ proc'[x].at # "update"
  PROVE  Closings
BY DEF Quiet, Closings, Status

LEMMA AnUpdateReads ==
  ASSUME ClosedInv, BaseInv', NEW x \in Admins, NEW c \in Ids, UpdateRead(x, c)
  PROVE  ClosedInv'
<1>1. Quiet
  BY AskedAside DEF ClosedInv, BaseInv
<1>2. PICK ask \in Asks : proc' = [proc EXCEPT ![x] =
            [at |-> "update", case |-> c, ask |-> ask,
             seen |-> [status |-> kase[c].status, acked |-> kase[c].acked]]]
  BY Zenon DEF UpdateRead
<1>3. DOMAIN proc = Procs /\ Admins \subseteq Procs
  BY DEF ClosedInv, BaseInv, Shapes, Roles, Procs
<1>4. /\ proc'[x].case = c /\ proc'[x].seen.status = kase[c].status /\ proc'[x].ask = ask
      /\ \A y \in Admins : y # x => proc'[y] = proc[y]
  BY <1>2, <1>3
<1>5. ask.status \in Open \cup Closed \cup {Keep}
  BY DEF Asks
<1>6. StatusesKnown' /\ ClosedAtAgrees'
  BY <1>1 DEF ClosedInv, StatusesKnown, ClosedAtAgrees, Quiet, Status
<1>7. UpdatesKnow'
  BY <1>1, <1>4, <1>5 DEF ClosedInv, UpdatesKnow, Quiet, Status
<1>8. QED
  BY <1>6, <1>7 DEF ClosedInv

LEMMA AnUpdateWrites ==
  ASSUME ClosedInv, BaseInv', "update" \in Calm, NEW x \in Procs, UpdateWrite(x)
  PROVE  ClosedInv'
<1> DEFINE u == proc[x]
<1>1. u.at = "update" /\ Calmly(x, {u.case})
  BY Zenon DEF UpdateWrite
<1>2. x \in Admins
  BY <1>1 DEF ClosedInv, BaseInv, Shapes, Roles, Procs
<1>3. /\ u.case \in Ids /\ u.seen.status = kase[u.case].status
      /\ u.ask.status \in Open \cup Closed \cup {Keep}
      /\ kase[u.case].status \in Open \cup Closed
      /\ kase[u.case].closedAt <=> kase[u.case].status \in Closed
  BY <1>1, <1>2 DEF ClosedInv, UpdatesKnow, StatusesKnown, ClosedAtAgrees
<1>4. /\ Ids' = Ids /\ \A c \in Ids : c # u.case => kase'[c] = kase[c]
      /\ kase'[u.case] = Updated(kase[u.case], u.seen, u.ask)
      /\ GoesOn(x, {"dispatch", "idle"})
  BY <1>3, UpdateWriteAside DEF ClosedInv, BaseInv
<1>5. DOMAIN kase[u.case] = Columns
  BY <1>3 DEF ClosedInv, BaseInv, Shapes, Rows
<1>6. /\ kase'[u.case].status = IF u.ask.status = Keep THEN kase[u.case].status ELSE u.ask.status
      /\ Reopens(u.seen, u.ask) => ~kase'[u.case].closedAt
      /\ ~Reopens(u.seen, u.ask) =>
           (kase'[u.case].closedAt <=> (Closes(u.seen, u.ask) \/ kase[u.case].closedAt))
  BY <1>4, <1>5, UpdatedRow
<1>7. /\ kase'[u.case].status \in Open \cup Closed
      /\ kase'[u.case].closedAt <=> kase'[u.case].status \in Closed
  BY <1>3, <1>6 DEF Reopens, Closes, Open, Closed, Keep
<1>8. /\ proc'[x].at # "update" /\ \A y \in Admins : y # x => proc'[y] = proc[y]
  BY <1>2, <1>4 DEF ClosedInv, BaseInv, Shapes, Roles, GoesOn, Procs
<1>9. ASSUME NEW y \in Admins, y # x, proc[y].at = "update" PROVE proc[y].case # u.case
  BY <1>1, <1>9, CalmUpdates DEF Procs
<1>10. Closings
  BY <1>4, <1>7, <1>8, <1>9 DEF Closings, Status
<1>11. QED
  BY <1>10, ClosingsFit

\* A case that is resolved is nobody's whose update is under way.
LEMMA ResolvedFits ==
  ASSUME Shapes, "update" \in Calm, NEW who, NEW d, Resolves(d), Calmly(who, {d}),
         who \in Admins => proc[who].at # "update",
         \A y \in Admins : proc'[y] = proc[y] \/ proc'[y].at # "update"
  PROVE  Closings
<1>1. ASSUME NEW y \in Admins, proc[y].at = "update" PROVE proc[y].case # d
  BY <1>1, CalmUpdates DEF Procs
<1>2. QED
  BY <1>1 DEF Closings, Resolves, Status, Closed, Open

LEMMA OthersFit ==
  ASSUME ClosedInv, BaseInv', "update" \in Calm, OtherStep \/ UNCHANGED vars
  PROVE  ClosedInv'
<1>1. Shapes /\ DOMAIN proc = Procs /\ Admins \subseteq Procs
  BY DEF ClosedInv, BaseInv, Shapes, Roles, Procs
<1>2. CASE UNCHANGED vars
  BY <1>2 DEF vars, ClosedInv, StatusesKnown, ClosedAtAgrees, UpdatesKnow, Ids
<1>3. ASSUME NEW x \in Admins, CreateCase(x) PROVE ClosedInv'
  <2>1. GoesOn(x, {"dispatch"})
    BY <1>3, Zenon DEF CreateCase, GoesOn
  <2>2. \A y \in Admins : proc'[y] = proc[y] \/ proc'[y].at # "update"
    BY <1>1, <2>1 DEF GoesOn
  <2>3. Closings
    BY <1>1, <1>3, <2>2, CreateAside DEF Aside, Closings, Open, Closed
  <2>4. QED
    BY <2>3, ClosingsFit
<1>4. ASSUME NEW x \in Admins, NEW c \in Ids, UpdateRead(x, c) \/ Retry(x, c) \/ ManualFetch(x, c)
      PROVE  ClosedInv'
  <2>1. CASE UpdateRead(x, c)
    BY <2>1, AnUpdateReads
  <2>2. CASE Retry(x, c) \/ ManualFetch(x, c)
    <3>1. GoesOn(x, {"dispatch", "save"})
      <4>1. CASE Retry(x, c)
        BY <4>1, Zenon DEF Retry, GoesOn
      <4>2. CASE ManualFetch(x, c)
        <5>1. PICK answered, done : proc' = [proc EXCEPT ![x] =
                [at |-> "save", case |-> c, refs |-> Checked(kase[c].refs, answered),
                 done |-> Newly(kase[c].refs, answered)]]
          BY <4>2, Zenon DEF ManualFetch
        <5>2. QED
          BY <5>1, Zenon DEF GoesOn
      <4>3. QED
        BY <2>2, <4>1, <4>2
    <3>2. \A y \in Admins : proc'[y] = proc[y] \/ proc'[y].at # "update"
      BY <1>1, <3>1 DEF GoesOn
    <3>3. QED
      BY <1>1, <1>4, <3>2, AskedAside, QuietFits, ClosingsFit
  <2>3. QED
    BY <1>4, <2>1, <2>2
<1>5. ASSUME NEW x \in Procs, Finish(x) PROVE ClosedInv'
  <2>1. CASE UpdateWrite(x)
    BY <2>1, AnUpdateWrites
  <2>2. CASE OpenTicket(x) \/ CloseTicket(x) \/ AttachRead(x) \/ AttachWrite(x)
    <3>1. GoesOn(x, {"attach", "append", "idle"})
      BY <1>1, <2>2, FinishGoesOn
    <3>2. \A y \in Admins : proc'[y] = proc[y] \/ proc'[y].at # "update"
      BY <1>1, <3>1 DEF GoesOn
    <3>3. Quiet
      BY <1>1, <2>2, TicketAside, AttachAside
    <3>4. QED
      BY <1>1, <3>2, <3>3, QuietFits, ClosingsFit
  <2>3. CASE ManualSave(x)
    <3>1. proc[x].at = "save" /\ Calmly(x, {proc[x].case})
      BY <2>3, Zenon DEF ManualSave
    <3>2. Resolves(proc[x].case) /\ GoesOn(x, {"idle"})
      BY <1>1, <2>3, ManualSaveAside
    <3>3. \A y \in Admins : proc'[y] = proc[y] \/ proc'[y].at # "update"
      BY <1>1, <3>2 DEF GoesOn
    <3>4. QED
      BY <1>1, <3>1, <3>2, <3>3, ResolvedFits, ClosingsFit
  <2>4. QED
    BY <1>5, <2>1, <2>2, <2>3 DEF Finish
<1>6. ASSUME SyncTick PROVE ClosedInv'
  <2>1. CASE SyncScan \/ (\E c \in Ids : SyncFetch(c)) \/ SyncSave
    <3>1. proc' = proc
      BY <2>1, Zenon DEF SyncScan, SyncFetch, SyncSave
    <3>2. QED
      BY <1>1, <2>1, <3>1, SyncAside, QuietFits, ClosingsFit
  <2>2. CASE SyncResolve
    <3>1. Calmly("sync", {sync.case}) /\ "sync" \notin Admins
      BY <2>2, CaseAssumption, Zenon DEF SyncResolve
    <3>2. QED
      BY <1>1, <2>2, <3>1, SyncResolveAside, ResolvedFits, ClosingsFit
  <2>3. QED
    BY <1>6, <2>1, <2>2 DEF SyncTick
<1>7. ASSUME SlaTick PROVE ClosedInv'
  <2>1. OnlyStamps
    BY <1>1, <1>7, SlaReads, SlaStamps, SlaNotifies DEF SlaTick
  <2>2. Closings
    BY <2>1 DEF OnlyStamps, Closings, Status
  <2>3. QED
    BY <2>2, ClosingsFit
<1>8. ASSUME NEW c \in Ids, NEW k \in Kinds, TimePasses(c, k) PROVE ClosedInv'
  <2>1. proc' = proc
    BY <1>8, Zenon DEF TimePasses
  <2>2. QED
    BY <1>1, <1>8, <2>1, TimeAside, QuietFits, ClosingsFit
<1>9. ASSUME SlaFails PROVE ClosedInv'
  BY <1>1, <1>9, SlaEnds, QuietFits, ClosingsFit
<1>10. QED
  BY <1>2, <1>3, <1>4, <1>5, <1>6, <1>7, <1>8, <1>9 DEF OtherStep

LEMMA PassFits ==
  ASSUME ClosedInv, BaseInv', "update" \in Calm, PassStep
  PROVE  ClosedInv'
<1>1. Shapes
  BY DEF ClosedInv, BaseInv
<1>2. CASE (\E p \in Pairs : FindOpen(p) \/ FindRecovered(p)) \/ FindClosed
  <2>1. \A x \in Admins : proc'[x] = proc[x]
    BY <1>1, <1>2, FindsOpen, FindsRecovered, FindsClosed
  <2>2. QED
    BY <1>1, <1>2, <2>1, PassReads, QuietFits, ClosingsFit
<1>3. CASE Upsert \/ MarkRecovered
  <2> DEFINE e == proc[Evaluator]
  <2>1. Calmly(Evaluator, CasesOf(e.pair)) /\ e.at \in {"upsert", "recover"}
    BY <1>3, Zenon DEF Upsert, MarkRecovered
  <2>2. /\ e.at = "upsert" => e.how \in {"link", "reopen", "create"}
        /\ (e.at = "upsert" /\ e.how # "create") \/ e.at = "recover" => e.case \in CasesOf(e.pair)
    BY DEF ClosedInv, BaseInv, PassPairs, CasesOf
  <2>3. ASSUME NEW y \in Admins, proc[y].at = "update" PROVE proc[y].case \notin CasesOf(e.pair)
    BY <2>1, <2>3, CalmUpdates, CaseAssumption DEF Procs
  <2>4. /\ \E f, stage : Flags(f, stage) /\ stage \in {"idle", "dispatch"}
        /\ Ids \subseteq Ids'
        /\ \A c \in Ids' : \/ c \in Ids /\ Status(c) /\ kase'[c].closedAt = kase[c].closedAt
                           \/ /\ c \notin Ids \/ c \in CasesOf(e.pair)
                              /\ kase'[c].status \in Open \cup Closed
                              /\ kase'[c].closedAt <=> kase'[c].status \in Closed
    <3>1. CASE Upsert /\ e.how = "link"
      <4>1. /\ Flags(flips, "idle") /\ Ids' = Ids
            /\ \A c \in Ids : Status(c) /\ kase'[c].closedAt = kase[c].closedAt
        BY <1>1, <3>1, Links, Zenon
      <4>2. QED
        BY <4>1
    <3>2. CASE Upsert /\ e.how = "reopen"
      <4>1. e.at = "upsert"
        BY <3>2, Zenon DEF Upsert
      <4>2. QED
        BY <1>1, <2>2, <3>2, <4>1, ReopensCase DEF Same, Open, Closed
    <3>3. CASE Upsert /\ e.how = "create"
      BY <1>1, <3>3, Creates DEF Same, Open, Closed
    <3>4. CASE MarkRecovered
      <4>1. e.at = "recover"
        BY <3>4, Zenon DEF MarkRecovered
      <4>2. QED
        BY <1>1, <2>2, <3>4, <4>1, Recovers DEF Same, Open, Closed
    <3>5. QED
      <4>1. Upsert => e.at = "upsert"
        BY Zenon DEF Upsert
      <4>2. QED
        BY <1>3, <2>2, <3>1, <3>2, <3>3, <3>4, <4>1
  <2>5. \A x \in Admins : proc'[x] = proc[x]
    BY <1>1, <2>4, PassRoles
  <2>6. Closings
    BY <2>3, <2>4, <2>5 DEF Closings
  <2>7. QED
    BY <2>6, ClosingsFit
<1>4. QED
  BY <1>2, <1>3 DEF PassStep

LEMMA ClosedInit == Init => ClosedInv
<1>1. Init => Ids = {} /\ \A x \in Admins : proc[x].at = "idle"
  BY DEF Init, Ids, Idle, Procs
<1>2. QED
  BY <1>1, BaseInit DEF ClosedInv, StatusesKnown, ClosedAtAgrees, UpdatesKnow

\* updateCase, the pass and both syncs: a case has a closing time exactly while it is
\* closed, whoever closed or reopened it last, if nobody overtakes an update.
THEOREM ClosedAtAlwaysAgrees == "update" \in Calm => (Spec => []ClosedAtAgrees)
<1> SUFFICES ASSUME "update" \in Calm PROVE Spec => []ClosedAtAgrees
  OBVIOUS
<1>1. ClosedInv => ClosedAtAgrees
  BY DEF ClosedInv
<1>2. ASSUME ClosedInv, [Next]_vars PROVE ClosedInv'
  BY <1>2, BaseStep, StepsAreSomebodys, PassFits, OthersFit DEF ClosedInv
<1>3. QED
  BY <1>1, <1>2, ClosedInit, PTL DEF Spec

=============================================================================
