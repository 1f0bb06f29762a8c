--------------------------- MODULE CaseLifecycle ---------------------------
(***************************************************************************)
(* Cases (cases.service.ts, caseJobs.ts) and their linked tickets          *)
(* (integrations.service.ts): the compliance pass that opens, links,       *)
(* reopens and resolves them, the administrators who create and update     *)
(* them, the dispatch to the ticketing integration, the ticket sync tick   *)
(* and the SLA monitor tick.                                               *)
(*                                                                         *)
(* Every handler reads a case and writes it in a later query, and nothing  *)
(* keeps two handlers off the same case in between.                        *)
(***************************************************************************)
EXTENDS Integers, Sequences, FiniteSets, SequencesExt, FiniteSetsExt

CONSTANTS
  Pairs,       \* the pairs <<policy, device>> that may be violated
  Manual,      \* the pair of a case opened by an administrator or a trigger
  Admins, Evaluator,
  AutoAssign,  \* policy.caseAssignee is set
  AutoResolve, \* policy.autoResolveCaseOnRecovery
  AutoClose,   \* integration.autoCloseCaseOnRemoteResolve
  Calm,        \* the handlers that are not overtaken between a read and its write
  MaxCases, MaxTickets,
  MaxFlips,    \* bound: violations found
  MaxActs      \* bound: requests by administrators, and ticks cut short

VARIABLES
  kase,     \* the Case rows, by id
  ticket,   \* the remote tickets: who marked each done
  flag,     \* the violation each pair is flagged with in the compliance state
  proc,     \* the request of each administrator, and the compliance pass
  sync,     \* the ticket sync tick
  sla,      \* the SLA monitor tick
  flips, acts

vars == <<kase, ticket, flag, proc, sync, sla, flips, acts>>

Kinds    == {"ack", "resolve"}
Open     == {"open", "investigating"}
Closed   == {"resolved", "closed"}   \* "false_positive" behaves as "closed"
Keep     == "keep"
Procs    == Admins \cup {Evaluator}
Ids      == DOMAIN kase
IsOpen(c) == kase[c].status \in Open
Asks     == [status : Open \cup Closed \cup {Keep}, assign : BOOLEAN]
            \ {[status |-> Keep, assign |-> FALSE]}
Idle     == [at |-> "idle"]

ASSUME CaseAssumption ==
  /\ {AutoAssign, AutoResolve, AutoClose} \subseteq BOOLEAN
  /\ Calm \subseteq {"update", "attach", "evaluate", "sla", "sync"}
  /\ {MaxCases, MaxTickets, MaxFlips, MaxActs} \subseteq Nat
  /\ Manual \notin Pairs /\ Evaluator \notin Admins
  /\ {"sla", "sync"} \cap (Admins \cup {Evaluator}) = {}

TypeOK ==
  /\ Len(kase) <= MaxCases /\ Len(ticket) <= MaxTickets
  /\ \A c \in Ids :
       /\ kase[c].status \in Open \cup Closed /\ kase[c].pair \in Pairs \cup {Manual}
       /\ kase[c].closedAt \in BOOLEAN /\ kase[c].acked \in BOOLEAN
       /\ kase[c].clock \in 1..(1 + MaxFlips + MaxActs)
       /\ kase[c].late \subseteq Kinds /\ kase[c].stamped \subseteq Kinds
       /\ kase[c].told \subseteq Kinds /\ kase[c].lost \subseteq Kinds
       /\ kase[c].violations \subseteq 1..flips
       /\ \A i \in DOMAIN kase[c].refs : kase[c].refs[i].ticket \in DOMAIN ticket
  /\ \A t \in DOMAIN ticket : ticket[t] \in {"nobody", "soar", "remote"}
  /\ \A p \in Pairs : flag[p] \in 0..flips

Init ==
  /\ kase = <<>> /\ ticket = <<>> /\ flag = [p \in Pairs |-> 0]
  /\ proc = [x \in Procs |-> Idle] /\ sync = Idle /\ sla = Idle
  /\ flips = 0 /\ acts = 0

NewCase(p, violations, acked) ==
  [status |-> "open", pair |-> p, closedAt |-> FALSE, acked |-> acked, clock |-> 1,
   late |-> {}, stamped |-> {}, told |-> {}, lost |-> {}, violations |-> violations, refs |-> <<>>]

\* Variations: a reopening that forgets the stamps, or forgets closedAt.
StampsKept(k, acked) ==
  [k EXCEPT !.clock = @ + 1, !.closedAt = FALSE, !.acked = acked, !.late = {}, !.told = {},
            !.lost = {}]
ClosedAtKept(k, acked) ==
  [k EXCEPT !.clock = @ + 1, !.acked = acked, !.late = {}, !.stamped = {}, !.told = {},
            !.lost = {}]

\* A clock that starts again: nothing is late, stamped or notified on it.
Restarted(k, acked) ==
  [k EXCEPT !.clock = @ + 1, !.closedAt = FALSE, !.acked = acked,
            !.late = {}, !.stamped = {}, !.told = {}, !.lost = {}]
Resolved(k) == [k EXCEPT !.status = "resolved", !.closedAt = TRUE]

---------------------------------------------------------------------------
(* Who holds what it read of a case, and has yet to write *)

HeldBy(x) ==
  CASE proc[x].at = "update" -> {proc[x].case}
    [] proc[x].at = "append" -> {proc[x].case}
    [] proc[x].at \in {"find", "upsert", "recover"} ->
         {c \in Ids : kase[c].pair = proc[x].pair}
    [] OTHER -> {}
KindOf(x) == CASE proc[x].at = "update" -> "update"
               [] proc[x].at = "append" -> "attach"
               [] OTHER -> "evaluate"
HeldBySla  == IF sla.at = "idle" THEN {} ELSE DOMAIN sla.seen
HeldBySync == IF sync.at = "idle" THEN {} ELSE DOMAIN sync.seen

\* No other handler in Calm is between a read and a write of one of these cases.
Calmly(who, cases) ==
  /\ \A x \in Procs \ {who} : KindOf(x) \in Calm => HeldBy(x) \cap cases = {}
  /\ who # "sla"  /\ "sla"  \in Calm => HeldBySla \cap cases = {}
  /\ who # "sync" /\ "sync" \in Calm => HeldBySync \cap cases = {}

---------------------------------------------------------------------------
(* Administrators *)

Ask(x) == /\ proc[x] = Idle /\ acts < MaxActs /\ acts' = acts + 1 /\ UNCHANGED flips

\* createCase, openCaseForTrigger: always a new row, then dispatched.
CreateCase(x) ==
  /\ Ask(x) /\ Len(kase) < MaxCases
  /\ kase' = Append(kase, NewCase(Manual, {}, FALSE))
  /\ proc' = [proc EXCEPT ![x] =
       [at |-> "dispatch", case |-> Len(kase) + 1, event |-> "created"]]
  /\ UNCHANGED <<ticket, flag, sync, sla>>

UpdateRead(x, c) ==
  /\ Ask(x) /\ Calmly(x, {c})
  /\ \E ask \in Asks :
       /\ ask.status # kase[c].status
       /\ proc' = [proc EXCEPT ![x] =
            [at |-> "update", case |-> c, ask |-> ask,
             seen |-> [status |-> kase[c].status, acked |-> kase[c].acked]]]
  /\ UNCHANGED <<kase, ticket, flag, sync, sla>>

Closes(seen, ask)  == seen.status \in Open /\ ask.status \in Closed
Reopens(seen, ask) == seen.status \in Closed /\ ask.status \in Open

\* The columns an update writes, as decided from the row it read.
Updated(k, seen, ask) ==
  LET acks == ~seen.acked /\ (ask.assign \/ ask.status = "investigating")
      kept == [k EXCEPT !.status = IF ask.status = Keep THEN @ ELSE ask.status]
  IN CASE Reopens(seen, ask) -> Restarted(kept, FALSE)
       [] Closes(seen, ask)  -> [kept EXCEPT !.closedAt = TRUE, !.acked = @ \/ acks]
       [] OTHER              -> [kept EXCEPT !.acked = @ \/ acks]

UpdateWrite(x) ==
  /\ proc[x].at = "update"
  /\ LET p == proc[x]  c == p.case IN
     /\ Calmly(x, {c})
     /\ kase' = [kase EXCEPT ![c] = Updated(@, p.seen, p.ask)]
     /\ proc' = [proc EXCEPT ![x] =
          IF Closes(p.seen, p.ask) \/ Reopens(p.seen, p.ask)
          THEN [at |-> "dispatch", case |-> c,
                event |-> IF Closes(p.seen, p.ask) THEN "closed" ELSE "reopened"]
          ELSE Idle]
  /\ UNCHANGED <<ticket, flag, sync, sla, flips, acts>>

Retry(x, c) ==
  /\ Ask(x)
  /\ proc' = [proc EXCEPT ![x] =
       [at |-> "dispatch", case |-> c, event |-> IF IsOpen(c) THEN "created" ELSE "closed"]]
  /\ UNCHANGED <<kase, ticket, flag, sync, sla>>

---------------------------------------------------------------------------
(* Dispatch to the ticketing integration: dispatchAndAttachCaseEvent *)

\* A ticket is created for every opening; any failure is only recorded.
OpenTicket(x) ==
  /\ proc[x].at = "dispatch" /\ proc[x].event \in {"created", "reopened"}
  /\ \/ /\ Len(ticket) < MaxTickets
        /\ ticket' = Append(ticket, "nobody")
        /\ proc' = [proc EXCEPT ![x] =
             [at |-> "attach", case |-> proc[x].case, ticket |-> Len(ticket) + 1]]
     \/ proc' = [proc EXCEPT ![x] = Idle] /\ UNCHANGED ticket
  /\ UNCHANGED <<kase, flag, sync, sla, flips, acts>>

\* The first linked ticket is moved to done.
CloseTicket(x) ==
  /\ proc[x].at = "dispatch" /\ proc[x].event = "closed"
  /\ LET refs == kase[proc[x].case].refs IN
     \/ /\ refs # <<>> /\ ticket[refs[1].ticket] = "nobody"
        /\ ticket' = [ticket EXCEPT ![refs[1].ticket] = "soar"]
     \/ UNCHANGED ticket
  /\ proc' = [proc EXCEPT ![x] = Idle]
  /\ UNCHANGED <<kase, flag, sync, sla, flips, acts>>

AttachRead(x) ==
  /\ proc[x].at = "attach" /\ Calmly(x, {proc[x].case})
  /\ proc' = [proc EXCEPT ![x] =
       [at |-> "append", case |-> @.case, ticket |-> @.ticket,
        seen |-> kase[@.case].refs]]
  /\ UNCHANGED <<kase, ticket, flag, sync, sla, flips, acts>>

AttachWrite(x) ==
  /\ proc[x].at = "append"
  /\ LET p == proc[x] IN
     /\ Calmly(x, {p.case})
     /\ kase' = [kase EXCEPT ![p.case].refs =
          Append(p.seen, [ticket |-> p.ticket, resolved |-> FALSE])]
  /\ proc' = [proc EXCEPT ![x] = Idle]
  /\ UNCHANGED <<ticket, flag, sync, sla, flips, acts>>

---------------------------------------------------------------------------
(* The compliance pass: upsertCaseForViolation and markCaseRecovered *)

CasesOf(p)   == {c \in Ids : kase[c].pair = p}
AnyOf(p)     == CasesOf(p)   \* variation: the search does not look at the status
NoneOf(p)    == {}           \* variation: closed cases are never reopened
Opened(p)    == {c \in CasesOf(p) : IsOpen(c)}
Recurring(p) == CasesOf(p) \ Opened(p)

\* A new violation: is there an open case for the pair?
FindOpen(p) ==
  LET x == Evaluator IN
  /\ proc[x] = Idle /\ flag[p] = 0 /\ flips < MaxFlips
  /\ Calmly(x, CasesOf(p))
  /\ flips' = flips + 1
  /\ \/ \E c \in Opened(p) :
          proc' = [proc EXCEPT ![x] =
            [at |-> "upsert", pair |-> p, how |-> "link", case |-> c]]
     \/ /\ Opened(p) = {}
        /\ proc' = [proc EXCEPT ![x] = [at |-> "find", pair |-> p]]
  /\ UNCHANGED <<kase, ticket, flag, sync, sla, acts>>

\* None: is there a closed one to reopen?
FindClosed ==
  LET x == Evaluator  p == proc[x].pair IN
  /\ proc[x].at = "find"
  /\ \/ \E c \in Recurring(p) :
          proc' = [proc EXCEPT ![x] =
            [at |-> "upsert", pair |-> p, how |-> "reopen", case |-> c]]
     \/ /\ Recurring(p) = {}
        /\ proc' = [proc EXCEPT ![x] =
             [at |-> "upsert", pair |-> p, how |-> "create", case |-> Len(kase) + 1]]
  /\ UNCHANGED <<kase, ticket, flag, sync, sla, flips, acts>>

\* A closed case whose violation is back.
Recurred(k, v) ==
  [Restarted(k, AutoAssign) EXCEPT !.status = "open", !.violations = @ \cup {v}]

\* The id is the violation's: the case found is linked, reopened or created.
Upsert ==
  LET x == Evaluator  e == proc[x]  v == flips IN
  /\ e.at = "upsert"
  /\ Calmly(x, CasesOf(e.pair))
  /\ CASE e.how = "link" ->
            kase' = [kase EXCEPT ![e.case].violations = @ \cup {v}]
       [] e.how = "reopen" ->
            kase' = [kase EXCEPT ![e.case] = Recurred(@, v)]
       [] e.how = "create" ->
            /\ Len(kase) < MaxCases
            /\ kase' = Append(kase, NewCase(e.pair, {v}, AutoAssign))
  /\ flag' = [flag EXCEPT ![e.pair] = v]
  /\ proc' = [proc EXCEPT ![x] =
       CASE e.how = "link"   -> Idle
         [] e.how = "reopen" -> [at |-> "dispatch", case |-> e.case, event |-> "reopened"]
         [] e.how = "create" -> [at |-> "dispatch", case |-> Len(kase) + 1, event |-> "created"]]
  /\ UNCHANGED <<ticket, sync, sla, flips, acts>>

\* The device recovered: is the case its violation is linked to still open?
FindRecovered(p) ==
  LET x == Evaluator
      linked == {c \in Ids : IsOpen(c) /\ flag[p] \in kase[c].violations} IN
  /\ proc[x] = Idle /\ flag[p] # 0
  /\ Calmly(x, CasesOf(p))
  /\ \/ \E c \in linked :
          /\ proc' = [proc EXCEPT ![x] = [at |-> "recover", pair |-> p, case |-> c]]
          /\ UNCHANGED flag
     \/ linked = {} /\ flag' = [flag EXCEPT ![p] = 0] /\ UNCHANGED proc
  /\ UNCHANGED <<kase, ticket, sync, sla, flips, acts>>

MarkRecovered ==
  LET x == Evaluator  e == proc[x] IN
  /\ e.at = "recover"
  /\ Calmly(x, CasesOf(e.pair))
  /\ kase' = IF AutoResolve THEN [kase EXCEPT ![e.case] = Resolved(@)] ELSE kase
  /\ proc' = [proc EXCEPT ![x] =
       IF AutoResolve THEN [at |-> "dispatch", case |-> e.case, event |-> "closed"] ELSE Idle]
  /\ flag' = [flag EXCEPT ![e.pair] = 0]
  /\ UNCHANGED <<ticket, sync, sla, flips, acts>>

---------------------------------------------------------------------------
(* Ticket status sync: the tick over the open cases, and one case on request *)

\* syncCaseTicketRefs: some tickets answer, and somebody may have marked them done
\* in Jira or ServiceNow by now; what was resolved before is not news.
Asked(refs, answered, done) ==
  /\ answered \subseteq DOMAIN refs /\ done \subseteq {refs[i].ticket : i \in answered}
  /\ \A t \in done : ticket[t] = "nobody"
  /\ ticket' = [t \in DOMAIN ticket |-> IF t \in done THEN "remote" ELSE ticket[t]]
Checked(refs, answered) ==
  [i \in DOMAIN refs |-> IF i \in answered
     THEN [refs[i] EXCEPT !.resolved = (ticket'[refs[i].ticket] # "nobody")] ELSE refs[i]]
Newly(refs, answered) ==
  {refs[i].ticket : i \in {j \in answered : Checked(refs, answered)[j].resolved
                                            /\ ~refs[j].resolved}}

SyncScan ==
  /\ sync = Idle
  /\ LET cases == {c \in Ids : IsOpen(c) /\ kase[c].refs # <<>>} IN
     /\ cases # {} /\ Calmly("sync", cases)
     /\ sync' = [at |-> "scan", seen |-> [c \in cases |-> kase[c].refs]]
  /\ UNCHANGED <<kase, ticket, flag, proc, sla, flips, acts>>

SyncFetch(c) ==
  /\ sync.at = "scan" /\ c \in DOMAIN sync.seen
  /\ LET refs == sync.seen[c] IN
     \E answered \in SUBSET DOMAIN refs, done \in SUBSET DOMAIN ticket :
       /\ Asked(refs, answered, done)
       /\ sync' = [at |-> "save", seen |-> sync.seen, case |-> c,
                   refs |-> Checked(refs, answered), done |-> Newly(refs, answered)]
  /\ UNCHANGED <<kase, flag, proc, sla, flips, acts>>

NextCase(s, c) == LET rest == [d \in DOMAIN s.seen \ {c} |-> s.seen[d]]
                  IN IF DOMAIN rest = {} THEN Idle ELSE [at |-> "scan", seen |-> rest]

\* The refs are written whole, as they were read and checked.
SyncSave ==
  /\ sync.at = "save" /\ Calmly("sync", {sync.case})
  /\ kase' = [kase EXCEPT ![sync.case].refs = sync.refs]
  /\ sync' = IF AutoClose /\ sync.done # {} THEN [sync EXCEPT !.at = "resolve"]
             ELSE NextCase(sync, sync.case)
  /\ UNCHANGED <<ticket, flag, proc, sla, flips, acts>>

SyncResolve ==
  /\ sync.at = "resolve" /\ Calmly("sync", {sync.case})
  /\ kase' = [kase EXCEPT ![sync.case] = Resolved(@)]
  /\ sync' = NextCase(sync, sync.case)
  /\ UNCHANGED <<ticket, flag, proc, sla, flips, acts>>

\* syncCaseTicketStatus: any case with a ticket, and the status is read again.
ManualFetch(x, c) ==
  /\ Ask(x) /\ kase[c].refs # <<>>
  /\ LET refs == kase[c].refs IN
     \E answered \in SUBSET DOMAIN refs, done \in SUBSET DOMAIN ticket :
       /\ Asked(refs, answered, done)
       /\ proc' = [proc EXCEPT ![x] = [at |-> "save", case |-> c,
            refs |-> Checked(refs, answered), done |-> Newly(refs, answered)]]
  /\ UNCHANGED <<kase, flag, sync, sla>>

ManualSave(x) ==
  /\ proc[x].at = "save" /\ Calmly(x, {proc[x].case})
  /\ LET p == proc[x]
         saved == [kase EXCEPT ![p.case].refs = p.refs] IN
     kase' = IF AutoClose /\ p.done # {} /\ IsOpen(p.case)
             THEN [saved EXCEPT ![p.case] = Resolved(@)] ELSE saved
  /\ proc' = [proc EXCEPT ![x] = Idle]
  /\ UNCHANGED <<ticket, flag, sync, sla, flips, acts>>

---------------------------------------------------------------------------
(* The SLA monitor tick *)

Snapshot(c) == [clock |-> kase[c].clock, acked |-> kase[c].acked, late |-> kase[c].late,
                stamped |-> kase[c].stamped]

SlaScan ==
  /\ sla = Idle
  /\ LET cases == {c \in Ids : IsOpen(c)} IN
     /\ cases # {} /\ Calmly("sla", cases)
     /\ sla' = [at |-> "scan", seen |-> [c \in cases |-> Snapshot(c)]]
  /\ UNCHANGED <<kase, ticket, flag, proc, sync, flips, acts>>

\* Variation: the stamps are not looked at.
DueAgain(s, late) == {k \in late : k = "ack" => ~s.acked}

\* caseSlaStatus of the row that was read: which clocks are breached and not stamped.
Due(s, late) == {k \in late \ s.stamped : k = "ack" => ~s.acked}

\* The time is that of the check: a clock that has restarted since may be late by now.
SlaCheck(c) ==
  /\ sla.at = "scan" /\ c \in DOMAIN sla.seen
  /\ \E late \in SUBSET Kinds :
       /\ IF kase[c].clock = sla.seen[c].clock THEN late = kase[c].late
          ELSE sla.seen[c].late \subseteq late
       /\ LET due == Due(sla.seen[c], late) IN
          sla' = IF due = {} THEN NextCase(sla, c)
                 ELSE [at |-> "stamp", seen |-> sla.seen, case |-> c, due |-> due]
  /\ UNCHANGED <<kase, ticket, flag, proc, sync, flips, acts>>

\* The acknowledge clock comes first.
FirstOf(due) == IF "ack" \in due THEN "ack" ELSE "resolve"

SlaStamp ==
  /\ sla.at = "stamp" /\ Calmly("sla", {sla.case})
  /\ kase' = [kase EXCEPT ![sla.case].stamped = @ \cup {FirstOf(sla.due)}]
  /\ sla' = [sla EXCEPT !.at = "notify"]
  /\ UNCHANGED <<ticket, flag, proc, sync, flips, acts>>

\* Audit entry, chat, paging and mail for the clock that was read.
SlaNotify ==
  /\ sla.at = "notify"
  /\ LET c == sla.case  k == FirstOf(sla.due) IN
     /\ kase' = IF kase[c].clock = sla.seen[c].clock
                THEN [kase EXCEPT ![c].told = @ \cup {k}] ELSE kase
     /\ sla' = IF sla.due = {k} THEN NextCase(sla, c)
               ELSE [sla EXCEPT !.at = "stamp", !.due = @ \ {k}]
  /\ UNCHANGED <<ticket, flag, proc, sync, flips, acts>>

\* One of the awaited calls throws, or the process stops: the tick is over, the stamp
\* stays.  Before the stamp such an end leaves nothing behind.
SlaFails ==
  /\ sla.at = "notify" /\ acts < MaxActs /\ acts' = acts + 1
  /\ LET c == sla.case IN
     kase' = IF kase[c].clock = sla.seen[c].clock
             THEN [kase EXCEPT ![c].lost = @ \cup {FirstOf(sla.due)}] ELSE kase
  /\ sla' = Idle
  /\ UNCHANGED <<ticket, flag, proc, sync, flips>>

---------------------------------------------------------------------------
(* The world *)

\* A due time of the current clock passes; on a closed or acknowledged case it is
\* never looked at before the clock restarts.
TimePasses(c, k) ==
  /\ IsOpen(c) /\ k \notin kase[c].late /\ (k = "ack" => ~kase[c].acked)
  /\ kase' = [kase EXCEPT ![c].late = @ \cup {k}]
  /\ UNCHANGED <<ticket, flag, proc, sync, sla, flips, acts>>

---------------------------------------------------------------------------
Finish(x) == \/ UpdateWrite(x) \/ OpenTicket(x) \/ CloseTicket(x)
             \/ AttachRead(x) \/ AttachWrite(x) \/ ManualSave(x)
Pass      == FindClosed \/ Upsert \/ MarkRecovered
SyncTick  == SyncScan \/ (\E c \in Ids : SyncFetch(c)) \/ SyncSave \/ SyncResolve
SlaTick   == SlaScan \/ (\E c \in Ids : SlaCheck(c)) \/ SlaStamp \/ SlaNotify

Next ==
  \/ \E x \in Admins : \/ CreateCase(x)
                       \/ \E c \in Ids : UpdateRead(x, c) \/ Retry(x, c) \/ ManualFetch(x, c)
  \/ \E x \in Procs : Finish(x)
  \/ \E p \in Pairs : FindOpen(p) \/ FindRecovered(p)
  \/ Pass \/ SyncTick \/ SlaTick \/ SlaFails
  \/ \E c \in Ids, k \in Kinds : TimePasses(c, k)

Spec == Init /\ [][Next]_vars

\* The event loop finishes what a request or a pass began; both ticks keep coming.
FairSpec == /\ Spec /\ \A x \in Procs : WF_vars(Finish(x))
            /\ WF_vars(Pass) /\ WF_vars(SyncTick) /\ WF_vars(SlaTick)

---------------------------------------------------------------------------
(* Properties *)

\* upsertCaseForViolation: a device and a policy never get a second case, however
\* often the violation recurs and whatever administrators and ticks do meanwhile.
OneCasePerPair ==
  \A c, d \in Ids : kase[c].pair = kase[d].pair /\ kase[c].pair # Manual => c = d

\* closedAt is set exactly on the cases whose status is closed, whoever closed or
\* reopened them last (updateCase, the pass, the sync tick).
ClosedAtAgrees == \A c \in Ids : kase[c].closedAt <=> kase[c].status \in Closed

\* runCaseSlaMonitorTick: no clock is notified twice, a second tick included.
NotifiedOncePerClock ==
  sla.at = "notify" /\ sla.seen[sla.case].clock = kase[sla.case].clock =>
    FirstOf(sla.due) \notin kase[sla.case].told

\* A violation recorded by a pass ends up in an open case of its pair.
ViolationsReachOpenCase ==
  [][\A p \in Pairs : flag'[p] # 0 /\ flag'[p] # flag[p] =>
       \E c \in DOMAIN kase' : /\ kase'[c].status \in Open /\ kase'[c].pair = p
                               /\ flag'[p] \in kase'[c].violations]_vars

Unnotified(c) == \E k \in kase[c].late \ (kase[c].told \cup kase[c].lost) :
                    IsOpen(c) /\ (k = "ack" => ~kase[c].acked)

\* No breached clock waits for ever: it is notified, unless the case is acknowledged,
\* closed or reopened first, or the tick that had stamped it did not get to tell.
\* Such a clock is never notified: no later tick looks past the stamp.
BreachesAreNotified == []<>(\A c \in Ids : ~Unnotified(c))

\* "Auto-resolved - linked ticket was marked done externally": the sync tick
\* resolves a case for a ticket somebody else closed, not for its own closing.
ResolvedFromOutside ==
  sync.at = "resolve" => \E t \in sync.done : ticket[t] = "remote"
=============================================================================
