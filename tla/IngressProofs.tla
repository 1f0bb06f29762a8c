---------------------------- MODULE IngressProofs -----------------------------
(***************************************************************************)
(* Two promises of what comes in about a device, for any number of forced  *)
(* passes, inputs and exceptions: a tool that sends one call at a time     *)
(* finds the device marked as it asked, and the list served never goes     *)
(* back to older attributes, whoever asks, drops it or fails meanwhile.    *)
(***************************************************************************)
EXTENDS Ingress, SequenceTheorems, TLAPS

---------------------------------------------------------------------------
(* The mark a tool asked for *)

\* The hypothesis: the tool sends its calls one after the other.
OneSender == ToolCalls # {} /\ \A q, r \in ToolCalls : q = r

Handled == [kind : {"report"}, stage : {"store", "drop"}, report : Nat]
Sent    == [kind : {"fire", "resolve"}, stage : {"find", "found", "count", "mark", "case", "answer"},
            report : {0}]

CallTypes ==
  /\ call \in [Calls -> Handled \cup Sent \cup {NoCall}]
  /\ call[Agent] \notin Sent
  /\ \A q \in ToolCalls : call[q] \notin Handled

\* Until the device is marked the tool is right about it; from then on the mark
\* is what its call means.
MarkIsKnown ==
  \A q \in ToolCalls :
    IF call[q].stage \in {"case", "answer"}
    THEN alarm = Meaning(q)
    ELSE alarm \in believed

SenderInv == CallTypes /\ MarkIsKnown

LEMMA SenderInit == Init => SenderInv
BY DEF Init, SenderInv, CallTypes, MarkIsKnown, Calls, NoCall, Handled, Sent

\* A call that moves on without touching the mark, on the same side of it.
LEMMA MovesOn ==
  ASSUME SenderInv, NEW q \in Calls, NEW stage \in {"find", "found", "count", "mark", "answer"},
         call[q].kind \in {"fire", "resolve"}, Step(q, stage), UNCHANGED <<alarm, believed>>,
         (stage = "answer") <=> call[q].stage = "case", call[q].stage # "answer"
  PROVE  SenderInv'
<1>1. CallTypes'
  BY DEF SenderInv, CallTypes, Step, Calls, Handled, Sent, NoCall
<1>2. MarkIsKnown'
  BY DEF SenderInv, CallTypes, MarkIsKnown, Step, Meaning, Calls, Handled, Sent, NoCall
<1>3. QED
  BY <1>1, <1>2 DEF SenderInv

\* The device is marked the way the call asked.
LEMMA Marks ==
  ASSUME OneSender, SenderInv, NEW q \in Calls, NEW stage \in {"case", "answer"},
         call[q].kind \in {"fire", "resolve"}, Step(q, stage), alarm' = Meaning(q), UNCHANGED believed
  PROVE  SenderInv'
<1>1. CallTypes'
  BY DEF SenderInv, CallTypes, Step, Calls, Handled, Sent, NoCall
<1>2. q \in ToolCalls
  BY DEF SenderInv, CallTypes, Calls, Handled, Sent, NoCall
<1>3. MarkIsKnown'
  BY <1>2 DEF OneSender, SenderInv, CallTypes, MarkIsKnown, Step, Meaning, Calls
<1>4. QED
  BY <1>1, <1>3 DEF SenderInv

\* A call that ends leaves the tool with what it must believe.
LEMMA Ends ==
  ASSUME OneSender, SenderInv, NEW q \in Calls, call' = [call EXCEPT ![q] = NoCall], UNCHANGED alarm,
         IF q \in ToolCalls
         THEN alarm \in believed'
         ELSE believed \subseteq believed'
  PROVE  SenderInv'
<1>1. CallTypes'
  BY DEF SenderInv, CallTypes, Calls, Handled, Sent, NoCall
<1>2. MarkIsKnown'
  BY DEF OneSender, SenderInv, CallTypes, MarkIsKnown, Calls, NoCall, Meaning
<1>3. QED
  BY <1>1, <1>2 DEF SenderInv

\* Nothing the senders see changes.
LEMMA Elsewhere ==
  ASSUME SenderInv, UNCHANGED <<call, alarm, believed>>
  PROVE  SenderInv'
BY DEF SenderInv, CallTypes, MarkIsKnown, Meaning

\* The handler of one call keeps what its sender knows.
LEMMA HandleKeeps ==
  ASSUME OneSender, SenderInv, NEW q \in Calls, HandleCall(q)
  PROVE  SenderInv'
<1> USE DEF At
<1>1. CASE StoreReport(q)
  BY <1>1 DEF StoreReport, Step, SenderInv, CallTypes, MarkIsKnown, Calls, Handled, Sent, NoCall, Meaning
<1>2. CASE DropAndEvaluate(q)
  <2>1. q \notin ToolCalls
    BY <1>2 DEF DropAndEvaluate, SenderInv, CallTypes, Calls, Handled, Sent, NoCall
  <2>2. QED
    BY <1>2, <2>1, Ends DEF DropAndEvaluate
<1>3. CASE FindDevice(q)
  BY <1>3, MovesOn DEF FindDevice
<1>4. CASE LaunchRun(q)
  BY <1>4, MovesOn DEF LaunchRun
<1>5. CASE CountFire(q)
  BY <1>5, MovesOn DEF CountFire
<1>6. CASE MarkFired(q)
  BY <1>6, Marks DEF MarkFired, Meaning
<1>7. CASE MarkResolved(q)
  BY <1>7, Marks DEF MarkResolved, Meaning
<1>8. CASE OpenCase(q)
  BY <1>8, MovesOn DEF OpenCase
<1>9. CASE Answer(q)
  <2>1. q \in ToolCalls /\ alarm = Meaning(q)
    BY <1>9 DEF Answer, SenderInv, CallTypes, MarkIsKnown, Calls, Handled, Sent, NoCall
  <2>2. QED
    BY <1>9, <2>1, Ends DEF Answer
<1>10. CASE CallFails(q)
  <2>1. q \in ToolCalls => alarm \in believed \cup {Meaning(q)} /\ call[q].kind # "report"
    BY DEF SenderInv, CallTypes, MarkIsKnown, Calls, Handled, Sent, NoCall
  <2>2. call' = [call EXCEPT ![q] = NoCall] /\ UNCHANGED alarm
    BY <1>10 DEF CallFails
  <2>3. believed' = IF call[q].kind = "report" THEN believed ELSE believed \cup {Meaning(q)}
    BY <1>10 DEF CallFails
  <2>4. CASE q \in ToolCalls
    BY <2>1, <2>2, <2>3, <2>4, Ends
  <2>5. CASE q \notin ToolCalls
    BY <2>2, <2>3, <2>5, Ends
  <2>6. QED
    BY <2>4, <2>5
<1>11. QED
  BY <1>1, <1>2, <1>3, <1>4, <1>5, <1>6, <1>7, <1>8, <1>9, <1>10 DEF HandleCall

\* Reports are numbered as they arrive.
LEMMA ReportsStep ==
  ASSUME [Next]_vars
  PROVE  UNCHANGED reports \/ ReportArrives
BY DEF Next, HandleCall, StoreReport, DropAndEvaluate, FindDevice, LaunchRun, CountFire, MarkFired,
       MarkResolved, OpenCase, Answer, CallFails, SignalArrives, RunPass, PassAsks, Judge, PassFails,
       TickStarts, PolicyBecomesDue, CooldownEnds, FleetStep, FleetFails, vars

LEMMA SenderStep ==
  ASSUME OneSender, SenderInv, reports \in Nat, [Next]_vars
  PROVE  SenderInv'
<1>1. CASE ReportArrives
  <2> DEFINE new == [kind |-> "report", stage |-> "store", report |-> reports + 1]
  <2>1. new \in Handled /\ Agent \in Calls /\ Agent \notin ToolCalls
    BY BoundsAssumption DEF Handled, Calls
  <2>2. call' = [call EXCEPT ![Agent] = new] /\ UNCHANGED <<alarm, believed>>
    BY <1>1 DEF ReportArrives
  <2> HIDE DEF new
  <2>3. CallTypes'
    BY <2>1, <2>2 DEF SenderInv, CallTypes, Handled, Sent
  <2>4. MarkIsKnown'
    BY <2>1, <2>2 DEF SenderInv, CallTypes, MarkIsKnown, Meaning, Calls
  <2>5. QED
    BY <2>3, <2>4 DEF SenderInv
<1>2. CASE \E q \in Calls : HandleCall(q)
  BY <1>2, HandleKeeps
<1>3. ASSUME NEW q \in ToolCalls, NEW kind \in {"fire", "resolve"}, SignalArrives(q, kind)
      PROVE  SenderInv'
  <2> DEFINE new == [kind |-> kind, stage |-> "find", report |-> 0]
  <2>1. new \in Sent /\ new.stage = "find" /\ q \in Calls /\ q # Agent /\ call[q].stage = "free"
    BY <1>3, BoundsAssumption DEF Sent, Calls, SignalArrives, Free, NoCall
  <2>2. call' = [call EXCEPT ![q] = new] /\ UNCHANGED <<alarm, believed>>
    BY <1>3 DEF SignalArrives
  <2> HIDE DEF new
  <2>3. CallTypes'
    BY <2>1, <2>2 DEF SenderInv, CallTypes, Handled, Sent
  <2>4. MarkIsKnown'
    BY <2>1, <2>2 DEF SenderInv, CallTypes, MarkIsKnown, Meaning, Calls
  <2>5. QED
    BY <2>3, <2>4 DEF SenderInv
<1>4. CASE \E p \in Passes : RunPass(p)
  BY <1>4, Elsewhere DEF RunPass, PassAsks, Judge, PassFails
<1>5. CASE TickStarts \/ PolicyBecomesDue \/ CooldownEnds \/ FleetStep \/ FleetFails
  BY <1>5, Elsewhere DEF TickStarts, PolicyBecomesDue, CooldownEnds, FleetStep, FleetFails
<1>6. CASE UNCHANGED vars
  BY <1>6, Elsewhere DEF vars
<1>7. QED
  BY <1>1, <1>2, <1>3, <1>4, <1>5, <1>6 DEF Next

\* A tool that sends its calls one after the other finds the device marked the
\* way its last call asked for, or after a failure that way or as before:
\* whatever the agent reports and the passes do meanwhile.
THEOREM MarkFollowsSender == OneSender => (Spec => []AlarmFollowsSender)
<1>1. SUFFICES ASSUME OneSender PROVE Spec => []AlarmFollowsSender
  OBVIOUS
<1>2. Init => reports \in Nat
  BY DEF Init
<1>3. reports \in Nat /\ [Next]_vars => (reports \in Nat)'
  BY ReportsStep DEF ReportArrives
<1>4. reports \in Nat /\ SenderInv /\ [Next]_vars => SenderInv'
  BY <1>1, SenderStep
<1>5. SenderInv => AlarmFollowsSender
  BY <1>1 DEF OneSender, SenderInv, MarkIsKnown, AlarmFollowsSender, Free, NoCall
<1>6. QED
  BY <1>2, <1>3, <1>4, <1>5, SenderInit, PTL DEF Spec

---------------------------------------------------------------------------
(* The list that is served *)

Stages == {"free", "store", "drop", "find", "found", "count", "mark", "case", "answer"}

\* Reports are stored in the order they came: the agent sends one at a time.
ReportsInOrder ==
  /\ reports \in Nat /\ attributes \in 0..reports
  /\ call \in [Calls -> [kind : {"none", "report", "fire", "resolve"}, stage : Stages, report : Nat]]
  /\ \A q \in Calls : call[q].kind = "report" => q = Agent
  /\ At(Agent, "report", "store") => call[Agent].report = reports

\* What a pull has read: nothing, or the attributes of report n, or both parts.
HasRead(list, n) == list = <<n>> \/ \E mark : list = <<n, mark>>

\* Only the pull that callers join is running, and it has read attributes no
\* older than those of the list served.
OnePull ==
  \A k \in 1..2 :
    pull[k] # NoList =>
      /\ k = inFlight
      /\ \/ pull[k] = <<>>
         \/ \E n \in 0..attributes :
              HasRead(pull[k], n) /\ (cache # NoList => n >= cache.attributes)

ListInv ==
  /\ ReportsInOrder
  /\ cache # NoList => cache.attributes \in 0..attributes
  /\ DOMAIN pull = 1..2 /\ OnePull

LEMMA ListInit == Init => ListInv
<1>1. Init => ReportsInOrder
  BY DEF Init, ReportsInOrder, Calls, NoCall, Stages, At
<1>2. Init => cache = NoList /\ pull = [k \in 1..2 |-> NoList]
  BY DEF Init, Fleet!Init
<1>3. QED
  BY <1>1, <1>2 DEF ListInv, OnePull

\* Only a report that is stored changes the attributes, and never back.
LEMMA ReportsStayInOrder ==
  ASSUME ReportsInOrder, [Next]_vars
  PROVE  ReportsInOrder' /\ attributes' >= attributes
<1> USE DEF At
<1>1. CASE \E q \in Calls : StoreReport(q)
  BY <1>1 DEF StoreReport, Step, ReportsInOrder, Calls, Stages
<1>2. CASE ReportArrives
  <2> DEFINE new == [kind |-> "report", stage |-> "store", report |-> reports + 1]
  <2>1. call' = [call EXCEPT ![Agent] = new] /\ reports' = reports + 1 /\ UNCHANGED attributes
    BY <1>2 DEF ReportArrives
  <2>2. new \in [kind : {"none", "report", "fire", "resolve"}, stage : Stages, report : Nat]
    BY DEF ReportsInOrder, Stages
  <2>3. new.report = reports + 1
    OBVIOUS
  <2> HIDE DEF new
  <2>4. QED
    BY <2>1, <2>2, <2>3 DEF ReportsInOrder, Calls
<1>3. CASE \E q \in ToolCalls, kind \in {"fire", "resolve"} : SignalArrives(q, kind)
  <2>1. PICK q \in ToolCalls, kind \in {"fire", "resolve"} : SignalArrives(q, kind)
    BY <1>3
  <2> DEFINE new == [kind |-> kind, stage |-> "find", report |-> 0]
  <2>2. call' = [call EXCEPT ![q] = new] /\ UNCHANGED <<attributes, reports>>
    BY <2>1 DEF SignalArrives
  <2>3. new \in [kind : {"none", "report", "fire", "resolve"}, stage : Stages, report : Nat]
        /\ new.kind # "report" /\ q # Agent
    BY BoundsAssumption DEF Stages
  <2> HIDE DEF new
  <2>4. QED
    BY <2>2, <2>3 DEF ReportsInOrder, Calls
<1>4. ASSUME NEW q \in Calls, call' = [call EXCEPT ![q] = NoCall], UNCHANGED <<attributes, reports>>
      PROVE  ReportsInOrder' /\ attributes' >= attributes
  BY <1>4 DEF ReportsInOrder, Stages, NoCall, Calls
<1>5. ASSUME NEW q \in Calls, NEW stage \in Stages \ {"store"}, Step(q, stage),
             UNCHANGED <<attributes, reports>>
      PROVE  ReportsInOrder' /\ attributes' >= attributes
  BY <1>5 DEF ReportsInOrder, Step, Calls
<1>6. ASSUME UNCHANGED <<call, attributes, reports>>
      PROVE  ReportsInOrder' /\ attributes' >= attributes
  BY <1>6 DEF ReportsInOrder
<1>7. ASSUME NEW q \in Calls, HandleCall(q)
      PROVE  ReportsInOrder' /\ attributes' >= attributes
  <2>1. CASE DropAndEvaluate(q) \/ Answer(q) \/ CallFails(q)
    BY <2>1, <1>4 DEF DropAndEvaluate, Answer, CallFails
  <2>2. CASE FindDevice(q) \/ LaunchRun(q) \/ CountFire(q) \/ MarkFired(q) \/ MarkResolved(q) \/ OpenCase(q)
    BY <2>2, <1>5 DEF FindDevice, LaunchRun, CountFire, MarkFired, MarkResolved, OpenCase, Stages
  <2>3. QED
    BY <1>1, <1>7, <2>1, <2>2 DEF HandleCall
<1>8. CASE \E p \in Passes : RunPass(p)
  BY <1>6, <1>8 DEF RunPass, PassAsks, Judge, PassFails
<1>9. CASE TickStarts \/ PolicyBecomesDue \/ CooldownEnds \/ FleetStep \/ FleetFails \/ UNCHANGED vars
  BY <1>6, <1>9 DEF TickStarts, PolicyBecomesDue, CooldownEnds, FleetStep, FleetFails, vars
<1>10. QED
  BY <1>2, <1>3, <1>7, <1>8, <1>9 DEF Next

\* What a step does to the list and to the pulls.
LEMMA ListMoves ==
  ASSUME [Next]_vars
  PROVE  \/ cache' \in {cache, NoList} /\ UNCHANGED <<inFlight, pull>>
         \/ \E c \in Calls \cup Passes : inFlight = 0 /\ Fleet!StartPull(c) /\ UNCHANGED cache
         \/ /\ \E k \in 1..2 : Fleet!PullReads(k) \/ Fleet!PullReturns(k) \/ Fleet!PullFails(k)
            /\ UNCHANGED attributes
<1>1. ASSUME NEW c \in Calls \cup Passes, NEW refresh, Fleet!Ask(c, refresh)
      PROVE  \/ UNCHANGED <<cache, inFlight, pull>>
             \/ inFlight = 0 /\ Fleet!StartPull(c) /\ UNCHANGED cache
  BY <1>1 DEF Fleet!Ask, Fleet!JoinOrStart
<1>2. ASSUME NEW q \in Calls, HandleCall(q)
      PROVE  \/ cache' \in {cache, NoList} /\ UNCHANGED <<inFlight, pull>>
             \/ Fleet!Ask(q, FALSE)
  BY <1>2 DEF HandleCall, StoreReport, DropAndEvaluate, FindDevice, LaunchRun, CountFire, MarkFired,
              MarkResolved, OpenCase, Answer, CallFails, Fleet!Dropped, listVars
<1>3. ASSUME NEW p \in Passes, RunPass(p)
      PROVE  UNCHANGED <<cache, inFlight, pull>> \/ Fleet!Ask(p, TRUE)
  BY <1>3 DEF RunPass, PassAsks, Judge, PassFails
<1>4. CASE FleetStep \/ FleetFails
  BY <1>4 DEF FleetStep, FleetFails, Fleet!Expire
<1>5. CASE \/ ReportArrives \/ \E q \in ToolCalls, kind \in {"fire", "resolve"} : SignalArrives(q, kind)
           \/ TickStarts \/ PolicyBecomesDue \/ CooldownEnds \/ UNCHANGED vars
  BY <1>5 DEF ReportArrives, SignalArrives, TickStarts, PolicyBecomesDue, CooldownEnds, vars, listVars
<1>6. QED
  BY <1>1, <1>2, <1>3, <1>4, <1>5 DEF Next

\* A pull that is in flight when the attributes grow or the list is dropped.
LEMMA PullStays ==
  ASSUME ListInv, ReportsInOrder', attributes' >= attributes, cache' \in {cache, NoList},
         UNCHANGED <<inFlight, pull>>
  PROVE  ListInv'
BY DEF ListInv, OnePull, ReportsInOrder, HasRead

LEMMA PullStarts ==
  ASSUME ListInv, ReportsInOrder', attributes' >= attributes, UNCHANGED cache,
         NEW c, inFlight = 0, Fleet!StartPull(c)
  PROVE  ListInv'
<1>1. PICK k \in 1..2 : pull' = [pull EXCEPT ![k] = <<>>] /\ inFlight' = k
  BY DEF Fleet!StartPull
<1>2. \A j \in 1..2 : pull[j] = NoList
  BY DEF ListInv, OnePull
<1>3. QED
  BY <1>1, <1>2 DEF ListInv, OnePull, ReportsInOrder

\* The next part is read: the attributes as they are, which the list served is
\* not ahead of.
LEMMA PullReadsOn ==
  ASSUME ListInv, ReportsInOrder', attributes' = attributes, NEW k \in 1..2, Fleet!PullReads(k)
  PROVE  ListInv'
<1>1. pull[k] # NoList /\ UNCHANGED <<cache, inFlight>>
  BY DEF Fleet!PullReads, Fleet!Idle
<1>2. Len(Parts) = 2 /\ Parts[1] = "attributes" /\ Len(pull[k]) < 2
  BY DEF Parts, Fleet!PullReads
<1> DEFINE x == [attributes |-> attributes, alarm |-> alarm][Parts[Len(pull[k]) + 1]]
<1>3. pull' = [pull EXCEPT ![k] = Append(pull[k], x)] /\ (Len(pull[k]) = 0 => x = attributes)
  BY <1>2 DEF Fleet!PullReads
<1> HIDE DEF x
<1>4. CASE pull[k] = <<>>
  <2>1. pull' = [pull EXCEPT ![k] = <<attributes>>]
    BY <1>3, <1>4
  <2>2. HasRead(<<attributes>>, attributes)
    BY DEF HasRead
  <2>3. QED
    BY <1>1, <2>1, <2>2 DEF ListInv, OnePull, ReportsInOrder
<1>5. CASE \E n \in 0..attributes : HasRead(pull[k], n) /\ (cache # NoList => n >= cache.attributes)
  <2>1. PICK n \in 0..attributes : HasRead(pull[k], n) /\ (cache # NoList => n >= cache.attributes)
    BY <1>5
  <2>2. pull[k] = <<n>>
    BY <1>2, <2>1 DEF HasRead
  <2>3. pull' = [pull EXCEPT ![k] = <<n, x>>] /\ HasRead(<<n, x>>, n)
    <3>1. Append(<<n>>, x) = <<n, x>>
      <4>1. <<n>> \in Seq({n, x}) /\ Len(<<n>>) = 1 /\ x \in {n, x}
        OBVIOUS
      <4> DEFINE two == Append(<<n>>, x)
      <4>2. two \in Seq({n, x}) /\ Len(two) = 2 /\ two[1] = n /\ two[2] = x
        BY <4>1, AppendProperties
      <4>3. <<n, x>> \in Seq({n, x}) /\ Len(<<n, x>>) = 2
        OBVIOUS
      <4> HIDE DEF two
      <4>4. two = <<n, x>>
        BY <4>2, <4>3, SeqEqual
      <4>5. QED
        BY <4>4 DEF two
    <3>2. QED
      BY <1>3, <2>2, <3>1 DEF HasRead
  <2>4. QED
    BY <1>1, <2>1, <2>3 DEF ListInv, OnePull, ReportsInOrder
<1>6. QED
  BY <1>1, <1>4, <1>5 DEF ListInv, OnePull

\* The list that a pull returns is not older than the one it replaces.
LEMMA PullReturned ==
  ASSUME ListInv, NEW k \in 1..2, Fleet!PullReturns(k)
  PROVE  /\ cache'.attributes \in 0..attributes
         /\ cache # NoList => cache'.attributes >= cache.attributes
<1>1. pull[k] # NoList /\ Len(pull[k]) = 2 /\ cache' = Fleet!ListOf(k)
  BY DEF Fleet!PullReturns, Fleet!Idle, Parts
<1>2. pull[k] # <<>>
  BY <1>1
<1>3. PICK n \in 0..attributes : HasRead(pull[k], n) /\ (cache # NoList => n >= cache.attributes)
  BY <1>1, <1>2 DEF ListInv, OnePull
<1>4. pull[k][1] = n
  BY <1>3 DEF HasRead
<1>5. (CHOOSE i \in DOMAIN Parts : Parts[i] = "attributes") = 1
  BY DEF Parts
<1>6. "attributes" \in Fleet!PartNames
  BY DEF Fleet!PartNames, Parts
<1>7. Fleet!ListOf(k).attributes = pull[k][1]
  BY <1>5, <1>6 DEF Fleet!ListOf
<1>8. QED
  BY <1>1, <1>3, <1>4, <1>7

LEMMA PullEnds ==
  ASSUME ListInv, ReportsInOrder', attributes' = attributes, NEW k \in 1..2,
         Fleet!PullReturns(k) \/ Fleet!PullFails(k)
  PROVE  ListInv'
<1>1. pull[k] # NoList /\ pull' = [pull EXCEPT ![k] = NoList] /\ k = inFlight
  BY DEF Fleet!PullReturns, Fleet!PullFails, Fleet!Idle, ListInv, OnePull
<1>2. \A j \in 1..2 : pull'[j] = NoList
  BY <1>1 DEF ListInv, OnePull
<1>3. cache' # NoList => cache'.attributes \in 0..attributes
  BY PullReturned DEF Fleet!PullFails, ListInv
<1>4. QED
  BY <1>1, <1>2, <1>3 DEF ListInv, OnePull

LEMMA ListStep ==
  ASSUME ListInv, [Next]_vars
  PROVE  ListInv' /\ (cache # NoList /\ cache' # NoList => cache'.attributes >= cache.attributes)
<1>1. ReportsInOrder' /\ attributes' >= attributes
  BY ReportsStayInOrder DEF ListInv
<1>2. CASE cache' \in {cache, NoList} /\ UNCHANGED <<inFlight, pull>>
  BY <1>1, <1>2, PullStays DEF ListInv, ReportsInOrder
<1>3. CASE \E c \in Calls \cup Passes : inFlight = 0 /\ Fleet!StartPull(c) /\ UNCHANGED cache
  BY <1>1, <1>3, PullStarts DEF ListInv, ReportsInOrder
<1>4. CASE /\ \E k \in 1..2 : Fleet!PullReads(k) \/ Fleet!PullReturns(k) \/ Fleet!PullFails(k)
           /\ UNCHANGED attributes
  <2>1. PICK k \in 1..2 : Fleet!PullReads(k) \/ Fleet!PullReturns(k) \/ Fleet!PullFails(k)
    BY <1>4
  <2>2. attributes' = attributes
    BY <1>4
  <2>3. CASE Fleet!PullReads(k)
    <3>1. ListInv' /\ UNCHANGED cache
      BY <1>1, <2>2, <2>3, PullReadsOn DEF Fleet!PullReads
    <3>2. QED
      BY <3>1 DEF ListInv, ReportsInOrder
  <2>4. CASE Fleet!PullReturns(k) \/ Fleet!PullFails(k)
    BY <1>1, <2>2, <2>4, PullEnds, PullReturned DEF Fleet!PullFails, ListInv, ReportsInOrder
  <2>5. QED
    BY <2>1, <2>3, <2>4
<1>5. QED
  BY <1>2, <1>3, <1>4, ListMoves

\* The list served never goes back to older attributes, however long a pull
\* takes, whatever drops the list, fails or joins meanwhile.
THEOREM ListsAdvance == Spec => ListsNeverGoBack
<1>1. ListInv /\ [Next]_vars => ListInv'
  BY ListStep
<1>2. ListInv /\ [Next]_vars
      => [cache # NoList /\ cache' # NoList => cache'.attributes >= cache.attributes]_vars
  BY ListStep
<1>3. QED
  BY <1>1, <1>2, ListInit, PTL DEF Spec, ListsNeverGoBack

=============================================================================
