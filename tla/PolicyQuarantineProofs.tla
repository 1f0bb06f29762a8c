------------------------ MODULE PolicyQuarantineProofs ------------------------
(***************************************************************************)
(* A monitor judges what the device has had, for any number of chains; and *)
(* with one chain the way back is never lost, and an added policy disturbs *)
(* no other one and outranks every number it is to be put above, whatever  *)
(* steps the workflow holds, however often calls fail and whoever pulls    *)
(* the fleet.  The last two rest on what reading and pushing do to a stack *)
(* whose entries are in their slots (Slots): one primary entry, first and  *)
(* without a number, and a number for every other one.                     *)
(***************************************************************************)
EXTENDS PolicyQuarantine, FiniteSetTheorems, SequenceTheorems, WellFoundedInduction, TLAPS

\* The records keep their fields, whatever these hold.
IsChain(r) == r \in [stage : {r.stage}, step : {r.step}, data : {r.data}, ran : {r.ran}]
IsPull(r)  == r \in [stage : {r.stage}, data : {r.data}, cached : {r.cached}]

Shapes ==
  /\ chain = [c \in Chains |-> chain[c]] /\ \A c \in Chains : IsChain(chain[c])
  /\ IsPull(pull)

LEMMA StageOnly ==
  ASSUME NEW r, NEW stage, IsChain(r)
  PROVE  LET q == [r EXCEPT !.stage = stage]
         IN  IsChain(q) /\ q.stage = stage /\ q.data = r.data /\ q.step = r.step
BY DEF IsChain

LEMMA IdleIsChain ==
  ASSUME NEW n PROVE IsChain(Idle(n)) /\ Idle(n).stage = "idle"
BY DEF IsChain, Idle

\* Of the chains only c moves.
Moves(c) ==
  /\ chain' = [d \in Chains |-> chain'[d]]
  /\ \A d \in Chains \ {c} : chain'[d] = chain[d]
  /\ IsChain(chain'[c])

\* What a step of a chain leaves that chain, and the others, with.
LEMMA ToAnother ==
  ASSUME Shapes, NEW c \in Chains, NEW stage, To(c, stage)
  PROVE  Moves(c) /\ chain'[c].stage = stage /\ chain'[c].data = chain[c].data
         /\ chain'[c].step = chain[c].step
<1>1. chain'[c] = [chain[c] EXCEPT !.stage = stage] /\ IsChain(chain[c])
  BY DEF Shapes, To
<1>2. /\ chain' = [d \in Chains |-> chain'[d]]
      /\ \A d \in Chains \ {c} : chain'[d] = chain[d]
  BY DEF Shapes, To
<1>3. QED
  BY <1>1, <1>2, StageOnly DEF Moves

LEMMA BackToIdle ==
  ASSUME Shapes, NEW c \in Chains, StepDone(c)
  PROVE  Moves(c) /\ chain'[c].stage = "idle"
<1>1. chain'[c] = Idle(chain[c].ran)
  BY DEF Shapes, StepDone
<1>2. /\ chain' = [d \in Chains |-> chain'[d]]
      /\ \A d \in Chains \ {c} : chain'[d] = chain[d]
  BY DEF Shapes, StepDone
<1>3. QED
  BY <1>1, <1>2, IdleIsChain DEF Moves

LEMMA ReadBegins ==
  ASSUME Shapes, NEW c \in Chains, BeginRead(c)
  PROVE  /\ Moves(c) /\ chain'[c].stage = "pulling"
         /\ IsPull(pull') /\ pull'.stage # "none" /\ (pull.stage # "none" => pull' = pull)
         /\ pull.stage = "none" => pull'.stage = "reading"
<1>1. PICK s \in Steps : chain' = [chain EXCEPT ![c] =
        [stage |-> "pulling", step |-> s, data |-> <<>>, ran |-> chain[c].ran + 1]]
  BY DEF BeginRead
<1>2. Moves(c) /\ chain'[c].stage = "pulling"
  BY <1>1 DEF Shapes, Moves, IsChain
<1>3. pull' = IF pull.stage = "none" THEN [pull EXCEPT !.stage = "reading"] ELSE pull
  BY DEF BeginRead
<1>4. QED
  BY <1>2, <1>3 DEF Shapes, IsPull

LEMMA RestoreBegins ==
  ASSUME Shapes, NEW c \in Chains, BeginRestore(c)
  PROVE  Moves(c) /\ chain'[c].stage = "lookup"
<1>1. PICK s \in Steps : chain' = [chain EXCEPT ![c] =
        [stage |-> "lookup", step |-> s, data |-> <<>>, ran |-> chain[c].ran + 1]]
  BY DEF BeginRestore
<1>2. QED
  BY <1>1 DEF Shapes, Moves, IsChain

LEMMA LooksUp ==
  ASSUME Shapes, NEW c \in Chains, LookupSnapshot(c)
  PROVE  /\ Moves(c)
         /\ snapshot.kept => chain'[c].stage = "restorePut" /\ chain'[c].data = snapshot.policies
         /\ ~snapshot.kept => chain'[c].stage = "idle"
<1>1. /\ chain' = [d \in Chains |-> chain'[d]]
      /\ \A d \in Chains \ {c} : chain'[d] = chain[d]
  BY DEF Shapes, LookupSnapshot
<1>2. CASE snapshot.kept
  <2> DEFINE q == [chain[c] EXCEPT !.stage = "restorePut", !.data = snapshot.policies]
  <2>1. chain'[c] = q
    BY <1>2 DEF Shapes, LookupSnapshot
  <2>2. IsChain(chain[c])
    BY DEF Shapes
  <2>3. IsChain(q) /\ q.stage = "restorePut" /\ q.data = snapshot.policies
    BY <2>2 DEF IsChain
  <2> HIDE DEF q
  <2>4. QED
    BY <1>1, <1>2, <2>1, <2>3 DEF Moves
<1>3. CASE ~snapshot.kept
  <2>1. chain'[c] = Idle(chain[c].ran)
    BY <1>3 DEF Shapes, LookupSnapshot
  <2>2. QED
    BY <1>1, <1>3, <2>1, IdleIsChain DEF Moves
<1>4. QED
  BY <1>2, <1>3

LEMMA Returned ==
  ASSUME Shapes, PullReturns
  PROVE  /\ chain' = [c \in Chains |-> chain'[c]]
         /\ \A c \in Chains : IsChain(chain'[c])
         /\ \A c \in Chains : chain[c].stage # "pulling" => chain'[c] = chain[c]
         /\ \A c \in Chains : chain[c].stage = "pulling" =>
              chain'[c].stage = "pulled" /\ chain'[c].data = pull.data
         /\ IsPull(pull') /\ pull'.stage = "none"
<1>1. chain' = [c \in Chains |-> chain'[c]] /\ IsPull(pull') /\ pull'.stage = "none"
  BY DEF PullReturns, IsPull
<1>2. ASSUME NEW c \in Chains
      PROVE  /\ IsChain(chain'[c])
             /\ chain[c].stage # "pulling" => chain'[c] = chain[c]
             /\ chain[c].stage = "pulling" => chain'[c].stage = "pulled" /\ chain'[c].data = pull.data
  <2> DEFINE q == [chain[c] EXCEPT !.stage = "pulled", !.data = pull.data]
  <2>1. chain'[c] = IF chain[c].stage = "pulling" THEN q ELSE chain[c]
    BY DEF PullReturns
  <2>2. IsChain(chain[c])
    BY DEF Shapes
  <2>3. IsChain(q) /\ q.stage = "pulled" /\ q.data = pull.data
    BY <2>2 DEF IsChain
  <2> HIDE DEF q
  <2>4. QED
    BY <2>1, <2>2, <2>3
<1>3. QED
  BY <1>1, <1>2

LEMMA Failed ==
  ASSUME Shapes, PullFails
  PROVE  /\ chain' = [c \in Chains |-> chain'[c]]
         /\ \A c \in Chains : IsChain(chain'[c])
         /\ \A c \in Chains : chain'[c] = chain[c] \/ chain'[c].stage = "idle"
         /\ \A c \in Chains : chain'[c].stage # "pulling"
         /\ IsPull(pull') /\ pull'.stage = "none"
<1>1. chain' = [c \in Chains |-> chain'[c]]
  BY DEF PullFails
<1>2. ASSUME NEW c \in Chains
      PROVE  /\ IsChain(chain'[c]) /\ (chain'[c] = chain[c] \/ chain'[c].stage = "idle")
             /\ chain'[c].stage # "pulling"
  <2>1. chain'[c] = IF chain[c].stage = "pulling" THEN Idle(chain[c].ran) ELSE chain[c]
    BY DEF PullFails
  <2>2. QED
    BY <2>1, IdleIsChain DEF Shapes
<1>3. IsPull(pull') /\ pull'.stage = "none"
  BY DEF PullFails, Shapes, IsPull
<1>4. QED
  BY <1>1, <1>2, <1>3

\* A step of a chain that does not begin a read moves this chain only.
LEMMA ChainMoves ==
  ASSUME Shapes, NEW c \in Chains, StepOf(c), ~BeginRead(c)
  PROVE  Moves(c) /\ UNCHANGED pull
<1>1. CASE BeginRestore(c)
  BY <1>1, RestoreBegins DEF BeginRestore
<1>2. CASE FindSnapshot(c) \/ Judge(c) \/ StillViolating(c) \/ CompliantAgain(c)
  BY <1>2, ToAnother, BackToIdle DEF FindSnapshot, Judge, StillViolating, CompliantAgain
<1>3. CASE CreateSnapshot(c) \/ DeleteSnapshot(c)
  BY <1>3, ToAnother, BackToIdle DEF CreateSnapshot, DeleteSnapshot
<1>4. CASE LookupSnapshot(c)
  BY <1>4, LooksUp DEF LookupSnapshot
<1>5. CASE PutStack(c) \/ PutRestored(c)
  BY <1>5, ToAnother, BackToIdle DEF PutStack, PutRestored
<1>6. CASE PutFails(c) \/ Dies(c)
  BY <1>6, ToAnother, BackToIdle DEF PutFails, Dies
<1>7. QED
  BY <1>1, <1>2, <1>3, <1>4, <1>5, <1>6 DEF StepOf

LEMMA ShapesKept == Shapes /\ [Next]_vars => Shapes'
<1> SUFFICES ASSUME Shapes, [Next]_vars PROVE Shapes'
  OBVIOUS
<1>1. CASE ForeignPull \/ PullReads \/ Reassign
  BY <1>1 DEF Shapes, ForeignPull, PullReads, Reassign, IsPull
<1>2. CASE PullReturns
  BY <1>2, Returned DEF Shapes
<1>3. CASE PullFails
  BY <1>3, Failed DEF Shapes
<1>4. ASSUME NEW c \in Chains, StepOf(c) PROVE Shapes'
  <2>1. Moves(c) /\ IsPull(pull')
    BY <1>4, ReadBegins, ChainMoves DEF Shapes
  <2>2. QED
    BY <2>1 DEF Shapes, Moves
<1>5. CASE UNCHANGED vars
  BY <1>5 DEF Shapes, vars
<1>6. QED
  BY <1>1, <1>2, <1>3, <1>4, <1>5 DEF Next

LEMMA InitShapes == Init => Shapes
BY IdleIsChain DEF Init, Shapes, NoPull, IsPull

---------------------------------------------------------------------------
(* What a monitor judges *)

\* What a pull has read the device had since it began, and so had what a chain
\* has been served.
ReadsAreNew ==
  /\ pull.stage # "none" => Active(stack) \in during
  /\ pull.stage = "read" => pull.data \in during
  /\ \A c \in Chains :
       /\ chain[c].stage = "pulling" => pull.stage # "none"
       /\ chain[c].stage \in {"pulled", "judge"} => chain[c].data \in since[c]

FreshInv == Shapes /\ ReadsAreNew

\* Every push is entered in the history of the pull in flight.
LEMMA PushKeepsReads ==
  ASSUME FreshInv, NEW ps, Push(ps), since' = since, pull'.stage = pull.stage, pull'.data = pull.data,
         \A c \in Chains : chain'[c] = chain[c] \/ chain'[c].stage \in {"idle", "dead", "delete"}
  PROVE  ReadsAreNew'
BY DEF FreshInv, Shapes, ReadsAreNew, Midway, Push

\* A step that neither pushes nor reads.
LEMMA RestKeepsReads ==
  ASSUME FreshInv, NEW c \in Chains, Moves(c), UNCHANGED <<stack, during, since, pull>>,
         Midway(c)' => Midway(c),
         chain'[c].stage # "pulling",
         chain'[c].stage \in {"pulled", "judge"} =>
           chain[c].stage \in {"pulled", "judge"} /\ chain'[c].data = chain[c].data
  PROVE  ReadsAreNew'
BY DEF FreshInv, ReadsAreNew, Moves, Midway

LEMMA ReadsStayNew == FreshInv /\ [Next]_vars => ReadsAreNew'
<1> SUFFICES ASSUME FreshInv, [Next]_vars PROVE ReadsAreNew'
  OBVIOUS
<1>0. Shapes
  BY DEF FreshInv
<1>1. CASE ForeignPull \/ PullReads
  BY <1>1 DEF ForeignPull, PullReads, FreshInv, Shapes, IsPull, ReadsAreNew, Midway
<1>2. CASE PullReturns
  <2>1. /\ stack' = stack /\ pull.stage = "read" /\ pull.data \in during
        /\ \A c \in Chains : since'[c] = IF chain[c].stage = "pulling" THEN during ELSE since[c]
    BY <1>2 DEF PullReturns, FreshInv, ReadsAreNew
  <2>2. QED
    BY <1>0, <1>2, <2>1, Returned DEF FreshInv, ReadsAreNew, Midway
<1>3. CASE PullFails
  <2>1. UNCHANGED <<stack, since>>
    BY <1>3 DEF PullFails
  <2>2. QED
    BY <1>0, <1>3, <2>1, Failed DEF FreshInv, ReadsAreNew, Midway
<1>4. CASE Reassign
  <2>1. PICK s \in EditedStacks : Push(s)
    BY <1>4 DEF Reassign
  <2>2. /\ pull'.stage = pull.stage /\ pull'.data = pull.data
        /\ UNCHANGED <<chain, since>>
    BY <1>0, <1>4 DEF Reassign, Shapes, IsPull
  <2>3. QED
    BY <2>1, <2>2, PushKeepsReads
<1>5. ASSUME NEW c \in Chains, StepOf(c) PROVE ReadsAreNew'
  <2>1. CASE BeginRead(c)
    <3>1. /\ stack' = stack /\ since' = since
          /\ during' = IF pull.stage = "none" THEN {Active(stack)} ELSE during
      BY <2>1 DEF BeginRead
    <3>2. QED
      BY <1>0, <2>1, <3>1, ReadBegins DEF FreshInv, ReadsAreNew, Moves, Midway
  <2>2. CASE BeginRestore(c)
    <3>1. UNCHANGED <<stack, pull, during, since>>
      BY <2>2 DEF BeginRestore
    <3>2. QED
      BY <1>0, <2>2, <3>1, RestoreBegins DEF FreshInv, ReadsAreNew, Moves, Midway
  <2>3. CASE FindSnapshot(c) \/ Judge(c) \/ StillViolating(c) \/ CompliantAgain(c)
    BY <1>0, <2>3, ToAnother, BackToIdle, RestKeepsReads
    DEF FindSnapshot, Judge, StillViolating, CompliantAgain, Midway
  <2>4. CASE CreateSnapshot(c) \/ DeleteSnapshot(c) \/ Dies(c)
    BY <1>0, <2>4, ToAnother, BackToIdle, RestKeepsReads
    DEF CreateSnapshot, DeleteSnapshot, Dies, Midway
  <2>5. CASE LookupSnapshot(c)
    BY <1>0, <2>5, LooksUp, RestKeepsReads DEF LookupSnapshot, Midway
  <2>6. CASE PutStack(c) \/ PutRestored(c) \/ PutFails(c)
    <3>1. CASE UNCHANGED <<stack, during>>
      BY <1>0, <2>6, <3>1, ToAnother, BackToIdle, RestKeepsReads
      DEF PutStack, PutRestored, PutFails, Midway
    <3>2. CASE \E ps : Push(ps)
      <4>1. pull' = pull /\ since' = since
        BY <2>6 DEF PutStack, PutRestored, PutFails
      <4>2. Moves(c) /\ chain'[c].stage \in {"idle", "dead", "delete"}
        BY <1>0, <2>6, ToAnother, BackToIdle DEF PutStack, PutRestored, PutFails
      <4>3. QED
        BY <3>2, <4>1, <4>2, PushKeepsReads DEF Moves
    <3>3. QED
      BY <2>6, <3>1, <3>2 DEF PutStack, PutRestored, PutFails
  <2>7. QED
    BY <1>5, <2>1, <2>2, <2>3, <2>4, <2>5, <2>6 DEF StepOf
<1>6. CASE UNCHANGED vars
  BY <1>6 DEF vars, FreshInv, ReadsAreNew, Midway
<1>7. QED
  BY <1>1, <1>2, <1>3, <1>4, <1>5, <1>6 DEF Next

\* getDevicesFull, executeMonitorStep: with any number of chains on the device,
\* pulls shared or failing and administrators at any moment, a monitor judges a
\* state the device has had since the pull began that serves its step.
THEOREM MonitorsJudgeAnew == Spec => []MonitorIsFresh
<1>1. Init => FreshInv
  BY InitShapes DEF FreshInv, ReadsAreNew, Init, Midway, Idle, NoPull
<1>2. FreshInv /\ [Next]_vars => FreshInv'
  BY ShapesKept, ReadsStayNew DEF FreshInv
<1>3. FreshInv => MonitorIsFresh
  BY DEF FreshInv, ReadsAreNew, MonitorIsFresh
<1>4. QED
  BY <1>1, <1>2, <1>3, PTL DEF Spec

---------------------------------------------------------------------------
(* Stacks: what is read of a device, and what a push makes of it *)

\* A set of numbers that is not empty has a least one.
LEMMA LeastIsLeast ==
  ASSUME NEW S \in SUBSET Nat, S # {}
  PROVE  Least(S) \in S /\ \A i \in S : Least(S) <= i
<1> DEFINE less == {ss \in Nat \X Nat : ss[1] < ss[2]}
<1>1. IsWellFoundedOn(less, Nat)
  <2>1. less = OpToRel(<, Nat)
    BY DEF OpToRel
  <2>2. QED
    BY <2>1, NatLessThanWellFounded
<1>2. \A i, j \in Nat : <<j, i>> \in less <=> j < i
  OBVIOUS
<1> HIDE DEF less
<1>3. PICK i \in S : \A j \in S : ~(<<j, i>> \in less)
  BY <1>1, WFMin
<1>4. \A j \in S : ~(j < i)
  BY <1>2, <1>3
<1>5. \A j \in S : i <= j
  BY <1>4
<1>6. QED
  BY <1>5 DEF Least

LEMMA PositionsAreFinite ==
  ASSUME NEW L \in Nat, NEW S, S \subseteq 1..L
  PROVE  IsFiniteSet(S) /\ Cardinality(S) \in Nat
<1>1. IsFiniteSet(1..L)
  BY FS_Interval
<1>2. IsFiniteSet(S)
  BY <1>1, FS_Subset
<1>3. QED
  BY <1>2, FS_CardinalityType

\* Counting up a set of positions meets every number up to its size.
LEMMA NthPosition ==
  ASSUME NEW L \in Nat, NEW S, S \subseteq 1..L, NEW n \in 1..Cardinality(S)
  PROVE  \E k \in S : Cardinality({j \in S : j <= k}) = n
<1> DEFINE upTo(k) == Cardinality({j \in S : j <= k})
           reach   == {k \in 0..L : upTo(k) >= n}
<1>0. \A j \in S : j \in Nat /\ 1 <= j /\ j <= L
  OBVIOUS
<1>1. IsFiniteSet(S) /\ Cardinality(S) \in Nat
  BY PositionsAreFinite
<1>2. \A k \in 0..L : IsFiniteSet({j \in S : j <= k}) /\ upTo(k) \in Nat
  BY <1>1, FS_Subset, FS_CardinalityType
<1>3. upTo(0) = 0
  <2>1. {j \in S : j <= 0} = {}
    <3>1. \A j \in S : ~(j <= 0)
      BY <1>0
    <3>2. QED
      BY <3>1, Zenon
  <2>2. QED
    BY <2>1, FS_EmptySet
<1>4. upTo(L) = Cardinality(S)
  <2>1. {j \in S : j <= L} = S
    BY <1>0
  <2>2. QED
    BY <2>1
<1>5. \A k \in 1..L : upTo(k) = IF k \in S THEN upTo(k - 1) + 1 ELSE upTo(k - 1)
  <2> TAKE k \in 1..L
  <2>1. k - 1 \in 0..L
    OBVIOUS
  <2>2. CASE k \in S
    <3>1. {j \in S : j <= k} = {j \in S : j <= k - 1} \cup {k}
      <4>1. \A j \in S : j <= k <=> j <= k - 1 \/ j = k
        BY <1>0
      <4>2. QED
        BY <2>2, <4>1, Zenon
    <3>2. k \notin {j \in S : j <= k - 1}
      OBVIOUS
    <3>3. QED
      BY <1>2, <2>1, <2>2, <3>1, <3>2, FS_AddElement
  <2>3. CASE k \notin S
    <3>1. {j \in S : j <= k} = {j \in S : j <= k - 1}
      <4>1. \A j \in S : j <= k <=> j <= k - 1
        BY <1>0, <2>3
      <4>2. QED
        BY <4>1, Zenon
    <3>2. QED
      BY <2>3, <3>1
  <2>4. QED
    BY <2>2, <2>3
<1> HIDE DEF upTo
<1>6. L \in reach /\ reach \in SUBSET Nat
  BY <1>1, <1>4
<1> DEFINE k == Least(reach)
<1>7. k \in reach /\ \A i \in reach : k <= i
  BY <1>6, LeastIsLeast
<1> HIDE DEF k
<1>8. k \in 1..L /\ k - 1 \in 0..L /\ upTo(k) >= n /\ upTo(k - 1) < n
  <2>1. k \in 0..L /\ upTo(k) >= n
    BY <1>7
  <2>2. k # 0
    BY <1>1, <1>3, <2>1
  <2>3. k - 1 \in 0..L /\ k - 1 \notin reach
    BY <1>7, <2>1, <2>2
  <2>4. upTo(k - 1) \in Nat /\ ~(upTo(k - 1) >= n)
    BY <1>2, <2>3
  <2>5. QED
    BY <1>1, <2>1, <2>2, <2>3, <2>4
<1>9. k \in S /\ upTo(k) = n
  <2>1. upTo(k) = IF k \in S THEN upTo(k - 1) + 1 ELSE upTo(k - 1)
    BY <1>5, <1>8
  <2>2. upTo(k) \in Nat /\ upTo(k - 1) \in Nat /\ n \in Nat
    <3>1. k \in 0..L /\ k - 1 \in 0..L /\ n \in Nat
      BY <1>1, <1>8
    <3>2. QED
      BY <1>2, <3>1
  <2>3. QED
    BY <1>8, <2>1, <2>2
<1>10. QED
  BY <1>9 DEF upTo

IsStack(s) == s \in Seq(Range(s))

\* The primary policy comes first and has no number; every other one has one.
Slots(s) ==
  /\ IsStack(s)
  /\ s # <<>> => s[1] = Entry(s[1].id, NoPrio, TRUE)
  /\ \A k \in 2..Len(s) : s[k] = Entry(s[k].id, s[k].prio, FALSE) /\ s[k].prio # NoPrio

NoneTwice(s) == \A j, k \in DOMAIN s : s[j].id = s[k].id => j = k

LEMMA StackDomain ==
  ASSUME NEW s, IsStack(s)
  PROVE  Len(s) \in Nat /\ DOMAIN s = 1..Len(s)
BY DEF IsStack

\* The entries of a stack in its slots.
LEMMA SlotsAre ==
  ASSUME NEW s, Slots(s), s # <<>>
  PROVE  /\ DOMAIN s = 1..Len(s) /\ Len(s) \in Nat /\ Len(s) >= 1 /\ IsStack(s)
         /\ s[1].primary /\ s[1] = Entry(s[1].id, NoPrio, TRUE)
         /\ \A k \in 2..Len(s) :
              ~s[k].primary /\ s[k].prio # NoPrio /\ s[k] = Entry(s[k].id, s[k].prio, FALSE)
<1>1. DOMAIN s = 1..Len(s) /\ Len(s) \in Nat /\ IsStack(s)
  BY StackDomain DEF Slots
<1>2. Len(s) # 0
  BY <1>1 DEF IsStack
<1>3. s[1] = Entry(s[1].id, NoPrio, TRUE) /\ Entry(s[1].id, NoPrio, TRUE).primary = TRUE
  BY DEF Slots, Entry
<1>4. ASSUME NEW k \in 2..Len(s)
      PROVE  ~s[k].primary /\ s[k].prio # NoPrio /\ s[k] = Entry(s[k].id, s[k].prio, FALSE)
  <2>1. s[k].prio # NoPrio /\ s[k] = Entry(s[k].id, s[k].prio, FALSE)
    BY DEF Slots
  <2>2. Entry(s[k].id, s[k].prio, FALSE).primary = FALSE
    BY DEF Entry
  <2>3. s[k].primary = FALSE
    BY <2>1, <2>2
  <2>4. QED
    BY <2>1, <2>3
<1>5. s[1].primary
  BY <1>3
<1>6. Len(s) >= 1
  BY <1>1, <1>2
<1>7. QED
  BY <1>1, <1>3, <1>4, <1>5, <1>6

LEMMA MakesStack ==
  ASSUME NEW n \in Nat, NEW s, s = [k \in 1..n |-> s[k]]
  PROVE  IsStack(s) /\ Len(s) = n /\ DOMAIN s = 1..n
<1>1. s \in [1..n -> Range(s)]
  BY DEF Range
<1>2. QED
  BY <1>1 DEF IsStack

\* What is read are entries of the stack, the first one first.
LEMMA ActiveIs ==
  ASSUME NEW s, IsStack(s)
  PROVE  /\ IsStack(Active(s))
         /\ \A n \in DOMAIN Active(s) : \E k \in DOMAIN s : Active(s)[n] = s[k] /\ (k = 1 <=> n = 1)
<1> DEFINE first   == {k \in DOMAIN s : \A j \in 1..(k - 1) : s[j].id # s[k].id}
           upTo(k) == Cardinality({j \in first : j <= k})
           nth(n)  == CHOOSE k \in first : upTo(k) = n
<1>1. Len(s) \in Nat /\ DOMAIN s = 1..Len(s)
  BY StackDomain
<1>2. first \subseteq 1..Len(s)
  BY <1>1
<1>3. Active(s) = [n \in 1..Cardinality(first) |-> s[nth(n)]]
  BY Zenon DEF Active
<1>4. 1 \in DOMAIN s => 1 \in first
  BY <1>1
<1> HIDE DEF first
<1>5. IsFiniteSet(first) /\ Cardinality(first) \in Nat
  BY <1>1, <1>2, PositionsAreFinite
<1>6. \A n \in 1..Cardinality(first) : nth(n) \in first /\ upTo(nth(n)) = n
  <2> TAKE n \in 1..Cardinality(first)
  <2>1. \E k \in first : upTo(k) = n
    BY <1>1, <1>2, NthPosition
  <2>2. QED
    BY <2>1
<1>7. \A k \in first : k = 1 <=> upTo(k) = 1
  <2> TAKE k \in first
  <2>1. k \in 1..Len(s) /\ 1 \in first
    BY <1>1, <1>2, <1>4
  <2>2. CASE k = 1
    <3>0. \A j \in first : j \in Nat /\ 1 <= j
      BY <1>1, <1>2
    <3>1. {j \in first : j <= k} = {1}
      <4>1. \A j \in first : j <= k <=> j = 1
        BY <2>2, <3>0
      <4>2. QED
        BY <2>1, <4>1, Zenon
    <3>2. QED
      BY <2>2, <3>1, FS_Singleton
  <2>3. CASE k # 1
    <3>1. {1, k} \subseteq {j \in first : j <= k} /\ IsFiniteSet({j \in first : j <= k})
      BY <1>1, <1>2, <1>5, <2>1, FS_Subset
    <3>2. \A x : {j \in first : j <= k} # {x}
      BY <2>3, <3>1
    <3>3. QED
      BY <2>3, <3>1, <3>2, FS_Singleton
  <2>4. QED
    BY <2>2, <2>3
<1> HIDE DEF upTo, nth
<1>8. DOMAIN Active(s) = 1..Cardinality(first) /\ IsStack(Active(s))
  BY <1>3, <1>5, MakesStack
<1>9. ASSUME NEW n \in DOMAIN Active(s)
      PROVE  \E k \in DOMAIN s : Active(s)[n] = s[k] /\ (k = 1 <=> n = 1)
  <2>1. Active(s)[n] = s[nth(n)] /\ nth(n) \in first /\ upTo(nth(n)) = n
    BY <1>3, <1>6, <1>8, <1>9
  <2>2. nth(n) \in DOMAIN s /\ (nth(n) = 1 <=> n = 1)
    BY <1>1, <1>2, <1>7, <2>1
  <2>3. QED
    BY <2>1, <2>2
<1>10. QED
  BY <1>8, <1>9

LEMMA ActiveOfSlots ==
  ASSUME NEW s, Slots(s)
  PROVE  Slots(Active(s)) /\ Range(Active(s)) \subseteq Range(s)
<1> DEFINE a == Active(s)
<1>1. IsStack(a) /\ \A n \in DOMAIN a : \E k \in DOMAIN s : a[n] = s[k] /\ (k = 1 <=> n = 1)
  BY ActiveIs DEF Slots
<1>2. Len(a) \in Nat /\ DOMAIN a = 1..Len(a) /\ DOMAIN s = 1..Len(s) /\ Len(s) \in Nat
  BY <1>1, StackDomain DEF Slots
<1> HIDE DEF a
<1>3. a # <<>> => a[1] = Entry(a[1].id, NoPrio, TRUE)
  <2> SUFFICES ASSUME a # <<>> PROVE a[1] = Entry(a[1].id, NoPrio, TRUE)
    OBVIOUS
  <2>1. 1 \in DOMAIN a
    BY <1>1, <1>2 DEF IsStack
  <2>2. 1 \in DOMAIN s /\ a[1] = s[1]
    BY <1>1, <2>1
  <2>3. s # <<>>
    BY <2>2
  <2>4. QED
    BY <2>2, <2>3 DEF Slots
<1>4. \A n \in 2..Len(a) : a[n] = Entry(a[n].id, a[n].prio, FALSE) /\ a[n].prio # NoPrio
  <2> TAKE n \in 2..Len(a)
  <2>1. n \in DOMAIN a /\ n # 1
    BY <1>2
  <2>2. PICK k \in DOMAIN s : a[n] = s[k] /\ k # 1
    BY <1>1, <2>1
  <2>3. k \in 2..Len(s)
    BY <1>2, <2>2
  <2>4. QED
    BY <2>2, <2>3 DEF Slots
<1>5. Range(a) \subseteq Range(s)
  BY <1>1 DEF Range
<1>6. QED
  BY <1>1, <1>3, <1>4, <1>5 DEF a, Slots

LEMMA SizeOfFirsts ==
  ASSUME NEW n \in Nat PROVE Cardinality(1..n) = n
<1>1. Cardinality(1..n) = IF 1 > n THEN 0 ELSE n - 1 + 1
  BY FS_Interval
<1>2. QED
  BY <1>1

\* A stack that lists none twice is read as it is.
LEMMA ActiveOfDistinct ==
  ASSUME NEW s, IsStack(s), NoneTwice(s)
  PROVE  Active(s) = s
<1> DEFINE first   == {k \in DOMAIN s : \A j \in 1..(k - 1) : s[j].id # s[k].id}
           upTo(k) == Cardinality({j \in first : j <= k})
           nth(n)  == CHOOSE k \in first : upTo(k) = n
<1>1. Len(s) \in Nat /\ DOMAIN s = 1..Len(s)
  BY StackDomain
<1>2. first = 1..Len(s)
  BY <1>1 DEF NoneTwice
<1>3. Active(s) = [n \in 1..Cardinality(first) |-> s[nth(n)]]
  BY Zenon DEF Active
<1> HIDE DEF first
<1>4. \A k \in 1..Len(s) : upTo(k) = k
  <2> TAKE k \in 1..Len(s)
  <2>1. {j \in first : j <= k} = 1..k
    BY <1>1, <1>2
  <2> HIDE DEF first
  <2>2. Cardinality(1..k) = k
    BY <1>1, SizeOfFirsts
  <2>3. QED
    BY <2>1, <2>2
<1>5. Cardinality(first) = Len(s)
  BY <1>1, <1>2, SizeOfFirsts
<1> HIDE DEF upTo
<1>6. \A n \in 1..Len(s) : nth(n) = n
  BY <1>2, <1>4
<1> HIDE DEF nth
<1>7. Active(s) = [n \in 1..Len(s) |-> s[n]]
  BY <1>3, <1>5, <1>6
<1>8. s = [n \in 1..Len(s) |-> s[n]]
  BY <1>1 DEF IsStack
<1>9. QED
  BY <1>7, <1>8

\* RemoveAt: the entries before the place, then those after it.
LEMMA Removed ==
  ASSUME NEW s, IsStack(s), NEW i \in DOMAIN s
  PROVE  LET r == RemoveAt(s, i)
         IN  /\ IsStack(r) /\ DOMAIN r = 1..(Len(s) - 1)
             /\ \A k \in 1..(Len(s) - 1) : r[k] = s[IF k < i THEN k ELSE k + 1]
<1> DEFINE S == Range(s)
           a == SubSeq(s, 1, i - 1)
           b == SubSeq(s, i + 1, Len(s))
<1>1. s \in Seq(S) /\ Len(s) \in Nat /\ i \in 1..Len(s)
  BY StackDomain DEF IsStack
<1> HIDE DEF S
<1>2. \A k \in 1..Len(s) : s[k] \in S
  BY <1>1
<1>3. a \in Seq(S) /\ Len(a) = i - 1 /\ \A k \in 1..(i - 1) : a[k] = s[k]
  BY <1>1, <1>2
<1>4. b \in Seq(S) /\ Len(b) = Len(s) - i /\ \A k \in 1..(Len(s) - i) : b[k] = s[i + k]
  BY <1>1, <1>2
<1> HIDE DEF a, b
<1>5. RemoveAt(s, i) = a \o b
  BY DEF RemoveAt, a, b
<1> DEFINE r == a \o b
<1>6. /\ r \in Seq(S) /\ Len(r) = Len(s) - 1
      /\ \A k \in 1..(Len(s) - 1) : r[k] = IF k <= i - 1 THEN a[k] ELSE b[k - (i - 1)]
  <2>1. /\ r \in Seq(S) /\ Len(r) = Len(a) + Len(b)
        /\ \A k \in 1..(Len(a) + Len(b)) : r[k] = IF k <= Len(a) THEN a[k] ELSE b[k - Len(a)]
    BY <1>3, <1>4, ConcatProperties
  <2> HIDE DEF r
  <2>2. Len(a) + Len(b) = Len(s) - 1
    BY <1>1, <1>3, <1>4
  <2>3. QED
    BY <1>3, <2>1, <2>2
<1> HIDE DEF r
<1>7. r = [k \in 1..(Len(s) - 1) |-> r[k]]
  BY <1>1, <1>6
<1>8. IsStack(r) /\ DOMAIN r = 1..(Len(s) - 1)
  <2>1. Len(s) - 1 \in Nat
    BY <1>1
  <2>2. QED
    BY <1>7, <2>1, MakesStack
<1>9. \A k \in 1..(Len(s) - 1) : r[k] = s[IF k < i THEN k ELSE k + 1]
  <2> TAKE k \in 1..(Len(s) - 1)
  <2>1. CASE k < i
    BY <1>1, <1>3, <1>6, <2>1
  <2>2. CASE ~(k < i)
    <3>1. r[k] = b[k - (i - 1)] /\ k - (i - 1) \in 1..(Len(s) - i)
      BY <1>1, <1>6, <2>2
    <3>2. i + (k - (i - 1)) = k + 1
      BY <1>1
    <3>3. QED
      BY <1>4, <2>2, <3>1, <3>2
  <2>3. QED
    BY <2>1, <2>2
<1>10. QED
  BY <1>5, <1>8, <1>9 DEF r

\* What a push makes of a stack, given the place of the entry that leads.
LEMMA AppliedIs ==
  ASSUME NEW ps, IsStack(ps), ps # <<>>
  PROVE  \E lead \in DOMAIN ps :
           /\ \A k \in DOMAIN ps : ps[k].primary => ps[lead].primary /\ lead <= k
           /\ ~ps[lead].primary => lead = 1
           /\ IsStack(Applied(ps)) /\ DOMAIN Applied(ps) = DOMAIN ps
           /\ Applied(ps)[1] = Entry(ps[lead].id, NoPrio, TRUE)
           /\ \A k \in 2..Len(ps) :
                LET p == ps[IF k - 1 < lead THEN k - 1 ELSE k]
                IN  Applied(ps)[k] = Entry(p.id, IF p.prio = NoPrio THEN k - 1 ELSE p.prio, FALSE)
<1> DEFINE flagged == {k \in DOMAIN ps : ps[k].primary}
           lead    == IF flagged = {} THEN 1
                      ELSE CHOOSE k \in flagged : \A j \in flagged : k <= j
           rest    == RemoveAt(ps, lead)
           head    == <<Entry(ps[lead].id, NoPrio, TRUE)>>
           tail    == [k \in DOMAIN rest |->
                         Entry(rest[k].id, IF rest[k].prio = NoPrio THEN k ELSE rest[k].prio, FALSE)]
           n       == Len(ps)
<1>1. n \in Nat /\ DOMAIN ps = 1..n /\ n >= 1
  <2>1. n \in Nat /\ DOMAIN ps = 1..n
    BY StackDomain
  <2>2. n # 0
    BY DEF IsStack
  <2>3. QED
    BY <2>1, <2>2
<1>2. Applied(ps) = head \o tail
  BY Zenon DEF Applied
<1>3. /\ lead \in 1..n
      /\ \A k \in DOMAIN ps : ps[k].primary => ps[lead].primary /\ lead <= k
      /\ ~ps[lead].primary => lead = 1
  <2>1. CASE flagged = {}
    BY <1>1, <2>1
  <2>2. CASE flagged # {}
    <3>1. flagged \in SUBSET Nat
      BY <1>1
    <3>2. lead = Least(flagged)
      BY <2>2 DEF Least
    <3>3. lead \in flagged /\ \A j \in flagged : lead <= j
      BY <2>2, <3>1, <3>2, LeastIsLeast
    <3>4. QED
      BY <1>1, <3>3
  <2>3. QED
    BY <2>1, <2>2
<1> HIDE DEF flagged, lead
<1>4. /\ DOMAIN rest = 1..(n - 1)
      /\ \A k \in 1..(n - 1) : rest[k] = ps[IF k < lead THEN k ELSE k + 1]
  BY <1>1, <1>3, Removed
<1> HIDE DEF rest
<1> DEFINE entry(k) == Entry(rest[k].id, IF rest[k].prio = NoPrio THEN k ELSE rest[k].prio, FALSE)
           first    == Entry(ps[lead].id, NoPrio, TRUE)
           S        == {first} \cup {entry(k) : k \in 1..(n - 1)}
<1>5. head \in Seq(S) /\ Len(head) = 1
  <2> HIDE DEF first, entry
  <2>1. first \in S
    OBVIOUS
  <2> HIDE DEF S
  <2>2. head = <<first>>
    BY DEF first
  <2> HIDE DEF head
  <2>3. QED
    BY <2>1, <2>2
<1>6. tail \in Seq(S) /\ Len(tail) = n - 1
  <2>1. tail = [k \in 1..(n - 1) |-> entry(k)]
    BY <1>4
  <2> HIDE DEF first, entry, tail
  <2>2. n - 1 \in Nat /\ \A k \in 1..(n - 1) : entry(k) \in S
    BY <1>1
  <2> HIDE DEF S
  <2>3. QED
    BY <2>1, <2>2
<1>7. head[1] = Entry(ps[lead].id, NoPrio, TRUE)
  OBVIOUS
<1>8. \A k \in 1..(n - 1) :
        tail[k] = Entry(rest[k].id, IF rest[k].prio = NoPrio THEN k ELSE rest[k].prio, FALSE)
  BY <1>4
<1> HIDE DEF head, tail, S, first, entry
<1> DEFINE all == head \o tail
<1>9. /\ all \in Seq(S) /\ Len(all) = n /\ all[1] = head[1]
      /\ \A k \in 2..n : all[k] = tail[k - 1]
  <2>1. all \in Seq(S) /\ Len(all) = Len(head) + Len(tail)
        /\ \A k \in 1..(Len(head) + Len(tail)) :
             all[k] = IF k <= Len(head) THEN head[k] ELSE tail[k - Len(head)]
    BY <1>5, <1>6, ConcatProperties
  <2> HIDE DEF all
  <2>2. QED
    BY <1>1, <1>5, <1>6, <2>1
<1> HIDE DEF all
<1>10. IsStack(all) /\ DOMAIN all = 1..n
  <2>1. all = [k \in 1..n |-> all[k]]
    BY <1>1, <1>9
  <2>2. QED
    BY <1>1, <2>1, MakesStack
<1>11. \A k \in 2..n :
         LET p == ps[IF k - 1 < lead THEN k - 1 ELSE k]
         IN  all[k] = Entry(p.id, IF p.prio = NoPrio THEN k - 1 ELSE p.prio, FALSE)
  <2> TAKE k \in 2..n
  <2>1. k - 1 \in 1..(n - 1) /\ k - 1 + 1 = k
    BY <1>1
  <2>2. rest[k - 1] = ps[IF k - 1 < lead THEN k - 1 ELSE k]
    BY <1>4, <2>1
  <2>3. QED
    BY <1>8, <1>9, <2>1, <2>2
<1>12. QED
  BY <1>1, <1>2, <1>3, <1>7, <1>9, <1>10, <1>11 DEF all

\* A push puts the stack in its slots ...
LEMMA AppliedHasSlots ==
  ASSUME NEW ps, IsStack(ps)
  PROVE  Slots(Applied(ps))
<1>1. CASE ps = <<>>
  BY <1>1 DEF Applied, Slots, IsStack, Range
<1>2. CASE ps # <<>>
  <2> DEFINE s == Applied(ps)
  <2>1. PICK lead \in DOMAIN ps :
          /\ IsStack(s) /\ DOMAIN s = DOMAIN ps
          /\ s[1] = Entry(ps[lead].id, NoPrio, TRUE)
          /\ \A k \in 2..Len(ps) :
               LET p == ps[IF k - 1 < lead THEN k - 1 ELSE k]
               IN  s[k] = Entry(p.id, IF p.prio = NoPrio THEN k - 1 ELSE p.prio, FALSE)
    BY <1>2, AppliedIs
  <2>2. Len(ps) \in Nat /\ Len(s) = Len(ps)
    BY <2>1, StackDomain
  <2> HIDE DEF s
  <2>3. s[1] = Entry(s[1].id, NoPrio, TRUE)
    <3>1. s[1].id = ps[lead].id
      BY <2>1 DEF Entry
    <3>2. QED
      BY <2>1, <3>1
  <2>4. ASSUME NEW k \in 2..Len(s)
        PROVE  s[k] = Entry(s[k].id, s[k].prio, FALSE) /\ s[k].prio # NoPrio
    <3> DEFINE p    == ps[IF k - 1 < lead THEN k - 1 ELSE k]
               prio == IF p.prio = NoPrio THEN k - 1 ELSE p.prio
    <3>1. s[k] = Entry(p.id, prio, FALSE)
      BY <2>1, <2>2
    <3>2. prio # NoPrio
      BY <2>2 DEF NoPrio
    <3> HIDE DEF p, prio
    <3>3. s[k].id = p.id /\ s[k].prio = prio
      BY <3>1 DEF Entry
    <3>4. QED
      BY <3>1, <3>2, <3>3
  <2>5. Slots(s)
    BY <2>1, <2>3, <2>4 DEF Slots
  <2>6. QED
    BY <2>5 DEF s
<1>3. QED
  BY <1>1, <1>2

\* ... lists none twice that was not ...
LEMMA AppliedIsDistinct ==
  ASSUME NEW ps, IsStack(ps), NoneTwice(ps)
  PROVE  NoneTwice(Applied(ps))
<1>1. CASE ps = <<>>
  BY <1>1 DEF Applied, NoneTwice
<1>2. CASE ps # <<>>
  <2> DEFINE s == Applied(ps)
  <2>1. PICK lead \in DOMAIN ps :
          /\ DOMAIN s = DOMAIN ps
          /\ s[1] = Entry(ps[lead].id, NoPrio, TRUE)
          /\ \A k \in 2..Len(ps) :
               LET p == ps[IF k - 1 < lead THEN k - 1 ELSE k]
               IN  s[k] = Entry(p.id, IF p.prio = NoPrio THEN k - 1 ELSE p.prio, FALSE)
    BY <1>2, AppliedIs
  <2>2. DOMAIN ps = 1..Len(ps) /\ Len(ps) \in Nat
    BY StackDomain
  <2> HIDE DEF s
  <2> DEFINE from(k) == IF k = 1 THEN lead ELSE IF k - 1 < lead THEN k - 1 ELSE k
  <2>3. \A k \in DOMAIN s : from(k) \in DOMAIN ps /\ s[k].id = ps[from(k)].id
    <3> SUFFICES ASSUME NEW k \in DOMAIN s PROVE from(k) \in DOMAIN ps /\ s[k].id = ps[from(k)].id
      OBVIOUS
    <3>1. CASE k = 1
      BY <2>1, <3>1 DEF Entry
    <3>2. CASE k # 1
      <4>1. k \in 2..Len(ps) /\ from(k) \in 1..Len(ps)
        BY <2>1, <2>2, <3>2
      <4> DEFINE p == ps[from(k)]
      <4>2. s[k] = Entry(p.id, IF p.prio = NoPrio THEN k - 1 ELSE p.prio, FALSE)
        BY <2>1, <3>2, <4>1
      <4> HIDE DEF p
      <4>3. s[k].id = p.id
        BY <4>2 DEF Entry
      <4>4. QED
        BY <2>2, <4>1, <4>3 DEF p
    <3>3. QED
      BY <3>1, <3>2
  <2>4. \A j, k \in DOMAIN s : from(j) = from(k) => j = k
    BY <2>1, <2>2
  <2> HIDE DEF from
  <2>5. NoneTwice(s)
    BY <2>3, <2>4 DEF NoneTwice
  <2>6. QED
    BY <2>5 DEF s
<1>3. QED
  BY <1>1, <1>2

\* ... and leaves alone what is in its slots already.
LEMMA AppliedInSlots ==
  ASSUME NEW ps, IsStack(ps), ps # <<>>, ps[1].primary, \A k \in 2..Len(ps) : ~ps[k].primary
  PROVE  /\ DOMAIN Applied(ps) = 1..Len(ps) /\ IsStack(Applied(ps))
         /\ Applied(ps)[1] = Entry(ps[1].id, NoPrio, TRUE)
         /\ \A k \in 2..Len(ps) :
              Applied(ps)[k] = Entry(ps[k].id, IF ps[k].prio = NoPrio THEN k - 1 ELSE ps[k].prio, FALSE)
<1> DEFINE s == Applied(ps)
<1>1. PICK lead \in DOMAIN ps :
        /\ \A k \in DOMAIN ps : ps[k].primary => ps[lead].primary /\ lead <= k
        /\ IsStack(s) /\ DOMAIN s = DOMAIN ps
        /\ s[1] = Entry(ps[lead].id, NoPrio, TRUE)
        /\ \A k \in 2..Len(ps) :
             LET p == ps[IF k - 1 < lead THEN k - 1 ELSE k]
             IN  s[k] = Entry(p.id, IF p.prio = NoPrio THEN k - 1 ELSE p.prio, FALSE)
  BY AppliedIs
<1>2. DOMAIN ps = 1..Len(ps) /\ Len(ps) \in Nat /\ 1 \in DOMAIN ps
  <2>1. DOMAIN ps = 1..Len(ps) /\ Len(ps) \in Nat
    BY StackDomain
  <2>2. Len(ps) # 0
    BY DEF IsStack
  <2>3. QED
    BY <2>1, <2>2
<1> HIDE DEF s
<1>3. lead = 1
  BY <1>1, <1>2
<1>4. \A k \in 2..Len(ps) : ~(k - 1 < lead)
  BY <1>2, <1>3
<1>5. QED
  BY <1>1, <1>2, <1>3, <1>4 DEF s

LEMMA AppliedOfSlots ==
  ASSUME NEW s, Slots(s)
  PROVE  Applied(s) = s
<1>1. CASE s = <<>>
  BY <1>1 DEF Applied
<1>2. CASE s # <<>>
  <2>1. DOMAIN s = 1..Len(s) /\ Len(s) \in Nat /\ IsStack(s)
    BY <1>2, SlotsAre
  <2>3. /\ s[1].primary /\ s[1] = Entry(s[1].id, NoPrio, TRUE)
        /\ \A k \in 2..Len(s) : ~s[k].primary /\ s[k].prio # NoPrio /\ s[k] = Entry(s[k].id, s[k].prio, FALSE)
    BY <1>2, SlotsAre
  <2> DEFINE t == Applied(s)
  <2>4. /\ DOMAIN t = 1..Len(s) /\ IsStack(t) /\ t[1] = s[1]
        /\ \A k \in 2..Len(s) : t[k] = s[k]
    BY <1>2, <2>1, <2>3, AppliedInSlots
  <2> HIDE DEF t
  <2>5. \A k \in 1..Len(s) : t[k] = s[k]
    BY <2>1, <2>4
  <2>6. t = [k \in 1..Len(s) |-> t[k]] /\ s = [k \in 1..Len(s) |-> s[k]]
    BY <2>1, <2>4 DEF IsStack
  <2>7. t = s
    BY <2>5, <2>6
  <2>8. QED
    BY <2>7 DEF t
<1>3. QED
  BY <1>1, <1>2

\* A policy added to what was read of a stack in its slots leaves the others as
\* they are, and comes last.
LEMMA AddedToSlots ==
  ASSUME NEW s, Slots(s), NEW new, ~new.primary
  PROVE  /\ Range(s) \subseteq Range(Applied(Append(s, new)))
         /\ s # <<>> /\ new.prio # NoPrio =>
              Applied(Append(s, new))[Len(Applied(Append(s, new)))].prio = new.prio
<1> DEFINE ps == Append(s, new)
           t  == Applied(ps)
<1>1. DOMAIN s = 1..Len(s) /\ Len(s) \in Nat /\ IsStack(s)
  BY StackDomain DEF Slots
<1>2. CASE s = <<>>
  BY <1>2 DEF Range
<1>3. CASE s # <<>>
  <2>1. Len(s) >= 1
    BY <1>3, SlotsAre
  <2>2. /\ s[1].primary /\ s[1] = Entry(s[1].id, NoPrio, TRUE)
        /\ \A k \in 2..Len(s) : ~s[k].primary /\ s[k].prio # NoPrio /\ s[k] = Entry(s[k].id, s[k].prio, FALSE)
    BY <1>3, SlotsAre
  <2>3. /\ Len(ps) = Len(s) + 1 /\ IsStack(ps) /\ ps[Len(s) + 1] = new
        /\ \A k \in 1..Len(s) : ps[k] = s[k]
    <3> DEFINE S == Range(s) \cup {new}
    <3>1. s \in Seq(S) /\ new \in S
      <4>1. \A k \in 1..Len(s) : s[k] \in S
        BY <1>1 DEF Range
      <4>2. s = [k \in 1..Len(s) |-> s[k]]
        BY <1>1 DEF IsStack
      <4> HIDE DEF S
      <4>3. s \in Seq(S)
        BY <1>1, <4>1, <4>2
      <4>4. QED
        BY <4>3 DEF S
    <3> HIDE DEF S
    <3>2. /\ ps \in Seq(S) /\ Len(ps) = Len(s) + 1 /\ ps[Len(s) + 1] = new
          /\ \A k \in 1..Len(s) : ps[k] = s[k]
      BY <1>1, <3>1, AppendProperties
    <3> HIDE DEF ps
    <3>3. ps = [k \in 1..(Len(s) + 1) |-> ps[k]]
      BY <1>1, <3>2
    <3>4. IsStack(ps)
      BY <1>1, <3>3, MakesStack
    <3>5. QED
      BY <3>2, <3>4
  <2>4. ps # <<>> /\ ps[1].primary /\ \A k \in 2..Len(ps) : ~ps[k].primary
    <3>1. ~new.primary
      OBVIOUS
    <3> HIDE DEF ps
    <3>2. \A k \in 2..Len(ps) : k \in 2..Len(s) \/ k = Len(s) + 1
      BY <1>1, <2>3
    <3>3. Len(ps) # 0 /\ ps[1] = s[1]
      BY <1>1, <2>1, <2>3
    <3>4. ASSUME NEW k \in 2..Len(ps) PROVE ~ps[k].primary
      <4>1. CASE k \in 2..Len(s)
        <5>1. ps[k] = s[k]
          BY <1>1, <2>3, <4>1
        <5>2. QED
          BY <2>2, <4>1, <5>1
      <4>2. CASE k = Len(s) + 1
        <5>1. ps[k] = new
          BY <2>3, <4>2
        <5>2. QED
          BY <3>1, <5>1
      <4>3. QED
        BY <3>2, <4>1, <4>2
    <3>5. ps # <<>>
      BY <3>3
    <3>6. QED
      BY <2>2, <3>3, <3>4, <3>5
  <2> HIDE DEF ps
  <2>5. /\ DOMAIN t = 1..(Len(s) + 1) /\ IsStack(t)
        /\ t[1] = Entry(ps[1].id, NoPrio, TRUE)
        /\ \A k \in 2..(Len(s) + 1) :
             t[k] = Entry(ps[k].id, IF ps[k].prio = NoPrio THEN k - 1 ELSE ps[k].prio, FALSE)
    BY <2>3, <2>4, AppliedInSlots
  <2> HIDE DEF t
  <2>6. \A k \in 1..Len(s) : t[k] = s[k]
    <3> SUFFICES ASSUME NEW k \in 1..Len(s) PROVE t[k] = s[k]
      OBVIOUS
    <3>1. CASE k = 1
      BY <1>1, <2>1, <2>2, <2>3, <2>5, <3>1
    <3>2. CASE k # 1
      <4>1. k \in 2..Len(s) /\ k \in 2..(Len(s) + 1)
        BY <1>1, <3>2
      <4>2. ps[k] = s[k] /\ s[k].prio # NoPrio /\ s[k] = Entry(s[k].id, s[k].prio, FALSE)
        BY <2>2, <2>3, <4>1
      <4>3. t[k] = Entry(s[k].id, IF s[k].prio = NoPrio THEN k - 1 ELSE s[k].prio, FALSE)
        BY <2>5, <4>1, <4>2
      <4>4. QED
        BY <4>2, <4>3
    <3>3. QED
      BY <3>1, <3>2
  <2>7. Range(s) \subseteq Range(t)
    <3>1. \A k \in 1..Len(s) : k \in DOMAIN t
      BY <1>1, <2>5
    <3>2. QED
      BY <1>1, <2>6, <3>1 DEF Range
  <2>8. new.prio # NoPrio => t[Len(t)].prio = new.prio
    <3>1. Len(t) = Len(s) + 1 /\ Len(s) + 1 \in 2..(Len(s) + 1)
      BY <1>1, <2>1, <2>5, StackDomain
    <3>2. new.prio # NoPrio => t[Len(t)] = Entry(new.id, new.prio, FALSE)
      BY <1>1, <2>3, <2>5, <3>1
    <3>3. QED
      BY <3>2 DEF Entry
  <2>9. QED
    BY <2>7, <2>8 DEF t, ps
<1>4. QED
  BY <1>2, <1>3

---------------------------------------------------------------------------
(* The way back *)

OneChain == \A c, d \in Chains : c = d

\* The hypothesis: the device begins with a primary policy and numbers the others,
\* and no policy is assigned twice.
ProperStacks == Slots(FirstStack) /\ \A s \in {FirstStack} \cup EditedStacks : NoneTwice(s)

\* Pushing what was read of it leaves a stack as it is.
RoundTrips ==
  \A s \in {FirstStack} \cup {Applied(e) : e \in EditedStacks} : Applied(Active(s)) = s

LEMMA ProperStacksRoundTrip == ProperStacks => RoundTrips
<1> SUFFICES ASSUME ProperStacks PROVE RoundTrips
  OBVIOUS
<1>1. Applied(Active(FirstStack)) = FirstStack
  BY ActiveOfDistinct, AppliedOfSlots DEF ProperStacks, Slots
<1>2. ASSUME NEW e \in EditedStacks PROVE Applied(Active(Applied(e))) = Applied(e)
  <2>1. NoneTwice(e)
    BY DEF ProperStacks
  <2>2. IsStack(e)
    <3>1. e \in StackSet
      BY QuarantineAssumption
    <3>2. \E S : e \in Seq(S)
      BY <3>1 DEF StackSet
    <3>3. Len(e) \in Nat /\ e = [k \in 1..Len(e) |-> e[k]]
      BY <3>2
    <3>4. QED
      BY <3>3, MakesStack
  <2>3. Slots(Applied(e)) /\ NoneTwice(Applied(e))
    BY <2>1, <2>2, AppliedHasSlots, AppliedIsDistinct
  <2>4. Active(Applied(e)) = Applied(e)
    BY <2>3, ActiveOfDistinct DEF Slots
  <2>5. QED
    BY <2>3, <2>4, AppliedOfSlots
<1>3. QED
  BY <1>1, <1>2 DEF RoundTrips

\* What the one chain knows at each of its awaits.
Knows(c) ==
  /\ chain[c].stage = "pulling" =>
       pull.stage # "none" /\ (pull.stage = "read" => pull.data = Active(stack))
  /\ chain[c].stage \in {"pulled", "create", "put"} => chain[c].data = Active(stack)
  /\ chain[c].stage = "create" => ~snapshot.kept
  /\ chain[c].stage = "put" => snapshot.kept
  /\ chain[c].stage = "restorePut" => snapshot.kept /\ chain[c].data = snapshot.policies
  /\ chain[c].stage = "delete" => snapshot.kept /\ stack = original

WayBackInv ==
  /\ Shapes /\ Restorable
  /\ Applied(Active(original)) = original
  /\ \A c \in Chains : Knows(c)

\* Steps that change neither the device nor the row of the snapshot.
Still == UNCHANGED <<stack, snapshot, original>>

LEMMA StillKeepsWayBack ==
  ASSUME WayBackInv, Still, Shapes', \A c \in Chains : Knows(c)'
  PROVE  WayBackInv'
BY DEF WayBackInv, Still, Restorable

\* A push under a snapshot.
LEMMA PushKeepsWayBack ==
  ASSUME WayBackInv, snapshot.kept, UNCHANGED <<snapshot, original>>, Shapes',
         \A c \in Chains : Knows(c)'
  PROVE  WayBackInv'
BY DEF WayBackInv, Restorable

LEMMA WayBackStays ==
  ASSUME OneChain, QuietSteps, FreshPulls, RoundTrips, WayBackInv, [Next]_vars
  PROVE  WayBackInv'
<1>0. Shapes /\ Shapes'
  BY ShapesKept DEF WayBackInv
<1>1. CASE ForeignPull \/ PullReads
  <2>1. Still /\ chain' = chain
    BY <1>1 DEF ForeignPull, PullReads, Still
  <2>2. \A c \in Chains : Knows(c)'
    BY <1>0, <1>1, <2>1 DEF ForeignPull, PullReads, Still, WayBackInv, Knows, Shapes, IsPull
  <2>3. QED
    BY <1>0, <2>1, <2>2, StillKeepsWayBack
<1>2. CASE PullReturns
  <2>1. Still /\ pull.stage = "read"
    BY <1>2 DEF PullReturns, Still
  <2>2. \A c \in Chains : Knows(c)'
    BY <1>0, <1>2, <2>1, Returned DEF Still, WayBackInv, Knows
  <2>3. QED
    BY <1>0, <2>1, <2>2, StillKeepsWayBack
<1>3. CASE PullFails
  <2>1. Still
    BY <1>3 DEF PullFails, Still
  <2>2. \A c \in Chains : Knows(c)'
    BY <1>0, <1>3, <2>1, Failed DEF Still, WayBackInv, Knows
  <2>3. QED
    BY <1>0, <2>1, <2>2, StillKeepsWayBack
<1>4. CASE Reassign
  <2>1. PICK s \in EditedStacks : stack' = Applied(s)
    BY <1>4 DEF Reassign, Push
  <2>2. \A c \in Chains : chain'[c] = chain[c] /\ chain[c].stage \in {"idle", "dead"}
    BY <1>4 DEF Reassign, Midway
  <2>3. \A c \in Chains : Knows(c)'
    BY <2>2 DEF Knows
  <2>4. snapshot' = snapshot /\ original' = IF snapshot.kept THEN original ELSE stack'
    BY <1>4 DEF Reassign
  <2>5. Applied(Active(stack')) = stack'
    BY <2>1 DEF RoundTrips
  <2>6. QED
    BY <1>0, <2>3, <2>4, <2>5 DEF WayBackInv, Restorable
<1>5. ASSUME NEW c \in Chains, StepOf(c) PROVE WayBackInv'
  <2>0. \A d \in Chains : d = c
    BY DEF OneChain
  <2>1. CASE BeginRead(c)
    <3>1. Still /\ pull.stage # "read"
      BY <2>1 DEF BeginRead, Still
    <3>2. Knows(c)'
      BY <1>0, <2>1, <3>1, ReadBegins DEF Knows
    <3>3. QED
      BY <1>0, <2>0, <3>1, <3>2, StillKeepsWayBack
  <2>2. CASE BeginRestore(c)
    <3>1. Still
      BY <2>2 DEF BeginRestore, Still
    <3>2. Knows(c)'
      BY <1>0, <2>2, RestoreBegins DEF Knows
    <3>3. QED
      BY <1>0, <2>0, <3>1, <3>2, StillKeepsWayBack
  <2>3. CASE FindSnapshot(c) \/ Judge(c) \/ StillViolating(c) \/ CompliantAgain(c) \/ Dies(c)
    <3>1. Still
      BY <2>3 DEF FindSnapshot, Judge, StillViolating, CompliantAgain, Dies, Still
    <3>2. Knows(c)'
      BY <1>0, <2>3, <3>1, ToAnother, BackToIdle
      DEF FindSnapshot, Judge, StillViolating, CompliantAgain, Dies, Still, WayBackInv, Knows
    <3>3. QED
      BY <1>0, <2>0, <3>1, <3>2, StillKeepsWayBack
  <2>4. CASE LookupSnapshot(c)
    <3>1. Still
      BY <2>4 DEF LookupSnapshot, Still
    <3>2. Knows(c)'
      BY <1>0, <2>4, <3>1, LooksUp DEF Still, Knows
    <3>3. QED
      BY <1>0, <2>0, <3>1, <3>2, StillKeepsWayBack
  <2>5. CASE CreateSnapshot(c)
    <3>1. /\ ~snapshot.kept /\ chain[c].data = Active(stack) /\ chain[c].stage = "create"
          /\ stack = original
      BY <2>5 DEF CreateSnapshot, WayBackInv, Knows, Restorable
    <3>2. /\ snapshot' = Kept(Active(stack)) /\ UNCHANGED <<stack, original>>
          /\ To(c, "put")
      BY <2>5, <3>1 DEF CreateSnapshot
    <3>3. snapshot'.kept /\ snapshot'.policies = Active(original')
      BY <3>1, <3>2 DEF Kept
    <3>4. Knows(c)'
      BY <1>0, <3>1, <3>2, <3>3, ToAnother DEF Knows
    <3>5. QED
      BY <1>0, <2>0, <3>2, <3>3, <3>4 DEF WayBackInv, Restorable
  <2>6. CASE PutStack(c)
    <3>1. snapshot.kept /\ UNCHANGED <<snapshot, original>> /\ StepDone(c)
      BY <2>6 DEF PutStack, WayBackInv, Knows
    <3>2. Knows(c)'
      BY <1>0, <3>1, BackToIdle DEF Knows
    <3>3. QED
      BY <1>0, <2>0, <3>1, <3>2, PushKeepsWayBack
  <2>7. CASE PutRestored(c)
    <3>1. /\ snapshot.kept /\ UNCHANGED <<snapshot, original>> /\ To(c, "delete")
          /\ stack' = Applied(snapshot.policies)
      BY <2>7 DEF PutRestored, Push, WayBackInv, Knows
    <3>2. stack' = original
      BY <3>1 DEF WayBackInv, Restorable
    <3>3. Knows(c)'
      BY <1>0, <3>1, <3>2, ToAnother DEF Knows
    <3>4. QED
      BY <1>0, <2>0, <3>1, <3>3, PushKeepsWayBack
  <2>8. CASE DeleteSnapshot(c)
    <3>1. snapshot.kept /\ stack = original
      BY <2>8 DEF DeleteSnapshot, WayBackInv, Knows
    <3>2. snapshot' = NoSnapshot /\ StepDone(c) /\ UNCHANGED <<stack, original>>
      BY <2>8, <3>1 DEF DeleteSnapshot
    <3>3. Knows(c)'
      BY <1>0, <3>2, BackToIdle DEF Knows
    <3>4. QED
      BY <1>0, <2>0, <3>1, <3>2, <3>3 DEF WayBackInv, Restorable, NoSnapshot
  <2>9. CASE PutFails(c)
    <3>1. snapshot.kept /\ UNCHANGED <<snapshot, original>> /\ (StepDone(c) \/ To(c, "dead"))
      BY <2>9 DEF PutFails, WayBackInv, Knows
    <3>2. Knows(c)'
      BY <1>0, <3>1, ToAnother, BackToIdle DEF Knows
    <3>3. QED
      BY <1>0, <2>0, <3>1, <3>2, PushKeepsWayBack
  <2>10. QED
    BY <1>5, <2>1, <2>2, <2>3, <2>4, <2>5, <2>6, <2>7, <2>8, <2>9 DEF StepOf
<1>6. CASE UNCHANGED vars
  BY <1>0, <1>6 DEF vars, WayBackInv, Restorable, Knows
<1>7. QED
  BY <1>1, <1>2, <1>3, <1>4, <1>5, <1>6 DEF Next

LEMMA WayBackInit == ProperStacks /\ Init => WayBackInv
BY InitShapes, ProperStacksRoundTrip
   DEF RoundTrips, WayBackInv, Init, Restorable, NoSnapshot, Knows, Idle

\* executePolicyReplaceStep, executePolicyAddStep, executePolicyRestoreStep: for
\* every first stack, every workflow and any number of failures, foreign pulls and
\* reassignments between steps, one chain never loses the original policies.
THEOREM WayBackIsKept ==
  OneChain /\ QuietSteps /\ FreshPulls /\ ProperStacks => (Spec => []Restorable)
<1> SUFFICES ASSUME OneChain, QuietSteps, FreshPulls, ProperStacks PROVE Spec => []Restorable
  OBVIOUS
<1>1. Init => WayBackInv
  BY WayBackInit
<1>2. WayBackInv /\ [Next]_vars => WayBackInv'
  BY WayBackStays, ProperStacksRoundTrip
<1>3. WayBackInv => Restorable
  BY DEF WayBackInv
<1>4. QED
  BY <1>1, <1>2, <1>3, PTL DEF Spec

---------------------------------------------------------------------------
(* Added policies *)

Numbered(s) == \A k \in DOMAIN s : s[k].prio \in Nat \cup {NoPrio}

LEMMA GreatestIsGreatest ==
  ASSUME NEW S \in SUBSET Nat, S # {}, NEW u \in Nat, \A i \in S : i <= u
  PROVE  Greatest(S) \in S /\ \A i \in S : Greatest(S) >= i
<1> DEFINE bounds == {m \in Nat : \A i \in S : i <= m}
           m == Least(bounds)
<1>1. m \in bounds /\ \A b \in bounds : m <= b
  <2>1. bounds \in SUBSET Nat /\ bounds # {}
    OBVIOUS
  <2>2. QED
    BY <2>1, LeastIsLeast
<1> HIDE DEF m
<1>2. m \in S
  <2>1. SUFFICES ASSUME m \notin S PROVE FALSE
    OBVIOUS
  <2>2. \A i \in S : i \in Nat /\ i <= m /\ i # m
    BY <1>1, <2>1
  <2>3. m \in Nat /\ m # 0
    <3>1. PICK i \in S : TRUE
      OBVIOUS
    <3>2. i \in Nat /\ i <= m /\ i # m /\ m \in Nat
      BY <1>1, <2>2
    <3>3. QED
      BY <3>2
  <2>4. m - 1 \in bounds
    BY <2>2, <2>3
  <2>5. QED
    BY <1>1, <2>3, <2>4
<1>3. \A i \in S : m >= i
  BY <1>1
<1>4. QED
  BY <1>2, <1>3 DEF Greatest

LEMMA OfTwo ==
  ASSUME NEW a \in Int, NEW b \in Int
  PROVE  /\ Greatest({a, b}) = IF a >= b THEN a ELSE b
         /\ Least({a, b}) = IF a <= b THEN a ELSE b
BY DEF Greatest, Least

\* The numbers of a stack are numbers, and there is a greatest one.
LEMMA NumbersAreBounded ==
  ASSUME NEW s, IsStack(s), Numbered(s)
  PROVE  NumbersOf(s) \in SUBSET Nat /\ \E u \in Nat : \A n \in NumbersOf(s) : n <= u
<1>1. Len(s) \in Nat /\ DOMAIN s = 1..Len(s)
  BY StackDomain
<1>2. NumbersOf(s) \in SUBSET Nat
  BY DEF NumbersOf, Numbered, Range
<1> DEFINE bounded(l) == \E u \in Nat : \A k \in 1..l : s[k].prio # NoPrio => s[k].prio <= u
           beyond == {l \in 0..Len(s) : ~bounded(l)}
<1>3. bounded(0)
  OBVIOUS
<1>4. \A l \in 1..Len(s) : bounded(l - 1) => bounded(l)
  <2> SUFFICES ASSUME NEW l \in 1..Len(s), bounded(l - 1) PROVE bounded(l)
    OBVIOUS
  <2>1. PICK u \in Nat : \A k \in 1..(l - 1) : s[k].prio # NoPrio => s[k].prio <= u
    OBVIOUS
  <2>2. \A k \in 1..l : s[k].prio \in Nat \/ s[k].prio = NoPrio
    BY <1>1 DEF Numbered
  <2>3. CASE s[l].prio = NoPrio
    <3>1. \A k \in 1..l : s[k].prio # NoPrio => s[k].prio <= u
      <4> SUFFICES ASSUME NEW k \in 1..l, s[k].prio # NoPrio PROVE s[k].prio <= u
        OBVIOUS
      <4>1. k # l /\ k \in 1..(l - 1)
        BY <2>3
      <4>2. QED
        BY <2>1, <4>1
    <3>2. QED
      BY <3>1
  <2>4. CASE s[l].prio \in Nat
    <3> DEFINE v == IF s[l].prio <= u THEN u ELSE s[l].prio
    <3>1. v \in Nat /\ u <= v /\ s[l].prio <= v
      BY <2>4
    <3> HIDE DEF v
    <3>2. \A k \in 1..l : s[k].prio # NoPrio => s[k].prio <= v
      <4> SUFFICES ASSUME NEW k \in 1..l, s[k].prio # NoPrio PROVE s[k].prio <= v
        OBVIOUS
      <4>1. CASE k = l
        BY <3>1, <4>1
      <4>2. CASE k # l
        <5>1. s[k].prio <= u /\ s[k].prio \in Nat
          BY <2>1, <2>2, <4>2
        <5>2. QED
          BY <3>1, <5>1
      <4>3. QED
        BY <4>1, <4>2
    <3>3. QED
      BY <3>1, <3>2
  <2>5. s[l].prio \in Nat \/ s[l].prio = NoPrio
    <3>1. l \in 1..l
      OBVIOUS
    <3>2. QED
      BY <2>2, <3>1
  <2>6. QED
    BY <2>3, <2>4, <2>5
<1> HIDE DEF bounded
<1>5. beyond = {}
  <2>1. SUFFICES ASSUME beyond # {} PROVE FALSE
    OBVIOUS
  <2>2. beyond \in SUBSET Nat
    BY <1>1
  <2> DEFINE l == Least(beyond)
  <2>3. l \in beyond /\ \A i \in beyond : l <= i
    BY <2>1, <2>2, LeastIsLeast
  <2> HIDE DEF l
  <2>4. l \in 1..Len(s) /\ l - 1 \in 0..Len(s) /\ ~bounded(l)
    BY <1>1, <1>3, <2>3
  <2>5. bounded(l - 1)
    BY <2>3, <2>4
  <2>6. QED
    BY <1>4, <2>4, <2>5
<1>6. bounded(Len(s))
  BY <1>1, <1>5
<1>7. \E u \in Nat : \A n \in NumbersOf(s) : n <= u
  <2>1. PICK u \in Nat : \A k \in 1..Len(s) : s[k].prio # NoPrio => s[k].prio <= u
    BY <1>6 DEF bounded
  <2>2. \A n \in NumbersOf(s) : n <= u
    BY <1>1, <2>1 DEF NumbersOf, Range
  <2>3. QED
    BY <2>2
<1>8. QED
  BY <1>2, <1>7

\* The number of a new policy: below every number there is room under, if it is to
\* go on top.
LEMMA NewPriorityIs ==
  ASSUME NEW s, IsStack(s), Numbered(s), NEW kind
  PROVE  /\ NewPriority(s, kind) \in Nat
         /\ kind = "addTop" => \A n \in NumbersOf(s) \ {PriorityMin} : NewPriority(s, kind) < n
<1> DEFINE lowest  == IF NumbersOf(s) = {} THEN Baseline ELSE Least(NumbersOf(s))
           highest == IF NumbersOf(s) = {} THEN Baseline ELSE Greatest(NumbersOf(s))
<1>1. NumbersOf(s) \in SUBSET Nat /\ \E u \in Nat : \A n \in NumbersOf(s) : n <= u
  BY NumbersAreBounded
<1>2. lowest \in Nat /\ \A n \in NumbersOf(s) : lowest <= n
  BY <1>1, LeastIsLeast DEF Baseline
<1>3. highest \in Nat
  BY <1>1, GreatestIsGreatest DEF Baseline
<1>4. NewPriority(s, kind) = IF kind = "addTop"
                             THEN Greatest({PriorityMin, lowest - PriorityStep})
                             ELSE Least({PriorityMax, highest + PriorityStep})
  BY DEF NewPriority
<1> HIDE DEF lowest, highest
<1>5. Greatest({PriorityMin, lowest - PriorityStep}) = IF 0 >= lowest - 10 THEN 0 ELSE lowest - 10
  BY <1>2, OfTwo DEF PriorityMin, PriorityStep
<1>6. Least({PriorityMax, highest + PriorityStep}) = IF 10000 <= highest + 10 THEN 10000 ELSE highest + 10
  <2>1. PriorityMax = 10000 /\ PriorityStep = 10
    BY DEF PriorityMax, PriorityStep
  <2>2. \A a, h \in Int : Least({a, h}) = IF a <= h THEN a ELSE h
    BY OfTwo
  <2>3. 10000 \in Int /\ highest + 10 \in Int
    BY <1>3
  <2>4. QED
    BY <2>1, <2>2, <2>3
<1>7. NewPriority(s, kind) \in Nat
  BY <1>2, <1>3, <1>4, <1>5, <1>6
<1>8. ASSUME kind = "addTop", NEW n \in NumbersOf(s) \ {PriorityMin} PROVE NewPriority(s, kind) < n
  <2>1. n \in Nat /\ n # 0 /\ lowest <= n
    BY <1>1, <1>2, <1>8 DEF PriorityMin
  <2>2. QED
    BY <1>2, <1>4, <1>5, <1>8, <2>1
<1>9. QED
  BY <1>7, <1>8

LEMMA AppliedIsNumbered ==
  ASSUME NEW ps, IsStack(ps), Numbered(ps)
  PROVE  Numbered(Applied(ps))
<1>1. CASE ps = <<>>
  BY <1>1 DEF Applied, Numbered
<1>2. CASE ps # <<>>
  <2> DEFINE s == Applied(ps)
  <2>1. PICK lead \in DOMAIN ps :
          /\ DOMAIN s = DOMAIN ps
          /\ s[1] = Entry(ps[lead].id, NoPrio, TRUE)
          /\ \A k \in 2..Len(ps) :
               LET p == ps[IF k - 1 < lead THEN k - 1 ELSE k]
               IN  s[k] = Entry(p.id, IF p.prio = NoPrio THEN k - 1 ELSE p.prio, FALSE)
    BY <1>2, AppliedIs
  <2>2. DOMAIN ps = 1..Len(ps) /\ Len(ps) \in Nat
    BY StackDomain
  <2> HIDE DEF s
  <2>3. ASSUME NEW k \in DOMAIN s PROVE s[k].prio \in Nat \cup {NoPrio}
    <3>1. CASE k = 1
      BY <2>1, <3>1 DEF Entry
    <3>2. CASE k # 1
      <4> DEFINE i == IF k - 1 < lead THEN k - 1 ELSE k
                 p == ps[i]
      <4>1. k \in 2..Len(ps) /\ i \in DOMAIN ps /\ k - 1 \in Nat
        BY <2>1, <2>2, <3>2
      <4>2. s[k] = Entry(p.id, IF p.prio = NoPrio THEN k - 1 ELSE p.prio, FALSE)
        BY <2>1, <4>1
      <4> HIDE DEF i
      <4>3. p.prio \in Nat \cup {NoPrio}
        BY <4>1 DEF Numbered
      <4> HIDE DEF p
      <4>4. s[k].prio = IF p.prio = NoPrio THEN k - 1 ELSE p.prio
        BY <4>2 DEF Entry
      <4>5. QED
        BY <4>1, <4>3, <4>4
    <3>3. QED
      BY <3>1, <3>2
  <2>4. QED
    BY <2>3 DEF Numbered, s
<1>3. QED
  BY <1>1, <1>2

LEMMA StackSetIs ==
  ASSUME NEW s \in StackSet
  PROVE  IsStack(s) /\ Numbered(s)
<1>1. \E S : s \in Seq(S)
  BY DEF StackSet
<1>2. Len(s) \in Nat /\ s = [k \in 1..Len(s) |-> s[k]] /\ DOMAIN s = 1..Len(s)
  BY <1>1
<1>3. ASSUME NEW k \in DOMAIN s PROVE s[k].prio \in Nat \cup {NoPrio}
  <2> DEFINE E == [id : Policies, prio : {NoPrio} \cup (PriorityMin..PriorityMax), primary : BOOLEAN]
  <2>1. s \in Seq(E)
    BY DEF StackSet
  <2> HIDE DEF E
  <2>2. s[k] \in E
    BY <1>2, <2>1
  <2>3. s[k].prio \in {NoPrio} \cup (PriorityMin..PriorityMax)
    BY <2>2 DEF E
  <2>4. PriorityMin..PriorityMax \subseteq Nat
    BY DEF PriorityMin, PriorityMax
  <2>5. QED
    BY <2>3, <2>4
<1>4. QED
  BY <1>2, <1>3, MakesStack DEF Numbered

LEMMA NumberedPart ==
  ASSUME NEW s, NEW t, IsStack(s), IsStack(t), Numbered(s), Range(t) \subseteq Range(s)
  PROVE  Numbered(t)
<1> SUFFICES ASSUME NEW k \in DOMAIN t PROVE t[k].prio \in Nat \cup {NoPrio}
  BY DEF Numbered
<1>1. t[k] \in Range(s)
  BY DEF Range
<1>2. QED
  BY <1>1 DEF Range, Numbered

\* The entries of the device stay in their slots, with numbers for priorities.
InSlots(s) == Slots(s) /\ Numbered(s)

SlotInv == InSlots(stack) /\ InSlots(original)

LEMMA ReadInSlots ==
  ASSUME NEW s, InSlots(s)
  PROVE  InSlots(Active(s))
<1>1. Slots(Active(s)) /\ Range(Active(s)) \subseteq Range(s) /\ Slots(s) /\ Numbered(s)
  BY ActiveOfSlots DEF InSlots
<1>2. QED
  BY <1>1, NumberedPart DEF InSlots, Slots

LEMMA PushInSlots ==
  ASSUME NEW ps, IsStack(ps), Numbered(ps)
  PROVE  InSlots(Applied(ps))
BY AppliedHasSlots, AppliedIsNumbered DEF InSlots

\* What a replace or an add step pushes.
LEMMA PushedIsStack ==
  ASSUME NEW c \in Chains, InSlots(chain[c].data)
  PROVE  IsStack(Pushed(c)) /\ Numbered(Pushed(c))
<1> DEFINE step == chain[c].step
           s    == chain[c].data
<1>1. IsStack(s) /\ Numbered(s) /\ DOMAIN s = 1..Len(s) /\ Len(s) \in Nat
  BY StackDomain DEF InSlots, Slots
<1>2. CASE step.kind = "replace"
  <2> DEFINE t == <<Entry(step.policy, NoPrio, FALSE)>>
  <2>1. Pushed(c) = t
    BY <1>2 DEF Pushed
  <2>2. t = [k \in 1..1 |-> t[k]] /\ t[1].prio = NoPrio
    BY DEF Entry
  <2> HIDE DEF t
  <2>3. IsStack(t) /\ DOMAIN t = 1..1
    BY <2>2, MakesStack
  <2>4. QED
    BY <2>1, <2>2, <2>3 DEF Numbered
<1>3. CASE step.kind # "replace"
  <2> DEFINE p   == NewPriority(s, step.kind)
             new == Entry(step.policy, p, FALSE)
             t   == Append(s, new)
  <2>1. Pushed(c) = t
    BY <1>3 DEF Pushed
  <2>2. p \in Nat /\ new.prio = p
    BY <1>1, NewPriorityIs DEF Entry
  <2> HIDE DEF p, new
  <2>3. s \in Seq(Range(s) \cup {new})
    <3>1. s = [k \in 1..Len(s) |-> s[k]]
      BY <1>1 DEF IsStack
    <3>2. \A k \in 1..Len(s) : s[k] \in Range(s)
      BY <1>1 DEF Range
    <3>3. QED
      BY <1>1, <3>1, <3>2
  <2>4. Len(t) = Len(s) + 1 /\ t = [k \in 1..Len(t) |-> t[k]] /\ t[Len(s) + 1] = new
        /\ \A k \in 1..Len(s) : t[k] = s[k]
    BY <1>1, <2>3
  <2> HIDE DEF t
  <2>5. Len(t) \in Nat
    BY <1>1, <2>4
  <2>6. IsStack(t) /\ DOMAIN t = 1..Len(t)
    BY <2>4, <2>5, MakesStack
  <2>7. ASSUME NEW k \in DOMAIN t PROVE t[k].prio \in Nat \cup {NoPrio}
    <3>1. CASE k = Len(s) + 1
      BY <2>2, <2>4, <3>1
    <3>2. CASE k # Len(s) + 1
      <4>1. k \in DOMAIN s /\ t[k] = s[k]
        BY <1>1, <2>4, <2>6, <3>2
      <4>2. QED
        BY <1>1, <4>1 DEF Numbered
    <3>3. QED
      BY <3>1, <3>2
  <2>8. QED
    BY <2>1, <2>6, <2>7 DEF Numbered
<1>4. QED
  BY <1>2, <1>3

\* A step whose chain is about to push changes the device by that push only.
LEMMA OnlyThePush ==
  ASSUME OneChain, QuietSteps, [Next]_vars, NEW c \in Chains, chain[c].stage = "put", stack' # stack
  PROVE  stack' = Applied(Pushed(c))
<1>1. ~Reassign
  BY DEF Reassign, Midway
<1>2. PICK d \in Chains : StepOf(d)
  BY <1>1 DEF Next, vars, ForeignPull, PullReads, PullReturns, PullFails
<1>3. d = c
  BY DEF OneChain
<1>4. PutStack(c) \/ PutFails(c)
  BY <1>2, <1>3
  DEF StepOf, BeginRead, FindSnapshot, CreateSnapshot, BeginRestore, LookupSnapshot, PutRestored,
      DeleteSnapshot, Judge, StillViolating, CompliantAgain, Dies
<1>5. QED
  BY <1>4 DEF PutStack, PutFails, Push

LEMMA SlotsStay ==
  ASSUME WayBackInv, SlotInv, [Next]_vars
  PROVE  SlotInv'
<1>1. InSlots(stack) /\ InSlots(original) /\ InSlots(Active(stack)) /\ InSlots(Active(original))
  BY ReadInSlots DEF SlotInv
<1>2. CASE UNCHANGED <<stack, original>>
  BY <1>1, <1>2 DEF SlotInv, InSlots
<1>3. CASE Reassign
  <2>1. PICK s \in EditedStacks : stack' = Applied(s)
    BY <1>3 DEF Reassign, Push
  <2>2. s \in StackSet
    BY QuarantineAssumption
  <2>3. InSlots(stack')
    BY <2>1, <2>2, StackSetIs, PushInSlots
  <2>4. original' = original \/ original' = stack'
    BY <1>3 DEF Reassign
  <2>5. QED
    BY <1>1, <2>3, <2>4 DEF SlotInv
<1>4. ASSUME NEW c \in Chains, StepOf(c), ~UNCHANGED <<stack, original>> PROVE SlotInv'
  <2>1. /\ original' = original
        /\ \/ chain[c].stage = "put" /\ stack' = Applied(Pushed(c))
           \/ chain[c].stage = "restorePut" /\ stack' = Applied(chain[c].data)
    BY <1>4
    DEF StepOf, BeginRead, FindSnapshot, CreateSnapshot, BeginRestore, LookupSnapshot, PutRestored,
        DeleteSnapshot, Judge, StillViolating, CompliantAgain, Dies, PutStack, PutFails, Push
  <2>2. CASE chain[c].stage = "put"
    <3>1. chain[c].data = Active(stack) /\ stack' = Applied(Pushed(c))
      BY <2>1, <2>2 DEF WayBackInv, Knows
    <3>2. InSlots(stack')
      BY <1>1, <3>1, PushedIsStack, PushInSlots
    <3>3. QED
      BY <1>1, <2>1, <3>2 DEF SlotInv
  <2>3. CASE chain[c].stage = "restorePut"
    <3>1. chain[c].data = Active(original) /\ stack' = Applied(Active(original))
      BY <2>1, <2>3 DEF WayBackInv, Knows, Restorable
    <3>2. InSlots(stack')
      BY <1>1, <3>1, PushInSlots DEF InSlots, Slots
    <3>3. QED
      BY <1>1, <2>1, <3>2 DEF SlotInv
  <2>4. QED
    BY <2>1, <2>2, <2>3
<1>5. QED
  BY <1>2, <1>3, <1>4 DEF Next, vars, ForeignPull, PullReads, PullReturns, PullFails

AddInv == WayBackInv /\ SlotInv

LEMMA AddInvKept ==
  ASSUME OneChain, QuietSteps, FreshPulls, ProperStacks
  PROVE  Spec => []AddInv
<1>1. Init => AddInv
  BY WayBackInit, StackSetIs, QuarantineAssumption DEF Init, ProperStacks, AddInv, SlotInv, InSlots
<1>2. AddInv /\ [Next]_vars => AddInv'
  BY WayBackStays, ProperStacksRoundTrip, SlotsStay DEF AddInv
<1>3. QED
  BY <1>1, <1>2, PTL DEF Spec

\* executePolicyAddStep, applyDevicePolicies: for every first stack and any
\* workflow, with failing calls, foreign pulls and reassignments between steps, no
\* policy on the device goes away or loses its priority or its slot because one is added.
THEOREM OthersStay ==
  OneChain /\ QuietSteps /\ FreshPulls /\ ProperStacks => (Spec => AddKeepsOthers)
<1> SUFFICES ASSUME OneChain, QuietSteps, FreshPulls, ProperStacks PROVE Spec => AddKeepsOthers
  OBVIOUS
<1> DEFINE Kept1 == \A c \in Chains :
              chain[c].stage = "put" /\ chain[c].step.kind # "replace" /\ stack' # stack
              => Range(Active(stack)) \subseteq Range(stack')
<1>1. AddInv /\ [Next]_vars => Kept1
  <2> SUFFICES ASSUME AddInv, [Next]_vars, NEW c \in Chains,
                      chain[c].stage = "put", chain[c].step.kind # "replace", stack' # stack
               PROVE  Range(Active(stack)) \subseteq Range(stack')
    OBVIOUS
  <2> DEFINE a == Active(stack)
  <2>1. stack' = Applied(Pushed(c))
    BY OnlyThePush
  <2>2. chain[c].data = a /\ Slots(a)
    BY ReadInSlots DEF AddInv, WayBackInv, Knows, SlotInv, InSlots
  <2>3. Pushed(c) = Append(a, Entry(chain[c].step.policy, NewPriority(a, chain[c].step.kind), FALSE))
    BY <2>2 DEF Pushed
  <2> DEFINE new == Entry(chain[c].step.policy, NewPriority(a, chain[c].step.kind), FALSE)
  <2>4. ~new.primary
    BY DEF Entry
  <2> HIDE DEF new
  <2>5. stack' = Applied(Append(a, new))
    BY <2>1, <2>3 DEF new
  <2>6. QED
    BY <2>2, <2>4, <2>5, AddedToSlots
<1>2. Spec => []AddInv
  BY AddInvKept
<1>3. QED
  BY <1>1, <1>2, PTL DEF Spec, AddKeepsOthers

\* executePolicyAddStep with the position "top": whatever the priorities on the
\* device, the new policy is below every number that leaves room for one.
THEOREM NewOnTop ==
  OneChain /\ QuietSteps /\ FreshPulls /\ ProperStacks => (Spec => TopOutranks)
<1> SUFFICES ASSUME OneChain, QuietSteps, FreshPulls, ProperStacks PROVE Spec => TopOutranks
  OBVIOUS
<1> DEFINE Outranks == \A c \in Chains :
              chain[c].stage = "put" /\ chain[c].step.kind = "addTop" /\ stack' # stack
              => \A n \in NumbersOf(Active(stack)) \ {PriorityMin} : stack'[Len(stack')].prio < n
<1>1. AddInv /\ [Next]_vars => Outranks
  <2> SUFFICES ASSUME AddInv, [Next]_vars, NEW c \in Chains,
                      chain[c].stage = "put", chain[c].step.kind = "addTop", stack' # stack,
                      NEW n \in NumbersOf(Active(stack)) \ {PriorityMin}
               PROVE  stack'[Len(stack')].prio < n
    OBVIOUS
  <2> DEFINE a == Active(stack)
             p == NewPriority(a, "addTop")
  <2>1. stack' = Applied(Pushed(c))
    BY OnlyThePush
  <2>2. chain[c].data = a /\ Slots(a) /\ Numbered(a) /\ IsStack(a)
    BY ReadInSlots DEF AddInv, WayBackInv, Knows, SlotInv, InSlots, Slots
  <2>3. Pushed(c) = Append(a, Entry(chain[c].step.policy, p, FALSE))
    BY <2>2 DEF Pushed
  <2>4. p \in Nat /\ p < n
    BY <2>2, NewPriorityIs
  <2>5. a # <<>> /\ p # NoPrio
    BY <2>4 DEF NumbersOf, Range, NoPrio
  <2> HIDE DEF a, p
  <2> DEFINE new == Entry(chain[c].step.policy, p, FALSE)
  <2>6. new.prio = p /\ ~new.primary /\ stack' = Applied(Append(a, new))
    BY <2>1, <2>3 DEF Entry
  <2> HIDE DEF new
  <2>7. stack'[Len(stack')].prio = p
    BY <2>2, <2>5, <2>6, AddedToSlots
  <2>8. QED
    BY <2>4, <2>7
<1>2. Spec => []AddInv
  BY AddInvKept
<1>3. QED
  BY <1>1, <1>2, PTL DEF Spec, TopOutranks

=============================================================================
