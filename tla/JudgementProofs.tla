---------------------------- MODULE JudgementProofs ----------------------------
(***************************************************************************)
(* How a device is judged: conditions fit together for all values and all  *)
(* versions, however long; the score of every device, not only of those a  *)
(* few findings away from a clean one, stays within 0..100, and no finding *)
(* lowers it.                                                              *)
(***************************************************************************)
EXTENDS PolicyRules, RiskScore, WellFoundedInduction, TLAPS

---------------------------------------------------------------------------
(* Conditions *)

Version == Seq(Nat)
Natural == Numbers \subseteq Nat /\ Versions \subseteq Version

\* A set of numbers that is not empty has a first one.
LEMMA FirstIsLeast ==
  ASSUME NEW S \in SUBSET Nat, S # {}
  PROVE  First(S) \in S /\ \A i \in S : First(S) <= i
<1> DEFINE less == {ss \in Nat \X Nat : ss[1] < ss[2]}
<1>1. IsWellFoundedOn(less, Nat)
  <2>1. less = OpToRel(<, Nat)
    BY DEF OpToRel
  <2>2. QED
    BY <2>1, NatLessThanWellFounded
<1>2. \E i \in S : \A j \in S : ~(<<j, i>> \in less)
  <2> HIDE DEF less
  <2>1. QED
    BY <1>1, WFMin
<1>3. \E i \in S : \A j \in S : i <= j
  <2>1. \A i, j \in Nat : <<j, i>> \in less <=> j < i
    OBVIOUS
  <2>2. PICK i \in S : \A j \in S : ~(<<j, i>> \in less)
    BY <1>2
  <2> HIDE DEF less
  <2>3. \A j \in S : ~(j < i)
    BY <2>1, <2>2
  <2>4. QED
    BY <2>3
<1>4. QED
  BY <1>3 DEF First

LEMMA PartIsNumber ==
  ASSUME NEW v \in Version, NEW i \in Nat
  PROVE  Part(v, i) \in Nat
BY DEF Part, Version

\* Where two versions differ, they differ within the longer one.
LEMMA DifferOrSame ==
  ASSUME NEW v \in Version, NEW w \in Version
  PROVE  /\ Differ(v, w) \in SUBSET (Nat \ {0})
         /\ \A i \in Nat \ {0} : i \notin Differ(v, w) => Part(v, i) = Part(w, i)
BY DEF Differ, Part, Version

LEMMA LowerAtFirst ==
  ASSUME NEW v \in Version, NEW w \in Version
  PROVE  /\ CompareVersions(v, w) \in Int
         /\ CompareVersions(v, w) < 0 <=>
              \E i \in Nat \ {0} : /\ Part(v, i) < Part(w, i)
                                   /\ \A j \in 1..(i - 1) : Part(v, j) = Part(w, j)
         /\ CompareVersions(v, w) > 0 <=>
              \E i \in Nat \ {0} : /\ Part(w, i) < Part(v, i)
                                   /\ \A j \in 1..(i - 1) : Part(v, j) = Part(w, j)
<1>1. /\ Differ(v, w) \in SUBSET Nat /\ Differ(v, w) \in SUBSET (Nat \ {0})
      /\ \A i \in Nat \ {0} : i \notin Differ(v, w) => Part(v, i) = Part(w, i)
      /\ \A i \in Differ(v, w) : Part(v, i) # Part(w, i)
  BY DifferOrSame DEF Differ
<1>2. \A i \in Nat : Part(v, i) \in Nat /\ Part(w, i) \in Nat
  BY PartIsNumber
<1>3. CASE Differ(v, w) = {}
  BY <1>1, <1>2, <1>3 DEF CompareVersions
<1>4. CASE Differ(v, w) # {}
  <2> DEFINE k == First(Differ(v, w))
  <2>1. k \in Differ(v, w) /\ \A i \in Differ(v, w) : k <= i
    BY <1>1, <1>4, FirstIsLeast
  <2>2. k \in Nat \ {0} /\ Part(v, k) # Part(w, k)
    BY <2>1, <1>1
  <2>3. \A j \in 1..(k - 1) : Part(v, j) = Part(w, j)
    BY <2>1, <2>2, <1>1
  <2>4. CompareVersions(v, w) = Part(v, k) - Part(w, k)
    BY <1>4 DEF CompareVersions
  <2> HIDE DEF k
  <2>5. \A i \in Nat \ {0} :
          (/\ Part(v, i) # Part(w, i) /\ \A j \in 1..(i - 1) : Part(v, j) = Part(w, j)) => i = k
    BY <2>2, <2>3
  <2>6. QED
    BY <2>2, <2>3, <2>4, <2>5, <1>2
<1>5. QED
  BY <1>3, <1>4

\* compareVersionTuples orders the versions: lower and higher exclude each
\* other, and what is lower than a lower version is lower.
LEMMA VersionsAreOrdered ==
  ASSUME NEW u \in Version, NEW v \in Version, NEW w \in Version,
         CompareVersions(u, v) < 0
  PROVE  /\ ~(CompareVersions(u, v) > 0)
         /\ CompareVersions(w, v) > 0 => CompareVersions(u, w) < 0
<1>1. \A i \in Nat : Part(u, i) \in Nat /\ Part(v, i) \in Nat /\ Part(w, i) \in Nat
  BY PartIsNumber
<1>2. ~(CompareVersions(u, v) > 0)
  BY LowerAtFirst
<1>3. ASSUME CompareVersions(w, v) > 0
      PROVE  CompareVersions(u, w) < 0
  <2>1. PICK i \in Nat \ {0} : /\ Part(u, i) < Part(v, i)
                               /\ \A j \in 1..(i - 1) : Part(u, j) = Part(v, j)
    BY LowerAtFirst
  <2>2. PICK k \in Nat \ {0} : /\ Part(v, k) < Part(w, k)
                               /\ \A j \in 1..(k - 1) : Part(w, j) = Part(v, j)
    BY <1>3, LowerAtFirst
  <2>3. CASE i <= k
    <3>1. Part(u, i) < Part(w, i)
      <4>1. i = k \/ i \in 1..(k - 1)
        BY <2>3
      <4>2. QED
        BY <4>1, <2>1, <2>2, <1>1
    <3>2. \A j \in 1..(i - 1) : Part(u, j) = Part(w, j)
      BY <2>1, <2>2, <2>3
    <3>3. QED
      BY <3>1, <3>2, LowerAtFirst
  <2>4. CASE k < i
    <3>1. Part(u, k) < Part(w, k)
      <4>1. k \in 1..(i - 1)
        BY <2>4
      <4>2. QED
        BY <4>1, <2>1, <2>2, <1>1
    <3>2. \A j \in 1..(k - 1) : Part(u, j) = Part(w, j)
      BY <2>1, <2>2, <2>4
    <3>3. QED
      BY <3>1, <3>2, LowerAtFirst
  <2>5. QED
    BY <2>3, <2>4
<1>4. QED
  BY <1>2, <1>3
---------------------------------------------------------------------------

\* What an input is.
Datum == [kind : {"null", "undefined", "empty", "number", "word", "active", "resolved"}, n : Nat]
Typed ==
  /\ input.field \in Fields
  /\ input.field = "version" =>
       input.mine \in Version /\ input.other \in Version /\ input.value \in Version
  /\ input.field # "version" =>
       input.mine \in Datum /\ input.other \in Datum /\ input.value \in Datum

LEMMA InputsAreTyped == Natural /\ RuleInit => Typed
<1> SUFFICES ASSUME Natural,
                    NEW field \in Fields, NEW value \in ValuesOf(field),
                    NEW mine \in DataOf(field), NEW other \in DataOf(field),
                    input = [field |-> field, value |-> value, mine |-> mine, other |-> other]
             PROVE  Typed
  BY DEF RuleInit
<1>1. CASE field = "version"
  <2>1. ValuesOf(field) = Versions /\ DataOf(field) = Versions \cup {<<>>}
    BY <1>1 DEF ValuesOf, DataOf
  <2>2. Versions \subseteq Version /\ <<>> \in Version
    BY DEF Natural, Version
  <2>3. QED
    BY <1>1, <2>1, <2>2 DEF Typed
<1>2. CASE field # "version"
  <2>1. Scalars \subseteq Datum /\ Absent \in Datum
    BY DEF Natural, Scalars, Scalar, Null, Undefined, Empty, Absent, Datum
  <2>2. \A kind \in {"number", "word", "active", "resolved"} : Of(kind) \subseteq Datum
    BY DEF Natural, Of, Scalar, Datum
  <2>3. ValuesOf(field) \subseteq Datum /\ DataOf(field) \subseteq Datum
    BY <1>2, <2>1, <2>2 DEF ValuesOf, DataOf, Fields
  <2>4. QED
    BY <1>2, <2>3 DEF Typed
<1>3. QED
  BY <1>1, <1>2

\* A policy that asks for two conditions is violated by nobody who matches one.
LEMMA AllNeedsBoth ==
  ASSUME NEW field, NEW actual, NEW target, NEW a, NEW b,
         ~(Matches(field, actual, a, target) /\ Matches(field, actual, b, target))
  PROVE  Violated(field, actual, {a, b}, target, "all") = {}
BY DEF Violated

\* What the two comparisons mean for counts, ages and silence.
LEMMA CountsCompare ==
  ASSUME NEW x \in Datum, NEW t \in Datum
  PROVE  /\ Matches("count", x, "lessThan", t) <=> (x # Absent /\ x.n < t.n)
         /\ Matches("count", x, "greaterThan", t) <=> (x # Absent /\ x.n > t.n)
BY DEF Matches, CountMatches

LEMMA AgesCompare ==
  ASSUME NEW x \in Datum, NEW t \in Datum
  PROVE  /\ Matches("age", x, "lessThan", t) <=> (x # Absent /\ x.n < t.n)
         /\ Matches("age", x, "greaterThan", t) <=> (x # Absent /\ x.n > t.n)
BY DEF Matches, AgeMatches

LEMMA SilencesCompare ==
  ASSUME NEW x \in Datum, NEW t \in Datum
  PROVE  /\ Matches("silence", x, "lessThan", t) <=> (x # Absent /\ x.n < t.n)
         /\ Matches("silence", x, "greaterThan", t) <=> (x = Absent \/ x.n > t.n)
<1>1. CASE x = Absent
  BY <1>1 DEF Matches, SilenceMatches
<1>2. CASE x # Absent
  BY <1>2 DEF Matches, SilenceMatches, AgeMatches
<1>3. QED
  BY <1>1, <1>2

\* ... for scalars, and for attributes that are there.
LEMMA ScalarsCompare ==
  ASSUME NEW x \in Datum, NEW t \in Datum
  PROVE  /\ Matches("scalar", x, "lessThan", t) <=>
              (IsNumber(x) /\ IsNumber(t) /\ ToNumber(x) < ToNumber(t))
         /\ Matches("scalar", x, "greaterThan", t) <=>
              (IsNumber(x) /\ IsNumber(t) /\ ToNumber(x) > ToNumber(t))
BY DEF Matches, CompareScalar

LEMMA NamesCompare ==
  ASSUME NEW x \in Datum, NEW t \in Datum
  PROVE  /\ Matches("named", x, "lessThan", t) <=>
              (x # Absent /\ IsNumber(x) /\ IsNumber(t) /\ ToNumber(x) < ToNumber(t))
         /\ Matches("named", x, "greaterThan", t) <=>
              (x # Absent /\ IsNumber(x) /\ IsNumber(t) /\ ToNumber(x) > ToNumber(t))
<1>1. /\ NamedMatches(x, "lessThan", t) <=> (x # Absent /\ CompareScalar(x, "lessThan", t))
      /\ NamedMatches(x, "greaterThan", t) <=> (x # Absent /\ CompareScalar(x, "greaterThan", t))
  BY DEF NamedMatches
<1>2. /\ Matches("named", x, "lessThan", t) <=> NamedMatches(x, "lessThan", t)
      /\ Matches("named", x, "greaterThan", t) <=> NamedMatches(x, "greaterThan", t)
  BY DEF Matches
<1>3. QED
  BY <1>1, <1>2 DEF CompareScalar

\* No datum matches two operators that are opposites.
LEMMA OppositesDoNotMatch ==
  ASSUME Typed, NEW a, NEW b, {a, b} \in Opposites(input.field), a # b
  PROVE  ~(Mine(a, input.value) /\ Mine(b, input.value))
<1>1. CASE input.field = "version"
  <2>1. {a, b} = {"lessThan", "greaterThan"}
    BY <1>1 DEF Opposites
  <2>2. ToVersion(input.mine) \in Version /\ ToVersion(input.value) \in Version
    BY <1>1 DEF Typed, ToVersion, Version
  <2>3. QED
    BY <1>1, <2>1, <2>2, VersionsAreOrdered DEF Mine, Matches, VersionMatches
<1>2. CASE input.field = "scalar"
  <2>1. {a, b} \in {{"lessThan", "greaterThan"}, {"exists", "missing"}, {"equals", "notEquals"}}
    BY <1>2 DEF Opposites
  <2>2. ToNumber(input.mine) \in Nat /\ ToNumber(input.value) \in Nat
    BY <1>2 DEF Typed, Datum, ToNumber
  <2>3. QED
    BY <1>2, <2>1, <2>2 DEF Mine, Matches, CompareScalar
<1>3. CASE input.field = "named"
  <2>1. {a, b} \in {{"lessThan", "greaterThan"}, {"exists", "missing"}, {"equals", "notEquals"}}
    BY <1>3 DEF Opposites
  <2>2. ToNumber(input.mine) \in Nat /\ ToNumber(input.value) \in Nat
    BY <1>3 DEF Typed, Datum, ToNumber
  <2>3. QED
    BY <1>3, <2>1, <2>2 DEF Mine, Matches, NamedMatches, CompareScalar
<1>4. CASE input.field \in {"count", "age", "silence"}
  <2>1. {a, b} = {"lessThan", "greaterThan"}
    BY <1>4 DEF Opposites
  <2>2. input.mine.n \in Nat /\ input.value.n \in Nat
    BY <1>4 DEF Typed, Datum
  <2>3. QED
    BY <1>4, <2>1, <2>2, CountsCompare, AgesCompare, SilencesCompare DEF Mine, Typed
<1>5. CASE input.field = "zone"
  BY <1>5 DEF Opposites, Mine, Matches, ZoneMatches
<1>6. CASE input.field = "member"
  BY <1>6 DEF Opposites, Mine, Matches, MemberMatches
<1>7. CASE input.field = "trigger"
  BY <1>7 DEF Opposites, Mine, Matches, TriggerMatches
<1>8. QED
  BY <1>1, <1>2, <1>3, <1>4, <1>5, <1>6, <1>7 DEF Typed, Fields

\* What is below the value is below everything above it.
LEMMA ValueSeparates ==
  ASSUME Typed, input.field \notin {"zone", "member", "trigger"},
         Mine("lessThan", input.value), Other("greaterThan", input.value)
  PROVE  NeverReported \/ Mine("lessThan", input.other)
<1>1. CASE input.field = "version"
  <2>1. /\ ToVersion(input.mine) \in Version /\ ToVersion(input.value) \in Version
        /\ ToVersion(input.other) \in Version
    BY <1>1 DEF Typed, ToVersion, Version
  <2>2. QED
    BY <1>1, <2>1, VersionsAreOrdered DEF Mine, Other, Matches, VersionMatches
<1>2. CASE input.field \in {"scalar", "named"}
  <2>1. /\ ToNumber(input.mine) \in Nat /\ ToNumber(input.value) \in Nat
        /\ ToNumber(input.other) \in Nat
    BY <1>2 DEF Typed, Datum, ToNumber
  <2>2. QED
    BY <1>2, <2>1, ScalarsCompare, NamesCompare DEF Mine, Other, Typed
<1>3. CASE input.field \in {"count", "age", "silence"}
  <2>1. input.mine.n \in Nat /\ input.value.n \in Nat /\ input.other.n \in Nat
    BY <1>3 DEF Typed, Datum
  <2>2. QED
    BY <1>3, <2>1, CountsCompare, AgesCompare, SilencesCompare DEF Mine, Other, NeverReported, Typed
<1>4. QED
  BY <1>1, <1>2, <1>3 DEF Typed, Fields

\* complianceEvaluate.ts: whatever the versions, numbers and words, conditions
\* on one field fit together.
THEOREM ConditionsFit == Natural => (RuleSpec => []ConditionsFitTogether)
<1>1. Natural /\ RuleInit => Typed
  BY InputsAreTyped
<1>2. Typed /\ [UNCHANGED input]_input => Typed'
  BY DEF Typed
<1>3. Typed => ConditionsFitTogether
  <2> SUFFICES ASSUME Typed PROVE ConditionsFitTogether
    OBVIOUS
  <2>1. ASSUME NEW pair \in Opposites(input.field)
        PROVE  Violated(input.field, input.mine, pair, input.value, "all") = {}
    <3>1. PICK a, b : pair = {a, b} /\ a # b
      <4>1. pair \in {{"lessThan", "greaterThan"}, {"exists", "missing"}, {"equals", "notEquals"},
                      {"inside", "outside"}, {"includes", "notIncludes"}}
        BY DEF Opposites, Typed, Fields
      <4>2. CASE pair = {"lessThan", "greaterThan"}
        BY <4>2, "lessThan" # "greaterThan"
      <4>3. CASE pair = {"exists", "missing"}
        BY <4>3, "exists" # "missing"
      <4>4. CASE pair = {"equals", "notEquals"}
        BY <4>4, "equals" # "notEquals"
      <4>5. CASE pair = {"inside", "outside"}
        BY <4>5, "inside" # "outside"
      <4>6. CASE pair = {"includes", "notIncludes"}
        BY <4>6, "includes" # "notIncludes"
      <4>7. QED
        BY <4>1, <4>2, <4>3, <4>4, <4>5, <4>6
    <3>2. QED
      BY <3>1, OppositesDoNotMatch, AllNeedsBoth DEF Mine
  <2>2. QED
    BY <2>1, ValueSeparates DEF ConditionsFitTogether
<1>4. QED
  BY <1>1, <1>2, <1>3, PTL DEF RuleSpec

---------------------------------------------------------------------------
(* The risk score *)

\* g is at least as bad as f, by the same source.
Worse(f, g) ==
  /\ g.source = f.source
  /\ f.off \subseteq g.off
  /\ \A m \in Marks : f.mark[m] => g.mark[m]
  /\ \A c \in Counts : f.count[c] <= g.count[c]
  /\ f.posture <= g.posture

LEMMA FindingsAreTyped ==
  ASSUME NEW f \in Findings
  PROVE  /\ f.source \in Sources /\ f.posture \in 1..3
         /\ \A m \in Marks : f.mark[m] \in BOOLEAN
         /\ \A c \in Counts : f.count[c] \in Nat
BY DEF Findings

\* Each group of terms is a number, and no smaller for the worse device.
LEMMA AgentPointsAreMonotone ==
  ASSUME NEW f \in Findings, NEW g \in Findings, Worse(f, g)
  PROVE  AgentPoints(f) \in Nat /\ AgentPoints(g) \in Nat /\ AgentPoints(f) <= AgentPoints(g)
<1>1. f.off \subseteq g.off /\ (f.mark["stale"] => g.mark["stale"])
  BY DEF Worse, Marks
<1>2. QED
  BY <1>1 DEF AgentPoints, If

LEMMA AndroidPointsAreMonotone ==
  ASSUME NEW f \in Findings, NEW g \in Findings, Worse(f, g)
  PROVE  AndroidPoints(f) \in Nat /\ AndroidPoints(g) \in Nat /\ AndroidPoints(f) <= AndroidPoints(g)
<1>1. /\ f.mark["notSecure"] => g.mark["notSecure"]
      /\ f.mark["notEncrypted"] => g.mark["notEncrypted"]
      /\ f.mark["adb"] => g.mark["adb"]
      /\ f.mark["unknownSources"] => g.mark["unknownSources"]
      /\ f.mark["offPolicy"] => g.mark["offPolicy"]
      /\ f.posture <= g.posture /\ f.posture \in 1..3 /\ g.posture \in 1..3
  BY FindingsAreTyped DEF Worse, Marks
<1>2. /\ AtMost(f.count["details"], 3) \in Nat /\ AtMost(g.count["details"], 3) \in Nat
      /\ AtMost(f.count["details"], 3) <= AtMost(g.count["details"], 3)
  BY FindingsAreTyped DEF AtMost, Worse, Counts
<1>3. QED
  BY <1>1, <1>2 DEF AndroidPoints, If

LEMMA AttestationPointsAreMonotone ==
  ASSUME NEW f \in Findings, NEW g \in Findings, Worse(f, g)
  PROVE  /\ AttestationPoints(f) \in Nat /\ AttestationPoints(g) \in Nat
         /\ AttestationPoints(f) <= AttestationPoints(g)
<1>1. g.source = f.source /\ f.source \in Sources
  BY FindingsAreTyped DEF Worse
<1>2. CASE f.source = "agent"
  BY <1>1, <1>2, AgentPointsAreMonotone DEF AttestationPoints
<1>3. CASE f.source = "android"
  BY <1>1, <1>3, AndroidPointsAreMonotone DEF AttestationPoints
<1>4. CASE f.source = "nobody"
  BY <1>1, <1>4 DEF AttestationPoints
<1>5. QED
  BY <1>1, <1>2, <1>3, <1>4 DEF Sources

\* A known exploit counts more than a likely one, so that finding both is no
\* better than finding one.
LEMMA ExploitPointsAreMonotone ==
  ASSUME NEW f \in Findings, NEW g \in Findings, Worse(f, g)
  PROVE  /\ ExploitPoints(f) \in Nat /\ ExploitPoints(g) \in Nat
         /\ ExploitPoints(f) <= ExploitPoints(g)
<1>1. /\ f.mark["osKev"] => g.mark["osKev"]
      /\ f.mark["osEpss"] => g.mark["osEpss"]
  BY DEF Worse, Marks
<1>2. QED
  BY <1>1 DEF ExploitPoints, If

LEMMA UpdatePointsAreMonotone ==
  ASSUME NEW f \in Findings, NEW g \in Findings, Worse(f, g)
  PROVE  UpdatePoints(f) \in Nat /\ UpdatePoints(g) \in Nat /\ UpdatePoints(f) <= UpdatePoints(g)
<1>1. /\ f.count["kbs"] \in Nat /\ g.count["kbs"] \in Nat
      /\ f.count["kbs"] <= g.count["kbs"]
      /\ f.count["appUpdates"] \in Nat /\ g.count["appUpdates"] \in Nat
      /\ f.count["appUpdates"] <= g.count["appUpdates"]
  BY FindingsAreTyped DEF Worse, Counts
<1>2. /\ f.mark["exploitedKb"] => g.mark["exploitedKb"]
      /\ f.mark["endOfLife"] => g.mark["endOfLife"]
  BY DEF Worse, Marks
<1>3. /\ AtMost(5 * f.count["kbs"], 20) \in Nat /\ AtMost(5 * g.count["kbs"], 20) \in Nat
      /\ AtMost(5 * f.count["kbs"], 20) <= AtMost(5 * g.count["kbs"], 20)
  BY <1>1 DEF AtMost
<1>4. /\ AtMost(2 * f.count["appUpdates"], 10) \in Nat /\ AtMost(2 * g.count["appUpdates"], 10) \in Nat
      /\ AtMost(2 * f.count["appUpdates"], 10) <= AtMost(2 * g.count["appUpdates"], 10)
  BY <1>1 DEF AtMost
<1>5. (f.count["kbs"] > 0 /\ f.mark["exploitedKb"]) => (g.count["kbs"] > 0 /\ g.mark["exploitedKb"])
  BY <1>1, <1>2
<1>6. QED
  BY <1>2, <1>3, <1>4, <1>5 DEF UpdatePoints, If

LEMMA CvePointsAreMonotone ==
  ASSUME NEW f \in Findings, NEW g \in Findings, Worse(f, g)
  PROVE  CvePoints(f) \in Nat /\ CvePoints(g) \in Nat /\ CvePoints(f) <= CvePoints(g)
<1>1. /\ f.count["osCves"] \in Nat /\ g.count["osCves"] \in Nat
      /\ f.count["osCves"] <= g.count["osCves"]
      /\ f.count["appCves"] \in Nat /\ g.count["appCves"] \in Nat
      /\ f.count["appCves"] <= g.count["appCves"]
      /\ f.mark["appKev"] => g.mark["appKev"]
  BY FindingsAreTyped DEF Worse, Counts, Marks
<1>2. /\ AtMost(5 * f.count["osCves"], 20) \in Nat /\ AtMost(5 * g.count["osCves"], 20) \in Nat
      /\ AtMost(5 * f.count["osCves"], 20) <= AtMost(5 * g.count["osCves"], 20)
  BY <1>1 DEF AtMost
<1>3. /\ AtMost(5 * f.count["appCves"], 20) \in Nat /\ AtMost(5 * g.count["appCves"], 20) \in Nat
      /\ AtMost(5 * f.count["appCves"], 20) <= AtMost(5 * g.count["appCves"], 20)
  BY <1>1 DEF AtMost
<1>4. QED
  BY <1>1, <1>2, <1>3, ExploitPointsAreMonotone DEF CvePoints, If

LEMMA PolicyPointsAreMonotone ==
  ASSUME NEW f \in Findings, NEW g \in Findings, Worse(f, g)
  PROVE  PolicyPoints(f) \in Nat /\ PolicyPoints(g) \in Nat /\ PolicyPoints(f) <= PolicyPoints(g)
<1>1. /\ f.count["violations"] \in Nat /\ g.count["violations"] \in Nat
      /\ f.count["violations"] <= g.count["violations"]
      /\ f.count["cases"] \in Nat /\ g.count["cases"] \in Nat
      /\ f.count["cases"] <= g.count["cases"]
      /\ f.mark["nonCompliant"] => g.mark["nonCompliant"]
  BY FindingsAreTyped DEF Worse, Counts, Marks
<1>2. /\ AtMost(f.count["violations"], 3) \in Nat /\ AtMost(g.count["violations"], 3) \in Nat
      /\ AtMost(f.count["violations"], 3) <= AtMost(g.count["violations"], 3)
  BY <1>1 DEF AtMost
<1>3. /\ AtMost(10 * f.count["cases"], 20) \in Nat /\ AtMost(10 * g.count["cases"], 20) \in Nat
      /\ AtMost(10 * f.count["cases"], 20) <= AtMost(10 * g.count["cases"], 20)
  BY <1>1 DEF AtMost
<1>4. QED
  BY <1>1, <1>2, <1>3 DEF PolicyPoints, If

LEMMA ScoreIsMonotone ==
  ASSUME NEW f \in Findings, NEW g \in Findings, Worse(f, g)
  PROVE  /\ Score(f) \in 0..100 /\ Score(g) \in 0..100
         /\ Score(f) <= Score(g)
<1>1. Points(f) \in Nat /\ Points(g) \in Nat /\ Points(f) <= Points(g)
  BY PolicyPointsAreMonotone, AttestationPointsAreMonotone, UpdatePointsAreMonotone,
     CvePointsAreMonotone DEF Points
<1>2. QED
  BY <1>1 DEF Score, AtMost

LEMMA TierFollowsScore ==
  ASSUME NEW m \in 0..100, NEW n \in 0..100, m <= n
  PROVE  TierRank(m) <= TierRank(n)
BY DEF TierRank

---------------------------------------------------------------------------

\* Every step stays within Findings and is one for the worse.
LEMMA StepIsWorse ==
  ASSUME finding \in Findings, RiskNext
  PROVE  finding' \in Findings /\ Worse(finding, finding')
<1> USE DEF Findings, Worse
<1>1. CASE \E a \in Attributes : Switch(a)
  BY <1>1 DEF Switch
<1>2. CASE \E m \in Marks : Mark(m)
  <2>1. PICK m \in Marks : finding' = [finding EXCEPT !.mark[m] = TRUE]
    BY <1>2 DEF Mark
  <2>2. finding'.mark = [finding.mark EXCEPT ![m] = TRUE]
    BY <2>1
  <2>3. finding'.mark \in [Marks -> BOOLEAN]
    BY <2>2
  <2>4. \A x \in Marks : finding.mark[x] => finding'.mark[x]
    BY <2>2
  <2>5. /\ finding'.source = finding.source /\ finding'.off = finding.off
        /\ finding'.count = finding.count /\ finding'.posture = finding.posture
    BY <2>1
  <2>6. finding' = [source |-> finding'.source, off |-> finding'.off, mark |-> finding'.mark,
                    count |-> finding'.count, posture |-> finding'.posture]
    BY <2>1
  <2>7. finding' \in Findings
    BY <2>3, <2>5, <2>6
  <2>8. QED
    BY <2>4, <2>5, <2>7
<1>3. CASE \E c \in Counts : Count(c)
  BY <1>3 DEF Count
<1>4. CASE Posture
  BY <1>4 DEF Posture
<1>5. QED
  BY <1>1, <1>2, <1>3, <1>4 DEF RiskNext

LEMMA WorseIsReflexive ==
  ASSUME NEW f \in Findings
  PROVE  Worse(f, f)
BY FindingsAreTyped DEF Worse, Sources

\* computeDeviceRisk: whatever is known of a device, its score is one of
\* 0..100.
THEOREM TypeCorrect == RiskSpec => []RiskTypeOK
<1>1. RiskInit => finding \in Findings
  BY DEF RiskInit, Clean, Findings
<1>2. finding \in Findings /\ [RiskNext]_riskVars => (finding \in Findings)'
  BY StepIsWorse DEF riskVars
<1>3. finding \in Findings => RiskTypeOK
  BY WorseIsReflexive, ScoreIsMonotone DEF RiskTypeOK
<1>4. QED
  BY <1>1, <1>2, <1>3, PTL DEF RiskSpec

\* computeDeviceRisk: whatever is known of a device, one more finding never
\* lowers its score or its tier.
THEOREM WorseScoresNoLower == RiskSpec => WorseNeverScoresLower
<1>1. RiskTypeOK /\ [RiskNext]_riskVars =>
        [ /\ Score(finding') >= Score(finding)
          /\ TierRank(Score(finding')) >= TierRank(Score(finding)) ]_riskVars
  <2> SUFFICES ASSUME RiskTypeOK, RiskNext
               PROVE  /\ Score(finding') >= Score(finding)
                      /\ TierRank(Score(finding')) >= TierRank(Score(finding))
    OBVIOUS
  <2>1. finding \in Findings /\ finding' \in Findings /\ Worse(finding, finding')
    BY StepIsWorse DEF RiskTypeOK
  <2>2. /\ Score(finding) \in 0..100 /\ Score(finding') \in 0..100
        /\ Score(finding) <= Score(finding')
    BY <2>1, ScoreIsMonotone
  <2>3. TierRank(Score(finding)) <= TierRank(Score(finding'))
    BY <2>2, TierFollowsScore
  <2>4. TierRank(Score(finding)) \in Nat /\ TierRank(Score(finding')) \in Nat
    BY <2>2 DEF TierRank
  <2>5. QED
    BY <2>2, <2>3, <2>4
<1>2. QED
  BY <1>1, TypeCorrect, PTL DEF RiskSpec, WorseNeverScoresLower
=============================================================================
