----------------------------- MODULE PolicyRules ------------------------------
(***************************************************************************)
(* When a device matches a condition of a compliance policy                *)
(* (complianceEvaluate.ts).                                                *)
(*                                                                         *)
(* The fields are grouped by how they are compared.  A datum is what the   *)
(* list of devices says of one device: Absent, or a value of the field's   *)
(* kind.  Texts are words of which the lower-numbered are parts of the     *)
(* higher; a version is the sequence of its numbers.                       *)
(***************************************************************************)
EXTENDS Integers, Sequences

CONSTANTS
  Numbers,   \* the numbers, ages and words that occur
  Versions   \* the versions that occur, sequences of numbers

VARIABLE input   \* a condition's field and value, and the data of two devices

---------------------------------------------------------------------------
(* compareScalar *)

Scalar(kind, n) == [kind |-> kind, n |-> n]
Null      == Scalar("null", 0)
Undefined == Scalar("undefined", 0)
Empty     == Scalar("empty", 0)
Absent    == Undefined
Scalars   == {Null, Undefined, Empty}
               \cup {Scalar(kind, n) : kind \in {"number", "word"}, n \in Numbers}

IsBlank(s) == s.kind \in {"null", "undefined", "empty"}
\* Number(null) and Number("") are 0; undefined and words are not numbers.
IsNumber(s) == s.kind \in {"null", "empty", "number"}
ToNumber(s) == IF s.kind = "number" THEN s.n ELSE 0
\* String(x ?? "")
ToText(s) == IF IsBlank(s) THEN Empty ELSE s
PartOf(s, t) == IsBlank(s) \/ (s.kind = t.kind /\ s.n <= t.n)

CompareScalar(actual, operator, target) ==
  CASE operator = "exists"      -> ~IsBlank(actual)
    [] operator = "missing"     -> IsBlank(actual)
    [] operator = "contains"    -> PartOf(actual, target)
    [] operator = "greaterThan" -> /\ IsNumber(actual) /\ IsNumber(target)
                                   /\ ToNumber(actual) > ToNumber(target)
    [] operator = "lessThan"    -> /\ IsNumber(actual) /\ IsNumber(target)
                                   /\ ToNumber(actual) < ToNumber(target)
    [] operator = "notEquals"   -> ToText(actual) # ToText(target)
    [] OTHER                    -> ToText(actual) = ToText(target)

---------------------------------------------------------------------------
(* versionTuple and compareVersionTuples: missing numbers count as 0 *)

ToVersion(datum) == IF datum = <<>> THEN <<0>> ELSE datum
Part(v, i) == IF i \in 1..Len(v) THEN v[i] ELSE 0
Differ(v, w) == {i \in 1..(Len(v) + Len(w)) : Part(v, i) # Part(w, i)}
First(S) == CHOOSE i \in S : \A j \in S : i <= j

\* Negative, zero or positive.
CompareVersions(v, w) ==
  IF Differ(v, w) = {} THEN 0
  ELSE Part(v, First(Differ(v, w))) - Part(w, First(Differ(v, w)))

VersionMatches(actual, operator, target) ==
  LET cmp == CompareVersions(ToVersion(actual), ToVersion(target)) IN
  CASE operator = "lessThan"    -> cmp < 0
    [] operator = "greaterThan" -> cmp > 0
    [] OTHER                    -> cmp = 0

---------------------------------------------------------------------------
(* evaluateCondition, by kind of field *)

\* smartAttribute, selfReportedAttribute, customCheckResult (of a check that
\* ran without an error).
NamedMatches(actual, operator, target) ==
  LET present == actual # Absent IN
  CASE operator = "exists"  -> present
    [] operator = "missing" -> ~present
    [] OTHER                -> present /\ CompareScalar(actual, operator, target)

OrEqual(actual, operator, target) ==   \* Variation: lessThan means "or equal".
  /\ actual # Absent
  /\ IF operator = "lessThan" THEN actual.n <= target.n ELSE actual.n >= target.n

\* osUpdatePendingCount, vulnPendingCveCount, vulnServiceCriticalHighCount,
\* appleAppUpdatesPending, battery, availableStorageGb: any operator but
\* lessThan means more.
CountMatches(actual, operator, target) ==
  /\ actual # Absent
  /\ IF operator = "lessThan" THEN actual.n < target.n ELSE actual.n > target.n

\* locationAgeMinutes, lastSeenDaysAgo, daysSinceEnrollment: any operator but
\* greaterThan means less.
AgeMatches(actual, operator, target) ==
  /\ actual # Absent
  /\ IF operator = "greaterThan" THEN actual.n > target.n ELSE actual.n < target.n

\* selfReportDaysAgo: a device that never reported is silent for longer than
\* anything.
SilenceMatches(actual, operator, target) ==
  IF actual = Absent THEN operator = "greaterThan" ELSE AgeMatches(actual, operator, target)

\* geofenceZoneId: a device without a known location is neither inside nor
\* outside.
ZoneMatches(actual, operator, target) ==
  actual # Absent /\ (IF operator = "inside" THEN actual = target ELSE actual # target)

\* platform, state, segmentId, tags, deviceAudienceId.
MemberMatches(actual, operator, target) ==
  IF operator \in {"equals", "includes"} THEN actual = target ELSE actual # target

\* triggerFired: active, and not fired longer ago than the value, 0 for no limit.
TriggerMatches(actual, operator, target) ==
  LET present == actual.kind = "active" /\ (target.n = 0 \/ actual.n <= target.n) IN
  CASE operator = "exists"  -> present
    [] operator = "missing" -> ~present
    [] OTHER                -> FALSE

Matches(field, actual, operator, target) ==
  CASE field = "scalar"  -> CompareScalar(actual, operator, target)
    [] field = "named"   -> NamedMatches(actual, operator, target)
    [] field = "count"   -> CountMatches(actual, operator, target)
    [] field = "age"     -> AgeMatches(actual, operator, target)
    [] field = "silence" -> SilenceMatches(actual, operator, target)
    [] field = "zone"    -> ZoneMatches(actual, operator, target)
    [] field = "member"  -> MemberMatches(actual, operator, target)
    [] field = "trigger" -> TriggerMatches(actual, operator, target)
    [] field = "version" -> VersionMatches(actual, operator, target)

\* policyViolated, of a policy with one condition per operator on one field and
\* value: the conditions that matched.
Violated(field, actual, operators, target, logic) ==
  LET matched == {op \in operators : Matches(field, actual, op, target)} IN
  IF logic = "all" /\ matched # operators THEN {} ELSE matched

---------------------------------------------------------------------------

Fields == {"scalar", "named", "count", "age", "silence", "zone", "member", "trigger", "version"}
Of(kind) == {Scalar(kind, n) : n \in Numbers}

\* The values an administrator can give, and what a device's data can be.
ValuesOf(field) ==
  CASE field = "version"                         -> Versions
    [] field \in {"scalar", "named"}             -> Scalars \ {Undefined}
    [] field \in {"zone", "member"}              -> Of("word")
    [] field \in {"count", "age", "silence", "trigger"} -> Of("number")
DataOf(field) ==
  CASE field = "version" -> Versions \cup {<<>>}
    [] field = "trigger" -> Of("active") \cup Of("resolved") \cup {Absent}
    [] OTHER             -> ValuesOf(field) \cup {Absent}

RuleInit == \E field \in Fields :
          \E value \in ValuesOf(field), mine \in DataOf(field), other \in DataOf(field) :
            input = [field |-> field, value |-> value, mine |-> mine, other |-> other]
RuleSpec == RuleInit /\ [][UNCHANGED input]_input

---------------------------------------------------------------------------
(* Properties *)

\* The pairs of operators an administrator may take for opposites.
Opposites(field) ==
  CASE field \in {"scalar", "named"} ->
         {{"lessThan", "greaterThan"}, {"exists", "missing"}, {"equals", "notEquals"}}
    [] field \in {"count", "age", "silence", "version"} -> {{"lessThan", "greaterThan"}}
    [] field = "zone"    -> {{"inside", "outside"}}
    [] field = "member"  -> {{"equals", "notEquals"}, {"includes", "notIncludes"}}
    [] field = "trigger" -> {{"exists", "missing"}}

Mine(operator, target)  == Matches(input.field, input.mine, operator, target)
Other(operator, target) == Matches(input.field, input.other, operator, target)
NeverReported == input.field = "silence" /\ input.other = Absent

\* Conditions on one field fit together.  No device matches a condition and its
\* opposite, so that a policy that asks for both is violated by none; and
\* thresholds are ordered: a device below the value is below every device above
\* it, however many numbers their versions have and whatever is not known.
ConditionsFitTogether ==
  /\ \A pair \in Opposites(input.field) :
       Violated(input.field, input.mine, pair, input.value, "all") = {}
  /\ (/\ input.field \notin {"zone", "member", "trigger"}
      /\ Mine("lessThan", input.value) /\ Other("greaterThan", input.value))
     => NeverReported \/ Mine("lessThan", input.other)
=============================================================================
