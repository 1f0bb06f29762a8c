------------------------------ MODULE RiskScore ------------------------------
(***************************************************************************)
(* The risk score and tier of a device (computeDeviceRisk in               *)
(* deviceNormalize.ts), which decide whether a violation runs the          *)
(* escalated workflow of its policy.  `finding` is what is known against   *)
(* one device; it worsens step by step.                                    *)
(***************************************************************************)
EXTENDS Naturals

CONSTANTS MaxFindings   \* bound: steps for the worse

VARIABLES finding, found   \* found counts the steps

riskVars == <<finding, found>>

Attributes == {"diskEncryptionEnabled", "firewallEnabled", "antivirusEnabled", "secureBootEnabled",
               "tpmEnabled", "vbsEnabled", "credentialGuardEnabled"}
Marks == {"nonCompliant", "stale", "notSecure", "notEncrypted", "adb", "unknownSources", "offPolicy",
          "exploitedKb", "osKev", "osEpss", "appKev", "endOfLife"}
Counts == {"violations", "details", "cases", "kbs", "osCves", "appCves", "appUpdates"}

\* What speaks for a device's security: the attributes its agent reported, what
\* Android reported, or nothing.
Sources == {"agent", "android", "nobody"}

Findings == [source  : Sources,
             off     : SUBSET Attributes,
             mark    : [Marks -> BOOLEAN],
             count   : [Counts -> Nat],
             posture : 1..3]   \* secure, AT_RISK, POTENTIALLY_COMPROMISED

---------------------------------------------------------------------------
(* computeDeviceRisk *)

AtMost(n, limit) == IF n > limit THEN limit ELSE n
If(condition, points) == IF condition THEN points ELSE 0

AgentPoints(f) ==
  If("diskEncryptionEnabled" \in f.off, 15) + If("firewallEnabled" \in f.off, 10)
  + If("antivirusEnabled" \in f.off, 15) + If("secureBootEnabled" \in f.off, 10)
  + If("tpmEnabled" \in f.off, 5) + If("vbsEnabled" \in f.off, 5)
  + If("credentialGuardEnabled" \in f.off, 5)
  + If(f.mark["stale"], 10)

AndroidPoints(f) ==
  If(f.mark["notSecure"], 15) + If(f.mark["notEncrypted"], 15) + If(f.mark["adb"], 5)
  + If(f.mark["unknownSources"], 10) + If(f.mark["offPolicy"], 15)
  + If(f.posture = 2, 15) + If(f.posture = 3, 25)
  + 10 * AtMost(f.count["details"], 3)

\* Attributes of the agent, however few, take the place of what Android reported.
AttestationPoints(f) ==
  CASE f.source = "agent"   -> AgentPoints(f)
    [] f.source = "android" -> AndroidPoints(f)
    [] f.source = "nobody"  -> 10

ScarePoints(f) ==   \* Variation: the likely exploit is asked for before the known one.
  IF f.mark["osEpss"] THEN 15 ELSE If(f.mark["osKev"], 25)
\* A known exploited CVE counts more than one that is likely to be.
ExploitPoints(f) ==
  IF f.mark["osKev"] THEN 25 ELSE If(f.mark["osEpss"], 15)

\* What the catalogues of updates, vulnerabilities and life cycles say.
UpdatePoints(f) ==
  AtMost(5 * f.count["kbs"], 20) + If(f.count["kbs"] > 0 /\ f.mark["exploitedKb"], 20)
  + If(f.mark["endOfLife"], 20) + AtMost(2 * f.count["appUpdates"], 10)
CvePoints(f) ==
  AtMost(5 * f.count["osCves"], 20) + ExploitPoints(f)
  + AtMost(5 * f.count["appCves"], 20) + If(f.mark["appKev"], 25)

\* What the policies and cases of this backend and Applivery's say.
PolicyPoints(f) ==
  If(f.mark["nonCompliant"], 25) + 15 * AtMost(f.count["violations"], 3)
  + AtMost(10 * f.count["cases"], 20)

Points(f) == PolicyPoints(f) + AttestationPoints(f) + UpdatePoints(f) + CvePoints(f)

Score(f) == AtMost(Points(f), 100)

\* The rank of the tier: low, medium, high, critical.
TierRank(score) ==
  CASE score >= 75 -> 3
    [] score >= 50 /\ score < 75 -> 2
    [] score >= 25 /\ score < 50 -> 1
    [] score < 25 -> 0

---------------------------------------------------------------------------
(* How a device gets worse *)

Clean(source) == [source |-> source, off |-> {}, mark |-> [m \in Marks |-> FALSE],
                  count |-> [c \in Counts |-> 0], posture |-> 1]
RiskInit == /\ \E source \in Sources : finding = Clean(source)
        /\ found = 0

AgentMarks   == {"stale"}
AndroidMarks == {"notSecure", "notEncrypted", "adb", "unknownSources", "offPolicy"}
IsKnown(f, m) == /\ m \in AgentMarks => f.source = "agent"
                 /\ m \in AndroidMarks => f.source = "android"

Switch(a) ==
  /\ finding.source = "agent" /\ a \notin finding.off
  /\ finding' = [finding EXCEPT !.off = @ \cup {a}]
Mark(m) ==
  /\ IsKnown(finding, m) /\ ~finding.mark[m]
  /\ finding' = [finding EXCEPT !.mark[m] = TRUE]
Count(c) ==
  /\ c = "details" => finding.source = "android"
  /\ finding' = [finding EXCEPT !.count[c] = @ + 1]
Posture ==
  /\ finding.source = "android" /\ finding.posture < 3
  /\ finding' = [finding EXCEPT !.posture = @ + 1]

RiskNext ==
  /\ found < MaxFindings /\ found' = found + 1
  /\ \/ \E a \in Attributes : Switch(a)
     \/ \E m \in Marks : Mark(m)
     \/ \E c \in Counts : Count(c)
     \/ Posture

RiskSpec == RiskInit /\ [][RiskNext]_riskVars

---------------------------------------------------------------------------
(* Properties *)

\* The score is one of 0..100.
RiskTypeOK == finding \in Findings /\ Score(finding) \in 0..100

\* One more finding never lowers a device's score or tier: whatever else is
\* known of it, and whichever factors are capped or stand in for another.
WorseNeverScoresLower ==
  [][ /\ Score(finding') >= Score(finding)
      /\ TierRank(Score(finding')) >= TierRank(Score(finding)) ]_riskVars
=============================================================================
