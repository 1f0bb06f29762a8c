------------------------- MODULE DeviceCertificates --------------------------
(***************************************************************************)
(* The certificates of one device: registration and renewal by its agent   *)
(* (deviceMtls.service.ts), the rows (certificates.service.ts) and the     *)
(* authority that signs them (ca.service.ts).                              *)
(*                                                                         *)
(* The agent sends one request at a time, but it may stop waiting for the  *)
(* answer while the server is still at work, and ask again.  Whether the   *)
(* device is enrolled is read from the list of FleetCache.                 *)
(***************************************************************************)
EXTENDS Naturals, Sequences, FiniteSets

CONSTANTS
  Requests,   \* requests handled at once
  Authorities,\* authorities that may be generated or uploaded, numbers from 1
  NoList,
  MaxCerts,   \* bound: rows ever created
  MaxFaults,  \* bound: exceptions
  MaxEvents,  \* bound: acts of an administrator, and expiries
  QuietCa     \* assumption: the authority is not replaced while one signs

ASSUME CertAssumption == "nothing" \notin Requests

VARIABLES
  ca, counter,        \* the authority in use and its serialCounter
  cert,               \* the rows, in the order of their creation
  req,                \* per request: where its handler stands
  enrolled,           \* the device is in Applivery's fleet
  held, waits, lost,  \* the agent: its certificate, the request it waits for,
                      \* and whether one was issued whose answer it never got
  faults, events,     \* bounds' counters
  cache, inFlight, pull, got

caVars    == <<ca, counter>>
agentVars == <<held, waits, lost>>
listVars  == <<cache, inFlight, pull, got>>
certVars == <<caVars, cert, req, enrolled, agentVars, faults, events, listVars>>

Fleet == INSTANCE FleetCache WITH
  Callers <- Requests, PullIds <- {1}, Parts <- <<"enrolled">>,
  source  <- [enrolled |-> enrolled]

NoRequest == [stage |-> "none", ca |-> 0, serial |-> 0]
Begun(stage, shown) == [stage |-> stage, ca |-> shown, serial |-> 0]
Step(r, stage) == req' = [req EXCEPT ![r].stage = stage]
At(r, stage) == req[r].stage = stage
Busy  == {r \in Requests : req[r] # NoRequest}

\* findActiveCertificate looks for a row that is none of the three.
Active(c) == ~c.revoked /\ ~c.expired /\ ~c.superseded
\* Variation: superseded rows count.
HasRow == \E i \in DOMAIN cert : ~cert[i].revoked /\ ~cert[i].expired
HasActive == \E i \in DOMAIN cert : Active(cert[i])

CertInit ==
  /\ ca = 1 /\ counter = 1
  /\ cert = <<>>
  /\ req = [r \in Requests |-> NoRequest]
  /\ enrolled \in BOOLEAN
  /\ held = 0 /\ waits = "nothing" /\ lost = FALSE
  /\ faults = 0 /\ events = 0
  /\ Fleet!Init

---------------------------------------------------------------------------
(* The agent *)

\* The proxy verifies the chain and the dates of the certificate shown, the
\* middleware asks for any active row of the device.
Accepted == held # 0 /\ ~cert[held].expired /\ cert[held].ca = ca /\ HasActive
Room  == Len(cert) + Cardinality(Busy) < MaxCerts

\* Without a certificate that is accepted the agent registers; otherwise, when
\* its time has come, it shows the one it has and renews.
AgentAsks(r) ==
  /\ waits = "nothing" /\ r \notin Busy /\ Room
  /\ \/ ~Accepted /\ req' = [req EXCEPT ![r] = Begun("check", 0)]
     \/ Accepted /\ events < MaxEvents /\ req' = [req EXCEPT ![r] = Begun("auth", cert[held].ca)]
  /\ waits' = r
  /\ UNCHANGED <<caVars, cert, enrolled, held, lost, faults, events, listVars>>

\* The agent stops waiting; the server does not notice.
GivesUp ==
  /\ waits # "nothing" /\ events < MaxEvents
  /\ events' = events + 1
  /\ waits' = "nothing" /\ lost' = TRUE
  /\ UNCHANGED <<caVars, cert, req, enrolled, held, faults, listVars>>

---------------------------------------------------------------------------
(* registerDevice and renewDevice *)

\* The handler ends without a certificate.
Refuse(r) ==
  /\ req' = [req EXCEPT ![r] = NoRequest]
  /\ waits' = IF waits = r THEN "nothing" ELSE waits

\* assertNotAlreadyActive: 409 when there is an active row, whoever holds it.
CheckActive(r) ==
  /\ At(r, "check")
  /\ IF HasActive THEN Refuse(r) ELSE Step(r, "known") /\ UNCHANGED waits
  /\ UNCHANGED <<caVars, cert, enrolled, held, lost, faults, events, listVars>>

\* assertKnownApplivertyDevice asks for the list, cached or not ...
AskFleet(r) ==
  /\ At(r, "known")
  /\ Fleet!Ask(r, FALSE)
  /\ Step(r, "fleet")
  /\ UNCHANGED <<caVars, cert, enrolled, agentVars, faults, events>>

\* ... and answers 403 if the device is not in it.
CheckKnown(r) ==
  /\ At(r, "fleet") /\ got[r].stage = "has"
  /\ IF got[r].list.enrolled THEN Step(r, "ca") /\ UNCHANGED waits ELSE Refuse(r)
  /\ Fleet!Forget(r)
  /\ UNCHANGED <<caVars, cert, enrolled, held, lost, faults, events, cache, inFlight, pull>>

\* verifyMtlsIdentity: 401 unless the chain of the certificate shown leads to the
\* authority of the day and some row of the device is active.
Authenticate(r) ==
  /\ At(r, "auth")
  /\ IF req[r].ca = ca /\ HasActive THEN Step(r, "supersede") /\ UNCHANGED waits ELSE Refuse(r)
  /\ UNCHANGED <<caVars, cert, enrolled, held, lost, faults, events, listVars>>

KeepsOld(c) == c   \* Variation: a renewal leaves the old rows alone.
Superseded(c) == [c EXCEPT !.superseded = @ \/ ~c.revoked]

\* The old rows go first, whether or not a new one can be issued.
Supersede(r) ==
  /\ At(r, "supersede")
  /\ cert' = [i \in DOMAIN cert |-> Superseded(cert[i])]
  /\ Step(r, "ca")
  /\ UNCHANGED <<caVars, enrolled, agentVars, faults, events, listVars>>

\* issueLeaf: the authority's key is read ...
ReadCa(r) ==
  /\ At(r, "ca")
  /\ req' = [req EXCEPT ![r] = [stage |-> "serial", ca |-> ca, serial |-> 0]]
  /\ UNCHANGED <<caVars, cert, enrolled, agentVars, faults, events, listVars>>

CountRows(r) ==   \* Variation: the number is derived from the rows there are.
  /\ At(r, "serial")
  /\ req' = [req EXCEPT ![r].stage = "record", ![r].serial = Len(cert) + 1]
  /\ UNCHANGED <<caVars, cert, enrolled, agentVars, faults, events, listVars>>

\* ... then the number is claimed, in one statement, from whatever authority
\* there is by now ...
ClaimSerial(r) ==
  /\ At(r, "serial")
  /\ req' = [req EXCEPT ![r].stage = "record", ![r].serial = counter]
  /\ counter' = counter + 1
  /\ UNCHANGED <<ca, cert, enrolled, agentVars, faults, events, listVars>>

\* ... and the certificate is signed and its row created.
IssueRecord(r) ==
  /\ At(r, "record")
  /\ cert' = Append(cert, [ca |-> req[r].ca, serial |-> req[r].serial, expired |-> FALSE,
                           superseded |-> FALSE, revoked |-> FALSE, by |-> r])
  /\ Step(r, "answer")
  /\ UNCHANGED <<caVars, enrolled, agentVars, faults, events, listVars>>

\* The row the request created is the newest of its rows.
Newest(r) == CHOOSE i \in DOMAIN cert :
               cert[i].by = r /\ \A j \in DOMAIN cert : cert[j].by = r => j <= i

Answer(r) ==
  /\ At(r, "answer")
  /\ req' = [req EXCEPT ![r] = NoRequest]
  /\ IF waits = r THEN held' = Newest(r) /\ waits' = "nothing"
                  ELSE UNCHANGED <<held, waits>>
  /\ UNCHANGED <<caVars, cert, enrolled, lost, faults, events, listVars>>

\* Any await may throw: signing, the pull of the fleet, and the audit event that
\* is recorded between the row and the answer.
RequestFails(r) ==
  /\ \/ got[r].stage = "failed" /\ UNCHANGED faults
     \/ /\ faults < MaxFaults /\ faults' = faults + 1
        /\ req[r].stage \notin {"none", "fleet"}
  /\ Refuse(r)
  /\ lost' = (lost \/ At(r, "answer"))
  /\ Fleet!Forget(r)
  /\ UNCHANGED <<caVars, cert, enrolled, held, events, cache, inFlight, pull>>

Handle(r) ==
  \/ CheckActive(r) \/ AskFleet(r) \/ CheckKnown(r) \/ Authenticate(r) \/ Supersede(r)
  \/ ReadCa(r) \/ ClaimSerial(r) \/ IssueRecord(r) \/ Answer(r)

---------------------------------------------------------------------------
(* The administrator, the clock and the fleet *)

\* generateCa and uploadCa: a new authority starts at serial 1.
ReplaceCa ==
  /\ events < MaxEvents /\ ca + 1 \in Authorities
  /\ QuietCa => \A r \in Requests : req[r].stage \notin {"serial", "record"}
  /\ ca' = ca + 1 /\ counter' = 1
  /\ events' = events + 1
  /\ UNCHANGED <<cert, req, enrolled, agentVars, faults, listVars>>

Revoke(i) ==
  /\ events < MaxEvents /\ ~cert[i].revoked
  /\ cert' = [cert EXCEPT ![i].revoked = TRUE]
  /\ events' = events + 1
  /\ UNCHANGED <<caVars, req, enrolled, agentVars, faults, listVars>>

Expires(i) ==
  /\ events < MaxEvents /\ ~cert[i].expired
  /\ cert' = [cert EXCEPT ![i].expired = TRUE]
  /\ events' = events + 1
  /\ UNCHANGED <<caVars, req, enrolled, agentVars, faults, listVars>>

Enrol ==
  /\ events < MaxEvents /\ ~enrolled /\ enrolled' = TRUE
  /\ events' = events + 1
  /\ UNCHANGED <<caVars, cert, req, agentVars, faults, listVars>>

FleetStep ==
  /\ Fleet!PullReads(1) \/ Fleet!PullReturns(1) \/ Fleet!Expire
  /\ UNCHANGED <<caVars, cert, req, enrolled, agentVars, faults, events>>

FleetFails ==
  /\ faults < MaxFaults /\ faults' = faults + 1
  /\ Fleet!PullFails(1)
  /\ UNCHANGED <<caVars, cert, req, enrolled, agentVars, events>>

CertNext ==
  \/ \E r \in Requests : AgentAsks(r) \/ Handle(r) \/ RequestFails(r)
  \/ \E i \in DOMAIN cert : Revoke(i) \/ Expires(i)
  \/ GivesUp \/ ReplaceCa \/ Enrol \/ FleetStep \/ FleetFails

CertSpec == CertInit /\ [][CertNext]_certVars

---------------------------------------------------------------------------
(* Properties *)

CertTypeOK ==
  /\ ca \in Authorities /\ counter \in Nat \ {0}
  /\ Len(cert) <= MaxCerts /\ held \in 0..Len(cert)
  /\ waits \in Requests \cup {"nothing"}
  /\ Fleet!TypeOK

\* No authority signs two certificates with one serial number, however many
\* registrations and renewals run at once.
SerialsUnique ==
  \A i, j \in DOMAIN cert :
    cert[i].ca = cert[j].ca /\ cert[i].serial = cert[j].serial => i = j

\* As long as every certificate issued has reached the agent, no row is active
\* that the agent does not hold: a renewal or registration that fails before its
\* row is created leaves none behind.
ActiveIsHeld ==
  Busy = {} /\ ~lost => \A i \in DOMAIN cert : Active(cert[i]) => i = held

\* Only an administrator's revocation helps: registration answers 409, and the
\* agent was never given the active certificate or its authority was replaced.
Stranded == HasActive /\ (lost \/ (held # 0 /\ cert[held].ca # ca))

\* Whatever fails or is revoked, the agent of an enrolled device gets a
\* certificate that is accepted, by itself, unless it is stranded (or has used
\* up the rows of this instance).
EnrolledIsServed == <>[](Accepted \/ ~enrolled \/ Stranded \/ ~Room)
=============================================================================
