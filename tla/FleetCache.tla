----------------------------- MODULE FleetCache ------------------------------
(***************************************************************************)
(* The device list every part of the backend works from: getDevicesFull in *)
(* devices.service.ts over the in-process liveCache.ts.                    *)
(*                                                                         *)
(* A caller is served from the cache, joins the pull that is in flight, or *)
(* starts one.  A pull reads its parts one after the other (the fleet from *)
(* Applivery, the agents' attributes, the triggers' states ...), so its    *)
(* list may be torn and may be older than an invalidation that fell within *)
(* it.  `source` stands for what the parts are now; it belongs to the      *)
(* module that instantiates this one.                                      *)
(***************************************************************************)
EXTENDS Naturals, Sequences

CONSTANTS
  Callers,   \* who may be waiting for the list
  PullIds,   \* bound: pulls that could run at once, a set of numbers from 1
  Parts,     \* the parts of a list in the order a pull reads them
  NoList     \* nothing

VARIABLES
  source,    \* the parts as they are now, a function on the range of Parts
  cache,     \* the cached list, or NoList
  inFlight,  \* the pull a caller joins, or 0
  pull,      \* per pull: what it has read, a sequence; NoList when not running
  got        \* per caller: how far its getDevicesFull is

PartNames == {Parts[i] : i \in DOMAIN Parts}
Nothing   == [stage |-> "none", pull |-> 0, list |-> NoList]
Has(list) == [stage |-> "has", pull |-> 0, list |-> list]
Failed    == [stage |-> "failed", pull |-> 0, list |-> NoList]
WaitsFor(k) == [stage |-> "waits", pull |-> k, list |-> NoList]

Init ==
  /\ cache = NoList /\ inFlight = 0
  /\ pull = [k \in PullIds |-> NoList]
  /\ got = [c \in Callers |-> Nothing]

Idle(k)  == pull[k] = NoList
FirstIdle(k) == Idle(k) /\ \A j \in PullIds : Idle(j) => k <= j

StartPull(c) ==
  \E k \in PullIds :
    /\ FirstIdle(k)
    /\ pull' = [pull EXCEPT ![k] = <<>>]
    /\ inFlight' = k
    /\ got' = [got EXCEPT ![c] = WaitsFor(k)]

PullAlone(c) == StartPull(c)   \* Variation: requests are not coalesced.

\* The pull in flight is joined, whatever it has read already.
JoinOrStart(c) ==
  IF inFlight # 0
  THEN got' = [got EXCEPT ![c] = WaitsFor(inFlight)] /\ UNCHANGED <<pull, inFlight>>
  ELSE StartPull(c)

\* getDevicesFull: without `refresh` the cached list will do.
Ask(c, refresh) ==
  /\ got[c] = Nothing
  /\ IF ~refresh /\ cache # NoList
     THEN got' = [got EXCEPT ![c] = Has(cache)] /\ UNCHANGED <<pull, inFlight>>
     ELSE JoinOrStart(c)
  /\ UNCHANGED cache

\* fetchDevicesFullUncached reads its next part.
PullReads(k) ==
  /\ ~Idle(k) /\ Len(pull[k]) < Len(Parts)
  /\ pull' = [pull EXCEPT ![k] = Append(@, source[Parts[Len(@) + 1]])]
  /\ UNCHANGED <<cache, inFlight, got>>

ListOf(k) == [p \in PartNames |->
                pull[k][CHOOSE i \in DOMAIN Parts : Parts[i] = p]]

Settle(k, answer) ==
  got' = [c \in Callers |-> IF got[c] = WaitsFor(k) THEN answer ELSE got[c]]

ReturnsButStays(k) ==   \* Variation: the finally that forgets the pull is missing.
  /\ ~Idle(k) /\ Len(pull[k]) = Len(Parts)
  /\ cache' = ListOf(k)
  /\ Settle(k, Has(ListOf(k)))
  /\ UNCHANGED <<pull, inFlight>>

\* The list is stored, even if it was invalidated since it was read, and every
\* caller that joined gets it; the finally block forgets the pull.
PullReturns(k) ==
  /\ ~Idle(k) /\ Len(pull[k]) = Len(Parts)
  /\ cache' = ListOf(k)
  /\ Settle(k, Has(ListOf(k)))
  /\ pull' = [pull EXCEPT ![k] = NoList]
  /\ inFlight' = IF inFlight = k THEN 0 ELSE inFlight

\* A request to Applivery or a query throws: everyone who joined gets the error.
PullFails(k) ==
  /\ ~Idle(k)
  /\ Settle(k, Failed)
  /\ pull' = [pull EXCEPT ![k] = NoList]
  /\ inFlight' = IF inFlight = k THEN 0 ELSE inFlight
  /\ UNCHANGED cache

\* The lifetime of the entry ends; liveCacheGet does not return it any more.
Expire ==
  /\ cache # NoList
  /\ cache' = NoList
  /\ UNCHANGED <<inFlight, pull, got>>

\* invalidateDevicesCache.  It leaves a pull that is in flight alone.
Dropped == cache' = NoList

\* The caller has used its list.
Forget(c) == got' = [got EXCEPT ![c] = Nothing]

TypeOK ==
  /\ cache = NoList \/ DOMAIN cache = PartNames
  /\ inFlight \in PullIds \cup {0}
  /\ \A k \in PullIds : ~Idle(k) => Len(pull[k]) <= Len(Parts)
  /\ \A c \in Callers :
       /\ got[c].stage \in {"none", "waits", "has", "failed"}
       /\ got[c].stage = "waits" => ~Idle(got[c].pull)
=============================================================================
