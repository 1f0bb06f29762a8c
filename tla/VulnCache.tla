------------------------------ MODULE VulnCache ------------------------------
(***************************************************************************)
(* The cache of the vulnerability service: vulnService.ts.                 *)
(*                                                                         *)
(* A refresh reads the fleet and the cache, evicts what the fleet no       *)
(* longer has, asks the service about OS versions one by one and about a   *)
(* batch of apps, and writes the answers back; the scheduler starts one    *)
(* per interval, an administrator whenever he likes, and two may overlap.  *)
(* A device is judged by the rows that are still fresh.  Time passes in    *)
(* intervals: CACHE_TTL_MS is Lifetime of them.                            *)
(***************************************************************************)
EXTENDS Naturals, Sequences, SequencesExt

CONSTANTS
  Machines,    \* the devices
  AppOrder,    \* the app versions, in the order the fleet lists them
  OsVersions,
  Apple,       \* the devices on macOS or iOS
  Unheld,      \* no row, no such version
  Scheduled, Forced,  \* the refresh of the tick, and that of an administrator
  BatchCap,    \* MAX_APPS_PER_TICK
  ChunkSize,   \* APPS_CHUNK_SIZE
  Lifetime,    \* CACHE_TTL_MS in refresh intervals
  FullAnswers, \* assumption: the service answers for every app of a chunk
  MaxChanges,  \* bound: changes of the fleet
  MaxForced,   \* bound: forced refreshes
  MaxErrors    \* bound: failed calls, failed writes, restarts

AppKeys    == ToSet(AppOrder)
Keys       == AppKeys \cup OsVersions
Refreshers == {Scheduled, Forced}

ASSUME VulnAssumption ==
  /\ AppOrder \in Seq(AppKeys)
  /\ AppKeys \cap OsVersions = {} /\ Unheld \notin Keys
  /\ {BatchCap, ChunkSize, Lifetime} \subseteq Nat \ {0}

VARIABLES
  apps,     \* per device: the apps its inventory lists
  os,       \* per device: osVersion
  patch,    \* per device: the version that its OS patch level begins with, or Unheld
  entry,    \* per key: its VulnServiceCache row, or Unheld
  refresh,  \* per refresh: how far it is
  due,      \* the interval since lastRefreshAt is over
  changes, forcings, errors

vulnVars == <<apps, os, patch, entry, refresh, due, changes, forcings, errors>>

NoRefresh == [stage |-> "idle", stale |-> {}, osTodo |-> {}, batch |-> <<>>,
         asked |-> 0, answers |-> <<>>]

VulnInit ==
  /\ apps \in [Machines -> SUBSET AppKeys] /\ os \in [Machines -> OsVersions]
  /\ patch \in [Machines -> OsVersions \cup {Unheld}]
  /\ entry = [k \in Keys |-> Unheld]
  /\ refresh = [r \in Refreshers |-> NoRefresh]
  /\ due = TRUE
  /\ changes = 0 /\ forcings = 0 /\ errors = 0

Present == UNION {apps[m] : m \in Machines} \cup {os[m] : m \in Machines}

IsFresh(k) == entry[k] # Unheld /\ entry[k].age < Lifetime

---------------------------------------------------------------------------
(* refreshVulnServiceForWorkspace *)

NeverSkips(r, k) == FALSE   \* Variation: the scheduler forces as well.

Skips(r, k) == r # Forced /\ IsFresh(k)

\* The apps to query, in their order: the first of those that are not fresh.
Batch(r) ==
  LET wanted    == {i \in DOMAIN AppOrder : AppOrder[i] \in Present /\ ~Skips(r, AppOrder[i])}
      before(i) == Cardinality({j \in wanted : j < i})
      count     == IF Cardinality(wanted) < BatchCap THEN Cardinality(wanted) ELSE BatchCap
  IN  [n \in 1..count |-> AppOrder[CHOOSE i \in wanted : before(i) = n - 1]]

\* The fleet and the rows are read; everything is decided from them.
Start(r) ==
  /\ refresh[r].stage = "idle"
  /\ IF r = Forced THEN forcings < MaxForced /\ forcings' = forcings + 1
     ELSE due /\ UNCHANGED forcings
  /\ refresh' = [refresh EXCEPT ![r] =
       [stage  |-> "evict",
        stale  |-> {k \in Keys \ Present : entry[k] # Unheld},
        osTodo |-> {k \in Present \cap OsVersions : ~Skips(r, k)},
        batch  |-> Batch(r), asked |-> 0, answers |-> <<>>]]
  /\ UNCHANGED <<apps, os, patch, entry, due, changes, errors>>

\* One row after the other is deleted; one that is gone already throws.
Evict(r) ==
  /\ refresh[r].stage = "evict"
  /\ \E k \in refresh[r].stale :
       IF entry[k] = Unheld THEN /\ refresh' = [refresh EXCEPT ![r] = NoRefresh]
                                  /\ UNCHANGED entry
       ELSE /\ entry' = [entry EXCEPT ![k] = Unheld]
            /\ refresh' = [refresh EXCEPT ![r].stale = @ \ {k}]
  /\ UNCHANGED <<apps, os, patch, due, changes, forcings, errors>>

Evicted(r) ==
  /\ refresh[r].stage = "evict" /\ refresh[r].stale = {}
  /\ refresh' = [refresh EXCEPT ![r].stage = "os"]
  /\ UNCHANGED <<apps, os, patch, entry, due, changes, forcings, errors>>

\* The call or the write may fail, which is only counted.
Fails == errors < MaxErrors /\ errors' = errors + 1

QueryOs(r) ==
  /\ refresh[r].stage = "os"
  /\ \E k \in refresh[r].osTodo :
       /\ refresh' = [refresh EXCEPT ![r].osTodo = @ \ {k}]
       /\ \/ entry' = [entry EXCEPT ![k] = [age |-> 0, of |-> k]] /\ UNCHANGED errors
          \/ Fails /\ UNCHANGED entry
  /\ UNCHANGED <<apps, os, patch, due, changes, forcings>>

OsDone(r) ==
  /\ refresh[r].stage = "os" /\ refresh[r].osTodo = {}
  /\ refresh' = [refresh EXCEPT ![r].stage = "apps"]
  /\ UNCHANGED <<apps, os, patch, entry, due, changes, forcings, errors>>

KnownOnly(chunk) ==   \* Variation: apps it does not know are left out.
  {chunk} \cup {RemoveAt(chunk, i) : i \in DOMAIN chunk}

\* What the service answers for a chunk, one result per app in their order.
Answers(chunk) == {chunk} \cup IF FullAnswers THEN {}
                               ELSE {RemoveAt(chunk, i) : i \in DOMAIN chunk}

\* The next chunk, and its results behind those of the chunks before it.  One
\* that fails after its retries gives up the whole batch.
QueryChunk(r) ==
  LET rest  == SubSeq(refresh[r].batch, refresh[r].asked + 1, Len(refresh[r].batch))
      chunk == SubSeq(rest, 1, IF Len(rest) < ChunkSize THEN Len(rest) ELSE ChunkSize)
  IN  /\ refresh[r].stage = "apps" /\ rest # <<>>
      /\ \/ \E answer \in Answers(chunk) :
              /\ refresh' = [refresh EXCEPT ![r].answers = @ \o answer,
                                            ![r].asked = @ + Len(chunk)]
              /\ UNCHANGED errors
         \/ Fails /\ refresh' = [refresh EXCEPT ![r].stage = "done"]
      /\ UNCHANGED <<apps, os, patch, entry, due, changes, forcings>>

\* Answer i is written under key i of the batch.  Without an answer a row that
\* is there counts as new, and one that is not ends the writing, as does a failed
\* write.
Store(r) ==
  LET batch     == refresh[r].batch
      answers   == refresh[r].answers
      Blocks(i) == i > Len(answers) /\ entry[batch[i]] = Unheld
      Row(i)    == [age |-> 0, of |-> IF i > Len(answers) THEN entry[batch[i]].of ELSE answers[i]]
  IN  /\ refresh[r].stage = "apps" /\ refresh[r].asked = Len(batch)
      /\ \E n \in 0..Len(batch) :
           /\ \A i \in 1..n : ~Blocks(i)
           /\ IF n = Len(batch) \/ Blocks(n + 1) THEN UNCHANGED errors ELSE Fails
           /\ entry' = [k \in Keys |->
                IF \E i \in 1..n : batch[i] = k
                THEN Row(CHOOSE i \in 1..n : batch[i] = k) ELSE entry[k]]
      /\ refresh' = [refresh EXCEPT ![r].stage = "done"]
      /\ UNCHANGED <<apps, os, patch, due, changes, forcings>>

\* lastRefreshAt is set, whatever failed.
Finish(r) ==
  /\ refresh[r].stage = "done"
  /\ refresh' = [refresh EXCEPT ![r] = NoRefresh]
  /\ due' = FALSE
  /\ UNCHANGED <<apps, os, patch, entry, changes, forcings, errors>>

BackendRestarts ==
  /\ \E r \in Refreshers : refresh[r].stage # "idle"
  /\ Fails
  /\ refresh' = [r \in Refreshers |-> NoRefresh]
  /\ UNCHANGED <<apps, os, patch, entry, due, changes, forcings>>

RefreshStep(r) == Evict(r) \/ Evicted(r) \/ QueryOs(r) \/ OsDone(r) \/ QueryChunk(r) \/ Store(r) \/ Finish(r)

---------------------------------------------------------------------------
(* The fleet and time *)

FleetChanges ==
  /\ changes < MaxChanges /\ changes' = changes + 1
  /\ \E m \in Machines :
       \/ \E k \in AppKeys :
            /\ apps' = [apps EXCEPT ![m] = IF k \in @ THEN @ \ {k} ELSE @ \cup {k}]
            /\ UNCHANGED <<os, patch>>
       \/ \E v \in OsVersions, p \in OsVersions \cup {Unheld} :
            /\ <<v, p>> # <<os[m], patch[m]>>
            /\ os' = [os EXCEPT ![m] = v] /\ patch' = [patch EXCEPT ![m] = p]
            /\ UNCHANGED apps
  /\ UNCHANGED <<entry, refresh, due, forcings, errors>>

\* A refresh takes less than an interval, and the tick comes as soon as one is due.
IntervalPasses ==
  /\ ~due /\ \A r \in Refreshers : refresh[r].stage = "idle"
  /\ entry' = [k \in Keys |->
       IF entry[k] = Unheld THEN Unheld
       ELSE [entry[k] EXCEPT !.age = IF @ < Lifetime THEN @ + 1 ELSE @]]
  /\ due' = TRUE
  /\ UNCHANGED <<apps, os, patch, refresh, changes, forcings, errors>>

VulnNext ==
  \/ \E r \in Refreshers : Start(r) \/ RefreshStep(r)
  \/ BackendRestarts \/ FleetChanges \/ IntervalPasses

VulnSpec == VulnInit /\ [][VulnNext]_vulnVars

---------------------------------------------------------------------------
(* computeVulnServiceStatus *)

\* effectiveOsVersion: the patch level of an Apple device goes first.
OsKey(m) == IF m \in Apple /\ patch[m] # Unheld THEN patch[m] ELSE os[m]

\* A refresh asks about osVersion only: the version that a patch level names is
\* asked about if it is the osVersion of some device.
Asked(m) == OsKey(m) \in {os[n] : n \in Machines}

\* The device is judged by its OS version and all of its apps.
Judged(m) == (Asked(m) => IsFresh(OsKey(m))) /\ \A k \in apps[m] : IsFresh(k)

---------------------------------------------------------------------------
(* Properties *)

\* A row holds what the service said about its own key: a device is never
\* charged with the vulnerabilities of another app (results[i] for batch[i]).
RowsTellTheirKey == \A k \in Keys : entry[k] # Unheld => entry[k].of = k

\* Again and again every device is judged by fresh rows for its OS and for all
\* of its apps: batches, the lifetime of rows, evictions, overlapping refreshes
\* and passing failures starve none of them.  Except the OS of an Apple device
\* whose patch level names a version that nothing reports as its osVersion: no
\* refresh asks about it, and the device has no verdict for its OS.
FleetIsJudged == []<>(\A m \in Machines : Judged(m))
=============================================================================
