---------------------------- MODULE BrowserSession ----------------------------
(***************************************************************************)
(* How a session of the browser application ends: useSessionGuards.ts over *)
(* the stores auth.ts and dashboardState.ts.                               *)
(*                                                                         *)
(* The pages (tabs) of one browser share the localStorage: whether a       *)
(* session is stored, and the stamp of the last activity.  Each page keeps *)
(* its tokens, the setting it has loaded and its timer in memory.  Time    *)
(* passes in steps far longer than the minute between two checks and the   *)
(* seconds an answer takes; what is due happens before time goes on.       *)
(***************************************************************************)
EXTENDS Naturals

CONSTANTS
  Pages,      \* the tabs of one browser
  Limits,     \* the idle timeouts that can be configured
  Default,    \* DEFAULT_SESSION_TIMEOUT_MINUTES
  TokenLife,  \* the lifetime of an access token
  NoStamp,    \* no stamp in the localStorage
  Unknown,    \* sessionTimeoutMinutes is null: none saved, or not told yet
  Told        \* assumption: a timeout is saved, and a page told before it is suspended

ASSUME SessionAssumption ==
  /\ Limits \cup {Default} \subseteq Nat \ {0} /\ TokenLife \in Nat \ {0}
  /\ \E m \in Limits \cup {Default} : \A k \in Limits \cup {Default} : k <= m
  /\ NoStamp \notin Nat /\ Unknown \notin Nat /\ Told \in BOOLEAN

Longest == CHOOSE m \in Limits \cup {Default} : \A k \in Limits \cup {Default} : k <= m
Ages    == 0..Longest   \* an age of Longest stands for every longer one

VARIABLES
  place,       \* per page: "out", or signed in and "awake" or "asleep"
  setting,     \* per page: sessionTimeoutMinutes, or Unknown
  fetched,     \* per page: fetchState "waits", has "failed", or is "done" (isLoaded)
  timer,       \* per page: what is left until its idle timer fires
  checked,     \* the awake pages whose minute check has run since time passed
  life,        \* per page: what is left of the access token it holds
  renewing,    \* the pages with a refresh in flight
  stored,      \* what is left of the stored access token, or NoStamp: no session
  stamp,       \* the age of the stored last activity, or NoStamp
  configured,  \* the setting the server has, or Unknown
  unattended,  \* per page: time since someone last used it (history)
  rearmed      \* time since an answer of fetchState last restarted a timer (history)

historyVars == <<unattended, rearmed>>
pageVars    == <<place, setting, fetched, timer, checked, life, renewing>>
sessionVars == <<pageVars, stored, stamp, configured, historyVars>>

SessionInit ==
  /\ place = [p \in Pages |-> "out"]
  /\ setting = [p \in Pages |-> Unknown]
  /\ timer = [p \in Pages |-> 0] /\ life = [p \in Pages |-> 0]
  /\ checked = {} /\ renewing = {}
  /\ stored = NoStamp /\ stamp = NoStamp
  /\ fetched = [p \in Pages |-> "waits"]
  /\ configured \in IF Told THEN Limits ELSE Limits \cup {Unknown}
  /\ unattended = [p \in Pages |-> 0] /\ rearmed = Longest

SignedIn(p) == place[p] # "out"
Awake(p)    == place[p] = "awake"

\* currentTimeoutMs
Limit(p) == IF setting[p] = Unknown THEN Default ELSE setting[p]

\* readLastActivityAt: a missing stamp reads as now.
Elapsed == IF stamp = NoStamp THEN 0 ELSE stamp

Attended(p) == unattended' = [unattended EXCEPT ![p] = 0] /\ UNCHANGED rearmed

---------------------------------------------------------------------------
(* The idle-timeout watcher *)

\* A page that is loaded again starts with empty stores.
Forgets(p) ==
  /\ setting' = [setting EXCEPT ![p] = Unknown]
  /\ fetched' = [fetched EXCEPT ![p] = "waits"]

\* logout: clearSession empties this page's memory and the whole localStorage.
Logout(p) ==
  /\ place' = [place EXCEPT ![p] = "out"]
  /\ Forgets(p)
  /\ timer' = [timer EXCEPT ![p] = 0] /\ life' = [life EXCEPT ![p] = 0]
  /\ checked' = checked \ {p} /\ renewing' = renewing \ {p}
  /\ stored' = NoStamp /\ stamp' = NoStamp
  /\ UNCHANGED configured

\* checkIdleElapsed for a page that stays: its timer gets what is left.
Resync(p, limit) == timer' = [timer EXCEPT ![p] = limit - Elapsed]

WritesOnly(p, limit) ==   \* Variation: the timer is not set again.
  stamp' = 0 /\ UNCHANGED timer

\* resetIdleTimer and handleActivityEvent: now is the last activity.
ResetIdleTimer(p, limit) ==
  stamp' = 0 /\ timer' = [timer EXCEPT ![p] = limit]

Activity(p) ==
  /\ Awake(p) /\ Attended(p)
  /\ ResetIdleTimer(p, Limit(p))
  /\ UNCHANGED <<place, setting, fetched, checked, life, renewing, stored, configured>>

TimerFires(p) == Awake(p) /\ timer[p] = 0 /\ Logout(p) /\ UNCHANGED historyVars

\* checkTokenExpiry: a token about to expire is renewed, once at a time.
Expiring(p) == life[p] = 0

\* The tick of a minute: checkIdleElapsed, then checkTokenExpiry.
Check(p) ==
  /\ Awake(p) /\ p \notin checked /\ UNCHANGED historyVars
  /\ \/ Elapsed >= Limit(p) /\ Logout(p)
     \/ /\ Elapsed < Limit(p) /\ Resync(p, Limit(p))
        /\ checked' = checked \cup {p}
        /\ renewing' = IF Expiring(p) THEN renewing \cup {p} ELSE renewing
        /\ UNCHANGED <<place, setting, fetched, life, stored, stamp, configured>>

Suspend(p) ==
  /\ Awake(p) /\ p \notin renewing
  /\ Told => fetched[p] # "waits"
  /\ place' = [place EXCEPT ![p] = "asleep"]
  /\ UNCHANGED <<setting, fetched, timer, checked, life, renewing, stored, stamp,
                 configured, historyVars>>

\* The page is visible again: checkIdleElapsed, or an overdue timer comes first.
Resume(p) ==
  /\ place[p] = "asleep" /\ UNCHANGED historyVars
  /\ \/ (Elapsed >= Limit(p) \/ timer[p] = 0) /\ Logout(p)
     \/ /\ Elapsed < Limit(p) /\ Resync(p, Limit(p))
        /\ place' = [place EXCEPT ![p] = "awake"]
        /\ checked' = checked \ {p}
        /\ UNCHANGED <<setting, fetched, life, renewing, stored, stamp, configured>>

---------------------------------------------------------------------------
(* Pages and their settings *)

MountAnew(p, token) ==   \* Variation: a loaded page starts a full window.
  /\ place' = [place EXCEPT ![p] = "awake"] /\ Forgets(p)
  /\ timer' = [timer EXCEPT ![p] = Default] /\ stamp' = 0
  /\ life' = [life EXCEPT ![p] = token] /\ stored' = token
  /\ checked' = checked \ {p} /\ renewing' = renewing \ {p}
  /\ UNCHANGED configured

\* A page is loaded with the session in the localStorage: onMounted checks the
\* stamp of the page before it against the default.
Mount(p, token) ==
  \/ Elapsed >= Default /\ Logout(p)
  \/ /\ Elapsed < Default /\ Resync(p, Default)
     /\ place' = [place EXCEPT ![p] = "awake"] /\ Forgets(p)
     /\ life' = [life EXCEPT ![p] = token] /\ stored' = token
     /\ checked' = checked \ {p} /\ renewing' = renewing \ {p}
     /\ UNCHANGED <<stamp, configured>>

\* A new tab, a reload, or a start after the system discarded the page.
Load(p) == stored # NoStamp /\ Mount(p, stored) /\ UNCHANGED historyVars

\* Without a stored session the page that is loaded shows the login.
LoadsLogin(p) ==
  /\ SignedIn(p) /\ stored = NoStamp
  /\ place' = [place EXCEPT ![p] = "out"] /\ Forgets(p)
  /\ timer' = [timer EXCEPT ![p] = 0] /\ life' = [life EXCEPT ![p] = 0]
  /\ checked' = checked \ {p} /\ renewing' = renewing \ {p}
  /\ UNCHANGED <<stored, stamp, configured, historyVars>>

\* persistSession after a login leaves a stamp as it is: one that a page still
\* open wrote since the last logout may be old, and the login ends early or at
\* once.  The history counts such a login as no use later than that stamp.
SignIn(p) ==
  /\ ~SignedIn(p) /\ stored = NoStamp
  /\ Mount(p, TokenLife)
  /\ unattended' = [unattended EXCEPT ![p] = Elapsed] /\ UNCHANGED rearmed

SignOut(p) == Awake(p) /\ Logout(p) /\ Attended(p)

\* fetchState answers (the one of AppShell, or of a later view while none has):
\* a value that differs restarts the idle timer, though nobody used the page.
SettingArrives(p) ==
  /\ Awake(p) /\ fetched[p] # "done"
  /\ fetched' = [fetched EXCEPT ![p] = "done"]
  /\ setting' = [setting EXCEPT ![p] = configured]
  /\ \/ configured # setting[p] /\ ResetIdleTimer(p, Limit(p)') /\ rearmed' = 0
     \/ configured = setting[p] /\ UNCHANGED <<timer, stamp, rearmed>>
  /\ UNCHANGED <<place, checked, life, renewing, stored, configured, unattended>>

SettingFails(p) ==
  /\ ~Told /\ Awake(p) /\ fetched[p] = "waits"
  /\ fetched' = [fetched EXCEPT ![p] = "failed"]
  /\ UNCHANGED <<place, setting, timer, checked, life, renewing, stored, stamp,
                 configured, historyVars>>

\* saveState from this page; the other pages are not told.
SaveSetting(p, m) ==
  /\ Awake(p) /\ fetched[p] # "waits" /\ m # setting[p]
  /\ configured' = m
  /\ setting' = [setting EXCEPT ![p] = m]
  /\ ResetIdleTimer(p, m) /\ Attended(p)
  /\ UNCHANGED <<place, fetched, checked, life, renewing, stored>>

\* Another administrator saves one; no open page is told.
SavedElsewhere(m) ==
  /\ m # configured /\ configured' = m
  /\ UNCHANGED <<pageVars, stored, stamp, historyVars>>

---------------------------------------------------------------------------
(* refreshAppliverySession *)

\* A request with an expired token is answered 401: the interceptor renews it.
Unauthorized(p) ==
  /\ Awake(p) /\ life[p] = 0 /\ p \notin renewing
  /\ renewing' = renewing \cup {p}
  /\ UNCHANGED <<place, setting, fetched, timer, checked, life, stored, stamp,
                 configured, historyVars>>

RenewalSucceeds(p) ==
  /\ p \in renewing /\ Awake(p)
  /\ renewing' = renewing \ {p}
  /\ life' = [life EXCEPT ![p] = TokenLife]
  /\ stored' = IF stored = NoStamp THEN NoStamp ELSE TokenLife
  /\ UNCHANGED <<place, setting, fetched, timer, checked, stamp, configured, historyVars>>

\* Refused or not reached: the page signs out.
RenewalFails(p) == p \in renewing /\ Awake(p) /\ Logout(p) /\ UNCHANGED historyVars

---------------------------------------------------------------------------
(* Time *)

Less(n)  == IF n = 0 THEN 0 ELSE n - 1
Older(a) == IF a = NoStamp \/ a = Longest THEN a ELSE a + 1

\* What is due or under way comes first.
Quiet(p) == Awake(p) => /\ p \in checked /\ timer[p] > 0
                        /\ p \notin renewing /\ fetched[p] # "waits"

TimePasses ==
  /\ \A p \in Pages : Quiet(p)
  /\ timer' = [p \in Pages |-> Less(timer[p])]
  /\ life' = [p \in Pages |-> Less(life[p])]
  /\ stored' = IF stored = NoStamp THEN NoStamp ELSE Less(stored)
  /\ stamp' = Older(stamp)
  /\ unattended' = [p \in Pages |-> Older(unattended[p])] /\ rearmed' = Older(rearmed)
  /\ checked' = {}
  /\ UNCHANGED <<place, setting, fetched, renewing, configured>>

PageStep(p) ==
  \/ Activity(p) \/ TimerFires(p) \/ Check(p) \/ Suspend(p) \/ Resume(p)
  \/ Load(p) \/ LoadsLogin(p) \/ SignIn(p) \/ SignOut(p)
  \/ SettingArrives(p) \/ SettingFails(p) \/ \E m \in Limits : SaveSetting(p, m)
  \/ Unauthorized(p) \/ RenewalSucceeds(p) \/ RenewalFails(p)

SessionNext ==
  \/ TimePasses \/ \E m \in Limits : SavedElsewhere(m)
  \/ \E p \in Pages : PageStep(p)

SessionSpec == SessionInit /\ [][SessionNext]_sessionVars

---------------------------------------------------------------------------
(* Properties *)

\* An awake page that has run its check and whose timer is not due.
Settled(p) == Awake(p) /\ p \in checked /\ timer[p] > 0

\* Some page was used within the limit, or was told its setting within it.
WindowOpen(limit) == rearmed < limit \/ \E q \in Pages : unattended[q] < limit

\* As long as there is a stamp, a page stays signed in only within its limit after
\* the last use of some page or after the last answer of fetchState that changed a
\* setting.  In a workspace that never saved a timeout no answer does, and no
\* suspension, discarded page, reload or renewal prolongs the window; where one is
\* saved, each load of a page not idle for the default yet buys one full window.
IdlePageIsSignedOut ==
  stamp # NoStamp => \A p \in Pages : Settled(p) => WindowOpen(Limit(p))

\* docs/settings.md:11: "Signs everyone out automatically after this much
\* inactivity."  (The answer with a page's setting is let pass for activity.)
EveryoneIsSignedOut == \A p \in Pages : Settled(p) => WindowOpen(Limit(p))

\* A page that was attended within the limit it knows (the default, for a page
\* just loaded) does not sign out by itself unless a renewal of its token failed:
\* resumes, reloads, logins, other pages and changed settings never end it early.
EndsByItself(p) ==
  /\ SignedIn(p) /\ ~SignedIn(p)'
  /\ ~(SignOut(p) \/ RenewalFails(p) \/ LoadsLogin(p))

AttendedStaysSignedIn ==
  [][\A p \in Pages :
       EndsByItself(p) => unattended[p] >= IF Load(p) THEN Default ELSE Limit(p)]_sessionVars
=============================================================================
