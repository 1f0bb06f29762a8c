------------------------------ MODULE JobRunner ------------------------------
(***************************************************************************)
(* The periodic jobs of one process (backgroundJobs.ts, backgroundQueue.ts *)
(* with jobReentrancyGuard.ts), their heartbeats, and the job that watches *)
(* the heartbeats of all of them and sends notices (systemHealth).         *)
(***************************************************************************)
EXTENDS Naturals

CONSTANTS
  Jobs,         \* the other jobs that are watched
  Monitor,      \* the job system_health_monitor, which is watched as well
  MaxFailures,  \* bound: runs that throw
  MaxCrashes,   \* bound: restarts of the process
  AllBeatOnce   \* assumption: every job has reported before the monitor's first look

Ok      == "ok"      \* lastStatus
Error   == "error"
Watched == Jobs \cup {Monitor}
Streak  == 3   \* consecutive errors that count as unhealthy

VARIABLES
  slot,     \* the jobs that hold their slot
  run,      \* per job: how far its run is
  row,      \* per job: its SystemHealthJob
  read,     \* the rows as the monitor read them: what it knows of each job
  todo,     \* the jobs the monitor has still to look at
  sending,  \* the job whose notice was sent and is not marked yet, if any
  said,     \* per job: what the recipients heard last (history)
  beaten,   \* the jobs that have reported since the monitor found them unhealthy (history)
  failures, crashes

noticeVars == <<sending, said>>
jobVars == <<slot, run, row, read, todo, noticeVars, beaten, failures, crashes>>

NoRow  == [exists |-> FALSE, late |-> TRUE, errors |-> 0, alerted |-> FALSE]
NewRow == [exists |-> TRUE, late |-> FALSE, errors |-> 0, alerted |-> FALSE]
Unread == [j \in Watched |-> [unhealthy |-> FALSE, alerted |-> FALSE]]

JobInit ==
  /\ slot = {} /\ run = [j \in Watched |-> "idle"]
  /\ row = [j \in Watched |-> IF AllBeatOnce THEN NewRow ELSE NoRow]
  /\ read = Unread /\ todo = {} /\ beaten = Watched
  /\ sending = {} /\ said = [j \in Watched |-> "up"]
  /\ failures = 0 /\ crashes = 0

---------------------------------------------------------------------------
(* runJobOnce, and the worker's processor, which is the same *)

\* The timer fires; without the slot the tick is skipped.
Tick(j) ==
  /\ j \notin slot
  /\ slot' = slot \cup {j}
  /\ run' = [run EXCEPT ![j] = "running"]
  /\ UNCHANGED <<row, read, todo, noticeVars, beaten, failures, crashes>>

RunEnds(j) ==
  /\ run[j] = "running" /\ j # Monitor
  /\ run' = [run EXCEPT ![j] = Ok]
  /\ UNCHANGED <<slot, row, read, todo, noticeVars, beaten, failures, crashes>>

\* The monitor stops, maybe between a notice and its mark: it will not know
\* what the recipients heard.
CutShort ==
  /\ read' = Unread /\ todo' = {} /\ sending' = {}
  /\ said' = [j \in Watched |-> IF j \in sending THEN "unsure" ELSE said[j]]

RunThrows(j) ==
  /\ run[j] \in {"running", "watching"} /\ failures < MaxFailures
  /\ failures' = failures + 1
  /\ run' = [run EXCEPT ![j] = Error]
  /\ IF j = Monitor THEN CutShort ELSE UNCHANGED <<read, todo, noticeVars>>
  /\ UNCHANGED <<slot, row, beaten, crashes>>

\* recordJobHeartbeat: only a success ends the streak.
Beaten(old, status) ==
  [old EXCEPT !.exists = TRUE, !.late = FALSE,
              !.errors = IF status = Ok THEN 0 ELSE IF @ < Streak THEN @ + 1 ELSE @]

Heartbeat(j) ==
  /\ run[j] \in {Ok, Error}
  /\ \/ /\ row' = [row EXCEPT ![j] = Beaten(@, run[j])]
        /\ beaten' = beaten \cup {j}
        /\ UNCHANGED failures
     \/ \* the write fails: swallowed
        /\ failures < MaxFailures /\ failures' = failures + 1
        /\ UNCHANGED <<row, beaten>>
  /\ run' = [run EXCEPT ![j] = "ending"]
  /\ UNCHANGED <<slot, read, todo, noticeVars, crashes>>

KeepsSlot(j) ==   \* Variation: the slot is released after a success only.
  /\ run[j] = "ending"
  /\ slot' = IF row[j].errors = 0 THEN slot \ {j} ELSE slot
  /\ run' = [run EXCEPT ![j] = "idle"]
  /\ UNCHANGED <<row, read, todo, noticeVars, beaten, failures, crashes>>

\* The finally block.
Release(j) ==
  /\ run[j] = "ending"
  /\ slot' = slot \ {j}
  /\ run' = [run EXCEPT ![j] = "idle"]
  /\ UNCHANGED <<row, read, todo, noticeVars, beaten, failures, crashes>>

---------------------------------------------------------------------------
(* checkSystemHealthAndAlert *)

\* isOverdue, and three errors in a row; a job without a row is overdue.
Unhealthy(entry) == entry.late \/ entry.errors >= Streak

ReadRows ==
  /\ run[Monitor] = "running"
  /\ read' = [j \in Watched |-> [unhealthy |-> Unhealthy(row[j]), alerted |-> row[j].alerted]]
  /\ todo' = Watched
  /\ run' = [run EXCEPT ![Monitor] = "watching"]
  /\ beaten' = beaten \ {j \in Watched : Unhealthy(row[j]) /\ ~row[j].alerted}
  /\ UNCHANGED <<slot, row, noticeVars, failures, crashes>>

TouchedRow(old) == [NewRow EXCEPT !.alerted = TRUE]   \* Variation: the mark counts as a heartbeat.
\* The upsert of the mark creates the row of a job that never reported, with a
\* heartbeat of now.
MarkedRow(old) == IF old.exists THEN [old EXCEPT !.alerted = TRUE]
                                ELSE [NewRow EXCEPT !.errors = 0, !.alerted = TRUE]

Alerts(j)   == read[j].unhealthy /\ ~read[j].alerted
Recovers(j) == ~read[j].unhealthy /\ read[j].alerted

\* fireSystemHealthAlert, by what was read at the start.  A delivery that fails
\* is swallowed, and the mark is written all the same.
Deliver(j, notice) ==
  /\ run[Monitor] = "watching" /\ j \in todo /\ sending = {}
  /\ sending' = {j}
  /\ \/ said' = [said EXCEPT ![j] = notice] /\ UNCHANGED failures
     \/ /\ failures < MaxFailures /\ failures' = failures + 1
        /\ said' = [said EXCEPT ![j] = "unsure"]
  /\ UNCHANGED <<slot, run, row, read, todo, beaten, crashes>>

SendAlert(j)    == Alerts(j) /\ Deliver(j, "down")
SendRecovery(j) == Recovers(j) /\ Deliver(j, "up")

\* ... and then the mark is set, or taken away.
Mark(j) ==
  /\ run[Monitor] = "watching" /\ j \in sending
  /\ row' = [row EXCEPT ![j] = IF Alerts(j) THEN MarkedRow(@) ELSE [@ EXCEPT !.alerted = FALSE]]
  /\ sending' = {} /\ todo' = todo \ {j}
  /\ UNCHANGED <<slot, run, read, said, beaten, failures, crashes>>

NothingToSay(j) ==
  /\ run[Monitor] = "watching" /\ j \in todo /\ sending = {}
  /\ read[j].unhealthy = read[j].alerted
  /\ todo' = todo \ {j}
  /\ UNCHANGED <<slot, run, row, read, noticeVars, beaten, failures, crashes>>

WatchEnds ==
  /\ run[Monitor] = "watching" /\ todo = {}
  /\ run' = [run EXCEPT ![Monitor] = Ok]
  /\ read' = Unread
  /\ UNCHANGED <<slot, row, todo, noticeVars, beaten, failures, crashes>>

Watch == ReadRows \/ WatchEnds
         \/ \E j \in Watched : SendAlert(j) \/ SendRecovery(j) \/ Mark(j) \/ NothingToSay(j)

---------------------------------------------------------------------------
(* Time, and the process *)

\* Three intervals have passed without a heartbeat.
Overdue(j) ==
  /\ ~row[j].late
  /\ row' = [row EXCEPT ![j].late = TRUE]
  /\ UNCHANGED <<slot, run, read, todo, noticeVars, beaten, failures, crashes>>

Restart ==
  /\ crashes < MaxCrashes /\ crashes' = crashes + 1
  /\ slot' = {} /\ run' = [j \in Watched |-> "idle"] /\ CutShort
  /\ UNCHANGED <<row, beaten, failures>>

JobNext ==
  \/ \E j \in Watched :
       Tick(j) \/ RunEnds(j) \/ RunThrows(j) \/ Heartbeat(j) \/ Release(j) \/ Overdue(j)
  \/ Watch \/ Restart

JobSpec == JobInit /\ [][JobNext]_jobVars

---------------------------------------------------------------------------
(* Properties *)

JobTypeOK ==
  /\ slot \subseteq Watched /\ sending \subseteq todo /\ todo \subseteq Watched
  /\ \A j \in Watched : run[j] # "idle" => j \in slot
  /\ \A j \in Watched : row[j].errors \in 0..Streak /\ (row[j].alerted => row[j].exists)

\* A recovery is announced, and its mark written, only after the job has
\* reported: an outage is not called over because of what the monitor itself
\* wrote.
Announced(j) == \/ row[j].alerted /\ ~row'[j].alerted
                \/ said[j] # "up" /\ said'[j] = "up"
RecoveryFollowsHeartbeat == [][\A j \in Watched : Announced(j) => j \in beaten]_jobVars

\* A job that stays unhealthy, because its run hangs or keeps failing, is marked
\* in the end and the recipients heard of it last that it is down; one that
\* stays healthy is not left marked, or reported as down.  Unless the delivery of
\* the last notice failed, or the monitor stopped between it and its mark.
NoticesConverge ==
  \A j \in Jobs :
    /\ <>[]Unhealthy(row[j])  => <>[](row[j].alerted /\ said[j] \in {"down", "unsure"})
    /\ <>[]~Unhealthy(row[j]) => <>[](~row[j].alerted /\ said[j] \in {"up", "unsure"})
=============================================================================
