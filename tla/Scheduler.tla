------------------------------ MODULE Scheduler ------------------------------
(***************************************************************************)
(* The foreground scheduler of scheduler/service.ts and its store.         *)
(*                                                                         *)
(* A scheduler is a process that holds the owner lock of                   *)
(* .latchkit/schedules/owner (a task-state lock: see TaskStateLock; a dead *)
(* holder's lock is taken over).  Every mutate is one locked step; between *)
(* two of them other processes edit, pause, resume, remove and cancel.     *)
(* Clock time is the position of a schedule's nextRunAt: ahead, due, or    *)
(* missed by a whole period.  Of the retained runs only the last matters   *)
(* and whether one was interrupted.                                        *)
(***************************************************************************)
EXTENDS Naturals

CONSTANTS
  Foregrounds,  \* processes that create a foreground scheduler
  Schedules,
  NoOne,        \* no owner, no schedule
  MaxClaims     \* bound: runs of a schedule

ASSUME SchedulerAssumption == NoOne \notin Foregrounds \union Schedules /\ MaxClaims \in Nat

VARIABLES
  plan,      \* each schedule: enabled, authorized, when it is due, interrupted runs, claims
  lastRun,   \* the newest run of each schedule: its state, its owner, whether cancelled
  holder,    \* the owner lock
  alive,     \* schedulers whose process lives
  mode,      \* each scheduler: idle, owning, recovering, started, closed
  stopAt,    \* its stop(): no, waiting for the poll, draining, failed, over
  polling,   \* schedules its tick has still to visit, or {NoOne} when it does not poll
  work,      \* the schedule whose run it executes
  place,     \* where execute is
  aborting,  \* the run's AbortController
  process,   \* the run's provider process: none, live, or how it ended
  strayed    \* history: an owner let go of the project with a run or a recovery in flight

schedulerVars ==
  <<plan, lastRun, holder, alive, mode, stopAt, polling, work, place, aborting, process, strayed>>
Stored    == <<plan, lastRun>>
Executing == <<work, place, aborting, process>>

ScheduledStates ==
  {"none", "running", "interrupted", "cancelled", "timed-out", "completed", "blocked", "failed"}
Ended     == {"exited", "verified", "crashed", "timed-out", "cancelled", "refused"}
Places    == {"none", "creating", "linking", "launching", "waiting", "observing", "finishing", "failing", "giving-up"}
NotPolling == {NoOne}
ScheduleRecord == [enabled : BOOLEAN, authorized : BOOLEAN, when : {"ahead", "due", "missed"},
                   interrupted : BOOLEAN, claims : 0..MaxClaims]
RunRecord == [state : ScheduledStates, owner : Foregrounds \union {NoOne}, cancel : BOOLEAN]

\* createSchedule has been called.
SchedulerInit ==
  /\ plan \in [Schedules -> {r \in ScheduleRecord : r.enabled /\ r.when = "ahead" /\ ~r.interrupted
                                                   /\ r.claims = 0}]
  /\ lastRun = [i \in Schedules |-> [state |-> "none", owner |-> NoOne, cancel |-> FALSE]]
  /\ holder = NoOne /\ alive = Foregrounds
  /\ mode = [f \in Foregrounds |-> "idle"] /\ stopAt = [f \in Foregrounds |-> "no"]
  /\ polling = [f \in Foregrounds |-> NotPolling]
  /\ work = [f \in Foregrounds |-> NoOne] /\ place = [f \in Foregrounds |-> "none"]
  /\ aborting = [f \in Foregrounds |-> FALSE] /\ process = [f \in Foregrounds |-> "none"]
  /\ strayed = FALSE

Running(i) == lastRun[i].state = "running"
Stopped(f) == stopAt[f] # "no"
Polls(f)   == polling[f] # NotPolling
At(f, p)   == place[f] = p /\ f \in alive

-----------------------------------------------------------------------------
(* Other processes, and the clock *)

\* editSchedule: without a fresh authorization the flag is withdrawn.
EditSchedule(i) ==
  /\ ~Running(i)
  /\ \E flag \in BOOLEAN :
       plan' = [plan EXCEPT ![i] = [@ EXCEPT !.authorized = flag, !.when = "ahead"]]
  /\ UNCHANGED <<lastRun, holder, alive, mode, stopAt, polling, Executing, strayed>>

PauseSchedule(i) ==
  /\ plan' = [plan EXCEPT ![i].enabled = FALSE]
  /\ UNCHANGED <<lastRun, holder, alive, mode, stopAt, polling, Executing, strayed>>

ResumableSchedule(i) == ~Running(i) /\ ~plan[i].interrupted

ResumeSchedule(i) ==
  /\ ResumableSchedule(i)
  /\ plan' = [plan EXCEPT ![i] = [@ EXCEPT !.enabled = TRUE, !.when = "ahead"]]
  /\ UNCHANGED <<lastRun, holder, alive, mode, stopAt, polling, Executing, strayed>>

CancelScheduleRun(i) ==
  /\ Running(i)
  /\ lastRun' = [lastRun EXCEPT ![i].cancel = TRUE]
  /\ UNCHANGED <<plan, holder, alive, mode, stopAt, polling, Executing, strayed>>

ClockMoves(i) ==
  /\ plan[i].when # "missed" /\ plan[i].claims < MaxClaims
  /\ plan' = [plan EXCEPT ![i].when = IF @ = "ahead" THEN "due" ELSE "missed"]
  /\ UNCHANGED <<lastRun, holder, alive, mode, stopAt, polling, Executing, strayed>>

-----------------------------------------------------------------------------
(* start: own, recover, and the timer *)

StartScheduler(f) ==
  /\ f \in alive /\ mode[f] = "idle"
  /\ mode' = [mode EXCEPT ![f] = "owning"]
  /\ UNCHANGED <<Stored, holder, alive, stopAt, polling, Executing, strayed>>

\* own: a live holder refuses, which closes this scheduler.  (The variant takes over.)
TakesOver == TRUE
Ownable == holder \notin alive

Own(f) ==
  /\ f \in alive /\ mode[f] = "owning"
  /\ IF Ownable
     THEN holder' = f /\ mode' = [mode EXCEPT ![f] = "recovering"] /\ UNCHANGED stopAt
     ELSE /\ mode' = [mode EXCEPT ![f] = "closed"] /\ stopAt' = [stopAt EXCEPT ![f] = "over"]
          /\ UNCHANGED holder
  /\ UNCHANGED <<Stored, alive, polling, Executing, strayed>>

\* recover: running runs are a former owner's.
Recover(f) ==
  /\ f \in alive /\ mode[f] = "recovering"
  /\ lastRun' = [i \in Schedules |-> IF Running(i) THEN [lastRun[i] EXCEPT !.state = "interrupted"]
                                     ELSE lastRun[i]]
  /\ plan' = [i \in Schedules |->
                [plan[i] EXCEPT !.enabled = @ /\ ~Running(i), !.interrupted = @ \/ Running(i),
                                !.when = "ahead"]]
  /\ mode' = [mode EXCEPT ![f] = IF Stopped(f) THEN "closed" ELSE "started"]
  /\ UNCHANGED <<holder, alive, stopAt, polling, Executing, strayed>>

-----------------------------------------------------------------------------
(* tick, claim *)

\* tickOnce reads the schedules.
ReadSchedules(f) ==
  /\ f \in alive /\ mode[f] = "started" /\ ~Stopped(f) /\ ~Polls(f)
  /\ polling' = [polling EXCEPT ![f] = {i \in Schedules : plan[i].enabled /\ plan[i].when # "ahead"}]
  /\ UNCHANGED <<Stored, holder, alive, mode, stopAt, Executing, strayed>>

\* claim looks again under the lock.
Claims(f, i) == plan[i].enabled /\ plan[i].when = "due" /\ ~Running(i)

VisitSchedule(f, i) ==
  /\ f \in alive /\ i \in polling[f] /\ i # NoOne
  /\ polling' = [polling EXCEPT ![f] = @ \ {i}]
  /\ IF Stopped(f) \/ work[f] # NoOne
     THEN UNCHANGED <<Stored, Executing>>
     ELSE IF Claims(f, i)
     THEN LET run == plan[i].authorized
          IN /\ plan' = [plan EXCEPT ![i] = [@ EXCEPT !.when = "ahead", !.enabled = run,
                                               !.claims = plan[i].claims + 1]]
             /\ lastRun' = [lastRun EXCEPT ![i] = [state |-> IF run THEN "running" ELSE "blocked",
                                                   owner |-> IF run THEN f ELSE NoOne, cancel |-> FALSE]]
             /\ IF run THEN /\ work' = [work EXCEPT ![f] = i] /\ place' = [place EXCEPT ![f] = "creating"]
                            /\ aborting' = [aborting EXCEPT ![f] = FALSE]
                            /\ process' = [process EXCEPT ![f] = "none"]
                ELSE UNCHANGED Executing
     ELSE /\ plan' = [plan EXCEPT ![i].when = IF plan[i].enabled THEN "ahead" ELSE @]
          /\ UNCHANGED <<lastRun, Executing>>
  /\ UNCHANGED <<holder, alive, mode, stopAt, strayed>>

EndTick(f) ==
  /\ f \in alive /\ polling[f] = {}
  /\ polling' = [polling EXCEPT ![f] = NotPolling]
  /\ UNCHANGED <<Stored, holder, alive, mode, stopAt, Executing, strayed>>

\* A read or a mutate of the tick fails.  stop is called, or finds the poll it waits for
\* rejected and goes straight to its finally.
FailTick(f) ==
  /\ f \in alive /\ Polls(f)
  /\ polling' = [polling EXCEPT ![f] = NotPolling]
  /\ stopAt' = [stopAt EXCEPT ![f] = IF @ = "waiting" THEN "failed" ELSE "waiting"]
  /\ UNCHANGED <<Stored, holder, alive, mode, Executing, strayed>>

-----------------------------------------------------------------------------
(* execute, finish *)

\* createTask may fail.
CreateScheduledTask(f) ==
  /\ At(f, "creating")
  /\ \E p \in {"linking", "failing"} : place' = [place EXCEPT ![f] = p]
  /\ UNCHANGED <<Stored, holder, alive, mode, stopAt, polling, work, aborting, process, strayed>>

\* The task is linked; a request or a stop in the meantime cancels it before its launch.
LinkTask(f) ==
  /\ At(f, "linking")
  /\ aborting' = [aborting EXCEPT ![f] = @ \/ lastRun[work[f]].cancel \/ Stopped(f)]
  /\ IF aborting'[f]
     THEN place' = [place EXCEPT ![f] = "finishing"] /\ process' = [process EXCEPT ![f] = "cancelled"]
     ELSE place' = [place EXCEPT ![f] = "launching"] /\ UNCHANGED process
  /\ UNCHANGED <<Stored, holder, alive, mode, stopAt, polling, work, strayed>>

\* controller.start launches the child, or throws.
LaunchRun(f) ==
  /\ At(f, "launching")
  /\ \/ place' = [place EXCEPT ![f] = "waiting"] /\ process' = [process EXCEPT ![f] = "live"]
     \/ place' = [place EXCEPT ![f] = "failing"] /\ UNCHANGED process
  /\ UNCHANGED <<Stored, holder, alive, mode, stopAt, polling, work, aborting, strayed>>

\* The poll every 100 ms.
PollCancellation(f) ==
  /\ place[f] \in {"launching", "waiting"} /\ f \in alive
  /\ lastRun[work[f]].cancel /\ ~aborting[f]
  /\ aborting' = [aborting EXCEPT ![f] = TRUE]
  /\ UNCHANGED <<Stored, holder, alive, mode, stopAt, polling, work, place, process, strayed>>

\* The child ends: it is aborted, it exceeds its limits, or it exits.
EndRun(f) ==
  /\ process[f] = "live"
  /\ \E how \in IF aborting[f] THEN {"cancelled"} ELSE {"exited", "verified", "crashed", "timed-out"} :
       process' = [process EXCEPT ![f] = how]
  /\ UNCHANGED <<Stored, holder, alive, mode, stopAt, polling, work, place, aborting, strayed>>

\* start returns; an abort that was observed cancels the task, which may throw.
ObserveRun(f) ==
  /\ At(f, "waiting") /\ process[f] # "live"
  /\ \E p \in IF aborting[f] THEN {"finishing", "failing"} ELSE {"finishing"} :
       place' = [place EXCEPT ![f] = p]
  /\ UNCHANGED <<Stored, holder, alive, mode, stopAt, polling, work, aborting, process, strayed>>

\* finish: a request that was committed wins.
ByProcess(f, status) ==
  CASE status = "verified"                -> "completed"
    [] status \in {"exited", "refused"} -> "blocked"
    [] status = "crashed"                 -> "failed"
    [] OTHER                              -> status
Outcome(f, status) == IF lastRun[work[f]].cancel THEN "cancelled" ELSE ByProcess(f, status)

Finished(f, status) ==
  LET i == work[f] s == Outcome(f, IF aborting[f] THEN "cancelled" ELSE status)
  IN IF Running(i) /\ lastRun[i].owner = f
     THEN /\ lastRun' = [lastRun EXCEPT ![i].state = s]
          /\ plan' = [plan EXCEPT ![i].enabled = @ /\ s \notin {"blocked", "failed"}]
     ELSE UNCHANGED Stored

Idles(f) == work' = [work EXCEPT ![f] = NoOne] /\ place' = [place EXCEPT ![f] = "none"]
            /\ aborting' = [aborting EXCEPT ![f] = FALSE] /\ process' = [process EXCEPT ![f] = "none"]

FinishRun(f) ==
  /\ At(f, "finishing")
  /\ \/ Finished(f, process[f]) /\ Idles(f)
     \/ place' = [place EXCEPT ![f] = "failing"] /\ UNCHANGED <<Stored, work, aborting, process>>
  /\ UNCHANGED <<holder, alive, mode, stopAt, polling, strayed>>

\* The catch of execute finishes the run; when that fails too, the scheduler stops.
FailRun(f) ==
  /\ At(f, "failing")
  /\ Idles(f)
  /\ \/ Finished(f, "refused") /\ UNCHANGED stopAt
     \/ stopAt' = [stopAt EXCEPT ![f] = IF @ = "no" THEN "waiting" ELSE @] /\ UNCHANGED Stored
  /\ UNCHANGED <<holder, alive, mode, polling, strayed>>

-----------------------------------------------------------------------------
(* stop, crashes *)

CallStop(f) ==
  /\ f \in alive /\ stopAt[f] = "no" /\ mode[f] # "idle"
  /\ stopAt' = [stopAt EXCEPT ![f] = "waiting"]
  /\ UNCHANGED <<Stored, holder, alive, mode, polling, Executing, strayed>>

Settled(f) == mode[f] # "owning" /\ ~Polls(f)

AbortRuns(f) ==
  /\ f \in alive /\ stopAt[f] = "waiting" /\ Settled(f)
  /\ aborting' = [aborting EXCEPT ![f] = work[f] # NoOne]
  /\ stopAt' = [stopAt EXCEPT ![f] = "draining"]
  /\ UNCHANGED <<Stored, holder, alive, mode, polling, work, place, process, strayed>>

ReleaseOwner(f) ==
  /\ f \in alive
  /\ stopAt[f] = "failed" \/ (stopAt[f] = "draining" /\ work[f] = NoOne)
  /\ holder' = IF holder = f THEN NoOne ELSE holder
  /\ mode' = [mode EXCEPT ![f] = IF @ = "recovering" THEN @ ELSE "closed"]
  /\ stopAt' = [stopAt EXCEPT ![f] = "over"]
  /\ strayed' = (strayed \/ work[f] # NoOne \/ mode[f] = "recovering")
  /\ UNCHANGED <<Stored, alive, polling, Executing>>

CrashScheduler(f) ==
  /\ f \in alive /\ mode[f] # "idle"
  /\ alive' = alive \ {f}
  /\ mode' = [mode EXCEPT ![f] = "closed"] /\ stopAt' = [stopAt EXCEPT ![f] = "over"]
  /\ polling' = [polling EXCEPT ![f] = NotPolling]
  /\ Idles(f)
  /\ UNCHANGED <<Stored, holder, strayed>>

RunSteps(f) ==
  \/ CreateScheduledTask(f) \/ LinkTask(f) \/ LaunchRun(f) \/ PollCancellation(f)
  \/ ObserveRun(f) \/ FinishRun(f) \/ FailRun(f)

SchedulerSteps(f) ==
  \/ Own(f) \/ Recover(f) \/ EndTick(f) \/ FailTick(f)
  \/ AbortRuns(f) \/ ReleaseOwner(f)
  \/ \E i \in Schedules : VisitSchedule(f, i)

SchedulerNext ==
  \/ \E f \in Foregrounds : \/ StartScheduler(f) \/ ReadSchedules(f) \/ CallStop(f) \/ CrashScheduler(f)
                            \/ SchedulerSteps(f) \/ RunSteps(f) \/ EndRun(f)
  \/ \E i \in Schedules : \/ EditSchedule(i) \/ PauseSchedule(i) \/ ResumeSchedule(i)
                          \/ CancelScheduleRun(i) \/ ClockMoves(i)

\* A scheduler that lives goes on with what it awaits.  The poll fires every 100 ms.  A child
\* ends only once it was told to (process-runner kills it) or by its timeout, so it ends.
SchedulerFairness ==
  \A f \in Foregrounds :
    /\ WF_schedulerVars(SchedulerSteps(f)) /\ WF_schedulerVars(RunSteps(f)) /\ WF_schedulerVars(EndRun(f))

SchedulerSpec == SchedulerInit /\ [][SchedulerNext]_schedulerVars /\ SchedulerFairness

-----------------------------------------------------------------------------
SchedulerTypeOK ==
  /\ plan \in [Schedules -> ScheduleRecord] /\ lastRun \in [Schedules -> RunRecord]
  /\ strayed \in BOOLEAN /\ holder \in Foregrounds \union {NoOne} /\ alive \subseteq Foregrounds
  /\ mode \in [Foregrounds -> {"idle", "owning", "recovering", "started", "closed"}]
  /\ stopAt \in [Foregrounds -> {"no", "waiting", "draining", "failed", "over"}]
  /\ \A f \in Foregrounds : polling[f] \subseteq Schedules \/ polling[f] = NotPolling
  /\ work \in [Foregrounds -> Schedules \union {NoOne}] /\ place \in [Foregrounds -> Places]
  /\ aborting \in [Foregrounds -> BOOLEAN]
  /\ process \in [Foregrounds -> Ended \union {"none", "live"}]

\* A run that a living scheduler executes is recorded as its running run, and the
\* scheduler owns the project: no other one takes it for interrupted.
\* (Both loose ends of stop are left out: a poll that fails while stop waits for it, and a
\* recovery that stop does not wait for.)
ExecutedIsRecorded ==
  ~strayed => \A f \in alive : work[f] # NoOne =>
    /\ holder = f
    /\ Running(work[f]) /\ lastRun[work[f]].owner = f

\* A run that was asked to be cancelled ends as cancelled, whether the request is found by the
\* poll or only by finish, while its scheduler goes on.
CancelEnds ==
  \A f \in Foregrounds, i \in Schedules :
    Running(i) /\ lastRun[i].cancel /\ lastRun[i].owner = f
      ~> lastRun[i].state = "cancelled" \/ stopAt[f] = "over" \/ strayed
=============================================================================
