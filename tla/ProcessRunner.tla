---------------------------- MODULE ProcessRunner ----------------------------
(***************************************************************************)
(* runProviderProcess of runtime/process-runner.ts: one detached child and  *)
(* the processes it starts in its group, a timeout, an abort signal, a      *)
(* ceiling on output, and the escalation from SIGTERM to SIGKILL.           *)
(*                                                                         *)
(* The promise settles on "close", when the leader has exited and every     *)
(* holder of its pipes is gone, or on "error".  The variables are of one    *)
(* run; a signal that a process survives is a choice of that process.       *)
(***************************************************************************)
EXTENDS Naturals

CONSTANT OutputLimit   \* outputLimitBytes, in chunks

VARIABLES
  leader,       \* the spawned child: absent, alive, or exited
  helper,       \* a process of its group that holds the pipes
  aborted,      \* the AbortSignal
  timer,        \* the timeout: off, armed, or due
  escalation,   \* the grace period: off, armed, or over, with or without a kill
  chunks,       \* output received so far, up to one above the limit
  cause, outcome

runnerVars == <<leader, helper, aborted, timer, escalation, chunks, cause, outcome>>

Terminal(why) == CASE why = "none"      -> "exited"
                   [] why = "timeout"   -> "timed-out"
                   [] OTHER             -> why
Outcomes ==
  {"pending", "refused", "spawn-failed", "exited", "timed-out", "cancelled", "output-limit"}

RunnerInit ==
  /\ leader = "absent" /\ helper = "absent"
  /\ aborted = FALSE /\ timer = "off" /\ escalation = "off"
  /\ chunks = 0 /\ cause = "none" /\ outcome = "pending"

Unsettled == outcome = "pending" /\ leader # "absent"

\* A signal to the group.  terminateProcessTree sends none once the leader has exited.
\* (The variant signals the leader alone.)
SignalLeader(force) ==
  leader' \in IF leader = "alive" THEN IF force THEN {"exited"} ELSE {"alive", "exited"} ELSE {leader}

LeaderOnly(force) == SignalLeader(force) /\ UNCHANGED helper

TerminateTree(force) ==
  /\ SignalLeader(force)
  /\ helper' \in IF leader = "alive" /\ helper = "alive"
                 THEN IF force THEN {"gone"} ELSE {"alive", "gone"} ELSE {helper}

\* cancel(why): the first cause counts, later ones do nothing.
CancelRun(why) ==
  IF cause # "none" THEN UNCHANGED <<leader, helper, escalation, cause>>
  ELSE cause' = why /\ escalation' = "armed" /\ TerminateTree(FALSE)

\* The profile, the capability or the managed MCP runtime refuses; spawn may throw.
Refuse ==
  /\ leader = "absent" /\ outcome = "pending"
  /\ outcome' \in {"refused", "spawn-failed"}
  /\ UNCHANGED <<leader, helper, aborted, timer, escalation, chunks, cause>>

\* spawn, with listeners, with or without a timeout.
SpawnChild ==
  /\ leader = "absent" /\ outcome = "pending"
  /\ timer' \in {"off", "armed"}
  /\ IF aborted
     THEN /\ cause' = "cancelled" /\ escalation' = "armed" /\ leader' \in {"alive", "exited"}
     ELSE leader' = "alive" /\ UNCHANGED <<cause, escalation>>
  /\ UNCHANGED <<helper, aborted, chunks, outcome>>

\* The child starts a process that inherits its pipes.
StartHelper ==
  /\ leader = "alive" /\ helper = "absent" /\ helper' = "alive"
  /\ UNCHANGED <<leader, aborted, timer, escalation, chunks, cause, outcome>>

\* append
Output ==
  /\ Unsettled /\ "alive" \in {leader, helper} /\ chunks <= OutputLimit
  /\ chunks' = chunks + 1
  /\ IF chunks' > OutputLimit THEN CancelRun("output-limit")
     ELSE UNCHANGED <<leader, helper, escalation, cause>>
  /\ UNCHANGED <<aborted, timer, outcome>>

Timeout ==
  /\ Unsettled /\ timer = "armed" /\ timer' = "due"
  /\ CancelRun("timeout")
  /\ UNCHANGED <<aborted, chunks, outcome>>

Abort ==
  /\ ~aborted /\ outcome = "pending" /\ aborted' = TRUE
  /\ IF leader = "absent" THEN UNCHANGED <<leader, helper, escalation, cause>>
     ELSE CancelRun("cancelled")
  /\ UNCHANGED <<timer, chunks, outcome>>

\* The grace period ends.
Escalate ==
  /\ Unsettled /\ escalation = "armed" 
  /\ escalation' = IF leader = "alive" THEN "killed" ELSE "spent"
  /\ TerminateTree(TRUE)
  /\ UNCHANGED <<aborted, timer, chunks, cause, outcome>>

LeaderExits ==
  /\ leader = "alive" /\ leader' = "exited"
  /\ UNCHANGED <<helper, aborted, timer, escalation, chunks, cause, outcome>>

HelperExits ==
  /\ helper = "alive" /\ helper' = "gone"
  /\ UNCHANGED <<leader, aborted, timer, escalation, chunks, cause, outcome>>

\* "close": finish clears both timers.
Close ==
  /\ Unsettled /\ leader = "exited" /\ helper # "alive"
  /\ outcome' = Terminal(cause)
  /\ timer' = "off" /\ escalation' = "off"
  /\ UNCHANGED <<leader, helper, aborted, chunks, cause>>

RunnerNext == Refuse \/ SpawnChild \/ StartHelper \/ Output \/ Timeout \/ Abort \/ Escalate
              \/ LeaderExits \/ HelperExits \/ Close

\* Timers fire and events are delivered; no process is assumed to exit by itself.
RunnerFairness == WF_runnerVars(Close) /\ WF_runnerVars(Escalate) /\ WF_runnerVars(Timeout)

RunnerSpec == RunnerInit /\ [][RunnerNext]_runnerVars /\ RunnerFairness

-----------------------------------------------------------------------------
\* A run that was given a cause to stop settles with its whole group gone, although no process
\* of it exits by itself; unless the leader left within the grace period while a helper that
\* survived SIGTERM holds the pipes, which nothing ever kills.
LeftBehind == leader = "exited" /\ helper = "alive" /\ escalation # "killed"

StoppedSettles ==
  cause # "none" ~> (outcome \notin {"pending", "refused"} /\ helper # "alive") \/ LeftBehind
=============================================================================
