--------------------------- MODULE Execution_proofs ---------------------------
(***************************************************************************)
(* What works on a task, for any number of controllers, sessions,          *)
(* schedules, reviews, callers, files and crashes: one section per         *)
(* component, with its inductive invariant, the lemmas that its actions    *)
(* keep it, and what follows from it.                                      *)
(*                                                                         *)
(* Sessions: a run of a living controller holds the fence from its claim   *)
(* to its release, unless a cancellation cleared it, and a fence is        *)
(* cleared only for a controller that is gone (FenceHeld, ClearsOfDead).   *)
(* Scheduler: whoever is past own holds the project, and the run a         *)
(* scheduler executes is the one it claimed (OwnerHolds, ExecutesOwn).     *)
(* Reviews: the ledger's entries of living processes are the providers     *)
(* they run, and places that could not be given back (ReservedIsLaunched), *)
(* within the limit of one of them (WithinLimit). Workspaces: one caller   *)
(* at a time copies into a worktree, and nobody once it is inspected       *)
(* (OneCopier, InspectedAlone). Evaluations: the metrics and the gate look at the same *)
(* bytes. Managed tool: an asked controller counts as a committed one, for *)
(* its answer may come late (Named), and what an operation has reached     *)
(* under its lock says why no step of it leaves a record behind (Reached). *)
(***************************************************************************)
EXTENDS DirectSessions, Scheduler, Reviews, Workspaces, Evaluations, ManagedTool,
        FiniteSetTheorems, TLAPS

\* The types, with the functions' domains.
SavedSessions == [state : {"none", "launching", "running", "finished", "cancelled"},
                  pid : BOOLEAN, resumable : BOOLEAN]

\* Between its claim and its release a run of a living controller holds the fence, which only
\* a cancellation may have cleared under it.
Claiming == {"fenced", "owned", "saved", "running", "ended", "settling", "pausing", "closing",
             "releasing"}
HoldsFence(s) == at[s] \in Claiming /\ by[s] \in living
FenceHeld == taskState # "cancelled" => \A s \in Sessions : HoldsFence(s) => fence = s

\* A fence is cleared for a controller that is gone, and the action of a workflow excludes one.
ClearsOfDead ==
  \A s \in Sessions :
    /\ at[s] = "idle" => by[s] = NoSession /\ child[s] = "none"
    /\ fence = s => at[s] # "idle"
    /\ at[s] = "clearing" /\ target[s] # NoSession =>
         at[target[s]] # "idle" /\ by[target[s]] \notin living
ActingAlone == workflow = "acting" => fence = NoSession

\* The child of a living controller is the one its run waits for.
AwaitedChildren == \A s \in Sessions : ChildLive(s) /\ by[s] \in living => at[s] = "running"

\* A cancelled task stays cancelled: what would pause it has read an older revision.
PausesOwn ==
  \A s \in Sessions : at[s] = "pausing" /\ s \in current => taskState = "running" /\ taskOwner = s
CancelStands == cancelAt \in {"committed", "marking"} => taskState = "cancelled"

SessionsIInv ==
  SessionsTypeOK /\ FenceHeld /\ ClearsOfDead /\ ActingAlone /\ AwaitedChildren /\ PausesOwn
  /\ CancelStands

-----------------------------------------------------------------------------
USE SessionsAssumption

LEMMA SessionNumbers ==
  /\ NoSession \notin Sessions /\ Controllers \intersect MaybeSession = {}
  /\ Sessions \subseteq Nat
  BY DEF Sessions, NoSession, MaybeSession

\* The type invariant in parts, so that a step only looks at what it writes.
StoreTypes ==
  /\ living \subseteq Controllers /\ current \subseteq Sessions \union Controllers
  /\ taskState \in {"open", "running", "cancelled"}
  /\ taskOwner \in MaybeSession /\ fence \in MaybeSession
  /\ workflow \in {"none", "idle", "acting"}
SavedTypes == saved \in [Sessions -> SavedSessions]
MemoryTypes ==
  /\ child \in [Sessions -> {"none", "live", "gone"}]
  /\ signalled \in [Sessions -> BOOLEAN] /\ saving \in [Sessions -> BOOLEAN]
  /\ unsaved \in [Sessions -> BOOLEAN]
  /\ active \in [Controllers -> MaybeSession]
RunTypes ==
  /\ at \in [Sessions -> SessionPlaces] /\ by \in [Sessions -> Controllers \union {NoSession}]
  /\ of \in [Sessions -> MaybeSession] /\ target \in [Sessions -> MaybeSession]
CancelTypes == cancelAt \in CancelPlaces /\ reached \in MaybeSession

LEMMA SessionTypeParts ==
  SessionsTypeOK <=> StoreTypes /\ SavedTypes /\ MemoryTypes /\ RunTypes /\ CancelTypes
  BY DEF SessionsTypeOK, StoreTypes, SavedTypes, SavedSessions, MemoryTypes, RunTypes, CancelTypes

LEMMA SessionTypesStep ==
  ASSUME SessionsTypeOK, NEW s \in Sessions, SessionStep(s) PROVE SessionsTypeOK'
  <1>1. StoreTypes /\ SavedTypes /\ MemoryTypes /\ RunTypes /\ CancelTypes
    BY SessionTypeParts
  <1> USE SessionNumbers DEF MaybeSession, Moves, SessionRuns, Untouched, Store, Memory, Call,
        Cancelling
  <1>2. StoreTypes'
    BY <1>1 DEF StoreTypes, RunTypes, SessionStep, InspectFence, ClearFence, InspectTask,
                ClaimFence, OwnTask, SaveSession, LaunchChild, SavePid, ChildExits, ChildClosed,
                   FinishSession, SettleTask, PauseOwned, CloseSession, ReleaseFence, Cleared,
                      ReleasesOwn
  <1>3. SavedTypes'
    <2>0. ASSUME NEW r \in SavedSessions, saved' = [saved EXCEPT ![s] = r] PROVE SavedTypes'
      BY <2>0, <1>1 DEF SavedTypes
    <2> USE <1>1 DEF SavedTypes, MemoryTypes
    <2>3. CASE saved' = saved
      BY <2>3
    <2>1. CASE SaveSession(s)
      <3>1. (of[s] # NoSession) \in BOOLEAN
        OBVIOUS
      <3>2. [state |-> "launching", pid |-> FALSE, resumable |-> of[s] # NoSession] \in SavedSessions
        BY <3>1 DEF SavedSessions
      <3>3. saved' = saved \/ \E r \in SavedSessions : saved' = [saved EXCEPT ![s] = r]
        BY <2>1, <3>2, Zenon DEF SaveSession
      <3>4. QED BY <2>0, <2>3, <3>3
    <2>2. CASE SavePid(s)
      BY <2>2 DEF SavePid, SavedSessions
    <2>4. CASE FinishSession(s)
      <3>1. (child[s] # "none") \in BOOLEAN
        OBVIOUS
      <3>2. \A known \in {saved[s].resumable, TRUE} :
              [state |-> IF signalled[s] THEN "cancelled" ELSE "finished",
               pid |-> child[s] # "none", resumable |-> known] \in SavedSessions
        BY <3>1 DEF SavedSessions
      <3>3. saved' = saved \/ \E r \in SavedSessions : saved' = [saved EXCEPT ![s] = r]
        BY <2>4, <3>2, Zenon DEF FinishSession
      <3>4. QED BY <2>0, <2>3, <3>3
    <2>5. QED
      BY <2>1, <2>2, <2>3, <2>4 DEF SessionStep, InspectFence, ClearFence, InspectTask,
                                    ClaimFence, OwnTask, LaunchChild, ChildExits, ChildClosed,
                                       SettleTask, PauseOwned, CloseSession, ReleaseFence
  <1>4. MemoryTypes'
    <2>1. CASE UNCHANGED Memory
      BY <1>1, <2>1 DEF MemoryTypes
    <2>2. CASE SaveSession(s)
      <3>1. active' = active \/ active' = [active EXCEPT ![by[s]] = s]
        BY <2>2 DEF SaveSession
      <3>2. active' \in [Controllers -> MaybeSession]
        BY <1>1, <3>1 DEF MemoryTypes
      <3>3. QED BY <1>1, <2>2, <3>2 DEF SaveSession, MemoryTypes
    <2>3. CASE LaunchChild(s)
      BY <1>1, <2>3 DEF LaunchChild, MemoryTypes
    <2>4. CASE SavePid(s)
      BY <1>1, <2>4 DEF SavePid, MemoryTypes
    <2>5. CASE ChildExits(s)
      BY <1>1, <2>5 DEF ChildExits, MemoryTypes
    <2>6. CASE CloseSession(s)
      BY <1>1, <2>6 DEF CloseSession, MemoryTypes
    <2>7. QED
      BY <2>1, <2>2, <2>3, <2>4, <2>5, <2>6 DEF SessionStep, InspectFence, ClearFence,
                                                InspectTask, ClaimFence, OwnTask, ChildClosed,
                                                   FinishSession, SettleTask, PauseOwned,
                                                      ReleaseFence
  <1>5. RunTypes'
    <2>1. \E p \in SessionPlaces : at' = [at EXCEPT ![s] = p] \/ at' = at
      <3> USE DEF SessionPlaces
      <3>1. CASE InspectFence(s)
        BY <3>1 DEF InspectFence
      <3>2. CASE ClearFence(s)
        BY <3>2 DEF ClearFence
      <3>3. CASE InspectTask(s) \/ ClaimFence(s) \/ OwnTask(s)
        BY <3>3 DEF InspectTask, ClaimFence, OwnTask
      <3>4. CASE SaveSession(s) \/ LaunchChild(s) \/ SavePid(s) \/ ChildExits(s) \/ ChildClosed(s)
        BY <3>4 DEF SaveSession, LaunchChild, SavePid, ChildExits, ChildClosed
      <3>5. CASE FinishSession(s) \/ SettleTask(s) \/ PauseOwned(s) \/ CloseSession(s)
                 \/ ReleaseFence(s)
        BY <3>5 DEF FinishSession, SettleTask, PauseOwned, CloseSession, ReleaseFence
      <3>6. QED BY <3>1, <3>2, <3>3, <3>4, <3>5 DEF SessionStep
    <2>2. by' = by /\ of' \in [Sessions -> MaybeSession] /\ target' \in [Sessions -> MaybeSession]
      BY <1>1 DEF RunTypes, StoreTypes, SessionStep, InspectFence, ClearFence, InspectTask,
                  ClaimFence, OwnTask, SaveSession, LaunchChild, SavePid, ChildExits,
                     ChildClosed, FinishSession, SettleTask, PauseOwned, CloseSession,
                        ReleaseFence, Cleared, ReleasesOwn
    <2>3. QED BY <1>1, <2>1, <2>2 DEF RunTypes
  <1>6. CancelTypes'
    BY <1>1 DEF CancelTypes, SessionStep, InspectFence, ClearFence, InspectTask, ClaimFence,
                OwnTask, SaveSession, LaunchChild, SavePid, ChildExits, ChildClosed,
                   FinishSession, SettleTask, PauseOwned, CloseSession, ReleaseFence, Cleared,
                      ReleasesOwn
  <1>7. SessionsTypeOK'
    <2>1. (StoreTypes /\ SavedTypes /\ MemoryTypes /\ RunTypes /\ CancelTypes)'
      BY <1>2, <1>3, <1>4, <1>5, <1>6
    <2>2. QED BY <2>1, SessionTypeParts, PTL
  <1>8. QED BY <1>7

LEMMA SessionTypesOther ==
  ASSUME SessionsTypeOK,
         \/ \E s \in Sessions : ObserveTermination(s)
         \/ \E c \in Controllers, s \in Sessions : StartSession(c, s)
         \/ \E c \in Controllers, s, old \in Sessions : ResumeSession(c, s, old)
         \/ \E c \in Controllers : CallCancel(c) \/ ControllerCrash(c)
         \/ CancelSteps \/ WorkflowMoves
  PROVE  SessionsTypeOK'
  <1> USE SessionNumbers DEF MaybeSession, Moves, Store, Memory, Call, Cancelling, CancelStep
  <1>0. StoreTypes /\ SavedTypes /\ MemoryTypes /\ RunTypes /\ CancelTypes
    BY SessionTypeParts
  <1>1. SUFFICES (StoreTypes /\ SavedTypes /\ MemoryTypes /\ RunTypes /\ CancelTypes)'
    BY SessionTypeParts, PTL
  <1> USE <1>0
  <1>2. CASE \E s \in Sessions : ObserveTermination(s)
    BY <1>2 DEF ObserveTermination, StoreTypes, SavedTypes, MemoryTypes, RunTypes, CancelTypes
  <1>3. CASE \E c \in Controllers, s \in Sessions : StartSession(c, s)
    BY <1>3 DEF StartSession, StoreTypes, SavedTypes, MemoryTypes, RunTypes, CancelTypes,
       SessionPlaces
  <1>4. CASE \E c \in Controllers, s, old \in Sessions : ResumeSession(c, s, old)
    BY <1>4 DEF ResumeSession, StoreTypes, SavedTypes, MemoryTypes, RunTypes, CancelTypes,
       SessionPlaces
  <1>5. CASE \E c \in Controllers : CallCancel(c)
    BY <1>5 DEF CallCancel, StoreTypes, SavedTypes, MemoryTypes, RunTypes, CancelTypes,
       CancelPlaces
  <1>6. CASE WorkflowMoves
    BY <1>6 DEF WorkflowMoves, StoreTypes, SavedTypes, MemoryTypes, RunTypes, CancelTypes
  <1>7. ASSUME NEW c \in Controllers, ControllerCrash(c)
        PROVE  (StoreTypes /\ SavedTypes /\ MemoryTypes /\ RunTypes /\ CancelTypes)'
    <2>1. StoreTypes' /\ SavedTypes' /\ CancelTypes'
      BY <1>7 DEF ControllerCrash, StoreTypes, SavedTypes, CancelTypes
    <2>2. RunTypes'
      BY <1>7 DEF ControllerCrash, RunTypes, SessionPlaces
    <2>3. MemoryTypes'
      BY <1>7 DEF ControllerCrash, MemoryTypes
    <2>4. QED BY <2>1, <2>2, <2>3
  <1>8. ASSUME CancelSteps
        PROVE  (StoreTypes /\ SavedTypes /\ MemoryTypes /\ RunTypes /\ CancelTypes)'
    <2> USE <1>8 DEF CancelSteps, InspectToCancel, CommitCancel, RefuseCancel, ClearCancelled,
          MarkCancelled
    <2>1. CancelTypes' /\ RunTypes'
      BY DEF CancelTypes, CancelPlaces, RunTypes
    <2>2. MemoryTypes'
      <3>1. \A s \in Sessions : signalled'[s] \in BOOLEAN
        BY DEF MemoryTypes
      <3>2. signalled' = signalled \/ signalled' = [s \in Sessions |-> signalled[s] \/ s = reached]
        OBVIOUS
      <3>3. child' = child /\ saving' = saving /\ unsaved' = unsaved /\ active' = active
        OBVIOUS
      <3>4. QED BY <3>1, <3>2, <3>3 DEF MemoryTypes
    <2>3. StoreTypes'
      BY DEF StoreTypes
    <2>4. SavedTypes'
      BY DEF SavedTypes, SavedSessions
    <2>5. QED BY <2>1, <2>2, <2>3, <2>4
  <1>9. QED BY <1>2, <1>3, <1>4, <1>5, <1>6, <1>7, <1>8

LEMMA SessionsTypes == SessionsTypeOK /\ [SessionsNext]_sessionVars => SessionsTypeOK'
  <1>1. SessionsTypeOK /\ SessionsNext => SessionsTypeOK'
    BY SessionTypesStep, SessionTypesOther DEF SessionsNext
  <1>2. SessionsTypeOK /\ UNCHANGED sessionVars => SessionsTypeOK'
    BY DEF SessionsTypeOK, sessionVars, Store, Memory, Call, Cancelling
  <1>3. QED BY <1>1, <1>2

LEMMA InitSessions == SessionsInit => SessionsIInv
  <1> SUFFICES ASSUME SessionsInit PROVE SessionsIInv
    OBVIOUS
  <1> USE SessionNumbers DEF SessionsInit, Unknown
  <1>1. SessionsTypeOK
    BY DEF SessionsTypeOK, SessionPlaces, CancelPlaces, MaybeSession
  <1>2. \A s \in Sessions : by[s] \notin living
    BY DEF MaybeSession
  <1>3. QED
    BY <1>1, <1>2 DEF SessionsIInv, FenceHeld, HoldsFence, ClearsOfDead, ActingAlone,
       AwaitedChildren, ChildLive, PausesOwn, CancelStands

\* A run that goes on, and clears no fence, disturbs no clearing.
LEMMA GoingOnClears ==
  ASSUME SessionsTypeOK, ClearsOfDead, NEW s \in Sessions, at[s] # "idle",
         NEW p \in SessionPlaces \ {"idle", "clearing"}, at' = [at EXCEPT ![s] = p],
         UNCHANGED <<living, by, target>>, fence' \in {fence, s, NoSession},
         \A r \in Sessions : child'[r] = child[r] \/ r = s
  PROVE  ClearsOfDead'
  <1>1. at \in [Sessions -> SessionPlaces] /\ target \in [Sessions -> MaybeSession]
        /\ fence \in MaybeSession
    BY DEF SessionsTypeOK
  <1>2. QED BY <1>1, SessionNumbers DEF ClearsOfDead, SessionPlaces, MaybeSession

LEMMA SessionsStep == SessionsIInv /\ [SessionsNext]_sessionVars => SessionsIInv'
  <1> SUFFICES ASSUME SessionsIInv, [SessionsNext]_sessionVars PROVE SessionsIInv'
    OBVIOUS
  <1>0. SessionsTypeOK'
    BY SessionsTypes DEF SessionsIInv
  <1> USE <1>0, SessionNumbers DEF SessionsIInv, Moves, SessionRuns, Untouched, Store, Memory,
                                   Call, Cancelling,
        FenceHeld, HoldsFence, ClearsOfDead, ActingAlone, AwaitedChildren, ChildLive, PausesOwn,
        CancelStands, MaybeSession
  <1>1. CASE UNCHANGED sessionVars
    BY <1>1 DEF sessionVars
  <1>2. ASSUME NEW s \in Sessions, SessionStep(s) PROVE SessionsIInv'
    <2>0. at \in [Sessions -> SessionPlaces] /\ target \in [Sessions -> MaybeSession]
          /\ fence \in MaybeSession
      BY DEF SessionsTypeOK
    <2> USE DEF SessionsTypeOK
    <2>1. CASE InspectFence(s)
      <3> USE <2>1 DEF InspectFence, MayBeActive, FenceOwnerLive
      <3>1. FenceHeld'
        <4>1. at'[s] \notin Claiming /\ \A t \in Sessions : t # s => at'[t] = at[t]
          BY DEF Claiming
        <4>2. FenceHeld /\ UNCHANGED <<by, living, fence, taskState>>
          BY <1>0
        <4>3. QED BY ONLY <4>1, <4>2 DEF FenceHeld, HoldsFence
      <3>2. ClearsOfDead'
        <4>1. CASE at'[s] = "clearing"
          <5>1. fence # NoSession /\ by[fence] \notin living
            BY <4>1
          <5>2. fence \in Sessions /\ at[fence] # "idle"
            BY <5>1
          <5>3. target' = [target EXCEPT ![s] = fence] /\ at' = [at EXCEPT ![s] = "clearing"]
            <6>1. at' = [at EXCEPT ![s] = "clearing"]
              BY ONLY <2>0, <2>1, <5>1, <4>1, s \in Sessions
              DEF InspectFence, MayBeActive, FenceOwnerLive, Moves
            <6>2. QED BY ONLY <2>1, <4>1, <6>1 DEF InspectFence
          <5>4. UNCHANGED <<living, by, fence, child>>
            OBVIOUS
          <5>5. at[s] = "read"
            OBVIOUS
          <5>6. SUFFICES ASSUME NEW r \in Sessions
                PROVE  /\ at'[r] = "idle" => by[r] = NoSession /\ child[r] = "none"
                       /\ fence = r => at'[r] # "idle"
                       /\ at'[r] = "clearing" /\ target'[r] # NoSession =>
                            at'[target'[r]] # "idle" /\ by[target'[r]] \notin living
            BY <5>4
          <5>7. CASE r = s
            BY ONLY <2>0, <5>1, <5>2, <5>3, <5>5, <5>7, s \in Sessions
          <5>8. CASE r # s
            BY ONLY <2>0, <5>3, <5>5, <5>8, s \in Sessions, r \in Sessions, ClearsOfDead
               DEF ClearsOfDead, MaybeSession
          <5>9. QED BY <5>7, <5>8
        <4>2. CASE at'[s] # "clearing"
          BY <4>2
        <4>3. QED BY <4>1, <4>2
      <3>3. ActingAlone' /\ CancelStands'
        OBVIOUS
      <3>4. AwaitedChildren'
        OBVIOUS
      <3>5. PausesOwn'
        OBVIOUS
      <3>6. QED BY <3>1, <3>2, <3>3, <3>4, <3>5
    <2>2. CASE ClearFence(s)
      BY <2>2 DEF ClearFence, Cleared, Claiming
    <2>3. CASE InspectTask(s)
      BY <2>3 DEF InspectTask, Claiming
    <2>4. CASE ClaimFence(s)
      <3> USE <2>4 DEF ClaimFence, Claimable
      <3>1. FenceHeld'
        BY DEF Claiming
      <3>2. ClearsOfDead'
        <4>1. \E p \in SessionPlaces \ {"idle", "clearing"} : at' = [at EXCEPT ![s] = p]
          BY DEF SessionPlaces
        <4>2. ClearsOfDead /\ UNCHANGED <<living, by, target>> /\ fence' \in {fence, s, NoSession}
              /\ \A r \in Sessions : child'[r] = child[r] \/ r = s
          OBVIOUS
        <4>3. QED BY <4>1, <4>2, GoingOnClears
      <3>3. ActingAlone' /\ CancelStands'
        OBVIOUS
      <3>4. AwaitedChildren'
        OBVIOUS
      <3>5. PausesOwn'
        OBVIOUS
      <3>6. QED BY <3>1, <3>2, <3>3, <3>4, <3>5
    <2>5. CASE OwnTask(s)
      <3> USE <2>5 DEF OwnTask, Takeable
      <3>1. FenceHeld'
        <4>1. \E p \in {"owned", "releasing"} : at' = [at EXCEPT ![s] = p]
          OBVIOUS
        <4>2. taskState # "cancelled" => fence = s
          BY DEF Claiming
        <4>3. taskState' # "cancelled" => taskState # "cancelled"
          OBVIOUS
        <4>4. UNCHANGED <<living, by, fence>> /\ FenceHeld
          OBVIOUS
        <4>5. QED BY ONLY <2>0, <4>1, <4>2, <4>3, <4>4, s \in Sessions
        DEF FenceHeld, HoldsFence, Claiming
      <3>2. ClearsOfDead'
        <4>1. \E p \in SessionPlaces \ {"idle", "clearing"} : at' = [at EXCEPT ![s] = p]
          BY DEF SessionPlaces
        <4>2. ClearsOfDead /\ UNCHANGED <<living, by, target>> /\ fence' \in {fence, s, NoSession}
              /\ \A r \in Sessions : child'[r] = child[r] \/ r = s
          OBVIOUS
        <4>3. QED BY <4>1, <4>2, GoingOnClears
      <3>3. ActingAlone' /\ CancelStands'
        OBVIOUS
      <3>4. AwaitedChildren'
        OBVIOUS
      <3>5. PausesOwn'
        OBVIOUS
      <3>6. QED BY <3>1, <3>2, <3>3, <3>4, <3>5
    <2>6. CASE SaveSession(s)
      <3> USE <2>6 DEF SaveSession
      <3>1. FenceHeld'
        BY DEF Claiming
      <3>2. ClearsOfDead'
        <4>1. \E p \in SessionPlaces \ {"idle", "clearing"} : at' = [at EXCEPT ![s] = p]
          BY DEF SessionPlaces
        <4>2. ClearsOfDead /\ UNCHANGED <<living, by, target>> /\ fence' \in {fence, s, NoSession}
              /\ \A r \in Sessions : child'[r] = child[r] \/ r = s
          OBVIOUS
        <4>3. QED BY <4>1, <4>2, GoingOnClears
      <3>3. ActingAlone' /\ CancelStands'
        OBVIOUS
      <3>4. AwaitedChildren'
        OBVIOUS
      <3>5. PausesOwn'
        OBVIOUS
      <3>6. QED BY <3>1, <3>2, <3>3, <3>4, <3>5
    <2>7. CASE LaunchChild(s)
      <3> USE <2>7 DEF LaunchChild
      <3>1. FenceHeld'
        BY DEF Claiming
      <3>2. ClearsOfDead'
        <4>1. \E p \in SessionPlaces \ {"idle", "clearing"} : at' = [at EXCEPT ![s] = p]
          BY DEF SessionPlaces
        <4>2. ClearsOfDead /\ UNCHANGED <<living, by, target>> /\ fence' \in {fence, s, NoSession}
              /\ \A r \in Sessions : child'[r] = child[r] \/ r = s
          OBVIOUS
        <4>3. QED BY <4>1, <4>2, GoingOnClears
      <3>3. ActingAlone' /\ CancelStands'
        OBVIOUS
      <3>4. AwaitedChildren'
        OBVIOUS
      <3>5. PausesOwn'
        OBVIOUS
      <3>6. QED BY <3>1, <3>2, <3>3, <3>4, <3>5
    <2>8. CASE SavePid(s)
      BY <2>8 DEF SavePid
    <2>9. CASE ChildExits(s)
      BY <2>9 DEF ChildExits
    <2>10. CASE ChildClosed(s)
      BY <2>10 DEF ChildClosed, Claiming
    <2>11. CASE FinishSession(s)
      <3> USE <2>11 DEF FinishSession
      <3>1. FenceHeld'
        BY DEF Claiming
      <3>2. ClearsOfDead'
        <4>1. \E p \in SessionPlaces \ {"idle", "clearing"} : at' = [at EXCEPT ![s] = p]
          BY DEF SessionPlaces
        <4>2. ClearsOfDead /\ UNCHANGED <<living, by, target>> /\ fence' \in {fence, s, NoSession}
              /\ \A r \in Sessions : child'[r] = child[r] \/ r = s
          OBVIOUS
        <4>3. QED BY <4>1, <4>2, GoingOnClears
      <3>3. ActingAlone' /\ CancelStands'
        OBVIOUS
      <3>4. AwaitedChildren'
        OBVIOUS
      <3>5. PausesOwn'
        OBVIOUS
      <3>6. QED BY <3>1, <3>2, <3>3, <3>4, <3>5
    <2>12. CASE SettleTask(s)
      <3> USE <2>12 DEF SettleTask
      <3>1. FenceHeld'
        BY DEF Claiming
      <3>2. ClearsOfDead'
        <4>1. \E p \in SessionPlaces \ {"idle", "clearing"} : at' = [at EXCEPT ![s] = p]
          BY DEF SessionPlaces
        <4>2. ClearsOfDead /\ UNCHANGED <<living, by, target>> /\ fence' \in {fence, s, NoSession}
              /\ \A r \in Sessions : child'[r] = child[r] \/ r = s
          OBVIOUS
        <4>3. QED BY <4>1, <4>2, GoingOnClears
      <3>3. ActingAlone' /\ CancelStands'
        OBVIOUS
      <3>4. AwaitedChildren'
        OBVIOUS
      <3>5. PausesOwn'
        OBVIOUS
      <3>6. QED BY <3>1, <3>2, <3>3, <3>4, <3>5
    <2>13. CASE PauseOwned(s)
      BY <2>13 DEF PauseOwned, Claiming
    <2>14. CASE CloseSession(s)
      BY <2>14 DEF CloseSession, Claiming
    <2>15. CASE ReleaseFence(s)
      <3> USE <2>15 DEF ReleaseFence
      <3>0. PICK p \in {"over", "kept"} : at' = [at EXCEPT ![s] = p]
        OBVIOUS
      <3>a. fence' = fence \/ (fence = s /\ fence' = NoSession)
        BY DEF ReleasesOwn, Cleared
      <3>b. at[s] = "releasing" /\ UNCHANGED <<living, by, target, child>>
        OBVIOUS
      <3>1. FenceHeld'
        BY <3>0, <3>a DEF ReleasesOwn, Cleared, Claiming
      <3>2. ClearsOfDead'
        BY <3>0, <3>a, <3>b, GoingOnClears DEF SessionPlaces
      <3>3. ActingAlone' /\ CancelStands'
        BY <3>0, <3>a
      <3>4. AwaitedChildren'
        BY <3>0
      <3>5. PausesOwn'
        BY <3>0
      <3>6. QED BY <3>1, <3>2, <3>3, <3>4, <3>5
    <2>16. QED
      BY <1>2, <2>1, <2>2, <2>3, <2>4, <2>5, <2>6, <2>7, <2>8, <2>9, <2>10, <2>11, <2>12, <2>13,
         <2>14, <2>15 DEF SessionStep
  <1>3. ASSUME NEW s \in Sessions, ObserveTermination(s) PROVE SessionsIInv'
    BY <1>3 DEF ObserveTermination
  <1>4. ASSUME NEW c \in Controllers, NEW s \in Sessions, StartSession(c, s) PROVE SessionsIInv'
    BY <1>4 DEF StartSession, Claiming, SessionsTypeOK, Unused
  <1>5. ASSUME NEW c \in Controllers, NEW s \in Sessions, NEW old \in Sessions,
               ResumeSession(c, s, old)
        PROVE  SessionsIInv'
    BY <1>5 DEF ResumeSession, Claiming, SessionsTypeOK, Unused
  <1>6. ASSUME NEW c \in Controllers, CallCancel(c) PROVE SessionsIInv'
    BY <1>6 DEF CallCancel, SessionsTypeOK
  <1>7. ASSUME NEW c \in Controllers, ControllerCrash(c) PROVE SessionsIInv'
    BY <1>7 DEF ControllerCrash, Claiming, SessionsTypeOK
  <1>8. CASE CancelSteps
    BY <1>8 DEF CancelSteps, CancelStep, InspectToCancel, CommitCancel, RefuseCancel,
                ClearCancelled, MarkCancelled,
       SessionsTypeOK
  <1>9. CASE WorkflowMoves
    BY <1>9 DEF WorkflowMoves
  <1>10. QED BY <1>1, <1>2, <1>3, <1>4, <1>5, <1>6, <1>7, <1>8, <1>9 DEF SessionsNext

\* The inductive invariant, for any number of controllers and sessions (runtime/execution-
\* fence.ts, task-controller.ts).
THEOREM SessionsInvariant == SessionsSpec => []SessionsIInv
  BY InitSessions, SessionsStep, PTL DEF SessionsSpec

\* Whichever controllers die, and however late a save or a signal is: until the task is
\* cancelled, at most one provider process of it has a living owner, and none while a workflow
\* acts on it (claimExecutionFence, TaskController.run, resume and cancel).
THEOREM OneProviderAlways == SessionsSpec => []OneProvider
  <1>1. SessionsIInv => OneProvider
    <2> SUFFICES ASSUME SessionsIInv, taskState # "cancelled" PROVE
            Cardinality(OwnedChildren) <= 1 /\ (workflow = "acting" => OwnedChildren = {})
      BY DEF OneProvider
    <2>1. OwnedChildren \subseteq {fence} \intersect Sessions
      BY DEF OwnedChildren, SessionsIInv, FenceHeld, HoldsFence, AwaitedChildren, Claiming
    <2>2. Cardinality(OwnedChildren) <= Cardinality({fence})
      BY <2>1, FS_Singleton, FS_Subset
    <2>3. Cardinality({fence}) = 1
      BY FS_Singleton
    <2>4. Cardinality(OwnedChildren) \in Nat
      BY <2>1, FS_Singleton, FS_Subset, FS_CardinalityType
    <2>5. workflow = "acting" => OwnedChildren = {}
      BY <2>1, SessionNumbers DEF SessionsIInv, ActingAlone
    <2>6. QED BY <2>2, <2>3, <2>4, <2>5
  <1>2. QED BY <1>1, SessionsInvariant, PTL

LEMMA SessionTypesKept == SessionsIInv => SessionsTypeOK
  BY DEF SessionsIInv

\* The types of the sessions.
THEOREM SessionTypes == SessionsSpec => []SessionsTypeOK
  BY SessionTypesKept, SessionsInvariant, PTL

HIDE SessionsAssumption

-----------------------------------------------------------------------------
\* The type invariant in parts.
PlanTypes ==
  /\ plan \in [Schedules -> ScheduleRecord]
  /\ \A i \in Schedules : plan[i].when # "ahead" => plan[i].claims < MaxClaims
LastRunTypes == lastRun \in [Schedules -> RunRecord]
OwnerTypes ==
  /\ strayed \in BOOLEAN /\ holder \in Foregrounds \union {NoOne} /\ alive \subseteq Foregrounds
  /\ mode \in [Foregrounds -> {"idle", "owning", "recovering", "started", "closed"}]
  /\ stopAt \in [Foregrounds -> {"no", "waiting", "draining", "failed", "over"}]
PollTypes == polling \in [Foregrounds -> (SUBSET Schedules) \union {NotPolling}]
WorkTypes ==
  /\ work \in [Foregrounds -> Schedules \union {NoOne}] /\ place \in [Foregrounds -> Places]
  /\ aborting \in [Foregrounds -> BOOLEAN]
  /\ process \in [Foregrounds -> Ended \union {"none", "live"}]
  /\ \A f \in Foregrounds :
       /\ place[f] # "none" => work[f] # NoOne
       /\ place[f] = "waiting" => process[f] # "none"
       /\ place[f] = "finishing" => process[f] \in Ended

\* A scheduler polls only while it is started, and stop waits for its poll.
PollsStarted ==
  \A f \in Foregrounds : Polls(f) => mode[f] = "started" /\ stopAt[f] \in {"no", "waiting"}

\* Until an owner lets go too early, whoever is past own holds the project ...
OwnerHolds == ~strayed => \A f \in alive : mode[f] \in {"recovering", "started"} => holder = f

\* ... and the run a scheduler executes is the one it claimed, with nobody recovering.
Executed(f) ==
  mode[f] = "started" /\ Running(work[f]) /\ lastRun[work[f]].owner = f
ExecutesOwn == ~strayed => \A f \in alive : work[f] # NoOne => Executed(f)

SchedulerIInv ==
  /\ PlanTypes /\ LastRunTypes /\ OwnerTypes /\ PollTypes /\ WorkTypes
  /\ PollsStarted /\ OwnerHolds /\ ExecutesOwn

-----------------------------------------------------------------------------
USE SchedulerAssumption

\* Actions that neither start nor end a run, a poll or an ownership.
LEMMA SchedulerQuiet ==
  ASSUME SchedulerIInv,
         UNCHANGED <<holder, alive, mode, polling, work, strayed>>,
         \A i \in Schedules : lastRun'[i].state = lastRun[i].state
                              /\ lastRun'[i].owner = lastRun[i].owner,
         \A f \in Foregrounds : Polls(f) => stopAt'[f] \in {"no", "waiting"},
         (PlanTypes /\ LastRunTypes /\ OwnerTypes /\ PollTypes /\ WorkTypes)'
  PROVE  SchedulerIInv'
  BY DEF SchedulerIInv, PlanTypes, LastRunTypes, OwnerTypes, PollTypes, WorkTypes, PollsStarted,
         OwnerHolds, ExecutesOwn, Executed, Polls, Running

LEMMA SchedulerTypeParts ==
  PlanTypes /\ LastRunTypes /\ OwnerTypes /\ PollTypes /\ WorkTypes => SchedulerTypeOK
  <1> SUFFICES ASSUME PlanTypes, LastRunTypes, OwnerTypes, PollTypes, WorkTypes PROVE SchedulerTypeOK
    OBVIOUS
  <1>1. \A f \in Foregrounds : polling[f] \subseteq Schedules \/ polling[f] = NotPolling
    <2> SUFFICES ASSUME NEW f \in Foregrounds
                 PROVE  polling[f] \subseteq Schedules \/ polling[f] = NotPolling
      OBVIOUS
    <2>1. polling[f] \in (SUBSET Schedules) \union {NotPolling}
      BY DEF PollTypes
    <2>2. QED BY <2>1
  <1>2. QED BY <1>1 DEF SchedulerTypeOK, PlanTypes, LastRunTypes, OwnerTypes, WorkTypes

LEMMA FinishedTypes ==
  ASSUME PlanTypes, LastRunTypes, WorkTypes, NEW f \in Foregrounds, work[f] \in Schedules,
         NEW status \in Ended, Finished(f, status)
  PROVE  PlanTypes' /\ LastRunTypes'
  <1>1. Outcome(f, IF aborting[f] THEN "cancelled" ELSE status) \in ScheduledStates
    BY DEF Outcome, ByProcess, ScheduledStates, Ended
  <1>2. CASE UNCHANGED Stored
    BY <1>2 DEF Stored, PlanTypes, LastRunTypes
  <1>3. CASE \E s \in ScheduledStates :
               /\ lastRun' = [lastRun EXCEPT ![work[f]].state = s]
               /\ plan' = [plan EXCEPT ![work[f]].enabled = @ /\ s \notin {"blocked", "failed"}]
    <2>1. PICK s \in ScheduledStates :
            /\ lastRun' = [lastRun EXCEPT ![work[f]].state = s]
            /\ plan' = [plan EXCEPT ![work[f]].enabled = @ /\ s \notin {"blocked", "failed"}]
      BY <1>3
    <2>2. LastRunTypes'
      BY <2>1 DEF LastRunTypes, RunRecord
    <2>3. \E b \in BOOLEAN : plan' = [plan EXCEPT ![work[f]].enabled = b]
      <3>1. (plan[work[f]].enabled /\ s \notin {"blocked", "failed"}) \in BOOLEAN
        OBVIOUS
      <3>2. QED BY <2>1, <3>1, Zenon
    <2>4. QED BY <2>2, <2>3 DEF PlanTypes, ScheduleRecord
  <1>4. QED
    BY <1>1, <1>2, <1>3 DEF Finished

LEMMA SchedulerTypes ==
  ASSUME PlanTypes, LastRunTypes, OwnerTypes, PollTypes, WorkTypes, [SchedulerNext]_schedulerVars
  PROVE  PlanTypes' /\ LastRunTypes' /\ OwnerTypes' /\ PollTypes' /\ WorkTypes'
  <1> USE DEF Stored, Executing, NotPolling, At
  <1>1. CASE UNCHANGED schedulerVars
    BY <1>1 DEF schedulerVars, PlanTypes, LastRunTypes, OwnerTypes, PollTypes, WorkTypes
  <1>2. ASSUME NEW i \in Schedules,
               EditSchedule(i) \/ PauseSchedule(i) \/ ResumeSchedule(i) \/ CancelScheduleRun(i)
                 \/ ClockMoves(i)
        PROVE  PlanTypes' /\ LastRunTypes' /\ OwnerTypes' /\ PollTypes' /\ WorkTypes'
    <2> USE <1>2 DEF EditSchedule, PauseSchedule, ResumeSchedule, CancelScheduleRun, ClockMoves
    <2>1. OwnerTypes' /\ PollTypes' /\ WorkTypes'
      BY DEF OwnerTypes, PollTypes, WorkTypes
    <2>2. LastRunTypes'
      BY DEF LastRunTypes, RunRecord
    <2>3. PlanTypes'
      <3>1. CASE plan' = plan
        BY <3>1 DEF PlanTypes
      <3>0. plan[i] \in ScheduleRecord
        BY DEF PlanTypes
      <3>2. CASE EditSchedule(i)
        <4>1. PICK flag \in BOOLEAN :
                plan' = [plan EXCEPT ![i] = [@ EXCEPT !.authorized = flag, !.when = "ahead"]]
          BY <3>2
        <4>2. [plan[i] EXCEPT !.authorized = flag, !.when = "ahead"] \in ScheduleRecord
          BY <3>0 DEF ScheduleRecord
        <4>3. QED BY ONLY <4>1, <4>2, PlanTypes, i \in Schedules DEF PlanTypes
      <3>3. CASE PauseSchedule(i)
        <4>1. [plan[i] EXCEPT !.enabled = FALSE] \in ScheduleRecord
          BY <3>0 DEF ScheduleRecord
        <4>2. QED BY ONLY <3>3, <4>1, PlanTypes, i \in Schedules DEF PlanTypes, PauseSchedule
      <3>6. CASE ResumeSchedule(i)
        <4>1. [plan[i] EXCEPT !.enabled = TRUE, !.when = "ahead"] \in ScheduleRecord
          BY <3>0 DEF ScheduleRecord
        <4>2. QED BY ONLY <3>6, <4>1, PlanTypes, i \in Schedules DEF PlanTypes, ResumeSchedule
      <3>4. CASE ClockMoves(i)
        BY <3>4 DEF PlanTypes, ScheduleRecord
      <3>5. QED BY <1>2, <3>1, <3>2, <3>3, <3>4, <3>6
    <2>4. QED BY <2>1, <2>2, <2>3
  <1>3. ASSUME NEW f \in Foregrounds, StartScheduler(f) \/ ReadSchedules(f) \/ CallStop(f)
                 \/ CrashScheduler(f) \/ Own(f) \/ EndTick(f) \/ FailTick(f) \/ AbortRuns(f)
                 \/ ReleaseOwner(f)
        PROVE  PlanTypes' /\ LastRunTypes' /\ OwnerTypes' /\ PollTypes' /\ WorkTypes'
    <2> USE <1>3 DEF StartScheduler, ReadSchedules, CallStop, CrashScheduler, Own, EndTick,
                     FailTick,
          AbortRuns, ReleaseOwner, Idles
    <2>1. PlanTypes' /\ LastRunTypes'
      BY DEF PlanTypes, LastRunTypes
    <2>2. PollTypes'
      <3>1. CASE ReadSchedules(f)
        <4>1. {i \in Schedules : plan[i].enabled /\ plan[i].when # "ahead"} \in SUBSET Schedules
          OBVIOUS
        <4>2. QED BY ONLY <3>1, <4>1, PollTypes, f \in Foregrounds DEF ReadSchedules, PollTypes
      <3>2. CASE ~ReadSchedules(f)
        BY <3>2 DEF PollTypes
      <3>3. QED BY <3>1, <3>2
    <2>3. WorkTypes'
      <3>1. work' \in [Foregrounds -> Schedules \union {NoOne}] /\ place' \in [Foregrounds -> Places]
            /\ process' \in [Foregrounds -> Ended \union {"none", "live"}]
        BY DEF WorkTypes, Places
      <3>2. aborting' = aborting \/ \E b \in BOOLEAN : aborting' = [aborting EXCEPT ![f] = b]
        OBVIOUS
      <3>3. \A g \in Foregrounds : /\ place'[g] # "none" => work'[g] # NoOne
                                   /\ place'[g] = "waiting" => process'[g] # "none"
                                   /\ place'[g] = "finishing" => process'[g] \in Ended
        BY DEF WorkTypes
      <3>4. QED BY <3>1, <3>2, <3>3 DEF WorkTypes
    <2>4. OwnerTypes'
      <3>1. mode' \in [Foregrounds -> {"idle", "owning", "recovering", "started", "closed"}]
        BY DEF OwnerTypes
      <3>2. stopAt' \in [Foregrounds -> {"no", "waiting", "draining", "failed", "over"}]
        BY DEF OwnerTypes
      <3>3. holder' \in Foregrounds \union {NoOne} /\ alive' \subseteq Foregrounds
        BY DEF OwnerTypes
      <3>4. strayed' = strayed \/ strayed' = (strayed \/ work[f] # NoOne \/ mode[f] = "recovering")
        OBVIOUS
      <3>5. QED BY <3>1, <3>2, <3>3, <3>4 DEF OwnerTypes
    <2>5. QED BY <2>1, <2>2, <2>3, <2>4
  <1>5. ASSUME NEW f \in Foregrounds, Recover(f)
        PROVE  PlanTypes' /\ LastRunTypes' /\ OwnerTypes' /\ PollTypes' /\ WorkTypes'
    <2>1. OwnerTypes' /\ PollTypes' /\ WorkTypes'
      BY <1>5 DEF Recover, OwnerTypes, PollTypes, WorkTypes
    <2>2. LastRunTypes'
      BY <1>5 DEF Recover, LastRunTypes, RunRecord, ScheduledStates
    <2>3. ASSUME NEW i \in Schedules PROVE plan'[i] \in ScheduleRecord
      <3>1. (plan[i].enabled /\ ~Running(i)) \in BOOLEAN /\ (plan[i].interrupted \/ Running(i)) \in BOOLEAN
        OBVIOUS
      <3>2. plan'[i] = [plan[i] EXCEPT !.enabled = plan[i].enabled /\ ~Running(i),
                          !.interrupted = plan[i].interrupted \/ Running(i), !.when = "ahead"]
        BY <1>5 DEF Recover
      <3>3. plan[i] \in ScheduleRecord
        BY DEF PlanTypes
      <3>4. QED BY <3>1, <3>2, <3>3 DEF ScheduleRecord
    <2>4. PlanTypes'
      <3>1. plan' = [i \in Schedules |-> plan'[i]]
        BY <1>5 DEF Recover
      <3>2. \A i \in Schedules : plan'[i].when = "ahead"
        BY <1>5 DEF Recover, PlanTypes, ScheduleRecord
      <3>3. QED BY <2>3, <3>1, <3>2 DEF PlanTypes
    <2>5. QED BY <2>1, <2>2, <2>4
  <1>6. ASSUME NEW f \in Foregrounds, NEW i \in Schedules, VisitSchedule(f, i)
        PROVE  PlanTypes' /\ LastRunTypes' /\ OwnerTypes' /\ PollTypes' /\ WorkTypes'
    <2> USE <1>6 DEF VisitSchedule
    <2>1. OwnerTypes' /\ PollTypes'
      BY DEF OwnerTypes, PollTypes
    <2>2. CASE UNCHANGED <<Stored, Executing>>
      BY <2>1, <2>2 DEF PlanTypes, LastRunTypes, WorkTypes
    <2>3. CASE Claims(f, i) /\ ~UNCHANGED <<Stored, Executing>>
      <3>0. plan[i] \in ScheduleRecord /\ plan[i].authorized \in BOOLEAN
        BY DEF PlanTypes, ScheduleRecord
      <3>1. PlanTypes'
        <4>1. plan' = [plan EXCEPT ![i] = [@ EXCEPT !.when = "ahead", !.enabled = plan[i].authorized,
                                                    !.claims = plan[i].claims + 1]]
          BY <2>3
        <4>2. plan[i].claims + 1 \in 0..MaxClaims
          BY <2>3, <3>0 DEF Claims, PlanTypes, ScheduleRecord
        <4>3. [plan[i] EXCEPT !.when = "ahead", !.enabled = plan[i].authorized,
                              !.claims = plan[i].claims + 1] \in ScheduleRecord
          <5>1. plan[i].authorized \in BOOLEAN
            BY <3>0
          <5>2. QED BY ONLY <3>0, <4>2, <5>1 DEF ScheduleRecord
        <4>4. QED BY ONLY <3>0, <4>1, <4>3, PlanTypes, i \in Schedules
                  DEF PlanTypes, ScheduleRecord
      <3>2. LastRunTypes'
        <4>1. CASE plan[i].authorized
          <5>1. lastRun' = [lastRun EXCEPT ![i] = [state |-> "running", owner |-> f, cancel |-> FALSE]]
            BY <2>3, <4>1
          <5>2. QED BY ONLY <5>1, LastRunTypes, i \in Schedules, f \in Foregrounds
                    DEF LastRunTypes, RunRecord, ScheduledStates
        <4>2. CASE ~plan[i].authorized
          <5>1. lastRun' = [lastRun EXCEPT ![i] = [state |-> "blocked", owner |-> NoOne, cancel |-> FALSE]]
            BY <2>3, <4>2
          <5>2. QED BY ONLY <5>1, LastRunTypes, i \in Schedules
          DEF LastRunTypes, RunRecord, ScheduledStates
        <4>3. QED BY <4>1, <4>2
      <3>3. WorkTypes'
        <4>1. CASE plan[i].authorized
          <5>1. /\ work' = [work EXCEPT ![f] = i] /\ place' = [place EXCEPT ![f] = "creating"]
                /\ aborting' = [aborting EXCEPT ![f] = FALSE]
                /\ process' = [process EXCEPT ![f] = "none"]
            BY <2>3, <4>1
          <5>2. QED BY ONLY <5>1, WorkTypes, i \in Schedules, f \in Foregrounds,
             SchedulerAssumption
                    DEF WorkTypes, Places
        <4>2. CASE ~plan[i].authorized
          BY <2>3, <4>2 DEF WorkTypes
        <4>3. QED BY <4>1, <4>2
      <3>4. QED BY <2>1, <3>1, <3>2, <3>3
    <2>4. CASE ~Claims(f, i) /\ ~UNCHANGED <<Stored, Executing>>
      <3>1. plan' = [plan EXCEPT ![i].when = "ahead"] \/ plan' = [plan EXCEPT ![i].when = @]
        BY <2>4
      <3>2. PlanTypes'
        <4>1. plan' = plan \/ plan' = [plan EXCEPT ![i].when = "ahead"]
          BY <3>1 DEF PlanTypes, ScheduleRecord
        <4>2. QED BY <4>1 DEF PlanTypes, ScheduleRecord
      <3>3. QED BY <2>1, <2>4, <3>2 DEF LastRunTypes, WorkTypes
    <2>5. QED BY <2>2, <2>3, <2>4
  <1>7. ASSUME NEW f \in Foregrounds, CreateScheduledTask(f) \/ LinkTask(f) \/ LaunchRun(f)
                 \/ PollCancellation(f) \/ EndRun(f) \/ ObserveRun(f)
        PROVE  PlanTypes' /\ LastRunTypes' /\ OwnerTypes' /\ PollTypes' /\ WorkTypes'
    <2> USE <1>7 DEF CreateScheduledTask, LinkTask, LaunchRun, PollCancellation, EndRun,
                     ObserveRun
    <2>1. PlanTypes' /\ LastRunTypes' /\ OwnerTypes' /\ PollTypes'
      BY DEF PlanTypes, LastRunTypes, OwnerTypes, PollTypes
    <2>2. work' = work /\ process' \in [Foregrounds -> Ended \union {"none", "live"}]
      BY DEF WorkTypes, Ended
    <2>3. place' \in [Foregrounds -> Places]
      BY DEF WorkTypes, Places
    <2>4. aborting' \in [Foregrounds -> BOOLEAN]
      <3>1. aborting' = aborting \/ \E b \in BOOLEAN : aborting' = [aborting EXCEPT ![f] = b]
        OBVIOUS
      <3>2. QED BY <3>1 DEF WorkTypes
    <2>5. \A g \in Foregrounds : /\ place'[g] # "none" => work'[g] # NoOne
                                 /\ place'[g] = "waiting" => process'[g] # "none"
                                 /\ place'[g] = "finishing" => process'[g] \in Ended
      BY DEF WorkTypes, Ended
    <2>6. QED BY <2>1, <2>2, <2>3, <2>4, <2>5 DEF WorkTypes
  <1>8. ASSUME NEW f \in Foregrounds, FinishRun(f) \/ FailRun(f)
        PROVE  PlanTypes' /\ LastRunTypes' /\ OwnerTypes' /\ PollTypes' /\ WorkTypes'
    <2> USE <1>8 DEF FinishRun, FailRun
    <2>1. OwnerTypes' /\ PollTypes'
      BY DEF OwnerTypes, PollTypes, Idles
    <2>4. WorkTypes'
      <3>1. CASE Idles(f)
        BY <3>1 DEF WorkTypes, Idles, Places
      <3>2. CASE place' = [place EXCEPT ![f] = "failing"] /\ UNCHANGED <<work, aborting, process>>
                 /\ place[f] = "finishing"
        BY <3>2 DEF WorkTypes, Places
      <3>3. QED BY <3>1, <3>2
    <2>2. PlanTypes' /\ LastRunTypes'
      <3>1. place[f] \in {"finishing", "failing"} /\ work[f] \in Schedules
        BY DEF WorkTypes
      <3>2. CASE UNCHANGED Stored
        BY <3>2 DEF PlanTypes, LastRunTypes
      <3>3. CASE Finished(f, process[f]) /\ place[f] = "finishing"
        BY <3>1, <3>3, FinishedTypes DEF WorkTypes
      <3>4. CASE Finished(f, "refused")
        BY <3>1, <3>4, FinishedTypes DEF Ended
      <3>5. QED BY <3>2, <3>3, <3>4
    <2>3. QED BY <2>1, <2>2, <2>4
  <1>9. QED
    BY <1>1, <1>2, <1>3, <1>5, <1>6, <1>7, <1>8
       DEF SchedulerNext, SchedulerSteps, RunSteps

LEMMA InitScheduler == SchedulerInit => SchedulerIInv
  <1> SUFFICES ASSUME SchedulerInit PROVE SchedulerIInv
    OBVIOUS
  <1> USE DEF SchedulerInit
  <1>1. PlanTypes /\ OwnerTypes
    BY DEF PlanTypes, OwnerTypes
  <1>2. LastRunTypes
    BY DEF LastRunTypes, RunRecord, ScheduledStates
  <1>3. PollTypes
    BY DEF PollTypes
  <1>6. WorkTypes
    BY DEF WorkTypes, Places
  <1>4. PollsStarted /\ OwnerHolds /\ ExecutesOwn
    BY DEF PollsStarted, Polls, OwnerHolds, ExecutesOwn
  <1>5. QED BY <1>1, <1>2, <1>3, <1>4, <1>6 DEF SchedulerIInv

LEMMA SchedulerStep == SchedulerIInv /\ [SchedulerNext]_schedulerVars => SchedulerIInv'
  <1> SUFFICES ASSUME SchedulerIInv, [SchedulerNext]_schedulerVars PROVE SchedulerIInv'
    OBVIOUS
  <1>0. (PlanTypes /\ LastRunTypes /\ OwnerTypes /\ PollTypes /\ WorkTypes)'
    <2>1. PlanTypes' /\ LastRunTypes' /\ OwnerTypes' /\ PollTypes' /\ WorkTypes'
      BY SchedulerTypes DEF SchedulerIInv
    <2>2. QED BY <2>1
  <1>1. CASE UNCHANGED schedulerVars
    BY <1>0, <1>1, SchedulerQuiet DEF schedulerVars, SchedulerIInv, PollsStarted
  <1>2. ASSUME NEW i \in Schedules,
               EditSchedule(i) \/ PauseSchedule(i) \/ ResumeSchedule(i) \/ CancelScheduleRun(i)
                 \/ ClockMoves(i)
        PROVE  SchedulerIInv'
    <2>1. UNCHANGED <<holder, alive, mode, stopAt, polling, work, strayed>>
      BY <1>2 DEF EditSchedule, PauseSchedule, ResumeSchedule, CancelScheduleRun, ClockMoves,
                  Executing
    <2>2. \A k \in Schedules : lastRun'[k].state = lastRun[k].state
                               /\ lastRun'[k].owner = lastRun[k].owner
      <3>1. lastRun' = lastRun \/ lastRun' = [lastRun EXCEPT ![i].cancel = TRUE]
        BY <1>2 DEF EditSchedule, PauseSchedule, ResumeSchedule, CancelScheduleRun, ClockMoves
      <3>2. lastRun \in [Schedules -> RunRecord]
        BY DEF SchedulerIInv, LastRunTypes
      <3>3. QED BY <3>1, <3>2 DEF RunRecord
    <2>3. QED BY <1>0, <2>1, <2>2, SchedulerQuiet DEF SchedulerIInv, PollsStarted
  <1>3. ASSUME NEW f \in Foregrounds,
               CreateScheduledTask(f) \/ LinkTask(f) \/ LaunchRun(f) \/ PollCancellation(f)
                 \/ ObserveRun(f) \/ EndRun(f) \/ CallStop(f) \/ AbortRuns(f)
        PROVE  SchedulerIInv'
    <2>1. UNCHANGED <<holder, alive, mode, polling, work, strayed, lastRun>>
      BY <1>3 DEF CreateScheduledTask, LinkTask, LaunchRun, PollCancellation, ObserveRun, EndRun,
         CallStop, AbortRuns, Stored, Executing
    <2>2. \A g \in Foregrounds : Polls(g) => stopAt'[g] \in {"no", "waiting"}
      BY <1>0, <1>3 DEF CreateScheduledTask, LinkTask, LaunchRun, PollCancellation, ObserveRun,
         EndRun, CallStop, AbortRuns, Settled, SchedulerIInv, PlanTypes, LastRunTypes,
            OwnerTypes, PollTypes, WorkTypes, PollsStarted
    <2>3. QED BY <1>0, <2>1, <2>2, SchedulerQuiet
  <1> USE <1>0 DEF SchedulerIInv, PlanTypes, LastRunTypes, OwnerTypes, PollTypes, WorkTypes,
                   Stored, Executing, At
  <1>4. ASSUME NEW f \in Foregrounds, StartScheduler(f) \/ ReadSchedules(f) \/ EndTick(f) \/ FailTick(f)
        PROVE  SchedulerIInv'
    BY <1>4 DEF StartScheduler, ReadSchedules, EndTick, FailTick, PollsStarted, Polls, OwnerHolds,
       ExecutesOwn, Executed, Running, NotPolling, Stopped
  <1>5. ASSUME NEW f \in Foregrounds, Own(f) PROVE SchedulerIInv'
    BY <1>5 DEF Own, Ownable, PollsStarted, Polls, OwnerHolds, ExecutesOwn, Executed, Running
  <1>6. ASSUME NEW f \in Foregrounds, Recover(f) PROVE SchedulerIInv'
    <2> USE <1>6 DEF Recover, Executed, Running, Polls
    <2>1. PollsStarted'
      BY DEF PollsStarted
    <2>2. OwnerHolds'
      BY DEF OwnerHolds
    <2>3. ~strayed => \A g \in alive : work[g] = NoOne
      <3>1. SUFFICES ASSUME ~strayed, NEW g \in alive, work[g] # NoOne PROVE FALSE
        OBVIOUS
      <3>2. mode[g] = "started"
        BY ONLY <3>1, ExecutesOwn DEF ExecutesOwn, Executed
      <3>3. holder = g /\ holder = f /\ mode[f] = "recovering"
        BY ONLY <1>6, <3>1, <3>2, OwnerHolds DEF OwnerHolds, Recover
      <3>4. QED BY ONLY <3>2, <3>3
    <2>4. ExecutesOwn'
      <3>1. UNCHANGED <<strayed, alive, work>>
        OBVIOUS
      <3>2. QED BY ONLY <2>3, <3>1 DEF ExecutesOwn
    <2>5. QED BY <2>1, <2>2, <2>4
  <1>7. ASSUME NEW f \in Foregrounds, ReleaseOwner(f) PROVE SchedulerIInv'
    <2> USE <1>7 DEF ReleaseOwner, Executed, Running, Polls
    <2>1. PollsStarted'
      BY DEF PollsStarted
    <2>2. OwnerHolds'
      BY DEF OwnerHolds
    <2>3. ExecutesOwn'
      BY DEF ExecutesOwn, OwnerHolds
    <2>4. QED BY <2>1, <2>2, <2>3
  <1>8. ASSUME NEW f \in Foregrounds, CrashScheduler(f) PROVE SchedulerIInv'
    BY <1>8 DEF CrashScheduler, Idles, PollsStarted, Polls, NotPolling, OwnerHolds, ExecutesOwn,
                Executed,
       Running
  <1>9. ASSUME NEW f \in Foregrounds, NEW i \in Schedules, VisitSchedule(f, i) PROVE SchedulerIInv'
    BY <1>9 DEF VisitSchedule, Claims, PollsStarted, Polls, NotPolling, OwnerHolds, ExecutesOwn,
                Executed,
       Running, Stopped
  <1>10. ASSUME NEW f \in Foregrounds, FinishRun(f) \/ FailRun(f) PROVE SchedulerIInv'
    BY <1>10 DEF FinishRun, FailRun, Finished, Idles, PollsStarted, Polls, OwnerHolds,
                 ExecutesOwn,
       Executed, Running
  <1>11. QED
    BY <1>1, <1>2, <1>3, <1>4, <1>5, <1>6, <1>7, <1>8, <1>9, <1>10
       DEF SchedulerNext, SchedulerSteps, RunSteps

\* The inductive invariant, for any number of foreground schedulers and schedules
\* (src/scheduler).
THEOREM SchedulerInvariant == SchedulerSpec => []SchedulerIInv
  BY InitScheduler, SchedulerStep, PTL DEF SchedulerSpec

\* Whichever schedulers die, recover and are told to stop: until an owner lets go of the project
\* too early, a living scheduler that has work holds the project, and what it executes is
\* recorded as running and its own (SchedulerService.poll, execute, recover and stop).
THEOREM ExecutionIsRecorded == SchedulerSpec => []ExecutedIsRecorded
  <1>1. SchedulerIInv => ExecutedIsRecorded
    BY DEF SchedulerIInv, OwnerHolds, ExecutesOwn, Executed, ExecutedIsRecorded
  <1>2. QED BY <1>1, SchedulerInvariant, PTL

LEMMA ScheduleTypesKept == SchedulerIInv => SchedulerTypeOK
  BY DEF SchedulerIInv, PlanTypes, LastRunTypes, OwnerTypes, PollTypes, WorkTypes, SchedulerTypeOK

\* The types of the schedules.
THEOREM ScheduleTypes == SchedulerSpec => []SchedulerTypeOK
  BY ScheduleTypesKept, SchedulerInvariant, PTL

HIDE SchedulerAssumption

-----------------------------------------------------------------------------
\* The reservations of living processes are those of the providers they run, and those whose
\* release failed; and whichever of them are taken together, their number is within the limit
\* of one of them: the one that was admitted last.
IsLaunched(r, a) == ActiveReview(r) /\ a \in Assigned(r) /\ item[r][a] = "launched"
LiveLedger == {e \in ledger : e[1] \notin lost}
ReservedIsLaunched ==
  /\ \A e \in LiveLedger : e \in unreturned \/ IsLaunched(e[1], e[2])
  /\ \A r \in Reviews : \A a \in Assigned(r) : IsLaunched(r, a) => <<r, a>> \in ledger
WithinLimit ==
  /\ IsFiniteSet(ledger)
  /\ \A T \in SUBSET LiveLedger : T # {} => \E e \in T : Cardinality(T) <= LimitOf[e[1]]

\* A review has no items before it starts, and all of them are over once its state is computed.
Staged ==
  \A r \in Reviews :
    /\ controller[r] = Unowned => closing[r] = "none" /\ \A a \in Assigned(r) : item[r][a] = "todo"
    /\ ActiveReview(r) /\ closing[r] # "none" => \A a \in Assigned(r) : item[r][a] \in ItemOutcomes

ItemDomain == item = [r \in Reviews |-> item[r]]

ReviewsIInv ==
  ReviewsTypeOK /\ ItemDomain /\ ReservedIsLaunched /\ WithinLimit /\ Staged

-----------------------------------------------------------------------------
USE ReviewsAssumption

\* The type invariant in parts.
StoredTypes == stored \in [Reviews -> [state : ReviewStates, cancel : BOOLEAN, open : SUBSET Nat]]
ItemTypes ==
  ItemDomain /\ \A r \in Reviews : item[r] \in [Assigned(r) -> ItemStates]
ReviewTypes ==
  /\ controller \in [Reviews -> Orchestrators \union {Unowned}]
  /\ lost \subseteq Reviews /\ abortedReviews \subseteq Reviews
  /\ reconciled \subseteq Orchestrators
  /\ closing \in [Reviews -> {"none", "over", "completed", "failed", "cancelled"}]
LedgerTypes ==
  ledger \subseteq Reviews \X Nat /\ unreturned \subseteq Reviews \X Nat
  /\ admitted \in 0..MaxAdmitted

LEMMA ReviewTypeParts ==
  ReviewsTypeOK /\ ItemDomain
    <=> StoredTypes /\ ItemTypes /\ ReviewTypes /\ LedgerTypes
  BY DEF ReviewsTypeOK, StoredTypes, ItemTypes, ReviewTypes, LedgerTypes

LEMMA SavedReviewTypes ==
  ASSUME StoredTypes, NEW r \in Reviews,
         NEW state \in {"running", "completed", "failed", "cancelled"}, Saved(r, state)
  PROVE  StoredTypes'
  <1>1. Merged(r, state) \in ReviewStates
    BY DEF Merged, ReviewStates
  <1>2. stored[r].cancel \in BOOLEAN
    BY DEF StoredTypes
  <1>3. {a \in Assigned(r) : InProgress(item'[r][a])} \in SUBSET Nat
    BY DEF Assigned
  <1>4. QED BY <1>1, <1>2, <1>3 DEF Saved, StoredTypes

\* What a step that sets one item does to the items.
LEMMA ItemSet ==
  ASSUME ItemTypes, NEW r \in Reviews, NEW a \in Assigned(r), NEW v \in ItemStates,
         item' = [item EXCEPT ![r][a] = v]
  PROVE  /\ ItemTypes'
         /\ \A q \in Reviews : \A b \in Assigned(q) :
              item'[q][b] = IF q = r /\ b = a THEN v ELSE item[q][b]
  <1>1. item' = [item EXCEPT ![r] = [item[r] EXCEPT ![a] = v]]
    OBVIOUS
  <1>2. item' = [q \in Reviews |-> item'[q]]
    BY <1>1 DEF ItemTypes, ItemDomain
  <1>3. ASSUME NEW q \in Reviews PROVE item'[q] = IF q = r THEN [item[r] EXCEPT ![a] = v] ELSE item[q]
    BY <1>1 DEF ItemTypes, ItemDomain
  <1>4. \A q \in Reviews : item[q] \in [Assigned(q) -> ItemStates]
    BY DEF ItemTypes, ItemDomain
  <1>5. QED BY <1>2, <1>3, <1>4 DEF ItemTypes, ItemDomain

LEMMA LiveLedgerFinite == IsFiniteSet(ledger) => IsFiniteSet(LiveLedger)
  BY FS_Subset DEF LiveLedger

\* Steps that end no review, start none and reserve nothing keep the ledger and the stages when
\* the item they set was not launched and is not over.
LEMMA ItemKeeps ==
  ASSUME ReservedIsLaunched, WithinLimit, Staged, ItemTypes, LedgerTypes,
         NEW r \in Reviews, NEW a \in Assigned(r), NEW v \in ItemStates, v # "launched",
         ActiveReview(r), item[r][a] \notin {"launched"} \union ItemOutcomes,
         item' = [item EXCEPT ![r][a] = v],
         UNCHANGED <<controller, lost, closing, ledger, unreturned>>
  PROVE  ReservedIsLaunched' /\ WithinLimit' /\ Staged'
  <1>1. \A q \in Reviews : \A b \in Assigned(q) :
          item'[q][b] = IF q = r /\ b = a THEN v ELSE item[q][b]
    BY ONLY ItemSet, ItemTypes, r \in Reviews, a \in Assigned(r), v \in ItemStates,
            item' = [item EXCEPT ![r][a] = v]
  <1>2. \A q \in Reviews : ActiveReview(q)' <=> ActiveReview(q)
    BY DEF ActiveReview
  <1>3. LiveLedger' = LiveLedger
    BY DEF LiveLedger
  <1>4. WithinLimit'
    BY <1>3 DEF WithinLimit
  <1>5. ReservedIsLaunched'
    <2>1. \A q \in Reviews : \A b \in Assigned(q) : IsLaunched(q, b)' <=> IsLaunched(q, b)
      BY <1>1, <1>2 DEF IsLaunched
    <2>2. \A e \in LiveLedger \ unreturned : e[1] \in Reviews /\ e[2] \in Assigned(e[1])
      BY DEF ReservedIsLaunched, IsLaunched, LiveLedger, LedgerTypes
    <2>3. QED BY <1>3, <2>1, <2>2 DEF ReservedIsLaunched
  <1>6. Staged'
    BY <1>1, <1>2 DEF Staged, ActiveReview
  <1>7. QED BY <1>4, <1>5, <1>6

\* The steps of one assignment.
LEMMA ItemStepKeeps ==
  ASSUME ReviewsIInv, NEW r \in Reviews, NEW a \in Assigned(r),
         TakeAssignment(r, a) \/ SetupFails(r, a) \/ NotAdmitted(r, a) \/ RecordResult(r, a)
  PROVE  ReviewsIInv'
  <1>0. StoredTypes /\ ItemTypes /\ ReviewTypes /\ LedgerTypes /\ ReservedIsLaunched /\ WithinLimit
        /\ Staged
    BY ReviewTypeParts DEF ReviewsIInv
  <1>1. PICK v \in ItemStates : v # "launched" /\ item' = [item EXCEPT ![r][a] = v]
    <2>1. CASE TakeAssignment(r, a)
      <3>1. "setup" \in ItemStates
        BY DEF ItemStates
      <3>2. item' = [item EXCEPT ![r][a] = "setup"]
        BY <2>1 DEF TakeAssignment
      <3>3. QED BY <3>1, <3>2
    <2>2. CASE SetupFails(r, a) \/ NotAdmitted(r, a)
      <3>1. item' = [item EXCEPT ![r][a] = IF r \in abortedReviews THEN "cancelled" ELSE "failed"]
        BY <2>2 DEF SetupFails, NotAdmitted, EndItem
      <3>2. (IF r \in abortedReviews THEN "cancelled" ELSE "failed") \in ItemOutcomes
        BY DEF ItemOutcomes
      <3>3. QED BY <3>1, <3>2 DEF ItemStates, ItemOutcomes
    <2>3. CASE RecordResult(r, a)
      <3>1. PICK outcome \in ParsedAnswers :
              item' = [item EXCEPT ![r][a] =
                IF outcome = "failed" /\ r \in abortedReviews THEN "cancelled" ELSE outcome]
        BY <2>3 DEF RecordResult
      <3>2. (IF outcome = "failed" /\ r \in abortedReviews THEN "cancelled" ELSE outcome)
              \in ItemOutcomes
        BY DEF ItemOutcomes, ParsedAnswers
      <3>3. QED BY <3>1, <3>2 DEF ItemStates, ItemOutcomes
    <2>4. QED BY <2>1, <2>2, <2>3
  <1>2. /\ ActiveReview(r) /\ item[r][a] \notin {"launched"} \union ItemOutcomes
        /\ UNCHANGED <<controller, lost, closing, ledger, abortedReviews, reconciled, admitted,
                       unreturned>>
        /\ Saved(r, "running")
    BY DEF TakeAssignment, SetupFails, NotAdmitted, RecordResult, EndItem, ItemOutcomes
  <1>3. ReservedIsLaunched' /\ WithinLimit' /\ Staged'
    BY <1>0, <1>1, <1>2, ItemKeeps
  <1>4. StoredTypes' /\ ItemTypes'
    BY <1>0, <1>1, <1>2, SavedReviewTypes, ItemSet
  <1>5. ReviewTypes' /\ LedgerTypes'
    BY <1>0, <1>2 DEF ReviewTypes, LedgerTypes
  <1>6. (ReviewsTypeOK /\ ItemDomain)'
    BY <1>4, <1>5, ReviewTypeParts, PTL
  <1>7. QED BY <1>3, <1>6 DEF ReviewsIInv

LEMMA ReserveKeeps ==
  ASSUME ReviewsIInv, NEW r \in Reviews, NEW a \in Assigned(r), Reserve(r, a)
  PROVE  ReviewsIInv'
  <1>0. StoredTypes /\ ItemTypes /\ ReviewTypes /\ LedgerTypes /\ ReservedIsLaunched /\ WithinLimit
        /\ Staged
    BY ReviewTypeParts DEF ReviewsIInv
  <1>1. /\ ActiveReview(r) /\ item[r][a] = "setup" /\ Cardinality(LiveLedger) < LimitOf[r]
        /\ admitted < MaxAdmitted
        /\ ledger' = LiveLedger \union {<<r, a>>} /\ admitted' = admitted + 1
        /\ item' = [item EXCEPT ![r][a] = "launched"]
        /\ UNCHANGED <<stored, controller, lost, closing, abortedReviews, reconciled, unreturned>>
    BY <1>0 DEF Reserve, Admissible, LiveReservations, LiveLedger, Exhausted, LedgerTypes
  <1>2. /\ ItemTypes'
        /\ \A q \in Reviews : \A b \in Assigned(q) :
             item'[q][b] = IF q = r /\ b = a THEN "launched" ELSE item[q][b]
    <2>1. "launched" \in ItemStates
      BY DEF ItemStates
    <2>2. QED BY ONLY ItemSet, <1>0, <1>1, <2>1, r \in Reviews, a \in Assigned(r)
  <1>3. \A q \in Reviews : ActiveReview(q)' <=> ActiveReview(q)
    BY <1>1 DEF ActiveReview
  <1>4. r \notin lost /\ a \in Nat /\ r \in Nat
    BY <1>1 DEF ActiveReview, Assigned
  <1>5. LiveLedger' = ledger' /\ \A e \in ledger' : e \in LiveLedger \/ e = <<r, a>>
    BY <1>1, <1>4 DEF LiveLedger
  <1>6. WithinLimit'
    <2>1. IsFiniteSet(LiveLedger) /\ Cardinality(LiveLedger) \in Nat
      BY <1>0, LiveLedgerFinite, FS_CardinalityType DEF WithinLimit
    <2>2. IsFiniteSet(ledger') /\ Cardinality(ledger') <= Cardinality(LiveLedger) + 1
      <3>1. IsFiniteSet(ledger') /\ Cardinality(ledger')
              = IF <<r, a>> \in LiveLedger THEN Cardinality(LiveLedger) ELSE Cardinality(LiveLedger) + 1
        BY <1>1, <2>1, FS_AddElement
      <3>2. QED BY <2>1, <3>1
    <2>3. ASSUME NEW T \in SUBSET LiveLedger', T # {}
          PROVE  \E e \in T : Cardinality(T) <= LimitOf[e[1]]
      <3>1. CASE <<r, a>> \in T
        <4>1. Cardinality(T) \in Nat /\ Cardinality(T) <= Cardinality(ledger')
          BY <1>5, <2>2, FS_Subset, FS_CardinalityType
        <4>2. Cardinality(ledger') \in Nat /\ LimitOf[r] \in Nat
          BY <2>2, FS_CardinalityType
        <4>3. Cardinality(T) <= LimitOf[r]
          BY <1>1, <2>1, <2>2, <4>1, <4>2
        <4>4. QED BY <3>1, <4>3
      <3>2. CASE <<r, a>> \notin T
        BY <1>0, <1>5, <2>3, <3>2 DEF WithinLimit
      <3>3. QED BY <3>1, <3>2
    <2>4. QED BY <2>2, <2>3 DEF WithinLimit
  <1>7. ReservedIsLaunched'
    <2>1. ASSUME NEW e \in LiveLedger', e \notin unreturned' PROVE IsLaunched(e[1], e[2])'
      <3>1. CASE e = <<r, a>>
        BY <1>1, <1>2, <1>3, <3>1 DEF IsLaunched
      <3>2. CASE e \in LiveLedger
        <4>1. IsLaunched(e[1], e[2]) /\ e[1] \in Reviews
          BY <1>0, <1>1, <2>1, <3>2 DEF ReservedIsLaunched, LiveLedger, LedgerTypes
        <4>2. QED BY <1>2, <1>3, <4>1 DEF IsLaunched
      <3>3. QED BY <1>5, <3>1, <3>2
    <2>2. ASSUME NEW q \in Reviews, NEW b \in Assigned(q), IsLaunched(q, b)'
          PROVE  <<q, b>> \in ledger'
      <3>1. CASE q = r /\ b = a
        BY <1>1, <3>1
      <3>2. CASE ~(q = r /\ b = a)
        <4>1. IsLaunched(q, b)
          BY <1>2, <1>3, <2>2, <3>2 DEF IsLaunched
        <4>2. <<q, b>> \in LiveLedger
          BY <1>0, <4>1 DEF ReservedIsLaunched, LiveLedger, IsLaunched, ActiveReview
        <4>3. QED BY <1>1, <4>2
      <3>3. QED BY <3>1, <3>2
    <2>3. QED BY <2>1, <2>2 DEF ReservedIsLaunched
  <1>8. Staged'
    <2>1. ASSUME NEW q \in Reviews, NEW b \in Assigned(q),
                 controller[q] = Unowned \/ (ActiveReview(q) /\ closing[q] # "none")
          PROVE  q # r
      BY <1>0, <1>1, <2>1 DEF Staged, ActiveReview, ItemOutcomes
    <2>2. ASSUME NEW q \in Reviews, q # r, NEW b \in Assigned(q) PROVE item'[q][b] = item[q][b]
      BY <1>2, <2>2
    <2>3. QED BY <1>0, <1>1, <1>3, <2>1, <2>2 DEF Staged
  <1>9. StoredTypes' /\ ReviewTypes' /\ LedgerTypes'
    BY <1>0, <1>1, <1>4 DEF StoredTypes, ReviewTypes, LedgerTypes, LiveLedger
  <1>10. (ReviewsTypeOK /\ ItemDomain)'
    <2>1. ItemTypes'
      BY <1>2
    <2>2. QED BY <1>9, <2>1, ReviewTypeParts, PTL
  <1>11. QED BY <1>6, <1>7, <1>8, <1>10 DEF ReviewsIInv

\* A provider that ends gives its reservation back, or its release fails.
LEMMA ProviderEndsKeeps ==
  ASSUME ReviewsIInv, NEW r \in Reviews, NEW a \in Assigned(r),
         ProviderEnds(r, a) \/ ReleaseFails(r, a)
  PROVE  ReviewsIInv'
  <1>0. StoredTypes /\ ItemTypes /\ ReviewTypes /\ LedgerTypes /\ ReservedIsLaunched /\ WithinLimit
        /\ Staged
    BY ReviewTypeParts DEF ReviewsIInv
  <1>1. PICK v \in ItemStates \ {"launched"} : item' = [item EXCEPT ![r][a] = v]
    <2>1. PICK outcome \in ItemOutcomes :
            \/ item' = [item EXCEPT ![r][a] = IF outcome = "completed" THEN "returned" ELSE outcome]
            \/ item' = [item EXCEPT ![r][a] = outcome]
      <3>1. CASE ProviderEnds(r, a)
        BY <3>1 DEF ProviderEnds, ItemOutcomes
      <3>2. CASE ReleaseFails(r, a)
        <4>1. (IF r \in abortedReviews THEN "cancelled" ELSE "failed") \in ItemOutcomes
          BY DEF ItemOutcomes
        <4>2. QED BY <3>2, <4>1 DEF ReleaseFails
      <3>3. QED BY <3>1, <3>2
    <2>2. /\ (IF outcome = "completed" THEN "returned" ELSE outcome) \in ItemStates \ {"launched"}
          /\ outcome \in ItemStates \ {"launched"}
      BY DEF ItemStates, ItemOutcomes
    <2>3. QED BY <2>1, <2>2
  <1>2. /\ ActiveReview(r) /\ item[r][a] = "launched"
        /\ \/ ledger' = ledger \ {<<r, a>>} /\ unreturned' = unreturned
           \/ ledger' = ledger /\ unreturned' = unreturned \union {<<r, a>>}
        /\ UNCHANGED <<controller, lost, closing, abortedReviews, admitted, reconciled>>
        /\ (UNCHANGED stored \/ Saved(r, "running"))
    BY DEF ProviderEnds, ReleaseFails, ReleasedReservations
  <1>3. /\ ItemTypes'
        /\ \A q \in Reviews : \A b \in Assigned(q) :
             item'[q][b] = IF q = r /\ b = a THEN v ELSE item[q][b]
    BY ONLY ItemSet, <1>0, <1>1, r \in Reviews, a \in Assigned(r), v \in ItemStates \ {"launched"}
  <1>4. \A q \in Reviews : ActiveReview(q)' <=> ActiveReview(q)
    BY <1>2 DEF ActiveReview
  <1>5. LiveLedger' \subseteq LiveLedger /\ LiveLedger' \ unreturned' \subseteq LiveLedger \ {<<r, a>>}
    BY <1>2 DEF LiveLedger
  <1>6. WithinLimit'
    <2>1. IsFiniteSet(ledger')
      BY <1>0, <1>2, FS_Subset DEF WithinLimit
    <2>2. QED BY <1>0, <1>5, <2>1 DEF WithinLimit
  <1>7. ReservedIsLaunched'
    <2>1. ASSUME NEW e \in LiveLedger', e \notin unreturned' PROVE IsLaunched(e[1], e[2])'
      <3>1. e \in LiveLedger /\ e \in Reviews \X Nat /\ ~(e[1] = r /\ e[2] = a)
        BY <1>0, <1>5, <2>1 DEF LiveLedger, LedgerTypes
      <3>2. IsLaunched(e[1], e[2])
        BY <1>0, <1>2, <2>1, <3>1 DEF ReservedIsLaunched
      <3>3. QED BY <1>3, <1>4, <3>1, <3>2 DEF IsLaunched
    <2>2. ASSUME NEW q \in Reviews, NEW b \in Assigned(q), IsLaunched(q, b)'
          PROVE  <<q, b>> \in ledger'
      <3>1. ~(q = r /\ b = a) /\ IsLaunched(q, b)
        BY <1>1, <1>3, <1>4, <2>2 DEF IsLaunched
      <3>2. QED BY <1>0, <1>2, <3>1 DEF ReservedIsLaunched
    <2>3. QED BY <2>1, <2>2 DEF ReservedIsLaunched
  <1>8. Staged'
    <2>1. ASSUME NEW q \in Reviews, NEW b \in Assigned(q),
                 controller[q] = Unowned \/ (ActiveReview(q) /\ closing[q] # "none")
          PROVE  q # r
      BY <1>0, <1>2, <2>1 DEF Staged, ActiveReview, ItemOutcomes
    <2>2. ASSUME NEW q \in Reviews, q # r, NEW b \in Assigned(q) PROVE item'[q][b] = item[q][b]
      BY <1>3, <2>2
    <2>3. \A q \in Reviews : controller'[q] = controller[q] /\ closing'[q] = closing[q]
      BY <1>2
    <2>4. QED BY ONLY <1>0, <1>4, <2>1, <2>2, <2>3 DEF Staged
  <1>9. StoredTypes' /\ ReviewTypes' /\ LedgerTypes'
    <2>1. StoredTypes'
      BY <1>0, <1>2, SavedReviewTypes DEF StoredTypes
    <2>2. ReviewTypes'
      BY <1>0, <1>2 DEF ReviewTypes
    <2>3. <<r, a>> \in Reviews \X Nat
      BY <1>0, r \in Reviews, a \in Assigned(r) DEF Assigned
    <2>4. LedgerTypes'
      BY <1>0, <1>2, <2>3 DEF LedgerTypes
    <2>5. QED BY <2>1, <2>2, <2>4
  <1>10. (ReviewsTypeOK /\ ItemDomain)'
    <2>1. ItemTypes'
      BY <1>3
    <2>2. QED BY <1>9, <2>1, ReviewTypeParts, PTL
  <1>11. QED BY <1>6, <1>7, <1>8, <1>10 DEF ReviewsIInv

LEMMA AwaitKeeps ==
  ASSUME ReviewsIInv, NEW r \in Reviews, NEW a \in Assigned(r), AwaitAdmission(r, a)
  PROVE  ReviewsIInv'
  <1>0. StoredTypes /\ ItemTypes /\ ReviewTypes /\ LedgerTypes /\ ReservedIsLaunched /\ WithinLimit
        /\ Staged
    BY ReviewTypeParts DEF ReviewsIInv
  <1>1. /\ ledger' = LiveLedger
        /\ UNCHANGED <<stored, controller, lost, item, closing, abortedReviews, admitted, reconciled,
                       unreturned>>
    BY DEF AwaitAdmission, LiveReservations, LiveLedger
  <1>2. LiveLedger' = LiveLedger /\ LiveLedger \subseteq ledger
    BY <1>1 DEF LiveLedger
  <1>3. \A q \in Reviews : \A b \in Assigned(q) : IsLaunched(q, b)' <=> IsLaunched(q, b)
    BY <1>1 DEF IsLaunched, ActiveReview
  <1>4. ReservedIsLaunched'
    <2>1. \A e \in LiveLedger \ unreturned : e[1] \in Reviews /\ e[2] \in Assigned(e[1])
      BY <1>0 DEF ReservedIsLaunched, IsLaunched, LiveLedger, LedgerTypes
    <2>2. \A q \in Reviews : \A b \in Assigned(q) : IsLaunched(q, b) => <<q, b>> \in LiveLedger
      BY <1>0 DEF ReservedIsLaunched, IsLaunched, ActiveReview, LiveLedger
    <2>3. QED BY <1>0, <1>1, <1>2, <1>3, <2>1, <2>2 DEF ReservedIsLaunched
  <1>5. WithinLimit' /\ Staged'
    <2>1. IsFiniteSet(LiveLedger)
      BY <1>0, LiveLedgerFinite DEF WithinLimit
    <2>2. QED BY <1>0, <1>1, <1>2, <2>1 DEF WithinLimit, Staged, ActiveReview
  <1>6. StoredTypes' /\ ItemTypes' /\ ReviewTypes' /\ LedgerTypes'
    BY <1>0, <1>1, <1>2 DEF StoredTypes, ItemTypes, ItemDomain, ReviewTypes, LedgerTypes
  <1>7. (ReviewsTypeOK /\ ItemDomain)'
    BY <1>6, ReviewTypeParts, PTL
  <1>8. QED BY <1>4, <1>5, <1>7 DEF ReviewsIInv

\* Steps that touch neither an item nor the ledger.
LEMMA QuietReviewKeeps ==
  ASSUME ReviewsIInv, StoredTypes', ReviewTypes', UNCHANGED <<item, ledger, admitted, lost, closing, unreturned>>,
         \/ UNCHANGED controller
         \/ \E r \in Reviews : \E c \in Orchestrators :
              controller[r] = Unowned /\ controller' = [controller EXCEPT ![r] = c]
  PROVE  ReviewsIInv'
  <1>0. StoredTypes /\ ItemTypes /\ ReviewTypes /\ LedgerTypes /\ ReservedIsLaunched /\ WithinLimit
        /\ Staged
    BY ReviewTypeParts DEF ReviewsIInv
  <1>1. \A q \in Reviews : controller'[q] = controller[q] \/ controller[q] = Unowned
    BY <1>0 DEF ReviewTypes
  <1>2. \A q \in Reviews : \A b \in Assigned(q) : IsLaunched(q, b)' <=> IsLaunched(q, b)
    <2>1. ASSUME NEW q \in Reviews, NEW b \in Assigned(q) PROVE IsLaunched(q, b)' <=> IsLaunched(q, b)
      BY <1>0, <1>1 DEF IsLaunched, ActiveReview, Staged
    <2>2. QED BY <2>1
  <1>3. LiveLedger' = LiveLedger
    BY DEF LiveLedger
  <1>4. ReservedIsLaunched'
    <2>1. \A e \in LiveLedger \ unreturned : e[1] \in Reviews /\ e[2] \in Assigned(e[1])
      BY <1>0 DEF ReservedIsLaunched, IsLaunched, LiveLedger, LedgerTypes
    <2>2. QED BY <1>0, <1>2, <1>3, <2>1 DEF ReservedIsLaunched
  <1>5. WithinLimit'
    BY <1>0, <1>3 DEF WithinLimit
  <1>6. Staged'
    BY <1>0, <1>1 DEF Staged, ActiveReview
  <1>7. ItemTypes' /\ LedgerTypes'
    BY <1>0 DEF ItemTypes, ItemDomain, LedgerTypes
  <1>8. (ReviewsTypeOK /\ ItemDomain)'
    BY <1>7, ReviewTypeParts, PTL
  <1>9. QED BY <1>4, <1>5, <1>6, <1>8 DEF ReviewsIInv

LEMMA RequestKeeps ==
  ASSUME ReviewsIInv,
         \/ \E c \in Orchestrators : ReconcileReviews(c)
         \/ \E c \in Orchestrators, r \in Reviews : StartReview(c, r) \/ RequestCancel(c, r)
         \/ \E r \in Reviews : PollCancel(r) \/ AbortReview(r)
  PROVE  ReviewsIInv'
  <1>0. StoredTypes /\ ReviewTypes
    BY ReviewTypeParts DEF ReviewsIInv
  <1>1. CASE \E c \in Orchestrators : ReconcileReviews(c)
    <2>1. PICK c \in Orchestrators : ReconcileReviews(c)
      BY <1>1
    <2>2. ASSUME NEW r \in Reviews
          PROVE  [stored[r] EXCEPT !.state = "failed", !.open = {}]
                   \in [state : ReviewStates, cancel : BOOLEAN, open : SUBSET Nat]
      BY <1>0 DEF StoredTypes, ReviewStates
    <2>3. stored' = [r \in Reviews |->
             IF stored[r].state = "running" /\ r \in lost
             THEN [stored[r] EXCEPT !.state = "failed", !.open = {}] ELSE stored[r]]
      BY <2>1 DEF ReconcileReviews
    <2>4. StoredTypes'
      BY <1>0, <2>2, <2>3 DEF StoredTypes
    <2>5. ReviewTypes' /\ UNCHANGED <<item, ledger, admitted, lost, closing, unreturned, controller>>
      BY <1>0, <2>1 DEF ReviewTypes, ReconcileReviews
    <2>6. QED BY <2>4, <2>5, QuietReviewKeeps
  <1>2. CASE \E c \in Orchestrators, r \in Reviews : StartReview(c, r)
    <2>1. PICK c \in Orchestrators, r \in Reviews : StartReview(c, r)
      BY <1>2
    <2>2. [stored[r] EXCEPT !.state = "running"]
            \in [state : ReviewStates, cancel : BOOLEAN, open : SUBSET Nat]
      BY <1>0 DEF StoredTypes, ReviewStates
    <2>3. StoredTypes'
      BY <1>0, <2>1, <2>2 DEF StoredTypes, StartReview
    <2>4. ReviewTypes' /\ UNCHANGED <<item, ledger, admitted, lost, closing, unreturned>>
          /\ controller[r] = Unowned /\ controller' = [controller EXCEPT ![r] = c]
      BY <1>0, <2>1 DEF ReviewTypes, StartReview
    <2>5. QED BY <2>3, <2>4, QuietReviewKeeps
  <1>3. CASE \E c \in Orchestrators, r \in Reviews : RequestCancel(c, r)
    <2>1. PICK c \in Orchestrators, r \in Reviews : RequestCancel(c, r)
      BY <1>3
    <2>2. [stored[r] EXCEPT !.cancel = TRUE]
            \in [state : ReviewStates, cancel : BOOLEAN, open : SUBSET Nat]
      BY <1>0 DEF StoredTypes
    <2>3. StoredTypes'
      BY <1>0, <2>1, <2>2 DEF StoredTypes, RequestCancel
    <2>4. ReviewTypes' /\ UNCHANGED <<item, ledger, admitted, lost, closing, unreturned, controller>>
      BY <1>0, <2>1 DEF ReviewTypes, RequestCancel
    <2>5. QED BY <2>3, <2>4, QuietReviewKeeps
  <1>4. CASE \E r \in Reviews : PollCancel(r) \/ AbortReview(r)
    <2>1. StoredTypes' /\ ReviewTypes' /\ UNCHANGED <<item, ledger, admitted, lost, closing, unreturned, controller>>
      BY <1>0, <1>4 DEF StoredTypes, ReviewTypes, PollCancel, AbortReview
    <2>2. QED BY <2>1, QuietReviewKeeps
  <1>5. QED BY <1>1, <1>2, <1>3, <1>4

LEMMA ConcludeKeeps ==
  ASSUME ReviewsIInv, NEW r \in Reviews, Conclude(r)
  PROVE  ReviewsIInv'
  <1>0. StoredTypes /\ ItemTypes /\ ReviewTypes /\ LedgerTypes /\ ReservedIsLaunched /\ WithinLimit
        /\ Staged
    BY ReviewTypeParts DEF ReviewsIInv
  <1>1. /\ ActiveReview(r) /\ \A a \in Assigned(r) : item[r][a] \in ItemOutcomes
        /\ \E v \in {"completed", "failed", "cancelled"} : closing' = [closing EXCEPT ![r] = v]
        /\ UNCHANGED <<stored, controller, lost, item, abortedReviews, ledger, admitted, reconciled,
                       unreturned>>
    BY DEF Conclude
  <1>2. PICK v \in {"completed", "failed", "cancelled"} : closing' = [closing EXCEPT ![r] = v]
    BY <1>1
  <1>3. \A q \in Reviews : ActiveReview(q)' <=> ActiveReview(q)
    BY <1>0, <1>1, <1>2 DEF ActiveReview, ReviewTypes
  <1>4. ReservedIsLaunched'
    <2>1. \A q \in Reviews : \A b \in Assigned(q) : IsLaunched(q, b)' <=> IsLaunched(q, b)
      BY <1>1, <1>3 DEF IsLaunched
    <2>2. LiveLedger' = LiveLedger
      BY <1>1 DEF LiveLedger
    <2>3. \A e \in LiveLedger \ unreturned : e[1] \in Reviews /\ e[2] \in Assigned(e[1])
      BY <1>0 DEF ReservedIsLaunched, IsLaunched, LiveLedger, LedgerTypes
    <2>4. QED BY <1>0, <1>1, <2>1, <2>2, <2>3 DEF ReservedIsLaunched
  <1>5. WithinLimit'
    BY <1>0, <1>1 DEF WithinLimit, LiveLedger
  <1>6. Staged'
    BY <1>0, <1>1, <1>2, <1>3 DEF Staged, ReviewTypes, ActiveReview
  <1>7. StoredTypes' /\ ItemTypes' /\ ReviewTypes' /\ LedgerTypes'
    BY <1>0, <1>1, <1>2 DEF StoredTypes, ItemTypes, ItemDomain, ReviewTypes, LedgerTypes
  <1>8. (ReviewsTypeOK /\ ItemDomain)'
    BY <1>7, ReviewTypeParts, PTL
  <1>9. QED BY <1>4, <1>5, <1>6, <1>8 DEF ReviewsIInv

\* What is forgotten of reviews that are over or lost.
LEMMA ForgottenTypes ==
  ASSUME ItemTypes, NEW gone \in SUBSET Reviews, Forgotten(gone)
  PROVE  /\ ItemTypes'
         /\ \A q \in Reviews : \A b \in Assigned(q) :
              item'[q][b] = IF q \in gone THEN "todo" ELSE item[q][b]
  <1>1. \A q \in Reviews :
          item'[q] = IF q \in gone THEN [a \in Assigned(q) |-> "todo"] ELSE item[q]
    BY DEF Forgotten
  <1>2. ItemDomain'
    BY <1>1 DEF Forgotten, ItemDomain
  <1>3. "todo" \in ItemStates
    BY DEF ItemStates
  <1>4. QED BY <1>1, <1>2, <1>3 DEF ItemTypes

LEMMA FinishReviewKeeps ==
  ASSUME ReviewsIInv, NEW r \in Reviews, FinishReview(r)
  PROVE  ReviewsIInv'
  <1>0. StoredTypes /\ ItemTypes /\ ReviewTypes /\ LedgerTypes /\ ReservedIsLaunched /\ WithinLimit
        /\ Staged
    BY ReviewTypeParts DEF ReviewsIInv
  <1>1. /\ ActiveReview(r) /\ closing[r] # "none" /\ Forgotten({r}) /\ Saved(r, closing[r])
        /\ closing' = [closing EXCEPT ![r] = "over"] /\ abortedReviews' = abortedReviews \ {r}
        /\ UNCHANGED <<controller, lost, ledger, admitted, reconciled, unreturned>>
    BY DEF FinishReview, Forgotten
  <1>2. /\ ItemTypes'
        /\ \A q \in Reviews : \A b \in Assigned(q) :
             item'[q][b] = IF q \in {r} THEN "todo" ELSE item[q][b]
    <2>1. {r} \in SUBSET Reviews
      OBVIOUS
    <2>2. QED BY ONLY <1>0, <1>1, <2>1, ForgottenTypes
  <1>3. \A q \in Reviews : ActiveReview(q)' <=> ActiveReview(q) /\ q # r
    BY <1>0, <1>1 DEF ActiveReview, ReviewTypes
  <1>4. \A q \in Reviews : \A b \in Assigned(q) : IsLaunched(q, b)' <=> IsLaunched(q, b)
    <2>1. ASSUME NEW b \in Assigned(r) PROVE ~IsLaunched(r, b)
      BY <1>0, <1>1 DEF IsLaunched, Staged, ItemOutcomes
    <2>2. QED BY <1>2, <1>3, <2>1 DEF IsLaunched
  <1>5. ReservedIsLaunched'
    <2>1. LiveLedger' = LiveLedger
      BY <1>1 DEF LiveLedger
    <2>2. \A e \in LiveLedger \ unreturned : e[1] \in Reviews /\ e[2] \in Assigned(e[1])
      BY <1>0 DEF ReservedIsLaunched, IsLaunched, LiveLedger, LedgerTypes
    <2>3. QED BY <1>0, <1>1, <1>4, <2>1, <2>2 DEF ReservedIsLaunched
  <1>6. WithinLimit'
    BY <1>0, <1>1 DEF WithinLimit, LiveLedger
  <1>7. Staged'
    <2>1. ASSUME NEW q \in Reviews, q # r, NEW b \in Assigned(q)
          PROVE  item'[q][b] = item[q][b] /\ closing'[q] = closing[q]
      BY <1>0, <1>1, <1>2, <2>1 DEF ReviewTypes
    <2>2. controller'[r] # Unowned /\ ~ActiveReview(r)'
      BY <1>1, <1>3 DEF ActiveReview
    <2>3. \A q \in Reviews : q # r => closing'[q] = closing[q]
      BY <1>0, <1>1 DEF ReviewTypes
    <2>4. controller' = controller /\ Staged
      BY <1>0, <1>1
    <2>5. QED BY ONLY <1>3, <2>1, <2>2, <2>3, <2>4 DEF Staged
  <1>8. StoredTypes'
    <2>1. closing[r] \in {"running", "completed", "failed", "cancelled"}
      BY <1>0, <1>1 DEF ReviewTypes, ActiveReview
    <2>2. QED BY <1>0, <1>1, <2>1, SavedReviewTypes
  <1>9. ReviewTypes' /\ LedgerTypes'
    BY <1>0, <1>1 DEF ReviewTypes, LedgerTypes
  <1>10. (ReviewsTypeOK /\ ItemDomain)'
    <2>1. ItemTypes'
      BY <1>2
    <2>2. QED BY <1>8, <1>9, <2>1, ReviewTypeParts, PTL
  <1>11. QED BY <1>5, <1>6, <1>7, <1>10 DEF ReviewsIInv

LEMMA CrashReviewerKeeps ==
  ASSUME ReviewsIInv, NEW c \in Orchestrators, CrashReviewer(c)
  PROVE  ReviewsIInv'
  <1> DEFINE gone == {r \in Reviews : ActiveReview(r) /\ controller[r] = c}
  <1>0. StoredTypes /\ ItemTypes /\ ReviewTypes /\ LedgerTypes /\ ReservedIsLaunched /\ WithinLimit
        /\ Staged
    BY ReviewTypeParts DEF ReviewsIInv
  <1>1. /\ lost' = lost \union gone /\ reconciled' = reconciled \ {c} /\ Forgotten(gone)
        /\ closing' = [r \in Reviews |-> IF r \in gone THEN "none" ELSE closing[r]]
        /\ abortedReviews' = abortedReviews \ gone
        /\ UNCHANGED <<stored, controller, ledger, admitted, unreturned>>
    <2>1. closing' = [r \in Reviews |-> IF r \in gone THEN "none" ELSE closing[r]]
      BY DEF CrashReviewer
    <2>2. QED BY <2>1 DEF CrashReviewer, Forgotten
  <1>2. \A q \in gone : ActiveReview(q) /\ q \in Reviews
    OBVIOUS
  <1>3. gone \in SUBSET Reviews
    OBVIOUS
  <1> HIDE DEF gone
  <1>4. /\ ItemTypes'
        /\ \A q \in Reviews : \A b \in Assigned(q) :
             item'[q][b] = IF q \in gone THEN "todo" ELSE item[q][b]
    BY <1>0, <1>1, <1>3, ForgottenTypes
  <1>5. \A q \in Reviews : ActiveReview(q)' <=> ActiveReview(q) /\ q \notin gone
    BY <1>1, <1>3 DEF ActiveReview
  <1>6. \A q \in Reviews : \A b \in Assigned(q) :
          IsLaunched(q, b)' <=> IsLaunched(q, b) /\ q \notin gone
    BY <1>4, <1>5 DEF IsLaunched
  <1>7. LiveLedger' = {e \in LiveLedger : e[1] \notin gone}
    BY <1>1 DEF LiveLedger
  <1>8. ReservedIsLaunched'
    <2>1. \A e \in LiveLedger \ unreturned : e[1] \in Reviews /\ e[2] \in Assigned(e[1])
      BY <1>0 DEF ReservedIsLaunched, IsLaunched, LiveLedger, LedgerTypes
    <2>2. QED BY <1>0, <1>1, <1>6, <1>7, <2>1 DEF ReservedIsLaunched
  <1>9. WithinLimit'
    <2>1. LiveLedger' \subseteq LiveLedger
      BY <1>7
    <2>2. QED BY <1>0, <1>1, <2>1 DEF WithinLimit
  <1>10. Staged'
    <2>1. \A q \in Reviews : q \notin gone => closing'[q] = closing[q]
      BY <1>1
    <2>2. \A q \in gone : controller[q] # Unowned
      BY <1>2 DEF ActiveReview
    <2>3. QED BY <1>0, <1>1, <1>4, <1>5, <2>1, <2>2 DEF Staged
  <1>11. StoredTypes' /\ LedgerTypes'
    BY <1>0, <1>1 DEF StoredTypes, LedgerTypes
  <1>12. ReviewTypes'
    BY <1>0, <1>1, <1>3 DEF ReviewTypes
  <1>13. (ReviewsTypeOK /\ ItemDomain)'
    <2>1. ItemTypes'
      BY <1>4
    <2>2. QED BY <1>11, <1>12, <2>1, ReviewTypeParts, PTL
  <1>14. QED BY <1>8, <1>9, <1>10, <1>13 DEF ReviewsIInv

LEMMA ReviewsInitial == ReviewsInit => ReviewsIInv
  <1> SUFFICES ASSUME ReviewsInit PROVE ReviewsIInv
    OBVIOUS
  <1>1. StoredTypes /\ ReviewTypes /\ LedgerTypes
    BY DEF ReviewsInit, StoredTypes, ReviewTypes, LedgerTypes, ReviewStates
  <1>2. ItemTypes
    BY DEF ReviewsInit, ItemTypes, ItemDomain, ItemStates
  <1>3. LiveLedger = {} /\ ledger = {} /\ IsFiniteSet(ledger)
    BY FS_EmptySet DEF ReviewsInit, LiveLedger
  <1>4. ReservedIsLaunched /\ WithinLimit
    BY <1>3 DEF ReservedIsLaunched, WithinLimit, IsLaunched, ActiveReview, ReviewsInit
  <1>5. Staged
    BY DEF Staged, ReviewsInit, ActiveReview
  <1>6. QED BY <1>1, <1>2, <1>4, <1>5, ReviewTypeParts DEF ReviewsIInv

LEMMA ReviewsStep == ReviewsIInv /\ [ReviewsNext]_reviewVars => ReviewsIInv'
  <1> SUFFICES ASSUME ReviewsIInv, [ReviewsNext]_reviewVars PROVE ReviewsIInv'
    OBVIOUS
  <1>1. CASE UNCHANGED reviewVars
    BY <1>1 DEF reviewVars, ReviewsIInv, ReviewsTypeOK, ItemDomain, ReservedIsLaunched,
                WithinLimit,
       Staged, IsLaunched, LiveLedger, ActiveReview
  <1>2. CASE ReviewsNext
    <2>1. CASE \/ \E c \in Orchestrators : ReconcileReviews(c)
               \/ \E c \in Orchestrators, r \in Reviews : StartReview(c, r) \/ RequestCancel(c, r)
               \/ \E r \in Reviews : PollCancel(r) \/ AbortReview(r)
      BY <2>1, RequestKeeps
    <2>2. CASE \E c \in Orchestrators : CrashReviewer(c)
      BY <2>2, CrashReviewerKeeps
    <2>3. CASE \E r \in Reviews : Conclude(r) \/ FinishReview(r)
      BY <2>3, ConcludeKeeps, FinishReviewKeeps
    <2>4. CASE \E r \in Reviews : \E a \in Assigned(r) : ItemStep(r, a) \/ AwaitAdmission(r, a)
      BY <2>4, ItemStepKeeps, ReserveKeeps, ProviderEndsKeeps, AwaitKeeps DEF ItemStep
    <2>5. QED BY <1>2, <2>1, <2>2, <2>3, <2>4 DEF ReviewsNext
  <1>3. QED BY <1>1, <1>2

\* The inductive invariant, for any number of controllers, reviews and assignments (src/reviews).
THEOREM ReviewsInvariant == ReviewsSpec => []ReviewsIInv
  BY ReviewsInitial, ReviewsStep, PTL DEF ReviewsSpec

LEMMA TogetherHolds == ReviewsIInv => AdmittedTogether
  <1> DEFINE launched == UNION {{r} \X {a \in Assigned(r) : item[r][a] = "launched"} :
                                  r \in {q \in Reviews : ActiveReview(q)}}
  <1> SUFFICES ASSUME ReviewsIInv
      PROVE  /\ launched \subseteq LiveLedger /\ LiveLedger \subseteq launched \union unreturned
             /\ LiveLedger # {} => \E e \in LiveLedger : Cardinality(LiveLedger) <= LimitOf[e[1]]
    BY DEF AdmittedTogether, LiveLedger
  <1>1. ReservedIsLaunched /\ WithinLimit /\ LedgerTypes
    BY ReviewTypeParts DEF ReviewsIInv
  <1>2. ASSUME NEW e \in LiveLedger, e \notin unreturned PROVE e \in launched
    <2>1. e[1] \in Reviews /\ e = <<e[1], e[2]>> /\ IsLaunched(e[1], e[2])
      BY <1>1, <1>2 DEF LiveLedger, LedgerTypes, ReservedIsLaunched
    <2>2. QED BY <2>1 DEF IsLaunched
  <1>3. ASSUME NEW e \in launched PROVE e \in LiveLedger
    <2>1. PICK r \in Reviews : ActiveReview(r) /\ e \in {r} \X {a \in Assigned(r) : item[r][a] = "launched"}
      OBVIOUS
    <2>2. PICK a \in Assigned(r) : e = <<r, a>> /\ item[r][a] = "launched"
      BY <2>1
    <2>3. IsLaunched(r, a) /\ r \notin lost
      BY <2>1, <2>2 DEF IsLaunched, ActiveReview
    <2>4. QED BY <1>1, <2>2, <2>3 DEF ReservedIsLaunched, LiveLedger
  <1> HIDE DEF launched
  <1>4. QED BY <1>1, <1>2, <1>3 DEF WithinLimit

LEMMA CancelledStep ==
  ASSUME ReviewsIInv, [ReviewsNext]_reviewVars, NEW r \in Reviews,
         stored[r].state = "running", stored[r].cancel, stored'[r].state # "running"
  PROVE  stored'[r].state = "cancelled" \/ r \in lost
  <1>0. StoredTypes /\ ReviewTypes
    BY ReviewTypeParts DEF ReviewsIInv
  <1>1. ASSUME NEW q \in Reviews, NEW state, Saved(q, state)
        PROVE  stored'[r].state = "cancelled"
    BY <1>0, <1>1 DEF Saved, Merged, StoredTypes
  <1>2. CASE UNCHANGED stored
    BY <1>2
  <1>3. CASE \E c \in Orchestrators : ReconcileReviews(c)
    BY <1>3 DEF ReconcileReviews
  <1>4. CASE \E c \in Orchestrators, q \in Reviews : StartReview(c, q) \/ RequestCancel(c, q)
    BY <1>0, <1>4 DEF StartReview, RequestCancel, StoredTypes
  <1>5. CASE \E q \in Reviews : Saved(q, "running") \/ Saved(q, closing[q])
    BY <1>1, <1>5
  <1>6. \/ UNCHANGED stored
        \/ \E c \in Orchestrators : ReconcileReviews(c)
        \/ \E c \in Orchestrators, q \in Reviews : StartReview(c, q) \/ RequestCancel(c, q)
        \/ \E q \in Reviews : Saved(q, "running") \/ Saved(q, closing[q])
    BY ZenonT(40) DEF ReviewsNext, reviewVars, ItemStep, CrashReviewer, Conclude, FinishReview, PollCancel,
       AbortReview, TakeAssignment, SetupFails, Reserve, NotAdmitted, ProviderEnds, ReleaseFails,
       RecordResult, AwaitAdmission, EndItem
  <1>7. QED BY <1>2, <1>3, <1>4, <1>5, <1>6

\* For any number of controllers that share the admission ledger and crash, and any limit of each
\* review: every provider of a living process has its place in the ledger, which holds no others
\* than those whose release failed, and the places taken are within the limit of one of their
\* reviews; a review whose cancellation is stored never ends as anything but cancelled, unless its
\* process is lost (reserveReviewInvocation, cancel, saveState).
THEOREM ReviewsHoldAlways == ReviewsSpec => ReviewsHold
  <1>1. ReviewsIInv /\ [ReviewsNext]_reviewVars
          => [\A r \in Reviews :
                stored[r].state = "running" /\ stored[r].cancel /\ stored'[r].state # "running"
                  => stored'[r].state = "cancelled" \/ r \in lost]_reviewVars
    BY CancelledStep
  <1>2. QED BY <1>1, ReviewsInvariant, TogetherHolds, PTL DEF ReviewsHold, CancelWins, ReviewsSpec

LEMMA ReviewTypesKept == ReviewsIInv => ReviewsTypeOK
  BY DEF ReviewsIInv

\* The types of the reviews.
THEOREM ReviewsTypes == ReviewsSpec => []ReviewsTypeOK
  BY ReviewTypesKept, ReviewsInvariant, PTL

HIDE ReviewsAssumption

-----------------------------------------------------------------------------
CallSteps == ClientKinds \union {"record", "created", "copy", "remove", "forget"}
Calls == [step : CallSteps, kind : ClientKinds, task : WorkTasks, seen : SUBSET WorkTasks,
          before : Trees, left : SUBSET SourceFiles, looked : {"none", "clean"}]

CallTypes  == doing \in [Clients -> Calls \union {NotCalling}]
TreeTypes  == sourceTree \in Trees /\ copyTree \in [WorkTasks -> Trees]
              /\ inspected \in [WorkTasks -> Trees]
PlaceTypes == /\ registry \subseteq WorkTasks /\ branch \subseteq WorkTasks
              /\ checkout \in [WorkTasks -> {"none", "clean", "changed", "ignored"}]

\* The caller copies into the worktree of the task.
Copies(c, t) == doing[c].step = "copy" /\ doing[c].task = t

\* A worktree has a branch, which outlives it; what was ever copied into is not clean again.
Branched == \A t \in WorkTasks : checkout[t] # "none" => t \in branch
OneCopier ==
  \A t \in WorkTasks : \A c, d \in Clients : Copies(c, t) /\ Copies(d, t) => c = d
CopiesInto ==
  \A t \in WorkTasks : \A c \in Clients : Copies(c, t) => checkout[t] # "clean" /\ t \in branch
InspectedAlone ==
  \A t \in WorkTasks : inspected[t] # Empty =>
    /\ copyTree[t] = inspected[t] /\ checkout[t] # "clean" /\ t \in branch
    /\ \A c \in Clients : ~Copies(c, t)
LookedFirst == \A c \in Clients : doing[c].step = "remove" => doing[c].looked = "clean"

WorkspacesIInv ==
  /\ CallTypes /\ TreeTypes /\ PlaceTypes
  /\ Branched /\ OneCopier /\ CopiesInto /\ InspectedAlone /\ LookedFirst

-----------------------------------------------------------------------------
USE WorkspacesAssumption

LEMMA EmptyIsTree == Empty \in Trees
  BY DEF Empty, Trees

\* A caller's next step is again a call.
LEMMA NextCall ==
  ASSUME CallTypes, NEW c \in Clients, doing[c].step # "none", NEW step \in CallSteps
  PROVE  LET n == [doing[c] EXCEPT !.step = step]
         IN  n \in Calls /\ n.step = step /\ n.task = doing[c].task /\ n.looked = doing[c].looked
             /\ doing[c].task \in WorkTasks /\ doing[c] \in Calls
  <1>1. doing[c] \in Calls
    BY DEF CallTypes, NotCalling
  <1>2. QED BY <1>1 DEF Calls

LEMMA CallSet ==
  ASSUME CallTypes, NEW c \in Clients, NEW n \in Calls \union {NotCalling},
         doing' = [doing EXCEPT ![c] = n]
  PROVE  CallTypes' /\ \A d \in Clients : doing'[d] = IF d = c THEN n ELSE doing[d]
  BY DEF CallTypes

\* Steps of a caller that copies nothing and leaves the worktrees alone.
LEMMA QuietCallKeeps ==
  ASSUME WorkspacesIInv, NEW c \in Clients, NEW n \in Calls \union {NotCalling},
         doing' = [doing EXCEPT ![c] = n], n.step # "copy", n.step = "remove" => n.looked = "clean",
         registry' \subseteq WorkTasks,
         UNCHANGED <<checkout, branch, sourceTree, copyTree, inspected>>
  PROVE  WorkspacesIInv'
  <1>1. CallTypes' /\ \A d \in Clients : doing'[d] = IF d = c THEN n ELSE doing[d]
    BY CallSet DEF WorkspacesIInv
  <1>2. \A d \in Clients, t \in WorkTasks : Copies(d, t)' => Copies(d, t)
    BY <1>1 DEF Copies
  <1>3. OneCopier' /\ CopiesInto' /\ InspectedAlone'
    BY <1>2 DEF WorkspacesIInv, OneCopier, CopiesInto, InspectedAlone
  <1>4. LookedFirst'
    BY <1>1 DEF WorkspacesIInv, LookedFirst
  <1>5. TreeTypes' /\ PlaceTypes' /\ Branched'
    BY DEF WorkspacesIInv, TreeTypes, PlaceTypes, Branched
  <1>6. QED BY <1>1, <1>3, <1>4, <1>5 DEF WorkspacesIInv

QuietCall(c) ==
  \/ \E t \in WorkTasks, kind \in ClientKinds : BeginCall(c, t, kind)
  \/ Reconcile(c) \/ RecoverWorktree(c) \/ WriteRegistry(c) \/ Created(c)
  \/ LookBeforeCleanup(c) \/ ForgetRecord(c) \/ CancelRecord(c) \/ CrashCall(c)

LEMMA QuietCallsKeep ==
  ASSUME WorkspacesIInv, NEW c \in Clients, QuietCall(c)
  PROVE  WorkspacesIInv'
  <1>0. CallTypes /\ PlaceTypes /\ TreeTypes
    BY DEF WorkspacesIInv
  <1>1. NotCalling.step = "none"
    BY DEF NotCalling
  <1>2. ASSUME registry' \subseteq WorkTasks, Return(c),
               UNCHANGED <<checkout, branch, sourceTree, copyTree, inspected>>
        PROVE  WorkspacesIInv'
    BY <1>1, <1>2, QuietCallKeeps DEF Return
  <1>3. CASE \E t \in WorkTasks, kind \in ClientKinds : BeginCall(c, t, kind)
    <2>1. PICK t \in WorkTasks, kind \in ClientKinds : BeginCall(c, t, kind)
      BY <1>3
    <2> DEFINE n == [step |-> kind, kind |-> kind, task |-> t, seen |-> registry,
                     before |-> IF kind = "review" THEN sourceTree ELSE Empty,
                     left |-> SourceFiles, looked |-> "none"]
    <2>2. n \in Calls /\ n.step # "copy" /\ n.step # "remove"
      BY <1>0, EmptyIsTree DEF Calls, CallSteps, ClientKinds, PlaceTypes, TreeTypes
    <2>3. doing' = [doing EXCEPT ![c] = n] /\ registry' \subseteq WorkTasks
          /\ UNCHANGED <<checkout, branch, sourceTree, copyTree, inspected>>
      BY <1>0, <2>1 DEF BeginCall, PlaceTypes
    <2> HIDE DEF n
    <2>4. QED BY <2>2, <2>3, QuietCallKeeps
  <1>4. CASE Reconcile(c) \/ RecoverWorktree(c) \/ WriteRegistry(c)
    <2>1. /\ doing[c].step # "none" /\ registry' \subseteq WorkTasks
          /\ UNCHANGED <<checkout, branch, sourceTree, copyTree, inspected>>
      <3>1. doing[c].step # "none" /\ UNCHANGED <<checkout, branch, sourceTree, copyTree, inspected>>
        BY <1>4 DEF Reconcile, RecoverWorktree, WriteRegistry, Creates, CallAt
      <3>2. doing[c] \in Calls
        BY <1>0, <3>1 DEF CallTypes, NotCalling
      <3>3. registry' = registry \/ registry' = doing[c].seen \union {doing[c].task}
        BY <1>4 DEF Reconcile, RecoverWorktree, WriteRegistry
      <3>4. QED BY <1>0, <3>1, <3>2, <3>3 DEF PlaceTypes, Calls
    <2>2. Return(c) \/ \E step \in {"created", "record"} :
                         doing' = [doing EXCEPT ![c] = [doing[c] EXCEPT !.step = step]]
      BY <1>4 DEF Reconcile, RecoverWorktree, WriteRegistry
    <2>3. ASSUME NEW step \in {"created", "record"},
                 doing' = [doing EXCEPT ![c] = [doing[c] EXCEPT !.step = step]]
          PROVE  WorkspacesIInv'
      <3> DEFINE n == [doing[c] EXCEPT !.step = step]
      <3>1. step \in CallSteps
        BY DEF CallSteps
      <3>2. n \in Calls /\ n.step = step
        BY <1>0, <2>1, <3>1, NextCall
      <3>3. doing' = [doing EXCEPT ![c] = n]
        BY <2>3
      <3> HIDE DEF n
      <3>4. QED BY <2>1, <3>2, <3>3, QuietCallKeeps
    <2>4. QED BY <1>2, <2>1, <2>2, <2>3
  <1>5. CASE Created(c) \/ CrashCall(c)
    BY <1>0, <1>2, <1>5 DEF Created, CrashCall, PlaceTypes
  <1>6. CASE ForgetRecord(c) \/ CancelRecord(c)
    <2>1. doing[c].step # "none" /\ Return(c)
          /\ UNCHANGED <<checkout, branch, sourceTree, copyTree, inspected>>
      BY <1>6 DEF ForgetRecord, CancelRecord, CallAt
    <2>2. doing[c] \in Calls
      BY <1>0, <2>1 DEF CallTypes, NotCalling
    <2>3. registry' \subseteq WorkTasks
      BY <1>0, <1>6, <2>2 DEF ForgetRecord, CancelRecord, PlaceTypes, Calls
    <2>4. QED BY <1>2, <2>1, <2>3
  <1>7. CASE LookBeforeCleanup(c)
    <2>1. doing[c].step # "none" /\ registry' \subseteq WorkTasks
          /\ UNCHANGED <<checkout, branch, sourceTree, copyTree, inspected>>
      BY <1>0, <1>7 DEF LookBeforeCleanup, CallAt, PlaceTypes
    <2>2. doing[c] \in Calls
      BY <1>0, <2>1 DEF CallTypes, NotCalling
    <2> DEFINE n == [doing[c] EXCEPT !.step = "remove", !.looked = "clean"]
    <2>3. n \in Calls /\ n.step = "remove" /\ n.looked = "clean"
      BY <2>2 DEF Calls, CallSteps
    <2>4. Return(c) \/ doing' = [doing EXCEPT ![c] = n]
      BY <1>7 DEF LookBeforeCleanup, LooksClean
    <2> HIDE DEF n
    <2>5. QED BY <1>2, <2>1, <2>3, <2>4, QuietCallKeeps
  <1>8. QED BY <1>3, <1>4, <1>5, <1>6, <1>7 DEF QuietCall

LEMMA AddWorktreeKeeps ==
  ASSUME WorkspacesIInv, NEW c \in Clients, AddWorktree(c)
  PROVE  WorkspacesIInv'
  <1> DEFINE t == doing[c].task
             n == [doing[c] EXCEPT !.step = "record"]
  <1>0. CallTypes /\ PlaceTypes /\ TreeTypes
    BY DEF WorkspacesIInv
  <1>1. doing[c].step # "none" /\ UNCHANGED <<registry, sourceTree, copyTree, inspected>>
    BY DEF AddWorktree, Creates, CallAt
  <1>2. n \in Calls /\ n.step = "record" /\ t \in WorkTasks
    <2>1. "record" \in CallSteps
      BY DEF CallSteps
    <2>2. QED BY <1>0, <1>1, <2>1, NextCall
  <1>3. CASE t \in branch
    <2>1. NotCalling.step = "none" /\ Return(c) /\ UNCHANGED <<checkout, branch>>
      BY <1>3 DEF AddWorktree, NotCalling
    <2>2. registry' \subseteq WorkTasks
      BY <1>0, <1>1 DEF PlaceTypes
    <2>3. QED BY <1>1, <2>1, <2>2, QuietCallKeeps DEF Return
  <1>4. CASE t \notin branch
    <2>1. /\ checkout' = [checkout EXCEPT ![t] = "clean"] /\ branch' = branch \union {t}
          /\ doing' = [doing EXCEPT ![c] = n]
      BY <1>4 DEF AddWorktree
    <2> HIDE DEF n, t
    <2>2. CallTypes' /\ \A d \in Clients : doing'[d] = IF d = c THEN n ELSE doing[d]
      BY <1>0, <1>2, <2>1, CallSet
    <2>3. \A d \in Clients, u \in WorkTasks : Copies(d, u)' => Copies(d, u) /\ u # t
      BY <1>2, <1>4, <2>2 DEF Copies, WorkspacesIInv, CopiesInto
    <2>4. \A u \in WorkTasks : u # t => checkout'[u] = checkout[u]
      BY <1>0, <2>1 DEF PlaceTypes
    <2>5. OneCopier' /\ CopiesInto'
      BY <2>1, <2>3, <2>4 DEF WorkspacesIInv, OneCopier, CopiesInto
    <2>6. InspectedAlone'
      BY <1>1, <1>4, <2>1, <2>3, <2>4 DEF WorkspacesIInv, InspectedAlone
    <2>7. LookedFirst'
      BY <1>2, <2>2 DEF WorkspacesIInv, LookedFirst
    <2>8. Branched'
      BY <2>1, <2>4 DEF WorkspacesIInv, Branched
    <2>9. TreeTypes' /\ PlaceTypes'
      BY <1>0, <1>1, <1>2, <2>1 DEF TreeTypes, PlaceTypes
    <2>10. QED BY <2>2, <2>5, <2>6, <2>7, <2>8, <2>9 DEF WorkspacesIInv
  <1>5. QED BY <1>3, <1>4

LEMMA BeginCopyKeeps ==
  ASSUME WorkspacesIInv, NEW c \in Clients, BeginCopy(c)
  PROVE  WorkspacesIInv'
  <1> DEFINE t == doing[c].task
             n == [doing[c] EXCEPT !.step = "copy"]
  <1>0. CallTypes /\ PlaceTypes /\ TreeTypes
    BY DEF WorkspacesIInv
  <1>1. doing[c].step # "none" /\ UNCHANGED <<registry, branch, sourceTree, inspected>>
    BY DEF BeginCopy, CallAt
  <1>2. n \in Calls /\ n.step = "copy" /\ t \in WorkTasks /\ n.task = t
    <2>1. "copy" \in CallSteps
      BY DEF CallSteps
    <2>2. QED BY <1>0, <1>1, <2>1, NextCall
  <1>3. CASE checkout[t] # "clean"
    <2>1. NotCalling.step = "none" /\ Return(c) /\ UNCHANGED <<checkout, copyTree>>
      BY <1>3 DEF BeginCopy, NotCalling
    <2>2. registry' \subseteq WorkTasks
      BY <1>0, <1>1 DEF PlaceTypes
    <2>3. QED BY <1>1, <2>1, <2>2, QuietCallKeeps DEF Return
  <1>4. CASE checkout[t] = "clean"
    <2>1. /\ checkout' = [checkout EXCEPT ![t] = "changed"]
          /\ copyTree' = [copyTree EXCEPT ![t] = Empty]
          /\ doing' = [doing EXCEPT ![c] = n]
      BY <1>4 DEF BeginCopy
    <2> HIDE DEF n, t
    <2>2. CallTypes' /\ \A d \in Clients : doing'[d] = IF d = c THEN n ELSE doing[d]
      BY <1>0, <1>2, <2>1, CallSet
    <2>3. \A d \in Clients : ~Copies(d, t)
      BY <1>2, <1>4 DEF WorkspacesIInv, CopiesInto
    <2>4. \A d \in Clients, u \in WorkTasks : Copies(d, u)' => (d = c /\ u = t) \/ Copies(d, u)
      BY <1>2, <2>2 DEF Copies
    <2>5. \A u \in WorkTasks : u # t => checkout'[u] = checkout[u] /\ copyTree'[u] = copyTree[u]
      BY <1>0, <2>1 DEF PlaceTypes, TreeTypes
    <2>6. checkout'[t] = "changed" /\ t \in branch /\ inspected[t] = Empty
      BY <1>0, <1>2, <1>4, <2>1 DEF PlaceTypes, WorkspacesIInv, Branched, InspectedAlone
    <2>7. OneCopier'
      BY <2>3, <2>4 DEF WorkspacesIInv, OneCopier
    <2>8. CopiesInto'
      BY <1>1, <2>4, <2>5, <2>6 DEF WorkspacesIInv, CopiesInto
    <2>9. InspectedAlone'
      BY <1>1, <2>4, <2>5, <2>6 DEF WorkspacesIInv, InspectedAlone
    <2>10. LookedFirst'
      BY <1>2, <2>2 DEF WorkspacesIInv, LookedFirst
    <2>11. Branched'
      BY <1>1, <2>5, <2>6 DEF WorkspacesIInv, Branched
    <2>12. TreeTypes' /\ PlaceTypes'
      BY <1>0, <1>1, <1>2, <2>1, EmptyIsTree DEF TreeTypes, PlaceTypes
    <2>13. QED BY <2>2, <2>7, <2>8, <2>9, <2>10, <2>11, <2>12 DEF WorkspacesIInv
  <1>5. QED BY <1>3, <1>4

LEMMA CopyFileKeeps ==
  ASSUME WorkspacesIInv, NEW c \in Clients, NEW f \in SourceFiles, CopyFile(c, f)
  PROVE  WorkspacesIInv'
  <1> DEFINE t == doing[c].task
             n == [doing[c] EXCEPT !.left = doing[c].left \ {f}]
  <1>0. CallTypes /\ PlaceTypes /\ TreeTypes
    BY DEF WorkspacesIInv
  <1>1. doing[c].step = "copy" /\ UNCHANGED <<registry, checkout, branch, sourceTree, inspected>>
    BY DEF CopyFile, CallAt
  <1>2. doing[c] \in Calls
    BY <1>0, <1>1 DEF CallTypes, NotCalling
  <1>3. n \in Calls /\ n.step = "copy" /\ t \in WorkTasks /\ n.task = t
    BY <1>1, <1>2 DEF Calls
  <1>4. copyTree' = [copyTree EXCEPT ![t] = [copyTree[t] EXCEPT ![f] = sourceTree[f]]]
    BY DEF CopyFile
  <1>5. doing' = [doing EXCEPT ![c] = n]
    BY DEF CopyFile
  <1>6. Copies(c, t)
    BY <1>1 DEF Copies
  <1> HIDE DEF n, t
  <1>7. CallTypes' /\ \A d \in Clients : doing'[d] = IF d = c THEN n ELSE doing[d]
    BY <1>0, <1>3, <1>5, CallSet
  <1>8. \A d \in Clients, u \in WorkTasks : Copies(d, u)' => Copies(d, u)
    BY <1>3, <1>6, <1>7 DEF Copies
  <1>9. \A u \in WorkTasks : u # t => copyTree'[u] = copyTree[u]
    BY <1>0, <1>4 DEF TreeTypes
  <1>10. inspected[t] = Empty
    BY <1>3, <1>6 DEF WorkspacesIInv, InspectedAlone
  <1>11. OneCopier' /\ CopiesInto'
    BY <1>1, <1>8 DEF WorkspacesIInv, OneCopier, CopiesInto
  <1>12. InspectedAlone'
    BY <1>1, <1>8, <1>9, <1>10 DEF WorkspacesIInv, InspectedAlone
  <1>13. LookedFirst'
    BY <1>3, <1>7 DEF WorkspacesIInv, LookedFirst
  <1>14. TreeTypes'
    <2>1. [copyTree[t] EXCEPT ![f] = sourceTree[f]] \in Trees
      BY <1>0, <1>3 DEF TreeTypes, Trees
    <2>2. QED BY <1>0, <1>1, <1>4, <2>1 DEF TreeTypes
  <1>15. PlaceTypes' /\ Branched'
    BY <1>1 DEF WorkspacesIInv, PlaceTypes, Branched
  <1>16. QED BY <1>7, <1>11, <1>12, <1>13, <1>14, <1>15 DEF WorkspacesIInv

LEMMA FinishCopyKeeps ==
  ASSUME WorkspacesIInv, NEW c \in Clients, FinishCopy(c)
  PROVE  WorkspacesIInv'
  <1>0. CallTypes /\ PlaceTypes /\ TreeTypes
    BY DEF WorkspacesIInv
  <1>1. /\ doing[c].step = "copy" /\ Return(c)
        /\ UNCHANGED <<registry, checkout, branch, sourceTree, copyTree>>
    BY DEF FinishCopy, CallAt
  <1>2. doing[c] \in Calls
    BY <1>0, <1>1 DEF CallTypes, NotCalling
  <1>3. PICK t \in WorkTasks : t = doing[c].task /\ doing[c].before \in Trees /\ Copies(c, t)
    BY <1>1, <1>2 DEF Calls, Copies
  <1>4. inspected' = inspected
        \/ (doing[c].before = copyTree[t] /\ inspected' = [inspected EXCEPT ![t] = copyTree[t]])
    BY <1>3 DEF FinishCopy, Proved
  <1>5. CallTypes' /\ \A d \in Clients : doing'[d] = IF d = c THEN NotCalling ELSE doing[d]
    BY <1>0, <1>1, CallSet DEF Return
  <1>6. NotCalling.step = "none"
    BY DEF NotCalling
  <1>7. \A d \in Clients, u \in WorkTasks : Copies(d, u)' => Copies(d, u) /\ d # c
    BY <1>5, <1>6 DEF Copies
  <1>8. \A d \in Clients : ~Copies(d, t)'
    BY <1>3, <1>7 DEF WorkspacesIInv, OneCopier
  <1>9. OneCopier' /\ CopiesInto'
    BY <1>1, <1>7 DEF WorkspacesIInv, OneCopier, CopiesInto
  <1>10. \A u \in WorkTasks : inspected'[u] = inspected[u] \/ (u = t /\ inspected'[t] = copyTree[t])
    BY <1>0, <1>3, <1>4 DEF TreeTypes
  <1>11. InspectedAlone'
    <2>1. checkout[t] # "clean" /\ t \in branch
      BY <1>3 DEF WorkspacesIInv, CopiesInto
    <2>2. QED BY <1>1, <1>7, <1>8, <1>10, <2>1 DEF WorkspacesIInv, InspectedAlone
  <1>12. LookedFirst'
    BY <1>5, <1>6 DEF WorkspacesIInv, LookedFirst
  <1>13. TreeTypes' /\ PlaceTypes' /\ Branched'
    BY <1>0, <1>1, <1>3, <1>4 DEF WorkspacesIInv, TreeTypes, PlaceTypes, Branched
  <1>14. QED BY <1>5, <1>9, <1>11, <1>12, <1>13 DEF WorkspacesIInv

LEMMA RemoveWorktreeKeeps ==
  ASSUME WorkspacesIInv, NEW c \in Clients, RemoveWorktree(c)
  PROVE  WorkspacesIInv'
  <1> DEFINE t == doing[c].task
             n == [doing[c] EXCEPT !.step = "forget"]
  <1>0. CallTypes /\ PlaceTypes /\ TreeTypes
    BY DEF WorkspacesIInv
  <1>1. doing[c].step # "none" /\ UNCHANGED <<registry, branch, sourceTree>>
    BY DEF RemoveWorktree, CallAt
  <1>2. n \in Calls /\ n.step = "forget" /\ t \in WorkTasks
    <2>1. "forget" \in CallSteps
      BY DEF CallSteps
    <2>2. QED BY <1>0, <1>1, <2>1, NextCall
  <1>3. CASE checkout[t] \notin {"clean", "ignored"}
    <2>1. NotCalling.step = "none" /\ Return(c) /\ UNCHANGED <<checkout, copyTree, inspected>>
      BY <1>3 DEF RemoveWorktree, NotCalling
    <2>2. registry' \subseteq WorkTasks
      BY <1>0, <1>1 DEF PlaceTypes
    <2>3. QED BY <1>1, <2>1, <2>2, QuietCallKeeps DEF Return
  <1>4. CASE checkout[t] \in {"clean", "ignored"}
    <2>1. /\ checkout' = [checkout EXCEPT ![t] = "none"]
          /\ copyTree' = [copyTree EXCEPT ![t] = Empty]
          /\ inspected' = [inspected EXCEPT ![t] = Empty]
          /\ doing' = [doing EXCEPT ![c] = n]
      BY <1>4 DEF RemoveWorktree
    <2> HIDE DEF n, t
    <2>2. CallTypes' /\ \A d \in Clients : doing'[d] = IF d = c THEN n ELSE doing[d]
      BY <1>0, <1>2, <2>1, CallSet
    <2>3. \A d \in Clients, u \in WorkTasks : Copies(d, u)' => Copies(d, u)
      BY <1>2, <2>2 DEF Copies
    <2>4. \A u \in WorkTasks : u # t => checkout'[u] = checkout[u] /\ copyTree'[u] = copyTree[u]
                                         /\ inspected'[u] = inspected[u]
      BY <1>0, <2>1 DEF PlaceTypes, TreeTypes
    <2>5. checkout'[t] = "none" /\ inspected'[t] = Empty
      BY <1>0, <1>2, <2>1 DEF PlaceTypes, TreeTypes
    <2>6. OneCopier' /\ CopiesInto'
      BY <1>1, <2>3, <2>4, <2>5 DEF WorkspacesIInv, OneCopier, CopiesInto
    <2>7. InspectedAlone'
      BY <1>1, <2>3, <2>4, <2>5, EmptyIsTree DEF WorkspacesIInv, InspectedAlone
    <2>8. LookedFirst'
      BY <1>2, <2>2 DEF WorkspacesIInv, LookedFirst
    <2>9. Branched'
      BY <1>1, <2>4, <2>5 DEF WorkspacesIInv, Branched
    <2>10. TreeTypes' /\ PlaceTypes'
      BY <1>0, <1>1, <1>2, <2>1, EmptyIsTree DEF TreeTypes, PlaceTypes
    <2>11. QED BY <2>2, <2>6, <2>7, <2>8, <2>9, <2>10 DEF WorkspacesIInv
  <1>5. QED BY <1>3, <1>4

LEMMA TouchKeeps ==
  ASSUME WorkspacesIInv,
         (\E t \in WorkTasks : TouchWorktree(t)) \/ (\E f \in SourceFiles : TouchSource(f))
  PROVE  WorkspacesIInv'
  <1>0. CallTypes /\ PlaceTypes /\ TreeTypes
    BY DEF WorkspacesIInv
  <1>1. CASE \E t \in WorkTasks : TouchWorktree(t)
    <2>1. PICK t \in WorkTasks, kind \in {"changed", "ignored"} :
            /\ checkout[t] # "none" /\ checkout' = [checkout EXCEPT ![t] = kind]
            /\ UNCHANGED <<registry, branch, doing, sourceTree, copyTree, inspected>>
      BY <1>1 DEF TouchWorktree
    <2>2. \A u \in WorkTasks : checkout'[u] = IF u = t THEN kind ELSE checkout[u]
      BY <1>0, <2>1 DEF PlaceTypes
    <2>3. \A d \in Clients, u \in WorkTasks : Copies(d, u)' <=> Copies(d, u)
      BY <2>1 DEF Copies
    <2>4. OneCopier' /\ CopiesInto' /\ InspectedAlone'
      BY <2>1, <2>2, <2>3 DEF WorkspacesIInv, OneCopier, CopiesInto, InspectedAlone
    <2>5. LookedFirst' /\ Branched'
      BY <2>1, <2>2 DEF WorkspacesIInv, LookedFirst, Branched
    <2>6. CallTypes' /\ TreeTypes' /\ PlaceTypes'
      BY <1>0, <2>1 DEF CallTypes, TreeTypes, PlaceTypes
    <2>7. QED BY <2>4, <2>5, <2>6 DEF WorkspacesIInv
  <1>2. CASE \E f \in SourceFiles : TouchSource(f)
    <2>1. sourceTree' \in Trees /\ UNCHANGED <<registry, checkout, branch, doing, copyTree, inspected>>
      BY <1>0, <1>2 DEF TouchSource, TreeTypes, Trees
    <2>2. QED
      BY <2>1 DEF WorkspacesIInv, CallTypes, TreeTypes, PlaceTypes, Branched, OneCopier,
                  CopiesInto,
         InspectedAlone, LookedFirst, Copies
  <1>3. QED BY <1>1, <1>2

LEMMA WorkspacesInitial == WorkspacesInit => WorkspacesIInv
  <1> SUFFICES ASSUME WorkspacesInit PROVE WorkspacesIInv
    OBVIOUS
  <1>1. CallTypes /\ \A c \in Clients : doing[c].step = "none"
    BY DEF WorkspacesInit, CallTypes, NotCalling
  <1>2. TreeTypes
    <2>1. (CHOOSE text \in FileTexts : TRUE) \in FileTexts
      OBVIOUS
    <2>2. QED BY <2>1, EmptyIsTree DEF WorkspacesInit, TreeTypes, Trees
  <1>3. PlaceTypes /\ Branched /\ InspectedAlone
    BY DEF WorkspacesInit, PlaceTypes, Branched, InspectedAlone
  <1>4. OneCopier /\ CopiesInto /\ LookedFirst
    BY <1>1 DEF OneCopier, CopiesInto, LookedFirst, Copies
  <1>5. QED BY <1>1, <1>2, <1>3, <1>4 DEF WorkspacesIInv

LEMMA WorkspacesStep == WorkspacesIInv /\ [WorkspacesNext]_workspaceVars => WorkspacesIInv'
  <1> SUFFICES ASSUME WorkspacesIInv, [WorkspacesNext]_workspaceVars PROVE WorkspacesIInv'
    OBVIOUS
  <1>1. CASE UNCHANGED workspaceVars
    BY <1>1 DEF workspaceVars, WorkspacesIInv, CallTypes, TreeTypes, PlaceTypes, Branched,
                OneCopier,
       CopiesInto, InspectedAlone, LookedFirst, Copies
  <1>2. CASE \E c \in Clients : QuietCall(c)
    BY <1>2, QuietCallsKeep
  <1>3. CASE \E c \in Clients : AddWorktree(c) \/ RemoveWorktree(c)
    BY <1>3, AddWorktreeKeeps, RemoveWorktreeKeeps
  <1>4. CASE \E c \in Clients : BeginCopy(c) \/ FinishCopy(c) \/ \E f \in SourceFiles : CopyFile(c, f)
    BY <1>4, BeginCopyKeeps, FinishCopyKeeps, CopyFileKeeps
  <1>5. CASE (\E t \in WorkTasks : TouchWorktree(t)) \/ (\E f \in SourceFiles : TouchSource(f))
    BY <1>5, TouchKeeps
  <1>6. QED BY <1>1, <1>2, <1>3, <1>4, <1>5 DEF WorkspacesNext, QuietCall

\* The inductive invariant, for any callers, tasks, files and edits (src/task-
\* state/workspaces.ts).
THEOREM WorkspacesInvariant == WorkspacesSpec => []WorkspacesIInv
  BY WorkspacesInitial, WorkspacesStep, PTL DEF WorkspacesSpec

\* What a step that removes a worktree is.
LEMMA CleanupStep ==
  ASSUME WorkspacesIInv, WorkspacesNext, NEW t \in WorkTasks,
         checkout[t] # "none", checkout'[t] = "none"
  PROVE  /\ checkout[t] # "changed"
         /\ \E c \in Clients : doing[c] # NotCalling /\ doing[c].task = t /\ doing[c].looked = "clean"
  <1>0. PlaceTypes /\ LookedFirst
    BY DEF WorkspacesIInv
  <1>1. ASSUME NEW c \in Clients, QuietCall(c) \/ FinishCopy(c) \/ \E f \in SourceFiles : CopyFile(c, f)
        PROVE  FALSE
    BY <1>1
    DEF QuietCall, BeginCall, Reconcile, RecoverWorktree, WriteRegistry, Created, CopyFile,
        FinishCopy,
        LookBeforeCleanup, ForgetRecord, CancelRecord, CrashCall
  <1>2. PICK c \in Clients : RemoveWorktree(c)
    <2>1. ~(\E u \in WorkTasks : TouchWorktree(u)) /\ ~(\E f \in SourceFiles : TouchSource(f))
      BY <1>0 DEF PlaceTypes, TouchWorktree, TouchSource
    <2>2. \A c \in Clients : ~AddWorktree(c) /\ ~BeginCopy(c)
      BY <1>0 DEF PlaceTypes, AddWorktree, BeginCopy
    <2>3. QED BY <1>1, <2>1, <2>2 DEF WorkspacesNext, QuietCall
  <1>3. doing[c].task = t /\ checkout[t] \in {"clean", "ignored"} /\ doing[c].step = "remove"
    BY <1>0, <1>2 DEF RemoveWorktree, PlaceTypes, CallAt
  <1>4. QED BY <1>0, <1>3 DEF LookedFirst, NotCalling

\* Whoever edits, crashes, recovers and cleans up: a review is shown the tree that its snapshot
\* proved, and a cleanup removes only a worktree in which it saw no change
\* (createReviewWorkspace, cleanupTaskWorkspace).
THEOREM WorkspacesHoldAlways == WorkspacesSpec => WorkspacesHold
  <1>1. WorkspacesIInv' => \A t \in WorkTasks : inspected'[t] # Empty => copyTree'[t] = inspected'[t]
    BY DEF WorkspacesIInv, InspectedAlone
  <1>2. WorkspacesIInv /\ [WorkspacesNext]_workspaceVars
          => [\A t \in WorkTasks :
                checkout[t] # "none" /\ checkout'[t] = "none" =>
                  /\ checkout[t] # "changed"
                  /\ \E c \in Clients : doing[c] # NotCalling /\ doing[c].task = t
                                        /\ doing[c].looked = "clean"]_workspaceVars
    BY CleanupStep
  <1>3. QED
    BY <1>1, <1>2, WorkspacesInvariant, PTL
    DEF WorkspacesHold, SnapshotIsSource, CleanupLosesNothingSeen, WorkspacesSpec

LEMMA WorkspaceTypesKept == WorkspacesIInv => WorkspacesTypeOK
  BY DEF WorkspacesIInv, TreeTypes, PlaceTypes, WorkspacesTypeOK

\* The types of the worktrees.
THEOREM WorkspaceTypes == WorkspacesSpec => []WorkspacesTypeOK
  BY WorkspaceTypesKept, WorkspacesInvariant, PTL

HIDE WorkspacesAssumption

-----------------------------------------------------------------------------
TrialType ==
  trial \in [at : {"running", "scoring", "done"}, expects : SUBSET {"execution", "evidence", "response"},
             output : {"nothing", "present"},
             outcome : {"none", "exited-0", "failed", "skipped", "timed-out"},
             said : BOOLEAN, evidenced : BOOLEAN, timer : {"armed", "fired", "answered"},
             verdict : {"none", "passed", "failed", "skipped"}]
Logs == [touched : SUBSET Preserved, applied : BOOLEAN, authorized : BOOLEAN, complete : BOOLEAN]
Hashes == UNION {[files -> Bytes] : files \in SUBSET Artifacts}
ArmPlaces == {"copied", "seeded", "moved on", "reviewed", "briefed", "applied", "hashed", "end"}
ArmType ==
  arm \in [name : {"baseline", "reconciliation"}, at : ArmPlaces, before : [Artifacts -> Bytes],
           after : Hashes, log : Logs]
TreeType == tree \in [Artifacts -> Bytes]
Intents == [revision : Nat, reviewed : Nat, old : {"none", "accepted", "superseded"},
            new : {"none", "accepted"}, staleRejected : BOOLEAN]
IntentType == authorization \in Intents /\ authorization.reviewed <= authorization.revision
\* No task before the reconciliation arm seeds one.
NoTaskYet ==
  /\ arm.name = "baseline" => arm.at \in {"copied", "applied", "hashed", "end"}
  /\ arm.name = "baseline" \/ arm.at = "copied" => authorization.reviewed = 0

\* What was hashed is what the controller left.
HashedIsLeft == arm.at = "hashed" => arm.after = Restrict(tree, HashedAfter)
\* The timer fires at most once, and settles what is scored.
TimedOut ==
  /\ trial.at = "running" => trial.timer = "armed" /\ trial.verdict = "none"
  /\ trial.at = "scoring" => trial.verdict = "none"
  /\ trial.timer # "armed" =>
       trial.outcome = "timed-out" /\ ("execution" \in trial.expects => trial.verdict # "passed")

EvaluationsIInv ==
  TrialType /\ ArmType /\ TreeType /\ IntentType /\ NoTaskYet /\ HashedIsLeft /\ TimedOut

-----------------------------------------------------------------------------
USE EvaluationsAssumption

\* The executor, its timer and the score.
TrialSteps ==
  ExecutorWrites \/ ExecutorReturns \/ TimerFires \/ ExecutorReturnsLate \/ Score

LEMMA TrialKeeps ==
  ASSUME TrialType, TimedOut, TrialSteps
  PROVE  TrialType' /\ TimedOut'
  <1>1. CASE ExecutorWrites
    BY <1>1 DEF ExecutorWrites, TrialType, TimedOut
  <1>2. CASE ExecutorReturns
    <2>1. PICK outcome \in {"exited-0", "failed", "skipped"}, said \in BOOLEAN, evidenced \in BOOLEAN :
            trial' = [trial EXCEPT
                        !.at = IF outcome = "skipped" THEN "done" ELSE "scoring",
                        !.outcome = outcome, !.said = said, !.evidenced = evidenced,
                        !.verdict = IF outcome = "skipped" THEN "skipped" ELSE @]
      BY <1>2 DEF ExecutorReturns
    <2>2. trial.at = "running"
      BY <1>2 DEF ExecutorReturns
    <2>3. QED BY <2>1, <2>2 DEF TrialType, TimedOut
  <1>3. CASE TimerFires
    BY <1>3 DEF TimerFires, TrialType, TimedOut
  <1>4. CASE ExecutorReturnsLate
    BY <1>4 DEF ExecutorReturnsLate, LateAnswer, TrialType, TimedOut
  <1>5. CASE Score
    BY <1>5 DEF Score, ChecksPass, TrialType, TimedOut
  <1>6. QED BY <1>1, <1>2, <1>3, <1>4, <1>5 DEF TrialSteps

\* The steps before the controller runs.
IntentSteps == SeedDecision \/ PreviewChange \/ ApplyStale \/ ApplyFresh

LEMMA IntentKeeps ==
  ASSUME ArmType, IntentType, NoTaskYet, IntentSteps
  PROVE  ArmType' /\ IntentType' /\ NoTaskYet' /\ arm'.at # "hashed"
  <1>1. ASSUME NEW stage \in ArmPlaces, arm' = [arm EXCEPT !.at = stage]
        PROVE  ArmType' /\ arm'.at = stage /\ arm'.name = arm.name
    BY <1>1 DEF ArmType
  <1>2. authorization.revision \in Nat /\ authorization.reviewed \in Nat
    BY DEF IntentType, Intents
  <1>3. CASE SeedDecision
    <2>1. ArmType' /\ arm'.at = "seeded" /\ arm'.name = "reconciliation"
      BY <1>1, <1>3 DEF SeedDecision, ArmPlaces
    <2>2. /\ authorization' = [authorization EXCEPT !.revision = 4, !.old = "accepted"]
          /\ authorization.reviewed = 0
      BY <1>3 DEF SeedDecision, NoTaskYet
    <2>3. authorization' \in Intents /\ authorization'.revision = 4 /\ authorization'.reviewed = 0
      BY <2>2 DEF IntentType, Intents
    <2>4. QED BY <2>1, <2>3 DEF IntentType, NoTaskYet
  <1>4. CASE PreviewChange
    <2>1. ArmType' /\ arm'.at = "moved on" /\ arm'.name = "reconciliation"
      BY <1>1, <1>4 DEF PreviewChange, ArmPlaces, NoTaskYet, ArmType
    <2>2. authorization' = [authorization EXCEPT !.revision = authorization.revision + 1,
                                                 !.reviewed = authorization.revision]
      BY <1>4 DEF PreviewChange
    <2>3. ASSUME NEW n \in Nat, NEW m \in Nat, m <= n,
                 authorization' = [authorization EXCEPT !.revision = n, !.reviewed = m]
          PROVE  IntentType'
      BY <2>3 DEF IntentType, Intents
    <2>4. authorization.revision + 1 \in Nat /\ authorization.revision <= authorization.revision + 1
      BY <1>2
    <2>5. IntentType'
      BY ONLY <1>2, <2>2, <2>3, <2>4
    <2>6. QED BY <2>1, <2>5 DEF NoTaskYet
  <1>5. CASE ApplyStale
    <2>1. ArmType' /\ arm'.at = "reviewed" /\ arm'.name = "reconciliation"
      BY <1>1, <1>5 DEF ApplyStale, ArmPlaces, NoTaskYet, ArmType
    <2>2. (authorization.reviewed # authorization.revision) \in BOOLEAN
      OBVIOUS
    <2>3. PICK stale \in BOOLEAN : authorization' = [authorization EXCEPT !.staleRejected = stale]
      BY <1>5, <2>2, Zenon DEF ApplyStale
    <2>4. IntentType'
      BY <2>3 DEF IntentType, Intents
    <2>5. QED BY <2>1, <2>4 DEF NoTaskYet
  <1>6. CASE ApplyFresh
    <2>1. ArmType' /\ arm'.at = "briefed" /\ arm'.name = "reconciliation"
      BY <1>1, <1>6 DEF ApplyFresh, ArmPlaces, NoTaskYet, ArmType
    <2>2. authorization' = [authorization EXCEPT !.revision = authorization.revision + 2,
                                                 !.reviewed = authorization.revision,
                                                 !.old = "superseded", !.new = "accepted"]
      BY <1>6 DEF ApplyFresh
    <2>3. ASSUME NEW n \in Nat, NEW m \in Nat, m <= n,
                 authorization' = [authorization EXCEPT !.revision = n, !.reviewed = m,
                               !.old = "superseded", !.new = "accepted"]
          PROVE  IntentType'
      BY <2>3 DEF IntentType, Intents
    <2>4. authorization.revision + 2 \in Nat /\ authorization.revision <= authorization.revision + 2
      BY <1>2
    <2>5. IntentType'
      BY ONLY <1>2, <2>2, <2>3, <2>4
    <2>6. QED BY <2>1, <2>5 DEF NoTaskYet
  <1>7. QED BY <1>3, <1>4, <1>5, <1>6 DEF IntentSteps

\* What is hashed.
LEMMA Hashed ==
  ASSUME ArmType, TreeType
  PROVE  HashedAfter \subseteq Artifacts /\ Restrict(tree, HashedAfter) \in Hashes
  <1>1. DOMAIN arm.before = Artifacts /\ DOMAIN tree = Artifacts
    BY DEF ArmType, TreeType
  <1>2. HashedAfter \subseteq Artifacts
    BY <1>1 DEF HashedAfter, Known
  <1>3. Restrict(tree, HashedAfter) \in [HashedAfter -> Bytes]
    BY <1>2 DEF Restrict, TreeType
  <1>4. HashedAfter \in SUBSET Artifacts
    BY <1>2
  <1>5. Restrict(tree, HashedAfter) \in Hashes
    BY ONLY <1>3, <1>4, Zenon DEF Hashes
  <1>6. QED BY <1>2, <1>5

LEMMA NothingHashed == [f \in {} |-> "absent"] \in Hashes
  BY DEF Hashes

LEMMA ArmKeeps ==
  ASSUME ArmType, TreeType, NoTaskYet, ApplyChange \/ DeclineChange \/ HashFiles \/ Judge,
         UNCHANGED authorization
  PROVE  ArmType' /\ TreeType' /\ NoTaskYet' /\ HashedIsLeft'
  <1>1. CASE ApplyChange
    <2>1. PICK log \in Logs : arm' = [arm EXCEPT !.at = "applied", !.log = log]
      BY <1>1 DEF ApplyChange, Logs
    <2>2. ArmType' /\ arm'.at = "applied" /\ arm'.name = arm.name
      BY <2>1 DEF ArmType, ArmPlaces
    <2>3. TreeType'
      BY <1>1 DEF ApplyChange, TreeType
    <2>4. NoTaskYet'
      BY <1>1, <2>2 DEF NoTaskYet, ApplyChange, ControllerReady
    <2>5. QED BY <2>2, <2>3, <2>4 DEF HashedIsLeft
  <1>2. CASE DeclineChange
    BY <1>2 DEF DeclineChange, ArmType, ArmPlaces, TreeType, HashedIsLeft, NoTaskYet
  <1>3. CASE HashFiles
    <2>1. arm' = [arm EXCEPT !.at = "hashed", !.after = Restrict(tree, HashedAfter)] /\ tree' = tree
      BY <1>3 DEF HashFiles
    <2>2. ArmType'
      BY <2>1, Hashed DEF ArmType, ArmPlaces
    <2>3. arm'.after = Restrict(tree, HashedAfter) /\ arm'.before = arm.before
      BY <2>1 DEF ArmType
    <2>4. HashedIsLeft' /\ TreeType'
      BY <2>1, <2>3 DEF HashedIsLeft, HashedAfter, TreeType
    <2>5. NoTaskYet'
      BY <1>3, <2>1 DEF NoTaskYet, ArmType, HashFiles
    <2>6. QED BY <2>2, <2>4, <2>5
  <1>4. CASE Judge
    <2>1. NoLog \in Logs
      BY DEF NoLog, Logs
    <2>2. CASE arm.name = "baseline"
      <3>1. /\ arm' = [arm EXCEPT !.name = "reconciliation", !.at = "copied",
                                  !.after = [f \in {} |-> "absent"], !.log = NoLog]
            /\ tree' = arm.before
        BY <1>4, <2>2 DEF Judge
      <3>2. ArmType' /\ arm'.at = "copied"
        BY <2>1, <3>1, NothingHashed DEF ArmType, ArmPlaces
      <3>3. NoTaskYet'
        BY <2>2, <3>1, <3>2 DEF NoTaskYet, ArmType
      <3>4. QED BY <3>1, <3>2, <3>3 DEF ArmType, TreeType, HashedIsLeft
    <2>3. CASE arm.name # "baseline"
      BY <1>4, <2>3 DEF Judge, ArmType, ArmPlaces, TreeType, HashedIsLeft, NoTaskYet
    <2>4. QED BY <2>2, <2>3
  <1>5. QED BY <1>1, <1>2, <1>3, <1>4

LEMMA EvaluationsInitial == EvaluationsInit => EvaluationsIInv
  <1> SUFFICES ASSUME EvaluationsInit PROVE EvaluationsIInv
    OBVIOUS
  <1>1. TrialType /\ TimedOut
    <2>1. CASE trial = NoTrial
      BY <2>1 DEF TrialType, TimedOut, NoTrial
    <2>2. CASE trial # NoTrial
      <3>1. trial \in [at : {"running"}, expects : SUBSET {"execution", "evidence", "response"},
                       output : {"nothing"}, outcome : {"none"}, said : {FALSE},
                       evidenced : {FALSE}, timer : {"armed"}, verdict : {"none"}]
        BY <2>2 DEF EvaluationsInit
      <3>2. QED BY <3>1 DEF TrialType, TimedOut
    <2>3. QED BY <2>1, <2>2
  <1>2. TreeType
    BY DEF EvaluationsInit, TreeType, Bytes
  <1>3. ArmType /\ arm.at # "hashed"
    <2>1. NoLog \in Logs
      BY DEF NoLog, Logs
    <2>2. arm = [name |-> "baseline", at |-> IF trial = NoTrial THEN "copied" ELSE "end",
                 before |-> tree, after |-> [f \in {} |-> "absent"], log |-> NoLog]
      BY DEF EvaluationsInit
    <2>3. QED BY <1>2, <2>1, <2>2, NothingHashed DEF ArmType, ArmPlaces, TreeType
  <1>4. IntentType /\ NoTaskYet
    BY DEF EvaluationsInit, IntentType, Intents, NoIntent, NoTaskYet
  <1>5. QED BY <1>1, <1>2, <1>3, <1>4 DEF EvaluationsIInv, HashedIsLeft

LEMMA EvaluationsStep == EvaluationsIInv /\ [EvaluationsNext]_evaluationVars => EvaluationsIInv'
  <1> SUFFICES ASSUME EvaluationsIInv, [EvaluationsNext]_evaluationVars PROVE EvaluationsIInv'
    OBVIOUS
  <1>0. TrialType /\ ArmType /\ TreeType /\ IntentType /\ NoTaskYet /\ HashedIsLeft /\ TimedOut
    BY DEF EvaluationsIInv
  <1>1. ASSUME UNCHANGED trial PROVE TrialType' /\ TimedOut'
    BY <1>0, <1>1 DEF TrialType, TimedOut
  <1>2. ASSUME UNCHANGED authorization PROVE IntentType'
    BY <1>0, <1>2 DEF IntentType
  <1>3. ASSUME UNCHANGED <<tree, arm, authorization>>
        PROVE  ArmType' /\ TreeType' /\ NoTaskYet' /\ HashedIsLeft'
    BY <1>0, <1>3 DEF ArmType, TreeType, NoTaskYet, HashedIsLeft, HashedAfter
  <1>4. CASE UNCHANGED evaluationVars
    BY <1>1, <1>2, <1>3, <1>4 DEF evaluationVars, EvaluationsIInv
  <1>5. CASE TrialSteps
    <2>1. UNCHANGED <<tree, arm, authorization>>
      BY <1>5 DEF TrialSteps, ExecutorWrites, ExecutorReturns, TimerFires, ExecutorReturnsLate,
                  Score
    <2>2. QED BY <1>0, <1>2, <1>3, <1>5, <2>1, TrialKeeps DEF EvaluationsIInv
  <1>6. CASE IntentSteps
    <2>1. UNCHANGED <<trial, tree>>
      BY <1>6 DEF IntentSteps, SeedDecision, PreviewChange, ApplyStale, ApplyFresh
    <2>2. TreeType'
      BY <1>0, <2>1 DEF TreeType
    <2>3. ArmType' /\ IntentType' /\ NoTaskYet' /\ HashedIsLeft'
      BY <1>0, <1>6, IntentKeeps DEF HashedIsLeft
    <2>4. QED BY <1>1, <2>1, <2>2, <2>3 DEF EvaluationsIInv
  <1>7. CASE ApplyChange \/ DeclineChange \/ HashFiles \/ Judge
    <2>1. UNCHANGED <<trial, authorization>>
      BY <1>7 DEF ApplyChange, DeclineChange, HashFiles, Judge
    <2>2. QED BY <1>0, <1>1, <1>2, <1>7, <2>1, ArmKeeps DEF EvaluationsIInv
  <1>8. QED BY <1>4, <1>5, <1>6, <1>7 DEF EvaluationsNext, TrialSteps, IntentSteps

\* The inductive invariant, for any artifacts and any controller (src/evaluations/runner.ts).
THEOREM EvaluationsInvariant == EvaluationsSpec => []EvaluationsIInv
  BY EvaluationsInitial, EvaluationsStep, PTL DEF EvaluationsSpec

\* The types of a scenario that runs and of an arm that is scored.
THEOREM EvaluationTypes == EvaluationsSpec => []EvaluationsTypeOK
  <1>1. EvaluationsIInv => EvaluationsTypeOK
    <2> SUFFICES ASSUME EvaluationsIInv PROVE EvaluationsTypeOK
      OBVIOUS
    <2>1. DOMAIN arm.after \subseteq Artifacts
      BY DEF EvaluationsIInv, ArmType, Hashes
    <2>2. QED
      BY <2>1 DEF EvaluationsIInv, EvaluationsTypeOK, TrialType, ArmType, TreeType, IntentType
  <1>2. QED BY <1>1, EvaluationsInvariant, PTL

-----------------------------------------------------------------------------
\* The hashes of a hashed arm are those of what the controller left.
LEMMA HashesAreTheTree ==
  ASSUME ArmType, TreeType, HashedIsLeft, arm.at = "hashed"
  PROVE  /\ \A f \in Artifacts : HashOf(arm.after, f) = tree[f] /\ HashOf(arm.before, f) = arm.before[f]
         /\ ChangedFiles = {f \in Artifacts : tree[f] # arm.before[f]}
  <1>1. DOMAIN arm.before = Artifacts /\ DOMAIN tree = Artifacts
    BY DEF ArmType, TreeType
  <1>2. arm.after = [f \in HashedAfter |-> tree[f]]
    BY DEF HashedIsLeft, Restrict
  <1>3. HashedAfter = {f \in Artifacts : arm.before[f] # "absent" \/ tree[f] # "absent"}
    BY <1>1 DEF HashedAfter, Known
  <1>4. \A f \in Artifacts : HashOf(arm.after, f) = tree[f] /\ HashOf(arm.before, f) = arm.before[f]
    BY <1>1, <1>2, <1>3 DEF HashOf
  <1>5. ChangedFiles = {f \in Artifacts : tree[f] # arm.before[f]}
    BY <1>1, <1>2, <1>3, <1>4 DEF ChangedFiles
  <1>6. QED BY <1>4, <1>5

LEMMA JudgedHonestly ==
  ASSUME ArmType, TreeType, HashedIsLeft, arm.at = "hashed", NEW results \in [Assertions -> BOOLEAN]
  PROVE  ReportIsHonest(Report(results))
  <1> DEFINE told == Report(results)
             Lost == Preserved \intersect ChangedFiles
             Declared == arm.log.touched
  <1>1. arm.log \in Logs
    BY DEF ArmType
  <1>2. SilentlyLost = Lost \ Declared
    BY HashesAreTheTree DEF SilentlyLost, Artifacts
  <1>3. told.failures = {} => SilentlyLost = {}
    BY DEF Report, Failures
  <1>4. told.failures = {} => \A f \in Preserved : tree[f] = arm.before[f] \/ f \in arm.log.touched
    BY <1>2, <1>3, HashesAreTheTree DEF Artifacts
  <1>5. IsFiniteSet(Lost) /\ Cardinality(Lost) \in Nat
    BY FS_Intersection, FS_CardinalityType
  <1>6. /\ Cardinality(Lost \ Declared) = Cardinality(Lost) - Cardinality(Lost \intersect Declared)
        /\ Cardinality(Lost \intersect Declared) \in Nat
    BY <1>5, FS_Difference, FS_Intersection, FS_CardinalityType
  <1>7. /\ Cardinality(Preserved \ ChangedFiles) = Cardinality(Preserved) - Cardinality(Lost)
        /\ Cardinality(Preserved) \in Nat
    BY FS_Difference, FS_CardinalityType
  <1>8. /\ told.discarded = Cardinality(Lost)
        /\ told.invalidated = Cardinality(Lost \intersect Declared)
        /\ told.lost = Cardinality(SilentlyLost)
        /\ told.retained = Cardinality(Preserved \ ChangedFiles)
        /\ told.falseCompletion = (arm.log.complete /\ Dropped(results) # {})
        /\ told.failures = Failures(results)
    BY DEF Report
  <1>9. told.discarded = told.invalidated + told.lost
        /\ told.retained + told.discarded = Cardinality(Preserved)
    BY <1>2, <1>5, <1>6, <1>7, <1>8
  <1>10. told.falseCompletion <=> "stale" \in told.failures
    BY <1>8 DEF Failures
  <1> HIDE DEF told
  <1>11. ReportIsHonest(told)
    BY <1>4, <1>9, <1>10 DEF ReportIsHonest
  <1>12. QED BY <1>11 DEF told

LEMMA GateStep ==
  ASSUME EvaluationsIInv, EvaluationsNext, report' # report, report'.status = "completed"
  PROVE  ReportIsHonest(report')
  <1>1. Judge
    <2>1. ~(SeedDecision \/ DeclineChange)
      BY DEF SeedDecision, DeclineChange, NoReport
    <2>2. ~(TrialSteps \/ PreviewChange \/ ApplyStale \/ ApplyFresh \/ ApplyChange \/ HashFiles)
      BY DEF TrialSteps, ExecutorWrites, ExecutorReturns, TimerFires, ExecutorReturnsLate, Score,
         PreviewChange, ApplyStale, ApplyFresh, ApplyChange, HashFiles
    <2>3. QED BY <2>1, <2>2 DEF EvaluationsNext, TrialSteps
  <1>2. PICK results \in [Assertions -> BOOLEAN] : report' = Report(results)
    BY <1>1 DEF Judge
  <1>3. arm.at = "hashed"
    BY <1>1 DEF Judge
  <1>4. QED BY <1>2, <1>3, JudgedHonestly DEF EvaluationsIInv

\* Whatever the controller did and said: the gate passes an arm just when the metrics that are
\* computed beside it say the same of the same files, and a scenario that timed out never passes
\* (scoreScenario, the gates of runRequirementChange).
THEOREM EvaluationsHoldAlways == EvaluationsSpec => EvaluationsHold
  <1>1. EvaluationsIInv /\ [EvaluationsNext]_evaluationVars
          => [report' # report /\ report'.status = "completed" => ReportIsHonest(report')]_evaluationVars
    BY GateStep
  <1>2. EvaluationsIInv'
          => (trial'.timer # "armed" /\ "execution" \in trial'.expects => trial'.verdict # "passed")
    BY DEF EvaluationsIInv, TimedOut
  <1>3. QED
    BY <1>1, <1>2, EvaluationsInvariant, PTL
    DEF EvaluationsHold, GateIsHonest, TimedOutNeverPasses, EvaluationsSpec

HIDE EvaluationsAssumption

-----------------------------------------------------------------------------
Processes == [at : {"none", "starting", "ready", "stopping", "asked", "stuck", "gone"},
              committed : BOOLEAN, parent : BOOLEAN, asked : BOOLEAN]
Operations == [kind : {"none", "install", "start", "stop", "remove"},
               step : {"none", "sources", "package", "activate", "launching", "commit",
                       "acknowledge", "stopping", "deregister"},
               at : Nat \union {NoTool}]
Records == [state : Installs \union {NoTool}, active : ToolControllers \union {NoTool},
            phase : {"none", "building", "failed", "abandoned"},
            building : Installs \union {NoTool}]

ToolTypes ==
  /\ tool \in Operations /\ records \in Records
  /\ abandoned \in BOOLEAN /\ journal \in {"none", "records", "sources"}
  /\ runtime \in [Installs -> {"absent", "partial", "complete"}]
  /\ controllers \in [ToolControllers -> Processes]
  /\ made \in [installs : 0 .. MaxInstalls, controllers : 0 .. MaxControllers]

\* What the operation under way may rely on, whose lock keeps the others out.
Reached ==
  /\ tool.kind = "none" => tool.step = "none"
  /\ tool.kind = "install" =>
       /\ tool.at \in Installs /\ records.state = NoTool
       /\ tool.step \in {"sources", "package", "activate"}
       /\ tool.step = "activate" => runtime[tool.at] = "complete"
  /\ tool.kind = "start" =>
       /\ tool.at \in ToolControllers
       /\ tool.step \in {"launching", "commit", "acknowledge"}
       /\ records.active = IF tool.step = "launching" THEN NoTool ELSE tool.at
  /\ tool.kind \in {"stop", "remove"} => tool.step \in {"stopping", "deregister"}
  /\ tool.step = "stopping" => tool.at \in ToolControllers /\ records.active = tool.at

\* Whoever is committed, or may still commit itself, is on record.
Bound(c) == ToolRunning(c) /\ (controllers[c].committed \/ controllers[c].asked)
Named == \A c \in ToolControllers : Bound(c) => records.active = c
Whole == records.state # NoTool => runtime[records.state] = "complete"

ToolIInv == ToolTypes /\ Reached /\ Named /\ Whole

-----------------------------------------------------------------------------
USE ManagedToolAssumption

LEMMA Numbers == /\ NoTool \notin Installs /\ NoTool \notin ToolControllers
                 /\ Installs \subseteq Nat /\ ToolControllers \subseteq Nat
  BY DEF Installs, ToolControllers

LEMMA ToolInitial == ManagedToolInit => ToolIInv
  <1> SUFFICES ASSUME ManagedToolInit PROVE ToolIInv
    OBVIOUS
  <1> USE DEF ManagedToolInit
  <1>1. tool \in Operations /\ records \in Records
    BY DEF Operations, Records, Resting
  <1>2. controllers \in [ToolControllers -> Processes]
    <2>1. NoProcess \in Processes
      BY DEF NoProcess, Processes
    <2>2. QED BY <2>1
  <1>3. made \in [installs : 0 .. MaxInstalls, controllers : 0 .. MaxControllers]
    OBVIOUS
  <1>4. ToolTypes
    BY <1>1, <1>2, <1>3 DEF ToolTypes
  <1>5. Reached
    BY DEF Reached, Resting
  <1>6. Named
    BY DEF Named, Bound, ToolRunning, NoProcess
  <1>7. Whole
    BY DEF Whole
  <1>8. QED BY <1>4, <1>5, <1>6, <1>7 DEF ToolIInv

\* The lock is free only between two operations.
LEMMA RestingIsNone == Mutable \/ Lockable => tool.kind = "none" /\ tool.step = "none"
  BY DEF Mutable, Lockable, Resting

\* installFcc: the records change when the runtime is complete.
LEMMA InstallKeeps ==
  ASSUME ToolIInv, BeginInstall \/ Materialize \/ SyncPackage \/ Activate \/ InstallFails
  PROVE  ToolIInv'
  <1> USE DEF ToolIInv
  <1>0. controllers' = controllers /\ abandoned' = abandoned /\ journal' = journal
        /\ records'.active = records.active
    BY DEF BeginInstall, Materialize, SyncPackage, Activate, InstallFails, ToolTypes, Records
  <1>1. Named'
    BY <1>0 DEF Named, Bound, ToolRunning
  <1>2. CASE BeginInstall
    <2>1. made.installs + 1 \in Installs
      BY <1>2 DEF BeginInstall, ToolTypes, Installs
    <2>2. tool' \in Operations /\ records' \in Records /\ records'.state = NoTool
          /\ made' \in [installs : 0 .. MaxInstalls, controllers : 0 .. MaxControllers]
      <3>1. tool' \in Operations
        <4>1. tool' = [kind |-> "install", step |-> "sources", at |-> made.installs + 1]
          BY <1>2 DEF BeginInstall
        <4>2. QED BY <2>1, <4>1, Numbers DEF Operations
      <3>2. records' \in Records /\ records'.state = NoTool
        <4>1. records' = [records EXCEPT !.phase = "building", !.building = made.installs + 1]
          BY <1>2 DEF BeginInstall
        <4>2. records.state = NoTool
          BY <1>2 DEF BeginInstall
        <4>3. QED BY <2>1, <4>1, <4>2 DEF ToolTypes, Records
      <3>3. made' \in [installs : 0 .. MaxInstalls, controllers : 0 .. MaxControllers]
        <4>1. made.installs + 1 \in 0 .. MaxInstalls
          BY <2>1, Numbers DEF Installs
        <4>2. made' = [made EXCEPT !.installs = made.installs + 1]
          BY <1>2 DEF BeginInstall
        <4>3. QED BY <4>1, <4>2 DEF ToolTypes
      <3>4. QED BY <3>1, <3>2, <3>3
    <2>3. runtime' = runtime
      BY <1>2 DEF BeginInstall
    <2>4. tool'.kind = "install" /\ tool'.step = "sources" /\ tool'.at \in Installs
      BY <1>2, <2>1 DEF BeginInstall
    <2>5. QED BY <1>0, <1>1, <2>2, <2>3, <2>4 DEF ToolTypes, Reached, Whole
  <1>3. CASE Materialize
    <2>1. tool.kind = "install" /\ tool.step = "sources" /\ records' = records /\ made' = made
      BY <1>3 DEF Materialize, AtStep
    <2>2. runtime' \in [Installs -> {"absent", "partial", "complete"}]
      BY <1>3 DEF Materialize, ToolTypes
    <2>3. tool' \in Operations /\ tool'.kind = "install" /\ tool'.step = "package"
          /\ tool'.at = tool.at
      BY <1>3, <2>1 DEF Materialize, ToolTypes, Operations
    <2>4. QED BY <1>0, <1>1, <2>1, <2>2, <2>3 DEF ToolTypes, Reached, Whole
  <1>4. CASE SyncPackage
    <2>1. tool.kind = "install" /\ tool.step = "package" /\ records' = records /\ made' = made
      BY <1>4 DEF SyncPackage, AtStep
    <2>2. runtime' \in [Installs -> {"absent", "partial", "complete"}]
          /\ runtime'[tool.at] = "complete"
      BY <1>4, <2>1 DEF SyncPackage, ToolTypes, Reached
    <2>3. tool' \in Operations /\ tool'.kind = "install" /\ tool'.step = "activate"
          /\ tool'.at = tool.at
      BY <1>4, <2>1 DEF SyncPackage, ToolTypes, Operations
    <2>4. QED BY <1>0, <1>1, <2>1, <2>2, <2>3 DEF ToolTypes, Reached, Whole
  <1>5. CASE Activate
    <2>1. tool.kind = "install" /\ tool.step = "activate" /\ runtime' = runtime /\ made' = made
      BY <1>5 DEF Activate, AtStep
    <2>2. tool.at \in Installs /\ runtime[tool.at] = "complete"
      BY <2>1 DEF Reached
    <2>3. records' \in Records /\ records'.state = tool.at
      BY <1>5, <2>2 DEF Activate, ToolTypes, Records
    <2>4. tool' \in Operations /\ tool'.kind = "none" /\ tool'.step = "none"
      BY <1>5 DEF Activate, Operations, Resting
    <2>5. QED BY <1>0, <1>1, <2>1, <2>2, <2>3, <2>4 DEF ToolTypes, Reached, Whole
  <1>6. CASE InstallFails
    <2>1. tool.kind = "install" /\ runtime' = runtime /\ made' = made
      BY <1>6 DEF InstallFails
    <2>2. records' \in Records /\ records'.state = NoTool
      BY <1>6, <2>1 DEF InstallFails, ToolTypes, Records, Reached
    <2>3. tool' \in Operations /\ tool'.kind = "none" /\ tool'.step = "none"
      BY <1>6 DEF InstallFails, Operations, Resting
    <2>4. QED BY <1>0, <1>1, <2>1, <2>2, <2>3 DEF ToolTypes, Reached, Whole
  <1>7. QED BY <1>2, <1>3, <1>4, <1>5, <1>6

\* A launched controller is bound to nothing, and before it is asked to commit, it is recorded.
LEMMA StartKeeps == ASSUME ToolIInv, Launch \/ RecordActive \/ SendCommit PROVE ToolIInv'
  <1> USE DEF ToolIInv
  <1>0. abandoned' = abandoned /\ journal' = journal /\ runtime' = runtime
    BY DEF Launch, RecordActive, SendCommit
  <1>1. CASE Launch
    <2> DEFINE new == [at |-> "starting", committed |-> FALSE, parent |-> TRUE, asked |-> FALSE]
    <2>1. made.controllers + 1 \in ToolControllers
      BY <1>1 DEF Launch, ToolTypes, ToolControllers
    <2>2. new \in Processes
      BY DEF Processes
    <2>3. controllers' = [controllers EXCEPT ![made.controllers + 1] = new]
          /\ records' = records /\ records.active = NoTool
      BY <1>1 DEF Launch
    <2>4. controllers' \in [ToolControllers -> Processes]
      BY <2>2, <2>3 DEF ToolTypes
    <2>5. made' \in [installs : 0 .. MaxInstalls, controllers : 0 .. MaxControllers]
      BY <1>1 DEF Launch, ToolTypes
    <2>6. tool' \in Operations /\ tool'.kind = "start" /\ tool'.step = "launching"
          /\ tool'.at \in ToolControllers
      BY <1>1, <2>1, Numbers DEF Launch, Operations
    <2>7. Named'
      <3> SUFFICES ASSUME NEW c \in ToolControllers, Bound(c)' PROVE FALSE
        BY DEF Named
      <3>1. c # made.controllers + 1
        BY <2>3, <2>4 DEF Bound, ToolTypes
      <3>2. controllers'[c] = controllers[c]
        BY <2>3, <3>1 DEF ToolTypes
      <3>3. QED BY <2>3, <3>2, Numbers DEF Bound, ToolRunning, Named
    <2>8. QED BY <1>0, <2>3, <2>4, <2>5, <2>6, <2>7 DEF ToolTypes, Reached, Whole
  <1>2. CASE RecordActive
    <2>1. tool.kind = "start" /\ tool.step = "launching" /\ tool.at \in ToolControllers
          /\ records.active = NoTool /\ controllers' = controllers /\ made' = made
      BY <1>2 DEF RecordActive, AtStep, Reached
    <2>2. records' \in Records /\ records'.active = tool.at /\ records'.state = records.state
      BY <1>2, <2>1 DEF RecordActive, ToolTypes, Records
    <2>3. tool' \in Operations /\ tool'.kind = "start" /\ tool'.step = "commit"
          /\ tool'.at = tool.at
      BY <1>2, <2>1 DEF RecordActive, ToolTypes, Operations
    <2>4. Named'
      BY <2>1, Numbers DEF Named, Bound, ToolRunning
    <2>5. Reached' /\ Whole'
      BY <1>0, <2>1, <2>2, <2>3 DEF Reached, Whole
    <2>6. QED BY <1>0, <2>1, <2>2, <2>3, <2>4, <2>5 DEF ToolTypes
  <1>3. CASE SendCommit
    <2>1. tool.kind = "start" /\ tool.step = "commit" /\ tool.at \in ToolControllers
          /\ records.active = tool.at /\ records' = records /\ made' = made
      BY <1>3 DEF SendCommit, AtStep, Reached
    <2>2. ToolRunning(tool.at) \in BOOLEAN
      BY DEF ToolRunning
    <2>3. controllers' \in [ToolControllers -> Processes]
      BY <1>3, <2>1, <2>2 DEF SendCommit, ToolTypes, Processes
    <2>4. \A c \in ToolControllers : c # tool.at => controllers'[c] = controllers[c]
      BY <1>3 DEF SendCommit, ToolTypes
    <2>5. tool' \in Operations /\ tool'.kind = "start" /\ tool'.step = "acknowledge"
          /\ tool'.at = tool.at
      BY <1>3, <2>1 DEF SendCommit, ToolTypes, Operations
    <2>6. Named'
      BY <2>1, <2>4 DEF Named, Bound, ToolRunning
    <2>7. Reached' /\ Whole'
      BY <1>0, <2>1, <2>5 DEF Reached, Whole
    <2>8. QED BY <1>0, <2>1, <2>3, <2>5, <2>6, <2>7 DEF ToolTypes
  <1>4. QED BY <1>1, <1>2, <1>3

\* Steps that bind no controller: one that stops or dies is less than it was, and one that commits
\* itself had been asked to.
BindsNone == \A c \in ToolControllers : Bound(c)' => Bound(c)

LEMMA QuietKeeps ==
  ASSUME ToolIInv, BindsNone, controllers' \in [ToolControllers -> Processes],
         UNCHANGED <<records, runtime, made>>, tool' = tool \/ tool' = Resting,
         abandoned' \in BOOLEAN, journal' \in {"none", "records", "sources"}
  PROVE  ToolIInv'
  <1> USE DEF ToolIInv
  <1>1. Named'
    BY DEF Named, BindsNone
  <1>2. tool' \in Operations
    BY DEF ToolTypes, Operations, Resting
  <1>3. Reached'
    BY DEF Reached, Resting
  <1>4. QED BY <1>1, <1>2, <1>3 DEF ToolTypes, Whole

\* The life of a controller beside the operations.
LEMMA ControllerKeeps ==
  ASSUME ToolIInv, NEW c \in ToolControllers,
         \/ ToolReady(c) \/ ControllerCommits(c) \/ ShutsDown(c)
         \/ ControllerExits(c) \/ ControllerKilled(c) \/ AnswerStop(c)
  PROVE  ToolIInv'
  <1> USE DEF ToolIInv
  <1>1. UNCHANGED <<tool, records, runtime, made, abandoned, journal>>
    BY DEF ToolReady, ControllerCommits, ShutsDown, ControllerExits, ControllerKilled, AnswerStop
  <1>2. PICK p \in Processes : /\ controllers' = [controllers EXCEPT ![c] = p]
                               /\ (p.at \in {"starting", "ready", "stopping", "asked", "stuck"}
                                   /\ (p.committed \/ p.asked)) => Bound(c)
    <2>1. controllers[c] \in Processes
      BY DEF ToolTypes
    <2>2. CASE ControllerCommits(c)
      <3> DEFINE p == [controllers[c] EXCEPT !.committed = TRUE, !.asked = FALSE]
      <3>1. p \in Processes
        BY <2>1 DEF Processes
      <3>2. controllers' = [controllers EXCEPT ![c] = p]
        BY <2>2 DEF ControllerCommits, ToolTypes
      <3>3. Bound(c)
        BY <2>2 DEF ControllerCommits, Bound
      <3>4. QED BY <3>1, <3>2, <3>3
    <2>3. CASE ~ControllerCommits(c)
      <3>1. PICK next \in {"ready", "stopping", "gone", "stuck"} :
              /\ controllers' = [controllers EXCEPT ![c].at = next]
              /\ next # "gone" => ToolRunning(c)
        BY <2>3 DEF ToolReady, ShutsDown, ControllerExits, ControllerKilled, AnswerStop,
                    ToolRunning
      <3> DEFINE p == [controllers[c] EXCEPT !.at = next]
      <3>2. p \in Processes /\ p.at = next
            /\ p.committed = controllers[c].committed /\ p.asked = controllers[c].asked
        BY <2>1, <3>1 DEF Processes
      <3>3. controllers' = [controllers EXCEPT ![c] = p]
        BY <3>1 DEF ToolTypes
      <3> HIDE DEF p
      <3>4. QED BY <3>1, <3>2, <3>3 DEF Bound
    <2>4. QED BY <2>2, <2>3
  <1>3. controllers' \in [ToolControllers -> Processes]
    BY <1>2 DEF ToolTypes
  <1>4. BindsNone
    BY <1>2 DEF BindsNone, Bound, ToolRunning, ToolTypes
  <1>5. QED BY <1>1, <1>3, <1>4, QuietKeeps DEF ToolTypes

\* An operation ends, or dies: it lets go of its controller.
LEMMA LettingGoKeeps ==
  ASSUME ToolIInv, LaunchFails \/ Started \/ AbortStart \/ CrashTool PROVE ToolIInv'
  <1> USE DEF ToolIInv
  <1>1. UNCHANGED <<records, runtime, made>> /\ tool' = Resting
        /\ abandoned' \in BOOLEAN /\ journal' \in {"none", "records", "sources"}
    BY DEF LaunchFails, Started, AbortStart, CrashTool, ToolTypes
  <1>2. \A c \in ToolControllers :
          /\ controllers[c] \in Processes
          /\ controllers'[c] \in {controllers[c], [controllers[c] EXCEPT !.parent = FALSE]}
    BY DEF LaunchFails, Started, AbortStart, CrashTool, ToolTypes
  <1>3. \A c \in ToolControllers :
          controllers'[c] \in Processes /\ controllers'[c].at = controllers[c].at
          /\ controllers'[c].committed = controllers[c].committed
          /\ controllers'[c].asked = controllers[c].asked
    BY <1>2 DEF Processes
  <1>4. controllers' \in [ToolControllers -> Processes]
    <2>1. controllers' = [c \in ToolControllers |-> controllers'[c]]
      BY DEF LaunchFails, Started, AbortStart, CrashTool, ToolTypes
    <2>2. QED BY <1>3, <2>1
  <1>5. BindsNone
    BY <1>3 DEF BindsNone, Bound, ToolRunning
  <1>6. QED BY <1>1, <1>4, <1>5, QuietKeeps

\* stopFcc and removeFcc: the record of a controller goes when the controller has gone.
LEMMA StopKeeps ==
  ASSUME ToolIInv, (\E kind \in {"stop", "remove"} : BeginStop(kind)) \/ ToolStopped \/ StopRefused \/ Deregister
  PROVE  ToolIInv'
  <1> USE DEF ToolIInv
  <1>0. UNCHANGED <<abandoned, journal, runtime, made>>
    BY DEF BeginStop, ToolStopped, StopRefused, Deregister
  <1>1. ASSUME NEW kind \in {"stop", "remove"}, BeginStop(kind) PROVE ToolIInv'
    <2>0. records' = records /\ records.state # NoTool
      BY <1>1 DEF BeginStop
    <2>1. CASE records.active = NoTool
      <3>1. kind = "remove" /\ controllers' = controllers
            /\ tool' = [kind |-> kind, step |-> "deregister", at |-> NoTool]
        BY <1>1, <2>1 DEF BeginStop
      <3>2. tool' \in Operations
        BY <3>1 DEF Operations
      <3>3. Named'
        BY <2>0, <3>1 DEF Named, Bound, ToolRunning
      <3>4. Reached'
        BY <3>1 DEF Reached
      <3>5. QED BY <1>0, <2>0, <3>1, <3>2, <3>3, <3>4 DEF ToolTypes, Whole
    <2>2. CASE records.active # NoTool
      <3>1. records.active \in ToolControllers /\ controllers[records.active].at = "ready"
        BY <1>1, <2>2 DEF BeginStop, Proofs, Provable, ToolTypes, Records
      <3>2. controllers' = [controllers EXCEPT ![records.active].at = "asked"]
            /\ tool' = [kind |-> kind, step |-> "stopping", at |-> records.active]
        BY <1>1, <2>2 DEF BeginStop
      <3>3. tool' \in Operations
        BY <3>1, <3>2, Numbers DEF Operations
      <3>4. controllers' \in [ToolControllers -> Processes]
        BY <3>1, <3>2 DEF ToolTypes, Processes
      <3>5. Named'
        BY <2>0, <3>1, <3>2 DEF Named, Bound, ToolRunning, ToolTypes
      <3>6. Reached'
        BY <2>0, <3>1, <3>2 DEF Reached
      <3>7. QED BY <1>0, <2>0, <3>3, <3>4, <3>5, <3>6 DEF ToolTypes, Whole
    <2>3. QED BY <2>1, <2>2
  <1>2. CASE ToolStopped
    <2>1. controllers' = controllers /\ tool.step = "stopping" /\ tool.at \in ToolControllers
          /\ controllers[tool.at].at = "gone" /\ records.active = tool.at
      BY <1>2 DEF ToolStopped, Reached
    <2>2. records' \in Records /\ records'.state = records.state
      BY <1>2 DEF ToolStopped, ToolTypes, Records
    <2>3. tool' \in Operations /\ tool'.kind \in {"none", "remove"}
          /\ tool'.step = IF tool'.kind = "none" THEN "none" ELSE "deregister"
      BY <1>2 DEF ToolStopped, Operations, Resting
    <2>4. Named'
      BY <2>1 DEF Named, Bound, ToolRunning
    <2>5. Reached'
      BY <2>3 DEF Reached
    <2>6. QED BY <1>0, <2>1, <2>2, <2>3, <2>4, <2>5 DEF ToolTypes, Whole
  <1>3. CASE StopRefused
    BY <1>0, <1>3, QuietKeeps DEF StopRefused, ToolTypes, BindsNone, Bound, ToolRunning
  <1>4. CASE Deregister
    <2>1. controllers' = controllers /\ tool' = Resting
      BY <1>4 DEF Deregister
    <2>2. records' \in Records /\ records'.state = NoTool /\ records'.active = records.active
      BY <1>4 DEF Deregister, ToolTypes, Records
    <2>3. tool' \in Operations
      BY <2>1 DEF Operations, Resting
    <2>4. Named'
      BY <2>1, <2>2 DEF Named, Bound, ToolRunning
    <2>5. Reached'
      BY <2>1 DEF Reached, Resting
    <2>6. QED BY <1>0, <2>1, <2>2, <2>3, <2>4, <2>5 DEF ToolTypes, Whole
  <1>5. QED BY <1>1, <1>2, <1>3, <1>4

\* recoverFcc: the ACTIVE record goes only when its process does not exist.
LEMMA RecoverKeeps ==
  ASSUME ToolIInv, RemoveOperationLock \/ RecoverJournal \/ RecoverRecords PROVE ToolIInv'
  <1> USE DEF ToolIInv
  <1>1. CASE RemoveOperationLock \/ RecoverJournal
    BY <1>1, QuietKeeps DEF RemoveOperationLock, RecoverJournal, ToolTypes, BindsNone, Bound,
                            ToolRunning
  <1>2. CASE RecoverRecords
    <2>1. UNCHANGED <<tool, abandoned, journal, runtime, controllers, made>>
          /\ tool.kind = "none" /\ tool.step = "none"
      BY <1>2, RestingIsNone DEF RecoverRecords
    <2>2. records' \in Records /\ records'.state = records.state
      BY <1>2 DEF RecoverRecords, ToolTypes, Records
    <2>3. \A c \in ToolControllers : ~Bound(c)
      BY <1>2, Numbers DEF RecoverRecords, Disproved, Named, Bound
    <2>4. Named'
      BY <2>1, <2>3 DEF Named, Bound, ToolRunning
    <2>5. Reached'
      BY <2>1 DEF Reached
    <2>6. QED BY <2>1, <2>2, <2>4, <2>5 DEF ToolTypes, Whole
  <1>3. QED BY <1>1, <1>2

LEMMA ToolStepKeeps == ToolIInv /\ [ManagedToolNext]_toolVars => ToolIInv'
  <1> SUFFICES ASSUME ToolIInv, [ManagedToolNext]_toolVars PROVE ToolIInv'
    OBVIOUS
  <1>1. CASE BeginInstall \/ Materialize \/ SyncPackage \/ Activate \/ InstallFails
    BY <1>1, InstallKeeps
  <1>2. CASE Launch \/ RecordActive \/ SendCommit
    BY <1>2, StartKeeps
  <1>3. CASE LaunchFails \/ Started \/ AbortStart \/ CrashTool
    BY <1>3, LettingGoKeeps
  <1>4. CASE \E c \in ToolControllers : \/ ToolReady(c) \/ ControllerCommits(c) \/ ShutsDown(c)
                                        \/ ControllerExits(c) \/ ControllerKilled(c) \/ AnswerStop(c)
    BY <1>4, ControllerKeeps
  <1>5. CASE (\E kind \in {"stop", "remove"} : BeginStop(kind)) \/ ToolStopped \/ StopRefused
             \/ Deregister
    BY <1>5, StopKeeps
  <1>6. CASE RemoveOperationLock \/ RecoverJournal \/ RecoverRecords
    BY <1>6, RecoverKeeps
  <1>7. CASE UNCHANGED toolVars
    BY <1>7, QuietKeeps DEF toolVars, ToolIInv, ToolTypes, BindsNone, Bound, ToolRunning
  <1>8. QED BY <1>1, <1>2, <1>3, <1>4, <1>5, <1>6, <1>7 DEF ManagedToolNext

LEMMA ToolTypesKept == ToolIInv => ManagedToolTypeOK
  BY DEF ToolIInv, ToolTypes, Records, ManagedToolTypeOK

\* The types of the managed tool, for any number of installations and controllers
\* (src/managed-tools).
THEOREM ToolTypesHold == ManagedToolSpec => []ManagedToolTypeOK
  BY ToolTypesKept, ToolInitial, ToolStepKeeps, PTL DEF ManagedToolSpec

\* Whatever crashes, is killed, or answers too late, for any number of controllers: one that is
\* committed and runs is named by the ACTIVE record, so that it can be stopped, and a registered
\* installation is complete (startFcc, stopOwned, recoverFcc, installFcc).
THEOREM ServedIsAlwaysRecorded == ManagedToolSpec => []ServedIsRecorded
  <1>1. ToolIInv => ServedIsRecorded
    BY DEF ToolIInv, Named, Bound, Whole, ServedIsRecorded
  <1>2. QED BY <1>1, ToolInitial, ToolStepKeeps, PTL DEF ManagedToolSpec

=============================================================================
