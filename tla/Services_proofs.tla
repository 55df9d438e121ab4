--------------------------- MODULE Services_proofs ----------------------------
(***************************************************************************)
(* The task-state lock, for any number of writers, identities and          *)
(* acquisitions: it excludes until a published lock loses its owner, and,  *)
(* with any number of crashes, until an unlink removes bytes it did not    *)
(* compare. The inductive invariant adds to TypeOK which identity each     *)
(* writer owns, that an identity found dead stays dead (identities are     *)
(* fresh), and that before the first orphan every lock on disk has a live  *)
(* owner.                                                                  *)
(*                                                                         *)
(* Then the types of all that runs concurrently: MCServices moves one      *)
(* service at a time and leaves the others alone, so each keeps its own    *)
(* inductive invariant.                                                    *)
(***************************************************************************)
EXTENDS MCServices, Execution_proofs, Updates_proofs, TLAPS

\* Two writers never serve the same identity, and the one that has not
\* published, or has already unlinked, is not the one on disk.
Ownership ==
  /\ \A p, q \in Procs : lockId[p] = lockId[q] /\ lockId[p] # None => p = q
  /\ \A p \in Procs : pc[p] \in {"publish", "close"} => lock # lockId[p]

\* What a writer has read and proved is still true, whoever moved since.
Evidence ==
  \A p \in Procs :
    /\ pc[p] \in {"challenge", "rechallenge", "decide", "unlinkStale"} => seen[p] \in LockIds
    /\ pc[p] = "unlinkStale" => verdict[p] = "stale"
    /\ verdict[p] = "stale" => seen[p] \notin listening
    /\ pc[p] \notin {"rechallenge", "decide", "unlinkStale"} => verdict[p] # "stale"

\* While no unlink has gone astray, the lock on disk is the holder's.
HolderOnDisk ==
  ~foreignUnlink => \A p \in Procs : pc[p] \in Holding => lock = lockId[p]

\* Before the first orphan, whatever identity is on disk is being served, and
\* nobody is about to remove it.
OwnerAlive ==
  ~orphaned =>
    /\ ~foreignUnlink
    /\ lock \in LockIds => lock \in listening
    /\ \A p \in Procs : pc[p] # "unlinkStale"

IInv == TypeOK /\ Ownership /\ Evidence /\ HolderOnDisk /\ OwnerAlive

-----------------------------------------------------------------------------
USE LockAssumption

\* The invariant holds when no writer has started, whatever lock file is found.
LEMMA InitIInv == Init => IInv
  <1> SUFFICES ASSUME Init PROVE IInv
    OBVIOUS
  <1> USE DEF Init, Phases, Idle, Acquiring, Serving, Holding
  <1>1. orphaned \in BOOLEAN /\ (~orphaned => lock \notin LockIds)
    <2>1. orphaned = (lock \in LockIds)
      OBVIOUS
    <2>2. (lock \in LockIds) \in BOOLEAN
      OBVIOUS
    <2>3. QED BY <2>1, <2>2
  <1>2. TypeOK BY <1>1 DEF TypeOK
  <1>3. Ownership BY DEF Ownership
  <1>4. Evidence BY DEF Evidence
  <1>5. HolderOnDisk BY DEF HolderOnDisk
  <1>6. OwnerAlive BY <1>1 DEF OwnerAlive
  <1>7. QED BY <1>2, <1>3, <1>4, <1>5, <1>6 DEF IInv

\* Starting a call of acquireTaskStateLock keeps the invariant.
LEMMA BeginStep == ASSUME NEW p \in Procs, IInv, Begin(p) PROVE IInv'
  <1> USE DEF IInv, Goto, Phases, Idle, Acquiring, Serving, Holding
  <1>1. TypeOK' BY DEF Begin, TypeOK
  <1>2. Ownership' BY DEF Begin, Ownership
  <1>3. Evidence' BY DEF Begin, Evidence
  <1>4. HolderOnDisk' BY DEF Begin, HolderOnDisk
  <1>5. OwnerAlive' BY DEF Begin, OwnerAlive
  <1>6. QED BY <1>1, <1>2, <1>3, <1>4, <1>5

\* A fresh identity is served by one writer only, and is not on disk.
LEMMA CreateStep == ASSUME NEW p \in Procs, IInv, Create(p) PROVE IInv'
  <1> USE DEF IInv, Goto, Phases, Idle, Acquiring, Serving, Holding
  <1>1. TypeOK' BY DEF Create, TypeOK
  <1>2. Ownership' BY DEF Create, Fresh, TypeOK, Ownership
  <1>3. Evidence' BY DEF Create, Fresh, Evidence
  <1>4. HolderOnDisk' BY DEF Create, HolderOnDisk
  <1>5. OwnerAlive' BY DEF Create, OwnerAlive
  <1>6. QED BY <1>1, <1>2, <1>3, <1>4, <1>5

\* The exclusive link publishes the identity of the writer that now holds.
LEMMA PublishStep == ASSUME NEW p \in Procs, IInv, Publish(p) PROVE IInv'
  <1> USE DEF IInv, Goto, Phases, Idle, Acquiring, Serving, Holding
  <1>1. TypeOK' BY DEF Publish, TypeOK
  <1>2. Ownership' BY DEF Publish, TypeOK, Ownership
  <1>3. Evidence' BY DEF Publish, Evidence
  <1>4. HolderOnDisk' BY DEF Publish, Linkable, TypeOK, HolderOnDisk
  <1>5. OwnerAlive' BY DEF Publish, TypeOK, OwnerAlive
  <1>6. QED BY <1>1, <1>2, <1>3, <1>4, <1>5

\* A link whose cleanup fails leaves an orphan, and says so in the history.
LEMMA PublishAndFailStep == ASSUME NEW p \in Procs, IInv, PublishAndFail(p) PROVE IInv'
  <1> USE DEF IInv, Goto, Phases, Idle, Acquiring, Serving, Holding
  <1>1. TypeOK' BY DEF PublishAndFail, Unserve, TypeOK, Ownership
  <1>2. Ownership' BY DEF PublishAndFail, Unserve, TypeOK, Ownership
  <1>3. Evidence' BY DEF PublishAndFail, Unserve, Evidence
  <1>4. HolderOnDisk' BY DEF PublishAndFail, TypeOK, HolderOnDisk
  <1>5. OwnerAlive' BY DEF PublishAndFail, OwnerAlive
  <1>6. QED BY <1>1, <1>2, <1>3, <1>4, <1>5

\* A contender that finds a lock file withdraws its own identity.
LEMMA CollideStep == ASSUME NEW p \in Procs, IInv, Collide(p) PROVE IInv'
  <1> USE DEF IInv, Goto, Phases, Idle, Acquiring, Serving, Holding
  <1>1. TypeOK' BY DEF Collide, Unserve, TypeOK, Ownership
  <1>2. Ownership' BY DEF Collide, Unserve, Ownership
  <1>3. Evidence' BY DEF Collide, Unserve, Evidence
  <1>4. HolderOnDisk' BY DEF Collide, Unserve, HolderOnDisk
  <1>5. OwnerAlive' BY DEF Collide, Unserve, Ownership, OwnerAlive
  <1>6. QED BY <1>1, <1>2, <1>3, <1>4, <1>5

\* Reading the lock file records an identity, which is not yet judged.
LEMMA InspectStep == ASSUME NEW p \in Procs, IInv, Inspect(p) PROVE IInv'
  <1> USE DEF IInv, Goto, Phases, Idle, Acquiring, Serving, Holding
  <1>1. TypeOK' BY DEF Inspect, Leave, TypeOK
  <1>2. Ownership' BY DEF Inspect, Leave, TypeOK, Ownership
  <1>3. Evidence' BY DEF Inspect, Leave, TypeOK, Evidence
  <1>4. HolderOnDisk' BY DEF Inspect, Leave, TypeOK, HolderOnDisk
  <1>5. OwnerAlive' BY DEF Inspect, Leave, TypeOK, OwnerAlive
  <1>6. QED BY <1>1, <1>2, <1>3, <1>4, <1>5

\* A refused connection is evidence that the identity is no longer served.
LEMMA ChallengeStep == ASSUME NEW p \in Procs, IInv, Challenge(p) PROVE IInv'
  <1> USE DEF IInv, Goto, Phases, Idle, Acquiring, Serving, Holding
  <1>1. TypeOK' BY DEF Challenge, Answers, TypeOK
  <1>2. Ownership' BY DEF Challenge, Ownership
  <1>3. Evidence' BY DEF Challenge, Answers, TypeOK, Evidence
  <1>4. HolderOnDisk' BY DEF Challenge, HolderOnDisk
  <1>5. OwnerAlive' BY DEF Challenge, OwnerAlive
  <1>6. QED BY <1>1, <1>2, <1>3, <1>4, <1>5

\* The second answer makes stale only what both connections refused.
LEMMA RechallengeStep == ASSUME NEW p \in Procs, IInv, Rechallenge(p) PROVE IInv'
  <1> USE DEF IInv, Goto, Phases, Idle, Acquiring, Serving, Holding
  <1>1. TypeOK' BY DEF Rechallenge, Combine, TypeOK
  <1>2. Ownership' BY DEF Rechallenge, Ownership
  <1>3. Evidence' BY DEF Rechallenge, Combine, Evidence
  <1>4. HolderOnDisk' BY DEF Rechallenge, HolderOnDisk
  <1>5. OwnerAlive' BY DEF Rechallenge, OwnerAlive
  <1>6. QED BY <1>1, <1>2, <1>3, <1>4, <1>5

\* Waiting for a live owner keeps the invariant.
LEMMA DecideLiveStep == ASSUME NEW p \in Procs, IInv, DecideLive(p) PROVE IInv'
  <1> USE DEF IInv, Goto, Phases, Idle, Acquiring, Serving, Holding
  <1>1. TypeOK' BY DEF DecideLive, Leave, TypeOK
  <1>2. Ownership' BY DEF DecideLive, Leave, Ownership
  <1>3. Evidence' BY DEF DecideLive, Leave, TypeOK, Evidence
  <1>4. HolderOnDisk' BY DEF DecideLive, Leave, HolderOnDisk
  <1>5. OwnerAlive' BY DEF DecideLive, Leave, OwnerAlive
  <1>6. QED BY <1>1, <1>2, <1>3, <1>4, <1>5

\* A writer sets out to remove only bytes equal to those it proved stale.
LEMMA DecideStaleStep == ASSUME NEW p \in Procs, IInv, DecideStale(p) PROVE IInv'
  <1> USE DEF IInv, Goto, Phases, Idle, Acquiring, Serving, Holding
  <1>1. TypeOK' BY DEF DecideStale, Leave, TypeOK
  <1>2. Ownership' BY DEF DecideStale, Leave, TypeOK, Ownership
  <1>3. Evidence' BY DEF DecideStale, Leave, TypeOK, Evidence
  <1>4. HolderOnDisk' BY DEF DecideStale, Leave, TypeOK, HolderOnDisk
  <1>5. OwnerAlive' BY DEF DecideStale, Leave, ComparesEqual, TypeOK, Evidence, OwnerAlive
  <1>6. QED BY <1>1, <1>2, <1>3, <1>4, <1>5

\* Unproven ownership removes nothing.
LEMMA DecideUnknownStep == ASSUME NEW p \in Procs, IInv, DecideUnknown(p) PROVE IInv'
  <1> USE DEF IInv, Goto, Phases, Idle, Acquiring, Serving, Holding
  <1>1. TypeOK' BY DEF DecideUnknown, Leave, TypeOK
  <1>2. Ownership' BY DEF DecideUnknown, Leave, Ownership
  <1>3. Evidence' BY DEF DecideUnknown, Leave, TypeOK, Evidence
  <1>4. HolderOnDisk' BY DEF DecideUnknown, Leave, HolderOnDisk
  <1>5. OwnerAlive' BY DEF DecideUnknown, Leave, OwnerAlive
  <1>6. QED BY <1>1, <1>2, <1>3, <1>4, <1>5

\* Removing a stale lock leaves no lock, or counts as a foreign unlink.
LEMMA UnlinkStaleStep == ASSUME NEW p \in Procs, IInv, UnlinkStale(p) PROVE IInv'
  <1> USE DEF IInv, Goto, Phases, Idle, Acquiring, Serving, Holding
  <1>1. TypeOK' BY DEF UnlinkStale, Leave, TypeOK
  <1>2. Ownership' BY DEF UnlinkStale, Leave, TypeOK, Ownership
  <1>3. Evidence' BY DEF UnlinkStale, Leave, TypeOK, Evidence
  <1>4. HolderOnDisk' BY DEF UnlinkStale, Leave, TypeOK, Ownership, Evidence, HolderOnDisk
  <1>5. OwnerAlive' BY DEF UnlinkStale, OwnerAlive
  <1>6. QED BY <1>1, <1>2, <1>3, <1>4, <1>5

\* The comparison of release finds the holder its own lock.
LEMMA ReleaseStep == ASSUME NEW p \in Procs, IInv, Release(p) PROVE IInv'
  <1> USE DEF IInv, Goto, Phases, Idle, Acquiring, Serving, Holding
  <1>1. TypeOK' BY DEF Release, TypeOK
  <1>2. Ownership' BY DEF Release, Ownership
  <1>3. Evidence' BY DEF Release, Evidence
  <1>4. HolderOnDisk' BY DEF Release, HolderOnDisk
  <1>5. OwnerAlive' BY DEF Release, OwnerAlive
  <1>6. QED BY <1>1, <1>2, <1>3, <1>4, <1>5

\* Unlinking the own lock leaves no lock, or counts as a foreign unlink.
LEMMA UnlinkOwnStep == ASSUME NEW p \in Procs, IInv, UnlinkOwn(p) PROVE IInv'
  <1> USE DEF IInv, Goto, Phases, Idle, Acquiring, Serving, Holding
  <1>1. TypeOK' BY DEF UnlinkOwn, TypeOK
  <1>2. Ownership' BY DEF UnlinkOwn, TypeOK, Ownership
  <1>3. Evidence' BY DEF UnlinkOwn, Evidence
  <1>4. HolderOnDisk' BY DEF UnlinkOwn, TypeOK, Ownership, HolderOnDisk
  <1>5. OwnerAlive' BY DEF UnlinkOwn, TypeOK, HolderOnDisk, OwnerAlive
  <1>6. QED BY <1>1, <1>2, <1>3, <1>4, <1>5

\* Closing the server withdraws an identity that is not on disk.
LEMMA CloseServerStep == ASSUME NEW p \in Procs, IInv, CloseServer(p) PROVE IInv'
  <1> USE DEF IInv, Goto, Phases, Idle, Acquiring, Serving, Holding
  <1>1. TypeOK' BY DEF CloseServer, Unserve, TypeOK, Ownership
  <1>2. Ownership' BY DEF CloseServer, Unserve, TypeOK, Ownership
  <1>3. Evidence' BY DEF CloseServer, Unserve, Evidence
  <1>4. HolderOnDisk' BY DEF CloseServer, Unserve, HolderOnDisk
  <1>5. OwnerAlive' BY DEF CloseServer, Unserve, Ownership, OwnerAlive
  <1>6. QED BY <1>1, <1>2, <1>3, <1>4, <1>5

\* The end of the wait budget touches no lock.
LEMMA ExpireStep == ASSUME NEW p \in Procs, IInv, Expire(p) PROVE IInv'
  <1> USE DEF IInv, Goto, Phases, Idle, Acquiring, Serving, Holding
  <1>1. TypeOK' BY DEF Expire, TypeOK
  <1>2. Ownership' BY DEF Expire, Ownership
  <1>3. Evidence' BY DEF Expire, Evidence
  <1>4. HolderOnDisk' BY DEF Expire, HolderOnDisk
  <1>5. OwnerAlive' BY DEF Expire, OwnerAlive
  <1>6. QED BY <1>1, <1>2, <1>3, <1>4, <1>5

\* A death withdraws the identity and orphans the lock it leaves.
LEMMA CrashStep == ASSUME NEW p \in Procs, IInv, Crash(p) PROVE IInv'
  <1> USE DEF IInv, Goto, Phases, Idle, Acquiring, Serving, Holding
  <1>1. TypeOK' BY DEF Crash, Unserve, Leave, TypeOK, Ownership
  <1>2. Ownership' BY DEF Crash, Unserve, Leave, TypeOK, Ownership
  <1>3. Evidence' BY DEF Crash, Unserve, Leave, TypeOK, Evidence
  <1>4. HolderOnDisk' BY DEF Crash, Unserve, Leave, TypeOK, HolderOnDisk
  <1>5. OwnerAlive'
    <2>1. ~orphaned' => ~orphaned /\ lock # lockId[p]
      BY Zenon DEF Crash
    <2>2. QED
      BY <2>1 DEF Crash, Unserve, Leave, OwnerAlive
  <1>6. QED BY <1>1, <1>2, <1>3, <1>4, <1>5

\* Removing a malformed lock by hand disturbs no owner.
LEMMA ManualRemovalStep == IInv /\ ManualRemoval => IInv'
  BY DEF ManualRemoval, IInv, TypeOK, Ownership, Evidence, HolderOnDisk,
         OwnerAlive, Phases, Idle, Acquiring, Serving, Holding

\* The invariant is a formula about vars.
LEMMA StutterStep == IInv /\ UNCHANGED vars => IInv'
  BY DEF vars, IInv, TypeOK, Ownership, Evidence, HolderOnDisk, OwnerAlive

LEMMA LockStep == IInv /\ [Next]_vars => IInv'
  <1> SUFFICES ASSUME IInv, [Next]_vars PROVE IInv'
    OBVIOUS
  <1>1. ASSUME NEW p \in Procs, Begin(p) \/ Step(p) \/ Expire(p) \/ Crash(p)
        PROVE  IInv'
    BY <1>1, BeginStep, CreateStep, PublishStep, PublishAndFailStep, CollideStep, InspectStep,
       ChallengeStep, RechallengeStep, DecideLiveStep, DecideStaleStep, DecideUnknownStep,
       UnlinkStaleStep, ReleaseStep, UnlinkOwnStep, CloseServerStep, ExpireStep, CrashStep
    DEF Step
  <1>2. QED
    BY <1>1, ManualRemovalStep, StutterStep DEF Next

\* The whole invariant holds in every reachable state, for every set of writers.
THEOREM Invariance == Spec => []IInv
  BY InitIInv, LockStep, PTL DEF Spec

\* Every variable keeps its type, and a challenge server runs exactly while its
\* writer is between listening and closeServer.
THEOREM TypeCorrect == Spec => []TypeOK
  BY Invariance, PTL DEF IInv

\* A holder's identity is unique, so two holders would be two owners of the
\* same bytes on disk.
LEMMA DiskExcludes ==
  ASSUME TypeOK, Ownership, \A p \in Procs : pc[p] = "held" => lock = lockId[p]
  PROVE  MutualExclusion
  BY DEF TypeOK, Ownership, MutualExclusion, Serving, Holding

\* With any number of crashes the lock excludes until an unlink removes bytes
\* other than the compared ones (lock.ts 318-324 and 285-286).
THEOREM ExclusionUntilForeignUnlink == Spec => []ExclusiveUntilForeignUnlink
  <1>1. IInv => ExclusiveUntilForeignUnlink
    BY DiskExcludes DEF IInv, HolderOnDisk, Holding, ExclusiveUntilForeignUnlink
  <1>2. QED BY <1>1, Invariance, PTL

\* While every owner outlives its published lock, the lock excludes.
THEOREM ExclusionUntilOrphaned == Spec => []ExclusiveUntilOrphaned
  <1>1. IInv => ExclusiveUntilOrphaned
    BY DiskExcludes DEF IInv, HolderOnDisk, OwnerAlive, Holding, ExclusiveUntilOrphaned
  <1>2. QED BY <1>1, Invariance, PTL

\* Only a dead owner's lock is ever chosen for removal.
THEOREM OnlyDeadReclaimed == Spec => []StaleMeansDead
  <1>1. IInv => StaleMeansDead
    BY DEF IInv, Evidence, StaleMeansDead
  <1>2. QED BY <1>1, Invariance, PTL
\* Nobody creates a malformed lock, so while there is one nobody has read or published any other.
MalformedAlone ==
  lock = Malformed =>
    \A p \in Procs : pc[p] \notin {"challenge", "rechallenge", "decide", "unlinkStale", "held",
                                   "unlinkOwn", "close"}

LEMMA MalformedStep == IInv /\ MalformedAlone /\ [Next]_vars => MalformedAlone'
  <1> SUFFICES ASSUME IInv, MalformedAlone, [Next]_vars, lock' = Malformed PROVE MalformedAlone'
    BY DEF MalformedAlone
  <1>0. /\ lockId \in [Procs -> LockIds \union {None}] /\ DOMAIN pc = Procs
        /\ Malformed \notin LockIds \union {None}
    BY DEF IInv, TypeOK
  <1>1. lock = Malformed
    BY <1>0 DEF Next, vars, Begin, Step, Create, Publish, PublishAndFail, Collide, Inspect,
                Challenge,
       Rechallenge, DecideLive, DecideStale, DecideUnknown, UnlinkStale, Release, UnlinkOwn,
       CloseServer, Expire, Crash, ManualRemoval
  <1>2. CASE UNCHANGED pc
    BY <1>1, <1>2 DEF MalformedAlone
  <1>3. ASSUME NEW p \in Procs, NEW phase,
               phase \in {"create", "publish", "inspect", "recheck", "failed", "idle"}, Goto(p, phase)
        PROVE  MalformedAlone'
    BY <1>0, <1>1, <1>3 DEF MalformedAlone, Goto
  <1>4. ASSUME NEW p \in Procs, Begin(p) \/ Step(p) \/ Expire(p) \/ Crash(p) PROVE MalformedAlone'
    <2>1. pc[p] \notin {"challenge", "rechallenge", "decide", "unlinkStale", "held", "unlinkOwn",
                        "close"}
      BY <1>1 DEF MalformedAlone
    <2>2. CASE Begin(p) \/ Create(p) \/ Collide(p) \/ Crash(p)
      BY <1>3, <2>2 DEF Begin, Create, Collide, Crash, Leave
    <2>3. CASE Inspect(p)
      BY <1>0, <1>1, <1>3, <2>3 DEF Inspect, Leave
    <2>4. CASE Publish(p) \/ PublishAndFail(p)
      BY <1>0, <1>1, <2>4 DEF Publish, PublishAndFail, Linkable
    <2>5. CASE Expire(p)
      BY <1>2, <2>5 DEF Expire
    <2>6. QED BY <1>4, <2>1, <2>2, <2>3, <2>4, <2>5
              DEF Step, Challenge, Rechallenge, DecideLive, DecideStale, DecideUnknown,
                  UnlinkStale,
                  Release, UnlinkOwn, CloseServer
  <1>5. QED BY <1>2, <1>4 DEF Next, vars, ManualRemoval

\* However many writers try, a malformed lock goes only when a person removes it: no writer moves
\* or takes an identity in that step (lock.ts, inspectLock and the manual-recovery error).
THEOREM MalformedAlwaysKept == Spec => MalformedKept
  <1>1. Init => MalformedAlone
    BY DEF Init, MalformedAlone
  <1>2. IInv /\ MalformedAlone /\ [Next]_vars
          => [lock = Malformed /\ lock' # Malformed => UNCHANGED <<pc, lockId>>]_vars
    <2> SUFFICES ASSUME IInv, MalformedAlone, Next, lock = Malformed, lock' # Malformed
                 PROVE  UNCHANGED <<pc, lockId>>
      OBVIOUS
    <2>1. Malformed # None
      BY DEF IInv, TypeOK
    <2>2. ASSUME NEW p \in Procs PROVE ~(Begin(p) \/ Step(p) \/ Expire(p) \/ Crash(p))
      BY <2>1 DEF MalformedAlone, Begin, Step, Create, Publish, PublishAndFail, Linkable, Collide,
         Inspect, Challenge, Rechallenge, DecideLive, DecideStale, DecideUnknown, UnlinkStale,
         Release, UnlinkOwn, CloseServer, Expire, Crash
    <2>3. QED BY <2>2 DEF Next, ManualRemoval
  <1>3. QED BY <1>1, <1>2, InitIInv, LockStep, MalformedStep, PTL DEF Spec, MalformedKept

HIDE LockAssumption

-----------------------------------------------------------------------------
\* What each service keeps, whichever of them moves.
ServicesKeep == IInv /\ SessionsIInv /\ SchedulerIInv /\ ReviewsIInv /\ ToolIInv /\ UpdatesIInv

LEMMA ServicesStep == ServicesKeep /\ [MCNext]_allVars => ServicesKeep'
  <1> SUFFICES ASSUME ServicesKeep, [MCNext]_allVars PROVE ServicesKeep'
    OBVIOUS
  <1>1. [Next]_vars
    BY DEF MCNext, allVars
  <1>2. [SessionsNext]_sessionVars
    BY DEF MCNext, allVars
  <1>3. [SchedulerNext]_schedulerVars
    BY DEF MCNext, allVars
  <1>4. [ReviewsNext]_reviewVars
    BY DEF MCNext, allVars
  <1>5. [ManagedToolNext]_toolVars
    BY DEF MCNext, allVars
  <1>6. [UpdatesNext]_updateVars
    BY DEF MCNext, allVars
  <1>7. QED
    BY <1>1, <1>2, <1>3, <1>4, <1>5, <1>6, LockStep, SessionsStep, SchedulerStep, ReviewsStep,
       ToolStepKeeps, UpdatesStep
    DEF ServicesKeep

\* The types of all services, whichever of them moves and for any values of their constants.
THEOREM ServicesTypesHold == MCSpec => []TypesOK
  <1>1. MCInit => ServicesKeep
    BY InitIInv, InitSessions, InitScheduler, ReviewsInitial, ToolInitial, UpdatesInitial
    DEF MCInit, ServicesKeep
  <1>2. ServicesKeep => TypesOK
    BY SessionTypesKept, ScheduleTypesKept, ReviewTypesKept, ToolTypesKept, UpdateTypesKept
    DEF ServicesKeep, IInv, TypesOK
  <1>3. QED BY <1>1, <1>2, ServicesStep, PTL DEF MCSpec

=============================================================================
