--------------------------- MODULE TaskStateLock ---------------------------
(***************************************************************************)
(* The task-state lock of src/src/task-state/lock.ts, which serialises     *)
(* every writer of task, workflow, fence, schedule and registry state.     *)
(*                                                                         *)
(* The lock is a file, published by an exclusive hard link.  Its bytes     *)
(* name a loopback endpoint whose server, run by the owner, signs          *)
(* challenges.  A contender that finds the file challenges the endpoint    *)
(* twice: a signed answer proves the owner alive, two refused connections  *)
(* prove it dead, anything else proves nothing.  A dead owner's lock is    *)
(* removed after comparing the bytes, and the compare and the unlink are   *)
(* two separate system calls.                                              *)
(*                                                                         *)
(* A lock id stands for the whole metadata of one acquisition (UUID, port, *)
(* key).  UUIDs are fresh, so an id may be chosen again only when nothing  *)
(* in the state refers to it any more.                                     *)
(***************************************************************************)
EXTENDS Naturals

CONSTANTS
  Procs,        \* writers: processes, or concurrent calls of one process
  LockIds,      \* identities a lock file can carry
  None,         \* no lock file, no identity
  Malformed     \* a lock file whose bytes are not valid metadata

ASSUME LockAssumption ==
  /\ None \notin LockIds
  /\ Malformed \notin LockIds
  /\ None # Malformed

VARIABLES
  lock,           \* the bytes of .latchkit/tasks/lock
  listening,      \* ids whose challenge server accepts connections
  pc,             \* where each writer is in acquire / operation / release
  lockId,         \* the identity the writer serves, None when it serves none
  seen,           \* the bytes of the lock its inspection read
  verdict,        \* what the challenges of that lock proved so far
  expired,        \* whether the 5 s budget of the acquisition has passed
  orphaned,       \* history: some published lock has lost its owner
  foreignUnlink   \* history: an unlink removed bytes that were not compared

vars == <<lock, listening, pc, lockId, seen, verdict, expired, orphaned, foreignUnlink>>

Idle      == {"idle", "failed"}
Acquiring == {"create", "publish", "inspect", "recheck", "challenge",
              "rechallenge", "decide", "unlinkStale"}
Holding   == {"held", "unlinkOwn"}
Serving   == Holding \union {"publish", "close"}
Phases    == Idle \union Acquiring \union Serving

Goto(p, phase) == pc' = [pc EXCEPT ![p] = phase]

\* closeServer, or the process's death.  (The variant leaves the port open.)
LeavesServer(p) == /\ UNCHANGED listening
                   /\ lockId' = [lockId EXCEPT ![p] = None]
Unserve(p)     == /\ listening' = listening \ {lockId[p]}
                  /\ lockId' = [lockId EXCEPT ![p] = None]

Fresh(id) == /\ id # lock
             /\ \A q \in Procs : id # lockId[q] /\ id # seen[q]

-----------------------------------------------------------------------------
Init ==
  /\ lock \in LockIds \union {None, Malformed}
  /\ listening = {}
  /\ pc = [p \in Procs |-> "idle"]
  /\ lockId = [p \in Procs |-> None]
  /\ seen = [p \in Procs |-> None]
  /\ verdict = [p \in Procs |-> "none"]
  /\ expired = [p \in Procs |-> FALSE]
  /\ orphaned = (lock \in LockIds)   \* left by a process that died earlier
  /\ foreignUnlink = FALSE

\* A call of acquireTaskStateLock starts, with a new deadline.
Begin(p) ==
  /\ pc[p] \in Idle
  /\ expired' = [expired EXCEPT ![p] = FALSE]
  /\ Goto(p, "create")
  /\ UNCHANGED <<lock, listening, lockId, seen, verdict, orphaned, foreignUnlink>>

\* One turn of the loop: new identity, listening server, temporary file.
Create(p) ==
  /\ pc[p] = "create"
  /\ \E id \in LockIds :
       /\ Fresh(id)
       /\ lockId' = [lockId EXCEPT ![p] = id]
       /\ listening' = listening \union {id}
  /\ Goto(p, "publish")
  /\ UNCHANGED <<lock, seen, verdict, expired, orphaned, foreignUnlink>>

\* link(temporary, target) succeeds only when there is no lock file.  (The
\* variant is what a rename would do.)
RenameOverwrites == TRUE
Linkable         == lock = None

Publish(p) ==
  /\ pc[p] = "publish"
  /\ Linkable
  /\ lock' = lockId[p]
  /\ Goto(p, "held")
  /\ UNCHANGED <<listening, lockId, seen, verdict, expired, orphaned, foreignUnlink>>

\* The link succeeded and unlinking the temporary did not: the error handler
\* stops the server and rethrows, and the published file stays.
PublishAndFail(p) ==
  /\ pc[p] = "publish"
  /\ lock = None
  /\ lock' = lockId[p]
  /\ orphaned' = TRUE
  /\ Unserve(p)
  /\ Goto(p, "failed")
  /\ UNCHANGED <<seen, verdict, expired, foreignUnlink>>

\* EEXIST: the contender stops its own server before it inspects the lock.
Collide(p) ==
  /\ pc[p] = "publish"
  /\ lock # None
  /\ Unserve(p)
  /\ Goto(p, "inspect")
  /\ UNCHANGED <<lock, seen, verdict, expired, orphaned, foreignUnlink>>

\* Back to the top of the loop, or out of it with an error.
Leave(p, phase) ==
  /\ Goto(p, phase)
  /\ seen' = [seen EXCEPT ![p] = None]
  /\ verdict' = [verdict EXCEPT ![p] = "none"]

\* A malformed lock is read once more, 25 ms later, and then refused.
Inspect(p) ==
  /\ pc[p] \in {"inspect", "recheck"}
  /\ \/ /\ lock = None
        /\ Leave(p, "create")
     \/ /\ lock = Malformed
        /\ Leave(p, IF pc[p] = "inspect" THEN "recheck" ELSE "failed")
     \/ /\ lock \in LockIds
        /\ seen' = [seen EXCEPT ![p] = lock]
        /\ Goto(p, "challenge")
        /\ UNCHANGED verdict
  /\ UNCHANGED <<lock, listening, lockId, expired, orphaned, foreignUnlink>>

\* What one connection to the endpoint of id can show.  A listening server
\* answers, or is too slow; a closed port refuses the connection, or has been
\* taken over by a stranger who does not know the key.  (The variant takes a
\* timeout for a refusal.)
TimeoutIsRefusal(id) == IF id \in listening THEN {"live", "stale"} ELSE {"stale", "unknown"}
Answers(id) == IF id \in listening THEN {"live", "unknown"} ELSE {"stale", "unknown"}

Challenge(p) ==
  /\ pc[p] = "challenge"
  /\ \E answer \in Answers(seen[p]) :
       /\ verdict' = [verdict EXCEPT ![p] = answer]
       /\ Goto(p, IF answer = "live" THEN "decide" ELSE "rechallenge")
  /\ UNCHANGED <<lock, listening, lockId, seen, expired, orphaned, foreignUnlink>>

\* Stale needs two refusals; one proof of life is enough for live.
Combine(one, two) == IF two = "live" THEN "live"
                     ELSE IF one = "stale" /\ two = "stale" THEN "stale"
                     ELSE "unknown"

Rechallenge(p) ==
  /\ pc[p] = "rechallenge"
  /\ \E answer \in Answers(seen[p]) :
       verdict' = [verdict EXCEPT ![p] = Combine(@, answer)]
  /\ Goto(p, "decide")
  /\ UNCHANGED <<lock, listening, lockId, seen, expired, orphaned, foreignUnlink>>

\* A live owner is waited for until the deadline (TASK_STATE_BUSY).
DecideLive(p) ==
  /\ pc[p] = "decide"
  /\ verdict[p] = "live"
  /\ Leave(p, IF expired[p] THEN "failed" ELSE "create")
  /\ UNCHANGED <<lock, listening, lockId, expired, orphaned, foreignUnlink>>

\* The lock is read again; only the same bytes may be removed.  (The variant
\* trusts the first read.)
SkipsCompare(p)  == lock # None
ComparesEqual(p) == lock = seen[p]

DecideStale(p) ==
  /\ pc[p] = "decide"
  /\ verdict[p] = "stale"
  /\ \/ /\ lock = None
        /\ Leave(p, "create")
     \/ /\ ComparesEqual(p)
        /\ Goto(p, "unlinkStale")
        /\ UNCHANGED <<seen, verdict>>
     \/ /\ lock # None /\ ~ComparesEqual(p)
        /\ Leave(p, IF expired[p] THEN "failed" ELSE "create")
  /\ UNCHANGED <<lock, listening, lockId, expired, orphaned, foreignUnlink>>

\* Unproven ownership: retry while the bytes change or time is left, then
\* TASK_STATE_LOCK_AMBIGUOUS.
GivesUp(p)      == expired[p] /\ lock = seen[p]

DecideUnknown(p) ==
  /\ pc[p] = "decide"
  /\ verdict[p] = "unknown"
  /\ Leave(p, IF GivesUp(p) THEN "failed" ELSE "create")
  /\ UNCHANGED <<lock, listening, lockId, expired, orphaned, foreignUnlink>>

\* removeFile unlinks whatever the path names now; ENOENT escapes the loop.
UnlinkStale(p) ==
  /\ pc[p] = "unlinkStale"
  /\ lock' = None
  /\ foreignUnlink' = (foreignUnlink \/ lock \notin {None, seen[p]})
  /\ Leave(p, IF lock = None THEN "failed" ELSE "create")
  /\ UNCHANGED <<listening, lockId, expired, orphaned>>

\* release(): compare the bytes, unlink if they are our own, stop the server.
Release(p) ==
  /\ pc[p] = "held"
  /\ Goto(p, IF lock = lockId[p] THEN "unlinkOwn" ELSE "close")
  /\ UNCHANGED <<lock, listening, lockId, seen, verdict, expired, orphaned,
                 foreignUnlink>>

UnlinkOwn(p) ==
  /\ pc[p] = "unlinkOwn"
  /\ lock' = None
  /\ foreignUnlink' = (foreignUnlink \/ lock \notin {None, lockId[p]})
  /\ Goto(p, "close")
  /\ UNCHANGED <<listening, lockId, seen, verdict, expired, orphaned>>

CloseServer(p) ==
  /\ pc[p] = "close"
  /\ Unserve(p)
  /\ Goto(p, "idle")
  /\ UNCHANGED <<lock, seen, verdict, expired, orphaned, foreignUnlink>>

\* The 5 s wait budget runs out.
Expire(p) ==
  /\ pc[p] \in Acquiring
  /\ ~expired[p]
  /\ expired' = [expired EXCEPT ![p] = TRUE]
  /\ UNCHANGED <<lock, listening, pc, lockId, seen, verdict, orphaned, foreignUnlink>>

\* The process dies: its port closes, its lock file stays.
Crash(p) ==
  /\ pc[p] \notin Idle
  /\ Unserve(p)
  /\ orphaned' = (orphaned \/ lock = lockId[p])
  /\ Leave(p, "idle")
  /\ UNCHANGED <<lock, expired, foreignUnlink>>

\* A person removes a malformed lock, as the error message asks.
ManualRemoval ==
  /\ lock = Malformed
  /\ lock' = None
  /\ UNCHANGED <<listening, pc, lockId, seen, verdict, expired, orphaned, foreignUnlink>>

Step(p) ==
  \/ Create(p) \/ Publish(p) \/ PublishAndFail(p) \/ Collide(p)
  \/ Inspect(p) \/ Challenge(p) \/ Rechallenge(p)
  \/ DecideLive(p) \/ DecideStale(p) \/ DecideUnknown(p) \/ UnlinkStale(p)
  \/ Release(p) \/ UnlinkOwn(p) \/ CloseServer(p)

Next ==
  \/ \E p \in Procs : Begin(p) \/ Step(p) \/ Expire(p) \/ Crash(p)
  \/ ManualRemoval

\* The event loop runs every writer's next step, timers fire, and the critical
\* sections are bounded file operations.  Nobody is obliged to start a call,
\* to crash, or to clean up by hand.
Fairness == \A p \in Procs : WF_vars(Step(p)) /\ WF_vars(Expire(p))

Spec == Init /\ [][Next]_vars /\ Fairness

-----------------------------------------------------------------------------
\* Types, and that a challenge server runs exactly while its writer is between
\* listening and closeServer: no path out of acquire leaves one behind.
TypeOK ==
  /\ lock \in LockIds \union {None, Malformed}
  /\ listening \in SUBSET LockIds
  /\ pc \in [Procs -> Phases]
  /\ lockId \in [Procs -> LockIds \union {None}]
  /\ seen \in [Procs -> LockIds \union {None}]
  /\ verdict \in [Procs -> {"none", "live", "stale", "unknown"}]
  /\ expired \in [Procs -> BOOLEAN]
  /\ orphaned \in BOOLEAN
  /\ foreignUnlink \in BOOLEAN
  /\ \A p \in Procs : (pc[p] \in Serving) <=> (lockId[p] # None)
  /\ \A id \in LockIds : (id \in listening) <=> \E p \in Procs : lockId[p] = id

\* At most one writer is inside an operation guarded by the lock.
MutualExclusion ==
  \A p, q \in Procs : pc[p] = "held" /\ pc[q] = "held" => p = q

\* Until some published lock loses its owner (a crash, or a failed cleanup of
\* the temporary file), the lock excludes: contention, slow answers, expiring
\* deadlines, taken-over ports and malformed files cannot break it.
ExclusiveUntilOrphaned == ~orphaned => MutualExclusion

\* With crashes, the window between the compare and the unlink of a stale lock
\* is the only hole: as long as no unlink has removed bytes other than the
\* compared ones, the lock excludes, and every holder's lock is the one on disk.
ExclusiveUntilForeignUnlink ==
  ~foreignUnlink =>
    /\ MutualExclusion
    /\ \A p \in Procs : pc[p] = "held" => lock = lockId[p]

\* A writer sets out to remove a lock only when the owner whose bytes it read
\* is gone for good: no slow, busy or restarting owner is ever judged stale.
StaleMeansDead ==
  \A p \in Procs : pc[p] = "unlinkStale" => seen[p] \notin listening

\* No step of a writer removes or replaces a malformed lock; only a person does.
MalformedKept ==
  [][lock = Malformed /\ lock' # Malformed => UNCHANGED <<pc, lockId>>]_vars

\* Others publish locks over and over while p acquires.
Contended(p) == []<><<lock' \in LockIds \ {lock, lockId[p]}>>_lock

\* Every acquisition settles: it gets the lock or an error (or its process dies),
\* whatever the lock file holds, unless other writers take the lock over and over:
\* the turns of the loop that find the lock changed or gone do not look at the
\* deadline, so a call may lose against new owners beyond its budget.
AcquireSettles ==
  \A p \in Procs : Contended(p) \/ (pc[p] \in Acquiring ~> pc[p] \notin Acquiring)
=============================================================================
