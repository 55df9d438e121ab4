----------------------------- MODULE ProjectLock -----------------------------
(***************************************************************************)
(* .latchkit/lock, the lock of every operation on a project                *)
(* (src/installer/lock.ts).  It is created with an exclusive open and      *)
(* written afterwards; its owner serves a challenge that proves it alive.  *)
(* Whoever finds the lock taken is refused at once.  A lock whose owner    *)
(* refuses the connection is proven stale, and only a recovery removes it: *)
(* it inspects, compares the bytes again, and unlinks.                     *)
(***************************************************************************)
EXTENDS Naturals, FiniteSets

CONSTANTS Operators,   \* processes that want to mutate the project
          Recoverers,  \* processes that recover it
          Free,        \* no lock file
          MaxLocks     \* bound: locks ever created

ASSUME ProjectLockAssumption ==
  /\ Free \notin Nat
  /\ MaxLocks \in Nat

VARIABLES lock,       \* Free, or the id of whoever created the file
          made,       \* ids given so far
          written,    \* ids whose metadata is on disk; an open file is empty
          holding,    \* what each operator is doing, and the id it holds
          recovery,   \* what each recoverer has seen
          answering,  \* ids whose owner still answers a challenge
          overtaken   \* a lock was unlinked that nobody had compared

projectLockVars == <<lock, made, written, holding, recovery, answering, overtaken>>

Idle == [at |-> "idle"]
Bystander == [at |-> "idle"]

ProjectLockInit ==
  /\ lock = Free
  /\ made = 0
  /\ written = {}
  /\ holding = [p \in Operators |-> Idle]
  /\ recovery = [r \in Recoverers |-> Bystander]
  /\ answering = {}
  /\ overtaken = FALSE

-----------------------------------------------------------------------------
(* open(target, 'wx'): the endpoint is served before the file exists. *)
CreateLock(p) ==
  /\ holding[p].at = "idle"
  /\ lock = Free
  /\ made < MaxLocks
  /\ made' = made + 1
  /\ lock' = made + 1
  /\ answering' = answering \union {made + 1}
  /\ holding' = [holding EXCEPT ![p] = [at |-> "writing", id |-> made + 1]]
  /\ UNCHANGED <<written, recovery, overtaken>>

(* A write that fails closes the endpoint and leaves the empty file. *)
WriteLock(p) ==
  /\ holding[p].at = "writing"
  /\ \/ /\ written' = written \union {holding[p].id}
        /\ holding' = [holding EXCEPT ![p].at = "held"]
        /\ answering' = answering
     \/ /\ holding' = [holding EXCEPT ![p] = Idle]
        /\ answering' = answering \ {holding[p].id}
        /\ written' = written
  /\ UNCHANGED <<lock, made, recovery, overtaken>>

(* release(): the file is removed when it still holds these bytes. *)
ReleaseLock(p) ==
  /\ holding[p].at = "held"
  /\ lock' = IF lock = holding[p].id THEN Free ELSE lock
  /\ answering' = answering \ {holding[p].id}
  /\ holding' = [holding EXCEPT ![p] = Idle]
  /\ UNCHANGED <<written, made, recovery, overtaken>>

(* The process dies: its endpoint refuses connections from now on. *)
CrashHolder(p) ==
  /\ holding[p].at # "idle"
  /\ answering' = answering \ {holding[p].id}
  /\ holding' = [holding EXCEPT ![p] = Idle]
  /\ UNCHANGED <<written, lock, made, recovery, overtaken>>

(* challenge(): only a refused connection proves a lock stale.  Any silence
   or wrong answer is `unknown', and nothing is removed on it. *)
Verdicts(id) == IF id \in answering THEN {"live", "unknown"} ELSE {"stale", "unknown"}

InspectLock(r) ==
  /\ recovery[r].at = "idle"
  /\ lock \in written
  /\ "stale" \in Verdicts(lock)
  /\ recovery' = [recovery EXCEPT ![r] = [at |-> "stale", id |-> lock]]
  /\ UNCHANGED <<written, lock, made, holding, answering, overtaken>>

(* Mutant of CompareLock: the bytes are not read again. *)
TrustsInspection(r) ==
  /\ recovery[r].at = "stale"
  /\ recovery' = [recovery EXCEPT ![r] = [at |-> "compared", id |-> lock]]
  /\ UNCHANGED <<written, lock, made, holding, answering, overtaken>>

(* removeProvenStaleLock compares ... *)
CompareLock(r) ==
  /\ recovery[r].at = "stale"
  /\ recovery' = [recovery EXCEPT ![r] = IF lock = recovery[r].id
                                         THEN [at |-> "compared", id |-> lock] ELSE Bystander]
  /\ UNCHANGED <<written, lock, made, holding, answering, overtaken>>

(* ... and then unlinks whatever is there. *)
UnlinkLock(r) ==
  /\ recovery[r].at = "compared"
  /\ overtaken' = (overtaken \/ lock \notin {Free, recovery[r].id})
  /\ lock' = Free
  /\ recovery' = [recovery EXCEPT ![r] = Bystander]
  /\ UNCHANGED <<written, made, holding, answering>>

(* A malformed lock is left to a person, who removes it when nobody is
   writing it. *)
RemoveMalformed ==
  /\ lock # Free /\ lock \notin written
  /\ \A p \in Operators : holding[p].at # "writing"
  /\ lock' = Free
  /\ UNCHANGED <<written, made, holding, recovery, answering, overtaken>>

ProjectLockNext ==
  \/ \E p \in Operators : CreateLock(p) \/ WriteLock(p) \/ ReleaseLock(p) \/ CrashHolder(p)
  \/ \E r \in Recoverers : InspectLock(r) \/ CompareLock(r) \/ UnlinkLock(r)
  \/ RemoveMalformed

ProjectLockSpec == ProjectLockInit /\ [][ProjectLockNext]_projectLockVars

-----------------------------------------------------------------------------
Holders == {p \in Operators : holding[p].at = "held"}

ProjectLockTypeOK ==
  /\ lock \in (1 .. made) \union {Free}
  /\ made \in 0 .. MaxLocks
  /\ \A p \in Operators : holding[p] \in {Idle}
       \union [at : {"writing", "held"}, id : 1 .. made]
  /\ answering \subseteq 1 .. made /\ written \subseteq 1 .. made
  /\ overtaken \in BOOLEAN

(* As long as no recovery unlinked a lock that replaced the one it compared,
   at most one operation holds the project, and the file says which. *)
OneOperation ==
  ~overtaken =>
    /\ Cardinality(Holders) <= 1
    /\ \A p \in Holders : lock = holding[p].id
=============================================================================
