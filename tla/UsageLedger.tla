----------------------------- MODULE UsageLedger -----------------------------
(***************************************************************************)
(* The local usage ledger (src/usage/service.ts, observe.ts, store.ts).    *)
(* An invocation of a provider is observed when usage is enabled: a        *)
(* version probe, the inference, then one record of what it reported.      *)
(* Observations are delivered late, twice and out of order; a record is    *)
(* found again by its key and replaced when the observation is not older.  *)
(* Every write holds the task-state lock and is one step.                  *)
(***************************************************************************)
EXTENDS Naturals, FiniteSets

CONSTANTS Invocations,  \* observed invocations, each with its own identity
          Unknown,      \* no provider version could be established
          Retention,    \* how long a record is kept
          MaxUsage,     \* records the ledger holds
          MaxTime,      \* bound: observations
          MaxSettings   \* bound: changes of the settings

ASSUME UsageAssumption ==
  /\ Unknown \notin Nat
  /\ Retention \in Nat /\ MaxTime \in Nat /\ MaxSettings \in Nat
  /\ MaxUsage \in Nat \ {0}

VARIABLES ledger,       \* the records kept
          observing,    \* whether usage is enabled
          observation,  \* how far the observation of each invocation is
          time,         \* the clock: a tick an observation
          settings      \* changes of the settings so far

usageVars == <<ledger, observing, observation, time, settings>>

NotObserved == [at |-> "idle"]

UsageInit ==
  /\ ledger = {}
  /\ observing \in BOOLEAN
  /\ observation = [i \in Invocations |-> NotObserved]
  /\ time = 0
  /\ settings = 0

(* The key of a record: an unavailable record and a measured one of the    *)
(* same invocation have different keys, and so have two versions.          *)
KeyOf(i, version, measured) == [invocation |-> i, version |-> version, measured |-> measured]

Kept(records) == {r \in records : r.occurred + Retention >= time}
Bounded(records) ==
  IF Cardinality(records) <= MaxUsage THEN records
  ELSE records \ {CHOOSE r \in records : \A s \in records : r.occurred <= s.occurred}

-----------------------------------------------------------------------------
(* observeProviderInvocation: the settings are read first.  A version that *)
(* cannot be established makes the counts unavailable.                     *)
BeginObservation(i) ==
  /\ observation[i].at = "idle"
  /\ observing
  /\ \E version \in {1, Unknown} :
       observation' = [observation EXCEPT ![i] = [at |-> "invoking", version |-> version]]
  /\ UNCHANGED <<ledger, observing, time, settings>>

(* The inference returns, fails or is cancelled; its output may carry a    *)
(* usage event.  A cancelled probe launches nothing.                       *)
CancelProbe(i) ==
  /\ observation[i].at = "invoking"
  /\ observation' = [observation EXCEPT ![i] = NotObserved]
  /\ UNCHANGED <<ledger, observing, time, settings>>

Infer(i) ==
  /\ observation[i].at = "invoking"
  /\ time < MaxTime
  /\ time' = time + 1
  /\ \E reported \in BOOLEAN :
       observation' = [observation EXCEPT ![i] =
         [at |-> "reported", observed |-> time + 1, occurred |-> time + 1,
          key |-> KeyOf(i, observation[i].version, reported /\ observation[i].version # Unknown)]]
  /\ UNCHANGED <<ledger, observing, settings>>

(* The provider reports again what it reported before, as of now: a        *)
(* correction, or the same invocation run again after a restart.           *)
ObserveAgain(i) ==
  /\ observation[i].at = "recorded"
  /\ time < MaxTime
  /\ time' = time + 1
  /\ observation' = [observation EXCEPT ![i] = [@ EXCEPT !.at = "reported", !.observed = time + 1]]
  /\ UNCHANGED <<ledger, observing, settings>>

(* Delivered once more as it is, by the command line or the API, after an  *)
(* older or a newer delivery of the same observation.                      *)
Redeliver(i) ==
  /\ observation[i].at = "recorded"
  /\ \E observed \in observation[i].occurred..observation[i].observed :
       observation' = [observation EXCEPT ![i] = [@ EXCEPT !.at = "reported", !.observed = observed]]
  /\ UNCHANGED <<ledger, observing, time, settings>>

(* recordProviderUsage reads the settings without the lock, and again      *)
(* under it.                                                               *)
Receive(i) ==
  /\ observation[i].at = "reported"
  /\ observation' = [observation EXCEPT ![i] = IF observing THEN [@ EXCEPT !.at = "parsed"] ELSE NotObserved]
  /\ UNCHANGED <<ledger, observing, time, settings>>

Candidate(i) == [key |-> observation[i].key, observed |-> observation[i].observed, occurred |-> observation[i].occurred]
AlwaysNewer(candidate, r) == TRUE
NotOlder(candidate, r) == candidate.observed >= r.observed

Merged(records, candidate) ==
  LET same == {r \in records : r.key = candidate.key}
  IN IF \A r \in same : NotOlder(candidate, r)
     THEN (records \ same) \union {candidate}
     ELSE records

StillOn == observing

Store(i) ==
  /\ observation[i].at = "parsed"
  /\ ledger' = IF StillOn THEN Bounded(Merged(Kept(ledger), Candidate(i))) ELSE ledger
  /\ observation' = [observation EXCEPT ![i].at = "recorded"]
  /\ UNCHANGED <<observing, time, settings>>

ForgetInvocation(i) ==
  /\ observation[i].at = "recorded"
  /\ observation' = [observation EXCEPT ![i] = NotObserved]
  /\ UNCHANGED <<ledger, observing, time, settings>>

(* The counts inspectUsage shows: within the retention, and available. *)
ShownCounts == Cardinality({r \in Kept(ledger) : r.key.measured})

(* configureUsage, deleteUsage and enforceUsageRetention. *)
ConfigureUsage ==
  /\ settings < MaxSettings
  /\ settings' = settings + 1
  /\ observing' \in BOOLEAN
  /\ ledger' = Kept(ledger)
  /\ UNCHANGED <<observation, time>>

DeleteUsage ==
  /\ settings < MaxSettings
  /\ settings' = settings + 1
  /\ ledger' = {}
  /\ UNCHANGED <<observing, observation, time>>

EnforceRetention ==
  /\ ledger' = Kept(ledger)
  /\ UNCHANGED <<observing, observation, time, settings>>

UsageNext ==
  \/ \E i \in Invocations :
       \/ BeginObservation(i) \/ CancelProbe(i) \/ Infer(i) \/ ObserveAgain(i)
       \/ Redeliver(i) \/ Receive(i) \/ Store(i) \/ ForgetInvocation(i)
  \/ ConfigureUsage \/ DeleteUsage \/ EnforceRetention

UsageSpec == UsageInit /\ [][UsageNext]_usageVars

-----------------------------------------------------------------------------
UsageTypeOK ==
  /\ Cardinality(ledger) <= MaxUsage
  /\ observing \in BOOLEAN
  /\ time \in 0..MaxTime /\ settings \in 0..MaxSettings
  /\ \A r \in ledger : r.occurred <= r.observed /\ r.observed <= time

(* Replays correct and never count again: a key has one record and is      *)
(* counted once, no step                                                   *)
(* puts an older observation in the place of a newer one that is still     *)
(* within its retention (an expired one is dropped before the delivery     *)
(* that brings it back is looked at), and once usage is off nothing        *)
(* is recorded, not even by a call that found it on                        *)
(* (recordProviderUsage).                                                  *)
ReplaysOnlyCorrect ==
  [][/\ \A r, s \in ledger' : r.key = s.key => r = s
     /\ ShownCounts <= Cardinality({r.key : r \in ledger})
     /\ \A r \in Kept(ledger), s \in ledger' : r.key = s.key => s.observed >= r.observed
     /\ ~observing => ledger' \subseteq ledger]_usageVars

=============================================================================
