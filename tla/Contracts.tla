------------------------------ MODULE Contracts ------------------------------
(***************************************************************************)
(* Contracts between the tasks of a producer and of a consumer             *)
(* (src/task-state/contract-coordination.ts): which content of a producer's*)
(* record the consumer has received, and whether a provider may be         *)
(* launched for the consumer.                                              *)
(*                                                                         *)
(* Changes of the sidecar document are serialised by the task-state lock   *)
(* and journalled: prepared, written, committed.  A crash leaves any       *)
(* prefix, the next caller recovers it, and a caller that had no answer    *)
(* repeats its request under the same id.  Reports read without the lock   *)
(* and never recover.                                                      *)
(***************************************************************************)
EXTENDS Naturals

CONSTANTS Requests,                     \* mutation ids
          Terms,                        \* contents of the producer's record
          Unwritten,                    \* no document, no digest
          MaxMoves, MaxContractCrashes  \* bounds

ASSUME ContractsAssumption == Unwritten \notin Terms /\ MaxMoves \in Nat

VARIABLES producer,    \* the producer's task: its revision and content
          consumer,    \* revision of the consumer's task
          document,    \* the association on disk
          contractJournal,
          asked,       \* what each request asks, once it was sent
          caller,      \* the request that holds the lock
          check,       \* a freshness check under way
          dispatched,  \* content and consumer revision of each launch
          agreed,      \* accepted contents and where the consumer received them
          moves, contractCrashes

contractVars == <<producer, consumer, document, contractJournal, asked, caller, check,
                  dispatched, agreed, moves, contractCrashes>>

NoCaller == [step |-> "none"]
NoCheck == [step |-> "none"]
NotAsked == [kind |-> "none"]
NoAssociation == [revision |-> 0, digest |-> Unwritten, status |-> "none",
                  acknowledged |-> Unwritten, at |-> 0, current |-> FALSE, done |-> {}]

ContractsInit ==
  /\ producer \in [revision : {1}, text : Terms]
  /\ consumer = 1
  /\ document \in {NoAssociation,
       [NoAssociation EXCEPT !.revision = 1, !.digest = producer.text,
                             !.status = "accepted", !.current = TRUE]}
  /\ contractJournal = [state |-> "none"]
  /\ asked = [r \in Requests |-> NotAsked]
  /\ caller = NoCaller /\ check = NoCheck
  /\ dispatched = {} /\ agreed = {}
  /\ moves = 0 /\ contractCrashes = 0

(* The other mutations of the two tasks. *)
TaskMoves ==
  /\ moves < MaxMoves /\ caller = NoCaller
  /\ moves' = moves + 1
  /\ \/ /\ \E t \in Terms : producer' = [revision |-> producer.revision + 1, text |-> t]
        /\ consumer' = consumer
     \/ consumer' = consumer + 1 /\ producer' = producer
  /\ UNCHANGED <<document, contractJournal, asked, caller, check, dispatched, agreed,
                 contractCrashes>>

(* A request names the revisions it was built on; a retry is the same. *)
Send(r) ==
  /\ caller = NoCaller
  /\ IF asked[r] = NotAsked
       THEN \E kind \in {"create", "accept", "propose", "acknowledge"} :
              asked' = [asked EXCEPT ![r] =
                [kind |-> kind, revision |-> document.revision,
                 producer |-> producer.revision, consumer |-> consumer,
                 digest |-> document.digest]]
       ELSE asked' = asked
  /\ caller' = [step |-> "recover", request |-> r]
  /\ UNCHANGED <<producer, consumer, document, contractJournal, check, dispatched, agreed,
                 moves, contractCrashes>>

(* recover: a prepared journal is finished when the document is its target,
   and its target is written when the document is its base. *)
RecoverContracts ==
  /\ caller.step = "recover"
  /\ \/ /\ contractJournal.state # "prepared"
        /\ UNCHANGED <<document, contractJournal>>
     \/ /\ contractJournal.state = "prepared" /\ document = contractJournal.target
        /\ contractJournal' = [contractJournal EXCEPT !.state = "committed"]
        /\ document' = document
     \/ /\ contractJournal.state = "prepared" /\ document # contractJournal.target
        /\ document = contractJournal.base
        /\ document' = contractJournal.target
        /\ contractJournal' = contractJournal
  /\ caller' = [step |-> "apply", request |-> caller.request, base |-> document']
  /\ UNCHANGED <<producer, consumer, asked, check, dispatched, agreed, moves, contractCrashes>>

-----------------------------------------------------------------------------
Create(a, q, r) ==
  [NoAssociation EXCEPT !.revision = 1, !.digest = producer.text, !.status = "accepted",
                        !.current = TRUE, !.done = {r}]

(* proposeContractRevision: the pending proposal is accepted, or a new
   version takes the place of the last one and forgets the receipt. *)
Propose(a, accept, r) ==
  IF a.digest = producer.text /\ a.status = "pending" /\ accept
    THEN [a EXCEPT !.revision = @ + 1, !.status = "accepted", !.current = FALSE,
                   !.done = @ \union {r}]
  ELSE IF a.digest = producer.text /\ accept
    THEN a
    ELSE [a EXCEPT !.revision = @ + 1, !.digest = producer.text,
                   !.status = IF accept THEN "accepted" ELSE "pending",
                   !.current = FALSE, !.acknowledged = Unwritten, !.at = 0,
                   !.done = @ \union {r}]

(* Mutant of Acknowledge: a receipt of a pending version is as good. *)
AcknowledgesPending(a, r) ==
  [a EXCEPT !.revision = @ + 1, !.acknowledged = a.digest, !.at = consumer,
            !.current = TRUE, !.done = @ \union {r}]

(* acknowledgeContractReceipt: only an accepted version is reconciled. *)
Acknowledge(a, r) ==
  [a EXCEPT !.revision = @ + 1, !.acknowledged = a.digest, !.at = consumer,
            !.current = a.status = "accepted", !.done = @ \union {r}]

Target(a, q, r) ==
  CASE q.kind = "create" -> Create(a, q, r)
    [] q.kind = "accept" -> Propose(a, TRUE, r)
    [] q.kind = "propose" -> Propose(a, FALSE, r)
    [] q.kind = "acknowledge" -> Acknowledge(a, r)

Admitted(a, q) ==
  IF q.kind = "create"
    THEN a = NoAssociation /\ q.producer = producer.revision /\ q.consumer = consumer
    ELSE /\ a # NoAssociation
         /\ q.revision = a.revision
         /\ IF q.kind = "acknowledge" THEN q.consumer = consumer /\ q.digest = a.digest
                                      ELSE q.producer = producer.revision

Received(a) == IF a.status = "accepted" THEN {[text |-> a.digest, at |-> consumer]} ELSE {}

(* Replayed, refused, without effect, or prepared. *)
ApplyRequest ==
  LET a == caller.base  r == caller.request  q == asked[r] IN
  /\ caller.step = "apply"
  /\ IF r \notin a.done /\ Admitted(a, q) /\ Target(a, q, r) # a
       THEN /\ contractJournal' = [state |-> "prepared", base |-> a,
                                   target |-> Target(a, q, r)]
            /\ caller' = [step |-> "write", request |-> r]
            /\ agreed' = agreed \union
                 IF q.kind = "acknowledge" THEN Received(a) ELSE {}
       ELSE /\ contractJournal' = contractJournal /\ caller' = NoCaller
            /\ agreed' = agreed
  /\ UNCHANGED <<producer, consumer, document, asked, check, dispatched, moves,
                 contractCrashes>>

WriteDocument ==
  /\ caller.step = "write"
  /\ document' = contractJournal.target
  /\ caller' = [caller EXCEPT !.step = "commit"]
  /\ UNCHANGED <<producer, consumer, contractJournal, asked, check, dispatched, agreed,
                 moves, contractCrashes>>

CommitJournal ==
  /\ caller.step = "commit"
  /\ contractJournal' = [contractJournal EXCEPT !.state = "committed"]
  /\ caller' = NoCaller
  /\ UNCHANGED <<producer, consumer, document, asked, check, dispatched, agreed, moves,
                 contractCrashes>>

CrashCaller ==
  /\ contractCrashes < MaxContractCrashes
  /\ caller # NoCaller
  /\ contractCrashes' = contractCrashes + 1
  /\ caller' = NoCaller
  /\ UNCHANGED <<producer, consumer, document, contractJournal, asked, check, dispatched,
                 agreed, moves>>

-----------------------------------------------------------------------------
(* contractFreshness reads the tasks and the document, in either order and
   without the lock. *)
ReadTasks ==
  /\ check.step \in {"none", "document"}
  /\ check' = [step |-> IF check.step = "none" THEN "tasks" ELSE "both",
               text |-> producer.text, at |-> consumer,
               seen |-> IF check.step = "none" THEN NoAssociation ELSE check.seen]
  /\ UNCHANGED <<producer, consumer, document, contractJournal, asked, caller, dispatched,
                 agreed, moves, contractCrashes>>

ReadAssociation ==
  /\ check.step \in {"none", "tasks"}
  /\ check' = [step |-> IF check.step = "none" THEN "document" ELSE "both",
               text |-> IF check.step = "none" THEN Unwritten ELSE check.text,
               at |-> IF check.step = "none" THEN 0 ELSE check.at, seen |-> document]
  /\ UNCHANGED <<producer, consumer, document, contractJournal, asked, caller, dispatched,
                 agreed, moves, contractCrashes>>

Fresh(a, text, at) ==
  /\ a.digest = text /\ a.current
  /\ a.acknowledged = a.digest /\ a.at = at

(* The task controller launches nothing while a contract is not fresh; a
   task without a contract is not held back. *)
Dispatch ==
  /\ check.step = "both"
  /\ check' = NoCheck
  /\ dispatched' = dispatched \union
       IF check.seen # NoAssociation /\ Fresh(check.seen, check.text, check.at)
         THEN {[text |-> check.text, at |-> check.at]} ELSE {}
  /\ UNCHANGED <<producer, consumer, document, contractJournal, asked, caller, agreed,
                 moves, contractCrashes>>

ContractsNext ==
  \/ TaskMoves \/ \E r \in Requests : Send(r)
  \/ RecoverContracts \/ ApplyRequest \/ WriteDocument \/ CommitJournal \/ CrashCaller
  \/ ReadTasks \/ ReadAssociation \/ Dispatch

ContractsSpec == ContractsInit /\ [][ContractsNext]_contractVars

-----------------------------------------------------------------------------
ContractsTypeOK ==
  /\ document.digest \in Terms \union {Unwritten}
  /\ document.status \in {"none", "accepted", "pending"}
  /\ document.done \subseteq Requests
  /\ contractJournal.state \in {"none", "prepared", "committed"}

(* A provider is launched for a consumer only on a content that the producer
   had and that the consumer, at that very revision of its task, had
   received as accepted. *)
DispatchedAgrees == dispatched \subseteq agreed

(* Whatever crashed, the next caller finds a journal it can settle: the
   document is what it was before the journalled change or after it. *)
ContractRecoverable ==
  contractJournal.state = "prepared" =>
    document \in {contractJournal.base, contractJournal.target}

(* A consumer is never sent to work on a contract it has not received, and
   no crash between the two stores leaves one that nobody can settle
   (acknowledgeContractReceipt, recover). *)
ContractsHold == DispatchedAgrees /\ ContractRecoverable
=============================================================================
