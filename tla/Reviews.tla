------------------------------- MODULE Reviews -------------------------------
(***************************************************************************)
(* Independent reviews: reviews/orchestrator.ts and reviews/admission.ts.  *)
(*                                                                         *)
(* Several controllers (servers and CLI processes of one project) share    *)
(* the review state file and the admission ledger, both under the          *)
(* task-state lock, so that each read-modify-write of either is one step.  *)
(* A controller keeps its active reviews in memory; the stored copy is     *)
(* overwritten by every save.  Review n of a workflow has n assignments,   *)
(* with a worker each; what a provider answers is a choice.                *)
(***************************************************************************)
EXTENDS Naturals, FiniteSets

CONSTANTS
  Orchestrators,  \* controllers
  Reviews,        \* reviews of one parent run, numbered from 1
  LimitOf,        \* admissionConcurrency, an input of each review
  MaxAdmitted,    \* MAX_REVIEW_ASSIGNMENTS, of the parent run
  Unowned         \* no controller

ASSUME ReviewsAssumption ==
  /\ Reviews \subseteq Nat /\ LimitOf \in [Reviews -> Nat \ {0}]
  /\ MaxAdmitted \in Nat /\ Unowned \notin Orchestrators

VARIABLES
  stored,          \* the state file: each review's state, cancelRequestedAt, running items
  controller,      \* the controller that started a review
  lost,            \* reviews whose owning process died
  item,            \* in the owner's memory: each assignment
  closing,         \* in the owner's memory: the final state, once computed
  abortedReviews,  \* reviews whose AbortController has fired
  ledger,          \* the reservations: <<review, assignment>>
  admitted,        \* admittedAssignments of the parent run
  reconciled,      \* controllers that have looked for interrupted reviews
  unreturned       \* history: reservations whose release has failed

reviewVars ==
  <<stored, controller, lost, item, closing, abortedReviews, ledger, admitted, reconciled,
    unreturned>>

Assigned(r)  == 1..r
ReviewStates == {"none", "running", "completed", "failed", "cancelled"}
ItemOutcomes == {"completed", "failed", "cancelled"}
ItemStates   == {"todo", "setup", "launched", "returned"} \union ItemOutcomes

ReviewsInit ==
  /\ stored = [r \in Reviews |-> [state |-> "none", cancel |-> FALSE, open |-> {}]]
  /\ controller = [r \in Reviews |-> Unowned] /\ lost = {}
  /\ item = [r \in Reviews |-> [a \in Assigned(r) |-> "todo"]]
  /\ closing = [r \in Reviews |-> "none"]
  /\ abortedReviews = {} /\ ledger = {} /\ admitted = 0 /\ reconciled = {}
  /\ unreturned = {}

\* The entry is in the owner's active map.
ActiveReview(r) == controller[r] # Unowned /\ r \notin lost /\ closing[r] # "over"

InProgress(steps) == steps \notin {"todo"} \union ItemOutcomes

\* saveState: a cancellation recorded by another process is kept, and wins over the state the
\* owner ends with.  (The variant overwrites the record.)
Overwritten(r, state) == state
Merged(r, state) ==
  IF stored[r].state = "running" /\ stored[r].cancel /\ state # "running" THEN "cancelled" ELSE state

Saved(r, state) ==
  stored' = [stored EXCEPT ![r] = [state |-> Merged(r, state), cancel |-> @.cancel,
                                   open |-> {a \in Assigned(r) : InProgress(item'[r][a])}]]

\* What the owner held in memory of reviews that are over or lost.
Forgotten(gone) ==
  /\ item' = [r \in Reviews |-> IF r \in gone THEN [a \in Assigned(r) |-> "todo"] ELSE item[r]]
  /\ abortedReviews' = abortedReviews \ gone

-----------------------------------------------------------------------------
(* Admission *)

\* A reservation of a process that is gone does not count and is dropped by the next save.
LiveReservations(r) == {e \in ledger : e[1] \notin lost}

Exhausted   == admitted >= MaxAdmitted
Admissible(r) == Cardinality(LiveReservations(r)) < LimitOf[r]

\* reserveReviewInvocation: wait, admit, or give up on the parent's limit, a timeout or an abort.
Reserve(r, a) ==
  /\ ActiveReview(r) /\ item[r][a] = "setup" /\ r \notin abortedReviews /\ ~Exhausted
  /\ Admissible(r)
  /\ ledger' = LiveReservations(r) \union {<<r, a>>} /\ admitted' = admitted + 1
  /\ item' = [item EXCEPT ![r][a] = "launched"]
  /\ UNCHANGED <<stored, controller, lost, closing, abortedReviews, reconciled, unreturned>>

\* The loop's turn that finds the pool full drops the reservations of dead owners.
AwaitAdmission(r, a) ==
  /\ ActiveReview(r) /\ item[r][a] = "setup" /\ r \notin abortedReviews /\ ~Exhausted
  /\ ~Admissible(r)
  /\ ledger' = LiveReservations(r)
  /\ UNCHANGED <<stored, controller, lost, item, closing, abortedReviews, admitted,
                 reconciled, unreturned>>

\* An item ends without having been launched; the save is part of it.
EndItem(r, a, outcome) ==
  /\ item' = [item EXCEPT ![r][a] = IF r \in abortedReviews THEN "cancelled" ELSE outcome]
  /\ Saved(r, "running")
  /\ UNCHANGED <<controller, lost, closing, abortedReviews, admitted, reconciled, unreturned>>

NotAdmitted(r, a) ==
  /\ ActiveReview(r) /\ item[r][a] = "setup" /\ (r \in abortedReviews \/ Exhausted)
  /\ EndItem(r, a, "failed") /\ UNCHANGED ledger

\* The finally clause of the launch: the reservation is released whatever the outcome.
ReleasedReservations(r, a, outcome) == {<<r, a>>}

-----------------------------------------------------------------------------
(* A review *)

\* parseLimits: no more reviewers than a parent run may have.
WithinLimits(r) == Cardinality(Assigned(r)) <= MaxAdmitted

\* parseResult: the answer is a completed review, or malformed, or says that it failed.
ParsedAnswers == {"completed", "failed"}

\* run, once its input is found to be valid.
StartReview(c, r) ==
  /\ c \in reconciled /\ controller[r] = Unowned /\ WithinLimits(r)
  /\ controller' = [controller EXCEPT ![r] = c]
  /\ stored' = [stored EXCEPT ![r].state = "running"]
  /\ UNCHANGED <<lost, item, closing, abortedReviews, ledger, admitted, reconciled, unreturned>>

\* A worker takes the next assignment: the item is stored before anything is made for it.
TakeAssignment(r, a) ==
  /\ ActiveReview(r) /\ item[r][a] = "todo"
  /\ item' = [item EXCEPT ![r][a] = "setup"]
  /\ Saved(r, "running")
  /\ UNCHANGED <<controller, lost, closing, abortedReviews, ledger, admitted,
                 reconciled, unreturned>>

\* Child task, workspace, snapshot, source comparison or read-only plan: one of them fails, or
\* the wait for admission times out.
SetupFails(r, a) ==
  /\ ActiveReview(r) /\ item[r][a] = "setup" /\ r \notin abortedReviews
  /\ EndItem(r, a, "failed") /\ UNCHANGED ledger

\* The provider's process ends, which an abort makes it do (see ProcessRunner), and its place
\* is given back.
ProviderEnds(r, a) ==
  /\ ActiveReview(r) /\ item[r][a] = "launched"
  /\ \E outcome \in IF r \in abortedReviews THEN ItemOutcomes ELSE {"completed", "failed"} :
       /\ ledger' = ledger \ ReleasedReservations(r, a, outcome)
       /\ item' = [item EXCEPT ![r][a] = IF outcome = "completed" THEN "returned" ELSE outcome]
       /\ IF outcome = "completed" THEN UNCHANGED stored ELSE Saved(r, "running")
  /\ UNCHANGED <<controller, lost, closing, abortedReviews, admitted, reconciled, unreturned>>

\* The release in the finally clause throws: the item has failed, whatever the provider answered,
\* and the place stays taken for as long as the owner lives.
ReleaseFails(r, a) ==
  /\ ActiveReview(r) /\ item[r][a] = "launched"
  /\ item' = [item EXCEPT ![r][a] = IF r \in abortedReviews THEN "cancelled" ELSE "failed"]
  /\ Saved(r, "running")
  /\ unreturned' = unreturned \union {<<r, a>>}
  /\ UNCHANGED <<controller, lost, closing, abortedReviews, ledger, admitted, reconciled>>

\* The answer is parsed and the source compared with the snapshot.
RecordResult(r, a) ==
  /\ ActiveReview(r) /\ item[r][a] = "returned"
  /\ \E outcome \in ParsedAnswers :
       /\ item' = [item EXCEPT ![r][a] = IF outcome = "failed" /\ r \in abortedReviews THEN "cancelled"
                                         ELSE outcome]
       /\ Saved(r, "running")
  /\ UNCHANGED <<controller, lost, closing, abortedReviews, ledger, admitted,
                 reconciled, unreturned>>

\* All workers are done: the state is computed, and saved later.
Conclude(r) ==
  /\ ActiveReview(r) /\ closing[r] = "none"
  /\ \A a \in Assigned(r) : item[r][a] \in ItemOutcomes
  /\ \E sourceSame \in BOOLEAN :
       closing' = [closing EXCEPT ![r] =
         IF r \in abortedReviews THEN "cancelled"
         ELSE IF sourceSame /\ \A a \in Assigned(r) : item[r][a] = "completed" THEN "completed"
         ELSE "failed"]
  /\ UNCHANGED <<stored, controller, lost, item, abortedReviews, ledger, admitted,
                 reconciled, unreturned>>

FinishReview(r) ==
  /\ ActiveReview(r) /\ closing[r] # "none"
  /\ Forgotten({r}) /\ Saved(r, closing[r])
  /\ closing' = [closing EXCEPT ![r] = "over"]
  /\ UNCHANGED <<controller, lost, ledger, admitted, reconciled, unreturned>>

\* cancellationPoll reads the file every 100 ms.
SeesCancel(r) == stored[r].cancel

PollCancel(r) ==
  /\ ActiveReview(r) /\ r \notin abortedReviews /\ SeesCancel(r)
  /\ abortedReviews' = abortedReviews \union {r}
  /\ UNCHANGED <<stored, controller, lost, item, closing, ledger, admitted, reconciled, unreturned>>

-----------------------------------------------------------------------------
(* cancel, shutdown, and restart *)

\* reconcileInterrupted, once for each controller.
ReconcileReviews(c) ==
  /\ c \notin reconciled /\ reconciled' = reconciled \union {c}
  /\ stored' = [r \in Reviews |->
       IF stored[r].state = "running" /\ r \in lost
       THEN [stored[r] EXCEPT !.state = "failed", !.open = {}] ELSE stored[r]]
  /\ UNCHANGED <<controller, lost, item, closing, abortedReviews, ledger, admitted, unreturned>>

\* cancel of a review of this controller, its caller's signal, and shutdown.
AbortReview(r) ==
  /\ ActiveReview(r) /\ r \notin abortedReviews /\ abortedReviews' = abortedReviews \union {r}
  /\ UNCHANGED <<stored, controller, lost, item, closing, ledger, admitted, reconciled, unreturned>>

\* cancel of a review of another controller.
RequestCancel(c, r) ==
  /\ c \in reconciled /\ stored[r].state = "running" /\ ~(ActiveReview(r) /\ controller[r] = c)
  /\ ~stored[r].cancel /\ stored' = [stored EXCEPT ![r].cancel = TRUE]
  /\ UNCHANGED <<controller, lost, item, closing, abortedReviews, ledger, admitted,
                 reconciled, unreturned>>

\* The process ends; a new one takes its place.
CrashReviewer(c) ==
  /\ \E r \in Reviews : ActiveReview(r) /\ controller[r] = c
  /\ lost' = lost \union {r \in Reviews : ActiveReview(r) /\ controller[r] = c}
  /\ reconciled' = reconciled \ {c}
  /\ Forgotten({r \in Reviews : ActiveReview(r) /\ controller[r] = c})
  /\ closing' = [r \in Reviews |-> IF ActiveReview(r) /\ controller[r] = c THEN "none" ELSE closing[r]]
  /\ UNCHANGED <<stored, controller, ledger, admitted, unreturned>>

ItemStep(r, a) == \/ TakeAssignment(r, a) \/ SetupFails(r, a) \/ Reserve(r, a)
                  \/ NotAdmitted(r, a) \/ ProviderEnds(r, a) \/ ReleaseFails(r, a)
                  \/ RecordResult(r, a)

ReviewsNext ==
  \/ \E c \in Orchestrators : ReconcileReviews(c) \/ CrashReviewer(c)
  \/ \E c \in Orchestrators, r \in Reviews : StartReview(c, r) \/ RequestCancel(c, r)
  \/ \E r \in Reviews : Conclude(r) \/ FinishReview(r) \/ PollCancel(r) \/ AbortReview(r)
  \/ \E r \in Reviews : \E a \in Assigned(r) :
       ItemStep(r, a) \/ AwaitAdmission(r, a)

\* A live owner's timers and promises run; a provider ends by itself only when it is aborted, and
\* no timeout is needed.
FairItem(r, a) == ItemStep(r, a) /\ (r \in abortedReviews \/ item[r][a] # "launched")

ReviewsFairness ==
  \A r \in Reviews :
    /\ WF_reviewVars(PollCancel(r)) /\ WF_reviewVars(Conclude(r)) /\ WF_reviewVars(FinishReview(r))
    /\ \A a \in Assigned(r) : WF_reviewVars(FairItem(r, a))

ReviewsSpec == ReviewsInit /\ [][ReviewsNext]_reviewVars /\ ReviewsFairness

-----------------------------------------------------------------------------
ReviewsTypeOK ==
  /\ stored \in [Reviews -> [state : ReviewStates, cancel : BOOLEAN, open : SUBSET Nat]]
  /\ controller \in [Reviews -> Orchestrators \union {Unowned}]
  /\ lost \subseteq Reviews /\ abortedReviews \subseteq Reviews
  /\ reconciled \subseteq Orchestrators
  /\ \A r \in Reviews : item[r] \in [Assigned(r) -> ItemStates]
  /\ closing \in [Reviews -> {"none", "over", "completed", "failed", "cancelled"}]
  /\ {ledger, unreturned} \subseteq SUBSET (Reviews \X Nat) /\ admitted \in 0..MaxAdmitted

\* The ledger shared by all controllers of a project: every provider that runs for a live
\* process holds a place in it, a place that nobody uses is one whose release failed, and the
\* places taken at once are within the limit of a review that holds one of them.  The limit is
\* each review's own: a review that allows more may be admitted next to one that allows less.
AdmittedTogether ==
  LET launched == UNION {{r} \X {a \in Assigned(r) : item[r][a] = "launched"} :
                           r \in {q \in Reviews : ActiveReview(q)}}
      taken    == {e \in ledger : e[1] \notin lost}
  IN /\ launched \subseteq taken /\ taken \subseteq launched \union unreturned
     /\ taken # {} => \E e \in taken : Cardinality(taken) <= LimitOf[e[1]]

\* A cancellation recorded by another process while a review runs is how the review ends, even if
\* its owner was just completing; only an owner that died leaves it interrupted.
CancelWins ==
  [][\A r \in Reviews :
       stored[r].state = "running" /\ stored[r].cancel /\ stored'[r].state # "running"
         => stored'[r].state = "cancelled" \/ r \in lost]_reviewVars

\* A recorded cancellation ends the review of a live owner although no provider answers (its
\* saves are taken to succeed).
CancelEndsReview ==
  \A r \in Reviews :
    stored[r].state = "running" /\ stored[r].cancel ~> stored[r].state # "running" \/ r \in lost

\* The controllers of a project share one ledger of providers, each within its own limit, and a
\* recorded cancellation is not overwritten by a completion (the execution ledger and the merge
\* of finishing).
ReviewsHold == []AdmittedTogether /\ CancelWins
=============================================================================
