--------------------------- MODULE DiffAnnotations ---------------------------
(***************************************************************************)
(* Review comments on the diff of a task (src/reviews/diff-annotations.ts).*)
(* An annotation belongs to a revision of the worktree and is resolved by  *)
(* evidence about the current one.  Every call computes the revision       *)
(* before it takes the task-state lock, and a change names the revision of *)
(* the store that its caller has seen.                                     *)
(***************************************************************************)
EXTENDS Naturals

CONSTANTS Reviewers,  \* concurrent callers
          Comments,   \* annotations that may be created
          NoComment,  \* not created yet
          MaxWrites,  \* bound: revisions of the store
          MaxEdits    \* bound: revisions of the worktree

ASSUME AnnotationsAssumption == MaxWrites \in Nat /\ MaxEdits \in Nat \ {0}

VARIABLES head,     \* the revision of the worktree
          store,    \* the annotations
          version,  \* the revision of the store
          screen,   \* what each reviewer was last shown
          request,  \* the call of each reviewer
          writers   \* who made each revision of the store, and having seen what

annotationVars == <<head, store, version, screen, request, writers>>

NoRequest == [at |-> "idle"]
Unseen == [worktree |-> 1, version |-> 0]

AnnotationsInit ==
  /\ head = 1
  /\ store = [c \in Comments |-> [status |-> NoComment, revision |-> 0, resolved |-> 0]]
  /\ version = 0
  /\ screen = [r \in Reviewers |-> Unseen]
  /\ request = [r \in Reviewers |-> NoRequest]
  /\ writers = [seen |-> 0, kind |-> "none"]

EditWorktree ==
  /\ head < MaxEdits
  /\ head' = head + 1
  /\ UNCHANGED <<store, version, screen, request, writers>>

(* ownedWorkspace and revision, before the lock.  A reviewer acts on what  *)
(* the last listing showed.                                                *)
Ask(r, kind, c) ==
  /\ request[r].at = "idle"
  /\ request' = [request EXCEPT ![r] =
       [at |-> kind, comment |-> c, current |-> head, expected |-> screen[r].version,
        shown |-> screen[r].worktree]]
  /\ UNCHANGED <<head, store, version, screen, writers>>

Done(r) == request' = [request EXCEPT ![r] = NoRequest]

(* markStale: open comments of another revision, as the caller knows it.   *)
Stale(current) == {c \in Comments : store[c].status = "open" /\ store[c].revision # current}

List(r) ==
  /\ request[r].at = "list"
  /\ version < MaxWrites
  /\ LET stale == Stale(request[r].current)
         next == IF stale = {} THEN version ELSE version + 1
     IN /\ store' = [c \in Comments |-> IF c \in stale THEN [store[c] EXCEPT !.status = "stale"]
                                        ELSE store[c]]
        /\ version' = next
        /\ screen' = [screen EXCEPT ![r] = [worktree |-> request[r].current, version |-> next]]
        /\ writers' = IF stale = {} THEN writers ELSE [seen |-> version, kind |-> "list"]
  /\ Done(r)
  /\ UNCHANGED head

(* The store moved since the caller was shown it: refused. *)
SeenLatest(r) == request[r].expected = version

Refused(r) == ~SeenLatest(r) /\ Done(r) /\ UNCHANGED <<head, store, version, screen, writers>>

Write(r, c, annotation) ==
  /\ store' = [store EXCEPT ![c] = annotation]
  /\ version' = version + 1
  /\ writers' = [seen |-> request[r].expected, kind |-> request[r].at]
  /\ Done(r)
  /\ UNCHANGED <<head, screen>>

(* createDiffAnnotation: also the worktree must be the one shown. *)
CreateAnnotation(r) ==
  /\ request[r].at = "create"
  /\ version < MaxWrites
  /\ \/ Refused(r)
     \/ /\ request[r].shown # request[r].current
        /\ Done(r)
        /\ UNCHANGED <<head, store, version, screen, writers>>
     \/ /\ SeenLatest(r) /\ request[r].shown = request[r].current
        /\ store[request[r].comment].status = NoComment
        /\ Write(r, request[r].comment,
                 [status |-> "open", revision |-> request[r].current, resolved |-> 0])

(* updateDiffAnnotation: a resolution links evidence about the current     *)
(* revision to a comment of that revision; reopening moves the comment.    *)
Resolve(r) ==
  /\ request[r].at = "resolve"
  /\ version < MaxWrites
  /\ LET c == request[r].comment
     IN \/ Refused(r)
        \/ /\ SeenLatest(r)
           /\ IF store[c].status # NoComment /\ store[c].revision = request[r].current
              THEN Write(r, c, [store[c] EXCEPT !.status = "resolved",
                                                !.resolved = request[r].current])
              ELSE Done(r) /\ UNCHANGED <<head, store, version, screen, writers>>

Reopen(r) ==
  /\ request[r].at = "reopen"
  /\ version < MaxWrites
  /\ LET c == request[r].comment
     IN \/ Refused(r)
        \/ /\ SeenLatest(r)
           /\ store[c].status # NoComment
           /\ Write(r, c, [status |-> "open", revision |-> request[r].current, resolved |-> 0])

AnnotationsNext ==
  \/ EditWorktree
  \/ \E r \in Reviewers :
       \/ \E kind \in {"list", "create", "resolve", "reopen"}, c \in Comments : Ask(r, kind, c)
       \/ List(r) \/ CreateAnnotation(r) \/ Resolve(r) \/ Reopen(r)

AnnotationsSpec == AnnotationsInit /\ [][AnnotationsNext]_annotationVars

-----------------------------------------------------------------------------
AnnotationsTypeOK ==
  /\ head \in 1..MaxEdits
  /\ version \in 0..MaxWrites
  /\ \A c \in Comments : /\ store[c].status \in {NoComment, "open", "stale", "resolved"}
                         /\ store[c].revision \in 0..MaxEdits
                         /\ store[c].resolved \in {0, store[c].revision}
  /\ \A r \in Reviewers : screen[r].version <= version

(* Nobody creates, resolves or reopens a comment over a change he has not  *)
(* been shown, and a resolved comment is resolved by evidence about the    *)
(* very revision it is on; only a listing may mark comments stale on its   *)
(* own, and it never touches a resolved one (updateDiffAnnotation,         *)
(* markStale).                                                             *)
NoBlindReview ==
  [][version' # version
       => /\ writers'.kind # "list" => writers'.seen = version
          /\ \A c \in Comments :
               store[c].status = "resolved" /\ store'[c] # store[c] => writers'.kind # "list"]_annotationVars

=============================================================================
