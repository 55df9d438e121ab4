------------------------------ MODULE Codegraph ------------------------------
(***************************************************************************)
(* The optional CodeGraph index (src/integrations/codegraph/service.ts).   *)
(* A sync runs the tool under the project lock and leaves a receipt that   *)
(* names the source and the index it saw; a query runs without the lock    *)
(* and is believed only when receipt, source and index agree before and    *)
(* after it.  An inspection reads the index, then the source, then the     *)
(* receipt, each at a moment of its own.                                   *)
(*                                                                         *)
(* A source is the number of the edit that made it, an index the number of *)
(* the build that made it: an edit is never undone byte for byte.          *)
(***************************************************************************)
EXTENDS Naturals, Sequences

CONSTANTS Queries,        \* concurrent explore calls
          Synchronizers,  \* concurrent sync calls
          NoIndex,        \* no database, or no receipt
          MaxOutside,     \* bound: edits, deletions and settings changes
          MaxBuilds       \* bound: builds of the index

ASSUME CodegraphAssumption ==
  /\ NoIndex \notin Nat
  /\ Queries \intersect Synchronizers = {}
  /\ MaxOutside \in Nat
  /\ MaxBuilds \in Nat

Calls == Queries \union Synchronizers

VARIABLES workTree,  \* the source tree
          index,     \* the index on disk
          builds,    \* the source each build read
          receipt,   \* what the last committed sync says
          enabled,   \* the settings
          syncLock,  \* the project lock: taken by a synchronizer
          working,   \* what each call has seen
          outside    \* what the user did so far

codegraphVars == <<workTree, index, builds, receipt, enabled, syncLock, working, outside>>

NotWorking == [at |-> "idle"]
NoReceipt == [source |-> NoIndex, index |-> NoIndex]

CodegraphInit ==
  /\ workTree = 1
  /\ index = NoIndex
  /\ builds = <<>>
  /\ receipt = NoReceipt
  /\ enabled \in BOOLEAN
  /\ syncLock = FALSE
  /\ working = [c \in Calls |-> NotWorking]
  /\ outside = 0

-----------------------------------------------------------------------------
(* The user edits the source, deletes the index, or saves the settings,    *)
(* which takes the project lock.                                           *)
EditSource == workTree' = workTree + 1 /\ UNCHANGED <<index, enabled>>
DeleteIndex == index # NoIndex /\ index' = NoIndex /\ UNCHANGED <<workTree, enabled>>
SaveSettings == ~syncLock /\ enabled' = ~enabled /\ UNCHANGED <<workTree, index>>

Outside ==
  /\ outside < MaxOutside
  /\ EditSource \/ DeleteIndex \/ SaveSettings
  /\ outside' = outside + 1
  /\ UNCHANGED <<builds, receipt, syncLock, working>>

(* inspectCodegraph, a step a read.  A snapshot of the index is two equal  *)
(* rounds over its files, so it is the index of one moment.                *)
SeeIndex(c) ==
  /\ working[c].at = "index"
  /\ working' = [working EXCEPT ![c].at = "source", ![c].seen.index = index]

SeeSource(c) ==
  /\ working[c].at = "source"
  /\ working' = [working EXCEPT ![c].at = "receipt", ![c].seen.source = workTree]

SeeReceipt(c) ==
  /\ working[c].at = "receipt"
  /\ working' = [working EXCEPT ![c].at = working[c].next, ![c].seen.receipt = receipt]

Inspect(c) ==
  /\ SeeIndex(c) \/ SeeSource(c) \/ SeeReceipt(c)
  /\ UNCHANGED <<workTree, index, builds, receipt, enabled, syncLock, outside>>

Look(next) == [at |-> "index", next |-> next,
               seen |-> [index |-> NoIndex, source |-> 0, receipt |-> NoReceipt],
               first |-> [index |-> NoIndex, source |-> 0, receipt |-> NoReceipt],
               answer |-> NoIndex]

Again(call, next) == [call EXCEPT !.at = "index", !.next = next, !.first = call.seen]

IndexCurrent(seen) ==
  /\ seen.index # NoIndex
  /\ seen.receipt = [source |-> seen.source, index |-> seen.index]

Unmoved(call) == /\ call.seen.source = call.first.source
                 /\ call.seen.index = call.first.index

-----------------------------------------------------------------------------
(* syncCodegraph.  The tool reads the source at one moment and replaces    *)
(* the index at a later one; it may also fail.                             *)
BeginSync(c) ==
  /\ working[c].at = "idle"
  /\ ~syncLock
  /\ enabled
  /\ Len(builds) < MaxBuilds
  /\ syncLock' = TRUE
  /\ working' = [working EXCEPT ![c] = Look("build")]
  /\ UNCHANGED <<workTree, index, builds, receipt, enabled, outside>>

ReadForBuild(c) ==
  /\ working[c].at = "build"
  /\ builds' = Append(builds, workTree)
  /\ working' = [working EXCEPT ![c].at = "built"]
  /\ UNCHANGED <<workTree, index, receipt, enabled, syncLock, outside>>

FinishBuild(c) ==
  /\ working[c].at = "built"
  /\ index' = Len(builds)
  /\ working' = [working EXCEPT ![c] = Again(@, "after")]
  /\ UNCHANGED <<workTree, builds, receipt, enabled, syncLock, outside>>

GiveUp(c) ==
  /\ working' = [working EXCEPT ![c] = NotWorking]
  /\ syncLock' = FALSE
  /\ UNCHANGED <<workTree, index, builds, receipt, enabled, outside>>

FailBuild(c) == working[c].at \in {"build", "built"} /\ GiveUp(c)

(* The source must not have moved since before the build, and then neither *)
(* source nor index while the receipt is prepared.                         *)
SourceHeld(call) == /\ call.seen.source = call.first.source
                    /\ call.seen.index # NoIndex

ReviewBuild(c) ==
  /\ working[c].at = "after"
  /\ IF SourceHeld(working[c])
     THEN /\ working' = [working EXCEPT ![c] = Again(@, "commit")]
          /\ UNCHANGED <<workTree, index, builds, receipt, enabled, syncLock, outside>>
     ELSE GiveUp(c)

CommitReceipt(c) ==
  /\ working[c].at = "commit"
  /\ IF Unmoved(working[c])
     THEN /\ receipt' = [source |-> working[c].first.source, index |-> working[c].first.index]
          /\ working' = [working EXCEPT ![c] = NotWorking]
          /\ syncLock' = FALSE
          /\ UNCHANGED <<workTree, index, builds, enabled, outside>>
     ELSE GiveUp(c)

-----------------------------------------------------------------------------
(* exploreCodegraph. *)
BeginExplore(c) ==
  /\ working[c].at = "idle"
  /\ enabled
  /\ working' = [working EXCEPT ![c] = Look("decide")]
  /\ UNCHANGED <<workTree, index, builds, receipt, enabled, syncLock, outside>>

Query(c) ==
  /\ working[c].at = "decide"
  /\ working' = [working EXCEPT
       ![c] = IF IndexCurrent(working[c].seen)
              THEN [Again(@, "revalidate") EXCEPT !.answer = index]
              ELSE NotWorking]
  /\ UNCHANGED <<workTree, index, builds, receipt, enabled, syncLock, outside>>

(* The answer is the graph's when nothing moved while the query ran. *)
Revalidate(c) ==
  /\ working[c].at = "revalidate"
  /\ working' = [working EXCEPT
       ![c] = IF IndexCurrent(working[c].seen) /\ Unmoved(working[c])
              THEN [@ EXCEPT !.at = "graph"] ELSE NotWorking]
  /\ UNCHANGED <<workTree, index, builds, receipt, enabled, syncLock, outside>>

ReturnGraph(c) ==
  /\ working[c].at = "graph"
  /\ working' = [working EXCEPT ![c] = NotWorking]
  /\ UNCHANGED <<workTree, index, builds, receipt, enabled, syncLock, outside>>

CodegraphNext ==
  \/ Outside
  \/ \E c \in Calls : Inspect(c)
  \/ \E c \in Synchronizers :
       \/ BeginSync(c) \/ ReadForBuild(c) \/ FinishBuild(c) \/ FailBuild(c)
       \/ ReviewBuild(c) \/ CommitReceipt(c)
  \/ \E c \in Queries :
       BeginExplore(c) \/ Query(c) \/ Revalidate(c) \/ ReturnGraph(c)

CodegraphSpec == CodegraphInit /\ [][CodegraphNext]_codegraphVars

-----------------------------------------------------------------------------
CodegraphTypeOK ==
  /\ workTree \in Nat
  /\ index \in (1..Len(builds)) \union {NoIndex}
  /\ receipt = NoReceipt \/ receipt.index \in 1..Len(builds)
  /\ enabled \in BOOLEAN /\ syncLock \in BOOLEAN
  /\ syncLock <=> \E c \in Synchronizers : working[c].at # "idle"
  /\ outside \in 0..MaxOutside

(* An answer handed out as the graph's comes from an index that was built  *)
(* from the source the caller was told about, although sources, indexes    *)
(* and receipts move under the query and no lock is held (exploreCodegraph *)
(* revalidates; the receipt is committed only if nothing moved).           *)
GraphIsCurrent ==
  \A c \in Queries :
    working[c].at = "graph"
      => /\ working[c].answer = working[c].seen.index
         /\ builds[working[c].answer] = working[c].seen.source

=============================================================================
