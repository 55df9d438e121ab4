---------------------------- MODULE SpecDiscovery ----------------------------
(***************************************************************************)
(* The bounded, read-only scan of a source tree by the three adapters      *)
(* (src/spec-imports/{spec-kit,openspec,tinyspec}-adapter.ts over          *)
(* discovery-helpers.ts).  One budget of files and bytes is shared by the  *)
(* whole discovery, and each entry has a limit of its own.  A file is      *)
(* classified when it is reached: what it turns out to be is the choice    *)
(* of the step that reads it.                                              *)
(*                                                                         *)
(* Spec Kit reads the three core files of an entry and then the links in   *)
(* them; OpenSpec follows the links of a file before the next core file    *)
(* and reads the delta specs of a change last; TinySpec has one core file. *)
(***************************************************************************)
EXTENDS Naturals, Sequences

CONSTANTS MaxEntries,        \* maxFeatureDirectories
          MaxTotalFiles, MaxTotalBytes, MaxFilesPerEntry,
          MaxCandidates,     \* bound: entries in the tree
          Sizes              \* bytes a file may have

ASSUME SpecDiscoveryAssumption ==
  /\ MaxEntries \in Nat \ {0} /\ MaxFilesPerEntry \in Nat \ {0}
  /\ MaxTotalFiles \in Nat \ {0} /\ MaxTotalBytes \in Nat \ {0}
  /\ MaxCandidates \in Nat /\ Sizes \subseteq Nat \ {0}

VARIABLES adapter,    \* the adapter that scans
          candidates, \* entries still to be processed
          entry,      \* the entry being built
          budget,     \* files and bytes the discovery may still read
          found,      \* entries of the manifest
          truncated,  \* the manifest's flag
          skipped     \* a file that exists was left unread for want of budget

discoveryVars == <<adapter, candidates, entry, budget, found, truncated, skipped>>

Adapters == {"spec-kit", "openspec", "tinyspec"}

(* Core files of an entry: three of a feature or a change, one of a current
   OpenSpec capability or a TinySpec file. *)
CoreCounts == CASE adapter = "spec-kit" -> {3}
                [] adapter = "openspec" -> {1, 3}
                [] OTHER -> {1}

NoEntry == [state |-> "none"]
NewEntry(named, core) ==
  [state |-> "reading", named |-> named, core |-> core,
   queue |-> [i \in 1 .. core |-> "core"], read |-> 0, present |-> 0,
   mismatch |-> FALSE]

(* readWithinLimits: what is left of the budget is too small for the file. *)
Limited(size) == size > budget.bytes \/ budget.files = 0

(* Links of a file just read: next in OpenSpec and TinySpec, last in Spec Kit. *)
WithLinks(queue, links) ==
  IF adapter = "spec-kit" THEN queue \o links ELSE links \o queue

(* classifyStatus, classifyChangeStatus, classifyCurrentSpecStatus. *)
EntryStatuses(e) ==
  CASE e.present = 0 -> {"malformed"}
    [] e.present > 0 /\ e.core = 1 /\ e.mismatch /\ adapter = "tinyspec" ->
         {"malformed", IF e.named THEN "unsupported-version" ELSE "ambiguous",
          IF e.named THEN "partial" ELSE "ambiguous"}
    [] e.present > 0 /\ ~e.named /\ ~(e.mismatch /\ adapter = "tinyspec") -> {"ambiguous"}
    [] e.named /\ 0 < e.present /\ e.present < e.core -> {"partial"}
    [] e.named /\ e.present = e.core /\ e.mismatch /\ adapter # "tinyspec" ->
         {"unsupported-version"} \union IF e.core = 1 THEN {"partial"} ELSE {}
    [] OTHER -> {"complete"}

-----------------------------------------------------------------------------
(* OpenSpec reads openspec/config.yaml out of the same budget. *)
DiscoveryInit ==
  /\ adapter \in Adapters
  /\ \E n \in 0 .. MaxCandidates :
       /\ candidates = IF n > MaxEntries THEN MaxEntries ELSE n
       /\ truncated = (n > MaxEntries)
  /\ \E configured \in BOOLEAN :
       budget = IF adapter = "openspec" /\ configured
                THEN [files |-> MaxTotalFiles - 1, bytes |-> MaxTotalBytes - 1]
                ELSE [files |-> MaxTotalFiles, bytes |-> MaxTotalBytes]
  /\ entry = NoEntry
  /\ found = <<>>
  /\ skipped = FALSE

(* The loop of a manifest: the budget is looked at before every entry. *)
StartEntry ==
  /\ entry.state = "none"
  /\ candidates > 0
  /\ budget.files > 0 /\ budget.bytes > 0
  /\ \E named \in BOOLEAN, core \in CoreCounts : entry' = NewEntry(named, core)
  /\ candidates' = candidates - 1
  /\ UNCHANGED <<adapter, budget, found, truncated, skipped>>

StopAtBudget ==
  /\ entry.state = "none"
  /\ candidates > 0
  /\ budget.files = 0 \/ budget.bytes = 0
  /\ candidates' = 0
  /\ truncated' = TRUE
  /\ skipped' = TRUE
  /\ UNCHANGED <<adapter, entry, budget, found>>

(* An entry whose directory or file may not be read. *)
Inaccessible ==
  /\ entry.state = "none"
  /\ candidates > 0
  /\ budget.files > 0 /\ budget.bytes > 0
  /\ candidates' = candidates - 1
  /\ found' = Append(found, [status |-> "inaccessible", read |-> 0])
  /\ UNCHANGED <<adapter, entry, budget, truncated, skipped>>

Pending == entry.state = "reading" /\ entry.queue # <<>>
AtEntryLimit == entry.read >= MaxFilesPerEntry
Rest == Tail(entry.queue)

(* The per-entry limit ends the reading of the entry with a warning. *)
StopAtEntryLimit ==
  /\ Pending /\ AtEntryLimit
  /\ entry' = [entry EXCEPT !.queue = <<>>]
  /\ UNCHANGED <<adapter, candidates, budget, found, truncated, skipped>>

(* A file that is missing, too large, unsafe or unreadable costs nothing. *)
PassOver ==
  /\ Pending /\ ~AtEntryLimit
  /\ entry' = [entry EXCEPT !.queue = Rest]
  /\ UNCHANGED <<adapter, candidates, budget, found, truncated, skipped>>

(* readWithinLimits finds the budget too small for the file. *)
LeaveUnread(size) ==
  /\ Pending /\ ~AtEntryLimit
  /\ Limited(size)
  /\ entry' = [entry EXCEPT !.queue = Rest]
  /\ truncated' = TRUE
  /\ skipped' = TRUE
  /\ UNCHANGED <<adapter, candidates, budget, found>>

Spend(size) == budget' = [files |-> budget.files - 1, bytes |-> budget.bytes - size]

(* A core file is read: it matches the pinned template or not, and may
   link to a file nobody has read yet. *)
ReadCoreFile(size) ==
  /\ Pending /\ ~AtEntryLimit
  /\ Head(entry.queue) = "core"
  /\ ~Limited(size)
  /\ Spend(size)
  /\ \E mismatch \in BOOLEAN, links \in {<<>>, <<"supporting">>} :
       entry' = [entry EXCEPT !.queue = WithLinks(Rest, links),
                              !.read = @ + 1, !.present = @ + 1,
                              !.mismatch = @ \/ mismatch]
  /\ UNCHANGED <<adapter, candidates, found, truncated, skipped>>

(* A linked file, or a delta spec of a change, becomes an artifact. *)
ReadSupporting(size) ==
  /\ Pending /\ ~AtEntryLimit
  /\ Head(entry.queue) = "supporting"
  /\ ~Limited(size)
  /\ Spend(size)
  /\ entry' = [entry EXCEPT !.queue = Rest, !.read = @ + 1]
  /\ UNCHANGED <<adapter, candidates, found, truncated, skipped>>

(* The delta specs of an OpenSpec change, after its core files: the walk
   returns no more directories than the entry may still read. *)
FindDeltas ==
  /\ entry.state = "reading" /\ entry.queue = <<>>
  /\ adapter = "openspec" /\ ~AtEntryLimit
  /\ entry' = [entry EXCEPT !.state = "deltas"]
  /\ UNCHANGED <<adapter, candidates, budget, found, truncated, skipped>>

ReadDelta(size) ==
  /\ entry.state = "deltas" /\ ~AtEntryLimit
  /\ IF Limited(size)
     THEN /\ truncated' = TRUE /\ skipped' = TRUE
          /\ entry' = [entry EXCEPT !.state = "reading"]
          /\ budget' = budget
     ELSE /\ Spend(size)
          /\ entry' = [entry EXCEPT !.read = @ + 1]
          /\ UNCHANGED <<truncated, skipped>>
  /\ UNCHANGED <<adapter, candidates, found>>

FinishEntry ==
  /\ \/ entry.state = "reading" /\ entry.queue = <<>>
     \/ entry.state = "deltas"
  /\ \E status \in EntryStatuses(entry) :
       found' = Append(found, [status |-> status, read |-> entry.read])
  /\ entry' = NoEntry
  /\ UNCHANGED <<adapter, candidates, budget, truncated, skipped>>

DiscoveryNext ==
  \/ StartEntry \/ StopAtBudget \/ Inaccessible
  \/ StopAtEntryLimit \/ PassOver
  \/ \E size \in Sizes : LeaveUnread(size) \/ ReadCoreFile(size)
                           \/ ReadSupporting(size) \/ ReadDelta(size)
  \/ FindDeltas
  \/ FinishEntry

DiscoverySpec == DiscoveryInit /\ [][DiscoveryNext]_discoveryVars

-----------------------------------------------------------------------------
DiscoveryTypeOK ==
  /\ adapter \in Adapters
  /\ candidates \in 0 .. MaxEntries
  /\ budget \in [files : 0 .. MaxTotalFiles, bytes : 0 .. MaxTotalBytes]
  /\ \A i \in DOMAIN found :
       found[i].status \in {"complete", "partial", "ambiguous", "malformed",
                            "unsupported-version", "inaccessible"}
  /\ truncated \in BOOLEAN /\ skipped \in BOOLEAN

(* Whatever the order in which files and links are met, no entry reads more
   files than it may, the budget never goes below zero, and a manifest that
   left a file or an entry out for want of budget says it is truncated. *)
DiscoveryBounded ==
  /\ \A i \in DOMAIN found : found[i].read <= MaxFilesPerEntry
  /\ budget.files >= 0 /\ budget.bytes >= 0
  /\ skipped => truncated
=============================================================================
