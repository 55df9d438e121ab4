--------------------------- MODULE AtomicInstall ---------------------------
(***************************************************************************)
(* What the journalled installer promises its users: a requested change to *)
(* any number of files, with the record of them, happens all at once and   *)
(* exactly as requested, or not at all.  Only files a person has edited    *)
(* are outside the promise.                                                *)
(***************************************************************************)
CONSTANTS Files, Versions, Absent, NoRequest

VARIABLES
  content,    \* what is installed, as seen through the pending journal
  recorded,   \* what the manifest says is installed
  request,    \* what every file and the record shall become, or NoRequest
  edited      \* files a person has taken out of the promise

vars == <<content, recorded, request, edited>>

Targets   == [Files -> Versions \union {Absent}]
Untouched == Files \ edited
Same(f)   == content'[f] = content[f] /\ recorded'[f] = recorded[f]

Init ==
  /\ recorded \in Targets
  /\ content = recorded
  /\ request = NoRequest
  /\ edited = {}

Ask ==
  /\ request = NoRequest
  /\ request' \in Targets
  /\ \A f \in Untouched : Same(f)
  /\ UNCHANGED edited

\* All the untouched files change at once, together with their record.
Install ==
  /\ request # NoRequest
  /\ request' = NoRequest
  /\ \A f \in Untouched : content'[f] = request[f] /\ recorded'[f] = request[f]
  /\ UNCHANGED edited

Withdraw ==
  /\ request' = NoRequest
  /\ \A f \in Untouched : Same(f)
  /\ UNCHANGED edited

\* A person takes files over, or what was taken over changes; nothing happens
\* to the others.  Whoever takes over everything also takes over the request.
Disturb ==
  /\ edited' \in SUBSET Files
  /\ edited \subseteq edited'
  /\ \A f \in Files \ edited' : Same(f)
  /\ edited' = Files \/ request' = request

Next == Ask \/ Install \/ Withdraw \/ Disturb

Spec == Init /\ [][Next]_vars
=============================================================================
