-------------------------- MODULE MCTaskStateLock --------------------------
(* TaskStateLock with two or three writers and one identity more than       *)
(* writers, so that a fresh one always exists.                              *)
EXTENDS TaskStateLock
=============================================================================
