----------------------------- MODULE MCTaskState -----------------------------
\* A small instance of TaskState for TLC.
EXTENDS TaskState, TLC

CONSTANTS c1, t1

\* One criterion that comes to need an approval.
OneApproval == {c1 :> [text |-> t1, approval |-> FALSE], c1 :> [text |-> t1, approval |-> TRUE]}
=============================================================================
