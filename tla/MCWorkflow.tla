----------------------------- MODULE MCWorkflow -----------------------------
\* Small instances of Workflow for TLC.
EXTENDS Workflow, TLC

BugFix == <<"implementation", "verification">>

Symmetry == Permutations(Procs) \union Permutations(Sources)
=============================================================================
