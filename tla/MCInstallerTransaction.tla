----------------------- MODULE MCInstallerTransaction -----------------------
(* Two files in two batches, or in one.                                     *)
EXTENDS InstallerTransaction

CONSTANTS f1, f2

OneBatch   == [f \in {f1, f2} |-> 1]
TwoBatches == [f \in {f1, f2} |-> IF f = f1 THEN 1 ELSE 2]
=============================================================================
