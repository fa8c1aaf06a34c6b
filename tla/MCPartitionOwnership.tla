----------------------- MODULE MCPartitionOwnership -----------------------
(* Two nodes; the first is restarted once, perhaps while its first runtime *)
(* still runs.                                                             *)
EXTENDS PartitionOwnership

CONSTANTS r1, r2, r3

MCRuntimes == {r1, r2, r3}
MCNodeOf == [r \in MCRuntimes |-> IF r = r2 THEN "n2" ELSE "n1"]
=============================================================================
