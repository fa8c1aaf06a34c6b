------------------------- MODULE MCWorkflowHistory -------------------------
(* A workflow that runs an activity and then a child, and a child that waits
   for a timer and continues as new once. *)
EXTENDS WorkflowHistory

CONSTANTS root, child

MCParent   == [w \in Workflows |-> IF w = root THEN NoWorkflow ELSE root]
MCPrograms == [w \in Workflows |-> IF w = root THEN <<"activity", child>> ELSE <<"timer">>]
MCRuns     == [w \in Workflows |-> IF w = root THEN 1 ELSE 2]
=============================================================================
