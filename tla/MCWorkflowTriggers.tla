------------------------ MODULE MCWorkflowTriggers ------------------------
EXTENDS WorkflowTriggers

CONSTANTS p1, p2

(* The clock of the second pod is one unit ahead. *)
MCSkew == [p \in Pod |-> IF p = p2 THEN 1 ELSE 0]
=============================================================================
