------------------------ MODULE MCExecutionManager ------------------------
(* Instances of ExecutionManager for TLC: one notebook, all sockets on it. *)
EXTENDS ExecutionManager, TLC

CONSTANTS n1, w1, w2, x1, x2, c1, c2

MCNotebookOf == [w \in Sockets |-> n1]
Symmetry == Permutations(Sockets) \cup Permutations(Execs) \cup Permutations(Cells)
=============================================================================
