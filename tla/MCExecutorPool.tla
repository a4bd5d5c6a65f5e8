--------------------------- MODULE MCExecutorPool ---------------------------
(* An instance of ExecutorPool for TLC: all sockets in one environment. *)
EXTENDS ExecutorPool, TLC

CONSTANTS e1, w1, w2, w3, x1, x2, k1, k2, k3

MCEnvOf == [w \in Sockets |-> e1]
Symmetry == Permutations(Sockets) \cup Permutations(Execs) \cup Permutations(Clients)
=============================================================================
