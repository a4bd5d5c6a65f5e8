-------------------------- MODULE MCExecutorServer --------------------------
(* Instances of ExecutorServer for TLC. *)
EXTENDS ExecutorServer, TLC

CONSTANTS d1, d2, x1, x2, u1, k1

Symmetry == Permutations(Conns) \cup Permutations(Execs)

\* Bounds: once executions of two connections have overlapped, which the properties of
\* that run exempt for good, the states are not explored further; no client asks for an
\* interrupt; and one thread of those that run user code uses wrap().
UntilMixed == ~mixed
NoInterrupt == \A c \in Conns : \A i \in DOMAIN inbox[c] : inbox[c][i] # "interrupt"
OneWrap == Cardinality({t \in Execs \cup Users : wrap[t] # "before"}) <= 1
=============================================================================
