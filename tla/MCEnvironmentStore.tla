-------------------------- MODULE MCEnvironmentStore --------------------------
(* An instance of EnvironmentStore for TLC: two environments, of two notebooks and of one. *)
EXTENDS EnvironmentStore, TLC

CONSTANTS e1, e2, n1, n2, n3, c1

MCEnvOf == (n1 :> e1 @@ n2 :> e1 @@ n3 :> e2)
Symmetry == Permutations({n1, n2})
=============================================================================
