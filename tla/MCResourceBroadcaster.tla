------------------------ MODULE MCResourceBroadcaster ------------------------
(* An instance of ResourceBroadcaster for TLC: all sockets in one environment. *)
EXTENDS ResourceBroadcaster

CONSTANTS e1

MCEnvOf == [w \in Sockets |-> e1]
=============================================================================
