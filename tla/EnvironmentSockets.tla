-------------------------- MODULE EnvironmentSockets --------------------------
(***************************************************************************)
(* The WebSockets of an environment: each belongs to a notebook, and the   *)
(* notebook to an environment.  ExecutorPool and ResourceBroadcaster are   *)
(* about what the sockets of one environment share.                        *)
(***************************************************************************)

CONSTANTS
    Envs,       \* environment ids
    Sockets,    \* WebSocket connections; each is opened once
    EnvOf,      \* the environment of the notebook a socket is for
    None        \* no client, no task, no environment

ASSUME EnvAssumption == EnvOf \in [Sockets -> Envs]
=============================================================================
