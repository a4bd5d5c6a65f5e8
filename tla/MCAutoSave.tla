----------------------------- MODULE MCAutoSave -----------------------------
(* An instance of AutoSave for TLC. *)
EXTENDS AutoSave

CONSTANTS a, b, t1, t2
=============================================================================
