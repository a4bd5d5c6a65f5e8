-------------------------- MODULE MCNotebookSocket --------------------------
(* An instance of NotebookSocket for TLC. *)
EXTENDS NotebookSocket

CONSTANTS s1, s2, s3

=============================================================================
