--------------------------- MODULE MCNotebookCells ---------------------------
(* An instance of NotebookCells for TLC. *)
EXTENDS NotebookCells

\* Either three requests with steps of every other kind, or four by themselves: two
\* deletions and two undos are the least that a wrong order of undos takes.
FourAlone == requests = 4 => typeChanges + faults + moves = 0
=============================================================================
