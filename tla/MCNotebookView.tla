--------------------------- MODULE MCNotebookView ---------------------------
(* An instance of NotebookView for TLC. *)
EXTENDS NotebookView, TLC

CONSTANTS a, b

BothCells == <<a, b>>

\* A run of cell a shows a display between two outputs, or ends earlier; one of cell b
\* shows one output or none.
DisplayBetween ==
    a :> {<<"output">>, <<"output", "transient">>, <<"output", "transient", "output">>}
    @@ b :> {<<"output">>}

\* A bound on what is shown, faults and interrupts together: long logs without an
\* interrupt, interrupts with short logs.  None of these steps is fair.
Shown == FoldSeq(LAMBDA run, n : n + Len(SelectSeq(run.log, LAMBDA e : e \in ShownLive)),
                 0, runs)
FewEvents == Shown + faults + 3 * interrupts <= 4

\* A bound on what is asked: the first execution is of cell a.
FirstIsA ==
    LET asked == SelectSeq(outbox, LAMBDA m : m.type = "execute") IN
    runs = <<>> /\ asked # <<>> => Head(asked).cell = a
=============================================================================
