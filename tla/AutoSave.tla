------------------------------- MODULE AutoSave -------------------------------
(***************************************************************************)
(* Auto-save of a notebook page: CodeMirror's update listener (cell.js),   *)
(* the debounce timer of each cell, _saveCell, and _saveAllCells when the  *)
(* page is left (notebook.js); on the other side the source of each cell   *)
(* in the notebook's file (environment.py, behind app.py's handlers).      *)
(*                                                                         *)
(* Requests reach the server, and answers the page, in any order: a        *)
(* browser sends them on several connections.                              *)
(***************************************************************************)
EXTENDS Naturals, FiniteSets

CONSTANTS
    Cells,
    Texts,     \* what a cell may contain
    MaxEdits,  \* bound: changes of a document
    MaxFaults, \* bound: requests or answers that are lost
    MaxDeletes,\* bound: requests to delete a cell
    None       \* no timer, and the source of a cell that is not stored

ASSUME SaveAssumption ==
    /\ None \notin Texts
    /\ {MaxEdits, MaxFaults, MaxDeletes} \subseteq Nat

VARIABLES
    cells,      \* this.cells: the cells of the page
    source,     \* what each editor contains
    saveTimers, \* _saveTimers: the source each pending timer has captured
    lastSaved,  \* _lastSavedSource
    status,     \* the save indicator
    unloaded,   \* the page has been left
    puts,       \* requests to save a cell that the page has no answer to
    deletes,    \* requests to delete a cell that the page has no answer to
    stored,     \* server: the source of each cell in the notebook's file
    overlapped, \* history: cells saved while a save of another text was unanswered
    skipped,    \* history: cells not saved when the page was left, likewise
    failed,     \* history: cells whose latest save has failed
    edits, faults, sent  \* counters; sent also numbers the requests

editor == <<cells, source>>
saves == <<saveTimers, lastSaved, status>>
overlaps == <<overlapped, skipped>>
counters == <<edits, faults, sent>>
vars == <<editor, saves, unloaded, puts, deletes, stored, overlaps, failed, counters>>

\* Where a request is: on its way there, or on its way back.
Stages == {"sent", "done", "refused"}
Put == [n : Nat, cell : Cells, text : Texts, stage : Stages, keepalive : BOOLEAN]
Delete == [cell : Cells, stage : Stages]

Statuses == {"", "saving", "saved", "error"}

PutsOf(c) == {p \in puts : p.cell = c}
OtherTextsUnderWay(c, t) == \E p \in PutsOf(c) : p.text # t

Init ==
    /\ cells = Cells
    /\ \E t \in Texts : source = [c \in Cells |-> t]
    /\ saveTimers = [c \in Cells |-> None]
    /\ lastSaved = source
    /\ status = ""
    /\ unloaded = FALSE
    /\ puts = {}
    /\ deletes = {}
    /\ stored = source
    /\ overlapped = {}
    /\ skipped = {}
    /\ failed = {}
    /\ edits = 0 /\ faults = 0 /\ sent = 0

-----------------------------------------------------------------------------
(* The page. *)

\* Faulty variant: one timer for the page.
SetOnlyTimer(c, t) == saveTimers' = [d \in Cells |-> IF d = c THEN t ELSE None]

\* clearTimeout and setTimeout of the cell's own timer.
SetTimer(c, t) == saveTimers' = [saveTimers EXCEPT ![c] = t]

OnCellChanged(c, t) ==
    /\ ~unloaded /\ c \in cells /\ edits < MaxEdits
    /\ t # source[c]
    /\ edits' = edits + 1
    /\ source' = [source EXCEPT ![c] = t]
    /\ SetTimer(c, t)
    /\ status' = "saving"
    /\ UNCHANGED <<cells, lastSaved, unloaded, puts, deletes, stored, overlaps, failed,
                   faults, sent>>

\* The timer's callback: _saveCell up to its await, for a cell that may be gone by now.
SaveCell(c) ==
    /\ ~unloaded /\ saveTimers[c] # None
    /\ saveTimers' = [saveTimers EXCEPT ![c] = None]
    /\ puts' = puts \cup {[n |-> sent, cell |-> c, text |-> saveTimers[c],
                           stage |-> "sent", keepalive |-> FALSE]}
    /\ sent' = sent + 1
    /\ overlapped' = IF OtherTextsUnderWay(c, saveTimers[c]) THEN overlapped \cup {c}
                     ELSE overlapped
    /\ UNCHANGED <<editor, lastSaved, status, unloaded, deletes, stored, skipped, failed,
                   edits, faults>>

\* The rest of _saveCell; api.put returns null for an error of any kind.
SaveAnswered(p) ==
    /\ ~unloaded /\ p.stage # "sent"
    /\ puts' = puts \ {p}
    /\ \/ /\ p.stage = "done"
          /\ lastSaved' = [lastSaved EXCEPT ![p.cell] = p.text]
          /\ status' = "saved"
          /\ failed' = failed \ {p.cell}
       \/ /\ p.stage = "refused"
          /\ status' = "error"
          /\ UNCHANGED <<lastSaved, failed>>
    /\ UNCHANGED <<editor, saveTimers, unloaded, deletes, stored, overlaps, counters>>

\* The indicator is cleared two seconds after "Saved".
StatusFades ==
    /\ ~unloaded /\ status = "saved"
    /\ status' = ""
    /\ UNCHANGED <<editor, saveTimers, lastSaved, unloaded, puts, deletes, stored,
                   overlaps, failed, counters>>

DeleteCell(c) ==
    /\ ~unloaded /\ c \in cells
    /\ \A d \in deletes : d.cell # c
    /\ Cardinality(deletes) + Cardinality(Cells \ cells) < MaxDeletes
    /\ deletes' = deletes \cup {[cell |-> c, stage |-> "sent"]}
    /\ UNCHANGED <<editor, saves, unloaded, puts, stored, overlaps, failed, counters>>

\* The cell leaves the page; its timer, if any, stays.
DeleteAnswered(d) ==
    /\ ~unloaded /\ d.stage # "sent"
    /\ deletes' = deletes \ {d}
    /\ cells' = IF d.stage = "done" THEN cells \ {d.cell} ELSE cells
    /\ UNCHANGED <<source, saves, unloaded, puts, stored, overlaps, failed, counters>>

Unsaved == {c \in cells : source[c] # lastSaved[c]}

\* Faulty variant: cells with a pending timer are left to it.
FlushUntimed ==
    puts' = puts \cup {[n |-> sent, cell |-> c, text |-> source[c],
                        stage |-> "sent", keepalive |-> TRUE] :
                       c \in {d \in Unsaved : saveTimers[d] = None}}

\* One request per unsaved cell, all of them in one go.
Flush ==
    puts' = puts \cup {[n |-> sent, cell |-> c, text |-> source[c],
                        stage |-> "sent", keepalive |-> TRUE] : c \in Unsaved}

\* beforeunload.  A cell whose text is the one last confirmed is skipped, also when a save
\* of another text is on its way.
SaveAllCells ==
    LET overtaken == {c \in cells : OtherTextsUnderWay(c, source[c])}
    IN  /\ ~unloaded
        /\ unloaded' = TRUE
        /\ saveTimers' = [c \in Cells |-> None]
        /\ Flush
        /\ sent' = sent + 1
        /\ overlapped' = overlapped \cup (overtaken \cap Unsaved)
        /\ skipped' = overtaken \ Unsaved
        /\ UNCHANGED <<editor, lastSaved, status, deletes, stored, failed, edits, faults>>

-----------------------------------------------------------------------------
(* The server and the network. *)

Moved(p, stage) == (puts \ {p}) \cup {[p EXCEPT !.stage = stage]}

ServerSaves(p) ==
    /\ p.stage = "sent"
    /\ \/ /\ stored[p.cell] # None
          /\ stored' = [stored EXCEPT ![p.cell] = p.text]
          /\ puts' = Moved(p, "done")
       \/ /\ stored[p.cell] = None
          /\ puts' = Moved(p, "refused")
          /\ UNCHANGED stored
    /\ UNCHANGED <<editor, saves, unloaded, deletes, overlaps, failed, counters>>

ServerDeletes(d) ==
    /\ d.stage = "sent"
    /\ stored' = [stored EXCEPT ![d.cell] = None]
    /\ LET answer == IF stored[d.cell] = None THEN "refused" ELSE "done"
       IN  deletes' = (deletes \ {d}) \cup {[d EXCEPT !.stage = answer]}
    /\ UNCHANGED <<editor, saves, unloaded, puts, overlaps, failed, counters>>

\* The connection breaks, before or after the server has acted.
PutLost(p) ==
    /\ p.stage # "refused" /\ faults < MaxFaults
    /\ faults' = faults + 1
    /\ puts' = Moved(p, "refused")
    /\ failed' = failed \cup {p.cell}
    /\ UNCHANGED <<editor, saves, unloaded, deletes, stored, overlaps, edits, sent>>

DeleteLost(d) ==
    /\ d.stage # "refused" /\ faults < MaxFaults
    /\ faults' = faults + 1
    /\ deletes' = (deletes \ {d}) \cup {[d EXCEPT !.stage = "refused"]}
    /\ UNCHANGED <<editor, saves, unloaded, puts, stored, overlaps, failed, edits, sent>>

\* A page that is left takes its requests with it, except those sent with keepalive.
PutAborted(p) ==
    /\ unloaded /\ ~p.keepalive /\ p.stage = "sent"
    /\ puts' = puts \ {p}
    /\ UNCHANGED <<editor, saves, unloaded, deletes, stored, overlaps, failed, counters>>

Next ==
    \/ \E c \in Cells : SaveCell(c) \/ DeleteCell(c) \/ \E t \in Texts : OnCellChanged(c, t)
    \/ \E p \in puts : SaveAnswered(p) \/ ServerSaves(p) \/ PutLost(p) \/ PutAborted(p)
    \/ \E d \in deletes : DeleteAnswered(d) \/ ServerDeletes(d) \/ DeleteLost(d)
    \/ StatusFades
    \/ SaveAllCells

Spec == Init /\ [][Next]_vars

\* Timers fire, and requests that are not lost or aborted arrive.
FairSpec ==
    /\ Spec
    /\ \A c \in Cells : WF_vars(SaveCell(c))
    /\ WF_vars(\E p \in puts : ServerSaves(p) \/ PutAborted(p))

-----------------------------------------------------------------------------
(* Properties. *)

TypeOK ==
    /\ cells \subseteq Cells
    /\ source \in [Cells -> Texts]
    /\ saveTimers \in [Cells -> Texts \cup {None}]
    /\ lastSaved \in [Cells -> Texts]
    /\ status \in Statuses
    /\ unloaded \in BOOLEAN
    /\ puts \subseteq Put
    /\ deletes \subseteq Delete
    /\ stored \in [Cells -> Texts \cup {None}]
    /\ overlapped \subseteq Cells /\ skipped \subseteq Cells /\ failed \subseteq Cells
    /\ edits \in Nat /\ faults \in Nat /\ sent \in Nat

\* Cells for which the code keeps its word: still stored, never saved twice at a time with
\* different texts, and with no failed save that a later one has not made good.  It breaks
\* its word to those it skips when the page is left: an edit taken back to the text last
\* confirmed is lost to the save of the text before, which is still on its way.
Sound == {c \in cells : stored[c] # None /\ c \notin overlapped \cup skipped \cup failed}

SaveOnItsWay(c) ==
    \/ saveTimers[c] = source[c]
    \/ \E p \in PutsOf(c) : p.stage = "sent" /\ p.text = source[c]

\* An edit is never forgotten: what an editor contains is in the notebook's file, or the
\* cell's own timer has captured it, or a request carries it; also after the page is left,
\* and however edits of other cells restart their timers.
NothingForgotten == \A c \in Sound : stored[c] = source[c] \/ SaveOnItsWay(c)

\* The last edit of a cell reaches the notebook's file, by its timer or when the page is
\* left, with the same exceptions: a failed save is shown and not retried.
EditIsSaved == \A c \in Cells :
    (c \in Sound /\ source[c] # stored[c]) ~> (c \notin Sound \/ source[c] = stored[c])
=============================================================================
