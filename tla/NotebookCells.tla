----------------------------- MODULE NotebookCells -----------------------------
(***************************************************************************)
(* The list of cells of a notebook page and the one in the notebook's      *)
(* file: insertCellAbove/Below, deleteCell, undoDelete, changeCellType,    *)
(* the selection and the command and edit modes (notebook.js, cell.js),    *)
(* and the handlers that the requests reach (app.py, environment.py).      *)
(*                                                                         *)
(* Positions are computed before a request is sent and used when it is     *)
(* answered; in between, other requests are sent and answered.  Positions  *)
(* count from 0, as in the code, and are -1 for an id that is not there.   *)
(***************************************************************************)
EXTENDS Integers, SequencesExt, FiniteSets

CONSTANTS
    InitialCells,   \* number of cells that the notebook is loaded with
    MaxRequests,    \* bound: requests that insert or delete
    MaxTypeChanges, \* bound: requests that change a type
    MaxFaults,      \* bound: requests or answers that are lost
    MaxMoves,       \* bound: changes of selection or mode
    None            \* no cell

ASSUME CellsAssumption ==
    /\ None \notin Nat
    /\ {InitialCells, MaxRequests, MaxTypeChanges, MaxFaults, MaxMoves} \subseteq Nat

Ids == 1..(InitialCells + MaxRequests)
CellTypes == {"code", "markdown"}

VARIABLES
    cells,        \* this.cells: the ids of the cells that have a component
    cellOrder,    \* this.cellOrder
    dom,          \* order of the elements in cells-container
    type,         \* cellType of each component
    ui,           \* selectedCellId, mode, and the elements shown as selected or edited
    deleteBuffer, \* what Z brings back
    sent,         \* requests on their way to the server
    replies,      \* answers on their way to the page, in the order they were made
    typePuts,     \* requests to change a type that are on their way
    file,         \* server: ids of the stored cells, in order
    fileType,     \* server: their types
    nextId,       \* server: the id that the next cell gets
    disturbed,    \* history: a deletion overlapped another request, an undo overtook the
                  \* one before it, an answer overtook another, or a request failed
    mistyped,     \* history: cells with two changes of type under way, or a lost one
    requests, typeChanges, faults, moves \* counters

page == <<cells, cellOrder, dom, type>>
network == <<sent, replies, typePuts>>
server == <<file, fileType, nextId>>
history == <<disturbed, mistyped>>
counters == <<requests, typeChanges, faults, moves>>
vars == <<page, ui, deleteBuffer, network, server, history, counters>>

Init ==
    /\ cells = 1..InitialCells
    /\ cellOrder = [i \in 1..InitialCells |-> i]
    /\ dom = cellOrder
    /\ type = [c \in Ids |-> "code"]
    /\ ui = [selected |-> IF InitialCells = 0 THEN None ELSE 1, mode |-> "command",
             lit |-> cells \cap {1}, editing |-> {}]
    /\ deleteBuffer = <<>>
    /\ sent = {} /\ replies = <<>> /\ typePuts = {}
    /\ file = cellOrder
    /\ fileType = type
    /\ nextId = InitialCells + 1
    /\ disturbed = FALSE /\ mistyped = {}
    /\ requests = 0 /\ typeChanges = 0 /\ faults = 0 /\ moves = 0

IndexOf(c) == SelectInSeq(cellOrder, LAMBDA d : d = c) - 1

-----------------------------------------------------------------------------
(* Selection and modes: the state u of the ui, on a page with cells present. *)

CommandMode(u) == [u EXCEPT !.mode = "command", !.editing = @ \ {u.selected}]

EditMode(u, present) ==
    LET shown == {u.selected} \cap present IN
    [u EXCEPT !.mode = "edit", !.lit = @ \cup shown, !.editing = @ \cup shown]

\* Faulty variant: only the selection moves.
SelectAlone(u, c, present) ==
    IF u.selected = c THEN u
    ELSE CommandMode([u EXCEPT !.selected = c,
                               !.lit = (@ \ {u.selected}) \cup ({c} \cap present)])

SelectCell(u, c, present) ==
    IF u.selected = c THEN u
    ELSE CommandMode([u EXCEPT !.selected = c,
                               !.lit = (@ \ {u.selected}) \cup ({c} \cap present),
                               !.editing = @ \ {u.selected}])

Neighbour(step) ==
    LET i == IndexOf(ui.selected) + step
    IN  IF i \in 0..(Len(cellOrder) - 1) THEN cellOrder[i + 1] ELSE ui.selected

\* A click on a cell, focus given to its editor, and the keys k, j, Enter and Escape.
Move ==
    /\ moves < MaxMoves
    /\ moves' = moves + 1
    /\ \/ \E c \in cells : ui' = SelectCell(ui, c, cells)
       \/ \E c \in cells : ui' = EditMode(SelectCell(ui, c, cells), cells)
       \/ /\ ui.mode = "command"
          /\ \E step \in {-1, 1} : ui' = SelectCell(ui, Neighbour(step), cells)
       \/ ui.mode = "command" /\ ui' = EditMode(ui, cells)
       \/ ui.mode = "edit" /\ ui' = CommandMode(ui)
    /\ UNCHANGED <<page, deleteBuffer, network, server, history, requests, typeChanges, faults>>

-----------------------------------------------------------------------------
(* Requests. *)

Outstanding == sent # {} \/ replies # <<>>
DeletesOutstanding ==
    \E r \in sent \cup ToSet(replies) : r.op = "delete"

Request(r) ==
    /\ requests < MaxRequests
    /\ requests' = requests + 1
    /\ sent' = sent \cup {r}
    /\ disturbed' = (disturbed \/ DeletesOutstanding \/ (r.op = "delete" /\ Outstanding))
    /\ UNCHANGED <<page, replies, typePuts, server, mistyped, typeChanges, faults, moves>>

Insertion(op, position, t) ==
    [n |-> requests, op |-> op, position |-> position, type |-> t, cell |-> None]

InsertCellAbove ==
    /\ ui.mode = "command"
    /\ Request(Insertion("insert", Max({0, IndexOf(ui.selected)}), "code"))
    /\ UNCHANGED <<ui, deleteBuffer>>

InsertCellBelow(t) ==
    /\ Request(Insertion("insert", IndexOf(ui.selected) + 1, t))
    /\ UNCHANGED <<ui, deleteBuffer>>

\* Its execution is another matter; at the end of the notebook a cell is inserted.
ExecuteCellAndAdvance ==
    /\ ui.selected # None
    /\ IndexOf(ui.selected) >= Len(cellOrder) - 1
    /\ InsertCellBelow("code")

\* The entry for undo is made before the server is asked.
DeleteCell(c) ==
    /\ c \in cells
    /\ Request([n |-> requests, op |-> "delete", position |-> IndexOf(c),
                type |-> type[c], cell |-> c])
    /\ deleteBuffer' = Append(deleteBuffer, [position |-> IndexOf(c), type |-> type[c]])
    /\ UNCHANGED ui

UndoDelete ==
    /\ ui.mode = "command" /\ deleteBuffer # <<>>
    /\ LET entry == Last(deleteBuffer) IN
       Request(Insertion("undo", entry.position, entry.type))
    /\ deleteBuffer' = Front(deleteBuffer)
    /\ UNCHANGED ui

\* Changed on the page at once; the answer is not waited for, whatever it is.
ChangeCellType(c, t) ==
    /\ ui.mode = "command" /\ typeChanges < MaxTypeChanges
    /\ c = ui.selected /\ c \in cells /\ type[c] # t
    /\ type' = [type EXCEPT ![c] = t]
    /\ typePuts' = typePuts \cup {[n |-> typeChanges, cell |-> c, type |-> t]}
    /\ mistyped' = IF \E p \in typePuts : p.cell = c THEN mistyped \cup {c} ELSE mistyped
    /\ typeChanges' = typeChanges + 1
    /\ UNCHANGED <<cells, cellOrder, dom, ui, deleteBuffer, sent, replies, server,
                   disturbed, requests, faults, moves>>

-----------------------------------------------------------------------------
(* The server: each handler reads the file, changes it and writes it without an await. *)

Reply(r, ok, new) ==
    /\ sent' = sent \ {r}
    /\ replies' = Append(replies, [n |-> r.n, op |-> r.op, position |-> r.position,
                                   type |-> r.type, cell |-> r.cell, ok |-> ok, new |-> new])

\* A position outside the list appends, and the page finds nothing at data.cells[position].
AddCell(r) ==
    /\ r.op # "delete"
    /\ nextId' = nextId + 1
    /\ fileType' = [fileType EXCEPT ![nextId] = r.type]
    /\ \/ /\ r.position \in 0..Len(file)
          /\ file' = InsertAt(file, r.position + 1, nextId)
          /\ Reply(r, TRUE, nextId)
       \/ /\ r.position \notin 0..Len(file)
          /\ file' = Append(file, nextId)
          /\ Reply(r, TRUE, None)

\* Every id is in the list at most once.
RemoveCell(r) ==
    /\ r.op = "delete"
    /\ file' = RemoveFirst(file, r.cell)
    /\ Reply(r, Contains(file, r.cell), None)
    /\ UNCHANGED <<fileType, nextId>>

\* The entries of the undo buffer fit if they are taken from the last to the first.
OvertakesUndo(r) == r.op = "undo" /\ \E q \in sent : q.op = "undo" /\ q.n < r.n

ServerActs(r) ==
    /\ AddCell(r) \/ RemoveCell(r)
    /\ disturbed' = (disturbed \/ OvertakesUndo(r))
    /\ UNCHANGED <<page, ui, deleteBuffer, typePuts, mistyped, counters>>

ServerSetsType(p) ==
    /\ typePuts' = typePuts \ {p}
    /\ fileType' = IF Contains(file, p.cell) THEN [fileType EXCEPT ![p.cell] = p.type]
                   ELSE fileType
    /\ UNCHANGED <<page, ui, deleteBuffer, sent, replies, file, nextId, history, counters>>

\* A request is lost, or its answer.
Lost ==
    /\ faults < MaxFaults
    /\ faults' = faults + 1
    /\ \/ \E r \in sent :
            /\ sent' = sent \ {r}
            /\ disturbed' = TRUE
            /\ UNCHANGED <<replies, typePuts, mistyped>>
       \/ \E i \in DOMAIN replies :
            /\ replies' = RemoveAt(replies, i)
            /\ disturbed' = TRUE
            /\ UNCHANGED <<sent, typePuts, mistyped>>
       \/ \E p \in typePuts :
            /\ typePuts' = typePuts \ {p}
            /\ mistyped' = mistyped \cup {p.cell}
            /\ UNCHANGED <<sent, replies, disturbed>>
    /\ UNCHANGED <<page, ui, deleteBuffer, server, requests, typeChanges, moves>>

-----------------------------------------------------------------------------
(* Answers. *)

\* insertBefore an element that does not exist appends.
DomWith(c, position) ==
    IF position < Len(cellOrder) /\ Contains(dom, cellOrder[position + 1])
    THEN InsertAt(dom, SelectInSeq(dom, LAMBDA d : d = cellOrder[position + 1]), c)
    ELSE Append(dom, c)

AddCellComponent(c, position, t) ==
    /\ cells' = cells \cup {c}
    /\ cellOrder' = IF position < Len(cellOrder) THEN InsertAt(cellOrder, position + 1, c)
                    ELSE Append(cellOrder, c)
    /\ dom' = DomWith(c, position)
    /\ type' = [type EXCEPT ![c] = t]

OnInserted(r) ==
    \/ r.new = None /\ UNCHANGED <<page, ui>>
    \/ /\ r.new # None
       /\ AddCellComponent(r.new, r.position, r.type)
       /\ LET u == SelectCell(ui, r.new, cells \cup {r.new}) IN
          ui' = IF r.op = "insert" THEN EditMode(u, cells \cup {r.new}) ELSE u

\* Faulty variant: the position is taken to count from 1.
SpliceFromOne(i) ==
    IF i \in DOMAIN cellOrder THEN RemoveAt(cellOrder, i) ELSE cellOrder

\* Array.splice(i, 1): -1 is the last element.
Splice(i) ==
    IF i = -1 THEN (IF cellOrder = <<>> THEN <<>> ELSE Front(cellOrder))
    ELSE IF i < Len(cellOrder) THEN RemoveAt(cellOrder, i + 1) ELSE cellOrder

AdjacentIn(order, i) ==
    LET j == IF i < Len(order) THEN i ELSE Len(order) - 1
    IN  IF j = -1 THEN None ELSE order[j + 1]

OnDeleted(r) ==
    \/ ~r.ok /\ UNCHANGED <<page, ui>>
    \/ /\ r.ok
       /\ cells' = cells \ {r.cell}
       /\ dom' = RemoveFirst(dom, r.cell)
       /\ cellOrder' = Splice(r.position)
       /\ LET u == [ui EXCEPT !.lit = @ \ {r.cell}, !.editing = @ \ {r.cell}] IN
          ui' = IF cellOrder' = <<>> THEN [u EXCEPT !.selected = None, !.lit = {}, !.editing = {}]
                ELSE SelectCell(u, AdjacentIn(cellOrder', r.position), cells')
       /\ UNCHANGED type

Answer(i) ==
    /\ LET r == replies[i] IN
       \/ r.op # "delete" /\ OnInserted(r)
       \/ r.op = "delete" /\ OnDeleted(r)
    /\ replies' = RemoveAt(replies, i)
    /\ disturbed' = (disturbed \/ i # 1)
    /\ UNCHANGED <<deleteBuffer, sent, typePuts, server, mistyped, counters>>

Next ==
    \/ Move
    \/ InsertCellAbove
    \/ \E t \in CellTypes : InsertCellBelow(t)
    \/ ExecuteCellAndAdvance
    \/ \E c \in cells : DeleteCell(c) \/ \E t \in CellTypes : ChangeCellType(c, t)
    \/ UndoDelete
    \/ \E r \in sent : ServerActs(r)
    \/ \E p \in typePuts : ServerSetsType(p)
    \/ Lost
    \/ \E i \in DOMAIN replies : Answer(i)

Spec == Init /\ [][Next]_vars

-----------------------------------------------------------------------------
(* Properties. *)

\* When every request is answered, the page's list, its elements and the file hold the
\* same cells in the same order, with the same types, so that a reload changes nothing
\* and run-all runs the cells that are seen.  Insertions may overlap as long as they are
\* answered in order, and served in order where they undo deletions; deletions may not
\* overlap anything, and two changes of one type may not overlap each other.
PageAgreesWithFile ==
    (~Outstanding /\ ~disturbed) =>
        /\ cellOrder = file /\ dom = file /\ cells = ToSet(file)
        /\ typePuts = {} => \A c \in cells \ mistyped : type[c] = fileType[c]

\* Whatever overlaps and fails, at most the selected cell is shown as selected, and a cell
\* is in edit mode if and only if the page is and the cell is the selected one: answers
\* move the selection while the user moves it too.
SelectionShown ==
    /\ ui.lit = {ui.selected} \cap cells
    /\ ui.editing = IF ui.mode = "edit" THEN {ui.selected} \cap cells ELSE {}
=============================================================================
