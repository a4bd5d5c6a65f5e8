-------------------------- MODULE NotebookCellsProofs --------------------------
(***************************************************************************)
(* Proofs about NotebookCells, for any number of cells, requests, moves    *)
(* and losses: the selection and the mode are shown right whatever         *)
(* overlaps and whichever answer comes first; list, elements and file      *)
(* agree once all is answered, unless requests disturbed each other.       *)
(***************************************************************************)
EXTENDS NotebookCells, SequenceTheorems, FiniteSetTheorems,
        WellFoundedInduction, TLAPS

-----------------------------------------------------------------------------
(* Sequences and positions. *)

LEMMA LeastIndex ==
    ASSUME NEW I, I \subseteq Nat, I # {}
    PROVE  \E m \in I : \A k \in I : m <= k
  <1> DEFINE R == OpToRel(<, Nat)
  <1>1. IsWellFoundedOn(R, Nat)
    BY NatLessThanWellFounded
  <1>2. \A k, m \in Nat : k < m => <<k, m>> \in R
    BY DEF OpToRel
  <1> HIDE DEF R
  <1>3. PICK m \in I : \A k \in I : <<k, m>> \notin R
    BY <1>1, WFMin
  <1>4. ASSUME NEW k \in I PROVE m <= k
    <2>1. k \in Nat /\ m \in Nat
      OBVIOUS
    <2>2. ~(k < m)
      BY <1>2, <1>3, <2>1
    <2> QED BY <2>1, <2>2
  <1> QED BY <1>4

\* indexOf: a position in the list, or -1.
LEMMA IndexIsPosition ==
    ASSUME cellOrder \in Seq(Nat), NEW c
    PROVE  IndexOf(c) \in -1..(Len(cellOrder) - 1)
  <1> DEFINE I == {i \in 1..Len(cellOrder) : cellOrder[i] = c}
  <1>1. IndexOf(c) = IF I # {} THEN Min(I) - 1 ELSE -1
    BY DEF IndexOf, SelectInSeq
  <1>2. Len(cellOrder) \in Nat /\ I \subseteq 1..Len(cellOrder) /\ I \subseteq Nat
    OBVIOUS
  <1> HIDE DEF I
  <1>3. ASSUME I # {} PROVE Min(I) \in 1..Len(cellOrder)
    <2>1. \E m \in I : \A k \in I : m <= k
      BY <1>2, <1>3, LeastIndex
    <2>2. Min(I) \in I
      BY <2>1 DEF Min
    <2> QED BY <1>2, <2>2
  <1>4. CASE I = {}
    BY <1>1, <1>2, <1>4
  <1>5. CASE I # {}
    <2> DEFINE m == Min(I)
    <2>1. m \in 1..Len(cellOrder) /\ IndexOf(c) = m - 1
      BY <1>1, <1>3, <1>5
    <2> HIDE DEF m
    <2> QED BY <1>2, <2>1
  <1> QED BY <1>4, <1>5

LEMMA Piece ==
    ASSUME NEW S, NEW q \in Seq(S), NEW m \in Nat \ {0}, NEW n \in Nat, n <= Len(q)
    PROVE  /\ SubSeq(q, m, n) \in Seq(S)
           /\ Len(SubSeq(q, m, n)) = IF m <= n THEN n - m + 1 ELSE 0
           /\ \A i \in 1..(n - m + 1) : SubSeq(q, m, n)[i] = q[m + i - 1]
  <1>1. m \in Int /\ n \in Int /\ \A i \in m..n : q[i] \in S
    BY ElementOfSeq
  <1> QED BY <1>1, SubSeqProperties

LEMMA RemoveAtElements ==
    ASSUME NEW S, NEW q \in Seq(S), NEW i \in 1..Len(q)
    PROVE  /\ RemoveAt(q, i) \in Seq(S)
           /\ Len(RemoveAt(q, i)) = Len(q) - 1
           /\ \A j \in 1..(Len(q) - 1) :
                RemoveAt(q, i)[j] = IF j < i THEN q[j] ELSE q[j + 1]
  <1> DEFINE a == SubSeq(q, 1, i - 1)
             b == SubSeq(q, i + 1, Len(q))
  <1>1. Len(q) \in Nat /\ i \in Nat /\ i - 1 \in Nat
    OBVIOUS
  <1>2. a \in Seq(S) /\ Len(a) = i - 1 /\ \A j \in 1..(i - 1) : a[j] = q[j]
    <2>1. 1 \in Nat \ {0} /\ i - 1 <= Len(q)
      BY <1>1
    <2>2. /\ SubSeq(q, 1, i - 1) \in Seq(S)
          /\ Len(SubSeq(q, 1, i - 1)) = IF 1 <= i - 1 THEN (i - 1) - 1 + 1 ELSE 0
          /\ \A j \in 1..((i - 1) - 1 + 1) : SubSeq(q, 1, i - 1)[j] = q[1 + j - 1]
      BY <1>1, <2>1, Piece
    <2> QED BY <1>1, <2>2
  <1>3. b \in Seq(S) /\ Len(b) = Len(q) - i /\ \A j \in 1..(Len(q) - i) : b[j] = q[i + j]
    <2>1. i + 1 \in Nat \ {0} /\ Len(q) <= Len(q)
      BY <1>1
    <2>2. /\ SubSeq(q, i + 1, Len(q)) \in Seq(S)
          /\ Len(SubSeq(q, i + 1, Len(q))) =
                IF i + 1 <= Len(q) THEN Len(q) - (i + 1) + 1 ELSE 0
          /\ \A j \in 1..(Len(q) - (i + 1) + 1) :
                SubSeq(q, i + 1, Len(q))[j] = q[(i + 1) + j - 1]
      BY <1>1, <2>1, Piece
    <2> QED BY <1>1, <2>2
  <1> HIDE DEF a, b
  <1>4. /\ a \o b \in Seq(S)
        /\ Len(a \o b) = Len(a) + Len(b)
        /\ \A j \in 1..(Len(a) + Len(b)) :
             (a \o b)[j] = IF j <= Len(a) THEN a[j] ELSE b[j - Len(a)]
    BY <1>2, <1>3, ConcatProperties
  <1>5. ASSUME NEW j \in 1..(Len(q) - 1)
        PROVE  (a \o b)[j] = IF j < i THEN q[j] ELSE q[j + 1]
    <2>1. j \in 1..(Len(a) + Len(b)) /\ Len(a) = i - 1
      BY <1>1, <1>2, <1>3
    <2>2. CASE j < i
      BY <1>1, <1>2, <1>4, <2>1, <2>2
    <2>3. CASE ~(j < i)
      <3>1. j - Len(a) \in 1..(Len(q) - i) /\ i + (j - Len(a)) = j + 1
        BY <1>1, <2>1, <2>3
      <3> QED BY <1>1, <1>3, <1>4, <2>1, <2>3, <3>1
    <2> QED BY <2>2, <2>3
  <1>6. RemoveAt(q, i) = a \o b
    BY DEF RemoveAt, a, b
  <1>7. Len(a \o b) = Len(q) - 1
    BY <1>1, <1>2, <1>3, <1>4
  <1> QED BY <1>4, <1>5, <1>6, <1>7

LEMMA ConcatSet ==
    ASSUME NEW S, NEW p \in Seq(S), NEW q \in Seq(S)
    PROVE  p \o q \in Seq(S) /\ ToSet(p \o q) \subseteq ToSet(p) \cup ToSet(q)
  <1>1. Len(p) \in Nat /\ Len(q) \in Nat
    OBVIOUS
  <1>2. /\ p \o q \in Seq(S)
        /\ Len(p \o q) = Len(p) + Len(q)
        /\ \A j \in 1..(Len(p) + Len(q)) :
             (p \o q)[j] = IF j <= Len(p) THEN p[j] ELSE q[j - Len(p)]
    BY ConcatProperties
  <1>3. ASSUME NEW j \in 1..Len(p \o q) PROVE (p \o q)[j] \in ToSet(p) \cup ToSet(q)
    <2>1. CASE j <= Len(p)
      BY <1>1, <1>2, <2>1 DEF ToSet
    <2>2. CASE ~(j <= Len(p))
      <3>1. j - Len(p) \in 1..Len(q)
        BY <1>1, <1>2, <2>2
      <3> QED BY <1>2, <2>2, <3>1 DEF ToSet
    <2> QED BY <2>1, <2>2
  <1> QED BY <1>2, <1>3 DEF ToSet

LEMMA PieceSet ==
    ASSUME NEW S, NEW q \in Seq(S), NEW m \in Nat \ {0}, NEW n \in Nat, n <= Len(q)
    PROVE  SubSeq(q, m, n) \in Seq(S) /\ ToSet(SubSeq(q, m, n)) \subseteq ToSet(q)
  <1> DEFINE a == SubSeq(q, m, n)
  <1>1. a \in Seq(S) /\ Len(a) = IF m <= n THEN n - m + 1 ELSE 0
    BY Piece
  <1>2. \A i \in 1..(n - m + 1) : a[i] = q[m + i - 1]
    BY Piece
  <1> HIDE DEF a
  <1>3. ASSUME NEW i \in 1..Len(a) PROVE a[i] \in ToSet(q)
    <2>1. i \in 1..(n - m + 1) /\ m + i - 1 \in 1..Len(q)
      BY <1>1
    <2> QED BY <1>2, <2>1 DEF ToSet
  <1>4. DOMAIN a = 1..Len(a)
    BY <1>1
  <1>5. ToSet(a) \subseteq ToSet(q)
    BY <1>3, <1>4, Zenon DEF ToSet
  <1> QED BY <1>1, <1>5 DEF a

LEMMA InsertAtElements ==
    ASSUME NEW S, NEW q \in Seq(S), NEW i \in 1..(Len(q) + 1), NEW e \in S
    PROVE  InsertAt(q, i, e) \in Seq(S) /\ ToSet(InsertAt(q, i, e)) \subseteq ToSet(q) \cup {e}
  <1> DEFINE a == SubSeq(q, 1, i - 1)
             b == SubSeq(q, i, Len(q))
  <1>1. Len(q) \in Nat /\ i \in Nat \ {0} /\ 1 \in Nat \ {0} /\ i - 1 \in Nat
        /\ i - 1 <= Len(q) /\ Len(q) <= Len(q)
    OBVIOUS
  <1>2. a \in Seq(S) /\ ToSet(a) \subseteq ToSet(q)
    BY <1>1, PieceSet
  <1>3. b \in Seq(S) /\ ToSet(b) \subseteq ToSet(q)
    BY <1>1, PieceSet
  <1>4. <<e>> \in Seq(S) /\ ToSet(<<e>>) = {e}
    BY DEF ToSet
  <1> HIDE DEF a, b
  <1>5. a \o <<e>> \in Seq(S) /\ ToSet(a \o <<e>>) \subseteq ToSet(a) \cup {e}
    BY <1>2, <1>4, ConcatSet
  <1>6. (a \o <<e>>) \o b \in Seq(S)
        /\ ToSet((a \o <<e>>) \o b) \subseteq ToSet(a \o <<e>>) \cup ToSet(b)
    BY <1>3, <1>5, ConcatSet
  <1>7. InsertAt(q, i, e) = (a \o <<e>>) \o b
    BY DEF InsertAt, a, b
  <1> QED BY <1>2, <1>3, <1>5, <1>6, <1>7

LEMMA AppendElements ==
    ASSUME NEW S, NEW q \in Seq(S), NEW e \in S
    PROVE  Append(q, e) \in Seq(S) /\ ToSet(Append(q, e)) \subseteq ToSet(q) \cup {e}
  BY DEF ToSet

-----------------------------------------------------------------------------
(* The selection as it is shown, on a page with the cells of P. *)

UI == [selected : Nat \cup {None}, mode : {"command", "edit"},
       lit : SUBSET Nat, editing : SUBSET Nat]

Shown(u, P) ==
    /\ u.lit = {u.selected} \cap P
    /\ u.editing = IF u.mode = "edit" THEN {u.selected} \cap P ELSE {}

LEMMA CommandModeShown ==
    ASSUME NEW P, NEW u \in UI, Shown(u, P)
    PROVE  /\ CommandMode(u) \in UI /\ Shown(CommandMode(u), P)
           /\ CommandMode(u).selected = u.selected
  BY DEF CommandMode, Shown, UI

LEMMA EditModeShown ==
    ASSUME NEW P \in SUBSET Nat, NEW u \in UI, Shown(u, P)
    PROVE  /\ EditMode(u, P) \in UI /\ Shown(EditMode(u, P), P)
           /\ EditMode(u, P).selected = u.selected
  BY DEF EditMode, Shown, UI

LEMMA SelectCellShown ==
    ASSUME NEW P \in SUBSET Nat, NEW u \in UI, NEW c \in Nat \cup {None}, Shown(u, P)
    PROVE  /\ SelectCell(u, c, P) \in UI /\ Shown(SelectCell(u, c, P), P)
           /\ SelectCell(u, c, P).selected = c
  BY DEF SelectCell, CommandMode, Shown, UI

-----------------------------------------------------------------------------
(* The inductive invariant. *)

PageTypes ==
    /\ cells \subseteq Nat
    /\ cellOrder \in Seq(Nat)
    /\ ui \in UI
    /\ nextId \in Nat
    /\ replies \in Seq(ToSet(replies))

\* A cell is deleted at a position of the list, or at -1.
DeletionsArePlaced ==
    /\ \A r \in sent : r.op = "delete" => r.position \in Nat \cup {-1}
    /\ \A r \in ToSet(replies) : r.op = "delete" => r.position \in Nat \cup {-1}

\* Whatever the page knows of was given out by the server.
SeenIsGivenOut ==
    \A c \in cells \cup ToSet(cellOrder) \cup ({ui.selected} \ {None}) : c < nextId

\* A cell that is yet to be answered for is new to the page: were it selected before it
\* has an element, the element would not be shown as selected.
Unseen(c) == c \in Nat /\ c < nextId /\ c # ui.selected /\ c \notin cells \cup ToSet(cellOrder)

AnsweredIsNew ==
    \A i \in 1..Len(replies) : replies[i].new # None =>
        /\ replies[i].position \in Nat
        /\ Unseen(replies[i].new)
        /\ \A j \in 1..Len(replies) : replies[j].new = replies[i].new => j = i

SelectionInv ==
    PageTypes /\ DeletionsArePlaced /\ SeenIsGivenOut /\ AnsweredIsNew /\ Shown(ui, cells)

LEMMA SelectionInit == Init => SelectionInv
  <1> SUFFICES ASSUME Init PROVE SelectionInv
    OBVIOUS
  <1>1. InitialCells \in Nat /\ None \notin Nat
    BY CellsAssumption
  <1>2. cellOrder \in Seq(Nat) /\ ToSet(cellOrder) \subseteq 1..InitialCells
    BY <1>1 DEF Init, ToSet
  <1>3. ui \in UI /\ Shown(ui, cells)
    BY <1>1 DEF Init, UI, Shown
  <1>4. PageTypes
    BY <1>1, <1>2, <1>3 DEF Init, PageTypes
  <1>5. DeletionsArePlaced /\ AnsweredIsNew
    BY DEF Init, DeletionsArePlaced, AnsweredIsNew, ToSet
  <1>6. SeenIsGivenOut
    BY <1>1, <1>2 DEF Init, SeenIsGivenOut
  <1> QED BY <1>3, <1>4, <1>5, <1>6 DEF SelectionInv

-----------------------------------------------------------------------------
(* Steps of the user. *)

LEMMA MoveKeeps == SelectionInv /\ Move => SelectionInv'
  <1> SUFFICES ASSUME SelectionInv, Move PROVE SelectionInv'
    OBVIOUS
  <1>1. /\ cells \in SUBSET Nat /\ cellOrder \in Seq(Nat) /\ ui \in UI /\ Shown(ui, cells)
        /\ ui.selected \in Nat \cup {None}
    BY DEF SelectionInv, PageTypes, UI
  <1>2. UNCHANGED <<cells, cellOrder, sent, replies, nextId>>
    BY DEF Move, page, network, server
  <1> DEFINE Known == cells \cup ToSet(cellOrder) \cup {ui.selected}
  <1>3. ASSUME NEW step \in {-1, 1} PROVE Neighbour(step) \in Known /\ Neighbour(step) \in Nat \cup {None}
    <2> DEFINE i == IndexOf(ui.selected) + step
    <2>1. IndexOf(ui.selected) \in Int /\ Len(cellOrder) \in Nat
      BY <1>1, IndexIsPosition
    <2>2. i \in Int
      BY <2>1
    <2>3. Neighbour(step) = IF i \in 0..(Len(cellOrder) - 1) THEN cellOrder[i + 1] ELSE ui.selected
      BY DEF Neighbour
    <2> HIDE DEF i
    <2>4. CASE i \in 0..(Len(cellOrder) - 1)
      <3>1. i + 1 \in 1..Len(cellOrder)
        BY <2>1, <2>4
      <3> QED BY <1>1, <2>3, <2>4, <3>1 DEF ToSet
    <2> QED BY <1>1, <2>3, <2>4
  <1>4. ui' \in UI /\ Shown(ui', cells) /\ ui'.selected \in Known
    <2>1. ASSUME NEW c \in cells, ui' = SelectCell(ui, c, cells)
          PROVE  ui' \in UI /\ Shown(ui', cells) /\ ui'.selected \in Known
      BY <1>1, <2>1, SelectCellShown
    <2>2. ASSUME NEW c \in cells, ui' = EditMode(SelectCell(ui, c, cells), cells)
          PROVE  ui' \in UI /\ Shown(ui', cells) /\ ui'.selected \in Known
      <3> DEFINE v == SelectCell(ui, c, cells)
      <3>1. v \in UI /\ Shown(v, cells) /\ v.selected = c
        BY <1>1, SelectCellShown
      <3> HIDE DEF v
      <3> QED BY <1>1, <2>2, <3>1, EditModeShown DEF v
    <2>3. ASSUME NEW step \in {-1, 1}, ui' = SelectCell(ui, Neighbour(step), cells)
          PROVE  ui' \in UI /\ Shown(ui', cells) /\ ui'.selected \in Known
      BY <1>1, <1>3, <2>3, SelectCellShown
    <2>4. CASE ui' = EditMode(ui, cells)
      BY <1>1, <2>4, EditModeShown
    <2>5. CASE ui' = CommandMode(ui)
      BY <1>1, <2>5, CommandModeShown
    <2> QED BY <2>1, <2>2, <2>3, <2>4, <2>5 DEF Move
  <1>5. \A c : Unseen(c) => Unseen(c)'
    BY <1>2, <1>4 DEF Unseen
  <1>6. AnsweredIsNew'
    BY <1>2, <1>5 DEF SelectionInv, AnsweredIsNew
  <1>7. SeenIsGivenOut'
    BY <1>2, <1>4 DEF SelectionInv, SeenIsGivenOut
  <1>8. PageTypes' /\ DeletionsArePlaced'
    BY <1>2, <1>4 DEF SelectionInv, PageTypes, DeletionsArePlaced
  <1> QED BY <1>2, <1>4, <1>6, <1>7, <1>8 DEF SelectionInv

\* A request leaves the page as it is.
LEMMA RequestKeeps ==
    ASSUME SelectionInv, NEW r, Request(r), ui' = ui,
           r.op = "delete" => r.position \in Nat \cup {-1}
    PROVE  SelectionInv'
  <1>1. /\ UNCHANGED <<cells, cellOrder, ui, replies, nextId>>
        /\ sent' = sent \cup {r}
    BY DEF Request, page, server
  <1>2. PageTypes' /\ SeenIsGivenOut' /\ Shown(ui, cells)'
    BY <1>1 DEF SelectionInv, PageTypes, SeenIsGivenOut
  <1>3. AnsweredIsNew'
    BY <1>1 DEF SelectionInv, AnsweredIsNew, Unseen
  <1>4. DeletionsArePlaced'
    BY <1>1 DEF SelectionInv, DeletionsArePlaced
  <1> QED BY <1>2, <1>3, <1>4 DEF SelectionInv

LEMMA InsertRequestKeeps ==
    ASSUME SelectionInv, NEW op \in {"insert", "undo"}, NEW p, NEW t,
           Request(Insertion(op, p, t)), ui' = ui
    PROVE  SelectionInv'
  <1>1. Insertion(op, p, t).op # "delete"
    BY DEF Insertion
  <1> QED BY <1>1, RequestKeeps

LEMMA DeleteCellKeeps ==
    ASSUME SelectionInv, NEW c \in cells, DeleteCell(c)
    PROVE  SelectionInv'
  <1> DEFINE r == [n |-> requests, op |-> "delete", position |-> IndexOf(c),
                   type |-> type[c], cell |-> c]
  <1>1. IndexOf(c) \in Nat \cup {-1}
    <2>1. cellOrder \in Seq(Nat)
      BY DEF SelectionInv, PageTypes
    <2>2. IndexOf(c) \in -1..(Len(cellOrder) - 1) /\ Len(cellOrder) \in Nat
      BY <2>1, IndexIsPosition
    <2> QED BY <2>2
  <1>2. r.position \in Nat \cup {-1}
    BY <1>1
  <1>3. Request(r) /\ ui' = ui
    BY DEF DeleteCell
  <1> QED BY <1>2, <1>3, RequestKeeps

\* Steps that change nothing the invariant speaks of.
LEMMA IdleKeeps ==
    ASSUME SelectionInv, UNCHANGED <<cells, cellOrder, ui, sent, replies, nextId>>
    PROVE  SelectionInv'
  BY DEF SelectionInv, PageTypes, DeletionsArePlaced, SeenIsGivenOut, AnsweredIsNew, Unseen, Shown

-----------------------------------------------------------------------------
(* Steps of the server and the network. *)

\* The answer that the server adds.
LEMMA ReplyKeeps ==
    ASSUME SelectionInv, NEW a,
           replies' = Append(replies, a), sent' \subseteq sent,
           UNCHANGED <<cells, cellOrder, ui>>,
           nextId' \in Nat, nextId <= nextId',
           a.op = "delete" => a.position \in Nat \cup {-1},
           a.new # None => a.new = nextId /\ nextId < nextId' /\ a.position \in Nat
    PROVE  SelectionInv'
  <1>1. /\ replies \in Seq(ToSet(replies)) /\ nextId \in Nat /\ cells \subseteq Nat
        /\ cellOrder \in Seq(Nat) /\ ui.selected \in Nat \cup {None} /\ None \notin Nat
        /\ ToSet(cellOrder) \subseteq Nat
    BY CellsAssumption DEF SelectionInv, PageTypes, UI, ToSet
  <1>2. /\ Len(replies) \in Nat /\ Len(replies') = Len(replies) + 1
        /\ replies'[Len(replies) + 1] = a
        /\ \A i \in 1..Len(replies) : replies'[i] = replies[i]
    BY <1>1
  <1>3. replies' \in Seq(ToSet(replies')) /\ ToSet(replies') \subseteq ToSet(replies) \cup {a}
    <2>1. replies' \in Seq(ToSet(replies) \cup {a})
      BY <1>1
    <2>2. replies' \in Seq(ToSet(replies'))
      BY <2>1 DEF ToSet
    <2>3. ToSet(replies') \subseteq ToSet(replies) \cup {a}
      BY <1>2, <2>1 DEF ToSet
    <2> QED BY <2>2, <2>3
  <1>4. SeenIsGivenOut'
    BY <1>1 DEF SelectionInv, SeenIsGivenOut
  <1>5. DeletionsArePlaced'
    BY <1>3 DEF SelectionInv, DeletionsArePlaced
  <1>6. \A c : Unseen(c) => Unseen(c)'
    BY <1>1 DEF Unseen
  <1>7. a.new # None => Unseen(a.new)'
    BY <1>1 DEF Unseen, SelectionInv, SeenIsGivenOut
  <1>8. \A i \in 1..Len(replies) : replies[i].new # None => replies[i].new # nextId
    BY <1>1 DEF SelectionInv, AnsweredIsNew, Unseen
  <1>9. AnsweredIsNew'
    <2> SUFFICES ASSUME NEW i \in 1..Len(replies'), NEW c, c = replies'[i].new, c # None
                 PROVE  /\ replies'[i].position \in Nat
                        /\ Unseen(c)'
                        /\ \A j \in 1..Len(replies') : replies'[j].new = c => j = i
      BY DEF AnsweredIsNew, Unseen
    <2>1. CASE i \in 1..Len(replies)
      <3>1. /\ replies[i].position \in Nat /\ Unseen(c)
            /\ \A j \in 1..Len(replies) : replies[j].new = c => j = i
        BY <1>2, <2>1 DEF SelectionInv, AnsweredIsNew
      <3>2. a.new # c
        BY <1>2, <1>8, <2>1
      <3> QED BY <1>2, <1>6, <2>1, <3>1, <3>2
    <2>2. CASE i = Len(replies) + 1
      <3>1. \A j \in 1..Len(replies) : replies[j].new # c
        BY <1>2, <1>8, <2>2
      <3>2. a.new = c /\ Unseen(c)' /\ a.position \in Nat
        BY <1>2, <1>7, <2>2
      <3> QED BY <1>2, <2>2, <3>1, <3>2
    <2> QED BY <1>2, <2>1, <2>2
  <1>10. PageTypes' /\ Shown(ui, cells)'
    BY <1>3 DEF SelectionInv, PageTypes
  <1> QED BY <1>4, <1>5, <1>9, <1>10 DEF SelectionInv

LEMMA ServerActsKeeps ==
    ASSUME SelectionInv, NEW r \in sent, ServerActs(r)
    PROVE  SelectionInv'
  <1>1. UNCHANGED <<cells, cellOrder, ui>> /\ nextId \in Nat /\ None \notin Nat
    BY CellsAssumption DEF ServerActs, page, SelectionInv, PageTypes
  <1> DEFINE a(ok, new) == [n |-> r.n, op |-> r.op, position |-> r.position,
                            type |-> r.type, cell |-> r.cell, ok |-> ok, new |-> new]
  <1>2. ASSUME NEW ok, NEW new, Reply(r, ok, new)
        PROVE  replies' = Append(replies, a(ok, new)) /\ sent' \subseteq sent
    BY <1>2 DEF Reply
  <1>3. CASE r.position \in 0..Len(file) /\ r.op # "delete" /\ Reply(r, TRUE, nextId)
             /\ nextId' = nextId + 1
    <2>1. r.position \in Nat
      BY <1>3
    <2>2. a(TRUE, nextId).op # "delete" /\ a(TRUE, nextId).position \in Nat
          /\ a(TRUE, nextId).new = nextId
      BY <1>3, <2>1
    <2>3. nextId' \in Nat /\ nextId < nextId' /\ nextId <= nextId'
      BY <1>1, <1>3
    <2>4. replies' = Append(replies, a(TRUE, nextId)) /\ sent' \subseteq sent
      BY <1>2, <1>3
    <2> HIDE DEF a
    <2> QED BY <1>1, <2>2, <2>3, <2>4, ReplyKeeps
  <1>4. CASE r.op # "delete" /\ Reply(r, TRUE, None) /\ nextId' = nextId + 1
    <2>1. a(TRUE, None).op # "delete" /\ a(TRUE, None).new = None
      BY <1>4
    <2>2. nextId' \in Nat /\ nextId <= nextId'
      BY <1>1, <1>4
    <2>3. replies' = Append(replies, a(TRUE, None)) /\ sent' \subseteq sent
      BY <1>2, <1>4
    <2> HIDE DEF a
    <2> QED BY <1>1, <2>1, <2>2, <2>3, ReplyKeeps
  <1>5. CASE RemoveCell(r)
    <2> DEFINE ok == Contains(file, r.cell)
    <2>1. r.op = "delete" /\ Reply(r, ok, None) /\ nextId' = nextId
      BY <1>5 DEF RemoveCell
    <2>2. r.position \in Nat \cup {-1}
      BY <2>1 DEF SelectionInv, DeletionsArePlaced
    <2> HIDE DEF ok
    <2>3. a(ok, None).position \in Nat \cup {-1} /\ a(ok, None).new = None
      BY <2>2
    <2>4. replies' = Append(replies, a(ok, None)) /\ sent' \subseteq sent
      BY <1>2, <2>1
    <2> HIDE DEF a
    <2>5. nextId' \in Nat /\ nextId <= nextId'
      BY <1>1, <2>1
    <2> QED BY <1>1, <2>3, <2>4, <2>5, ReplyKeeps
  <1>6. AddCell(r) \/ RemoveCell(r)
    BY DEF ServerActs
  <1>7. ASSUME AddCell(r) PROVE SelectionInv'
    BY <1>3, <1>4, <1>7 DEF AddCell
  <1> QED BY <1>5, <1>6, <1>7

\* One answer is taken away: those that are left are still of cells new to the page, if the
\* page has learnt of no other cell than that of the answer.
LEMMA RemovalKeeps ==
    ASSUME SelectionInv, NEW i \in 1..Len(replies),
           replies' = RemoveAt(replies, i), sent' \subseteq sent,
           \A c : Unseen(c) /\ c # replies[i].new => Unseen(c)'
    PROVE  replies' \in Seq(ToSet(replies')) /\ DeletionsArePlaced' /\ AnsweredIsNew'
  <1>1. replies \in Seq(ToSet(replies)) /\ Len(replies) \in Nat
    BY DEF SelectionInv, PageTypes
  <1>2. /\ replies' \in Seq(ToSet(replies))
        /\ Len(replies') = Len(replies) - 1
        /\ \A j \in 1..(Len(replies) - 1) :
             replies'[j] = IF j < i THEN replies[j] ELSE replies[j + 1]
    BY <1>1, RemoveAtElements
  <1> DEFINE k(j) == IF j < i THEN j ELSE j + 1
  <1>3. \A j \in 1..Len(replies') : /\ k(j) \in 1..Len(replies) /\ k(j) # i
                                   /\ replies'[j] = replies[k(j)]
    BY <1>1, <1>2
  <1>4. \A j, l \in 1..Len(replies') : k(j) = k(l) => j = l
    BY <1>1, <1>2
  <1> HIDE DEF k
  <1>5. DOMAIN replies' = 1..Len(replies')
    BY <1>2
  <1>6. replies' \in Seq(ToSet(replies'))
    BY <1>2 DEF ToSet
  <1>7. ToSet(replies') \subseteq ToSet(replies)
    BY <1>1, <1>3, <1>5 DEF ToSet
  <1>8. DeletionsArePlaced'
    BY <1>7 DEF SelectionInv, DeletionsArePlaced
  <1>9. AnsweredIsNew'
    <2> SUFFICES ASSUME NEW j \in 1..Len(replies'), NEW c, c = replies'[j].new, c # None
                 PROVE  /\ replies'[j].position \in Nat
                        /\ Unseen(c)'
                        /\ \A l \in 1..Len(replies') : replies'[l].new = c => l = j
      BY DEF AnsweredIsNew, Unseen
    <2>1. replies'[j] = replies[k(j)] /\ k(j) \in 1..Len(replies) /\ k(j) # i
      BY <1>3
    <2>2. /\ replies[k(j)].position \in Nat /\ Unseen(c)
          /\ \A l \in 1..Len(replies) : replies[l].new = c => l = k(j)
      BY <2>1 DEF SelectionInv, AnsweredIsNew
    <2>3. c # replies[i].new
      BY <2>1, <2>2
    <2>4. ASSUME NEW l \in 1..Len(replies'), replies'[l].new = c PROVE l = j
      BY <1>3, <1>4, <2>2, <2>4
    <2> QED BY <2>1, <2>2, <2>3, <2>4
  <1> QED BY <1>6, <1>8, <1>9

LEMMA LostKeeps == SelectionInv /\ Lost => SelectionInv'
  <1> SUFFICES ASSUME SelectionInv, Lost PROVE SelectionInv'
    OBVIOUS
  <1>1. UNCHANGED <<cells, cellOrder, ui, nextId>>
    BY DEF Lost, page, server
  <1>2. CASE sent' \subseteq sent /\ UNCHANGED replies
    BY <1>1, <1>2 DEF SelectionInv, PageTypes, DeletionsArePlaced, SeenIsGivenOut,
                      AnsweredIsNew, Unseen, Shown
  <1>3. ASSUME NEW i \in 1..Len(replies), replies' = RemoveAt(replies, i), sent' = sent
        PROVE  SelectionInv'
    <2>1. \A c : Unseen(c) => Unseen(c)'
      BY <1>1 DEF Unseen
    <2>2. replies' \in Seq(ToSet(replies')) /\ DeletionsArePlaced' /\ AnsweredIsNew'
      BY <1>3, <2>1, RemovalKeeps
    <2> QED BY <1>1, <2>2 DEF SelectionInv, PageTypes, SeenIsGivenOut, Shown
  <1>4. DOMAIN replies = 1..Len(replies)
    BY DEF SelectionInv, PageTypes
  <1> QED BY <1>2, <1>3, <1>4 DEF Lost

-----------------------------------------------------------------------------
(* Answers. *)

LEMMA SpliceElements ==
    ASSUME cellOrder \in Seq(Nat), NEW i \in Nat \cup {-1}
    PROVE  Splice(i) \in Seq(Nat) /\ ToSet(Splice(i)) \subseteq ToSet(cellOrder)
  <1>1. Len(cellOrder) \in Nat /\ DOMAIN cellOrder = 1..Len(cellOrder)
    OBVIOUS
  <1>2. CASE i = -1 /\ cellOrder # <<>>
    <2>1. 1 \in Nat \ {0} /\ Len(cellOrder) - 1 \in Nat /\ Len(cellOrder) - 1 <= Len(cellOrder)
      BY <1>1, <1>2
    <2>2. Splice(i) = SubSeq(cellOrder, 1, Len(cellOrder) - 1)
      BY <1>2 DEF Splice, Front
    <2> QED BY <2>1, <2>2, PieceSet
  <1>3. CASE i # -1 /\ i < Len(cellOrder)
    <2>1. i + 1 \in 1..Len(cellOrder)
      BY <1>1, <1>3
    <2> DEFINE s == RemoveAt(cellOrder, i + 1)
    <2>2. /\ s \in Seq(Nat) /\ Len(s) = Len(cellOrder) - 1
          /\ \A j \in 1..(Len(cellOrder) - 1) :
               s[j] = IF j < i + 1 THEN cellOrder[j] ELSE cellOrder[j + 1]
      BY <2>1, RemoveAtElements
    <2> HIDE DEF s
    <2>3. \A j \in 1..Len(s) : s[j] \in ToSet(cellOrder)
      <3> SUFFICES ASSUME NEW j \in 1..Len(s) PROVE s[j] \in ToSet(cellOrder)
        OBVIOUS
      <3>1. /\ j \in 1..(Len(cellOrder) - 1)
            /\ j \in 1..Len(cellOrder) /\ j + 1 \in 1..Len(cellOrder)
        BY <1>1, <2>2
      <3>2. cellOrder[j] \in ToSet(cellOrder) /\ cellOrder[j + 1] \in ToSet(cellOrder)
        BY <1>1, <3>1 DEF ToSet
      <3>3. s[j] = IF j < i + 1 THEN cellOrder[j] ELSE cellOrder[j + 1]
        BY <2>2, <3>1
      <3> QED BY <3>2, <3>3
    <2>4. DOMAIN s = 1..Len(s)
      BY <2>2
    <2>5. ToSet(s) \subseteq ToSet(cellOrder)
      BY <2>3, <2>4, Zenon DEF ToSet
    <2>6. Splice(i) = s
      BY <1>3 DEF Splice, s
    <2> QED BY <2>2, <2>5, <2>6
  <1>4. CASE (i = -1 /\ cellOrder = <<>>) \/ (i # -1 /\ ~(i < Len(cellOrder)))
    <2>1. Splice(i) = cellOrder
      BY <1>4 DEF Splice
    <2> QED BY <2>1
  <1> QED BY <1>2, <1>3, <1>4

LEMMA AdjacentIsListed ==
    ASSUME NEW q \in Seq(Nat), NEW i \in Nat \cup {-1}, q # <<>>
    PROVE  AdjacentIn(q, i) \in ToSet(q) \cup {None}
  <1> DEFINE j == IF i < Len(q) THEN i ELSE Len(q) - 1
  <1>1. Len(q) \in Nat /\ DOMAIN q = 1..Len(q) /\ Len(q) # 0
    OBVIOUS
  <1>2. j = -1 \/ j + 1 \in 1..Len(q)
    BY <1>1
  <1>3. AdjacentIn(q, i) = IF j = -1 THEN None ELSE q[j + 1]
    BY DEF AdjacentIn
  <1> HIDE DEF j
  <1> QED BY <1>1, <1>2, <1>3 DEF ToSet

LEMMA InsertedKeeps ==
    ASSUME SelectionInv, NEW i \in 1..Len(replies), OnInserted(replies[i]),
           replies' = RemoveAt(replies, i), UNCHANGED <<sent, nextId>>
    PROVE  SelectionInv'
  <1>1. /\ cells \subseteq Nat /\ cellOrder \in Seq(Nat) /\ ui \in UI /\ Shown(ui, cells)
        /\ ui.selected \in Nat \cup {None} /\ nextId \in Nat /\ None \notin Nat
        /\ Len(cellOrder) \in Nat
    BY CellsAssumption DEF SelectionInv, PageTypes, UI
  <1>2. CASE replies[i].new = None
    <2>1. UNCHANGED <<cells, cellOrder, ui>>
      BY <1>2 DEF OnInserted, page
    <2>2. \A c : Unseen(c) => Unseen(c)'
      BY <2>1 DEF Unseen
    <2>3. replies' \in Seq(ToSet(replies')) /\ DeletionsArePlaced' /\ AnsweredIsNew'
      BY <2>2, RemovalKeeps
    <2> QED BY <2>1, <2>3 DEF SelectionInv, PageTypes, SeenIsGivenOut, Shown
  <1>3. CASE replies[i].new # None
    <2> DEFINE c == replies[i].new
               p == replies[i].position
               P == cells \cup {c}
               u == SelectCell(ui, c, P)
    <2>1. p \in Nat /\ Unseen(c)
      BY <1>3 DEF SelectionInv, AnsweredIsNew
    <2>2. /\ cells' = P
          /\ cellOrder' = IF p < Len(cellOrder) THEN InsertAt(cellOrder, p + 1, c)
                          ELSE Append(cellOrder, c)
          /\ ui' = u \/ ui' = EditMode(u, P)
      BY <1>3 DEF OnInserted, AddCellComponent
    <2> HIDE DEF c, p
    <2>3. cellOrder' \in Seq(Nat) /\ ToSet(cellOrder') \subseteq ToSet(cellOrder) \cup {c}
      <3>1. c \in Nat
        BY <2>1 DEF Unseen
      <3>2. CASE p < Len(cellOrder)
        <4>1. p + 1 \in 1..(Len(cellOrder) + 1)
          BY <1>1, <2>1, <3>2
        <4> QED BY <1>1, <2>2, <3>1, <3>2, <4>1, InsertAtElements
      <3>3. CASE ~(p < Len(cellOrder))
        BY <1>1, <2>2, <3>1, <3>3, AppendElements
      <3> QED BY <3>2, <3>3
    <2>4. P \in SUBSET Nat /\ c \in Nat \cup {None} /\ Shown(ui, P)
      BY <1>1, <2>1 DEF Unseen, Shown
    <2> HIDE DEF P
    <2>5. u \in UI /\ Shown(u, P) /\ u.selected = c
      BY <1>1, <2>4, SelectCellShown
    <2> HIDE DEF u
    <2>6. ui' \in UI /\ Shown(ui', P) /\ ui'.selected = c
      BY <2>2, <2>4, <2>5, EditModeShown
    <2>7. \A d : Unseen(d) /\ d # c => Unseen(d)'
      BY <2>2, <2>3, <2>6 DEF Unseen, P
    <2>8. replies' \in Seq(ToSet(replies')) /\ DeletionsArePlaced' /\ AnsweredIsNew'
      BY <2>7, RemovalKeeps DEF c
    <2>9. SeenIsGivenOut'
      BY <2>1, <2>2, <2>3, <2>6 DEF SelectionInv, SeenIsGivenOut, Unseen, P
    <2>10. Shown(ui, cells)' /\ PageTypes'
      BY <1>1, <2>2, <2>3, <2>4, <2>6, <2>8 DEF PageTypes, Shown
    <2> QED BY <2>8, <2>9, <2>10 DEF SelectionInv
  <1> QED BY <1>2, <1>3

LEMMA DeletedKeeps ==
    ASSUME SelectionInv, NEW i \in 1..Len(replies), OnDeleted(replies[i]),
           replies[i].op = "delete",
           replies' = RemoveAt(replies, i), UNCHANGED <<sent, nextId>>
    PROVE  SelectionInv'
  <1>1. /\ cells \subseteq Nat /\ cellOrder \in Seq(Nat) /\ ui \in UI /\ Shown(ui, cells)
        /\ ui.selected \in Nat \cup {None} /\ nextId \in Nat /\ None \notin Nat
        /\ ToSet(cellOrder) \subseteq Nat
    BY CellsAssumption DEF SelectionInv, PageTypes, UI, ToSet
  <1> DEFINE p == replies[i].position
             c == replies[i].cell
             P == cells \ {c}
             q == Splice(p)
             u == [ui EXCEPT !.lit = @ \ {c}, !.editing = @ \ {c}]
  <1>2. p \in Nat \cup {-1}
    <2>1. replies[i] \in ToSet(replies)
      BY DEF SelectionInv, PageTypes, ToSet
    <2> QED BY <2>1 DEF SelectionInv, DeletionsArePlaced
  <1>3. \/ UNCHANGED <<cells, cellOrder, ui>>
        \/ /\ cells' = P /\ cellOrder' = q
           /\ ui' = IF q = <<>> THEN [u EXCEPT !.selected = None, !.lit = {}, !.editing = {}]
                    ELSE SelectCell(u, AdjacentIn(q, p), P)
    BY DEF OnDeleted, page
  <1> HIDE DEF p, c, q
  <1>4. q \in Seq(Nat) /\ ToSet(q) \subseteq ToSet(cellOrder) /\ ToSet(q) \subseteq Nat
    BY <1>1, <1>2, SpliceElements DEF q
  <1>5. P \in SUBSET Nat /\ u \in UI /\ Shown(u, P) /\ u.selected = ui.selected
    BY <1>1 DEF UI, Shown
  <1>6. ASSUME cells' = P, cellOrder' = q,
               ui' = IF q = <<>> THEN [u EXCEPT !.selected = None, !.lit = {}, !.editing = {}]
                     ELSE SelectCell(u, AdjacentIn(q, p), P)
        PROVE  /\ cells' \subseteq cells /\ cellOrder' \in Seq(Nat)
               /\ ToSet(cellOrder') \subseteq ToSet(cellOrder)
               /\ ui' \in UI /\ Shown(ui', cells')
               /\ ui'.selected \in ToSet(cellOrder) \cup {None}
    <2> HIDE DEF u
    <2>1. CASE q = <<>>
      <3>1. ui' = [u EXCEPT !.selected = None, !.lit = {}, !.editing = {}]
        BY <1>6, <2>1
      <3>2. ui' \in UI /\ ui'.selected = None /\ ui'.lit = {} /\ ui'.editing = {}
        BY <1>5, <3>1 DEF UI
      <3>3. {None} \cap P = {}
        BY <1>1, <1>5
      <3> HIDE DEF P
      <3> QED BY <1>4, <1>5, <1>6, <3>2, <3>3 DEF Shown, P
    <2>2. CASE q # <<>>
      <3>1. AdjacentIn(q, p) \in ToSet(q) \cup {None}
        BY <1>2, <1>4, <2>2, AdjacentIsListed
      <3>2. AdjacentIn(q, p) \in Nat \cup {None}
        BY <1>4, <3>1
      <3>3. ui' \in UI /\ Shown(ui', P) /\ ui'.selected = AdjacentIn(q, p)
        BY <1>5, <1>6, <2>2, <3>2, SelectCellShown
      <3> QED BY <1>4, <1>6, <3>1, <3>3
    <2> QED BY <2>1, <2>2
  <1>7. /\ cells' \subseteq cells /\ cellOrder' \in Seq(Nat)
        /\ ToSet(cellOrder') \subseteq ToSet(cellOrder)
        /\ ui' \in UI /\ Shown(ui', cells')
        /\ ui'.selected \in ToSet(cellOrder) \cup {ui.selected, None}
    BY <1>1, <1>3, <1>6
  <1> HIDE DEF P, u
  <1>8. \A d : Unseen(d) => Unseen(d)'
    BY <1>1, <1>7 DEF Unseen
  <1>9. replies' \in Seq(ToSet(replies')) /\ DeletionsArePlaced' /\ AnsweredIsNew'
    BY <1>8, RemovalKeeps
  <1>10. SeenIsGivenOut'
    BY <1>7 DEF SelectionInv, SeenIsGivenOut
  <1>11. Shown(ui, cells)' /\ PageTypes'
    BY <1>1, <1>7, <1>9 DEF PageTypes, Shown
  <1> QED BY <1>9, <1>10, <1>11 DEF SelectionInv

LEMMA AnswerKeeps ==
    ASSUME SelectionInv, NEW i \in DOMAIN replies, Answer(i)
    PROVE  SelectionInv'
  <1>1. i \in 1..Len(replies)
    BY DEF SelectionInv, PageTypes
  <1>2. replies' = RemoveAt(replies, i) /\ UNCHANGED <<sent, nextId>>
    BY DEF Answer, server
  <1>3. CASE OnInserted(replies[i])
    BY <1>1, <1>2, <1>3, InsertedKeeps
  <1>4. CASE replies[i].op = "delete" /\ OnDeleted(replies[i])
    BY <1>1, <1>2, <1>4, DeletedKeeps
  <1> QED BY <1>3, <1>4 DEF Answer

-----------------------------------------------------------------------------

\* The invariant behind SelectionShown: what the page knows of was given out before, and
\* answers on their way bring cells it has not seen.
THEOREM SelectionInvariant == Spec => []SelectionInv
<1>1. SelectionInv /\ [Next]_vars => SelectionInv'
  <2> SUFFICES ASSUME SelectionInv, [Next]_vars PROVE SelectionInv'
    OBVIOUS
  <2>1. CASE Move
    BY <2>1, MoveKeeps
  <2>2. CASE InsertCellAbove
    BY <2>2, InsertRequestKeeps DEF InsertCellAbove
  <2>3. ASSUME NEW t, InsertCellBelow(t) PROVE SelectionInv'
    BY <2>3, InsertRequestKeeps DEF InsertCellBelow
  <2>4. CASE ExecuteCellAndAdvance
    BY <2>3, <2>4 DEF ExecuteCellAndAdvance
  <2>5. ASSUME NEW c \in cells, DeleteCell(c) PROVE SelectionInv'
    BY <2>5, DeleteCellKeeps
  <2>6. ASSUME NEW c \in cells, NEW t \in CellTypes, ChangeCellType(c, t) PROVE SelectionInv'
    BY <2>6, IdleKeeps DEF ChangeCellType, server
  <2>7. CASE UndoDelete
    BY <2>7, InsertRequestKeeps DEF UndoDelete
  <2>8. ASSUME NEW r \in sent, ServerActs(r) PROVE SelectionInv'
    BY <2>8, ServerActsKeeps
  <2>9. ASSUME NEW p \in typePuts, ServerSetsType(p) PROVE SelectionInv'
    BY <2>9, IdleKeeps DEF ServerSetsType, page
  <2>10. CASE Lost
    BY <2>10, LostKeeps
  <2>11. ASSUME NEW i \in DOMAIN replies, Answer(i) PROVE SelectionInv'
    BY <2>11, AnswerKeeps
  <2>12. CASE UNCHANGED vars
    BY <2>12, IdleKeeps DEF vars, page, network, server
  <2> QED
    BY <2>1, <2>2, <2>3, <2>4, <2>5, <2>6, <2>7, <2>8, <2>9, <2>10, <2>11, <2>12 DEF Next
<1> QED BY <1>1, SelectionInit, PTL DEF Spec

\* At most the selected cell is shown as selected, and a cell is in edit mode if and only
\* if the page is and the cell is the selected one, for any number of requests that overlap,
\* fail, and are answered in any order.
THEOREM SelectionIsShown == Spec => []SelectionShown
<1>1. SelectionInv => SelectionShown
  BY DEF SelectionInv, Shown, SelectionShown
<1> QED BY <1>1, SelectionInvariant, PTL

-----------------------------------------------------------------------------
(* Lists of ids. *)

Distinct(q) == \A i, j \in 1..Len(q) : q[i] = q[j] => i = j

LEMMA InsertedElements ==
    ASSUME NEW q \in Seq(Nat), NEW i \in 1..(Len(q) + 1), NEW e \in Nat
    PROVE  /\ InsertAt(q, i, e) \in Seq(Nat)
           /\ Len(InsertAt(q, i, e)) = Len(q) + 1
           /\ \A j \in 1..(Len(q) + 1) :
                InsertAt(q, i, e)[j] = IF j < i THEN q[j] ELSE IF j = i THEN e ELSE q[j - 1]
  <1> DEFINE a == SubSeq(q, 1, i - 1)
             b == SubSeq(q, i, Len(q))
             c == a \o <<e>>
  <1>1. Len(q) \in Nat /\ i \in Nat /\ i - 1 \in Nat
    OBVIOUS
  <1>2. a \in Seq(Nat) /\ Len(a) = i - 1 /\ \A j \in 1..(i - 1) : a[j] = q[j]
    <2>1. 1 \in Nat \ {0} /\ i - 1 <= Len(q)
      BY <1>1
    <2>2. /\ SubSeq(q, 1, i - 1) \in Seq(Nat)
          /\ Len(SubSeq(q, 1, i - 1)) = IF 1 <= i - 1 THEN (i - 1) - 1 + 1 ELSE 0
          /\ \A j \in 1..((i - 1) - 1 + 1) : SubSeq(q, 1, i - 1)[j] = q[1 + j - 1]
      BY <1>1, <2>1, Piece
    <2> QED BY <1>1, <2>2
  <1>3. b \in Seq(Nat) /\ Len(b) = Len(q) - i + 1 /\ \A j \in 1..(Len(q) - i + 1) : b[j] = q[i + j - 1]
    <2>1. i \in Nat \ {0} /\ Len(q) <= Len(q)
      BY <1>1
    <2>2. /\ SubSeq(q, i, Len(q)) \in Seq(Nat)
          /\ Len(SubSeq(q, i, Len(q))) = IF i <= Len(q) THEN Len(q) - i + 1 ELSE 0
          /\ \A j \in 1..(Len(q) - i + 1) : SubSeq(q, i, Len(q))[j] = q[i + j - 1]
      BY <1>1, <2>1, Piece
    <2> QED BY <1>1, <2>2
  <1> HIDE DEF a, b
  <1>4. c \in Seq(Nat) /\ Len(c) = i /\ c[i] = e /\ \A j \in 1..(i - 1) : c[j] = a[j]
    <2>1. c = Append(a, e)
      BY <1>2
    <2> QED BY <1>1, <1>2, <2>1
  <1> HIDE DEF c
  <1>5. /\ c \o b \in Seq(Nat)
        /\ Len(c \o b) = Len(c) + Len(b)
        /\ \A j \in 1..(Len(c) + Len(b)) :
             (c \o b)[j] = IF j <= Len(c) THEN c[j] ELSE b[j - Len(c)]
    BY <1>3, <1>4, ConcatProperties
  <1>6. ASSUME NEW j \in 1..(Len(q) + 1)
        PROVE  (c \o b)[j] = IF j < i THEN q[j] ELSE IF j = i THEN e ELSE q[j - 1]
    <2>1. j \in 1..(Len(c) + Len(b)) /\ Len(c) = i
      BY <1>1, <1>3, <1>4
    <2>2. CASE j < i
      BY <1>1, <1>2, <1>4, <1>5, <2>1, <2>2
    <2>3. CASE j = i
      BY <1>1, <1>4, <1>5, <2>1, <2>3
    <2>4. CASE j > i
      <3>1. j - i \in 1..(Len(q) - i + 1) /\ i + (j - i) - 1 = j - 1
        BY <1>1, <2>4
      <3>2. b[j - i] = q[i + (j - i) - 1]
        BY <1>3, <3>1
      <3>3. (c \o b)[j] = b[j - i]
        <4>1. (c \o b)[j] = IF j <= Len(c) THEN c[j] ELSE b[j - Len(c)]
          BY <1>5, <2>1, Zenon
        <4>2. ~(j <= i)
          BY <1>1, <2>4
        <4> QED BY <2>1, <4>1, <4>2
      <3> QED BY <1>1, <2>4, <3>1, <3>2, <3>3
    <2>5. j < i \/ j = i \/ j > i
      BY <1>1
    <2> QED BY <2>2, <2>3, <2>4, <2>5
  <1>7. InsertAt(q, i, e) = c \o b
    BY DEF InsertAt, a, b, c
  <1>8. Len(c \o b) = Len(q) + 1
    BY <1>1, <1>3, <1>4, <1>5
  <1> QED BY <1>5, <1>6, <1>7, <1>8

LEMMA InsertedDistinct ==
    ASSUME NEW q \in Seq(Nat), NEW i \in 1..(Len(q) + 1), NEW e \in Nat \ ToSet(q), Distinct(q)
    PROVE  Distinct(InsertAt(q, i, e)) /\ ToSet(InsertAt(q, i, e)) = ToSet(q) \cup {e}
  <1>1. PICK r : r = InsertAt(q, i, e)
    OBVIOUS
  <1>2. /\ r \in Seq(Nat) /\ Len(r) = Len(q) + 1 /\ Len(q) \in Nat
        /\ \A j \in 1..(Len(q) + 1) : r[j] = IF j < i THEN q[j] ELSE IF j = i THEN e ELSE q[j - 1]
    <2>1. e \in Nat /\ Len(q) \in Nat
      OBVIOUS
    <2>2. /\ InsertAt(q, i, e) \in Seq(Nat)
          /\ Len(InsertAt(q, i, e)) = Len(q) + 1
          /\ \A j \in 1..(Len(q) + 1) :
               InsertAt(q, i, e)[j] = IF j < i THEN q[j] ELSE IF j = i THEN e ELSE q[j - 1]
      BY <2>1, InsertedElements
    <2> QED BY <1>1, <2>1, <2>2
  <1>3. DOMAIN q = 1..Len(q) /\ DOMAIN r = 1..Len(r) /\ \A j \in 1..Len(q) : q[j] # e
    BY <1>2 DEF ToSet
  <1> DEFINE back(j) == IF j < i THEN j ELSE j - 1
  <1>4. ASSUME NEW j \in 1..Len(r), j # i
        PROVE  back(j) \in 1..Len(q) /\ r[j] = q[back(j)]
    <2>1. j \in 1..(Len(q) + 1) /\ i \in Nat
      BY <1>2
    <2>2. r[j] = IF j < i THEN q[j] ELSE q[j - 1]
      BY <1>2, <1>4, <2>1
    <2> QED BY <1>2, <1>4, <2>1, <2>2
  <1>5. ASSUME NEW j \in 1..Len(r), NEW k \in 1..Len(r), j # i, k # i, back(j) = back(k)
        PROVE  j = k
    <2>1. j \in Nat /\ k \in Nat /\ i \in Nat
      BY <1>2
    <2> QED BY <1>5, <2>1
  <1> HIDE DEF back
  <1>6. ASSUME NEW j \in 1..Len(r), NEW k \in 1..Len(r), r[j] = r[k]
        PROVE  j = k
    <2>1. CASE j # i /\ k # i
      BY <1>4, <1>5, <1>6, <2>1 DEF Distinct
    <2>2. CASE j = i \/ k = i
      BY <1>2, <1>3, <1>4, <1>6, <2>2
    <2> QED BY <2>1, <2>2
  <1>7. ASSUME NEW j \in 1..Len(q) PROVE \E k \in 1..Len(r) : r[k] = q[j]
    <2>0. /\ i \in Nat /\ j \in Nat /\ j \in 1..Len(r) /\ j + 1 \in 1..Len(r)
          /\ j + 1 \in 1..(Len(q) + 1)
      BY <1>2
    <2>1. CASE j < i
      <3>1. r[j] = q[j]
        <4>1. r[j] = IF j < i THEN q[j] ELSE IF j = i THEN e ELSE q[j - 1]
          BY <1>2, <2>0, Zenon
        <4> QED BY <2>1, <4>1
      <3> QED BY <2>0, <3>1
    <2>2. CASE ~(j < i)
      <3>1. PICK k \in 1..(Len(q) + 1) : k = j + 1
        BY <2>0
      <3>2. ~(k < i) /\ k # i /\ k - 1 = j /\ k \in 1..Len(r)
        BY <2>0, <2>2, <3>1
      <3>3. r[k] = IF k < i THEN q[k] ELSE IF k = i THEN e ELSE q[k - 1]
        BY <1>2, <3>1, Zenon
      <3> QED BY <3>2, <3>3
    <2> QED BY <2>1, <2>2
  <1>8. ToSet(r) = ToSet(q) \cup {e}
    <2>1. r[i] = e /\ i \in 1..Len(r)
      BY <1>2
    <2> QED BY <1>3, <1>4, <1>7, <2>1, ZenonT(40) DEF ToSet
  <1> QED BY <1>1, <1>6, <1>8 DEF Distinct

LEMMA InsertedLast ==
    ASSUME NEW q \in Seq(Nat), NEW e \in Nat
    PROVE  InsertAt(q, Len(q) + 1, e) = Append(q, e)
  <1>1. PICK r : r = InsertAt(q, Len(q) + 1, e)
    OBVIOUS
  <1>2. /\ r \in Seq(Nat) /\ Len(r) = Len(q) + 1 /\ Len(q) \in Nat
        /\ \A j \in 1..(Len(q) + 1) :
             r[j] = IF j < Len(q) + 1 THEN q[j] ELSE IF j = Len(q) + 1 THEN e ELSE q[j - 1]
    <2>1. Len(q) + 1 \in 1..(Len(q) + 1) /\ Len(q) \in Nat
      OBVIOUS
    <2>2. ASSUME NEW n \in 1..(Len(q) + 1)
          PROVE  /\ InsertAt(q, n, e) \in Seq(Nat)
                 /\ Len(InsertAt(q, n, e)) = Len(q) + 1
                 /\ \A j \in 1..(Len(q) + 1) :
                      InsertAt(q, n, e)[j] = IF j < n THEN q[j] ELSE IF j = n THEN e ELSE q[j - 1]
      <3>1. InsertAt(q, n, e) \in Seq(Nat)
        BY InsertedElements
      <3>2. Len(InsertAt(q, n, e)) = Len(q) + 1
        BY InsertedElements
      <3>3. \A j \in 1..(Len(q) + 1) :
              InsertAt(q, n, e)[j] = IF j < n THEN q[j] ELSE IF j = n THEN e ELSE q[j - 1]
        BY InsertedElements
      <3> QED BY <3>1, <3>2, <3>3
    <2>3. PICK n : n = Len(q) + 1 /\ n \in 1..(Len(q) + 1)
      BY <2>1
    <2>4. r = InsertAt(q, n, e)
      BY <1>1, <2>3
    <2> QED BY <2>1, <2>2, <2>3, <2>4
  <1>3. Append(q, e) \in Seq(Nat) /\ Len(Append(q, e)) = Len(q) + 1
        /\ \A j \in 1..(Len(q) + 1) : Append(q, e)[j] = r[j]
    BY <1>2
  <1>4. r = Append(q, e)
    BY <1>2, <1>3, SeqEqual
  <1> QED BY <1>1, <1>4

LEMMA RemovedDistinct ==
    ASSUME NEW q \in Seq(Nat), NEW i \in 1..Len(q), Distinct(q)
    PROVE  Distinct(RemoveAt(q, i)) /\ ToSet(RemoveAt(q, i)) = ToSet(q) \ {q[i]}
  <1>1. PICK r : r = RemoveAt(q, i)
    OBVIOUS
  <1>2. /\ r \in Seq(Nat) /\ Len(r) = Len(q) - 1 /\ Len(q) \in Nat
        /\ \A j \in 1..(Len(q) - 1) : r[j] = IF j < i THEN q[j] ELSE q[j + 1]
    <2>1. Len(q) \in Nat
      OBVIOUS
    <2>2. /\ RemoveAt(q, i) \in Seq(Nat)
          /\ Len(RemoveAt(q, i)) = Len(q) - 1
          /\ \A j \in 1..(Len(q) - 1) : RemoveAt(q, i)[j] = IF j < i THEN q[j] ELSE q[j + 1]
      BY RemoveAtElements
    <2> QED BY <1>1, <2>1, <2>2
  <1>3. DOMAIN q = 1..Len(q) /\ DOMAIN r = 1..Len(r)
    BY <1>2
  <1> DEFINE on(j) == IF j < i THEN j ELSE j + 1
  <1>4. ASSUME NEW j \in 1..Len(r)
        PROVE  on(j) \in 1..Len(q) /\ on(j) # i /\ r[j] = q[on(j)]
    <2>1. j \in 1..(Len(q) - 1) /\ i \in Nat
      BY <1>2
    <2>2. r[j] = IF j < i THEN q[j] ELSE q[j + 1]
      BY <1>2, <2>1, Zenon
    <2>3. CASE j < i
      BY <1>2, <2>1, <2>2, <2>3
    <2>4. CASE ~(j < i)
      BY <1>2, <2>1, <2>2, <2>4
    <2> QED BY <2>3, <2>4
  <1>5. ASSUME NEW j \in 1..Len(r), NEW k \in 1..Len(r), on(j) = on(k)
        PROVE  j = k
    <2>1. j \in Nat /\ k \in Nat /\ i \in Nat
      BY <1>2
    <2> QED BY <1>5, <2>1
  <1>6. ASSUME NEW j \in 1..Len(q), j # i PROVE \E k \in 1..Len(r) : on(k) = j
    <2>1. CASE j < i
      <3>1. j \in 1..Len(r) /\ on(j) = j
        BY <1>2, <2>1
      <3> QED BY <3>1
    <2>2. CASE ~(j < i)
      <3>1. j - 1 \in 1..Len(r) /\ on(j - 1) = j
        BY <1>2, <1>6, <2>2
      <3> QED BY <3>1
    <2> QED BY <2>1, <2>2
  <1> HIDE DEF on
  <1>7. ASSUME NEW j \in 1..Len(r), NEW k \in 1..Len(r), r[j] = r[k]
        PROVE  j = k
    BY <1>4, <1>5, <1>7 DEF Distinct
  <1>8. ASSUME NEW j \in 1..Len(q), j # i PROVE \E k \in 1..Len(r) : r[k] = q[j]
    BY <1>4, <1>6, <1>8
  <1>9. \A j \in 1..Len(r) : r[j] # q[i]
    BY <1>4 DEF Distinct
  <1>10. ToSet(r) = ToSet(q) \ {q[i]}
    BY <1>3, <1>4, <1>8, <1>9, ZenonT(40) DEF ToSet
  <1> QED BY <1>1, <1>7, <1>10 DEF Distinct

\* In a list without duplicates an element is found where it is.
LEMMA FoundThere ==
    ASSUME NEW q \in Seq(Nat), NEW i \in 1..Len(q), Distinct(q), NEW c, c = q[i]
    PROVE  Min({k \in 1..Len(q) : q[k] = c}) = i /\ {k \in 1..Len(q) : q[k] = c} # {}
  <1>1. {k \in 1..Len(q) : q[k] = c} = {i}
    BY DEF Distinct
  <1>2. i \in Nat /\ i <= i
    OBVIOUS
  <1>3. Min({i}) = i
    BY <1>2 DEF Min
  <1> QED BY <1>1, <1>3

LEMMA RemovedFirst ==
    ASSUME NEW q \in Seq(Nat), NEW i \in 1..Len(q), Distinct(q), NEW c, c = q[i]
    PROVE  RemoveFirst(q, c) = RemoveAt(q, i)
  <1>1. \E k \in 1..Len(q) : q[k] = c
    OBVIOUS
  <1>2. RemoveFirst(q, c) = RemoveAt(q, Min({k \in 1..Len(q) : q[k] = c}))
    BY <1>1, FoundThere DEF RemoveFirst, SelectInSeq
  <1> QED BY <1>2, FoundThere

\* A cell is deleted at the place it has in the list.
LEMMA IndexThere ==
    ASSUME cellOrder \in Seq(Nat), NEW i \in 1..Len(cellOrder), Distinct(cellOrder),
           NEW c, c = cellOrder[i]
    PROVE  IndexOf(c) = i - 1
  BY FoundThere DEF IndexOf, SelectInSeq

\* The element goes where the cell goes.
LEMMA DomFollows ==
    ASSUME cellOrder \in Seq(Nat), dom = cellOrder, Distinct(cellOrder),
           NEW c \in Nat, NEW p \in 0..Len(cellOrder)
    PROVE  /\ DomWith(c, p) = InsertAt(cellOrder, p + 1, c)
           /\ (IF p < Len(cellOrder) THEN InsertAt(cellOrder, p + 1, c)
               ELSE Append(cellOrder, c)) = InsertAt(cellOrder, p + 1, c)
  <1>1. Len(cellOrder) \in Nat /\ p \in Nat
    OBVIOUS
  <1>2. CASE p < Len(cellOrder)
    <2>1. PICK i \in 1..Len(cellOrder) : i = p + 1
      BY <1>1, <1>2
    <2>2. PICK d : d = cellOrder[i]
      OBVIOUS
    <2>3. Contains(dom, d)
      BY <2>2 DEF Contains
    <2>4. DomWith(c, p) = InsertAt(dom, SelectInSeq(dom, LAMBDA e : e = d), c)
      BY <1>2, <2>1, <2>2, <2>3 DEF DomWith
    <2>5. DomWith(c, p) = InsertAt(dom, Min({k \in 1..Len(dom) : dom[k] = d}), c)
      BY <2>2, <2>4, FoundThere DEF SelectInSeq
    <2> QED BY <1>2, <2>1, <2>2, <2>5, FoundThere
  <1>3. CASE ~(p < Len(cellOrder))
    <2>1. p = Len(cellOrder)
      BY <1>1, <1>3
    <2> QED BY <1>3, <2>1, InsertedLast DEF DomWith
  <1> QED BY <1>2, <1>3

-----------------------------------------------------------------------------
(* The second inductive invariant: the list and the file. *)

Undos == {q \in sent : q.op = "undo"}
Earlier(n) == {q \in Undos : q.n < n}

\* Requests are numbered, and the file lists cells that were given out.
FileTypes ==
    /\ requests \in Nat
    /\ IsFiniteSet(sent)
    /\ \A r \in sent : r.n \in Nat /\ r.n < requests
    /\ file \in Seq(Nat)
    /\ \A i \in 1..Len(file) : file[i] < nextId
    /\ deleteBuffer \in Seq(ToSet(deleteBuffer))
    /\ disturbed \in BOOLEAN

\* The entries of the undo buffer fit a list of this length, from the last to the first.
BufferFits(length) ==
    \A k \in 1..Len(deleteBuffer) :
        /\ deleteBuffer[k].position \in Nat
        /\ deleteBuffer[k].position <= length + (Len(deleteBuffer) - k)

\* An insertion that was not served yet fits the file, an undo once those before it are
\* served.
Fits(r) ==
    /\ r.op # "delete"
    /\ r.position \in Nat
    /\ r.op # "undo" => r.position <= Len(file)
    /\ r.op = "undo" => r.position <= Len(file) + Cardinality(Earlier(r.n))

Inserts(r, before, after) ==
    /\ r.op # "delete"
    /\ r.new \in Nat \ ToSet(before)
    /\ r.position \in 0..Len(before)
    /\ after = InsertAt(before, r.position + 1, r.new)

\* The lists that the file went through while the answers to come were made.
Lists(L) ==
    /\ L \in [0..Len(replies) -> Seq(Nat)]
    /\ L[0] = cellOrder /\ L[Len(replies)] = file
    /\ \A i \in 0..Len(replies) : Len(L[i]) = Len(cellOrder) + i
    /\ \A i \in 1..Len(replies) : Inserts(replies[i], L[i - 1], L[i])

\* Either there are only insertions under way ...
Growing ==
    /\ BufferFits(Len(file) + Cardinality(Undos))
    /\ \A r \in sent : Fits(r)
    /\ \E L : Lists(L)

Deletes(r, i) == r.op = "delete" /\ r.cell = cellOrder[i] /\ r.position = i - 1

\* ... or one deletion, not served yet or not answered yet.
Deleting ==
    /\ BufferFits(Len(cellOrder) - 1)
    /\ \E i \in 1..Len(cellOrder) :
         \/ /\ replies = <<>> /\ file = cellOrder
            /\ \E r \in sent : sent = {r} /\ Deletes(r, i)
         \/ /\ sent = {} /\ Len(replies) = 1
            /\ Deletes(replies[1], i) /\ replies[1].ok
            /\ file = RemoveAt(cellOrder, i)

OnPage ==
    /\ dom = cellOrder
    /\ cells = ToSet(cellOrder)
    /\ Distinct(cellOrder)

AgreeInv == ~disturbed => OnPage /\ (Growing \/ Deleting)

LEMMA Counts ==
    ASSUME FileTypes
    PROVE  /\ IsFiniteSet(Undos) /\ Cardinality(Undos) \in Nat
           /\ \A n : IsFiniteSet(Earlier(n)) /\ Cardinality(Earlier(n)) \in Nat
  <1>1. IsFiniteSet(sent) /\ Undos \subseteq sent /\ \A n : Earlier(n) \subseteq sent
    BY DEF FileTypes, Undos, Earlier
  <1> QED BY <1>1, FS_Subset, FS_CardinalityType

\* An answer less.
LEMMA OneLess ==
    ASSUME NEW S, IsFiniteSet(S), NEW r
    PROVE  Cardinality(S \ {r}) \in Nat /\ Cardinality(S) <= Cardinality(S \ {r}) + 1
           /\ (r \in S => Cardinality(S) = Cardinality(S \ {r}) + 1)
           /\ (r \notin S => Cardinality(S) = Cardinality(S \ {r}))
  <1>1. IsFiniteSet(S \ {r}) /\ Cardinality(S) \in Nat /\ Cardinality(S \ {r}) \in Nat
    BY FS_Subset, FS_CardinalityType
  <1>2. CASE r \in S
    BY <1>1, <1>2, FS_RemoveElement
  <1>3. CASE r \notin S
    <2>1. S \ {r} = S
      BY <1>3
    <2> QED BY <1>1, <1>3, <2>1
  <1> QED BY <1>2, <1>3

LEMMA FileInit == Init => FileTypes /\ AgreeInv
  <1> SUFFICES ASSUME Init PROVE FileTypes /\ AgreeInv
    OBVIOUS
  <1>1. InitialCells \in Nat
    BY CellsAssumption
  <1>2. /\ cellOrder \in Seq(Nat) /\ Len(cellOrder) = InitialCells
        /\ DOMAIN cellOrder = 1..InitialCells
        /\ \A i \in 1..InitialCells : cellOrder[i] = i
    BY <1>1 DEF Init
  <1>3. FileTypes
    <2>1. IsFiniteSet(sent) /\ \A r \in sent : FALSE
      BY FS_EmptySet DEF Init
    <2>2. file = cellOrder /\ nextId = InitialCells + 1 /\ deleteBuffer = <<>>
          /\ requests = 0 /\ disturbed = FALSE
      BY DEF Init
    <2>3. deleteBuffer \in Seq(ToSet(deleteBuffer))
      BY <2>2
    <2>4. \A i \in 1..Len(file) : file[i] < nextId
      BY <1>1, <1>2, <2>2
    <2> QED BY <1>2, <2>1, <2>2, <2>3, <2>4 DEF FileTypes
  <1>4. OnPage
    <2>1. ToSet(cellOrder) = 1..InitialCells
      BY <1>2 DEF ToSet
    <2>2. dom = cellOrder /\ cells = 1..InitialCells
      BY DEF Init
    <2> QED BY <1>2, <2>1, <2>2 DEF OnPage, Distinct
  <1>5. Growing
    <2>1. sent = {} /\ replies = <<>> /\ file = cellOrder /\ deleteBuffer = <<>>
      BY DEF Init
    <2>2. BufferFits(Len(file) + Cardinality(Undos)) /\ \A r \in sent : Fits(r)
      BY <2>1 DEF BufferFits
    <2> DEFINE L == [i \in 0..0 |-> cellOrder]
    <2>3. Lists(L)
      BY <1>2, <2>1 DEF Lists
    <2> QED BY <2>2, <2>3 DEF Growing
  <1> QED BY <1>3, <1>4, <1>5 DEF AgreeInv

\* Steps that change nothing the second invariant speaks of, or after which it says nothing.
LEMMA OtherAgrees ==
    ASSUME FileTypes, AgreeInv,
           UNCHANGED <<cells, cellOrder, dom, file, deleteBuffer, nextId, requests>>,
           \/ UNCHANGED <<sent, replies, disturbed>>
           \/ sent' \subseteq sent /\ disturbed' = TRUE
    PROVE  FileTypes' /\ AgreeInv'
  <1>1. FileTypes'
    <2>1. sent' \subseteq sent /\ IsFiniteSet(sent')
      BY FS_Subset DEF FileTypes
    <2>2. disturbed' \in BOOLEAN
      BY DEF FileTypes
    <2> QED BY <2>1, <2>2 DEF FileTypes
  <1>2. CASE disturbed' = TRUE
    BY <1>1, <1>2 DEF AgreeInv
  <1>3. CASE UNCHANGED <<sent, replies, disturbed>>
    BY <1>1, <1>3 DEF AgreeInv, OnPage, Growing, Deleting, BufferFits, Undos, Earlier, Fits, Lists,
       Deletes
  <1> QED BY <1>2, <1>3

\* While only insertions are under way, the file is at least as long as the list.
LEMMA FileIsLonger ==
    ASSUME FileTypes, NEW L, Lists(L), cellOrder \in Seq(Nat), replies \in Seq(ToSet(replies))
    PROVE  /\ Len(file) = Len(cellOrder) + Len(replies)
           /\ Len(file) \in Nat /\ Len(cellOrder) \in Nat /\ Len(replies) \in Nat
           /\ Len(cellOrder) <= Len(file)
  <1>1. Len(file) \in Nat /\ Len(cellOrder) \in Nat /\ Len(replies) \in Nat
    BY DEF FileTypes
  <1>2. Len(replies) \in 0..Len(replies)
    BY <1>1
  <1>3. Len(file) = Len(cellOrder) + Len(replies)
    BY <1>2 DEF Lists
  <1> QED BY <1>1, <1>3

-----------------------------------------------------------------------------
(* Requests. *)

LEMMA RequestTypes ==
    ASSUME FileTypes, NEW r, Request(r), r.n = requests,
           deleteBuffer' \in Seq(ToSet(deleteBuffer'))
    PROVE  FileTypes' /\ r \notin sent
  <1>1. /\ sent' = sent \cup {r} /\ requests' = requests + 1
        /\ UNCHANGED <<file, nextId>>
    BY DEF Request, server
  <1>2. IsFiniteSet(sent')
    BY <1>1, FS_AddElement DEF FileTypes
  <1>3. disturbed' \in BOOLEAN
    BY DEF Request, FileTypes
  <1>4. r \notin sent /\ \A q \in sent' : q.n \in Nat /\ q.n < requests'
    BY <1>1 DEF FileTypes
  <1> QED BY <1>1, <1>2, <1>3, <1>4 DEF FileTypes

\* A deletion under way disturbs every request.
LEMMA NoneIsDeleting ==
    ASSUME SelectionInv, AgreeInv, ~disturbed, ~DeletesOutstanding
    PROVE  OnPage /\ Growing
  <1>1. ASSUME Deleting PROVE FALSE
    <2>1. PICK i \in 1..Len(cellOrder) :
             \/ /\ replies = <<>> /\ file = cellOrder
                /\ \E r \in sent : sent = {r} /\ Deletes(r, i)
             \/ /\ sent = {} /\ Len(replies) = 1
                /\ Deletes(replies[1], i) /\ replies[1].ok
                /\ file = RemoveAt(cellOrder, i)
      BY <1>1 DEF Deleting
    <2>2. CASE \E r \in sent : Deletes(r, i)
      BY <2>2 DEF Deletes, DeletesOutstanding
    <2>3. CASE Len(replies) = 1 /\ Deletes(replies[1], i)
      <3>1. replies[1] \in ToSet(replies)
        BY <2>3 DEF SelectionInv, PageTypes, ToSet
      <3> QED BY <2>3, <3>1 DEF Deletes, DeletesOutstanding
    <2> QED BY <2>1, <2>2, <2>3
  <1> QED BY <1>1 DEF AgreeInv

LEMMA InsertionSent ==
    ASSUME SelectionInv, FileTypes, AgreeInv, NEW r, Request(r), r.n = requests,
           r.op # "delete",
           \/ /\ r.op # "undo"
              /\ r.position \in 0..Len(cellOrder)
              /\ deleteBuffer' = deleteBuffer
           \/ /\ r.op = "undo" /\ deleteBuffer # <<>>
              /\ r.position = deleteBuffer[Len(deleteBuffer)].position
              /\ deleteBuffer' = Front(deleteBuffer)
    PROVE  FileTypes' /\ AgreeInv'
  <1>1. /\ sent' = sent \cup {r} /\ requests' = requests + 1
        /\ UNCHANGED <<cells, cellOrder, dom, replies, file, nextId>>
        /\ disturbed' = (disturbed \/ DeletesOutstanding)
    BY DEF Request, server, page
  <1>2. deleteBuffer \in Seq(ToSet(deleteBuffer)) /\ Len(deleteBuffer) \in Nat
    BY DEF FileTypes
  <1>3. r.op = "undo" =>
          /\ Len(deleteBuffer) # 0 /\ Len(deleteBuffer') = Len(deleteBuffer) - 1
          /\ deleteBuffer' \in Seq(ToSet(deleteBuffer))
          /\ \A k \in 1..(Len(deleteBuffer) - 1) : deleteBuffer'[k] = deleteBuffer[k]
    BY <1>2 DEF Front
  <1>4. deleteBuffer' \in Seq(ToSet(deleteBuffer'))
    BY <1>2, <1>3 DEF ToSet
  <1>5. FileTypes' /\ r \notin sent
    BY <1>4, RequestTypes
  <1> SUFFICES ASSUME ~disturbed' PROVE AgreeInv'
    BY <1>5 DEF AgreeInv
  <1>6. ~disturbed /\ ~DeletesOutstanding /\ OnPage /\ Growing
    BY <1>1, NoneIsDeleting
  <1>7. PICK L : Lists(L)
    BY <1>6 DEF Growing
  <1>8. Lists(L)'
    BY <1>1, <1>7 DEF Lists
  <1>9. Len(cellOrder) <= Len(file) /\ Len(cellOrder) \in Nat /\ Len(file) \in Nat
    BY <1>7, FileIsLonger DEF SelectionInv, PageTypes
  <1>10. /\ IsFiniteSet(Undos) /\ Cardinality(Undos) \in Nat
         /\ \A n : IsFiniteSet(Earlier(n)) /\ Cardinality(Earlier(n)) \in Nat
    BY Counts
  <1>11. ASSUME NEW q \in sent PROVE Fits(q)'
    <2>1. q.n < r.n /\ r.n \in Nat /\ q.n \in Nat
      BY DEF FileTypes
    <2>2. ~(r.n < q.n)
      BY <2>1
    <2>3. Earlier(q.n)' = Earlier(q.n)
      BY <1>1, <2>2 DEF Earlier, Undos
    <2>4. Fits(q)
      BY <1>6 DEF Growing
    <2> QED BY <1>1, <2>3, <2>4 DEF Fits
  <1>12. r.op # "undo" => Undos' = Undos
    BY <1>1 DEF Undos
  <1>13. r.op = "undo" => Undos' = Undos \cup {r} /\ r \notin Undos /\ Earlier(r.n)' = Undos
    <2>1. \A q \in sent : q.n < r.n
      BY DEF FileTypes
    <2>2. ~(r.n < r.n)
      BY DEF FileTypes
    <2> QED BY <1>1, <1>5, <2>1, <2>2 DEF Undos, Earlier
  <1>14. r.op = "undo" => Cardinality(Undos') = Cardinality(Undos) + 1
    BY <1>10, <1>13, FS_AddElement
  <1> DEFINE D == deleteBuffer
             n == Cardinality(Undos)
  <1>15. \A k \in 1..Len(D) : D[k].position \in Nat /\ D[k].position <= Len(file) + n + (Len(D) - k)
    BY <1>6 DEF Growing, BufferFits
  <1>16. Fits(r)'
    <2>1. CASE r.op # "undo"
      BY <1>1, <1>9, <2>1 DEF Fits
    <2>2. CASE r.op = "undo"
      <3>1. Len(D) \in 1..Len(D) /\ Len(D) - Len(D) = 0
        BY <1>2, <1>3, <2>2
      <3>2. D[Len(D)].position \in Nat /\ D[Len(D)].position <= Len(file) + n + (Len(D) - Len(D))
        BY <1>15, <3>1
      <3>3. r.position \in Nat /\ r.position <= Len(file) + n
        BY <1>9, <1>10, <2>2, <3>1, <3>2
      <3> HIDE DEF n
      <3>4. Cardinality(Earlier(r.n)') = n
        BY <1>13, <2>2 DEF n
      <3> QED BY <1>1, <2>2, <3>3, <3>4 DEF Fits
    <2> QED BY <2>1, <2>2
  <1>17. BufferFits(Len(file) + Cardinality(Undos))'
    <2>1. CASE r.op # "undo"
      <3>1. Undos' = Undos /\ deleteBuffer' = deleteBuffer
        BY <1>12, <2>1
      <3> QED BY <1>1, <1>15, <3>1 DEF BufferFits
    <2>2. CASE r.op = "undo"
      <3> DEFINE E == deleteBuffer'
      <3>1. Len(E) = Len(D) - 1 /\ \A k \in 1..(Len(D) - 1) : E[k] = D[k]
        BY <1>3, <2>2
      <3>2. ASSUME NEW k \in 1..Len(E)
            PROVE  E[k].position \in Nat /\ E[k].position <= Len(file) + (n + 1) + (Len(E) - k)
        <4>1. k \in 1..(Len(D) - 1) /\ k \in 1..Len(D) /\ k \in Nat
          BY <1>2, <3>1
        <4>2. E[k] = D[k] /\ D[k].position \in Nat
              /\ D[k].position <= Len(file) + n + (Len(D) - k)
          BY <1>15, <3>1, <4>1
        <4>3. Len(file) + n + (Len(D) - k) = Len(file) + (n + 1) + (Len(E) - k)
          BY <1>2, <1>9, <1>10, <3>1, <4>1
        <4> QED BY <4>2, <4>3
      <3>3. Cardinality(Undos') = n + 1
        BY <1>14, <2>2
      <3> HIDE DEF n
      <3> QED BY <1>1, <3>2, <3>3 DEF BufferFits
    <2> QED BY <2>1, <2>2
  <1>18. OnPage'
    BY <1>1, <1>6 DEF OnPage
  <1>19. Growing'
    BY <1>1, <1>8, <1>11, <1>16, <1>17 DEF Growing
  <1> QED BY <1>18, <1>19 DEF AgreeInv

LEMMA DeletionSent ==
    ASSUME SelectionInv, FileTypes, AgreeInv, NEW c \in cells, DeleteCell(c)
    PROVE  FileTypes' /\ AgreeInv'
  <1> DEFINE entry == [position |-> IndexOf(c), type |-> type[c]]
  <1>1. PICK r : r = [n |-> requests, op |-> "delete", position |-> IndexOf(c),
                      type |-> type[c], cell |-> c]
    OBVIOUS
  <1>2. Request(r) /\ deleteBuffer' = Append(deleteBuffer, entry)
    BY <1>1 DEF DeleteCell
  <1>3. r.n = requests /\ r.op = "delete" /\ r.position = IndexOf(c) /\ r.cell = c
        /\ entry.position = IndexOf(c)
    BY <1>1
  <1> HIDE DEF entry
  <1>4. /\ sent' = sent \cup {r}
        /\ UNCHANGED <<cells, cellOrder, dom, replies, file, nextId>>
        /\ disturbed' = (disturbed \/ DeletesOutstanding \/ Outstanding)
    BY <1>2, <1>3 DEF Request, server, page
  <1> DEFINE D == deleteBuffer
             E == deleteBuffer'
  <1>5. D \in Seq(ToSet(D)) /\ Len(D) \in Nat
    BY DEF FileTypes
  <1>6. /\ E \in Seq(ToSet(D) \cup {entry}) /\ Len(E) = Len(D) + 1 /\ E[Len(D) + 1] = entry
        /\ \A k \in 1..Len(D) : E[k] = D[k]
    BY <1>2, <1>5
  <1>7. E \in Seq(ToSet(E))
    BY <1>6 DEF ToSet
  <1>8. FileTypes'
    BY <1>2, <1>3, <1>7, RequestTypes
  <1> SUFFICES ASSUME ~disturbed' PROVE AgreeInv'
    BY <1>8 DEF AgreeInv
  <1>9. ~disturbed /\ sent = {} /\ replies = <<>> /\ OnPage /\ Growing
    BY <1>4, NoneIsDeleting DEF Outstanding
  <1>10. file = cellOrder /\ cellOrder \in Seq(Nat) /\ Len(cellOrder) \in Nat
    <2>1. Len(replies) = 0
      BY <1>9
    <2> QED BY <1>9, <2>1 DEF Growing, Lists, SelectionInv, PageTypes
  <1>11. PICK i \in 1..Len(cellOrder) : c = cellOrder[i]
    <2>1. c \in ToSet(cellOrder) /\ DOMAIN cellOrder = 1..Len(cellOrder)
      BY <1>9, <1>10 DEF OnPage
    <2> QED BY <2>1 DEF ToSet
  <1>12. IndexOf(c) = i - 1
    BY <1>9, <1>10, <1>11, IndexThere DEF OnPage
  <1>13. Cardinality(Undos) = 0
    <2>1. Undos = {}
      BY <1>9 DEF Undos
    <2> QED BY <2>1, FS_EmptySet
  <1>14. \A k \in 1..Len(D) : D[k].position \in Nat
                             /\ D[k].position <= Len(cellOrder) + (Len(D) - k)
    BY <1>9, <1>10, <1>13 DEF Growing, BufferFits
  <1>15. BufferFits(Len(cellOrder) - 1)'
    <2>1. ASSUME NEW k \in 1..Len(E)
          PROVE  E[k].position \in Nat /\ E[k].position <= Len(cellOrder) - 1 + (Len(E) - k)
      <3>1. CASE k \in 1..Len(D)
        <4>1. E[k] = D[k] /\ D[k].position \in Nat
              /\ D[k].position <= Len(cellOrder) + (Len(D) - k)
          BY <1>6, <1>14, <3>1
        <4>2. Len(cellOrder) + (Len(D) - k) = Len(cellOrder) - 1 + (Len(E) - k)
          BY <1>5, <1>6, <1>10
        <4> QED BY <4>1, <4>2
      <3>2. CASE k = Len(D) + 1
        <4>1. E[k].position = i - 1 /\ Len(E) - k = 0
          BY <1>3, <1>5, <1>6, <1>12, <3>2
        <4>2. i - 1 \in Nat /\ i - 1 <= Len(cellOrder) - 1 + 0
          BY <1>10
        <4> QED BY <4>1, <4>2
      <3>3. k \in 1..Len(D) \/ k = Len(D) + 1
        BY <1>5, <1>6
      <3> QED BY <3>1, <3>2, <3>3
    <2> QED BY <1>4, <2>1 DEF BufferFits
  <1>16. sent' = {r} /\ Deletes(r, i)'
    BY <1>3, <1>4, <1>9, <1>11, <1>12 DEF Deletes
  <1>17. Deleting'
    BY <1>4, <1>9, <1>10, <1>11, <1>15, <1>16 DEF Deleting
  <1>18. OnPage'
    BY <1>4, <1>9 DEF OnPage
  <1> QED BY <1>17, <1>18 DEF AgreeInv

-----------------------------------------------------------------------------
(* The server. *)

LEMMA ReplyAppended ==
    ASSUME SelectionInv, NEW r \in sent, NEW ok, NEW new, Reply(r, ok, new)
    PROVE  /\ sent' = sent \ {r} /\ Len(replies) \in Nat
           /\ Len(replies') = Len(replies) + 1
           /\ \A i \in 1..Len(replies) : replies'[i] = replies[i]
           /\ LET a == replies'[Len(replies) + 1] IN
              /\ a.op = r.op /\ a.position = r.position /\ a.type = r.type
              /\ a.cell = r.cell /\ a.ok = ok /\ a.new = new
  <1>1. PICK a : a = [n |-> r.n, op |-> r.op, position |-> r.position,
                      type |-> r.type, cell |-> r.cell, ok |-> ok, new |-> new]
    OBVIOUS
  <1>2. /\ a.op = r.op /\ a.position = r.position /\ a.type = r.type
        /\ a.cell = r.cell /\ a.ok = ok /\ a.new = new
    BY <1>1
  <1>3. sent' = sent \ {r} /\ replies' = Append(replies, a)
    BY <1>1 DEF Reply
  <1>4. replies \in Seq(ToSet(replies)) /\ Len(replies) \in Nat
    BY DEF SelectionInv, PageTypes
  <1>5. /\ Len(replies') = Len(replies) + 1 /\ replies'[Len(replies) + 1] = a
        /\ \A i \in 1..Len(replies) : replies'[i] = replies[i]
    BY <1>3, <1>4
  <1> QED BY <1>2, <1>3, <1>4, <1>5

\* The file lists what was given out, each id at most once.
LEMMA AddedIsGivenOut ==
    ASSUME SelectionInv, FileTypes, NEW r \in sent, AddCell(r)
    PROVE  /\ nextId \in Nat /\ nextId' = nextId + 1 /\ nextId \notin ToSet(file)
           /\ file' \in Seq(Nat) /\ Len(file) \in Nat /\ Len(file') = Len(file) + 1
           /\ \A i \in 1..Len(file') : file'[i] < nextId'
  <1>1. /\ nextId \in Nat /\ nextId' = nextId + 1 /\ file \in Seq(Nat) /\ Len(file) \in Nat
        /\ \A i \in 1..Len(file) : file[i] \in Nat /\ file[i] < nextId
    BY DEF AddCell, SelectionInv, PageTypes, FileTypes
  <1>2. nextId \notin ToSet(file)
    BY <1>1 DEF ToSet
  <1>3. CASE r.position \in 0..Len(file) /\ file' = InsertAt(file, r.position + 1, nextId)
    <2>1. PICK p \in 1..(Len(file) + 1) : p = r.position + 1
      BY <1>1, <1>3
    <2>2. InsertAt(file, p, nextId) \in Seq(Nat) /\ Len(InsertAt(file, p, nextId)) = Len(file) + 1
      BY <1>1, <2>1, InsertedElements
    <2>3. ToSet(InsertAt(file, p, nextId)) \subseteq ToSet(file) \cup {nextId}
      BY <1>1, <2>1, InsertAtElements
    <2>4. file' = InsertAt(file, p, nextId)
      BY <1>3, <2>1
    <2>5. ASSUME NEW i \in 1..Len(file') PROVE file'[i] < nextId'
      <3>1. file'[i] \in ToSet(file')
        BY <2>2, <2>4 DEF ToSet
      <3>2. file'[i] \in ToSet(file) \cup {nextId}
        BY <2>3, <2>4, <3>1
      <3>3. \A x \in ToSet(file) : x \in Nat /\ x < nextId
        <4>1. DOMAIN file = 1..Len(file)
          BY <1>1
        <4> QED BY <1>1, <4>1 DEF ToSet
      <3> QED BY <1>1, <3>2, <3>3
    <2> QED BY <1>1, <1>2, <2>2, <2>4, <2>5
  <1>4. CASE file' = Append(file, nextId)
    BY <1>1, <1>2, <1>4
  <1> QED BY <1>3, <1>4 DEF AddCell

LEMMA RemovedOne ==
    ASSUME FileTypes, NEW c
    PROVE  \/ RemoveFirst(file, c) = file
           \/ \E k \in 1..Len(file) : RemoveFirst(file, c) = RemoveAt(file, k)
  <1>1. Len(file) \in Nat
    BY DEF FileTypes
  <1>2. ASSUME \E i \in 1..Len(file) : file[i] = c
        PROVE  \E k \in 1..Len(file) : RemoveFirst(file, c) = RemoveAt(file, k)
    <2> DEFINE I == {i \in 1..Len(file) : file[i] = c}
    <2>1. I # {} /\ I \subseteq Nat
      BY <1>1, <1>2
    <2>2. RemoveFirst(file, c) = RemoveAt(file, Min(I))
      BY <1>2, <2>1 DEF RemoveFirst, SelectInSeq
    <2>3. I \subseteq 1..Len(file)
      OBVIOUS
    <2> HIDE DEF I
    <2>4. \E m \in I : \A k \in I : m <= k
      BY <2>1, LeastIndex
    <2>5. Min(I) \in I
      BY <2>4 DEF Min
    <2> QED BY <2>2, <2>3, <2>5
  <1>3. (\A i \in 1..Len(file) : file[i] # c) => RemoveFirst(file, c) = file
    BY DEF RemoveFirst
  <1> QED BY <1>2, <1>3

LEMMA RemovedIsGivenOut ==
    ASSUME SelectionInv, FileTypes, NEW c, file' = RemoveFirst(file, c), UNCHANGED nextId
    PROVE  file' \in Seq(Nat) /\ \A i \in 1..Len(file') : file'[i] < nextId'
  <1>1. file \in Seq(Nat) /\ Len(file) \in Nat /\ \A i \in 1..Len(file) : file[i] < nextId
    BY DEF FileTypes
  <1>2. CASE file' = file
    BY <1>1, <1>2
  <1>3. ASSUME NEW k \in 1..Len(file), file' = RemoveAt(file, k)
        PROVE  file' \in Seq(Nat) /\ \A i \in 1..Len(file') : file'[i] < nextId'
    <2>1. /\ RemoveAt(file, k) \in Seq(Nat)
          /\ Len(RemoveAt(file, k)) = Len(file) - 1
          /\ \A j \in 1..(Len(file) - 1) :
               RemoveAt(file, k)[j] = IF j < k THEN file[j] ELSE file[j + 1]
      BY <1>1, RemoveAtElements
    <2>2. ASSUME NEW j \in 1..(Len(file) - 1) PROVE file'[j] < nextId
      <3>1. j \in 1..Len(file) /\ j + 1 \in 1..Len(file)
        BY <1>1
      <3>2. file'[j] = file[j] \/ file'[j] = file[j + 1]
        BY <1>3, <2>1
      <3> QED BY <1>1, <3>1, <3>2
    <2> QED BY <1>3, <2>1, <2>2
  <1> QED BY <1>2, <1>3, RemovedOne

LEMMA ServedTypes ==
    ASSUME SelectionInv, FileTypes, NEW r \in sent, ServerActs(r)
    PROVE  FileTypes'
  <1>1. sent' = sent \ {r} /\ UNCHANGED <<deleteBuffer, requests>>
        /\ disturbed' = (disturbed \/ OvertakesUndo(r))
    BY DEF ServerActs, AddCell, RemoveCell, Reply, counters
  <1>2. IsFiniteSet(sent') /\ sent' \subseteq sent
    BY <1>1, FS_Subset DEF FileTypes
  <1>3. file' \in Seq(Nat) /\ \A i \in 1..Len(file') : file'[i] < nextId'
    <2>1. CASE AddCell(r)
      BY <2>1, AddedIsGivenOut
    <2>2. CASE RemoveCell(r)
      BY <2>2, RemovedIsGivenOut DEF RemoveCell
    <2> QED BY <2>1, <2>2 DEF ServerActs
  <1>4. disturbed' \in BOOLEAN
    BY <1>1 DEF FileTypes
  <1> QED BY <1>1, <1>2, <1>3, <1>4 DEF FileTypes

LEMMA OneMore ==
    ASSUME NEW x \in Nat, NEW F \in Nat, NEW a \in Nat, NEW b \in Nat, NEW d \in Int,
           x <= F + a + d, a <= b + 1
    PROVE  x <= (F + 1) + b + d
  OBVIOUS

LEMMA InsertionServed ==
    ASSUME SelectionInv, FileTypes, AgreeInv, NEW r \in sent, ServerActs(r), AddCell(r)
    PROVE  AgreeInv'
  <1> SUFFICES ASSUME ~disturbed' PROVE AgreeInv'
    BY DEF AgreeInv
  <1>1. /\ UNCHANGED <<cells, cellOrder, dom, deleteBuffer, requests>>
        /\ ~disturbed /\ ~OvertakesUndo(r)
    BY DEF ServerActs, page, counters
  <1>2. r.op # "delete"
    BY DEF AddCell
  <1>3. OnPage /\ Growing
    <2>1. ~Deleting
      BY <1>2 DEF Deleting, Deletes
    <2> QED BY <1>1, <2>1 DEF AgreeInv
  <1>4. /\ nextId \in Nat /\ nextId \notin ToSet(file)
        /\ file' \in Seq(Nat) /\ Len(file) \in Nat /\ Len(file') = Len(file) + 1
    BY AddedIsGivenOut
  <1>5. /\ IsFiniteSet(Undos) /\ Cardinality(Undos) \in Nat
        /\ \A n : IsFiniteSet(Earlier(n)) /\ Cardinality(Earlier(n)) \in Nat
    BY Counts
  <1>6. r.position \in 0..Len(file)
    <2>1. Fits(r)
      BY <1>3 DEF Growing
    <2>2. CASE r.op = "undo"
      <3>1. Earlier(r.n) = {}
        BY <1>1, <2>2 DEF Earlier, Undos, OvertakesUndo
      <3>2. Cardinality(Earlier(r.n)) = 0
        BY <3>1, FS_EmptySet
      <3> QED BY <1>4, <2>1, <2>2, <3>2 DEF Fits
    <2>3. CASE r.op # "undo"
      BY <1>4, <2>1, <2>3 DEF Fits
    <2> QED BY <2>2, <2>3
  <1>7. file' = InsertAt(file, r.position + 1, nextId) /\ Reply(r, TRUE, nextId)
    BY <1>6 DEF AddCell
  <1> DEFINE m == Len(replies)
  <1>8. /\ sent' = sent \ {r} /\ m \in Nat /\ Len(replies') = m + 1
        /\ \A i \in 1..m : replies'[i] = replies[i]
        /\ replies'[m + 1].op = r.op /\ replies'[m + 1].position = r.position
        /\ replies'[m + 1].new = nextId
    BY <1>7, ReplyAppended
  <1> HIDE DEF m
  <1>9. PICK L : Lists(L)
    BY <1>3 DEF Growing
  <1>10. /\ L \in [0..m -> Seq(Nat)] /\ L[0] = cellOrder /\ L[m] = file
         /\ \A i \in 0..m : Len(L[i]) = Len(cellOrder) + i
         /\ \A i \in 1..m : Inserts(replies[i], L[i - 1], L[i])
    BY <1>9 DEF Lists, m
  <1>11. Len(cellOrder) \in Nat
    BY DEF SelectionInv, PageTypes
  <1>12a. PICK M : M = [i \in 0..(m + 1) |-> IF i = m + 1 THEN file' ELSE L[i]]
    OBVIOUS
  <1>12. /\ M \in [0..(m + 1) -> Seq(Nat)] /\ M[0] = cellOrder /\ M[m + 1] = file'
         /\ \A i \in 0..m : M[i] = L[i]
    BY <1>4, <1>8, <1>10, <1>12a
  <1>13. ASSUME NEW i \in 0..(m + 1) PROVE Len(M[i]) = Len(cellOrder) + i
    <2>1. CASE i \in 0..m
      BY <1>10, <1>12, <2>1
    <2>2. CASE i = m + 1
      <3>1. m \in 0..m
        BY <1>8
      <3>2. Len(file) = Len(cellOrder) + m
        BY <1>10, <3>1
      <3> QED BY <1>4, <1>8, <1>11, <1>12, <2>2, <3>2
    <2> QED BY <1>8, <2>1, <2>2
  <1>14. ASSUME NEW i \in 1..(m + 1) PROVE Inserts(replies'[i], M[i - 1], M[i])
    <2>1. CASE i \in 1..m
      <3>1. i \in 0..m /\ i - 1 \in 0..m
        BY <1>8, <2>1
      <3>2. replies'[i] = replies[i] /\ M[i] = L[i] /\ M[i - 1] = L[i - 1]
        BY <1>8, <1>12, <2>1, <3>1
      <3> QED BY <1>10, <2>1, <3>2
    <2>2. CASE i = m + 1
      <3>1. m \in 0..m /\ i - 1 = m
        BY <1>8, <2>2
      <3>2. M[i - 1] = file /\ M[i] = file'
        BY <1>10, <1>12, <2>2, <3>1
      <3> QED BY <1>2, <1>4, <1>6, <1>7, <1>8, <2>2, <3>2 DEF Inserts
    <2> QED BY <1>8, <2>1, <2>2
  <1>15. Lists(M)'
    BY <1>1, <1>8, <1>12, <1>13, <1>14 DEF Lists
  <1>16. ASSUME NEW q \in sent' PROVE Fits(q)'
    <2>1. Fits(q) /\ q \in sent
      BY <1>3, <1>8 DEF Growing
    <2>2. Earlier(q.n)' = Earlier(q.n) \ {r}
      BY <1>8 DEF Earlier, Undos
    <2>3. /\ Cardinality(Earlier(q.n) \ {r}) \in Nat
          /\ Cardinality(Earlier(q.n)) <= Cardinality(Earlier(q.n) \ {r}) + 1
      BY <1>5, OneLess
    <2>4. PICK a, b \in Nat : /\ a = Cardinality(Earlier(q.n)) /\ b = Cardinality(Earlier(q.n)')
                              /\ a <= b + 1
      BY <1>5, <2>2, <2>3
    <2> QED BY <1>4, <2>1, <2>4 DEF Fits
  <1>17. BufferFits(Len(file) + Cardinality(Undos))'
    <2>1. Undos' = Undos \ {r}
      BY <1>8 DEF Undos
    <2>2. PICK a, b \in Nat : /\ a = Cardinality(Undos) /\ b = Cardinality(Undos')
                              /\ a <= b + 1
      BY <1>5, <2>1, OneLess
    <2>3. ASSUME NEW k \in 1..Len(deleteBuffer)
          PROVE  /\ deleteBuffer[k].position \in Nat
                 /\ deleteBuffer[k].position <= Len(file') + b + (Len(deleteBuffer) - k)
      <3>1. /\ deleteBuffer[k].position \in Nat
            /\ deleteBuffer[k].position <= Len(file) + a + (Len(deleteBuffer) - k)
        BY <1>3, <2>2 DEF Growing, BufferFits
      <3>2. Len(deleteBuffer) \in Nat /\ k \in Nat
        BY DEF FileTypes
      <3>3. PICK x : x = deleteBuffer[k].position
        OBVIOUS
      <3>4. x \in Nat /\ x <= Len(file) + a + (Len(deleteBuffer) - k)
        BY <3>1, <3>3
      <3>5. x <= Len(file') + b + (Len(deleteBuffer) - k)
        <4>1. PICK F, d : F = Len(file) /\ d = Len(deleteBuffer) - k
          OBVIOUS
        <4>2. F \in Nat /\ d \in Int /\ Len(file') = F + 1
          BY <1>4, <3>2, <4>1
        <4>3. x <= F + a + d
          BY <3>4, <4>1
        <4>4. x <= (F + 1) + b + d
          <5>1. a \in Nat /\ b \in Nat /\ a <= b + 1 /\ x \in Nat
            BY <2>2, <3>4
          <5> QED BY <4>2, <4>3, <5>1, OneMore
        <4> QED BY <4>1, <4>2, <4>4
      <3> QED BY <3>3, <3>4, <3>5
    <2> QED BY <1>1, <2>2, <2>3 DEF BufferFits
  <1>18. OnPage'
    BY <1>1, <1>3 DEF OnPage
  <1>19. Growing'
    BY <1>15, <1>16, <1>17 DEF Growing
  <1> QED BY <1>18, <1>19 DEF AgreeInv

LEMMA DeletionServed ==
    ASSUME SelectionInv, FileTypes, AgreeInv, NEW r \in sent, ServerActs(r), RemoveCell(r)
    PROVE  AgreeInv'
  <1> SUFFICES ASSUME ~disturbed' PROVE AgreeInv'
    BY DEF AgreeInv
  <1>1. /\ UNCHANGED <<cells, cellOrder, dom, deleteBuffer>> /\ ~disturbed
        /\ r.op = "delete"
        /\ file' = RemoveFirst(file, r.cell) /\ Reply(r, Contains(file, r.cell), None)
    BY DEF ServerActs, RemoveCell, page
  <1>2. OnPage /\ Deleting
    <2>1. ~Growing
      BY <1>1 DEF Growing, Fits
    <2> QED BY <1>1, <2>1 DEF AgreeInv
  <1>3. PICK i \in 1..Len(cellOrder) :
          /\ replies = <<>> /\ file = cellOrder
          /\ sent = {r} /\ Deletes(r, i)
    BY <1>2 DEF Deleting
  <1>4. cellOrder \in Seq(Nat) /\ r.cell = cellOrder[i] /\ Distinct(cellOrder)
    BY <1>2, <1>3 DEF Deletes, SelectionInv, PageTypes, OnPage
  <1>5. file' = RemoveAt(cellOrder, i)
    BY <1>1, <1>3, <1>4, RemovedFirst
  <1>6. Contains(file, r.cell)
    BY <1>3, <1>4 DEF Contains
  <1>7. Contains(file, r.cell) = TRUE
    BY <1>6 DEF Contains
  <1>8. Reply(r, TRUE, None)
    BY <1>1, <1>7
  <1>9. /\ sent' = sent \ {r} /\ Len(replies) \in Nat
        /\ Len(replies') = Len(replies) + 1
        /\ replies'[Len(replies) + 1].op = r.op
        /\ replies'[Len(replies) + 1].position = r.position
        /\ replies'[Len(replies) + 1].cell = r.cell
        /\ replies'[Len(replies) + 1].ok = TRUE
    BY <1>8, ReplyAppended
  <1>10. Len(replies) = 0 /\ sent' = {}
    BY <1>3, <1>9
  <1>11. Len(replies') = 1 /\ replies'[1].op = r.op /\ replies'[1].position = r.position
         /\ replies'[1].cell = r.cell /\ replies'[1].ok
    BY <1>9, <1>10
  <1>12. Deletes(replies[1], i)'
    BY <1>1, <1>3, <1>11 DEF Deletes
  <1>13. BufferFits(Len(cellOrder) - 1)'
    BY <1>1, <1>2 DEF Deleting, BufferFits
  <1>14. Deleting' /\ OnPage'
    BY <1>1, <1>2, <1>5, <1>10, <1>11, <1>12, <1>13 DEF Deleting, OnPage
  <1> QED BY <1>14 DEF AgreeInv

-----------------------------------------------------------------------------
(* Answers. *)

LEMMA AnswerTypes ==
    ASSUME FileTypes, NEW i \in DOMAIN replies, Answer(i)
    PROVE  FileTypes'
  <1>1. UNCHANGED <<sent, file, nextId, deleteBuffer, requests>>
        /\ disturbed' = (disturbed \/ i # 1)
    BY DEF Answer, server, counters
  <1>2. disturbed' \in BOOLEAN
    BY <1>1 DEF FileTypes
  <1> QED BY <1>1, <1>2 DEF FileTypes

\* The replies that are left when the first one is answered.
LEMMA FirstAnswered ==
    ASSUME SelectionInv, AgreeInv, NEW i \in DOMAIN replies, Answer(i), ~disturbed'
    PROVE  /\ UNCHANGED <<sent, file, deleteBuffer>> /\ ~disturbed
           /\ OnPage /\ (Growing \/ Deleting)
           /\ Len(replies) \in Nat \ {0} /\ Len(replies') = Len(replies) - 1
           /\ \A j \in 1..Len(replies') : replies'[j] = replies[j + 1]
           /\ \/ replies[1].op # "delete" /\ OnInserted(replies[1])
              \/ replies[1].op = "delete" /\ OnDeleted(replies[1])
  <1>1. /\ UNCHANGED <<sent, file, deleteBuffer>> /\ ~disturbed /\ i = 1
        /\ replies' = RemoveAt(replies, 1)
    BY DEF Answer, server
  <1>2. replies \in Seq(ToSet(replies)) /\ Len(replies) \in Nat /\ DOMAIN replies = 1..Len(replies)
    BY DEF SelectionInv, PageTypes
  <1>3. 1 \in 1..Len(replies)
    BY <1>1, <1>2
  <1>4. /\ Len(RemoveAt(replies, 1)) = Len(replies) - 1
        /\ \A j \in 1..(Len(replies) - 1) :
             RemoveAt(replies, 1)[j] = IF j < 1 THEN replies[j] ELSE replies[j + 1]
    BY <1>2, <1>3, RemoveAtElements
  <1>5. \A j \in 1..Len(replies') : replies'[j] = replies[j + 1]
    <2>1. \A j \in 1..(Len(replies) - 1) : ~(j < 1)
      BY <1>2
    <2> QED BY <1>1, <1>4, <2>1
  <1>6. \/ replies[1].op # "delete" /\ OnInserted(replies[1])
        \/ replies[1].op = "delete" /\ OnDeleted(replies[1])
    BY <1>1 DEF Answer
  <1>7. OnPage /\ (Growing \/ Deleting)
    BY <1>1 DEF AgreeInv
  <1>8. Len(replies) \in Nat \ {0}
    BY <1>2, <1>3
  <1>9. Len(replies') = Len(replies) - 1
    BY <1>1, <1>4
  <1> QED BY <1>1, <1>5, <1>6, <1>7, <1>8, <1>9

LEMMA InsertionAnswered ==
    ASSUME SelectionInv, FileTypes, AgreeInv, NEW i \in DOMAIN replies, Answer(i), ~disturbed',
           Growing
    PROVE  AgreeInv'
  <1> DEFINE r == replies[1]
             m == Len(replies)
             n == Len(replies')
  <1>1. /\ UNCHANGED <<sent, file, deleteBuffer>>
        /\ OnPage /\ m \in Nat \ {0} /\ n = m - 1
        /\ \A j \in 1..n : replies'[j] = replies[j + 1]
        /\ \/ r.op # "delete" /\ OnInserted(r)
           \/ r.op = "delete" /\ OnDeleted(r)
    BY FirstAnswered
  <1>2. PICK L : Lists(L)
    BY DEF Growing
  <1>3. /\ L \in [0..m -> Seq(Nat)] /\ L[0] = cellOrder /\ L[m] = file
        /\ \A j \in 0..m : Len(L[j]) = Len(cellOrder) + j
        /\ \A j \in 1..m : Inserts(replies[j], L[j - 1], L[j])
    BY <1>2 DEF Lists
  <1>4. cellOrder \in Seq(Nat) /\ Len(cellOrder) \in Nat
    BY DEF SelectionInv, PageTypes
  <1>5. Inserts(r, cellOrder, L[1]) /\ 1 \in 0..m
    <2>1. 1 \in 1..m /\ 1 - 1 = 0
      BY <1>1
    <2>2. Inserts(r, L[1 - 1], L[1])
      BY <1>3, <2>1
    <2> QED BY <1>1, <1>3, <2>1, <2>2
  <1> HIDE DEF r, m, n
  <1>6. PICK c, p : c = r.new /\ p = r.position
    OBVIOUS
  <1>7. /\ r.op # "delete" /\ c \in Nat \ ToSet(cellOrder) /\ p \in 0..Len(cellOrder)
        /\ L[1] = InsertAt(cellOrder, p + 1, c)
    BY <1>5, <1>6 DEF Inserts
  <1>8. c # None
    BY <1>7, CellsAssumption
  <1>9. AddCellComponent(c, p, r.type)
    BY <1>1, <1>6, <1>7, <1>8 DEF OnInserted
  <1>10. /\ DomWith(c, p) = InsertAt(cellOrder, p + 1, c)
         /\ (IF p < Len(cellOrder) THEN InsertAt(cellOrder, p + 1, c)
             ELSE Append(cellOrder, c)) = InsertAt(cellOrder, p + 1, c)
    BY <1>1, <1>4, <1>7, DomFollows DEF OnPage
  <1>11. cellOrder' = L[1] /\ dom' = L[1] /\ cells' = cells \cup {c}
    BY <1>7, <1>9, <1>10 DEF AddCellComponent
  <1>12. OnPage'
    <2>1. PICK k \in 1..(Len(cellOrder) + 1) : k = p + 1
      BY <1>4, <1>7
    <2>2. Distinct(InsertAt(cellOrder, k, c))
          /\ ToSet(InsertAt(cellOrder, k, c)) = ToSet(cellOrder) \cup {c}
      BY <1>1, <1>4, <1>7, <2>1, InsertedDistinct DEF OnPage
    <2>3. Distinct(L[1]) /\ ToSet(L[1]) = cells \cup {c}
      BY <1>1, <1>7, <2>1, <2>2 DEF OnPage
    <2> QED BY <1>11, <2>3 DEF OnPage, Distinct
  <1>13. PICK M : M = [j \in 0..n |-> L[j + 1]]
    OBVIOUS
  <1>14. \A j \in 0..n : M[j] = L[j + 1] /\ j + 1 \in 0..m
    BY <1>1, <1>13
  <1>15. M \in [0..n -> Seq(Nat)]
    BY <1>3, <1>13, <1>14
  <1>16. M[0] = cellOrder' /\ M[n] = file'
    <2>1. 0 \in 0..n /\ n \in 0..n /\ 0 + 1 = 1 /\ n + 1 = m
      BY <1>1
    <2> QED BY <1>1, <1>3, <1>11, <1>14, <2>1
  <1>17. ASSUME NEW j \in 0..n PROVE Len(M[j]) = Len(cellOrder') + j
    <2>1. Len(L[1]) = Len(cellOrder) + 1
      BY <1>3, <1>5
    <2>2. Len(L[j + 1]) = Len(cellOrder) + (j + 1)
      BY <1>3, <1>14
    <2>3. j \in Nat
      BY <1>1
    <2> QED BY <1>4, <1>11, <1>14, <2>1, <2>2, <2>3
  <1>18. ASSUME NEW j \in 1..n PROVE Inserts(replies'[j], M[j - 1], M[j])
    <2>1. j - 1 \in 0..n /\ j \in 0..n /\ j + 1 \in 1..m /\ (j + 1) - 1 = (j - 1) + 1
      BY <1>1
    <2>2. M[j] = L[j + 1] /\ M[j - 1] = L[(j - 1) + 1] /\ replies'[j] = replies[j + 1]
      BY <1>1, <1>14, <2>1
    <2>3. Inserts(replies[j + 1], L[(j + 1) - 1], L[j + 1])
      BY <1>3, <2>1
    <2> QED BY <2>1, <2>2, <2>3
  <1>19. Lists(M)'
    BY <1>15, <1>16, <1>17, <1>18 DEF Lists, n
  <1>20. BufferFits(Len(file) + Cardinality(Undos))' /\ \A q \in sent' : Fits(q)'
    BY <1>1 DEF Growing, BufferFits, Fits, Earlier, Undos
  <1>21. Growing'
    BY <1>19, <1>20 DEF Growing
  <1> QED BY <1>12, <1>21 DEF AgreeInv

LEMMA DeletionAnswered ==
    ASSUME SelectionInv, FileTypes, AgreeInv, NEW i \in DOMAIN replies, Answer(i), ~disturbed',
           Deleting
    PROVE  AgreeInv'
  <1> DEFINE r == replies[1]
  <1>1. /\ UNCHANGED <<sent, file, deleteBuffer>>
        /\ OnPage /\ Len(replies) \in Nat \ {0} /\ Len(replies') = Len(replies) - 1
        /\ \/ r.op # "delete" /\ OnInserted(r)
           \/ r.op = "delete" /\ OnDeleted(r)
    BY FirstAnswered
  <1>2. replies # <<>>
    BY <1>1
  <1> HIDE DEF r
  <1>3. PICK k \in 1..Len(cellOrder) :
          /\ sent = {} /\ Len(replies) = 1
          /\ Deletes(r, k) /\ r.ok
          /\ file = RemoveAt(cellOrder, k)
    BY <1>2 DEF Deleting, r
  <1>4. cellOrder \in Seq(Nat) /\ Len(cellOrder) \in Nat /\ Distinct(cellOrder)
        /\ dom = cellOrder /\ cells = ToSet(cellOrder)
    BY <1>1 DEF SelectionInv, PageTypes, OnPage
  <1>5. r.op = "delete" /\ r.cell = cellOrder[k] /\ r.position = k - 1
    BY <1>3 DEF Deletes
  <1>6. /\ cells' = cells \ {r.cell}
        /\ dom' = RemoveFirst(dom, r.cell)
        /\ cellOrder' = Splice(r.position)
    BY <1>1, <1>3, <1>5 DEF OnDeleted
  <1>7. cellOrder' = file
    <2>1. k - 1 # -1 /\ k - 1 < Len(cellOrder) /\ (k - 1) + 1 = k
      BY <1>4
    <2> QED BY <1>3, <1>5, <1>6, <2>1 DEF Splice
  <1>8. dom' = file
    BY <1>3, <1>4, <1>5, <1>6, RemovedFirst
  <1>9. Distinct(file) /\ ToSet(file) = ToSet(cellOrder) \ {cellOrder[k]}
        /\ file \in Seq(Nat) /\ Len(file) = Len(cellOrder) - 1
    BY <1>3, <1>4, RemovedDistinct, RemoveAtElements
  <1>10. OnPage'
    BY <1>4, <1>5, <1>6, <1>7, <1>8, <1>9 DEF OnPage, Distinct
  <1>11. Len(replies') = 0 /\ sent' = {} /\ \A q \in sent' : Fits(q)'
    BY <1>1, <1>3
  <1>12. BufferFits(Len(file) + Cardinality(Undos))'
    <2>1. Undos' = {}
      BY <1>11 DEF Undos
    <2>2. Cardinality(Undos') = 0
      BY <2>1, FS_EmptySet
    <2>3. Len(file') + Cardinality(Undos') = Len(cellOrder) - 1
      BY <1>1, <1>4, <1>9, <2>2
    <2>4. BufferFits(Len(cellOrder) - 1)
      BY DEF Deleting
    <2> QED BY <1>1, <2>3, <2>4 DEF BufferFits
  <1>13. PICK L : L = [j \in 0..0 |-> file]
    OBVIOUS
  <1>14. Lists(L)'
    <2>1. L \in [0..0 -> Seq(Nat)] /\ L[0] = file
      BY <1>9, <1>13
    <2>2. Len(cellOrder') \in Nat
      BY <1>7, <1>9
    <2>3. \A j \in 0..0 : Len(L[j]) = Len(cellOrder') + j
      BY <1>7, <2>1, <2>2
    <2>4. \A j \in 1..0 : FALSE
      OBVIOUS
    <2>5. cellOrder' = file /\ file' = file /\ Len(replies') = 0
      BY <1>1, <1>7, <1>11
    <2> QED BY <2>1, <2>3, <2>4, <2>5 DEF Lists
  <1>15. Growing'
    BY <1>11, <1>12, <1>14 DEF Growing
  <1> QED BY <1>10, <1>15 DEF AgreeInv

LEMMA AnswerAgrees ==
    ASSUME SelectionInv, FileTypes, AgreeInv, NEW i \in DOMAIN replies, Answer(i)
    PROVE  FileTypes' /\ AgreeInv'
  <1>1. FileTypes'
    BY AnswerTypes
  <1>2. ASSUME ~disturbed' PROVE AgreeInv'
    <2>1. Growing \/ Deleting
      BY <1>2, FirstAnswered
    <2> QED BY <1>2, <2>1, InsertionAnswered, DeletionAnswered
  <1>3. ASSUME disturbed' PROVE AgreeInv'
    BY <1>3 DEF AgreeInv
  <1> QED BY <1>1, <1>2, <1>3

-----------------------------------------------------------------------------

LEMMA FileNext ==
    ASSUME SelectionInv, FileTypes, AgreeInv, [Next]_vars
    PROVE  FileTypes' /\ AgreeInv'
<1>1. CASE Move
  BY <1>1, OtherAgrees DEF Move, page, network, server, history
<1>2. CASE InsertCellAbove
  <2>1. PICK x : x = IndexOf(ui.selected)
    OBVIOUS
  <2>2. PICK p : p = Max({0, x})
    OBVIOUS
  <2>3. p \in 0..Len(cellOrder)
    <3>1. cellOrder \in Seq(Nat)
      BY DEF SelectionInv, PageTypes
    <3>2. x \in -1..(Len(cellOrder) - 1) /\ Len(cellOrder) \in Nat
      BY <2>1, <3>1, IndexIsPosition
    <3>3. p \in {0, x} /\ \A y \in {0, x} : p >= y
      <4>1. \E y \in {0, x} : \A z \in {0, x} : y >= z
        BY <3>2
      <4> QED BY <2>2, <4>1 DEF Max
    <3> QED BY <3>2, <3>3
  <2>4. PICK r : r = Insertion("insert", p, "code")
    OBVIOUS
  <2>5. r.n = requests /\ r.op = "insert" /\ r.position = p
    BY <2>4 DEF Insertion
  <2>6. Request(r) /\ deleteBuffer' = deleteBuffer
    BY <1>2, <2>1, <2>2, <2>4 DEF InsertCellAbove
  <2> QED BY <2>3, <2>5, <2>6, InsertionSent
<1>3. ASSUME NEW t, InsertCellBelow(t) PROVE FileTypes' /\ AgreeInv'
  <2>1. PICK p : p = IndexOf(ui.selected) + 1
    OBVIOUS
  <2>2. p \in 0..Len(cellOrder)
    <3>1. cellOrder \in Seq(Nat)
      BY DEF SelectionInv, PageTypes
    <3>2. IndexOf(ui.selected) \in -1..(Len(cellOrder) - 1) /\ Len(cellOrder) \in Nat
      BY <3>1, IndexIsPosition
    <3> QED BY <2>1, <3>2
  <2>3. PICK r : r = Insertion("insert", p, t)
    OBVIOUS
  <2>4. r.n = requests /\ r.op = "insert" /\ r.position = p
    BY <2>3 DEF Insertion
  <2>5. Request(r) /\ deleteBuffer' = deleteBuffer
    BY <1>3, <2>1, <2>3 DEF InsertCellBelow
  <2> QED BY <2>2, <2>4, <2>5, InsertionSent
<1>4. CASE ExecuteCellAndAdvance
  BY <1>3, <1>4 DEF ExecuteCellAndAdvance
<1>5. ASSUME NEW c \in cells, DeleteCell(c) PROVE FileTypes' /\ AgreeInv'
  BY <1>5, DeletionSent
<1>6. ASSUME NEW c \in cells, NEW t \in CellTypes, ChangeCellType(c, t)
      PROVE  FileTypes' /\ AgreeInv'
  BY <1>6, OtherAgrees DEF ChangeCellType, server
<1>7. CASE UndoDelete
  <2>1. PICK e : e = deleteBuffer[Len(deleteBuffer)]
    OBVIOUS
  <2>2. PICK r : r = Insertion("undo", e.position, e.type)
    OBVIOUS
  <2>3. r.n = requests /\ r.op = "undo" /\ r.position = e.position
    BY <2>2 DEF Insertion
  <2>4. Request(r) /\ deleteBuffer' = Front(deleteBuffer) /\ deleteBuffer # <<>>
    BY <1>7, <2>1, <2>2 DEF UndoDelete, Last
  <2> QED BY <2>1, <2>3, <2>4, InsertionSent
<1>8. ASSUME NEW r \in sent, ServerActs(r) PROVE FileTypes' /\ AgreeInv'
  BY <1>8, ServedTypes, InsertionServed, DeletionServed DEF ServerActs
<1>9. ASSUME NEW p \in typePuts, ServerSetsType(p) PROVE FileTypes' /\ AgreeInv'
  BY <1>9, OtherAgrees DEF ServerSetsType, page, history, counters
<1>10. CASE Lost
  BY <1>10, OtherAgrees DEF Lost, page, server
<1>11. ASSUME NEW i \in DOMAIN replies, Answer(i) PROVE FileTypes' /\ AgreeInv'
  BY <1>11, AnswerAgrees
<1>12. CASE UNCHANGED vars
  BY <1>12, OtherAgrees DEF vars, page, network, server, history, counters
<1> QED
  BY <1>1, <1>2, <1>3, <1>4, <1>5, <1>6, <1>7, <1>8, <1>9, <1>10, <1>11, <1>12 DEF Next

-----------------------------------------------------------------------------
(* The types of the cells. *)

\* Identifiers do not run out: every request is counted.
IdsSuffice ==
    /\ nextId \in Nat /\ 1 <= nextId
    /\ nextId + Cardinality(sent) <= InitialCells + requests + 1
    /\ requests <= MaxRequests
    /\ cells \subseteq Ids
    /\ \A i \in 1..Len(replies) : replies[i].new # None => replies[i].new \in Ids

AnswersAreTyped ==
    \A i \in 1..Len(replies) :
        replies[i].new # None => fileType[replies[i].new] = replies[i].type

\* Types are changed of cells that the page has seen, and but for cells whose changes
\* overlapped or were lost, the change under way is to the type that is shown.
ChangesAreShown ==
    /\ \A p \in typePuts :
         /\ p.cell \in Ids /\ p.cell < nextId
         /\ \A i \in 1..Len(replies) : replies[i].new # p.cell
         /\ p.cell \in cells \ mistyped => type[p.cell] = p.type
    /\ \A p, q \in typePuts : p.cell = q.cell /\ p.cell \notin mistyped => p = q

SettledAgrees ==
    \A c \in cells \ mistyped :
        c \in ToSet(file) /\ (\A p \in typePuts : p.cell # c) => type[c] = fileType[c]

TypesInv ==
    /\ DOMAIN type = Ids /\ DOMAIN fileType = Ids
    /\ IdsSuffice /\ AnswersAreTyped /\ ChangesAreShown /\ SettledAgrees

LEMMA TypesInit == Init => TypesInv
  <1> SUFFICES ASSUME Init PROVE TypesInv
    OBVIOUS
  <1>1. InitialCells \in Nat /\ MaxRequests \in Nat
    BY CellsAssumption
  <1>2. Cardinality(sent) = 0
    BY FS_EmptySet DEF Init
  <1>3. replies = <<>> /\ typePuts = {} /\ requests = 0 /\ cells = 1..InitialCells
        /\ type = [c \in Ids |-> "code"] /\ fileType = type /\ nextId = InitialCells + 1
    BY DEF Init
  <1>4. cells \subseteq Ids
    BY <1>1, <1>3 DEF Ids
  <1>5. IdsSuffice
    BY <1>1, <1>2, <1>3, <1>4 DEF IdsSuffice
  <1>6. DOMAIN type = Ids /\ DOMAIN fileType = Ids /\ SettledAgrees
    BY <1>3 DEF SettledAgrees
  <1>7. AnswersAreTyped /\ ChangesAreShown
    BY <1>3 DEF AnswersAreTyped, ChangesAreShown
  <1> QED BY <1>5, <1>6, <1>7 DEF TypesInv

\* Steps that take nothing but requests and answers away.
LEMMA FewerKeepTypes ==
    ASSUME TypesInv, FileTypes,
           sent' \subseteq sent,
           UNCHANGED <<cells, type, typePuts, file, fileType, nextId, mistyped, requests>>,
           \A i \in 1..Len(replies') : \E j \in 1..Len(replies) : replies'[i] = replies[j]
    PROVE  TypesInv'
  <1>1. Cardinality(sent') <= Cardinality(sent) /\ Cardinality(sent') \in Nat
        /\ Cardinality(sent) \in Nat
    BY FS_Subset, FS_CardinalityType DEF FileTypes
  <1>2. IdsSuffice'
    <2>1. nextId + Cardinality(sent') <= InitialCells + requests + 1
      BY <1>1, CellsAssumption DEF TypesInv, IdsSuffice, FileTypes
    <2> QED BY <2>1 DEF TypesInv, IdsSuffice, Ids
  <1>3. AnswersAreTyped' /\ ChangesAreShown' /\ SettledAgrees'
    BY DEF TypesInv, AnswersAreTyped, ChangesAreShown, SettledAgrees
  <1> QED BY <1>2, <1>3 DEF TypesInv

LEMMA RequestKeepsTypes ==
    ASSUME TypesInv, FileTypes, NEW r, Request(r), r.n = requests
    PROVE  TypesInv'
  <1>1. /\ UNCHANGED <<cells, type, typePuts, file, fileType, nextId, mistyped, replies>>
        /\ sent' = sent \cup {r} /\ requests' = requests + 1 /\ requests < MaxRequests
    BY DEF Request, page, server
  <1>2. r \notin sent
    BY DEF FileTypes
  <1>3. Cardinality(sent') = Cardinality(sent) + 1 /\ Cardinality(sent) \in Nat
    BY <1>1, <1>2, FS_AddElement, FS_CardinalityType DEF FileTypes
  <1>4. IdsSuffice'
    <2>1. nextId + (Cardinality(sent) + 1) <= InitialCells + (requests + 1) + 1
      <3>1. /\ nextId \in Nat /\ requests \in Nat /\ InitialCells \in Nat
            /\ nextId + Cardinality(sent) <= InitialCells + requests + 1
        BY CellsAssumption DEF TypesInv, IdsSuffice, FileTypes
      <3> QED BY <1>3, <3>1
    <2>2. requests + 1 <= MaxRequests
      BY <1>1, CellsAssumption DEF FileTypes
    <2>3. nextId' + Cardinality(sent') <= InitialCells + requests' + 1
      BY <1>1, <1>3, <2>1
    <2> QED BY <1>1, <2>2, <2>3 DEF TypesInv, IdsSuffice, Ids
  <1>5. AnswersAreTyped' /\ ChangesAreShown' /\ SettledAgrees'
    BY <1>1 DEF TypesInv, AnswersAreTyped, ChangesAreShown, SettledAgrees
  <1> QED BY <1>1, <1>4, <1>5 DEF TypesInv

LEMMA ChangeKeepsTypes ==
    ASSUME TypesInv, SelectionInv, FileTypes, NEW c \in cells, NEW t \in CellTypes,
           ChangeCellType(c, t)
    PROVE  TypesInv'
  <1>1. /\ UNCHANGED <<cells, sent, replies, file, fileType, nextId, requests>>
        /\ type' = [type EXCEPT ![c] = t]
        /\ typePuts' = typePuts \cup {[n |-> typeChanges, cell |-> c, type |-> t]}
        /\ mistyped' = IF \E p \in typePuts : p.cell = c THEN mistyped \cup {c} ELSE mistyped
    BY DEF ChangeCellType, server
  <1>2. c \in Ids /\ c < nextId /\ c \in Nat /\ DOMAIN type = Ids
    BY DEF TypesInv, IdsSuffice, SelectionInv, PageTypes, SeenIsGivenOut
  <1>3. DOMAIN type' = Ids /\ type'[c] = t /\ \A d \in Ids \ {c} : type'[d] = type[d]
    BY <1>1, <1>2
  <1>4. \A i \in 1..Len(replies) : replies[i].new # c
    BY <1>2, CellsAssumption DEF SelectionInv, AnsweredIsNew, Unseen
  <1>5. PICK q : q = [n |-> typeChanges, cell |-> c, type |-> t]
    OBVIOUS
  <1>6. q.cell = c /\ q.type = t /\ typePuts' = typePuts \cup {q}
    BY <1>1, <1>5
  <1>7. IdsSuffice' /\ AnswersAreTyped'
    BY <1>1 DEF TypesInv, IdsSuffice, AnswersAreTyped, Ids
  <1>8. \A d \in cells : d \in Ids
    BY DEF TypesInv, IdsSuffice
  <1>9. mistyped \subseteq mistyped' /\ \A p \in typePuts : p.cell = c => c \in mistyped'
    BY <1>1
  <1>10. ChangesAreShown'
    <2>1. ASSUME NEW p \in typePuts'
          PROVE  /\ p.cell \in Ids /\ p.cell < nextId'
                 /\ \A i \in 1..Len(replies') : replies'[i].new # p.cell
                 /\ p.cell \in cells' \ mistyped' => type'[p.cell] = p.type
      <3>1. CASE p = q
        BY <1>1, <1>2, <1>3, <1>4, <1>6, <3>1
      <3>2. CASE p \in typePuts
        <4>1. /\ p.cell \in Ids /\ p.cell < nextId
              /\ \A i \in 1..Len(replies) : replies[i].new # p.cell
              /\ p.cell \in cells \ mistyped => type[p.cell] = p.type
          BY <3>2 DEF TypesInv, ChangesAreShown
        <4>2. p.cell = c => p.cell \in mistyped'
          BY <1>9, <3>2
        <4> QED BY <1>1, <1>3, <1>9, <4>1, <4>2
      <3> QED BY <1>6, <2>1, <3>1, <3>2
    <2>2. ASSUME NEW p \in typePuts', NEW o \in typePuts', p.cell = o.cell,
                 p.cell \notin mistyped'
          PROVE  p = o
      <3>1. CASE p \in typePuts /\ o \in typePuts
        BY <1>9, <2>2, <3>1 DEF TypesInv, ChangesAreShown
      <3>2. CASE p = q \/ o = q
        <4>1. p.cell = c /\ o.cell = c /\ c \notin mistyped'
          BY <1>6, <2>2, <3>2
        <4>2. p \notin typePuts /\ o \notin typePuts
          BY <1>9, <4>1
        <4> QED BY <1>6, <2>2, <4>2
      <3> QED BY <1>6, <2>2, <3>1, <3>2
    <2> QED BY <2>1, <2>2 DEF ChangesAreShown
  <1>11. SettledAgrees'
    <2> SUFFICES ASSUME NEW d \in cells' \ mistyped', d \in ToSet(file)',
                        \A p \in typePuts' : p.cell # d
                 PROVE  type'[d] = fileType'[d]
      BY DEF SettledAgrees
    <2>1. d # c /\ d \in cells \ mistyped /\ d \in Ids /\ \A p \in typePuts : p.cell # d
      BY <1>1, <1>6, <1>8, <1>9
    <2>2. type[d] = fileType[d]
      BY <1>1, <2>1 DEF TypesInv, SettledAgrees
    <2> QED BY <1>1, <1>3, <2>1, <2>2
  <1>12. DOMAIN type' = Ids /\ DOMAIN fileType' = Ids
    BY <1>1, <1>3 DEF TypesInv
  <1> QED BY <1>7, <1>10, <1>11, <1>12 DEF TypesInv, Ids

LEMMA AddedElements ==
    ASSUME SelectionInv, FileTypes, NEW r \in sent, AddCell(r)
    PROVE  ToSet(file') \subseteq ToSet(file) \cup {nextId}
  <1>1. nextId \in Nat /\ file \in Seq(Nat) /\ Len(file) \in Nat
    BY DEF SelectionInv, PageTypes, FileTypes
  <1>2. CASE r.position \in 0..Len(file) /\ file' = InsertAt(file, r.position + 1, nextId)
    <2>1. PICK p \in 1..(Len(file) + 1) : p = r.position + 1
      BY <1>1, <1>2
    <2>2. /\ InsertAt(file, p, nextId) \in Seq(Nat)
          /\ ToSet(InsertAt(file, p, nextId)) \subseteq ToSet(file) \cup {nextId}
      BY <1>1, <2>1, InsertAtElements
    <2> QED BY <1>2, <2>1, <2>2
  <1>3. CASE file' = Append(file, nextId)
    BY <1>1, <1>3, AppendElements
  <1> QED BY <1>2, <1>3 DEF AddCell

LEMMA RemovedElements ==
    ASSUME FileTypes, NEW c, file' = RemoveFirst(file, c)
    PROVE  ToSet(file') \subseteq ToSet(file)
  <1>1. file \in Seq(Nat) /\ Len(file) \in Nat /\ DOMAIN file = 1..Len(file)
    BY DEF FileTypes
  <1>2. ASSUME NEW k \in 1..Len(file), file' = RemoveAt(file, k)
        PROVE  ToSet(file') \subseteq ToSet(file)
    <2>1. /\ file' \in Seq(Nat) /\ Len(file') = Len(file) - 1
          /\ \A j \in 1..(Len(file) - 1) :
               file'[j] = IF j < k THEN file[j] ELSE file[j + 1]
      BY <1>1, <1>2, RemoveAtElements
    <2>2. ASSUME NEW j \in 1..Len(file') PROVE file'[j] \in ToSet(file)
      <3>1. j \in 1..(Len(file) - 1) /\ j \in 1..Len(file) /\ j + 1 \in 1..Len(file)
        BY <1>1, <2>1
      <3>2. file'[j] = file[j] \/ file'[j] = file[j + 1]
        BY <2>1, <3>1
      <3>3. \A x \in 1..Len(file) : file[x] \in ToSet(file)
        BY <1>1 DEF ToSet
      <3> QED BY <3>1, <3>2, <3>3
    <2>3. DOMAIN file' = 1..Len(file')
      BY <2>1
    <2> QED BY <2>2, <2>3, Zenon DEF ToSet
  <1> QED BY <1>2, RemovedOne

LEMMA AdditionKeepsTypes ==
    ASSUME TypesInv, SelectionInv, FileTypes, NEW r \in sent, ServerActs(r), AddCell(r)
    PROVE  TypesInv'
  <1>1. /\ UNCHANGED <<cells, type, typePuts, mistyped, requests>>
        /\ nextId' = nextId + 1 /\ nextId \in Nat /\ 1 <= nextId
        /\ fileType' = [fileType EXCEPT ![nextId] = r.type]
    BY DEF ServerActs, AddCell, page, counters, TypesInv, IdsSuffice
  <1>2. PICK new : (new = None \/ new = nextId) /\ Reply(r, TRUE, new)
    BY DEF AddCell
  <1> DEFINE m == Len(replies)
  <1>3. /\ sent' = sent \ {r} /\ m \in Nat /\ Len(replies') = m + 1
        /\ \A i \in 1..m : replies'[i] = replies[i]
        /\ replies'[m + 1].type = r.type /\ replies'[m + 1].new = new
    BY <1>2, ReplyAppended
  <1> HIDE DEF m
  <1>4. Cardinality(sent) = Cardinality(sent') + 1 /\ Cardinality(sent') \in Nat
    BY <1>3, OneLess DEF FileTypes
  <1>5. nextId + (Cardinality(sent') + 1) <= InitialCells + requests + 1
        /\ requests <= MaxRequests
    BY <1>4 DEF TypesInv, IdsSuffice
  <1>6. nextId \in Ids
    <2>1. nextId <= InitialCells + MaxRequests
      BY <1>1, <1>4, <1>5, CellsAssumption DEF FileTypes
    <2> QED BY <1>1, <2>1, CellsAssumption DEF Ids
  <1>7. DOMAIN fileType' = Ids /\ fileType'[nextId] = r.type
        /\ \A d \in Ids \ {nextId} : fileType'[d] = fileType[d]
    BY <1>1, <1>6 DEF TypesInv
  <1>8. nextId \notin cells /\ cells \subseteq Ids
    BY <1>1 DEF SelectionInv, SeenIsGivenOut, TypesInv, IdsSuffice
  <1>9. ASSUME NEW i \in 1..m, replies[i].new # None
        PROVE  replies[i].new \in Ids \ {nextId} /\ fileType[replies[i].new] = replies[i].type
    <2>1. replies[i].new \in Ids /\ fileType[replies[i].new] = replies[i].type
      BY <1>9 DEF TypesInv, IdsSuffice, AnswersAreTyped, m
    <2>2. replies[i].new < nextId
      BY <1>9 DEF SelectionInv, AnsweredIsNew, Unseen, m
    <2> QED BY <1>1, <2>1, <2>2
  <1>10. \A i \in 1..Len(replies') : i \in 1..m \/ i = m + 1
    BY <1>3
  <1>11. IdsSuffice'
    <2>1. nextId' \in Nat /\ 1 <= nextId'
      BY <1>1
    <2>2. nextId' + Cardinality(sent') <= InitialCells + requests' + 1
      BY <1>1, <1>4, <1>5
    <2>3. \A i \in 1..Len(replies') : replies'[i].new # None => replies'[i].new \in Ids
      BY <1>2, <1>3, <1>6, <1>9, <1>10
    <2> QED BY <1>1, <1>5, <1>8, <2>1, <2>2, <2>3 DEF IdsSuffice, Ids
  <1>12. AnswersAreTyped'
    <2> SUFFICES ASSUME NEW i \in 1..Len(replies'), replies'[i].new # None
                 PROVE  fileType'[replies'[i].new] = replies'[i].type
      BY DEF AnswersAreTyped
    <2>1. CASE i \in 1..m
      BY <1>3, <1>7, <1>9, <2>1
    <2>2. CASE i = m + 1
      BY <1>2, <1>3, <1>7, <2>2
    <2> QED BY <1>10, <2>1, <2>2
  <1>13. ChangesAreShown'
    <2>1. ASSUME NEW p \in typePuts
          PROVE  /\ p.cell \in Ids /\ p.cell < nextId'
                 /\ \A i \in 1..Len(replies') : replies'[i].new # p.cell
                 /\ p.cell \in cells \ mistyped => type[p.cell] = p.type
      <3>1. /\ p.cell \in Ids /\ p.cell < nextId
            /\ \A i \in 1..m : replies[i].new # p.cell
            /\ p.cell \in cells \ mistyped => type[p.cell] = p.type
        BY DEF TypesInv, ChangesAreShown, m
      <3>2. p.cell \in Nat /\ p.cell < nextId' /\ p.cell # nextId /\ p.cell # None
        BY <1>1, <3>1, CellsAssumption DEF Ids
      <3> QED BY <1>2, <1>3, <1>10, <3>1, <3>2
    <2>2. \A p, q \in typePuts : p.cell = q.cell /\ p.cell \notin mistyped => p = q
      BY DEF TypesInv, ChangesAreShown
    <2> QED BY <1>1, <2>1, <2>2 DEF ChangesAreShown, Ids
  <1>14. SettledAgrees'
    <2> SUFFICES ASSUME NEW d \in cells \ mistyped, d \in ToSet(file'),
                        \A p \in typePuts : p.cell # d
                 PROVE  type[d] = fileType'[d]
      BY <1>1 DEF SettledAgrees
    <2>1. d # nextId /\ d \in Ids
      BY <1>8
    <2>2. d \in ToSet(file)
      BY <2>1, AddedElements
    <2>3. type[d] = fileType[d]
      BY <2>2 DEF TypesInv, SettledAgrees
    <2> QED BY <1>7, <2>1, <2>3
  <1>15. DOMAIN type' = Ids
    BY <1>1 DEF TypesInv
  <1> QED BY <1>7, <1>11, <1>12, <1>13, <1>14, <1>15 DEF TypesInv, Ids

LEMMA RemovalKeepsTypes ==
    ASSUME TypesInv, SelectionInv, FileTypes, NEW r \in sent, ServerActs(r), RemoveCell(r)
    PROVE  TypesInv'
  <1>1. /\ UNCHANGED <<cells, type, typePuts, mistyped, requests, fileType, nextId>>
        /\ file' = RemoveFirst(file, r.cell)
    BY DEF ServerActs, RemoveCell, page, counters
  <1>2. PICK ok : Reply(r, ok, None)
    BY DEF RemoveCell
  <1> DEFINE m == Len(replies)
  <1>3. /\ sent' = sent \ {r} /\ m \in Nat /\ Len(replies') = m + 1
        /\ \A i \in 1..m : replies'[i] = replies[i]
        /\ replies'[m + 1].new = None
    BY <1>2, ReplyAppended
  <1> HIDE DEF m
  <1>4. \A i \in 1..Len(replies') : i \in 1..m \/ i = m + 1
    BY <1>3
  <1>5. Cardinality(sent) = Cardinality(sent') + 1 /\ Cardinality(sent') \in Nat
    BY <1>3, OneLess DEF FileTypes
  <1>6. IdsSuffice'
    <2>1. nextId + (Cardinality(sent') + 1) <= InitialCells + requests + 1
      BY <1>5 DEF TypesInv, IdsSuffice
    <2>2. nextId \in Nat
      BY DEF TypesInv, IdsSuffice
    <2>3. nextId + Cardinality(sent') <= InitialCells + requests + 1
      BY <1>5, <2>1, <2>2, CellsAssumption DEF FileTypes
    <2>4. \A i \in 1..Len(replies') : replies'[i].new # None => replies'[i].new \in Ids
      BY <1>3, <1>4 DEF TypesInv, IdsSuffice, m
    <2> QED BY <1>1, <2>3, <2>4 DEF TypesInv, IdsSuffice, Ids
  <1>7. AnswersAreTyped'
    <2>1. \A i \in 1..Len(replies') :
            replies'[i].new # None => fileType[replies'[i].new] = replies'[i].type
      BY <1>3, <1>4 DEF TypesInv, AnswersAreTyped, m
    <2> QED BY <1>1, <2>1 DEF AnswersAreTyped
  <1>8. ChangesAreShown'
    <2>1. ASSUME NEW p \in typePuts, NEW i \in 1..Len(replies') PROVE replies'[i].new # p.cell
      <3>1. p.cell # None /\ \A j \in 1..m : replies[j].new # p.cell
        BY CellsAssumption DEF TypesInv, ChangesAreShown, Ids, m
      <3> QED BY <1>3, <1>4, <3>1
    <2> QED BY <1>1, <2>1 DEF TypesInv, ChangesAreShown, Ids
  <1>9. SettledAgrees'
    <2>1. ToSet(file') \subseteq ToSet(file)
      BY <1>1, RemovedElements
    <2> QED BY <1>1, <2>1 DEF TypesInv, SettledAgrees
  <1> QED BY <1>1, <1>6, <1>7, <1>8, <1>9 DEF TypesInv, Ids

LEMMA SettingKeepsTypes ==
    ASSUME TypesInv, FileTypes, NEW p \in typePuts, ServerSetsType(p)
    PROVE  TypesInv'
  <1>1. /\ UNCHANGED <<cells, type, sent, replies, file, nextId, mistyped, requests>>
        /\ typePuts' = typePuts \ {p}
        /\ fileType' = IF Contains(file, p.cell) THEN [fileType EXCEPT ![p.cell] = p.type]
                       ELSE fileType
    BY DEF ServerSetsType, page, history, counters
  <1>2. /\ p.cell \in Ids /\ DOMAIN fileType = Ids
        /\ \A i \in 1..Len(replies) : replies[i].new # p.cell
        /\ p.cell \in cells \ mistyped => type[p.cell] = p.type
        /\ \A q \in typePuts : q.cell = p.cell /\ p.cell \notin mistyped => q = p
    BY DEF TypesInv, ChangesAreShown
  <1>3. DOMAIN fileType' = Ids /\ \A d \in Ids \ {p.cell} : fileType'[d] = fileType[d]
    BY <1>1, <1>2
  <1>4. p.cell \in ToSet(file) => fileType'[p.cell] = p.type
    <2>1. DOMAIN file = 1..Len(file)
      BY DEF FileTypes
    <2>2. p.cell \in ToSet(file) => Contains(file, p.cell)
      BY <2>1 DEF ToSet, Contains
    <2> QED BY <1>1, <1>2, <2>2
  <1>5. IdsSuffice'
    BY <1>1 DEF TypesInv, IdsSuffice, Ids
  <1>6. AnswersAreTyped'
    <2> SUFFICES ASSUME NEW i \in 1..Len(replies), replies[i].new # None
                 PROVE  fileType'[replies[i].new] = replies[i].type
      BY <1>1 DEF AnswersAreTyped
    <2>1. replies[i].new \in Ids \ {p.cell}
      BY <1>2 DEF TypesInv, IdsSuffice
    <2>2. fileType[replies[i].new] = replies[i].type
      BY DEF TypesInv, AnswersAreTyped
    <2> QED BY <1>3, <2>1, <2>2
  <1>7. ChangesAreShown'
    BY <1>1 DEF TypesInv, ChangesAreShown, Ids
  <1>8. SettledAgrees'
    <2> SUFFICES ASSUME NEW d \in cells \ mistyped, d \in ToSet(file),
                        \A q \in typePuts' : q.cell # d
                 PROVE  type[d] = fileType'[d]
      BY <1>1 DEF SettledAgrees
    <2>1. CASE d = p.cell
      BY <1>2, <1>4, <2>1
    <2>2. CASE d # p.cell
      <3>1. \A q \in typePuts : q.cell # d
        BY <1>1, <2>2
      <3>2. type[d] = fileType[d] /\ d \in Ids
        BY <3>1 DEF TypesInv, SettledAgrees, IdsSuffice
      <3> QED BY <1>3, <2>2, <3>2
    <2> QED BY <2>1, <2>2
  <1>9. DOMAIN type' = Ids
    BY <1>1 DEF TypesInv
  <1> QED BY <1>3, <1>5, <1>6, <1>7, <1>8, <1>9 DEF TypesInv, Ids

\* The answers that are left were there.
LEMMA LeftWereThere ==
    ASSUME SelectionInv, NEW i \in DOMAIN replies, replies' = RemoveAt(replies, i)
    PROVE  \A k \in 1..Len(replies') : \E j \in 1..Len(replies) : j # i /\ replies'[k] = replies[j]
  <1>1. replies \in Seq(ToSet(replies)) /\ Len(replies) \in Nat /\ i \in 1..Len(replies)
    BY DEF SelectionInv, PageTypes
  <1>2. /\ Len(replies') = Len(replies) - 1
        /\ \A j \in 1..(Len(replies) - 1) :
             replies'[j] = IF j < i THEN replies[j] ELSE replies[j + 1]
    BY <1>1, RemoveAtElements
  <1> SUFFICES ASSUME NEW k \in 1..(Len(replies) - 1)
               PROVE  \E j \in 1..Len(replies) : j # i /\ replies'[k] = replies[j]
    BY <1>2
  <1>3. CASE k < i
    <2>1. k \in 1..Len(replies) /\ k # i
      BY <1>1, <1>3
    <2> QED BY <1>2, <1>3, <2>1
  <1>4. CASE ~(k < i)
    <2>1. k + 1 \in 1..Len(replies) /\ k + 1 # i
      BY <1>1, <1>4
    <2>2. replies'[k] = replies[k + 1]
      BY <1>2, <1>4
    <2> QED BY <2>1, <2>2
  <1> QED BY <1>3, <1>4

LEMMA LossKeepsTypes ==
    ASSUME TypesInv, SelectionInv, FileTypes, Lost
    PROVE  TypesInv'
  <1>1. UNCHANGED <<cells, type, file, fileType, nextId, requests>>
    BY DEF Lost, page, server
  <1>2. ASSUME NEW r \in sent, sent' = sent \ {r}, UNCHANGED <<replies, typePuts, mistyped>>
        PROVE  TypesInv'
    BY <1>1, <1>2, FewerKeepTypes
  <1>3. ASSUME NEW i \in DOMAIN replies, replies' = RemoveAt(replies, i),
               UNCHANGED <<sent, typePuts, mistyped>>
        PROVE  TypesInv'
    <2>1. \A k \in 1..Len(replies') : \E j \in 1..Len(replies) : replies'[k] = replies[j]
      BY <1>3, LeftWereThere
    <2> QED BY <1>1, <1>3, <2>1, FewerKeepTypes
  <1>4. ASSUME NEW p \in typePuts, typePuts' = typePuts \ {p},
               mistyped' = mistyped \cup {p.cell}, UNCHANGED <<sent, replies>>
        PROVE  TypesInv'
    <2>1. IdsSuffice' /\ AnswersAreTyped'
      BY <1>1, <1>4 DEF TypesInv, IdsSuffice, AnswersAreTyped, Ids
    <2>2. ChangesAreShown'
      BY <1>1, <1>4 DEF TypesInv, ChangesAreShown, Ids
    <2>3. SettledAgrees'
      BY <1>1, <1>4 DEF TypesInv, SettledAgrees
    <2> QED BY <1>1, <2>1, <2>2, <2>3 DEF TypesInv, Ids
  <1> QED BY <1>2, <1>3, <1>4 DEF Lost

LEMMA AnswerKeepsTypes ==
    ASSUME TypesInv, SelectionInv, FileTypes, NEW i \in DOMAIN replies, Answer(i)
    PROVE  TypesInv'
  <1> DEFINE r == replies[i]
  <1>1. /\ UNCHANGED <<sent, typePuts, file, fileType, nextId, mistyped, requests>>
        /\ replies' = RemoveAt(replies, i)
    BY DEF Answer, server, counters
  <1>2. \A k \in 1..Len(replies') : \E j \in 1..Len(replies) : j # i /\ replies'[k] = replies[j]
    BY <1>1, LeftWereThere
  <1>3. i \in 1..Len(replies)
    BY DEF SelectionInv, PageTypes
  <1>4. \/ UNCHANGED <<cells, type>>
        \/ cells' = cells \ {r.cell} /\ UNCHANGED type
        \/ /\ r.new # None /\ cells' = cells \cup {r.new}
           /\ type' = [type EXCEPT ![r.new] = r.type]
    BY DEF Answer, OnInserted, OnDeleted, AddCellComponent, page
  <1> HIDE DEF r
  <1>5. IdsSuffice /\ AnswersAreTyped /\ ChangesAreShown /\ SettledAgrees
        /\ DOMAIN type = Ids /\ DOMAIN fileType = Ids
    BY DEF TypesInv
  <1>6. CASE cells' \subseteq cells /\ UNCHANGED type
    <2>1. IdsSuffice' /\ AnswersAreTyped'
      BY <1>1, <1>2, <1>5, <1>6 DEF IdsSuffice, AnswersAreTyped, Ids
    <2>2. ChangesAreShown'
      BY <1>1, <1>2, <1>5, <1>6 DEF ChangesAreShown, Ids
    <2>3. SettledAgrees'
      BY <1>1, <1>5, <1>6 DEF SettledAgrees
    <2> QED BY <1>1, <1>5, <1>6, <2>1, <2>2, <2>3 DEF TypesInv, Ids
  <1>7. CASE r.new # None /\ cells' = cells \cup {r.new}
             /\ type' = [type EXCEPT ![r.new] = r.type]
    <2>1. r.new \in Ids /\ fileType[r.new] = r.type
      BY <1>3, <1>5, <1>7 DEF IdsSuffice, AnswersAreTyped, r
    <2>2. \A p \in typePuts : p.cell # r.new
      BY <1>3, <1>5 DEF ChangesAreShown, r
    <2>3. DOMAIN type' = Ids /\ type'[r.new] = r.type
          /\ \A d \in Ids \ {r.new} : type'[d] = type[d]
      BY <1>5, <1>7, <2>1
    <2>4. IdsSuffice' /\ AnswersAreTyped'
      BY <1>1, <1>2, <1>5, <1>7, <2>1 DEF IdsSuffice, AnswersAreTyped, Ids
    <2>5. ChangesAreShown'
      <3>1. ASSUME NEW p \in typePuts
            PROVE  /\ p.cell \in Ids /\ p.cell < nextId
                   /\ \A k \in 1..Len(replies') : replies'[k].new # p.cell
                   /\ p.cell \in cells' \ mistyped => type'[p.cell] = p.type
        <4>1. /\ p.cell \in Ids /\ p.cell < nextId
              /\ \A j \in 1..Len(replies) : replies[j].new # p.cell
              /\ p.cell \in cells \ mistyped => type[p.cell] = p.type
          BY <1>5 DEF ChangesAreShown
        <4> QED BY <1>2, <1>7, <2>2, <2>3, <4>1
      <3> QED BY <1>1, <1>5, <3>1 DEF ChangesAreShown, Ids
    <2>6. SettledAgrees'
      <3> SUFFICES ASSUME NEW d \in cells' \ mistyped, d \in ToSet(file),
                          \A p \in typePuts : p.cell # d
                   PROVE  type'[d] = fileType[d]
        BY <1>1 DEF SettledAgrees
      <3>1. CASE d = r.new
        BY <2>1, <2>3, <3>1
      <3>2. CASE d # r.new
        <4>1. d \in cells \ mistyped /\ d \in Ids
          BY <1>5, <1>7, <3>2 DEF IdsSuffice
        <4>2. type[d] = fileType[d]
          BY <1>5, <4>1 DEF SettledAgrees
        <4> QED BY <2>3, <3>2, <4>1, <4>2
      <3> QED BY <3>1, <3>2
    <2> QED BY <1>1, <1>5, <2>3, <2>4, <2>5, <2>6 DEF TypesInv, Ids
  <1> QED BY <1>4, <1>6, <1>7

LEMMA TypesNext ==
    ASSUME SelectionInv, FileTypes, TypesInv, [Next]_vars
    PROVE  TypesInv'
<1>1. ASSUME UNCHANGED <<cells, type, sent, replies, typePuts, file, fileType, nextId,
                         mistyped, requests>>
      PROVE  TypesInv'
  BY <1>1, FewerKeepTypes
<1>2. CASE Move
  BY <1>1, <1>2 DEF Move, page, network, server, history
<1>3. ASSUME NEW op, NEW p, NEW t, Request(Insertion(op, p, t)) PROVE TypesInv'
  <2>1. Insertion(op, p, t).n = requests
    BY DEF Insertion
  <2> QED BY <1>3, <2>1, RequestKeepsTypes
<1>4. CASE InsertCellAbove
  BY <1>3, <1>4 DEF InsertCellAbove
<1>5. CASE ExecuteCellAndAdvance \/ \E t \in CellTypes : InsertCellBelow(t)
  BY <1>3, <1>5 DEF ExecuteCellAndAdvance, InsertCellBelow
<1>6. ASSUME NEW c \in cells, DeleteCell(c) PROVE TypesInv'
  <2>1. PICK r : r = [n |-> requests, op |-> "delete", position |-> IndexOf(c),
                      type |-> type[c], cell |-> c]
    OBVIOUS
  <2>2. r.n = requests /\ Request(r)
    BY <1>6, <2>1 DEF DeleteCell
  <2> QED BY <2>2, RequestKeepsTypes
<1>7. ASSUME NEW c \in cells, NEW t \in CellTypes, ChangeCellType(c, t) PROVE TypesInv'
  BY <1>7, ChangeKeepsTypes
<1>8. CASE UndoDelete
  BY <1>3, <1>8 DEF UndoDelete
<1>9. ASSUME NEW r \in sent, ServerActs(r) PROVE TypesInv'
  BY <1>9, AdditionKeepsTypes, RemovalKeepsTypes DEF ServerActs
<1>10. ASSUME NEW p \in typePuts, ServerSetsType(p) PROVE TypesInv'
  BY <1>10, SettingKeepsTypes
<1>11. CASE Lost
  BY <1>11, LossKeepsTypes
<1>12. ASSUME NEW i \in DOMAIN replies, Answer(i) PROVE TypesInv'
  BY <1>12, AnswerKeepsTypes
<1>13. CASE UNCHANGED vars
  BY <1>1, <1>13 DEF vars, page, network, server, history, counters
<1> QED
  BY <1>2, <1>4, <1>5, <1>6, <1>7, <1>8, <1>9, <1>10, <1>11, <1>12, <1>13 DEF Next

-----------------------------------------------------------------------------

AgreementInv == FileTypes /\ AgreeInv /\ TypesInv

\* The invariant behind PageAgreesWithFile: while nothing was disturbed, the file is what
\* the list becomes by the answers under way, and the entries of the undo buffer fit it.
THEOREM AgreementInvariant == Spec => []AgreementInv
<1>1. Init => AgreementInv
  BY FileInit, TypesInit DEF AgreementInv
<1>2. AgreementInv /\ SelectionInv /\ [Next]_vars => AgreementInv'
  BY FileNext, TypesNext DEF AgreementInv
<1> QED BY <1>1, <1>2, SelectionInvariant, PTL DEF Spec

\* When every request is answered, list, elements and file hold the same cells in the same
\* order and with the same types, for any number of requests, unless a deletion overlapped
\* another request, an undo or an answer overtook another, or a request failed.
THEOREM PageAndFileAgree == Spec => []PageAgreesWithFile
<1>1. AgreementInv /\ SelectionInv => PageAgreesWithFile
  <2> SUFFICES ASSUME AgreementInv, SelectionInv, ~Outstanding, ~disturbed
               PROVE  /\ cellOrder = file /\ dom = file /\ cells = ToSet(file)
                      /\ typePuts = {} => \A c \in cells \ mistyped : type[c] = fileType[c]
    BY DEF PageAgreesWithFile
  <2>1. sent = {} /\ replies = <<>> /\ Len(replies) = 0
    BY DEF Outstanding
  <2>2. OnPage /\ (Growing \/ Deleting)
    BY DEF AgreementInv, AgreeInv
  <2>3. ~Deleting
    BY <2>1 DEF Deleting
  <2>4. file = cellOrder
    BY <2>1, <2>2, <2>3 DEF Growing, Lists
  <2>5. dom = file /\ cells = ToSet(file)
    BY <2>2, <2>4 DEF OnPage
  <2>6. ASSUME typePuts = {}, NEW c \in cells \ mistyped PROVE type[c] = fileType[c]
    BY <2>5, <2>6 DEF AgreementInv, TypesInv, SettledAgrees
  <2> QED BY <2>4, <2>5, <2>6
<1> QED BY <1>1, AgreementInvariant, SelectionInvariant, PTL
===============================================================================
