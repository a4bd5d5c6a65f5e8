----------------------------- MODULE AutoSaveProofs -----------------------------
(***************************************************************************)
(* Proofs about AutoSave, for any set of cells and texts and any number of *)
(* edits, faults and deletions: the types, and that no edit is forgotten.  *)
(***************************************************************************)
EXTENDS AutoSave, TLAPS

-----------------------------------------------------------------------------
(* The inductive invariant. *)

\* The requests of a cell carry one text, as long as none overlapped one of another text.
OneTextUnderWay ==
    \A c \in Cells \ overlapped : \A p, q \in PutsOf(c) : p.text = q.text

\* A timer has captured what its editor contains; none is left once the page is.
TimersAreCurrent ==
    /\ \A c \in Cells : saveTimers[c] # None => saveTimers[c] = source[c]
    /\ unloaded => \A c \in Cells : saveTimers[c] = None

\* A request with an older text than the editor's has a timer behind it, until the page is
\* left.
RequestsAreFollowed ==
    \A c \in cells \ (overlapped \cup skipped) : \A p \in PutsOf(c) :
        p.text = source[c] \/ saveTimers[c] = source[c]

\* What the server has confirmed is what it holds.
ConfirmedIsStored ==
    \A c \in Cells \ overlapped : stored[c] # None =>
        \A p \in PutsOf(c) : p.stage = "done" => stored[c] = p.text

\* A refusal is no longer counted as a failure only after the same text was saved.
RefusedIsMadeGood ==
    \A c \in Cells \ (overlapped \cup failed) : stored[c] # None =>
        \A p \in PutsOf(c) : p.stage = "refused" => stored[c] = p.text /\ lastSaved[c] = p.text

\* _lastSavedSource, which decides what is skipped when the page is left, is what the file
\* holds, or the text of no request under way.
LastSavedIsStored ==
    ~unloaded => \A c \in Cells \ (overlapped \cup failed) : stored[c] # None =>
        /\ PutsOf(c) = {} => lastSaved[c] = stored[c]
        /\ \A p \in PutsOf(c) : lastSaved[c] = p.text => stored[c] = p.text

\* After the page is left, what is not in the file is in a request that outlives the page.
LeftBehind ==
    unloaded => \A c \in Sound :
        \/ stored[c] = source[c]
        \/ \E p \in PutsOf(c) : p.stage = "sent" /\ p.text = source[c] /\ p.keepalive

SaveInv ==
    /\ OneTextUnderWay
    /\ TimersAreCurrent
    /\ RequestsAreFollowed
    /\ ConfirmedIsStored
    /\ RefusedIsMadeGood
    /\ LastSavedIsStored
    /\ LeftBehind
    /\ NothingForgotten

-----------------------------------------------------------------------------
(* Types. *)

LEMMA NewPut ==
    ASSUME NEW n \in Nat, NEW c \in Cells, NEW t \in Texts, NEW k \in BOOLEAN
    PROVE  [n |-> n, cell |-> c, text |-> t, stage |-> "sent", keepalive |-> k] \in Put
  BY DEF Put, Stages

LEMMA NewDelete ==
    ASSUME NEW c \in Cells
    PROVE  [cell |-> c, stage |-> "sent"] \in Delete
  BY DEF Delete, Stages

\* The request that has moved on, and the others.
LEMMA MovedPuts ==
    ASSUME puts \subseteq Put, NEW p \in puts, NEW stage \in Stages
    PROVE  /\ Moved(p, stage) \subseteq Put
           /\ \E m \in Moved(p, stage) :
                /\ m.n = p.n /\ m.cell = p.cell /\ m.text = p.text
                /\ m.stage = stage /\ m.keepalive = p.keepalive
                /\ Moved(p, stage) = (puts \ {p}) \cup {m}
  <1> DEFINE m == [p EXCEPT !.stage = stage]
  <1>1. /\ m \in Put /\ m.n = p.n /\ m.cell = p.cell /\ m.text = p.text
        /\ m.stage = stage /\ m.keepalive = p.keepalive
    BY DEF Put
  <1>2. Moved(p, stage) = (puts \ {p}) \cup {m}
    BY DEF Moved
  <1> QED BY <1>1, <1>2

THEOREM SaveTypeCorrect == Spec => []TypeOK
<1>1. Init => TypeOK
  <2> SUFFICES ASSUME Init PROVE TypeOK
    OBVIOUS
  <2>1. source \in [Cells -> Texts] /\ cells \subseteq Cells
    BY DEF Init
  <2>2. /\ saveTimers \in [Cells -> Texts \cup {None}] /\ lastSaved \in [Cells -> Texts]
        /\ stored \in [Cells -> Texts \cup {None}]
    BY <2>1 DEF Init
  <2>3. puts \subseteq Put /\ deletes \subseteq Delete
    BY DEF Init
  <2>4. /\ overlapped \subseteq Cells /\ skipped \subseteq Cells /\ failed \subseteq Cells
        /\ edits \in Nat /\ faults \in Nat /\ sent \in Nat
    BY DEF Init
  <2>5. status \in Statuses /\ unloaded \in BOOLEAN
    BY DEF Init, Statuses
  <2> QED BY <2>1, <2>2, <2>3, <2>4, <2>5 DEF TypeOK
<1>2. TypeOK /\ [Next]_vars => TypeOK'
  <2> SUFFICES ASSUME TypeOK, [Next]_vars PROVE TypeOK'
    OBVIOUS
  <2> USE DEF TypeOK, overlaps
  <2>1. ASSUME NEW c \in Cells, SaveCell(c) PROVE TypeOK'
    <3>1. saveTimers[c] \in Texts /\ sent \in Nat /\ FALSE \in BOOLEAN
      BY <2>1 DEF SaveCell
    <3>2. puts' = puts \cup {[n |-> sent, cell |-> c, text |-> saveTimers[c],
                              stage |-> "sent", keepalive |-> FALSE]}
      BY <2>1 DEF SaveCell
    <3>3. puts' \subseteq Put
      BY <3>1, <3>2, NewPut
    <3>4. saveTimers' \in [Cells -> Texts \cup {None}]
      BY <2>1 DEF SaveCell
    <3>5. sent' \in Nat /\ overlapped' \subseteq Cells
      BY <2>1 DEF SaveCell
    <3>6. UNCHANGED <<cells, source, lastSaved, status, unloaded, deletes, stored, skipped,
                      failed, edits, faults>>
      BY <2>1 DEF SaveCell, editor, saves, counters
    <3> QED BY <3>3, <3>4, <3>5, <3>6
  <2>2. ASSUME NEW c \in Cells, DeleteCell(c) PROVE TypeOK'
    <3>1. deletes' = deletes \cup {[cell |-> c, stage |-> "sent"]}
      BY <2>2 DEF DeleteCell
    <3>2. deletes' \subseteq Delete
      BY <3>1, NewDelete
    <3> QED BY <3>2, <2>2 DEF DeleteCell, editor, saves, counters
  <2>3. ASSUME NEW c \in Cells, NEW t \in Texts, OnCellChanged(c, t)
        PROVE  TypeOK'
    <3>1. source' \in [Cells -> Texts]
      BY <2>3 DEF OnCellChanged
    <3>2. saveTimers' \in [Cells -> Texts \cup {None}]
      BY <2>3 DEF OnCellChanged, SetTimer
    <3>3. status' \in Statuses
      BY <2>3 DEF OnCellChanged, Statuses
    <3>5. edits' \in Nat
      BY <2>3 DEF OnCellChanged
    <3>4. UNCHANGED <<cells, lastSaved, unloaded, puts, deletes, stored, overlaps, failed,
                      faults, sent>>
      BY <2>3 DEF OnCellChanged, editor, saves, counters
    <3> QED BY <3>1, <3>2, <3>3, <3>4, <3>5
  <2>4. ASSUME NEW p \in puts, SaveAnswered(p) PROVE TypeOK'
    BY <2>4 DEF SaveAnswered, Put, editor, counters, Statuses
  <2>5. ASSUME NEW p \in puts, NEW stage \in Stages, puts' = Moved(p, stage)
        PROVE  puts' \subseteq Put
    BY <2>5, MovedPuts
  <2>6. ASSUME NEW p \in puts, ServerSaves(p) PROVE TypeOK'
    <3>1. \E stage \in Stages : puts' = Moved(p, stage)
      BY <2>6 DEF ServerSaves, Stages
    <3>2. stored' \in [Cells -> Texts \cup {None}]
      BY <2>6 DEF ServerSaves, Put
    <3> QED BY <3>1, <3>2, <2>5, <2>6 DEF ServerSaves, editor, saves, counters
  <2>7. ASSUME NEW p \in puts, PutLost(p) PROVE TypeOK'
    <3>1. puts' = Moved(p, "refused") /\ "refused" \in Stages
      BY <2>7 DEF PutLost, Stages
    <3>2. p.cell \in Cells
      BY DEF Put
    <3>3. failed' \subseteq Cells
      BY <3>2, <2>7 DEF PutLost
    <3>4. faults' \in Nat
      BY <2>7 DEF PutLost
    <3> QED BY <3>1, <3>3, <3>4, <2>5, <2>7 DEF PutLost, editor, saves
  <2>8. ASSUME NEW p \in puts, PutAborted(p) PROVE TypeOK'
    BY <2>8 DEF PutAborted, editor, saves, counters
  <2>9. ASSUME NEW d \in deletes, DeleteAnswered(d) PROVE TypeOK'
    BY <2>9 DEF DeleteAnswered, saves, counters
  <2>10. ASSUME NEW d \in deletes, ServerDeletes(d) PROVE TypeOK'
    <3>1. deletes' \subseteq Delete
      BY <2>10 DEF ServerDeletes, Delete, Stages
    <3>2. stored' \in [Cells -> Texts \cup {None}]
      BY <2>10 DEF ServerDeletes
    <3> QED BY <3>1, <3>2, <2>10 DEF ServerDeletes, editor, saves, counters
  <2>11. ASSUME NEW d \in deletes, DeleteLost(d) PROVE TypeOK'
    <3>1. deletes' \subseteq Delete
      BY <2>11 DEF DeleteLost, Delete, Stages
    <3>2. faults' \in Nat
      BY <2>11 DEF DeleteLost
    <3>3. UNCHANGED <<cells, source, saveTimers, lastSaved, status, unloaded, puts, stored,
                      overlaps, failed, edits, sent>>
      BY <2>11 DEF DeleteLost, editor, saves, counters
    <3> QED BY <3>1, <3>2, <3>3
  <2>12. ASSUME StatusFades PROVE TypeOK'
    BY <2>12 DEF StatusFades, editor, counters, Statuses
  <2>13. ASSUME SaveAllCells PROVE TypeOK'
    <3>1. puts' = puts \cup {[n |-> sent, cell |-> c, text |-> source[c],
                              stage |-> "sent", keepalive |-> TRUE] : c \in Unsaved}
      BY <2>13 DEF SaveAllCells, Flush
    <3>2. Unsaved \subseteq Cells /\ sent \in Nat /\ TRUE \in BOOLEAN
      BY DEF Unsaved
    <3>3. puts' \subseteq Put
      <4>1. ASSUME NEW c \in Unsaved
            PROVE  [n |-> sent, cell |-> c, text |-> source[c], stage |-> "sent",
                    keepalive |-> TRUE] \in Put
        <5>1. c \in Cells /\ source[c] \in Texts
          BY <3>2
        <5> QED BY <3>2, <5>1, NewPut
      <4> QED BY <3>1, <4>1
    <3>4. saveTimers' \in [Cells -> Texts \cup {None}]
      BY <2>13 DEF SaveAllCells
    <3>5. /\ sent' \in Nat /\ unloaded' \in BOOLEAN
          /\ overlapped' \subseteq Cells /\ skipped' \subseteq Cells
      BY <2>13 DEF SaveAllCells
    <3>6. UNCHANGED <<cells, source, lastSaved, status, deletes, stored, failed, edits, faults>>
      BY <2>13 DEF SaveAllCells, editor, saves, counters
    <3> QED BY <3>3, <3>4, <3>5, <3>6
  <2>14. CASE UNCHANGED vars
    BY <2>14 DEF vars, editor, saves, counters
  <2> QED BY <2>1, <2>2, <2>3, <2>4, <2>6, <2>7, <2>8, <2>9, <2>10, <2>11, <2>12, <2>13,
             <2>14 DEF Next
<1> QED BY <1>1, <1>2, PTL DEF Spec

-----------------------------------------------------------------------------
(* No edit is forgotten. *)

\* What the steps need to know of the types.
Shapes ==
    /\ None \notin Texts /\ cells \subseteq Cells
    /\ source \in [Cells -> Texts] /\ lastSaved \in [Cells -> Texts]
    /\ saveTimers \in [Cells -> Texts \cup {None}]
    /\ stored \in [Cells -> Texts \cup {None}]
    /\ \A p \in puts : p.cell \in Cells /\ p.text \in Texts

THEOREM SaveInvariant == Spec => []SaveInv
<1>1. Init => SaveInv
  BY SaveAssumption DEF Init, SaveInv, OneTextUnderWay, TimersAreCurrent, RequestsAreFollowed,
     ConfirmedIsStored, RefusedIsMadeGood, LastSavedIsStored, LeftBehind, NothingForgotten,
     PutsOf, Sound, SaveOnItsWay
<1>2. TypeOK => Shapes
  BY SaveAssumption DEF TypeOK, Shapes, Put
<1>3. TypeOK /\ SaveInv /\ [Next]_vars => SaveInv'
  <2> SUFFICES ASSUME TypeOK, SaveInv, [Next]_vars PROVE SaveInv'
    OBVIOUS
  <2>0. Shapes
    BY <1>2
  <2> USE <2>0 DEF Shapes, SaveInv, OneTextUnderWay, TimersAreCurrent, RequestsAreFollowed,
     ConfirmedIsStored, RefusedIsMadeGood, LastSavedIsStored, LeftBehind, NothingForgotten,
     PutsOf, Sound, SaveOnItsWay, overlaps
  <2>1. ASSUME NEW c \in Cells, SaveCell(c) PROVE SaveInv'
    <3> DEFINE new == [n |-> sent, cell |-> c, text |-> saveTimers[c],
                       stage |-> "sent", keepalive |-> FALSE]
    <3>1. /\ new.cell = c /\ new.text = source[c] /\ new.stage = "sent"
          /\ puts' = puts \cup {new} /\ ~unloaded /\ unloaded' = unloaded
          /\ saveTimers[c] = source[c] /\ saveTimers' = [saveTimers EXCEPT ![c] = None]
          /\ cells' = cells /\ source' = source /\ lastSaved' = lastSaved
          /\ stored' = stored /\ failed' = failed /\ overlapped \subseteq overlapped'
          /\ skipped' = skipped
          /\ c \notin overlapped' => \A p \in PutsOf(c) : p.text = source[c]
      BY <2>1 DEF SaveCell, OtherTextsUnderWay, editor
    <3> HIDE DEF new
    <3>2. OneTextUnderWay'
      BY <3>1
    <3>3. TimersAreCurrent'
      BY <3>1
    <3>4. RequestsAreFollowed'
      BY <3>1
    <3>5. ConfirmedIsStored'
      BY <3>1
    <3>6. RefusedIsMadeGood'
      BY <3>1
    <3>7. LastSavedIsStored'
      BY <3>1
    <3>8. LeftBehind'
      BY <3>1
    <3>9. NothingForgotten'
      BY <3>1
    <3> QED BY <3>2, <3>3, <3>4, <3>5, <3>6, <3>7, <3>8, <3>9
  <2>2. ASSUME NEW c \in Cells, DeleteCell(c) PROVE SaveInv'
    BY <2>2 DEF DeleteCell, editor, saves
  <2>3. ASSUME NEW c \in Cells, NEW t \in Texts, OnCellChanged(c, t) PROVE SaveInv'
    BY <2>3 DEF OnCellChanged, SetTimer
  <2>4. ASSUME NEW p \in puts, SaveAnswered(p) PROVE SaveInv'
    BY <2>4 DEF SaveAnswered, editor
  <2>5. ASSUME NEW p \in puts, ServerSaves(p) PROVE SaveInv'
    <3>1. PICK m \in puts' :
            /\ m.cell = p.cell /\ m.text = p.text /\ m.keepalive = p.keepalive
            /\ m.stage = (IF stored[p.cell] = None THEN "refused" ELSE "done")
            /\ puts' = (puts \ {p}) \cup {m}
      BY <2>5, MovedPuts DEF ServerSaves, Stages, TypeOK
    <3>2. /\ p.stage = "sent"
          /\ stored' = IF stored[p.cell] = None THEN stored
                       ELSE [stored EXCEPT ![p.cell] = p.text]
          /\ cells' = cells /\ source' = source /\ lastSaved' = lastSaved
          /\ saveTimers' = saveTimers /\ failed' = failed /\ overlapped' = overlapped
          /\ skipped' = skipped /\ unloaded' = unloaded
      BY <2>5 DEF ServerSaves, editor, saves
    <3>3. OneTextUnderWay'
      BY <3>1, <3>2
    <3>4. TimersAreCurrent'
      BY <3>1, <3>2
    <3>5. RequestsAreFollowed'
      BY <3>1, <3>2
    <3>6. ConfirmedIsStored'
      BY <3>1, <3>2
    <3>7. RefusedIsMadeGood'
      BY <3>1, <3>2
    <3>8. LastSavedIsStored'
      BY <3>1, <3>2
    <3>9. LeftBehind'
      BY <3>1, <3>2
    <3>10. NothingForgotten'
      BY <3>1, <3>2
    <3> QED BY <3>3, <3>4, <3>5, <3>6, <3>7, <3>8, <3>9, <3>10
  <2>6. ASSUME NEW p \in puts, PutLost(p) PROVE SaveInv'
    <3>1. PICK m \in puts' :
            /\ m.cell = p.cell /\ m.text = p.text /\ m.stage = "refused"
            /\ puts' = (puts \ {p}) \cup {m}
      BY <2>6, MovedPuts DEF PutLost, Stages, TypeOK
    <3>2. /\ failed' = failed \cup {p.cell} /\ stored' = stored
          /\ cells' = cells /\ source' = source /\ lastSaved' = lastSaved
          /\ saveTimers' = saveTimers /\ overlapped' = overlapped
          /\ skipped' = skipped /\ unloaded' = unloaded
      BY <2>6 DEF PutLost, editor, saves
    <3>3. OneTextUnderWay'
      BY <3>1, <3>2
    <3>4. TimersAreCurrent'
      BY <3>1, <3>2
    <3>5. RequestsAreFollowed'
      BY <3>1, <3>2
    <3>6. ConfirmedIsStored'
      BY <3>1, <3>2
    <3>7. RefusedIsMadeGood'
      BY <3>1, <3>2
    <3>8. LastSavedIsStored'
      BY <3>1, <3>2
    <3>9. LeftBehind'
      BY <3>1, <3>2
    <3>10. NothingForgotten'
      BY <3>1, <3>2
    <3> QED BY <3>3, <3>4, <3>5, <3>6, <3>7, <3>8, <3>9, <3>10
  <2>7. ASSUME NEW p \in puts, PutAborted(p) PROVE SaveInv'
    BY <2>7 DEF PutAborted, editor, saves
  <2>8. ASSUME NEW d \in deletes, DeleteAnswered(d) PROVE SaveInv'
    BY <2>8 DEF DeleteAnswered, saves
  <2>9. ASSUME NEW d \in deletes, ServerDeletes(d) PROVE SaveInv'
    BY <2>9 DEF ServerDeletes, editor, saves
  <2>10. ASSUME NEW d \in deletes, DeleteLost(d) PROVE SaveInv'
    BY <2>10 DEF DeleteLost, editor, saves
  <2>11. ASSUME StatusFades PROVE SaveInv'
    <3>1. UNCHANGED <<cells, source, saveTimers, lastSaved, unloaded, puts, stored,
                      overlaps, failed>>
      BY <2>11 DEF StatusFades, editor
    <3>2. OneTextUnderWay'
      BY <3>1
    <3>3. TimersAreCurrent'
      BY <3>1
    <3>4. RequestsAreFollowed'
      BY <3>1
    <3>5. ConfirmedIsStored'
      BY <3>1
    <3>6. RefusedIsMadeGood'
      BY <3>1
    <3>7. LastSavedIsStored'
      BY <3>1
    <3>8. LeftBehind'
      BY <3>1
    <3>9. NothingForgotten'
      BY <3>1
    <3> QED BY <3>2, <3>3, <3>4, <3>5, <3>6, <3>7, <3>8, <3>9
  <2>12. ASSUME SaveAllCells PROVE SaveInv'
    <3> DEFINE new(c) == [n |-> sent, cell |-> c, text |-> source[c],
                          stage |-> "sent", keepalive |-> TRUE]
    <3>1. /\ \A c \in Cells : /\ new(c).cell = c /\ new(c).text = source[c]
                              /\ new(c).stage = "sent" /\ new(c).keepalive
          /\ puts' = puts \cup {new(c) : c \in Unsaved}
      BY <2>12 DEF SaveAllCells, Flush
    <3> HIDE DEF new
    <3>2. /\ ~unloaded /\ unloaded'
          /\ saveTimers' = [c \in Cells |-> None]
          /\ cells' = cells /\ source' = source /\ lastSaved' = lastSaved
          /\ stored' = stored /\ failed' = failed /\ overlapped \subseteq overlapped'
          /\ \A c \in cells \ (overlapped' \cup skipped') : \A p \in PutsOf(c) :
                p.text = source[c]
          /\ \A c \in Unsaved \ overlapped' : \A p \in PutsOf(c) : p.text = source[c]
      BY <2>12 DEF SaveAllCells, OtherTextsUnderWay, Unsaved, editor
    <3>3. OneTextUnderWay'
      BY <3>1, <3>2 DEF Unsaved
    <3>4. TimersAreCurrent'
      BY <3>1, <3>2 DEF Unsaved
    <3>5. RequestsAreFollowed'
      BY <3>1, <3>2 DEF Unsaved
    <3>6. ConfirmedIsStored'
      BY <3>1, <3>2 DEF Unsaved
    <3>7. RefusedIsMadeGood'
      BY <3>1, <3>2 DEF Unsaved
    <3>8. LastSavedIsStored'
      BY <3>1, <3>2 DEF Unsaved
    <3>9. LeftBehind'
      BY <3>1, <3>2 DEF Unsaved
    <3>10. NothingForgotten'
      BY <3>1, <3>2 DEF Unsaved
    <3> QED BY <3>3, <3>4, <3>5, <3>6, <3>7, <3>8, <3>9, <3>10
  <2>13. CASE UNCHANGED vars
    BY <2>13 DEF vars, editor, saves
  <2> QED BY <2>1, <2>2, <2>3, <2>4, <2>5, <2>6, <2>7, <2>8, <2>9, <2>10, <2>11, <2>12, <2>13
          DEF Next
<1> QED BY <1>1, <1>3, SaveTypeCorrect, PTL DEF Spec

\* What an editor contains is in the notebook's file or on its way there, for any number
\* of cells and edits, and whatever order requests and answers arrive in.
THEOREM NoEditForgotten == Spec => []NothingForgotten
  BY SaveInvariant, PTL DEF SaveInv
=============================================================================
