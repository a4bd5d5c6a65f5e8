------------------------- MODULE EnvironmentStoreProofs -------------------------
(***************************************************************************)
(* Proofs about EnvironmentStore, for any number of environments,          *)
(* notebooks, cells and crashes: a notebook that can be read holds the     *)
(* cells that were added to it and not deleted, and the index lists and    *)
(* counts what has a file, but for what a crash hit.                       *)
(***************************************************************************)
EXTENDS EnvironmentStore, FiniteSetTheorems, SequenceTheorems, TLAPS

-----------------------------------------------------------------------------
(* The inductive invariant. *)

NotebookFiles == (SUBSET Cells) \cup {Absent, Torn}

StepNames == {"write env", "list env", "unlink env", "unlist env", "count",
              "write nb", "list nb", "unlink nb", "unlist nb", "delete nb"}

Steps == [do : StepNames, of : Envs \cup Notebooks, cells : SUBSET Cells]

FileTypes ==
    /\ nbFile \in [Notebooks -> NotebookFiles]
    /\ wanted \in [Notebooks -> NotebookFiles]
    /\ nbIndex \in (SUBSET Notebooks) \cup {Torn}
    /\ todo \in Seq(Steps)

\* Steps about a notebook, those of them that change its file, and steps that may end the
\* handler.
OfNotebook(s) == s.do \in {"write nb", "list nb", "unlink nb", "unlist nb", "delete nb"}
Changes(s) == s.do \in {"write nb", "unlink nb"}
MayEnd(s) == s.do \in {"count", "delete nb"}

\* The step makes the file what it should be.
Fulfils(s, goal) ==
    /\ s.do = "write nb" => s.cells = goal[s.of]
    /\ s.do = "unlink nb" => goal[s.of] = Absent

\* What a handler has left makes files what they should be, and nothing of it is lost when
\* the handler ends early.
WellMade(steps, goal) ==
    /\ \A i \in 1..Len(steps) :
         /\ OfNotebook(steps[i]) => steps[i].of \in Notebooks
         /\ Fulfils(steps[i], goal)
    /\ \A i, j \in 1..Len(steps) : i < j /\ MayEnd(steps[i]) => ~Changes(steps[j])

\* A file is what it should be, or cannot be read, or a step is left that will change it.
FilesFollow ==
    \A n \in Notebooks :
        \/ nbFile[n] \in {Torn, wanted[n]}
        \/ \E i \in 1..Len(todo) : Changes(todo[i]) /\ todo[i].of = n

CellsInv == FileTypes /\ WellMade(todo, wanted) /\ FilesFollow

LEMMA CellsInit == Init => CellsInv
  <1> SUFFICES ASSUME Init PROVE CellsInv
    OBVIOUS
  <1>1. FileTypes
    <2>1. nbFile = [n \in Notebooks |-> Absent] /\ wanted = nbFile /\ nbIndex = {} /\ todo = <<>>
      BY DEF Init
    <2>2. nbFile \in [Notebooks -> NotebookFiles]
      BY <2>1 DEF NotebookFiles
    <2>3. todo \in Seq(Steps)
      BY <2>1
    <2> QED BY <2>1, <2>2, <2>3 DEF FileTypes
  <1>2. WellMade(todo, wanted) /\ FilesFollow
    BY DEF Init, WellMade, FilesFollow
  <1> QED BY <1>1, <1>2 DEF CellsInv

-----------------------------------------------------------------------------
(* A handler takes its steps. *)

\* A step is taken and what is left is done later.
LEMMA PopKeeps ==
    ASSUME CellsInv, todo # <<>>, todo' = Tail(todo), wanted' = wanted,
           nbIndex' \in (SUBSET Notebooks) \cup {Torn},
           nbFile' \in [Notebooks -> NotebookFiles],
           \A n \in Notebooks :
              IF Changes(Head(todo)) /\ Head(todo).of = n THEN nbFile'[n] = wanted[n]
              ELSE nbFile'[n] = nbFile[n]
    PROVE  CellsInv'
  <1>1. todo \in Seq(Steps) /\ Len(todo) \in Nat \ {0} /\ Head(todo) = todo[1]
    BY DEF CellsInv, FileTypes
  <1>2. /\ todo' \in Seq(Steps) /\ Len(todo') = Len(todo) - 1
        /\ \A i \in 1..Len(todo') : todo'[i] = todo[i + 1]
    BY <1>1, HeadTailProperties
  <1>3. \A i \in 1..Len(todo') : i + 1 \in 1..Len(todo)
    BY <1>1, <1>2
  <1>4. FileTypes'
    BY <1>2 DEF CellsInv, FileTypes
  <1>5. WellMade(todo, wanted)'
    <2>1. \A i \in 1..Len(todo') :
             /\ OfNotebook(todo'[i]) => todo'[i].of \in Notebooks
             /\ Fulfils(todo'[i], wanted)
      BY <1>2, <1>3 DEF CellsInv, WellMade
    <2>2. ASSUME NEW i \in 1..Len(todo'), NEW j \in 1..Len(todo'), i < j, MayEnd(todo'[i])
          PROVE  ~Changes(todo'[j])
      <3>1. i + 1 < j + 1 /\ MayEnd(todo[i + 1])
        BY <1>1, <1>2, <2>2
      <3>2. ~Changes(todo[j + 1])
        BY <1>3, <3>1 DEF CellsInv, WellMade
      <3> QED BY <1>2, <3>2
    <2> QED BY <2>1, <2>2 DEF WellMade
  <1>6. FilesFollow'
    <2> SUFFICES ASSUME NEW n \in Notebooks, nbFile'[n] \notin {Torn, wanted[n]}
                 PROVE  \E i \in 1..Len(todo') : Changes(todo'[i]) /\ todo'[i].of = n
      BY DEF FilesFollow
    <2>1. nbFile'[n] = nbFile[n] /\ ~(Changes(todo[1]) /\ todo[1].of = n)
      BY <1>1
    <2>2. PICK i \in 1..Len(todo) : Changes(todo[i]) /\ todo[i].of = n
      BY <2>1 DEF CellsInv, FilesFollow
    <2>3. i # 1
      BY <2>1, <2>2
    <2>4. i - 1 \in 1..Len(todo') /\ (i - 1) + 1 = i
      BY <1>1, <1>2, <2>3
    <2>5. todo'[i - 1] = todo[i]
      BY <1>2, <2>4
    <2> QED BY <2>2, <2>4, <2>5
  <1> QED BY <1>4, <1>5, <1>6 DEF CellsInv

\* The handler ends early, at a step after which nothing would have been changed.
LEMMA EndKeeps ==
    ASSUME CellsInv, todo # <<>>, MayEnd(Head(todo)), todo' = <<>>,
           UNCHANGED <<wanted, nbFile, nbIndex>>
    PROVE  CellsInv'
  <1>1. todo \in Seq(Steps) /\ Len(todo) \in Nat \ {0} /\ Head(todo) = todo[1]
    BY DEF CellsInv, FileTypes
  <1>2. ~Changes(todo[1])
    BY <1>1 DEF Changes, MayEnd
  <1>3. ASSUME NEW j \in 1..Len(todo) PROVE ~Changes(todo[j])
    <2>1. CASE j = 1
      BY <1>2, <2>1
    <2>2. CASE j # 1
      <3>1. 1 \in 1..Len(todo) /\ 1 < j
        BY <1>1, <2>2
      <3> QED BY <1>1, <3>1 DEF CellsInv, WellMade
    <2> QED BY <2>1, <2>2
  <1>4. FilesFollow'
    BY <1>3 DEF CellsInv, FilesFollow
  <1>5. WellMade(todo, wanted)'
    BY DEF WellMade
  <1>6. FileTypes'
    BY DEF CellsInv, FileTypes
  <1> QED BY <1>4, <1>5, <1>6 DEF CellsInv

\* The next step is a proper one.
LEMMA NextIsWellMade ==
    ASSUME CellsInv, todo # <<>>
    PROVE  /\ Head(todo) \in Steps
           /\ OfNotebook(Head(todo)) => Head(todo).of \in Notebooks
           /\ Fulfils(Head(todo), wanted)
  <1>1. todo \in Seq(Steps)
    BY DEF CellsInv, FileTypes
  <1>2. 1 \in 1..Len(todo) /\ Head(todo) = todo[1] /\ todo[1] \in Steps
    BY <1>1
  <1> QED BY <1>2 DEF CellsInv, WellMade

\* Steps of an environment, and of its index entry.
LEMMA OtherStepKeeps ==
    ASSUME CellsInv, todo # <<>>, todo' = Tail(todo), ~Changes(Head(todo)),
           UNCHANGED <<wanted, nbFile>>, nbIndex' \in (SUBSET Notebooks) \cup {Torn}
    PROVE  CellsInv'
  <1>1. nbFile' \in [Notebooks -> NotebookFiles]
    BY DEF CellsInv, FileTypes
  <1> QED BY <1>1, PopKeeps

\* Two lists of steps, one after the other.
LEMMA JoinWellMade ==
    ASSUME NEW p \in Seq(Steps), NEW q \in Seq(Steps), NEW goal,
           WellMade(p, goal), WellMade(q, goal),
           \/ \A i \in 1..Len(p) : ~MayEnd(p[i])
           \/ \A i \in 1..Len(q) : ~Changes(q[i])
    PROVE  p \o q \in Seq(Steps) /\ WellMade(p \o q, goal)
  <1> DEFINE r == p \o q
  <1>1. /\ r \in Seq(Steps) /\ Len(r) = Len(p) + Len(q)
        /\ \A i \in 1..(Len(p) + Len(q)) : r[i] = IF i <= Len(p) THEN p[i] ELSE q[i - Len(p)]
    BY ConcatProperties
  <1>2. Len(p) \in Nat /\ Len(q) \in Nat
    OBVIOUS
  <1> HIDE DEF r
  <1>3. ASSUME NEW i \in 1..Len(r)
        PROVE  \/ i \in 1..Len(p) /\ r[i] = p[i]
               \/ i - Len(p) \in 1..Len(q) /\ r[i] = q[i - Len(p)] /\ ~(i \in 1..Len(p))
    BY <1>1, <1>2
  <1>4. \A i \in 1..Len(r) : /\ OfNotebook(r[i]) => r[i].of \in Notebooks
                             /\ Fulfils(r[i], goal)
    BY <1>3 DEF WellMade
  <1>5. ASSUME NEW i \in 1..Len(r), NEW j \in 1..Len(r), i < j, MayEnd(r[i])
        PROVE  ~Changes(r[j])
    <2>1. CASE i \in 1..Len(p) /\ j \in 1..Len(p)
      <3>1. r[i] = p[i] /\ r[j] = p[j]
        BY <1>3, <2>1
      <3> QED BY <1>5, <2>1, <3>1 DEF WellMade
    <2>2. CASE i \in 1..Len(p) /\ ~(j \in 1..Len(p))
      <3>1. r[i] = p[i] /\ j - Len(p) \in 1..Len(q) /\ r[j] = q[j - Len(p)]
        BY <1>3, <2>2
      <3> QED BY <1>5, <2>2, <3>1
    <2>3. CASE ~(i \in 1..Len(p))
      <3>1. ~(j \in 1..Len(p))
        BY <1>2, <1>5, <2>3
      <3>2. /\ i - Len(p) \in 1..Len(q) /\ r[i] = q[i - Len(p)]
            /\ j - Len(p) \in 1..Len(q) /\ r[j] = q[j - Len(p)]
        BY <1>3, <2>3, <3>1
      <3>3. i - Len(p) < j - Len(p)
        BY <1>1, <1>2, <1>5
      <3> QED BY <1>5, <3>2, <3>3 DEF WellMade
    <2> QED BY <2>1, <2>2, <2>3
  <1>6. WellMade(r, goal)
    BY <1>4, <1>5 DEF WellMade
  <1> QED BY <1>1, <1>6 DEF r

-----------------------------------------------------------------------------
(* The lists of steps that handlers start with. *)

\* Sequences of one, two and three elements.
LEMMA OneStep ==
    ASSUME NEW S, NEW a \in S
    PROVE  <<a>> \in Seq(S) /\ Len(<<a>>) = 1 /\ <<a>>[1] = a
  OBVIOUS

LEMMA TwoSteps ==
    ASSUME NEW S, NEW a \in S, NEW b \in S
    PROVE  <<a, b>> \in Seq(S) /\ Len(<<a, b>>) = 2 /\ <<a, b>>[1] = a /\ <<a, b>>[2] = b
  OBVIOUS

LEMMA ThreeSteps ==
    ASSUME NEW S, NEW a \in S, NEW b \in S, NEW c \in S
    PROVE  /\ <<a, b, c>> \in Seq(S) /\ Len(<<a, b, c>>) = 3
           /\ <<a, b, c>>[1] = a /\ <<a, b, c>>[2] = b /\ <<a, b, c>>[3] = c
  OBVIOUS

LEMMA FunctionIsSeq ==
    ASSUME NEW S, NEW k \in Nat, NEW f \in [1..k -> S]
    PROVE  f \in Seq(S) /\ Len(f) = k
  <1>1. f \in Seq(S)
    BY SeqDef
  <1> QED BY <1>1, LenProperties

\* A list of steps that change no notebook's file.
Harmless(steps) ==
    \A i \in 1..Len(steps) :
        /\ ~Changes(steps[i])
        /\ OfNotebook(steps[i]) => steps[i].of \in Notebooks

LEMMA HarmlessIsWellMade ==
    ASSUME NEW steps, NEW goal, Harmless(steps)
    PROVE  WellMade(steps, goal)
  BY DEF Harmless, WellMade, Fulfils, Changes

LEMMA SaveEnvironmentMade ==
    ASSUME NEW e \in Envs
    PROVE  /\ SaveEnvironment(e) \in Seq(Steps) /\ Harmless(SaveEnvironment(e))
           /\ \A i \in 1..Len(SaveEnvironment(e)) : ~MayEnd(SaveEnvironment(e)[i])
  <1> DEFINE w == Step("write env", e)
             l == Step("list env", e)
             q == SaveEnvironment(e)
  <1>1. w \in Steps /\ l \in Steps /\ w.do = "write env" /\ l.do = "list env"
    BY DEF Step, Steps, StepNames
  <1>2. q = <<w, l>>
    BY DEF SaveEnvironment
  <1> HIDE DEF w, l, q
  <1>3. q \in Seq(Steps) /\ Len(q) = 2 /\ q[1] = w /\ q[2] = l
    BY <1>1, <1>2, TwoSteps
  <1>4. \A i \in 1..Len(q) : q[i] = w \/ q[i] = l
    BY <1>3
  <1>5. Harmless(q) /\ \A i \in 1..Len(q) : ~MayEnd(q[i])
    BY <1>1, <1>4 DEF Harmless, Changes, OfNotebook, MayEnd
  <1> QED BY <1>3, <1>5 DEF q

LEMMA SaveNotebookMade ==
    ASSUME NEW n \in Notebooks, NEW C \in SUBSET Cells, NEW goal, goal[n] = C
    PROVE  /\ SaveNotebook(n, C) \in Seq(Steps) /\ WellMade(SaveNotebook(n, C), goal)
           /\ 1 \in 1..Len(SaveNotebook(n, C))
           /\ Changes(SaveNotebook(n, C)[1]) /\ SaveNotebook(n, C)[1].of = n
           /\ \A i \in 1..Len(SaveNotebook(n, C)) : ~MayEnd(SaveNotebook(n, C)[i])
  <1> DEFINE w == [do |-> "write nb", of |-> n, cells |-> C]
             l == Step("list nb", n)
             q == SaveNotebook(n, C)
  <1>1. w \in Steps /\ l \in Steps /\ l.do = "list nb" /\ l.of = n
    BY DEF Step, Steps, StepNames
  <1>2. w.do = "write nb" /\ w.of = n /\ w.cells = C
    OBVIOUS
  <1>3. q = <<w, l>>
    BY DEF SaveNotebook
  <1> HIDE DEF w, l, q
  <1>4. q \in Seq(Steps) /\ Len(q) = 2 /\ q[1] = w /\ q[2] = l
    BY <1>1, <1>3, TwoSteps
  <1>5. \A i \in 1..Len(q) : q[i] = w \/ q[i] = l
    BY <1>4
  <1>6. /\ Changes(w) /\ ~MayEnd(w) /\ Fulfils(w, goal)
        /\ ~MayEnd(l) /\ Fulfils(l, goal)
    BY <1>1, <1>2 DEF Changes, MayEnd, Fulfils
  <1>7. WellMade(q, goal) /\ \A i \in 1..Len(q) : ~MayEnd(q[i])
    BY <1>1, <1>2, <1>5, <1>6 DEF WellMade
  <1>8. 1 \in 1..Len(q) /\ Changes(q[1]) /\ q[1].of = n
    <2>1. 1 \in 1..Len(q) /\ q[1] = w
      BY <1>4
    <2> QED BY <1>2, <1>6, <2>1, Zenon
  <1> QED BY <1>4, <1>7, <1>8 DEF q

LEMMA CountMade ==
    ASSUME NEW e \in Envs
    PROVE  /\ Step("count", e) \in Steps
           /\ <<Step("count", e)>> \in Seq(Steps) /\ Harmless(<<Step("count", e)>>)
           /\ Len(<<Step("count", e)>>) = 1
  <1> DEFINE c == Step("count", e)
  <1>1. c \in Steps /\ c.do = "count"
    BY DEF Step, Steps, StepNames
  <1> HIDE DEF c
  <1>2. <<c>> \in Seq(Steps) /\ Len(<<c>>) = 1 /\ <<c>>[1] = c
    BY <1>1, OneStep
  <1>3. \A i \in 1..Len(<<c>>) : <<c>>[i] = c
    BY <1>2
  <1>4. Harmless(<<c>>)
    BY <1>1, <1>3 DEF Harmless, Changes, OfNotebook
  <1> QED BY <1>1, <1>2, <1>4 DEF c

LEMMA CreateNotebookMade ==
    ASSUME NEW n \in Notebooks, NEW goal, goal[n] = {}
    PROVE  /\ CreateNotebookSteps(n) \in Seq(Steps) /\ WellMade(CreateNotebookSteps(n), goal)
           /\ \E i \in 1..Len(CreateNotebookSteps(n)) :
                Changes(CreateNotebookSteps(n)[i]) /\ CreateNotebookSteps(n)[i].of = n
  <1> DEFINE p == SaveNotebook(n, {})
             c == Step("count", EnvOf[n])
             q == <<c>>
  <1>1. EnvOf[n] \in Envs /\ {} \in SUBSET Cells
    BY StoreAssumption
  <1>2. /\ p \in Seq(Steps) /\ WellMade(p, goal)
        /\ 1 \in 1..Len(p) /\ Changes(p[1]) /\ p[1].of = n
    BY <1>1, SaveNotebookMade
  <1>3. c \in Steps /\ q \in Seq(Steps) /\ Harmless(q)
    BY <1>1, CountMade
  <1>4. WellMade(q, goal) /\ \A i \in 1..Len(q) : ~Changes(q[i])
    BY <1>3, HarmlessIsWellMade DEF Harmless
  <1>5. CreateNotebookSteps(n) = Append(p, c)
    BY DEF CreateNotebookSteps
  <1> HIDE DEF p, c
  <1>6. Append(p, c) = p \o q
    BY <1>2, <1>3
  <1> HIDE DEF q
  <1>7. p \o q \in Seq(Steps) /\ WellMade(p \o q, goal)
    BY <1>2, <1>3, <1>4, JoinWellMade
  <1>8. Len(p \o q) = Len(p) + Len(q) /\ (p \o q)[1] = p[1] /\ Len(p) \in Nat /\ Len(q) \in Nat
    BY <1>2, <1>3
  <1>9. 1 \in 1..Len(p \o q)
    BY <1>2, <1>8
  <1> QED BY <1>2, <1>5, <1>6, <1>7, <1>8, <1>9

LEMMA DeleteNotebookMade ==
    ASSUME NEW n \in Notebooks, NEW goal, goal[n] = Absent
    PROVE  /\ DeleteNotebookSteps(n) \in Seq(Steps) /\ WellMade(DeleteNotebookSteps(n), goal)
           /\ 1 \in 1..Len(DeleteNotebookSteps(n))
           /\ Changes(DeleteNotebookSteps(n)[1]) /\ DeleteNotebookSteps(n)[1].of = n
  <1> DEFINE u == Step("unlink nb", n)
             l == Step("unlist nb", n)
             c == Step("count", EnvOf[n])
             q == DeleteNotebookSteps(n)
  <1>1. EnvOf[n] \in Envs
    BY StoreAssumption
  <1>2. /\ u \in Steps /\ u.do = "unlink nb" /\ u.of = n
        /\ l \in Steps /\ l.do = "unlist nb" /\ l.of = n
        /\ c \in Steps /\ c.do = "count"
    BY <1>1 DEF Step, Steps, StepNames
  <1>3. q = <<u, l, c>>
    BY DEF DeleteNotebookSteps
  <1> HIDE DEF u, l, c, q
  <1>4. q \in Seq(Steps) /\ Len(q) = 3 /\ q[1] = u /\ q[2] = l /\ q[3] = c
    BY <1>2, <1>3, ThreeSteps
  <1>5. \A i \in 1..Len(q) : \/ i = 1 /\ q[i] = u
                             \/ i = 2 /\ q[i] = l
                             \/ i = 3 /\ q[i] = c
    BY <1>4
  <1>6. /\ Changes(u) /\ ~MayEnd(u) /\ Fulfils(u, goal)
        /\ ~MayEnd(l) /\ Fulfils(l, goal)
        /\ ~Changes(c) /\ ~OfNotebook(c) /\ Fulfils(c, goal)
    BY <1>2 DEF Changes, MayEnd, Fulfils, OfNotebook
  <1>7. \A i \in 1..Len(q) : /\ OfNotebook(q[i]) => q[i].of \in Notebooks
                             /\ Fulfils(q[i], goal)
    BY <1>2, <1>5, <1>6
  <1>8. ASSUME NEW i \in 1..Len(q), NEW j \in 1..Len(q), i < j, MayEnd(q[i])
        PROVE  ~Changes(q[j])
    BY <1>4, <1>5, <1>6, <1>8
  <1>9. WellMade(q, goal)
    BY <1>7, <1>8 DEF WellMade
  <1>10. 1 \in 1..Len(q) /\ Changes(q[1]) /\ q[1].of = n
    <2>1. 1 \in 1..Len(q) /\ q[1] = u
      BY <1>4
    <2> QED BY <1>2, <1>6, <2>1, Zenon
  <1> QED BY <1>4, <1>9, <1>10 DEF q

-----------------------------------------------------------------------------
(* Each action keeps the invariant: the steps. *)

\* What a step that may end the handler finds: files that are what they should be, or
\* cannot be read, and nothing to change later.
LEMMA NothingChangesLater ==
    ASSUME CellsInv, todo # <<>>, MayEnd(Head(todo))
    PROVE  /\ Tail(todo) \in Seq(Steps) /\ Harmless(Tail(todo))
           /\ \A n \in Notebooks : nbFile[n] \in {Torn, wanted[n]}
  <1>1. todo \in Seq(Steps) /\ Len(todo) \in Nat \ {0} /\ Head(todo) = todo[1]
    BY DEF CellsInv, FileTypes
  <1>2. /\ Tail(todo) \in Seq(Steps) /\ Len(Tail(todo)) = Len(todo) - 1
        /\ \A i \in 1..Len(Tail(todo)) : Tail(todo)[i] = todo[i + 1]
    BY <1>1, HeadTailProperties
  <1>3. ASSUME NEW j \in 1..Len(todo) PROVE ~Changes(todo[j])
    <2>1. CASE j = 1
      BY <1>1, <2>1 DEF Changes, MayEnd
    <2>2. CASE j # 1
      <3>1. 1 \in 1..Len(todo) /\ 1 < j
        BY <1>1, <2>2
      <3> QED BY <1>1, <3>1 DEF CellsInv, WellMade
    <2> QED BY <2>1, <2>2
  <1>4. \A i \in 1..Len(Tail(todo)) : i + 1 \in 1..Len(todo)
    BY <1>1, <1>2
  <1>5. Harmless(Tail(todo))
    BY <1>2, <1>3, <1>4 DEF Harmless, CellsInv, WellMade
  <1>6. \A n \in Notebooks : nbFile[n] \in {Torn, wanted[n]}
    BY <1>3 DEF CellsInv, FilesFollow
  <1> QED BY <1>2, <1>5, <1>6

\* Reading the notebook that is to be deleted.
LEMMA DeletionReadKeeps == CellsInv /\ DeletionRead => CellsInv'
  <1> SUFFICES ASSUME CellsInv, DeletionRead PROVE CellsInv'
    OBVIOUS
  <1> DEFINE n == Subject
  <1>1. todo # <<>> /\ Head(todo).do = "delete nb" /\ UNCHANGED <<nbFile, nbIndex>>
    BY DEF DeletionRead, NextStep, files
  <1>2. n \in Notebooks /\ MayEnd(Head(todo))
    BY <1>1, NextIsWellMade DEF OfNotebook, MayEnd, Subject
  <1>3. /\ Tail(todo) \in Seq(Steps) /\ Harmless(Tail(todo))
        /\ \A m \in Notebooks : nbFile[m] \in {Torn, wanted[m]}
    BY <1>1, <1>2, NothingChangesLater
  <1>4. CASE nbFile[n] = Torn
    BY <1>1, <1>2, <1>4, EndKeeps DEF DeletionRead
  <1>5. CASE nbFile[n] # Torn
    <2>1. wanted' = [wanted EXCEPT ![n] = Absent]
      BY <1>5 DEF DeletionRead, Keep
    <2>2. wanted' \in [Notebooks -> NotebookFiles] /\ wanted'[n] = Absent
          /\ \A m \in Notebooks \ {n} : wanted'[m] = wanted[m]
      BY <1>2, <2>1 DEF CellsInv, FileTypes, NotebookFiles
    <2>3. /\ nbFile' \in [Notebooks -> NotebookFiles]
          /\ nbIndex' \in (SUBSET Notebooks) \cup {Torn}
      BY <1>1 DEF CellsInv, FileTypes
    <2>4. CASE nbFile[n] = Absent
      <3>1. todo' = Tail(todo)
        BY <1>5, <2>4 DEF DeletionRead
      <3>2. WellMade(Tail(todo), wanted')
        BY <1>3, HarmlessIsWellMade
      <3>3. FilesFollow'
        <4>1. \A m \in Notebooks : nbFile'[m] \in {Torn, wanted'[m]}
          BY <1>1, <1>3, <2>2, <2>4
        <4> QED BY <4>1 DEF FilesFollow
      <3>4. FileTypes'
        BY <1>3, <2>2, <2>3, <3>1 DEF FileTypes
      <3> QED BY <3>1, <3>2, <3>3, <3>4 DEF CellsInv
    <2>5. CASE nbFile[n] # Absent
      <3> DEFINE p == DeleteNotebookSteps(n)
                 q == Tail(todo)
      <3>1. todo' = p \o q
        BY <1>5, <2>5 DEF DeletionRead
      <3>2. /\ p \in Seq(Steps) /\ WellMade(p, wanted') /\ 1 \in 1..Len(p)
            /\ Changes(p[1]) /\ p[1].of = n
        BY <1>2, <2>2, DeleteNotebookMade
      <3>3. /\ q \in Seq(Steps) /\ WellMade(q, wanted')
            /\ \A i \in 1..Len(q) : ~Changes(q[i])
        BY <1>3, HarmlessIsWellMade DEF Harmless
      <3> HIDE DEF n, p, q
      <3>4. p \o q \in Seq(Steps) /\ WellMade(p \o q, wanted')
        BY <3>2, <3>3, JoinWellMade
      <3>5. 1 \in 1..Len(p \o q) /\ (p \o q)[1] = p[1]
        <4>1. /\ Len(p \o q) = Len(p) + Len(q) /\ Len(p) \in Nat /\ Len(q) \in Nat
              /\ \A i \in 1..(Len(p) + Len(q)) :
                    (p \o q)[i] = IF i <= Len(p) THEN p[i] ELSE q[i - Len(p)]
          BY <3>2, <3>3, ConcatProperties
        <4>2. 1 \in 1..(Len(p) + Len(q)) /\ 1 <= Len(p)
          BY <3>2, <4>1
        <4> QED BY <4>1, <4>2
      <3>6. FilesFollow'
        <4>1. \A m \in Notebooks \ {n} : nbFile'[m] \in {Torn, wanted'[m]}
          BY <1>1, <1>3, <2>2
        <4>2. Changes(todo'[1]) /\ todo'[1].of = n /\ 1 \in 1..Len(todo')
          BY <3>1, <3>2, <3>5
        <4> QED BY <4>1, <4>2 DEF FilesFollow
      <3>7. FileTypes'
        BY <2>2, <2>3, <3>1, <3>4 DEF FileTypes
      <3> QED BY <3>1, <3>4, <3>6, <3>7 DEF CellsInv
    <2> QED BY <2>4, <2>5
  <1> QED BY <1>4, <1>5

\* Writing and removing a notebook's file.
LEMMA FileStepKeeps == CellsInv /\ (WriteNotebook \/ UnlinkNotebook) => CellsInv'
  <1> SUFFICES ASSUME CellsInv, WriteNotebook \/ UnlinkNotebook PROVE CellsInv'
    OBVIOUS
  <1>1. /\ todo # <<>> /\ todo' = Tail(todo) /\ wanted' = wanted /\ nbIndex' = nbIndex
        /\ Head(todo).do \in {"write nb", "unlink nb"}
    BY DEF WriteNotebook, UnlinkNotebook, NextStep, history
  <1>2. /\ Head(todo) \in Steps /\ Head(todo).of \in Notebooks
        /\ Changes(Head(todo)) /\ Fulfils(Head(todo), wanted)
    BY <1>1, NextIsWellMade DEF OfNotebook, Changes
  <1>3. Head(todo).cells \in SUBSET Cells
    BY <1>2 DEF Steps
  <1>4. nbFile' = [nbFile EXCEPT ![Head(todo).of] = wanted[Head(todo).of]]
    <2>1. CASE WriteNotebook
      BY <1>2, <2>1 DEF WriteNotebook, NextStep, Subject, Fulfils
    <2>2. CASE UnlinkNotebook
      BY <1>2, <2>2 DEF UnlinkNotebook, NextStep, Subject, Fulfils
    <2> QED BY <2>1, <2>2
  <1>5. nbFile \in [Notebooks -> NotebookFiles] /\ wanted \in [Notebooks -> NotebookFiles]
        /\ nbIndex \in (SUBSET Notebooks) \cup {Torn}
    BY DEF CellsInv, FileTypes
  <1>6. nbFile' \in [Notebooks -> NotebookFiles]
    BY <1>2, <1>4, <1>5
  <1>7. \A n \in Notebooks :
           IF Changes(Head(todo)) /\ Head(todo).of = n THEN nbFile'[n] = wanted[n]
           ELSE nbFile'[n] = nbFile[n]
    BY <1>2, <1>4, <1>5
  <1> QED BY <1>1, <1>5, <1>6, <1>7, PopKeeps

\* The steps of environments and of the indexes.
LEMMA IndexStepKeeps ==
    ASSUME CellsInv, \/ WriteEnv \/ ListEnv \/ UnlinkEnv \/ UnlistEnv
                     \/ ListNotebook \/ UnlistNotebook
    PROVE  CellsInv'
  <1>1. nbIndex \in (SUBSET Notebooks) \cup {Torn} /\ ListedNotebooks \in SUBSET Notebooks
    BY DEF CellsInv, FileTypes, ListedNotebooks, Loaded
  <1>2. CASE WriteEnv \/ ListEnv \/ UnlinkEnv \/ UnlistEnv
    <2>1. /\ todo # <<>> /\ todo' = Tail(todo) /\ UNCHANGED <<wanted, nbFile, nbIndex>>
          /\ Head(todo).do \in {"write env", "list env", "count", "unlink env", "unlist env"}
      BY <1>2 DEF WriteEnv, ListEnv, UnlinkEnv, UnlistEnv, NextStep, history
    <2> QED BY <1>1, <2>1, OtherStepKeeps DEF Changes
  <1>3. CASE ListNotebook \/ UnlistNotebook
    <2>1. /\ todo # <<>> /\ todo' = Tail(todo) /\ UNCHANGED <<wanted, nbFile>>
          /\ Head(todo).do \in {"list nb", "unlist nb"}
          /\ nbIndex' \in {ListedNotebooks \cup {Subject}, ListedNotebooks \ {Subject}}
      BY <1>3 DEF ListNotebook, UnlistNotebook, NextStep
    <2>2. Subject \in Notebooks
      BY <2>1, NextIsWellMade DEF OfNotebook, Subject
    <2>3. nbIndex' \in (SUBSET Notebooks) \cup {Torn}
      BY <1>1, <2>1, <2>2
    <2> QED BY <2>1, <2>3, OtherStepKeeps DEF Changes
  <1> QED BY <1>2, <1>3

LEMMA NoEnvToCountKeeps == CellsInv /\ NoEnvToCount => CellsInv'
  <1> SUFFICES ASSUME CellsInv, NoEnvToCount PROVE CellsInv'
    OBVIOUS
  <1>1. /\ todo # <<>> /\ Head(todo).do = "count" /\ UNCHANGED <<wanted, nbFile, nbIndex>>
        /\ todo' = <<>> \/ todo' = Tail(todo)
    BY DEF NoEnvToCount, NextStep, files, history
  <1>2. MayEnd(Head(todo)) /\ ~Changes(Head(todo))
    BY <1>1 DEF MayEnd, Changes
  <1>3. nbIndex' \in (SUBSET Notebooks) \cup {Torn}
    BY <1>1 DEF CellsInv, FileTypes
  <1> QED BY <1>1, <1>2, <1>3, EndKeeps, OtherStepKeeps

LEMMA HandlerStepKeeps == CellsInv /\ HandlerStep => CellsInv'
  BY DeletionReadKeeps, FileStepKeeps, IndexStepKeeps, NoEnvToCountKeeps DEF HandlerStep

-----------------------------------------------------------------------------
(* Each action keeps the invariant: the handlers. *)

\* Between two requests every file is what it should be, or cannot be read.
LEMMA ServingFiles ==
    ASSUME CellsInv, Serving
    PROVE  \A n \in Notebooks : nbFile[n] \in {Torn, wanted[n]}
  <1>1. 1..Len(todo) = {}
    BY DEF Serving
  <1> QED BY <1>1 DEF CellsInv, FilesFollow

\* A handler starts with a proper list of steps.
LEMMA HandleKeeps ==
    ASSUME CellsInv, NEW steps \in Seq(Steps), NEW goal \in [Notebooks -> NotebookFiles],
           Handle(steps, goal), WellMade(steps, goal),
           \A n \in Notebooks : \/ goal[n] = wanted[n]
                                \/ \E i \in 1..Len(steps) : Changes(steps[i]) /\ steps[i].of = n
    PROVE  CellsInv'
  <1>1. Serving /\ todo' = steps /\ wanted' = goal /\ UNCHANGED <<nbFile, nbIndex>>
    BY DEF Handle, files
  <1>2. FileTypes'
    BY <1>1 DEF CellsInv, FileTypes
  <1>3. \A n \in Notebooks : nbFile[n] \in {Torn, wanted[n]}
    BY <1>1, ServingFiles
  <1>4. FilesFollow'
    BY <1>1, <1>3 DEF FilesFollow
  <1> QED BY <1>1, <1>2, <1>4 DEF CellsInv

\* Nothing is to change in any notebook.
LEMMA SameGoalKeeps ==
    ASSUME CellsInv, NEW steps \in Seq(Steps), Handle(steps, wanted), WellMade(steps, wanted)
    PROVE  CellsInv'
  <1>1. wanted \in [Notebooks -> NotebookFiles]
    BY DEF CellsInv, FileTypes
  <1> QED BY <1>1, HandleKeeps

\* A notebook that can be read between two requests.
LEMMA StoredCells ==
    ASSUME CellsInv, Serving, NEW n \in Notebooks, IsStored(n)
    PROVE  nbFile[n] \in SUBSET Cells /\ wanted[n] = nbFile[n]
  <1>1. nbFile[n] \in NotebookFiles /\ nbFile[n] \in {Torn, wanted[n]}
    BY ServingFiles DEF CellsInv, FileTypes
  <1> QED BY <1>1 DEF IsStored, NotebookFiles

\* A notebook is to hold C.
LEMMA KeepIsGoal ==
    ASSUME CellsInv, NEW n \in Notebooks, NEW C \in SUBSET Cells
    PROVE  /\ Keep(n, C) \in [Notebooks -> NotebookFiles] /\ Keep(n, C)[n] = C
           /\ \A m \in Notebooks : m # n => Keep(n, C)[m] = wanted[m]
  <1>1. wanted \in [Notebooks -> NotebookFiles] /\ C \in NotebookFiles
    BY DEF CellsInv, FileTypes, NotebookFiles
  <1>2. Keep(n, C) = [wanted EXCEPT ![n] = C]
    BY DEF Keep
  <1> QED BY <1>1, <1>2

LEMMA SaveKeeps ==
    ASSUME CellsInv, NEW n \in Notebooks, NEW C \in SUBSET Cells,
           Handle(SaveNotebook(n, C), Keep(n, C))
    PROVE  CellsInv'
  <1> DEFINE steps == SaveNotebook(n, C)
             goal == Keep(n, C)
  <1>1. /\ goal \in [Notebooks -> NotebookFiles] /\ goal[n] = C
        /\ \A m \in Notebooks : m # n => goal[m] = wanted[m]
    BY KeepIsGoal
  <1>2. /\ steps \in Seq(Steps) /\ WellMade(steps, goal) /\ 1 \in 1..Len(steps)
        /\ Changes(steps[1]) /\ steps[1].of = n
    BY <1>1, SaveNotebookMade
  <1>3. Handle(steps, goal)
    OBVIOUS
  <1> HIDE DEF steps, goal
  <1>4. \A m \in Notebooks : \/ goal[m] = wanted[m]
                             \/ \E i \in 1..Len(steps) : Changes(steps[i]) /\ steps[i].of = m
    BY <1>1, <1>2
  <1> QED BY <1>1, <1>2, <1>3, <1>4, HandleKeeps

LEMMA CreateNotebookKeeps ==
    ASSUME CellsInv, NEW n \in Notebooks, CreateNotebook(n)
    PROVE  CellsInv'
  <1> DEFINE steps == CreateNotebookSteps(n)
             goal == Keep(n, {})
  <1>1. /\ goal \in [Notebooks -> NotebookFiles] /\ goal[n] = {}
        /\ \A m \in Notebooks : m # n => goal[m] = wanted[m]
    BY KeepIsGoal
  <1>2. /\ steps \in Seq(Steps) /\ WellMade(steps, goal)
        /\ \E i \in 1..Len(steps) : Changes(steps[i]) /\ steps[i].of = n
    BY <1>1, CreateNotebookMade
  <1>3. Handle(steps, goal)
    BY DEF CreateNotebook
  <1> HIDE DEF steps, goal
  <1>4. \A m \in Notebooks : \/ goal[m] = wanted[m]
                             \/ \E i \in 1..Len(steps) : Changes(steps[i]) /\ steps[i].of = m
    BY <1>1, <1>2
  <1> QED BY <1>1, <1>2, <1>3, <1>4, HandleKeeps

LEMMA CreateEnvironmentKeeps ==
    ASSUME CellsInv, NEW e \in Envs, NEW n \in Notebooks, CreateEnvironment(e, n)
    PROVE  CellsInv'
  <1> DEFINE p == SaveEnvironment(e)
             q == CreateNotebookSteps(n)
             goal == Keep(n, {})
  <1>1. /\ goal \in [Notebooks -> NotebookFiles] /\ goal[n] = {}
        /\ \A m \in Notebooks : m # n => goal[m] = wanted[m]
    BY KeepIsGoal
  <1>2. /\ q \in Seq(Steps) /\ WellMade(q, goal)
        /\ \E i \in 1..Len(q) : Changes(q[i]) /\ q[i].of = n
    BY <1>1, CreateNotebookMade
  <1>3. p \in Seq(Steps) /\ WellMade(p, goal) /\ \A i \in 1..Len(p) : ~MayEnd(p[i])
    BY SaveEnvironmentMade, HarmlessIsWellMade
  <1>4. Handle(p \o q, goal)
    BY DEF CreateEnvironment
  <1> HIDE DEF p, q, goal
  <1>5. p \o q \in Seq(Steps) /\ WellMade(p \o q, goal)
    BY <1>2, <1>3, JoinWellMade
  <1>6. \E i \in 1..Len(p \o q) : Changes((p \o q)[i]) /\ (p \o q)[i].of = n
    <2>1. PICK j \in 1..Len(q) : Changes(q[j]) /\ q[j].of = n
      BY <1>2
    <2>2. /\ Len(p \o q) = Len(p) + Len(q) /\ Len(p) \in Nat /\ Len(q) \in Nat
          /\ \A i \in 1..(Len(p) + Len(q)) :
                (p \o q)[i] = IF i <= Len(p) THEN p[i] ELSE q[i - Len(p)]
      BY <1>2, <1>3, ConcatProperties
    <2>3. /\ Len(p) + j \in 1..(Len(p) + Len(q)) /\ ~(Len(p) + j <= Len(p))
          /\ (Len(p) + j) - Len(p) = j
      BY <2>2
    <2>4. (p \o q)[Len(p) + j] = q[j]
      BY <2>2, <2>3
    <2> QED BY <2>1, <2>2, <2>3, <2>4
  <1>7. \A m \in Notebooks :
           \/ goal[m] = wanted[m]
           \/ \E i \in 1..Len(p \o q) : Changes((p \o q)[i]) /\ (p \o q)[i].of = m
    BY <1>1, <1>6
  <1> QED BY <1>1, <1>4, <1>5, <1>7, HandleKeeps

\* The listed notebooks are read for deletion one after the other.
LEMMA DeleteEnvironmentKeeps ==
    ASSUME CellsInv, NEW e \in Envs, DeleteEnvironment(e)
    PROVE  CellsInv'
  <1> DEFINE S == {n \in ListedNotebooks : EnvOf[n] = e}
             u == Step("unlink env", e)
             l == Step("unlist env", e)
             q == <<u, l>>
  <1>1. PICK listed \in SetToSeqs(S) :
           Handle([i \in DOMAIN listed |-> Step("delete nb", listed[i])] \o q, wanted)
    BY DEF DeleteEnvironment
  <1> DEFINE p == [i \in DOMAIN listed |-> Step("delete nb", listed[i])]
  <1>2. S \in SUBSET Notebooks
    BY DEF CellsInv, FileTypes, ListedNotebooks, Loaded
  <1> HIDE DEF S
  <1>3. Cardinality(S) \in Nat
    BY <1>2, StoreAssumption, FS_Subset, FS_CardinalityType
  <1>4. listed \in [1..Cardinality(S) -> Notebooks]
    BY <1>1, <1>2 DEF SetToSeqs
  <1>5. \A n \in Notebooks : /\ Step("delete nb", n) \in Steps
                             /\ Step("delete nb", n).do = "delete nb"
                             /\ Step("delete nb", n).of = n
    BY DEF Step, Steps, StepNames
  <1>6. /\ p \in Seq(Steps) /\ Len(p) = Cardinality(S)
        /\ \A i \in 1..Len(p) : listed[i] \in Notebooks /\ p[i] = Step("delete nb", listed[i])
    <2>1. p \in [1..Cardinality(S) -> Steps]
      BY <1>4, <1>5
    <2> HIDE DEF p
    <2>2. p \in Seq(Steps) /\ Len(p) = Cardinality(S)
      BY <1>3, <2>1, FunctionIsSeq
    <2> QED BY <1>4, <2>2 DEF p
  <1>7. u \in Steps /\ u.do = "unlink env" /\ l \in Steps /\ l.do = "unlist env"
    BY DEF Step, Steps, StepNames
  <1> HIDE DEF u, l, p
  <1>8. /\ Handle(p \o q, wanted)
        /\ q \in Seq(Steps) /\ Len(q) = 2 /\ q[1] = u /\ q[2] = l
    BY <1>1, <1>7, TwoSteps DEF p
  <1> HIDE DEF q
  <1>9. Harmless(p)
    BY <1>5, <1>6 DEF Harmless, Changes, OfNotebook
  <1>10. Harmless(q)
    <2>1. \A i \in 1..Len(q) : q[i] = u \/ q[i] = l
      BY <1>8
    <2> QED BY <1>7, <2>1 DEF Harmless, Changes, OfNotebook
  <1>11. p \o q \in Seq(Steps) /\ WellMade(p \o q, wanted)
    BY <1>6, <1>8, <1>9, <1>10, HarmlessIsWellMade, JoinWellMade DEF Harmless
  <1> QED BY <1>8, <1>11, SameGoalKeeps

LEMMA HandlersKeep ==
    ASSUME CellsInv, NEW n \in Notebooks,
           \/ DeleteNotebook(n) \/ UpdateNotebook(n)
           \/ \E c \in Cells : AddCell(n, c) \/ DeleteCell(n, c) \/ RunEnds(n, c)
    PROVE  CellsInv'
  <1>1. CASE DeleteNotebook(n)
    <2> DEFINE d == Step("delete nb", n)
    <2>1. d \in Steps /\ d.do = "delete nb" /\ d.of = n
      BY DEF Step, Steps, StepNames
    <2>2. Handle(<<d>>, wanted)
      BY <1>1 DEF DeleteNotebook
    <2> HIDE DEF d
    <2>3. <<d>> \in Seq(Steps) /\ Len(<<d>>) = 1 /\ <<d>>[1] = d
      BY <2>1, OneStep
    <2>4. Harmless(<<d>>)
      <3>1. \A i \in 1..Len(<<d>>) : <<d>>[i] = d
        BY <2>3
      <3> QED BY <2>1, <3>1 DEF Harmless, Changes, OfNotebook
    <2> QED BY <2>2, <2>3, <2>4, HarmlessIsWellMade, SameGoalKeeps
  <1>2. ASSUME Serving, IsStored(n), Handle(SaveNotebook(n, nbFile[n]), wanted)
        PROVE  CellsInv'
    <2>1. nbFile[n] \in SUBSET Cells /\ wanted[n] = nbFile[n]
      BY <1>2, StoredCells
    <2>2. SaveNotebook(n, nbFile[n]) \in Seq(Steps) /\ WellMade(SaveNotebook(n, nbFile[n]), wanted)
      BY <2>1, SaveNotebookMade
    <2> QED BY <1>2, <2>2, SameGoalKeeps
  <1>3. CASE UpdateNotebook(n)
    BY <1>2, <1>3 DEF UpdateNotebook, Handle
  <1>4. ASSUME NEW c \in Cells, AddCell(n, c) PROVE CellsInv'
    <2>1. Serving /\ IsStored(n)
      BY <1>4 DEF AddCell, Handle
    <2>2. nbFile[n] \in SUBSET Cells /\ wanted[n] = nbFile[n]
      BY <2>1, StoredCells
    <2>3. Handle(SaveNotebook(n, nbFile[n] \cup {c}), Keep(n, nbFile[n] \cup {c}))
      BY <1>4, <2>2 DEF AddCell
    <2>4. nbFile[n] \cup {c} \in SUBSET Cells
      BY <2>2
    <2> QED BY <2>3, <2>4, SaveKeeps
  <1>5. ASSUME NEW c \in Cells, DeleteCell(n, c) PROVE CellsInv'
    <2>1. Serving /\ IsStored(n)
      BY <1>5 DEF DeleteCell, Handle
    <2>2. nbFile[n] \in SUBSET Cells /\ wanted[n] = nbFile[n]
      BY <2>1, StoredCells
    <2>3. Handle(SaveNotebook(n, nbFile[n] \ {c}), Keep(n, nbFile[n] \ {c}))
      BY <1>5, <2>2 DEF DeleteCell
    <2>4. nbFile[n] \ {c} \in SUBSET Cells
      BY <2>2
    <2> QED BY <2>3, <2>4, SaveKeeps
  <1>6. ASSUME NEW c \in Cells, RunEnds(n, c) PROVE CellsInv'
    <2>1. Serving /\ Handle(SavedAfterRun(n, c), wanted)
      BY <1>6 DEF RunEnds, Handle
    <2>2. CASE IsStored(n)
      BY <1>2, <2>1, <2>2 DEF SavedAfterRun
    <2>3. CASE ~IsStored(n)
      <3>1. Handle(<<>>, wanted)
        BY <2>1, <2>3 DEF SavedAfterRun
      <3>2. <<>> \in Seq(Steps) /\ WellMade(<<>>, wanted)
        BY DEF WellMade
      <3> QED BY <3>1, <3>2, SameGoalKeeps
    <2> QED BY <2>2, <2>3
  <1> QED BY <1>1, <1>3, <1>4, <1>5, <1>6

LEMMA UpdateEnvironmentKeeps ==
    ASSUME CellsInv, NEW e \in Envs, UpdateEnvironment(e)
    PROVE  CellsInv'
  <1>1. Handle(SaveEnvironment(e), wanted)
    BY DEF UpdateEnvironment
  <1>2. SaveEnvironment(e) \in Seq(Steps) /\ WellMade(SaveEnvironment(e), wanted)
    BY SaveEnvironmentMade, HarmlessIsWellMade
  <1> QED BY <1>1, <1>2, SameGoalKeeps

-----------------------------------------------------------------------------
(* Crash, start, and the theorem. *)

\* What a crash leaves of the files: one file or index that was being written may be torn.
LEMMA CrashFiles ==
    ASSUME CellsInv, Crash
    PROVE  /\ nbFile' \in [Notebooks -> NotebookFiles]
           /\ nbIndex' \in (SUBSET Notebooks) \cup {Torn}
           /\ \A n \in Notebooks : nbFile'[n] \in {Torn, nbFile[n]}
  <1>1. /\ nbFile \in [Notebooks -> NotebookFiles] /\ Torn \in NotebookFiles
        /\ nbIndex \in (SUBSET Notebooks) \cup {Torn}
    BY DEF CellsInv, FileTypes, NotebookFiles
  <1>2. /\ nbFile' = nbFile \/ nbFile' = [nbFile EXCEPT ![Subject] = Torn]
        /\ nbIndex' = nbIndex \/ nbIndex' = Torn
    BY DEF Crash, TornWrite, files
  <1> QED BY <1>1, <1>2

LEMMA CrashKeeps == CellsInv /\ Crash => CellsInv'
  <1> SUFFICES ASSUME CellsInv, Crash PROVE CellsInv'
    OBVIOUS
  <1>1. /\ nbFile' \in [Notebooks -> NotebookFiles]
        /\ nbIndex' \in (SUBSET Notebooks) \cup {Torn}
        /\ \A n \in Notebooks : nbFile'[n] \in {Torn, nbFile[n]}
    BY CrashFiles
  <1>2. /\ todo' = <<>>
        /\ wanted' = [n \in Notebooks |-> IF n \in HitNotebooks THEN nbFile'[n] ELSE wanted[n]]
    BY DEF Crash
  <1>3. wanted \in [Notebooks -> NotebookFiles] /\ todo \in Seq(Steps)
    BY DEF CellsInv, FileTypes
  <1>4. FileTypes'
    <2>1. wanted' \in [Notebooks -> NotebookFiles]
      BY <1>1, <1>2, <1>3
    <2>2. todo' \in Seq(Steps)
      BY <1>2
    <2> QED BY <1>1, <2>1, <2>2 DEF FileTypes
  <1>5. WellMade(todo, wanted)'
    BY <1>2 DEF WellMade
  <1>6. ASSUME NEW n \in Notebooks PROVE nbFile'[n] \in {Torn, wanted'[n]}
    <2>1. CASE n \in HitNotebooks
      BY <1>2, <2>1
    <2>2. CASE n \notin HitNotebooks
      <3>1. ASSUME NEW i \in 1..Len(todo), Changes(todo[i]), todo[i].of = n
            PROVE  FALSE
        <4>1. i \in DOMAIN todo
          BY <1>3
        <4>2. todo[i] \in ToSet(todo)
          BY <4>1 DEF ToSet
        <4>3. todo[i].do \in {"write nb", "list nb", "unlink nb", "unlist nb"}
          BY <3>1 DEF Changes
        <4> QED BY <2>2, <3>1, <4>2, <4>3, Zenon DEF HitNotebooks
      <3>2. nbFile[n] \in {Torn, wanted[n]}
        BY <3>1 DEF CellsInv, FilesFollow
      <3> QED BY <1>1, <1>2, <2>2, <3>2
    <2> QED BY <2>1, <2>2
  <1>7. FilesFollow'
    BY <1>6 DEF FilesFollow
  <1> QED BY <1>4, <1>5, <1>7 DEF CellsInv

LEMMA UnchangedKeeps ==
    CellsInv /\ UNCHANGED <<nbFile, wanted, todo>>
             /\ nbIndex' \in (SUBSET Notebooks) \cup {Torn} => CellsInv'
  BY DEF CellsInv, FileTypes, WellMade, FilesFollow

LEMMA CellsStep == CellsInv /\ [Next]_vars => CellsInv'
  <1> SUFFICES ASSUME CellsInv, [Next]_vars PROVE CellsInv'
    OBVIOUS
  <1>1. /\ nbIndex \in (SUBSET Notebooks) \cup {Torn}
        /\ ListedNotebooks \in (SUBSET Notebooks) \cup {Torn}
    BY DEF CellsInv, FileTypes, ListedNotebooks, Loaded
  <1>2. ASSUME NEW e \in Envs,
               \/ UpdateEnvironment(e) \/ DeleteEnvironment(e)
               \/ \E n \in Notebooks : CreateEnvironment(e, n)
        PROVE  CellsInv'
    BY <1>2, UpdateEnvironmentKeeps, DeleteEnvironmentKeeps, CreateEnvironmentKeeps
  <1>3. ASSUME NEW n \in Notebooks,
               \/ CreateNotebook(n) \/ DeleteNotebook(n) \/ UpdateNotebook(n)
               \/ \E c \in Cells : AddCell(n, c) \/ DeleteCell(n, c) \/ RunEnds(n, c)
        PROVE  CellsInv'
    BY <1>3, CreateNotebookKeeps, HandlersKeep
  <1>4. ASSUME NEW n \in Notebooks, NEW c \in Cells, RunStarts(n, c) PROVE CellsInv'
    <2>1. UNCHANGED <<nbFile, wanted, todo, nbIndex>>
      BY <1>4 DEF RunStarts, files, history
    <2> QED BY <1>1, <2>1, UnchangedKeeps
  <1>5. CASE HandlerStep
    BY <1>5, HandlerStepKeeps
  <1>6. CASE Crash
    BY <1>6, CrashKeeps
  <1>7. CASE Start
    <2>1. UNCHANGED <<nbFile, wanted, todo>> /\ nbIndex' = ListedNotebooks
      BY <1>7 DEF Start, history
    <2> QED BY <1>1, <2>1, UnchangedKeeps
  <1>8. CASE UNCHANGED vars
    <2>1. UNCHANGED <<nbFile, wanted, todo, nbIndex>>
      BY <1>8 DEF vars, files, history
    <2> QED BY <1>1, <2>1, UnchangedKeeps
  <1> QED BY <1>2, <1>3, <1>4, <1>5, <1>6, <1>7, <1>8 DEF Next

\* What the handler in progress has left makes every notebook's file what it should be,
\* and a file that it does not touch is so already, or cannot be read.
THEOREM FilesFollowWhatIsLeft == Spec => []CellsInv
  <1> QED BY CellsInit, CellsStep, PTL DEF Spec

\* Between two requests a notebook that can be read holds the cells that were added and not
\* deleted, for any number of notebooks, cells and crashes.
THEOREM NoCellIsLostOrBroughtBack == Spec => []CellsKept
  <1>1. CellsInv => CellsKept
    BY ServingFiles DEF CellsKept
  <1> QED BY <1>1, FilesFollowWhatIsLeft, PTL

-----------------------------------------------------------------------------
(* The index.  In the middle of a handler it may be wrong; a step that     *)
(* puts it right is then left, and nothing before that step can end the    *)
(* handler.                                                                *)

\* Steps that save, and steps that delete: no handler does both.
Saves(s) == s.do \in {"write env", "list env", "write nb", "list nb"}
Deletes(s) == s.do \in {"unlink env", "unlist env", "unlink nb", "unlist nb", "delete nb"}
OneKind(steps) == \/ \A i \in 1..Len(steps) : ~Deletes(steps[i])
                  \/ \A i \in 1..Len(steps) : ~Saves(steps[i])

Is(s, do, of) == s.do = do /\ s.of = of

\* A step comes after the i-th, and nothing in between may end the handler.
Follows(steps, i, do, of) ==
    \E j \in 1..Len(steps) : /\ i < j /\ Is(steps[j], do, of)
                             /\ \A h \in 1..Len(steps) : i < h /\ h < j => ~MayEnd(steps[h])

Precedes(steps, i, do, of) ==
    \E j \in 1..Len(steps) : j < i /\ Is(steps[j], do, of)

\* The step is going to be taken, if the process lives.
Sure(do, of) == Follows(todo, 0, do, of)

\* A notebook's file is written before it is listed, and removed before it is taken from the
\* list; what changes the list is followed by a count.
SoundNb(steps, i, do, n) ==
    /\ do = "write nb" => Follows(steps, i, "list nb", n)
    /\ do = "unlink nb" => Follows(steps, i, "unlist nb", n)
    /\ do = "list nb" =>
          /\ IsStored(n) \/ Precedes(steps, i, "write nb", n)
          /\ n \in ListedNotebooks \cup suspectNbs \/ Follows(steps, i, "count", EnvOf[n])
    /\ do = "unlist nb" =>
          /\ nbFile[n] = Absent \/ Precedes(steps, i, "unlink nb", n)
          /\ Follows(steps, i, "count", EnvOf[n])

\* The same of an environment, whose id has been given out.
SoundEnv(steps, i, do, e) ==
    /\ do \in {"write env", "list env", "unlink env", "unlist env"} => e \in known \cap Envs
    /\ do = "count" => e \in Envs
    /\ do = "write env" => Follows(steps, i, "list env", e)
    /\ do = "unlink env" => Follows(steps, i, "unlist env", e)
    /\ do = "list env" => envFile[e] = "stored" \/ Precedes(steps, i, "write env", e)
    /\ do = "unlist env" => envFile[e] = Absent \/ Precedes(steps, i, "unlink env", e)

SoundAt(steps, i) ==
    SoundNb(steps, i, steps[i].do, steps[i].of) /\ SoundEnv(steps, i, steps[i].do, steps[i].of)

SoundSteps(steps) == OneKind(steps) /\ \A i \in 1..Len(steps) : SoundAt(steps, i)

\* The list of notebooks is right about n, or a step that puts it right is sure.
ListRight(n) ==
    \/ n \in ListedNotebooks <=> IsStored(n)
    \/ Sure("list nb", n) \/ Sure("unlist nb", n)

\* The same of the entries of environments, and of their counts.
EntrySure(e) == Sure("list env", e) \/ Sure("unlist env", e)
EntryRight(e) ==
    /\ EntrySure(e) \/ (e \in DOMAIN ListedEnvs <=> envFile[e] = "stored")
    /\ \/ EntrySure(e) \/ Sure("count", e)
       \/ e \in DOMAIN ListedEnvs => ListedEnvs[e] = Count(e)

NotebooksFollow == \A n \in Notebooks \ suspectNbs : ListRight(n)
EntriesFollow == \A e \in Envs \ suspectEnvs : EntryRight(e)

\* The environment was deleted and does not come back.
NotRewritten(e, steps) == \A i \in 1..Len(steps) : ~Is(steps[i], "write env", e)
Gone(e) == envFile[e] = Absent /\ e \in known /\ NotRewritten(e, todo)

\* What is not known of a notebook is not known of its environment's count.
SuspectTogether ==
    \A n \in suspectNbs : EnvOf[n] \in suspectEnvs \/ Gone(EnvOf[n])

EnvEntries == UNION {[D -> Nat] : D \in SUBSET Envs}

EnvTypes ==
    /\ envFile \in [Envs -> {Absent, Torn, "stored"}]
    /\ ListedEnvs \in EnvEntries
    /\ suspectNbs \subseteq Notebooks
    /\ \A e \in Envs : envFile[e] # Absent => e \in known

IndexInv == EnvTypes /\ SoundSteps(todo) /\ NotebooksFollow /\ EntriesFollow /\ SuspectTogether

-----------------------------------------------------------------------------
(* Steps that follow and precede. *)

LEMMA FirstOf ==
    ASSUME NEW s \in Seq(Steps), s # <<>>
    PROVE  /\ Len(s) \in Nat \ {0} /\ Head(s) = s[1] /\ 1 \in 1..Len(s)
           /\ Tail(s) \in Seq(Steps) /\ Len(Tail(s)) = Len(s) - 1 /\ Len(Tail(s)) \in Nat
           /\ \A i \in 1..Len(Tail(s)) :
                 i \in Nat /\ Tail(s)[i] = s[i + 1] /\ i + 1 \in 1..Len(s)
  <1>1. Len(s) \in Nat \ {0} /\ Head(s) = s[1]
    OBVIOUS
  <1> QED BY <1>1, HeadTailProperties

LEMMA PopFollows ==
    ASSUME NEW s \in Seq(Steps), s # <<>>, NEW i \in Nat, NEW do, NEW of,
           Follows(s, i + 1, do, of)
    PROVE  Follows(Tail(s), i, do, of)
  <1> DEFINE t == Tail(s)
  <1>1. /\ Len(s) \in Nat \ {0} /\ Len(t) = Len(s) - 1
        /\ \A k \in 1..Len(t) : t[k] = s[k + 1] /\ k + 1 \in 1..Len(s)
    BY FirstOf
  <1> HIDE DEF t
  <1>2. PICK j \in 1..Len(s) :
            /\ i + 1 < j /\ Is(s[j], do, of)
            /\ \A h \in 1..Len(s) : i + 1 < h /\ h < j => ~MayEnd(s[h])
    BY DEF Follows
  <1>3. j - 1 \in 1..Len(t) /\ i < j - 1 /\ (j - 1) + 1 = j
    BY <1>1, <1>2
  <1>4. Is(t[j - 1], do, of)
    BY <1>1, <1>2, <1>3
  <1>5. ASSUME NEW h \in 1..Len(t), i < h, h < j - 1 PROVE ~MayEnd(t[h])
    <2>1. h + 1 \in 1..Len(s) /\ i + 1 < h + 1 /\ h + 1 < j /\ t[h] = s[h + 1]
      BY <1>1, <1>5
    <2> QED BY <1>2, <2>1
  <1> QED BY <1>3, <1>4, <1>5 DEF Follows, t

LEMMA PopPrecedes ==
    ASSUME NEW s \in Seq(Steps), s # <<>>, NEW i \in Nat, NEW do, NEW of,
           Precedes(s, i + 1, do, of)
    PROVE  Is(Head(s), do, of) \/ Precedes(Tail(s), i, do, of)
  <1> DEFINE t == Tail(s)
  <1>1. /\ Len(s) \in Nat \ {0} /\ Len(t) = Len(s) - 1 /\ Head(s) = s[1]
        /\ \A k \in 1..Len(t) : t[k] = s[k + 1] /\ k + 1 \in 1..Len(s)
    BY FirstOf
  <1> HIDE DEF t
  <1>2. PICK j \in 1..Len(s) : j < i + 1 /\ Is(s[j], do, of)
    BY DEF Precedes
  <1>3. CASE j = 1
    BY <1>1, <1>2, <1>3
  <1>4. CASE j # 1
    <2>1. j - 1 \in 1..Len(t) /\ j - 1 < i /\ (j - 1) + 1 = j
      BY <1>1, <1>2, <1>4
    <2>2. Is(t[j - 1], do, of)
      BY <1>1, <1>2, <2>1
    <2> QED BY <2>1, <2>2 DEF Precedes, t
  <1> QED BY <1>3, <1>4

\* What is sure stays sure until it is taken.
LEMMA SurePops ==
    ASSUME CellsInv, todo # <<>>, todo' = Tail(todo), NEW do, NEW of,
           \/ Sure(do, of) /\ ~Is(Head(todo), do, of)
           \/ Follows(todo, 1, do, of)
    PROVE  Sure(do, of)'
  <1>1. todo \in Seq(Steps)
    BY DEF CellsInv, FileTypes
  <1>2. Follows(todo, 0 + 1, do, of)
    <2>1. CASE Follows(todo, 1, do, of)
      BY <2>1
    <2>2. CASE Sure(do, of) /\ ~Is(Head(todo), do, of)
      <3>1. PICK j \in 1..Len(todo) :
                /\ 0 < j /\ Is(todo[j], do, of)
                /\ \A h \in 1..Len(todo) : 0 < h /\ h < j => ~MayEnd(todo[h])
        BY <2>2 DEF Sure, Follows
      <3>2. j # 1
        BY <1>1, <2>2, <3>1, FirstOf
      <3>3. 1 < j /\ \A h \in 1..Len(todo) : 1 < h /\ h < j => ~MayEnd(todo[h])
        BY <3>1, <3>2
      <3> QED BY <3>1, <3>3 DEF Follows
    <2> QED BY <2>1, <2>2
  <1>3. Follows(Tail(todo), 0, do, of)
    BY <1>1, <1>2, PopFollows
  <1> QED BY <1>3 DEF Sure

\* Nothing is sure behind a step that may end the handler.
LEMMA NothingSure ==
    ASSUME CellsInv, todo # <<>>, MayEnd(Head(todo)), NEW do, NEW of, Sure(do, of)
    PROVE  Is(Head(todo), do, of)
  <1>1. todo \in Seq(Steps)
    BY DEF CellsInv, FileTypes
  <1>2. Len(todo) \in Nat \ {0} /\ Head(todo) = todo[1] /\ 1 \in 1..Len(todo)
    BY <1>1, FirstOf
  <1>3. PICK j \in 1..Len(todo) :
            /\ 0 < j /\ Is(todo[j], do, of)
            /\ \A h \in 1..Len(todo) : 0 < h /\ h < j => ~MayEnd(todo[h])
    BY DEF Sure, Follows
  <1>4. ~(1 < j)
    BY <1>2, <1>3
  <1>5. j = 1
    BY <1>3, <1>4
  <1> QED BY <1>2, <1>3, <1>5

\* Nothing is sure without a handler.
LEMMA NothingLeft == todo = <<>> => \A do, of : ~Sure(do, of)
  BY DEF Sure, Follows

-----------------------------------------------------------------------------
(* A step is taken. *)

LEMMA SoundByStep ==
    ASSUME NEW steps, OneKind(steps),
           \A i \in 1..Len(steps) : \A do, of :
              Is(steps[i], do, of) => (SoundNb(steps, i, do, of) /\ SoundEnv(steps, i, do, of))'
    PROVE  SoundSteps(steps)'
  <1> SUFFICES ASSUME NEW i \in 1..Len(steps)
               PROVE  SoundAt(steps, i)'
    BY DEF SoundSteps
  <1>1. Is(steps[i], steps[i].do, steps[i].of)
    BY DEF Is
  <1> QED BY <1>1 DEF SoundAt

\* What is to be done is the same list.
LEMMA SoundTodo ==
    ASSUME NEW steps, SoundSteps(steps)', todo' = steps
    PROVE  SoundSteps(todo)'
  BY DEF SoundSteps, SoundAt, SoundNb, SoundEnv

\* The next step does not undo what the steps behind it count on: a save removes no file and
\* takes nothing from the list, a deletion writes no file.
KeptNb(n) ==
    /\ (IsStored(n) /\ ~Deletes(Head(todo))) \/ Is(Head(todo), "write nb", n) => IsStored(n)'
    /\ (nbFile[n] = Absent /\ ~Saves(Head(todo))) \/ Is(Head(todo), "unlink nb", n)
          => nbFile'[n] = Absent
    /\ n \in ListedNotebooks \cup suspectNbs /\ ~Deletes(Head(todo))
          => n \in (ListedNotebooks \cup suspectNbs)'

KeptEnv(e) ==
    /\ (envFile[e] = "stored" /\ ~Deletes(Head(todo))) \/ Is(Head(todo), "write env", e)
          => envFile'[e] = "stored"
    /\ (envFile[e] = Absent /\ ~Saves(Head(todo))) \/ Is(Head(todo), "unlink env", e)
          => envFile'[e] = Absent

LEMMA SoundPops ==
    ASSUME CellsInv, SoundSteps(todo), todo # <<>>, NEW t, t = Tail(todo), known' = known,
           \A n \in Notebooks : KeptNb(n),
           \A e \in Envs : KeptEnv(e)
    PROVE  SoundSteps(t)'
  <1>1. todo \in Seq(Steps)
    BY DEF CellsInv, FileTypes
  <1>2. /\ Len(todo) \in Nat \ {0} /\ Head(todo) = todo[1] /\ 1 \in 1..Len(todo)
        /\ \A i \in 1..Len(t) : i \in Nat /\ t[i] = todo[i + 1] /\ i + 1 \in 1..Len(todo)
    BY <1>1, FirstOf, Zenon
  <1>3. OneKind(t)
    BY <1>2 DEF SoundSteps, OneKind
  <1> SUFFICES ASSUME NEW i \in 1..Len(t), NEW do, NEW of, Is(t[i], do, of)
               PROVE  (SoundNb(t, i, do, of) /\ SoundEnv(t, i, do, of))'
    BY <1>3, SoundByStep
  <1>4. i \in Nat /\ i + 1 \in 1..Len(todo) /\ t[i] = todo[i + 1]
    BY <1>2, Zenon
  <1>5. todo[i + 1].do = do /\ todo[i + 1].of = of
    BY <1>4 DEF Is
  <1>6. SoundNb(todo, i + 1, do, of) /\ SoundEnv(todo, i + 1, do, of)
    <2>1. SoundAt(todo, i + 1)
      BY <1>4 DEF SoundSteps
    <2> QED BY <1>5, <2>1 DEF SoundAt
  <1>7. \A d, o : /\ Follows(todo, i + 1, d, o) => Follows(t, i, d, o)
                  /\ Precedes(todo, i + 1, d, o) =>
                        Is(Head(todo), d, o) \/ Precedes(t, i, d, o)
    BY <1>1, <1>4, PopFollows, PopPrecedes
  <1>8. /\ do \in {"write env", "list env", "write nb", "list nb"} => ~Deletes(Head(todo))
        /\ do \in {"unlink env", "unlist env", "unlink nb", "unlist nb"} => ~Saves(Head(todo))
    BY <1>2, <1>4, <1>5 DEF SoundSteps, OneKind, Saves, Deletes
  <1>9. do \in {"write nb", "list nb", "unlink nb", "unlist nb"} => of \in Notebooks
    BY <1>4, <1>5 DEF CellsInv, WellMade, OfNotebook
  <1>10. SoundNb(t, i, do, of)'
    BY <1>6, <1>7, <1>8, <1>9 DEF SoundNb, KeptNb
  <1>11. SoundEnv(t, i, do, of)'
    BY <1>6, <1>7, <1>8 DEF SoundEnv, KeptEnv
  <1> QED BY <1>10, <1>11

-----------------------------------------------------------------------------
(* The steps of a handler. *)

\* A notebook whose listing the step does not touch stays as it is.
LEMMA ListPops ==
    ASSUME CellsInv, NotebooksFollow, todo # <<>>, todo' = Tail(todo),
           NEW n \in Notebooks \ suspectNbs,
           n \in ListedNotebooks' <=> n \in ListedNotebooks, IsStored(n)' <=> IsStored(n),
           ~Is(Head(todo), "list nb", n), ~Is(Head(todo), "unlist nb", n)
    PROVE  ListRight(n)'
  <1>1. ListRight(n)
    BY DEF NotebooksFollow
  <1>2. CASE n \in ListedNotebooks <=> IsStored(n)
    BY <1>2 DEF ListRight
  <1>3. CASE Sure("list nb", n) \/ Sure("unlist nb", n)
    BY <1>3, SurePops DEF ListRight
  <1> QED BY <1>1, <1>2, <1>3 DEF ListRight

\* The count of an environment depends on the list of its notebooks.
LEMMA CountOf ==
    ASSUME NEW e \in Envs,
           \A n \in Notebooks : EnvOf[n] = e => (n \in ListedNotebooks <=> n \in ListedNotebooks'),
           ListedNotebooks \subseteq Notebooks, ListedNotebooks' \subseteq Notebooks
    PROVE  Count(e)' = Count(e)
  <1>1. {n \in ListedNotebooks : EnvOf[n] = e} = {n \in ListedNotebooks' : EnvOf[n] = e}
    OBVIOUS
  <1> QED BY <1>1 DEF Count

\* So does the entry of an environment, unless its count changes; then a count is sure to
\* follow, or the environment has no file.
LEMMA EntryPops ==
    ASSUME CellsInv, EntriesFollow, todo # <<>>, todo' = Tail(todo),
           NEW e \in Envs \ suspectEnvs,
           envFile'[e] = envFile[e], e \in DOMAIN ListedEnvs => (ListedEnvs[e])' = ListedEnvs[e],
           e \in DOMAIN ListedEnvs' <=> e \in DOMAIN ListedEnvs,
           ~Is(Head(todo), "list env", e), ~Is(Head(todo), "unlist env", e),
           ~Is(Head(todo), "count", e) \/ envFile[e] # "stored",
           Count(e)' = Count(e) \/ Sure("count", e)' \/ envFile[e] # "stored"
    PROVE  EntryRight(e)'
  <1>1. EntryRight(e)
    BY DEF EntriesFollow
  <1>2. /\ EntrySure(e) => EntrySure(e)'
        /\ ~Is(Head(todo), "count", e) /\ Sure("count", e) => Sure("count", e)'
    BY SurePops DEF EntrySure
  <1>3. CASE EntrySure(e)
    BY <1>2, <1>3 DEF EntryRight
  <1>4. CASE ~EntrySure(e)
    BY <1>1, <1>2, <1>4 DEF EntryRight
  <1> QED BY <1>3, <1>4

\* A step leaves what is not known of an environment as it was, or knows it all.
LEMMA TogetherPop ==
    ASSUME CellsInv, EnvTypes, SuspectTogether, todo # <<>>, todo' = Tail(todo), known' = known,
           suspectNbs' \subseteq suspectNbs,
           \A n \in suspectNbs' : EnvOf[n] \in suspectEnvs =>
                \/ EnvOf[n] \in suspectEnvs'
                \/ /\ envFile'[EnvOf[n]] = Absent /\ EnvOf[n] \in known
                   /\ NotRewritten(EnvOf[n], todo),
           \A e \in Envs : Gone(e) => envFile'[e] = Absent
    PROVE  SuspectTogether'
  <1>1. ASSUME NEW e, NotRewritten(e, todo)
        PROVE  NotRewritten(e, todo)'
    BY <1>1, FirstOf, Zenon DEF CellsInv, FileTypes, NotRewritten
  <1> SUFFICES ASSUME NEW n \in suspectNbs', EnvOf[n] \notin suspectEnvs'
               PROVE  Gone(EnvOf[n])'
    BY DEF SuspectTogether
  <1>2. EnvOf[n] \in Envs /\ n \in suspectNbs
    BY StoreAssumption DEF EnvTypes
  <1>3. envFile'[EnvOf[n]] = Absent /\ EnvOf[n] \in known /\ NotRewritten(EnvOf[n], todo)
    BY <1>2 DEF SuspectTogether, Gone
  <1> QED BY <1>1, <1>3 DEF Gone

\* The list names notebooks.
LEMMA ListedTypes ==
    ASSUME CellsInv
    PROVE  ListedNotebooks \in SUBSET Notebooks
  BY DEF CellsInv, FileTypes, ListedNotebooks, Loaded

\* The first step is sound.
LEMMA FirstSound ==
    ASSUME CellsInv, SoundSteps(todo), todo # <<>>
    PROVE  /\ SoundNb(todo, 1, Head(todo).do, Subject)
           /\ SoundEnv(todo, 1, Head(todo).do, Subject)
           /\ \A do, of : ~Precedes(todo, 1, do, of)
           /\ Head(todo) = todo[1] /\ 1 \in 1..Len(todo)
  <1>1. todo \in Seq(Steps)
    BY DEF CellsInv, FileTypes
  <1>2. Head(todo) = todo[1] /\ 1 \in 1..Len(todo) /\ Len(todo) \in Nat
    BY <1>1, FirstOf
  <1>3. \A do, of : ~Precedes(todo, 1, do, of)
    BY <1>2 DEF Precedes
  <1> QED BY <1>2, <1>3 DEF SoundSteps, SoundAt, Subject

\* The next step has one subject.
LEMMA OnlySubject ==
    ASSUME NEW do, NEW of, Is(Head(todo), do, of)
    PROVE  do = Head(todo).do /\ of = Subject
  BY DEF Is, Subject

\* Steps that are not about notebooks.
LEMMA SameNotebooks ==
    ASSUME CellsInv, NotebooksFollow, todo # <<>>, todo' = Tail(todo),
           UNCHANGED <<nbFile, nbIndex, suspectNbs>>,
           Head(todo).do \notin {"list nb", "unlist nb"}
    PROVE  NotebooksFollow'
  <1>1. /\ ListedNotebooks' = ListedNotebooks
        /\ \A n : IsStored(n)' <=> IsStored(n)
    BY DEF ListedNotebooks, IsStored
  <1>2. ASSUME NEW n \in Notebooks \ suspectNbs
        PROVE  ListRight(n)'
    <2>1. ~Is(Head(todo), "list nb", n) /\ ~Is(Head(todo), "unlist nb", n)
      BY DEF Is
    <2> QED BY <1>1, <2>1, ListPops
  <1> QED BY <1>2 DEF NotebooksFollow

\* A file of an environment is written; the entry is sure to follow.
LEMMA WriteEnvIndex ==
    ASSUME CellsInv, IndexInv, WriteEnv, known' = known, NEW s, s = Subject
    PROVE  IndexInv'
  <1>1. /\ todo # <<>> /\ todo' = Tail(todo) /\ Head(todo).do = "write env"
        /\ envFile' = [envFile EXCEPT ![s] = "stored"]
        /\ UNCHANGED <<nbFile, envIndex, nbIndex, suspectNbs, suspectEnvs>>
    BY DEF WriteEnv, NextStep, history
  <1>2. s \in known \cap Envs /\ Follows(todo, 1, "list env", s)
        /\ Head(todo) = todo[1] /\ 1 \in 1..Len(todo)
    BY <1>1, FirstSound DEF IndexInv, SoundEnv
  <1>3. /\ envFile'[s] = "stored"
        /\ \A e \in Envs : e # s => envFile'[e] = envFile[e]
    BY <1>1, <1>2 DEF IndexInv, EnvTypes
  <1>4. EnvTypes'
    <2>1. envFile' \in [Envs -> {Absent, Torn, "stored"}]
      BY <1>1 DEF IndexInv, EnvTypes
    <2>2. ListedEnvs' = ListedEnvs
      BY <1>1 DEF ListedEnvs
    <2> QED BY <1>1, <1>2, <1>3, <2>1, <2>2 DEF IndexInv, EnvTypes
  <1>5. /\ ListedNotebooks' = ListedNotebooks /\ \A n : IsStored(n)' <=> IsStored(n)
        /\ ListedEnvs' = ListedEnvs /\ \A e : Count(e)' = Count(e)
    BY <1>1 DEF ListedNotebooks, IsStored, ListedEnvs, Count
  <1>6. \A do, of : Is(Head(todo), do, of) => do = "write env" /\ of = s
    BY <1>1, OnlySubject
  <1>7. SoundSteps(todo)'
    <2>0. \A of : /\ ~Is(Head(todo), "write nb", of) /\ ~Is(Head(todo), "unlink nb", of)
                  /\ ~Is(Head(todo), "unlink env", of)
                  /\ Is(Head(todo), "write env", of) => of = s
      BY <1>1 DEF Is, Subject
    <2>1. ~Deletes(Head(todo)) /\ Saves(Head(todo))
      BY <1>1 DEF Deletes, Saves
    <2>2. PICK t : t = Tail(todo)
      OBVIOUS
    <2>3. \A n \in Notebooks : KeptNb(n)
      BY <1>1, <1>5, <2>0 DEF KeptNb
    <2>4. \A e \in Envs : KeptEnv(e)
      BY <1>3, <2>0, <2>1 DEF KeptEnv
    <2>5. SoundSteps(t)'
      BY <1>1, <2>2, <2>3, <2>4, SoundPops DEF IndexInv
    <2> QED BY <1>1, <2>2, <2>5, SoundTodo
  <1>8. NotebooksFollow'
    BY <1>1, SameNotebooks DEF IndexInv
  <1>9. EntriesFollow'
    <2> SUFFICES ASSUME NEW e \in Envs \ suspectEnvs
                 PROVE  EntryRight(e)'
      BY <1>1 DEF EntriesFollow
    <2>1. CASE e = s
      BY <1>1, <1>2, <2>1, SurePops DEF EntryRight, EntrySure
    <2>2. CASE e # s
      BY <1>1, <1>3, <1>5, <1>6, <2>2, EntryPops DEF IndexInv
    <2> QED BY <2>1, <2>2
  <1>10. SuspectTogether'
    <2>1. ~Gone(s)
      BY <1>1, <1>2 DEF Gone, NotRewritten, Is, Subject
    <2> QED BY <1>1, <1>3, <2>1, TogetherPop DEF IndexInv, Gone
  <1> QED BY <1>4, <1>7, <1>8, <1>9, <1>10 DEF IndexInv

\* It is removed; the entry is sure to go.
LEMMA UnlinkEnvIndex ==
    ASSUME CellsInv, IndexInv, UnlinkEnv, known' = known, NEW s, s = Subject
    PROVE  IndexInv'
  <1>1. /\ todo # <<>> /\ todo' = Tail(todo) /\ Head(todo).do = "unlink env"
        /\ envFile' = [envFile EXCEPT ![s] = Absent]
        /\ UNCHANGED <<nbFile, envIndex, nbIndex, suspectNbs, suspectEnvs>>
    BY DEF UnlinkEnv, NextStep, history
  <1>2. s \in known \cap Envs /\ Follows(todo, 1, "unlist env", s)
    BY <1>1, FirstSound DEF IndexInv, SoundEnv
  <1>3. /\ envFile'[s] = Absent
        /\ \A e \in Envs : e # s => envFile'[e] = envFile[e]
    BY <1>1, <1>2 DEF IndexInv, EnvTypes
  <1>4. EnvTypes'
    <2>1. envFile' \in [Envs -> {Absent, Torn, "stored"}]
      BY <1>1 DEF IndexInv, EnvTypes
    <2>2. ListedEnvs' = ListedEnvs
      BY <1>1 DEF ListedEnvs
    <2> QED BY <1>1, <1>2, <1>3, <2>1, <2>2 DEF IndexInv, EnvTypes
  <1>5. /\ ListedNotebooks' = ListedNotebooks /\ \A n : IsStored(n)' <=> IsStored(n)
        /\ ListedEnvs' = ListedEnvs /\ \A e : Count(e)' = Count(e)
    BY <1>1 DEF ListedNotebooks, IsStored, ListedEnvs, Count
  <1>6. \A do, of : Is(Head(todo), do, of) => do = "unlink env" /\ of = s
    BY <1>1, OnlySubject
  <1>7. SoundSteps(todo)'
    <2>0. \A of : /\ ~Is(Head(todo), "write nb", of) /\ ~Is(Head(todo), "unlink nb", of)
                  /\ ~Is(Head(todo), "write env", of)
                  /\ Is(Head(todo), "unlink env", of) => of = s
      BY <1>1 DEF Is, Subject
    <2>1. Deletes(Head(todo)) /\ ~Saves(Head(todo))
      BY <1>1 DEF Deletes, Saves
    <2>2. PICK t : t = Tail(todo)
      OBVIOUS
    <2>3. \A n \in Notebooks : KeptNb(n)
      BY <1>1, <1>5, <2>0 DEF KeptNb
    <2>4. \A e \in Envs : KeptEnv(e)
      BY <1>3, <2>0, <2>1 DEF KeptEnv
    <2>5. SoundSteps(t)'
      BY <1>1, <2>2, <2>3, <2>4, SoundPops DEF IndexInv
    <2> QED BY <1>1, <2>2, <2>5, SoundTodo
  <1>8. NotebooksFollow'
    BY <1>1, SameNotebooks DEF IndexInv
  <1>9. EntriesFollow'
    <2> SUFFICES ASSUME NEW e \in Envs \ suspectEnvs
                 PROVE  EntryRight(e)'
      BY <1>1 DEF EntriesFollow
    <2>1. CASE e = s
      BY <1>1, <1>2, <2>1, SurePops DEF EntryRight, EntrySure
    <2>2. CASE e # s
      BY <1>1, <1>3, <1>5, <1>6, <2>2, EntryPops DEF IndexInv
    <2> QED BY <2>1, <2>2
  <1>10. SuspectTogether'
    BY <1>1, <1>3, TogetherPop DEF IndexInv, Gone
  <1> QED BY <1>4, <1>7, <1>8, <1>9, <1>10 DEF IndexInv

\* Steps that are not about environments.
LEMMA SameEnvs ==
    ASSUME CellsInv, EnvTypes, EntriesFollow, todo # <<>>, todo' = Tail(todo), known' = known,
           UNCHANGED <<envFile, envIndex, suspectEnvs>>, suspectNbs' \subseteq suspectNbs,
           Head(todo).do \notin {"list env", "unlist env", "count"},
           \A e \in Envs \ suspectEnvs :
              Count(e)' = Count(e) \/ Sure("count", e)' \/ envFile[e] # "stored"
    PROVE  EnvTypes' /\ EntriesFollow'
  <1>1. ListedEnvs' = ListedEnvs
    BY DEF ListedEnvs
  <1>2. ASSUME NEW e \in Envs \ suspectEnvs
        PROVE  EntryRight(e)'
    <2>1. /\ ~Is(Head(todo), "list env", e) /\ ~Is(Head(todo), "unlist env", e)
          /\ ~Is(Head(todo), "count", e)
      BY DEF Is
    <2>2. Count(e)' = Count(e) \/ Sure("count", e)' \/ envFile[e] # "stored"
      BY <1>2
    <2> QED BY <1>1, <2>1, <2>2, EntryPops
  <1> QED BY <1>1, <1>2 DEF EntriesFollow, EnvTypes

\* A notebook's file is written; it is sure to be listed.
LEMMA WriteNotebookIndex ==
    ASSUME CellsInv, IndexInv, WriteNotebook, known' = known, NEW s, s = Subject
    PROVE  IndexInv'
  <1>1. /\ todo # <<>> /\ todo' = Tail(todo) /\ Head(todo).do = "write nb"
        /\ nbFile' = [nbFile EXCEPT ![s] = Head(todo).cells]
        /\ UNCHANGED <<envFile, envIndex, nbIndex, suspectNbs, suspectEnvs>>
    BY DEF WriteNotebook, NextStep, history
  <1>2. s \in Notebooks /\ Follows(todo, 1, "list nb", s)
    BY <1>1, FirstSound, NextIsWellMade DEF IndexInv, SoundNb, OfNotebook, Subject
  <1>3. /\ IsStored(s)' /\ ListedNotebooks' = ListedNotebooks
        /\ \A n \in Notebooks : n # s => nbFile'[n] = nbFile[n] /\ (IsStored(n)' <=> IsStored(n))
    <2>1. Head(todo).cells \in SUBSET Cells
      BY <1>1, NextIsWellMade DEF Steps
    <2>2. /\ nbFile'[s] = Head(todo).cells
          /\ \A n \in Notebooks : n # s => nbFile'[n] = nbFile[n]
      BY <1>1, <1>2 DEF CellsInv, FileTypes
    <2>3. Head(todo).cells \notin {Absent, Torn}
      BY <2>1, MarksAssumption
    <2> QED BY <1>1, <2>2, <2>3 DEF IsStored, ListedNotebooks
  <1>4. SoundSteps(todo)'
    <2>1. ~Deletes(Head(todo)) /\ Saves(Head(todo))
      BY <1>1 DEF Deletes, Saves
    <2>0. \A of : /\ ~Is(Head(todo), "write env", of) /\ ~Is(Head(todo), "unlink env", of)
                  /\ Is(Head(todo), "write nb", of) => of = s /\ "write nb" = "write nb"
                  /\ Is(Head(todo), "unlink nb", of) => of = s /\ "write nb" = "unlink nb"
      BY <1>1 DEF Is, Subject
    <2>2. PICK t : t = Tail(todo)
      OBVIOUS
    <2>3. \A n \in Notebooks : KeptNb(n)
      BY <1>1, <1>2, <1>3, <2>0, <2>1 DEF KeptNb
    <2>4. \A e \in Envs : KeptEnv(e)
      BY <1>1, <2>0, <2>1 DEF KeptEnv
    <2>5. SoundSteps(t)'
      BY <1>1, <2>2, <2>3, <2>4, SoundPops DEF IndexInv
    <2> QED BY <1>1, <2>2, <2>5, SoundTodo
  <1>5. NotebooksFollow'
    <2> SUFFICES ASSUME NEW n \in Notebooks \ suspectNbs PROVE ListRight(n)'
      BY <1>1 DEF NotebooksFollow
    <2>1. CASE n = s
      BY <1>1, <1>2, <2>1, SurePops DEF ListRight
    <2>2. CASE n # s
      <3>1. ~Is(Head(todo), "list nb", n) /\ ~Is(Head(todo), "unlist nb", n)
        BY <1>1 DEF Is
      <3> QED BY <1>1, <1>3, <2>2, <3>1, ListPops DEF IndexInv
    <2> QED BY <2>1, <2>2
  <1>6. EnvTypes' /\ EntriesFollow'
    <2>1. \A e \in Envs \ suspectEnvs : Count(e)' = Count(e)
      BY <1>3 DEF Count
    <2> QED BY <1>1, <2>1, SameEnvs DEF IndexInv
  <1>7. SuspectTogether'
    BY <1>1, TogetherPop DEF IndexInv, Gone
  <1> QED BY <1>4, <1>5, <1>6, <1>7 DEF IndexInv

\* It is removed; the notebook is sure to be taken from the list.
LEMMA UnlinkNotebookIndex ==
    ASSUME CellsInv, IndexInv, UnlinkNotebook, known' = known, NEW s, s = Subject
    PROVE  IndexInv'
  <1>1. /\ todo # <<>> /\ todo' = Tail(todo) /\ Head(todo).do = "unlink nb"
        /\ nbFile' = [nbFile EXCEPT ![s] = Absent]
        /\ UNCHANGED <<envFile, envIndex, nbIndex, suspectNbs, suspectEnvs>>
    BY DEF UnlinkNotebook, NextStep, history
  <1>2. s \in Notebooks /\ Follows(todo, 1, "unlist nb", s)
    BY <1>1, FirstSound, NextIsWellMade DEF IndexInv, SoundNb, OfNotebook, Subject
  <1>3. /\ nbFile'[s] = Absent /\ ListedNotebooks' = ListedNotebooks
        /\ \A n \in Notebooks : n # s => nbFile'[n] = nbFile[n] /\ (IsStored(n)' <=> IsStored(n))
    <2>1. /\ nbFile'[s] = Absent
          /\ \A n \in Notebooks : n # s => nbFile'[n] = nbFile[n]
      BY <1>1, <1>2 DEF CellsInv, FileTypes
    <2> QED BY <1>1, <2>1 DEF IsStored, ListedNotebooks
  <1>4. SoundSteps(todo)'
    <2>1. Deletes(Head(todo)) /\ ~Saves(Head(todo))
      BY <1>1 DEF Deletes, Saves
    <2>0. \A of : /\ ~Is(Head(todo), "write env", of) /\ ~Is(Head(todo), "unlink env", of)
                  /\ Is(Head(todo), "write nb", of) => of = s /\ "unlink nb" = "write nb"
                  /\ Is(Head(todo), "unlink nb", of) => of = s /\ "unlink nb" = "unlink nb"
      BY <1>1 DEF Is, Subject
    <2>2. PICK t : t = Tail(todo)
      OBVIOUS
    <2>3. \A n \in Notebooks : KeptNb(n)
      BY <1>1, <1>2, <1>3, <2>0, <2>1 DEF KeptNb
    <2>4. \A e \in Envs : KeptEnv(e)
      BY <1>1, <2>0, <2>1 DEF KeptEnv
    <2>5. SoundSteps(t)'
      BY <1>1, <2>2, <2>3, <2>4, SoundPops DEF IndexInv
    <2> QED BY <1>1, <2>2, <2>5, SoundTodo
  <1>5. NotebooksFollow'
    <2> SUFFICES ASSUME NEW n \in Notebooks \ suspectNbs PROVE ListRight(n)'
      BY <1>1 DEF NotebooksFollow
    <2>1. CASE n = s
      BY <1>1, <1>2, <2>1, SurePops DEF ListRight
    <2>2. CASE n # s
      <3>1. ~Is(Head(todo), "list nb", n) /\ ~Is(Head(todo), "unlist nb", n)
        BY <1>1 DEF Is
      <3> QED BY <1>1, <1>3, <2>2, <3>1, ListPops DEF IndexInv
    <2> QED BY <2>1, <2>2
  <1>6. EnvTypes' /\ EntriesFollow'
    <2>1. \A e \in Envs \ suspectEnvs : Count(e)' = Count(e)
      BY <1>3 DEF Count
    <2> QED BY <1>1, <2>1, SameEnvs DEF IndexInv
  <1>7. SuspectTogether'
    BY <1>1, TogetherPop DEF IndexInv, Gone
  <1> QED BY <1>4, <1>5, <1>6, <1>7 DEF IndexInv

\* The notebook has its file when it is listed. If it was not listed before, a count follows,
\* or the crash that hit it hit its environment's count too.
LEMMA ListNotebookIndex ==
    ASSUME CellsInv, IndexInv, ListNotebook, known' = known, NEW s, s = Subject
    PROVE  IndexInv'
  <1>1. /\ todo # <<>> /\ todo' = Tail(todo) /\ Head(todo).do = "list nb"
        /\ nbIndex' = ListedNotebooks \cup {s} /\ suspectNbs' = suspectNbs \ {s}
        /\ UNCHANGED <<envFile, nbFile, envIndex, suspectEnvs>>
    BY DEF ListNotebook, NextStep
  <1>2. /\ s \in Notebooks /\ IsStored(s)
        /\ s \in ListedNotebooks \cup suspectNbs \/ Follows(todo, 1, "count", EnvOf[s])
    BY <1>1, FirstSound, NextIsWellMade DEF IndexInv, SoundNb, OfNotebook, Subject
  <1>3. /\ ListedNotebooks \in SUBSET Notebooks /\ ListedNotebooks' = ListedNotebooks \cup {s}
        /\ \A n : (IsStored(n)' <=> IsStored(n)) /\ nbFile'[n] = nbFile[n]
    <2>1. ListedNotebooks \in SUBSET Notebooks
      BY ListedTypes
    <2>2. ListedNotebooks \cup {s} # Torn
      BY <1>2, <2>1, MarksAssumption
    <2> QED BY <1>1, <2>1, <2>2 DEF IsStored, ListedNotebooks, Loaded
  <1>4. SoundSteps(todo)'
    <2>1. ~Deletes(Head(todo)) /\ Saves(Head(todo))
      BY <1>1 DEF Deletes, Saves
    <2>0. \A of : /\ ~Is(Head(todo), "write env", of) /\ ~Is(Head(todo), "unlink env", of)
                  /\ Is(Head(todo), "write nb", of) => of = s /\ "list nb" = "write nb"
                  /\ Is(Head(todo), "unlink nb", of) => of = s /\ "list nb" = "unlink nb"
      BY <1>1 DEF Is, Subject
    <2>2. PICK t : t = Tail(todo)
      OBVIOUS
    <2>3. \A n \in Notebooks : KeptNb(n)
      BY <1>1, <1>2, <1>3, <2>0, <2>1 DEF KeptNb
    <2>4. \A e \in Envs : KeptEnv(e)
      BY <1>1, <2>0, <2>1 DEF KeptEnv
    <2>5. SoundSteps(t)'
      BY <1>1, <2>2, <2>3, <2>4, SoundPops DEF IndexInv
    <2> QED BY <1>1, <2>2, <2>5, SoundTodo
  <1>5. NotebooksFollow'
    <2> SUFFICES ASSUME NEW n \in Notebooks, n \notin suspectNbs' PROVE ListRight(n)'
      BY DEF NotebooksFollow
    <2>1. CASE n = s
      BY <1>2, <1>3, <2>1 DEF ListRight
    <2>2. CASE n # s
      <3>1. ~Is(Head(todo), "list nb", n) /\ ~Is(Head(todo), "unlist nb", n)
        BY <1>1, <2>2 DEF Is, Subject
      <3> QED BY <1>1, <1>3, <2>2, <3>1, ListPops DEF IndexInv
    <2> QED BY <2>1, <2>2
  <1>6. EnvTypes' /\ EntriesFollow'
    <2>1. ASSUME NEW e \in Envs \ suspectEnvs, Count(e)' # Count(e), ~Sure("count", e)'
          PROVE  envFile[e] # "stored"
      <3>1. EnvOf[s] = e /\ s \notin ListedNotebooks
        BY <1>2, <1>3, <2>1, CountOf
      <3>2. s \in suspectNbs
        BY <1>1, <1>2, <2>1, <3>1, SurePops
      <3> QED BY <2>1, <3>1, <3>2, MarksAssumption DEF IndexInv, SuspectTogether, Gone
    <2> QED BY <1>1, <2>1, SameEnvs DEF IndexInv
  <1>7. SuspectTogether'
    BY <1>1, TogetherPop DEF IndexInv, Gone
  <1> QED BY <1>4, <1>5, <1>6, <1>7 DEF IndexInv

\* The notebook has no file when it is taken from the list, and a count follows.
LEMMA UnlistNotebookIndex ==
    ASSUME CellsInv, IndexInv, UnlistNotebook, known' = known, NEW s, s = Subject
    PROVE  IndexInv'
  <1>1. /\ todo # <<>> /\ todo' = Tail(todo) /\ Head(todo).do = "unlist nb"
        /\ nbIndex' = ListedNotebooks \ {s} /\ suspectNbs' = suspectNbs \ {s}
        /\ UNCHANGED <<envFile, nbFile, envIndex, suspectEnvs>>
    BY DEF UnlistNotebook, NextStep
  <1>2. s \in Notebooks /\ nbFile[s] = Absent /\ Follows(todo, 1, "count", EnvOf[s])
    BY <1>1, FirstSound, NextIsWellMade DEF IndexInv, SoundNb, OfNotebook, Subject
  <1>3. /\ ListedNotebooks \in SUBSET Notebooks /\ ListedNotebooks' = ListedNotebooks \ {s}
        /\ \A n : (IsStored(n)' <=> IsStored(n)) /\ nbFile'[n] = nbFile[n]
    <2>1. ListedNotebooks \in SUBSET Notebooks
      BY ListedTypes
    <2>2. ListedNotebooks \ {s} # Torn
      BY <2>1, MarksAssumption
    <2> QED BY <1>1, <2>1, <2>2 DEF IsStored, ListedNotebooks, Loaded
  <1>4. SoundSteps(todo)'
    <2>1. Deletes(Head(todo)) /\ ~Saves(Head(todo))
      BY <1>1 DEF Deletes, Saves
    <2>0. \A of : /\ ~Is(Head(todo), "write env", of) /\ ~Is(Head(todo), "unlink env", of)
                  /\ Is(Head(todo), "write nb", of) => of = s /\ "unlist nb" = "write nb"
                  /\ Is(Head(todo), "unlink nb", of) => of = s /\ "unlist nb" = "unlink nb"
      BY <1>1 DEF Is, Subject
    <2>2. PICK t : t = Tail(todo)
      OBVIOUS
    <2>3. \A n \in Notebooks : KeptNb(n)
      BY <1>1, <1>2, <1>3, <2>0, <2>1 DEF KeptNb
    <2>4. \A e \in Envs : KeptEnv(e)
      BY <1>1, <2>0, <2>1 DEF KeptEnv
    <2>5. SoundSteps(t)'
      BY <1>1, <2>2, <2>3, <2>4, SoundPops DEF IndexInv
    <2> QED BY <1>1, <2>2, <2>5, SoundTodo
  <1>5. NotebooksFollow'
    <2> SUFFICES ASSUME NEW n \in Notebooks, n \notin suspectNbs' PROVE ListRight(n)'
      BY DEF NotebooksFollow
    <2>1. CASE n = s
      BY <1>2, <1>3, <2>1 DEF ListRight, IsStored
    <2>2. CASE n # s
      <3>1. ~Is(Head(todo), "list nb", n) /\ ~Is(Head(todo), "unlist nb", n)
        BY <1>1, <2>2 DEF Is, Subject
      <3> QED BY <1>1, <1>3, <2>2, <3>1, ListPops DEF IndexInv
    <2> QED BY <2>1, <2>2
  <1>6. EnvTypes' /\ EntriesFollow'
    <2>1. ASSUME NEW e \in Envs \ suspectEnvs, Count(e)' # Count(e)
          PROVE  Sure("count", e)'
      <3>1. EnvOf[s] = e
        BY <1>2, <1>3, <2>1, CountOf
      <3> QED BY <1>1, <1>2, <3>1, SurePops
    <2> QED BY <1>1, <2>1, SameEnvs DEF IndexInv
  <1>7. SuspectTogether'
    BY <1>1, TogetherPop DEF IndexInv, Gone
  <1> QED BY <1>4, <1>5, <1>6, <1>7 DEF IndexInv

\* The environment has its file when its entry is written, with the count of this moment.
LEMMA ListEnvIndex ==
    ASSUME CellsInv, IndexInv, ListEnv, known' = known, NEW s, s = Subject
    PROVE  IndexInv'
  <1>1. /\ todo # <<>> /\ todo' = Tail(todo) /\ UNCHANGED <<envFile, nbFile, nbIndex, suspectNbs>>
        /\ \/ Head(todo).do = "list env"
           \/ Head(todo).do = "count" /\ envFile[s] = "stored"
    BY DEF ListEnv, NextStep
  <1>2. s \in Envs /\ envFile[s] = "stored"
    BY <1>1, FirstSound DEF IndexInv, SoundEnv
  <1>3. /\ ListedNotebooks \in SUBSET Notebooks /\ ListedNotebooks' = ListedNotebooks
        /\ \A n : IsStored(n)' <=> IsStored(n)
        /\ \A e : Count(e)' = Count(e)
    BY <1>1, ListedTypes DEF IsStored, ListedNotebooks, Count
  <1>4. /\ ListedEnvs' \in EnvEntries /\ s \in DOMAIN ListedEnvs' /\ (ListedEnvs[s])' = Count(s)
        /\ \A e \in Envs : e # s => /\ e \in DOMAIN ListedEnvs' <=> e \in DOMAIN ListedEnvs
                                    /\ e \in DOMAIN ListedEnvs => (ListedEnvs[e])' = ListedEnvs[e]
    <2>1. PICK D \in SUBSET Envs : ListedEnvs \in [D -> Nat]
      BY DEF IndexInv, EnvTypes, EnvEntries
    <2>2. Count(s) \in Nat
      <3>1. {n \in ListedNotebooks : EnvOf[n] = s} \in SUBSET Notebooks
        BY <1>3
      <3> QED BY <3>1, StoreAssumption, FS_Subset, FS_CardinalityType DEF Count
    <2>3. envIndex' = [f \in D \cup {s} |-> IF f = s THEN Count(s) ELSE ListedEnvs[f]]
      BY <2>1 DEF ListEnv, EntryWritten
    <2>4. envIndex' \in [D \cup {s} -> Nat]
      BY <2>1, <2>2, <2>3
    <2>5. D \cup {s} \in SUBSET Envs
      BY <1>2
    <2>6. envIndex' # Torn
      BY <2>4, <2>5, MarksAssumption
    <2>7. ListedEnvs' = envIndex'
      BY <2>6 DEF ListedEnvs, Loaded
    <2>8. ListedEnvs' \in EnvEntries
      BY <2>4, <2>5, <2>7 DEF EnvEntries
    <2> QED BY <2>1, <2>3, <2>7, <2>8
  <1>5. /\ suspectEnvs' \subseteq suspectEnvs
        /\ \A e : e \in suspectEnvs /\ e \notin suspectEnvs' =>
                     e = s /\ \A n \in suspectNbs : EnvOf[n] # e
    BY DEF ListEnv, EnvTrusted
  <1>6. SoundSteps(todo)'
    <2>1. \A of : /\ ~Is(Head(todo), "write env", of) /\ ~Is(Head(todo), "unlink env", of)
                  /\ ~Is(Head(todo), "write nb", of) /\ ~Is(Head(todo), "unlink nb", of)
      BY <1>1 DEF Is, Subject
    <2>2. PICK t : t = Tail(todo)
      OBVIOUS
    <2>3. \A n \in Notebooks : KeptNb(n)
      BY <1>1, <1>3, <2>1 DEF KeptNb
    <2>4. \A e \in Envs : KeptEnv(e)
      BY <1>1, <2>1 DEF KeptEnv
    <2>5. SoundSteps(t)'
      BY <1>1, <2>2, <2>3, <2>4, SoundPops DEF IndexInv
    <2> QED BY <1>1, <2>2, <2>5, SoundTodo
  <1>7. NotebooksFollow'
    BY <1>1, SameNotebooks DEF IndexInv
  <1>8. EntriesFollow'
    <2> SUFFICES ASSUME NEW e \in Envs, e \notin suspectEnvs' PROVE EntryRight(e)'
      BY DEF EntriesFollow
    <2>1. CASE e = s
      BY <1>1, <1>2, <1>3, <1>4, <2>1 DEF EntryRight
    <2>2. CASE e # s
      <3>1. /\ ~Is(Head(todo), "list env", e) /\ ~Is(Head(todo), "unlist env", e)
            /\ ~Is(Head(todo), "count", e)
        BY <2>2 DEF Is, Subject
      <3>2. e \in Envs \ suspectEnvs
        BY <1>5, <2>2
      <3> QED BY <1>1, <1>3, <1>4, <2>2, <3>1, <3>2, EntryPops DEF IndexInv
    <2> QED BY <2>1, <2>2
  <1>9. EnvTypes'
    BY <1>1, <1>4 DEF IndexInv, EnvTypes
  <1>10. SuspectTogether'
    BY <1>1, <1>5, TogetherPop DEF IndexInv, Gone
  <1> QED BY <1>6, <1>7, <1>8, <1>9, <1>10 DEF IndexInv

\* The environment has no file when its entry goes, and nothing left brings it back.
LEMMA UnlistEnvIndex ==
    ASSUME CellsInv, IndexInv, UnlistEnv, known' = known, NEW s, s = Subject
    PROVE  IndexInv'
  <1>1. /\ todo # <<>> /\ todo' = Tail(todo) /\ UNCHANGED <<envFile, nbFile, nbIndex, suspectNbs>>
        /\ Head(todo).do = "unlist env" /\ suspectEnvs' = suspectEnvs \ {s}
    BY DEF UnlistEnv, NextStep
  <1>2. s \in known \cap Envs /\ envFile[s] = Absent
    BY <1>1, FirstSound DEF IndexInv, SoundEnv
  <1>3. /\ ListedNotebooks' = ListedNotebooks
        /\ \A n : IsStored(n)' <=> IsStored(n)
        /\ \A e : Count(e)' = Count(e)
    BY <1>1 DEF IsStored, ListedNotebooks, Count
  <1>4. /\ ListedEnvs' \in EnvEntries /\ s \notin DOMAIN ListedEnvs'
        /\ \A e \in Envs : e # s => /\ e \in DOMAIN ListedEnvs' <=> e \in DOMAIN ListedEnvs
                                    /\ e \in DOMAIN ListedEnvs => (ListedEnvs[e])' = ListedEnvs[e]
    <2>1. PICK D \in SUBSET Envs : ListedEnvs \in [D -> Nat]
      BY DEF IndexInv, EnvTypes, EnvEntries
    <2>3. envIndex' = [f \in D \ {s} |-> ListedEnvs[f]]
      BY <2>1 DEF UnlistEnv
    <2>4. envIndex' \in [D \ {s} -> Nat]
      BY <2>1, <2>3
    <2>5. D \ {s} \in SUBSET Envs
      BY <1>2
    <2>6. envIndex' # Torn
      BY <2>4, <2>5, MarksAssumption
    <2>7. ListedEnvs' = envIndex'
      BY <2>6 DEF ListedEnvs, Loaded
    <2>8. ListedEnvs' \in EnvEntries
      BY <2>4, <2>5, <2>7 DEF EnvEntries
    <2> QED BY <2>1, <2>3, <2>7, <2>8
  <1>6. SoundSteps(todo)'
    <2>1. \A of : /\ ~Is(Head(todo), "write env", of) /\ ~Is(Head(todo), "unlink env", of)
                  /\ ~Is(Head(todo), "write nb", of) /\ ~Is(Head(todo), "unlink nb", of)
      BY <1>1 DEF Is, Subject
    <2>2. PICK t : t = Tail(todo)
      OBVIOUS
    <2>3. \A n \in Notebooks : KeptNb(n)
      BY <1>1, <1>3, <2>1 DEF KeptNb
    <2>4. \A e \in Envs : KeptEnv(e)
      BY <1>1, <2>1 DEF KeptEnv
    <2>5. SoundSteps(t)'
      BY <1>1, <2>2, <2>3, <2>4, SoundPops DEF IndexInv
    <2> QED BY <1>1, <2>2, <2>5, SoundTodo
  <1>7. NotebooksFollow'
    BY <1>1, SameNotebooks DEF IndexInv
  <1>8. EntriesFollow'
    <2> SUFFICES ASSUME NEW e \in Envs, e \notin suspectEnvs' PROVE EntryRight(e)'
      BY DEF EntriesFollow
    <2>1. CASE e = s
      BY <1>1, <1>2, <1>4, <2>1, MarksAssumption DEF EntryRight
    <2>2. CASE e # s
      <3>1. /\ ~Is(Head(todo), "list env", e) /\ ~Is(Head(todo), "unlist env", e)
            /\ ~Is(Head(todo), "count", e)
        BY <2>2 DEF Is, Subject
      <3>2. e \in Envs \ suspectEnvs
        BY <1>1, <2>2
      <3> QED BY <1>1, <1>3, <1>4, <2>2, <3>1, <3>2, EntryPops DEF IndexInv
    <2> QED BY <2>1, <2>2
  <1>9. EnvTypes'
    BY <1>1, <1>4 DEF IndexInv, EnvTypes
  <1>10. SuspectTogether'
    <2>1. NotRewritten(s, todo)
      <3>1. \A i \in 1..Len(todo) : ~Saves(todo[i])
        <4>1. Deletes(todo[1]) /\ 1 \in 1..Len(todo)
          BY <1>1, FirstSound DEF IndexInv, Deletes
        <4> QED BY <4>1 DEF IndexInv, SoundSteps, OneKind
      <3> QED BY <3>1 DEF NotRewritten, Is, Saves
    <2> QED BY <1>1, <1>2, <2>1, TogetherPop DEF IndexInv, Gone
  <1> QED BY <1>6, <1>7, <1>8, <1>9, <1>10 DEF IndexInv

-----------------------------------------------------------------------------
(* A handler with nothing left that is sure. *)

\* What the index must be between two requests.
Agreed ==
    /\ \A n \in Notebooks \ suspectNbs : n \in ListedNotebooks <=> IsStored(n)
    /\ \A e \in Envs \ suspectEnvs :
        /\ e \in DOMAIN ListedEnvs <=> envFile[e] = "stored"
        /\ e \in DOMAIN ListedEnvs => ListedEnvs[e] = Count(e)

\* Nothing is sure between two requests, nor before a step that may end the handler.
LEMMA AgreedNow ==
    ASSUME CellsInv, IndexInv,
           \/ todo = <<>>
           \/ /\ todo # <<>>
              /\ \/ Head(todo).do = "delete nb"
                 \/ Head(todo).do = "count" /\ envFile[Subject] # "stored"
    PROVE  Agreed
  <1>1. ASSUME NEW do, NEW of, Sure(do, of)
        PROVE  (do = "count" /\ envFile[of] # "stored") \/ do = "delete nb"
    <2>1. todo # <<>> /\ MayEnd(Head(todo))
      BY <1>1, NothingLeft DEF MayEnd
    <2>2. do = Head(todo).do /\ of = Subject
      BY <1>1, <2>1, NothingSure, OnlySubject
    <2> QED BY <2>1, <2>2
  <1>2. \A of : /\ ~Sure("list nb", of) /\ ~Sure("unlist nb", of)
                /\ ~EntrySure(of) /\ (Sure("count", of) => envFile[of] # "stored")
    BY <1>1 DEF EntrySure
  <1>3. \A n \in Notebooks \ suspectNbs : n \in ListedNotebooks <=> IsStored(n)
    BY <1>2 DEF IndexInv, NotebooksFollow, ListRight
  <1>4. ASSUME NEW e \in Envs \ suspectEnvs
        PROVE  /\ e \in DOMAIN ListedEnvs <=> envFile[e] = "stored"
               /\ e \in DOMAIN ListedEnvs => ListedEnvs[e] = Count(e)
    BY <1>2 DEF IndexInv, EntriesFollow, EntryRight
  <1> QED BY <1>3, <1>4 DEF Agreed

\* What agrees stays so while nothing is written, whatever is to be done next.
LEMMA StaysAgreed ==
    ASSUME CellsInv, IndexInv, Agreed, ListedNotebooks' = ListedNotebooks,
           UNCHANGED <<envFile, nbFile, envIndex, suspectNbs, suspectEnvs>>,
           known \subseteq known', NEW steps, todo' = steps, SoundSteps(steps)',
           \A e \in Envs : Gone(e) => NotRewritten(e, steps)
    PROVE  IndexInv'
  <1>1. SoundSteps(todo)'
    BY SoundTodo
  <1>2. /\ ListedEnvs' = ListedEnvs /\ \A n : IsStored(n)' <=> IsStored(n)
        /\ \A e : Count(e)' = Count(e)
    BY DEF ListedEnvs, IsStored, Count
  <1>3. NotebooksFollow'
    BY <1>2 DEF Agreed, NotebooksFollow, ListRight
  <1>4. EntriesFollow'
    BY <1>2 DEF Agreed, EntriesFollow, EntryRight
  <1>5. EnvTypes'
    BY <1>2 DEF IndexInv, EnvTypes
  <1>6. SuspectTogether'
    <2>1. \A n \in suspectNbs : EnvOf[n] \in Envs
      BY StoreAssumption DEF IndexInv, EnvTypes
    <2>2. \A e \in Envs : Gone(e) => Gone(e)'
      BY DEF Gone, NotRewritten
    <2> QED BY <2>1, <2>2 DEF IndexInv, SuspectTogether
  <1> QED BY <1>1, <1>3, <1>4, <1>5, <1>6 DEF IndexInv

-----------------------------------------------------------------------------
(* Two lists of steps, one after the other. *)

\* The elements of a concatenation.
LEMMA JoinFacts ==
    ASSUME NEW p \in Seq(Steps), NEW q \in Seq(Steps)
    PROVE  /\ Len(p) \in Nat /\ Len(q) \in Nat /\ Len(p \o q) = Len(p) + Len(q)
           /\ \A i \in 1..Len(p) : i \in 1..Len(p \o q) /\ (p \o q)[i] = p[i]
           /\ \A i \in 1..Len(q) :
                 i + Len(p) \in 1..Len(p \o q) /\ (p \o q)[i + Len(p)] = q[i]
           /\ \A i \in 1..Len(p \o q) :
                 i \in 1..Len(p) \/ (i - Len(p) \in 1..Len(q) /\ (i - Len(p)) + Len(p) = i)
  OBVIOUS

\* What no element of two lists does, none of both does.
LEMMA JoinPlain ==
    ASSUME NEW p \in Seq(Steps), NEW q \in Seq(Steps)
    PROVE  /\ (\A i \in 1..Len(p) : ~Saves(p[i])) /\ (\A i \in 1..Len(q) : ~Saves(q[i]))
                => \A i \in 1..Len(p \o q) : ~Saves((p \o q)[i])
           /\ (\A i \in 1..Len(p) : ~Deletes(p[i])) /\ (\A i \in 1..Len(q) : ~Deletes(q[i]))
                => \A i \in 1..Len(p \o q) : ~Deletes((p \o q)[i])
           /\ \A f : NotRewritten(f, p) /\ NotRewritten(f, q) => NotRewritten(f, p \o q)
  <1> DEFINE r == p \o q
  <1>1. \A i \in 1..Len(r) : \/ i \in 1..Len(p) /\ r[i] = p[i]
                             \/ \E j \in 1..Len(q) : r[i] = q[j]
    BY JoinFacts
  <1> HIDE DEF r
  <1>2. \A f : NotRewritten(f, p) /\ NotRewritten(f, q) => NotRewritten(f, r)
    BY <1>1 DEF NotRewritten
  <1>3. (\A i \in 1..Len(p) : ~Saves(p[i])) /\ (\A i \in 1..Len(q) : ~Saves(q[i]))
           => \A i \in 1..Len(r) : ~Saves(r[i])
    BY <1>1
  <1>4. (\A i \in 1..Len(p) : ~Deletes(p[i])) /\ (\A i \in 1..Len(q) : ~Deletes(q[i]))
           => \A i \in 1..Len(r) : ~Deletes(r[i])
    BY <1>1
  <1> QED BY <1>2, <1>3, <1>4 DEF r

\* What follows or precedes in a list does so in a longer one.
LEMMA JoinFollows ==
    ASSUME NEW p \in Seq(Steps), NEW q \in Seq(Steps), NEW i \in Nat, NEW do, NEW of
    PROVE  /\ Follows(p, i, do, of) => Follows(p \o q, i, do, of)
           /\ Follows(q, i, do, of) => Follows(p \o q, i + Len(p), do, of)
           /\ Precedes(p, i, do, of) => Precedes(p \o q, i, do, of)
           /\ Precedes(q, i, do, of) => Precedes(p \o q, i + Len(p), do, of)
  <1> DEFINE r == p \o q
  <1>1. /\ Len(p) \in Nat /\ Len(q) \in Nat /\ Len(r) = Len(p) + Len(q)
        /\ \A k \in 1..Len(p) : k \in 1..Len(r) /\ r[k] = p[k]
        /\ \A k \in 1..Len(q) : k + Len(p) \in 1..Len(r) /\ r[k + Len(p)] = q[k]
        /\ \A k \in 1..Len(r) :
              k \in 1..Len(p) \/ (k - Len(p) \in 1..Len(q) /\ (k - Len(p)) + Len(p) = k)
    BY JoinFacts, Zenon
  <1> HIDE DEF r
  <1>2. ASSUME Follows(p, i, do, of) PROVE Follows(r, i, do, of)
    <2>1. PICK j \in 1..Len(p) :
              /\ i < j /\ Is(p[j], do, of)
              /\ \A h \in 1..Len(p) : i < h /\ h < j => ~MayEnd(p[h])
      BY <1>2 DEF Follows
    <2>2. ASSUME NEW h \in 1..Len(r), i < h, h < j PROVE ~MayEnd(r[h])
      <3>1. h \in 1..Len(p)
        BY <1>1, <2>2
      <3> QED BY <1>1, <2>1, <2>2, <3>1
    <2>3. j \in 1..Len(r) /\ r[j] = p[j]
      BY <1>1
    <2> QED BY <2>1, <2>2, <2>3 DEF Follows
  <1>3. ASSUME Follows(q, i, do, of) PROVE Follows(r, i + Len(p), do, of)
    <2>1. PICK j \in 1..Len(q) :
              /\ i < j /\ Is(q[j], do, of)
              /\ \A h \in 1..Len(q) : i < h /\ h < j => ~MayEnd(q[h])
      BY <1>3 DEF Follows
    <2>2. ASSUME NEW h \in 1..Len(r), i + Len(p) < h, h < j + Len(p) PROVE ~MayEnd(r[h])
      <3>1. h - Len(p) \in 1..Len(q) /\ (h - Len(p)) + Len(p) = h
        BY <1>1, <2>2
      <3>2. i < h - Len(p) /\ h - Len(p) < j
        BY <1>1, <2>2
      <3>3. ~MayEnd(q[h - Len(p)])
        BY <2>1, <3>1, <3>2
      <3>4. r[h] = q[h - Len(p)]
        BY <1>1, <3>1
      <3> QED BY <3>3, <3>4
    <2>3. j + Len(p) \in 1..Len(r) /\ r[j + Len(p)] = q[j] /\ i + Len(p) < j + Len(p)
      BY <1>1, <2>1
    <2> QED BY <2>1, <2>2, <2>3 DEF Follows
  <1>4. Precedes(p, i, do, of) => Precedes(r, i, do, of)
    BY <1>1 DEF Precedes
  <1>5. ASSUME Precedes(q, i, do, of) PROVE Precedes(r, i + Len(p), do, of)
    <2>1. PICK j \in 1..Len(q) : j < i /\ Is(q[j], do, of)
      BY <1>5 DEF Precedes
    <2>2. j + Len(p) \in 1..Len(r) /\ r[j + Len(p)] = q[j] /\ j + Len(p) < i + Len(p)
      BY <1>1, <2>1
    <2> QED BY <2>1, <2>2 DEF Precedes
  <1> QED BY <1>2, <1>3, <1>4, <1>5 DEF r

\* Two sound lists make a sound one.
LEMMA JoinSound ==
    ASSUME NEW p \in Seq(Steps), NEW q \in Seq(Steps), OneKind(p \o q),
           SoundSteps(p)', SoundSteps(q)'
    PROVE  SoundSteps(p \o q)'
  <1> DEFINE r == p \o q
  <1>1. /\ Len(p) \in Nat /\ Len(q) \in Nat
        /\ \A k \in 1..Len(p) : r[k] = p[k]
        /\ \A k \in 1..Len(q) : r[k + Len(p)] = q[k]
        /\ \A k \in 1..Len(r) :
              k \in 1..Len(p) \/ (k - Len(p) \in 1..Len(q) /\ (k - Len(p)) + Len(p) = k)
    BY JoinFacts, Zenon
  <1>2. \A i \in Nat : \A d, o :
           /\ Follows(p, i, d, o) => Follows(r, i, d, o)
           /\ Follows(q, i, d, o) => Follows(r, i + Len(p), d, o)
           /\ Precedes(p, i, d, o) => Precedes(r, i, d, o)
           /\ Precedes(q, i, d, o) => Precedes(r, i + Len(p), d, o)
    BY JoinFollows, Zenon
  <1>3. OneKind(r)
    OBVIOUS
  <1> HIDE DEF r
  <1> SUFFICES ASSUME NEW i \in 1..Len(r), NEW do, NEW of, Is(r[i], do, of)
               PROVE  (SoundNb(r, i, do, of) /\ SoundEnv(r, i, do, of))'
    <2>1. SoundSteps(r)'
      BY <1>3, SoundByStep
    <2> QED BY <2>1 DEF r
  <1>4. CASE i \in 1..Len(p)
    <2>1. p[i].do = do /\ p[i].of = of /\ i \in Nat
      BY <1>1, <1>4 DEF Is
    <2>2. (SoundNb(p, i, p[i].do, p[i].of) /\ SoundEnv(p, i, p[i].do, p[i].of))'
      BY <1>4 DEF SoundSteps, SoundAt
    <2>3. (SoundNb(p, i, do, of) /\ SoundEnv(p, i, do, of))'
      BY <2>1, <2>2
    <2>4. \A d, o : /\ Follows(p, i, d, o) => Follows(r, i, d, o)
                    /\ Precedes(p, i, d, o) => Precedes(r, i, d, o)
      BY <1>2, <2>1
    <2> QED BY <2>3, <2>4 DEF SoundNb, SoundEnv
  <1>5. CASE i - Len(p) \in 1..Len(q) /\ (i - Len(p)) + Len(p) = i
    <2>1. PICK k \in 1..Len(q) : k + Len(p) = i
      BY <1>5
    <2>2. q[k].do = do /\ q[k].of = of /\ k \in Nat
      BY <1>1, <2>1 DEF Is
    <2>3. (SoundNb(q, k, q[k].do, q[k].of) /\ SoundEnv(q, k, q[k].do, q[k].of))'
      BY DEF SoundSteps, SoundAt
    <2>4. (SoundNb(q, k, do, of) /\ SoundEnv(q, k, do, of))'
      BY <2>2, <2>3
    <2>5. \A d, o : /\ Follows(q, k, d, o) => Follows(r, i, d, o)
                    /\ Precedes(q, k, d, o) => Precedes(r, i, d, o)
      BY <1>2, <2>1, <2>2
    <2> QED BY <2>4, <2>5 DEF SoundNb, SoundEnv
  <1> QED BY <1>1, <1>4, <1>5

-----------------------------------------------------------------------------
(* The lists of steps that handlers start with are sound. *)

\* The order of two steps, and of three.
LEMMA PairOrder ==
    ASSUME NEW a \in Steps, NEW b \in Steps, NEW s, s = <<a, b>>
    PROVE  /\ s \in Seq(Steps) /\ 1..Len(s) = {1, 2} /\ s[1] = a /\ s[2] = b
           /\ Follows(s, 1, b.do, b.of) /\ Precedes(s, 2, a.do, a.of)
  <1>1. s \in Seq(Steps) /\ Len(s) = 2 /\ s[1] = a /\ s[2] = b
    BY TwoSteps
  <1>2. 1..Len(s) = {1, 2}
    BY <1>1
  <1>3. Is(s[1], a.do, a.of) /\ Is(s[2], b.do, b.of)
    BY <1>1 DEF Is
  <1>4. Follows(s, 1, b.do, b.of)
    BY <1>2, <1>3 DEF Follows
  <1>5. Precedes(s, 2, a.do, a.of)
    BY <1>2, <1>3 DEF Precedes
  <1> QED BY <1>1, <1>2, <1>4, <1>5

LEMMA TripleOrder ==
    ASSUME NEW a \in Steps, NEW b \in Steps, NEW c \in Steps, NEW s, s = <<a, b, c>>, ~MayEnd(b)
    PROVE  /\ s \in Seq(Steps) /\ 1..Len(s) = {1, 2, 3} /\ s[1] = a /\ s[2] = b /\ s[3] = c
           /\ Follows(s, 1, b.do, b.of) /\ Precedes(s, 2, a.do, a.of)
           /\ Follows(s, 1, c.do, c.of) /\ Follows(s, 2, c.do, c.of)
  <1>1. s \in Seq(Steps) /\ Len(s) = 3 /\ s[1] = a /\ s[2] = b /\ s[3] = c
    BY ThreeSteps
  <1>2. 1..Len(s) = {1, 2, 3}
    BY <1>1
  <1>3. Is(s[1], a.do, a.of) /\ Is(s[2], b.do, b.of) /\ Is(s[3], c.do, c.of)
    BY <1>1 DEF Is
  <1>4. Follows(s, 1, b.do, b.of)
    BY <1>2, <1>3 DEF Follows
  <1>5. Precedes(s, 2, a.do, a.of)
    BY <1>2, <1>3 DEF Precedes
  <1>6. Follows(s, 2, c.do, c.of)
    BY <1>2, <1>3 DEF Follows
  <1>7. Follows(s, 1, c.do, c.of)
    <2>1. \A h \in 1..Len(s) : 1 < h /\ h < 3 => ~MayEnd(s[h])
      BY <1>1, <1>2
    <2> QED BY <1>2, <1>3, <2>1 DEF Follows
  <1> QED BY <1>1, <1>2, <1>4, <1>5, <1>6, <1>7

\* Two elements and a third.
LEMMA AppendPair ==
    ASSUME NEW S, NEW a \in S, NEW b \in S, NEW c \in S
    PROVE  Append(<<a, b>>, c) = <<a, b, c>>
  <1>1. <<a, b>> \in Seq(S) /\ Len(<<a, b>>) = 2
    OBVIOUS
  <1>2. <<a, b, c>> \in Seq(S) /\ Len(<<a, b, c>>) = 3
    OBVIOUS
  <1>3. Append(<<a, b>>, c) \in Seq(S) /\ Len(Append(<<a, b>>, c)) = 3
    BY <1>1
  <1>4. \A i \in 1..3 : Append(<<a, b>>, c)[i] = <<a, b, c>>[i]
    BY <1>1
  <1> QED BY <1>2, <1>3, <1>4, SeqEqual

\* The lists that handlers start with are sound.
LEMMA SaveEnvironmentSound ==
    ASSUME NEW e \in Envs, e \in known'
    PROVE  /\ SoundSteps(SaveEnvironment(e))'
           /\ \A i \in 1..Len(SaveEnvironment(e)) : ~Deletes(SaveEnvironment(e)[i])
           /\ \A f : f # e => NotRewritten(f, SaveEnvironment(e))
  <1> DEFINE a == Step("write env", e)
             b == Step("list env", e)
  <1>s. PICK s : s = SaveEnvironment(e)
    OBVIOUS
  <1>1. /\ a \in Steps /\ a.do = "write env" /\ a.of = e
        /\ b \in Steps /\ b.do = "list env" /\ b.of = e
    BY DEF Step, Steps, StepNames
  <1>2. s = <<a, b>>
    BY <1>s DEF SaveEnvironment
  <1> HIDE DEF a, b
  <1>3. /\ 1..Len(s) = {1, 2} /\ s[1] = a /\ s[2] = b
        /\ Follows(s, 1, "list env", e) /\ Precedes(s, 2, "write env", e)
    <2>0. a \in Steps /\ b \in Steps
      BY <1>1
    <2>1. /\ s \in Seq(Steps) /\ 1..Len(s) = {1, 2} /\ s[1] = a /\ s[2] = b
          /\ Follows(s, 1, b.do, b.of) /\ Precedes(s, 2, a.do, a.of)
      BY <2>0, <1>2, PairOrder
    <2> QED BY <1>1, <2>1
  <1>4. /\ \A i \in 1..Len(s) : ~Deletes(s[i])
        /\ \A f : f # e => NotRewritten(f, s)
    BY <1>1, <1>3 DEF Deletes, NotRewritten, Is
  <1>5. SoundAt(s, 1)' /\ SoundAt(s, 2)'
    BY <1>1, <1>3 DEF SoundAt, SoundNb, SoundEnv
  <1>6. SoundSteps(s)'
    BY <1>3, <1>4, <1>5 DEF SoundSteps, OneKind
  <1> QED BY <1>s, <1>3, <1>4, <1>6

LEMMA SaveNotebookSound ==
    ASSUME NEW n \in Notebooks, NEW C \in SUBSET Cells,
           n \in ListedNotebooks' \cup suspectNbs'
    PROVE  /\ SoundSteps(SaveNotebook(n, C))'
           /\ \A f : NotRewritten(f, SaveNotebook(n, C))
  <1> DEFINE a == [do |-> "write nb", of |-> n, cells |-> C]
             b == Step("list nb", n)
  <1>s. PICK s : s = SaveNotebook(n, C)
    OBVIOUS
  <1>1. /\ a \in Steps /\ a.do = "write nb" /\ a.of = n
        /\ b \in Steps /\ b.do = "list nb" /\ b.of = n
    BY DEF Step, Steps, StepNames
  <1>2. s = <<a, b>>
    BY <1>s DEF SaveNotebook
  <1> HIDE DEF a, b
  <1>3. /\ 1..Len(s) = {1, 2} /\ s[1] = a /\ s[2] = b
        /\ Follows(s, 1, "list nb", n) /\ Precedes(s, 2, "write nb", n)
    <2>0. a \in Steps /\ b \in Steps
      BY <1>1
    <2>1. /\ s \in Seq(Steps) /\ 1..Len(s) = {1, 2} /\ s[1] = a /\ s[2] = b
          /\ Follows(s, 1, b.do, b.of) /\ Precedes(s, 2, a.do, a.of)
      BY <2>0, <1>2, PairOrder
    <2> QED BY <1>1, <2>1
  <1>4. /\ \A i \in 1..Len(s) : ~Deletes(s[i])
        /\ \A f : NotRewritten(f, s)
    BY <1>1, <1>3 DEF Deletes, NotRewritten, Is
  <1>5. SoundAt(s, 1)' /\ SoundAt(s, 2)'
    BY <1>1, <1>3 DEF SoundAt, SoundNb, SoundEnv
  <1>6. SoundSteps(s)'
    BY <1>3, <1>4, <1>5 DEF SoundSteps, OneKind
  <1> QED BY <1>s, <1>3, <1>4, <1>6

LEMMA CreateNotebookSound ==
    ASSUME NEW n \in Notebooks
    PROVE  /\ SoundSteps(CreateNotebookSteps(n))'
           /\ \A i \in 1..Len(CreateNotebookSteps(n)) : ~Deletes(CreateNotebookSteps(n)[i])
           /\ \A f : NotRewritten(f, CreateNotebookSteps(n))
  <1> DEFINE a == [do |-> "write nb", of |-> n, cells |-> {}]
             b == Step("list nb", n)
             c == Step("count", EnvOf[n])
  <1>s. PICK s : s = CreateNotebookSteps(n)
    OBVIOUS
  <1>0. EnvOf[n] \in Envs
    BY StoreAssumption
  <1>1. /\ a \in Steps /\ a.do = "write nb" /\ a.of = n
        /\ b \in Steps /\ b.do = "list nb" /\ b.of = n
        /\ c \in Steps /\ c.do = "count" /\ c.of = EnvOf[n]
    BY <1>0 DEF Step, Steps, StepNames
  <1>2. s = <<a, b, c>>
    <2>1. s = Append(<<a, b>>, c)
      BY <1>s DEF CreateNotebookSteps, SaveNotebook
    <2> HIDE DEF a, b, c
    <2>2. a \in Steps /\ b \in Steps /\ c \in Steps
      BY <1>1
    <2> QED BY <2>1, <2>2, AppendPair
  <1> HIDE DEF a, b, c
  <1>3. /\ 1..Len(s) = {1, 2, 3} /\ s[1] = a /\ s[2] = b /\ s[3] = c
        /\ Follows(s, 1, "list nb", n) /\ Precedes(s, 2, "write nb", n)
        /\ Follows(s, 2, "count", EnvOf[n])
    <2>1. ~MayEnd(b)
      BY <1>1 DEF MayEnd
    <2>0. a \in Steps /\ b \in Steps /\ c \in Steps
      BY <1>1
    <2>2. /\ s \in Seq(Steps) /\ 1..Len(s) = {1, 2, 3} /\ s[1] = a /\ s[2] = b /\ s[3] = c
          /\ Follows(s, 1, b.do, b.of) /\ Precedes(s, 2, a.do, a.of)
          /\ Follows(s, 2, c.do, c.of)
      BY <2>0, <1>2, <2>1, TripleOrder
    <2> QED BY <1>1, <2>2
  <1>4. /\ \A i \in 1..Len(s) : ~Deletes(s[i])
        /\ \A f : NotRewritten(f, s)
    BY <1>1, <1>3 DEF Deletes, NotRewritten, Is
  <1>5. SoundAt(s, 1)' /\ SoundAt(s, 2)' /\ SoundAt(s, 3)'
    BY <1>0, <1>1, <1>3 DEF SoundAt, SoundNb, SoundEnv
  <1>6. SoundSteps(s)'
    BY <1>3, <1>4, <1>5 DEF SoundSteps, OneKind
  <1> QED BY <1>s, <1>3, <1>4, <1>6

LEMMA DeleteNotebookSound ==
    ASSUME NEW n \in Notebooks
    PROVE  /\ DeleteNotebookSteps(n) \in Seq(Steps) /\ SoundSteps(DeleteNotebookSteps(n))'
           /\ \A i \in 1..Len(DeleteNotebookSteps(n)) : ~Saves(DeleteNotebookSteps(n)[i])
  <1> DEFINE a == Step("unlink nb", n)
             b == Step("unlist nb", n)
             c == Step("count", EnvOf[n])
  <1>s. PICK s : s = DeleteNotebookSteps(n)
    OBVIOUS
  <1>0. EnvOf[n] \in Envs
    BY StoreAssumption
  <1>1. /\ a \in Steps /\ a.do = "unlink nb" /\ a.of = n
        /\ b \in Steps /\ b.do = "unlist nb" /\ b.of = n
        /\ c \in Steps /\ c.do = "count" /\ c.of = EnvOf[n]
    BY <1>0 DEF Step, Steps, StepNames
  <1>2. s = <<a, b, c>>
    BY <1>s DEF DeleteNotebookSteps
  <1> HIDE DEF a, b, c
  <1>3. /\ s \in Seq(Steps) /\ 1..Len(s) = {1, 2, 3} /\ s[1] = a /\ s[2] = b /\ s[3] = c
        /\ Follows(s, 1, "unlist nb", n) /\ Precedes(s, 2, "unlink nb", n)
        /\ Follows(s, 2, "count", EnvOf[n])
    <2>1. ~MayEnd(b)
      BY <1>1 DEF MayEnd
    <2>0. a \in Steps /\ b \in Steps /\ c \in Steps
      BY <1>1
    <2>2. /\ s \in Seq(Steps) /\ 1..Len(s) = {1, 2, 3} /\ s[1] = a /\ s[2] = b /\ s[3] = c
          /\ Follows(s, 1, b.do, b.of) /\ Precedes(s, 2, a.do, a.of)
          /\ Follows(s, 2, c.do, c.of)
      BY <2>0, <1>2, <2>1, TripleOrder
    <2> QED BY <1>1, <2>2
  <1>4. \A i \in 1..Len(s) : ~Saves(s[i])
    BY <1>1, <1>3 DEF Saves
  <1>5. SoundAt(s, 1)' /\ SoundAt(s, 2)' /\ SoundAt(s, 3)'
    BY <1>0, <1>1, <1>3 DEF SoundAt, SoundNb, SoundEnv
  <1>6. SoundSteps(s)'
    BY <1>3, <1>4, <1>5 DEF SoundSteps, OneKind
  <1> QED BY <1>s, <1>3, <1>4, <1>6

\* The notebooks of an environment, and then the environment itself.
LEMMA DeletionsSound ==
    ASSUME NEW s, \A i \in 1..Len(s) : s[i].do = "delete nb"
    PROVE  SoundSteps(s)' /\ \A i \in 1..Len(s) : ~Saves(s[i])
  <1>1. \A i \in 1..Len(s) : ~Saves(s[i])
    BY DEF Saves
  <1>2. \A i \in 1..Len(s) : SoundAt(s, i)'
    BY DEF SoundAt, SoundNb, SoundEnv
  <1> QED BY <1>1, <1>2 DEF SoundSteps, OneKind

LEMMA UnlinkEnvironmentSound ==
    ASSUME NEW e \in Envs, e \in known', NEW s, s = <<Step("unlink env", e), Step("unlist env", e)>>
    PROVE  SoundSteps(s)' /\ s \in Seq(Steps) /\ \A i \in 1..Len(s) : ~Saves(s[i])
  <1> DEFINE a == Step("unlink env", e)
             b == Step("unlist env", e)
  <1>1. /\ a \in Steps /\ a.do = "unlink env" /\ a.of = e
        /\ b \in Steps /\ b.do = "unlist env" /\ b.of = e
    BY DEF Step, Steps, StepNames
  <1>2. s = <<a, b>>
    OBVIOUS
  <1> HIDE DEF a, b
  <1>3. /\ s \in Seq(Steps) /\ 1..Len(s) = {1, 2} /\ s[1] = a /\ s[2] = b
        /\ Follows(s, 1, "unlist env", e) /\ Precedes(s, 2, "unlink env", e)
    <2>0. a \in Steps /\ b \in Steps
      BY <1>1
    <2>1. /\ s \in Seq(Steps) /\ 1..Len(s) = {1, 2} /\ s[1] = a /\ s[2] = b
          /\ Follows(s, 1, b.do, b.of) /\ Precedes(s, 2, a.do, a.of)
      BY <2>0, <1>2, PairOrder
    <2> QED BY <1>1, <2>1
  <1>4. \A i \in 1..Len(s) : ~Saves(s[i])
    BY <1>1, <1>3 DEF Saves
  <1>5. SoundAt(s, 1)' /\ SoundAt(s, 2)'
    BY <1>1, <1>3 DEF SoundAt, SoundNb, SoundEnv
  <1>6. SoundSteps(s)'
    BY <1>3, <1>4, <1>5 DEF SoundSteps, OneKind
  <1> QED BY <1>3, <1>4, <1>6

-----------------------------------------------------------------------------
(* Steps that may end the handler. *)

\* No steps are sound steps.
LEMMA EmptySound == SoundSteps(<<>>)' /\ \A e : NotRewritten(e, <<>>)
  BY DEF SoundSteps, OneKind, NotRewritten

\* Nothing changes in the files, and the step is neither a write nor an unlink.
LEMMA SoundRest ==
    ASSUME CellsInv, SoundSteps(todo), todo # <<>>, NEW t, t = Tail(todo), known' = known,
           ListedNotebooks' = ListedNotebooks, UNCHANGED <<envFile, nbFile, suspectNbs>>,
           Head(todo).do \in {"count", "delete nb"}
    PROVE  /\ SoundSteps(t)' /\ t \in Seq(Steps)
           /\ \A e : NotRewritten(e, todo) => NotRewritten(e, t)
           /\ (\A i \in 1..Len(todo) : ~Saves(todo[i])) => \A i \in 1..Len(t) : ~Saves(t[i])
  <1>1. \A of : /\ ~Is(Head(todo), "write env", of) /\ ~Is(Head(todo), "unlink env", of)
                /\ ~Is(Head(todo), "write nb", of) /\ ~Is(Head(todo), "unlink nb", of)
    BY DEF Is
  <1>2. \A n : IsStored(n)' <=> IsStored(n)
    BY DEF IsStored
  <1>3. \A n \in Notebooks : KeptNb(n)
    BY <1>1, <1>2 DEF KeptNb
  <1>4. \A e \in Envs : KeptEnv(e)
    BY <1>1 DEF KeptEnv
  <1>5. SoundSteps(t)'
    BY <1>3, <1>4, SoundPops
  <1>6. todo \in Seq(Steps)
    BY DEF CellsInv, FileTypes
  <1>7. /\ t \in Seq(Steps)
        /\ \A i \in 1..Len(t) : t[i] = todo[i + 1] /\ i + 1 \in 1..Len(todo)
    BY <1>6, FirstOf, Zenon
  <1> QED BY <1>5, <1>7 DEF NotRewritten

\* An environment without a file has no entry to count for.
LEMMA NoEnvToCountIndex ==
    ASSUME CellsInv, IndexInv, NoEnvToCount, known' = known
    PROVE  IndexInv'
  <1>1. /\ todo # <<>> /\ Head(todo).do = "count" /\ envFile[Subject] # "stored"
        /\ UNCHANGED <<envFile, nbFile, envIndex, nbIndex, suspectNbs, suspectEnvs>>
        /\ todo' = <<>> \/ todo' = Tail(todo)
    BY DEF NoEnvToCount, NextStep, files, history
  <1>2. ListedNotebooks' = ListedNotebooks
    BY <1>1 DEF ListedNotebooks
  <1>3. PICK t : t = todo'
    OBVIOUS
  <1>4. SoundSteps(t)' /\ \A e : NotRewritten(e, todo) => NotRewritten(e, t)
    <2>1. CASE t = <<>>
      BY <2>1, EmptySound
    <2>2. CASE t = Tail(todo)
      BY <1>1, <1>2, <2>2, SoundRest DEF IndexInv
    <2> QED BY <1>1, <1>3, <2>1, <2>2
  <1>5. Agreed
    BY <1>1, AgreedNow
  <1> QED BY <1>1, <1>2, <1>3, <1>4, <1>5, StaysAgreed DEF Gone

\* A deletion that finds the file puts its own steps before the others; one that cannot
\* read it drops them, and none of them was needed.
LEMMA DeletionReadIndex ==
    ASSUME CellsInv, IndexInv, DeletionRead, known' = known, NEW s, s = Subject
    PROVE  IndexInv'
  <1>1. /\ todo # <<>> /\ Head(todo).do = "delete nb"
        /\ UNCHANGED <<envFile, nbFile, envIndex, nbIndex, suspectNbs, suspectEnvs>>
        /\ todo' \in {<<>>, Tail(todo), DeleteNotebookSteps(s) \o Tail(todo)}
    BY DEF DeletionRead, NextStep, files
  <1>2. ListedNotebooks' = ListedNotebooks
    BY <1>1 DEF ListedNotebooks
  <1>3. s \in Notebooks
    BY <1>1, NextIsWellMade DEF OfNotebook, Subject
  <1>4. PICK t : t = Tail(todo)
    OBVIOUS
  <1>5. /\ SoundSteps(t)' /\ t \in Seq(Steps)
        /\ \A e : NotRewritten(e, todo) => NotRewritten(e, t)
        /\ \A i \in 1..Len(t) : ~Saves(t[i])
    <2>1. \A i \in 1..Len(todo) : ~Saves(todo[i])
      <3>1. Deletes(todo[1]) /\ 1 \in 1..Len(todo)
        BY <1>1, FirstSound DEF IndexInv, Deletes
      <3> QED BY <3>1 DEF IndexInv, SoundSteps, OneKind
    <2> QED BY <1>1, <1>2, <1>4, <2>1, SoundRest DEF IndexInv
  <1>6. PICK u : u = todo'
    OBVIOUS
  <1>7. SoundSteps(u)' /\ \A e : NotRewritten(e, todo) => NotRewritten(e, u)
    <2>1. CASE u = <<>>
      BY <2>1, EmptySound
    <2>2. CASE u = t
      BY <1>5, <2>2
    <2>3. CASE u = DeleteNotebookSteps(s) \o t
      <3>1. PICK p : p = DeleteNotebookSteps(s)
        OBVIOUS
      <3>2. p \in Seq(Steps) /\ SoundSteps(p)' /\ \A i \in 1..Len(p) : ~Saves(p[i])
        BY <1>3, <3>1, DeleteNotebookSound
      <3>3. \A i \in 1..Len(p \o t) : ~Saves((p \o t)[i])
        BY <1>5, <3>2, JoinPlain
      <3>4. SoundSteps(p \o t)'
        BY <1>5, <3>2, <3>3, JoinSound DEF OneKind
      <3>5. \A e : NotRewritten(e, p \o t)
        BY <3>3 DEF NotRewritten, Saves, Is
      <3> QED BY <2>3, <3>1, <3>4, <3>5
    <2> QED BY <1>1, <1>4, <1>6, <2>1, <2>2, <2>3
  <1>8. Agreed
    BY <1>1, AgreedNow
  <1> QED BY <1>1, <1>2, <1>6, <1>7, <1>8, StaysAgreed DEF Gone

\* Whatever step is next.
LEMMA HandlerStepIndex ==
    ASSUME CellsInv, IndexInv, HandlerStep
    PROVE  IndexInv'
  <1>1. known' = known
    BY DEF HandlerStep
  <1>2. PICK s : s = Subject
    OBVIOUS
  <1> QED BY <1>1, <1>2, WriteEnvIndex, ListEnvIndex, NoEnvToCountIndex, UnlinkEnvIndex,
             UnlistEnvIndex, WriteNotebookIndex, ListNotebookIndex, DeletionReadIndex,
             UnlinkNotebookIndex, UnlistNotebookIndex DEF HandlerStep

-----------------------------------------------------------------------------
(* Handlers, crash, start, and the theorem. *)

\* A handler starts.
LEMMA HandleIndex ==
    ASSUME CellsInv, IndexInv, Serving, NEW steps, todo' = steps,
           UNCHANGED <<files, suspectNbs, suspectEnvs>>, known \subseteq known',
           SoundSteps(steps)', \A e \in Envs : Gone(e) => NotRewritten(e, steps)
    PROVE  IndexInv'
  <1>1. Agreed
    BY AgreedNow DEF Serving
  <1>2. /\ UNCHANGED <<envFile, nbFile, envIndex, suspectNbs, suspectEnvs>>
        /\ ListedNotebooks' = ListedNotebooks
    BY DEF files, ListedNotebooks
  <1> QED BY <1>1, <1>2, StaysAgreed

\* A notebook that can be read is listed, and is saved again.
LEMMA SaveIndex ==
    ASSUME CellsInv, IndexInv, Serving, NEW n \in Notebooks, IsStored(n),
           NEW C \in SUBSET Cells, todo' = SaveNotebook(n, C),
           UNCHANGED <<files, suspectNbs, suspectEnvs>>, known \subseteq known'
    PROVE  IndexInv'
  <1>1. Agreed
    BY AgreedNow DEF Serving
  <1>2. n \in ListedNotebooks' \cup suspectNbs'
    BY <1>1 DEF Agreed, files, ListedNotebooks
  <1>3. PICK p : p = SaveNotebook(n, C)
    OBVIOUS
  <1>4. SoundSteps(p)' /\ \A e : NotRewritten(e, p)
    BY <1>2, <1>3, SaveNotebookSound
  <1> QED BY <1>3, <1>4, HandleIndex

\* The handlers.
LEMMA CreateEnvironmentIndex ==
    ASSUME CellsInv, IndexInv, NEW e \in Envs, NEW n \in Notebooks, CreateEnvironment(e, n)
    PROVE  IndexInv'
  <1>1. /\ Serving /\ todo' = SaveEnvironment(e) \o CreateNotebookSteps(n)
        /\ UNCHANGED <<files, suspectNbs, suspectEnvs>>
        /\ e \notin known /\ known' = known \cup {e, n}
    BY DEF CreateEnvironment, Handle
  <1>2. PICK p : p = SaveEnvironment(e)
    OBVIOUS
  <1>3. PICK q : q = CreateNotebookSteps(n)
    OBVIOUS
  <1>4. /\ p \in Seq(Steps) /\ SoundSteps(p)' /\ \A i \in 1..Len(p) : ~Deletes(p[i])
        /\ \A f : f # e => NotRewritten(f, p)
    BY <1>1, <1>2, SaveEnvironmentMade, SaveEnvironmentSound
  <1>5. /\ q \in Seq(Steps) /\ SoundSteps(q)' /\ \A i \in 1..Len(q) : ~Deletes(q[i])
        /\ \A f : NotRewritten(f, q)
    <2>1. Keep(n, {})[n] = {}
      BY KeepIsGoal
    <2> QED BY <1>3, <2>1, CreateNotebookMade, CreateNotebookSound
  <1>6. \A i \in 1..Len(p \o q) : ~Deletes((p \o q)[i])
    BY <1>4, <1>5, JoinPlain
  <1>7. SoundSteps(p \o q)'
    BY <1>4, <1>5, <1>6, JoinSound DEF OneKind
  <1>8. ASSUME NEW f \in Envs, Gone(f) PROVE NotRewritten(f, p \o q)
    <2>1. f # e
      BY <1>1, <1>8 DEF Gone
    <2>2. NotRewritten(f, p) /\ NotRewritten(f, q)
      BY <1>4, <1>5, <2>1
    <2> QED BY <1>4, <1>5, <2>2, JoinPlain
  <1>9. todo' = p \o q /\ known \subseteq known'
    BY <1>1, <1>2, <1>3
  <1> QED BY <1>1, <1>7, <1>8, <1>9, HandleIndex

LEMMA UpdateEnvironmentIndex ==
    ASSUME CellsInv, IndexInv, NEW e \in Envs, UpdateEnvironment(e)
    PROVE  IndexInv'
  <1>1. /\ Serving /\ todo' = SaveEnvironment(e) /\ known' = known
        /\ UNCHANGED <<files, suspectNbs, suspectEnvs>> /\ envFile[e] = "stored"
    BY DEF UpdateEnvironment, Handle
  <1>2. envFile[e] # Absent /\ e \in known'
    BY <1>1, MarksAssumption DEF IndexInv, EnvTypes
  <1>3. PICK p : p = SaveEnvironment(e)
    OBVIOUS
  <1>4. SoundSteps(p)' /\ \A f : f # e => NotRewritten(f, p)
    BY <1>2, <1>3, SaveEnvironmentSound
  <1>5. \A f \in Envs : Gone(f) => NotRewritten(f, p)
    BY <1>2, <1>4 DEF Gone
  <1> QED BY <1>1, <1>3, <1>4, <1>5, HandleIndex

LEMMA DeleteEnvironmentIndex ==
    ASSUME CellsInv, IndexInv, NEW e \in Envs, DeleteEnvironment(e)
    PROVE  IndexInv'
  <1> DEFINE S == {n \in ListedNotebooks : EnvOf[n] = e}
             q0 == <<Step("unlink env", e), Step("unlist env", e)>>
  <1>1. PICK listed \in SetToSeqs(S) :
           Handle([i \in DOMAIN listed |-> Step("delete nb", listed[i])] \o q0, wanted)
    BY DEF DeleteEnvironment
  <1>2. envFile[e] = "stored" /\ known' = known
    BY DEF DeleteEnvironment
  <1>3. e \in known'
    BY <1>2, MarksAssumption DEF IndexInv, EnvTypes
  <1>4. PICK p : p = [i \in DOMAIN listed |-> Step("delete nb", listed[i])]
    OBVIOUS
  <1>5. PICK q : q = q0
    OBVIOUS
  <1>6. /\ Serving /\ todo' = p \o q /\ UNCHANGED <<files, suspectNbs, suspectEnvs>>
    BY <1>1, <1>4, <1>5 DEF Handle
  <1>7. p \in Seq(Steps) /\ \A i \in 1..Len(p) : p[i].do = "delete nb"
    <2>1. S \in SUBSET Notebooks
      BY ListedTypes
    <2> HIDE DEF S
    <2>2. Cardinality(S) \in Nat
      BY <2>1, StoreAssumption, FS_Subset, FS_CardinalityType
    <2>3. listed \in [1..Cardinality(S) -> Notebooks]
      BY <2>1 DEF SetToSeqs
    <2>4. \A n \in Notebooks : /\ Step("delete nb", n) \in Steps
                               /\ Step("delete nb", n).do = "delete nb"
      BY DEF Step, Steps, StepNames
    <2>5. p \in [1..Cardinality(S) -> Steps]
      BY <1>4, <2>3, <2>4
    <2>6. p \in Seq(Steps) /\ Len(p) = Cardinality(S)
      BY <2>2, <2>5, FunctionIsSeq
    <2> QED BY <1>4, <2>3, <2>4, <2>6
  <1>8. SoundSteps(p)' /\ \A i \in 1..Len(p) : ~Saves(p[i])
    BY <1>7, DeletionsSound
  <1>9. SoundSteps(q)' /\ q \in Seq(Steps) /\ \A i \in 1..Len(q) : ~Saves(q[i])
    BY <1>3, <1>5, UnlinkEnvironmentSound
  <1>10. \A i \in 1..Len(p \o q) : ~Saves((p \o q)[i])
    BY <1>7, <1>8, <1>9, JoinPlain
  <1>11. SoundSteps(p \o q)'
    BY <1>7, <1>8, <1>9, <1>10, JoinSound DEF OneKind
  <1>12. \A f : NotRewritten(f, p \o q)
    BY <1>10 DEF NotRewritten, Saves, Is
  <1> QED BY <1>2, <1>6, <1>11, <1>12, HandleIndex

LEMMA CreateNotebookIndex ==
    ASSUME CellsInv, IndexInv, NEW n \in Notebooks, CreateNotebook(n)
    PROVE  IndexInv'
  <1>1. /\ Serving /\ todo' = CreateNotebookSteps(n) /\ known \subseteq known'
        /\ UNCHANGED <<files, suspectNbs, suspectEnvs>>
    BY DEF CreateNotebook, Handle
  <1>2. PICK p : p = CreateNotebookSteps(n)
    OBVIOUS
  <1>3. SoundSteps(p)' /\ \A f : NotRewritten(f, p)
    BY <1>2, CreateNotebookSound
  <1> QED BY <1>1, <1>2, <1>3, HandleIndex

LEMMA NotebookHandlersIndex ==
    ASSUME CellsInv, IndexInv, NEW n \in Notebooks,
           \/ DeleteNotebook(n) \/ UpdateNotebook(n)
           \/ \E c \in Cells : AddCell(n, c) \/ DeleteCell(n, c) \/ RunEnds(n, c)
    PROVE  IndexInv'
  <1>1. CASE DeleteNotebook(n)
    <2>1. /\ Serving /\ todo' = <<Step("delete nb", n)>> /\ known' = known
          /\ UNCHANGED <<files, suspectNbs, suspectEnvs>>
      BY <1>1 DEF DeleteNotebook, Handle
    <2>2. PICK p : p = <<Step("delete nb", n)>>
      OBVIOUS
    <2>3. \A i \in 1..Len(p) : p[i].do = "delete nb"
      <3>1. Step("delete nb", n) \in Steps /\ Step("delete nb", n).do = "delete nb"
        BY DEF Step, Steps, StepNames
      <3>2. Len(p) = 1
        BY <2>2, <3>1, OneStep
      <3>3. p[1] = Step("delete nb", n)
        BY <2>2, <3>1, OneStep
      <3>4. \A i \in 1..Len(p) : i = 1
        BY <3>2
      <3> QED BY <3>1, <3>3, <3>4
    <2>4. SoundSteps(p)' /\ \A i \in 1..Len(p) : ~Saves(p[i])
      BY <2>3, DeletionsSound
    <2>5. \A f : NotRewritten(f, p)
      BY <2>4 DEF NotRewritten, Saves, Is
    <2> QED BY <2>1, <2>2, <2>4, <2>5, HandleIndex
  <1>2. ASSUME NEW D, IsStored(n), Serving, D \in {nbFile[n]} \cup
                   {nbFile[n] \cup {c} : c \in Cells} \cup {nbFile[n] \ {c} : c \in Cells},
               todo' = SaveNotebook(n, D),
               UNCHANGED <<files, suspectNbs, suspectEnvs>>, known \subseteq known'
        PROVE  IndexInv'
    <2>1. nbFile[n] \in SUBSET Cells
      BY <1>2, StoredCells
    <2>2. D \in SUBSET Cells
      BY <1>2, <2>1
    <2> QED BY <1>2, <2>2, SaveIndex
  <1>3. CASE UpdateNotebook(n)
    <2>1. PICK D : D = nbFile[n]
      OBVIOUS
    <2>2. /\ IsStored(n) /\ Serving /\ todo' = SaveNotebook(n, D)
          /\ UNCHANGED <<files, suspectNbs, suspectEnvs>> /\ known \subseteq known'
      BY <1>3, <2>1 DEF UpdateNotebook, Handle
    <2> QED BY <1>2, <2>1, <2>2
  <1>4. ASSUME NEW c \in Cells, AddCell(n, c) PROVE IndexInv'
    <2>1. PICK D : D = nbFile[n] \cup {c}
      OBVIOUS
    <2>2. /\ IsStored(n) /\ Serving /\ todo' = SaveNotebook(n, D)
          /\ UNCHANGED <<files, suspectNbs, suspectEnvs>> /\ known \subseteq known'
      BY <1>4, <2>1 DEF AddCell, Handle
    <2> QED BY <1>2, <2>1, <2>2
  <1>5. ASSUME NEW c \in Cells, DeleteCell(n, c) PROVE IndexInv'
    <2>1. PICK D : D = nbFile[n] \ {c}
      OBVIOUS
    <2>2. /\ IsStored(n) /\ Serving /\ todo' = SaveNotebook(n, D)
          /\ UNCHANGED <<files, suspectNbs, suspectEnvs>> /\ known \subseteq known'
      BY <1>5, <2>1 DEF DeleteCell, Handle
    <2> QED BY <1>2, <2>1, <2>2
  <1>6. ASSUME NEW c \in Cells, RunEnds(n, c) PROVE IndexInv'
    <2>1. /\ Serving /\ todo' = SavedAfterRun(n, c) /\ known \subseteq known'
          /\ UNCHANGED <<files, suspectNbs, suspectEnvs>>
      BY <1>6 DEF RunEnds, Handle
    <2>2. CASE IsStored(n)
      <3>1. PICK D : D = nbFile[n]
        OBVIOUS
      <3>2. todo' = SaveNotebook(n, D)
        BY <2>1, <2>2, <3>1 DEF SavedAfterRun
      <3> QED BY <1>2, <2>1, <2>2, <3>1, <3>2
    <2>3. CASE ~IsStored(n)
      <3>1. todo' = <<>>
        BY <2>1, <2>3 DEF SavedAfterRun
      <3> QED BY <2>1, <3>1, EmptySound, HandleIndex
    <2> QED BY <2>2, <2>3
  <1> QED BY <1>1, <1>3, <1>4, <1>5, <1>6

\* What a crash hits: what is sure to be listed, and what is being written.
LEMMA SureIsHit ==
    ASSUME CellsInv, NEW n
    PROVE  /\ Sure("list nb", n) \/ Sure("unlist nb", n) => n \in HitNotebooks
           /\ EntrySure(n) \/ Sure("count", n) => n \in HitEnvs
  <1>1. todo \in Seq(Steps)
    BY DEF CellsInv, FileTypes
  <1>2. ASSUME NEW do, Sure(do, n)
        PROVE  \E s \in ToSet(todo) : s.do = do /\ s.of = n
    <2>1. PICK j \in 1..Len(todo) : Is(todo[j], do, n)
      BY <1>2 DEF Sure, Follows
    <2>2. todo[j] \in ToSet(todo)
      BY <1>1, <2>1 DEF ToSet
    <2> QED BY <2>1, <2>2 DEF Is
  <1>3. ASSUME Sure("list nb", n) \/ Sure("unlist nb", n) PROVE n \in HitNotebooks
    <2>1. PICK s \in ToSet(todo) : s.do \in {"list nb", "unlist nb"} /\ s.of = n
      BY <1>2, <1>3
    <2> QED BY <2>1, Zenon DEF HitNotebooks
  <1>4. ASSUME EntrySure(n) \/ Sure("count", n) PROVE n \in HitEnvs
    <2>1. PICK s \in ToSet(todo) : s.do \in {"list env", "unlist env", "count"} /\ s.of = n
      BY <1>2, <1>4 DEF EntrySure
    <2> QED BY <2>1, Zenon DEF HitEnvs
  <1> QED BY <1>3, <1>4

\* So is the subject of a write.
LEMMA SubjectIsHit ==
    ASSUME CellsInv, todo # <<>>, NEW s, s = Subject
    PROVE  /\ Head(todo).do = "write nb" => s \in HitNotebooks
           /\ Head(todo).do = "write env" => s \in HitEnvs
  <1>1. todo \in Seq(Steps)
    BY DEF CellsInv, FileTypes
  <1>2. Head(todo) = todo[1] /\ 1 \in 1..Len(todo)
    BY <1>1, FirstOf
  <1>3. Head(todo) \in ToSet(todo)
    BY <1>1, <1>2 DEF ToSet
  <1> QED BY <1>3 DEF HitNotebooks, HitEnvs, Subject

\* A crash: what was sure to follow is hit, and so not trusted.
LEMMA CrashIndex ==
    ASSUME CellsInv, IndexInv, Crash
    PROVE  IndexInv'
  <1>1. /\ todo' = <<>> /\ known' = known
        /\ suspectNbs' = IF nbIndex' = Torn THEN Notebooks ELSE suspectNbs \cup HitNotebooks
        /\ suspectEnvs' =
              IF envIndex' = Torn \/ nbIndex' = Torn THEN Envs
              ELSE suspectEnvs \cup HitEnvs \cup {EnvOf[n] : n \in HitNotebooks}
        /\ TornWrite \/ UNCHANGED files
    BY DEF Crash
  <1>2. HitNotebooks \subseteq Notebooks
    <2> SUFFICES ASSUME NEW s \in ToSet(todo),
                        s.do \in {"write nb", "list nb", "unlink nb", "unlist nb"}
                 PROVE  s.of \in Notebooks
      BY DEF HitNotebooks
    <2>0. todo \in Seq(Steps)
      BY DEF CellsInv, FileTypes
    <2>1. PICK i \in 1..Len(todo) : todo[i] = s
      <3>1. DOMAIN todo = 1..Len(todo)
        BY <2>0, LenProperties
      <3> QED BY <3>1 DEF ToSet
    <2> QED BY <2>1 DEF CellsInv, WellMade, OfNotebook
  <1>3. /\ nbIndex' \in {nbIndex, Torn} /\ envIndex' \in {envIndex, Torn}
        /\ \A n \in Notebooks : n \in HitNotebooks \/ nbFile'[n] = nbFile[n]
        /\ \A e \in Envs : \/ envFile'[e] = envFile[e]
                           \/ /\ e \in HitEnvs /\ envFile'[e] = Torn /\ e \in known
                              /\ ~NotRewritten(e, todo)
        /\ envFile' \in [Envs -> {Absent, Torn, "stored"}]
    <2>1. CASE UNCHANGED files
      BY <2>1 DEF files, IndexInv, EnvTypes
    <2>2. CASE TornWrite
      <3>1. PICK s : s = Subject
        OBVIOUS
      <3>2. CASE NextStep("write env") /\ envFile' = [envFile EXCEPT ![Subject] = Torn]
                 /\ UNCHANGED <<nbFile, envIndex, nbIndex>>
        <4>1. todo # <<>> /\ Head(todo).do = "write env" /\ envFile' = [envFile EXCEPT ![s] = Torn]
          BY <3>1, <3>2 DEF NextStep
        <4>2. s \in HitEnvs /\ s \in known /\ s \in Envs /\ ~NotRewritten(s, todo)
          BY <3>1, <4>1, SubjectIsHit, FirstSound DEF IndexInv, SoundEnv, NotRewritten, Is, Subject
        <4>3. /\ envFile' \in [Envs -> {Absent, Torn, "stored"}]
              /\ \A e \in Envs : envFile'[e] = IF e = s THEN Torn ELSE envFile[e]
          BY <4>1, <4>2 DEF IndexInv, EnvTypes
        <4> QED BY <3>2, <4>2, <4>3
      <3>3. CASE NextStep("write nb") /\ nbFile' = [nbFile EXCEPT ![Subject] = Torn]
                 /\ UNCHANGED <<envFile, envIndex, nbIndex>>
        <4>1. todo # <<>> /\ Head(todo).do = "write nb" /\ nbFile' = [nbFile EXCEPT ![s] = Torn]
          BY <3>1, <3>3 DEF NextStep
        <4>2. s \in HitNotebooks
          BY <3>1, <4>1, SubjectIsHit
        <4>3. \A n \in Notebooks : n # s => nbFile'[n] = nbFile[n]
          BY <4>1 DEF CellsInv, FileTypes
        <4> QED BY <3>3, <4>2, <4>3 DEF IndexInv, EnvTypes
      <3>4. CASE UNCHANGED <<envFile, nbFile>> /\ nbIndex' \in {nbIndex, Torn}
                 /\ envIndex' \in {envIndex, Torn}
        BY <3>4 DEF IndexInv, EnvTypes
      <3> QED BY <2>2, <3>2, <3>3, <3>4 DEF TornWrite
    <2> QED BY <1>1, <2>1, <2>2
  <1>4. EnvTypes'
    <2>1. ListedEnvs' \in {ListedEnvs, <<>>}
      BY <1>3 DEF ListedEnvs, Loaded
    <2>2. <<>> \in EnvEntries
      <3>1. <<>> \in [{} -> Nat]
        OBVIOUS
      <3> QED BY <3>1 DEF EnvEntries
    <2>3. suspectNbs' \subseteq Notebooks
      BY <1>1, <1>2 DEF IndexInv, EnvTypes
    <2>4. \A e \in Envs : envFile'[e] # Absent => e \in known'
      BY <1>1, <1>3 DEF IndexInv, EnvTypes
    <2> QED BY <1>3, <2>1, <2>2, <2>3, <2>4 DEF IndexInv, EnvTypes
  <1>5. SoundSteps(todo)'
    BY <1>1, EmptySound, SoundTodo
  <1>6. NotebooksFollow'
    <2> SUFFICES ASSUME NEW n \in Notebooks, n \notin suspectNbs' PROVE ListRight(n)'
      BY DEF NotebooksFollow
    <2>1. nbIndex' = nbIndex /\ n \notin suspectNbs /\ n \notin HitNotebooks
      BY <1>1, <1>3
    <2>2. n \in ListedNotebooks <=> IsStored(n)
      BY <2>1, SureIsHit DEF IndexInv, NotebooksFollow, ListRight
    <2>3. nbFile'[n] = nbFile[n]
      BY <1>3, <2>1
    <2> QED BY <2>1, <2>2, <2>3 DEF ListRight, ListedNotebooks, IsStored
  <1>7. EntriesFollow'
    <2> SUFFICES ASSUME NEW e \in Envs, e \notin suspectEnvs' PROVE EntryRight(e)'
      BY DEF EntriesFollow
    <2>1. nbIndex' = nbIndex /\ envIndex' = envIndex /\ e \notin suspectEnvs /\ e \notin HitEnvs
      BY <1>1, <1>3
    <2>2. /\ e \in DOMAIN ListedEnvs <=> envFile[e] = "stored"
          /\ e \in DOMAIN ListedEnvs => ListedEnvs[e] = Count(e)
      BY <2>1, SureIsHit DEF IndexInv, EntriesFollow, EntryRight
    <2>3. envFile'[e] = envFile[e]
      BY <1>3, <2>1
    <2>4. ListedEnvs' = ListedEnvs /\ Count(e)' = Count(e)
      BY <2>1 DEF ListedEnvs, ListedNotebooks, Count
    <2> QED BY <2>2, <2>3, <2>4 DEF EntryRight
  <1>8. SuspectTogether'
    <2> SUFFICES ASSUME NEW n \in suspectNbs', EnvOf[n] \notin suspectEnvs' PROVE Gone(EnvOf[n])'
      BY DEF SuspectTogether
    <2>1. n \in Notebooks /\ EnvOf[n] \in Envs
      BY <1>4, StoreAssumption DEF EnvTypes
    <2>2. n \in suspectNbs /\ EnvOf[n] \notin suspectEnvs
      BY <1>1, <2>1
    <2>3. Gone(EnvOf[n])
      BY <2>2 DEF IndexInv, SuspectTogether
    <2>4. envFile'[EnvOf[n]] = Absent
      BY <1>3, <2>1, <2>3 DEF Gone
    <2>5. Len(todo') = 0
      BY <1>1
    <2>6. \A i \in 1..Len(todo') : FALSE
      BY <2>5
    <2>7. NotRewritten(EnvOf[n], todo)'
      BY <2>6, Zenon DEF NotRewritten
    <2> QED BY <1>1, <2>3, <2>4, <2>7 DEF Gone
  <1> QED BY <1>4, <1>5, <1>6, <1>7, <1>8 DEF IndexInv

\* Nothing changes but the form of the list of notebooks.
LEMMA StillIndex ==
    ASSUME CellsInv, IndexInv, ListedNotebooks' = ListedNotebooks,
           UNCHANGED <<envFile, nbFile, envIndex, todo, known, suspectNbs, suspectEnvs>>
    PROVE  IndexInv'
  <1>1. /\ ListedEnvs' = ListedEnvs /\ \A n : IsStored(n)' <=> IsStored(n)
        /\ \A e : Count(e)' = Count(e)
        /\ \A do, of : Sure(do, of)' <=> Sure(do, of)
    BY DEF ListedEnvs, IsStored, Count, Sure
  <1>2. SoundSteps(todo)'
    BY <1>1 DEF IndexInv, SoundSteps, SoundAt, SoundNb, SoundEnv
  <1>3. NotebooksFollow'
    BY <1>1 DEF IndexInv, NotebooksFollow, ListRight
  <1>4. EntriesFollow'
    BY <1>1 DEF IndexInv, EntriesFollow, EntryRight, EntrySure
  <1>5. EnvTypes' /\ SuspectTogether'
    BY <1>1 DEF IndexInv, EnvTypes, SuspectTogether, Gone
  <1> QED BY <1>2, <1>3, <1>4, <1>5 DEF IndexInv

\* The index is right at first, and every step keeps it so.
LEMMA IndexInit == Init => IndexInv
  <1> SUFFICES ASSUME Init PROVE IndexInv
    OBVIOUS
  <1>1. EnvTypes
    <2>1. ListedEnvs = <<>>
      BY DEF Init, ListedEnvs, Loaded
    <2>2. <<>> \in [{} -> Nat]
      OBVIOUS
    <2> QED BY <2>1, <2>2 DEF Init, EnvTypes, EnvEntries
  <1>2. SoundSteps(todo)
    BY DEF Init, SoundSteps, OneKind
  <1>3. ListedNotebooks = {} /\ DOMAIN ListedEnvs = {}
    <2>1. nbIndex = {} /\ envIndex = <<>>
      BY DEF Init
    <2>2. DOMAIN <<>> = {}
      OBVIOUS
    <2> QED BY <2>1, <2>2, MarksAssumption DEF ListedNotebooks, ListedEnvs, Loaded
  <1>4. NotebooksFollow
    BY <1>3 DEF Init, NotebooksFollow, ListRight, IsStored
  <1>5. EntriesFollow
    BY <1>3, MarksAssumption DEF Init, EntriesFollow, EntryRight
  <1>6. SuspectTogether
    BY DEF Init, SuspectTogether
  <1> QED BY <1>1, <1>2, <1>4, <1>5, <1>6 DEF IndexInv

LEMMA IndexStep == CellsInv /\ IndexInv /\ [Next]_vars => IndexInv'
  <1> SUFFICES ASSUME CellsInv, IndexInv, [Next]_vars PROVE IndexInv'
    OBVIOUS
  <1>1. ASSUME NEW e \in Envs,
               \/ UpdateEnvironment(e) \/ DeleteEnvironment(e)
               \/ \E n \in Notebooks : CreateEnvironment(e, n)
        PROVE  IndexInv'
    BY <1>1, UpdateEnvironmentIndex, DeleteEnvironmentIndex, CreateEnvironmentIndex
  <1>2. ASSUME NEW n \in Notebooks,
               \/ CreateNotebook(n) \/ DeleteNotebook(n) \/ UpdateNotebook(n)
               \/ \E c \in Cells : AddCell(n, c) \/ DeleteCell(n, c) \/ RunEnds(n, c)
        PROVE  IndexInv'
    BY <1>2, CreateNotebookIndex, NotebookHandlersIndex
  <1>3. ASSUME NEW n \in Notebooks, NEW c \in Cells, RunStarts(n, c) PROVE IndexInv'
    <2>1. /\ ListedNotebooks' = ListedNotebooks
          /\ UNCHANGED <<envFile, nbFile, envIndex, todo, known, suspectNbs, suspectEnvs>>
      BY <1>3 DEF RunStarts, files, history, ListedNotebooks
    <2> QED BY <2>1, StillIndex
  <1>4. CASE HandlerStep
    BY <1>4, HandlerStepIndex
  <1>5. CASE Crash
    BY <1>5, CrashIndex
  <1>6. CASE Start
    <2>1. /\ nbIndex' = ListedNotebooks
          /\ UNCHANGED <<envFile, nbFile, envIndex, todo, known, suspectNbs, suspectEnvs>>
      BY <1>6 DEF Start, history
    <2>2. ListedNotebooks' = ListedNotebooks
      BY <2>1, ListedTypes, MarksAssumption DEF ListedNotebooks, Loaded
    <2> QED BY <2>1, <2>2, StillIndex
  <1>7. CASE UNCHANGED vars
    <2>1. /\ ListedNotebooks' = ListedNotebooks
          /\ UNCHANGED <<envFile, nbFile, envIndex, todo, known, suspectNbs, suspectEnvs>>
      BY <1>7 DEF vars, files, history, ListedNotebooks
    <2> QED BY <2>1, StillIndex
  <1> QED BY <1>1, <1>2, <1>3, <1>4, <1>5, <1>6, <1>7 DEF Next

\* In the middle of a handler, whatever the index says wrongly is put right by a step that is
\* left and that nothing before it keeps from being taken; a save and a deletion write and
\* remove the file before they change the list, and count after it.
THEOREM IndexFollowsWhatIsLeft == Spec => []IndexInv
  <1>1. Init => CellsInv /\ IndexInv
    BY CellsInit, IndexInit
  <1>2. CellsInv /\ IndexInv /\ [Next]_vars => (CellsInv /\ IndexInv)'
    BY CellsStep, IndexStep
  <1> QED BY <1>1, <1>2, PTL DEF Spec

\* Between two requests the index lists exactly the notebooks and environments that have a
\* file, and counts the notebooks right, except where a crash hit and nothing was saved since.
THEOREM IndexIsRight == Spec => []IndexAgrees
  <1>1. CellsInv /\ IndexInv => IndexAgrees
    BY AgreedNow DEF Agreed, IndexAgrees, Serving
  <1> QED BY <1>1, FilesFollowWhatIsLeft, IndexFollowsWhatIsLeft, PTL
=============================================================================
