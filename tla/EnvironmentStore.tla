---------------------------- MODULE EnvironmentStore ----------------------------
(***************************************************************************)
(* EnvironmentService (environment.py): environments and notebooks as one  *)
(* JSON file each and an index of either kind, with the handlers that use  *)
(* it (app.py) and the save at the end of a run (websocket.py).            *)
(*                                                                         *)
(* No handler awaits between its first read and its last write, so         *)
(* handlers do not interleave; but each writes several files, one plain    *)
(* write_text after the other, and the process may die between two of      *)
(* them or within one.  todo holds the steps that the handler in progress  *)
(* has left.  A file that was being written when the process died does     *)
(* not parse.                                                              *)
(***************************************************************************)
EXTENDS Naturals, SequencesExt, FiniteSets

CONSTANTS
    Envs,
    Notebooks,
    EnvOf,      \* the environment that each notebook is created in
    Cells,
    Absent,     \* no such file
    Torn,       \* a file that does not parse
    MaxCrashes  \* bound: crashes

ASSUME StoreAssumption ==
    /\ EnvOf \in [Notebooks -> Envs]
    /\ IsFiniteSet(Notebooks)
    /\ MaxCrashes \in Nat

\* The marks are the content of no file.
ASSUME MarksAssumption ==
    /\ Absent # Torn
    /\ "stored" \notin {Absent, Torn}
    /\ \A cells \in SUBSET Cells : cells \notin {Absent, Torn}
    /\ \A listed \in SUBSET Notebooks : listed # Torn
    /\ \A listed \in SUBSET Envs : Torn \notin [listed -> Nat]

VARIABLES
    envFile,     \* per environment: Absent, Torn or "stored"
    nbFile,      \* per notebook: Absent, Torn or the set of its cells
    envIndex,    \* Torn, or the listed environments with their notebook counts
    nbIndex,     \* Torn, or the listed notebooks
    todo,        \* steps that the handler in progress has left
    backend,     \* "up" or "down"
    runs,        \* notebooks and cells of the runs in flight
    known,       \* ids given out: they are never given out again
    wanted,      \* history: what each notebook's file should hold
    suspectNbs,  \* history: notebooks that a crash hit, until they are saved again
    suspectEnvs, \* history: the same of environments
    crashes

files == <<envFile, nbFile, envIndex, nbIndex>>
history == <<wanted, suspectNbs, suspectEnvs>>
vars == <<files, todo, backend, runs, known, history, crashes>>

Init ==
    /\ envFile = [e \in Envs |-> Absent]
    /\ nbFile = [n \in Notebooks |-> Absent]
    /\ envIndex = <<>>
    /\ nbIndex = {}
    /\ todo = <<>>
    /\ backend = "up"
    /\ runs = {}
    /\ known = {}
    /\ wanted = nbFile
    /\ suspectNbs = {} /\ suspectEnvs = {}
    /\ crashes = 0

IsStored(n) == nbFile[n] \notin {Absent, Torn}
Serving == backend = "up" /\ todo = <<>>

\* An index that does not parse is deleted and read as an empty one.
Loaded(index, empty) == IF index = Torn THEN empty ELSE index
ListedNotebooks == Loaded(nbIndex, {})
ListedEnvs == Loaded(envIndex, <<>>)

-----------------------------------------------------------------------------
(* The steps of the handlers. *)

Step(do, of) == [do |-> do, of |-> of, cells |-> {}]

SaveEnvironment(e) == <<Step("write env", e), Step("list env", e)>>
SaveNotebook(n, cells) ==
    <<[do |-> "write nb", of |-> n, cells |-> cells], Step("list nb", n)>>

\* Faulty variant: the environment's entry is left alone.
CreateUncounted(n) == SaveNotebook(n, {})

CreateNotebookSteps(n) == Append(SaveNotebook(n, {}), Step("count", EnvOf[n]))

DeleteNotebookSteps(n) ==
    <<Step("unlink nb", n), Step("unlist nb", n), Step("count", EnvOf[n])>>

-----------------------------------------------------------------------------
(* Handlers: what they read first decides the steps. *)

Handle(steps, nextWanted) ==
    /\ Serving
    /\ todo' = steps
    /\ wanted' = nextWanted
    /\ UNCHANGED <<files, backend, suspectNbs, suspectEnvs, crashes>>

Keep(n, cells) == [wanted EXCEPT ![n] = cells]

\* With a first notebook.
CreateEnvironment(e, n) ==
    /\ {e, n} \cap known = {} /\ EnvOf[n] = e
    /\ known' = known \cup {e, n}
    /\ Handle(SaveEnvironment(e) \o CreateNotebookSteps(n), Keep(n, {}))
    /\ UNCHANGED runs

UpdateEnvironment(e) ==
    /\ envFile[e] = "stored"
    /\ Handle(SaveEnvironment(e), wanted)
    /\ UNCHANGED <<runs, known>>

\* Notebooks are deleted as they are listed; those that are not listed are left.
DeleteEnvironment(e) ==
    /\ envFile[e] = "stored"
    /\ \E listed \in SetToSeqs({n \in ListedNotebooks : EnvOf[n] = e}) :
           Handle([i \in DOMAIN listed |-> Step("delete nb", listed[i])]
                      \o <<Step("unlink env", e), Step("unlist env", e)>>, wanted)
    /\ UNCHANGED <<runs, known>>

CreateNotebook(n) ==
    /\ n \notin known /\ envFile[EnvOf[n]] = "stored"
    /\ known' = known \cup {n}
    /\ Handle(CreateNotebookSteps(n), Keep(n, {}))
    /\ UNCHANGED runs

DeleteNotebook(n) ==
    /\ IsStored(n)
    /\ Handle(<<Step("delete nb", n)>>, wanted)
    /\ UNCHANGED <<runs, known>>

\* A name, the source or type of a cell, or the order of the cells.
UpdateNotebook(n) ==
    /\ IsStored(n)
    /\ Handle(SaveNotebook(n, nbFile[n]), wanted)
    /\ UNCHANGED <<runs, known>>

AddCell(n, c) ==
    /\ IsStored(n) /\ <<n, c>> \notin known
    /\ known' = known \cup {<<n, c>>}
    /\ Handle(SaveNotebook(n, nbFile[n] \cup {c}), Keep(n, wanted[n] \cup {c}))
    /\ UNCHANGED runs

DeleteCell(n, c) ==
    /\ IsStored(n) /\ c \in nbFile[n]
    /\ Handle(SaveNotebook(n, nbFile[n] \ {c}), Keep(n, wanted[n] \ {c}))
    /\ UNCHANGED <<runs, known>>

RunStarts(n, c) ==
    /\ Serving /\ IsStored(n) /\ c \in nbFile[n]
    /\ runs' = runs \cup {<<n, c>>}
    /\ UNCHANGED <<files, todo, backend, known, history, crashes>>

\* Faulty variant: the cell that ran is saved, whether it is still there or not.
SavedWithItsCell(n, c) ==
    IF IsStored(n) THEN SaveNotebook(n, nbFile[n] \cup {c}) ELSE <<>>

\* _persist_cell_outputs reads the notebook again: it may have changed during the run, or
\* be gone, and so may the cell.
SavedAfterRun(n, c) ==
    IF IsStored(n) THEN SaveNotebook(n, nbFile[n]) ELSE <<>>

RunEnds(n, c) ==
    /\ <<n, c>> \in runs
    /\ runs' = runs \ {<<n, c>>}
    /\ Handle(SavedAfterRun(n, c), wanted)
    /\ UNCHANGED known

-----------------------------------------------------------------------------
(* Steps. *)

Count(e) == Cardinality({n \in ListedNotebooks : EnvOf[n] = e})
EntryWritten(e) ==
    envIndex' = [f \in DOMAIN ListedEnvs \cup {e} |->
                    IF f = e THEN Count(e) ELSE ListedEnvs[f]]

\* A count that a suspect notebook may yet upset is not trusted.
EnvTrusted(e) ==
    suspectEnvs' = IF \E n \in suspectNbs : EnvOf[n] = e THEN suspectEnvs
                   ELSE suspectEnvs \ {e}

NextStep(do) == todo # <<>> /\ Head(todo).do = do
Subject == Head(todo).of

WriteEnv ==
    /\ NextStep("write env")
    /\ envFile' = [envFile EXCEPT ![Subject] = "stored"]
    /\ todo' = Tail(todo)
    /\ UNCHANGED <<nbFile, envIndex, nbIndex, history>>

ListEnv ==
    /\ NextStep("list env") \/ (NextStep("count") /\ envFile[Subject] = "stored")
    /\ EntryWritten(Subject)
    /\ EnvTrusted(Subject)
    /\ todo' = Tail(todo)
    /\ UNCHANGED <<envFile, nbFile, nbIndex, wanted, suspectNbs>>

\* The environment is gone, or cannot be read, which ends the handler.
NoEnvToCount ==
    /\ NextStep("count") /\ envFile[Subject] # "stored"
    /\ todo' = IF envFile[Subject] = Torn THEN <<>> ELSE Tail(todo)
    /\ UNCHANGED <<files, history>>

UnlinkEnv ==
    /\ NextStep("unlink env")
    /\ envFile' = [envFile EXCEPT ![Subject] = Absent]
    /\ todo' = Tail(todo)
    /\ UNCHANGED <<nbFile, envIndex, nbIndex, history>>

UnlistEnv ==
    /\ NextStep("unlist env")
    /\ envIndex' = [f \in DOMAIN ListedEnvs \ {Subject} |-> ListedEnvs[f]]
    /\ suspectEnvs' = suspectEnvs \ {Subject}
    /\ todo' = Tail(todo)
    /\ UNCHANGED <<envFile, nbFile, nbIndex, wanted, suspectNbs>>

WriteNotebook ==
    /\ NextStep("write nb")
    /\ nbFile' = [nbFile EXCEPT ![Subject] = Head(todo).cells]
    /\ todo' = Tail(todo)
    /\ UNCHANGED <<envFile, envIndex, nbIndex, history>>

ListNotebook ==
    /\ NextStep("list nb")
    /\ nbIndex' = ListedNotebooks \cup {Subject}
    /\ suspectNbs' = suspectNbs \ {Subject}
    /\ todo' = Tail(todo)
    /\ UNCHANGED <<envFile, nbFile, envIndex, wanted, suspectEnvs>>

\* delete_notebook reads the file first: nothing to do without one, an error if torn.
DeletionRead ==
    /\ NextStep("delete nb")
    /\ todo' = IF nbFile[Subject] = Torn THEN <<>>
               ELSE IF nbFile[Subject] = Absent THEN Tail(todo)
               ELSE DeleteNotebookSteps(Subject) \o Tail(todo)
    /\ wanted' = IF nbFile[Subject] = Torn THEN wanted ELSE Keep(Subject, Absent)
    /\ UNCHANGED <<files, suspectNbs, suspectEnvs>>

UnlinkNotebook ==
    /\ NextStep("unlink nb")
    /\ nbFile' = [nbFile EXCEPT ![Subject] = Absent]
    /\ todo' = Tail(todo)
    /\ UNCHANGED <<envFile, envIndex, nbIndex, history>>

UnlistNotebook ==
    /\ NextStep("unlist nb")
    /\ nbIndex' = ListedNotebooks \ {Subject}
    /\ suspectNbs' = suspectNbs \ {Subject}
    /\ todo' = Tail(todo)
    /\ UNCHANGED <<envFile, nbFile, envIndex, wanted, suspectEnvs>>

HandlerStep ==
    /\ backend = "up"
    /\ \/ WriteEnv \/ ListEnv \/ NoEnvToCount \/ UnlinkEnv \/ UnlistEnv
       \/ WriteNotebook \/ ListNotebook \/ DeletionRead \/ UnlinkNotebook \/ UnlistNotebook
    /\ UNCHANGED <<backend, runs, known, crashes>>

-----------------------------------------------------------------------------
(* Crash and start. *)

\* The file that the next step was writing, if the crash tears it.
TornWrite ==
    \/ NextStep("write env") /\ envFile' = [envFile EXCEPT ![Subject] = Torn]
                             /\ UNCHANGED <<nbFile, envIndex, nbIndex>>
    \/ NextStep("write nb") /\ nbFile' = [nbFile EXCEPT ![Subject] = Torn]
                            /\ UNCHANGED <<envFile, envIndex, nbIndex>>
    \/ /\ NextStep("list env") \/ NextStep("unlist env")
           \/ (NextStep("count") /\ envFile[Subject] = "stored")
       /\ envIndex' = Torn
       /\ UNCHANGED <<envFile, nbFile, nbIndex>>
    \/ /\ NextStep("list nb") \/ NextStep("unlist nb")
       /\ nbIndex' = Torn
       /\ UNCHANGED <<envFile, nbFile, envIndex>>

\* Notebooks and environments whose save or deletion was under way.
HitNotebooks ==
    {step.of : step \in {s \in ToSet(todo) :
        s.do \in {"write nb", "list nb", "unlink nb", "unlist nb"}}}
HitEnvs ==
    {step.of : step \in {s \in ToSet(todo) :
        s.do \in {"write env", "list env", "count", "unlink env", "unlist env"}}}

Crash ==
    /\ backend = "up" /\ crashes < MaxCrashes
    /\ crashes' = crashes + 1
    /\ backend' = "down"
    /\ TornWrite \/ UNCHANGED files
    /\ todo' = <<>>
    /\ runs' = {}
    /\ wanted' = [n \in Notebooks |-> IF n \in HitNotebooks THEN nbFile'[n] ELSE wanted[n]]
    /\ suspectNbs' = IF nbIndex' = Torn THEN Notebooks ELSE suspectNbs \cup HitNotebooks
    /\ suspectEnvs' =
           IF envIndex' = Torn \/ nbIndex' = Torn THEN Envs
           ELSE suspectEnvs \cup HitEnvs \cup {EnvOf[n] : n \in HitNotebooks}
    /\ UNCHANGED known

\* clear_stale_running_cells reads every listed notebook: one that does not parse raises,
\* and the backend does not come up.  It finds no running cell: none is ever saved.
Start ==
    /\ backend = "down"
    /\ \A n \in ListedNotebooks : nbFile[n] # Torn
    /\ backend' = "up"
    /\ nbIndex' = ListedNotebooks
    /\ UNCHANGED <<envFile, nbFile, envIndex, todo, runs, known, history, crashes>>

Next ==
    \/ \E e \in Envs :
        \/ UpdateEnvironment(e) \/ DeleteEnvironment(e)
        \/ \E n \in Notebooks : CreateEnvironment(e, n)
    \/ \E n \in Notebooks :
        \/ CreateNotebook(n) \/ DeleteNotebook(n) \/ UpdateNotebook(n)
        \/ \E c \in Cells :
            AddCell(n, c) \/ DeleteCell(n, c) \/ RunStarts(n, c) \/ RunEnds(n, c)
    \/ HandlerStep
    \/ Crash
    \/ Start

Spec == Init /\ [][Next]_vars

-----------------------------------------------------------------------------
(* Properties. *)

\* Between two requests the index lists exactly the notebooks and environments that have a
\* file, and counts the notebooks right, except where a crash hit: a notebook that is saved
\* after the crash is back in the list, and so is an environment.
IndexAgrees ==
    Serving =>
        /\ \A n \in Notebooks \ suspectNbs : n \in ListedNotebooks <=> IsStored(n)
        /\ \A e \in Envs \ suspectEnvs :
            /\ e \in DOMAIN ListedEnvs <=> envFile[e] = "stored"
            /\ e \in DOMAIN ListedEnvs => ListedEnvs[e] = Count(e)

\* A notebook that can be read holds the cells that were added and not deleted: the end of
\* a run neither drops a cell that was added during the run nor brings a cell, or a whole
\* notebook, back that was deleted, whatever crashed in between.
CellsKept ==
    Serving => \A n \in Notebooks : nbFile[n] # Torn => nbFile[n] = wanted[n]
=============================================================================
