--------------------------- MODULE NotebookViewProofs ---------------------------
(***************************************************************************)
(* Proofs about NotebookView, for any cells, runs, outputs and faults: a   *)
(* cell shows the outputs of one run, without a gap but those of the file, *)
(* and up to the last once it shows how the run ended.                     *)
(***************************************************************************)
EXTENDS NotebookView, FiniteSetTheorems, SequenceTheorems, TLAPS

-----------------------------------------------------------------------------
(***************************************************************************)
(* The inductive invariant.                                                *)
(***************************************************************************)

\* Items of a run say where they are in its log.
Known(all, s) == \A n \in DOMAIN s :
    s[n][1] # 0 => s[n][1] \in DOMAIN all /\ s[n][2] \in 1..Len(all[s[n][1]].log)

\* They are of one run, in order, and skip no entry of these kinds.
Gapless(all, kinds, s) == \A n \in 1..(Len(s) - 1) :
    LET r == s[n][1] IN
    /\ s[n + 1][1] = r /\ s[n][2] < s[n + 1][2]
    /\ r # 0 => ~LeavesOut(all[r].log, kinds, s[n][2], s[n + 1][2])

Chain(all, kinds, s) == Known(all, s) /\ Gapless(all, kinds, s)

\* Nor is one of run r skipped between the last of them and place p.
UpTo(all, kinds, s, r, p) == s # <<>> =>
    /\ Last(s)[1] = r /\ Last(s)[2] < p
    /\ ~LeavesOut(all[r].log, kinds, Last(s)[2], p)

\* Items of a run that is over go up to its end.
Complete(all, kinds, s) == (s # <<>> /\ Last(s)[1] # 0) =>
    LET r == Last(s)[1]
        log == all[r].log IN
    /\ r \in DOMAIN all
    /\ log # <<>> /\ Last(log) \in Terminals
    /\ ~LeavesOut(log, kinds, Last(s)[2], Len(log) + 1)

\* A log opens with "running", a terminal state is the last of its entries, and what was
\* kept are its outputs.
LogsInv ==
    \A r \in DOMAIN runs : LET log == runs[r].log IN
        /\ log # <<>> => log[1] = "running"
        /\ \A i \in 1..(Len(log) - 1) : log[i] \notin Terminals
        /\ Chain(runs, {"output"}, runs[r].kept)
        /\ UpTo(runs, {"output"}, runs[r].kept, r, Len(log) + 1)

\* An attached forwarder sends a run that has started, and it replays what there was.
Placed(k) == LET r == fw[k].run IN r # 0 =>
    /\ fw[k].want = runs[r].cell
    /\ fw[k].snap \in 1..Len(runs[r].log)

\* A page that is not connected has no forwarder, and the cells it has still to ask for
\* show nothing.
Disconnected == link # "up" =>
    /\ \A k \in Forwarders : fw[k].run = 0
    /\ \A c \in Executes(outbox) : view[c].items = <<>>

StoredInv == \A c \in Cells :
    /\ Chain(runs, {"output"}, stored[c].items)
    /\ Complete(runs, {"output"}, stored[c].items)

ShownInv == \A c \in Cells \ crossed :
    /\ Chain(runs, KindsShown(c), view[c].items)
    /\ view[c].state \in Terminals => Complete(runs, KindsShown(c), view[c].items)

\* Nobody else sends runs of this cell; once the run was shown as running, the cell is
\* busy, and what it shows goes up to the last entry sent.
Alone(k) == LET r == fw[k].run
                c == runs[r].cell IN
    r # 0 /\ c \notin crossed =>
        /\ \A j \in Forwarders \ {k} : fw[j].run # 0 => fw[j].want # c
        /\ fw[k].pos > 1 =>
              /\ Busy(c) /\ c \notin restored
              /\ UpTo(runs, ShownLive, view[c].items, r, fw[k].pos)

ForwardersInv == \A k \in Forwarders : Placed(k) /\ Alone(k)

IInv == TypeOK /\ LogsInv /\ Disconnected /\ StoredInv /\ ShownInv /\ ForwardersInv

-----------------------------------------------------------------------------
(***************************************************************************)
(* Logs and the items that are of them.                                    *)
(***************************************************************************)

LEMMA LastItem ==
    ASSUME NEW s \in Items, s # <<>>
    PROVE  /\ Len(s) \in Nat \ {0} /\ Last(s) = s[Len(s)] /\ Last(s) \in Nat \X Nat
           /\ Last(s)[1] \in Nat /\ Last(s)[2] \in Nat
<1>1. Len(s) \in Nat \ {0} /\ Last(s) = s[Len(s)] /\ s[Len(s)] \in Nat \X Nat
  BY DEF Items, Last
<1> QED BY <1>1

LEMMA ItemTypes ==
    ASSUME NEW s \in Items
    PROVE  /\ Len(s) \in Nat /\ DOMAIN s = 1..Len(s)
           /\ \A n \in 1..Len(s) : s[n] \in Nat \X Nat /\ s[n][1] \in Nat /\ s[n][2] \in Nat
<1>1. Len(s) \in Nat /\ DOMAIN s = 1..Len(s) /\ \A n \in 1..Len(s) : s[n] \in Nat \X Nat
  BY DEF Items
<1> QED BY <1>1

LEMMA NoItems ==
    \A all, kinds, r, p :
        /\ Chain(all, kinds, <<>>) /\ Complete(all, kinds, <<>>)
        /\ UpTo(all, kinds, <<>>, r, p)
BY DEF Chain, Known, Gapless, Complete, UpTo

LEMMA AppendedOne ==
    ASSUME NEW S, NEW s \in Seq(S), NEW e \in S
    PROVE  /\ Append(s, e) \in Seq(S) /\ Len(Append(s, e)) = Len(s) + 1
           /\ Append(s, e) # <<>> /\ Last(Append(s, e)) = e
           /\ Append(s, e)[Len(s) + 1] = e
           /\ \A i \in 1..Len(s) : Append(s, e)[i] = s[i]
<1>1. /\ Append(s, e) \in Seq(S) /\ Len(Append(s, e)) = Len(s) + 1
      /\ Append(s, e)[Len(s) + 1] = e
      /\ \A i \in 1..Len(s) : Append(s, e)[i] = s[i]
  OBVIOUS
<1>2. Append(s, e) # <<>>
  BY <1>1, Len(<<>>) = 0
<1> QED BY <1>1, <1>2 DEF Last

\* The entry at p is shown next, or is of another kind.
LEMMA NextItem ==
    ASSUME NEW all, NEW kinds, NEW s \in Items, NEW r \in Nat \ {0}, r \in DOMAIN all,
           Len(all[r].log) \in Nat, NEW p \in 1..Len(all[r].log),
           Chain(all, kinds, s), UpTo(all, kinds, s, r, p)
    PROVE  /\ Append(s, <<r, p>>) \in Items
           /\ Chain(all, kinds, Append(s, <<r, p>>))
           /\ UpTo(all, kinds, Append(s, <<r, p>>), r, p + 1)
<1> DEFINE item == <<r, p>>
           t == Append(s, item)
<1>1. item \in Nat \X Nat /\ p \in Nat /\ item[1] = r /\ item[2] = p
  OBVIOUS
<1>2. /\ t \in Items /\ Len(t) = Len(s) + 1 /\ t # <<>> /\ Last(t) = item
      /\ t[Len(s) + 1] = item /\ \A i \in 1..Len(s) : t[i] = s[i]
  <2>1. s \in Seq(Nat \X Nat)
    BY DEF Items
  <2> HIDE DEF item
  <2> QED BY <1>1, <2>1, AppendedOne DEF Items
<1>3. Len(s) \in Nat /\ DOMAIN s = 1..Len(s) /\ DOMAIN t = 1..(Len(s) + 1)
  BY <1>2, ItemTypes
<1> HIDE DEF t, item
<1>4. Known(all, t)
  <2>1. ASSUME NEW n \in 1..(Len(s) + 1), t[n][1] # 0
        PROVE  t[n][1] \in DOMAIN all /\ t[n][2] \in 1..Len(all[t[n][1]].log)
    <3>1. CASE n = Len(s) + 1
      BY <1>1, <1>2, <3>1
    <3>2. CASE n \in 1..Len(s)
      <4>1. t[n] = s[n] /\ n \in DOMAIN s
        BY <1>2, <1>3, <3>2
      <4> QED BY <2>1, <4>1 DEF Chain, Known
    <3> QED BY <1>3, <3>1, <3>2
  <2> QED BY <1>3, <2>1 DEF Known
<1>5. Gapless(all, kinds, t)
  <2>1. ASSUME NEW n \in 1..Len(s)
        PROVE  /\ t[n + 1][1] = t[n][1] /\ t[n][2] < t[n + 1][2]
               /\ t[n][1] # 0 =>
                     ~LeavesOut(all[t[n][1]].log, kinds, t[n][2], t[n + 1][2])
    <3>1. CASE n = Len(s)
      <4>1. s # <<>> /\ Last(s) = s[n] /\ t[n] = s[n] /\ t[n + 1] = item
        BY <1>2, <1>3, <3>1 DEF Last
      <4> QED BY <1>1, <4>1 DEF UpTo
    <3>2. CASE n # Len(s)
      <4> DEFINE m == Len(s)
      <4>0. m \in Nat /\ n \in 1..m /\ n # m
        BY <1>3, <3>2
      <4> HIDE DEF m
      <4>1. n \in 1..(m - 1) /\ n + 1 \in 1..m
        BY <4>0
      <4>2. t[n] = s[n] /\ t[n + 1] = s[n + 1]
        BY <1>2, <4>0, <4>1 DEF m
      <4> QED BY <4>1, <4>2 DEF Chain, Gapless, m
    <3> QED BY <3>1, <3>2
  <2>2. 1..(Len(t) - 1) = 1..Len(s)
    BY <1>2, <1>3
  <2> QED BY <2>1, <2>2 DEF Gapless
<1>6. UpTo(all, kinds, t, r, p + 1)
  <2>1. (p + 1)..(p + 1 - 1) = {} /\ p < p + 1
    BY <1>1
  <2> QED BY <1>1, <1>2, <2>1 DEF UpTo, LeavesOut
<1> QED BY <1>2, <1>4, <1>5, <1>6 DEF Chain, t, item

LEMMA NoItem ==
    ASSUME NEW all, NEW kinds, NEW s \in Items, NEW r, NEW p \in Nat,
           UpTo(all, kinds, s, r, p), all[r].log[p] \notin kinds
    PROVE  UpTo(all, kinds, s, r, p + 1)
<1> SUFFICES ASSUME s # <<>> PROVE UpTo(all, kinds, s, r, p + 1)
  BY DEF UpTo
<1> DEFINE i == Last(s)[2]
<1>1. i \in Nat /\ Last(s)[1] = r /\ i < p /\ ~LeavesOut(all[r].log, kinds, i, p)
  BY LastItem DEF UpTo
<1> HIDE DEF i
<1>2. i < p + 1
  BY <1>1
<1>3. ASSUME NEW n \in (i + 1)..(p + 1 - 1) PROVE all[r].log[n] \notin kinds
  <2>1. n = p \/ n \in (i + 1)..(p - 1)
    BY <1>1
  <2> QED BY <1>1, <2>1 DEF LeavesOut
<1> QED BY <1>1, <1>2, <1>3 DEF UpTo, LeavesOut, i

LEMMA CompleteAtEnd ==
    ASSUME NEW all, NEW kinds, NEW s, NEW r \in DOMAIN all,
           all[r].log # <<>>, Last(all[r].log) \in Terminals,
           UpTo(all, kinds, s, r, Len(all[r].log) + 1)
    PROVE  Complete(all, kinds, s)
BY DEF UpTo, Complete

\* Over is what ends with a terminal state.
LEMMA OverByIndex ==
    ASSUME NEW r, runs[r].log \in Seq(LogEntries)
    PROVE  IsOver(r) <=> /\ Len(runs[r].log) > 0
                         /\ runs[r].log[Len(runs[r].log)] \in Terminals
BY DEF IsOver, IsQueued, Last

-----------------------------------------------------------------------------
(***************************************************************************)
(* Steps that only add to the logs, take forwarders away and start cells.  *)
(***************************************************************************)

Grown ==
    /\ runs \in Seq(Run) /\ runs' \in Seq(Run) /\ Len(runs) <= Len(runs')
    /\ \A q \in 1..Len(runs) :
          /\ runs'[q].cell = runs[q].cell
          /\ Len(runs[q].log) <= Len(runs'[q].log)
          /\ \A i \in 1..Len(runs[q].log) : runs'[q].log[i] = runs[q].log[i]
          /\ IsOver(q) => runs'[q] = runs[q]

ForwardersKept == \A k \in Forwarders : fw'[k] = fw[k] \/ fw'[k].run = 0

\* What a cell is meant to show after the step.
KindsLater(c) == IF c \in restored' THEN {"output"} ELSE ShownLive

\* A cell is as it was, or as a run of it begins.
Fresh == [state |-> "running", items |-> <<>>]
ViewKept ==
    /\ \A c \in Cells : \/ view'[c] = view[c] /\ KindsLater(c) = KindsShown(c)
                        \/ view'[c] = Fresh
    /\ restored' \subseteq restored

LEMMA RunTypes ==
    ASSUME NEW all \in Seq(Run), NEW r \in 1..Len(all)
    PROVE  /\ all[r] \in Run /\ all[r].cell \in Cells /\ all[r].log \in Seq(LogEntries)
           /\ Len(all[r].log) \in Nat /\ all[r].kept \in Items
<1>1. all[r] \in Run
  OBVIOUS
<1>2. all[r].cell \in Cells /\ all[r].log \in Seq(LogEntries) /\ all[r].kept \in Items
  BY <1>1 DEF Run
<1> QED BY <1>1, <1>2

LEMMA SameRuns == ASSUME runs \in Seq(Run), runs' = runs PROVE Grown
<1>1. \A q \in 1..Len(runs) : Len(runs[q].log) \in Nat
  BY RunTypes
<1> QED BY <1>1 DEF Grown

\* Places in a log that there are stay as they are.
LEMMA NoGapAppears ==
    ASSUME Grown, NEW r \in 1..Len(runs), NEW kinds, NEW i \in Nat, NEW j \in Nat,
           j <= Len(runs[r].log) + 1, ~LeavesOut(runs[r].log, kinds, i, j)
    PROVE  ~LeavesOut(runs'[r].log, kinds, i, j)
<1>1. Len(runs[r].log) \in Nat
  BY RunTypes DEF Grown
<1>2. ASSUME NEW n \in (i + 1)..(j - 1) PROVE runs'[r].log[n] \notin kinds
  <2>1. n \in 1..Len(runs[r].log)
    BY <1>1
  <2>2. runs'[r].log[n] = runs[r].log[n]
    BY <2>1 DEF Grown
  <2> QED BY <2>2 DEF LeavesOut
<1> QED BY <1>2 DEF LeavesOut

LEMMA ChainKept ==
    ASSUME Grown, NEW kinds, NEW s \in Items, Chain(runs, kinds, s)
    PROVE  Chain(runs', kinds, s)
<1>1. /\ DOMAIN runs = 1..Len(runs) /\ DOMAIN runs' = 1..Len(runs')
      /\ Len(runs) \in Nat /\ Len(runs') \in Nat /\ Len(runs) <= Len(runs')
  BY DEF Grown
<1>2. /\ Len(s) \in Nat /\ DOMAIN s = 1..Len(s)
      /\ \A n \in 1..Len(s) : s[n] \in Nat \X Nat /\ s[n][1] \in Nat /\ s[n][2] \in Nat
  BY ItemTypes
<1>3. ASSUME NEW n \in 1..Len(s), s[n][1] # 0
      PROVE  /\ s[n][1] \in 1..Len(runs) /\ s[n][2] <= Len(runs[s[n][1]].log)
             /\ s[n][1] \in 1..Len(runs') /\ s[n][2] \in 1..Len(runs'[s[n][1]].log)
  <2> DEFINE r == s[n][1]
             i == s[n][2]
  <2>1. r \in 1..Len(runs) /\ i \in 1..Len(runs[r].log)
    BY <1>1, <1>2, <1>3 DEF Chain, Known
  <2>2. r \in 1..Len(runs')
    BY <1>1, <2>1
  <2>3. Len(runs[r].log) \in Nat /\ Len(runs'[r].log) \in Nat
    BY <2>1, <2>2, RunTypes DEF Grown
  <2>4. Len(runs[r].log) <= Len(runs'[r].log)
    BY <2>1 DEF Grown
  <2> HIDE DEF r, i
  <2>5. i <= Len(runs[r].log) /\ i \in 1..Len(runs'[r].log)
    BY <2>1, <2>3, <2>4
  <2> QED BY <2>1, <2>2, <2>5 DEF r, i
<1>4. Known(runs', s)
  BY <1>1, <1>2, <1>3 DEF Known
<1>5. ASSUME NEW n \in 1..(Len(s) - 1)
      PROVE  /\ s[n + 1][1] = s[n][1] /\ s[n][2] < s[n + 1][2]
             /\ s[n][1] # 0 =>
                   ~LeavesOut(runs'[s[n][1]].log, kinds, s[n][2], s[n + 1][2])
  <2>1. /\ s[n + 1][1] = s[n][1] /\ s[n][2] < s[n + 1][2]
        /\ s[n][1] # 0 => ~LeavesOut(runs[s[n][1]].log, kinds, s[n][2], s[n + 1][2])
    BY DEF Chain, Gapless
  <2>2. n \in 1..Len(s) /\ n + 1 \in 1..Len(s)
    BY <1>2
  <2>3. ASSUME s[n][1] # 0
        PROVE  ~LeavesOut(runs'[s[n][1]].log, kinds, s[n][2], s[n + 1][2])
    <3>1. s[n][1] \in 1..Len(runs) /\ s[n + 1][2] <= Len(runs[s[n][1]].log)
      BY <1>3, <2>1, <2>2, <2>3
    <3>2. s[n + 1][2] \in Nat /\ s[n][2] \in Nat
      BY <1>2, <2>2
    <3>3. Len(runs[s[n][1]].log) \in Nat
      BY <3>1, RunTypes DEF Grown
    <3>4. s[n + 1][2] <= Len(runs[s[n][1]].log) + 1
      BY <3>1, <3>2, <3>3
    <3> QED BY <2>1, <2>3, <3>1, <3>2, <3>4, NoGapAppears
  <2> QED BY <2>1, <2>3
<1> QED BY <1>4, <1>5 DEF Chain, Gapless

LEMMA UpToKept ==
    ASSUME Grown, NEW kinds, NEW s \in Items, NEW r \in 1..Len(runs), NEW p \in Nat,
           p <= Len(runs[r].log) + 1, UpTo(runs, kinds, s, r, p)
    PROVE  UpTo(runs', kinds, s, r, p)
<1> SUFFICES ASSUME s # <<>> PROVE UpTo(runs', kinds, s, r, p)
  BY DEF UpTo
<1>1. /\ Last(s)[2] \in Nat /\ Last(s)[1] = r /\ Last(s)[2] < p
      /\ ~LeavesOut(runs[r].log, kinds, Last(s)[2], p)
  BY LastItem DEF UpTo
<1>2. ~LeavesOut(runs'[r].log, kinds, Last(s)[2], p)
  BY <1>1, NoGapAppears
<1> QED BY <1>1, <1>2 DEF UpTo

LEMMA CompleteKept ==
    ASSUME Grown, NEW kinds, NEW s, Complete(runs, kinds, s)
    PROVE  Complete(runs', kinds, s)
<1> DEFINE r == Last(s)[1]
<1> SUFFICES ASSUME s # <<>>, r # 0 PROVE r \in DOMAIN runs' /\ runs'[r] = runs[r]
  BY DEF Complete
<1>1. r \in DOMAIN runs /\ IsOver(r)
  BY DEF Complete, IsOver, IsQueued
<1>2. r \in 1..Len(runs) /\ r \in 1..Len(runs')
  BY <1>1 DEF Grown
<1> QED BY <1>1, <1>2 DEF Grown

\* A run with one more entry, and with one more output kept if it is one.
RunAfter(r, entry) ==
    [cell |-> runs[r].cell, log |-> Append(runs[r].log, entry),
     kept |-> IF entry = "output" THEN Append(runs[r].kept, <<r, Len(runs[r].log) + 1>>)
              ELSE runs[r].kept]

\* A longer log is of a run that was not over.
LEMMA LogGrows ==
    ASSUME TypeOK, LogsInv, NEW r \in 1..Len(runs), NEW entry \in LogEntries,
           runs' = [runs EXCEPT ![r] = RunAfter(r, entry)],
           ~IsOver(r), runs[r].log = <<>> => entry = "running"
    PROVE  /\ Grown /\ LogsInv' /\ Len(runs') = Len(runs)
           /\ runs'[r] = RunAfter(r, entry)
<1> DEFINE log == runs[r].log
           kept == runs[r].kept
           longer == Append(log, entry)
           more == IF entry = "output" THEN Append(kept, <<r, Len(log) + 1>>) ELSE kept
<1>1. /\ runs \in Seq(Run) /\ runs[r] \in Run /\ log \in Seq(LogEntries) /\ Len(log) \in Nat
      /\ kept \in Items /\ r \in Nat \ {0} /\ r \in DOMAIN runs
  BY RunTypes DEF TypeOK
<1>2. /\ longer \in Seq(LogEntries) /\ Len(longer) = Len(log) + 1
      /\ longer[Len(log) + 1] = entry /\ \A i \in 1..Len(log) : longer[i] = log[i]
  BY <1>1, AppendedOne
<1>3. more \in Items
  <2>1. <<r, Len(log) + 1>> \in Nat \X Nat
    BY <1>1
  <2> QED BY <1>1, <2>1, AppendedOne DEF Items
<1>4. RunAfter(r, entry) = [cell |-> runs[r].cell, log |-> longer, kept |-> more]
  BY DEF RunAfter
<1> HIDE DEF longer, more
<1>5. RunAfter(r, entry) \in Run
  BY <1>1, <1>2, <1>3, <1>4 DEF Run
<1>6. /\ runs' \in Seq(Run) /\ Len(runs') = Len(runs) /\ runs'[r] = RunAfter(r, entry)
      /\ \A q \in 1..Len(runs) : q # r => runs'[q] = runs[q]
  BY <1>1, <1>5
<1>7. runs'[r].cell = runs[r].cell /\ runs'[r].log = longer /\ runs'[r].kept = more
  BY <1>4, <1>6
<1>8. ASSUME NEW q \in 1..Len(runs)
      PROVE  /\ runs'[q].cell = runs[q].cell
             /\ Len(runs[q].log) <= Len(runs'[q].log)
             /\ \A i \in 1..Len(runs[q].log) : runs'[q].log[i] = runs[q].log[i]
             /\ IsOver(q) => runs'[q] = runs[q]
  <2>1. CASE q = r
    BY <1>1, <1>2, <1>7, <2>1
  <2>2. CASE q # r
    <3>1. Len(runs[q].log) \in Nat
      BY <1>1, RunTypes
    <3> QED BY <1>6, <2>2, <3>1
  <2> QED BY <2>1, <2>2
<1>9. Grown
  BY <1>1, <1>6, <1>8 DEF Grown
<1>10. ASSUME NEW q \in 1..Len(runs)
       PROVE  /\ runs[q].log # <<>> => runs[q].log[1] = "running"
              /\ \A i \in 1..(Len(runs[q].log) - 1) : runs[q].log[i] \notin Terminals
              /\ Chain(runs', {"output"}, runs[q].kept)
              /\ UpTo(runs', {"output"}, runs[q].kept, q, Len(runs[q].log) + 1)
  <2>1. /\ runs[q].log # <<>> => runs[q].log[1] = "running"
        /\ \A i \in 1..(Len(runs[q].log) - 1) : runs[q].log[i] \notin Terminals
        /\ Chain(runs, {"output"}, runs[q].kept)
        /\ UpTo(runs, {"output"}, runs[q].kept, q, Len(runs[q].log) + 1)
    BY <1>1 DEF LogsInv
  <2>2. runs[q].kept \in Items /\ Len(runs[q].log) \in Nat
    BY <1>1, RunTypes
  <2>3. Chain(runs', {"output"}, runs[q].kept)
    BY <1>9, <2>1, <2>2, ChainKept
  <2>4. UpTo(runs', {"output"}, runs[q].kept, q, Len(runs[q].log) + 1)
    <3>1. Len(runs[q].log) + 1 \in Nat /\ Len(runs[q].log) + 1 <= Len(runs[q].log) + 1
      BY <2>2
    <3> QED BY <1>9, <2>1, <2>2, <3>1, UpToKept
  <2> QED BY <2>1, <2>3, <2>4
<1>11. LogsInv'
  <2>1. ASSUME NEW q \in 1..Len(runs)
        PROVE  /\ runs'[q].log # <<>> => runs'[q].log[1] = "running"
               /\ \A i \in 1..(Len(runs'[q].log) - 1) : runs'[q].log[i] \notin Terminals
               /\ Chain(runs', {"output"}, runs'[q].kept)
               /\ UpTo(runs', {"output"}, runs'[q].kept, q, Len(runs'[q].log) + 1)
    <3>1. CASE q # r
      BY <1>6, <1>10, <3>1
    <3>2. CASE q = r
      <4>1. longer[1] = "running"
        <5>1. CASE log = <<>>
          BY <1>1, <1>2, <5>1
        <5>2. CASE log # <<>>
          <6>1. 1 \in 1..Len(log)
            BY <1>1, <5>2
          <6>2. log[1] = "running"
            BY <1>10, <5>2
          <6>3. longer[1] = log[1]
            BY <1>2, <6>1
          <6> QED BY <6>2, <6>3
        <5> QED BY <5>1, <5>2
      <4>2. \A i \in 1..Len(log) : log[i] \notin Terminals
        <5>1. Len(log) > 0 => log[Len(log)] \notin Terminals
          BY <1>1, OverByIndex
        <5>2. \A i \in 1..(Len(log) - 1) : log[i] \notin Terminals
          BY <1>10
        <5> HIDE DEF log
        <5> QED BY <1>1, <5>1, <5>2
      <4>3. \A i \in 1..(Len(longer) - 1) : longer[i] \notin Terminals
        <5>1. 1..(Len(longer) - 1) = 1..Len(log)
          BY <1>1, <1>2
        <5> QED BY <1>2, <4>2, <5>1
      <4>4. /\ Chain(runs', {"output"}, kept)
            /\ UpTo(runs', {"output"}, kept, r, Len(log) + 1)
        BY <1>10
      <4> DEFINE p == Len(log) + 1
      <4>5. /\ p \in Nat /\ p \in 1..Len(runs'[r].log) /\ Len(runs'[r].log) = p
            /\ runs'[r].log[p] = entry /\ Len(runs'[r].log) \in Nat /\ r \in DOMAIN runs'
        BY <1>1, <1>2, <1>6, <1>7
      <4>6. Chain(runs', {"output"}, more) /\ UpTo(runs', {"output"}, more, r, p + 1)
        <5>1. CASE entry = "output"
          <6>1. more = Append(kept, <<r, p>>)
            BY <5>1 DEF more
          <6> HIDE DEF p, kept
          <6> QED BY <1>1, <4>4, <4>5, <6>1, NextItem DEF p
        <5>2. CASE entry # "output"
          <6>1. more = kept
            BY <5>2 DEF more
          <6>2. runs'[r].log[p] \notin {"output"}
            BY <4>5, <5>2
          <6> HIDE DEF p, kept
          <6> QED BY <1>1, <4>4, <4>5, <6>1, <6>2, NoItem DEF p
        <5> QED BY <5>1, <5>2
      <4> QED BY <1>7, <3>2, <4>1, <4>3, <4>5, <4>6
    <3> QED BY <3>1, <3>2
  <2>2. DOMAIN runs' = 1..Len(runs)
    BY <1>6
  <2> QED BY <2>1, <2>2 DEF LogsInv
<1> QED BY <1>6, <1>9, <1>11

\* The entries that are not outputs.
LEMMA LogIsRunAfter ==
    ASSUME runs \in Seq(Run), NEW r \in 1..Len(runs), NEW entry, entry # "output",
           Log(r, entry)
    PROVE  runs' = [runs EXCEPT ![r] = RunAfter(r, entry)]
<1> DEFINE longer == Append(runs[r].log, entry)
<1>1. runs' = [runs EXCEPT ![r] = [runs[r] EXCEPT !.log = longer]]
  BY DEF Log
<1>2. RunAfter(r, entry) = [cell |-> runs[r].cell, log |-> longer, kept |-> runs[r].kept]
  BY DEF RunAfter
<1>3. runs[r] \in [cell : Cells, log : Seq(LogEntries), kept : Items]
  BY RunTypes DEF Run
<1> HIDE DEF longer
<1>4. [runs[r] EXCEPT !.log = longer]
         = [cell |-> runs[r].cell, log |-> longer, kept |-> runs[r].kept]
  BY <1>3
<1> QED BY <1>1, <1>2, <1>4

\* Logs that grow leave runs where and of the cell they were.
LEMMA GrownKeeps ==
    ASSUME Grown, NEW r \in 1..Len(runs)
    PROVE  r \in 1..Len(runs') /\ runs'[r].cell = runs[r].cell
<1>1. Len(runs) \in Nat /\ Len(runs') \in Nat
  BY DEF Grown
<1> QED BY <1>1 DEF Grown

LEMMA StoredKept ==
    ASSUME TypeOK, Grown, StoredInv, stored' = stored
    PROVE  StoredInv'
<1>1. ASSUME NEW c \in Cells
      PROVE  /\ Chain(runs', {"output"}, stored'[c].items)
             /\ Complete(runs', {"output"}, stored'[c].items)
  <2>1. stored[c].items \in Items
    BY DEF TypeOK
  <2> QED BY <2>1, ChainKept, CompleteKept DEF StoredInv
<1> QED BY <1>1 DEF StoredInv

LEMMA FreshShowsNothing ==
    /\ Fresh.items = <<>> /\ ~(Fresh.state \in Terminals)
    /\ \A all, kinds : Chain(all, kinds, Fresh.items)
<1>1. Fresh.items = <<>> /\ ~(Fresh.state \in Terminals)
  BY DEF Fresh, Terminals
<1> QED BY <1>1, NoItems

LEMMA ShownKept ==
    ASSUME TypeOK, Grown, ShownInv, ViewKept, crossed \subseteq crossed'
    PROVE  ShownInv'
<1>1. ASSUME NEW c \in Cells \ crossed'
      PROVE  /\ Chain(runs', KindsLater(c), view'[c].items)
             /\ view'[c].state \in Terminals => Complete(runs', KindsLater(c), view'[c].items)
  <2>1. /\ Chain(runs, KindsShown(c), view[c].items)
        /\ view[c].state \in Terminals => Complete(runs, KindsShown(c), view[c].items)
        /\ view[c].items \in Items
    BY DEF ShownInv, TypeOK
  <2>2. CASE view'[c] = view[c] /\ KindsLater(c) = KindsShown(c)
    BY <2>1, <2>2, ChainKept, CompleteKept
  <2>3. CASE view'[c] = Fresh
    BY <2>3, FreshShowsNothing
  <2> QED BY <2>2, <2>3 DEF ViewKept
<1> QED BY <1>1 DEF ShownInv, KindsShown, KindsLater

\* A forwarder that goes on, while others may end and cells be started.
LEMMA ForwarderStays ==
    ASSUME TypeOK, ForwardersInv, Grown, crossed \subseteq crossed', NEW k \in Forwarders,
           fw'[k] = fw[k],
           \A j \in Forwarders \ {k} :
              fw'[j].run # 0 /\ runs[fw[k].run].cell \notin crossed' =>
                 fw'[j].want # runs[fw[k].run].cell,
           fw[k].run # 0 /\ runs[fw[k].run].cell \notin crossed' =>
              \/ view'[runs[fw[k].run].cell] = view[runs[fw[k].run].cell]
              \/ view'[runs[fw[k].run].cell] = Fresh,
           restored' \subseteq restored
    PROVE  Placed(k)' /\ Alone(k)'
<1> DEFINE r == fw[k].run
           c == runs[r].cell
<1> SUFFICES ASSUME r # 0 PROVE Placed(k)' /\ Alone(k)'
  BY DEF Placed, Alone
<1>1. /\ r \in 1..Len(runs) /\ Len(runs[r].log) \in Nat /\ c \in Cells
      /\ fw[k].pos \in 1..(Len(runs[r].log) + 1)
  <2>1. r \in 0..Len(runs) /\ Len(runs) \in Nat /\ runs \in Seq(Run)
    BY DEF TypeOK
  <2>2. r \in 1..Len(runs)
    BY <2>1
  <2>3. Len(runs[r].log) \in Nat /\ c \in Cells
    BY <2>1, <2>2, RunTypes
  <2>4. fw[k].pos \in 1..(Len(runs[r].log) + IF IsOver(r) THEN 0 ELSE 1)
    BY DEF TypeOK
  <2>5. fw[k].pos \in 1..(Len(runs[r].log) + 1)
    <3>1. CASE IsOver(r)
      BY <2>3, <2>4, <3>1
    <3>2. CASE ~IsOver(r)
      BY <2>3, <2>4, <3>2
    <3> QED BY <3>1, <3>2
  <2> QED BY <2>2, <2>3, <2>5
<1>2. r \in 1..Len(runs') /\ runs'[r].cell = c
  BY <1>1, GrownKeeps
<1>3. Placed(k)'
  <2>1. fw[k].want = c /\ fw[k].snap \in 1..Len(runs[r].log)
    BY DEF ForwardersInv, Placed
  <2>2. Len(runs'[r].log) \in Nat
    BY <1>2, RunTypes DEF Grown
  <2>3. fw[k].snap \in 1..Len(runs'[r].log)
    <3>1. Len(runs[r].log) <= Len(runs'[r].log)
      BY <1>1 DEF Grown
    <3> DEFINE old == Len(runs[r].log)
               new == Len(runs'[r].log)
               snap == fw[k].snap
    <3>2. old \in Nat /\ new \in Nat /\ old <= new /\ snap \in 1..old
      BY <1>1, <2>1, <2>2, <3>1
    <3> HIDE DEF old, new, snap
    <3>3. snap \in 1..new
      BY <3>2
    <3> QED BY <3>3 DEF new, snap
  <2> QED BY <1>2, <2>1, <2>3 DEF Placed
<1>4. ASSUME c \notin crossed', fw[k].pos > 1
      PROVE  /\ view'[c].state \in {"running", "stopping"} /\ c \notin restored'
             /\ UpTo(runs', ShownLive, view'[c].items, r, fw[k].pos)
  <2>1. /\ Busy(c) /\ c \notin restored
        /\ UpTo(runs, ShownLive, view[c].items, r, fw[k].pos)
    BY <1>4 DEF ForwardersInv, Alone
  <2>2. UpTo(runs', ShownLive, view[c].items, r, fw[k].pos)
    <3>1. view[c].items \in Items
      BY <1>1 DEF TypeOK
    <3>2. fw[k].pos \in Nat /\ fw[k].pos <= Len(runs[r].log) + 1
      BY <1>1
    <3> QED BY <1>1, <2>1, <3>1, <3>2, UpToKept
  <2>3. CASE view'[c] = view[c]
    BY <2>1, <2>2, <2>3 DEF Busy
  <2>4. CASE view'[c] = Fresh
    <3>1. Fresh.state = "running" /\ Fresh.items = <<>>
      BY DEF Fresh
    <3> QED BY <2>1, <2>4, <3>1, NoItems
  <2> QED BY <1>4, <2>3, <2>4
<1>5. Alone(k)'
  <2>1. fw'[k].run = r /\ fw'[k].pos = fw[k].pos /\ runs'[r].cell = c
    BY <1>2
  <2> QED BY <1>4, <2>1 DEF Alone, Busy
<1> QED BY <1>3, <1>5

LEMMA ForwardersStay ==
    ASSUME TypeOK, ForwardersInv, Grown, ForwardersKept, ViewKept, crossed \subseteq crossed'
    PROVE  ForwardersInv'
<1>1. ASSUME NEW k \in Forwarders PROVE Placed(k)' /\ Alone(k)'
  <2>1. CASE fw'[k].run = 0
    BY <2>1 DEF Placed, Alone
  <2>2. CASE fw'[k] = fw[k] /\ fw[k].run # 0
    <3> DEFINE c == runs[fw[k].run].cell
    <3>1. c \in Cells
      <4>1. fw[k].run \in 1..Len(runs)
        BY <2>2 DEF TypeOK
      <4> QED BY <4>1, RunTypes DEF Grown
    <3>2. ASSUME NEW j \in Forwarders \ {k}, fw'[j].run # 0, c \notin crossed'
          PROVE  fw'[j].want # c
      <4>1. fw'[j] = fw[j]
        BY <3>2 DEF ForwardersKept
      <4> QED BY <2>2, <3>2, <4>1 DEF ForwardersInv, Alone
    <3>3. (view'[c] = view[c] \/ view'[c] = Fresh) /\ restored' \subseteq restored
      BY <3>1 DEF ViewKept
    <3> QED BY <2>2, <3>2, <3>3, ForwarderStays
  <2> QED BY <2>1, <2>2 DEF ForwardersKept
<1> QED BY <1>1 DEF ForwardersInv

-----------------------------------------------------------------------------
(***************************************************************************)
(* Types of forwarders and of what waits to be sent.                       *)
(***************************************************************************)

ForwarderUpTo(n) == [on : BOOLEAN, want : Cells \cup {None}, run : 0..n, pos : Nat, snap : Nat]

\* What TypeOK says of a forwarder and its log.
Within(k) == LET r == fw[k].run IN r # 0 =>
    /\ fw[k].pos \in 1..(Len(runs[r].log) + IF IsOver(r) THEN 0 ELSE 1)
    /\ IsOver(r) => fw[k].snap < Len(runs[r].log)

LEMMA ForwarderTypes ==
    ASSUME TypeOK, Grown, NEW k \in Forwarders
    PROVE  fw[k] \in ForwarderUpTo(Len(runs'))
<1>1. fw[k] \in ForwarderUpTo(Len(runs))
  BY DEF TypeOK, ForwarderUpTo
<1>2. 0..Len(runs) \subseteq 0..Len(runs')
  <2>1. Len(runs) \in Nat /\ Len(runs') \in Nat /\ Len(runs) <= Len(runs')
    BY DEF Grown
  <2> QED BY <2>1
<1> QED BY <1>1, <1>2 DEF ForwarderUpTo

LEMMA NoForwarderTypes ==
    ASSUME NEW n \in Nat
    PROVE  NoForwarder \in ForwarderUpTo(n) /\ NoForwarder.run = 0
BY DEF NoForwarder, ForwarderUpTo

LEMMA WaitingTypes ==
    ASSUME NEW n \in Nat, NEW c \in Cells \cup {None}
    PROVE  WaitingFor(c) \in ForwarderUpTo(n) /\ WaitingFor(c).run = 0
BY DEF WaitingFor, ForwarderUpTo

LEMMA LongerByEnd ==
    ASSUME NEW old \in Nat, NEW new \in Nat, old <= new, NEW log, NEW longer,
           \A i \in 1..old : longer[i] = log[i], 1 <= old,
           log[old] \notin Terminals, longer[new] \in Terminals
    PROVE  old < new
OBVIOUS

LEMMA WithinStays ==
    ASSUME TypeOK, ForwardersInv, Grown, NEW k \in Forwarders, fw'[k] = fw[k] \/ fw'[k].run = 0
    PROVE  Within(k)'
<1> SUFFICES ASSUME fw'[k] = fw[k], fw[k].run # 0 PROVE Within(k)'
  BY DEF Within
<1> DEFINE r == fw[k].run
           old == Len(runs[r].log)
           new == Len(runs'[r].log)
<1>1. r \in 1..Len(runs)
  BY DEF TypeOK
<1>2. /\ runs[r].log \in Seq(LogEntries) /\ runs'[r].log \in Seq(LogEntries)
      /\ old \in Nat /\ new \in Nat /\ old <= new
      /\ \A i \in 1..old : runs'[r].log[i] = runs[r].log[i]
  <2>1. r \in 1..Len(runs')
    BY <1>1, GrownKeeps
  <2>2. runs[r].log \in Seq(LogEntries) /\ runs'[r].log \in Seq(LogEntries)
    BY <1>1, <2>1, RunTypes DEF Grown
  <2>3. old \in Nat /\ new \in Nat
    BY <1>1, <2>1, RunTypes DEF Grown
  <2>4. old <= new /\ \A i \in 1..old : runs'[r].log[i] = runs[r].log[i]
    BY <1>1 DEF Grown
  <2> QED BY <2>2, <2>3, <2>4
<1>3. /\ fw[k].pos \in 1..(old + IF IsOver(r) THEN 0 ELSE 1)
      /\ IsOver(r) => fw[k].snap < old
      /\ fw[k].snap \in 1..old
  BY DEF TypeOK, ForwardersInv, Placed
<1> DEFINE ended == new > 0 /\ runs'[r].log[new] \in Terminals
<1>4. IsOver(r) <=> old > 0 /\ runs[r].log[old] \in Terminals
  BY <1>2, OverByIndex
<1>5. CASE IsOver(r)
  <2>1. runs'[r] = runs[r]
    BY <1>1, <1>5 DEF Grown
  <2> QED BY <1>3, <1>5, <2>1 DEF Within, IsOver, IsQueued
<1>6. CASE ~IsOver(r)
  <2>1. fw[k].pos \in 1..(old + 1)
    BY <1>3, <1>6
  <2>2. ended => old < new
    <3>1. 1 <= old /\ runs[r].log[old] \notin Terminals
      BY <1>2, <1>3, <1>4, <1>6
    <3> QED BY <1>2, <3>1, LongerByEnd
  <2> DEFINE pos == fw[k].pos
             snap == fw[k].snap
  <2>6. pos \in 1..(old + 1) /\ snap \in 1..old /\ old \in Nat /\ new \in Nat /\ old <= new
    BY <1>2, <1>3, <2>1
  <2>3. /\ ended => fw[k].pos \in 1..new /\ fw[k].snap < new
        /\ fw[k].pos \in 1..(new + 1)
    <3> HIDE DEF pos, snap, old, new, ended
    <3>1. pos \in 1..(new + 1)
      BY <2>6
    <3>2. ended => pos \in 1..new /\ snap < new
      BY <2>2, <2>6
    <3> QED BY <3>1, <3>2 DEF pos, snap
  <2>4. runs'[r].log # <<>> /\ Last(runs'[r].log) \in Terminals => ended
    <3>1. runs'[r].log # <<>> => new > 0
      BY <1>2
    <3> QED BY <3>1 DEF Last
  <2>5. fw[k].pos \in 1..(new + 0) <=> fw[k].pos \in 1..new
    BY <1>2
  <2> QED BY <2>3, <2>4, <2>5 DEF Within, IsOver, IsQueued
<1> QED BY <1>5, <1>6

LEMMA SentExecutes ==
    ASSUME outbox \in Seq(Message), NEW m \in Message, NEW c \in Executes(Append(outbox, m))
    PROVE  c \in Executes(outbox) \/ (m.type = "execute" /\ c = m.cell)
<1> DEFINE box == Append(outbox, m)
<1>1. /\ box \in Seq(Message) /\ Len(box) = Len(outbox) + 1 /\ Len(outbox) \in Nat
      /\ box[Len(outbox) + 1] = m /\ \A i \in 1..Len(outbox) : box[i] = outbox[i]
  OBVIOUS
<1>2. PICK i \in DOMAIN box : box[i].type = "execute" /\ c = box[i].cell
  BY DEF Executes
<1> HIDE DEF box
<1>3. i \in 1..(Len(outbox) + 1)
  BY <1>1, <1>2
<1>4. CASE i = Len(outbox) + 1
  BY <1>1, <1>2, <1>4
<1>5. CASE i \in 1..Len(outbox)
  <2>1. i \in DOMAIN outbox /\ outbox[i].type = "execute" /\ c = outbox[i].cell
    BY <1>1, <1>2, <1>5
  <2> QED BY <2>1 DEF Executes
<1> QED BY <1>1, <1>3, <1>4, <1>5

\* The page asks for something; a cell it asks to run is cleared.
LEMMA SendKeeps ==
    ASSUME TypeOK, Disconnected, NEW type, NEW c,
           [type |-> type, cell |-> c] \in Message,
           SendMessage(type, c), fw' = fw, ViewKept,
           type = "execute" => view'[c] = Fresh
    PROVE  /\ outbox' \in Seq(Message) /\ link' \in {"up", "down", "gaveup"}
           /\ link' = "up" <=> link = "up"
           /\ Disconnected'
<1> DEFINE m == [type |-> type, cell |-> c]
<1>1. /\ outbox \in Seq(Message) /\ outbox' = Append(outbox, m)
      /\ link \in {"up", "down", "gaveup"}
      /\ link' = IF link = "gaveup" THEN "down" ELSE link
  BY DEF TypeOK, SendMessage
<1>2. outbox' \in Seq(Message)
  BY <1>1
<1>3. link' \in {"up", "down", "gaveup"} /\ (link' = "up" <=> link = "up")
  BY <1>1
<1>4. ASSUME link' # "up" PROVE /\ \A k \in Forwarders : fw'[k].run = 0
                                /\ \A d \in Executes(outbox') : view'[d].items = <<>>
  <2>1. /\ \A k \in Forwarders : fw[k].run = 0
        /\ \A d \in Executes(outbox) : view[d].items = <<>>
    BY <1>3, <1>4 DEF Disconnected
  <2>2. ASSUME NEW d \in Executes(outbox') PROVE view'[d].items = <<>>
    <3>1. d \in Executes(outbox) \/ (type = "execute" /\ d = c)
      BY <1>1, SentExecutes
    <3>2. CASE type = "execute" /\ d = c
      BY <3>2 DEF Fresh
    <3>3. CASE d \in Executes(outbox)
      <4>1. PICK i \in DOMAIN outbox : outbox[i].type = "execute" /\ d = outbox[i].cell
        BY <3>3 DEF Executes
      <4>2. outbox[i] \in Message
        BY <1>1, <4>1
      <4>3. d \in Cells
        BY <4>1, <4>2 DEF Message
      <4> QED BY <2>1, <3>3, <4>3 DEF ViewKept, Fresh
    <3> QED BY <3>1, <3>2, <3>3
  <2> QED BY <2>1, <2>2
<1> QED BY <1>2, <1>3, <1>4 DEF Disconnected

-----------------------------------------------------------------------------
(***************************************************************************)
(* The steps of the page, of the server and of the connection.             *)
(***************************************************************************)

\* What is kept by every step that is of the kind above.
LEMMA Keeps ==
    ASSUME IInv, Grown, ForwardersKept, ViewKept, crossed \subseteq crossed'
    PROVE  /\ ShownInv' /\ ForwardersInv'
           /\ \A k \in Forwarders : Within(k)'
           /\ \A k \in Forwarders : fw[k] \in ForwarderUpTo(Len(runs'))
<1>1. TypeOK /\ ShownInv /\ ForwardersInv
  BY DEF IInv
<1>2. \A k \in Forwarders : Within(k)'
  BY <1>1, WithinStays DEF ForwardersKept
<1>3. \A k \in Forwarders : fw[k] \in ForwarderUpTo(Len(runs'))
  BY <1>1, ForwarderTypes
<1> QED BY <1>1, <1>2, <1>3, ShownKept, ForwardersStay

\* The types after a step, from their parts.
LEMMA TypesAfter ==
    ASSUME runs' \in Seq(Run),
           stored' \in [Cells -> [state : Terminals \cup {None}, items : Items]],
           fw' \in [Forwarders -> ForwarderUpTo(Len(runs'))],
           \A k \in Forwarders : Within(k)',
           link' \in {"up", "down", "gaveup"},
           outbox' \in Seq(Message),
           view' \in [Cells -> [state : LogEntries \cup {None}, items : Items]],
           executing' \in Cells \cup {None}, loop' \in 0..Len(CellOrder),
           crossed' \subseteq Cells, orphaned' \subseteq Cells, restored' \subseteq Cells
    PROVE  TypeOK'
BY DEF TypeOK, ForwarderUpTo, Within

LEMMA FreshTypes == Fresh \in [state : LogEntries \cup {None}, items : Items]
BY DEF Fresh, LogEntries, Items

\* A step that leaves the server, its forwarders and crossed alone.
LEMMA PageKeeps ==
    ASSUME IInv, UNCHANGED <<server, fw, crossed>>, ViewKept, Disconnected',
           view' \in [Cells -> [state : LogEntries \cup {None}, items : Items]],
           link' \in {"up", "down", "gaveup"}, outbox' \in Seq(Message),
           executing' \in Cells \cup {None}, loop' \in 0..Len(CellOrder),
           orphaned' \subseteq Cells
    PROVE  IInv'
<1>1. Grown /\ ForwardersKept
  BY SameRuns DEF IInv, TypeOK, server, ForwardersKept
<1>2. /\ ShownInv' /\ ForwardersInv'
      /\ \A k \in Forwarders : Within(k)'
      /\ \A k \in Forwarders : fw[k] \in ForwarderUpTo(Len(runs'))
  BY <1>1, Keeps
<1>3. LogsInv' /\ StoredInv'
  BY DEF IInv, server, LogsInv, StoredInv
<1>4. fw' \in [Forwarders -> ForwarderUpTo(Len(runs'))]
  BY <1>2 DEF IInv, TypeOK
<1>5. /\ runs' \in Seq(Run) /\ crossed' \subseteq Cells
      /\ stored' \in [Cells -> [state : Terminals \cup {None}, items : Items]]
      /\ restored' \subseteq Cells
  BY DEF IInv, TypeOK, server, ViewKept
<1>6. TypeOK'
  BY <1>2, <1>4, <1>5, TypesAfter
<1> QED BY <1>2, <1>3, <1>6 DEF IInv

LEMMA StartedView ==
    ASSUME TypeOK, NEW c \in Cells, Start(view, c)
    PROVE  /\ ViewKept /\ view'[c] = Fresh
           /\ view' \in [Cells -> [state : LogEntries \cup {None}, items : Items]]
<1>1. /\ view' = [view EXCEPT ![c] = Fresh] /\ DOMAIN view = Cells
      /\ restored' = restored \ {c}
  BY DEF Start, Fresh, TypeOK
<1>2. ViewKept /\ view'[c] = Fresh
  BY <1>1 DEF ViewKept, KindsShown, KindsLater
<1>3. view' \in [Cells -> [state : LogEntries \cup {None}, items : Items]]
  BY <1>1, FreshTypes DEF TypeOK
<1> QED BY <1>2, <1>3

LEMMA ExecuteCellKeeps == ASSUME IInv, NEW c \in Cells, ExecuteCell(c) PROVE IInv'
<1>1. TypeOK /\ Disconnected
  BY DEF IInv
<1>2. ViewKept /\ view'[c] = Fresh
      /\ view' \in [Cells -> [state : LogEntries \cup {None}, items : Items]]
  BY <1>1, StartedView DEF ExecuteCell
<1>3. [type |-> "execute", cell |-> c] \in Message
  BY DEF Message
<1>4. SendMessage("execute", c) /\ fw' = fw
  BY DEF ExecuteCell
<1>5. outbox' \in Seq(Message) /\ link' \in {"up", "down", "gaveup"} /\ Disconnected'
  BY <1>1, <1>2, <1>3, <1>4, SendKeeps
<1>6. /\ executing' \in Cells \cup {None} /\ loop' \in 0..Len(CellOrder)
      /\ orphaned' \subseteq Cells
  BY <1>1 DEF ExecuteCell, TypeOK
<1> QED BY <1>2, <1>5, <1>6, PageKeeps DEF ExecuteCell

LEMMA OrderTypes ==
    /\ Len(CellOrder) \in Nat \ {0}
    /\ \A i \in 1..Len(CellOrder) : CellOrder[i] \in Cells
BY ViewAssumption

LEMMA RunAllKeeps == ASSUME IInv, RunAllCells PROVE IInv'
<1> DEFINE c == CellOrder[1]
<1>1. TypeOK /\ Disconnected /\ c \in Cells /\ 1 \in 0..Len(CellOrder)
  BY OrderTypes DEF IInv
<1>2. ViewKept /\ view'[c] = Fresh
      /\ view' \in [Cells -> [state : LogEntries \cup {None}, items : Items]]
  BY <1>1, StartedView DEF RunAllCells
<1>3. [type |-> "execute", cell |-> c] \in Message
  BY <1>1 DEF Message
<1>4. SendMessage("execute", c) /\ fw' = fw
  BY DEF RunAllCells
<1>5. outbox' \in Seq(Message) /\ link' \in {"up", "down", "gaveup"} /\ Disconnected'
  BY <1>1, <1>2, <1>3, <1>4, SendKeeps
<1>6. /\ executing' \in Cells \cup {None} /\ loop' \in 0..Len(CellOrder)
      /\ orphaned' \subseteq Cells
  BY <1>1 DEF RunAllCells, TypeOK
<1> QED BY <1>2, <1>5, <1>6, PageKeeps DEF RunAllCells

LEMMA InterruptKeeps == ASSUME IInv, InterruptCell PROVE IInv'
<1>1. TypeOK /\ Disconnected
  BY DEF IInv
<1>2. ViewKept /\ UNCHANGED <<view, executing, loop, orphaned>>
  BY DEF InterruptCell, ViewKept, page, KindsShown, KindsLater
<1>3. [type |-> "interrupt", cell |-> None] \in Message
  BY DEF Message
<1>4. SendMessage("interrupt", None) /\ fw' = fw
  BY DEF InterruptCell
<1>5. outbox' \in Seq(Message) /\ link' \in {"up", "down", "gaveup"} /\ Disconnected'
  BY <1>1, <1>2, <1>3, <1>4, SendKeeps
<1>6. /\ executing' \in Cells \cup {None} /\ loop' \in 0..Len(CellOrder)
      /\ orphaned' \subseteq Cells
      /\ view' \in [Cells -> [state : LogEntries \cup {None}, items : Items]]
  BY <1>1, <1>2 DEF TypeOK
<1> QED BY <1>2, <1>5, <1>6, PageKeeps DEF InterruptCell

\* A step of the server that leaves the page alone, and its forwarders but for those
\* that end or begin to wait.
LEMMA ServerKeeps ==
    ASSUME IInv, Grown, ForwardersKept, LogsInv', StoredInv', Disconnected',
           fw' \in [Forwarders -> ForwarderUpTo(Len(runs'))],
           stored' \in [Cells -> [state : Terminals \cup {None}, items : Items]],
           UNCHANGED <<page, crossed>>, link' \in {"up", "down", "gaveup"},
           outbox' \in Seq(Message), orphaned' \subseteq Cells
    PROVE  IInv'
<1>1. ViewKept
  BY DEF page, ViewKept, KindsShown, KindsLater
<1>2. ShownInv' /\ ForwardersInv' /\ \A k \in Forwarders : Within(k)'
  BY <1>1, Keeps
<1>3. /\ runs' \in Seq(Run) /\ executing' \in Cells \cup {None} /\ loop' \in 0..Len(CellOrder)
      /\ crossed' \subseteq Cells /\ restored' \subseteq Cells
      /\ view' \in [Cells -> [state : LogEntries \cup {None}, items : Items]]
  BY DEF page, Grown, IInv, TypeOK
<1>4. TypeOK'
  BY <1>2, <1>3, TypesAfter
<1> QED BY <1>2, <1>4 DEF IInv

\* Of these, one that adds an entry to a log and leaves the forwarders and the socket.
LEMMA LogKeeps ==
    ASSUME IInv, NEW r \in 1..Len(runs), NEW entry \in LogEntries,
           runs' = [runs EXCEPT ![r] = RunAfter(r, entry)], ~IsOver(r), runs[r].log = <<>> => entry = "running",
           UNCHANGED <<fw, link, outbox, page, crossed>>, StoredInv', orphaned' \subseteq Cells,
           stored' \in [Cells -> [state : Terminals \cup {None}, items : Items]]
    PROVE  IInv'
<1>1. TypeOK /\ LogsInv
  BY DEF IInv
<1>2. Grown /\ LogsInv'
  BY <1>1, LogGrows
<1>3. ForwardersKept
  BY DEF ForwardersKept
<1>4. fw' \in [Forwarders -> ForwarderUpTo(Len(runs'))]
  <2>1. fw \in [Forwarders -> ForwarderUpTo(Len(runs))]
    BY <1>1 DEF TypeOK, ForwarderUpTo
  <2> QED BY <1>1, <1>2, <2>1, ForwarderTypes
<1>5. Disconnected'
  BY DEF IInv, Disconnected, Executes, page
<1>6. link' \in {"up", "down", "gaveup"} /\ outbox' \in Seq(Message)
  BY <1>1 DEF TypeOK
<1> QED BY <1>2, <1>3, <1>4, <1>5, <1>6, ServerKeeps

LEMMA StoredSame ==
    ASSUME IInv, Grown, stored' = stored
    PROVE  /\ StoredInv'
           /\ stored' \in [Cells -> [state : Terminals \cup {None}, items : Items]]
BY StoredKept DEF IInv, TypeOK

\* A run that has started and is not over.
LEMMA RunningByIndex ==
    ASSUME TypeOK, NEW r \in DOMAIN runs, IsRunning(r)
    PROVE  r \in 1..Len(runs) /\ ~IsOver(r) /\ runs[r].log # <<>>
BY DEF TypeOK, IsRunning, IsQueued

LEMMA StartKeeps == ASSUME IInv, NEW r \in DOMAIN runs, StartRun(r) PROVE IInv'
<1>1. TypeOK /\ LogsInv /\ r \in 1..Len(runs) /\ ~IsOver(r) /\ "running" \in LogEntries
  <2>1. TypeOK /\ LogsInv /\ "running" \in LogEntries
    BY DEF IInv, LogEntries
  <2>2. r \in 1..Len(runs)
    BY <2>1 DEF TypeOK
  <2>3. ~IsOver(r)
    BY DEF StartRun, IsOver
  <2> QED BY <2>1, <2>2, <2>3
<1>2. Log(r, "running") /\ UNCHANGED <<stored, orphaned>>
  BY DEF StartRun
<1>3. runs' = [runs EXCEPT ![r] = RunAfter(r, "running")]
  BY <1>1, <1>2, LogIsRunAfter DEF TypeOK
<1>4. Grown
  BY <1>1, <1>3, LogGrows
<1>5. orphaned' \subseteq Cells
  BY <1>1, <1>2 DEF TypeOK
<1> QED BY <1>1, <1>2, <1>3, <1>4, <1>5, StoredSame, LogKeeps DEF StartRun

LEMMA OutputKeeps ==
    ASSUME IInv, NEW r \in DOMAIN runs, NEW kind \in ShownLive, Output(r, kind)
    PROVE  IInv'
<1>1. TypeOK /\ LogsInv /\ IsRunning(r) /\ kind \in LogEntries
  BY DEF IInv, Output, LogEntries
<1>2. r \in 1..Len(runs) /\ ~IsOver(r) /\ runs[r].log # <<>>
  BY <1>1, RunningByIndex
<1>3. runs' = [runs EXCEPT ![r] = RunAfter(r, kind)] /\ UNCHANGED <<stored, orphaned>>
  <2> DEFINE longer == Append(runs[r].log, kind)
             more == IF kind = "output" THEN Append(runs[r].kept, <<r, Len(runs[r].log) + 1>>)
                     ELSE runs[r].kept
  <2>1. /\ runs' = [runs EXCEPT ![r].log = longer, ![r].kept = more]
        /\ UNCHANGED <<stored, orphaned>>
    BY <1>2 DEF Output, TypeOK
  <2>2. runs[r] \in [cell : Cells, log : Seq(LogEntries), kept : Items]
    BY <1>1, <1>2, RunTypes DEF Run, TypeOK
  <2>3. RunAfter(r, kind) = [cell |-> runs[r].cell, log |-> longer, kept |-> more]
    BY DEF RunAfter
  <2> HIDE DEF longer, more
  <2>4. runs' = [runs EXCEPT ![r] = [runs[r] EXCEPT !.log = longer, !.kept = more]]
    BY <2>1
  <2>5. [runs[r] EXCEPT !.log = longer, !.kept = more]
           = [cell |-> runs[r].cell, log |-> longer, kept |-> more]
    <3> DEFINE once == [runs[r] EXCEPT !.log = longer]
    <3>1. once = [cell |-> runs[r].cell, log |-> longer, kept |-> runs[r].kept]
      BY <2>2
    <3>2. [runs[r] EXCEPT !.log = longer, !.kept = more] = [once EXCEPT !.kept = more]
      OBVIOUS
    <3> HIDE DEF once
    <3> QED BY <3>1, <3>2
  <2> QED BY <2>1, <2>3, <2>4, <2>5
<1>4. Grown
  BY <1>1, <1>2, <1>3, LogGrows
<1>5. orphaned' \subseteq Cells
  BY <1>1, <1>3 DEF TypeOK
<1> QED BY <1>1, <1>2, <1>3, <1>4, <1>5, StoredSame, LogKeeps DEF Output

LEMMA FinishKeeps ==
    ASSUME IInv, NEW r \in DOMAIN runs, NEW end \in Outcomes, Finish(r, end)
    PROVE  IInv'
<1>1. TypeOK /\ LogsInv /\ IsRunning(r) /\ end \in LogEntries /\ end \in Terminals
  BY ViewAssumption DEF IInv, Finish, LogEntries
<1>2. r \in 1..Len(runs) /\ ~IsOver(r) /\ runs[r].log # <<>>
  BY <1>1, RunningByIndex
<1>3. end # "output" /\ Log(r, end)
  BY <1>1 DEF Finish, Terminals
<1>4. runs' = [runs EXCEPT ![r] = RunAfter(r, end)]
  BY <1>1, <1>2, <1>3, LogIsRunAfter DEF TypeOK
<1>5. /\ Grown /\ LogsInv' /\ Len(runs') = Len(runs)
      /\ runs'[r] = RunAfter(r, end) /\ r \in DOMAIN runs'
  <2>1. Grown /\ LogsInv' /\ Len(runs') = Len(runs) /\ runs'[r] = RunAfter(r, end)
    BY <1>1, <1>2, <1>4, LogGrows
  <2> QED BY <1>2, <2>1 DEF Grown
<1> DEFINE c == runs[r].cell
           kept == runs[r].kept
           log == runs[r].log
<1>6. c \in Cells /\ kept \in Items /\ log \in Seq(LogEntries)
  BY <1>1, <1>2, RunTypes DEF TypeOK
<1>7. stored' = [stored EXCEPT ![c] = [state |-> end, items |-> kept]]
  BY DEF Finish
<1>8. stored' \in [Cells -> [state : Terminals \cup {None}, items : Items]]
  BY <1>1, <1>6, <1>7 DEF TypeOK
<1>9. Chain(runs', {"output"}, kept) /\ Complete(runs', {"output"}, kept)
  <2>1. runs'[r].kept = kept /\ runs'[r].log = Append(log, end)
    BY <1>3, <1>5 DEF RunAfter
  <2>2. runs'[r].log # <<>> /\ Last(runs'[r].log) = end
    BY <1>1, <1>6, <2>1, AppendedOne
  <2>3. /\ Chain(runs', {"output"}, kept)
        /\ UpTo(runs', {"output"}, kept, r, Len(runs'[r].log) + 1)
    BY <1>5, <2>1 DEF LogsInv
  <2> QED BY <1>1, <1>5, <2>2, <2>3, CompleteAtEnd
<1>10. StoredInv'
  <2>1. ASSUME NEW d \in Cells
        PROVE  /\ Chain(runs', {"output"}, stored'[d].items)
               /\ Complete(runs', {"output"}, stored'[d].items)
    <3>1. CASE d = c
      <4>1. stored'[d].items = kept
        BY <1>1, <1>6, <1>7, <3>1 DEF TypeOK
      <4> QED BY <1>9, <4>1
    <3>2. CASE d # c
      <4>1. stored'[d] = stored[d] /\ stored[d].items \in Items
        BY <1>1, <1>6, <1>7, <3>2 DEF TypeOK
      <4>2. /\ Chain(runs, {"output"}, stored[d].items)
            /\ Complete(runs, {"output"}, stored[d].items)
        BY DEF IInv, StoredInv
      <4> QED BY <1>5, <4>1, <4>2, ChainKept, CompleteKept
    <3> QED BY <3>1, <3>2
  <2> QED BY <2>1 DEF StoredInv
<1>11. orphaned' \subseteq Cells
  BY <1>1, <1>6 DEF Finish, TypeOK
<1> QED BY <1>1, <1>2, <1>4, <1>8, <1>10, <1>11, LogKeeps DEF Finish

LEMMA ReceiveKeeps == ASSUME IInv, ServerReceives PROVE IInv'
<1> DEFINE msg == Head(outbox)
<1>1. /\ TypeOK /\ LogsInv /\ runs \in Seq(Run) /\ Len(runs) \in Nat
      /\ outbox \in Seq(Message) /\ outbox # <<>>
      /\ outbox' = Tail(outbox) /\ link = "up" /\ link' = link
      /\ UNCHANGED <<stored, page, crossed, orphaned>>
  <2>1. TypeOK /\ LogsInv /\ runs \in Seq(Run) /\ outbox \in Seq(Message)
    BY DEF IInv, TypeOK
  <2>2. Len(runs) \in Nat
    BY <2>1
  <2> QED BY <2>1, <2>2 DEF ServerReceives
<1>2. msg \in Message /\ outbox' \in Seq(Message)
  BY <1>1
<1>3. /\ fw \in [Forwarders -> ForwarderUpTo(Len(runs))]
      /\ orphaned' \subseteq Cells /\ link' \in {"up", "down", "gaveup"} /\ Disconnected'
  BY <1>1 DEF TypeOK, ForwarderUpTo, Disconnected
<1>4. CASE msg.type = "execute" /\ runs' = Append(runs, [cell |-> msg.cell, log |-> <<>>, kept |-> <<>>])
           /\ fw' = [fw EXCEPT ![Len(runs) + 1] = WaitingFor(msg.cell)]
  <2> DEFINE new == [cell |-> msg.cell, log |-> <<>>, kept |-> <<>>]
  <2>1. msg.cell \in Cells
    BY <1>2, <1>4 DEF Message
  <2>2. new \in Run
    BY <2>1 DEF Run, Items
  <2>3. /\ runs' \in Seq(Run) /\ Len(runs') = Len(runs) + 1 /\ runs'[Len(runs) + 1] = new
        /\ \A q \in 1..Len(runs) : runs'[q] = runs[q]
    BY <1>1, <1>4, <2>2, AppendedOne
  <2>4. Grown
    <3>1. \A q \in 1..Len(runs) : Len(runs[q].log) \in Nat
      BY <1>1, RunTypes
    <3> QED BY <1>1, <2>3, <3>1 DEF Grown
  <2>5. LogsInv'
    <3>1. ASSUME NEW q \in 1..(Len(runs) + 1)
          PROVE  /\ runs'[q].log # <<>> => runs'[q].log[1] = "running"
                 /\ \A i \in 1..(Len(runs'[q].log) - 1) : runs'[q].log[i] \notin Terminals
                 /\ Chain(runs', {"output"}, runs'[q].kept)
                 /\ UpTo(runs', {"output"}, runs'[q].kept, q, Len(runs'[q].log) + 1)
      <4>1. CASE q = Len(runs) + 1
        <5>1. runs'[q].log = <<>> /\ runs'[q].kept = <<>>
          BY <2>3, <4>1
        <5> QED BY <5>1, NoItems
      <4>2. CASE q \in 1..Len(runs)
        <5>1. runs'[q] = runs[q] /\ q \in DOMAIN runs
          BY <1>1, <2>3, <4>2
        <5>2. runs[q].kept \in Items /\ Len(runs[q].log) + 1 \in Nat
          <6>1. runs[q].kept \in Items /\ Len(runs[q].log) \in Nat
            BY <1>1, <4>2, RunTypes
          <6> QED BY <6>1
        <5>3. /\ Chain(runs, {"output"}, runs[q].kept)
              /\ UpTo(runs, {"output"}, runs[q].kept, q, Len(runs[q].log) + 1)
          BY <1>1, <5>1 DEF LogsInv
        <5>4. Chain(runs', {"output"}, runs[q].kept)
          BY <2>4, <5>2, <5>3, ChainKept
        <5>5. UpTo(runs', {"output"}, runs[q].kept, q, Len(runs[q].log) + 1)
          <6>1. Len(runs[q].log) + 1 <= Len(runs[q].log) + 1
            BY <5>2
          <6> QED BY <2>4, <4>2, <5>2, <5>3, <6>1, UpToKept
        <5>6. /\ runs[q].log # <<>> => runs[q].log[1] = "running"
              /\ \A i \in 1..(Len(runs[q].log) - 1) : runs[q].log[i] \notin Terminals
          BY <1>1, <5>1 DEF LogsInv
        <5> QED BY <5>1, <5>4, <5>5, <5>6
      <4> QED BY <1>1, <4>1, <4>2
    <3>2. DOMAIN runs' = 1..(Len(runs) + 1)
      BY <2>3
    <3> QED BY <3>1, <3>2 DEF LogsInv
  <2>6. ForwardersKept
    <3>1. WaitingFor(msg.cell).run = 0
      BY <1>1, <2>1, WaitingTypes
    <3> QED BY <1>3, <1>4, <3>1 DEF ForwardersKept
  <2>7. fw' \in [Forwarders -> ForwarderUpTo(Len(runs'))]
    <3>1. WaitingFor(msg.cell) \in ForwarderUpTo(Len(runs'))
      <4>1. Len(runs') \in Nat
        BY <1>1, <2>3
      <4> QED BY <2>1, <4>1, WaitingTypes
    <3>2. \A k \in Forwarders : fw[k] \in ForwarderUpTo(Len(runs'))
      BY <1>1, <2>4, ForwarderTypes
    <3> QED BY <1>3, <1>4, <3>1, <3>2
  <2> QED BY <1>1, <1>2, <1>3, <2>4, <2>5, <2>6, <2>7, StoredSame, ServerKeeps
<1>5. CASE UNCHANGED fw /\ \E r \in DOMAIN runs : IsRunning(r) /\ Log(r, "stopping")
  <2>1. PICK r \in DOMAIN runs : IsRunning(r) /\ Log(r, "stopping")
    BY <1>5
  <2>2. r \in 1..Len(runs) /\ ~IsOver(r) /\ runs[r].log # <<>> /\ "stopping" \in LogEntries
    BY <1>1, <2>1, RunningByIndex DEF LogEntries
  <2>3. Grown /\ LogsInv' /\ Len(runs') = Len(runs)
    <3>1. runs' = [runs EXCEPT ![r] = RunAfter(r, "stopping")]
      BY <1>1, <2>1, <2>2, LogIsRunAfter
    <3> QED BY <1>1, <2>2, <3>1, LogGrows
  <2>4. ForwardersKept /\ fw' \in [Forwarders -> ForwarderUpTo(Len(runs'))]
    BY <1>3, <1>5, <2>3 DEF ForwardersKept
  <2> QED BY <1>1, <1>2, <1>3, <2>3, <2>4, StoredSame, ServerKeeps
<1>6. CASE UNCHANGED <<runs, fw>>
  <2>1. Grown /\ LogsInv'
    BY <1>1, <1>6, SameRuns DEF LogsInv
  <2>2. ForwardersKept /\ fw' \in [Forwarders -> ForwarderUpTo(Len(runs'))]
    BY <1>3, <1>6 DEF ForwardersKept
  <2> QED BY <1>1, <1>2, <1>3, <2>1, <2>2, StoredSame, ServerKeeps
<1> QED BY <1>4, <1>5, <1>6 DEF ServerReceives

\* Steps that leave the runs, and end or begin to wait.
LEMMA SocketKeeps ==
    ASSUME IInv, UNCHANGED <<server, page, crossed>>, ForwardersKept, Disconnected',
           fw' \in [Forwarders -> ForwarderUpTo(Len(runs))],
           link' \in {"up", "down", "gaveup"}, outbox' \in Seq(Message),
            orphaned' \subseteq Cells
    PROVE  IInv'
<1>1. Grown /\ LogsInv'
  BY SameRuns DEF IInv, TypeOK, LogsInv, server
<1>2. fw' \in [Forwarders -> ForwarderUpTo(Len(runs'))] /\ stored' = stored
  BY DEF server
<1> QED BY <1>1, <1>2, StoredSame, ServerKeeps

LEMMA SocketTypes ==
    ASSUME IInv
    PROVE  /\ fw \in [Forwarders -> ForwarderUpTo(Len(runs))] /\ Len(runs) \in Nat
           /\ link \in {"up", "down", "gaveup"} /\ outbox \in Seq(Message)
           /\ orphaned \subseteq Cells /\ Disconnected
BY DEF IInv, TypeOK, ForwarderUpTo

LEMMA PollTimeoutKeeps == ASSUME IInv, NEW k \in Forwarders, PollTimeout(k) PROVE IInv'
<1>1. /\ fw' = [fw EXCEPT ![k] = NoForwarder]
      /\ UNCHANGED <<server, link, outbox, page, crossed, orphaned>>
  BY DEF PollTimeout
<1>2. /\ fw' \in [Forwarders -> ForwarderUpTo(Len(runs))]
      /\ \A j \in Forwarders : fw'[j] = fw[j] \/ fw'[j].run = 0
  BY <1>1, SocketTypes, NoForwarderTypes
<1>3. Disconnected'
  <2>1. \A j \in Forwarders : fw[j].run = 0 => fw'[j].run = 0
    BY <1>2
  <2> QED BY <1>1, <2>1, SocketTypes DEF Disconnected, Executes, page
<1> QED BY <1>1, <1>2, <1>3, SocketTypes, SocketKeeps DEF ForwardersKept

LEMMA DropKeeps == ASSUME IInv, Drop PROVE IInv'
<1>1. /\ fw' = [k \in Forwarders |-> NoForwarder] /\ link' = "down" /\ outbox' = <<>>
      /\ orphaned' = orphaned \cup CutOff
      /\ UNCHANGED <<server, page, crossed>>
  BY DEF Drop
<1>2. /\ fw' \in [Forwarders -> ForwarderUpTo(Len(runs))]
      /\ \A j \in Forwarders : fw'[j].run = 0
  BY <1>1, SocketTypes, NoForwarderTypes
<1>3. CutOff \subseteq Cells
  <2>1. ASSUME NEW k \in Forwarders, fw[k].run # 0 PROVE runs[fw[k].run].cell \in Cells
    <3>1. fw[k].run \in 1..Len(runs) /\ runs \in Seq(Run)
      BY <2>1 DEF IInv, TypeOK
    <3> QED BY <3>1, RunTypes
  <2>2. Executes(outbox) \subseteq Cells
    BY SocketTypes DEF Executes, Message
  <2> QED BY <2>1, <2>2 DEF CutOff
<1>4. Disconnected' /\ outbox' \in Seq(Message) /\ orphaned' \subseteq Cells
  BY <1>1, <1>2, <1>3, SocketTypes DEF Disconnected, Executes
<1> QED BY <1>1, <1>2, <1>4, SocketKeeps DEF ForwardersKept

LEMMA ReconnectKeeps == ASSUME IInv, Reconnect PROVE IInv'
<1>1. /\ link' = "up" /\ UNCHANGED <<server, outbox, page, crossed, orphaned>>
      /\ fw' = [fw EXCEPT ![0] = WaitingFor(None)] \/ fw' = fw
  BY DEF Reconnect
<1>2. /\ fw' \in [Forwarders -> ForwarderUpTo(Len(runs))]
      /\ \A j \in Forwarders : fw'[j] = fw[j] \/ fw'[j].run = 0
  BY <1>1, SocketTypes, WaitingTypes
<1> QED BY <1>1, <1>2, SocketTypes, SocketKeeps DEF ForwardersKept, Disconnected

\* A forwarder finds the run it waited for; cells that another one sends too are crossed.
LEMMA AttachKeeps == ASSUME IInv, NEW k \in Forwarders, Attach(k) PROVE IInv'
<1>1. PICK r \in DOMAIN runs :
        /\ IsRunning(r)
        /\ fw' = [fw EXCEPT ![k] = AttachedTo(r)]
        /\ crossed' = IF \E j \in Forwarders \ {k} :
                           fw[j].run # 0 /\ fw[j].want = runs[r].cell
                      THEN crossed \cup {runs[r].cell} ELSE crossed
  BY DEF Attach
<1> DEFINE c == runs[r].cell
<1>2. /\ TypeOK /\ LogsInv /\ ForwardersInv /\ ShownInv
      /\ link = "up" /\ UNCHANGED <<server, link, outbox, page, orphaned>>
  BY DEF IInv, Attach
<1>3. r \in 1..Len(runs) /\ ~IsOver(r) /\ runs[r].log # <<>>
  BY <1>1, <1>2, RunningByIndex
<1>4. /\ c \in Cells /\ runs[r].log \in Seq(LogEntries) /\ runs \in Seq(Run)
      /\ Len(runs[r].log) \in Nat /\ Len(runs[r].log) >= 1 /\ r # 0
  <2>1. c \in Cells /\ runs[r].log \in Seq(LogEntries) /\ runs \in Seq(Run)
    BY <1>2, <1>3, RunTypes DEF TypeOK
  <2>2. Len(runs[r].log) \in Nat /\ Len(runs[r].log) >= 1
    BY <1>3, <2>1
  <2> QED BY <1>3, <2>1, <2>2
<1>5. /\ fw'[k] = AttachedTo(r)
      /\ \A j \in Forwarders \ {k} : fw'[j] = fw[j]
  BY <1>1, SocketTypes
<1>6. /\ AttachedTo(r).run = r /\ AttachedTo(r).want = c /\ AttachedTo(r).pos = 1
      /\ AttachedTo(r).snap = Len(runs[r].log)
  BY DEF AttachedTo
<1>7. Grown /\ LogsInv' /\ crossed \subseteq crossed' /\ crossed' \subseteq Cells
  <2>1. Grown /\ LogsInv'
    BY <1>2, <1>4, SameRuns DEF server, LogsInv
  <2> QED BY <1>1, <1>2, <1>4, <2>1 DEF TypeOK
<1>8. ViewKept
  BY <1>2 DEF ViewKept, page, KindsShown, KindsLater
<1>9. Placed(k)' /\ Within(k)' /\ Alone(k)'
  <2>0. runs' = runs
    BY <1>2 DEF server
  <2>1. Placed(k)'
    BY <1>4, <1>5, <1>6, <2>0 DEF Placed
  <2>2. Within(k)'
    <3>1. 1 \in 1..(Len(runs[r].log) + 1)
      BY <1>4
    <3> QED BY <1>3, <1>4, <1>5, <1>6, <2>0, <3>1 DEF Within, IsOver, IsQueued
  <2>3. ASSUME c \notin crossed', NEW j \in Forwarders \ {k}, fw'[j].run # 0
        PROVE  fw'[j].want # c
    BY <1>1, <1>5, <2>3
  <2>4. Alone(k)'
    BY <1>5, <1>6, <2>0, <2>3 DEF Alone
  <2> QED BY <2>1, <2>2, <2>4
<1>10. ASSUME NEW j \in Forwarders \ {k} PROVE Placed(j)' /\ Alone(j)' /\ Within(j)'
  <2> DEFINE d == runs[fw[j].run].cell
  <2>1. fw'[j] = fw[j]
    BY <1>5
  <2>2. Within(j)'
    BY <1>2, <1>7, <2>1, WithinStays
  <2>3. ASSUME NEW h \in Forwarders \ {j}, fw'[h].run # 0, fw[j].run # 0, d \notin crossed'
        PROVE  fw'[h].want # d
    <3>1. CASE h = k
      <4>1. c # d
        <5>1. fw[j].want = d
          BY <2>3 DEF IInv, ForwardersInv, Placed
        <5> QED BY <1>1, <2>3, <5>1
      <4> QED BY <1>5, <1>6, <3>1, <4>1
    <3>2. CASE h # k
      <4>1. fw'[h] = fw[h] /\ d \notin crossed
        BY <1>5, <1>7, <2>3, <3>2
      <4> QED BY <1>2, <2>3, <4>1 DEF ForwardersInv, Alone
    <3> QED BY <3>1, <3>2
  <2>4. CASE fw[j].run = 0
    BY <2>1, <2>2, <2>4 DEF Placed, Alone
  <2>5. CASE fw[j].run # 0
    <3>1. view'[d] = view[d] /\ restored' \subseteq restored
      BY <1>2 DEF page
    <3>2. Placed(j)' /\ Alone(j)'
      BY <1>2, <1>7, <2>1, <2>3, <2>5, <3>1, ForwarderStays
    <3> QED BY <2>2, <3>2
  <2> QED BY <2>4, <2>5
<1>11. ForwardersInv' /\ \A j \in Forwarders : Within(j)'
  BY <1>9, <1>10 DEF ForwardersInv
<1>12. ShownInv' /\ StoredInv' /\ stored' \in [Cells -> [state : Terminals \cup {None},
                                                         items : Items]]
  BY <1>2, <1>7, <1>8, ShownKept, StoredSame DEF server
<1>13. fw' \in [Forwarders -> ForwarderUpTo(Len(runs'))]
  <2>1. AttachedTo(r) \in ForwarderUpTo(Len(runs))
    <3>1. r \in 0..Len(runs) /\ 1 \in Nat
      BY <1>3
    <3> QED BY <1>4, <3>1 DEF AttachedTo, ForwarderUpTo
  <2> QED BY <1>1, <1>2, <2>1, SocketTypes DEF server
<1>14. /\ runs' \in Seq(Run) /\ link' \in {"up", "down", "gaveup"} /\ outbox' \in Seq(Message)
       /\ view' \in [Cells -> [state : LogEntries \cup {None}, items : Items]]
       /\ executing' \in Cells \cup {None} /\ loop' \in 0..Len(CellOrder)
       /\ orphaned' \subseteq Cells /\ restored' \subseteq Cells
  BY <1>2 DEF TypeOK, server, page
<1>15. TypeOK'
  BY <1>7, <1>11, <1>12, <1>13, <1>14, TypesAfter
<1>16. Disconnected'
  BY <1>2 DEF Disconnected
<1> QED BY <1>7, <1>11, <1>12, <1>15, <1>16 DEF IInv

\* Steps after which the page has no forwarder and nothing to send.
LEMMA AloneKeeps ==
    ASSUME IInv, UNCHANGED <<server, crossed>>, \A k \in Forwarders : fw'[k].run = 0,
           fw' \in [Forwarders -> ForwarderUpTo(Len(runs))],
           link' \in {"down", "gaveup"}, outbox' = <<>>, ShownInv',
           view' \in [Cells -> [state : LogEntries \cup {None}, items : Items]],
           executing' \in Cells \cup {None}, loop' \in 0..Len(CellOrder),
           orphaned' \subseteq Cells, restored' \subseteq Cells
    PROVE  IInv'
<1>1. ForwardersInv' /\ \A k \in Forwarders : Within(k)'
  BY DEF ForwardersInv, Placed, Alone, Within
<1>2. LogsInv' /\ StoredInv' /\ Disconnected'
  BY DEF IInv, LogsInv, StoredInv, Disconnected, Executes, server
<1>3. /\ runs' \in Seq(Run) /\ crossed' \subseteq Cells /\ outbox' \in Seq(Message)
      /\ stored' \in [Cells -> [state : Terminals \cup {None}, items : Items]]
      /\ fw' \in [Forwarders -> ForwarderUpTo(Len(runs'))]
      /\ link' \in {"up", "down", "gaveup"}
  BY DEF IInv, TypeOK, server
<1>4. TypeOK'
  BY <1>1, <1>3, TypesAfter
<1> QED BY <1>1, <1>2, <1>4 DEF IInv

LEMMA ReloadKeeps == ASSUME IInv, Reload PROVE IInv'
<1>1. /\ fw' = [k \in Forwarders |-> NoForwarder] /\ link' = "down" /\ outbox' = <<>>
      /\ view' = stored /\ executing' = None /\ loop' = 0
      /\ restored' = {c \in Cells : stored[c].items # <<>>}
      /\ UNCHANGED <<server, crossed, orphaned>>
  BY DEF Reload
<1>2. /\ fw' \in [Forwarders -> ForwarderUpTo(Len(runs))]
      /\ \A j \in Forwarders : fw'[j].run = 0
  BY <1>1, SocketTypes, NoForwarderTypes
<1>3. view' \in [Cells -> [state : LogEntries \cup {None}, items : Items]]
  <2>1. stored \in [Cells -> [state : Terminals \cup {None}, items : Items]]
    BY DEF IInv, TypeOK
  <2>2. Terminals \subseteq LogEntries
    BY DEF LogEntries
  <2> QED BY <1>1, <2>1, <2>2
<1>4. ShownInv'
  <2>1. ASSUME NEW c \in Cells
        PROVE  /\ Chain(runs', KindsLater(c), view'[c].items)
               /\ Complete(runs', KindsLater(c), view'[c].items)
    <3>1. /\ Chain(runs, {"output"}, stored[c].items)
          /\ Complete(runs, {"output"}, stored[c].items)
          /\ runs' = runs /\ view'[c].items = stored[c].items
      BY <1>1 DEF IInv, StoredInv, server
    <3>2. CASE stored[c].items = <<>>
      BY <3>1, <3>2, NoItems
    <3>3. CASE stored[c].items # <<>>
      <4>1. KindsLater(c) = {"output"}
        BY <1>1, <3>3 DEF KindsShown, KindsLater
      <4> QED BY <3>1, <4>1
    <3> QED BY <3>2, <3>3
  <2> QED BY <2>1 DEF ShownInv, KindsShown, KindsLater
<1>5. 0 \in 0..Len(CellOrder) /\ orphaned' \subseteq Cells /\ restored' \subseteq Cells
  BY <1>1, OrderTypes, SocketTypes
<1> QED BY <1>1, <1>2, <1>3, <1>4, <1>5, AloneKeeps

\* The errors of a socket that gave up are of no run.
LEMMA ErrorsAreOfNoRun ==
    ASSUME IInv, NEW c
    PROVE  /\ ConnectionErrors(c) \in Items
           /\ \A all, kinds : /\ Chain(all, kinds, ConnectionErrors(c))
                              /\ Complete(all, kinds, ConnectionErrors(c))
<1> DEFINE failed == {j \in DOMAIN outbox : outbox[j] = [type |-> "execute", cell |-> c]}
           n == Cardinality(failed)
           s == ConnectionErrors(c)
<1>1. n \in Nat
  <2>1. Len(outbox) \in Nat /\ DOMAIN outbox = 1..Len(outbox)
    BY SocketTypes
  <2>2. IsFiniteSet(failed)
    <3>1. failed \subseteq 1..Len(outbox) /\ IsFiniteSet(1..Len(outbox))
      BY <2>1, FS_Interval
    <3> QED BY <3>1, FS_Subset
  <2> QED BY <2>2, FS_CardinalityType
<1>2. s = [i \in 1..n |-> <<0, i>>]
  BY DEF ConnectionErrors
<1> HIDE DEF n
<1>3. s \in Items /\ Len(s) = n
  <2>1. \A i \in 1..n : <<0, i>> \in Nat \X Nat
    OBVIOUS
  <2>2. s \in [1..n -> Nat \X Nat]
    BY <1>2, <2>1
  <2> QED BY <1>1, <2>2 DEF Items
<1>4. \A i \in 1..n : s[i][1] = 0 /\ s[i][2] = i
  BY <1>2
<1> HIDE DEF s
<1>5. DOMAIN s = 1..n
  BY <1>3, ItemTypes
<1>6. ASSUME NEW all, NEW kinds PROVE Chain(all, kinds, s) /\ Complete(all, kinds, s)
  <2>1. Known(all, s)
    BY <1>4, <1>5 DEF Known
  <2>2. Gapless(all, kinds, s)
    <3>1. \A i \in 1..(n - 1) : i \in 1..n /\ i + 1 \in 1..n /\ i < i + 1
      BY <1>1
    <3> QED BY <1>3, <1>4, <3>1 DEF Gapless
  <2>3. s # <<>> => Last(s)[1] = 0
    <3>1. ASSUME s # <<>> PROVE n \in 1..n /\ Last(s) = s[n]
      BY <1>3, <3>1, LastItem
    <3> QED BY <1>4, <3>1
  <2> QED BY <2>1, <2>2, <2>3 DEF Chain, Complete
<1> QED BY <1>3, <1>6 DEF s

LEMMA GiveUpKeeps == ASSUME IInv, GiveUp PROVE IInv'
<1>1. /\ link = "down" /\ link' = "gaveup" /\ outbox' = <<>>
      /\ view' = [c \in Cells |->
            IF c \in Executes(outbox)
            THEN [state |-> "errored", items |-> view[c].items \o ConnectionErrors(c)]
            ELSE view[c]]
      /\ orphaned' = orphaned \cup {c \in Executes(outbox) : Awaits(c)}
      /\ UNCHANGED <<server, fw, executing, loop, restored, crossed>>
  BY DEF GiveUp
<1>2. /\ fw' \in [Forwarders -> ForwarderUpTo(Len(runs))]
      /\ \A j \in Forwarders : fw'[j].run = 0
      /\ \A c \in Executes(outbox) : view[c].items = <<>>
  BY <1>1, SocketTypes DEF Disconnected
<1>3. \A c \in Cells : view[c] \in [state : LogEntries \cup {None}, items : Items]
  BY DEF IInv, TypeOK
<1>4. ASSUME NEW c \in Cells
      PROVE  /\ view'[c] \in [state : LogEntries \cup {None}, items : Items]
             /\ \/ view'[c] = view[c]
                \/ \A all, kinds : Chain(all, kinds, view'[c].items)
                                   /\ Complete(all, kinds, view'[c].items)
  <2>1. CASE c \in Executes(outbox)
    <3> DEFINE n == Cardinality({j \in DOMAIN outbox :
                                    outbox[j] = [type |-> "execute", cell |-> c]})
    <3>1. view'[c] = [state |-> "errored", items |-> ConnectionErrors(c)]
      <4>1. /\ view'[c] = [state |-> "errored", items |-> view[c].items \o ConnectionErrors(c)]
            /\ view[c].items = <<>>
        BY <1>1, <1>2, <2>1
      <4>2. ConnectionErrors(c) \in Items
        BY ErrorsAreOfNoRun
      <4>3. <<>> \o ConnectionErrors(c) = ConnectionErrors(c)
        BY <4>2 DEF Items
      <4> QED BY <4>1, <4>3
    <3>2. "errored" \in LogEntries
      BY DEF LogEntries, Terminals
    <3> QED BY <3>1, <3>2, ErrorsAreOfNoRun
  <2>2. CASE c \notin Executes(outbox)
    BY <1>1, <1>3, <2>2
  <2> QED BY <2>1, <2>2
<1>5. view' \in [Cells -> [state : LogEntries \cup {None}, items : Items]]
  BY <1>1, <1>4
<1>6. ShownInv'
  <2>1. ASSUME NEW c \in Cells \ crossed'
        PROVE  /\ Chain(runs', KindsLater(c), view'[c].items)
               /\ view'[c].state \in Terminals =>
                     Complete(runs', KindsLater(c), view'[c].items)
    <3>1. runs' = runs /\ crossed' = crossed /\ KindsLater(c) = KindsShown(c)
      BY <1>1 DEF server, KindsShown, KindsLater
    <3>2. CASE view'[c] = view[c]
      BY <3>1, <3>2 DEF IInv, ShownInv
    <3>3. CASE \A all, kinds : Chain(all, kinds, view'[c].items)
                               /\ Complete(all, kinds, view'[c].items)
      BY <3>3
    <3> QED BY <1>4, <3>2, <3>3
  <2> QED BY <2>1 DEF ShownInv, KindsShown, KindsLater
<1>7. Executes(outbox) \subseteq Cells
  BY SocketTypes DEF Executes, Message
<1>8. /\ executing' \in Cells \cup {None} /\ loop' \in 0..Len(CellOrder)
      /\ orphaned' \subseteq Cells /\ restored' \subseteq Cells
  BY <1>1, <1>7 DEF IInv, TypeOK
<1> QED BY <1>1, <1>2, <1>5, <1>6, <1>8, AloneKeeps

-----------------------------------------------------------------------------
(***************************************************************************)
(* A forwarder sends an entry, and the page shows it.                      *)
(***************************************************************************)

\* What each handler makes of its cell; the end may start other cells, or the same again.
ShownCell == [state : LogEntries \cup {None}, items : Items]

\* The cell is as v has it, and shows it live or not as before.
As(v, c) == view'[c] = v[c] /\ KindsLater(c) = KindsShown(c)

LEMMA RunNextShows ==
    ASSUME TypeOK, NEW v, v \in [Cells -> ShownCell], RunNext(v), loop # 0, link = "up"
    PROVE  /\ \A c \in Cells : As(v, c) \/ view'[c] = Fresh
           /\ view' \in [Cells -> ShownCell] /\ restored' \subseteq restored
           /\ loop' \in 0..Len(CellOrder) /\ link' = "up" /\ outbox' \in Seq(Message)
<1>1. /\ loop \in 0..Len(CellOrder) /\ Len(CellOrder) \in Nat
      /\ outbox \in Seq(Message)
  BY OrderTypes DEF TypeOK
<1>2. CASE loop = Len(CellOrder) /\ loop' = 0 /\ view' = v /\ UNCHANGED <<outbox, link, restored>>
  BY <1>1, <1>2 DEF As, KindsShown, KindsLater
<1>3. CASE /\ loop < Len(CellOrder) /\ loop' = loop + 1
           /\ Start(v, CellOrder[loop + 1])
           /\ SendMessage("execute", CellOrder[loop + 1])
  <2> DEFINE d == CellOrder[loop + 1]
  <2>1. d \in Cells /\ loop + 1 \in 0..Len(CellOrder)
    BY <1>1, <1>3, OrderTypes
  <2>2. view' = [v EXCEPT ![d] = Fresh] /\ restored' = restored \ {d}
    BY <1>3 DEF Start, Fresh
  <2>3. [type |-> "execute", cell |-> d] \in Message
    BY <2>1 DEF Message
  <2>4. outbox' \in Seq(Message) /\ link' = "up"
    BY <1>1, <1>3, <2>3 DEF SendMessage
  <2>5. view' \in [Cells -> ShownCell]
    BY <2>1, <2>2, FreshTypes DEF ShownCell
  <2>6. \A c \in Cells : As(v, c) \/ view'[c] = Fresh
    BY <2>1, <2>2 DEF As, KindsShown, KindsLater
  <2> QED BY <1>3, <2>1, <2>2, <2>4, <2>5, <2>6
<1> QED BY <1>2, <1>3 DEF RunNext

LEMMA ShowKeeps ==
    ASSUME TypeOK, link = "up", NEW c \in Cells, NEW entry \in LogEntries,
           NEW item \in Nat \X Nat, Show(c, entry, item)
    PROVE  /\ \A d \in Cells \ {c} : As(view, d) \/ view'[d] = Fresh
           /\ entry = "running" => view'[c] = Fresh /\ c \notin restored'
           /\ entry = "stopping" => /\ view'[c].state = "stopping"
                                    /\ view'[c].items = view[c].items
           /\ entry \in ShownLive => /\ view'[c].state = view[c].state
                                     /\ view'[c].items = Append(view[c].items, item)
           /\ entry \in Terminals =>
                 \/ view'[c] = Fresh
                 \/ view'[c].state = entry /\ view'[c].items = view[c].items
           /\ view'[c] = Fresh \/ KindsLater(c) = KindsShown(c)
           /\ view' \in [Cells -> ShownCell] /\ restored' \subseteq restored
           /\ loop' \in 0..Len(CellOrder) /\ link' = "up" /\ outbox' \in Seq(Message)
           /\ executing' \in Cells \cup {None}
<1>1. /\ view \in [Cells -> ShownCell] /\ view[c] \in ShownCell
      /\ loop \in 0..Len(CellOrder) /\ outbox \in Seq(Message)
      /\ executing \in Cells \cup {None}
  BY DEF TypeOK, ShownCell
<1>2. Fresh \in ShownCell
  BY FreshTypes DEF ShownCell
<1>3. /\ "running" \notin Terminals \cup ShownLive \cup {"stopping"}
      /\ "stopping" \notin Terminals \cup ShownLive /\ Terminals \cap ShownLive = {}
  BY DEF Terminals, ShownLive
<1>4. CASE entry = "running" /\ ShowRunning(c)
  <2>1. /\ view' = [view EXCEPT ![c] = Fresh] /\ executing' = c
        /\ restored' = restored \ {c} /\ UNCHANGED <<loop, outbox, link>>
    BY <1>4 DEF ShowRunning, Start, Fresh
  <2>2. /\ view' \in [Cells -> ShownCell] /\ view'[c] = Fresh
        /\ \A d \in Cells \ {c} : view'[d] = view[d]
    BY <1>1, <1>2, <2>1
  <2>3. \A d \in Cells \ {c} : As(view, d)
    BY <2>1, <2>2 DEF As, KindsShown, KindsLater
  <2> QED BY <1>1, <1>3, <1>4, <2>1, <2>2, <2>3
<1>5. CASE entry = "stopping" /\ ShowStopping(c)
  <2>1. /\ view' = [view EXCEPT ![c] = [view[c] EXCEPT !.state = "stopping"]]
        /\ UNCHANGED <<executing, loop, outbox, link, restored>>
    BY <1>5 DEF ShowStopping
  <2>2. [view[c] EXCEPT !.state = "stopping"] \in ShownCell
    BY <1>1 DEF ShownCell, LogEntries
  <2>3. /\ view' \in [Cells -> ShownCell]
        /\ view'[c] = [view[c] EXCEPT !.state = "stopping"]
        /\ \A d \in Cells \ {c} : view'[d] = view[d]
    BY <1>1, <2>1, <2>2
  <2>4. view'[c].state = "stopping" /\ view'[c].items = view[c].items
    BY <1>1, <2>3 DEF ShownCell
  <2>5. \A d \in Cells : KindsLater(d) = KindsShown(d)
    BY <2>1 DEF KindsShown, KindsLater
  <2> QED BY <1>1, <1>3, <1>5, <2>1, <2>3, <2>4, <2>5 DEF As
<1>6. CASE entry \in ShownLive /\ ShowOutput(c, item)
  <2> DEFINE new == [view[c] EXCEPT !.items = Append(@, item)]
  <2>1. /\ view' = [view EXCEPT ![c] = new]
        /\ UNCHANGED <<executing, loop, outbox, link, restored>>
    BY <1>6 DEF ShowOutput
  <2>2. new \in ShownCell /\ new.state = view[c].state
        /\ new.items = Append(view[c].items, item)
    <3> DEFINE longer == Append(view[c].items, item)
    <3>1. view[c].items \in Items /\ longer \in Items
      BY <1>1 DEF ShownCell, Items
    <3>2. new = [view[c] EXCEPT !.items = longer]
      OBVIOUS
    <3> HIDE DEF longer, new
    <3>3. new \in ShownCell /\ new.state = view[c].state /\ new.items = longer
      BY <1>1, <3>1, <3>2 DEF ShownCell
    <3> QED BY <3>3 DEF longer
  <2>3. /\ view' \in [Cells -> ShownCell] /\ view'[c] = new
        /\ \A d \in Cells \ {c} : view'[d] = view[d]
    BY <1>1, <2>1, <2>2
  <2>4. \A d \in Cells : KindsLater(d) = KindsShown(d)
    BY <2>1 DEF KindsShown, KindsLater
  <2> HIDE DEF new
  <2> QED BY <1>1, <1>3, <1>6, <2>1, <2>2, <2>3, <2>4 DEF As
<1>7. CASE entry \in Terminals /\ ShowEnd(c, entry)
  <2> DEFINE new == [view[c] EXCEPT !.state = entry]
             v == [view EXCEPT ![c] = new]
  <2>1. executing' \in Cells \cup {None}
    BY <1>1, <1>7 DEF ShowEnd
  <2>2. new \in ShownCell /\ new.state = entry /\ new.items = view[c].items
    BY <1>1 DEF ShownCell
  <2>3. v \in [Cells -> ShownCell] /\ v[c] = new /\ \A d \in Cells \ {c} : v[d] = view[d]
    BY <1>1, <2>2
  <2>4. \/ Awaits(c) /\ RunNext(v)
        \/ view' = v /\ UNCHANGED <<loop, outbox, link, restored>>
    BY <1>7 DEF ShowEnd
  <2> HIDE DEF v, new
  <2>5. /\ \A d \in Cells : As(v, d) \/ view'[d] = Fresh
        /\ view' \in [Cells -> ShownCell] /\ restored' \subseteq restored
        /\ loop' \in 0..Len(CellOrder) /\ link' = "up" /\ outbox' \in Seq(Message)
    <3>1. CASE Awaits(c) /\ RunNext(v)
      BY <2>3, <3>1, RunNextShows DEF Awaits
    <3>2. CASE view' = v /\ UNCHANGED <<loop, outbox, link, restored>>
      BY <1>1, <2>3, <3>2 DEF As, KindsShown, KindsLater
    <3> QED BY <2>4, <3>1, <3>2
  <2>6. \/ view'[c] = Fresh
        \/ /\ view'[c].state = entry /\ view'[c].items = view[c].items
           /\ KindsLater(c) = KindsShown(c)
    BY <2>2, <2>3, <2>5 DEF As
  <2>7. \A d \in Cells \ {c} : As(view, d) \/ view'[d] = Fresh
    BY <2>3, <2>5 DEF As
  <2> QED BY <1>3, <1>7, <2>1, <2>5, <2>6, <2>7
<1> QED BY <1>4, <1>5, <1>6, <1>7 DEF Show

LEMMA AdvanceTypes ==
    ASSUME TypeOK, NEW k \in Forwarders, fw[k].run # 0
    PROVE  \/ Advance(k) = NoForwarder
           \/ /\ Advance(k) = [fw[k] EXCEPT !.pos = @ + 1]
              /\ Advance(k) \in ForwarderUpTo(Len(runs))
              /\ Advance(k).run = fw[k].run /\ Advance(k).want = fw[k].want
              /\ Advance(k).snap = fw[k].snap /\ Advance(k).pos = fw[k].pos + 1
              /\ ~(IsOver(fw[k].run) /\ fw[k].pos = Len(runs[fw[k].run].log))
<1>1. fw[k] \in ForwarderUpTo(Len(runs))
  BY DEF TypeOK, ForwarderUpTo
<1> DEFINE next == [fw[k] EXCEPT !.pos = @ + 1]
<1>2. /\ next \in ForwarderUpTo(Len(runs)) /\ next.run = fw[k].run /\ next.want = fw[k].want
      /\ next.snap = fw[k].snap /\ next.pos = fw[k].pos + 1
  BY <1>1 DEF ForwarderUpTo
<1> QED BY <1>2 DEF Advance

LEMMA ForwardKeeps == ASSUME IInv, NEW k \in Forwarders, Forward(k) PROVE IInv'
<1> DEFINE r == fw[k].run
           c == runs[r].cell
           log == runs[r].log
           pos == fw[k].pos
           entry == log[pos]
           item == <<r, pos>>
<1>1. /\ TypeOK /\ LogsInv /\ StoredInv /\ ShownInv /\ ForwardersInv
      /\ link = "up" /\ r # 0 /\ pos <= Len(log) /\ Show(c, entry, item)
      /\ fw' = [fw EXCEPT ![k] = Advance(k)]
      /\ UNCHANGED <<server, crossed>>
  BY DEF IInv, Forward
<1>2. /\ r \in 1..Len(runs) /\ r \in DOMAIN runs /\ r \in Nat /\ runs \in Seq(Run)
      /\ c \in Cells /\ log \in Seq(LogEntries) /\ Len(log) \in Nat
      /\ r \in Nat \ {0}
  <2>1. r \in 1..Len(runs) /\ r \in DOMAIN runs /\ r \in Nat /\ runs \in Seq(Run)
    BY <1>1 DEF TypeOK
  <2>2. c \in Cells /\ log \in Seq(LogEntries)
    BY <2>1, RunTypes
  <2> QED BY <2>1, <2>2
<1>3. pos \in Nat /\ pos \in 1..Len(log) /\ pos - 1 \in Nat /\ pos - 1 + 1 = pos
  <2>1. pos \in Nat
    BY <1>1 DEF TypeOK
  <2>2. pos \in 1..(Len(log) + IF IsOver(r) THEN 0 ELSE 1)
    BY <1>1 DEF TypeOK
  <2>3. pos <= Len(log)
    BY <1>1
  <2> HIDE DEF pos, log, r
  <2>4. 1 <= pos
    <3>1. CASE IsOver(r)
      BY <1>2, <2>1, <2>2, <3>1
    <3>2. CASE ~IsOver(r)
      BY <1>2, <2>1, <2>2, <3>2
    <3> QED BY <3>1, <3>2
  <2> QED BY <1>2, <2>1, <2>3, <2>4
<1>4. entry \in LogEntries /\ item \in Nat \X Nat
  BY <1>2, <1>3
<1>5. /\ fw[k].want = c /\ fw[k].snap \in 1..Len(log)
      /\ IsOver(r) => fw[k].snap < Len(log)
  BY <1>1 DEF ForwardersInv, Placed, TypeOK
<1>6. /\ log[1] = "running" /\ Len(log) > 0
      /\ \A i \in 1..(Len(log) - 1) : log[i] \notin Terminals
  <2>1. Len(log) > 0 /\ log # <<>>
    <3> HIDE DEF pos, log
    <3>1. Len(log) > 0
      BY <1>2, <1>3
    <3> QED BY <1>2, <3>1
  <2> QED BY <1>1, <1>2, <2>1 DEF LogsInv
<1>7. IsOver(r) <=> log[Len(log)] \in Terminals
  BY <1>2, <1>6, OverByIndex
<1>8. entry \in Terminals => pos = Len(log) /\ IsOver(r)
  <2> HIDE DEF pos, log, r
  <2>1. ASSUME log[pos] \in Terminals PROVE pos = Len(log)
    <3>1. ~(pos \in 1..(Len(log) - 1))
      BY <1>6, <2>1
    <3> QED BY <1>2, <1>3, <3>1
  <2> QED BY <1>7, <2>1
<1>9. \/ fw'[k] = NoForwarder
      \/ /\ fw'[k] \in ForwarderUpTo(Len(runs))
         /\ fw'[k].run = r /\ fw'[k].want = c /\ fw'[k].snap = fw[k].snap
         /\ fw'[k].pos = pos + 1 /\ ~(IsOver(r) /\ pos = Len(log))
  <2>1. fw'[k] = Advance(k)
    BY <1>1, SocketTypes
  <2> QED BY <1>1, <1>5, <2>1, AdvanceTypes
<1>10. \A j \in Forwarders \ {k} : fw'[j] = fw[j]
  BY <1>1, SocketTypes
<1>11. /\ \A d \in Cells \ {c} : As(view, d) \/ view'[d] = Fresh
       /\ entry = "running" => view'[c] = Fresh /\ c \notin restored'
       /\ entry = "stopping" => /\ view'[c].state = "stopping"
                                /\ view'[c].items = view[c].items
       /\ entry \in ShownLive => /\ view'[c].state = view[c].state
                                 /\ view'[c].items = Append(view[c].items, item)
       /\ entry \in Terminals =>
             \/ view'[c] = Fresh
             \/ view'[c].state = entry /\ view'[c].items = view[c].items
       /\ view'[c] = Fresh \/ KindsLater(c) = KindsShown(c)
       /\ view' \in [Cells -> ShownCell] /\ restored' \subseteq restored
       /\ loop' \in 0..Len(CellOrder) /\ link' = "up" /\ outbox' \in Seq(Message)
       /\ executing' \in Cells \cup {None}
  <2>1. TypeOK /\ link = "up" /\ Show(c, entry, item) /\ c \in Cells
    BY <1>1, <1>2
  <2> HIDE DEF entry, item, c
  <2> QED BY <1>4, <2>1, ShowKeeps
<1>12. Grown /\ LogsInv' /\ StoredInv' /\ runs' = runs /\ crossed' = crossed
  <2>1. Grown
    BY <1>1, <1>2, SameRuns DEF server
  <2> QED BY <1>1, <2>1 DEF server, LogsInv, StoredInv
\* What the cell shows, if nobody else sends its runs.
<1>13. ASSUME c \notin crossed
       PROVE  /\ Chain(runs, KindsLater(c), view'[c].items)
              /\ view'[c].state \in Terminals => Complete(runs, KindsLater(c), view'[c].items)
              /\ entry \notin Terminals =>
                    /\ view'[c].state \in {"running", "stopping"} /\ c \notin restored'
                    /\ UpTo(runs, ShownLive, view'[c].items, r, pos + 1)
  <2> DEFINE s == view[c].items
  <2>1. Chain(runs, KindsShown(c), s) /\ s \in Items
    <3>1. Chain(runs, KindsShown(c), s)
      BY <1>1, <1>2, <1>13 DEF ShownInv
    <3>2. s \in Items
      BY <1>1, <1>2 DEF TypeOK
    <3> QED BY <3>1, <3>2
  <2>2. entry # "running" => pos > 1
    <3> HIDE DEF pos, log
    <3> QED BY <1>3, <1>6
  <2>3. entry # "running" =>
           /\ view[c].state \in {"running", "stopping"} /\ c \notin restored
           /\ UpTo(runs, ShownLive, s, r, pos)
    BY <1>1, <1>13, <2>2 DEF ForwardersInv, Alone, Busy
  <2>4. entry # "running" => KindsShown(c) = ShownLive /\ c \notin restored'
    BY <1>11, <2>3 DEF KindsShown, KindsLater
  <2>5. /\ entry \in {"running", "stopping"} \cup ShownLive \cup Terminals
        /\ "running" \notin Terminals /\ "stopping" \notin Terminals \cup ShownLive
        /\ Terminals \cap ShownLive = {} /\ entry = runs[r].log[pos]
    BY <1>4 DEF LogEntries, Terminals, ShownLive
  <2>6. entry \notin ShownLive /\ entry # "running" => UpTo(runs, ShownLive, s, r, pos + 1)
    <3> HIDE DEF entry, s, pos
    <3> QED BY <1>3, <2>1, <2>3, <2>5, NoItem
  <2> HIDE DEF entry
  <2>7. CASE view'[c] = Fresh
    <3>1. view'[c].items = <<>> /\ view'[c].state = "running"
      BY <2>7 DEF Fresh
    <3>2. entry \notin Terminals => c \notin restored'
      BY <1>11, <2>4
    <3> QED BY <2>5, <3>1, <3>2, NoItems
  <2>8. CASE view'[c] # Fresh /\ entry = "stopping"
    <3>1. view'[c].state = "stopping" /\ view'[c].items = s /\ KindsLater(c) = KindsShown(c)
      BY <1>11, <2>8
    <3> QED BY <2>1, <2>4, <2>5, <2>6, <2>8, <3>1
  <2>9. CASE view'[c] # Fresh /\ entry \in ShownLive
    <3>1. /\ view'[c].state = view[c].state /\ view'[c].items = Append(s, item)
          /\ KindsLater(c) = KindsShown(c) /\ entry # "running"
      BY <1>11, <2>9 DEF ShownLive
    <3>2. /\ Chain(runs, ShownLive, Append(s, item))
          /\ UpTo(runs, ShownLive, Append(s, item), r, pos + 1)
      <4>1. Chain(runs, ShownLive, s) /\ UpTo(runs, ShownLive, s, r, pos)
        BY <2>1, <2>3, <2>4, <3>1
      <4> HIDE DEF s, pos, r
      <4> QED BY <1>2, <1>3, <2>1, <4>1, NextItem DEF item
    <3>3. view[c].state \in {"running", "stopping"} /\ c \notin restored'
          /\ KindsLater(c) = ShownLive
      BY <2>3, <2>4, <3>1
    <3> HIDE DEF item, s
    <3> QED BY <2>5, <3>1, <3>2, <3>3 DEF Terminals
  <2>10. CASE view'[c] # Fresh /\ entry \in Terminals
    <3>1. view'[c].state = entry /\ view'[c].items = s /\ KindsLater(c) = KindsShown(c)
      BY <1>11, <2>10
    <3>2. pos = Len(log) /\ log[Len(log)] \in Terminals /\ entry # "running"
          /\ entry \notin ShownLive
      BY <1>7, <1>8, <2>5, <2>10 DEF entry
    <3>3. log # <<>> /\ Last(log) \in Terminals
      BY <1>2, <1>6, <3>2 DEF Last
    <3>4. Complete(runs, ShownLive, s)
      BY <1>2, <2>6, <3>2, <3>3, CompleteAtEnd
    <3> QED BY <2>1, <2>4, <2>10, <3>1, <3>2, <3>4
  <2>11. entry = "running" => view'[c] = Fresh
    BY <1>11
  <2> QED BY <2>5, <2>7, <2>8, <2>9, <2>10, <2>11
<1>14. ShownInv'
  <2>1. ASSUME NEW d \in Cells \ crossed
        PROVE  /\ Chain(runs, KindsLater(d), view'[d].items)
               /\ view'[d].state \in Terminals => Complete(runs, KindsLater(d), view'[d].items)
    <3>1. CASE d = c
      BY <1>13, <3>1 DEF KindsShown, KindsLater
    <3>2. CASE d # c /\ As(view, d)
      BY <1>1, <3>2 DEF ShownInv, As
    <3>3. CASE view'[d] = Fresh
      BY <3>3, FreshShowsNothing
    <3> QED BY <1>11, <3>1, <3>2, <3>3
  <2> QED BY <1>12, <2>1 DEF ShownInv, KindsShown, KindsLater
<1>15. ASSUME NEW j \in Forwarders \ {k} PROVE Placed(j)' /\ Alone(j)' /\ Within(j)'
  <2> DEFINE d == runs[fw[j].run].cell
  <2>1. fw'[j] = fw[j]
    BY <1>10
  <2>2. Within(j)'
    BY <1>1, <1>12, <2>1, WithinStays
  <2>3. CASE fw[j].run = 0
    BY <2>1, <2>2, <2>3 DEF Placed, Alone
  <2>4. CASE fw[j].run # 0
    <3>1. d \in Cells
      <4>1. fw[j].run \in 1..Len(runs)
        BY <1>1, <2>4 DEF TypeOK
      <4> QED BY <1>2, <4>1, RunTypes
    <3>2. ASSUME d \notin crossed PROVE d # c
      BY <1>1, <1>5, <2>4, <3>2 DEF ForwardersInv, Alone
    <3>3. ASSUME NEW h \in Forwarders \ {j}, fw'[h].run # 0, d \notin crossed
          PROVE  fw'[h].want # d
      <4>1. CASE h = k
        BY <1>9, <3>2, <3>3, <4>1 DEF NoForwarder
      <4>2. CASE h # k
        BY <1>1, <1>10, <2>4, <3>3, <4>2 DEF ForwardersInv, Alone
      <4> QED BY <4>1, <4>2
    <3>4. /\ d \notin crossed => view'[d] = view[d] \/ view'[d] = Fresh
          /\ restored' \subseteq restored
      BY <1>11, <3>1, <3>2 DEF As
    <3> QED BY <1>1, <1>12, <2>1, <2>2, <3>3, <3>4, ForwarderStays
  <2> QED BY <2>3, <2>4
<1>16. Placed(k)' /\ Alone(k)' /\ Within(k)'
  <2>1. CASE fw'[k].run = 0
    BY <2>1 DEF Placed, Alone, Within
  <2>2. CASE fw'[k].run # 0
    <3>1. /\ fw'[k].run = r /\ fw'[k].want = c /\ fw'[k].snap = fw[k].snap
          /\ fw'[k].pos = pos + 1 /\ ~(IsOver(r) /\ pos = Len(log))
      BY <1>9, <2>2 DEF NoForwarder
    <3>2. Placed(k)'
      BY <1>5, <1>12, <3>1 DEF Placed
    <3>3. Within(k)'
      <4>1. CASE IsOver(r)
        <5>1. pos + 1 \in 1..Len(log)
          <6>1. pos # Len(log)
            BY <3>1, <4>1
          <6> HIDE DEF pos, log
          <6> QED BY <1>2, <1>3, <6>1
        <5>2. pos + 1 \in 1..(Len(log) + 0)
          BY <1>2, <5>1
        <5> QED BY <1>5, <1>12, <3>1, <4>1, <5>2 DEF Within, IsOver, IsQueued
      <4>2. CASE ~IsOver(r)
        <5>1. pos + 1 \in 1..(Len(log) + 1)
          <6> HIDE DEF pos, log
          <6> QED BY <1>2, <1>3
        <5> QED BY <1>12, <3>1, <4>2, <5>1 DEF Within, IsOver, IsQueued
      <4> QED BY <4>1, <4>2
    <3>4. Alone(k)'
      <4>1. ASSUME c \notin crossed, NEW j \in Forwarders \ {k}, fw'[j].run # 0
            PROVE  fw'[j].want # c
        BY <1>1, <1>10, <4>1 DEF ForwardersInv, Alone
      <4>2. entry \notin Terminals
        BY <1>8, <3>1
      <4>3. c \notin crossed =>
               /\ view'[c].state \in {"running", "stopping"} /\ c \notin restored'
               /\ UpTo(runs, ShownLive, view'[c].items, r, pos + 1)
        BY <1>13, <4>2
      <4> QED BY <1>12, <3>1, <4>1, <4>3 DEF Alone, Busy
    <3> QED BY <3>2, <3>3, <3>4
  <2> QED BY <2>1, <2>2
<1>17. ForwardersInv' /\ \A j \in Forwarders : Within(j)'
  BY <1>15, <1>16 DEF ForwardersInv
<1>18. fw' \in [Forwarders -> ForwarderUpTo(Len(runs'))]
  <2>1. Advance(k) \in ForwarderUpTo(Len(runs))
    BY <1>1, SocketTypes, AdvanceTypes, NoForwarderTypes
  <2> QED BY <1>1, <1>12, <2>1, SocketTypes
<1>19. orphaned' \subseteq Cells
  <2>1. orphaned \subseteq Cells
    BY SocketTypes
  <2> QED BY <1>2, <1>5, <2>1 DEF Forward
<1>20. /\ runs' \in Seq(Run) /\ crossed' \subseteq Cells
       /\ stored' \in [Cells -> [state : Terminals \cup {None}, items : Items]]
       /\ view' \in [Cells -> [state : LogEntries \cup {None}, items : Items]]
       /\ link' \in {"up", "down", "gaveup"} /\ restored' \subseteq Cells
  BY <1>1, <1>2, <1>11, <1>12 DEF TypeOK, server, ShownCell
<1>21. TypeOK'
  BY <1>11, <1>17, <1>18, <1>19, <1>20, TypesAfter
<1>22. Disconnected'
  BY <1>11 DEF Disconnected
<1> QED BY <1>12, <1>14, <1>17, <1>21, <1>22 DEF IInv

-----------------------------------------------------------------------------

LEMMA InitInv == Init => IInv
<1> SUFFICES ASSUME Init PROVE IInv
  OBVIOUS
<1>1. /\ runs = <<>> /\ fw = [k \in Forwarders |-> NoForwarder] /\ outbox = <<>>
      /\ stored = [c \in Cells |-> [state |-> None, items |-> <<>>]] /\ view = stored
      /\ link = "down" /\ executing = None /\ loop = 0 /\ crossed = {} /\ orphaned = {}
      /\ restored = {}
  BY DEF Init
<1>2. \A k \in Forwarders : fw[k].run = 0
  BY <1>1 DEF NoForwarder
<1>3. TypeOK
  <2>1. fw \in [Forwarders -> [on : BOOLEAN, want : Cells \cup {None},
                              run : 0..Len(runs), pos : Nat, snap : Nat]]
    BY <1>1, NoForwarderTypes DEF ForwarderUpTo
  <2>2. [state |-> None, items |-> <<>>]
           \in [state : Terminals \cup {None}, items : Items]
    BY DEF Items
  <2>3. [state |-> None, items |-> <<>>]
           \in [state : LogEntries \cup {None}, items : Items]
    BY DEF Items
  <2>4. runs \in Seq(Run) /\ outbox \in Seq(Message) /\ 0 \in 0..Len(CellOrder)
    BY <1>1, OrderTypes
  <2> QED BY <1>1, <1>2, <2>1, <2>2, <2>3, <2>4 DEF TypeOK
<1>4. LogsInv /\ Disconnected /\ ForwardersInv
  BY <1>1, <1>2 DEF LogsInv, Disconnected, Executes, ForwardersInv, Placed, Alone
<1>5. StoredInv /\ ShownInv
  BY <1>1, NoItems DEF StoredInv, ShownInv
<1> QED BY <1>3, <1>4, <1>5 DEF IInv

LEMMA StutterKeeps == ASSUME IInv, UNCHANGED vars PROVE IInv'
<1>1. UNCHANGED <<server, fw, crossed, page>> /\ UNCHANGED <<link, outbox, orphaned>>
  BY DEF vars
<1>2. UNCHANGED <<view, executing, loop>> /\ ViewKept
  BY <1>1 DEF page, ViewKept, KindsShown, KindsLater
<1>3. Disconnected'
  BY <1>1, <1>2, SocketTypes DEF Disconnected, Executes
<1>4. /\ view' \in [Cells -> [state : LogEntries \cup {None}, items : Items]]
      /\ link' \in {"up", "down", "gaveup"} /\ outbox' \in Seq(Message)
      /\ executing' \in Cells \cup {None} /\ loop' \in 0..Len(CellOrder)
      /\ orphaned' \subseteq Cells
  BY <1>1, <1>2 DEF IInv, TypeOK
<1> QED BY <1>1, <1>2, <1>3, <1>4, PageKeeps

LEMMA StepInv == IInv /\ [Next]_vars => IInv'
<1> SUFFICES ASSUME IInv, [Next]_vars PROVE IInv'
  OBVIOUS
<1>1. CASE ServerStep
  BY <1>1, ReceiveKeeps, StartKeeps, OutputKeeps, FinishKeeps, AttachKeeps,
     PollTimeoutKeeps, ForwardKeeps DEF ServerStep
<1>2. CASE (\E c \in Cells : ExecuteCell(c)) \/ InterruptCell \/ RunAllCells
  BY <1>2, ExecuteCellKeeps, InterruptKeeps, RunAllKeeps
<1>3. CASE Drop \/ Reconnect \/ GiveUp \/ Reload
  BY <1>3, DropKeeps, ReconnectKeeps, GiveUpKeeps, ReloadKeeps
<1> QED BY <1>1, <1>2, <1>3, StutterKeeps DEF Next

THEOREM Invariance == Spec => []IInv
BY InitInv, StepInv, PTL DEF Spec

-----------------------------------------------------------------------------

\* Types, and a forwarder is at most one entry behind the end of its run's log, or just
\* after it while the run goes on.
THEOREM TypeCorrect == Spec => []TypeOK
<1>1. IInv => TypeOK
  BY DEF IInv
<1> QED BY <1>1, Invariance, PTL

\* Through reconnects, reloads and replays, what a cell shows is of one run, each entry
\* once and in order, and skips none: no output after a reload, no output and no display
\* otherwise, unless two forwarders of a connection sent its runs at a time.
THEOREM CellsShowOneRun == Spec => []OneRunShown
<1>1. IInv => OneRunShown
  BY DEF IInv, ShownInv, Chain, Gapless, OneRunShown
<1> QED BY <1>1, Invariance, PTL

\* A cell that shows a result, and outputs of a run, shows that run up to its end; after a
\* reload, up to the last output that was kept.
THEOREM ResultsAreWhole == Spec => []EndShowsAll
<1>1. IInv => EndShowsAll
  BY DEF IInv, ShownInv, Complete, EndShowsAll, IsOver, IsQueued
<1> QED BY <1>1, Invariance, PTL
=============================================================================
