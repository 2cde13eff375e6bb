---------------------------- MODULE FuseBatchProofs ----------------------------
(***************************************************************************)
(* For any number of workers and rows: no row is lost or counted twice,    *)
(* `stop` comes when nothing is under way, the rings are empty when they   *)
(* are released, and injections never fill them.                           *)
(*                                                                         *)
(* A task, a result and a recorded block have an interval of rows each, a  *)
(* fuse task that of its two blocks, which touch.  A worker makes of a     *)
(* task a result of the same rows.  So the intervals only change places,   *)
(* until the completer joins two of them, and always split the rows issued *)
(* so far.  When one block has all rows, there is nothing else.            *)
(***************************************************************************)
EXTENDS FuseBatch, FiniteSetTheorems, SequenceTheorems, TLAPS

RowTasks  == {RowTask(y) : y \in Rows}
FuseTasks == {t \in Blocks \X Blocks : t[1].ymax + 1 = t[2].ymin}
Results   == {<< b >> : b \in Blocks}

Types == /\ regular_tasks \in Seq(RowTasks \cup {Eof})
         /\ priority_tasks \in Seq(FuseTasks)
         /\ results \in Seq(Results \cup {Eof})
         /\ active \in 1 .. NumWorkers
         /\ worker \in [Workers -> {"priority", "regular", "work", "done"}]
         /\ item \in [Workers -> RowTasks \cup FuseTasks \cup {Eof}]
         /\ count \in 0 .. Height
         /\ stop \in BOOLEAN
         /\ row \in [Rows -> Blocks \cup {NoBlock}]
         /\ eofs \in 0 .. NumWorkers
         /\ completer \in {"results", "notify", "inject", "release", "returned"}
         /\ fuse \in FuseTasks \cup {Eof}

(* Until `stop` there are no NULL tasks and results, and all workers work. *)
Scanning == /\ eofs = 0 /\ active = NumWorkers
            /\ completer \in {"results", "inject"}
            /\ completer = "inject" <=> fuse # Eof
            /\ \A i \in 1 .. Len(regular_tasks) : regular_tasks[i] # Eof
            /\ \A i \in 1 .. Len(results) : results[i] # Eof
            /\ \A w \in Workers : /\ worker[w] # "done"
                                  /\ worker[w] = "work" => item[w] # Eof

(* A block is recorded at its ends, and two recorded blocks do not touch. *)
Ends == \A y \in Rows : row[y] # NoBlock =>
            /\ y = row[y].ymin \/ y = row[y].ymax
            /\ row[row[y].ymin] = row[y] /\ row[row[y].ymax] = row[y]

NoTouch == \A y, z \in Rows : row[y] # NoBlock /\ row[z] # NoBlock => row[y].ymax + 1 # row[z].ymin

(* The rows of a task, and the places a row may be in: an entry of a ring, a
   worker, the completer's hands, a recorded block. *)
Span(t) == IF IsFuse(t) THEN t[1].ymin .. t[2].ymax ELSE {t[1]}

InPlace(k, i, y) ==
    \/ k = "regular"  /\ i \in 1 .. Len(regular_tasks)  /\ y \in Span(regular_tasks[i])
    \/ k = "priority" /\ i \in 1 .. Len(priority_tasks) /\ y \in Span(priority_tasks[i])
    \/ k = "work"     /\ i \in Working                  /\ y \in Span(item[i])
    \/ k = "inject"   /\ i = 0 /\ completer = "inject"  /\ y \in Span(fuse)
    \/ k = "results"  /\ i \in 1 .. Len(results)        /\ y \in RowsOf(results[i][1])
    \/ k = "array"    /\ i \in Recorded                 /\ y \in RowsOf(i)

Issued == \A y \in Rows : y >= count <=> \E k, i : InPlace(k, i, y)
Single == \A y \in Rows : \A k, i, l, j :
              InPlace(k, i, y) /\ InPlace(l, j, y) => k = l /\ i = j

(* From `stop` on: the block of all rows is in the array and nothing else is
   anywhere; of the NULL tasks each goes to a worker of its own, which puts one
   NULL result for the completer to count. *)
Done     == {w \in Workers : worker[w] = "done"}
EofTaken == Working \cup Done
ended    == IF completer \in {"release", "returned"} THEN NumWorkers ELSE NumWorkers - active

Stopped == /\ NothingAfterStop
           /\ completer # "inject"
           /\ completer \in {"release", "returned"} => active = 1
           /\ Covers(row[0]) /\ row[0] \in Blocks
           /\ \A y \in Rows \ {0} : row[y] = NoBlock
           /\ Cardinality(EofTaken) = eofs - Len(regular_tasks)
           /\ Cardinality(Done) = Len(results) + ended

(* While the priority ring has a task no worker starts to poll the regular
   one, so what the workers bring in is what they have, and poll for, now. *)
Busy == {w \in Workers : worker[w] \in {"work", "regular"}}

InjectionInv == /\ Len(results) <= NumWorkers
                /\ priority_tasks # << >> =>
                       Len(priority_tasks) + Len(results) + Cardinality(Busy)
                       + (IF completer = "inject" THEN 1 ELSE 0) <= 2 * NumWorkers + 1

ScanInv == Scanning /\ Ends /\ NoTouch /\ Issued /\ Single

IInv == /\ Types /\ InjectionInv
        /\ ~ stop => ScanInv
        /\ stop => Stopped

-----------------------------------------------------------------------------
(* Facts about the number of workers, about the rings, and about tasks. *)
LEMMA WorkerCount == NumWorkers \in Nat \ {0}
  BY WorkersAssumption, FS_CardinalityType, FS_EmptySet DEF NumWorkers

LEMMA Subsets ==
    ASSUME NEW W \in SUBSET Workers
    PROVE  /\ IsFiniteSet(W) /\ Cardinality(W) \in Nat
           /\ Cardinality(W) <= NumWorkers
           /\ Cardinality(W) = NumWorkers => W = Workers
  BY WorkersAssumption, FS_CardinalityType, FS_Subset DEF NumWorkers

LEMMA Appended ==
    ASSUME NEW S, NEW q \in Seq(S), NEW x \in S
    PROVE  /\ Append(q, x) \in Seq(S)
           /\ Len(q) \in Nat /\ Len(Append(q, x)) = Len(q) + 1
           /\ \A i \in 1 .. Len(q) : Append(q, x)[i] = q[i]
           /\ Append(q, x)[Len(q) + 1] = x
  OBVIOUS

LEMMA Taken ==
    ASSUME NEW S, NEW q \in Seq(S), q # << >>
    PROVE  /\ Tail(q) \in Seq(S)
           /\ Len(q) \in Nat \ {0} /\ Len(Tail(q)) = Len(q) - 1
           /\ Head(q) = q[1] /\ Head(q) \in S
           /\ \A i \in 1 .. Len(q) - 1 : Tail(q)[i] = q[i + 1]
  OBVIOUS

LEMMA BlockFacts ==
    /\ \A b \in Blocks : /\ b.ymin \in Rows /\ b.ymax \in Rows /\ b.ymin <= b.ymax
                         /\ b = [ymin |-> b.ymin, ymax |-> b.ymax]
                         /\ RowsOf(b) \in SUBSET Rows
                         /\ b.ymin \in RowsOf(b) /\ b.ymax \in RowsOf(b)
    /\ NoBlock \notin Blocks
    /\ Rows = 0 .. Height - 1 /\ Height \in Nat \ {0} /\ maxrow = Height - 1
  BY FuseAssumption DEF Blocks, Rows, NoBlock, RowsOf, maxrow

(* A worker makes of a task a result of the same rows. *)
LEMMA Works ==
    ASSUME NEW t \in RowTasks \cup FuseTasks
    PROVE  /\ t # Eof /\ WorkOn(t) # Eof
           /\ WorkOn(t) \in Results /\ RowsOf(WorkOn(t)[1]) = Span(t)
           /\ Span(t) \in SUBSET Rows /\ Span(t) # {}
  <1>1. CASE t \in RowTasks
    <2>1. PICK y \in Rows : t = << y >>
      BY <1>1 DEF RowTasks, RowTask
    <2>2. ~ IsFuse(t) /\ t[1] = y /\ t # Eof
      BY <2>1, FuseAssumption DEF IsFuse, RowTask
    <2>3. [ymin |-> y, ymax |-> y] \in Blocks /\ y .. y = {y}
      BY BlockFacts DEF Blocks
    <2>4. WorkOn(t) = << [ymin |-> y, ymax |-> y] >> /\ Span(t) = {y}
      BY <2>2 DEF WorkOn, Span
    <2>5. RowsOf(WorkOn(t)[1]) = Span(t)
      <3>1. WorkOn(t)[1] = [ymin |-> y, ymax |-> y]
        BY <2>4
      <3>2. WorkOn(t)[1].ymin = y /\ WorkOn(t)[1].ymax = y
        BY <3>1
      <3> QED  BY <2>3, <2>4, <3>2 DEF RowsOf
    <2>6. WorkOn(t) \in Results /\ WorkOn(t) # Eof
      BY <2>3, <2>4, FuseAssumption DEF Results
    <2> QED  BY <2>1, <2>2, <2>4, <2>5, <2>6
  <1>2. CASE t \in FuseTasks
    <2>1. PICK a \in Blocks, b \in Blocks : t = << a, b >> /\ a.ymax + 1 = b.ymin
      BY <1>2 DEF FuseTasks
    <2>2. IsFuse(t) /\ t[1] = a /\ t[2] = b /\ t # Eof
      BY <2>1, FuseAssumption DEF IsFuse
    <2>3. [ymin |-> a.ymin, ymax |-> b.ymax] \in Blocks
      BY <2>1, BlockFacts DEF Blocks
    <2>4. WorkOn(t) = << [ymin |-> a.ymin, ymax |-> b.ymax] >> /\ Span(t) = a.ymin .. b.ymax
      BY <2>2 DEF WorkOn, Span
    <2>5. Span(t) \in SUBSET Rows /\ Span(t) # {}
      <3>1. /\ Rows = 0 .. Height - 1 /\ Height \in Nat
            /\ a.ymin \in Rows /\ a.ymax \in Rows /\ b.ymin \in Rows /\ b.ymax \in Rows
            /\ a.ymin <= a.ymax /\ b.ymin <= b.ymax
        BY BlockFacts
      <3>2. a.ymin \in a.ymin .. b.ymax
        BY <2>1, <3>1
      <3>3. a.ymin .. b.ymax \in SUBSET Rows
        BY <3>1
      <3> QED  BY <2>4, <3>2, <3>3
    <2> QED  BY <2>2, <2>3, <2>4, <2>5, FuseAssumption DEF Results, RowsOf
  <1> QED  BY <1>1, <1>2

LEMMA ResultFacts ==
    ASSUME NEW r \in Results
    PROVE  r # Eof /\ r[1] \in Blocks /\ r = << r[1] >>
  BY FuseAssumption DEF Results

-----------------------------------------------------------------------------
(* The bound on injections, for every step. *)
LEMMA BusyCount ==
    ASSUME Types
    PROVE  /\ IsFiniteSet(Busy) /\ Cardinality(Busy) \in 0 .. NumWorkers
           /\ Len(priority_tasks) \in Nat /\ Len(results) \in Nat
           /\ NumWorkers \in Nat \ {0}
  <1>1. Busy \in SUBSET Workers
    BY DEF Busy
  <1> QED  BY <1>1, Subsets, WorkerCount DEF Types

LEMMA InjectionUnchanged ==
    ASSUME Types, InjectionInv, UNCHANGED << priority_tasks, results, worker >>,
           completer' = "inject" => completer = "inject"
    PROVE  InjectionInv'
  <1>1. Busy' = Busy
    BY DEF Busy
  <1> QED  BY <1>1, BusyCount DEF InjectionInv

LEMMA InjectionPoll ==
    ASSUME Types, InjectionInv, NEW w \in Workers, PollPriority(w) \/ PollRegular(w),
           UNCHANGED completer
    PROVE  InjectionInv'
  <1> DEFINE P == Len(priority_tasks)
             R == Len(results)
             B == Cardinality(Busy)
  <1>0. /\ IsFiniteSet(Busy) /\ B \in 0 .. NumWorkers /\ P \in Nat /\ R \in Nat
        /\ NumWorkers \in Nat \ {0} /\ priority_tasks \in Seq(FuseTasks)
        /\ worker \in [Workers -> {"priority", "regular", "work", "done"}]
    BY BusyCount DEF Types
  <1>1. CASE PollPriority(w) /\ priority_tasks # << >>
    <2>1. /\ worker[w] = "priority" /\ worker' = [worker EXCEPT ![w] = "work"]
          /\ priority_tasks' = Tail(priority_tasks) /\ results' = results
      BY <1>1 DEF PollPriority
    <2>2. w \notin Busy /\ Busy' = Busy \cup {w}
      BY <1>0, <2>1 DEF Busy
    <2>3. Cardinality(Busy') = B + 1
      BY <1>0, <2>2, FS_AddElement
    <2>4. Len(priority_tasks') = P - 1
      BY <1>0, <1>1, <2>1, Taken
    <2> QED  BY <1>0, <1>1, <2>1, <2>3, <2>4 DEF InjectionInv
  <1>2. CASE PollPriority(w) /\ priority_tasks = << >>
    BY <1>2 DEF PollPriority, InjectionInv
  <1>3. CASE PollRegular(w)
    <2>1. /\ worker[w] = "regular"
          /\ \E place \in {"work", "priority"} : worker' = [worker EXCEPT ![w] = place]
          /\ priority_tasks' = priority_tasks /\ results' = results
      BY <1>3 DEF PollRegular
    <2>2. Busy' \in SUBSET Busy
      BY <1>0, <2>1 DEF Busy
    <2>3. Cardinality(Busy') \in Nat /\ Cardinality(Busy') <= B
      BY <1>0, <2>2, FS_Subset, FS_CardinalityType
    <2> QED  BY <1>0, <2>1, <2>3 DEF InjectionInv
  <1> QED  BY <1>1, <1>2, <1>3

LEMMA InjectionWork ==
    ASSUME Types, InjectionInv, NEW w \in Workers, NEW r, r \in Results \cup {Eof}, SetResult(w, r),
           UNCHANGED completer
    PROVE  InjectionInv'
  <1> DEFINE P == Len(priority_tasks)
             R == Len(results)
             B == Cardinality(Busy)
  <1>0. /\ IsFiniteSet(Busy) /\ B \in 0 .. NumWorkers /\ P \in Nat /\ R \in Nat
        /\ NumWorkers \in Nat \ {0} /\ results \in Seq(Results \cup {Eof})
        /\ worker \in [Workers -> {"priority", "regular", "work", "done"}]
    BY BusyCount DEF Types
  <1>1. /\ worker[w] = "work" /\ R < NumWorkers
        /\ \E place \in {"done", "priority"} : worker' = [worker EXCEPT ![w] = place]
        /\ priority_tasks' = priority_tasks /\ results' = Append(results, r)
    BY DEF SetResult, HasSpace
  <1>2. w \in Busy /\ Busy' = Busy \ {w}
    BY <1>0, <1>1 DEF Busy
  <1>3. Cardinality(Busy') = B - 1
    BY <1>0, <1>2, FS_RemoveElement
  <1>4. Len(results') = R + 1
    BY <1>0, <1>1, Appended
  <1> QED  BY <1>0, <1>1, <1>3, <1>4 DEF InjectionInv

LEMMA InjectionTakeResult ==
    ASSUME Types, InjectionInv, NEW r, TakeResult(r), completer # "inject"
    PROVE  InjectionInv'
  <1> DEFINE P == Len(priority_tasks)
             R == Len(results)
             B == Cardinality(Busy)
  <1>0. /\ B \in 0 .. NumWorkers /\ P \in Nat /\ R \in Nat
        /\ NumWorkers \in Nat \ {0} /\ results \in Seq(Results \cup {Eof})
    BY BusyCount DEF Types
  <1>1. /\ results # << >> /\ results' = Tail(results) /\ priority_tasks' = priority_tasks
        /\ Busy' = Busy
    BY DEF TakeResult, workerVars, Busy
  <1>2. Len(results') = R - 1
    BY <1>0, <1>1, Taken
  <1> QED  BY <1>0, <1>1, <1>2 DEF InjectionInv

LEMMA InjectionInject ==
    ASSUME Types, InjectionInv, NEW t \in FuseTasks, GenPriority(t),
           completer = "inject", completer' = "results"
    PROVE  InjectionInv'
  <1> DEFINE P == Len(priority_tasks)
             R == Len(results)
             B == Cardinality(Busy)
  <1>0. /\ B \in 0 .. NumWorkers /\ P \in Nat /\ R \in Nat
        /\ NumWorkers \in Nat \ {0} /\ priority_tasks \in Seq(FuseTasks)
    BY BusyCount DEF Types
  <1>1. /\ priority_tasks' = Append(priority_tasks, t) /\ results' = results
        /\ Busy' = Busy
    BY DEF GenPriority, workerVars, Busy
  <1>2. Len(priority_tasks') = P + 1
    BY <1>0, <1>1, Appended
  <1>3. CASE priority_tasks = << >>
    <2>1. P = 0
      BY <1>3
    <2> QED  BY <1>0, <1>1, <1>2, <2>1 DEF InjectionInv
  <1>4. CASE priority_tasks # << >>
    BY <1>0, <1>1, <1>2, <1>4 DEF InjectionInv
  <1> QED  BY <1>3, <1>4

-----------------------------------------------------------------------------
(* How rows may change their places: all of one place move to another that had
   none; or the head of a ring q moves, together with what was in a place of
   its own, to a place that had none. *)
Moves(k0, i0, k1, i1) ==
    \A y \in Rows :
        /\ ~ InPlace(k1, i1, y)
        /\ \A k, i : InPlace(k, i, y)' <=>
               \/ k = k1 /\ i = i1 /\ InPlace(k0, i0, y)
               \/ ~ (k = k0 /\ i = i0) /\ InPlace(k, i, y)

HeadMoves(q, k1, i1, k2, i2) ==
    /\ q # k1 /\ q # k2
    /\ \A y \in Rows :
        /\ ~ InPlace(k1, i1, y)
        /\ \A i : InPlace(q, i, y) => i \in Nat \ {0}
        /\ \A k, i : InPlace(k, i, y)' <=>
               \/ k = k1 /\ i = i1 /\ (InPlace(q, 1, y) \/ InPlace(k2, i2, y))
               \/ k = q /\ i \in Nat \ {0} /\ InPlace(q, i + 1, y)
               \/ k # q /\ ~ (k = k2 /\ i = i2) /\ InPlace(k, i, y)

LEMMA Moved ==
    ASSUME Issued, Single, UNCHANGED count,
           NEW k0, NEW i0, NEW k1, NEW i1, Moves(k0, i0, k1, i1)
    PROVE  Issued' /\ Single'
  <1> USE DEF Moves
  <1>1. ASSUME NEW y \in Rows
        PROVE  y >= count <=> \E k, i : InPlace(k, i, y)'
    <2>1. ASSUME NEW k, NEW i, InPlace(k, i, y) PROVE \E l, j : InPlace(l, j, y)'
      <3>1. CASE k = k0 /\ i = i0
        <4>1. InPlace(k1, i1, y)'
          BY <2>1, <3>1
        <4> QED  BY <4>1
      <3>2. CASE ~ (k = k0 /\ i = i0)
        BY <2>1, <3>2
      <3> QED  BY <3>1, <3>2
    <2>2. ASSUME NEW k, NEW i, InPlace(k, i, y)' PROVE \E l, j : InPlace(l, j, y)
      BY <2>2
    <2>3. y >= count <=> \E k, i : InPlace(k, i, y)
      BY DEF Issued
    <2> QED  BY <2>1, <2>2, <2>3
  <1>2. ASSUME NEW y \in Rows, NEW k, NEW i, NEW l, NEW j, InPlace(k, i, y)', InPlace(l, j, y)'
        PROVE  k = l /\ i = j
    <2>1. \A m, h, n, g : InPlace(m, h, y) /\ InPlace(n, g, y) => m = n /\ h = g
      BY DEF Single
    <2> QED  BY <1>2, <2>1
  <1>3. Issued'
    BY <1>1 DEF Issued
  <1>4. Single'
    BY <1>2 DEF Single
  <1> QED  BY <1>3, <1>4

LEMMA HeadMoved ==
    ASSUME Issued, Single, UNCHANGED count,
           NEW q, NEW k1, NEW i1, NEW k2, NEW i2, HeadMoves(q, k1, i1, k2, i2)
    PROVE  Issued' /\ Single'
  <1> USE DEF HeadMoves
  <1>1. ASSUME NEW y \in Rows
        PROVE  y >= count <=> \E k, i : InPlace(k, i, y)'
    <2>1. ASSUME NEW k, NEW i, InPlace(k, i, y) PROVE \E l, j : InPlace(l, j, y)'
      <3>1. CASE k = k2 /\ i = i2
        <4>1. InPlace(k1, i1, y)'
          BY <2>1, <3>1
        <4> QED  BY <4>1
      <3>2. CASE k = q /\ i = 1
        <4>1. InPlace(k1, i1, y)'
          BY <2>1, <3>2
        <4> QED  BY <4>1
      <3>3. CASE k = q /\ i # 1
        <4>1. i - 1 \in Nat \ {0} /\ (i - 1) + 1 = i
          BY <2>1, <3>3
        <4>2. InPlace(q, i - 1, y)'
          BY <2>1, <3>3, <4>1
        <4> QED  BY <4>2
      <3>4. CASE k # q /\ ~ (k = k2 /\ i = i2)
        BY <2>1, <3>4
      <3> QED  BY <3>1, <3>2, <3>3, <3>4
    <2>2. ASSUME NEW k, NEW i, InPlace(k, i, y)' PROVE \E l, j : InPlace(l, j, y)
      BY <2>2
    <2>3. y >= count <=> \E k, i : InPlace(k, i, y)
      BY DEF Issued
    <2> QED  BY <2>1, <2>2, <2>3
  <1>2. ASSUME NEW y \in Rows, NEW k, NEW i, NEW l, NEW j, InPlace(k, i, y)', InPlace(l, j, y)'
        PROVE  k = l /\ i = j
    <2>1. \A m, h, n, g : InPlace(m, h, y) /\ InPlace(n, g, y) => m = n /\ h = g
      BY DEF Single
    <2>2. ~ InPlace(k1, i1, y)
      OBVIOUS
    <2> DEFINE Joined(m, h)  == m = k1 /\ h = i1 /\ (InPlace(q, 1, y) \/ InPlace(k2, i2, y))
               Shifted(m, h) == m = q /\ h \in Nat \ {0} /\ InPlace(q, h + 1, y)
               Rest(m, h) == m # q /\ ~ (m = k2 /\ h = i2) /\ InPlace(m, h, y)
    <2>3. (Joined(k, i) \/ Shifted(k, i) \/ Rest(k, i)) /\ (Joined(l, j) \/ Shifted(l, j) \/ Rest(l, j))
      BY <1>2
    <2>4. ASSUME NEW m, NEW h, NEW n, NEW g, Joined(m, h), Shifted(n, g) PROVE FALSE
      <3>1. g + 1 # 1
        BY <2>4
      <3> QED  BY <2>1, <2>4, <3>1
    <2>5. ASSUME NEW m, NEW h, NEW n, NEW g, Joined(m, h), Rest(n, g) PROVE FALSE
      BY <2>1, <2>5
    <2>6. ASSUME NEW m, NEW h, NEW n, NEW g, Shifted(m, h), Rest(n, g) PROVE FALSE
      BY <2>1, <2>6
    <2>7. ASSUME Shifted(k, i), Shifted(l, j) PROVE i = j
      <3>1. i + 1 = j + 1
        BY <2>1, <2>7
      <3> QED  BY <2>7, <3>1
    <2> QED  BY <2>1, <2>3, <2>4, <2>5, <2>6, <2>7
  <1>3. Issued'
    BY <1>1 DEF Issued
  <1>4. Single'
    BY <1>2 DEF Single
  <1> QED  BY <1>3, <1>4

-----------------------------------------------------------------------------
LEMMA InitInv == Init => IInv
  <1> SUFFICES ASSUME Init PROVE IInv
    OBVIOUS
  <1> USE DEF Init, InitCoordinator
  <1>1. Types
    <2>1. << >> \in Seq(RowTasks \cup {Eof}) /\ << >> \in Seq(FuseTasks) /\ << >> \in Seq(Results \cup {Eof})
      OBVIOUS
    <2>2. active \in 1 .. NumWorkers /\ eofs \in 0 .. NumWorkers /\ count \in 0 .. Height
      BY WorkerCount, BlockFacts
    <2> QED  BY <2>1, <2>2 DEF Types
  <1>2. InjectionInv
    BY WorkerCount DEF InjectionInv
  <1>3. Scanning /\ Ends /\ NoTouch
    BY BlockFacts DEF Scanning, Ends, NoTouch
  <1>4. Issued /\ Single
    <2>1. Working = {} /\ Recorded = {}
      BY DEF Working, Recorded
    <2>2. \A y \in Rows : ~ y >= count
      BY BlockFacts
    <2>3. \A k, i, y : ~ InPlace(k, i, y)
      BY <2>1 DEF InPlace
    <2> QED  BY <2>2, <2>3 DEF Issued, Single
  <1> QED  BY <1>1, <1>2, <1>3, <1>4 DEF IInv, ScanInv

(* A step that moves nothing, and of the workers at most between the polls. *)
LEMMA StepNothing ==
    ASSUME IInv,
           UNCHANGED << rings, active, item, count, stop, row, eofs, fuse, completer >>,
           worker' \in [Workers -> {"priority", "regular", "work", "done"}], InjectionInv',
           \A w \in Workers : /\ worker'[w] = "work" <=> worker[w] = "work"
                              /\ worker'[w] = "done" <=> worker[w] = "done"
    PROVE  IInv'
  <1> USE DEF rings, IInv
  <1>1. Types'
    BY DEF Types
  <1>2. Working' = Working /\ Done' = Done
    BY DEF Working, Done
  <1>3. ASSUME ~ stop PROVE ScanInv'
    <2>1. Scanning' /\ Ends' /\ NoTouch'
      BY <1>2, <1>3 DEF ScanInv, Scanning, Ends, NoTouch
    <2>2. \A k, i, y : InPlace(k, i, y)' <=> InPlace(k, i, y)
      BY <1>2 DEF InPlace, Recorded
    <2>3. Issued' /\ Single'
      BY <1>3, <2>2 DEF ScanInv, Issued, Single
    <2> QED  BY <2>1, <2>3 DEF ScanInv
  <1>4. ASSUME stop PROVE Stopped'
    <2>1. NothingAfterStop'
      BY <1>2, <1>4 DEF Stopped, NothingAfterStop
    <2>2. EofTaken' = EofTaken /\ ended' = ended
      BY <1>2 DEF EofTaken, ended
    <2> QED  BY <1>2, <1>4, <2>1, <2>2 DEF Stopped, Covers
  <1> QED  BY <1>1, <1>3, <1>4

(* The maker's next row comes into the regular ring. *)
LEMMA StepMakeRow == ASSUME IInv, MakeRow PROVE IInv'
  <1> USE DEF IInv
  <1> DEFINE n == Len(regular_tasks)
             c == count - 1
  <1>1. /\ count > 0 /\ regular_tasks' = Append(regular_tasks, << c >>)
        /\ count' = c
        /\ UNCHANGED << priority_tasks, results, active, workerVars, stop, row, eofs, completer, fuse >>
    BY DEF MakeRow, GenRegular, RowTask, completerVars
  <1>2. ~ stop
    BY <1>1 DEF Stopped, NothingAfterStop
  <1>3. c \in Rows /\ << c >> \in RowTasks /\ count \in Nat
    BY <1>1, BlockFacts DEF Types, RowTasks, RowTask
  <1>4. /\ regular_tasks' \in Seq(RowTasks \cup {Eof}) /\ n \in Nat /\ Len(regular_tasks') = n + 1
        /\ \A i \in 1 .. n : regular_tasks'[i] = regular_tasks[i]
        /\ regular_tasks'[n + 1] = << c >>
    BY <1>1, <1>3, Appended DEF Types
  <1>5. Types'
    <2>1. count' \in 0 .. Height
      BY <1>1, <1>3, BlockFacts
    <2> QED  BY <1>1, <1>4, <2>1 DEF Types, workerVars
  <1>6. InjectionInv'
    BY <1>1, InjectionUnchanged DEF workerVars
  <1>7. Scanning' /\ Ends' /\ NoTouch'
    <2>1. << c >> # Eof /\ \A i \in 1 .. n + 1 : i \in 1 .. n \/ i = n + 1
      BY <1>3, <1>4, Works
    <2> QED  BY <1>1, <1>2, <1>4, <2>1 DEF ScanInv, Scanning, Ends, NoTouch, workerVars
  <1>8. ASSUME NEW y \in Rows, NEW k, NEW i
        PROVE  InPlace(k, i, y)' <=> InPlace(k, i, y) \/ (k = "regular" /\ i = n + 1 /\ y = c)
    <2>1. Span(<< c >>) = {c}
      BY DEF Span, IsFuse
    <2>2. Working' = Working /\ Recorded' = Recorded
      BY <1>1 DEF Working, Recorded, workerVars
    <2>3. CASE k = "regular"
      <3>1. InPlace(k, i, y)' <=> i \in 1 .. n + 1 /\ y \in Span(regular_tasks'[i])
        BY <1>4, <2>3 DEF InPlace, Span
      <3>2. InPlace(k, i, y) <=> i \in 1 .. n /\ y \in Span(regular_tasks[i])
        BY <2>3 DEF InPlace
      <3>3. i \in 1 .. n + 1 <=> i \in 1 .. n \/ i = n + 1
        BY <1>4
      <3>4. n + 1 \notin 1 .. n
        BY <1>4
      <3> QED  BY <1>4, <2>1, <2>3, <3>1, <3>2, <3>3, <3>4
    <2>4. CASE k # "regular"
      BY <1>1, <2>2, <2>4 DEF InPlace, workerVars
    <2> QED  BY <2>3, <2>4
  <1>9. ~ \E k, i : InPlace(k, i, c)
    BY <1>2, <1>3 DEF ScanInv, Issued
  <1>10. Issued'
    <2> SUFFICES ASSUME NEW y \in Rows
                 PROVE  y >= c <=> \E k, i : InPlace(k, i, y)'
      BY <1>1 DEF Issued
    <2>1. y >= c <=> y >= count \/ y = c
      BY <1>3, BlockFacts
    <2>2. y >= count <=> \E k, i : InPlace(k, i, y)
      BY <1>2 DEF ScanInv, Issued
    <2> QED  BY <1>8, <2>1, <2>2
  <1>11. Single'
    <2> SUFFICES ASSUME NEW y \in Rows, NEW k, NEW i, NEW l, NEW j,
                        InPlace(k, i, y)', InPlace(l, j, y)'
                 PROVE  k = l /\ i = j
      BY DEF Single
    <2>1. InPlace(k, i, y) /\ InPlace(l, j, y) => k = l /\ i = j
      BY <1>2 DEF ScanInv, Single
    <2> QED  BY <1>8, <1>9, <2>1
  <1> QED  BY <1>1, <1>2, <1>5, <1>6, <1>7, <1>10, <1>11 DEF ScanInv

(* The maker's NULL tasks: after `stop`. *)
LEMMA StepMakeEof == ASSUME IInv, MakeEof PROVE IInv'
  <1> USE DEF IInv
  <1> DEFINE n == Len(regular_tasks)
  <1>1. /\ stop /\ eofs < NumWorkers /\ regular_tasks' = Append(regular_tasks, Eof)
        /\ eofs' = eofs + 1
        /\ UNCHANGED << priority_tasks, results, active, workerVars, count, stop, row, completer, fuse >>
    BY DEF MakeEof, GenRegular, completerVars
  <1>2. /\ regular_tasks' \in Seq(RowTasks \cup {Eof}) /\ n \in Nat /\ Len(regular_tasks') = n + 1
        /\ \A i \in 1 .. n : regular_tasks'[i] = regular_tasks[i]
        /\ regular_tasks'[n + 1] = Eof
    BY <1>1, Appended DEF Types
  <1>3. Types'
    <2>1. eofs' \in 0 .. NumWorkers
      BY <1>1, WorkerCount DEF Types
    <2> QED  BY <1>1, <1>2, <2>1 DEF Types, workerVars
  <1>4. InjectionInv'
    BY <1>1, InjectionUnchanged DEF workerVars
  <1>5. Stopped'
    <2>1. NothingAfterStop'
      <3>1. Working' = Working /\ \A w \in Working : item'[w] = item[w]
        BY <1>1 DEF Working, workerVars
      <3>2. \A i \in 1 .. n + 1 : i \in 1 .. n \/ i = n + 1
        BY <1>2
      <3> QED  BY <1>1, <1>2, <3>1, <3>2 DEF Stopped, NothingAfterStop
    <2>2. EofTaken' = EofTaken /\ Done' = Done /\ ended' = ended
      BY <1>1 DEF EofTaken, Working, Done, ended, workerVars
    <2>3. Cardinality(EofTaken) = eofs' - Len(regular_tasks')
      BY <1>1, <1>2 DEF Stopped, Types
    <2> QED  BY <1>1, <2>1, <2>2, <2>3 DEF Stopped, Covers
  <1> QED  BY <1>1, <1>3, <1>4, <1>5

LEMMA StepPollNothing ==
    ASSUME IInv, NEW w \in Workers, UNCHANGED << makerVars, completerVars >>,
           \/ PollPriority(w) /\ priority_tasks = << >>
           \/ PollRegular(w) /\ regular_tasks = << >>
    PROVE  IInv'
  <1>1. /\ worker[w] \in {"priority", "regular"}
        /\ \E place \in {"priority", "regular"} : worker' = [worker EXCEPT ![w] = place]
        /\ UNCHANGED << rings, active, item >>
    BY DEF PollPriority, PollRegular, rings
  <1>2. /\ worker' \in [Workers -> {"priority", "regular", "work", "done"}]
        /\ \A v \in Workers : /\ worker'[v] = "work" <=> worker[v] = "work"
                              /\ worker'[v] = "done" <=> worker[v] = "done"
    BY <1>1 DEF IInv, Types
  <1>3. UNCHANGED << count, eofs, stop, row, completer, fuse >>
    BY DEF makerVars, completerVars
  <1>4. InjectionInv'
    BY <1>3, InjectionPoll DEF IInv
  <1> QED  BY <1>1, <1>2, <1>3, <1>4, StepNothing

(* A worker takes a fuse task.  After `stop` there is none. *)
LEMMA StepTakePriority ==
    ASSUME IInv, NEW w \in Workers, UNCHANGED << makerVars, completerVars >>,
           PollPriority(w), priority_tasks # << >>
    PROVE  IInv'
  <1> USE DEF IInv
  <1> DEFINE x == Head(priority_tasks)
             n == Len(priority_tasks)
  <1>1. /\ worker[w] = "priority" /\ worker' = [worker EXCEPT ![w] = "work"]
        /\ item' = [item EXCEPT ![w] = x]
        /\ priority_tasks' = Tail(priority_tasks)
        /\ UNCHANGED << regular_tasks, results, active, count, eofs, stop, row, completer, fuse >>
    BY DEF PollPriority, makerVars, completerVars
  <1>2. ~ stop
    BY DEF Stopped, NothingAfterStop
  <1>3. /\ priority_tasks' \in Seq(FuseTasks) /\ Len(priority_tasks') = n - 1
        /\ n \in Nat \ {0} /\ x = priority_tasks[1] /\ x \in FuseTasks
        /\ \A i \in 1 .. n - 1 : priority_tasks'[i] = priority_tasks[i + 1]
    BY <1>1, Taken DEF Types
  <1>4. Types'
    BY <1>1, <1>3 DEF Types
  <1>5. InjectionInv'
    BY <1>1, InjectionPoll
  <1>6. /\ worker'[w] = "work" /\ item'[w] = x
        /\ \A v \in Workers \ {w} : worker'[v] = worker[v] /\ item'[v] = item[v]
    BY <1>1 DEF Types
  <1>7. Scanning' /\ Ends' /\ NoTouch'
    <2>1. x # Eof
      BY <1>3, Works
    <2> QED  BY <1>1, <1>2, <1>6, <2>1 DEF ScanInv, Scanning, Ends, NoTouch
  <1>8. ASSUME NEW y \in Rows, NEW k, NEW i
        PROVE  InPlace(k, i, y)' <=>
                   \/ k = "work" /\ i = w /\ (InPlace("priority", 1, y) \/ InPlace("work", w, y))
                   \/ k = "priority" /\ i \in Nat \ {0} /\ InPlace("priority", i + 1, y)
                   \/ k # "priority" /\ ~ (k = "work" /\ i = w) /\ InPlace(k, i, y)
    <2>1. Working' = Working \cup {w} /\ w \notin Working
      BY <1>1, <1>6 DEF Working
    <2>2. InPlace("priority", 1, y) <=> y \in Span(x)
      BY <1>3 DEF InPlace
    <2>3. CASE k = "priority"
      <3>1. i \in 1 .. n - 1 <=> i \in Nat \ {0} /\ i + 1 \in 1 .. n
        BY <1>3
      <3>2. InPlace(k, i, y)' <=> i \in 1 .. n - 1 /\ y \in Span(priority_tasks'[i])
        BY <1>3, <2>3 DEF InPlace, Span
      <3> QED  BY <1>3, <2>3, <3>1, <3>2 DEF InPlace
    <2>4. CASE k = "work"
      <3>1. InPlace(k, i, y)' <=> i \in Working' /\ y \in Span(item'[i])
        BY <2>4 DEF InPlace, Span
      <3>2. \A v \in Working : item'[v] = item[v] /\ v # w
        BY <1>6, <2>1 DEF Working
      <3> QED  BY <1>6, <2>1, <2>2, <2>4, <3>1, <3>2 DEF InPlace
    <2>5. CASE k # "priority" /\ k # "work"
      BY <1>1, <2>5 DEF InPlace, Recorded
    <2> QED  BY <2>3, <2>4, <2>5
  <1>9. Issued' /\ Single'
    <2>1. \A y \in Rows : ~ InPlace("work", w, y)
      BY <1>1 DEF InPlace, Working
    <2>2. \A y \in Rows : \A i : InPlace("priority", i, y) => i \in Nat \ {0}
      BY <1>3 DEF InPlace
    <2>3. HeadMoves("priority", "work", w, "work", w)
      BY <1>8, <2>1, <2>2 DEF HeadMoves
    <2> QED  BY <1>1, <1>2, <2>3, HeadMoved DEF ScanInv
  <1> QED  BY <1>1, <1>2, <1>4, <1>5, <1>7, <1>9 DEF ScanInv

(* A worker takes a row task, or after `stop` a NULL task. *)
LEMMA StepTakeRegular ==
    ASSUME IInv, NEW w \in Workers, UNCHANGED << makerVars, completerVars >>,
           PollRegular(w), regular_tasks # << >>
    PROVE  IInv'
  <1> USE DEF IInv
  <1> DEFINE x == Head(regular_tasks)
             n == Len(regular_tasks)
  <1>1. /\ worker[w] = "regular" /\ worker' = [worker EXCEPT ![w] = "work"]
        /\ item' = [item EXCEPT ![w] = x]
        /\ regular_tasks' = Tail(regular_tasks)
        /\ UNCHANGED << priority_tasks, results, active, count, eofs, stop, row, completer, fuse >>
    BY DEF PollRegular, makerVars, completerVars
  <1>2. /\ regular_tasks' \in Seq(RowTasks \cup {Eof}) /\ Len(regular_tasks') = n - 1
        /\ n \in Nat \ {0} /\ x = regular_tasks[1] /\ x \in RowTasks \cup {Eof}
        /\ \A i \in 1 .. n - 1 : regular_tasks'[i] = regular_tasks[i + 1]
    BY <1>1, Taken DEF Types
  <1>3. Types'
    BY <1>1, <1>2 DEF Types
  <1>4. InjectionInv'
    BY <1>1, InjectionPoll
  <1>5. /\ worker'[w] = "work" /\ item'[w] = x
        /\ \A v \in Workers \ {w} : worker'[v] = worker[v] /\ item'[v] = item[v]
    BY <1>1 DEF Types
  <1>6. \A i \in 1 .. n - 1 : i + 1 \in 1 .. n
    BY <1>2
  <1>7. /\ Working' = Working \cup {w} /\ w \notin Working /\ Done' = Done
        /\ \A v \in Working : item'[v] = item[v] /\ v # w
    BY <1>1, <1>5 DEF Working, Done
  <1>8. 1 \in 1 .. n
    BY <1>2
  <1>9. ASSUME ~ stop PROVE ScanInv'
    <2>1. Scanning' /\ Ends' /\ NoTouch'
      <3>1. x # Eof
        BY <1>2, <1>8, <1>9 DEF ScanInv, Scanning
      <3> QED  BY <1>1, <1>2, <1>5, <1>6, <1>9, <3>1 DEF ScanInv, Scanning, Ends, NoTouch
    <2>2. ASSUME NEW y \in Rows, NEW k, NEW i
          PROVE  InPlace(k, i, y)' <=>
                     \/ k = "work" /\ i = w /\ (InPlace("regular", 1, y) \/ InPlace("work", w, y))
                     \/ k = "regular" /\ i \in Nat \ {0} /\ InPlace("regular", i + 1, y)
                     \/ k # "regular" /\ ~ (k = "work" /\ i = w) /\ InPlace(k, i, y)
      <3>1. InPlace("regular", 1, y) <=> y \in Span(x)
        BY <1>2 DEF InPlace
      <3>2. CASE k = "regular"
        <4>1. i \in 1 .. n - 1 <=> i \in Nat \ {0} /\ i + 1 \in 1 .. n
          BY <1>2
        <4>2. InPlace(k, i, y)' <=> i \in 1 .. n - 1 /\ y \in Span(regular_tasks'[i])
          BY <1>2, <3>2 DEF InPlace, Span
        <4> QED  BY <1>2, <3>2, <4>1, <4>2 DEF InPlace
      <3>3. CASE k = "work"
        <4>1. InPlace(k, i, y)' <=> i \in Working' /\ y \in Span(item'[i])
          BY <3>3 DEF InPlace, Span
        <4> QED  BY <1>5, <1>7, <3>1, <3>3, <4>1 DEF InPlace
      <3>4. CASE k # "regular" /\ k # "work"
        BY <1>1, <3>4 DEF InPlace, Recorded
      <3> QED  BY <3>2, <3>3, <3>4
    <2>3. \A y \in Rows : ~ InPlace("work", w, y)
      BY <1>7 DEF InPlace
    <2>4. \A y \in Rows : \A i : InPlace("regular", i, y) => i \in Nat \ {0}
      BY <1>2 DEF InPlace
    <2>5. HeadMoves("regular", "work", w, "work", w)
      BY <2>2, <2>3, <2>4 DEF HeadMoves
    <2> QED  BY <1>1, <1>9, <2>1, <2>5, HeadMoved DEF ScanInv
  <1>10. ASSUME stop PROVE Stopped'
    <2>1. x = Eof
      BY <1>2, <1>8, <1>10 DEF Stopped, NothingAfterStop
    <2>2. NothingAfterStop'
      BY <1>1, <1>2, <1>5, <1>6, <1>7, <1>10, <2>1 DEF Stopped, NothingAfterStop
    <2>3. EofTaken' = EofTaken \cup {w} /\ w \notin EofTaken /\ ended' = ended
      BY <1>1, <1>7 DEF EofTaken, Done, ended
    <2>4. Cardinality(EofTaken') = Cardinality(EofTaken) + 1 /\ Cardinality(EofTaken) \in Nat
      <3>1. EofTaken \in SUBSET Workers
        BY DEF EofTaken, Working, Done
      <3> QED  BY <2>3, <3>1, Subsets, FS_AddElement
    <2>5. Cardinality(EofTaken') = eofs - Len(regular_tasks')
      BY <1>2, <1>10, <2>4 DEF Stopped, Types
    <2> QED  BY <1>1, <1>7, <1>10, <2>2, <2>3, <2>5 DEF Stopped, Covers
  <1> QED  BY <1>1, <1>3, <1>4, <1>9, <1>10

(* A worker puts the result of its task: the rows go from it to the results.
   After `stop` the task and its result are NULL. *)
LEMMA StepWork ==
    ASSUME IInv, NEW w \in Workers, Work(w)
    PROVE  IInv'
  <1> USE DEF IInv
  <1> DEFINE x == item[w]
             r == WorkOn(item[w])
             n == Len(results)
  <1>1. /\ worker[w] = "work" /\ results' = Append(results, r)
        /\ worker' = [worker EXCEPT ![w] = IF x = Eof THEN "done" ELSE "priority"]
        /\ UNCHANGED << regular_tasks, priority_tasks, active, item, count, eofs, stop, row, completer, fuse >>
    BY DEF Work, SetResult, makerVars, completerVars
  <1>2. /\ x \in RowTasks \cup FuseTasks \cup {Eof}
        /\ x = Eof => r = Eof
        /\ r \in Results \cup {Eof}
    <2>1. x = Eof => r = Eof
      BY DEF WorkOn
    <2> QED  BY <2>1, Works DEF Types
  <1>3. /\ results' \in Seq(Results \cup {Eof}) /\ n \in Nat /\ Len(results') = n + 1
        /\ \A i \in 1 .. n : results'[i] = results[i]
        /\ results'[n + 1] = r
        /\ \A i \in 1 .. n + 1 : i \in 1 .. n \/ i = n + 1
    <2> HIDE DEF r
    <2> QED  BY <1>1, <1>2, Appended DEF Types
  <1>4. Types'
    BY <1>1, <1>3 DEF Types
  <1>5. InjectionInv'
    <2>1. \E s : s \in Results \cup {Eof} /\ SetResult(w, s)
      BY <1>2 DEF Work
    <2> QED  BY <1>1, <2>1, InjectionWork
  <1>6. /\ worker'[w] = IF x = Eof THEN "done" ELSE "priority"
        /\ \A v \in Workers \ {w} : worker'[v] = worker[v]
        /\ Working' = Working \ {w} /\ w \in Working
    BY <1>1 DEF Types, Working
  <1>7. ASSUME ~ stop PROVE ScanInv'
    <2>1. x \in RowTasks \cup FuseTasks
      BY <1>1, <1>2, <1>7 DEF ScanInv, Scanning
    <2>2. r # Eof /\ x # Eof /\ RowsOf(r[1]) = Span(x)
      BY <2>1, Works
    <2>3. Scanning' /\ Ends' /\ NoTouch'
      <3> HIDE DEF r
      <3> QED  BY <1>1, <1>3, <1>6, <1>7, <2>2 DEF ScanInv, Scanning, Ends, NoTouch
    <2>4. \A y \in Rows : InPlace("work", w, y) <=> y \in Span(x)
      BY <1>6 DEF InPlace
    <2>5. \A y \in Rows : ~ InPlace("results", n + 1, y)
      BY <1>3 DEF InPlace
    <2>6. ASSUME NEW y \in Rows, NEW k, NEW i
          PROVE  InPlace(k, i, y)' <=>
                     \/ k = "results" /\ i = n + 1 /\ InPlace("work", w, y)
                     \/ ~ (k = "work" /\ i = w) /\ InPlace(k, i, y)
      <3> HIDE DEF r
      <3>1. CASE k = "results"
        <4>1. InPlace(k, i, y)' <=> i \in 1 .. n + 1 /\ y \in RowsOf(results'[i][1])
          BY <1>3, <3>1 DEF InPlace, RowsOf
        <4>2. InPlace(k, i, y) <=> i \in 1 .. n /\ y \in RowsOf(results[i][1])
          BY <3>1 DEF InPlace
        <4>3. i \in 1 .. n + 1 <=> i \in 1 .. n \/ i = n + 1
          BY <1>3
        <4>4. n + 1 \notin 1 .. n
          BY <1>3
        <4> QED  BY <1>3, <2>2, <2>4, <3>1, <4>1, <4>2, <4>3, <4>4
      <3>2. CASE k = "work"
        BY <1>1, <1>6, <3>2 DEF InPlace
      <3>3. CASE k # "results" /\ k # "work"
        BY <1>1, <3>3 DEF InPlace, Recorded
      <3> QED  BY <3>1, <3>2, <3>3
    <2>7. Moves("work", w, "results", n + 1)
      BY <2>5, <2>6 DEF Moves
    <2> QED  BY <1>1, <1>7, <2>3, <2>7, Moved DEF ScanInv
  <1>8. ASSUME stop PROVE Stopped'
    <2>1. x = Eof /\ r = Eof /\ worker'[w] = "done"
      BY <1>2, <1>6, <1>8 DEF Stopped, NothingAfterStop
    <2>2. NothingAfterStop'
      <3> HIDE DEF r
      <3> QED  BY <1>1, <1>3, <1>6, <1>8, <2>1 DEF Stopped, NothingAfterStop
    <2>3. /\ Done' = Done \cup {w} /\ w \notin Done
          /\ EofTaken' = EofTaken /\ ended' = ended
      BY <1>1, <1>6, <2>1 DEF Done, EofTaken, ended
    <2>4. Cardinality(Done') = Cardinality(Done) + 1 /\ Cardinality(Done) \in Nat
      <3>1. Done \in SUBSET Workers
        BY DEF Done
      <3> QED  BY <2>3, <3>1, Subsets, FS_AddElement
    <2>5. Cardinality(Done') = Len(results') + ended'
      <3>1. ended \in Int
        BY WorkerCount DEF ended, Types
      <3> QED  BY <1>3, <1>8, <2>3, <2>4, <3>1 DEF Stopped
    <2> QED  BY <1>1, <1>8, <2>2, <2>3, <2>5 DEF Stopped, Covers
  <1> QED  BY <1>1, <1>4, <1>5, <1>7, <1>8

(* The completer injects its fuse task. *)
LEMMA StepInject ==
    ASSUME IInv, Inject
    PROVE  IInv'
  <1> USE DEF IInv
  <1> DEFINE n == Len(priority_tasks)
  <1>1. /\ completer = "inject" /\ completer' = "results" /\ fuse' = Eof
        /\ priority_tasks' = Append(priority_tasks, fuse)
        /\ UNCHANGED << regular_tasks, results, active, worker, item, count, eofs, stop, row >>
    BY DEF Inject, GenPriority, workerVars, makerVars
  <1>2. ~ stop
    BY <1>1 DEF Stopped
  <1>3. fuse \in FuseTasks
    BY <1>1, <1>2 DEF ScanInv, Scanning, Types
  <1>4. /\ priority_tasks' \in Seq(FuseTasks) /\ n \in Nat /\ Len(priority_tasks') = n + 1
        /\ \A i \in 1 .. n : priority_tasks'[i] = priority_tasks[i]
        /\ priority_tasks'[n + 1] = fuse
    BY <1>1, <1>3, Appended DEF Types
  <1>5. Types'
    BY <1>1, <1>4 DEF Types
  <1>6. InjectionInv'
    <2>1. \E t \in FuseTasks : GenPriority(t)
      BY <1>3 DEF Inject
    <2> QED  BY <1>1, <2>1, InjectionInject
  <1>7. Scanning' /\ Ends' /\ NoTouch'
    BY <1>1, <1>2 DEF ScanInv, Scanning, Ends, NoTouch
  <1>8. ASSUME NEW y \in Rows, NEW k, NEW i
        PROVE  InPlace(k, i, y)' <=>
                   \/ k = "priority" /\ i = n + 1 /\ InPlace("inject", 0, y)
                   \/ ~ (k = "inject" /\ i = 0) /\ InPlace(k, i, y)
    <2>1. InPlace("inject", 0, y) <=> y \in Span(fuse)
      BY <1>1 DEF InPlace
    <2>2. CASE k = "priority"
      <3>1. InPlace(k, i, y)' <=> i \in 1 .. n + 1 /\ y \in Span(priority_tasks'[i])
        BY <1>4, <2>2 DEF InPlace, Span
      <3>2. InPlace(k, i, y) <=> i \in 1 .. n /\ y \in Span(priority_tasks[i])
        BY <2>2 DEF InPlace
      <3>3. i \in 1 .. n + 1 <=> i \in 1 .. n \/ i = n + 1
        BY <1>4
      <3>4. n + 1 \notin 1 .. n
        BY <1>4
      <3> QED  BY <1>4, <2>1, <2>2, <3>1, <3>2, <3>3, <3>4
    <2>3. CASE k = "inject"
      BY <1>1, <2>3 DEF InPlace
    <2>4. CASE k # "priority" /\ k # "inject"
      BY <1>1, <2>4 DEF InPlace, Recorded, Working
    <2> QED  BY <2>2, <2>3, <2>4
  <1>9. \A y \in Rows : ~ InPlace("priority", n + 1, y)
    BY <1>4 DEF InPlace
  <1>10. Moves("inject", 0, "priority", n + 1)
    BY <1>8, <1>9 DEF Moves
  <1>11. Issued' /\ Single'
    BY <1>1, <1>2, <1>10, Moved DEF ScanInv
  <1> QED  BY <1>1, <1>2, <1>5, <1>6, <1>7, <1>11 DEF ScanInv

-----------------------------------------------------------------------------
(* What the completer knows of a block r at the head of the results: it is
   not after `stop`, nothing is recorded in the rows of r, and a recorded block
   is found at its ends. *)
LEMMA RecordedFacts ==
    ASSUME Types, Ends, NEW b \in Recorded
    PROVE  /\ b \in Blocks /\ b # NoBlock
           /\ row[b.ymin] = b /\ row[b.ymax] = b
           /\ \A y \in Rows : row[y] = b => y = b.ymin \/ y = b.ymax
  BY DEF Types, Ends, Recorded

LEMMA HeadResult ==
    ASSUME IInv, NEW r \in Blocks, GetResult(<< r >>)
    PROVE  /\ ~ stop
           /\ results # << >> /\ results[1] = << r >>
           /\ \A y \in Rows : InPlace("results", 1, y) <=> y \in RowsOf(r)
           /\ \A y \in Rows : \A k, i : y \in RowsOf(r) /\ InPlace(k, i, y) => k = "results" /\ i = 1
           /\ \A y \in RowsOf(r) : row[y] = NoBlock
           /\ r \notin Recorded
  <1> USE DEF IInv
  <1>1. results # << >> /\ results \in Seq(Results \cup {Eof}) /\ Head(results) = << r >>
    BY DEF GetResult, TakeResult, Types
  <1>2. results[1] = << r >> /\ 1 \in 1 .. Len(results)
    BY <1>1, Taken
  <1>3. ~ stop
    BY <1>2 DEF GetResult, Stopped, NothingAfterStop
  <1>4. \A y \in Rows : InPlace("results", 1, y) <=> y \in RowsOf(r)
    BY <1>2 DEF InPlace
  <1>5. \A y \in Rows : \A k, i : y \in RowsOf(r) /\ InPlace(k, i, y) => k = "results" /\ i = 1
    BY <1>3, <1>4 DEF ScanInv, Single
  <1>6. \A b \in Recorded : \A y \in Rows : ~ (y \in RowsOf(b) /\ y \in RowsOf(r))
    <2> SUFFICES ASSUME NEW b \in Recorded, NEW y \in Rows, y \in RowsOf(b), y \in RowsOf(r) PROVE FALSE
      OBVIOUS
    <2>1. InPlace("array", b, y)
      BY DEF InPlace
    <2> QED  BY <1>5, <2>1
  <1>7. \A y \in RowsOf(r) : row[y] = NoBlock
    <2> SUFFICES ASSUME NEW y \in RowsOf(r), row[y] # NoBlock PROVE FALSE
      OBVIOUS
    <2>1. y \in Rows
      BY BlockFacts
    <2>2. row[y] \in Recorded
      BY <2>1 DEF Recorded
    <2>3. row[y] \in Blocks /\ (y = row[y].ymin \/ y = row[y].ymax)
      BY <1>3, <2>1, <2>2, RecordedFacts DEF ScanInv
    <2>4. y \in RowsOf(row[y])
      BY <2>3, BlockFacts
    <2> QED  BY <1>6, <2>1, <2>2, <2>4
  <1>8. r \notin Recorded
    <2>1. r.ymin \in Rows /\ r.ymin \in RowsOf(r)
      BY BlockFacts
    <2> QED  BY <1>6, <2>1
  <1> QED  BY <1>1, <1>2, <1>3, <1>4, <1>5, <1>7, <1>8

(* What taking it from the ring changes, of everything but the places. *)
LEMMA TakeResultFacts ==
    ASSUME IInv, NEW r, TakeResult(r), completer = "results", UNCHANGED makerVars
    PROVE  /\ results \in Seq(Results \cup {Eof}) /\ results' \in Seq(Results \cup {Eof})
           /\ Len(results) \in Nat \ {0} /\ Len(results') = Len(results) - 1
           /\ \A i \in 1 .. Len(results) - 1 : results'[i] = results[i + 1] /\ i + 1 \in 1 .. Len(results)
           /\ r = results[1] /\ 1 \in 1 .. Len(results)
           /\ InjectionInv'
           /\ UNCHANGED << regular_tasks, priority_tasks, worker, item, count, eofs >>
           /\ Working' = Working /\ Done' = Done
  <1>1. results \in Seq(Results \cup {Eof}) /\ results # << >> /\ r = Head(results) /\ results' = Tail(results)
    BY DEF TakeResult, IInv, Types
  <1>2. InjectionInv'
    BY InjectionTakeResult DEF IInv
  <1>3. UNCHANGED << regular_tasks, priority_tasks, worker, item, count, eofs >>
    BY DEF TakeResult, workerVars, makerVars
  <1>4. Working' = Working /\ Done' = Done
    BY <1>3 DEF Working, Done
  <1> QED  BY <1>1, <1>2, <1>3, <1>4, Taken

(* No neighbour: the block goes to the array. *)
LEMMA StepRecord ==
    ASSUME IInv, NEW r \in Blocks, completer = "results", UNCHANGED makerVars,
           GetResult(<< r >>), Record(r)
    PROVE  IInv'
  <1> USE DEF IInv
  <1> DEFINE n == Len(results)
  <1>1. /\ ~ stop
        /\ results # << >> /\ results[1] = << r >>
        /\ \A y \in Rows : InPlace("results", 1, y) <=> y \in RowsOf(r)
        /\ \A y \in RowsOf(r) : row[y] = NoBlock
        /\ r \notin Recorded
    BY HeadResult
  <1>2. /\ results' \in Seq(Results \cup {Eof})
        /\ n \in Nat \ {0} /\ Len(results') = n - 1
        /\ \A i \in 1 .. n - 1 : results'[i] = results[i + 1] /\ i + 1 \in 1 .. n
        /\ InjectionInv'
        /\ UNCHANGED << regular_tasks, priority_tasks, worker, item, count, eofs >>
        /\ Working' = Working /\ active' = active
    BY TakeResultFacts DEF GetResult
  <1>3. /\ row' = [row EXCEPT ![r.ymin] = r, ![r.ymax] = r]
        /\ Below(r) = NoBlock /\ Above(r) = NoBlock
        /\ UNCHANGED << stop, completer, fuse >>
    BY DEF Record
  <1>4. /\ r.ymin \in Rows /\ r.ymax \in Rows /\ r.ymin \in RowsOf(r) /\ r.ymax \in RowsOf(r)
        /\ r # NoBlock /\ r.ymin <= r.ymax
        /\ Rows = 0 .. Height - 1 /\ Height \in Nat /\ maxrow = Height - 1
    BY BlockFacts
  <1>5. /\ row \in [Rows -> Blocks \cup {NoBlock}]
        /\ row' \in [Rows -> Blocks \cup {NoBlock}]
        /\ row'[r.ymin] = r /\ row'[r.ymax] = r
        /\ \A y \in Rows \ {r.ymin, r.ymax} : row'[y] = row[y]
    BY <1>3, <1>4 DEF Types
  <1>6. Types'
    BY <1>2, <1>3, <1>5 DEF Types
  <1>7. Scanning'
    BY <1>1, <1>2, <1>3 DEF ScanInv, Scanning
  <1>8. \A y \in Rows : row'[y] # NoBlock => (row'[y] = r /\ y \in {r.ymin, r.ymax}) \/ (row'[y] = row[y] /\ row[y] # NoBlock)
    BY <1>5
  <1>9. \A y \in Rows : row[y] # NoBlock => row'[y] = row[y]
    BY <1>1, <1>4, <1>5
  <1>10. Ends'
    <2> SUFFICES ASSUME NEW y \in Rows, row'[y] # NoBlock
                 PROVE  /\ y = row'[y].ymin \/ y = row'[y].ymax
                        /\ row'[row'[y].ymin] = row'[y] /\ row'[row'[y].ymax] = row'[y]
      BY DEF Ends
    <2>1. CASE row'[y] = r /\ y \in {r.ymin, r.ymax}
      BY <1>5, <2>1
    <2>2. CASE row'[y] = row[y] /\ row[y] # NoBlock
      <3>1. /\ y = row[y].ymin \/ y = row[y].ymax
            /\ row[row[y].ymin] = row[y] /\ row[row[y].ymax] = row[y]
        BY <1>1, <2>2 DEF ScanInv, Ends
      <3>2. row[y].ymin \in Rows /\ row[y].ymax \in Rows
        BY <1>5, <2>2, BlockFacts
      <3> QED  BY <1>9, <2>2, <3>1, <3>2
    <2> QED  BY <1>8, <2>1, <2>2
  <1>11. NoTouch'
    <2>1. ASSUME NEW y \in Rows, row[y] # NoBlock
          PROVE  row[y].ymax + 1 # r.ymin /\ r.ymax + 1 # row[y].ymin
      <3>1. row[y] \in Recorded
        BY <2>1 DEF Recorded
      <3>2. /\ row[y].ymin \in Rows /\ row[y].ymax \in Rows
            /\ row[row[y].ymin] = row[y] /\ row[row[y].ymax] = row[y]
        BY <1>1, <3>1, RecordedFacts, BlockFacts DEF ScanInv
      <3>3. ASSUME row[y].ymax + 1 = r.ymin PROVE FALSE
        <4>1. r.ymin > 0 /\ r.ymin - 1 = row[y].ymax
          BY <1>4, <3>2, <3>3
        <4> QED  BY <1>3, <2>1, <3>2, <4>1 DEF Below
      <3>4. ASSUME r.ymax + 1 = row[y].ymin PROVE FALSE
        <4>1. r.ymax < maxrow
          BY <1>4, <3>2, <3>4
        <4> QED  BY <1>3, <2>1, <3>2, <3>4, <4>1 DEF Above
      <3> QED  BY <3>3, <3>4
    <2>2. r.ymax + 1 # r.ymin
      BY <1>4
    <2> SUFFICES ASSUME NEW y \in Rows, NEW z \in Rows, row'[y] # NoBlock, row'[z] # NoBlock
                 PROVE  row'[y].ymax + 1 # row'[z].ymin
      BY DEF NoTouch
    <2>3. CASE row'[y] = row[y] /\ row[y] # NoBlock /\ row'[z] = row[z] /\ row[z] # NoBlock
      BY <1>1, <2>3 DEF ScanInv, NoTouch
    <2>4. CASE row'[y] = r
      BY <1>8, <2>1, <2>2, <2>4
    <2>5. CASE row'[z] = r
      BY <1>8, <2>1, <2>2, <2>5
    <2> QED  BY <1>8, <2>3, <2>4, <2>5
  <1>12. Recorded' = Recorded \cup {r}
    <2>1. \A y \in Rows : row'[y] \in Recorded \cup {r, NoBlock}
      BY <1>8 DEF Recorded
    <2>2. \A y \in Rows : row[y] # NoBlock => row[y] \in Recorded'
      BY <1>9 DEF Recorded
    <2>3. r \in Recorded'
      BY <1>4, <1>5 DEF Recorded
    <2>4. Recorded' = {row'[y] : y \in Rows} \ {NoBlock}
      BY DEF Recorded
    <2> QED  BY <2>1, <2>2, <2>3, <2>4 DEF Recorded
  <1>13. ASSUME NEW y \in Rows, NEW k, NEW i
         PROVE  InPlace(k, i, y)' <=>
                    \/ k = "array" /\ i = r /\ (InPlace("results", 1, y) \/ InPlace("array", r, y))
                    \/ k = "results" /\ i \in Nat \ {0} /\ InPlace("results", i + 1, y)
                    \/ k # "results" /\ ~ (k = "array" /\ i = r) /\ InPlace(k, i, y)
    <2>1. CASE k = "results"
      <3>1. i \in 1 .. n - 1 <=> i \in Nat \ {0} /\ i + 1 \in 1 .. n
        BY <1>2
      <3>2. InPlace(k, i, y)' <=> i \in 1 .. n - 1 /\ y \in RowsOf(results'[i][1])
        BY <1>2, <2>1 DEF InPlace, RowsOf
      <3> QED  BY <1>2, <2>1, <3>1, <3>2 DEF InPlace
    <2>2. CASE k = "array"
      <3>1. InPlace(k, i, y)' <=> i \in Recorded' /\ y \in RowsOf(i)
        BY <2>2 DEF InPlace, RowsOf
      <3>2. InPlace(k, i, y) <=> i \in Recorded /\ y \in RowsOf(i)
        BY <2>2 DEF InPlace
      <3>3. ~ InPlace("array", r, y)
        BY <1>1 DEF InPlace
      <3> QED  BY <1>1, <1>12, <2>2, <3>1, <3>2, <3>3
    <2>3. CASE k # "results" /\ k # "array"
      BY <1>2, <1>3, <2>3 DEF InPlace
    <2> QED  BY <2>1, <2>2, <2>3
  <1>14. HeadMoves("results", "array", r, "array", r)
    <2>1. \A y \in Rows : ~ InPlace("array", r, y)
      BY <1>1 DEF InPlace
    <2>2. \A y \in Rows : \A i : InPlace("results", i, y) => i \in Nat \ {0}
      BY <1>2 DEF InPlace
    <2> QED  BY <1>13, <2>1, <2>2 DEF HeadMoves
  <1>15. Issued' /\ Single'
    BY <1>1, <1>2, <1>14, HeadMoved DEF ScanInv
  <1> QED  BY <1>1, <1>2, <1>3, <1>6, <1>7, <1>10, <1>11, <1>15 DEF ScanInv

(* A recorded neighbour b: it leaves the array and goes with the block r into
   the fuse task t. *)
LEMMA StepFuse ==
    ASSUME IInv, NEW r \in Blocks, completer = "results", UNCHANGED makerVars,
           GetResult(<< r >>), NEW b \in Recorded, NEW t \in FuseTasks,
           \A y : y \in Span(t) <=> y \in RowsOf(r) \/ y \in RowsOf(b),
           row' = Unlink(b), fuse' = t, completer' = "inject", UNCHANGED stop
    PROVE  IInv'
  <1> USE DEF IInv
  <1> DEFINE n == Len(results)
  <1>1. /\ ~ stop
        /\ results # << >> /\ results[1] = << r >>
        /\ \A y \in Rows : InPlace("results", 1, y) <=> y \in RowsOf(r)
    BY HeadResult
  <1>2. /\ results' \in Seq(Results \cup {Eof})
        /\ n \in Nat \ {0} /\ Len(results') = n - 1
        /\ \A i \in 1 .. n - 1 : results'[i] = results[i + 1] /\ i + 1 \in 1 .. n
        /\ InjectionInv'
        /\ UNCHANGED << regular_tasks, priority_tasks, worker, item, count, eofs >>
        /\ Working' = Working /\ active' = active
    BY TakeResultFacts DEF GetResult
  <1>3. /\ b \in Blocks /\ b # NoBlock
        /\ row[b.ymin] = b /\ row[b.ymax] = b
        /\ b.ymin \in Rows /\ b.ymax \in Rows
        /\ \A y \in Rows : row[y] = b => y = b.ymin \/ y = b.ymax
    BY <1>1, RecordedFacts, BlockFacts DEF ScanInv
  <1>4. /\ row \in [Rows -> Blocks \cup {NoBlock}]
        /\ row' \in [Rows -> Blocks \cup {NoBlock}]
        /\ row'[b.ymin] = NoBlock /\ row'[b.ymax] = NoBlock
        /\ \A y \in Rows \ {b.ymin, b.ymax} : row'[y] = row[y]
    BY <1>3 DEF Types, Unlink
  <1>5. Types'
    BY <1>2, <1>4 DEF Types
  <1>6. t # Eof
    BY Works
  <1>7. Scanning'
    BY <1>1, <1>2, <1>6 DEF ScanInv, Scanning
  <1>8. \A y \in Rows : row'[y] # NoBlock => row'[y] = row[y] /\ row[y] # b
    BY <1>3, <1>4
  <1>9. \A y \in Rows : row[y] # NoBlock /\ row[y] # b => row'[y] = row[y]
    BY <1>3, <1>4
  <1>10. Ends'
    <2> SUFFICES ASSUME NEW y \in Rows, row'[y] # NoBlock
                 PROVE  /\ y = row'[y].ymin \/ y = row'[y].ymax
                        /\ row'[row'[y].ymin] = row'[y] /\ row'[row'[y].ymax] = row'[y]
      BY DEF Ends
    <2>1. row'[y] = row[y] /\ row[y] # b /\ row[y] # NoBlock
      BY <1>8
    <2>2. /\ y = row[y].ymin \/ y = row[y].ymax
          /\ row[row[y].ymin] = row[y] /\ row[row[y].ymax] = row[y]
      BY <1>1, <2>1 DEF ScanInv, Ends
    <2>3. row[y].ymin \in Rows /\ row[y].ymax \in Rows
      BY <1>4, <2>1, BlockFacts
    <2> QED  BY <1>9, <2>1, <2>2, <2>3
  <1>11. NoTouch'
    BY <1>1, <1>8 DEF ScanInv, NoTouch
  <1>12. Recorded' = Recorded \ {b}
    <2>1. \A y \in Rows : row'[y] \in (Recorded \ {b}) \cup {NoBlock}
      BY <1>8 DEF Recorded
    <2>2. \A y \in Rows : row[y] # NoBlock /\ row[y] # b => row[y] \in Recorded'
      BY <1>9 DEF Recorded
    <2>3. Recorded' = {row'[y] : y \in Rows} \ {NoBlock}
      BY DEF Recorded
    <2> QED  BY <2>1, <2>2, <2>3 DEF Recorded
  <1>13. ASSUME NEW y \in Rows, NEW k, NEW i
         PROVE  InPlace(k, i, y)' <=>
                    \/ k = "inject" /\ i = 0 /\ (InPlace("results", 1, y) \/ InPlace("array", b, y))
                    \/ k = "results" /\ i \in Nat \ {0} /\ InPlace("results", i + 1, y)
                    \/ k # "results" /\ ~ (k = "array" /\ i = b) /\ InPlace(k, i, y)
    <2>1. CASE k = "results"
      <3>1. i \in 1 .. n - 1 <=> i \in Nat \ {0} /\ i + 1 \in 1 .. n
        BY <1>2
      <3>2. InPlace(k, i, y)' <=> i \in 1 .. n - 1 /\ y \in RowsOf(results'[i][1])
        BY <1>2, <2>1 DEF InPlace, RowsOf
      <3> QED  BY <1>2, <2>1, <3>1, <3>2 DEF InPlace
    <2>2. CASE k = "array"
      <3>1. InPlace(k, i, y)' <=> i \in Recorded' /\ y \in RowsOf(i)
        BY <2>2 DEF InPlace, RowsOf
      <3>2. InPlace(k, i, y) <=> i \in Recorded /\ y \in RowsOf(i)
        BY <2>2 DEF InPlace
      <3> QED  BY <1>12, <2>2, <3>1, <3>2
    <2>3. CASE k = "inject"
      <3>1. InPlace("array", b, y) <=> y \in RowsOf(b)
        BY DEF InPlace
      <3>2. InPlace(k, i, y)' <=> i = 0 /\ y \in Span(t)
        BY <2>3 DEF InPlace, Span
      <3>3. ~ InPlace(k, i, y)
        BY <2>3 DEF InPlace
      <3> QED  BY <1>1, <2>3, <3>1, <3>2, <3>3
    <2>4. CASE k # "results" /\ k # "array" /\ k # "inject"
      BY <1>2, <2>4 DEF InPlace
    <2> QED  BY <2>1, <2>2, <2>3, <2>4
  <1>14. HeadMoves("results", "inject", 0, "array", b)
    <2>1. \A y \in Rows : ~ InPlace("inject", 0, y)
      BY DEF InPlace
    <2>2. \A y \in Rows : \A i : InPlace("results", i, y) => i \in Nat \ {0}
      BY <1>2 DEF InPlace
    <2> QED  BY <1>13, <2>1, <2>2 DEF HeadMoves
  <1>15. Issued' /\ Single'
    BY <1>1, <1>2, <1>14, HeadMoved DEF ScanInv
  <1> QED  BY <1>1, <1>2, <1>5, <1>7, <1>10, <1>11, <1>15 DEF ScanInv

(* A block and its neighbour make a fuse task of the rows of both. *)
LEMMA Fused ==
    ASSUME NEW a \in Blocks, NEW b \in Blocks, a.ymax + 1 = b.ymin
    PROVE  /\ FuseTask(a, b) \in FuseTasks
           /\ \A y : y \in Span(FuseTask(a, b)) <=> y \in RowsOf(a) \/ y \in RowsOf(b)
  <1>1. FuseTask(a, b) \in FuseTasks
    BY DEF FuseTask, FuseTasks
  <1>2. Span(FuseTask(a, b)) = a.ymin .. b.ymax
    BY DEF FuseTask, Span, IsFuse
  <1>3. /\ a.ymin \in Int /\ a.ymax \in Int /\ a.ymin <= a.ymax
        /\ b.ymin \in Int /\ b.ymax \in Int /\ b.ymin <= b.ymax
    BY BlockFacts
  <1> QED  BY <1>1, <1>2, <1>3 DEF RowsOf

LEMMA Neighbours ==
    ASSUME IInv, NEW r \in Blocks, GetResult(<< r >>)
    PROVE  /\ Below(r) # NoBlock => Below(r) \in Recorded /\ Below(r).ymax + 1 = r.ymin
           /\ Above(r) # NoBlock => Above(r) \in Recorded /\ r.ymax + 1 = Above(r).ymin
  <1>1. /\ ~ stop /\ Types /\ Ends
        /\ \A y \in Rows : \A k, i : y \in RowsOf(r) /\ InPlace(k, i, y) => k = "results" /\ i = 1
    BY HeadResult DEF IInv, ScanInv
  <1>2. /\ r.ymin \in Rows /\ r.ymax \in Rows /\ r.ymin \in RowsOf(r) /\ r.ymax \in RowsOf(r)
        /\ Rows = 0 .. Height - 1 /\ Height \in Nat /\ maxrow = Height - 1
    BY BlockFacts
  <1>3. ASSUME NEW b \in Recorded
        PROVE  /\ b.ymin \in Rows /\ b.ymax \in Rows /\ b.ymin <= b.ymax
               /\ \A y \in Rows : row[y] = b => y = b.ymin \/ y = b.ymax
               /\ r.ymin \notin RowsOf(b) /\ r.ymax \notin RowsOf(b)
    <2>1. b \in Blocks /\ \A y \in Rows : row[y] = b => y = b.ymin \/ y = b.ymax
      BY <1>1, RecordedFacts
    <2>2. \A y \in RowsOf(b) : InPlace("array", b, y)
      BY DEF InPlace
    <2>3. r.ymin \notin RowsOf(b) /\ r.ymax \notin RowsOf(b)
      BY <1>1, <1>2, <2>2
    <2> QED  BY <2>1, <2>3, BlockFacts
  <1>4. ASSUME Below(r) # NoBlock PROVE Below(r) \in Recorded /\ Below(r).ymax + 1 = r.ymin
    <2>1. r.ymin > 0 /\ Below(r) = row[r.ymin - 1] /\ r.ymin - 1 \in Rows
      BY <1>2, <1>4 DEF Below
    <2>2. Below(r) \in Recorded
      BY <1>4, <2>1 DEF Recorded
    <2>3. PICK b \in Recorded : b = Below(r)
      BY <2>2
    <2>4. r.ymin - 1 = b.ymin \/ r.ymin - 1 = b.ymax
      BY <1>3, <2>1, <2>3
    <2>5. r.ymin \notin b.ymin .. b.ymax
      BY <1>3 DEF RowsOf
    <2>6. b.ymin \in Int /\ b.ymax \in Int /\ r.ymin \in Int /\ b.ymin <= b.ymax
      BY <1>2, <1>3
    <2>7. b.ymax + 1 = r.ymin
      BY <2>4, <2>5, <2>6
    <2> QED  BY <2>2, <2>3, <2>7
  <1>5. ASSUME Above(r) # NoBlock PROVE Above(r) \in Recorded /\ r.ymax + 1 = Above(r).ymin
    <2>1. r.ymax < maxrow /\ Above(r) = row[r.ymax + 1] /\ r.ymax + 1 \in Rows
      BY <1>2, <1>5 DEF Above
    <2>2. Above(r) \in Recorded
      BY <1>5, <2>1 DEF Recorded
    <2>3. PICK b \in Recorded : b = Above(r)
      BY <2>2
    <2>4. r.ymax + 1 = b.ymin \/ r.ymax + 1 = b.ymax
      BY <1>3, <2>1, <2>3
    <2>5. r.ymax \notin b.ymin .. b.ymax
      BY <1>3 DEF RowsOf
    <2>6. b.ymin \in Int /\ b.ymax \in Int /\ r.ymax \in Int /\ b.ymin <= b.ymax
      BY <1>2, <1>3
    <2>7. r.ymax + 1 = b.ymin
      BY <2>4, <2>5, <2>6
    <2> QED  BY <2>2, <2>3, <2>7
  <1> QED  BY <1>4, <1>5

(* The block of all rows: there is nothing else, anywhere. *)
LEMMA StepFinish ==
    ASSUME IInv, NEW r \in Blocks, completer = "results", UNCHANGED makerVars,
           GetResult(<< r >>), Finish(r)
    PROVE  IInv'
  <1> USE DEF IInv
  <1> DEFINE n == Len(results)
  <1>1. /\ ~ stop
        /\ \A y \in Rows : \A k, i : y \in RowsOf(r) /\ InPlace(k, i, y) => k = "results" /\ i = 1
        /\ \A y \in RowsOf(r) : row[y] = NoBlock
    BY HeadResult
  <1>2. /\ results \in Seq(Results \cup {Eof}) /\ results' \in Seq(Results \cup {Eof})
        /\ n \in Nat \ {0} /\ Len(results') = n - 1
        /\ \A i \in 1 .. n - 1 : results'[i] = results[i + 1] /\ i + 1 \in 1 .. n
        /\ InjectionInv'
        /\ UNCHANGED << regular_tasks, priority_tasks, worker, item, count, eofs >>
        /\ Working' = Working /\ Done' = Done /\ active' = active
    BY TakeResultFacts DEF GetResult
  <1>3. /\ Covers(r) /\ row' = [row EXCEPT ![0] = r] /\ stop' = TRUE /\ completer' = "notify"
        /\ fuse' = fuse
    BY DEF Finish
  <1>4. /\ Rows = 0 .. Height - 1 /\ 0 \in Rows /\ RowsOf(r) = Rows
    BY <1>3, BlockFacts DEF Covers, RowsOf
  <1>5. \A y \in Rows : \A k, i : InPlace(k, i, y) => k = "results" /\ i = 1
    BY <1>1, <1>4
  <1>6. \A y \in Rows : row[y] = NoBlock
    BY <1>1, <1>4
  <1>7. Types'
    BY <1>2, <1>3, <1>4 DEF Types
  <1>8. fuse = Eof /\ eofs = 0 /\ active = NumWorkers
    BY <1>1 DEF ScanInv, Scanning
  <1>9. count = 0
    <2>1. \E k, i : InPlace(k, i, 0)
      <3>1. n \in Nat \ {0} /\ results[1] = << r >> /\ 1 \in 1 .. n
        BY <1>2, HeadResult
      <3>2. InPlace("results", 1, 0)
        BY <1>4, HeadResult
      <3> QED  BY <3>2
    <2> QED  BY <1>1, <1>4, <2>1 DEF ScanInv, Issued, Types
  <1>10. regular_tasks = << >>
    <2> SUFFICES ASSUME regular_tasks # << >> PROVE FALSE
      OBVIOUS
    <2>1. 1 \in 1 .. Len(regular_tasks) /\ regular_tasks[1] \in RowTasks \cup {Eof}
      BY DEF Types
    <2>2. regular_tasks[1] \in RowTasks
      BY <1>1, <2>1 DEF ScanInv, Scanning
    <2>3. PICK y \in Rows : y \in Span(regular_tasks[1])
      BY <2>2, Works
    <2>4. InPlace("regular", 1, y)
      BY <2>1, <2>3 DEF InPlace
    <2> QED  BY <1>5, <2>4
  <1>11. priority_tasks = << >>
    <2> SUFFICES ASSUME priority_tasks # << >> PROVE FALSE
      OBVIOUS
    <2>1. 1 \in 1 .. Len(priority_tasks) /\ priority_tasks[1] \in FuseTasks
      BY DEF Types
    <2>2. PICK y \in Rows : y \in Span(priority_tasks[1])
      BY <2>1, Works
    <2>3. InPlace("priority", 1, y)
      BY <2>1, <2>2 DEF InPlace
    <2> QED  BY <1>5, <2>3
  <1>12. Working = {}
    <2> SUFFICES ASSUME NEW w \in Working PROVE FALSE
      OBVIOUS
    <2>1. item[w] \in RowTasks \cup FuseTasks
      BY <1>1 DEF ScanInv, Scanning, Types, Working
    <2>2. PICK y \in Rows : y \in Span(item[w])
      BY <2>1, Works
    <2>3. InPlace("work", w, y)
      BY <2>2 DEF InPlace
    <2> QED  BY <1>5, <2>3
  <1>13. n = 1 /\ results' = << >>
    <2>1. ASSUME n # 1 PROVE FALSE
      <3>1. 2 \in 1 .. n
        BY <1>2, <2>1
      <3>2. results[2] \in Results
        BY <1>1, <1>2, <3>1 DEF ScanInv, Scanning
      <3>3. PICK y \in Rows : y \in RowsOf(results[2][1])
        BY <3>2, ResultFacts, BlockFacts
      <3>4. InPlace("results", 2, y)
        BY <3>1, <3>3 DEF InPlace
      <3> QED  BY <1>5, <3>4
    <2> QED  BY <1>2, <2>1
  <1>14. Stopped'
    <2>1. NothingAfterStop'
      BY <1>2, <1>3, <1>8, <1>9, <1>10, <1>11, <1>12, <1>13 DEF NothingAfterStop
    <2>2. row'[0] = r /\ \A y \in Rows \ {0} : row'[y] = NoBlock
      BY <1>3, <1>4, <1>6 DEF Types
    <2>3. Done' = {} /\ EofTaken' = {} /\ Cardinality({}) = 0
      BY <1>1, <1>2, <1>12, FS_EmptySet DEF ScanInv, Scanning, Done, EofTaken
    <2>4. ended' = 0
      BY <1>2, <1>3, <1>8, WorkerCount DEF ended
    <2>5. Cardinality(EofTaken') = eofs' - Len(regular_tasks') /\ Cardinality(Done') = Len(results') + ended'
      BY <1>2, <1>8, <1>10, <1>13, <2>3, <2>4
    <2> QED  BY <1>3, <2>1, <2>2, <2>5 DEF Stopped, Covers
  <1> QED  BY <1>2, <1>3, <1>7, <1>14

(* A NULL result: after `stop`; the last one ends the batch. *)
LEMMA StepNullResult ==
    ASSUME IInv, completer = "results", UNCHANGED << makerVars, stop, row, fuse >>,
           \/ CountEof /\ UNCHANGED completer
           \/ LastEof /\ completer' = "release"
    PROVE  IInv'
  <1> USE DEF IInv
  <1> DEFINE n == Len(results)
  <1>0. TakeResult(Eof)
    BY DEF CountEof, LastEof
  <1>1. /\ results' \in Seq(Results \cup {Eof})
        /\ n \in Nat \ {0} /\ Len(results') = n - 1
        /\ \A i \in 1 .. n - 1 : results'[i] = results[i + 1] /\ i + 1 \in 1 .. n
        /\ Eof = results[1] /\ 1 \in 1 .. n
        /\ InjectionInv'
        /\ UNCHANGED << regular_tasks, priority_tasks, worker, item, count, eofs >>
        /\ Working' = Working /\ Done' = Done
    BY <1>0, TakeResultFacts
  <1>2. stop
    BY <1>1 DEF ScanInv, Scanning
  <1>3. active \in 1 .. NumWorkers /\ NumWorkers \in Nat \ {0}
    BY WorkerCount DEF Types
  <1>4. \/ active # 1 /\ active' = active - 1 /\ completer' = completer
        \/ active = 1 /\ active' = active /\ completer' = "release"
    BY DEF CountEof, LastEof
  <1>5. Types'
    <2>1. active' \in 1 .. NumWorkers
      BY <1>3, <1>4
    <2> QED  BY <1>1, <1>4, <2>1 DEF Types
  <1>6. ended' = ended + 1 /\ ended \in Nat
    <2>1. ended = NumWorkers - active /\ ended \in Nat
      BY <1>3 DEF ended
    <2>2. CASE active # 1 /\ active' = active - 1 /\ completer' = completer
      <3>1. ended' = NumWorkers - (active - 1)
        BY <2>2 DEF ended
      <3> HIDE DEF ended
      <3> QED  BY <1>3, <2>1, <3>1
    <2>3. CASE active = 1 /\ active' = active /\ completer' = "release"
      <3>1. ended' = NumWorkers
        BY <2>3 DEF ended
      <3> QED  BY <1>3, <2>1, <2>3, <3>1
    <2> QED  BY <1>4, <2>1, <2>2, <2>3
  <1>7. Stopped'
    <2>1. NothingAfterStop'
      BY <1>1, <1>2 DEF Stopped, NothingAfterStop
    <2>2. Cardinality(Done') = Len(results') + ended'
      BY <1>1, <1>2, <1>6 DEF Stopped
    <2>3. EofTaken' = EofTaken
      BY <1>1 DEF EofTaken
    <2> QED  BY <1>1, <1>2, <1>4, <2>1, <2>2, <2>3 DEF Stopped, Covers
  <1> QED  BY <1>1, <1>2, <1>5, <1>7

(* The completer notifies the maker, or releases the rings. *)
LEMMA StepAfterStop ==
    ASSUME IInv, Notify \/ Release
    PROVE  IInv'
  <1> USE DEF IInv
  <1>1. /\ UNCHANGED << regular_tasks, priority_tasks, results, active, worker, item,
                        count, eofs, stop, row, fuse >>
        /\ \/ completer = "notify" /\ completer' = "results"
           \/ completer = "release" /\ completer' = "returned"
    BY DEF Notify, Release, coordinatorVars, rings, workerVars, makerVars
  <1>2. stop
    BY <1>1 DEF ScanInv, Scanning
  <1>3. Types'
    BY <1>1 DEF Types
  <1>4. InjectionInv'
    BY <1>1, InjectionUnchanged
  <1>5. Stopped'
    <2>1. NothingAfterStop'
      BY <1>1, <1>2 DEF Stopped, NothingAfterStop, Working
    <2>2. EofTaken' = EofTaken /\ Done' = Done /\ ended' = ended
      BY <1>1 DEF EofTaken, Working, Done, ended
    <2> QED  BY <1>1, <1>2, <2>1, <2>2 DEF Stopped, Covers
  <1> QED  BY <1>1, <1>2, <1>3, <1>4, <1>5

LEMMA StepInv == IInv /\ [Next]_vars => IInv'
  <1> SUFFICES ASSUME IInv, [Next]_vars PROVE IInv'
    OBVIOUS
  <1>1. ASSUME UNCHANGED << coordinatorVars, count, eofs, completerVars >> PROVE IInv'
    <2>1. UNCHANGED << regular_tasks, priority_tasks, results, active, worker, item,
                       count, eofs, stop, row, completer, fuse >>
      BY <1>1 DEF coordinatorVars, rings, workerVars, completerVars
    <2>2. InjectionInv'
      BY <2>1, InjectionUnchanged DEF IInv
    <2>3. worker' \in [Workers -> {"priority", "regular", "work", "done"}]
      BY <2>1 DEF IInv, Types
    <2> QED  BY <2>1, <2>2, <2>3, StepNothing DEF rings
  <1>2. CASE UNCHANGED vars
    BY <1>1, <1>2 DEF vars, makerVars
  <1>3. CASE MakeRow
    BY <1>3, StepMakeRow
  <1>4. CASE WaitStop \/ SpuriousWake
    BY <1>1, <1>4 DEF WaitStop, SpuriousWake
  <1>5. CASE MakeEof
    BY <1>5, StepMakeEof
  <1>6. ASSUME NEW w \in Workers, Worker(w) PROVE IInv'
    <2>1. CASE Poll(w)
      BY <2>1, StepPollNothing, StepTakePriority, StepTakeRegular DEF Poll
    <2>2. CASE Work(w)
      BY <2>2, StepWork
    <2> QED  BY <1>6, <2>1, <2>2 DEF Worker
  <1>7. CASE Complete
    <2>0. completer = "results" /\ UNCHANGED makerVars
      BY <1>7 DEF Complete
    <2>1. ASSUME NEW r \in Blocks, GetResult(<< r >>), Integrate(r) PROVE IInv'
      <3>1. CASE Finish(r)
        BY <2>0, <2>1, <3>1, StepFinish
      <3>2. CASE FuseBelow(r)
        <4>1. PICK b \in Recorded : b = Below(r) /\ b.ymax + 1 = r.ymin
          BY <2>1, <3>2, Neighbours DEF FuseBelow
        <4>2. b \in Blocks
          BY <2>1, HeadResult, RecordedFacts DEF IInv, ScanInv
        <4>3. FuseTask(b, r) \in FuseTasks /\ \A y : y \in Span(FuseTask(b, r)) <=> y \in RowsOf(r) \/ y \in RowsOf(b)
          BY <4>1, <4>2, Fused
        <4>4. row' = Unlink(b) /\ fuse' = FuseTask(b, r) /\ completer' = "inject" /\ UNCHANGED stop
          BY <3>2, <4>1 DEF FuseBelow
        <4> QED  BY <2>0, <2>1, <4>3, <4>4, StepFuse
      <3>3. CASE FuseAbove(r)
        <4>1. PICK b \in Recorded : b = Above(r) /\ r.ymax + 1 = b.ymin
          BY <2>1, <3>3, Neighbours DEF FuseAbove
        <4>2. b \in Blocks
          BY <2>1, HeadResult, RecordedFacts DEF IInv, ScanInv
        <4>3. FuseTask(r, b) \in FuseTasks /\ \A y : y \in Span(FuseTask(r, b)) <=> y \in RowsOf(r) \/ y \in RowsOf(b)
          BY <4>1, <4>2, Fused
        <4>4. row' = Unlink(b) /\ fuse' = FuseTask(r, b) /\ completer' = "inject" /\ UNCHANGED stop
          BY <3>3, <4>1 DEF FuseAbove
        <4> QED  BY <2>0, <2>1, <4>3, <4>4, StepFuse
      <3>4. CASE Record(r)
        BY <2>0, <2>1, <3>4, StepRecord
      <3> QED  BY <2>1, <3>1, <3>2, <3>3, <3>4 DEF Integrate
    <2>2. CASE CountEof /\ UNCHANGED completerVars
      BY <2>0, <2>2, StepNullResult DEF completerVars
    <2>3. CASE LastEof /\ completer' = "release" /\ UNCHANGED << stop, row, fuse >>
      BY <2>0, <2>3, StepNullResult
    <2> QED  BY <1>7, <2>1, <2>2, <2>3 DEF Complete
  <1>8. CASE Notify \/ Release
    BY <1>8, StepAfterStop
  <1>9. CASE Inject
    BY <1>9, StepInject
  <1> QED
    BY <1>2, <1>3, <1>4, <1>5, <1>6, <1>7, <1>8, <1>9 DEF Next, Maker, Completer, Terminated

LEMMA SpecInv == Spec => []IInv
  BY InitInv, StepInv, PTL DEF Spec

-----------------------------------------------------------------------------
(* `stop` comes when nothing is under way: after it only NULL tasks and NULL
   results move. *)
THEOREM StopIsLast == Spec => []NothingAfterStop
  <1>1. IInv => NothingAfterStop
    BY DEF IInv, Stopped, NothingAfterStop
  <1> QED  BY <1>1, SpecInv, PTL

(* When the completer releases the rings they are empty, no thread will use
   them again, and the block of the whole image is in the array. *)
LEMMA InvQuiet == IInv => QuietAtRelease
  <1> SUFFICES ASSUME IInv, completer \in {"release", "returned"}
               PROVE  eofs = NumWorkers /\ CoordinatorQuiet /\ Covers(row[0])
    BY DEF QuietAtRelease
  <1>1. stop /\ Stopped /\ Types
    BY DEF IInv, ScanInv, Scanning
  <1>2. Done \in SUBSET Workers /\ EofTaken \in SUBSET Workers
    BY DEF Done, EofTaken, Working
  <1>3. Cardinality(Done) = Len(results) + NumWorkers
    BY <1>1 DEF Stopped, ended
  <1>4. Len(results) \in Nat /\ Len(regular_tasks) \in Nat /\ NumWorkers \in Nat /\ eofs \in 0 .. NumWorkers
    BY <1>1, WorkerCount DEF Types
  <1>5. Len(results) = 0 /\ Done = Workers
    BY <1>2, <1>3, <1>4, Subsets
  <1>6. EofTaken = Workers
    BY <1>2, <1>5 DEF EofTaken
  <1>7. NumWorkers = eofs - Len(regular_tasks)
    BY <1>1, <1>6 DEF Stopped, NumWorkers
  <1>8. eofs = NumWorkers /\ Len(regular_tasks) = 0
    BY <1>4, <1>7
  <1>9. results = << >> /\ regular_tasks = << >> /\ priority_tasks = << >>
    BY <1>1, <1>5, <1>8 DEF Types, Stopped, NothingAfterStop
  <1>10. \A w \in Workers : worker[w] = "done"
    BY <1>5 DEF Done
  <1> QED  BY <1>1, <1>8, <1>9, <1>10 DEF CoordinatorQuiet, rings, Stopped

THEOREM ReleaseIsQuiet == Spec => []QuietAtRelease
  BY SpecInv, InvQuiet, PTL

(* A recorded block is known by its ends and by nothing between, and no two
   recorded blocks touch. *)
THEOREM ArrayHolds == Spec => []ArrayConsistent
  <1>1. IInv => ArrayConsistent
    <2> SUFFICES ASSUME IInv, ~ stop
                 PROVE  /\ \A y \in Rows : row[y] # NoBlock =>
                               /\ y \in {row[y].ymin, row[y].ymax}
                               /\ row[row[y].ymin] = row[y] /\ row[row[y].ymax] = row[y]
                        /\ \A a \in Recorded, b \in Recorded : a.ymax + 1 # b.ymin
      BY DEF ArrayConsistent
    <2>1. Ends /\ NoTouch
      BY DEF IInv, ScanInv
    <2>2. \A y \in Rows : row[y] # NoBlock =>
              /\ y \in {row[y].ymin, row[y].ymax}
              /\ row[row[y].ymin] = row[y] /\ row[row[y].ymax] = row[y]
      BY <2>1 DEF Ends
    <2>3. \A a \in Recorded, b \in Recorded : a.ymax + 1 # b.ymin
      BY <2>1 DEF NoTouch, Recorded
    <2> QED  BY <2>2, <2>3
  <1> QED  BY <1>1, SpecInv, PTL

(* While the priority ring holds a task there are never more entries under way
   than a completer that waits for space leaves room for. *)
THEOREM InjectionsFit == Spec => []InjectionBounded
  <1>1. IInv => InjectionBounded
    <2> SUFFICES ASSUME IInv, priority_tasks # << >>
                 PROVE  UnderWay <= 2 * NumWorkers + 1
      BY DEF InjectionBounded
    <2>1. IsFiniteSet(Busy) /\ Working \in SUBSET Busy
      BY BusyCount DEF IInv, Busy, Working
    <2>2. /\ Cardinality(Working) <= Cardinality(Busy)
          /\ Cardinality(Working) \in Nat /\ Cardinality(Busy) \in Nat
      BY <2>1, FS_Subset, FS_CardinalityType
    <2> QED  BY <2>2, BusyCount DEF IInv, InjectionInv, UnderWay
  <1> QED  BY <1>1, SpecInv, PTL

(* Where a block is, there are its rows. *)
TaskAt(k, i) == IF k = "priority" THEN priority_tasks[i] ELSE IF k = "work" THEN item[i] ELSE fuse

LEMMA FuseRows ==
    ASSUME NEW t \in FuseTasks
    PROVE  /\ t[1] \in Blocks /\ t[2] \in Blocks /\ BlocksOf(t) = {t[1], t[2]} /\ RowsOfTask(t) = {}
           /\ \A y : y \in Span(t) <=> y \in RowsOf(t[1]) \/ y \in RowsOf(t[2])
           /\ \A y : ~ (y \in RowsOf(t[1]) /\ y \in RowsOf(t[2]))
  <1>1. PICK a \in Blocks, b \in Blocks : t = << a, b >> /\ a.ymax + 1 = b.ymin
    BY DEF FuseTasks
  <1>2. t[1] = a /\ t[2] = b /\ IsFuse(t)
    BY <1>1 DEF IsFuse
  <1>3. \A y : y \in Span(t) <=> y \in RowsOf(t[1]) \/ y \in RowsOf(t[2])
    BY <1>1, <1>2, Fused DEF FuseTask
  <1>4. \A y : ~ (y \in RowsOf(a) /\ y \in RowsOf(b))
    BY <1>1, BlockFacts DEF RowsOf, Rows
  <1> QED  BY <1>2, <1>3, <1>4 DEF BlocksOf, RowsOfTask

LEMMA OtherTasks ==
    /\ BlocksOf(Eof) = {} /\ RowsOfTask(Eof) = {}
    /\ \A t \in RowTasks : BlocksOf(t) = {} /\ RowsOfTask(t) = Span(t)
  <1>1. ASSUME NEW t \in RowTasks PROVE ~ IsFuse(t) /\ t # Eof
    <2>1. PICK y \in Rows : t = << y >>
      BY DEF RowTasks, RowTask
    <2> QED  BY <2>1, Works DEF IsFuse
  <1> QED  BY <1>1, FuseAssumption DEF BlocksOf, RowsOfTask, Span

LEMMA HeldPlaces ==
    ASSUME IInv, ~ stop, NEW b \in Held
    PROVE  \E k \in {"priority", "work", "inject"} : \E i :
               /\ TaskAt(k, i) \in FuseTasks /\ b \in {TaskAt(k, i)[1], TaskAt(k, i)[2]}
               /\ \A y : InPlace(k, i, y) <=> y \in Span(TaskAt(k, i))
  <1> USE DEF IInv
  <1>1. PICK t \in InRing(priority_tasks) \cup {item[w] : w \in Working} \cup {fuse} : b \in BlocksOf(t)
    BY DEF Held
  <1>2. CASE t \in InRing(priority_tasks)
    <2>1. PICK i \in 1 .. Len(priority_tasks) : t = priority_tasks[i]
      BY <1>2 DEF InRing
    <2>2. t \in FuseTasks /\ t = TaskAt("priority", i)
      BY <2>1 DEF Types, TaskAt
    <2>3. \A y : InPlace("priority", i, y) <=> y \in Span(t)
      BY <2>1 DEF InPlace
    <2> QED  BY <1>1, <2>2, <2>3, FuseRows
  <1>3. CASE \E w \in Working : t = item[w]
    <2>1. PICK w \in Working : t = item[w]
      BY <1>3
    <2>2. t \in FuseTasks /\ t = TaskAt("work", w)
      BY <1>1, <2>1, OtherTasks DEF Types, TaskAt, Working
    <2>3. \A y : InPlace("work", w, y) <=> y \in Span(t)
      BY <2>1 DEF InPlace
    <2> QED  BY <1>1, <2>2, <2>3, FuseRows
  <1>4. CASE t = fuse
    <2>1. t \in FuseTasks /\ t = TaskAt("inject", 0) /\ completer = "inject"
      BY <1>1, <1>4, OtherTasks DEF Types, TaskAt, ScanInv, Scanning
    <2>2. \A y : InPlace("inject", 0, y) <=> y \in Span(t)
      BY <1>4, <2>1 DEF InPlace
    <2> QED  BY <1>1, <2>1, <2>2, FuseRows
  <1> QED  BY <1>1, <1>2, <1>3, <1>4

LEMMA DeliveredPlaces ==
    ASSUME IInv, ~ stop, NEW b \in Delivered
    PROVE  \E i : b = results[i][1] /\ b \in Blocks /\ \A y : InPlace("results", i, y) <=> y \in RowsOf(b)
  <1>1. PICK i \in 1 .. Len(results) : results[i] # Eof /\ b = results[i][1]
    BY DEF Delivered, InRing
  <1>2. results[i] \in Results
    BY <1>1 DEF IInv, Types
  <1> QED  BY <1>1, <1>2, ResultFacts DEF InPlace

LEMMA RecordedPlaces ==
    ASSUME IInv, ~ stop, NEW b \in Recorded
    PROVE  b \in Blocks /\ \A y : InPlace("array", b, y) <=> y \in RowsOf(b)
  BY RecordedFacts DEF IInv, ScanInv, InPlace

LEMMA ScanPlaces ==
    ASSUME IInv, ~ stop, NEW y \in InScan
    PROVE  \E i : InPlace("regular", i, y) \/ (InPlace("work", i, y) /\ TaskAt("work", i) \notin FuseTasks)
  <1>1. PICK t \in InRing(regular_tasks) \cup {item[w] : w \in Working} : y \in RowsOfTask(t)
    BY DEF InScan
  <1>2. t # Eof /\ t \notin FuseTasks
    BY <1>1, OtherTasks, FuseRows
  <1>3. CASE t \in InRing(regular_tasks)
    <2>1. PICK i \in 1 .. Len(regular_tasks) : t = regular_tasks[i]
      BY <1>3 DEF InRing
    <2>2. t \in RowTasks
      BY <1>2, <2>1 DEF IInv, Types
    <2> QED  BY <1>1, <2>1, <2>2, OtherTasks DEF InPlace
  <1>4. CASE \E w \in Working : t = item[w]
    <2>1. PICK w \in Working : t = item[w]
      BY <1>4
    <2>2. t \in RowTasks
      BY <1>2, <2>1 DEF IInv, Types, Working
    <2> QED  BY <1>1, <1>2, <2>1, <2>2, OtherTasks DEF InPlace, TaskAt
  <1> QED  BY <1>1, <1>3, <1>4

(* ... and where a row is, there is its row task or a block with it. *)
LEMMA PlacesCovered ==
    ASSUME IInv, ~ stop, NEW y \in Rows, NEW k, NEW i, InPlace(k, i, y)
    PROVE  y \in InScan \/ \E b \in Held \cup Delivered \cup Recorded : y \in RowsOf(b)
  <1> USE DEF IInv
  <1>1. ASSUME NEW t \in FuseTasks, y \in Span(t),
               t \in InRing(priority_tasks) \cup {item[w] : w \in Working} \cup {fuse}
        PROVE  \E b \in Held : y \in RowsOf(b)
    <2>1. BlocksOf(t) \in SUBSET Held
      BY <1>1 DEF Held
    <2> QED  BY <1>1, <2>1, FuseRows
  <1>2. CASE k = "regular"
    <2>1. i \in 1 .. Len(regular_tasks) /\ y \in Span(regular_tasks[i])
      BY <1>2 DEF InPlace
    <2>2. regular_tasks[i] \in RowTasks
      BY <2>1 DEF Types, ScanInv, Scanning
    <2> QED  BY <2>1, <2>2, OtherTasks DEF InScan, InRing
  <1>3. CASE k = "priority"
    BY <1>1, <1>3 DEF InPlace, Types, InRing
  <1>4. CASE k = "work"
    <2>1. i \in Working /\ y \in Span(item[i])
      BY <1>4 DEF InPlace
    <2>2. item[i] \in RowTasks \cup FuseTasks
      BY <2>1 DEF Types, ScanInv, Scanning, Working
    <2> QED  BY <1>1, <2>1, <2>2, OtherTasks DEF InScan
  <1>5. CASE k = "inject"
    BY <1>1, <1>5 DEF InPlace, Types, ScanInv, Scanning
  <1>6. CASE k = "results"
    <2>1. i \in 1 .. Len(results) /\ y \in RowsOf(results[i][1]) /\ results[i] # Eof
      BY <1>6 DEF InPlace, ScanInv, Scanning
    <2> QED  BY <2>1 DEF Delivered, InRing
  <1>7. CASE k = "array"
    BY <1>7 DEF InPlace
  <1> QED  BY <1>2, <1>3, <1>4, <1>5, <1>6, <1>7 DEF InPlace

LEMMA ScanOnce ==
    ASSUME IInv, ~ stop
    PROVE  EveryRowOnce
  <1> DEFINE existing == Held \cup Delivered \cup Recorded
             in(y) == {b \in existing : y \in RowsOf(b)}
  <1>1. \A y \in Rows : \A k, i, l, j : InPlace(k, i, y) /\ InPlace(l, j, y) => k = l /\ i = j
    BY DEF IInv, ScanInv, Single
  <1>2. ASSUME NEW b \in Held, NEW c \in Held, NEW y \in Rows, y \in RowsOf(b), y \in RowsOf(c)
        PROVE  b = c
    <2>1. PICK k \in {"priority", "work", "inject"} : \E i :
               /\ TaskAt(k, i) \in FuseTasks /\ b \in {TaskAt(k, i)[1], TaskAt(k, i)[2]}
               /\ \A z : InPlace(k, i, z) <=> z \in Span(TaskAt(k, i))
      BY HeldPlaces
    <2>2. PICK i : /\ TaskAt(k, i) \in FuseTasks /\ b \in {TaskAt(k, i)[1], TaskAt(k, i)[2]}
                   /\ \A z : InPlace(k, i, z) <=> z \in Span(TaskAt(k, i))
      BY <2>1
    <2>3. PICK l \in {"priority", "work", "inject"} : \E j :
               /\ TaskAt(l, j) \in FuseTasks /\ c \in {TaskAt(l, j)[1], TaskAt(l, j)[2]}
               /\ \A z : InPlace(l, j, z) <=> z \in Span(TaskAt(l, j))
      BY HeldPlaces
    <2>4. PICK j : /\ TaskAt(l, j) \in FuseTasks /\ c \in {TaskAt(l, j)[1], TaskAt(l, j)[2]}
                   /\ \A z : InPlace(l, j, z) <=> z \in Span(TaskAt(l, j))
      BY <2>3
    <2>5. InPlace(k, i, y) /\ InPlace(l, j, y)
      BY <1>2, <2>2, <2>4, FuseRows
    <2>6. TaskAt(k, i) = TaskAt(l, j)
      BY <1>1, <2>5
    <2> QED  BY <1>2, <2>2, <2>4, <2>6, FuseRows
  <1>3. ASSUME NEW b \in Held PROVE b \in Blocks /\ \A y \in RowsOf(b) :
            \E k \in {"priority", "work", "inject"} : \E i : InPlace(k, i, y) /\ TaskAt(k, i) \in FuseTasks
    <2>1. PICK k \in {"priority", "work", "inject"} : \E i :
               /\ TaskAt(k, i) \in FuseTasks /\ b \in {TaskAt(k, i)[1], TaskAt(k, i)[2]}
               /\ \A z : InPlace(k, i, z) <=> z \in Span(TaskAt(k, i))
      BY HeldPlaces
    <2>2. PICK i : /\ TaskAt(k, i) \in FuseTasks /\ b \in {TaskAt(k, i)[1], TaskAt(k, i)[2]}
                   /\ \A z : InPlace(k, i, z) <=> z \in Span(TaskAt(k, i))
      BY <2>1
    <2>3. b \in Blocks /\ \A y \in RowsOf(b) : InPlace(k, i, y)
      BY <2>2, FuseRows
    <2> QED  BY <2>2, <2>3
  <1>4. ASSUME NEW b \in Delivered, NEW c \in Delivered, NEW y \in Rows, y \in RowsOf(b), y \in RowsOf(c)
        PROVE  b = c
    BY <1>1, <1>4, DeliveredPlaces
  <1>5. ASSUME NEW b \in Recorded, NEW c \in Recorded, NEW y \in Rows, y \in RowsOf(b), y \in RowsOf(c)
        PROVE  b = c
    BY <1>1, <1>5, RecordedPlaces
  <1>6. ASSUME NEW y \in Rows
        PROVE  /\ \A b \in Held, c \in Delivered : ~ (y \in RowsOf(b) /\ y \in RowsOf(c))
               /\ \A b \in Held, c \in Recorded : ~ (y \in RowsOf(b) /\ y \in RowsOf(c))
               /\ \A b \in Delivered, c \in Recorded : ~ (y \in RowsOf(b) /\ y \in RowsOf(c))
    <2>1. ASSUME NEW b \in Held, y \in RowsOf(b)
          PROVE  \E k \in {"priority", "work", "inject"} : \E i : InPlace(k, i, y)
      BY <1>3, <2>1
    <2>2. ASSUME NEW b \in Delivered, y \in RowsOf(b) PROVE \E i : InPlace("results", i, y)
      BY <2>2, DeliveredPlaces
    <2>3. ASSUME NEW b \in Recorded, y \in RowsOf(b) PROVE InPlace("array", b, y)
      BY <2>3, RecordedPlaces
    <2> QED  BY <1>1, <2>1, <2>2, <2>3
  <1>7. \A b \in existing : b \in Blocks
    BY <1>3, DeliveredPlaces, RecordedPlaces
  <1>8. Held \cap Delivered = {} /\ Held \cap Recorded = {} /\ Delivered \cap Recorded = {}
    <2>1. \A b \in existing : b.ymin \in Rows /\ b.ymin \in RowsOf(b)
      BY <1>7, BlockFacts
    <2> QED  BY <1>6, <2>1
  <1>9. ASSUME NEW y \in Rows, NEW b \in in(y), NEW c \in in(y) PROVE b = c
    BY <1>2, <1>4, <1>5, <1>6, <1>9
  <1>10. ASSUME NEW y \in Rows, NEW b \in existing, y \in RowsOf(b)
         PROVE  \E k, i : InPlace(k, i, y) /\ k # "regular" /\ (k = "work" => TaskAt(k, i) \in FuseTasks)
    <2>1. CASE b \in Held
      BY <1>3, <1>10, <2>1
    <2>2. CASE b \in Delivered
      BY <1>10, <2>2, DeliveredPlaces
    <2>3. CASE b \in Recorded
      BY <1>10, <2>3, RecordedPlaces
    <2> QED  BY <2>1, <2>2, <2>3
  <1>11. ASSUME NEW y \in Rows, y < count \/ y \in InScan PROVE in(y) = {}
    <2> SUFFICES ASSUME NEW b \in existing, y \in RowsOf(b) PROVE FALSE
      OBVIOUS
    <2>1. PICK k, i : InPlace(k, i, y) /\ k # "regular" /\ (k = "work" => TaskAt(k, i) \in FuseTasks)
      BY <1>10
    <2>2. y >= count
      BY <2>1 DEF IInv, ScanInv, Issued
    <2>3. count \in Int /\ y \in Int
      BY BlockFacts DEF IInv, Types
    <2>4. y \in InScan
      BY <1>11, <2>2, <2>3
    <2> QED  BY <1>1, <2>1, <2>4, ScanPlaces
  <1>12. ASSUME NEW y \in Rows, ~ (y < count \/ y \in InScan) PROVE Cardinality(in(y)) = 1
    <2>1. count \in Int /\ y \in Int
      BY BlockFacts DEF IInv, Types
    <2>2. \E k, i : InPlace(k, i, y)
      BY <1>12, <2>1 DEF IInv, ScanInv, Issued
    <2>3. PICK b \in existing : y \in RowsOf(b)
      BY <1>12, <2>2, PlacesCovered
    <2>4. in(y) = {b}
      BY <1>9, <2>3
    <2> HIDE DEF in
    <2> QED  BY <2>4, FS_Singleton
  <1>13. \A y \in Rows : IF y < count \/ y \in InScan THEN in(y) = {} ELSE Cardinality(in(y)) = 1
    BY <1>11, <1>12
  <1> QED  BY <1>8, <1>13 DEF EveryRowOnce

LEMMA StopOnce ==
    ASSUME IInv, stop
    PROVE  EveryRowOnce
  <1> DEFINE existing == Held \cup Delivered \cup Recorded
             in(y) == {b \in existing : y \in RowsOf(b)}
  <1>1. Stopped /\ NothingAfterStop /\ Types
    BY DEF IInv, Stopped
  <1>2. Held = {}
    <2>1. \A t \in InRing(priority_tasks) \cup {item[w] : w \in Working} \cup {fuse} : t = Eof
      BY <1>1 DEF NothingAfterStop, InRing
    <2> QED  BY <2>1, OtherTasks DEF Held
  <1>3. Delivered = {}
    BY <1>1 DEF NothingAfterStop, Delivered, InRing
  <1>4. InScan = {}
    <2>1. \A t \in InRing(regular_tasks) \cup {item[w] : w \in Working} : t = Eof
      BY <1>1 DEF NothingAfterStop, InRing
    <2> QED  BY <2>1, OtherTasks DEF InScan
  <1>5. 0 \in Rows /\ row[0] # NoBlock
    BY <1>1, BlockFacts DEF Stopped
  <1>6. Recorded = {row[0]}
    BY <1>1, <1>5 DEF Recorded, Stopped
  <1>7. RowsOf(row[0]) = Rows /\ count = 0
    BY <1>1, BlockFacts DEF Stopped, Covers, RowsOf, NothingAfterStop
  <1>8. ASSUME NEW y \in Rows PROVE Cardinality(in(y)) = 1 /\ ~ y < count
    <2>1. in(y) = {row[0]}
      BY <1>2, <1>3, <1>6, <1>7
    <2>2. ~ y < count
      BY <1>7, BlockFacts
    <2> HIDE DEF in
    <2> QED  BY <2>1, <2>2, FS_Singleton
  <1> QED  BY <1>2, <1>3, <1>4, <1>8 DEF EveryRowOnce

(* No row of the image is lost or counted twice. *)
THEOREM RowsOnce == Spec => []EveryRowOnce
  <1>1. IInv => EveryRowOnce
    BY ScanOnce, StopOnce DEF IInv, Types
  <1> QED  BY <1>1, SpecInv, PTL
=============================================================================
