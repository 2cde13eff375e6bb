------------------------------ MODULE FuseBatch ------------------------------
(***************************************************************************)
(* The batch processors that build their result by fusing neighbouring     *)
(* parts: connected components (op/cconn.c) and column profiles            *)
(* (op/cprofile.c), which share the control modelled here.                 *)
(*                                                                         *)
(* The maker issues one task per image row, last row first, and then waits *)
(* for `stop`.  A worker makes a one-row block of a row task, and one      *)
(* block of a fuse task's two.  The completer keeps finished blocks in the *)
(* adjacency array `row`, at their first and last row; a block that finds  *)
(* a neighbour there goes with it into a fuse task, which the completer    *)
(* injects as a priority task.  The block of all rows sets `stop`.  Of a   *)
(* block only the rows it covers matter here.                              *)
(***************************************************************************)
EXTENDS UnorderedCoordinator

CONSTANT Height         \* aktive_image_get_height (src), at least 1

Rows   == 0 .. Height - 1
maxrow == Height - 1

Blocks == { b \in [ymin : Rows, ymax : Rows] : b.ymin <= b.ymax }
NoBlock == [ymin |-> Height, ymax |-> Height]

RowTask(y)     == << y >>
FuseTask(a, b) == << a, b >>

(* cc_worker, cprofile_worker: the block a task yields.  Fusing keeps block a,
   extended to the last row of block b, and frees b. *)
IsFuse(t) == Len(t) = 2
WorkOn(t) == IF t = Eof THEN Eof
             ELSE IF IsFuse(t) THEN << [ymin |-> t[1].ymin, ymax |-> t[2].ymax] >>
             ELSE << [ymin |-> t[1], ymax |-> t[1]] >>

(* An image has a row, and NULL is no task of a row, no fuse task, no block. *)
ASSUME FuseAssumption ==
    /\ Height \in Nat \ {0}
    /\ ~ IsFuse(Eof)
    /\ \A y \in Rows : Eof # RowTask(y)
    /\ \A b \in Blocks : Eof # << b >>

VARIABLES count,        \* controller: rows still to issue
          stop,         \* controller: eof flag
          asleep,       \* the maker waits on the condition `eof`
          row,          \* controller: the adjacency array
          eofs,         \* NULL tasks sent by gen_complete
          completer,    \* where the completer is
          fuse          \* its local variable: the task to inject

makerVars     == << count, asleep, eofs >>
completerVars == << stop, row, completer, fuse >>
vars == << coordinatorVars, makerVars, completerVars >>

(* aktive_cc_find, aktive_cprofile_find *)
Init == /\ InitCoordinator
        /\ count = Height
        /\ stop = FALSE
        /\ asleep = FALSE
        /\ row = [y \in Rows |-> NoBlock]
        /\ eofs = 0
        /\ completer = "results"
        /\ fuse = Eof

-----------------------------------------------------------------------------
(* A faulty form of MakeEof: the NULL tasks are sent behind the last row. *)
MakeEofEarly == /\ count = 0
                /\ ~ asleep
                /\ eofs < NumWorkers
                /\ GenRegular(Eof)
                /\ eofs' = eofs + 1
                /\ UNCHANGED << count, asleep, completerVars >>

(* cc_maker, cprofile_maker: the next row, from the last to the first *)
MakeRow == /\ count > 0
           /\ GenRegular(RowTask(count - 1))
           /\ count' = count - 1
           /\ UNCHANGED << asleep, eofs, completerVars >>

(* while (!stop) Tcl_ConditionWait (eof) *)
WaitStop == /\ count = 0
            /\ ~ stop
            /\ ~ asleep
            /\ asleep' = TRUE
            /\ UNCHANGED << coordinatorVars, count, eofs, completerVars >>

(* The maker has seen `stop` and returned NULL: the loop of gen_complete. *)
MakeEof == /\ count = 0
           /\ stop
           /\ ~ asleep
           /\ eofs < NumWorkers
           /\ GenRegular(Eof)
           /\ eofs' = eofs + 1
           /\ UNCHANGED << count, asleep, completerVars >>

Maker == MakeRow \/ WaitStop \/ MakeEof

(* A condition wait may return although nobody notified it. *)
SpuriousWake == /\ asleep
                /\ asleep' = FALSE
                /\ UNCHANGED << coordinatorVars, count, eofs, completerVars >>

-----------------------------------------------------------------------------
Work(w) == /\ SetResult(w, WorkOn(item[w]))
           /\ UNCHANGED << makerVars, completerVars >>

Poll(w) == /\ PollPriority(w) \/ PollRegular(w)
           /\ UNCHANGED << makerVars, completerVars >>

Worker(w) == Poll(w) \/ Work(w)

-----------------------------------------------------------------------------
(* cc_completer, cprofile_completer: the four things it does with a block r. *)

(* A faulty form of Covers: the block of the last row ends the work. *)
CoversEnd(r) == r.ymax = maxrow

Covers(r) == r.ymin = 0 /\ r.ymax = maxrow

Below(r) == IF r.ymin > 0 THEN row[r.ymin - 1] ELSE NoBlock
Above(r) == IF r.ymax < maxrow THEN row[r.ymax + 1] ELSE NoBlock

(* The whole image: remember it, set `stop` under the lock. *)
Finish(r) == /\ Covers(r)
             /\ row' = [row EXCEPT ![0] = r]
             /\ stop' = TRUE
             /\ completer' = "notify"
             /\ UNCHANGED fuse

(* A faulty form of Unlink: one end stays in the array. *)
UnlinkFirst(x) == [row EXCEPT ![x.ymin] = NoBlock]

Unlink(x) == [row EXCEPT ![x.ymin] = NoBlock, ![x.ymax] = NoBlock]

(* A recorded neighbour before it: fuse both. *)
FuseBelow(r) == /\ ~ Covers(r)
                /\ Below(r) # NoBlock
                /\ row' = Unlink(Below(r))
                /\ fuse' = FuseTask(Below(r), r)
                /\ completer' = "inject"
                /\ UNCHANGED stop

(* A faulty form of FuseAbove: the neighbour stays in the array. *)
FuseAboveKeeps(r) == /\ ~ Covers(r)
                     /\ Below(r) = NoBlock /\ Above(r) # NoBlock
                     /\ fuse' = FuseTask(r, Above(r))
                     /\ completer' = "inject"
                     /\ UNCHANGED << stop, row >>

(* Otherwise a recorded neighbour after it: fuse both. *)
FuseAbove(r) == /\ ~ Covers(r)
                /\ Below(r) = NoBlock /\ Above(r) # NoBlock
                /\ row' = Unlink(Above(r))
                /\ fuse' = FuseTask(r, Above(r))
                /\ completer' = "inject"
                /\ UNCHANGED stop

(* No neighbour yet: record it for results to come. *)
Record(r) == /\ ~ Covers(r)
             /\ Below(r) = NoBlock /\ Above(r) = NoBlock
             /\ row' = [row EXCEPT ![r.ymin] = r, ![r.ymax] = r]
             /\ UNCHANGED << stop, completer, fuse >>

Integrate(r) == Finish(r) \/ FuseBelow(r) \/ FuseAbove(r) \/ Record(r)

Complete == /\ completer = "results"
            /\ \/ \E r \in Blocks : GetResult(<< r >>) /\ Integrate(r)
               \/ /\ CountEof
                  /\ UNCHANGED completerVars
               \/ /\ LastEof
                  /\ completer' = "release"
                  /\ UNCHANGED << stop, row, fuse >>
            /\ UNCHANGED makerVars

(* Tcl_ConditionNotify (eof), after the unlock *)
Notify == /\ completer = "notify"
          /\ asleep' = FALSE
          /\ completer' = "results"
          /\ UNCHANGED << coordinatorVars, count, eofs, stop, row, fuse >>

(* aktive_batch_inject: the completer itself waits for space. *)
Inject == /\ completer = "inject"
          /\ GenPriority(fuse)
          /\ fuse' = Eof
          /\ completer' = "results"
          /\ UNCHANGED << makerVars, stop, row >>

(* aktive_coordinator_release *)
Release == /\ completer = "release"
           /\ completer' = "returned"
           /\ UNCHANGED << coordinatorVars, makerVars, stop, row, fuse >>

Completer == Complete \/ Notify \/ Inject \/ Release

Ended == completer = "returned" /\ eofs = NumWorkers /\ CoordinatorQuiet

(* All threads have ended. *)
Terminated == Ended /\ UNCHANGED vars

Next == Maker \/ SpuriousWake \/ (\E w \in Workers : Worker(w)) \/ Completer \/ Terminated

Spec == Init /\ [][Next]_vars

(* Every thread that can run does; a polling worker always can. *)
Fairness == /\ WF_vars(Maker)
            /\ \A w \in Workers : WF_vars(Worker(w))
            /\ WF_vars(Completer)

FairSpec == Spec /\ Fairness

-----------------------------------------------------------------------------
(* The blocks in existence, wherever they are: each worker's, those in the
   rings and the array, and the one in the completer's hands. *)
BlocksOf(t) == IF IsFuse(t) THEN {t[1], t[2]} ELSE {}
InRing(ring) == {ring[i] : i \in 1 .. Len(ring)}
Working == {w \in Workers : worker[w] = "work"}

Held == UNION {BlocksOf(t) : t \in InRing(priority_tasks) \cup {item[w] : w \in Working} \cup {fuse}}
Delivered == {r[1] : r \in InRing(results) \ {Eof}}
Recorded == {row[y] : y \in Rows} \ {NoBlock}

RowsOf(b) == b.ymin .. b.ymax
RowsOfTask(t) == IF t # Eof /\ ~ IsFuse(t) THEN {t[1]} ELSE {}
InScan == UNION {RowsOfTask(t) : t \in InRing(regular_tasks) \cup {item[w] : w \in Working}}

(* No row of the image is lost or counted twice: at any time each is still to
   be issued, in a row task, or in exactly one block, and a block is in one
   place only. *)
EveryRowOnce ==
    /\ Held \cap Delivered = {} /\ Held \cap Recorded = {} /\ Delivered \cap Recorded = {}
    /\ LET existing == Held \cup Delivered \cup Recorded IN
       \A y \in Rows :
           LET in == {b \in existing : y \in RowsOf(b)} IN
           IF y < count \/ y \in InScan THEN in = {} ELSE Cardinality(in) = 1

(* The adjacency array knows a recorded block by its first and its last row
   and by nothing between, and no two recorded blocks touch: their fusion
   would never be asked for again. *)
ArrayConsistent ==
    ~ stop =>
        /\ \A y \in Rows : row[y] # NoBlock =>
               /\ y \in {row[y].ymin, row[y].ymax}
               /\ row[row[y].ymin] = row[y] /\ row[row[y].ymax] = row[y]
        /\ \A a \in Recorded, b \in Recorded : a.ymax + 1 # b.ymin

(* `stop` comes when nothing is under way: from there only NULL tasks and
   NULL results move, and no fuse task is left for workers that have ended
   (cc_maker waits for `stop` before it answers NULL). *)
NothingAfterStop ==
    stop => /\ count = 0 /\ priority_tasks = << >> /\ fuse = Eof
            /\ \A i \in 1 .. Len(regular_tasks) : regular_tasks[i] = Eof
            /\ \A i \in 1 .. Len(results) : results[i] = Eof
            /\ \A w \in Working : item[w] = Eof

(* At the release: the rings are empty, the maker and the workers are past
   their last use of them, and the result is the block of the whole image. *)
QuietAtRelease == completer \in {"release", "returned"} =>
                      /\ eofs = NumWorkers /\ CoordinatorQuiet
                      /\ Covers(row[0])

(* The completer is the only consumer of `results`, and it waits for space
   when it injects.  With every ring and every worker full of work, 3 *
   NumWorkers entries and the one being injected, all would wait for each
   other.  It stays far from that because get_task looks at the priority ring
   first: while that ring holds a task, each worker can bring in at most the
   one regular task it was already polling for. *)
UnderWay == Len(priority_tasks) + Len(results) + Cardinality(Working)
            + (IF completer = "inject" THEN 1 ELSE 0)

InjectionBounded == priority_tasks # << >> => UnderWay <= 2 * NumWorkers + 1

(* The batch run ends. *)
Termination == <>(completer = "returned")
=============================================================================
