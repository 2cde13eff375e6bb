--------------------------- MODULE UnorderedBatch ---------------------------
(***************************************************************************)
(* A batch run under the unordered coordinator without injected tasks, the *)
(* form sinks and reducers use: the maker generates NumTasks tasks, the    *)
(* completer takes the results as they come (runtime/batch.c).             *)
(***************************************************************************)
EXTENDS UnorderedCoordinator

CONSTANT NumTasks

ASSUME NumTasksAssumption == NumTasks \in Nat
ASSUME EofAssumption      == Eof \notin 1 .. NumTasks

VARIABLES made,         \* tasks generated
          eofs,         \* NULL tasks sent by gen_complete
          completer,    \* where the completer is
          completed     \* results handed to the completer callback

vars == << coordinatorVars, made, eofs, completer, completed >>

Init == /\ InitCoordinator
        /\ made = 0
        /\ eofs = 0
        /\ completer = "results"
        /\ completed = << >>

(* PMAKER returns the next task, gen_regular sends it. *)
MakeTask == /\ made < NumTasks
            /\ GenRegular(made + 1)
            /\ made' = made + 1
            /\ UNCHANGED << eofs, completer, completed >>

(* PMAKER has returned NULL: the loop of gen_complete. *)
MakeEof == /\ made = NumTasks
           /\ eofs < NumWorkers
           /\ GenRegular(Eof)
           /\ eofs' = eofs + 1
           /\ UNCHANGED << made, completer, completed >>

Maker == MakeTask \/ MakeEof

Work(w) == /\ SetResult(w, item[w])
           /\ UNCHANGED << made, eofs, completer, completed >>

Poll(w) == /\ PollPriority(w) \/ PollRegular(w)
           /\ UNCHANGED << made, eofs, completer, completed >>

Worker(w) == Poll(w) \/ Work(w)

Complete == /\ completer = "results"
            /\ \/ /\ \E t \in 1 .. NumTasks : /\ GetResult(t)
                                              /\ completed' = Append(completed, t)
                  /\ UNCHANGED completer
               \/ /\ CountEof
                  /\ UNCHANGED << completer, completed >>
               \/ /\ LastEof
                  /\ completer' = "release"
                  /\ UNCHANGED completed
            /\ UNCHANGED << made, eofs >>

(* The last PCOMPLETER call and aktive_coordinator_release. *)
Release == /\ completer = "release"
           /\ completer' = "returned"
           /\ UNCHANGED << coordinatorVars, made, eofs, completed >>

Completer == Complete \/ Release

Ended == completer = "returned" /\ eofs = NumWorkers /\ CoordinatorQuiet

(* All threads have ended. *)
Terminated == Ended /\ UNCHANGED vars

Next == Maker \/ (\E w \in Workers : Worker(w)) \/ Completer \/ Terminated

Spec == Init /\ [][Next]_vars

(* Every thread that can run does; a polling worker always can. *)
Fairness == /\ WF_vars(Maker)
            /\ \A w \in Workers : WF_vars(Worker(w))
            /\ WF_vars(Completer)

FairSpec == Spec /\ Fairness

-----------------------------------------------------------------------------
(* When the completer releases the rings they are empty, as `release`
   asserts, the maker has sent its last NULL task and no worker is left. *)
QuietAtRelease == completer # "results" => eofs = NumWorkers /\ CoordinatorQuiet

(* The batch run ends with every task completed once, in whatever order. *)
Batch == INSTANCE BatchService
             WITH Sequential <- FALSE, over <- completer = "returned"

ImplementsBatch == Batch!FairSpec
=============================================================================
