------------------------ MODULE UnorderedCoordinator ------------------------
(***************************************************************************)
(* runtime/coordinator_unordered.c: the three rings between maker, workers *)
(* and completer, and the operations on them, for the batch processors     *)
(* that extend this module.  Worker threads follow task_worker of          *)
(* runtime/batch.c; get_task polls two rings in turn, each poll a critical *)
(* section of its own.                                                     *)
(***************************************************************************)
EXTENDS Integers, Sequences, FiniteSets

CONSTANTS Workers,      \* the worker threads
          Eof           \* the NULL task and the NULL result

NumWorkers == Cardinality(Workers)

ASSUME WorkersAssumption == IsFiniteSet(Workers) /\ Workers # {}

VARIABLES regular_tasks,    \* ring: tasks from the maker
          priority_tasks,   \* ring: tasks from elsewhere, here the completer
          results,          \* ring: results for the completer
          active,           \* base.active
          worker,           \* where each worker thread is
          item              \* the task a worker works on, or its result

rings           == << regular_tasks, priority_tasks, results >>
workerVars      == << worker, item >>
coordinatorVars == << rings, active, workerVars >>

(* aktive_coordinator_new_unordered *)
InitCoordinator == /\ regular_tasks = << >>
                   /\ priority_tasks = << >>
                   /\ results = << >>
                   /\ active = NumWorkers
                   /\ worker = [w \in Workers |-> "priority"]
                   /\ item = [w \in Workers |-> Eof]

HasSpace(ring) == Len(ring) < NumWorkers

(* gen_regular; gen_complete calls the same ring_put with Eof *)
GenRegular(t) == /\ HasSpace(regular_tasks)
                 /\ regular_tasks' = Append(regular_tasks, t)
                 /\ UNCHANGED << priority_tasks, results, active, workerVars >>

(* gen_priority *)
GenPriority(t) == /\ HasSpace(priority_tasks)
                  /\ priority_tasks' = Append(priority_tasks, t)
                  /\ UNCHANGED << regular_tasks, results, active, workerVars >>

(* A faulty form of PollPriority: only the regular ring is polled. *)
PollPriorityPasses(w) ==
    /\ worker[w] = "priority"
    /\ worker' = [worker EXCEPT ![w] = "regular"]
    /\ UNCHANGED << rings, active, item >>

(* get_task, first poll: ring_take_ifnotempty (priority_tasks) *)
PollPriority(w) ==
    /\ worker[w] = "priority"
    /\ \/ /\ priority_tasks # << >>
          /\ item' = [item EXCEPT ![w] = Head(priority_tasks)]
          /\ priority_tasks' = Tail(priority_tasks)
          /\ worker' = [worker EXCEPT ![w] = "work"]
       \/ /\ priority_tasks = << >>
          /\ worker' = [worker EXCEPT ![w] = "regular"]
          /\ UNCHANGED << item, priority_tasks >>
    /\ UNCHANGED << regular_tasks, results, active >>

(* A faulty form of PollRegular: the task stays in the ring. *)
PollRegularKeeps(w) ==
    /\ worker[w] = "regular"
    /\ \/ /\ regular_tasks # << >>
          /\ item' = [item EXCEPT ![w] = Head(regular_tasks)]
          /\ worker' = [worker EXCEPT ![w] = "work"]
       \/ /\ regular_tasks = << >>
          /\ worker' = [worker EXCEPT ![w] = "priority"]
          /\ UNCHANGED item
    /\ UNCHANGED << regular_tasks, priority_tasks, results, active >>

(* get_task, second poll: ring_take_ifnotempty (regular_tasks) *)
PollRegular(w) ==
    /\ worker[w] = "regular"
    /\ \/ /\ regular_tasks # << >>
          /\ item' = [item EXCEPT ![w] = Head(regular_tasks)]
          /\ regular_tasks' = Tail(regular_tasks)
          /\ worker' = [worker EXCEPT ![w] = "work"]
       \/ /\ regular_tasks = << >>
          /\ worker' = [worker EXCEPT ![w] = "priority"]
          /\ UNCHANGED << item, regular_tasks >>
    /\ UNCHANGED << priority_tasks, results, active >>

(* A faulty form of SetResult: the next get_task polls the regular ring first. *)
SetResultRegularFirst(w, r) ==
    /\ worker[w] = "work"
    /\ HasSpace(results)
    /\ results' = Append(results, r)
    /\ worker' = [worker EXCEPT ![w] = IF item[w] = Eof THEN "done" ELSE "regular"]
    /\ UNCHANGED << regular_tasks, priority_tasks, active, item >>

(* The callback has made the result r of its task: set_result (r).  A NULL
   task gives a NULL result, the last of its worker. *)
SetResult(w, r) ==
    /\ worker[w] = "work"
    /\ HasSpace(results)
    /\ results' = Append(results, r)
    /\ worker' = [worker EXCEPT ![w] = IF item[w] = Eof THEN "done" ELSE "priority"]
    /\ UNCHANGED << regular_tasks, priority_tasks, active, item >>

(* get_result up to its return: the next result that is not NULL ... *)
TakeResult(r) == /\ results # << >>
                 /\ r = Head(results)
                 /\ results' = Tail(results)
                 /\ UNCHANGED << regular_tasks, priority_tasks, workerVars >>

GetResult(r) == /\ r # Eof
                /\ TakeResult(r)
                /\ UNCHANGED active

(* ... a NULL result of a worker that is not the last ... *)
CountEof == /\ TakeResult(Eof)
            /\ active # 1
            /\ active' = active - 1

(* A faulty form of LastEof: any NULL result ends. *)
LastEofFirst == /\ TakeResult(Eof)
                /\ UNCHANGED active

(* ... or the NULL result of the last worker, which ends the batch. *)
LastEof == /\ TakeResult(Eof)
           /\ active = 1
           /\ UNCHANGED active

(* What `release` asserts, and that no worker is left to use the rings. *)
CoordinatorQuiet == /\ rings = << << >>, << >>, << >> >>
                    /\ \A w \in Workers : worker[w] = "done"

=============================================================================
