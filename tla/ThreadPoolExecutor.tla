-------------------------- MODULE ThreadPoolExecutor --------------------------
(***************************************************************************)
(* thread_pool_executor: worker threads popping tasks from one queue, and  *)
(* a destructor, run by whoever drops the last reference to the executor,  *)
(* that pushes one null task for each worker and joins or detaches them.   *)
(***************************************************************************)
EXTENDS Naturals, FiniteSets, SynchronizedQueue

CONSTANTS
  Clients,      \* threads that hold the executor returned by the maker
  Workers,      \* the thread_count threads
  MaxTasks      \* bound on the number of tasks enqueued

ASSUME MaxTasksIsNatural == MaxTasks \in Nat
ASSUME WorkersAreFinite == IsFiniteSet(Workers)

VARIABLES
  tasks_queue,
  holders,          \* clients that hold a reference
  created,          \* the worker threads that std::thread managed to start
  destroy_mode,
  pc,               \* of the workers: "none", "pop", "start" (a task is popped
                    \* and not called yet), "run", "destroy", "ended"
  task,             \* the task each worker popped last
  destructor,       \* "none", "push" (then joining), "done"
  nulls_left,       \* null tasks it still has to push
  n_enqueued,
  taken,            \* history: numbers of the tasks popped, in order
  started,          \* history: numbers of the tasks called, in order
  finished          \* history: numbers of the tasks that returned or threw

vars == <<tasks_queue, holders, created, destroy_mode, pc, task, destructor,
          nulls_left, n_enqueued, taken, started, finished>>

\* A task, by the number of its enqueuing; it may own a copy of the executor.
Task == [number : 1 .. MaxTasks, owns : BOOLEAN]
Null == [number |-> 0, owns |-> FALSE]

QueuedOwns(q) == \E i \in DOMAIN q.elements : q.elements[i].owns

\* A thread that fails to start leaves the workers before it running: the
\* exception destroys the executor, with no reference given to anyone.
Init ==
  /\ tasks_queue = NewQueue
  /\ created \in SUBSET Workers
  /\ holders = IF created = Workers THEN Clients ELSE {}
  /\ destroy_mode \in {"join", "detach"}
  /\ pc = [w \in Workers |-> IF w \in created THEN "pop" ELSE "none"]
  /\ task = [w \in Workers |-> Null]
  /\ destructor = IF created = Workers THEN "none" ELSE "push"
  /\ nulls_left = IF created = Workers THEN 0 ELSE Cardinality(created)
  /\ n_enqueued = 0
  /\ taken = <<>> /\ started = <<>>
  /\ finished = {}

-----------------------------------------------------------------------------
\* enqueue_task, by a client or by a task that owns the executor.  In join
\* mode no task owns it: a worker would have to join itself.
CanEnqueue ==
  holders # {} \/ \E w \in Workers : pc[w] = "run" /\ task[w].owns

Enqueue(owns) ==
  /\ CanEnqueue
  /\ n_enqueued < MaxTasks
  /\ owns => destroy_mode = "detach"
  /\ n_enqueued' = n_enqueued + 1
  /\ tasks_queue' = Push(tasks_queue, [number |-> n_enqueued + 1, owns |-> owns])
  /\ UNCHANGED <<holders, created, destroy_mode, pc, task, destructor,
                 nulls_left, taken, started, finished>>

\* enqueue_task with a null function: dropped, as a null in the queue would end
\* a worker.
PushedNull == Push(tasks_queue, Null)                \* mutant of QueueAfterNull
QueueAfterNull == tasks_queue
EnqueueNull ==
  /\ CanEnqueue
  /\ tasks_queue' = QueueAfterNull
  /\ UNCHANGED <<holders, created, destroy_mode, pc, task, destructor,
                 nulls_left, n_enqueued, taken, started, finished>>

\* A worker keeps the task it popped until the task has returned.
HasTask(w) == pc[w] \in {"start", "run"}

\* The references that are left when clients c and the tasks taken by ws own
\* the executor.
Unreferenced(c, ws) ==
  /\ c = {}
  /\ ~QueuedOwns(tasks_queue)
  /\ \A w \in ws : HasTask(w) => ~task[w].owns

\* Mutant of BeginDestructor: one null for all the workers.
BeginDestructorOneNull == destructor' = "push" /\ nulls_left' = 1

BeginDestructor ==
  /\ destructor' = "push"
  /\ nulls_left' = Cardinality(created)

DropReference(c) ==
  /\ c \in holders
  /\ holders' = holders \ {c}
  /\ IF Unreferenced(holders', Workers) THEN BeginDestructor
     ELSE UNCHANGED <<destructor, nulls_left>>
  /\ UNCHANGED <<tasks_queue, created, destroy_mode, pc, task, n_enqueued,
                 taken, started, finished>>

-----------------------------------------------------------------------------
(* run_worker_thread                                                       *)

WaitForTask(w) ==
  /\ pc[w] = "pop"
  /\ CanBlock(tasks_queue, w)
  /\ tasks_queue' = Block(tasks_queue, w)
  /\ UNCHANGED <<holders, created, destroy_mode, pc, task, destructor,
                 nulls_left, n_enqueued, taken, started, finished>>

SpuriousWakeup(w) ==
  /\ w \in tasks_queue.waiting
  /\ tasks_queue' = Wake(tasks_queue, w)
  /\ UNCHANGED <<holders, created, destroy_mode, pc, task, destructor,
                 nulls_left, n_enqueued, taken, started, finished>>

NeverEnds(e) == FALSE                                 \* mutant of EndsWorker
EndsWorker(e) == e = Null

\* The pop, under the mutex of the queue.
PopTask(w) ==
  /\ pc[w] = "pop"
  /\ CanPop(tasks_queue, w)
  /\ tasks_queue' = Pop(tasks_queue)
  /\ task' = [task EXCEPT ![w] = Oldest(tasks_queue)]
  /\ IF EndsWorker(Oldest(tasks_queue))
     THEN pc' = [pc EXCEPT ![w] = "ended"] /\ UNCHANGED taken
     ELSE /\ pc' = [pc EXCEPT ![w] = "start"]
          /\ taken' = Append(taken, Oldest(tasks_queue).number)
  /\ UNCHANGED <<holders, created, destroy_mode, destructor, nulls_left,
                 n_enqueued, started, finished>>

\* The call of the task, outside of the mutex: other workers may have taken and
\* started later tasks since the pop.
StartTask(w) ==
  /\ pc[w] = "start"
  /\ pc' = [pc EXCEPT ![w] = "run"]
  /\ started' = Append(started, task[w].number)
  /\ UNCHANGED <<tasks_queue, holders, created, destroy_mode, task, destructor,
                 nulls_left, n_enqueued, taken, finished>>

\* The task returns, or throws and the exception handler is called; then the
\* task itself is destroyed, and with it a copy of the executor it owns.
FinishTask(w) ==
  /\ pc[w] = "run"
  /\ finished' = finished \cup {task[w].number}
  /\ IF task[w].owns /\ Unreferenced(holders, Workers \ {w})
     THEN BeginDestructor /\ pc' = [pc EXCEPT ![w] = "destroy"]
     ELSE pc' = [pc EXCEPT ![w] = "pop"] /\ UNCHANGED <<destructor, nulls_left>>
  /\ UNCHANGED <<tasks_queue, holders, created, destroy_mode, task, n_enqueued,
                 taken, started>>

-----------------------------------------------------------------------------
(* ~thread_pool_executor                                                   *)

PushNull ==
  /\ destructor = "push"
  /\ nulls_left > 0
  /\ nulls_left' = nulls_left - 1
  /\ tasks_queue' = Push(tasks_queue, Null)
  /\ UNCHANGED <<holders, created, destroy_mode, pc, task, destructor,
                 n_enqueued, taken, started, finished>>

Joined == \A w \in created : pc[w] = "ended"

DestructorReturns ==
  /\ destructor = "push"
  /\ nulls_left = 0
  /\ destroy_mode = "join" => Joined
  /\ destructor' = "done"
  /\ pc' = [w \in Workers |-> IF pc[w] = "destroy" THEN "pop" ELSE pc[w]]
  /\ UNCHANGED <<tasks_queue, holders, created, destroy_mode, task, nulls_left,
                 n_enqueued, taken, started, finished>>

WorkerStep(w) == WaitForTask(w) \/ PopTask(w) \/ StartTask(w) \/ FinishTask(w)

Next ==
  \/ \E owns \in BOOLEAN : Enqueue(owns)
  \/ EnqueueNull
  \/ \E c \in Clients : DropReference(c)
  \/ \E w \in Workers : WorkerStep(w) \/ SpuriousWakeup(w)
  \/ PushNull
  \/ DestructorReturns

Spec == Init /\ [][Next]_vars

\* The threads are scheduled, and tasks return.
FairSpec ==
  /\ Spec
  /\ \A w \in Workers : WF_vars(WorkerStep(w))
  /\ WF_vars(PushNull \/ DestructorReturns)

-----------------------------------------------------------------------------
(* Type invariant.                                                         *)
TypeOK ==
  /\ tasks_queue \in [elements : Seq(Task \cup {Null}), waiting : SUBSET Workers]
  /\ holders \subseteq Clients /\ created \subseteq Workers
  /\ destroy_mode \in {"join", "detach"}
  /\ pc \in [Workers -> {"none", "pop", "start", "run", "destroy", "ended"}]
  /\ task \in [Workers -> Task \cup {Null}]
  /\ destructor \in {"none", "push", "done"}
  /\ nulls_left \in 0 .. Cardinality(Workers)
  /\ n_enqueued \in 0 .. MaxTasks
  /\ taken \in Seq(1 .. MaxTasks) /\ started \in Seq(1 .. MaxTasks)
  /\ finished \subseteq 1 .. MaxTasks

(* No wakeup is lost although push notifies only when the queue was empty:  *)
(* no worker sleeps while a task or a null waits in the queue               *)
(* (synchronized-queue-impl.h:22-26).                                       *)
NoLostWakeup == NoneSleepsOnWork(tasks_queue)

StartedTasks == {started[i] : i \in DOMAIN started}

(* Worker w has taken task n and not called it yet.                        *)
Uncalled(w, n) == pc[w] = "start" /\ task[w].number = n

(* Tasks are taken in the order of enqueuing, but called without the mutex  *)
(* that ordered the pops (thread-pool-executor.cpp:108, 115), so a pool of  *)
(* several threads does not start them in order.  Still each is started     *)
(* once, and one that starts overtakes only tasks that other workers took   *)
(* before and have not called yet: with k threads at most k - 1 of them,    *)
(* and in a pool of one thread the order of starts is that of enqueuing.    *)
StartOrder ==
  /\ \A i \in DOMAIN taken : taken[i] = i
  /\ \A i, j \in DOMAIN started : started[i] = started[j] => i = j
  /\ \A n \in StartedTasks : \A m \in 1 .. n - 1 :
       m \in StartedTasks \/ \E w \in Workers : Uncalled(w, m)

(* Workers end only after the executor is gone, and after every task was    *)
(* taken by a worker, which will run it: a null never overtakes a task, and *)
(* a null given to enqueue_task does not end a worker                       *)
(* (thread-pool-executor.cpp:69-71, 97).                                    *)
WorkersEndLast ==
  (\E w \in Workers : pc[w] = "ended")
    => destructor # "none" /\ Len(taken) = n_enqueued

(* Each task enqueued is executed to its end.                              *)
EveryTaskFinishes ==
  \A n \in 1 .. MaxTasks : n <= n_enqueued ~> n \in finished

(* Once the last reference is dropped, the destructor returns and all the   *)
(* workers end: each gets a null of its own, and join() does not hang.      *)
WorkersEnd ==
  destructor = "push" ~> destructor = "done" /\ \A w \in created : pc[w] = "ended"
==============================================================================
