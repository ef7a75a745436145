-------------------------- MODULE SyncQueueEventLoop --------------------------
(***************************************************************************)
(* synchronized_queue_based_event_loop: a manual_event_loop (Tasks) fed by *)
(* a synchronized queue of tasks from other threads.  The queue exists     *)
(* while the loop believes an executor does: the destructor of an executor *)
(* pushes a null task, and reading it drops the queue.                     *)
(***************************************************************************)
EXTENDS Naturals, FiniteSets, SequencesExt, SynchronizedQueue

CONSTANTS
  Threads,          \* threads other than the loop's
  MaxTime,          \* bound on the time points
  MaxOwnTasks,      \* bound on the invoke_at calls of user code
  MaxExtTasks,      \* bound on the tasks given to executors
  MaxExecutors,     \* bound on the executors made
  EarlyReacquire    \* whether get_mt_executor may be called while the null of
                    \* an executor is still unread

ASSUME BoundsAreNaturals ==
  {MaxTime, MaxOwnTasks, MaxExtTasks, MaxExecutors} \subseteq Nat

VARIABLES
  last_event_time, pending_tasks, next_task_id, task_quit, task_mode,
  clock, etime, quit_request_pending,
  pc,                 \* "stopped", or where run_iterations is
  result,             \* what run_iterations last returned
  queues,             \* the synchronized queues, by the order of their making
  n_queues,
  ext_tasks_queue,    \* the number of the loop's queue, 0 for null
  mt_executor_wptr,   \* the number of the executor it refers to, 0 for none
  executors,          \* [queue, holders, destroyed], by the order of their making
  n_ext,              \* how many tasks executors took
  group,              \* elements run_iterations has yet to handle
  moved               \* history: [number, key] of the tasks that the loop took
                      \* from a queue and gave to invoke_at, in order

task_vars == <<last_event_time, pending_tasks, next_task_id, task_quit, task_mode>>
run_vars == <<clock, etime, quit_request_pending, pc, result>>
ext_vars == <<queues, n_queues, ext_tasks_queue, mt_executor_wptr, executors,
              n_ext, group, moved>>
vars == <<task_vars, run_vars, ext_vars>>

Loop == "loop"
Null == 0                    \* in a queue; tasks are numbered from 1
MaxTasks == MaxOwnTasks + MaxExtTasks

Tasks == INSTANCE ManualEventLoop
           WITH quit_request_pending <- task_quit, mode <- task_mode

Init ==
  /\ Tasks!Init
  /\ clock = last_event_time
  /\ etime = last_event_time
  /\ quit_request_pending = FALSE
  /\ pc = "stopped"
  /\ result = "none"
  /\ queues = [q \in 1 .. MaxExecutors |-> NewQueue]
  /\ n_queues = 0
  /\ ext_tasks_queue = 0
  /\ mt_executor_wptr = 0
  /\ executors = <<>>
  /\ n_ext = 0
  /\ group = <<>>
  /\ moved = <<>>

InUserCode == pc = "stopped" \/ (pc = "tasks" /\ task_mode = "task")

-----------------------------------------------------------------------------
(* Calls made by user code in the loop's thread                            *)

Own(k) == \A i \in DOMAIN moved : moved[i].key # k

InvokeAt(t) ==
  /\ InUserCode
  /\ next_task_id - Len(moved) < MaxOwnTasks
  /\ Tasks!InvokeAt(t)
  /\ UNCHANGED <<run_vars, ext_vars>>

\* Nobody has the handle of a task that came from a queue.
DisableTask(k) ==
  InUserCode /\ Own(k) /\ Tasks!Disable(k) /\ UNCHANGED <<run_vars, ext_vars>>

Quit ==
  /\ InUserCode
  /\ Tasks!Quit
  /\ quit_request_pending' = TRUE
  /\ UNCHANGED <<clock, etime, pc, result, ext_vars>>

Locked(e) == e # 0 /\ executors[e].holders # {}       \* weak_ptr::lock succeeds

\* An executor whose null was not pushed yet, or not read yet by the loop.
NullInFlight ==
  \/ \E e \in DOMAIN executors : executors[e].holders = {} /\ ~executors[e].destroyed
  \/ Contains(group, Null)
  \/ \E q \in DOMAIN queues : Contains(queues[q].elements, Null)

\* The caller becomes a holder of the executor.
GetMtExecutor ==
  /\ InUserCode
  /\ EarlyReacquire \/ ~NullInFlight
  /\ ext_tasks_queue' = IF ext_tasks_queue = 0 THEN n_queues + 1 ELSE ext_tasks_queue
  /\ n_queues' = IF ext_tasks_queue = 0 THEN n_queues + 1 ELSE n_queues
  /\ IF Locked(mt_executor_wptr)
     THEN /\ executors' = [executors EXCEPT ![mt_executor_wptr].holders = @ \cup {Loop}]
          /\ UNCHANGED mt_executor_wptr
     ELSE /\ Len(executors) < MaxExecutors
          /\ executors' = Append(executors, [queue |-> ext_tasks_queue', holders |-> {Loop},
                                             destroyed |-> FALSE])
          /\ mt_executor_wptr' = Len(executors) + 1
  /\ UNCHANGED <<task_vars, run_vars, queues, n_ext, group, moved>>

-----------------------------------------------------------------------------
(* queue_pushing_mt_executor, in any thread                                *)

MayAct(h) == h = Loop => InUserCode

Holds(h, e) == h \in executors[e].holders

Execute(h, e) ==
  /\ MayAct(h) /\ Holds(h, e)
  /\ n_ext < MaxExtTasks
  /\ n_ext' = n_ext + 1
  /\ queues' = [queues EXCEPT ![executors[e].queue] = Push(@, n_ext + 1)]
  /\ UNCHANGED <<task_vars, run_vars, n_queues, ext_tasks_queue,
                 mt_executor_wptr, executors, group, moved>>

CopyExecutor(h, e, t) ==
  /\ MayAct(h) /\ Holds(h, e)
  /\ executors' = [executors EXCEPT ![e].holders = @ \cup {t}]
  /\ UNCHANGED <<task_vars, run_vars, queues, n_queues, ext_tasks_queue,
                 mt_executor_wptr, n_ext, group, moved>>

PushNull(e) == queues' = [queues EXCEPT ![executors[e].queue] = Push(@, Null)]

\* The last holder runs the destructor; in another thread, the loop may act
\* between the last release and the push of the null.
DropExecutor(h, e) ==
  /\ MayAct(h) /\ Holds(h, e)
  /\ LET left == executors[e].holders \ {h}
         now == left = {} /\ h = Loop
     IN  /\ executors' = [executors EXCEPT ![e].holders = left, ![e].destroyed = now]
         /\ IF now THEN PushNull(e) ELSE UNCHANGED queues
  /\ UNCHANGED <<task_vars, run_vars, n_queues, ext_tasks_queue,
                 mt_executor_wptr, n_ext, group, moved>>

DestroyExecutor(e) ==
  /\ executors[e].holders = {}
  /\ ~executors[e].destroyed
  /\ executors' = [executors EXCEPT ![e].destroyed = TRUE]
  /\ PushNull(e)
  /\ UNCHANGED <<task_vars, run_vars, n_queues, ext_tasks_queue,
                 mt_executor_wptr, n_ext, group, moved>>

-----------------------------------------------------------------------------
(* run_iterations                                                          *)

PassTime ==
  Tasks!ProcessTimePassage(IF etime > last_event_time
                           THEN etime - last_event_time ELSE 0)

RunIterations ==
  /\ pc = "stopped"
  /\ PassTime
  /\ pc' = "tasks"
  /\ result' = "none"
  /\ UNCHANGED <<clock, etime, quit_request_pending, ext_vars>>

RunTask == pc = "tasks" /\ Tasks!RunTask /\ UNCHANGED <<run_vars, ext_vars>>
TaskReturns == pc = "tasks" /\ Tasks!TaskReturns /\ UNCHANGED <<run_vars, ext_vars>>
NoTaskDue == pc = "tasks" /\ Tasks!NothingDue /\ UNCHANGED <<run_vars, ext_vars>>

Return(code) == pc' = "stopped" /\ result' = code

IdleWithoutTasks == pending_tasks = {}              \* mutant of IsIdle
IsIdle == ext_tasks_queue = 0 /\ pending_tasks = {}

AfterTasks ==
  /\ pc = "tasks"
  /\ task_mode = "caller"
  /\ IF quit_request_pending THEN Return("interrupted")
     ELSE IF IsIdle THEN Return("ok")
     ELSE pc' = (IF ext_tasks_queue # 0 THEN "acquire" ELSE "sleep") /\ UNCHANGED result
  /\ quit_request_pending' = FALSE
  /\ UNCHANGED <<task_vars, clock, etime, ext_vars>>

TimeHasCome == \E k \in pending_tasks : k.time <= clock

MyQueue == queues[ext_tasks_queue]
SetMyQueue(q) == queues' = [queues EXCEPT ![ext_tasks_queue] = q]

\* pop_group, and try_pop_group while its timeout lasts.
WaitForElements ==
  /\ pc = "acquire"
  /\ CanBlock(MyQueue, Loop)
  /\ ~TimeHasCome
  /\ SetMyQueue(Block(MyQueue, Loop))
  /\ UNCHANGED <<task_vars, run_vars, n_queues, ext_tasks_queue,
                 mt_executor_wptr, executors, n_ext, group, moved>>

\* Spurious, or the timeout of try_pop_group.
WakeUp ==
  /\ pc = "acquire"
  /\ Loop \in MyQueue.waiting
  /\ SetMyQueue(Wake(MyQueue, Loop))
  /\ UNCHANGED <<task_vars, run_vars, n_queues, ext_tasks_queue,
                 mt_executor_wptr, executors, n_ext, group, moved>>

WaitTimesOut == TimeHasCome /\ WakeUp

\* The group is empty after a timeout.
TakeGroup ==
  /\ pc = "acquire"
  /\ CanPop(MyQueue, Loop) \/ (TimeHasCome /\ Loop \notin MyQueue.waiting)
  /\ group' = MyQueue.elements
  /\ SetMyQueue(PopAll(MyQueue))
  /\ pc' = "group"
  /\ UNCHANGED <<task_vars, clock, etime, result, quit_request_pending,
                 n_queues, ext_tasks_queue, mt_executor_wptr, executors, n_ext,
                 moved>>

\* An element of the group: a task goes to invoke_at with the etime of before
\* the wait ...
MoveTask ==
  /\ pc = "group"
  /\ group # <<>> /\ Head(group) # Null
  /\ Tasks!InvokeAt(etime)
  /\ moved' = Append(moved, [number |-> Head(group),
                             key |-> [time |-> etime, id |-> next_task_id]])
  /\ group' = Tail(group)
  /\ UNCHANGED <<run_vars, queues, n_queues, ext_tasks_queue,
                 mt_executor_wptr, executors, n_ext>>

\* ... and a null drops the queue and forgets the executor.
ReadNull ==
  /\ pc = "group"
  /\ group # <<>> /\ Head(group) = Null
  /\ ext_tasks_queue' = 0
  /\ mt_executor_wptr' = 0
  /\ group' = Tail(group)
  /\ UNCHANGED <<task_vars, run_vars, queues, n_queues, executors, n_ext, moved>>

Now == clock

\* etime = clock.now(), after the group or after sleep_for.
UpdateTime ==
  /\ etime' = Now
  /\ pc' = "iterate"
  /\ UNCHANGED <<task_vars, clock, quit_request_pending, result, ext_vars>>

GroupDone == pc = "group" /\ group = <<>> /\ UpdateTime

Sleep == pc = "sleep" /\ TimeHasCome /\ UpdateTime

Iterate ==
  /\ pc = "iterate"
  /\ PassTime
  /\ pc' = "tasks"
  /\ UNCHANGED <<clock, etime, quit_request_pending, result, ext_vars>>

Tick ==
  /\ clock < MaxTime
  /\ clock' = clock + 1
  /\ UNCHANGED <<task_vars, etime, quit_request_pending, pc, result, ext_vars>>

-----------------------------------------------------------------------------
ExecutorCall ==
  \E e \in DOMAIN executors :
    \/ \E h \in executors[e].holders : Execute(h, e) \/ DropExecutor(h, e)
    \/ \E h \in executors[e].holders, t \in Threads : CopyExecutor(h, e, t)

LoopStep ==
  \/ RunTask \/ NoTaskDue \/ AfterTasks \/ WaitForElements \/ TakeGroup
  \/ MoveTask \/ ReadNull \/ GroupDone \/ WaitTimesOut \/ Sleep \/ Iterate

Next ==
  \/ \E t \in Tasks!Times : InvokeAt(t)
  \/ \E k \in pending_tasks : DisableTask(k)
  \/ Quit \/ GetMtExecutor
  \/ ExecutorCall
  \/ \E e \in DOMAIN executors : DestroyExecutor(e)
  \/ RunIterations \/ TaskReturns \/ LoopStep \/ WakeUp
  \/ Tick

Spec == Init /\ [][Next]_vars

\* The loop runs, tasks return, destructors run, and time passes.
FairSpec ==
  Spec /\ WF_vars(LoopStep) /\ WF_vars(TaskReturns) /\ WF_vars(Tick)

-----------------------------------------------------------------------------
(* As in PpollEventLoop: no task starts before its time as get_etime() tells *)
(* it (synchronized-queue-based-event-loop.cpp:133, 159).                    *)
TimesInOrder == last_event_time <= etime /\ etime <= clock

InTask == pc = "tasks" /\ task_mode = "task"

(* The loop keeps the contract of event_loop although other threads feed it, *)
(* with a time that has come.                                                *)
LoopContract == INSTANCE EventLoop
  WITH Times <- Tasks!Times, pending <- pending_tasks, next_id <- next_task_id,
       busy <- InTask
ImplementsContract == LoopContract!Spec /\ []TimesInOrder

\* The elements of s at the places in I, in their order.
Among(s, I) ==
  LET f[i \in 0 .. Len(s)] ==
        IF i = 0 THEN <<>> ELSE IF i \in I THEN Append(f[i - 1], s[i]) ELSE f[i - 1]
  IN  f[Len(s)]

Undone ==
  LET numbers == [i \in DOMAIN moved |-> moved[i].number]
      there == group \o FlattenSeq([q \in DOMAIN queues |-> queues[q].elements])
  IN  Among(numbers, {i \in DOMAIN moved : moved[i].key \in pending_tasks})
        \o Among(there, {i \in DOMAIN there : there[i] # Null})

Referenced == \E e \in DOMAIN executors : executors[e].holders # {}

(* Tasks given to an executor run once and in order, through the queue, the *)
(* group, and the ordering by time of the inner loop; the queue is there as *)
(* long as someone holds the executor.                                      *)
ExecutorContract == INSTANCE MtExecutor
  WITH undone <- Undone, accepted <- n_ext, referenced <- Referenced,
       listening <- ext_tasks_queue # 0
ImplementsMtExecutor == ExecutorContract!Spec

\* The numbers in Undone, whatever their order.
UndoneTasks ==
  {moved[i].number : i \in {j \in DOMAIN moved : moved[j].key \in pending_tasks}}
    \cup ((Range(group) \cup UNION {Range(queues[q].elements) : q \in DOMAIN queues})
           \ {Null})

(* A run returns as idle only when every task given to an executor was      *)
(* executed and nobody can give another one                                 *)
(* (event-loop-control.h:16-18, event-loop-mt-executor-provider.h:13).      *)
IdleOnlyWhenDone ==
  [][pc = "tasks" /\ pc' = "stopped" /\ result' = "ok"
       => UndoneTasks = {} /\ ~Referenced]_vars

(* The part of it that no reading of "idle" excuses: no task that an        *)
(* executor took is left behind.                                            *)
IdleLeavesNoTask ==
  [][pc = "tasks" /\ pc' = "stopped" /\ result' = "ok" => UndoneTasks = {}]_vars

(* A task given to an executor is executed, unless the run ends first.     *)
ExtTasksServed ==
  \A n \in 1 .. MaxExtTasks :
    n_ext >= n /\ pc # "stopped" ~> n \notin UndoneTasks \/ pc = "stopped"
==============================================================================
