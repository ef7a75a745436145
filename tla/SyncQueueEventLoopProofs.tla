----------------------- MODULE SyncQueueEventLoopProofs -----------------------
(***************************************************************************)
(* Proofs about SyncQueueEventLoop, for all bounds and any threads: the    *)
(* loop keeps the contract of event_loop, whatever its executors do, and,  *)
(* when no executor is made before the null of the one before it is read,  *)
(* a run is idle only when no task is left and nobody holds an executor,   *)
(* and the tasks given to executors run once, in the order of giving.      *)
(***************************************************************************)
EXTENDS SyncQueueEventLoop, TLAPS, SequenceTheorems, NaturalsInduction, WellFoundedInduction

Times == Tasks!Times

TypeInv ==
  /\ last_event_time \in Times /\ etime \in Times /\ clock \in Times
  /\ pending_tasks \subseteq [time : Times, id : Nat]
  /\ next_task_id \in Nat
  /\ task_mode \in {"caller", "loop", "task"}
  /\ pc \in {"stopped", "tasks", "acquire", "sleep", "group", "iterate"}

\* The inner loop rests while run_iterations is elsewhere.
ModesInv == pc # "tasks" => task_mode = "caller"

TimesInv == TypeInv /\ ModesInv /\ TimesInOrder

LEMMA Bounds == MaxTime \in Nat /\ MaxExecutors \in Nat
  BY BoundsAreNaturals

\* What the inner loop and the contract see of a step that leaves them alone.
LoopRests ==
  UNCHANGED <<last_event_time, pending_tasks, next_task_id, task_mode, clock, etime, pc>>

\* The calls about executors, in any thread, and the waiting of the loop.
ExecutorStep ==
  \/ GetMtExecutor \/ ExecutorCall \/ \E e \in DOMAIN executors : DestroyExecutor(e)
  \/ WaitForElements \/ WakeUp \/ WaitTimesOut \/ ReadNull

LEMMA ExecutorsLeaveLoop == ASSUME ExecutorStep PROVE LoopRests
<1> USE DEF LoopRests, task_vars, run_vars
<1>1. CASE GetMtExecutor
  BY <1>1 DEF GetMtExecutor
<1>2. CASE ExecutorCall
  BY <1>2 DEF ExecutorCall, Execute, DropExecutor, CopyExecutor
<1>3. CASE \E e \in DOMAIN executors : DestroyExecutor(e)
  BY <1>3 DEF DestroyExecutor
<1>4. CASE WaitForElements \/ WakeUp \/ WaitTimesOut
  BY <1>4 DEF WaitForElements, WakeUp, WaitTimesOut
<1>5. CASE ReadNull
  BY <1>5 DEF ReadNull
<1> QED
  BY <1>1, <1>2, <1>3, <1>4, <1>5 DEF ExecutorStep

\* process_time_passage brings the inner loop to etime, never past it.
LEMMA PassTimeReachesEtime ==
  ASSUME TimesInv, PassTime
  PROVE  /\ last_event_time' \in Times
         /\ last_event_time' <= etime
         /\ task_mode' = "loop"
         /\ UNCHANGED <<pending_tasks, next_task_id>>
<1> USE Bounds
<1>1. CASE etime > last_event_time
  <2>1. Tasks!ProcessTimePassage(etime - last_event_time)
    BY <1>1 DEF PassTime
  <2> QED
    BY <1>1, <2>1, SMT
    DEF TimesInv, TypeInv, TimesInOrder, Tasks!ProcessTimePassage, Times, Tasks!Times
<1>2. CASE ~(etime > last_event_time)
  <2>1. Tasks!ProcessTimePassage(0)
    BY <1>2 DEF PassTime
  <2> QED
    BY <1>2, <2>1, SMT
    DEF TimesInv, TypeInv, TimesInOrder, Tasks!ProcessTimePassage, Times, Tasks!Times
<1> QED
  BY <1>1, <1>2

LEMMA InitTimes == Init => TimesInv
<1> SUFFICES ASSUME Init PROVE TimesInv
  OBVIOUS
<1>1. /\ last_event_time \in Times /\ etime = last_event_time /\ clock = last_event_time
      /\ pending_tasks = {} /\ next_task_id = 0 /\ pc = "stopped" /\ task_mode = "caller"
  BY DEF Init, Tasks!Init, Times
<1>2. TimesInOrder
  BY <1>1, Bounds, SMT DEF TimesInOrder, Times, Tasks!Times
<1>3. next_task_id \in Nat
  BY <1>1, SMT
<1>4. TypeInv /\ ModesInv
  BY <1>1, <1>3, Zenon DEF TypeInv, ModesInv
<1> QED
  BY <1>2, <1>4 DEF TimesInv

LEMMA NextTimes == TimesInv /\ [Next]_vars => TimesInv'
<1> SUFFICES ASSUME TimesInv, [Next]_vars PROVE TimesInv'
  OBVIOUS
<1> USE Bounds DEF TimesInv, TypeInv, ModesInv, TimesInOrder
<1>1. CASE \E t \in Tasks!Times : InvokeAt(t)
  BY <1>1, SMT DEF InvokeAt, Tasks!InvokeAt, Tasks!NextId, run_vars, Times
<1>2. CASE \E k \in pending_tasks : DisableTask(k)
  BY <1>2 DEF DisableTask, Tasks!Disable, run_vars
<1>3. CASE Quit
  BY <1>3 DEF Quit, Tasks!Quit
<1>4. CASE ExecutorStep
  BY <1>4, ExecutorsLeaveLoop DEF LoopRests
<1>5. CASE RunIterations
  <2>1. PassTime /\ pc' = "tasks" /\ pc = "stopped" /\ UNCHANGED <<clock, etime>>
    BY <1>5 DEF RunIterations
  <2> QED
    BY <2>1, PassTimeReachesEtime
<1>6. CASE TaskReturns
  BY <1>6 DEF TaskReturns, Tasks!TaskReturns, run_vars
<1>7. CASE RunTask
  BY <1>7 DEF RunTask, Tasks!RunTask, run_vars
<1>8. CASE NoTaskDue
  BY <1>8 DEF NoTaskDue, Tasks!NothingDue, run_vars
<1>9. CASE AfterTasks
  BY <1>9 DEF AfterTasks, Return, task_vars
<1>10. CASE TakeGroup
  BY <1>10 DEF TakeGroup, task_vars
<1>11. CASE MoveTask
  BY <1>11, SMT DEF MoveTask, Tasks!InvokeAt, Tasks!NextId, run_vars
<1>12. CASE GroupDone
  BY <1>12, SMT DEF GroupDone, UpdateTime, Now, task_vars, Times, Tasks!Times
<1>13. CASE Sleep
  BY <1>13, SMT DEF Sleep, UpdateTime, Now, task_vars, Times, Tasks!Times
<1>14. CASE Iterate
  <2>1. PassTime /\ pc' = "tasks" /\ pc = "iterate" /\ UNCHANGED <<clock, etime>>
    BY <1>14 DEF Iterate
  <2> QED
    BY <2>1, PassTimeReachesEtime
<1>15. CASE Tick
  BY <1>15, SMT DEF Tick, task_vars, Times, Tasks!Times
<1>16. CASE UNCHANGED vars
  BY <1>16 DEF vars, task_vars, run_vars
<1> QED
  BY <1>1, <1>2, <1>3, <1>4, <1>5, <1>6, <1>7, <1>8, <1>9, <1>10, <1>11, <1>12, <1>13, <1>14,
     <1>15, <1>16
  DEF Next, LoopStep, ExecutorStep

LEMMA TimesInvariance == Spec => []TimesInv
  BY InitTimes, NextTimes, PTL DEF Spec

-----------------------------------------------------------------------------
LEMMA InitImplements == Init => LoopContract!Init
  BY DEF Init, Tasks!Init, LoopContract!Init, InTask

(* Each step of the loop is one step of the contract or none: a task that  *)
(* came from a queue is enqueued like any other, time passes when the loop *)
(* reads its clock, and what executors do is invisible.                    *)
LEMMA StepImplements ==
  TimesInv /\ [Next]_vars => [LoopContract!Next]_(LoopContract!vars)
<1> SUFFICES ASSUME TimesInv, [Next]_vars
             PROVE  LoopContract!Next \/ UNCHANGED LoopContract!vars
  OBVIOUS
<1> USE DEF LoopContract!Next, LoopContract!vars, InTask
<1>1. ASSUME NEW t \in Tasks!Times, InvokeAt(t) PROVE LoopContract!Enqueue
  BY <1>1 DEF InvokeAt, Tasks!InvokeAt, Tasks!NextId, run_vars, LoopContract!Enqueue
<1>2. ASSUME NEW k \in pending_tasks, DisableTask(k) PROVE LoopContract!Disable
  BY <1>2 DEF DisableTask, Tasks!Disable, run_vars, LoopContract!Disable
<1>3. CASE Quit
  BY <1>3 DEF Quit, Tasks!Quit
<1>4. CASE ExecutorStep
  BY <1>4, ExecutorsLeaveLoop DEF LoopRests
<1>5. CASE RunIterations
  <2>1. PassTime /\ pc = "stopped" /\ pc' = "tasks" /\ UNCHANGED <<clock, etime>>
    BY <1>5 DEF RunIterations
  <2> QED
    BY <2>1, PassTimeReachesEtime
<1>6. CASE TaskReturns
  BY <1>6 DEF TaskReturns, Tasks!TaskReturns, run_vars, LoopContract!Finish
<1>7. CASE RunTask
  <2>1. PICK k \in pending_tasks :
          Tasks!IsHead(k) /\ Tasks!Due(k) /\ pending_tasks' = pending_tasks \ {k}
    BY <1>7 DEF RunTask, Tasks!RunTask
  <2>2. k.time <= etime
    BY <2>1, Bounds, SMT
    DEF Tasks!Due, TimesInv, TypeInv, TimesInOrder, Times, Tasks!Times
  <2>3. \A o \in pending_tasks : o.time = k.time => k.id <= o.id
    BY <2>1, Bounds, SMT
    DEF Tasks!IsHead, Tasks!Before, TimesInv, TypeInv, Times, Tasks!Times
  <2>4. ~InTask /\ InTask' /\ UNCHANGED <<etime, next_task_id>>
    BY <1>7 DEF RunTask, Tasks!RunTask, run_vars
  <2>5. LoopContract!Start
    BY <2>1, <2>2, <2>3, <2>4 DEF LoopContract!Start
  <2> QED
    BY <2>5
<1>8. CASE NoTaskDue
  BY <1>8 DEF NoTaskDue, Tasks!NothingDue, run_vars
<1>9. CASE AfterTasks
  BY <1>9 DEF AfterTasks, Return, task_vars
<1>10. CASE TakeGroup
  BY <1>10 DEF TakeGroup, task_vars
<1>11. CASE MoveTask
  <2>1. etime \in Tasks!Times
    BY DEF TimesInv, TypeInv, Times
  <2>2. LoopContract!Enqueue
    BY <1>11, <2>1
    DEF MoveTask, Tasks!InvokeAt, Tasks!NextId, run_vars, LoopContract!Enqueue
  <2> QED
    BY <2>2
<1>12. ASSUME UpdateTime, pc # "tasks" PROVE LoopContract!Advance
  BY <1>12, Bounds, SMT
  DEF UpdateTime, Now, task_vars, TimesInv, TypeInv, TimesInOrder, Times, Tasks!Times,
      LoopContract!Advance
<1>13. CASE GroupDone \/ Sleep
  BY <1>12, <1>13 DEF GroupDone, Sleep
<1>14. CASE Iterate
  <2>1. PassTime /\ pc = "iterate" /\ pc' = "tasks" /\ UNCHANGED <<clock, etime>>
    BY <1>14 DEF Iterate
  <2> QED
    BY <2>1, PassTimeReachesEtime
<1>15. CASE Tick
  BY <1>15 DEF Tick, task_vars
<1>16. CASE UNCHANGED vars
  BY <1>16 DEF vars, task_vars, run_vars
<1> QED
  BY <1>1, <1>2, <1>3, <1>4, <1>5, <1>6, <1>7, <1>8, <1>9, <1>10, <1>11, <1>13, <1>14, <1>15,
     <1>16
  DEF Next, LoopStep, ExecutorStep

(* synchronized_queue_based_event_loop keeps the contract of event_loop     *)
(* although other threads feed it, and the time of its inner loop is never  *)
(* ahead of its own, nor that of the clock.                                 *)
THEOREM LoopImplementation == Spec => ImplementsContract
<1>1. Spec => []TimesInv
  BY TimesInvariance
<1>2. TimesInv => TimesInOrder
  BY DEF TimesInv
<1> QED
  BY <1>1, <1>2, InitImplements, StepImplements, PTL
  DEF Spec, ImplementsContract, LoopContract!Spec

-----------------------------------------------------------------------------
(* No executor is made before the null of the one before it is read: then  *)
(* at most one executor is not destroyed, it feeds the queue that the loop *)
(* reads, and its null is the last element that the loop will read.        *)

NoNull(s) == \A i \in DOMAIN s : s[i] # Null
NullLast(s) == s # <<>> /\ s[Len(s)] = Null /\ \A i \in 1 .. Len(s) - 1 : s[i] # Null

Queues == [elements : Seq(Nat), waiting : SUBSET {Loop}]
ExecutorStates ==
  [queue : 1 .. MaxExecutors, holders : SUBSET (Threads \cup {Loop}), destroyed : BOOLEAN]

QueuesInv ==
  /\ executors \in Seq(ExecutorStates)
  /\ Len(executors) <= MaxExecutors
  /\ n_queues = Len(executors)
  /\ queues \in [1 .. MaxExecutors -> Queues]
  /\ group \in Seq(Nat)
  /\ n_ext \in Nat
  /\ ext_tasks_queue \in 0 .. n_queues
  /\ mt_executor_wptr \in 0 .. Len(executors)
  /\ ext_tasks_queue = 0 <=> mt_executor_wptr = 0

\* Only the queue of the loop holds elements, and only its executor is in use.
OthersDone ==
  /\ \A e \in DOMAIN executors :
       e # mt_executor_wptr => executors[e].holders = {} /\ executors[e].destroyed = TRUE
  /\ \A q \in DOMAIN queues : q # ext_tasks_queue => queues[q].elements = <<>>
  /\ group # <<>> => pc = "group" /\ ext_tasks_queue # 0
  /\ pc = "acquire" => ext_tasks_queue # 0

Elements == queues[ext_tasks_queue].elements

CurrentInv ==
  mt_executor_wptr # 0 =>
    LET x == executors[mt_executor_wptr]
    IN  /\ x.queue = ext_tasks_queue
        /\ x.holders # {} => x.destroyed = FALSE
        /\ x.destroyed = FALSE => NoNull(group) /\ NoNull(Elements)
        /\ x.destroyed = TRUE => \/ NoNull(group) /\ NullLast(Elements)
                                 \/ NullLast(group) /\ Elements = <<>>

IdleInv == QueuesInv /\ OthersDone /\ CurrentInv

LEMMA AppendElement ==
  ASSUME NEW s \in Seq(Nat), NEW n \in Nat
  PROVE  /\ Append(s, n) \in Seq(Nat)
         /\ NoNull(s) /\ n # Null => NoNull(Append(s, n))
         /\ NoNull(s) /\ n = Null => NullLast(Append(s, n))
<1>1. /\ Append(s, n) \in Seq(Nat) /\ Len(Append(s, n)) = Len(s) + 1
      /\ DOMAIN Append(s, n) = 1 .. Len(s) + 1
      /\ Append(s, n)[Len(s) + 1] = n
      /\ \A i \in 1 .. Len(s) : Append(s, n)[i] = s[i]
  OBVIOUS
<1>2. Len(s) \in Nat /\ DOMAIN s = 1 .. Len(s)
  OBVIOUS
<1> DEFINE t == Append(s, n)
<1> HIDE DEF t
<1>3. NoNull(s) /\ n # Null => NoNull(t)
  BY <1>1, <1>2, SMT DEF NoNull, t
<1>4. t # <<>>
  BY <1>1, <1>2, EmptySeq, SMT DEF t
<1>5. \A i \in 1 .. Len(t) - 1 : t[i] = s[i] /\ i \in DOMAIN s
  BY <1>1, <1>2, SMT DEF t
<1>6. NoNull(s) /\ n = Null => NullLast(t)
  BY <1>1, <1>4, <1>5 DEF NoNull, NullLast, t
<1> QED
  BY <1>1, <1>3, <1>6 DEF t

LEMMA TailOfElements ==
  ASSUME NEW s \in Seq(Nat), s # <<>>
  PROVE  /\ Tail(s) \in Seq(Nat)
         /\ NoNull(s) => NoNull(Tail(s)) /\ Head(s) # Null
         /\ NullLast(s) /\ Head(s) # Null => NullLast(Tail(s))
         /\ NullLast(s) /\ Head(s) = Null => Tail(s) = <<>>
<1>1. /\ Tail(s) \in Seq(Nat) /\ Len(Tail(s)) = Len(s) - 1
      /\ \A i \in 1 .. Len(Tail(s)) : Tail(s)[i] = s[i + 1]
  BY HeadTailProperties
<1>2. /\ DOMAIN s = 1 .. Len(s) /\ Len(s) \in Nat \ {0} /\ Head(s) = s[1]
      /\ DOMAIN Tail(s) = 1 .. Len(Tail(s))
  BY <1>1, SMT
<1>3. NoNull(s) => NoNull(Tail(s)) /\ Head(s) # Null
  BY <1>1, <1>2, SMT DEF NoNull
<1>4. NullLast(s) /\ Head(s) # Null => NullLast(Tail(s))
  <2> SUFFICES ASSUME NullLast(s), Head(s) # Null PROVE NullLast(Tail(s))
    OBVIOUS
  <2>1. s[Len(s)] = Null /\ \A i \in 1 .. Len(s) - 1 : s[i] # Null
    BY DEF NullLast
  <2>2. Len(s) # 1
    BY <1>2, <2>1
  <2>3. Len(Tail(s)) \in Nat \ {0} /\ Len(Tail(s)) + 1 = Len(s)
    BY <1>1, <1>2, <2>2, SMT
  <2>4. Tail(s)[Len(Tail(s))] = Null
    BY <1>1, <2>1, <2>3, SMT
  <2>5. \A i \in 1 .. Len(Tail(s)) - 1 : Tail(s)[i] # Null
    <3> TAKE i \in 1 .. Len(Tail(s)) - 1
    <3>1. i \in 1 .. Len(Tail(s)) /\ i + 1 \in 1 .. Len(s) - 1
      BY <2>3, SMT
    <3> QED
      BY <1>1, <2>1, <3>1
  <2>6. Tail(s) # <<>>
    BY <1>1, <2>3, EmptySeq
  <2> QED
    BY <2>4, <2>5, <2>6 DEF NullLast
<1>5. NullLast(s) /\ Head(s) = Null => Len(s) = 1
  BY <1>2, SMT DEF NullLast
<1>6. Len(s) = 1 => Tail(s) = <<>>
  <2>1. Len(s) = 1 => Len(Tail(s)) = 0
    BY <1>1
  <2> QED
    BY <1>1, <2>1, EmptySeq
<1> QED
  BY <1>1, <1>3, <1>4, <1>5, <1>6

\* The variables of IdleInv.
IdleRests ==
  UNCHANGED <<executors, n_queues, queues, group, n_ext, ext_tasks_queue, mt_executor_wptr>>

LEMMA RestKeepsIdle ==
  ASSUME IdleInv, IdleRests, group = <<>> \/ pc' = pc, pc' = "acquire" => ext_tasks_queue # 0
  PROVE  IdleInv'
<1>1. QueuesInv'
  BY DEF IdleInv, QueuesInv, IdleRests
<1>2. OthersDone'
  BY DEF IdleInv, OthersDone, IdleRests
<1>3. CurrentInv'
  BY DEF IdleInv, CurrentInv, Elements, IdleRests
<1> QED
  BY <1>1, <1>2, <1>3 DEF IdleInv

\* The executor in use, when there is one that is not destroyed.
LEMMA OneExecutor ==
  ASSUME IdleInv, NEW e \in DOMAIN executors,
         executors[e].holders # {} \/ ~executors[e].destroyed
  PROVE  /\ e = mt_executor_wptr /\ ext_tasks_queue \in 1 .. MaxExecutors
         /\ executors[e].queue = ext_tasks_queue
         /\ executors[e].destroyed = FALSE
         /\ NoNull(group) /\ NoNull(Elements)
<1>1. executors[e] \in ExecutorStates /\ e \in 1 .. Len(executors)
  BY SMT DEF IdleInv, QueuesInv
<1>2. executors[e].destroyed \in BOOLEAN
  BY <1>1 DEF ExecutorStates
<1>3. e = mt_executor_wptr
  BY <1>1, <1>2 DEF IdleInv, OthersDone
<1>4. e # 0 /\ ext_tasks_queue \in 1 .. MaxExecutors
  BY <1>1, <1>3, Bounds, SMT DEF IdleInv, QueuesInv
<1>5. executors[e].destroyed = FALSE
  BY <1>2, <1>3, <1>4 DEF IdleInv, CurrentInv
<1> QED
  BY <1>3, <1>4, <1>5 DEF IdleInv, CurrentInv

LEMMA InitIdle == Init => IdleInv
<1> SUFFICES ASSUME Init PROVE IdleInv
  OBVIOUS
<1>1. /\ queues = [q \in 1 .. MaxExecutors |-> NewQueue] /\ n_queues = 0
      /\ ext_tasks_queue = 0 /\ mt_executor_wptr = 0 /\ executors = <<>>
      /\ n_ext = 0 /\ group = <<>> /\ pc = "stopped"
  BY DEF Init
<1>2. QueuesInv
  BY <1>1, Bounds, SMT DEF QueuesInv, Queues, NewQueue
<1>3. OthersDone
  BY <1>1, SMT DEF OthersDone, NewQueue
<1> QED
  BY <1>1, <1>2, <1>3 DEF IdleInv, CurrentInv

\* A push or a pop changes one queue, the one of the loop.
LEMMA OneQueueChanges ==
  ASSUME IdleInv, NEW r \in Queues, ext_tasks_queue \in 1 .. MaxExecutors,
         queues' = [queues EXCEPT ![ext_tasks_queue] = r],
         UNCHANGED ext_tasks_queue
  PROVE  /\ queues' \in [1 .. MaxExecutors -> Queues]
         /\ DOMAIN queues' = DOMAIN queues
         /\ Elements' = r.elements
         /\ \A q \in DOMAIN queues : q # ext_tasks_queue => queues'[q].elements = <<>>
<1>1. queues \in [1 .. MaxExecutors -> Queues]
  BY DEF IdleInv, QueuesInv
<1>2. queues' \in [1 .. MaxExecutors -> Queues]
  BY <1>1
<1>3. Elements' = r.elements
  BY <1>1 DEF Elements
<1>4. \A q \in DOMAIN queues : q # ext_tasks_queue => queues'[q].elements = <<>>
  BY <1>1 DEF IdleInv, OthersDone
<1> QED
  BY <1>1, <1>2, <1>3, <1>4

LEMMA MyQueueType ==
  ASSUME IdleInv, ext_tasks_queue \in 1 .. MaxExecutors
  PROVE  /\ MyQueue \in Queues /\ Elements = MyQueue.elements
         /\ Elements \in Seq(Nat) /\ MyQueue.waiting \in SUBSET {Loop}
<1>1. queues \in [1 .. MaxExecutors -> Queues]
  BY DEF IdleInv, QueuesInv
<1>2. MyQueue \in Queues
  BY <1>1 DEF MyQueue
<1> QED
  BY <1>2 DEF MyQueue, Elements, Queues

LEMMA PushIsTyped ==
  ASSUME NEW q \in Queues, NEW n \in Nat
  PROVE  Push(q, n) \in Queues /\ Push(q, n).elements = Append(q.elements, n)
<1>1. q.elements \in Seq(Nat) /\ q.waiting \in SUBSET {Loop}
  BY DEF Queues
<1>2. Append(q.elements, n) \in Seq(Nat)
  BY <1>1, AppendElement
<1>3. (IF q.elements = <<>> THEN {} ELSE q.waiting) \in SUBSET {Loop}
  BY <1>1
<1> QED
  BY <1>2, <1>3 DEF Push, Queues

LEMMA ExecuteKeepsIdle ==
  ASSUME IdleInv, NEW e \in DOMAIN executors, NEW h \in executors[e].holders, Execute(h, e)
  PROVE  IdleInv'
<1>1. /\ e = mt_executor_wptr /\ ext_tasks_queue \in 1 .. MaxExecutors
      /\ executors[e].queue = ext_tasks_queue /\ executors[e].destroyed = FALSE
      /\ NoNull(group) /\ NoNull(Elements)
  BY OneExecutor
<1>2. MyQueue \in Queues /\ Elements = MyQueue.elements /\ Elements \in Seq(Nat)
  BY <1>1, MyQueueType
<1>3. n_ext \in Nat /\ n_ext + 1 \in Nat /\ n_ext + 1 # Null
  BY SMT DEF IdleInv, QueuesInv, Null
<1>4. /\ Push(MyQueue, n_ext + 1) \in Queues
      /\ Push(MyQueue, n_ext + 1).elements = Append(Elements, n_ext + 1)
  BY <1>2, <1>3, PushIsTyped
<1>5. /\ queues' = [queues EXCEPT ![ext_tasks_queue] = Push(MyQueue, n_ext + 1)]
      /\ n_ext' = n_ext + 1
      /\ UNCHANGED <<pc, n_queues, ext_tasks_queue, mt_executor_wptr, executors, group>>
  BY <1>1 DEF Execute, MyQueue, run_vars
<1>6. /\ queues' \in [1 .. MaxExecutors -> Queues] /\ DOMAIN queues' = DOMAIN queues
      /\ Elements' = Append(Elements, n_ext + 1)
      /\ \A q \in DOMAIN queues : q # ext_tasks_queue => queues'[q].elements = <<>>
  BY <1>1, <1>4, <1>5, OneQueueChanges
<1>7. NoNull(Elements')
  BY <1>1, <1>2, <1>3, <1>6, AppendElement
<1>8. QueuesInv'
  BY <1>3, <1>5, <1>6 DEF IdleInv, QueuesInv
<1>9. OthersDone'
  BY <1>5, <1>6 DEF IdleInv, OthersDone
<1>10. CurrentInv'
  BY <1>1, <1>5, <1>7 DEF IdleInv, CurrentInv
<1> QED
  BY <1>8, <1>9, <1>10 DEF IdleInv

LEMMA ReplaceElement ==
  \A S : \A s \in Seq(S) : \A i \in 1 .. Len(s), x \in S :
     [s EXCEPT ![i] = x] \in Seq(S) /\ Len([s EXCEPT ![i] = x]) = Len(s)
  BY ExceptSeq


\* One executor changes: the one in use, before it is destroyed.
LEMMA OneExecutorChanges ==
  ASSUME IdleInv, NEW e \in DOMAIN executors, NEW H \in SUBSET (Threads \cup {Loop}),
         NEW b \in BOOLEAN, e = mt_executor_wptr,
         executors' = [executors EXCEPT ![e].holders = H, ![e].destroyed = b],
         UNCHANGED mt_executor_wptr
  PROVE  /\ executors' \in Seq(ExecutorStates) /\ Len(executors') = Len(executors)
         /\ DOMAIN executors' = DOMAIN executors
         /\ executors'[e].queue = executors[e].queue
         /\ executors'[e].holders = H /\ executors'[e].destroyed = b
         /\ \A x \in DOMAIN executors : x # e => executors'[x] = executors[x]
<1>1. executors \in Seq(ExecutorStates)
  BY DEF IdleInv, QueuesInv
<1>2. executors[e] \in ExecutorStates
  BY <1>1
<1> DEFINE r == [executors[e] EXCEPT !.holders = H, !.destroyed = b]
<1>3. /\ r \in ExecutorStates /\ r.queue = executors[e].queue
      /\ r.holders = H /\ r.destroyed = b
  BY <1>2 DEF ExecutorStates
<1>4. executors' = [executors EXCEPT ![e] = r]
  BY <1>1, <1>2
<1> HIDE DEF r
<1>5. executors' \in Seq(ExecutorStates) /\ Len(executors') = Len(executors)
  <2>1. e \in 1 .. Len(executors)
    BY <1>1
  <2>2. \A i \in 1 .. Len(executors), x \in ExecutorStates :
          /\ [executors EXCEPT ![i] = x] \in Seq(ExecutorStates)
          /\ Len([executors EXCEPT ![i] = x]) = Len(executors)
    BY <1>1, ReplaceElement
  <2>3. r \in ExecutorStates
    BY <1>3
  <2>4. /\ [executors EXCEPT ![e] = r] \in Seq(ExecutorStates)
        /\ Len([executors EXCEPT ![e] = r]) = Len(executors)
    BY <2>1, <2>2, <2>3
  <2> QED
    BY <1>4, <2>4, Zenon
<1>6. executors'[e] = r /\ DOMAIN executors' = DOMAIN executors
  BY <1>4
<1> QED
  BY <1>3, <1>4, <1>5, <1>6

LEMMA CopyKeepsIdle ==
  ASSUME IdleInv, NEW e \in DOMAIN executors, NEW h \in executors[e].holders,
         NEW t \in Threads, CopyExecutor(h, e, t)
  PROVE  IdleInv'
<1>1. /\ e = mt_executor_wptr /\ executors[e].destroyed = FALSE
      /\ NoNull(group) /\ NoNull(Elements)
  BY OneExecutor
<1>2. executors[e] \in ExecutorStates
  BY DEF IdleInv, QueuesInv
<1>3. executors[e].holders \cup {t} \in SUBSET (Threads \cup {Loop})
  BY <1>2 DEF ExecutorStates
<1>4. executors' = [executors EXCEPT ![e].holders = executors[e].holders \cup {t},
                                     ![e].destroyed = FALSE]
  <2>1. executors[e] = [executors[e] EXCEPT !.destroyed = FALSE]
    BY <1>1, <1>2 DEF ExecutorStates
  <2> QED
    BY <1>1, <1>2 DEF CopyExecutor, ExecutorStates
<1>5. UNCHANGED <<pc, n_queues, ext_tasks_queue, mt_executor_wptr, queues, group, n_ext>>
  BY DEF CopyExecutor, run_vars
<1>6. /\ executors' \in Seq(ExecutorStates) /\ Len(executors') = Len(executors)
      /\ DOMAIN executors' = DOMAIN executors
      /\ executors'[e].queue = executors[e].queue /\ executors'[e].destroyed = FALSE
      /\ \A x \in DOMAIN executors : x # e => executors'[x] = executors[x]
  BY <1>1, <1>3, <1>4, <1>5, OneExecutorChanges
<1>7. QueuesInv'
  BY <1>5, <1>6 DEF IdleInv, QueuesInv
<1>8. OthersDone'
  BY <1>1, <1>5, <1>6 DEF IdleInv, OthersDone
<1>9. CurrentInv'
  BY <1>1, <1>5, <1>6 DEF IdleInv, CurrentInv, Elements
<1> QED
  BY <1>7, <1>8, <1>9 DEF IdleInv

\* The last holder leaves: the null is pushed now, or in a step of its own.
LEMMA ReleaseKeepsIdle ==
  ASSUME IdleInv, NEW e \in DOMAIN executors,
         executors[e].holders # {} \/ ~executors[e].destroyed,
         NEW H \in SUBSET (Threads \cup {Loop}), NEW now \in BOOLEAN, now => H = {},
         executors' = [executors EXCEPT ![e].holders = H, ![e].destroyed = now],
         IF now THEN PushNull(e) ELSE UNCHANGED queues,
         UNCHANGED <<pc, n_queues, ext_tasks_queue, mt_executor_wptr, group, n_ext>>
  PROVE  IdleInv'
<1>1. /\ e = mt_executor_wptr /\ ext_tasks_queue \in 1 .. MaxExecutors
      /\ executors[e].queue = ext_tasks_queue
      /\ executors[e].destroyed = FALSE
      /\ NoNull(group) /\ NoNull(Elements)
  BY OneExecutor
<1>2. /\ executors' \in Seq(ExecutorStates) /\ Len(executors') = Len(executors)
      /\ DOMAIN executors' = DOMAIN executors
      /\ executors'[e].queue = executors[e].queue /\ executors'[e].destroyed = now
      /\ executors'[e].holders = H
      /\ \A x \in DOMAIN executors : x # e => executors'[x] = executors[x]
  BY <1>1, OneExecutorChanges
<1>3. CASE now
  <2>1. MyQueue \in Queues /\ Elements = MyQueue.elements /\ Elements \in Seq(Nat)
    BY <1>1, MyQueueType
  <2>2. Null \in Nat
    BY SMT DEF Null
  <2>3. Push(MyQueue, Null) \in Queues /\ Push(MyQueue, Null).elements = Append(Elements, Null)
    BY <2>1, <2>2, PushIsTyped
  <2>4. queues' = [queues EXCEPT ![ext_tasks_queue] = Push(MyQueue, Null)]
    BY <1>1, <1>3 DEF PushNull, MyQueue
  <2>5. /\ queues' \in [1 .. MaxExecutors -> Queues] /\ DOMAIN queues' = DOMAIN queues
        /\ Elements' = Append(Elements, Null)
        /\ \A q \in DOMAIN queues : q # ext_tasks_queue => queues'[q].elements = <<>>
    BY <1>1, <2>3, <2>4, OneQueueChanges
  <2>6. NullLast(Elements')
    BY <1>1, <2>1, <2>2, <2>5, AppendElement
  <2>7. QueuesInv'
    BY <1>2, <2>5 DEF IdleInv, QueuesInv
  <2>8. OthersDone'
    BY <1>1, <1>2, <2>5 DEF IdleInv, OthersDone
  <2>9. CurrentInv'
    BY <1>1, <1>2, <1>3, <2>6 DEF IdleInv, CurrentInv
  <2> QED
    BY <2>7, <2>8, <2>9 DEF IdleInv
<1>4. CASE ~now
  <2>1. UNCHANGED queues
    BY <1>4
  <2>2. QueuesInv'
    BY <1>2, <2>1 DEF IdleInv, QueuesInv
  <2>3. OthersDone'
    BY <1>1, <1>2, <2>1 DEF IdleInv, OthersDone
  <2>4. CurrentInv'
    BY <1>1, <1>2, <1>4, <2>1 DEF IdleInv, CurrentInv, Elements
  <2> QED
    BY <2>2, <2>3, <2>4 DEF IdleInv
<1> QED
  BY <1>3, <1>4

LEMMA DropKeepsIdle ==
  ASSUME IdleInv, NEW e \in DOMAIN executors, NEW h \in executors[e].holders,
         DropExecutor(h, e)
  PROVE  IdleInv'
<1> DEFINE left == executors[e].holders \ {h}
           now == left = {} /\ h = Loop
<1>1. executors[e] \in ExecutorStates
  BY DEF IdleInv, QueuesInv
<1>2. left \in SUBSET (Threads \cup {Loop}) /\ now \in BOOLEAN
  BY <1>1 DEF ExecutorStates
<1>3. /\ executors' = [executors EXCEPT ![e].holders = left, ![e].destroyed = now]
      /\ IF now THEN PushNull(e) ELSE UNCHANGED queues
      /\ UNCHANGED <<pc, n_queues, ext_tasks_queue, mt_executor_wptr, group, n_ext>>
  BY DEF DropExecutor, run_vars
<1>4. executors[e].holders # {} /\ (now => left = {})
  OBVIOUS
<1> HIDE DEF left, now
<1> QED
  BY <1>2, <1>3, <1>4, ReleaseKeepsIdle

LEMMA DestroyKeepsIdle ==
  ASSUME IdleInv, NEW e \in DOMAIN executors, DestroyExecutor(e)
  PROVE  IdleInv'
<1>1. executors[e] \in ExecutorStates /\ executors[e].holders = {} /\ ~executors[e].destroyed
  BY DEF IdleInv, QueuesInv, DestroyExecutor
<1>2. /\ executors' = [executors EXCEPT ![e].destroyed = TRUE]
      /\ PushNull(e)
      /\ UNCHANGED <<pc, n_queues, ext_tasks_queue, mt_executor_wptr, group, n_ext>>
  BY DEF DestroyExecutor, run_vars
<1>3. executors[e] = [executors[e] EXCEPT !.holders = {}]
  BY <1>1 DEF ExecutorStates
<1>4. executors' = [executors EXCEPT ![e].holders = {}, ![e].destroyed = TRUE]
  BY <1>1, <1>2, <1>3 DEF ExecutorStates
<1>5. {} \in SUBSET (Threads \cup {Loop}) /\ TRUE \in BOOLEAN
  OBVIOUS
<1> QED
  BY <1>1, <1>2, <1>4, <1>5, ReleaseKeepsIdle

LEMMA MakeKeepsIdle == ASSUME IdleInv, ~EarlyReacquire, GetMtExecutor PROVE IdleInv'
<1>1. /\ executors \in Seq(ExecutorStates) /\ Len(executors) \in Nat
      /\ DOMAIN executors = 1 .. Len(executors)
      /\ n_queues = Len(executors) /\ mt_executor_wptr \in 0 .. Len(executors)
      /\ queues \in [1 .. MaxExecutors -> Queues]
      /\ ext_tasks_queue = 0 <=> mt_executor_wptr = 0
  BY DEF IdleInv, QueuesInv
<1>2. pc # "group" /\ pc # "acquire" /\ group = <<>>
  BY DEF GetMtExecutor, InUserCode, IdleInv, OthersDone
<1>3. ~NullInFlight /\ UNCHANGED <<pc, queues, n_ext, group>>
  BY DEF GetMtExecutor, run_vars
<1>4. CASE ext_tasks_queue = 0
  <2>1. ~Locked(mt_executor_wptr)
    BY <1>1, <1>4 DEF Locked
  <2> DEFINE n == Len(executors) + 1
             x == [queue |-> n, holders |-> {Loop}, destroyed |-> FALSE]
  <2>2. /\ ext_tasks_queue' = n /\ n_queues' = n /\ mt_executor_wptr' = n
        /\ Len(executors) < MaxExecutors /\ executors' = Append(executors, x)
    BY <1>1, <1>4, <2>1 DEF GetMtExecutor
  <2>3. n \in 1 .. MaxExecutors /\ n # 0
    BY <1>1, <2>2, Bounds, SMT
  <2>4. x \in ExecutorStates
    BY <2>3 DEF ExecutorStates
  <2>5. /\ executors' \in Seq(ExecutorStates) /\ Len(executors') = n
        /\ DOMAIN executors' = 1 .. n /\ executors'[n] = x
        /\ \A e \in 1 .. n : e # n => e \in DOMAIN executors /\ executors'[e] = executors[e]
    <3> HIDE DEF x
    <3> QED
      BY <1>1, <2>2, <2>4, SMT
  <2>6. n \notin DOMAIN executors
    BY <1>1, SMT
  <2>7. \A e \in DOMAIN executors :
          executors[e].holders = {} /\ executors[e].destroyed = TRUE
    BY <1>1, <1>4 DEF IdleInv, OthersDone
  <2>8. \A q \in DOMAIN queues : queues[q].elements = <<>>
    BY <1>1, <1>4 DEF IdleInv, OthersDone
  <2> HIDE DEF n
  <2>9. QueuesInv'
    BY <1>3, <2>2, <2>3, <2>5, SMT DEF IdleInv, QueuesInv
  <2>10. OthersDone'
    BY <1>2, <1>3, <2>2, <2>5, <2>7, <2>8 DEF OthersDone
  <2>11. NoNull(group') /\ NoNull(Elements')
    BY <1>1, <1>2, <1>3, <2>2, <2>3, <2>8 DEF NoNull, Elements
  <2>12. CurrentInv'
    BY <2>2, <2>5, <2>11 DEF CurrentInv
  <2> QED
    BY <2>9, <2>10, <2>12 DEF IdleInv
<1>5. CASE ext_tasks_queue # 0
  <2> DEFINE e == mt_executor_wptr
  <2>1. e \in DOMAIN executors /\ e # 0 /\ ext_tasks_queue \in 1 .. MaxExecutors
    BY <1>1, <1>5, Bounds, SMT DEF IdleInv, QueuesInv
  <2>2. executors[e] \in ExecutorStates
    BY <1>1, <2>1
  <2>3. executors[e].destroyed \in BOOLEAN
    BY <2>2 DEF ExecutorStates
  <2>4. ~NullLast(group)
    BY <1>2 DEF NullLast
  <2>5. Elements \in Seq(Nat)
    BY <2>1, MyQueueType
  <2>6. ~NullLast(Elements)
    <3> SUFFICES ASSUME NullLast(Elements) PROVE FALSE
      OBVIOUS
    <3>1. Elements # <<>> /\ Elements[Len(Elements)] = Null
      BY DEF NullLast
    <3>2. Len(Elements) \in 1 .. Len(Elements)
      BY <2>5, <3>1, EmptySeq, SMT
    <3>3. Contains(Elements, Null)
      BY <3>1, <3>2 DEF Contains
    <3>4. ext_tasks_queue \in DOMAIN queues
      BY <1>1, <2>1
    <3> QED
      BY <1>3, <3>3, <3>4 DEF NullInFlight, Elements
  <2>7. executors[e].destroyed = FALSE
    BY <2>1, <2>3, <2>4, <2>6 DEF IdleInv, CurrentInv
  <2>8. executors[e].holders # {}
    BY <1>3, <2>1, <2>7 DEF NullInFlight
  <2>9. Locked(e)
    BY <2>1, <2>8 DEF Locked
  <2>10. /\ executors' = [executors EXCEPT ![e].holders = executors[e].holders \cup {Loop}]
         /\ UNCHANGED <<mt_executor_wptr, ext_tasks_queue, n_queues>>
    BY <1>5, <2>9 DEF GetMtExecutor
  <2>11. executors[e] = [executors[e] EXCEPT !.destroyed = FALSE]
    BY <2>2, <2>7 DEF ExecutorStates
  <2> DEFINE H == executors[e].holders \cup {Loop}
  <2>12. executors' = [executors EXCEPT ![e].holders = H, ![e].destroyed = FALSE]
    BY <2>1, <2>2, <2>10, <2>11 DEF ExecutorStates
  <2>13. H \in SUBSET (Threads \cup {Loop}) /\ FALSE \in BOOLEAN
    BY <2>2 DEF ExecutorStates
  <2>14. (FALSE => H = {}) /\ (IF FALSE THEN PushNull(e) ELSE UNCHANGED queues)
    BY <1>3
  <2>15. UNCHANGED <<pc, n_queues, ext_tasks_queue, mt_executor_wptr, group, n_ext>>
    BY <1>3, <2>10
  <2> HIDE DEF H, e
  <2> QED
    BY <2>1, <2>8, <2>12, <2>13, <2>14, <2>15, ReleaseKeepsIdle
<1> QED
  BY <1>4, <1>5

LEMMA WaitingKeepsIdle == ASSUME IdleInv, WaitForElements \/ WakeUp PROVE IdleInv'
<1>1. ext_tasks_queue \in 1 .. MaxExecutors
  <2>1. pc = "acquire"
    BY DEF WaitForElements, WakeUp
  <2> QED
    BY <2>1, Bounds, SMT DEF IdleInv, OthersDone, QueuesInv
<1>2. MyQueue \in Queues /\ Elements = MyQueue.elements
  BY <1>1, MyQueueType
<1>3. PICK w \in SUBSET {Loop} : queues' = [queues EXCEPT ![ext_tasks_queue] =
                                            [MyQueue EXCEPT !.waiting = w]]
  <2>1. CASE WaitForElements
    BY <1>2, <2>1 DEF WaitForElements, SetMyQueue, Block, Queues
  <2>2. CASE WakeUp
    BY <1>2, <2>2 DEF WakeUp, SetMyQueue, Wake, Queues
  <2> QED
    BY <2>1, <2>2
<1>4. [MyQueue EXCEPT !.waiting = w] \in Queues
      /\ [MyQueue EXCEPT !.waiting = w].elements = Elements
  BY <1>2 DEF Queues
<1>5. UNCHANGED <<pc, n_queues, ext_tasks_queue, mt_executor_wptr, executors, n_ext, group>>
  BY DEF WaitForElements, WakeUp, run_vars
<1>6. /\ queues' \in [1 .. MaxExecutors -> Queues] /\ DOMAIN queues' = DOMAIN queues
      /\ Elements' = Elements
      /\ \A q \in DOMAIN queues : q # ext_tasks_queue => queues'[q].elements = <<>>
  BY <1>1, <1>3, <1>4, <1>5, OneQueueChanges
<1>7. QueuesInv'
  BY <1>5, <1>6 DEF IdleInv, QueuesInv
<1>8. OthersDone'
  BY <1>5, <1>6 DEF IdleInv, OthersDone
<1>9. CurrentInv'
  BY <1>5, <1>6 DEF IdleInv, CurrentInv
<1> QED
  BY <1>7, <1>8, <1>9 DEF IdleInv

LEMMA TakeKeepsIdle == ASSUME IdleInv, TakeGroup PROVE IdleInv'
<1>1. ext_tasks_queue \in 1 .. MaxExecutors /\ pc = "acquire" /\ group = <<>>
  BY Bounds, SMT DEF IdleInv, OthersDone, QueuesInv, TakeGroup
<1>2. MyQueue \in Queues /\ Elements = MyQueue.elements /\ Elements \in Seq(Nat)
  BY <1>1, MyQueueType
<1>3. PopAll(MyQueue) \in Queues /\ PopAll(MyQueue).elements = <<>>
  BY <1>2, EmptySeq DEF PopAll, Queues
<1>4. /\ queues' = [queues EXCEPT ![ext_tasks_queue] = PopAll(MyQueue)]
      /\ group' = Elements /\ pc' = "group"
      /\ UNCHANGED <<n_queues, ext_tasks_queue, mt_executor_wptr, executors, n_ext>>
  BY <1>2 DEF TakeGroup, SetMyQueue
<1>5. /\ queues' \in [1 .. MaxExecutors -> Queues] /\ DOMAIN queues' = DOMAIN queues
      /\ Elements' = <<>>
      /\ \A q \in DOMAIN queues : q # ext_tasks_queue => queues'[q].elements = <<>>
  BY <1>1, <1>3, <1>4, OneQueueChanges
<1>6. NoNull(<<>>) /\ ~NullLast(<<>>)
  BY DEF NoNull, NullLast
<1>7. QueuesInv'
  BY <1>2, <1>4, <1>5 DEF IdleInv, QueuesInv
<1>8. OthersDone'
  BY <1>1, <1>4, <1>5, SMT DEF IdleInv, OthersDone
<1>9. CurrentInv'
  BY <1>1, <1>4, <1>5, <1>6 DEF IdleInv, CurrentInv
<1> QED
  BY <1>7, <1>8, <1>9 DEF IdleInv

LEMMA MoveKeepsIdle == ASSUME IdleInv, MoveTask PROVE IdleInv'
<1>1. /\ group # <<>> /\ Head(group) # Null /\ group' = Tail(group)
      /\ UNCHANGED <<pc, n_queues, ext_tasks_queue, mt_executor_wptr, executors, n_ext, queues>>
  BY DEF MoveTask, run_vars
<1>2. group \in Seq(Nat)
  BY DEF IdleInv, QueuesInv
<1>3. /\ group' \in Seq(Nat)
      /\ NoNull(group) => NoNull(group')
      /\ NullLast(group) => NullLast(group')
  BY <1>1, <1>2, TailOfElements
<1>4. QueuesInv'
  BY <1>1, <1>3 DEF IdleInv, QueuesInv
<1>5. OthersDone'
  BY <1>1 DEF IdleInv, OthersDone
<1>6. CurrentInv'
  BY <1>1, <1>3 DEF IdleInv, CurrentInv, Elements
<1> QED
  BY <1>4, <1>5, <1>6 DEF IdleInv

\* The null is the last of the group and of the queue, and its executor gone.
LEMMA NullKeepsIdle == ASSUME IdleInv, ReadNull PROVE IdleInv'
<1>1. /\ group # <<>> /\ Head(group) = Null /\ group' = Tail(group) /\ pc = "group"
      /\ ext_tasks_queue' = 0 /\ mt_executor_wptr' = 0
      /\ UNCHANGED <<pc, n_queues, executors, n_ext, queues>>
  BY DEF ReadNull, run_vars
<1>2. /\ group \in Seq(Nat) /\ ext_tasks_queue # 0 /\ mt_executor_wptr # 0
      /\ mt_executor_wptr \in DOMAIN executors
  BY <1>1, SMT DEF IdleInv, QueuesInv, OthersDone
<1>3. ~NoNull(group)
  BY <1>1, <1>2, TailOfElements
<1> DEFINE x == executors[mt_executor_wptr]
<1>4. x.destroyed \in BOOLEAN
  <2>1. x \in ExecutorStates
    BY <1>2 DEF IdleInv, QueuesInv
  <2> QED
    BY <2>1 DEF ExecutorStates
<1>5. x.destroyed = TRUE /\ x.holders = {} /\ NullLast(group) /\ Elements = <<>>
  BY <1>2, <1>3, <1>4 DEF IdleInv, CurrentInv
<1>6. group' = <<>>
  BY <1>1, <1>2, <1>5, TailOfElements
<1>7. \A e \in DOMAIN executors :
        executors[e].holders = {} /\ executors[e].destroyed = TRUE
  BY <1>5 DEF IdleInv, OthersDone
<1>8. \A q \in DOMAIN queues : queues[q].elements = <<>>
  BY <1>5 DEF IdleInv, OthersDone, Elements
<1>9. QueuesInv'
  <2>1. <<>> \in Seq(Nat)
    BY EmptySeq
  <2> QED
    BY <1>1, <1>6, <2>1, SMT DEF IdleInv, QueuesInv
<1>10. OthersDone'
  BY <1>1, <1>6, <1>7, <1>8, SMT DEF OthersDone
<1>11. CurrentInv'
  BY <1>1 DEF CurrentInv
<1> QED
  BY <1>9, <1>10, <1>11 DEF IdleInv

LEMMA NextIdle == ASSUME ~EarlyReacquire, IdleInv, [Next]_vars PROVE IdleInv'
<1>1. CASE (\E t \in Tasks!Times : InvokeAt(t)) \/ (\E k \in pending_tasks : DisableTask(k))
  <2>1. IdleRests /\ pc' = pc
    BY <1>1 DEF InvokeAt, DisableTask, run_vars, ext_vars, IdleRests
  <2> QED
    BY <2>1, RestKeepsIdle DEF IdleInv, OthersDone
<1>2. CASE Quit \/ TaskReturns \/ RunTask \/ NoTaskDue \/ Tick \/ UNCHANGED vars
  <2>1. IdleRests /\ pc' = pc
    BY <1>2
    DEF Quit, TaskReturns, RunTask, NoTaskDue, Tick, vars, run_vars, ext_vars, IdleRests
  <2> QED
    BY <2>1, RestKeepsIdle DEF IdleInv, OthersDone
<1>3. CASE RunIterations \/ AfterTasks \/ GroupDone \/ Sleep \/ Iterate
  <2>1. IdleRests /\ group = <<>> /\ (pc' = "acquire" => ext_tasks_queue # 0)
    BY <1>3
    DEF RunIterations, AfterTasks, Return, GroupDone, Sleep, UpdateTime, Iterate, ext_vars,
        IdleRests, IdleInv, OthersDone
  <2> QED
    BY <2>1, RestKeepsIdle
<1>4. CASE GetMtExecutor
  BY <1>4, MakeKeepsIdle
<1>5. CASE ExecutorCall
  BY <1>5, ExecuteKeepsIdle, DropKeepsIdle, CopyKeepsIdle DEF ExecutorCall
<1>6. CASE \E e \in DOMAIN executors : DestroyExecutor(e)
  BY <1>6, DestroyKeepsIdle
<1>7. CASE WaitForElements \/ WakeUp \/ WaitTimesOut
  BY <1>7, WaitingKeepsIdle DEF WaitTimesOut
<1>8. CASE TakeGroup \/ MoveTask \/ ReadNull
  BY <1>8, TakeKeepsIdle, MoveKeepsIdle, NullKeepsIdle
<1> QED
  BY <1>1, <1>2, <1>3, <1>4, <1>5, <1>6, <1>7, <1>8 DEF Next, LoopStep

(* While executors are not made before the null of the one before is read, *)
(* a run that returns as idle leaves no task of an executor undone, and    *)
(* nobody holds an executor to give the loop another one.                  *)
THEOREM IdleIsDone == ASSUME ~EarlyReacquire PROVE Spec => IdleOnlyWhenDone
<1> DEFINE Done == UndoneTasks = {} /\ ~Referenced
           Idles == pc = "tasks" /\ pc' = "stopped" /\ result' = "ok"
<1>1. Spec => []IdleInv
  BY InitIdle, NextIdle, PTL DEF Spec
<1>2. ASSUME IdleInv, Next, Idles PROVE Done
  <2>1. AfterTasks
    <3>1. \A t \in Tasks!Times : ~InvokeAt(t)
      BY <1>2 DEF InvokeAt, run_vars
    <3>2. \A k \in pending_tasks : ~DisableTask(k)
      BY <1>2 DEF DisableTask, run_vars
    <3>3. ~ExecutorCall
      BY <1>2 DEF ExecutorCall, Execute, DropExecutor, CopyExecutor, run_vars
    <3>4. \A e \in DOMAIN executors : ~DestroyExecutor(e)
      BY <1>2 DEF DestroyExecutor, run_vars
    <3> QED
      BY <1>2, <3>1, <3>2, <3>3, <3>4
      DEF Next, LoopStep, Quit, GetMtExecutor, RunIterations, TaskReturns, RunTask,
          NoTaskDue, WaitForElements, TakeGroup, MoveTask, ReadNull, GroupDone, WaitTimesOut,
          WakeUp, Sleep, Iterate, UpdateTime, Tick, run_vars
  <2>2. ext_tasks_queue = 0 /\ pending_tasks = {}
    BY <1>2, <2>1 DEF AfterTasks, Return, IsIdle
  <2>3. mt_executor_wptr = 0 /\ group = <<>>
    BY <1>2, <2>2 DEF IdleInv, QueuesInv, OthersDone
  <2>4. \A q \in DOMAIN queues : queues[q].elements = <<>>
    <3>1. \A q \in DOMAIN queues : q # 0
      BY <1>2, SMT DEF IdleInv, QueuesInv
    <3> QED
      BY <1>2, <2>2, <3>1 DEF IdleInv, OthersDone
  <2>5. ~Referenced
    <3>1. \A e \in DOMAIN executors : e # 0
      BY <1>2, SMT DEF IdleInv, QueuesInv
    <3> QED
      BY <1>2, <2>3, <3>1 DEF IdleInv, OthersDone, Referenced
  <2>6. UndoneTasks = {}
    BY <2>2, <2>3, <2>4 DEF UndoneTasks, Range
  <2> QED
    BY <2>5, <2>6
<1>3. IdleInv /\ [Next]_vars => [Idles => Done]_vars
  BY <1>2
<1> HIDE DEF Done, Idles
<1> QED
  BY <1>1, <1>3, PTL DEF Spec, IdleOnlyWhenDone, Done, Idles

-----------------------------------------------------------------------------
(* The places of the tasks that executors took.                             *)

(* A non-empty set of naturals has a least element. *)
LEMMA LeastPlace ==
  ASSUME NEW T, T \subseteq Nat, T # {}
  PROVE  \E x \in T : \A y \in T : x <= y
<1> DEFINE R == {ss \in Nat \X Nat : ss[1] < ss[2]}
<1>1. IsWellFoundedOn(R, Nat)
  BY NatLessThanWellFounded DEF OpToRel
<1> HIDE DEF R
<1>2. \E x \in T : \A y \in T : ~(<<y, x>> \in R)
  BY <1>1, WFMin, Zenon
<1>3. PICK x \in T : \A y \in T : ~(<<y, x>> \in R)
  BY <1>2
<1>4. \A y \in T : ~(y < x)
  BY <1>3 DEF R
<1> QED
  BY <1>4

(* The elements at consecutive places are a subsequence.  The function that *)
(* Among defines is the only one with its equation, as two of them would    *)
(* have a first place where they differ.                                    *)
LEMMA AmongInterval ==
  ASSUME NEW S, NEW s \in Seq(S), NEW a \in 1 .. Len(s) + 1, NEW b \in a - 1 .. Len(s)
  PROVE  Among(s, a .. b) = SubSeq(s, a, b)
<1> DEFINE Step(f, i) == IF i = 0 THEN <<>>
                         ELSE IF i \in a .. b THEN Append(f[i - 1], s[i]) ELSE f[i - 1]
           Fits(f) == f = [i \in 0 .. Len(s) |-> Step(f, i)]
           Upto(i) == IF i < a THEN <<>> ELSE SubSeq(s, a, IF i <= b THEN i ELSE b)
           g == [i \in 0 .. Len(s) |-> Upto(i)]
           f == CHOOSE h : Fits(h)
<1>1. Len(s) \in Nat /\ a \in Nat /\ b \in Nat /\ a >= 1 /\ a <= b + 1 /\ b <= Len(s)
  BY LenProperties
<1>2. Among(s, a .. b) = f[Len(s)]
  BY DEF Among
<1> HIDE DEF f
<1>3. ASSUME NEW i \in 0 .. Len(s) PROVE Upto(i) = Step(g, i)
  <2>1. CASE i < a
    BY <1>1, <2>1
  <2>2. CASE i = a /\ i <= b
    <3>1. SubSeq(s, a, a) = SubSeq(s, a, a - 1) \o <<s[a]>>
      BY <1>1, <2>2, SubSeqRecursiveSecond
    <3>2. SubSeq(s, a, a - 1) = <<>>
      BY <1>1, SubSeqEmpty
    <3>3. s[a] \in S
      BY <1>1, <2>2, ElementOfSeq
    <3>4. Append(<<>>, s[a]) = <<>> \o <<s[a]>>
      BY <3>3, AppendIsConcat, EmptySeq
    <3>5. g[i - 1] = <<>>
      BY <1>1, <2>2
    <3>6. Upto(i) = SubSeq(s, a, a)
      BY <1>1, <2>2
    <3>7. Step(g, i) = Append(<<>>, s[a])
      <4>1. i # 0 /\ i \in a .. b /\ i = a
        BY <1>1, <2>2
      <4> HIDE DEF g
      <4> QED
        BY <3>5, <4>1
    <3> HIDE DEF Upto, Step
    <3> QED
      BY <3>1, <3>2, <3>4, <3>6, <3>7
  <2>3. CASE i > a /\ i <= b
    <3>1. SubSeq(s, a, i) = SubSeq(s, a, i - 1) \o <<s[i]>>
      BY <1>1, <2>3, SubSeqRecursiveSecond
    <3>2. SubSeq(s, a, i - 1) \in Seq(S) /\ s[i] \in S
      <4>1. \A j \in a .. i - 1 : s[j] \in S
        BY <1>1, <2>3, ElementOfSeq
      <4>2. SubSeq(s, a, i - 1) \in Seq(S)
        BY <1>1, <2>3, <4>1, SubSeqProperties
      <4> QED
        BY <1>1, <2>3, <4>2, ElementOfSeq
    <3>3. g[i - 1] = SubSeq(s, a, i - 1)
      BY <1>1, <2>3
    <3>4. Upto(i) = SubSeq(s, a, i)
      BY <1>1, <2>3
    <3>5. Step(g, i) = Append(SubSeq(s, a, i - 1), s[i])
      BY <1>1, <2>3, <3>3
    <3>6. Append(SubSeq(s, a, i - 1), s[i]) = SubSeq(s, a, i - 1) \o <<s[i]>>
      BY <3>2, AppendIsConcat
    <3> HIDE DEF Upto, Step
    <3> QED
      BY <3>1, <3>4, <3>5, <3>6
  <2>4. CASE i >= a /\ i > b
    <3>1. Step(g, i) = g[i - 1] /\ i - 1 \in 0 .. Len(s)
      BY <1>1, <2>4
    <3>2. Upto(i) = SubSeq(s, a, b)
      BY <1>1, <2>4
    <3>3. CASE i = a
      <4>1. SubSeq(s, a, b) = <<>>
        BY <1>1, <2>4, <3>3, SubSeqEmpty
      <4>2. g[i - 1] = <<>>
        BY <1>1, <3>1, <3>3
      <4> QED
        BY <3>1, <3>2, <4>1, <4>2
    <3>4. CASE i > a
      <4>1. g[i - 1] = SubSeq(s, a, IF i - 1 <= b THEN i - 1 ELSE b)
        BY <1>1, <2>4, <3>1, <3>4
      <4>2. (IF i - 1 <= b THEN i - 1 ELSE b) = b
        BY <1>1, <2>4
      <4> QED
        BY <3>1, <3>2, <4>1, <4>2
    <3> QED
      BY <1>1, <2>4, <3>3, <3>4
  <2> QED
    BY <1>1, <2>1, <2>2, <2>3, <2>4
<1>4. Fits(g)
  <2> HIDE DEF Upto, Step
  <2> QED
    BY <1>3
<1>5. Fits(f)
  <2> HIDE DEF Fits, g
  <2> QED
    BY <1>4 DEF f
<1>6. \A i \in 0 .. Len(s) : f[i] = g[i]
  <2> DEFINE T == {i \in 0 .. Len(s) : f[i] # g[i]}
  <2> SUFFICES ASSUME T # {} PROVE FALSE
    OBVIOUS
  <2>1. T \subseteq Nat
    OBVIOUS
  <2>2. PICK x \in T : \A y \in T : x <= y
    <3> HIDE DEF T
    <3> QED
      BY <2>1, LeastPlace
  <2>3. x \in 0 .. Len(s) /\ f[x] # g[x]
    BY <2>2
  <2>4. f[x] = Step(f, x) /\ g[x] = Step(g, x)
    <3>1. \A h : Fits(h) => \A i \in 0 .. Len(s) : h[i] = Step(h, i)
      <4> HIDE DEF Step
      <4> QED
        OBVIOUS
    <3> HIDE DEF Fits, Step, g
    <3> QED
      BY <1>4, <1>5, <2>3, <3>1
  <2>5. CASE x = 0
    BY <2>3, <2>4, <2>5
  <2>6. CASE x # 0
    <3>1. x - 1 \in 0 .. Len(s) /\ ~(x <= x - 1)
      BY <1>1, <2>3, <2>6
    <3>2. f[x - 1] = g[x - 1]
      BY <2>2, <3>1
    <3> HIDE DEF g
    <3> QED
      BY <2>3, <2>4, <2>6, <3>2
  <2> QED
    BY <2>5, <2>6
<1>7. g[Len(s)] = SubSeq(s, a, b)
  <2>1. CASE Len(s) < a
    BY <1>1, <2>1, SubSeqEmpty
  <2>2. CASE Len(s) >= a
    BY <1>1, <2>2
  <2> QED
    BY <1>1, <2>1, <2>2
<1> HIDE DEF g
<1>8. f[Len(s)] = g[Len(s)]
  BY <1>1, <1>6
<1> QED
  BY <1>2, <1>7, <1>8

(* Of queues that are all empty but one, the elements are those of this one. *)
LEMMA FlattenOne ==
  ASSUME NEW n \in Nat, NEW s \in [1 .. n -> Seq(Nat)], NEW c \in Nat,
         \A q \in 1 .. n : q # c => s[q] = <<>>
  PROVE  /\ c \in 1 .. n => FlattenSeq(s) = s[c]
         /\ c \notin 1 .. n => FlattenSeq(s) = <<>>
<1> DEFINE Step(f, i) == IF i = 1 THEN s[i] ELSE f[i - 1] \o s[i]
           Fits(f) == f = [i \in 1 .. Len(s) |-> Step(f, i)]
           Upto(i) == IF c \in 1 .. i THEN s[c] ELSE <<>>
           g == [i \in 1 .. n |-> Upto(i)]
           f == CHOOSE h : Fits(h)
<1>1. s \in Seq(Seq(Nat)) /\ Len(s) = n
  OBVIOUS
<1>2. CASE n = 0
  <2>1. s = <<>>
    BY <1>1, <1>2, EmptySeq
  <2>2. FlattenSeq(s) = s
    BY <1>1, <1>2 DEF FlattenSeq
  <2> QED
    BY <1>2, <2>1, <2>2
<1>3. CASE n # 0
  <2>1. FlattenSeq(s) = f[n]
    BY <1>1, <1>3 DEF FlattenSeq
  <2> HIDE DEF f
  <2>2. ASSUME NEW i \in 1 .. n PROVE Upto(i) = Step(g, i)
    <3>1. Upto(i) \in Seq(Nat) /\ s[i] \in Seq(Nat)
      BY EmptySeq
    <3>2. CASE i = 1
      <4>1. c \in 1 .. i <=> c = i
        BY <3>2
      <4> QED
        BY <3>2, <4>1
    <3>3. CASE i # 1
      <4>1. i - 1 \in 1 .. n /\ (c \in 1 .. i <=> c \in 1 .. i - 1 \/ c = i)
        BY <3>3
      <4>2. Step(g, i) = Upto(i - 1) \o s[i]
        BY <3>3, <4>1
      <4>3. CASE c = i
        <5>1. Upto(i - 1) = <<>> /\ Upto(i) = s[i]
          BY <4>3
        <5> HIDE DEF Upto, Step
        <5> QED
          BY <3>1, <4>2, <5>1, ConcatEmptySeq
      <4>4. CASE c # i
        <5>1. s[i] = <<>> /\ Upto(i - 1) = Upto(i)
          BY <4>1, <4>4
        <5> HIDE DEF Upto, Step
        <5> QED
          BY <3>1, <4>2, <5>1, ConcatEmptySeq
      <4> QED
        BY <4>3, <4>4
    <3> QED
      BY <3>2, <3>3
  <2>3. Fits(g)
    <3> HIDE DEF Upto, Step
    <3> QED
      BY <1>1, <2>2
  <2>4. Fits(f)
    <3> HIDE DEF Fits, g
    <3> QED
      BY <2>3 DEF f
  <2>5. \A i \in 1 .. n : f[i] = g[i]
    <3> DEFINE T == {i \in 1 .. n : f[i] # g[i]}
    <3> SUFFICES ASSUME T # {} PROVE FALSE
      OBVIOUS
    <3>1. T \subseteq Nat
      OBVIOUS
    <3>2. PICK x \in T : \A y \in T : x <= y
      <4> HIDE DEF T
      <4> QED
        BY <3>1, LeastPlace
    <3>3. x \in 1 .. n /\ f[x] # g[x]
      BY <3>2
    <3>4. f[x] = Step(f, x) /\ g[x] = Step(g, x)
      <4>1. \A h : Fits(h) => \A i \in 1 .. n : h[i] = Step(h, i)
        <5> HIDE DEF Step
        <5> QED
          BY <1>1
      <4> HIDE DEF Fits, Step, g
      <4> QED
        BY <2>3, <2>4, <3>3, <4>1
    <3>5. CASE x = 1
      <4> HIDE DEF g
      <4> QED
        BY <3>3, <3>4, <3>5
    <3>6. CASE x # 1
      <4>1. x - 1 \in 1 .. n /\ ~(x <= x - 1)
        BY <3>3, <3>6
      <4>2. f[x - 1] = g[x - 1]
        BY <3>2, <4>1
      <4> HIDE DEF g
      <4> QED
        BY <3>3, <3>4, <3>6, <4>2
    <3> QED
      BY <3>5, <3>6
  <2>6. f[n] = g[n] /\ g[n] = Upto(n)
    <3>1. n \in 1 .. n
      BY <1>3
    <3> HIDE DEF Upto
    <3> QED
      BY <2>5, <3>1
  <2> QED
    BY <2>1, <2>6
<1> QED
  BY <1>2, <1>3

-----------------------------------------------------------------------------
(* What the contract of executors sees: the numbers of the tasks that the   *)
(* inner loop has yet to run, which are those it took last, then the group, *)
(* then the elements of the one queue in use, without a null at the end.    *)

Moves == [number : Nat, key : [time : Times, id : Nat]]
NumbersOf(m) == [i \in DOMAIN m |-> m[i].number]
TasksOf(s) == Among(s, {i \in DOMAIN s : s[i] # Null})

UndoneOf(m, pending, g, qs) ==
  LET there == g \o FlattenSeq([q \in DOMAIN qs |-> qs[q].elements])
  IN  Among(NumbersOf(m), {i \in DOMAIN m : m[i].key \in pending}) \o TasksOf(there)

LEMMA UndoneIsOf ==
  /\ Undone = UndoneOf(moved, pending_tasks, group, queues)
  /\ Undone' = UndoneOf(moved', pending_tasks', group', queues')
  BY DEF Undone, UndoneOf, NumbersOf, TasksOf

LEMMA NumbersAre ==
  ASSUME NEW m \in Seq(Moves)
  PROVE  /\ NumbersOf(m) \in Seq(Nat) /\ Len(NumbersOf(m)) = Len(m)
         /\ \A i \in 1 .. Len(m) : NumbersOf(m)[i] = m[i].number
<1>1. Len(m) \in Nat /\ DOMAIN m = 1 .. Len(m)
  BY LenProperties
<1>2. \A i \in 1 .. Len(m) : m[i].number \in Nat
  <2>1. \A i \in 1 .. Len(m) : m[i] \in Moves
    BY ElementOfSeq
  <2> QED
    BY <2>1, SMTT(20) DEF Moves
<1>3. PICK l \in Nat : l = Len(m)
  BY <1>1
<1>4. NumbersOf(m) = [i \in 1 .. l |-> m[i].number] /\ \A i \in 1 .. l : m[i].number \in Nat
  BY <1>1, <1>2, <1>3 DEF NumbersOf
<1>5. NumbersOf(m) \in [1 .. l -> Nat]
  BY <1>4, Zenon
<1>6. NumbersOf(m) \in Seq(Nat) /\ Len(NumbersOf(m)) = l
  BY <1>5
<1> QED
  BY <1>3, <1>4, <1>6

\* The interval lemma for sequences of numbers, in a form that is easy to instantiate.
LEMMA AmongNats ==
  \A s \in Seq(Nat) : \A a \in 1 .. Len(s) + 1 : \A b \in a - 1 .. Len(s) :
    Among(s, a .. b) = SubSeq(s, a, b)
  BY AmongInterval, SMTT(30)

LEMMA TasksOfIs ==
  ASSUME NEW s \in Seq(Nat)
  PROVE  /\ NoNull(s) => TasksOf(s) = s
         /\ NullLast(s) => TasksOf(s) = SubSeq(s, 1, Len(s) - 1)
<1>1. Len(s) \in Nat /\ DOMAIN s = 1 .. Len(s)
  BY LenProperties
<1>2. ASSUME NoNull(s) PROVE TasksOf(s) = s
  <2>1. {i \in DOMAIN s : s[i] # Null} = 1 .. Len(s)
    BY <1>1, <1>2 DEF NoNull
  <2>2. Among(s, 1 .. Len(s)) = SubSeq(s, 1, Len(s))
    <3>1. 1 \in 1 .. Len(s) + 1 /\ Len(s) \in 1 - 1 .. Len(s)
      BY <1>1
    <3> QED
      BY <3>1, AmongNats, Zenon
  <2>3. SubSeq(s, 1, Len(s)) = s
    BY SubSeqFull
  <2> QED
    BY <2>1, <2>2, <2>3 DEF TasksOf
<1>3. ASSUME NullLast(s) PROVE TasksOf(s) = SubSeq(s, 1, Len(s) - 1)
  <2>1. Len(s) \in Nat \ {0}
    BY <1>3, EmptySeq DEF NullLast
  <2>2. {i \in DOMAIN s : s[i] # Null} = 1 .. Len(s) - 1
    BY <1>1, <1>3, <2>1 DEF NullLast
  <2>3. Among(s, 1 .. Len(s) - 1) = SubSeq(s, 1, Len(s) - 1)
    <3>1. 1 \in 1 .. Len(s) + 1 /\ Len(s) - 1 \in 1 - 1 .. Len(s)
      BY <2>1
    <3> QED
      BY <3>1, AmongNats, Zenon
  <2> QED
    BY <2>2, <2>3 DEF TasksOf
<1> QED
  BY <1>2, <1>3

LEMMA TasksOfTail ==
  ASSUME NEW s \in Seq(Nat), s # <<>>, Head(s) # Null, NoNull(s) \/ NullLast(s)
  PROVE  TasksOf(s) = <<Head(s)>> \o TasksOf(Tail(s))
<1>1. Len(s) \in Nat \ {0} /\ Tail(s) \in Seq(Nat) /\ Tail(s) = SubSeq(s, 2, Len(s))
      /\ Len(Tail(s)) = Len(s) - 1 /\ Head(s) = s[1]
  <2>1. Len(s) \in Nat \ {0} /\ Head(s) = s[1]
    BY EmptySeq
  <2>2. Tail(s) \in Seq(Nat) /\ Len(Tail(s)) = Len(s) - 1
    BY HeadTailProperties
  <2>3. Tail(s) = SubSeq(s, 2, Len(s))
    BY TailIsSubSeq, SMTT(30)
  <2> QED
    BY <2>1, <2>2, <2>3
<1>2. CASE NoNull(s)
  <2>1. TasksOf(s) = s /\ TasksOf(Tail(s)) = Tail(s)
    BY <1>1, <1>2, TasksOfIs, TailOfElements
  <2>2. SubSeq(s, 1, Len(s)) = <<s[1]>> \o SubSeq(s, 2, Len(s))
    BY <1>1, SubSeqRecursiveFirst
  <2>3. SubSeq(s, 1, Len(s)) = s
    BY SubSeqFull
  <2> QED
    BY <1>1, <2>1, <2>2, <2>3
<1>3. CASE NullLast(s)
  <2>1. NullLast(Tail(s)) /\ TasksOf(s) = SubSeq(s, 1, Len(s) - 1)
    BY <1>3, TasksOfIs, TailOfElements
  <2>2. TasksOf(Tail(s)) = SubSeq(Tail(s), 1, Len(Tail(s)) - 1) /\ Len(Tail(s)) \in Nat \ {0}
    BY <1>1, <2>1, TasksOfIs, EmptySeq DEF NullLast
  <2>3. Len(s) - 1 \in 1 .. Len(s)
    BY <1>1, <2>2
  <2>4. SubSeq(s, 1, Len(s) - 1) = <<s[1]>> \o SubSeq(s, 2, Len(s) - 1)
    BY <1>1, <2>3, SubSeqRecursiveFirst
  <2>5. SubSeq(Tail(s), 1, Len(Tail(s)) - 1) = SubSeq(s, 2, Len(s) - 1)
    <3>1. Len(s) - 1 \in 1 .. Len(s) /\ Tail(SubSeq(s, 1, Len(s) - 1)) = SubSeq(s, 2, Len(s) - 1)
      BY <1>1, <2>3, HeadTailOfSubSeq
    <3> DEFINE l == Len(s) - 2
               u == SubSeq(Tail(s), 1, l)
               v == SubSeq(s, 2, Len(s) - 1)
    <3>2. l \in Nat /\ l = Len(Tail(s)) - 1 /\ Len(s) - 1 = l + 1
      BY <1>1, <2>2
    <3>3. \A i \in 1 .. l : Tail(s)[i] = s[i + 1] /\ s[i + 1] \in Nat
      BY <1>1, <3>2, HeadTailProperties, ElementOfSeq
    <3>4. u \in Seq(Nat) /\ Len(u) = l /\ \A i \in 1 .. l : u[i] = Tail(s)[i]
      BY <1>1, <3>2, <3>3, SubSeqProperties
    <3>5. v \in Seq(Nat) /\ Len(v) = l /\ \A i \in 1 .. l : v[i] = s[i + 1]
      <4>1. \A i \in 2 .. l + 1 : s[i] \in Nat
        BY <1>1, <3>2, ElementOfSeq
      <4>2. v = SubSeq(s, 2, l + 1)
        BY <3>2
      <4> QED
        BY <3>2, <4>1, <4>2, SubSeqProperties, SMTT(20)
    <3> HIDE DEF l, u, v
    <3>6. u = v
      BY <3>3, <3>4, <3>5, SeqEqual
    <3> QED
      BY <3>2, <3>6 DEF u, v
  <2> QED
    BY <1>1, <2>1, <2>2, <2>4, <2>5
<1> QED
  BY <1>2, <1>3

\* Of the tasks that came from queues, the inner loop ran the first d.
RanFirst(m, pending, d) ==
  /\ m \in Seq(Moves) /\ d \in 0 .. Len(m)
  /\ \A i \in 1 .. Len(m) : m[i].key \in pending <=> i > d

OneInUse(qs, n, c) ==
  /\ n \in Nat /\ qs \in [1 .. n -> Queues] /\ c \in 0 .. n
  /\ \A q \in 1 .. n : q # c => qs[q].elements = <<>>

UndoneSplits(m, pending, d, g, qs, c) ==
  UndoneOf(m, pending, g, qs)
    = SubSeq(NumbersOf(m), d + 1, Len(m))
        \o TasksOf(g \o (IF c = 0 THEN <<>> ELSE qs[c].elements))

LEMMA UndoneParts ==
  ASSUME NEW m, NEW pending, NEW d, NEW g, NEW n, NEW qs, NEW c,
         RanFirst(m, pending, d), g \in Seq(Nat), OneInUse(qs, n, c)
  PROVE  UndoneSplits(m, pending, d, g, qs, c)
<1> USE DEF RanFirst, OneInUse
<1>1. m \in Seq(Moves) /\ d \in 0 .. Len(m) /\ Len(m) \in Nat /\ DOMAIN m = 1 .. Len(m)
  BY LenProperties
<1>2. {i \in DOMAIN m : m[i].key \in pending} = d + 1 .. Len(m)
  BY <1>1
<1>3. Among(NumbersOf(m), d + 1 .. Len(m)) = SubSeq(NumbersOf(m), d + 1, Len(m))
  <2>1. NumbersOf(m) \in Seq(Nat) /\ Len(NumbersOf(m)) = Len(m)
    BY NumbersAre
  <2>2. d + 1 \in 1 .. Len(m) + 1 /\ Len(m) \in (d + 1) - 1 .. Len(m)
    BY <1>1
  <2>3. d + 1 \in 1 .. Len(NumbersOf(m)) + 1 /\ Len(m) \in (d + 1) - 1 .. Len(NumbersOf(m))
    BY <2>1, <2>2
  <2> QED
    BY <2>1, <2>3, AmongNats, Zenon
<1> DEFINE s == [q \in DOMAIN qs |-> qs[q].elements]
<1>4. s \in [1 .. n -> Seq(Nat)] /\ \A q \in 1 .. n : s[q] = qs[q].elements
  BY DEF Queues
<1> HIDE DEF s
<1>5. c \in Nat /\ \A q \in 1 .. n : q # c => s[q] = <<>>
  <2>1. \A q \in 1 .. n : s[q] = qs[q].elements
    BY <1>4
  <2>2. \A q \in 1 .. n : q # c => s[q] = <<>>
    BY <2>1, Zenon
  <2> QED
    BY <2>2
<1>6. FlattenSeq(s) = IF c = 0 THEN <<>> ELSE qs[c].elements
  <2>1. /\ c \in 1 .. n => FlattenSeq(s) = s[c]
        /\ c \notin 1 .. n => FlattenSeq(s) = <<>>
    BY <1>4, <1>5, FlattenOne
  <2> QED
    BY <1>4, <2>1
<1>7. UndoneOf(m, pending, g, qs) =
        Among(NumbersOf(m), {i \in DOMAIN m : m[i].key \in pending}) \o TasksOf(g \o FlattenSeq(s))
  BY DEF UndoneOf, s
<1> QED
  BY <1>2, <1>3, <1>6, <1>7 DEF UndoneSplits

Current == IF ext_tasks_queue = 0 THEN <<>> ELSE Elements
There == group \o Current
Left(d) == SubSeq(NumbersOf(moved), d + 1, Len(moved))

(* The inner loop ran the first d of the tasks that it took from queues,    *)
(* and no other of them: their keys are in order.                           *)
MovedAt(d) ==
  /\ moved \in Seq(Moves)
  /\ d \in 0 .. Len(moved)
  /\ \A i \in 1 .. Len(moved) :
       /\ moved[i].key.id < next_task_id
       /\ moved[i].key.time <= etime
       /\ moved[i].key \in pending_tasks <=> i > d
  /\ \A i, j \in 1 .. Len(moved) :
       i < j => moved[i].key.id < moved[j].key.id /\ moved[i].key.time <= moved[j].key.time

LEMMA QueuesAre ==
  ASSUME IdleInv
  PROVE  /\ MaxExecutors \in Nat /\ queues \in [1 .. MaxExecutors -> Queues]
         /\ ext_tasks_queue \in 0 .. MaxExecutors
         /\ \A q \in 1 .. MaxExecutors : q # ext_tasks_queue => queues[q].elements = <<>>
         /\ group \in Seq(Nat) /\ Current \in Seq(Nat) /\ There \in Seq(Nat)
<1>1. MaxExecutors \in Nat /\ queues \in [1 .. MaxExecutors -> Queues]
  BY Bounds DEF IdleInv, QueuesInv
<1>2. ext_tasks_queue \in 0 .. MaxExecutors
  BY <1>1 DEF IdleInv, QueuesInv
<1>3. \A q \in 1 .. MaxExecutors : q # ext_tasks_queue => queues[q].elements = <<>>
  BY <1>1 DEF IdleInv, OthersDone
<1>4. group \in Seq(Nat)
  BY DEF IdleInv, QueuesInv
<1>5. Current \in Seq(Nat)
  <2>1. CASE ext_tasks_queue = 0
    BY <2>1, EmptySeq DEF Current
  <2>2. CASE ext_tasks_queue # 0
    <3>1. ext_tasks_queue \in 1 .. MaxExecutors
      BY <1>1, <1>2, <2>2
    <3> QED
      BY <2>2, <3>1, MyQueueType DEF Current
  <2> QED
    BY <2>1, <2>2
<1>6. There \in Seq(Nat)
  BY <1>4, <1>5, ConcatProperties DEF There
<1> QED
  BY <1>1, <1>2, <1>3, <1>4, <1>5, <1>6

\* A null is the last of all elements, in the group or in the queue.
LEMMA ThereIs ==
  ASSUME IdleInv
  PROVE  NoNull(There) \/ NullLast(There)
<1>1. group \in Seq(Nat) /\ Current \in Seq(Nat)
  BY QueuesAre
<1>2. \A s \in Seq(Nat) : s \o <<>> = s /\ <<>> \o s = s
  BY ConcatEmptySeq
<1>3. CASE mt_executor_wptr = 0
  <2>1. ext_tasks_queue = 0 /\ group = <<>>
    BY <1>3 DEF IdleInv, QueuesInv, OthersDone
  <2>2. There = <<>>
    BY <1>1, <1>2, <2>1 DEF There, Current
  <2> QED
    BY <2>2 DEF NoNull
<1>4. CASE mt_executor_wptr # 0
  <2>1. ext_tasks_queue # 0 /\ Current = Elements
    BY <1>4 DEF IdleInv, QueuesInv, Current
  <2>2. mt_executor_wptr \in DOMAIN executors
    BY <1>4, SMT DEF IdleInv, QueuesInv
  <2>3. executors[mt_executor_wptr].destroyed \in BOOLEAN
    <3>1. executors[mt_executor_wptr] \in ExecutorStates
      BY <2>2 DEF IdleInv, QueuesInv
    <3> QED
      BY <3>1 DEF ExecutorStates
  <2>4. \/ NoNull(group) /\ NoNull(Current)
        \/ NoNull(group) /\ NullLast(Current)
        \/ NullLast(group) /\ Current = <<>>
    BY <1>4, <2>1, <2>3 DEF IdleInv, CurrentInv
  <2>5. /\ There \in Seq(Nat) /\ Len(There) = Len(group) + Len(Current)
        /\ \A i \in 1 .. Len(group) + Len(Current) :
             There[i] = IF i <= Len(group) THEN group[i] ELSE Current[i - Len(group)]
    BY <1>1, ConcatProperties DEF There
  <2>6. Len(group) \in Nat /\ Len(Current) \in Nat /\ DOMAIN group = 1 .. Len(group)
        /\ DOMAIN Current = 1 .. Len(Current) /\ DOMAIN There = 1 .. Len(There)
    BY <1>1, <2>5, LenProperties
  <2>7. CASE NoNull(group) /\ NoNull(Current)
    <3>1. ASSUME NEW i \in DOMAIN There PROVE There[i] # Null
      <4>1. CASE i <= Len(group)
        BY <2>5, <2>6, <2>7, <4>1 DEF NoNull
      <4>2. CASE ~(i <= Len(group))
        <5>1. i - Len(group) \in DOMAIN Current /\ There[i] = Current[i - Len(group)]
          BY <2>5, <2>6, <4>2
        <5> QED
          BY <2>7, <5>1 DEF NoNull
      <4> QED
        BY <4>1, <4>2
    <3> QED
      BY <3>1 DEF NoNull
  <2>8. CASE NoNull(group) /\ NullLast(Current)
    <3>1. Len(Current) # 0 /\ Current[Len(Current)] = Null
          /\ \A i \in 1 .. Len(Current) - 1 : Current[i] # Null
      BY <1>1, <2>8, EmptySeq DEF NullLast
    <3>2. There # <<>> /\ There[Len(There)] = Null
      <4>1. Len(There) # 0
        BY <2>5, <2>6, <3>1
      <4>2. There[Len(There)] = Current[Len(There) - Len(group)]
        BY <2>5, <2>6, <3>1
      <4>3. Len(There) - Len(group) = Len(Current)
        BY <2>5, <2>6
      <4> QED
        BY <2>5, <3>1, <4>1, <4>2, <4>3, EmptySeq
    <3>3. ASSUME NEW i \in 1 .. Len(There) - 1 PROVE There[i] # Null
      <4>1. CASE i <= Len(group)
        BY <2>5, <2>6, <2>8, <4>1 DEF NoNull
      <4>2. CASE ~(i <= Len(group))
        <5>1. i - Len(group) \in 1 .. Len(Current) - 1 /\ There[i] = Current[i - Len(group)]
          BY <2>5, <2>6, <4>2
        <5> QED
          BY <3>1, <5>1
      <4> QED
        BY <4>1, <4>2
    <3> QED
      BY <3>2, <3>3 DEF NullLast
  <2>9. CASE NullLast(group) /\ Current = <<>>
    BY <1>1, <1>2, <2>9 DEF There
  <2> QED
    BY <2>4, <2>7, <2>8, <2>9
<1> QED
  BY <1>3, <1>4

LEMMA UndoneNow ==
  ASSUME IdleInv, NEW d \in Nat, MovedAt(d)
  PROVE  Undone = Left(d) \o TasksOf(There)
<1>1. RanFirst(moved, pending_tasks, d)
  BY DEF MovedAt, RanFirst
<1>2. UndoneSplits(moved, pending_tasks, d, group, queues, ext_tasks_queue)
  <2>1. OneInUse(queues, MaxExecutors, ext_tasks_queue) /\ group \in Seq(Nat)
    BY QueuesAre DEF OneInUse
  <2> QED
    BY <1>1, <2>1, UndoneParts
<1> QED
  BY <1>2, UndoneIsOf DEF UndoneSplits, Left, There, Current, Elements

LEMMA QueuesNext ==
  ASSUME IdleInv'
  PROVE  /\ queues' \in [1 .. MaxExecutors -> Queues]
         /\ ext_tasks_queue' \in 0 .. MaxExecutors
         /\ \A q \in 1 .. MaxExecutors : q # ext_tasks_queue' => queues'[q].elements = <<>>
         /\ group' \in Seq(Nat)
<1>1. MaxExecutors \in Nat /\ queues' \in [1 .. MaxExecutors -> Queues]
  BY Bounds DEF IdleInv, QueuesInv
<1>2. ext_tasks_queue' \in 0 .. MaxExecutors
  BY <1>1 DEF IdleInv, QueuesInv
<1> QED
  BY <1>1, <1>2 DEF IdleInv, QueuesInv, OthersDone

LEMMA UndoneThen ==
  ASSUME IdleInv', NEW d \in Nat, MovedAt(d)'
  PROVE  Undone' = Left(d)' \o TasksOf(There')
<1>1. RanFirst(moved', pending_tasks', d)
  BY DEF MovedAt, RanFirst
<1>2. UndoneSplits(moved', pending_tasks', d, group', queues', ext_tasks_queue')
  <2>1. OneInUse(queues', MaxExecutors, ext_tasks_queue') /\ group' \in Seq(Nat)
    BY QueuesNext, Bounds DEF OneInUse
  <2> QED
    BY <1>1, <2>1, UndoneParts
<1>3. There' = group' \o (IF ext_tasks_queue' = 0 THEN <<>>
                          ELSE queues'[ext_tasks_queue'].elements)
  BY DEF There, Current, Elements
<1>4. Left(d)' = SubSeq(NumbersOf(moved'), d + 1, Len(moved'))
  BY DEF Left, NumbersOf
<1> QED
  BY <1>2, <1>3, <1>4, UndoneIsOf DEF UndoneSplits

-----------------------------------------------------------------------------
LEMMA FirstAndRest ==
  ASSUME NEW h \in Nat, NEW v \in Seq(Nat)
  PROVE  /\ <<h>> \o v \in Seq(Nat) /\ <<h>> \o v # <<>>
         /\ Head(<<h>> \o v) = h /\ Tail(<<h>> \o v) = v
<1> DEFINE c == <<h>> \o v
<1>1. <<h>> \in Seq(Nat) /\ Len(<<h>>) = 1 /\ <<h>>[1] = h
  OBVIOUS
<1>2. Len(v) \in Nat
  BY LenProperties
<1>3. c \in Seq(Nat) /\ Len(c) = 1 + Len(v) /\ c[1] = h
  BY <1>1, <1>2, ConcatProperties
<1> HIDE DEF c
<1>4. c # <<>> /\ Head(c) = h /\ Tail(c) \in Seq(Nat) /\ Tail(c) = SubSeq(c, 2, Len(c))
  BY <1>2, <1>3, EmptySeq, HeadTailProperties, TailIsSubSeq
<1>5. c = <<h>> \o Tail(c)
  <2>1. 1 \in 1 .. Len(c) /\ Len(c) \in 1 .. Len(c)
    BY <1>2, <1>3
  <2>2. SubSeq(c, 1, Len(c)) = <<c[1]>> \o SubSeq(c, 1 + 1, Len(c))
    BY <1>3, <2>1, SubSeqRecursiveFirst
  <2>3. SubSeq(c, 1, Len(c)) = c
    BY <1>3, SubSeqFull
  <2> QED
    BY <1>3, <1>4, <2>2, <2>3
<1>6. <<h>> \o v = <<h>> \o Tail(c)
  BY <1>5 DEF c
<1>7. Tail(c) = v
  BY <1>1, <1>4, <1>6, ConcatSimplifications
<1> QED
  BY <1>3, <1>4, <1>7 DEF c

LEMMA SplitFirst ==
  ASSUME NEW s \in Seq(Nat), s # <<>>
  PROVE  Head(s) \in Nat /\ Tail(s) \in Seq(Nat) /\ s = <<Head(s)>> \o Tail(s)
<1>1. Head(s) \in Nat /\ Head(s) = s[1] /\ Tail(s) \in Seq(Nat)
      /\ Tail(s) = SubSeq(s, 2, Len(s)) /\ Len(s) \in Nat \ {0}
  BY EmptySeq, HeadTailProperties, TailIsSubSeq
<1>2. SubSeq(s, 1, Len(s)) = <<s[1]>> \o SubSeq(s, 1 + 1, Len(s))
  BY <1>1, SubSeqRecursiveFirst
<1>3. SubSeq(s, 1, Len(s)) = s
  BY SubSeqFull
<1> QED
  BY <1>1, <1>2, <1>3

\* Concatenation is associative, for sequences of numbers.
LEMMA ConcatNats == \A s, t, u \in Seq(Nat) : (s \o t) \o u = s \o (t \o u)
  BY ConcatAssociative, SMTT(60)

LEMMA TailOfConcat ==
  ASSUME NEW s \in Seq(Nat), NEW u \in Seq(Nat), s # <<>>
  PROVE  /\ s \o u # <<>>
         /\ Head(s \o u) = Head(s)
         /\ Tail(s \o u) = Tail(s) \o u
<1> DEFINE h == Head(s)
           r == Tail(s)
<1>1. h \in Nat /\ r \in Seq(Nat) /\ s = <<h>> \o r
  BY SplitFirst
<1> HIDE DEF h, r
<1>2. <<h>> \in Seq(Nat)
  BY <1>1
<1>3. s \o u = <<h>> \o (r \o u)
  BY <1>1, <1>2, ConcatNats
<1>4. r \o u \in Seq(Nat)
  BY <1>1, ConcatProperties
<1>5. s \o u # <<>> /\ Head(s \o u) = h /\ Tail(s \o u) = r \o u
  BY <1>1, <1>3, <1>4, FirstAndRest
<1> QED
  BY <1>5 DEF h, r

LEMMA AppendToConcat ==
  ASSUME NEW s \in Seq(Nat), NEW u \in Seq(Nat), NEW n \in Nat
  PROVE  /\ s \o Append(u, n) = Append(s \o u, n)
         /\ Append(s, n) \o u = s \o (<<n>> \o u)
<1>1. <<n>> \in Seq(Nat)
  OBVIOUS
<1>2. Append(u, n) = u \o <<n>> /\ Append(s, n) = s \o <<n>>
  BY AppendIsConcat
<1>3. s \o u \in Seq(Nat)
  BY ConcatProperties
<1>4. Append(s \o u, n) = (s \o u) \o <<n>>
  BY <1>3, AppendIsConcat
<1>5. (s \o u) \o <<n>> = s \o (u \o <<n>>) /\ (s \o <<n>>) \o u = s \o (<<n>> \o u)
  BY <1>1, ConcatNats, Zenon
<1> QED
  BY <1>2, <1>4, <1>5, Zenon

\* A task is seen when it is pushed, a null is not.
LEMMA TasksOfAppend ==
  ASSUME NEW s \in Seq(Nat), NoNull(s), NEW n \in Nat
  PROVE  TasksOf(Append(s, n)) = IF n = Null THEN TasksOf(s) ELSE Append(TasksOf(s), n)
<1>1. TasksOf(s) = s
  BY TasksOfIs
<1>2. Append(s, n) \in Seq(Nat) /\ Len(Append(s, n)) = Len(s) + 1 /\ Len(s) \in Nat
  BY AppendProperties, LenProperties
<1>3. CASE n = Null
  <2>1. NullLast(Append(s, n))
    BY <1>3, AppendElement
  <2>2. TasksOf(Append(s, n)) = SubSeq(Append(s, n), 1, Len(s))
    <3>1. TasksOf(Append(s, n)) = SubSeq(Append(s, n), 1, Len(Append(s, n)) - 1)
      BY <1>2, <2>1, TasksOfIs
    <3>2. Len(Append(s, n)) - 1 = Len(s)
      BY <1>2
    <3> QED
      BY <3>1, <3>2
  <2> DEFINE a == SubSeq(Append(s, n), 1, Len(s))
  <2>3. \A i \in 1 .. Len(s) : Append(s, n)[i] = s[i] /\ s[i] \in Nat
    BY AppendProperties, ElementOfSeq
  <2>4. a \in Seq(Nat) /\ Len(a) = Len(s) /\ \A i \in 1 .. Len(s) : a[i] = s[i]
    <3>1. \A i \in 1 .. Len(s) : Append(s, n)[i] \in Nat
      BY <2>3
    <3>2. /\ a \in Seq(Nat) /\ Len(a) = IF 1 <= Len(s) THEN Len(s) - 1 + 1 ELSE 0
          /\ \A i \in 1 .. Len(s) - 1 + 1 : a[i] = Append(s, n)[1 + i - 1]
      BY <1>2, <3>1, SubSeqProperties
    <3>3. \A i \in 1 .. Len(s) : i \in 1 .. Len(s) - 1 + 1 /\ 1 + i - 1 = i
      BY <1>2
    <3> HIDE DEF a
    <3> QED
      BY <1>2, <2>3, <3>2, <3>3
  <2> HIDE DEF a
  <2>5. a = s
    BY <2>4, SeqEqual
  <2> QED
    BY <1>1, <1>3, <2>2, <2>5 DEF a
<1>4. CASE n # Null
  <2>1. NoNull(Append(s, n))
    BY <1>4, AppendElement
  <2> QED
    BY <1>1, <1>2, <1>4, <2>1, TasksOfIs
<1> QED
  BY <1>3, <1>4

LEMMA NoNullConcat ==
  ASSUME NEW s \in Seq(Nat), NEW u \in Seq(Nat), NoNull(s), NoNull(u)
  PROVE  NoNull(s \o u)
<1>1. /\ s \o u \in Seq(Nat) /\ Len(s \o u) = Len(s) + Len(u)
      /\ \A i \in 1 .. Len(s) + Len(u) :
           (s \o u)[i] = IF i <= Len(s) THEN s[i] ELSE u[i - Len(s)]
  BY ConcatProperties
<1>2. Len(s) \in Nat /\ Len(u) \in Nat /\ DOMAIN s = 1 .. Len(s) /\ DOMAIN u = 1 .. Len(u)
      /\ DOMAIN (s \o u) = 1 .. Len(s) + Len(u)
  BY <1>1, LenProperties
<1>3. ASSUME NEW i \in 1 .. Len(s) + Len(u) PROVE (s \o u)[i] # Null
  <2>1. CASE i <= Len(s)
    <3>1. i \in DOMAIN s /\ (s \o u)[i] = s[i]
      BY <1>1, <1>2, <2>1
    <3> QED
      BY <3>1 DEF NoNull
  <2>2. CASE ~(i <= Len(s))
    <3>1. i - Len(s) \in DOMAIN u /\ (s \o u)[i] = u[i - Len(s)]
      BY <1>1, <1>2, <2>2
    <3> QED
      BY <3>1 DEF NoNull
  <2> QED
    BY <2>1, <2>2
<1> QED
  BY <1>2, <1>3 DEF NoNull

LEMMA TasksOfTyped ==
  ASSUME NEW s \in Seq(Nat), NoNull(s) \/ NullLast(s)
  PROVE  TasksOf(s) \in Seq(Nat)
<1>1. CASE NoNull(s)
  BY <1>1, TasksOfIs
<1>2. CASE NullLast(s)
  <2>1. Len(s) - 1 \in Int /\ \A i \in 1 .. Len(s) - 1 : s[i] \in Nat
    <3>1. Len(s) \in Nat
      BY LenProperties
    <3>2. \A i \in 1 .. Len(s) - 1 : i \in 1 .. Len(s)
      BY <3>1
    <3> QED
      BY <3>1, <3>2, ElementOfSeq
  <2>2. SubSeq(s, 1, Len(s) - 1) \in Seq(Nat)
    BY <2>1, SubSeqProperties
  <2> QED
    BY <1>2, <2>2, TasksOfIs
<1> QED
  BY <1>1, <1>2

-----------------------------------------------------------------------------
LEMMA LeftTyped ==
  ASSUME NEW d \in Nat, MovedAt(d)
  PROVE  Left(d) \in Seq(Nat)
<1>1. NumbersOf(moved) \in Seq(Nat) /\ Len(NumbersOf(moved)) = Len(moved) /\ Len(moved) \in Nat
  BY NumbersAre, LenProperties DEF MovedAt
<1>2. \A i \in d + 1 .. Len(moved) : NumbersOf(moved)[i] \in Nat
  BY <1>1, ElementOfSeq
<1> QED
  BY <1>1, <1>2, SubSeqProperties DEF Left

\* The keys of the tasks taken, as natural numbers.
LEMMA KeysAre ==
  ASSUME TimesInv, NEW d \in Nat, MovedAt(d), NEW i \in 1 .. Len(moved)
  PROVE  /\ moved[i] \in Moves /\ moved[i].number \in Nat
         /\ moved[i].key.id \in Nat /\ moved[i].key.time \in Nat
         /\ etime \in Nat /\ next_task_id \in Nat
<1>1. moved[i] \in Moves
  BY ElementOfSeq DEF MovedAt
<1>2. Times \subseteq Nat
  BY Bounds, SMT DEF Times, Tasks!Times
<1> QED
  BY <1>1, <1>2 DEF Moves, TimesInv, TypeInv

(* What does not touch the tasks taken, nor the keys of those that the      *)
(* inner loop holds, leaves the first part of Undone alone.                 *)
KeysRest ==
  /\ UNCHANGED moved
  /\ next_task_id' >= next_task_id
  /\ etime' >= etime
  /\ \A i \in DOMAIN moved : moved[i].key \in pending_tasks' <=> moved[i].key \in pending_tasks

LEMMA RestKeepsMoved ==
  ASSUME TimesInv, TimesInv', NEW d \in Nat, MovedAt(d), KeysRest
  PROVE  MovedAt(d)' /\ Left(d)' = Left(d)
<1>1. moved' = moved /\ moved \in Seq(Moves) /\ d \in 0 .. Len(moved)
      /\ DOMAIN moved = 1 .. Len(moved)
  BY LenProperties DEF KeysRest, MovedAt
<1>2. next_task_id' \in Nat /\ etime' \in Nat
  <2>1. Times \subseteq Nat
    BY Bounds, SMT DEF Times, Tasks!Times
  <2> QED
    BY <2>1 DEF TimesInv, TypeInv
<1>3. ASSUME NEW i \in 1 .. Len(moved)
      PROVE  /\ moved[i].key.id < next_task_id' /\ moved[i].key.time <= etime'
             /\ moved[i].key \in pending_tasks' <=> i > d
  <2>1. moved[i].key.id \in Nat /\ moved[i].key.time \in Nat
        /\ etime \in Nat /\ next_task_id \in Nat
    BY KeysAre
  <2>2. moved[i].key.id < next_task_id /\ moved[i].key.time <= etime
        /\ (moved[i].key \in pending_tasks <=> i > d)
    BY DEF MovedAt
  <2>3. moved[i].key \in pending_tasks' <=> moved[i].key \in pending_tasks
    BY <1>1 DEF KeysRest
  <2>4. moved[i].key.id < next_task_id' /\ moved[i].key.time <= etime'
    BY <1>2, <2>1, <2>2 DEF KeysRest
  <2> QED
    BY <2>2, <2>3, <2>4
<1>4. \A i, j \in 1 .. Len(moved) :
        i < j => moved[i].key.id < moved[j].key.id /\ moved[i].key.time <= moved[j].key.time
  BY DEF MovedAt
<1>5. MovedAt(d)'
  BY <1>1, <1>3, <1>4 DEF MovedAt
<1>6. Left(d)' = Left(d)
  BY <1>1 DEF Left
<1> QED
  BY <1>5, <1>6

LEMMA RestKeepsUndone ==
  ASSUME TimesInv, TimesInv', IdleInv, IdleInv', NEW d \in Nat, MovedAt(d), KeysRest
  PROVE  /\ MovedAt(d)'
         /\ TasksOf(There') = TasksOf(There) => Undone' = Undone
<1>1. MovedAt(d)' /\ Left(d)' = Left(d)
  BY RestKeepsMoved
<1>2. Undone = Left(d) \o TasksOf(There)
  BY UndoneNow
<1>3. Undone' = Left(d)' \o TasksOf(There')
  BY <1>1, UndoneThen
<1> QED
  BY <1>1, <1>2, <1>3

(* The steps that leave executors, queues and group alone, and do not run a *)
(* task that came from a queue.                                             *)
LEMMA StillStep ==
  ASSUME TimesInv, TimesInv', IdleInv, IdleInv', NEW d \in Nat, MovedAt(d),
         KeysRest, IdleRests
  PROVE  MovedAt(d)' /\ UNCHANGED ExecutorContract!vars
<1>1. There' = There
  BY DEF There, Current, Elements, IdleRests
<1>2. UNCHANGED <<n_ext, Referenced, ext_tasks_queue # 0>>
  BY DEF IdleRests, Referenced
<1>3. MovedAt(d)' /\ Undone' = Undone
  BY <1>1, RestKeepsUndone
<1> QED
  BY <1>2, <1>3 DEF ExecutorContract!vars

LEMMA InvokeIsStill ==
  ASSUME TimesInv, TimesInv', IdleInv, IdleInv', NEW d \in Nat, MovedAt(d),
         NEW t \in Tasks!Times, InvokeAt(t)
  PROVE  KeysRest /\ IdleRests
<1> DEFINE k == [time |-> t, id |-> next_task_id]
<1>1. /\ pending_tasks' = pending_tasks \cup {k} /\ next_task_id' = next_task_id + 1
      /\ UNCHANGED <<etime, moved>> /\ IdleRests
  BY DEF InvokeAt, Tasks!InvokeAt, Tasks!NextId, run_vars, ext_vars, IdleRests
<1>2. next_task_id \in Nat /\ etime \in Nat
  <2>1. Times \subseteq Nat
    BY Bounds, SMT DEF Times, Tasks!Times
  <2> QED
    BY <2>1 DEF TimesInv, TypeInv
<1>3. ASSUME NEW i \in DOMAIN moved PROVE moved[i].key # k
  <2>1. i \in 1 .. Len(moved)
    BY LenProperties DEF MovedAt
  <2>2. moved[i].key.id < next_task_id /\ moved[i].key.id \in Nat
    BY <2>1, KeysAre DEF MovedAt
  <2>3. k.id = next_task_id
    OBVIOUS
  <2> HIDE DEF k
  <2> QED
    BY <1>2, <2>2, <2>3
<1> HIDE DEF k
<1> QED
  BY <1>1, <1>2, <1>3 DEF KeysRest

LEMMA DisableIsStill ==
  ASSUME TimesInv, NEW k \in pending_tasks, DisableTask(k)
  PROVE  KeysRest /\ IdleRests
<1>1. /\ pending_tasks' = pending_tasks \ {k} /\ UNCHANGED <<next_task_id, etime, moved>>
      /\ Own(k) /\ IdleRests
  BY DEF DisableTask, Tasks!Disable, run_vars, ext_vars, IdleRests
<1>2. next_task_id \in Nat /\ etime \in Nat
  <2>1. Times \subseteq Nat
    BY Bounds, SMT DEF Times, Tasks!Times
  <2> QED
    BY <2>1 DEF TimesInv, TypeInv
<1> QED
  BY <1>1, <1>2 DEF KeysRest, Own

LEMMA ClockIsStill ==
  ASSUME TimesInv, TimesInv',
         \/ Quit \/ TaskReturns \/ NoTaskDue \/ Tick \/ RunIterations \/ AfterTasks
         \/ GroupDone \/ Sleep \/ Iterate \/ UNCHANGED vars
  PROVE  KeysRest /\ IdleRests
<1>1. UNCHANGED <<pending_tasks, next_task_id, moved>> /\ IdleRests /\ (etime' = etime \/ etime' = clock)
  <2>1. CASE Quit \/ TaskReturns \/ NoTaskDue \/ Tick \/ AfterTasks \/ UNCHANGED vars
    BY <2>1
    DEF Quit, Tasks!Quit, TaskReturns, Tasks!TaskReturns, NoTaskDue, Tasks!NothingDue, Tick,
        AfterTasks, vars, task_vars, run_vars, ext_vars, IdleRests
  <2>2. CASE RunIterations \/ Iterate
    <3>1. PassTime /\ UNCHANGED etime /\ UNCHANGED moved /\ IdleRests
      BY <2>2 DEF RunIterations, Iterate, ext_vars, IdleRests
    <3> QED
      BY <3>1, PassTimeReachesEtime
  <2>3. CASE GroupDone \/ Sleep
    BY <2>3 DEF GroupDone, Sleep, UpdateTime, Now, task_vars, ext_vars, IdleRests
  <2> QED
    BY <2>1, <2>2, <2>3
<1>2. /\ next_task_id \in Nat /\ etime \in Nat /\ clock \in Nat /\ etime <= clock
  <2>1. Times \subseteq Nat
    BY Bounds, SMT DEF Times, Tasks!Times
  <2> QED
    BY <2>1 DEF TimesInv, TypeInv, TimesInOrder
<1> QED
  BY <1>1, <1>2 DEF KeysRest

-----------------------------------------------------------------------------
(* The head of the inner loop is a task of user code, or the first of those *)
(* that came from queues.                                                   *)
LEMMA RunIsExecute ==
  ASSUME TimesInv, TimesInv', IdleInv, IdleInv', NEW d \in Nat, MovedAt(d), RunTask
  PROVE  \/ KeysRest /\ IdleRests
         \/ MovedAt(d + 1)' /\ ExecutorContract!Execute
<1>1. PICK k \in pending_tasks : Tasks!IsHead(k) /\ pending_tasks' = pending_tasks \ {k}
  BY DEF RunTask, Tasks!RunTask
<1>2. UNCHANGED <<next_task_id, etime, moved, n_ext, ext_tasks_queue, executors>> /\ IdleRests
  BY DEF RunTask, Tasks!RunTask, run_vars, ext_vars, IdleRests
<1>3. next_task_id \in Nat /\ etime \in Nat
  <2>1. Times \subseteq Nat
    BY Bounds, SMT DEF Times, Tasks!Times
  <2> QED
    BY <2>1 DEF TimesInv, TypeInv
<1>4. Len(moved) \in Nat /\ DOMAIN moved = 1 .. Len(moved) /\ d \in 0 .. Len(moved)
  BY LenProperties DEF MovedAt
<1>5. CASE \A i \in DOMAIN moved : moved[i].key # k
  BY <1>1, <1>2, <1>3, <1>5 DEF KeysRest
<1>6. CASE \E i \in DOMAIN moved : moved[i].key = k
  <2>1. PICK i \in 1 .. Len(moved) : moved[i].key = k
    BY <1>4, <1>6
  <2>2. i > d
    BY <2>1 DEF MovedAt
  <2>3. d + 1 \in 1 .. Len(moved) /\ d + 1 <= i /\ d + 1 > d
    BY <1>4, <2>2
  <2>4. i = d + 1
    <3> SUFFICES ASSUME d + 1 < i PROVE FALSE
      BY <1>4, <2>3
    <3> DEFINE a == moved[d + 1].key
    <3>1. a \in pending_tasks
      BY <2>3 DEF MovedAt
    <3>2. a.id < k.id /\ a.time <= k.time
      BY <2>1, <2>3 DEF MovedAt
    <3>3. a.id \in Nat /\ a.time \in Nat /\ k.id \in Nat /\ k.time \in Nat
      BY <2>1, <2>3, KeysAre
    <3>4. a = k \/ Tasks!Before(k, a)
      BY <1>1, <3>1 DEF Tasks!IsHead
    <3> HIDE DEF a
    <3> QED
      BY <3>2, <3>3, <3>4 DEF Tasks!Before
  <2>5. \A j \in 1 .. Len(moved) : moved[j].key = k <=> j = d + 1
    <3>1. \A j \in 1 .. Len(moved) : j # i => moved[j].key.id # k.id
      <4>1. \A j \in 1 .. Len(moved) :
              /\ j < i => moved[j].key.id < moved[i].key.id
              /\ i < j => moved[i].key.id < moved[j].key.id
        BY DEF MovedAt
      <4>2. \A j \in 1 .. Len(moved) : moved[j].key.id \in Nat
        BY KeysAre
      <4> QED
        BY <1>4, <2>1, <4>1, <4>2
    <3> QED
      BY <2>1, <2>4, <3>1
  <2>6. MovedAt(d + 1)'
    <3>1. moved' = moved /\ moved \in Seq(Moves) /\ d + 1 \in 0 .. Len(moved)
      BY <1>2, <1>4, <2>3 DEF MovedAt
    <3>2. ASSUME NEW j \in 1 .. Len(moved)
          PROVE  moved[j].key \in pending_tasks' <=> j > d + 1
      <4>1. moved[j].key \in pending_tasks <=> j > d
        BY DEF MovedAt
      <4>2. moved[j].key \in pending_tasks' <=> j > d /\ j # d + 1
        BY <1>1, <2>5, <4>1
      <4> QED
        BY <1>4, <4>2
    <3>3. \A j \in 1 .. Len(moved) : moved[j].key.id < next_task_id /\ moved[j].key.time <= etime
      BY DEF MovedAt
    <3>4. \A j, l \in 1 .. Len(moved) :
            j < l => moved[j].key.id < moved[l].key.id /\ moved[j].key.time <= moved[l].key.time
      BY DEF MovedAt
    <3> QED
      BY <1>2, <3>1, <3>2, <3>3, <3>4 DEF MovedAt
  <2> DEFINE n == NumbersOf(moved)[d + 1]
             r == TasksOf(There)
  <2>7. Left(d) = <<n>> \o Left(d + 1) /\ n \in Nat
    <3>1. NumbersOf(moved) \in Seq(Nat) /\ Len(NumbersOf(moved)) = Len(moved)
      BY NumbersAre DEF MovedAt
    <3>2. Len(moved) \in d + 1 .. Len(moved)
      BY <1>4, <2>3
    <3>3. SubSeq(NumbersOf(moved), d + 1, Len(moved))
            = <<n>> \o SubSeq(NumbersOf(moved), (d + 1) + 1, Len(moved))
      BY <2>3, <3>1, <3>2, SubSeqRecursiveFirst
    <3> QED
      BY <2>3, <3>1, <3>3, ElementOfSeq DEF Left
  <2>8. Left(d + 1)' = Left(d + 1) /\ There' = There
    BY <1>2 DEF Left, There, Current, Elements, IdleRests
  <2>9. d + 1 \in Nat
    OBVIOUS
  <2>10. Left(d + 1)' \in Seq(Nat)
    <3>1. NumbersOf(moved) \in Seq(Nat) /\ Len(NumbersOf(moved)) = Len(moved)
      BY NumbersAre DEF MovedAt
    <3>2. \A j \in (d + 1) + 1 .. Len(moved) : NumbersOf(moved)[j] \in Nat
      BY <3>1, ElementOfSeq
    <3>3. SubSeq(NumbersOf(moved), (d + 1) + 1, Len(moved)) \in Seq(Nat)
      BY <1>4, <3>2, SubSeqProperties
    <3> QED
      BY <2>8, <3>3 DEF Left
  <2>11. r \in Seq(Nat)
    BY QueuesAre, ThereIs, TasksOfTyped
  <2>12. Undone = Left(d) \o r
    BY UndoneNow
  <2>13. Undone' = Left(d + 1)' \o r
    <3>1. Undone' = Left(d + 1)' \o TasksOf(There')
      BY <2>6, <2>9, UndoneThen
    <3> QED
      BY <2>8, <3>1
  <2> HIDE DEF r, n
  <2>14. <<n>> \in Seq(Nat) /\ Undone' \in Seq(Nat)
    BY <2>7, <2>10, <2>11, <2>13, ConcatProperties
  <2>15. Undone = <<n>> \o Undone'
    <3>1. PICK u : u = Left(d + 1)'
      OBVIOUS
    <3>2. u \in Seq(Nat) /\ Left(d) = <<n>> \o u /\ Undone' = u \o r
      BY <2>7, <2>8, <2>10, <2>13, <3>1
    <3>3. (<<n>> \o u) \o r = <<n>> \o (u \o r)
      BY <2>11, <2>14, <3>2, ConcatNats, Zenon
    <3> QED
      BY <2>12, <3>2, <3>3
  <2>16. Undone # <<>> /\ Undone' = Tail(Undone)
    BY <2>7, <2>14, <2>15, FirstAndRest
  <2>17. UNCHANGED <<n_ext, Referenced, ext_tasks_queue # 0>>
    BY <1>2 DEF Referenced
  <2> QED
    BY <2>6, <2>16, <2>17 DEF ExecutorContract!Execute
<1> QED
  BY <1>5, <1>6

(* A task of the group moves to the inner loop: its key follows all others, *)
(* and it stays where it was among the tasks undone.                        *)
LEMMA MoveIsStill ==
  ASSUME TimesInv, TimesInv', IdleInv, IdleInv', NEW d \in Nat, MovedAt(d), MoveTask
  PROVE  MovedAt(d)' /\ UNCHANGED ExecutorContract!vars
<1> DEFINE h == Head(group)
           k == [time |-> etime, id |-> next_task_id]
           x == [number |-> h, key |-> k]
           l == Len(moved)
<1>1. /\ group # <<>> /\ h # Null /\ group' = Tail(group) /\ moved' = Append(moved, x)
      /\ pending_tasks' = pending_tasks \cup {k} /\ next_task_id' = next_task_id + 1
      /\ UNCHANGED <<etime, queues, ext_tasks_queue, executors, n_ext>>
  BY DEF MoveTask, Tasks!InvokeAt, Tasks!NextId, run_vars
<1>2. next_task_id \in Nat /\ etime \in Nat /\ etime \in Times
  <2>1. Times \subseteq Nat
    BY Bounds, SMT DEF Times, Tasks!Times
  <2> QED
    BY <2>1 DEF TimesInv, TypeInv
<1>3. group \in Seq(Nat) /\ Current \in Seq(Nat) /\ There \in Seq(Nat)
      /\ (NoNull(There) \/ NullLast(There))
  BY QueuesAre, ThereIs
<1>4. h \in Nat
  BY <1>1, <1>3, SplitFirst
<1>5. moved \in Seq(Moves) /\ l \in Nat /\ DOMAIN moved = 1 .. l /\ d \in 0 .. l
  BY LenProperties DEF MovedAt
<1>6. x \in Moves /\ x.number = h /\ x.key = k /\ k.time = etime /\ k.id = next_task_id
  BY <1>2, <1>4 DEF Moves
<1> HIDE DEF h, k, x, l
<1>7. /\ moved' \in Seq(Moves) /\ Len(moved') = l + 1 /\ moved'[l + 1] = x
      /\ \A i \in 1 .. l : moved'[i] = moved[i]
  BY <1>1, <1>5, <1>6, AppendProperties DEF l
<1>8. \A i \in 1 .. l :
        /\ moved[i].key.id \in Nat /\ moved[i].key.time \in Nat /\ moved[i].number \in Nat
        /\ moved[i].key.id < next_task_id /\ moved[i].key.time <= etime
        /\ moved[i].key \in pending_tasks <=> i > d
  BY KeysAre DEF MovedAt, l
<1>9. ASSUME NEW i \in 1 .. l
      PROVE  /\ moved'[i].key.id < next_task_id' /\ moved'[i].key.time <= etime'
             /\ moved'[i].key \in pending_tasks' <=> i > d
  <2>1. moved[i].key # k
    BY <1>2, <1>6, <1>8
  <2>2. moved'[i] = moved[i]
    BY <1>7
  <2>3. moved[i].key \in pending_tasks' <=> moved[i].key \in pending_tasks
    BY <1>1, <2>1
  <2>4. moved[i].key.id < next_task_id' /\ moved[i].key.time <= etime'
    BY <1>1, <1>2, <1>8
  <2> QED
    BY <1>8, <2>2, <2>3, <2>4
<1>10. /\ moved'[l + 1].key.id < next_task_id' /\ moved'[l + 1].key.time <= etime'
       /\ moved'[l + 1].key \in pending_tasks' /\ l + 1 > d
  BY <1>1, <1>2, <1>5, <1>6, <1>7
<1>11. ASSUME NEW i \in 1 .. l + 1, NEW j \in 1 .. l + 1, i < j
       PROVE  /\ moved'[i].key.id < moved'[j].key.id
              /\ moved'[i].key.time <= moved'[j].key.time
  <2>1. i \in 1 .. l
    BY <1>5, <1>11
  <2>2. CASE j \in 1 .. l
    BY <1>7, <1>11, <2>1, <2>2 DEF MovedAt, l
  <2>3. CASE j = l + 1
    BY <1>6, <1>7, <1>8, <2>1, <2>3
  <2> QED
    BY <1>5, <2>2, <2>3
<1>12. MovedAt(d)'
  <2>1. d \in 0 .. l + 1
    BY <1>5
  <2>2. \A i \in 1 .. l + 1 :
          /\ moved'[i].key.id < next_task_id' /\ moved'[i].key.time <= etime'
          /\ moved'[i].key \in pending_tasks' <=> i > d
    BY <1>5, <1>9, <1>10
  <2> QED
    BY <1>7, <1>11, <2>1, <2>2 DEF MovedAt
<1>13. Left(d)' = Append(Left(d), h)
  <2> DEFINE m == NumbersOf(moved)
             n == NumbersOf(moved')
  <2>1. m \in Seq(Nat) /\ Len(m) = l /\ \A i \in 1 .. l : m[i] = moved[i].number
    BY <1>5, NumbersAre DEF l
  <2>2. n \in Seq(Nat) /\ Len(n) = l + 1 /\ \A i \in 1 .. l + 1 : n[i] = moved'[i].number
    BY <1>7, NumbersAre
  <2> HIDE DEF m, n
  <2>3. n = Append(m, h)
    <3>1. /\ Append(m, h) \in Seq(Nat) /\ Len(Append(m, h)) = l + 1
          /\ Append(m, h)[l + 1] = h /\ \A i \in 1 .. l : Append(m, h)[i] = m[i]
      BY <1>4, <2>1, AppendProperties
    <3>2. \A i \in 1 .. l + 1 : n[i] = Append(m, h)[i]
      <4> TAKE i \in 1 .. l + 1
      <4>1. CASE i \in 1 .. l
        <5>1. n[i] = moved'[i].number /\ moved'[i] = moved[i]
          BY <1>7, <2>2, <4>1
        <5> QED
          BY <2>1, <3>1, <4>1, <5>1
      <4>2. CASE i = l + 1
        BY <1>6, <1>7, <2>2, <3>1, <4>2
      <4>3. i \in 1 .. l \/ i = l + 1
        BY <1>5
      <4> QED
        BY <4>1, <4>2, <4>3
    <3> QED
      BY <2>2, <3>1, <3>2, SeqEqual
  <2>4. SubSeq(n, d + 1, l + 1) = SubSeq(n, d + 1, l) \o <<h>>
    <3>1. PICK a, b : a = d + 1 /\ b = l + 1 /\ b - 1 = l
      BY <1>5
    <3>2. a \in 1 .. Len(n) /\ b \in a .. Len(n)
      BY <1>5, <2>2, <3>1
    <3>3. SubSeq(n, a, b) = SubSeq(n, a, b - 1) \o <<n[b]>>
      BY <2>2, <3>2, SubSeqRecursiveSecond
    <3>4. n[b] = h
      BY <1>5, <1>6, <1>7, <2>2, <3>1
    <3> QED
      BY <3>1, <3>3, <3>4, Zenon
  <2>5. SubSeq(n, d + 1, l) = SubSeq(m, d + 1, l)
    <3> DEFINE u == SubSeq(n, d + 1, l)
               v == SubSeq(m, d + 1, l)
    <3>1. ASSUME NEW i \in d + 1 .. l PROVE n[i] = m[i] /\ m[i] \in Nat
      <4>1. i \in 1 .. l /\ i \in 1 .. l + 1
        BY <1>5
      <4>2. n[i] = moved'[i].number /\ m[i] = moved[i].number
        BY <2>1, <2>2, <4>1
      <4>3. moved'[i] = moved[i]
        BY <1>7, <4>1
      <4>4. m[i] \in Nat
        BY <2>1, <4>1, ElementOfSeq
      <4> QED
        BY <4>2, <4>3, <4>4
    <3>2. /\ u \in Seq(Nat) /\ Len(u) = (IF d + 1 <= l THEN l - (d + 1) + 1 ELSE 0)
          /\ \A i \in 1 .. l - (d + 1) + 1 : u[i] = n[d + 1 + i - 1]
      BY <1>5, <3>1, SubSeqProperties
    <3>3. /\ v \in Seq(Nat) /\ Len(v) = (IF d + 1 <= l THEN l - (d + 1) + 1 ELSE 0)
          /\ \A i \in 1 .. l - (d + 1) + 1 : v[i] = m[d + 1 + i - 1]
      BY <1>5, <3>1, SubSeqProperties
    <3> HIDE DEF u, v
    <3>4. Len(u) = Len(v) /\ \A i \in 1 .. Len(u) : u[i] = v[i]
      <4>1. \A i \in 1 .. Len(u) : i \in 1 .. l - (d + 1) + 1 /\ d + 1 + i - 1 \in d + 1 .. l
        BY <1>5, <3>2
      <4>2. Len(u) = Len(v)
        BY <3>2, <3>3
      <4>3. ASSUME NEW i \in 1 .. Len(u) PROVE u[i] = v[i]
        <5> DEFINE at == d + 1 + i - 1
        <5>1. i \in 1 .. l - (d + 1) + 1 /\ at \in d + 1 .. l
          BY <4>1
        <5>2. u[i] = n[at] /\ v[i] = m[at]
          BY <3>2, <3>3, <5>1
        <5> HIDE DEF at
        <5>3. n[at] = m[at]
          BY <3>1, <5>1
        <5> QED
          BY <5>2, <5>3
      <4> QED
        BY <4>2, <4>3
    <3>5. u = v
      BY <3>2, <3>3, <3>4, SeqEqual
    <3> QED
      BY <3>5 DEF u, v
  <2>6. Left(d) = SubSeq(m, d + 1, l) /\ Left(d)' = SubSeq(n, d + 1, l + 1)
    <3>1. NumbersOf(moved)' = NumbersOf(moved')
      BY DEF NumbersOf
    <3> QED
      BY <1>7, <3>1 DEF Left, m, n, l
  <2>7. Left(d)' = Left(d) \o <<h>>
    BY <2>4, <2>5, <2>6
  <2>8. Left(d) \in Seq(Nat)
    BY LeftTyped
  <2> QED
    BY <1>4, <2>7, <2>8, AppendIsConcat
<1>14. There' = Tail(There) /\ There # <<>> /\ Head(There) = h
  <2>1. There' = Tail(group) \o Current
    BY <1>1 DEF There, Current, Elements
  <2> QED
    BY <1>1, <1>3, <2>1, TailOfConcat DEF There, h
<1>15. TasksOf(There) = <<h>> \o TasksOf(There')
  <2>1. TasksOf(There) = <<Head(There)>> \o TasksOf(Tail(There))
    BY <1>1, <1>3, <1>14, TasksOfTail
  <2> QED
    BY <1>14, <2>1
<1>16. Left(d) \in Seq(Nat) /\ TasksOf(There') \in Seq(Nat)
  <2>1. There' \in Seq(Nat) /\ (NoNull(There') \/ NullLast(There'))
    BY <1>1, <1>3, <1>14, TailOfElements
  <2> QED
    BY <2>1, LeftTyped, TasksOfTyped
<1>17. Undone = Left(d) \o TasksOf(There) /\ Undone' = Left(d)' \o TasksOf(There')
  BY <1>12, UndoneNow, UndoneThen
<1>18. Undone' = Undone
  <2>1. Append(Left(d), h) \o TasksOf(There') = Left(d) \o (<<h>> \o TasksOf(There'))
    BY <1>4, <1>16, AppendToConcat, Zenon
  <2> QED
    BY <1>13, <1>15, <1>17, <2>1
<1>19. UNCHANGED <<n_ext, Referenced, ext_tasks_queue # 0>>
  BY <1>1 DEF Referenced
<1> QED
  BY <1>12, <1>18, <1>19 DEF ExecutorContract!vars

-----------------------------------------------------------------------------
\* The variables that the calls about executors leave alone.
LEMMA ExecutorsKeepKeys ==
  ASSUME TimesInv, ExecutorStep \/ TakeGroup
  PROVE  KeysRest
<1>1. UNCHANGED <<pending_tasks, next_task_id, etime>>
  BY ExecutorsLeaveLoop DEF LoopRests, TakeGroup, task_vars
<1>2. UNCHANGED moved
  BY DEF ExecutorStep, GetMtExecutor, ExecutorCall, Execute, DropExecutor, CopyExecutor,
         DestroyExecutor, WaitForElements, WakeUp, WaitTimesOut, ReadNull, TakeGroup
<1>3. next_task_id \in Nat /\ etime \in Nat
  <2>1. Times \subseteq Nat
    BY Bounds, SMT DEF Times, Tasks!Times
  <2> QED
    BY <2>1 DEF TimesInv, TypeInv
<1> QED
  BY <1>1, <1>2, <1>3 DEF KeysRest

LEMMA AcceptStep ==
  ASSUME TimesInv, TimesInv', IdleInv, IdleInv', NEW d \in Nat, MovedAt(d),
         NEW e \in DOMAIN executors, NEW h \in executors[e].holders, Execute(h, e)
  PROVE  MovedAt(d)' /\ ExecutorContract!Accept
<1>1. /\ e = mt_executor_wptr /\ ext_tasks_queue \in 1 .. MaxExecutors
      /\ executors[e].queue = ext_tasks_queue
      /\ NoNull(group) /\ NoNull(Elements)
  BY OneExecutor
<1>2. MyQueue \in Queues /\ Elements = MyQueue.elements /\ Elements \in Seq(Nat)
  BY <1>1, MyQueueType
<1>3. n_ext + 1 \in Nat /\ n_ext + 1 # Null
  BY SMT DEF IdleInv, QueuesInv, Null
<1>4. /\ queues' = [queues EXCEPT ![ext_tasks_queue] = Push(MyQueue, n_ext + 1)]
      /\ n_ext' = n_ext + 1 /\ UNCHANGED <<ext_tasks_queue, executors, group>>
  BY <1>1 DEF Execute, MyQueue
<1>5. Elements' = Append(Elements, n_ext + 1)
  <2>1. /\ Push(MyQueue, n_ext + 1) \in Queues
        /\ Push(MyQueue, n_ext + 1).elements = Append(Elements, n_ext + 1)
    BY <1>2, <1>3, PushIsTyped
  <2> QED
    BY <1>1, <1>4, <2>1, OneQueueChanges
<1>6. ext_tasks_queue # 0 /\ There = group \o Elements /\ There' = group \o Elements'
  BY <1>1, <1>4 DEF There, Current
<1>7. group \in Seq(Nat) /\ There \in Seq(Nat) /\ Current \in Seq(Nat)
  BY QueuesAre
<1>8. There' = Append(There, n_ext + 1)
  <2>1. group \o Append(Elements, n_ext + 1) = Append(group \o Elements, n_ext + 1)
    <3>1. PICK n : n = n_ext + 1
      OBVIOUS
    <3>2. n \in Nat /\ group \in Seq(Nat) /\ Elements \in Seq(Nat)
      BY <1>2, <1>3, <1>7, <3>1
    <3>3. group \o Append(Elements, n) = Append(group \o Elements, n)
      BY <3>2, AppendToConcat, Zenon
    <3> QED
      BY <3>1, <3>3
  <2> QED
    BY <1>5, <1>6, <2>1
<1>9. NoNull(There)
  BY <1>1, <1>2, <1>6, <1>7, NoNullConcat
<1>10. TasksOf(There') = Append(TasksOf(There), n_ext + 1)
  BY <1>3, <1>7, <1>8, <1>9, TasksOfAppend
<1>11. MovedAt(d)' /\ Left(d)' = Left(d) /\ Left(d) \in Seq(Nat)
  <2>1. ExecutorStep
    BY DEF ExecutorStep, ExecutorCall
  <2> QED
    BY <2>1, ExecutorsKeepKeys, RestKeepsMoved, LeftTyped
<1>12. Undone = Left(d) \o TasksOf(There) /\ Undone' = Left(d)' \o TasksOf(There')
  BY <1>11, UndoneNow, UndoneThen
<1>13. TasksOf(There) \in Seq(Nat)
  BY <1>7, <1>9, TasksOfTyped
<1>14. Undone' = Append(Undone, n_ext + 1)
  <2>1. PICK n : n = n_ext + 1
    OBVIOUS
  <2>2. n \in Nat
    BY <1>3, <2>1
  <2>3. Left(d) \o Append(TasksOf(There), n) = Append(Left(d) \o TasksOf(There), n)
    BY <1>11, <1>13, <2>2, AppendToConcat, Zenon
  <2> QED
    BY <1>10, <1>11, <1>12, <2>1, <2>3
<1>15. Referenced /\ Referenced' = Referenced
  BY <1>4 DEF Referenced
<1> QED
  BY <1>4, <1>11, <1>14, <1>15 DEF ExecutorContract!Accept

(* A release keeps the tasks: the null of a destroyed executor is not one.  *)
LEMMA ReleaseKeepsTasks ==
  ASSUME IdleInv, NEW e \in DOMAIN executors,
         executors[e].holders # {} \/ ~executors[e].destroyed,
         PushNull(e) \/ UNCHANGED queues, UNCHANGED <<ext_tasks_queue, group>>
  PROVE  TasksOf(There') = TasksOf(There)
<1>1. /\ ext_tasks_queue \in 1 .. MaxExecutors /\ executors[e].queue = ext_tasks_queue
      /\ NoNull(group) /\ NoNull(Elements)
  BY OneExecutor
<1>2. MyQueue \in Queues /\ Elements = MyQueue.elements /\ Elements \in Seq(Nat)
  BY <1>1, MyQueueType
<1>3. ext_tasks_queue # 0 /\ There = group \o Elements /\ There' = group \o Elements'
  BY <1>1 DEF There, Current
<1>4. CASE UNCHANGED queues
  BY <1>3, <1>4 DEF Elements
<1>5. CASE PushNull(e)
  <2>1. Null \in Nat
    BY SMT DEF Null
  <2>2. Push(MyQueue, Null) \in Queues /\ Push(MyQueue, Null).elements = Append(Elements, Null)
    BY <1>2, <2>1, PushIsTyped
  <2>3. queues' = [queues EXCEPT ![ext_tasks_queue] = Push(MyQueue, Null)]
    BY <1>1, <1>5 DEF PushNull, MyQueue
  <2>4. Elements' = Append(Elements, Null)
    BY <1>1, <2>2, <2>3, OneQueueChanges
  <2>5. group \in Seq(Nat) /\ There \in Seq(Nat)
    BY QueuesAre
  <2>6. There' = Append(There, Null)
    BY <1>2, <1>3, <2>1, <2>4, <2>5, AppendToConcat
  <2>7. NoNull(There)
    BY <1>1, <1>2, <1>3, <2>5, NoNullConcat
  <2> QED
    BY <2>1, <2>5, <2>6, <2>7, TasksOfAppend
<1> QED
  BY <1>4, <1>5

LEMMA ReleaseStep ==
  ASSUME TimesInv, TimesInv', IdleInv, IdleInv', NEW d \in Nat, MovedAt(d),
         NEW e \in DOMAIN executors,
         \/ \E h \in executors[e].holders : DropExecutor(h, e)
         \/ DestroyExecutor(e)
  PROVE  MovedAt(d)' /\ (ExecutorContract!Release \/ UNCHANGED ExecutorContract!vars)
<1>1. executors \in Seq(ExecutorStates)
  BY DEF IdleInv, QueuesInv
<1>2. executors[e].holders # {} \/ ~executors[e].destroyed
  BY DEF DestroyExecutor
<1>3. /\ PushNull(e) \/ UNCHANGED queues
      /\ UNCHANGED <<ext_tasks_queue, group, n_ext>>
  BY DEF DropExecutor, DestroyExecutor
<1>4. TasksOf(There') = TasksOf(There)
  BY <1>2, <1>3, ReleaseKeepsTasks
<1>5. ExecutorStep
  BY DEF ExecutorStep, ExecutorCall
<1>6. MovedAt(d)' /\ Undone' = Undone
  BY <1>4, <1>5, ExecutorsKeepKeys, RestKeepsUndone
<1>7. CASE \E h \in executors[e].holders : DropExecutor(h, e)
  <2>1. Referenced
    BY <1>7 DEF Referenced
  <2>2. CASE Referenced'
    BY <1>3, <1>6, <2>1, <2>2 DEF ExecutorContract!vars
  <2>3. CASE ~Referenced'
    <3>1. Referenced' = FALSE
      BY <2>3 DEF Referenced
    <3> QED
      BY <1>3, <1>6, <3>1 DEF ExecutorContract!Release
  <2> QED
    BY <1>6, <2>2, <2>3
<1>8. CASE DestroyExecutor(e)
  <2>1. executors' = [executors EXCEPT ![e].destroyed = TRUE]
    BY <1>8 DEF DestroyExecutor
  <2>2. executors[e] \in ExecutorStates
    BY <1>1
  <2>3. DOMAIN executors' = DOMAIN executors
        /\ \A x \in DOMAIN executors : executors'[x].holders = executors[x].holders
    BY <2>1, <2>2 DEF ExecutorStates
  <2>4. Referenced' = Referenced
    BY <2>3 DEF Referenced
  <2> QED
    BY <1>3, <1>6, <2>4 DEF ExecutorContract!vars
<1> QED
  BY <1>7, <1>8

LEMMA CopyStep ==
  ASSUME TimesInv, TimesInv', IdleInv, IdleInv', NEW d \in Nat, MovedAt(d),
         NEW e \in DOMAIN executors, NEW h \in executors[e].holders, NEW t \in Threads,
         CopyExecutor(h, e, t)
  PROVE  MovedAt(d)' /\ UNCHANGED ExecutorContract!vars
<1>1. /\ executors' = [executors EXCEPT ![e].holders = executors[e].holders \cup {t}]
      /\ UNCHANGED <<queues, ext_tasks_queue, group, n_ext>>
  BY DEF CopyExecutor
<1>2. executors[e] \in ExecutorStates
  BY DEF IdleInv, QueuesInv
<1>3. DOMAIN executors' = DOMAIN executors
      /\ executors'[e].holders = executors[e].holders \cup {t}
  BY <1>1, <1>2 DEF ExecutorStates
<1>4. Referenced /\ Referenced'
  BY <1>3 DEF Referenced
<1>5. There' = There
  BY <1>1 DEF There, Current, Elements
<1>6. ExecutorStep
  BY DEF ExecutorStep, ExecutorCall
<1>7. MovedAt(d)' /\ Undone' = Undone
  BY <1>5, <1>6, ExecutorsKeepKeys, RestKeepsUndone
<1>8. Referenced' = Referenced
  BY <1>4 DEF Referenced
<1> QED
  BY <1>1, <1>7, <1>8 DEF ExecutorContract!vars

LEMMA AcquireStep ==
  ASSUME TimesInv, TimesInv', IdleInv, IdleInv', NEW d \in Nat, MovedAt(d), GetMtExecutor
  PROVE  MovedAt(d)' /\ ExecutorContract!Acquire
<1>1. /\ executors \in Seq(ExecutorStates) /\ DOMAIN executors = 1 .. Len(executors)
      /\ Len(executors) \in Nat /\ n_queues \in Nat
      /\ MaxExecutors \in Nat /\ queues \in [1 .. MaxExecutors -> Queues]
      /\ mt_executor_wptr \in 0 .. Len(executors)
  BY Bounds, LenProperties DEF IdleInv, QueuesInv
<1>2. UNCHANGED <<queues, group, n_ext>>
  BY DEF GetMtExecutor
<1>3. There' = There
  <2>1. CASE ext_tasks_queue = 0
    <3>1. ext_tasks_queue' = n_queues + 1
      BY <2>1 DEF GetMtExecutor
    <3>2. ext_tasks_queue' # 0 /\ ext_tasks_queue' \in 1 .. MaxExecutors
      <4>1. ext_tasks_queue' \in 0 .. MaxExecutors
        BY QueuesNext
      <4> QED
        BY <1>1, <3>1, <4>1
    <3>3. queues[ext_tasks_queue'].elements = <<>>
      BY <2>1, <3>2, QueuesAre
    <3> QED
      BY <1>2, <2>1, <3>2, <3>3 DEF There, Current, Elements
  <2>2. CASE ext_tasks_queue # 0
    <3>1. ext_tasks_queue' = ext_tasks_queue
      BY <2>2 DEF GetMtExecutor
    <3> QED
      BY <1>2, <3>1 DEF There, Current, Elements
  <2> QED
    BY <2>1, <2>2
<1>4. Referenced'
  <2>1. CASE Locked(mt_executor_wptr)
    <3> DEFINE w == mt_executor_wptr
    <3>1. w \in DOMAIN executors /\ executors[w] \in ExecutorStates
      BY <1>1, <2>1 DEF Locked
    <3>2. executors' = [executors EXCEPT ![w].holders = executors[w].holders \cup {Loop}]
      BY <2>1 DEF GetMtExecutor
    <3>3. DOMAIN executors' = DOMAIN executors
          /\ executors'[w].holders = executors[w].holders \cup {Loop}
      BY <3>1, <3>2 DEF ExecutorStates
    <3> QED
      BY <3>1, <3>3 DEF Referenced
  <2>2. CASE ~Locked(mt_executor_wptr)
    <3> DEFINE n == Len(executors) + 1
               x == [queue |-> ext_tasks_queue', holders |-> {Loop}, destroyed |-> FALSE]
    <3>1. executors' = Append(executors, x)
      BY <2>2 DEF GetMtExecutor
    <3>2. x.holders = {Loop}
      OBVIOUS
    <3> HIDE DEF x
    <3>3. n \in DOMAIN executors' /\ executors'[n] = x
      BY <1>1, <3>1
    <3> QED
      BY <3>2, <3>3 DEF Referenced
  <2> QED
    BY <2>1, <2>2
<1>5. ext_tasks_queue' # 0
  <2>1. n_queues + 1 # 0
    BY <1>1
  <2> QED
    BY <2>1 DEF GetMtExecutor
<1>6. ExecutorStep
  BY DEF ExecutorStep
<1>7. MovedAt(d)' /\ Undone' = Undone
  BY <1>3, <1>6, ExecutorsKeepKeys, RestKeepsUndone
<1>8. Referenced' = TRUE /\ (ext_tasks_queue # 0)' = TRUE
  BY <1>4, <1>5 DEF Referenced
<1> QED
  BY <1>2, <1>7, <1>8 DEF ExecutorContract!Acquire

LEMMA WaitStep ==
  ASSUME TimesInv, TimesInv', IdleInv, IdleInv', NEW d \in Nat, MovedAt(d),
         WaitForElements \/ WakeUp
  PROVE  MovedAt(d)' /\ UNCHANGED ExecutorContract!vars
<1>1. ext_tasks_queue \in 1 .. MaxExecutors
  <2>1. pc = "acquire"
    BY DEF WaitForElements, WakeUp
  <2> QED
    BY <2>1, Bounds, SMT DEF IdleInv, OthersDone, QueuesInv
<1>2. MyQueue \in Queues /\ Elements = MyQueue.elements
  BY <1>1, MyQueueType
<1>3. PICK w \in SUBSET {Loop} : queues' = [queues EXCEPT ![ext_tasks_queue] =
                                            [MyQueue EXCEPT !.waiting = w]]
  <2>1. CASE WaitForElements
    BY <1>2, <2>1 DEF WaitForElements, SetMyQueue, Block, Queues
  <2>2. CASE WakeUp
    BY <1>2, <2>2 DEF WakeUp, SetMyQueue, Wake, Queues
  <2> QED
    BY <2>1, <2>2
<1>4. [MyQueue EXCEPT !.waiting = w] \in Queues
      /\ [MyQueue EXCEPT !.waiting = w].elements = Elements
  BY <1>2 DEF Queues
<1>5. UNCHANGED <<ext_tasks_queue, executors, n_ext, group>>
  BY DEF WaitForElements, WakeUp
<1>6. Elements' = Elements
  BY <1>1, <1>3, <1>4, <1>5, OneQueueChanges
<1>7. There' = There
  BY <1>5, <1>6 DEF There, Current
<1>8. ExecutorStep
  BY DEF ExecutorStep
<1>9. MovedAt(d)' /\ Undone' = Undone
  BY <1>7, <1>8, ExecutorsKeepKeys, RestKeepsUndone
<1>10. Referenced' = Referenced
  BY <1>5 DEF Referenced
<1> QED
  BY <1>5, <1>9, <1>10 DEF ExecutorContract!vars

LEMMA TakeStep ==
  ASSUME TimesInv, TimesInv', IdleInv, IdleInv', NEW d \in Nat, MovedAt(d), TakeGroup
  PROVE  MovedAt(d)' /\ UNCHANGED ExecutorContract!vars
<1>1. ext_tasks_queue \in 1 .. MaxExecutors /\ group = <<>>
  BY Bounds, SMT DEF IdleInv, OthersDone, QueuesInv, TakeGroup
<1>2. MyQueue \in Queues /\ Elements = MyQueue.elements /\ Elements \in Seq(Nat)
  BY <1>1, MyQueueType
<1>3. PopAll(MyQueue) \in Queues /\ PopAll(MyQueue).elements = <<>>
  BY <1>2, EmptySeq DEF PopAll, Queues
<1>4. /\ queues' = [queues EXCEPT ![ext_tasks_queue] = PopAll(MyQueue)]
      /\ group' = Elements /\ UNCHANGED <<ext_tasks_queue, executors, n_ext>>
  BY <1>2 DEF TakeGroup, SetMyQueue
<1>5. Elements' = <<>>
  BY <1>1, <1>3, <1>4, OneQueueChanges
<1>6. There = <<>> \o Elements /\ There' = Elements \o <<>>
  BY <1>1, <1>4, <1>5 DEF There, Current
<1>7. There' = There
  BY <1>2, <1>6, ConcatEmptySeq
<1>8. MovedAt(d)' /\ Undone' = Undone
  BY <1>7, ExecutorsKeepKeys, RestKeepsUndone
<1>9. Referenced' = Referenced
  BY <1>4 DEF Referenced
<1> QED
  BY <1>4, <1>8, <1>9 DEF ExecutorContract!vars

\* Nobody holds the executor whose null is read, and nothing follows the null.
LEMMA StopStep ==
  ASSUME TimesInv, TimesInv', IdleInv, IdleInv', NEW d \in Nat, MovedAt(d), ReadNull
  PROVE  MovedAt(d)' /\ ExecutorContract!StopListening
<1>1. /\ group # <<>> /\ Head(group) = Null /\ group' = Tail(group)
      /\ ext_tasks_queue' = 0 /\ mt_executor_wptr' = 0
      /\ UNCHANGED <<executors, n_ext, queues>>
  BY DEF ReadNull
<1>2. /\ group \in Seq(Nat) /\ ext_tasks_queue # 0 /\ mt_executor_wptr # 0
      /\ mt_executor_wptr \in DOMAIN executors
  BY <1>1, SMT DEF IdleInv, QueuesInv, OthersDone
<1>3. ~NoNull(group)
  BY <1>1, <1>2, TailOfElements
<1> DEFINE x == executors[mt_executor_wptr]
<1>4. x.destroyed \in BOOLEAN
  <2>1. x \in ExecutorStates
    BY <1>2 DEF IdleInv, QueuesInv
  <2> QED
    BY <2>1 DEF ExecutorStates
<1>5. x.destroyed = TRUE /\ x.holders = {} /\ NullLast(group) /\ Elements = <<>>
  BY <1>2, <1>3, <1>4 DEF IdleInv, CurrentInv
<1>6. ~Referenced
  BY <1>5 DEF IdleInv, OthersDone, Referenced
<1>7. Len(group) = 1
  <2>1. Len(group) \in Nat \ {0} /\ Head(group) = group[1]
    BY <1>1, <1>2, EmptySeq
  <2>2. \A i \in 1 .. Len(group) - 1 : group[i] # Null
    BY <1>5 DEF NullLast
  <2>3. group[1] = Null
    BY <1>1, <2>1
  <2>4. ~(1 \in 1 .. Len(group) - 1)
    BY <2>2, <2>3
  <2>5. PICK l \in Nat \ {0} : l = Len(group)
    BY <2>1
  <2>6. ~(1 \in 1 .. l - 1)
    BY <2>4, <2>5
  <2>7. l = 1
    BY <2>6
  <2> QED
    BY <2>5, <2>7
<1>8. There = group
  BY <1>2, <1>5, ConcatEmptySeq DEF There, Current
<1>9. TasksOf(There) = <<>>
  <2>1. TasksOf(There) = SubSeq(group, 1, Len(group) - 1)
    BY <1>2, <1>5, <1>8, TasksOfIs
  <2>2. 1 \in Int /\ Len(group) - 1 \in Int /\ Len(group) - 1 < 1
    BY <1>7
  <2> QED
    BY <2>1, <2>2, SubSeqEmpty
<1>10. TasksOf(There') = <<>>
  <2>1. group' = <<>>
    BY <1>1, <1>2, <1>5, TailOfElements
  <2>2. There' = <<>> \o <<>>
    BY <1>1, <2>1 DEF There, Current
  <2>3. There' = <<>> /\ <<>> \in Seq(Nat)
    BY <2>2, EmptySeq, ConcatEmptySeq
  <2>4. NoNull(<<>>)
    BY DEF NoNull
  <2> QED
    BY <2>3, <2>4, TasksOfIs
<1>11. ExecutorStep
  BY DEF ExecutorStep
<1>12. MovedAt(d)' /\ Undone' = Undone
  BY <1>9, <1>10, <1>11, ExecutorsKeepKeys, RestKeepsUndone
<1>13. Referenced' = Referenced
  BY <1>1 DEF Referenced
<1> QED
  BY <1>1, <1>6, <1>12, <1>13 DEF ExecutorContract!StopListening

MovedInv == \E d \in Nat : MovedAt(d)

LEMMA ExecutorStepImplements ==
  ASSUME TimesInv, TimesInv', IdleInv, IdleInv', NEW d \in Nat, MovedAt(d), [Next]_vars
  PROVE  MovedInv' /\ (ExecutorContract!Next \/ UNCHANGED ExecutorContract!vars)
<1> USE DEF ExecutorContract!Next
<1>1. ASSUME NEW f \in Nat, MovedAt(f)' PROVE MovedInv'
  BY <1>1 DEF MovedInv
<1>2. CASE KeysRest /\ IdleRests
  BY <1>1, <1>2, StillStep
<1>3. CASE RunTask
  <2>1. d + 1 \in Nat
    OBVIOUS
  <2> QED
    BY <1>1, <1>2, <1>3, <2>1, RunIsExecute
<1>4. CASE MoveTask
  BY <1>1, <1>4, MoveIsStill
<1>5. CASE \E t \in Tasks!Times : InvokeAt(t)
  BY <1>2, <1>5, InvokeIsStill
<1>6. CASE \E k \in pending_tasks : DisableTask(k)
  BY <1>2, <1>6, DisableIsStill
<1>7. CASE \/ Quit \/ TaskReturns \/ NoTaskDue \/ Tick \/ RunIterations \/ AfterTasks
           \/ GroupDone \/ Sleep \/ Iterate \/ UNCHANGED vars
  BY <1>2, <1>7, ClockIsStill
<1>8. CASE GetMtExecutor
  BY <1>1, <1>8, AcquireStep
<1>9. CASE WaitForElements \/ WakeUp \/ WaitTimesOut
  BY <1>1, <1>9, WaitStep DEF WaitTimesOut
<1>10. CASE TakeGroup
  BY <1>1, <1>10, TakeStep
<1>11. CASE ReadNull
  BY <1>1, <1>11, StopStep
<1>12. CASE \E e \in DOMAIN executors : DestroyExecutor(e)
  BY <1>1, <1>12, ReleaseStep
<1>13. CASE ExecutorCall
  BY <1>1, <1>13, AcceptStep, ReleaseStep, CopyStep DEF ExecutorCall
<1> QED
  BY <1>3, <1>4, <1>5, <1>6, <1>7, <1>8, <1>9, <1>10, <1>11, <1>12, <1>13
  DEF Next, LoopStep

LEMMA InitExecutor ==
  Init => MovedAt(0) /\ ExecutorContract!Init /\ ~Referenced
<1> SUFFICES ASSUME Init PROVE MovedAt(0) /\ ExecutorContract!Init /\ ~Referenced
  OBVIOUS
<1>1. /\ ext_tasks_queue = 0 /\ executors = <<>> /\ n_ext = 0 /\ group = <<>>
      /\ moved = <<>>
  BY DEF Init
<1>2. MovedAt(0)
  <2>1. moved \in Seq(Moves) /\ Len(moved) = 0
    BY <1>1, EmptySeq
  <2> QED
    BY <2>1 DEF MovedAt
<1>3. ~Referenced
  BY <1>1 DEF Referenced
<1>4. Undone = <<>>
  <2>1. Undone = Left(0) \o TasksOf(There)
    BY <1>2, InitIdle, UndoneNow
  <2>2. <<>> \in Seq(Nat) /\ NoNull(<<>>)
    BY EmptySeq DEF NoNull
  <2>3. TasksOf(There) = <<>>
    <3>1. There = <<>>
      BY <1>1, <2>2, ConcatEmptySeq DEF There, Current
    <3> QED
      BY <2>2, <3>1, TasksOfIs
  <2>4. Left(0) = <<>>
    <3>1. Len(moved) = 0
      BY <1>1, EmptySeq
    <3>2. 0 + 1 \in Int /\ Len(moved) \in Int /\ Len(moved) < 0 + 1
      BY <3>1
    <3> QED
      BY <3>2, SubSeqEmpty DEF Left
  <2> QED
    BY <2>1, <2>2, <2>3, <2>4, ConcatEmptySeq
<1> QED
  BY <1>1, <1>2, <1>3, <1>4 DEF ExecutorContract!Init, Referenced

(* While executors are not made before the null of the one before is read,  *)
(* the loop keeps the promise of an MT executor: a task given to an executor *)
(* runs once, and in the order of giving, through the queue, the group and  *)
(* the map of the inner loop, and the queue stays while someone holds it.   *)
THEOREM ExecutorImplementation ==
  ASSUME ~EarlyReacquire PROVE Spec => ImplementsMtExecutor
<1> DEFINE All == TimesInv /\ IdleInv /\ MovedInv
<1>1. Init => All
  BY InitTimes, InitIdle, InitExecutor DEF MovedInv
<1>2. All /\ [Next]_vars => All' /\ [ExecutorContract!Next]_(ExecutorContract!vars)
  <2> SUFFICES ASSUME All, [Next]_vars
               PROVE  All' /\ (ExecutorContract!Next \/ UNCHANGED ExecutorContract!vars)
    OBVIOUS
  <2>1. TimesInv' /\ IdleInv'
    BY NextTimes, NextIdle
  <2>2. PICK d \in Nat : MovedAt(d)
    BY DEF MovedInv
  <2> QED
    BY <2>1, <2>2, ExecutorStepImplements
<1>3. Init => ExecutorContract!Init /\ Referenced \in BOOLEAN
  BY InitExecutor DEF Referenced
<1> HIDE DEF All
<1> QED
  BY <1>1, <1>2, <1>3, PTL DEF Spec, ImplementsMtExecutor, ExecutorContract!Spec
==============================================================================
