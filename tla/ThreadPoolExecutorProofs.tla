---------------------- MODULE ThreadPoolExecutorProofs ----------------------
(***************************************************************************)
(* Proofs about ThreadPoolExecutor, for any number of clients, workers and *)
(* tasks, both ways of destruction, and any threads that fail to start.    *)
(***************************************************************************)
EXTENDS ThreadPoolExecutor, FiniteSetTheorems, SequenceTheorems, TLAPS

Elements == tasks_queue.elements

\* The queue holds the tasks enqueued and not taken, in order, then nulls.
QueueInv ==
  /\ Len(taken) <= n_enqueued
  /\ n_enqueued - Len(taken) <= Len(Elements)
  /\ \A i \in 1 .. Len(Elements) :
       IF i <= n_enqueued - Len(taken)
       THEN Elements[i] \in Task /\ Elements[i].number = Len(taken) + i
       ELSE Elements[i] = Null

\* No nulls before the destructor runs.  Afterwards nobody can enqueue a task.
DestructorInv ==
  /\ destructor = "none" => n_enqueued - Len(taken) = Len(Elements)
  /\ destructor # "none" =>
       /\ holders = {}
       /\ ~QueuedOwns(tasks_queue)
       /\ \A w \in Workers : HasTask(w) => ~task[w].owns

\* What a worker calls is a task.
WorkersInv == \A w \in Workers : HasTask(w) => task[w] \in Task

\* Each task taken was started, or is held by the one worker that will call it.
StartsInv ==
  /\ \A i \in DOMAIN taken : taken[i] = i
  /\ \A i, j \in DOMAIN started : started[i] = started[j] => i = j
  /\ \A n \in StartedTasks : n <= Len(taken)
  /\ \A m \in 1 .. Len(taken) : m \in StartedTasks \/ \E w \in Workers : Uncalled(w, m)
  /\ \A w \in Workers : pc[w] = "start" =>
       task[w].number <= Len(taken) /\ task[w].number \notin StartedTasks
  /\ \A v, w \in Workers :
       pc[v] = "start" /\ pc[w] = "start" /\ task[v].number = task[w].number => v = w

Inv ==
  /\ TypeOK
  /\ NoLostWakeup
  /\ StartsInv
  /\ QueueInv /\ DestructorInv /\ WorkersInv /\ WorkersEndLast

-----------------------------------------------------------------------------
Queue == [elements : Seq(Task \cup {Null}), waiting : SUBSET Workers]

(* push keeps the property that nobody sleeps on work, though it notifies   *)
(* nobody when the queue was not empty: nobody can have been asleep then.   *)
LEMMA PushKeeps ==
  ASSUME NEW q \in Queue, NEW e \in Task \cup {Null}
  PROVE  /\ Push(q, e) \in Queue
         /\ Push(q, e).elements = Append(q.elements, e)
         /\ NoneSleepsOnWork(q) => NoneSleepsOnWork(Push(q, e))
  BY AppendProperties DEF Queue, Push, NoneSleepsOnWork

LEMMA PopKeeps ==
  ASSUME NEW q \in Queue, q.elements # <<>>
  PROVE  /\ Pop(q) \in Queue
         /\ Pop(q).elements = Tail(q.elements)
         /\ NoneSleepsOnWork(q) => NoneSleepsOnWork(Pop(q))
  BY HeadTailProperties DEF Queue, Pop, NoneSleepsOnWork

LEMMA BlockKeeps ==
  ASSUME NEW q \in Queue, NEW w \in Workers
  PROVE  /\ Block(q, w) \in Queue /\ Wake(q, w) \in Queue
         /\ Block(q, w).elements = q.elements /\ Wake(q, w).elements = q.elements
         /\ CanBlock(q, w) => NoneSleepsOnWork(Block(q, w))
         /\ NoneSleepsOnWork(q) => NoneSleepsOnWork(Wake(q, w))
  BY DEF Queue, Block, Wake, CanBlock, NoneSleepsOnWork

LEMMA WorkersCounted ==
  ASSUME NEW S \in SUBSET Workers
  PROVE  Cardinality(S) \in 0 .. Cardinality(Workers)
<1>1. IsFiniteSet(S) /\ Cardinality(S) <= Cardinality(Workers)
  BY WorkersAreFinite, FS_Subset
<1>2. Cardinality(S) \in Nat /\ Cardinality(Workers) \in Nat
  BY <1>1, WorkersAreFinite, FS_CardinalityType
<1> QED
  BY <1>1, <1>2, SMT

LEMMA NullIsNoTask == Null \notin Task /\ ~Null.owns
  BY SMT DEF Null, Task

-----------------------------------------------------------------------------
LEMMA InitInv == Init => Inv
<1> SUFFICES ASSUME Init PROVE Inv
  OBVIOUS
<1>1. Elements = <<>> /\ tasks_queue \in Queue /\ tasks_queue.waiting = {}
  BY EmptySeq DEF Init, NewQueue, Elements, Queue
<1>2. taken = <<>> /\ n_enqueued = 0 /\ Len(taken) = 0 /\ Len(Elements) = 0
  BY <1>1, EmptySeq DEF Init
<1>3. nulls_left \in 0 .. Cardinality(Workers)
  <2>1. 0 \in 0 .. Cardinality(Workers)
    BY WorkersAreFinite, FS_CardinalityType, SMT
  <2> QED
    BY <2>1, WorkersCounted DEF Init
<1>4. TypeOK
  <2>1. n_enqueued \in 0 .. MaxTasks
    BY <1>2, MaxTasksIsNatural, SMT
  <2>2. taken \in Seq(1 .. MaxTasks)
    BY <1>2, EmptySeq
  <2>3. pc \in [Workers -> {"none", "pop", "start", "run", "destroy", "ended"}]
    BY DEF Init
  <2>4. task \in [Workers -> Task \cup {Null}]
    BY DEF Init
  <2>5. holders \subseteq Clients /\ destructor \in {"none", "push", "done"}
    BY DEF Init
  <2> QED
    BY <1>1, <1>3, <2>1, <2>2, <2>3, <2>4, <2>5 DEF TypeOK, Queue, Init
<1>5. QueueInv
  BY <1>2, SMT DEF QueueInv
<1>6. \A w \in Workers : pc[w] \in {"pop", "none"}
  BY DEF Init
<1>7. ~QueuedOwns(tasks_queue)
  BY <1>1 DEF QueuedOwns, Elements
<1>8. n_enqueued - Len(taken) = Len(Elements)
  <2>1. 0 - 0 = 0
    BY SMT
  <2> QED
    BY <1>2, <2>1
<1>9. destructor # "none" => holders = {}
  BY DEF Init
<1>10. DestructorInv
  BY <1>6, <1>7, <1>8, <1>9 DEF DestructorInv, HasTask
<1>11. StartsInv
  <2>1. started = <<>> /\ StartedTasks = {} /\ 1 .. Len(taken) = {}
    BY <1>2, EmptySeq, SMT DEF Init, StartedTasks
  <2> QED
    BY <1>2, <1>6, <2>1, EmptySeq, SMT DEF StartsInv, Uncalled
<1> QED
  BY <1>1, <1>2, <1>4, <1>5, <1>6, <1>10, <1>11
  DEF Inv, NoLostWakeup, NoneSleepsOnWork, WorkersInv, WorkersEndLast, Elements, HasTask

(* Steps that neither take nor start a task keep what is known of them.    *)
LEMMA StartsKept ==
  ASSUME StartsInv, UNCHANGED <<taken, started, task>>,
         \A w \in Workers : pc'[w] = "start" <=> pc[w] = "start"
  PROVE  StartsInv'
  BY DEF StartsInv, StartedTasks, Uncalled

(* Only tasks that were taken are started.                                 *)
LEMMA StartedBounded ==
  ASSUME Inv
  PROVE  \A n \in StartedTasks : n \in Nat /\ n <= Len(taken)
<1>1. started \in Seq(1 .. MaxTasks)
  BY DEF Inv, TypeOK
<1>2. DOMAIN started = 1 .. Len(started)
      /\ \A i \in 1 .. Len(started) : started[i] \in 1 .. MaxTasks
  BY <1>1, LenProperties, ElementOfSeq
<1>3. \A n \in StartedTasks : n \in 1 .. MaxTasks
  BY <1>2 DEF StartedTasks
<1>4. \A n \in StartedTasks : n \in Nat
  BY <1>3, MaxTasksIsNatural, SMT
<1> QED
  BY <1>4 DEF Inv, StartsInv

(* Nobody can enqueue once the destructor runs.                            *)
LEMMA EnqueuersInv ==
  ASSUME Inv, CanEnqueue
  PROVE  destructor = "none"
  BY DEF Inv, CanEnqueue, DestructorInv, HasTask

LEMMA EnqueueInv ==
  ASSUME Inv, NEW owns \in BOOLEAN, Enqueue(owns)
  PROVE  Inv'
<1> DEFINE e == [number |-> n_enqueued + 1, owns |-> owns]
<1>1. /\ n_enqueued \in 0 .. MaxTasks /\ n_enqueued < MaxTasks
      /\ tasks_queue \in Queue
      /\ taken \in Seq(1 .. MaxTasks)
      /\ Elements \in Seq(Task \cup {Null})
  BY DEF Inv, TypeOK, Enqueue, Queue, Elements
<1>2. n_enqueued + 1 \in 1 .. MaxTasks /\ n_enqueued + 1 \in 0 .. MaxTasks
      /\ n_enqueued \in Nat
  BY <1>1, MaxTasksIsNatural, SMT
<1>3. e \in Task
  BY <1>2 DEF Task
<1>4. destructor = "none"
  BY EnqueuersInv DEF Enqueue
<1>5. tasks_queue' = Push(tasks_queue, e)
  BY DEF Enqueue
<1> HIDE DEF e
<1>6. /\ tasks_queue' \in Queue
      /\ Elements' = Append(Elements, e)
      /\ NoLostWakeup'
  BY <1>1, <1>3, <1>5, PushKeeps DEF Inv, NoLostWakeup, Elements
<1>7. /\ Len(Elements') = Len(Elements) + 1
      /\ \A i \in 1 .. Len(Elements) : Elements'[i] = Elements[i]
      /\ Elements'[Len(Elements) + 1] = e
      /\ Len(Elements) \in Nat /\ Len(taken) \in Nat
  BY <1>1, <1>3, <1>6, AppendProperties, LenProperties
<1>8. TypeOK'
  BY <1>2, <1>6 DEF TypeOK, Queue, Enqueue, Inv
<1>9. n_enqueued - Len(taken) = Len(Elements)
  BY <1>4 DEF Inv, DestructorInv
<1>10. n_enqueued' = n_enqueued + 1 /\ taken' = taken /\ destructor' = "none"
  BY <1>4 DEF Enqueue
<1>11. e.number = n_enqueued + 1
  BY DEF e
<1>12. QueueInv'
  <2>1. Len(taken') <= n_enqueued' /\ n_enqueued' - Len(taken') <= Len(Elements')
    BY <1>2, <1>7, <1>9, <1>10, SMT
  <2>2. ASSUME NEW i \in 1 .. Len(Elements')
        PROVE  /\ i <= n_enqueued' - Len(taken')
               /\ Elements'[i] \in Task
               /\ Elements'[i].number = Len(taken') + i
    <3>1. i <= n_enqueued' - Len(taken')
      BY <1>2, <1>7, <1>9, <1>10, SMT
    <3>2. CASE i = Len(Elements) + 1
      <4>1. Len(taken) + i = n_enqueued + 1
        BY <3>2, <1>2, <1>7, <1>9, SMT
      <4> QED
        BY <4>1, <3>1, <3>2, <1>3, <1>7, <1>10, <1>11
    <3>3. CASE i # Len(Elements) + 1
      <4>1. i \in 1 .. Len(Elements) /\ i <= n_enqueued - Len(taken)
        BY <3>3, <1>7, <1>9, SMT
      <4> QED
        BY <4>1, <3>1, <1>7, <1>10 DEF Inv, QueueInv
    <3> QED
      BY <3>2, <3>3
  <2> QED
    BY <2>1, <2>2 DEF QueueInv
<1>13. DestructorInv'
  BY <1>2, <1>7, <1>9, <1>10, SMT DEF DestructorInv, HasTask
<1>14. WorkersInv' /\ WorkersEndLast' /\ StartsInv'
  BY <1>4, StartsKept DEF Inv, WorkersInv, WorkersEndLast, HasTask, Enqueue
<1> QED
  BY <1>6, <1>8, <1>12, <1>13, <1>14 DEF Inv

LEMMA DropReferenceInv ==
  ASSUME Inv, NEW c \in Clients, DropReference(c)
  PROVE  Inv'
<1>1. UNCHANGED <<tasks_queue, created, destroy_mode, pc, task, n_enqueued, taken, started, finished>>
  BY DEF DropReference
<1>2. destructor = "none"
  BY DEF Inv, DropReference, DestructorInv
<1>3. \/ destructor' = "none" /\ nulls_left' = nulls_left
      \/ /\ Unreferenced(holders', Workers)
         /\ destructor' = "push" /\ nulls_left' = Cardinality(created)
  BY <1>2 DEF DropReference, BeginDestructor
<1>4. TypeOK'
  <2>1. nulls_left' \in 0 .. Cardinality(Workers)
    BY <1>3, WorkersCounted DEF Inv, TypeOK
  <2>2. holders' \subseteq Clients /\ destructor' \in {"none", "push", "done"}
    BY <1>3 DEF Inv, TypeOK, DropReference
  <2> QED
    BY <1>1, <2>1, <2>2 DEF Inv, TypeOK
<1>5. DestructorInv'
  <2>1. CASE destructor' = "none"
    BY <1>1, <1>2, <2>1 DEF Inv, DestructorInv, Elements
  <2>2. CASE destructor' # "none"
    BY <1>1, <1>3, <2>2 DEF DestructorInv, Unreferenced, HasTask
  <2> QED
    BY <2>1, <2>2
<1>6. NoLostWakeup' /\ StartsInv' /\ WorkersInv' /\ QueueInv'
  BY <1>1, StartsKept DEF Inv, NoLostWakeup, WorkersInv, HasTask, QueueInv, Elements
<1>7. WorkersEndLast'
  BY <1>1, <1>2 DEF Inv, WorkersEndLast
<1> QED
  BY <1>4, <1>5, <1>6, <1>7 DEF Inv

LEMMA WaitInv ==
  ASSUME Inv, NEW w \in Workers, WaitForTask(w) \/ SpuriousWakeup(w)
  PROVE  Inv'
<1>1. UNCHANGED <<holders, created, destroy_mode, pc, task, destructor,
                  nulls_left, n_enqueued, taken, started, finished>>
  BY DEF WaitForTask, SpuriousWakeup
<1>2. tasks_queue' \in Queue /\ Elements' = Elements /\ NoLostWakeup'
  <2>1. tasks_queue \in Queue /\ NoneSleepsOnWork(tasks_queue)
    BY DEF Inv, TypeOK, Queue, NoLostWakeup
  <2>2. CASE WaitForTask(w)
    BY <2>1, <2>2, BlockKeeps DEF WaitForTask, NoLostWakeup, Elements
  <2>3. CASE SpuriousWakeup(w)
    BY <2>1, <2>3, BlockKeeps DEF SpuriousWakeup, NoLostWakeup, Elements
  <2> QED
    BY <2>2, <2>3
<1>3. TypeOK'
  BY <1>1, <1>2 DEF Inv, TypeOK, Queue
<1>4. QueuedOwns(tasks_queue)' = QueuedOwns(tasks_queue)
  BY <1>2 DEF QueuedOwns, Elements
<1>5. DestructorInv' /\ QueueInv'
  BY <1>1, <1>2, <1>4 DEF Inv, DestructorInv, HasTask, QueueInv
<1>6. StartsInv'
  BY <1>1, StartsKept DEF Inv
<1>7. WorkersInv' /\ WorkersEndLast'
  BY <1>1 DEF Inv, WorkersInv, HasTask, WorkersEndLast
<1> QED
  BY <1>2, <1>3, <1>5, <1>6, <1>7 DEF Inv

(* A worker pops the first of the queue: the task that was enqueued after   *)
(* those taken, or a null, and then all tasks were taken.                   *)
LEMMA PopTaskInv ==
  ASSUME Inv, NEW w \in Workers, PopTask(w)
  PROVE  Inv'
<1> DEFINE e == Oldest(tasks_queue)
           k == n_enqueued - Len(taken)
<1>1. /\ tasks_queue \in Queue /\ Elements \in Seq(Task \cup {Null}) /\ Elements # <<>>
      /\ taken \in Seq(1 .. MaxTasks) /\ n_enqueued \in 0 .. MaxTasks
      /\ Len(taken) <= n_enqueued
  BY DEF Inv, TypeOK, Queue, Elements, QueueInv, PopTask, CanPop
<1>2. n_enqueued \in Nat /\ Len(taken) \in Nat /\ Len(Elements) \in Nat /\ k \in Nat
  BY <1>1, MaxTasksIsNatural, LenProperties, SMT
<1>3. Len(Elements) # 0 /\ 1 \in 1 .. Len(Elements)
  BY <1>1, <1>2, EmptySeq, SMT
<1>4. e = Elements[1] /\ e \in Task \cup {Null}
  BY <1>1 DEF Oldest, Elements
<1>5. /\ tasks_queue' \in Queue
      /\ Elements' = Tail(Elements)
      /\ NoLostWakeup'
  BY <1>1, PopKeeps DEF PopTask, Inv, NoLostWakeup, Elements
<1>6. /\ Len(Elements') = Len(Elements) - 1
      /\ \A i \in 1 .. Len(Elements') : Elements'[i] = Elements[i + 1]
  BY <1>1, <1>5, HeadTailProperties
<1>7. \A i \in 1 .. Len(Elements') : i + 1 \in 1 .. Len(Elements)
  BY <1>2, <1>6, SMT
<1>8. UNCHANGED <<holders, created, destroy_mode, destructor, nulls_left, n_enqueued,
                  started, finished>>
      /\ task' = [task EXCEPT ![w] = e]
  BY DEF PopTask
<1>9. QueuedOwns(tasks_queue)' => QueuedOwns(tasks_queue)
  <2>1. DOMAIN Elements' = 1 .. Len(Elements') /\ DOMAIN Elements = 1 .. Len(Elements)
    BY <1>1, <1>5, LenProperties DEF Queue, Elements
  <2> QED
    BY <1>6, <1>7, <2>1 DEF QueuedOwns, Elements
<1>10. e.owns => QueuedOwns(tasks_queue)
  <2>1. DOMAIN Elements = 1 .. Len(Elements)
    BY <1>1, LenProperties
  <2> QED
    BY <1>3, <1>4, <2>1 DEF QueuedOwns, Elements
<1>11. CASE EndsWorker(e)
  <2>1. pc' = [pc EXCEPT ![w] = "ended"] /\ taken' = taken
    BY <1>11 DEF PopTask
  <2>2. k = 0
    <3>1. ~(1 <= k)
      BY <1>3, <1>4, <1>11, NullIsNoTask DEF EndsWorker, Inv, QueueInv
    <3> QED
      BY <1>2, <3>1, SMT
  <2>3. Len(taken) = n_enqueued /\ Len(taken') = n_enqueued'
    BY <1>1, <1>2, <1>8, <2>1, <2>2, SMT
  <2>4. TypeOK'
    BY <1>4, <1>5, <1>8, <2>1 DEF Inv, TypeOK, Queue
  <2>5. QueueInv'
    <3>1. n_enqueued' - Len(taken') = 0 /\ Len(taken') <= n_enqueued'
          /\ 0 <= Len(Elements')
      BY <1>2, <1>3, <1>6, <1>8, <2>3, SMT
    <3>2. ASSUME NEW i \in 1 .. Len(Elements') PROVE ~(i <= 0) /\ Elements'[i] = Null
      <4>1. ~(i <= 0) /\ ~(i + 1 <= k)
        BY <2>2, <1>2, <1>6, SMT
      <4> QED
        BY <4>1, <1>6, <1>7 DEF Inv, QueueInv
    <3> QED
      BY <3>1, <3>2 DEF QueueInv
  <2>6. destructor # "none"
    <3>1. k # Len(Elements)
      BY <1>2, <1>3, <2>2, SMT
    <3> QED
      BY <3>1 DEF Inv, DestructorInv
  <2>7. \A v \in Workers : v # w => pc'[v] = pc[v] /\ task'[v] = task[v]
    BY <1>8, <2>1 DEF Inv, TypeOK
  <2>8. pc[w] = "pop" /\ pc'[w] = "ended"
    BY <2>1 DEF PopTask, Inv, TypeOK
  <2>9. DestructorInv'
    BY <1>8, <1>9, <2>6, <2>7, <2>8 DEF Inv, DestructorInv, HasTask
  <2>10. StartsInv'
    BY <1>8, <2>1, <2>7, <2>8 DEF Inv, StartsInv, StartedTasks, Uncalled
  <2>11. WorkersInv' /\ WorkersEndLast'
    BY <2>3, <2>6, <2>7, <2>8, <1>8 DEF Inv, WorkersInv, HasTask, WorkersEndLast
  <2> QED
    BY <1>5, <2>4, <2>5, <2>9, <2>10, <2>11 DEF Inv
<1>12. CASE ~EndsWorker(e)
  <2>1. pc' = [pc EXCEPT ![w] = "start"] /\ taken' = Append(taken, e.number)
    BY <1>12 DEF PopTask
  <2>2. 1 <= k /\ e \in Task /\ e.number = Len(taken) + 1
    BY <1>3, <1>4, <1>12 DEF EndsWorker, Inv, QueueInv
  <2>3. e.number \in 1 .. MaxTasks
    BY <2>2 DEF Task
  <2>4. /\ taken' \in Seq(1 .. MaxTasks)
        /\ Len(taken') = Len(taken) + 1
        /\ \A i \in 1 .. Len(taken) : taken'[i] = taken[i]
        /\ taken'[Len(taken) + 1] = Len(taken) + 1
    BY <1>1, <2>1, <2>2, <2>3, AppendProperties
  <2>5. TypeOK'
    BY <1>4, <1>5, <1>8, <2>1, <2>4 DEF Inv, TypeOK, Queue
  <2>6. /\ n_enqueued' - Len(taken') = k - 1
        /\ Len(taken') <= n_enqueued'
    BY <1>2, <1>8, <2>2, <2>4, SMT
  <2> HIDE DEF k, e
  <2>7. QueueInv'
    <3>1. k <= Len(Elements)
      BY DEF Inv, QueueInv, k
    <3>2. k - 1 <= Len(Elements')
      BY <1>2, <1>6, <3>1, SMT
    <3>3. ASSUME NEW i \in 1 .. Len(Elements'), i <= k - 1
          PROVE  Elements'[i] \in Task /\ Elements'[i].number = Len(taken') + i
      <4>1. i + 1 <= k /\ Len(taken) + (i + 1) = Len(taken') + i
        BY <1>2, <1>6, <2>4, <3>3, SMT
      <4> QED
        BY <4>1, <1>6, <1>7 DEF Inv, QueueInv, k
    <3>4. ASSUME NEW i \in 1 .. Len(Elements'), ~(i <= k - 1)
          PROVE  Elements'[i] = Null
      <4>1. ~(i + 1 <= k)
        BY <1>2, <1>6, <3>4, SMT
      <4> QED
        BY <4>1, <1>6, <1>7 DEF Inv, QueueInv, k
    <3> QED
      BY <2>6, <3>2, <3>3, <3>4 DEF QueueInv
  <2>12. \A v \in Workers : v # w => pc'[v] = pc[v] /\ task'[v] = task[v]
    BY <1>8, <2>1 DEF Inv, TypeOK
  <2>13. pc[w] = "pop" /\ pc'[w] = "start" /\ task'[w] = e
    BY <1>8, <2>1 DEF PopTask, Inv, TypeOK
  <2>8. DestructorInv'
    <3>1. destructor = "none" => k - 1 = Len(Elements')
      BY <1>2, <1>6, SMT DEF Inv, DestructorInv, k
    <3>2. destructor # "none" => ~e.owns
      BY <1>10 DEF Inv, DestructorInv
    <3> QED
      BY <1>8, <1>9, <2>6, <2>12, <2>13, <3>1, <3>2 DEF Inv, DestructorInv, HasTask
  <2>9. WorkersInv'
    BY <2>2, <2>12, <2>13 DEF Inv, WorkersInv, HasTask
  <2>10. WorkersEndLast'
    <3>1. Len(taken) # n_enqueued
      BY <1>2, <2>2, SMT DEF k
    <3> QED
      BY <2>12, <2>13, <3>1 DEF Inv, WorkersEndLast
  <2>11. StartsInv'
    <3>1. /\ DOMAIN taken = 1 .. Len(taken)
          /\ DOMAIN taken' = 1 .. Len(taken')
      BY <1>1, <2>4, LenProperties
    <3>2. \A i \in 1 .. Len(taken') : i \in 1 .. Len(taken) \/ i = Len(taken) + 1
      BY <1>2, <2>4, SMT
    <3>3. \A i \in DOMAIN taken' : taken'[i] = i
      BY <2>4, <3>1, <3>2 DEF Inv, StartsInv
    <3>4. StartedTasks' = StartedTasks
      BY <1>8 DEF StartedTasks
    <3>5. \A n \in StartedTasks : n \in Nat /\ n <= Len(taken)
      BY StartedBounded
    <3>6. \A n \in StartedTasks : n <= Len(taken') /\ n # e.number
      BY <1>2, <2>2, <2>4, <3>5, SMT
    <3>7. \A m \in 1 .. Len(taken') :
            m \in StartedTasks' \/ \E v \in Workers : Uncalled(v, m)'
      <4>1. \A m \in 1 .. Len(taken) : \A v \in Workers :
              Uncalled(v, m) => v # w /\ Uncalled(v, m)'
        BY <2>12, <2>13 DEF Uncalled
      <4>2. \A m \in 1 .. Len(taken') : m = Len(taken) + 1 => Uncalled(w, m)'
        BY <2>2, <2>13 DEF Uncalled
      <4> QED
        BY <3>2, <3>4, <4>1, <4>2 DEF Inv, StartsInv
    <3>8. \A v \in Workers : v # w /\ pc[v] = "start" =>
            task[v].number \in Nat /\ task[v].number <= Len(taken)
      BY DEF Inv, StartsInv, WorkersInv, HasTask, Task
    <3>9. \A v \in Workers : v # w /\ pc[v] = "start" =>
            task[v].number <= Len(taken') /\ task[v].number # e.number
      BY <1>2, <2>2, <2>4, <3>8, SMT
    <3>10. e.number <= Len(taken')
      BY <1>2, <2>2, <2>4, SMT
    <3>11. \A v \in Workers : pc'[v] = "start" =>
             task'[v].number <= Len(taken') /\ task'[v].number \notin StartedTasks'
      BY <2>12, <2>13, <3>4, <3>6, <3>9, <3>10 DEF Inv, StartsInv
    <3>12. \A u, v \in Workers :
             pc'[u] = "start" /\ pc'[v] = "start" /\ task'[u].number = task'[v].number => u = v
      BY <2>12, <2>13, <3>9 DEF Inv, StartsInv
    <3>13. \A i, j \in DOMAIN started' : started'[i] = started'[j] => i = j
      BY <1>8 DEF Inv, StartsInv
    <3> QED
      BY <3>3, <3>4, <3>6, <3>7, <3>11, <3>12, <3>13 DEF StartsInv
  <2> QED
    BY <1>5, <2>5, <2>7, <2>8, <2>9, <2>10, <2>11 DEF Inv
<1> QED
  BY <1>11, <1>12

(* A task that starts was held by its worker, and is held by no other.     *)
LEMMA StartTaskInv ==
  ASSUME Inv, NEW w \in Workers, StartTask(w)
  PROVE  Inv'
<1> DEFINE n == task[w].number
<1>1. /\ UNCHANGED <<tasks_queue, holders, created, destroy_mode, task, destructor,
                     nulls_left, n_enqueued, taken, finished>>
      /\ pc[w] = "start" /\ pc'[w] = "run"
      /\ pc' = [pc EXCEPT ![w] = "run"]
      /\ \A v \in Workers : v # w => pc'[v] = pc[v]
      /\ started' = Append(started, n)
  BY DEF StartTask, Inv, TypeOK
<1>2. n \in 1 .. MaxTasks /\ started \in Seq(1 .. MaxTasks)
  BY <1>1 DEF Inv, WorkersInv, HasTask, Task, TypeOK
<1>3. n <= Len(taken) /\ n \notin StartedTasks
  BY <1>1 DEF Inv, StartsInv
<1> HIDE DEF n
<1>4. /\ started' \in Seq(1 .. MaxTasks)
      /\ Len(started') = Len(started) + 1 /\ Len(started) \in Nat
      /\ \A i \in 1 .. Len(started) : started'[i] = started[i]
      /\ started'[Len(started) + 1] = n
      /\ DOMAIN started = 1 .. Len(started)
      /\ DOMAIN started' = 1 .. Len(started')
  BY <1>1, <1>2, AppendProperties, LenProperties
<1>5. /\ \A i \in DOMAIN started' : i \in DOMAIN started \/ i = Len(started) + 1
      /\ DOMAIN started \subseteq DOMAIN started'
      /\ Len(started) + 1 \in DOMAIN started' /\ Len(started) + 1 \notin DOMAIN started
  BY <1>4, SMT
<1>6. StartedTasks' = StartedTasks \cup {n}
  BY <1>4, <1>5 DEF StartedTasks
<1>7. \A i, j \in DOMAIN started' : started'[i] = started'[j] => i = j
  <2>1. \A i \in DOMAIN started : started'[i] = started[i] /\ started'[i] # n
    BY <1>3, <1>4 DEF StartedTasks
  <2> QED
    BY <1>4, <1>5, <2>1 DEF Inv, StartsInv
<1>8. \A v \in Workers : pc'[v] = "start" => v # w /\ pc[v] = "start" /\ task[v].number # n
  BY <1>1 DEF Inv, StartsInv, n
<1>9. \A m \in 1 .. Len(taken) :
        m \in StartedTasks' \/ \E v \in Workers : Uncalled(v, m)'
  <2>1. \A v \in Workers, m \in 1 .. Len(taken) : Uncalled(v, m) => m = n \/ Uncalled(v, m)'
    BY <1>1 DEF Uncalled, n
  <2> QED
    BY <1>6, <2>1 DEF Inv, StartsInv
<1>10. StartsInv'
  BY <1>1, <1>3, <1>6, <1>7, <1>8, <1>9 DEF Inv, StartsInv
<1>11. TypeOK'
  BY <1>1, <1>4 DEF Inv, TypeOK
<1>12. NoLostWakeup' /\ QueueInv'
  BY <1>1 DEF Inv, NoLostWakeup, QueueInv, Elements
<1>13. DestructorInv' /\ WorkersInv' /\ WorkersEndLast'
  BY <1>1 DEF Inv, DestructorInv, WorkersInv, WorkersEndLast, HasTask, Elements
<1> QED
  BY <1>10, <1>11, <1>12, <1>13 DEF Inv

LEMMA FinishTaskInv ==
  ASSUME Inv, NEW w \in Workers, FinishTask(w)
  PROVE  Inv'
<1>1. /\ UNCHANGED <<tasks_queue, holders, created, destroy_mode, task, n_enqueued, taken, started>>
      /\ pc[w] = "run" /\ finished' = finished \cup {task[w].number}
  BY DEF FinishTask
<1>2. \E p \in {"pop", "destroy"} : pc' = [pc EXCEPT ![w] = p]
  BY DEF FinishTask
<1>3. \/ destructor' = destructor /\ nulls_left' = nulls_left
      \/ /\ task[w].owns /\ Unreferenced(holders, Workers \ {w})
         /\ destructor' = "push" /\ nulls_left' = Cardinality(created)
  BY DEF FinishTask, BeginDestructor
<1>4. TypeOK'
  <2>1. nulls_left' \in 0 .. Cardinality(Workers) /\ destructor' \in {"none", "push", "done"}
    BY <1>3, WorkersCounted DEF Inv, TypeOK
  <2>2. task[w].number \in 1 .. MaxTasks
    BY <1>1 DEF Inv, WorkersInv, HasTask, Task
  <2>3. pc' \in [Workers -> {"none", "pop", "start", "run", "destroy", "ended"}]
    BY <1>2 DEF Inv, TypeOK
  <2>4. finished' \subseteq 1 .. MaxTasks
    BY <1>1, <2>2 DEF Inv, TypeOK
  <2> QED
    BY <1>1, <2>1, <2>3, <2>4 DEF Inv, TypeOK
<1>5. \A v \in Workers : /\ HasTask(v)' => v # w /\ HasTask(v)
                         /\ pc'[v] = "start" <=> pc[v] = "start"
  BY <1>1, <1>2 DEF Inv, TypeOK, HasTask
<1>6. DestructorInv'
  <2>1. CASE destructor' = destructor
    BY <1>1, <1>5, <2>1 DEF Inv, DestructorInv, Elements
  <2>2. CASE destructor' # destructor
    BY <1>1, <1>3, <1>5, <2>2 DEF DestructorInv, Unreferenced
  <2> QED
    BY <2>1, <2>2
<1>7. NoLostWakeup' /\ StartsInv' /\ QueueInv'
  BY <1>1, <1>5, StartsKept DEF Inv, NoLostWakeup, QueueInv, Elements
<1>8. WorkersInv'
  BY <1>1, <1>5 DEF Inv, WorkersInv
<1>9. WorkersEndLast'
  <2>1. \A v \in Workers : pc'[v] = "ended" => pc[v] = "ended"
    BY <1>2 DEF Inv, TypeOK
  <2> QED
    BY <1>1, <1>3, <2>1 DEF Inv, WorkersEndLast
<1> QED
  BY <1>4, <1>6, <1>7, <1>8, <1>9 DEF Inv

LEMMA PushNullInv ==
  ASSUME Inv, PushNull
  PROVE  Inv'
<1>1. /\ tasks_queue \in Queue /\ Elements \in Seq(Task \cup {Null})
      /\ taken \in Seq(1 .. MaxTasks) /\ n_enqueued \in 0 .. MaxTasks
      /\ destructor = "push"
      /\ UNCHANGED <<holders, created, destroy_mode, pc, task, destructor,
                     n_enqueued, taken, started, finished>>
  BY DEF Inv, TypeOK, Queue, Elements, PushNull
<1>2. /\ tasks_queue' \in Queue
      /\ Elements' = Append(Elements, Null)
      /\ NoLostWakeup'
  BY <1>1, PushKeeps DEF PushNull, Inv, NoLostWakeup, Elements
<1>3. /\ Len(Elements') = Len(Elements) + 1
      /\ \A i \in 1 .. Len(Elements) : Elements'[i] = Elements[i]
      /\ Elements'[Len(Elements) + 1] = Null
      /\ Len(Elements) \in Nat /\ Len(taken) \in Nat
      /\ Elements' \in Seq(Task \cup {Null})
  BY <1>1, <1>2, AppendProperties, LenProperties
<1>4. n_enqueued \in Nat
  BY <1>1, MaxTasksIsNatural, SMT
<1>5. TypeOK'
  <2>1. nulls_left' \in 0 .. Cardinality(Workers)
    <3>1. /\ nulls_left \in 0 .. Cardinality(Workers)
          /\ nulls_left > 0 /\ nulls_left' = nulls_left - 1
      BY DEF Inv, TypeOK, PushNull
    <3>2. Cardinality(Workers) \in Nat
      BY WorkersAreFinite, FS_CardinalityType
    <3> QED
      BY <3>1, <3>2, SMT
  <2> QED
    BY <1>1, <1>2, <2>1 DEF Inv, TypeOK, Queue
<1>6. QueueInv'
  <2>1. /\ n_enqueued - Len(taken) <= Len(Elements)
        /\ Len(taken) <= n_enqueued
    BY DEF Inv, QueueInv
  <2>2. ASSUME NEW i \in 1 .. Len(Elements')
        PROVE  IF i <= n_enqueued - Len(taken)
               THEN Elements'[i] \in Task /\ Elements'[i].number = Len(taken) + i
               ELSE Elements'[i] = Null
    <3>1. CASE i = Len(Elements) + 1
      <4>1. ~(i <= n_enqueued - Len(taken))
        BY <3>1, <2>1, <1>3, <1>4, SMT
      <4> QED
        BY <4>1, <3>1, <1>3
    <3>2. CASE i # Len(Elements) + 1
      <4>1. i \in 1 .. Len(Elements)
        BY <3>2, <1>3, SMT
      <4> QED
        BY <4>1, <1>3 DEF Inv, QueueInv
    <3> QED
      BY <3>1, <3>2
  <2>3. n_enqueued - Len(taken) <= Len(Elements')
    BY <2>1, <1>3, <1>4, SMT
  <2> QED
    BY <1>1, <2>1, <2>2, <2>3 DEF QueueInv
<1>7. DestructorInv'
  <2>1. ~QueuedOwns(tasks_queue)'
    <3>1. /\ DOMAIN Elements = 1 .. Len(Elements)
          /\ DOMAIN Elements' = 1 .. Len(Elements')
      BY <1>1, <1>3, LenProperties
    <3>2. \A i \in 1 .. Len(Elements') : i \in 1 .. Len(Elements) \/ i = Len(Elements) + 1
      BY <1>3, SMT
    <3>3. ~QueuedOwns(tasks_queue)
      BY <1>1 DEF Inv, DestructorInv
    <3> QED
      BY <1>3, <3>1, <3>2, <3>3, NullIsNoTask DEF QueuedOwns, Elements
  <2> QED
    BY <1>1, <2>1 DEF Inv, DestructorInv, HasTask
<1>8. StartsInv' /\ WorkersInv' /\ WorkersEndLast'
  BY <1>1, StartsKept DEF Inv, WorkersInv, HasTask, WorkersEndLast
<1> QED
  BY <1>2, <1>5, <1>6, <1>7, <1>8 DEF Inv

LEMMA DestructorReturnsInv ==
  ASSUME Inv, DestructorReturns
  PROVE  Inv'
<1>1. /\ UNCHANGED <<tasks_queue, holders, created, destroy_mode, task, nulls_left,
                     n_enqueued, taken, started, finished>>
      /\ destructor = "push" /\ destructor' = "done"
      /\ pc' = [v \in Workers |-> IF pc[v] = "destroy" THEN "pop" ELSE pc[v]]
  BY DEF DestructorReturns
<1>2. \A v \in Workers : /\ HasTask(v)' => HasTask(v)
                         /\ pc'[v] = "start" <=> pc[v] = "start"
                         /\ pc'[v] = "ended" => pc[v] = "ended"
  BY <1>1 DEF HasTask
<1>3. TypeOK'
  <2>1. pc' \in [Workers -> {"none", "pop", "start", "run", "destroy", "ended"}]
    BY <1>1 DEF Inv, TypeOK
  <2> QED
    BY <1>1, <2>1 DEF Inv, TypeOK
<1>4. DestructorInv' /\ WorkersInv' /\ WorkersEndLast'
  BY <1>1, <1>2 DEF Inv, DestructorInv, WorkersInv, WorkersEndLast
<1>5. NoLostWakeup' /\ StartsInv' /\ QueueInv'
  BY <1>1, <1>2, StartsKept DEF Inv, NoLostWakeup, QueueInv, Elements
<1> QED
  BY <1>3, <1>4, <1>5 DEF Inv

LEMMA NextInv == Inv /\ [Next]_vars => Inv'
<1> SUFFICES ASSUME Inv, [Next]_vars PROVE Inv'
  OBVIOUS
<1>1. ASSUME NEW owns \in BOOLEAN, Enqueue(owns) PROVE Inv'
  BY <1>1, EnqueueInv
<1>2. ASSUME NEW c \in Clients, DropReference(c) PROVE Inv'
  BY <1>2, DropReferenceInv
<1>3. ASSUME NEW w \in Workers, WaitForTask(w) \/ SpuriousWakeup(w) PROVE Inv'
  BY <1>3, WaitInv
<1>4. ASSUME NEW w \in Workers, PopTask(w) PROVE Inv'
  BY <1>4, PopTaskInv
<1>5. ASSUME NEW w \in Workers, FinishTask(w) PROVE Inv'
  BY <1>5, FinishTaskInv
<1>6. CASE PushNull
  BY <1>6, PushNullInv
<1>7. CASE DestructorReturns
  BY <1>7, DestructorReturnsInv
<1>8. CASE UNCHANGED vars \/ EnqueueNull
  <2>1. UNCHANGED vars
    BY <1>8 DEF vars, EnqueueNull, QueueAfterNull
  <2> QED
    BY <2>1, StartsKept
    DEF vars, Inv, TypeOK, NoLostWakeup, QueueInv, DestructorInv, WorkersInv, HasTask,
        WorkersEndLast, Elements
<1>9. ASSUME NEW w \in Workers, StartTask(w) PROVE Inv'
  BY <1>9, StartTaskInv
<1> QED
  BY <1>1, <1>2, <1>3, <1>4, <1>5, <1>6, <1>7, <1>8, <1>9 DEF Next, WorkerStep

LEMMA Invariance == Spec => []Inv
  BY InitInv, NextInv, PTL DEF Spec

-----------------------------------------------------------------------------
(* The destructor pushes no more nulls than there are workers, and workers  *)
(* run tasks only.                                                          *)
THEOREM TypeCorrect == Spec => []TypeOK
<1>1. Inv => TypeOK
  BY DEF Inv
<1> QED
  BY <1>1, Invariance, PTL

(* No worker sleeps while a task or a null is in the queue.                *)
THEOREM NoWakeupLost == Spec => []NoLostWakeup
<1>1. Inv => NoLostWakeup
  BY DEF Inv
<1> QED
  BY <1>1, Invariance, PTL

(* Tasks are taken in the order of enqueuing, started once, and overtake    *)
(* only those that other workers took before and have not called yet.       *)
THEOREM Starts == Spec => []StartOrder
<1>1. Inv => StartOrder
  <2> SUFFICES ASSUME Inv PROVE StartOrder
    OBVIOUS
  <2>1. Len(taken) \in Nat
    BY LenProperties DEF Inv, TypeOK
  <2>2. \A n \in StartedTasks : n \in Nat /\ n <= Len(taken)
    BY StartedBounded
  <2>3. \A n \in StartedTasks : \A m \in 1 .. n - 1 : m \in 1 .. Len(taken)
    BY <2>1, <2>2, SMT
  <2> QED
    BY <2>3 DEF StartOrder, Inv, StartsInv
<1> QED
  BY <1>1, Invariance, PTL

(* No worker ends before the executor is gone and every task was taken.    *)
THEOREM EndLast == Spec => []WorkersEndLast
<1>1. Inv => WorkersEndLast
  BY DEF Inv
<1> QED
  BY <1>1, Invariance, PTL
==============================================================================
