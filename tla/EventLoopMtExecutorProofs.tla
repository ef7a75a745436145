---------------------- MODULE EventLoopMtExecutorProofs ----------------------
(***************************************************************************)
(* Proofs about EventLoopMtExecutor, for any threads and any number of     *)
(* tasks.  The inductive invariant says what the reader and the one thread *)
(* in push() may rely on while the other is half way.                      *)
(***************************************************************************)
EXTENDS EventLoopMtExecutor, SequenceTheorems, TLAPS

(* A thread in push() holds the executor and has put its task; if the task  *)
(* is the only one, then no byte is in the pipe and none is being read.     *)
PusherInv ==
  queue_mutex \in Threads =>
    /\ queue_mutex \in holders
    /\ elements # <<>>
    /\ NeedsNotify => notify_bytes = 0 /\ reader = "idle"

(* A reader that read the byte finds a task; one that read the end of file  *)
(* finds none, and none can come.                                           *)
ReaderInv ==
  /\ reader = "drain" <=> queue_mutex = Loop
  /\ reader # "idle" =>
       /\ notify_bytes = 0
       /\ watching
       /\ read_bytes = 1 => elements # <<>>
       /\ EndOfFile => holders = {} /\ elements = <<>>

(* A byte stands for a task.                                                *)
ByteInv == elements = <<>> => notify_bytes = 0

Inv ==
  /\ TypeOK
  /\ PusherInv /\ ReaderInv /\ ByteInv
  /\ TaskIsNotified /\ WatchOutlivesTasks

-----------------------------------------------------------------------------
(* What the steps do to the sequences                                      *)

LEMMA Pushed ==
  ASSUME NEW S, NEW s \in Seq(S), NEW e \in S
  PROVE  /\ Append(s, e) \in Seq(S)
         /\ Append(s, e) # <<>>
         /\ Len(Append(s, e)) = Len(s) + 1
         /\ Len(s) \in Nat
         /\ Len(s) = 0 <=> s = <<>>
  BY AppendProperties, EmptySeq

LEMMA Drained ==
  ASSUME NEW S, NEW s \in Seq(S)
  PROVE  SubSeq(s, Len(s) + 1, Len(s)) = <<>>
<1>1. Len(s) \in Nat
  BY LenProperties
<1> QED
  BY <1>1, SubSeqEmpty

LEMMA TailOfConcat ==
  ASSUME NEW S, NEW s \in Seq(S), NEW u \in Seq(S), s # <<>>
  PROVE  /\ s \o u # <<>>
         /\ Tail(s \o u) = Tail(s) \o u
<1> DEFINE c == s \o u
           d == Tail(s) \o u
<1>1. /\ c \in Seq(S)
      /\ Len(c) = Len(s) + Len(u)
      /\ \A i \in 1 .. Len(s) + Len(u) : c[i] = IF i <= Len(s) THEN s[i] ELSE u[i - Len(s)]
  BY ConcatProperties
<1>2. Len(s) \in Nat /\ Len(u) \in Nat /\ Len(s) # 0
  BY LenProperties, EmptySeq
<1>3. c # <<>>
  BY <1>1, <1>2, EmptySeq, SMT
<1>4. /\ Tail(s) \in Seq(S)
      /\ Len(Tail(s)) = Len(s) - 1
      /\ \A i \in 1 .. Len(Tail(s)) : Tail(s)[i] = s[i + 1]
  BY HeadTailProperties
<1>5. /\ Tail(c) \in Seq(S)
      /\ Len(Tail(c)) = Len(c) - 1
      /\ \A i \in 1 .. Len(Tail(c)) : Tail(c)[i] = c[i + 1]
  BY <1>1, <1>3, HeadTailProperties
<1>6. /\ d \in Seq(S)
      /\ Len(d) = Len(Tail(s)) + Len(u)
      /\ \A i \in 1 .. Len(Tail(s)) + Len(u) :
           d[i] = IF i <= Len(Tail(s)) THEN Tail(s)[i] ELSE u[i - Len(Tail(s))]
  BY <1>4, ConcatProperties
<1> HIDE DEF c, d
<1>7. Len(Tail(c)) = Len(d)
  BY <1>1, <1>2, <1>4, <1>5, <1>6, SMT
<1>8. ASSUME NEW i \in 1 .. Len(Tail(c)) PROVE Tail(c)[i] = d[i]
  <2>1. Tail(c)[i] = c[i + 1] /\ i + 1 \in 1 .. Len(s) + Len(u)
    BY <1>1, <1>2, <1>5, SMT
  <2>2. CASE i <= Len(s) - 1
    BY <2>1, <2>2, <1>1, <1>2, <1>4, <1>5, <1>6, SMT
  <2>3. CASE ~(i <= Len(s) - 1)
    <3>1. (i + 1) - Len(s) = i - (Len(s) - 1)
      BY <1>1, <1>2, <1>5, SMT
    <3>2. c[i + 1] = u[(i + 1) - Len(s)]
      BY <2>1, <2>3, <1>1, <1>2, <1>5, SMT
    <3>3. d[i] = u[i - (Len(s) - 1)]
      BY <2>3, <1>1, <1>2, <1>4, <1>5, <1>6, <1>7, SMT
    <3> QED
      BY <2>1, <3>1, <3>2, <3>3
  <2> QED
    BY <2>2, <2>3
<1>9. Tail(c) = d
  BY <1>5, <1>6, <1>7, <1>8, SeqEqual
<1> QED
  BY <1>3, <1>9 DEF c, d

-----------------------------------------------------------------------------
LEMMA InitInv == Init => Inv
<1> SUFFICES ASSUME Init PROVE Inv
  OBVIOUS
<1>1. TypeOK
  BY MaxTasksIsNatural, SMT DEF Init, TypeOK
<1> QED
  BY <1>1, ThreadsAreNotMarks
  DEF Init, Inv, PusherInv, ReaderInv, ByteInv, TaskIsNotified, WatchOutlivesTasks, Free, Loop

(* push() between its two steps: the mutex keeps the reader from draining,  *)
(* not from reading; that a byte is there, or is being read, whenever       *)
(* others wait before this task is what ReaderInv and TaskIsNotified give.  *)
LEMMA PushElementInv ==
  ASSUME Inv, NEW t \in Threads, PushElement(t)
  PROVE  Inv'
<1> USE MaxTasksIsNatural, ThreadsAreNotMarks DEF Inv
<1>1. elements \in Seq(1 .. MaxTasks) /\ n_pushed + 1 \in 1 .. MaxTasks
  BY SMT DEF TypeOK, PushElement
<1>2. /\ elements' \in Seq(1 .. MaxTasks)
      /\ elements' # <<>>
      /\ Len(elements') = Len(elements) + 1
      /\ Len(elements) \in Nat
      /\ Len(elements) = 0 <=> elements = <<>>
  BY <1>1, Pushed DEF PushElement
<1>3. TypeOK'
  BY <1>1, <1>2 DEF TypeOK, PushElement
<1>4. holders # {} /\ t \in holders /\ queue_mutex = Free /\ queue_mutex' = t
  BY DEF PushElement
<1>5. NeedsNotify' => elements = <<>>
  <2>1. NeedsNotify' <=> Len(elements') = 1
    BY DEF NeedsNotify
  <2> HIDE DEF Inv
  <2> QED
    BY <1>2, <2>1, SMT
<1>6. elements = <<>> => notify_bytes = 0 /\ reader = "idle"
  BY <1>4 DEF ByteInv, ReaderInv, TypeOK, EndOfFile
<1>7. PusherInv'
  BY <1>2, <1>4, <1>5, <1>6 DEF PusherInv, PushElement
<1>8. ReaderInv'
  BY <1>2, <1>4 DEF ReaderInv, PushElement, EndOfFile, Free, Loop
<1>9. ByteInv'
  BY <1>2 DEF ByteInv
<1>10. TaskIsNotified'
  <2>1. CASE elements = <<>>
    BY <2>1, <1>2, <1>4, SMT DEF TaskIsNotified, NeedsNotify
  <2>2. CASE elements # <<>>
    BY <2>2, <1>4 DEF TaskIsNotified, PushElement
  <2> QED
    BY <2>1, <2>2
<1>11. WatchOutlivesTasks'
  BY <1>4 DEF WatchOutlivesTasks, PushElement
<1> QED
  BY <1>3, <1>7, <1>8, <1>9, <1>10, <1>11

LEMMA PushNotifyInv ==
  ASSUME Inv, NEW t \in Threads, PushNotify(t)
  PROVE  Inv'
<1> USE ThreadsAreNotMarks DEF Inv
<1>1. queue_mutex \in Threads /\ queue_mutex' = Free /\ Free \notin Threads
  BY DEF PushNotify
<1>2. notify_bytes' = IF NeedsNotify THEN 1 ELSE notify_bytes
  BY <1>1, SMT DEF PusherInv, PushNotify, TypeOK
<1>3. TypeOK'
  BY <1>1, <1>2 DEF TypeOK, PushNotify
<1>4. ReaderInv'
  BY <1>1, <1>2 DEF ReaderInv, PusherInv, PushNotify, EndOfFile, Free, Loop
<1>5. TaskIsNotified'
  BY <1>1, <1>2 DEF TaskIsNotified, PushNotify
<1>6. PusherInv' /\ ByteInv' /\ WatchOutlivesTasks'
  BY <1>1, <1>2 DEF PusherInv, ByteInv, WatchOutlivesTasks, PushNotify
<1> QED
  BY <1>3, <1>4, <1>5, <1>6

LEMMA HoldersInv ==
  ASSUME Inv, NEW t \in Threads, NEW u \in Threads, CopyExecutor(t, u) \/ DropExecutor(t)
  PROVE  Inv'
<1> USE DEF Inv
<1>1. /\ holders # {}
      /\ queue_mutex \in Threads => queue_mutex \in holders'
      /\ holders' \subseteq Threads
      /\ UNCHANGED <<elements, queue_mutex, n_pushed, notify_bytes, watching,
                     reader, read_bytes, scheduled>>
  BY DEF TypeOK, PusherInv, CopyExecutor, DropExecutor
<1>2. TypeOK' /\ PusherInv' /\ ByteInv' /\ TaskIsNotified' /\ WatchOutlivesTasks'
  BY <1>1 DEF TypeOK, PusherInv, ByteInv, TaskIsNotified, WatchOutlivesTasks, NeedsNotify
<1>3. ReaderInv'
  BY <1>1 DEF ReaderInv, EndOfFile
<1> QED
  BY <1>2, <1>3

(* An end of file is read only when no task is left: one that waits would   *)
(* have its byte in the pipe, or a pusher that holds the executor.          *)
LEMMA ReadNotifyInv ==
  ASSUME Inv, ReadNotify
  PROVE  Inv'
<1> USE DEF Inv
<1>1. TypeOK'
  BY SMT DEF TypeOK, ReadNotify
<1>2. read_bytes' = 1 => elements # <<>>
  BY SMT DEF ReadNotify, ByteInv
<1>3. EndOfFile' => notify_bytes = 0 /\ holders = {} /\ elements = <<>>
  BY SMT DEF ReadNotify, EndOfFile, TaskIsNotified, PusherInv, TypeOK
<1>4. ReaderInv'
  BY <1>2, <1>3 DEF ReaderInv, ReadNotify, EndOfFile
<1>5. PusherInv'
  <2> SUFFICES ASSUME queue_mutex \in Threads, NeedsNotify PROVE FALSE
    BY DEF PusherInv, ReadNotify, NeedsNotify
  <2> QED
    BY SMT DEF PusherInv, ReadNotify
<1>6. ByteInv' /\ TaskIsNotified' /\ WatchOutlivesTasks'
  BY DEF ByteInv, TaskIsNotified, WatchOutlivesTasks, ReadNotify
<1> QED
  BY <1>1, <1>4, <1>5, <1>6

LEMMA LockQueueInv ==
  ASSUME Inv, LockQueue
  PROVE  Inv'
  BY ThreadsAreNotMarks
  DEF Inv, LockQueue, TypeOK, PusherInv, ReaderInv, ByteInv, TaskIsNotified,
      WatchOutlivesTasks, EndOfFile, NeedsNotify

LEMMA AllTaken ==
  ASSUME Inv, DrainQueue
  PROVE  elements' = <<>> /\ scheduled' = scheduled \o elements
<1>1. elements \in Seq(1 .. MaxTasks)
  BY DEF Inv, TypeOK
<1> QED
  BY <1>1, Drained DEF DrainQueue, Rescheduled, Taken

LEMMA DrainQueueInv ==
  ASSUME Inv, DrainQueue
  PROVE  Inv'
<1>1. elements' = <<>> /\ scheduled' \in Seq(1 .. MaxTasks)
  <2>1. scheduled \in Seq(1 .. MaxTasks) /\ elements \in Seq(1 .. MaxTasks)
    BY DEF Inv, TypeOK
  <2>2. scheduled \o elements \in Seq(1 .. MaxTasks)
    BY <2>1, ConcatProperties
  <2> QED
    BY <2>2, AllTaken
<1> USE ThreadsAreNotMarks DEF Inv
<1>2. queue_mutex' = Free /\ reader' = "idle"
  BY DEF DrainQueue
<1>3. TypeOK'
  <2>1. elements' \in Seq(1 .. MaxTasks)
    BY <1>1, EmptySeq
  <2>2. watching' \in BOOLEAN
    BY DEF DrainQueue
  <2> QED
    BY <1>1, <1>2, <2>1, <2>2 DEF TypeOK, DrainQueue
<1>4. PusherInv' /\ ReaderInv'
  BY <1>2 DEF PusherInv, ReaderInv, Free, Loop
<1>5. ByteInv' /\ TaskIsNotified'
  BY <1>1 DEF ByteInv, TaskIsNotified, ReaderInv, DrainQueue
<1>6. WatchOutlivesTasks'
  BY <1>1 DEF WatchOutlivesTasks, ReaderInv, DrainQueue
<1> QED
  BY <1>3, <1>4, <1>5, <1>6

LEMMA ExecuteTaskInv ==
  ASSUME Inv, ExecuteTask
  PROVE  Inv'
<1> USE DEF Inv
<1>1. scheduled' \in Seq(1 .. MaxTasks)
  BY HeadTailProperties DEF TypeOK, ExecuteTask
<1> QED
  BY <1>1
  DEF ExecuteTask, TypeOK, PusherInv, ReaderInv, ByteInv, TaskIsNotified,
      WatchOutlivesTasks, EndOfFile, NeedsNotify

LEMMA NextInv == Inv /\ [Next]_vars => Inv'
<1> SUFFICES ASSUME Inv, [Next]_vars PROVE Inv'
  OBVIOUS
<1>1. ASSUME NEW t \in Threads, PushElement(t) PROVE Inv'
  BY <1>1, PushElementInv
<1>2. ASSUME NEW t \in Threads, PushNotify(t) PROVE Inv'
  BY <1>2, PushNotifyInv
<1>3. ASSUME NEW t \in Threads, DropExecutor(t) PROVE Inv'
  BY <1>3, HoldersInv
<1>4. ASSUME NEW t \in Threads, NEW u \in Threads, CopyExecutor(t, u) PROVE Inv'
  BY <1>4, HoldersInv
<1>5. CASE ReadNotify
  BY <1>5, ReadNotifyInv
<1>6. CASE LockQueue
  BY <1>6, LockQueueInv
<1>7. CASE DrainQueue
  BY <1>7, DrainQueueInv
<1>8. CASE ExecuteTask
  BY <1>8, ExecuteTaskInv
<1>9. CASE UNCHANGED vars
  BY <1>9
  DEF vars, Inv, TypeOK, PusherInv, ReaderInv, ByteInv, TaskIsNotified,
      WatchOutlivesTasks, EndOfFile, NeedsNotify
<1> QED
  BY <1>1, <1>2, <1>3, <1>4, <1>5, <1>6, <1>7, <1>8, <1>9 DEF Next, LoopStep

LEMMA Invariance == Spec => []Inv
  BY InitInv, NextInv, PTL DEF Spec

-----------------------------------------------------------------------------
(* At most one byte is ever in the pipe, for any number of threads: the     *)
(* non-blocking write of push() never meets a full pipe.                    *)
THEOREM TypeCorrect == Spec => []TypeOK
<1>1. Inv => TypeOK
  BY DEF Inv
<1> QED
  BY <1>1, Invariance, PTL

(* Nobody sleeps on a task.                                                *)
THEOREM NoTaskUnnoticed == Spec => []TaskIsNotified
<1>1. Inv => TaskIsNotified
  BY DEF Inv
<1> QED
  BY <1>1, Invariance, PTL

(* The watch does not end before the last task has left the queue and the   *)
(* last copy of the executor is gone.                                       *)
THEOREM WatchStays == Spec => []WatchOutlivesTasks
<1>1. Inv => WatchOutlivesTasks
  BY DEF Inv
<1> QED
  BY <1>1, Invariance, PTL

-----------------------------------------------------------------------------
(* The tasks that the contract sees are those of the loop and those of the  *)
(* queue, in this order: draining moves them without reordering.            *)
LEMMA StepImplements == Inv /\ [Next]_vars => [Contract!Next]_(Contract!vars)
<1> SUFFICES ASSUME Inv, [Next]_vars
             PROVE  Contract!Next \/ UNCHANGED Contract!vars
  OBVIOUS
<1> USE DEF Contract!Next, Contract!vars
<1>1. elements \in Seq(1 .. MaxTasks) /\ scheduled \in Seq(1 .. MaxTasks)
  BY DEF Inv, TypeOK
<1>2. ASSUME NEW t \in Threads, PushElement(t) PROVE Contract!Accept
  <2>1. n_pushed + 1 \in 1 .. MaxTasks
    BY <1>2, MaxTasksIsNatural, SMT DEF Inv, TypeOK, PushElement
  <2>2. scheduled \o Append(elements, n_pushed + 1) = Append(scheduled \o elements, n_pushed + 1)
    <3>1. <<n_pushed + 1>> \in Seq(1 .. MaxTasks)
      BY <2>1
    <3>2. scheduled \o elements \in Seq(1 .. MaxTasks)
      BY <1>1, ConcatProperties
    <3>3. Append(elements, n_pushed + 1) = elements \o <<n_pushed + 1>>
      BY <1>1, <2>1, AppendIsConcat
    <3>4. Append(scheduled \o elements, n_pushed + 1) = (scheduled \o elements) \o <<n_pushed + 1>>
      BY <3>2, <2>1, AppendIsConcat
    <3> QED
      BY <1>1, <3>1, <3>3, <3>4, ConcatAssociative
  <2> QED
    BY <1>2, <2>2 DEF PushElement, Contract!Accept
<1>3. ASSUME NEW t \in Threads, PushNotify(t) PROVE UNCHANGED Contract!vars
  BY <1>3 DEF PushNotify
<1>4. ASSUME NEW t \in Threads, DropExecutor(t) PROVE Contract!Release \/ UNCHANGED Contract!vars
  BY <1>4 DEF DropExecutor, Contract!Release
<1>5. ASSUME NEW t \in Threads, NEW u \in Threads, CopyExecutor(t, u)
      PROVE  UNCHANGED Contract!vars
  BY <1>5 DEF CopyExecutor
<1>6. ASSUME ReadNotify PROVE UNCHANGED Contract!vars
  BY <1>6 DEF ReadNotify
<1>7. ASSUME LockQueue PROVE UNCHANGED Contract!vars
  BY <1>7 DEF LockQueue
<1>8. ASSUME DrainQueue PROVE Contract!StopListening \/ UNCHANGED Contract!vars
  <2>1. scheduled' \o elements' = scheduled \o elements
    <3>1. scheduled \o elements \in Seq(1 .. MaxTasks)
      BY <1>1, ConcatProperties
    <3> QED
      BY <3>1, <1>8, AllTaken, ConcatEmptySeq
  <2>2. CASE EndOfFile
    BY <1>8, <2>1, <2>2 DEF DrainQueue, Inv, ReaderInv, Contract!StopListening
  <2>3. CASE ~EndOfFile
    BY <1>8, <2>1, <2>3 DEF DrainQueue, Inv, ReaderInv
  <2> QED
    BY <2>2, <2>3
<1>9. ASSUME ExecuteTask PROVE Contract!Execute
  BY <1>1, <1>9, TailOfConcat DEF ExecuteTask, Contract!Execute
<1>10. ASSUME UNCHANGED vars PROVE UNCHANGED Contract!vars
  BY <1>10 DEF vars
<1> QED
  BY <1>2, <1>3, <1>4, <1>5, <1>6, <1>7, <1>8, <1>9, <1>10 DEF Next, LoopStep

LEMMA InitImplements == Init => Contract!Init
<1> SUFFICES ASSUME Init PROVE Contract!Init
  OBVIOUS
<1>1. scheduled \o elements = <<>>
  BY EmptySeq, ConcatEmptySeq DEF Init
<1>2. watching = (holders # {})
  BY DEF Init
<1> QED
  BY <1>1, <1>2 DEF Init, Contract!Init

(* The pipe executor keeps the promise of an MT executor: each task runs    *)
(* once, in the order of the pushes, whoever pushes and drops meanwhile.    *)
THEOREM Implementation == Spec => ImplementsMtExecutor
<1>1. (holders # {}) \in BOOLEAN
  OBVIOUS
<1> QED
  BY <1>1, Invariance, InitImplements, StepImplements, PTL
  DEF Spec, ImplementsMtExecutor, Contract!Spec
==============================================================================
