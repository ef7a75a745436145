------------------------- MODULE EventLoopMtExecutor -------------------------
(***************************************************************************)
(* make_event_loop_mt_executor: threads push tasks to a queue under its    *)
(* mutex and write a byte to a pipe when the queue was empty; the event    *)
(* loop watches the pipe, reads it outside of the mutex, and moves the     *)
(* queue's tasks to its own with invoke_later.  The pipe's write end       *)
(* closes when the last copy of the executor is dropped.                   *)
(***************************************************************************)
EXTENDS Naturals, Sequences

CONSTANTS
  Threads,     \* threads that can hold the executor; a loop task is one of them
  MaxTasks     \* bound on the number of tasks pushed

ASSUME MaxTasksIsNatural == MaxTasks \in Nat

Free == "free"            \* of queue_mutex
Loop == "loop"

ASSUME ThreadsAreNotMarks == Free \notin Threads /\ Loop \notin Threads

VARIABLES
  elements,       \* tasks_queue->elements, tasks being numbered by the pushes
  queue_mutex,    \* Free, or the thread in push(), or Loop
  n_pushed,
  holders,        \* threads with a copy of the executor
  notify_bytes,   \* bytes in the pipe
  watching,       \* in_notify_watch_owner holds an enabled watch
  reader,         \* handle_in_notify: "idle", "lock" (has read), "drain"
  read_bytes,     \* how many bytes it read, 0 at the end of file
  scheduled       \* tasks given to invoke_later and not started

vars == <<elements, queue_mutex, n_pushed, holders, notify_bytes, watching,
          reader, read_bytes, scheduled>>

Init ==
  /\ elements = <<>>
  /\ queue_mutex = Free
  /\ n_pushed = 0
  /\ holders \in (SUBSET Threads) \ {{}}
  /\ notify_bytes = 0
  /\ watching = TRUE
  /\ reader = "idle"
  /\ read_bytes = 0
  /\ scheduled = <<>>

-----------------------------------------------------------------------------
(* synchronized_queue_pusher                                               *)

\* push, up to the write: the reader does not need the mutex to read the pipe.
PushElement(t) ==
  /\ t \in holders
  /\ queue_mutex = Free
  /\ n_pushed < MaxTasks
  /\ queue_mutex' = t
  /\ n_pushed' = n_pushed + 1
  /\ elements' = Append(elements, n_pushed + 1)
  /\ UNCHANGED <<holders, notify_bytes, watching, reader, read_bytes, scheduled>>

\* Mutants of NeedsNotify: tested as if before the push; a byte for each push.
NotifyIfWasEmpty == Len(elements) = 0
NotifyAlways == TRUE
NeedsNotify == Len(elements) = 1

PushNotify(t) ==
  /\ queue_mutex = t
  /\ notify_bytes' = notify_bytes + IF NeedsNotify THEN 1 ELSE 0
  /\ queue_mutex' = Free
  /\ UNCHANGED <<elements, n_pushed, holders, watching, reader, read_bytes, scheduled>>

CopyExecutor(t, u) ==
  /\ t \in holders
  /\ holders' = holders \cup {u}
  /\ UNCHANGED <<elements, queue_mutex, n_pushed, notify_bytes, watching,
                 reader, read_bytes, scheduled>>

DropExecutor(t) ==
  /\ t \in holders
  /\ queue_mutex # t
  /\ holders' = holders \ {t}
  /\ UNCHANGED <<elements, queue_mutex, n_pushed, notify_bytes, watching,
                 reader, read_bytes, scheduled>>

-----------------------------------------------------------------------------
(* queued_tasks_dispatcher, in the loop's thread                           *)

\* The loop notifies when there is a byte to read, or no writer any more.
ReadNotify ==
  /\ watching
  /\ reader = "idle"
  /\ notify_bytes > 0 \/ holders = {}
  /\ read_bytes' = notify_bytes
  /\ notify_bytes' = 0
  /\ reader' = "lock"
  /\ UNCHANGED <<elements, queue_mutex, n_pushed, holders, watching, scheduled>>

LockQueue ==
  /\ reader = "lock"
  /\ queue_mutex = Free
  /\ queue_mutex' = Loop
  /\ reader' = "drain"
  /\ UNCHANGED <<elements, n_pushed, holders, notify_bytes, watching,
                 read_bytes, scheduled>>

TakenOne == IF elements = <<>> THEN <<>> ELSE <<elements[1]>>     \* mutant of Taken: if, not while
Taken == elements
NewestFirst == Taken \o scheduled             \* mutant of Rescheduled
Rescheduled == scheduled \o Taken
ErrorOnly == FALSE                            \* mutant of EndOfFile: only !is_ok()
EndOfFile == read_bytes = 0

\* Under the mutex every element goes to the loop; after it, an empty read ends
\* the watch.
DrainQueue ==
  /\ reader = "drain"
  /\ scheduled' = Rescheduled
  /\ elements' = SubSeq(elements, Len(Taken) + 1, Len(elements))
  /\ queue_mutex' = Free
  /\ watching' = ~EndOfFile
  /\ reader' = "idle"
  /\ UNCHANGED <<n_pushed, holders, notify_bytes, read_bytes>>

\* The loop executes the tasks of invoke_later in the order of enqueuing (see
\* EventLoop); a task may do what any holder of the executor does.
ExecuteTask ==
  /\ reader = "idle"
  /\ scheduled # <<>>
  /\ scheduled' = Tail(scheduled)
  /\ UNCHANGED <<elements, queue_mutex, n_pushed, holders, notify_bytes,
                 watching, reader, read_bytes>>

LoopStep == ReadNotify \/ LockQueue \/ DrainQueue

Next ==
  \/ \E t \in Threads : PushElement(t) \/ PushNotify(t) \/ DropExecutor(t)
  \/ \E t, u \in Threads : CopyExecutor(t, u)
  \/ LoopStep
  \/ ExecuteTask

Spec == Init /\ [][Next]_vars

\* push() returns, and the loop runs; nobody is obliged to push or to drop.
FairSpec ==
  /\ Spec
  /\ \A t \in Threads : WF_vars(PushNotify(t))
  /\ WF_vars(LoopStep)
  /\ WF_vars(ExecuteTask)

-----------------------------------------------------------------------------
(* Type invariant; the pipe never holds more than one byte, so that the     *)
(* non-blocking write cannot fail on a full pipe.                           *)
TypeOK ==
  /\ elements \in Seq(1 .. MaxTasks) /\ scheduled \in Seq(1 .. MaxTasks)
  /\ queue_mutex \in Threads \cup {Free, Loop}
  /\ n_pushed \in 0 .. MaxTasks
  /\ holders \subseteq Threads
  /\ notify_bytes \in 0 .. 1 /\ read_bytes \in 0 .. 1
  /\ watching \in BOOLEAN
  /\ reader \in {"idle", "lock", "drain"}

(* Nobody sleeps on a task: while the queue holds one, a byte waits in the  *)
(* pipe, or its pusher has still to write it, or the reader took it and has *)
(* still to drain the queue (event-loop-mt-executor.cpp:67-71, 114-121).    *)
TaskIsNotified ==
  elements # <<>> =>
    \/ notify_bytes = 1
    \/ queue_mutex \in Threads /\ NeedsNotify
    \/ reader # "idle"

(* The watch ends only when no task can ever come and none is left: an end  *)
(* of file that overtook a task would strand it.                            *)
WatchOutlivesTasks == ~watching => elements = <<>> /\ holders = {}

(* Tasks run once, in the order of the pushes, and the loop listens as long *)
(* as someone holds the executor.                                           *)
Contract == INSTANCE MtExecutor
  WITH undone <- scheduled \o elements, accepted <- n_pushed,
       referenced <- holders # {}, listening <- watching
ImplementsMtExecutor == Contract!Spec

(* Each task pushed is executed.                                           *)
EveryTaskRuns ==
  \A n \in 1 .. MaxTasks :
    n_pushed >= n ~> \A i \in DOMAIN (scheduled \o elements) : (scheduled \o elements)[i] # n

(* When the last copy of the executor is gone the watch ends, so that the   *)
(* loop can become idle.                                                    *)
WatchEnds == holders = {} ~> ~watching
==============================================================================
