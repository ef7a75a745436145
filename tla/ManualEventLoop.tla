--------------------------- MODULE ManualEventLoop ---------------------------
(***************************************************************************)
(* manual_event_loop: tasks ordered by (time, id), run by                  *)
(* process_time_passage, which its caller drives.  The code of a task, and *)
(* the code of the caller, is any sequence of invoke_at, disable and quit  *)
(* calls.                                                                  *)
(***************************************************************************)
EXTENDS Naturals

CONSTANTS
  MaxTime,     \* bound on the time points
  MaxTasks     \* bound on the number of invoke_at calls

ASSUME BoundsAreNaturals == MaxTime \in Nat /\ MaxTasks \in Nat

VARIABLES
  last_event_time,
  pending_tasks,          \* the map's keys: [time, id]
  next_task_id,
  quit_request_pending,
  mode                    \* who runs: "caller", the "loop" itself, a "task"

vars ==
  <<last_event_time, pending_tasks, next_task_id, quit_request_pending, mode>>

Times == 0 .. MaxTime

\* The order of the map: std::tuple's.
BeforeLifo(a, b) ==                                     \* mutant of Before
  a.time < b.time \/ (a.time = b.time /\ a.id > b.id)
Before(a, b) == a.time < b.time \/ (a.time = b.time /\ a.id < b.id)

IsHead(k) == \A o \in pending_tasks : o = k \/ Before(k, o)

Due(k) == k.time <= last_event_time

Init ==
  /\ last_event_time \in Times
  /\ pending_tasks = {}
  /\ next_task_id = 0
  /\ quit_request_pending = FALSE
  /\ mode = "caller"

-----------------------------------------------------------------------------
(* Calls made by user code, which never runs while the loop itself does.   *)

SameId == next_task_id                                  \* mutant of NextId
NextId == next_task_id + 1

InvokeAt(t) ==
  /\ mode # "loop"
  /\ next_task_id < MaxTasks
  /\ pending_tasks' = pending_tasks \cup {[time |-> t, id |-> next_task_id]}
  /\ next_task_id' = NextId
  /\ UNCHANGED <<last_event_time, quit_request_pending, mode>>

Disable(k) ==
  /\ mode # "loop"
  /\ pending_tasks' = pending_tasks \ {k}
  /\ UNCHANGED <<last_event_time, next_task_id, quit_request_pending, mode>>

\* disable() on the handle of a task that was started or disabled throws: the
\* exception ends the task and the call of process_time_passage around it.
DisableMissing ==
  /\ mode = "task"
  /\ \E i \in 0 .. next_task_id - 1 : \A k \in pending_tasks : k.id # i
  /\ mode' = "caller"
  /\ UNCHANGED <<last_event_time, pending_tasks, next_task_id,
                 quit_request_pending>>

Quit ==
  /\ mode # "loop"
  /\ quit_request_pending' = TRUE
  /\ UNCHANGED <<last_event_time, pending_tasks, next_task_id, mode>>

-----------------------------------------------------------------------------
(* process_time_passage(delta)                                             *)

ProcessTimePassage(delta) ==
  /\ mode = "caller"
  /\ last_event_time + delta \in Times
  /\ last_event_time' = last_event_time + delta
  /\ mode' = "loop"
  /\ UNCHANGED <<pending_tasks, next_task_id, quit_request_pending>>

\* The head leaves the map before its function is called.
RunTask ==
  /\ mode = "loop"
  /\ \E k \in pending_tasks :
       /\ IsHead(k)
       /\ Due(k)
       /\ pending_tasks' = pending_tasks \ {k}
  /\ mode' = "task"
  /\ UNCHANGED <<last_event_time, next_task_id, quit_request_pending>>

TaskReturns ==
  /\ mode = "task"
  /\ mode' = IF quit_request_pending THEN "caller" ELSE "loop"
  /\ quit_request_pending' = FALSE
  /\ UNCHANGED <<last_event_time, pending_tasks, next_task_id>>

NothingDue ==
  /\ mode = "loop"
  /\ \A k \in pending_tasks : ~Due(k)
  /\ mode' = "caller"
  /\ UNCHANGED <<last_event_time, pending_tasks, next_task_id,
                 quit_request_pending>>

Next ==
  \/ \E t \in Times : InvokeAt(t)
  \/ \E k \in pending_tasks : Disable(k)
  \/ DisableMissing
  \/ Quit
  \/ \E delta \in Times : ProcessTimePassage(delta)
  \/ RunTask
  \/ TaskReturns
  \/ NothingDue

Spec == Init /\ [][Next]_vars

-----------------------------------------------------------------------------
(* A handle names one task for ever: no two tasks of the map share an id,  *)
(* and an id still to be given out is not in use, so that a disable() on   *)
(* an old handle cannot hit a newer task (manual-event-loop.cpp:113-131).  *)
HandlesNameOneTask ==
  /\ \A k \in pending_tasks : k.id < next_task_id
  /\ \A k, o \in pending_tasks : k.id = o.id => k = o

(* Type invariant, with what makes the keys of the map usable as handles.  *)
TypeOK ==
  /\ last_event_time \in Times
  /\ pending_tasks \subseteq [time : Times, id : 0 .. MaxTasks]
  /\ next_task_id \in 0 .. MaxTasks
  /\ quit_request_pending \in BOOLEAN
  /\ mode \in {"caller", "loop", "task"}
  /\ HandlesNameOneTask

(* The loop keeps the contract of event_loop: not before its time, in the  *)
(* order of enqueuing among equal times, at most once, never after         *)
(* disable(), and with an etime that stands still while a task runs.       *)
Contract == INSTANCE EventLoop WITH etime <- last_event_time, pending <- pending_tasks,
                          next_id <- next_task_id, busy <- (mode = "task")
ImplementsContract == Contract!Spec
==============================================================================
