------------------------------ MODULE EventLoop ------------------------------
(***************************************************************************)
(* The contract of nosync's event loop, as its users see it: the interface *)
(* event_loop (event-loop.h) with the handles that invoke_at returns       *)
(* (activity-handle.h).  Only what the interface promises is here: how an  *)
(* implementation polls, batches, orders tasks of different times or stops *)
(* is left open.  ManualEventLoop, PpollEventLoop and SyncQueueEventLoop   *)
(* are shown to implement this module.                                     *)
(***************************************************************************)
EXTENDS Naturals

CONSTANT Times      \* the time points of eclock that occur, natural numbers

VARIABLES
  etime,     \* what get_etime() returns
  pending,   \* tasks enqueued, neither started nor disabled: [time, id]
  next_id,   \* ids count the invoke_at calls, so they order tasks by enqueuing
  busy       \* the loop is executing a task or a notification

vars == <<etime, pending, next_id, busy>>

Init ==
  /\ etime \in Times
  /\ pending = {}
  /\ next_id = 0
  /\ busy = FALSE

\* A call of invoke_at(t, task), from a task or from outside of the loop.
Enqueue ==
  /\ \E t \in Times : pending' = pending \cup {[time |-> t, id |-> next_id]}
  /\ next_id' = next_id + 1
  /\ UNCHANGED <<etime, busy>>

\* disable() on the handle of a task: from here on it cannot start.
Disable ==
  /\ \E k \in pending : pending' = pending \ {k}
  /\ UNCHANGED <<etime, next_id, busy>>

\* An iteration begins: one task, not before its time, and not before a task
\* of the same time that was enqueued earlier.
Start ==
  /\ ~busy
  /\ \E k \in pending :
       /\ k.time <= etime
       /\ \A o \in pending : o.time = k.time => k.id <= o.id
       /\ pending' = pending \ {k}
  /\ busy' = TRUE
  /\ UNCHANGED <<etime, next_id>>

\* An iteration that executes no task of invoke_at (a watch notification).
StartOther ==
  /\ ~busy
  /\ busy' = TRUE
  /\ UNCHANGED <<etime, pending, next_id>>

Finish ==
  /\ busy
  /\ busy' = FALSE
  /\ UNCHANGED <<etime, pending, next_id>>

\* Time passes between iterations only, and never backwards.
Advance ==
  /\ ~busy
  /\ etime' \in Times
  /\ etime' >= etime
  /\ UNCHANGED <<pending, next_id, busy>>

Next ==
  \/ Enqueue \/ Disable \/ Start \/ StartOther \/ Finish \/ Advance

Spec == Init /\ [][Next]_vars
==============================================================================
