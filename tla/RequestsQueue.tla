---------------------------- MODULE RequestsQueue ----------------------------
(***************************************************************************)
(* requests_queue in an event loop.  Its owner pushes and pulls in any     *)
(* task, in any timeout handler that the queue calls, and destroys it.     *)
(* Code of the loop's thread is in one of three places (mode): in none of  *)
(* the queue's calls ("owner"), in handle_pending_timeouts with a handler  *)
(* being called ("timeouts"), in the task that cancels the requests of a   *)
(* destroyed queue ("cancel").                                             *)
(***************************************************************************)
EXTENDS RequestsQueueOps

CONSTANTS
  MaxTime,       \* bound on etime
  MaxRequests    \* bound on the requests pushed

ASSUME BoundsAreNaturals == MaxTime \in Nat /\ MaxRequests \in Nat

VARIABLES
  etime,
  queue,
  alive,
  mode,
  called,        \* handlers that the running task has still to call
  cancelled,     \* requests moved to the cancel task, which has not started
  n_requests,    \* requests pushed, which gives them their ids
  outcomes       \* history: [id, outcome] of the requests that left

vars == <<etime, queue, alive, mode, called, cancelled, n_requests, outcomes>>

Never == MaxTime + 1              \* time_point::max(), which etime never reaches

Init ==
  /\ etime = 0
  /\ queue = NewRequestsQueue
  /\ alive = TRUE
  /\ mode = "owner"
  /\ called = {}
  /\ cancelled = {}
  /\ n_requests = 0
  /\ outcomes = {}

Leaves(r, outcome) ==
  outcomes' = outcomes \cup {[id |-> r.id, outcome |-> outcome]}

-----------------------------------------------------------------------------
(* Calls of the owner                                                      *)

Push(timeout) ==
  /\ alive
  /\ n_requests < MaxRequests
  /\ n_requests' = n_requests + 1
  /\ queue' = PushRequest(queue, [id |-> n_requests + 1,
                                  timeout_end |-> SatAdd(etime, timeout, Never)])
  /\ UNCHANGED <<etime, alive, mode, called, cancelled, outcomes>>

\* Which request a predicate matches first is not told by the model.
Pull(r) ==
  /\ alive
  /\ queue' = PullRequest(queue, r)
  /\ Leaves(r, "pulled")
  /\ UNCHANGED <<etime, alive, mode, called, cancelled, n_requests>>

\* Not from a handler that handle_pending_timeouts calls: the timeout task uses
\* the queue afterwards.
Destroy ==
  /\ alive
  /\ mode = "owner"
  /\ alive' = FALSE
  /\ cancelled' = queue.requests
  /\ queue' = NewRequestsQueue
  /\ UNCHANGED <<etime, mode, called, n_requests, outcomes>>

-----------------------------------------------------------------------------
(* Tasks of the event loop                                                 *)

\* A task that calls handlers in the order of the deque; the owner's code runs
\* in each of them.
CallFirst(handlers, outcome, in) ==
  \E r \in handlers :
    /\ IsFirst(r, handlers)
    /\ mode' = in
    /\ called' = handlers \ {r}
    /\ Leaves(r, outcome)

\* The timeout task, up to its first handler.
TimeoutTask ==
  /\ mode = "owner"
  /\ TimeoutDue(queue, etime)
  /\ queue' = WithoutExpired(queue, etime)
  /\ CallFirst(Expired(queue, etime), "timed out", "timeouts")
  /\ UNCHANGED <<etime, alive, cancelled, n_requests>>

CancelTask ==
  /\ mode = "owner"
  /\ cancelled' = {}
  /\ CallFirst(cancelled, "canceled", "cancel")
  /\ UNCHANGED <<etime, queue, alive, n_requests>>

NextHandler ==
  /\ mode # "owner"
  /\ CallFirst(called, IF mode = "cancel" THEN "canceled" ELSE "timed out", mode)
  /\ UNCHANGED <<etime, queue, alive, cancelled, n_requests>>

TaskReturns ==
  /\ mode # "owner"
  /\ called = {}
  /\ queue' = IF mode = "timeouts" THEN Reschedule(queue) ELSE queue
  /\ mode' = "owner"
  /\ UNCHANGED <<etime, alive, called, cancelled, n_requests, outcomes>>

Advance(t) ==
  /\ mode = "owner"
  /\ t > etime
  /\ etime' = t
  /\ UNCHANGED <<queue, alive, mode, called, cancelled, n_requests, outcomes>>

LoopStep == TimeoutTask \/ CancelTask \/ NextHandler \/ TaskReturns

Next ==
  \/ \E timeout \in 0 .. Never : Push(timeout)
  \/ \E r \in queue.requests : Pull(r)
  \/ Destroy
  \/ LoopStep
  \/ \E t \in 0 .. MaxTime : Advance(t)

Spec == Init /\ [][Next]_vars

\* The loop runs its tasks, and time passes.
FairSpec ==
  Spec /\ WF_vars(LoopStep) /\ WF_vars(\E t \in 0 .. MaxTime : Advance(t))

-----------------------------------------------------------------------------
Request == [id : 1 .. MaxRequests, timeout_end : 0 .. Never]

(* Type invariant.                                                         *)
TypeOK ==
  /\ etime \in 0 .. MaxTime
  /\ queue \in [requests : SUBSET Request, scheduled_timeout_task : SUBSET (0 .. Never)]
  /\ alive \in BOOLEAN
  /\ mode \in {"owner", "timeouts", "cancel"}
  /\ called \subseteq Request /\ cancelled \subseteq Request
  /\ n_requests \in 0 .. MaxRequests
  /\ outcomes \subseteq [id : 1 .. MaxRequests, outcome : {"pulled", "timed out", "canceled"}]

(* One task is scheduled, for the earliest timeout_end, whenever the queue  *)
(* is not inside of its own timeout task - whatever was pushed or pulled,   *)
(* also by handlers which that task called.  Inside, a task that is already *)
(* scheduled again is one for the earliest end too                          *)
(* (requests-queue-impl.h:191-216).                                         *)
TimeoutTaskCoversRequests ==
  \/ queue.scheduled_timeout_task = Earliest(queue.requests)
  \/ mode = "timeouts" /\ queue.scheduled_timeout_task = {}

IdsOf(set) == {r.id : r \in set}

AtOnePlace ==
  /\ IdsOf(queue.requests) \cap IdsOf(called) = {}
  /\ IdsOf(queue.requests) \cap IdsOf(cancelled) = {}
  /\ IdsOf(called) \cap IdsOf(cancelled) = {}
  /\ IdsOf(queue.requests \cup called \cup cancelled) \cap IdsOf(outcomes) = {}

(* Every request is at one place: in the queue, in a task that will answer  *)
(* it, or gone with one outcome.  Its handler is neither called twice nor   *)
(* dropped, though handlers push and pull while the timeout task is at work *)
(* (requests-queue-impl.h:44-55, 93-103, 155-177).                          *)
EachAnsweredOnce ==
  /\ AtOnePlace
  /\ \A o, p \in outcomes : o.id = p.id => o = p
  /\ IdsOf(queue.requests \cup called \cup cancelled \cup outcomes) = 1 .. n_requests

(* A request whose timeout lies within the time that passes leaves the      *)
(* queue.                                                                   *)
EachLeaves ==
  \A n \in 1 .. MaxRequests :
    (\E r \in queue.requests : r.id = n /\ r.timeout_end <= MaxTime)
      ~> \E o \in outcomes : o.id = n
==============================================================================
