---------------------------- MODULE RequestHandling ----------------------------
(***************************************************************************)
(* What the request handlers that keep requests_queues have in common:     *)
(* clients, the base handler, the queues' timeout tasks and destruction.   *)
(* Clients call handle_request in tasks of their own and in the response   *)
(* handlers that are called.  The base handler is any request_handler:     *)
(* it answers in a later task, once.  A handler's module EXTENDS this one  *)
(* and gives own, the fields that its class adds, their name; the modules  *)
(* that check them choose the class by kind.                               *)
(***************************************************************************)
EXTENDS RequestsQueueOps, Sequences, FiniteSets

CONSTANTS
  MaxTime,        \* bound on etime
  MaxRequests,    \* bound on the requests made
  N               \* number of requests_queues

ASSUME RequestHandlingAssumption == MaxTime \in Nat /\ MaxRequests \in Nat /\ N \in Nat \ {0}

VARIABLES
  etime,
  deadlines,      \* history: timeout_end of the requests made, in order
  queues,         \* 1 .. N
  base,           \* requests that the base handler has yet to answer
  alive,          \* clients hold the handler
  mode,           \* whose response handlers the loop calls
  called,         \* handlers that the running task has still to call
  cancelled,      \* requests in the cancel task of destroyed queues
  result,         \* what a response handler was called with last
  own,            \* the fields that the class adds
  kind            \* the class, which the initial state chooses

shared_vars == <<etime, deadlines, queues, base, alive, mode, called, cancelled,
                 result>>

Never == MaxTime + 1
Queues == 1 .. N

Idle == <<"idle">>
InResponse == <<"response">>           \* of the base handler
InTimeouts(i) == <<"timeouts", i>>
InCancel == <<"cancel">>
InReap == <<"reap">>                   \* the watcher of SIGCHLD runs
InLater == <<"later">>                 \* of a reader, with a result known before
Thrown == <<"thrown">>                 \* an exception has left the event loop

InitShared ==
  /\ etime = 0
  /\ deadlines = <<>>
  /\ queues = [i \in Queues |-> NewRequestsQueue]
  /\ base = {}
  /\ alive = TRUE
  /\ mode = Idle
  /\ called = {}
  /\ cancelled = {}
  /\ result = [id |-> 0, res |-> "none"]

Request(timeout) ==
  [id |-> Len(deadlines) + 1, timeout_end |-> SatAdd(etime, timeout, Never)]

\* A call of handle_request; what becomes of r is the handler's code.
Accept(r) ==
  /\ alive
  /\ Len(deadlines) < MaxRequests
  /\ deadlines' = Append(deadlines, r.timeout_end)
  /\ UNCHANGED <<etime, alive, mode, called, cancelled, result>>

\* A call that is passed on at once, and one that may have to wait.
PassOn(r) == Accept(r) /\ base' = base \cup {r} /\ UNCHANGED queues

Enqueue(i, r) == queues' = [queues EXCEPT ![i] = PushRequest(@, r)]

Admit(i, r, waits) ==
  IF waits THEN Accept(r) /\ Enqueue(i, r) /\ UNCHANGED base ELSE PassOn(r)

\* base_req_handler->handle_request with the duration that is left for r.
Forwarded(r) == [r EXCEPT !.timeout_end = SatAdd(etime, Remaining(r, etime), Never)]

\* pull_next_request_to_consumer with a consumer that forwards to the base.
ForwardNext(i) ==
  \E r \in queues[i].requests :
    /\ IsFirst(r, queues[i].requests)
    /\ queues' = [queues EXCEPT ![i] = PullRequest(@, r)]
    /\ base' = base \cup {Forwarded(r)}

\* What is pending goes on, when the handler, which the function at the base
\* handler only references weakly, is still there.
ForwardPending(i) ==
  IF alive /\ HasRequests(queues[i]) THEN ForwardNext(i) ELSE UNCHANGED <<queues, base>>

\* The base handler calls the function it was given, which calls the client's.
Answer(r, res) ==
  /\ mode = Idle
  /\ res = "timed out" => r.timeout_end <= etime
  /\ base' = base \ {r}
  /\ mode' = InResponse
  /\ result' = [id |-> r.id, res |-> res]
  /\ UNCHANGED <<etime, deadlines, queues, alive, called, cancelled>>

\* The client's response handler has returned; the rest is the class's code.
ResponseReturned ==
  /\ mode = InResponse
  /\ mode' = Idle
  /\ UNCHANGED <<etime, deadlines, alive, called, cancelled, result>>

-----------------------------------------------------------------------------
(* The tasks of the queues, see RequestsQueue                              *)

CallFirst(handlers, res, in) ==
  \E r \in handlers :
    /\ IsFirst(r, handlers)
    /\ mode' = in
    /\ called' = handlers \ {r}
    /\ result' = [id |-> r.id, res |-> res]

TimeoutTask(i) ==
  /\ mode = Idle
  /\ TimeoutDue(queues[i], etime)
  /\ queues' = [queues EXCEPT ![i] = WithoutExpired(@, etime)]
  /\ CallFirst(Expired(queues[i], etime), "timed out", InTimeouts(i))
  /\ UNCHANGED <<etime, deadlines, base, alive, cancelled>>

CancelTask ==
  /\ mode = Idle
  /\ cancelled' = {}
  /\ CallFirst(cancelled, "canceled", InCancel)
  /\ UNCHANGED <<etime, deadlines, queues, base, alive>>

NextHandler ==
  /\ mode \notin {Idle, InResponse}
  /\ CallFirst(called, IF mode = InCancel THEN "canceled" ELSE "timed out", mode)
  /\ UNCHANGED <<etime, deadlines, queues, base, alive, cancelled>>

QueueTaskReturns ==
  /\ mode \notin {Idle, InResponse}
  /\ called = {}
  /\ queues' = [i \in Queues |-> IF mode = InTimeouts(i) THEN Reschedule(queues[i])
                                 ELSE queues[i]]
  /\ mode' = Idle
  /\ UNCHANGED <<etime, deadlines, base, alive, called, cancelled, result>>

QueueTask ==
  \/ \E i \in Queues : TimeoutTask(i)
  \/ CancelTask \/ NextHandler \/ QueueTaskReturns

\* The last owner drops the handler and its queue; not in a call made by the
\* queue's timeout task, which uses the queue afterwards.
Destroy ==
  /\ alive
  /\ mode \in {Idle, InResponse}
  /\ alive' = FALSE
  /\ cancelled' = UNION {queues[i].requests : i \in Queues}
  /\ queues' = [i \in Queues |-> NewRequestsQueue]
  /\ UNCHANGED <<etime, deadlines, base, mode, called, result>>

Advance ==
  /\ mode = Idle
  /\ etime < MaxTime
  /\ etime' = etime + 1
  /\ UNCHANGED <<deadlines, queues, base, alive, mode, called, cancelled, result>>

-----------------------------------------------------------------------------
Timeouts == 0 .. Never
Results == {"ok", "error", "timed out"}

IdsOf(requests) == {r.id : r \in requests}
Pending == UNION {queues[i].requests : i \in Queues}
Open == IdsOf(Pending \cup base \cup called \cup cancelled)

\* Requests at the base handler, and the one whose answer is being delivered.
InUse == Cardinality(base) + IF mode = InResponse THEN 1 ELSE 0

(* The timeout task of each queue is that of its earliest request: see      *)
(* RequestsQueue.                                                           *)
TimeoutTasksCover ==
  \A i \in Queues :
    \/ queues[i].scheduled_timeout_task = Earliest(queues[i].requests)
    \/ mode = InTimeouts(i) /\ queues[i].scheduled_timeout_task = {}

(* The requests of a queue go to the base handler in the order in which     *)
(* they came.                                                               *)
FirstComeFirstServed ==
  \A i \in Queues : \A r, o \in queues[i].requests :
    o.id < r.id /\ r.id \in IdsOf(base') => o.id \in IdsOf(base')

(* Those of a queue go after all those of the queues before it.             *)
UrgentFirst ==
  \A i \in Queues, r \in Pending :
    r \in queues[i].requests /\ r.id \in IdsOf(base') =>
      \A j \in 1 .. i - 1 : IdsOf(queues[j].requests) \subseteq IdsOf(base')

(* A request that comes while others wait does not overtake them.          *)
NoOvertaking ==
  (\E r \in base' : r.id > Len(deadlines)) => Pending = {}

\* The requests of the group that is being answered.  No other class has any.
Copies == IF kind = "grouping" /\ mode = InResponse THEN IdsOf(called) ELSE {}

(* Each request is answered once, in a later task than the one that made it,*)
(* and told of a timeout only when its time has come - wherever it waits,   *)
(* and with the time that is left when it is forwarded                      *)
(* (request-handler.h:21-31).  The grouped requests of                      *)
(* grouping_null_request_handler alone are told what the request at the     *)
(* base was told, and so of its timeout before their own time               *)
(* (grouping-null-request-handler-impl.h:69-77), all in the task in which   *)
(* that request is answered.                                                *)
Contract ==
  INSTANCE RequestHandler WITH Times <- 0 .. Never, open <- Open, copies <- Copies
ImplementsRequestHandler == Contract!Spec

(* Each request is answered, if the base handler answers and time passes.  *)
EveryRequestAnswered ==
  \A n \in 1 .. MaxRequests : Len(deadlines) >= n ~> n \notin Open
==============================================================================
