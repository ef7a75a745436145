--------------------------- MODULE RequestsQueueOps ---------------------------
(***************************************************************************)
(* A requests_queue as a value: its requests and the time of the scheduled *)
(* timeout task, {} when there is none.  A request is [id, timeout_end];   *)
(* what is requested is left out.  Ids grow in the order of pushing, so    *)
(* they stand for the positions in the deque.  RequestsQueue drives one    *)
(* queue in every way; the request handlers keep queues of their own.      *)
(***************************************************************************)
EXTENDS Naturals

NewRequestsQueue == [requests |-> {}, scheduled_timeout_task |-> {}]

HasRequests(q) == q.requests # {}

\* r is the first of a deque's requests.
NewestIsFirst(r, requests) == \A o \in requests : o.id <= r.id \* mutant of IsFirst
IsFirst(r, requests) == \A o \in requests : r.id <= o.id

\* {the smallest timeout_end}, or {} for no requests.
Earliest(requests) ==
  {r.timeout_end : r \in {e \in requests : \A o \in requests : e.timeout_end <= o.timeout_end}}

\* reschedule_timeout_task: a task that is scheduled already for the time
\* wanted is kept, any other one is disabled.
KeepTimeoutTask(q) ==                                \* mutants of Reschedule
  IF q.scheduled_timeout_task # {} THEN q
  ELSE [q EXCEPT !.scheduled_timeout_task = Earliest(q.requests)]
NoTimeoutTask(q) == q
Reschedule(q) == [q EXCEPT !.scheduled_timeout_task = Earliest(q.requests)]

\* time_point_sat_add: max stands for time_point::max().
PlainAdd(time, delta, max) == time + delta           \* mutant of SatAdd
SatAdd(time, delta, max) == IF delta > max - time THEN max ELSE time + delta

PushRequest(q, r) == Reschedule([q EXCEPT !.requests = @ \cup {r}])

\* pull_next_request_to_consumer when r is the first request, and the matching
\* one when r is the first to match: r leaves before the consumer is called.
PullRequest(q, r) == Reschedule([q EXCEPT !.requests = @ \ {r}])

\* The duration given to the consumer.
Remaining(r, now) == IF r.timeout_end > now THEN r.timeout_end - now ELSE 0

\* handle_pending_timeouts: what it collects, and what it leaves.  The timeout
\* task starts by forgetting itself, and reschedules only when it ends.
Expired(q, now) == {r \in q.requests : r.timeout_end <= now}
ExpireLate(q, now) ==                                \* mutant of WithoutExpired
  [requests |-> {r \in q.requests : r.timeout_end >= now}, scheduled_timeout_task |-> {}]
WithoutExpired(q, now) ==
  [requests |-> q.requests \ Expired(q, now), scheduled_timeout_task |-> {}]

TimeoutDue(q, now) == \E t \in q.scheduled_timeout_task : t <= now
==============================================================================
