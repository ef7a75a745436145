------------------------- MODULE RequestsQueueProofs -------------------------
(***************************************************************************)
(* Proofs about RequestsQueue, for any number of requests and any times.   *)
(***************************************************************************)
EXTENDS RequestsQueue, TLAPS

Waiting == queue.requests \cup called \cup cancelled

\* The places where a request can wait have none in common.
PlacesDiffer ==
  /\ queue.requests \cap called = {}
  /\ queue.requests \cap cancelled = {}
  /\ called \cap cancelled = {}

\* W are waiting, O have left, n were pushed: each has an id of its own.
Accounted(W, O, n) ==
  /\ \A r, s \in W : r.id = s.id => r = s
  /\ \A o, p \in O : o.id = p.id => o = p
  /\ \A r \in W, o \in O : r.id # o.id
  /\ \A i : i \in 1 .. n <=> (\E r \in W : r.id = i) \/ (\E o \in O : o.id = i)

\* A task calls all of its handlers before the owner's next task, and only a
\* destroyed queue leaves requests to the cancel task.
TasksInv ==
  /\ mode = "owner" => called = {}
  /\ alive => cancelled = {}

Inv ==
  /\ TypeOK
  /\ TimeoutTaskCoversRequests
  /\ TasksInv
  /\ PlacesDiffer
  /\ Accounted(Waiting, outcomes, n_requests)

-----------------------------------------------------------------------------
(* The operators of the queue                                              *)

Queue == [requests : SUBSET Request, scheduled_timeout_task : SUBSET (0 .. Never)]

LEMMA EarliestIsEnd ==
  ASSUME NEW requests \in SUBSET Request
  PROVE  Earliest(requests) \in SUBSET (0 .. Never)
  BY DEF Earliest, Request

LEMMA Rescheduled ==
  ASSUME NEW q \in Queue
  PROVE  /\ Reschedule(q) \in Queue
         /\ Reschedule(q).requests = q.requests
         /\ Reschedule(q).scheduled_timeout_task = Earliest(q.requests)
  BY EarliestIsEnd DEF Reschedule, Queue

LEMMA Pushed ==
  ASSUME NEW q \in Queue, NEW r \in Request
  PROVE  /\ PushRequest(q, r) \in Queue
         /\ PushRequest(q, r).requests = q.requests \cup {r}
         /\ PushRequest(q, r).scheduled_timeout_task = Earliest(PushRequest(q, r).requests)
<1> DEFINE p == [q EXCEPT !.requests = @ \cup {r}]
<1>1. p \in Queue /\ p.requests = q.requests \cup {r}
  BY DEF Queue
<1> QED
  BY <1>1, Rescheduled DEF PushRequest

LEMMA Pulled ==
  ASSUME NEW q \in Queue, NEW r
  PROVE  /\ PullRequest(q, r) \in Queue
         /\ PullRequest(q, r).requests = q.requests \ {r}
         /\ PullRequest(q, r).scheduled_timeout_task = Earliest(PullRequest(q, r).requests)
<1> DEFINE p == [q EXCEPT !.requests = @ \ {r}]
<1>1. p \in Queue /\ p.requests = q.requests \ {r}
  BY DEF Queue
<1> QED
  BY <1>1, Rescheduled DEF PullRequest

LEMMA NewQueue ==
  /\ NewRequestsQueue \in Queue
  /\ NewRequestsQueue.requests = {}
  /\ NewRequestsQueue.scheduled_timeout_task = Earliest({})
  BY DEF NewRequestsQueue, Queue, Earliest

(* A saturated sum is never beyond the end of time.                        *)
LEMMA SaturatedSum ==
  ASSUME NEW max \in Nat, NEW t \in 0 .. max, NEW d \in 0 .. max
  PROVE  SatAdd(t, d, max) \in 0 .. max
  BY SMT DEF SatAdd

-----------------------------------------------------------------------------
(* Accounts                                                                *)

LEMMA OneLeaves ==
  ASSUME NEW W, NEW O, NEW n, NEW r \in W, NEW o, o.id = r.id, Accounted(W, O, n)
  PROVE  Accounted(W \ {r}, O \cup {o}, n)
  BY DEF Accounted

LEMMA OneComes ==
  ASSUME NEW W, NEW O, NEW n \in Nat, NEW r, r.id = n + 1, Accounted(W, O, n)
  PROVE  Accounted(W \cup {r}, O, n + 1)
<1>1. n + 1 \notin 1 .. n /\ \A i : i \in 1 .. n + 1 <=> i \in 1 .. n \/ i = n + 1
  BY SMT
<1> HIDE DEF Accounted
<1>2. /\ \A s \in W : s.id # r.id
      /\ \A o \in O : o.id # r.id
  BY <1>1 DEF Accounted
<1> QED
  BY <1>1, <1>2 DEF Accounted

LEMMA AccountsImply ==
  ASSUME PlacesDiffer, Accounted(Waiting, outcomes, n_requests)
  PROVE  EachAnsweredOnce
<1>1. ASSUME NEW A, NEW B, A \subseteq Waiting, B \subseteq Waiting, A \cap B = {}
      PROVE  IdsOf(A) \cap IdsOf(B) = {}
  BY <1>1 DEF Accounted, IdsOf
<1>2. IdsOf(Waiting) \cap IdsOf(outcomes) = {}
  BY DEF Accounted, IdsOf
<1>3. AtOnePlace
  BY <1>1, <1>2 DEF AtOnePlace, PlacesDiffer, Waiting
<1>4. IdsOf(Waiting \cup outcomes) = 1 .. n_requests
  BY DEF Accounted, IdsOf
<1> QED
  BY <1>3, <1>4 DEF EachAnsweredOnce, Accounted, Waiting

-----------------------------------------------------------------------------
LEMMA InitInv == Init => Inv
<1> SUFFICES ASSUME Init PROVE Inv
  OBVIOUS
<1> USE BoundsAreNaturals
<1>1. TypeOK
  <2>1. 0 \in 0 .. MaxTime /\ 0 \in 0 .. MaxRequests
    BY SMT
  <2> QED
    BY <2>1, NewQueue DEF Init, TypeOK, Queue
<1>2. TimeoutTaskCoversRequests
  BY NewQueue DEF Init, TimeoutTaskCoversRequests
<1>3. Waiting = {} /\ outcomes = {} /\ n_requests = 0
  BY NewQueue DEF Init, Waiting
<1>4. Accounted(Waiting, outcomes, n_requests)
  BY <1>3, SMT DEF Accounted
<1> QED
  BY <1>1, <1>2, <1>4, NewQueue DEF Inv, Init, TasksInv, PlacesDiffer

LEMMA PushInv ==
  ASSUME Inv, NEW timeout \in 0 .. Never, Push(timeout)
  PROVE  Inv'
<1> DEFINE r == [id |-> n_requests + 1, timeout_end |-> SatAdd(etime, timeout, Never)]
<1>0. /\ n_requests \in 0 .. MaxRequests /\ n_requests < MaxRequests
      /\ n_requests' = n_requests + 1
      /\ etime \in 0 .. MaxTime
      /\ queue \in Queue
  BY DEF Inv, TypeOK, Queue, Push
<1>1. n_requests \in Nat /\ queue \in Queue
  BY <1>0, BoundsAreNaturals, SMT
<1>2. n_requests' = n_requests + 1 /\ n_requests' \in 1 .. MaxRequests
  BY <1>0, BoundsAreNaturals, SMT
<1>3. Never \in Nat /\ etime \in 0 .. Never
  BY <1>0, BoundsAreNaturals, SMT DEF Never
<1>4. r \in Request
  BY <1>2, <1>3, SaturatedSum DEF Request
<1>5. queue' = PushRequest(queue, r)
  BY DEF Push
<1> HIDE DEF r
<1>6. /\ queue' \in Queue
      /\ queue'.requests = queue.requests \cup {r}
      /\ queue'.scheduled_timeout_task = Earliest(queue'.requests)
  BY <1>1, <1>4, <1>5, Pushed
<1>7. Waiting' = Waiting \cup {r}
  BY <1>6 DEF Waiting, Push
<1>8. r.id = n_requests + 1
  BY DEF r
<1>9. Accounted(Waiting', outcomes', n_requests')
  BY <1>1, <1>2, <1>7, <1>8, OneComes DEF Push, Inv
<1>10. r \notin Waiting
  <2>1. n_requests + 1 \notin 1 .. n_requests
    BY <1>1, SMT
  <2> QED
    BY <1>8, <2>1 DEF Inv, Accounted
<1>11. PlacesDiffer'
  BY <1>6, <1>10 DEF PlacesDiffer, Waiting, Push, Inv
<1>12. TypeOK'
  <2>1. n_requests' \in 0 .. MaxRequests
    BY <1>2, SMT
  <2> QED
    BY <1>6, <2>1 DEF TypeOK, Queue, Push, Inv
<1> QED
  BY <1>6, <1>9, <1>11, <1>12 DEF Inv, TimeoutTaskCoversRequests, TasksInv, Push

(* A request that leaves goes from the waiting ones to the outcomes.        *)
LEMMA LeavesAccounted ==
  ASSUME Inv, NEW r \in Waiting, NEW outcome, Leaves(r, outcome),
         Waiting' = Waiting \ {r}, n_requests' = n_requests,
         outcome \in {"pulled", "timed out", "canceled"}
  PROVE  /\ Accounted(Waiting', outcomes', n_requests')
         /\ outcomes' \subseteq [id : 1 .. MaxRequests,
                                 outcome : {"pulled", "timed out", "canceled"}]
<1> DEFINE o == [id |-> r.id, outcome |-> outcome]
<1>1. Accounted(Waiting \ {r}, outcomes \cup {o}, n_requests)
  BY OneLeaves DEF Inv
<1>2. r.id \in 1 .. MaxRequests
  BY DEF Inv, TypeOK, Waiting, Request
<1>3. outcomes' = outcomes \cup {o}
  BY DEF Leaves
<1>4. Accounted(Waiting', outcomes', n_requests')
  BY <1>1, <1>3
<1>5. o \in [id : 1 .. MaxRequests, outcome : {"pulled", "timed out", "canceled"}]
  BY <1>2
<1> QED
  BY <1>3, <1>4, <1>5 DEF Inv, TypeOK

LEMMA PullInv ==
  ASSUME Inv, NEW r \in queue.requests, Pull(r)
  PROVE  Inv'
<1>1. /\ queue' \in Queue
      /\ queue'.requests = queue.requests \ {r}
      /\ queue'.scheduled_timeout_task = Earliest(queue'.requests)
  BY Pulled DEF Pull, Inv, TypeOK, Queue
<1>2. r \in Waiting /\ Waiting' = Waiting \ {r}
  BY <1>1 DEF Waiting, Pull, Inv, PlacesDiffer
<1>3. /\ Accounted(Waiting', outcomes', n_requests')
      /\ outcomes' \subseteq [id : 1 .. MaxRequests,
                              outcome : {"pulled", "timed out", "canceled"}]
  BY <1>2, LeavesAccounted DEF Pull
<1>4. TypeOK'
  BY <1>1, <1>3 DEF TypeOK, Queue, Pull, Inv
<1> QED
  BY <1>1, <1>3, <1>4
  DEF Inv, TimeoutTaskCoversRequests, TasksInv, PlacesDiffer, Pull

LEMMA DestroyInv ==
  ASSUME Inv, Destroy
  PROVE  Inv'
<1>1. queue' \in Queue /\ queue'.requests = {}
      /\ queue'.scheduled_timeout_task = Earliest(queue'.requests)
  BY NewQueue DEF Destroy
<1>2. called = {} /\ cancelled = {} /\ called' = {} /\ cancelled' = queue.requests
  BY DEF Destroy, Inv, TasksInv
<1>3. Waiting' = Waiting
  BY <1>1, <1>2 DEF Waiting
<1>4. TypeOK'
  BY <1>1, <1>2 DEF TypeOK, Queue, Destroy, Inv
<1> QED
  BY <1>1, <1>2, <1>3, <1>4
  DEF Inv, TimeoutTaskCoversRequests, TasksInv, PlacesDiffer, Destroy

LEMMA TimeoutTaskInv ==
  ASSUME Inv, TimeoutTask
  PROVE  Inv'
<1> DEFINE E == Expired(queue, etime)
<1>1. E \subseteq queue.requests
  BY DEF Expired
<1>2. /\ queue' \in Queue
      /\ queue'.requests = queue.requests \ E
      /\ queue'.scheduled_timeout_task = {}
  BY DEF TimeoutTask, WithoutExpired, Inv, TypeOK, Queue
<1>3. PICK r \in E : called' = E \ {r} /\ Leaves(r, "timed out") /\ mode' = "timeouts"
  BY DEF TimeoutTask, CallFirst
<1> HIDE DEF E
<1>4. called = {}
  BY DEF TimeoutTask, Inv, TasksInv
<1>5. r \in Waiting /\ Waiting' = Waiting \ {r}
  BY <1>1, <1>2, <1>3, <1>4 DEF Waiting, TimeoutTask, Inv, PlacesDiffer
<1>6. /\ Accounted(Waiting', outcomes', n_requests')
      /\ outcomes' \subseteq [id : 1 .. MaxRequests,
                              outcome : {"pulled", "timed out", "canceled"}]
  BY <1>3, <1>5, LeavesAccounted DEF TimeoutTask
<1>7. TypeOK'
  BY <1>1, <1>2, <1>3, <1>6 DEF TypeOK, Queue, TimeoutTask, Inv
<1>8. PlacesDiffer'
  BY <1>1, <1>2, <1>3 DEF PlacesDiffer, TimeoutTask, Inv
<1> QED
  BY <1>2, <1>3, <1>6, <1>7, <1>8 DEF Inv, TimeoutTaskCoversRequests, TasksInv, TimeoutTask

LEMMA CancelTaskInv ==
  ASSUME Inv, CancelTask
  PROVE  Inv'
<1>1. PICK r \in cancelled :
        called' = cancelled \ {r} /\ Leaves(r, "canceled") /\ mode' = "cancel"
  BY DEF CancelTask, CallFirst
<1>2. called = {}
  BY DEF CancelTask, Inv, TasksInv
<1>3. r \in Waiting /\ Waiting' = Waiting \ {r}
  BY <1>1, <1>2 DEF Waiting, CancelTask, Inv, PlacesDiffer
<1>4. /\ Accounted(Waiting', outcomes', n_requests')
      /\ outcomes' \subseteq [id : 1 .. MaxRequests,
                              outcome : {"pulled", "timed out", "canceled"}]
  BY <1>1, <1>3, LeavesAccounted DEF CancelTask
<1>5. TypeOK'
  BY <1>1, <1>4 DEF TypeOK, CancelTask, Inv
<1>6. PlacesDiffer'
  BY <1>1 DEF PlacesDiffer, CancelTask, Inv
<1> QED
  BY <1>1, <1>4, <1>5, <1>6 DEF Inv, TimeoutTaskCoversRequests, TasksInv, CancelTask

LEMMA NextHandlerInv ==
  ASSUME Inv, NextHandler
  PROVE  Inv'
<1> DEFINE outcome == IF mode = "cancel" THEN "canceled" ELSE "timed out"
<1>1. PICK r \in called : called' = called \ {r} /\ Leaves(r, outcome) /\ mode' = mode
  BY DEF NextHandler, CallFirst
<1>2. outcome \in {"pulled", "timed out", "canceled"}
  OBVIOUS
<1> HIDE DEF outcome
<1>3. r \in Waiting /\ Waiting' = Waiting \ {r}
  BY <1>1 DEF Waiting, NextHandler, Inv, PlacesDiffer
<1>4. /\ Accounted(Waiting', outcomes', n_requests')
      /\ outcomes' \subseteq [id : 1 .. MaxRequests,
                              outcome : {"pulled", "timed out", "canceled"}]
  BY <1>1, <1>2, <1>3, LeavesAccounted DEF NextHandler
<1>5. TypeOK'
  BY <1>1, <1>4 DEF TypeOK, NextHandler, Inv
<1>6. PlacesDiffer'
  BY <1>1 DEF PlacesDiffer, NextHandler, Inv
<1> QED
  BY <1>1, <1>4, <1>5, <1>6 DEF Inv, TimeoutTaskCoversRequests, TasksInv, NextHandler

LEMMA TaskReturnsInv ==
  ASSUME Inv, TaskReturns
  PROVE  Inv'
<1>1. queue \in Queue
  BY DEF Inv, TypeOK, Queue
<1>2. /\ queue' \in Queue
      /\ queue'.requests = queue.requests
      /\ queue'.scheduled_timeout_task = Earliest(queue'.requests)
  <2>1. CASE mode = "timeouts"
    BY <1>1, <2>1, Rescheduled DEF TaskReturns
  <2>2. CASE mode # "timeouts"
    BY <1>1, <2>2 DEF TaskReturns, Inv, TimeoutTaskCoversRequests
  <2> QED
    BY <2>1, <2>2
<1>3. Waiting' = Waiting
  BY <1>2 DEF Waiting, TaskReturns
<1>4. TypeOK'
  BY <1>2 DEF TypeOK, Queue, TaskReturns, Inv
<1> QED
  BY <1>2, <1>3, <1>4
  DEF Inv, TimeoutTaskCoversRequests, TasksInv, PlacesDiffer, TaskReturns

LEMMA AdvanceInv ==
  ASSUME Inv, NEW t \in 0 .. MaxTime, Advance(t)
  PROVE  Inv'
  BY DEF Inv, Advance, TypeOK, TimeoutTaskCoversRequests, TasksInv, PlacesDiffer, Waiting

LEMMA NextInv == Inv /\ [Next]_vars => Inv'
<1> SUFFICES ASSUME Inv, [Next]_vars PROVE Inv'
  OBVIOUS
<1>1. ASSUME NEW timeout \in 0 .. Never, Push(timeout) PROVE Inv'
  BY <1>1, PushInv
<1>2. ASSUME NEW r \in queue.requests, Pull(r) PROVE Inv'
  BY <1>2, PullInv
<1>3. CASE Destroy
  BY <1>3, DestroyInv
<1>4. CASE TimeoutTask
  BY <1>4, TimeoutTaskInv
<1>5. CASE CancelTask
  BY <1>5, CancelTaskInv
<1>6. CASE NextHandler
  BY <1>6, NextHandlerInv
<1>7. CASE TaskReturns
  BY <1>7, TaskReturnsInv
<1>8. ASSUME NEW t \in 0 .. MaxTime, Advance(t) PROVE Inv'
  BY <1>8, AdvanceInv
<1>9. CASE UNCHANGED vars
  BY <1>9 DEF vars, Inv, TypeOK, TimeoutTaskCoversRequests, TasksInv, PlacesDiffer, Waiting
<1> QED
  BY <1>1, <1>2, <1>3, <1>4, <1>5, <1>6, <1>7, <1>8, <1>9 DEF Next, LoopStep

LEMMA Invariance == Spec => []Inv
  BY InitInv, NextInv, PTL DEF Spec

(* Times stay within the saturated range, whatever timeouts are given.     *)
THEOREM TypeCorrect == Spec => []TypeOK
<1>1. Inv => TypeOK
  BY DEF Inv
<1> QED
  BY <1>1, Invariance, PTL

(* One scheduled task is enough for all the requests of a queue.           *)
THEOREM TimeoutsCovered == Spec => []TimeoutTaskCoversRequests
<1>1. Inv => TimeoutTaskCoversRequests
  BY DEF Inv
<1> QED
  BY <1>1, Invariance, PTL

(* No request is answered twice or dropped, for any number of requests and  *)
(* any calls that handlers make.                                            *)
THEOREM AnsweredOnce == Spec => []EachAnsweredOnce
<1>1. Inv => EachAnsweredOnce
  BY AccountsImply DEF Inv
<1> QED
  BY <1>1, Invariance, PTL
==============================================================================
