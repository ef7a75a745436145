----------------------- MODULE ForwardingRequestHandlers -----------------------
(***************************************************************************)
(* The handlers that pass each request on at once or refuse it.  A refused *)
(* request is in base like the others, until the task runs that answers    *)
(* it or, of the bytes i/o, until the base has read the zero bytes that    *)
(* are asked of it instead.  fwd.class says which handler is modelled, the *)
(* other fields are the variables of its closure.                          *)
(***************************************************************************)
EXTENDS RequestHandling

CONSTANTS
  Deadline,        \* of the deadline setting handler
  MaxTimeout       \* of the timeout limiting handler

ASSUME ForwardingAssumption == Deadline \in Nat /\ MaxTimeout \in Nat

fwd == own       \* [class, active, refused, idle]

Classes == {"noconcurrent", "noconcurrent_bytes_io", "call_once", "idle_notifying",
            "deadline_setting", "timeout_limiting", "transforming", "full_transforming",
            "const_response"}

\* active: call_active, bio_active, requests counted or, of call_once, passed on.
\* idle: what the listener was told last.
ForwardingInit ==
  /\ InitShared
  /\ fwd \in [class : Classes, active : {0}, refused : {{}}, idle : {TRUE}]

Arrives(class, r) == fwd.class = class /\ PassOn(r)

PassUnlessActive(r) ==
  fwd' = IF fwd.active = 0 THEN [fwd EXCEPT !.active = 1]
         ELSE [fwd EXCEPT !.refused = @ \cup {r.id}]

NoConcurrent(timeout) ==
  Arrives("noconcurrent", Request(timeout)) /\ PassUnlessActive(Request(timeout))

\* Reads and writes share one flag; writes have no timeout.
NoConcurrentBytesIo(timeout) ==
  Arrives("noconcurrent_bytes_io", Request(timeout)) /\ PassUnlessActive(Request(timeout))

CallOnce(timeout) ==
  Arrives("call_once", Request(timeout)) /\ PassUnlessActive(Request(timeout))

IdleNotifying(timeout) ==
  /\ Arrives("idle_notifying", Request(timeout))
  /\ fwd' = [fwd EXCEPT !.active = @ + 1, !.idle = FALSE]

Lesser(a, b) == IF a < b THEN a ELSE b

DeadlineSetting(timeout) ==
  /\ Arrives("deadline_setting",
             Request(Lesser(timeout, IF Deadline >= etime THEN Deadline - etime ELSE 0)))
  /\ UNCHANGED fwd

TimeoutLimiting(timeout) ==
  Arrives("timeout_limiting", Request(Lesser(timeout, MaxTimeout))) /\ UNCHANGED fwd

\* The transformation of the request may fail.
PassTransformed(r) == fwd' \in {fwd, [fwd EXCEPT !.refused = @ \cup {r.id}]}

Transforming(timeout) ==
  Arrives("transforming", Request(timeout)) /\ PassTransformed(Request(timeout))

\* Responses are transformed too: a value may become an error.
FullTransforming(timeout) ==
  Arrives("full_transforming", Request(timeout)) /\ PassTransformed(Request(timeout))

ConstResponse(timeout) ==
  Arrives("const_response", Request(timeout)) /\ UNCHANGED fwd

ForwardingHandleRequest(timeout) ==
  \/ NoConcurrent(timeout) \/ NoConcurrentBytesIo(timeout) \/ CallOnce(timeout)
  \/ IdleNotifying(timeout) \/ DeadlineSetting(timeout) \/ TimeoutLimiting(timeout)
  \/ Transforming(timeout) \/ FullTransforming(timeout) \/ ConstResponse(timeout)

Refused(r) == r.id \in fwd.refused

\* Passed on as they came.
Passed == {r \in base : ~Refused(r)}

\* A read or write that the bytes i/o refuses goes to the base too, as a read of
\* zero bytes without timeout, though another call is active there.
ZeroRead(r) == fwd.class = "noconcurrent_bytes_io" /\ Refused(r)

\* What the base handler has yet to answer.
BaseCalls == {r \in base : ~Refused(r) \/ ZeroRead(r)}

ForwardingBaseAnswers(r, res) ==
  /\ r \in Passed
  /\ Answer(r, res)
  /\ fwd' = IF fwd.class \in {"noconcurrent", "noconcurrent_bytes_io"}
            THEN [fwd EXCEPT !.active = 0] ELSE fwd

\* Whatever the read of zero bytes gives, the client is told of the refusal.
ZeroBytesRead(r) == ZeroRead(r) /\ Answer(r, "error") /\ UNCHANGED fwd

RefusalTask(r) ==
  Refused(r) /\ ~ZeroRead(r) /\ Answer(r, "error") /\ UNCHANGED fwd

ForwardingResponseReturns ==
  /\ ResponseReturned
  /\ fwd' = IF fwd.class = "idle_notifying"
            THEN [fwd EXCEPT !.active = @ - 1, !.idle = fwd.active = 1] ELSE fwd
  /\ UNCHANGED <<queues, base>>

\* The closure that transforms responses points to the handler without owning
\* it: the handler has to outlive the requests passed on.  Others own what
\* they use.
Drop == (fwd.class = "full_transforming" => Passed = {}) /\ Destroy

ForwardingLoopStep == ForwardingResponseReturns \/ \E r \in base : RefusalTask(r)
ForwardingSomeAnswer ==
  \E r \in base : ZeroBytesRead(r) \/ \E res \in Results : ForwardingBaseAnswers(r, res)

ForwardingNext ==
  \/ \E timeout \in {1, Never} : ForwardingHandleRequest(timeout)
  \/ ForwardingSomeAnswer \/ ForwardingLoopStep
  \/ (Drop \/ Advance) /\ UNCHANGED fwd

-----------------------------------------------------------------------------
(* What each class promises of the requests at the base handler: one at a   *)
(* time - of bytes i/o one read or write of data, next to which the base    *)
(* sees a read of zero bytes for each call refused meanwhile                *)
(* (noconcurrent-bytes-io.cpp:50, 68) - of all only the first, none that    *)
(* ends after the deadline or the timeout; and the listener is told of      *)
(* idleness exactly when nothing is in use, the client's response handler   *)
(* included.                                                                *)
ForwardingLimitKept ==
  /\ fwd.class = "noconcurrent" => Cardinality(BaseCalls) = fwd.active /\ fwd.active <= 1
  /\ fwd.class = "noconcurrent_bytes_io" =>
       Cardinality({r \in BaseCalls : ~ZeroRead(r)}) = fwd.active /\ fwd.active <= 1
  /\ fwd.class = "call_once" => IdsOf(Passed) \subseteq {1}
  /\ fwd.class = "idle_notifying" => fwd.active = InUse /\ fwd.idle = (InUse = 0)
  /\ \A r \in Passed :
       /\ fwd.class = "deadline_setting" => r.timeout_end <= Deadline \/ r.timeout_end <= etime
       /\ fwd.class = "timeout_limiting" => r.timeout_end <= SatAdd(etime, MaxTimeout, Never)

-----------------------------------------------------------------------------
(* lazy_init_request_handler: the first request starts a factory; requests *)
(* wait until it answers.  When it fails, a handler that answers every     *)
(* request with an error takes the base handler's place.                   *)

factory == own         \* "unused", "running", "answered"

LazyInit == InitShared /\ factory = "unused"

LazyHandleRequest(timeout) ==
  /\ Admit(1, Request(timeout), factory # "answered")
  /\ factory' = IF factory = "answered" THEN factory ELSE "running"

\* All that waits is forwarded in one go; none of it when the handler is gone.
FactoryAnswers ==
  /\ mode = Idle
  /\ factory = "running"
  /\ factory' = "answered"
  /\ base' = base \cup {Forwarded(r) : r \in queues[1].requests}
  /\ queues' = [queues EXCEPT ![1] = Reschedule([@ EXCEPT !.requests = {}])]
  /\ UNCHANGED <<etime, deadlines, alive, mode, called, cancelled, result>>

LazyBaseAnswers(r, res) == Answer(r, res) /\ UNCHANGED factory

LazyResponseReturns == ResponseReturned /\ UNCHANGED <<queues, base, factory>>

LazyLoopStep == LazyResponseReturns \/ (QueueTask /\ UNCHANGED factory)
LazySomeAnswer == FactoryAnswers \/ \E r \in base, res \in Results : LazyBaseAnswers(r, res)

LazyNext ==
  \/ \E timeout \in Timeouts : LazyHandleRequest(timeout)
  \/ LazySomeAnswer \/ LazyLoopStep
  \/ (Destroy \/ Advance) /\ UNCHANGED factory

-----------------------------------------------------------------------------
(* Requests wait only while the factory runs, and reach no base handler     *)
(* before it has answered.                                                  *)
LazyNoneForgotten ==
  /\ alive /\ Pending # {} => factory = "running"
  /\ base # {} => factory = "answered"
==============================================================================
