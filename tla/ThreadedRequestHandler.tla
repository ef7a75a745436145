------------------------- MODULE ThreadedRequestHandler -------------------------
(***************************************************************************)
(* threaded_request_handler, and threaded_bytes_writer made of it: requests*)
(* are handled by a function in some thread, the responses are called in   *)
(* tasks that the threads push with the event loop's MT executor.          *)
(***************************************************************************)
EXTENDS RequestHandling, SequencesExt

posted == own      \* tasks of the MT executor: [req, res]

ThreadedInit == InitShared /\ posted = <<>>

\* base has the requests whose jobs wait, run or have posted their response.
ThreadedHandleRequest(timeout) == PassOn(Request(timeout)) /\ UNCHANGED posted

IsPosted(r) == \E n \in DOMAIN posted : posted[n].req = r

\* In a thread: sync_req_handler returns a result, or throws.
JobEnds(r, res) ==
  /\ ~IsPosted(r)
  /\ res = "timed out" => r.timeout_end <= etime
  /\ posted' = Append(posted, [req |-> r, res |-> res])
  /\ UNCHANGED shared_vars

ResponseTask ==
  /\ posted # <<>>
  /\ Answer(Head(posted).req, Head(posted).res)
  /\ posted' = Tail(posted)

ThreadedResponseReturns == ResponseReturned /\ UNCHANGED <<queues, base, posted>>

ThreadedLoopStep == ThreadedResponseReturns \/ ResponseTask
ThreadedSomeAnswer == \E r \in base, res \in {"ok", "timed out", "owner dead"} : JobEnds(r, res)

ThreadedNext ==
  \/ \E timeout \in Timeouts : ThreadedHandleRequest(timeout)
  \/ ThreadedSomeAnswer \/ ThreadedLoopStep
  \/ (Destroy \/ Advance) /\ UNCHANGED posted

-----------------------------------------------------------------------------
(* A response is on its way once, and only for a request that waits for it, *)
(* also when the handler is gone (threaded-request-handler-impl.h:70-89).   *)
ThreadedNoneForgotten ==
  /\ IsInjective([n \in DOMAIN posted |-> posted[n].req.id])
  /\ \A n \in DOMAIN posted : posted[n].req \in base
==============================================================================
