---------------------- MODULE PrioritizingRequestHandler ----------------------
(***************************************************************************)
(* requests_prioritizer: N input handlers of falling priority before one   *)
(* base handler.  Its functions at the base handler own it.                *)
(***************************************************************************)
EXTENDS RequestHandling

request_handling_ongoing == own

PrioritizingInit == InitShared /\ request_handling_ongoing = FALSE

PrioritizingHandleRequest(i, timeout) ==
  Admit(i, Request(timeout), request_handling_ongoing) /\ request_handling_ongoing' = TRUE

\* The flag falls before the client's response handler is called ...
PrioritizingBaseAnswers(r, res) == Answer(r, res) /\ request_handling_ongoing' = FALSE

FirstPending(i) ==
  HasRequests(queues[i]) /\ \A j \in 1 .. i - 1 : ~HasRequests(queues[j])

\* ... and what is pending is forwarded after it, whatever the flag is then.
PrioritizingResponseReturns ==
  /\ ResponseReturned
  /\ IF \E i \in Queues : HasRequests(queues[i])
     THEN /\ \E i \in Queues : FirstPending(i) /\ ForwardNext(i)
          /\ request_handling_ongoing' = TRUE
     ELSE UNCHANGED <<queues, base, request_handling_ongoing>>

PrioritizingLoopStep ==
  PrioritizingResponseReturns \/ (QueueTask /\ UNCHANGED request_handling_ongoing)
PrioritizingSomeAnswer == \E r \in base, res \in Results : PrioritizingBaseAnswers(r, res)

PrioritizingNext ==
  \/ \E i \in Queues, timeout \in Timeouts : PrioritizingHandleRequest(i, timeout)
  \/ PrioritizingSomeAnswer \/ PrioritizingLoopStep
  \/ Advance /\ UNCHANGED request_handling_ongoing

-----------------------------------------------------------------------------
(* What prioritizing-request-handler.h:24-25 says: "only one request is     *)
(* processed at a time".                                                    *)
PrioritizingOneAtATime == Cardinality(base) <= 1

(* No request waits for nothing: one is pending only while another one is   *)
(* in use and will forward it.                                              *)
PrioritizingNoneForgotten == Pending # {} => InUse > 0
==============================================================================
