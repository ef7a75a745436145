------------------------ MODULE GroupingRequestHandler ------------------------
(***************************************************************************)
(* grouping_null_request_handler: the requests that come while one is at   *)
(* the base handler are all answered with copies of its result, whatever   *)
(* it is: of a timeout of that request they are told before their own.     *)
(***************************************************************************)
EXTENDS RequestHandling

grouping_ongoing == own

GroupingInit == InitShared /\ grouping_ongoing = FALSE

GroupingHandleRequest(timeout) ==
  Admit(1, Request(timeout), grouping_ongoing) /\ grouping_ongoing' = TRUE

\* The group is taken from the queue, and the flag falls, before the first
\* response handler is called: its requests start the next group.
GroupingBaseAnswers(r, res) ==
  /\ mode = Idle
  /\ res = "timed out" => r.timeout_end <= etime
  /\ base' = base \ {r}
  /\ mode' = InResponse
  /\ result' = [id |-> r.id, res |-> res]
  /\ called' = queues[1].requests
  /\ queues' = [queues EXCEPT ![1] = Reschedule([@ EXCEPT !.requests = {}])]
  /\ grouping_ongoing' = FALSE
  /\ UNCHANGED <<etime, deadlines, alive, cancelled>>

\* Each is called with res as it is.
NextOfGroup ==
  /\ mode = InResponse
  /\ CallFirst(called, result.res, InResponse)
  /\ UNCHANGED <<etime, deadlines, queues, base, alive, cancelled, grouping_ongoing>>

GroupDone ==
  called = {} /\ ResponseReturned /\ UNCHANGED <<queues, base, grouping_ongoing>>

GroupingLoopStep == NextOfGroup \/ GroupDone \/ (QueueTask /\ UNCHANGED grouping_ongoing)
GroupingSomeAnswer == \E r \in base, res \in Results : GroupingBaseAnswers(r, res)

GroupingNext ==
  \/ \E timeout \in Timeouts : GroupingHandleRequest(timeout)
  \/ GroupingSomeAnswer \/ GroupingLoopStep
  \/ (Destroy \/ Advance) /\ UNCHANGED grouping_ongoing

-----------------------------------------------------------------------------
(* One request of a group is at the base handler.                          *)
GroupingLimitKept == Cardinality(base) <= 1

(* Requests wait only for the answer of the one that is at the base.       *)
GroupingNoneForgotten ==
  alive => grouping_ongoing = (base # {}) /\ (Pending # {} => base # {})
==============================================================================
