--------------------- MODULE InputMessagesDispatchHandler ---------------------
(***************************************************************************)
(* input_messages_dispatch_handler: requests for messages by their id, that *)
(* one reader of messages delivers in any order.  Queue 1 holds            *)
(* pending_requests, queue 2 new_pending_requests, those that came while a *)
(* message was being read.                                                 *)
(***************************************************************************)
EXTENDS RequestHandling

reading == own     \* {timeout end} of the ongoing read, {} without one

DispatchInit == InitShared /\ reading = {}

Ids == {0, 1}
MsgId(r) == r.id % 2       \* requests share ids
NobodysId == 2             \* of messages not waited for, or that do not decode

\* read_next_message_if_needed without an ongoing read: the timeout is the
\* least of what is left for the pending requests.
NextRead(q) ==
  {IF t > etime THEN t ELSE etime : t \in Earliest(q.requests)}

\* The bound leaves time for each request to time out.
DispatchHandleRequest(timeout) ==
  LET r == Request(timeout)
  IN  /\ Accept(r)
      /\ r.timeout_end <= MaxTime
      /\ IF reading = {}
         THEN /\ Enqueue(1, r)
              /\ reading' = NextRead(PushRequest(queues[1], r))
         ELSE Enqueue(2, r) /\ UNCHANGED reading
      /\ UNCHANGED base

\* All of new_pending_requests are pushed to pending_requests, in order.
Merged ==
  [queues[1] EXCEPT !.requests = @ \cup {Forwarded(r) : r \in queues[2].requests}]

\* The read has ended: the first of the candidates is pulled and answered, or
\* without one the next message is read.
Dispatch(candidates, res) ==
  /\ mode = Idle
  /\ alive
  /\ reading # {}
  /\ IF candidates = {}
     THEN /\ queues' = [queues EXCEPT ![1] = Reschedule(Merged), ![2] = NewRequestsQueue]
          /\ reading' = NextRead(Merged)
          /\ UNCHANGED <<mode, result>>
     ELSE \E r \in candidates :
            /\ IsFirst(r, candidates)
            /\ queues' = [queues EXCEPT ![1] = PullRequest(Merged, r), ![2] = NewRequestsQueue]
            /\ reading' = {}
            /\ mode' = InResponse
            /\ result' = [id |-> r.id, res |-> res]
  /\ UNCHANGED <<etime, deadlines, base, alive, called, cancelled>>

MessageRead(id) == Dispatch({r \in Merged.requests : MsgId(r) = id}, "ok")

ReadTimesOut == (\A t \in reading : t <= etime) /\ Dispatch({}, "timed out")

ReadFails == Dispatch(Merged.requests, "error")

\* The handler is gone when the read ends.
ReadIgnored ==
  /\ mode = Idle
  /\ ~alive
  /\ reading # {}
  /\ reading' = {}
  /\ UNCHANGED shared_vars

\* Requests made by the client's response handler may have started the read.
DispatchResponseReturns ==
  /\ ResponseReturned
  /\ reading' = IF alive /\ reading = {} THEN NextRead(queues[1]) ELSE reading
  /\ UNCHANGED <<queues, base>>

DispatchLoopStep == DispatchResponseReturns \/ (QueueTask /\ UNCHANGED reading)
DispatchSomeAnswer ==
  \/ \E id \in Ids \cup {NobodysId} : MessageRead(id)
  \/ ReadTimesOut \/ ReadFails \/ ReadIgnored

DispatchNext ==
  \/ \E timeout \in Timeouts : DispatchHandleRequest(timeout)
  \/ DispatchSomeAnswer \/ DispatchLoopStep
  \/ (Destroy \/ Advance) /\ UNCHANGED reading

-----------------------------------------------------------------------------
(* While requests are pending a message is being read, with a timeout that  *)
(* does not outlast any request that was there when the read began; those   *)
(* that came later wait in the second queue, which is empty between reads.  *)
DispatchNoneForgotten ==
  alive /\ mode # InResponse =>
    /\ Pending # {} => reading # {}
    /\ \A r \in queues[1].requests, t \in reading : t <= r.timeout_end \/ t <= etime
    /\ HasRequests(queues[2]) => reading # {}
==============================================================================
