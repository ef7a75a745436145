------------------------- MODULE IoLinesRequestHandler -------------------------
(***************************************************************************)
(* io_lines_request_handler: each request is a line that a chunks writer   *)
(* writes and, under the same id, a request of a dispatcher of the lines   *)
(* that come back; both keep the contract of request_handler and end in    *)
(* any order.                                                              *)
(***************************************************************************)
EXTENDS RequestHandling

CONSTANT IoFaults    \* responses may time out, fail or be cancelled

\* Of each request [resp, req, told]: what the dispatcher and the writer are up
\* to, "waiting", "saved" or "ended", and whether the client was answered.
contexts == own

IoLinesInit == InitShared /\ contexts = <<>>

IoLinesHandleRequest(timeout) ==
  /\ timeout = Never \/ IoFaults
  /\ PassOn(Request(timeout))
  /\ \/ contexts' = Append(contexts, [resp |-> "waiting", req |-> "waiting", told |-> FALSE])
     \/ contexts' = Append(contexts, [resp |-> "ended", req |-> "ended", told |-> FALSE])

\* Data with a '\n' is refused in a task; the line was not sent.
LineRefused(r) ==
  LET ctx == contexts[r.id]
  IN  /\ ctx.resp = "ended" /\ ctx.req = "ended" /\ ~ctx.told
      /\ Answer(r, "error")
      /\ contexts' = [contexts EXCEPT ![r.id].told = TRUE]

\* call_res_handler
Told(r, res) ==
  /\ Answer(r, res)
  /\ contexts' = [contexts EXCEPT ![r.id] = [resp |-> "ended", req |-> "ended", told |-> TRUE]]

Saved(r, field) ==
  /\ mode = Idle
  /\ contexts' = [contexts EXCEPT ![r.id] = [@ EXCEPT ![field] = "saved"]]
  /\ UNCHANGED shared_vars

\* A line with the id of the request.  The line that was written is not waited
\* for when its write has failed.
ResponseRead(id) ==
  /\ contexts[id].resp = "waiting"
  /\ \/ contexts[id].req = "saved" /\ \E r \in base : r.id = id /\ Told(r, "ok")
     \/ contexts[id].req = "waiting" /\ \E r \in base : r.id = id /\ Saved(r, "resp")
     \/ /\ contexts[id].req = "ended"
        /\ mode = Idle
        /\ contexts' = [contexts EXCEPT ![id].resp = "ended"]
        /\ UNCHANGED shared_vars

\* resp_res.get_value() throws when the result holds an error.
ResponseFails(id) ==
  /\ IoFaults
  /\ mode = Idle
  /\ contexts[id].resp = "waiting"
  /\ mode' = Thrown
  /\ UNCHANGED <<etime, deadlines, queues, base, alive, called, cancelled, result, contexts>>

LineWritten(r) ==
  /\ contexts[r.id].req = "waiting"
  /\ \/ contexts[r.id].resp = "saved" /\ Told(r, "ok")
     \/ contexts[r.id].resp = "waiting" /\ Saved(r, "req")

\* The dispatcher's request goes on.
LineWriteFails(r) ==
  /\ contexts[r.id].req = "waiting"
  /\ Answer(r, "error")
  /\ contexts' = [contexts EXCEPT ![r.id].req = "ended", ![r.id].told = TRUE]

IoLinesResponseReturns == ResponseReturned /\ UNCHANGED <<queues, base, contexts>>

IoLinesLoopStep == IoLinesResponseReturns \/ \E r \in base : LineRefused(r)
IoLinesSomeAnswer ==
  \/ \E r \in base : LineWritten(r) \/ LineWriteFails(r)
  \/ \E id \in DOMAIN contexts : ResponseRead(id) \/ ResponseFails(id)

IoLinesNext ==
  \/ \E timeout \in Timeouts : IoLinesHandleRequest(timeout)
  \/ IoLinesSomeAnswer \/ IoLinesLoopStep
  \/ Advance /\ UNCHANGED contexts

-----------------------------------------------------------------------------
(* A client is told of a response only when both its line is written and    *)
(* the response is there (io-lines-request-handler.cpp:141-164).            *)
IoLinesNoneForgotten ==
  \A id \in DOMAIN contexts :
    /\ contexts[id].told <=> id \notin IdsOf(base)
    /\ ~(contexts[id].resp = "saved" /\ contexts[id].req = "saved")
    /\ ~contexts[id].told => contexts[id].resp # "ended" \/ contexts[id].req = "ended"
==============================================================================
