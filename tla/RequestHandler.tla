---------------------------- MODULE RequestHandler ----------------------------
(***************************************************************************)
(* The contract of request_handler (request-handler.h): each request is    *)
(* answered exactly once, asynchronously, and told that it timed out only  *)
(* when its time has passed.  A handler that serves a group of requests    *)
(* with copies of one result may give the others, in the task that answers *)
(* the first of them, what that one got, a timeout of it included.  The    *)
(* handlers that queue requests are shown to implement it.                 *)
(***************************************************************************)
EXTENDS Naturals, Sequences

CONSTANT Times      \* the time points that occur

VARIABLES
  etime,
  deadlines,   \* of the requests made, which are numbered by this sequence
  open,        \* numbers of the requests not answered yet
  result,      \* the last answer: [id, res]
  copies       \* of the open ones, those that are to get copies of it at once

vars == <<etime, deadlines, open, result, copies>>

Init == deadlines = <<>> /\ open = {} /\ copies = {}

\* handle_request(request, timeout, response_handler): no answer in this step.
HandleRequest ==
  /\ \E t \in Times : t >= etime /\ deadlines' = Append(deadlines, t)
  /\ open' = open \cup {Len(deadlines) + 1}
  /\ UNCHANGED <<etime, result, copies>>

\* A request is answered, for which nothing but its own time counts.
Answer ==
  /\ copies = {}
  /\ \E n \in open :
       /\ open' = open \ {n}
       /\ result'.id = n
       /\ result'.res = "timed out" => deadlines[n] <= etime
  /\ copies' \subseteq open'
  /\ UNCHANGED <<etime, deadlines>>

AnswerCopy ==
  /\ \E n \in copies \cap open :
       /\ open' = open \ {n}
       /\ copies' = copies \ {n}
       /\ result' = [id |-> n, res |-> result.res]
  /\ UNCHANGED <<etime, deadlines>>

Advance ==
  /\ copies = {}
  /\ etime' > etime
  /\ UNCHANGED <<deadlines, open, result, copies>>

Next == HandleRequest \/ Answer \/ AnswerCopy \/ Advance

Spec == Init /\ [][Next]_vars
==============================================================================
