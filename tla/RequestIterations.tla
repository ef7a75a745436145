--------------------------- MODULE RequestIterations ---------------------------
(***************************************************************************)
(* Calls that make several requests of one handler, the next one when the  *)
(* one before was answered: handle_requests_sequentially, which collects   *)
(* the responses, and the results stream fetcher, which hands them out.    *)
(* A call counts as a request, whose entry in base is the request that the *)
(* call waits for, or the task that will answer an empty rest.             *)
(***************************************************************************)
EXTENDS RequestHandling, SequencesExt

CONSTANTS
  MaxCalls,               \* bound on the calls
  MaxElements             \* bound on the requests of a call

ASSUME IterationsAssumption == MaxElements \in Nat

calls == own            \* of each call [kind, timeout, left, got, vector]

None == <<-1>>            \* no results yet

IterationsInit == InitShared /\ calls = <<>>

\* The first element's request, or the task for none, is made at once.
HandleRequestsSequentially(timeout) ==
  /\ Len(calls) < MaxCalls
  /\ PassOn(Request(timeout))
  /\ \E n \in 0 .. MaxElements :
       calls' = Append(calls, [kind |-> "vector", timeout |-> timeout, left |-> n,
                               got |-> <<>>, vector |-> None])

\* fetch_next_result waits without a limit.
FetchResults ==
  /\ Len(calls) < MaxCalls
  /\ PassOn(Request(Never))
  /\ calls' = Append(calls, [kind |-> "stream", timeout |-> Never, left |-> MaxElements,
                             got |-> <<>>, vector |-> None])

\* The transformations of the result append their values from the last element's
\* to the first's, and the outermost one reverses what they have collected.
Collected(got) == [i \in 1 .. Len(got) |-> got[Len(got) + 1 - i]]
ResultVector(got) == Reverse(Collected(got))

Renewed(r) == [r EXCEPT !.timeout_end = SatAdd(etime, calls[r.id].timeout, Never)]

\* An element is answered with a value, its position: the next one is
\* requested with the same timeout, or the rest is empty.
ElementAnswered(r) ==
  LET call == calls[r.id]
  IN  /\ mode = Idle
      /\ call.kind = "vector"
      /\ call.left > 0
      /\ base' = (base \ {r}) \cup {Renewed(r)}
      /\ calls' = [calls EXCEPT ![r.id].left = @ - 1,
                                ![r.id].got = Append(@, Len(@) + 1)]
      /\ UNCHANGED <<etime, deadlines, queues, alive, mode, called, cancelled, result>>

\* An error ends the call in the same task.
ElementFails(r, res) ==
  /\ calls[r.id].kind = "vector"
  /\ calls[r.id].left > 0
  /\ res # "ok"
  /\ Answer(r, res)
  /\ calls' = [calls EXCEPT ![r.id].left = 0]

\* The task of the empty rest.
RestAnswered(r) ==
  /\ calls[r.id].kind = "vector"
  /\ calls[r.id].left = 0
  /\ Answer(r, "ok")
  /\ calls' = [calls EXCEPT ![r.id].vector = ResultVector(calls[r.id].got)]

\* A result of the stream: its handler says whether to go on, unless the
\* fetcher is gone; the bound makes it stop some time.
ResultFetched(r, res) ==
  LET call == calls[r.id]
  IN  /\ call.kind = "stream"
      /\ \/ /\ alive
            /\ call.left > 0
            /\ mode = Idle
            /\ calls' = [calls EXCEPT ![r.id].left = @ - 1, ![r.id].got = Append(@, Len(@) + 1)]
            /\ UNCHANGED shared_vars
         \/ /\ Answer(r, res)
            /\ calls' = [calls EXCEPT ![r.id].left = 0]

IterationsResponseReturns == ResponseReturned /\ UNCHANGED <<queues, base, calls>>

IterationsLoopStep == IterationsResponseReturns \/ \E r \in base : RestAnswered(r)
IterationsSomeAnswer ==
  \E r \in base :
    \/ ElementAnswered(r)
    \/ \E res \in Results : ElementFails(r, res) \/ ResultFetched(r, res)

IterationsNext ==
  \/ \E timeout \in Timeouts : HandleRequestsSequentially(timeout)
  \/ FetchResults
  \/ IterationsSomeAnswer \/ IterationsLoopStep
  \/ (Destroy \/ Advance) /\ UNCHANGED calls

-----------------------------------------------------------------------------
(* The vector of results has the responses in the order of the requests,    *)
(* one for each.                                                            *)
IterationsLimitKept ==
  \A n \in DOMAIN calls : calls[n].vector # None =>
    calls[n].vector = [e \in 1 .. Len(calls[n].got) |-> e]
==============================================================================
