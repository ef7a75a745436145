----------------------- MODULE SequentialRequestHandler -----------------------
(***************************************************************************)
(* sequential_request_handler: one request at a time at the base handler;  *)
(* and multi_sequential_request_handler: a sequential handler for each key,*)
(* all with the same base handler, where queue i belongs to key i.         *)
(***************************************************************************)
EXTENDS RequestHandling

request_ongoing == own

SequentialInit == InitShared /\ request_ongoing = FALSE

SequentialHandleRequest(timeout) ==
  Admit(1, Request(timeout), request_ongoing) /\ request_ongoing' = TRUE

ReleasedFirst(r, res) ==                             \* mutant of SequentialBaseAnswers
  Answer(r, res) /\ request_ongoing' = FALSE
SequentialBaseAnswers(r, res) == Answer(r, res) /\ UNCHANGED request_ongoing

StaysOngoing ==                                      \* mutant of SequentialResponseReturns
  ResponseReturned /\ ForwardPending(1) /\ UNCHANGED request_ongoing

\* The client's response handler was called: the next request, if any, goes the
\* way of a new one.
SequentialResponseReturns ==
  /\ ResponseReturned
  /\ ForwardPending(1)
  /\ request_ongoing' = (IF alive THEN HasRequests(queues[1]) ELSE request_ongoing)

SequentialLoopStep == SequentialResponseReturns \/ (QueueTask /\ UNCHANGED request_ongoing)
SequentialSomeAnswer == \E r \in base, res \in Results : SequentialBaseAnswers(r, res)

SequentialNext ==
  \/ \E timeout \in Timeouts : SequentialHandleRequest(timeout)
  \/ SequentialSomeAnswer \/ SequentialLoopStep
  \/ (Destroy \/ Advance) /\ UNCHANGED request_ongoing

-----------------------------------------------------------------------------
ongoing == own               \* keys whose handler has request_ongoing set

Key(id) == (id % N) + 1      \* sequence_key_func

MultiSequentialInit == InitShared /\ ongoing = {}

\* A missing sub-handler is made, which then has nothing ongoing.
MultiSequentialHandleRequest(timeout) ==
  LET r == Request(timeout)
  IN  Admit(Key(r.id), r, Key(r.id) \in ongoing) /\ ongoing' = ongoing \cup {Key(r.id)}

MultiSequentialBaseAnswers(r, res) == Answer(r, res) /\ UNCHANGED ongoing

\* The sequential handler of the key goes on.
MultiSequentialResponseReturns ==
  LET key == Key(result.id)
  IN  /\ ResponseReturned
      /\ ForwardPending(key)
      /\ ongoing' = IF alive /\ ~HasRequests(queues[key]) THEN ongoing \ {key} ELSE ongoing

MultiSequentialLoopStep == MultiSequentialResponseReturns \/ (QueueTask /\ UNCHANGED ongoing)
MultiSequentialSomeAnswer == \E r \in base, res \in Results : MultiSequentialBaseAnswers(r, res)

MultiSequentialNext ==
  \/ \E timeout \in Timeouts : MultiSequentialHandleRequest(timeout)
  \/ MultiSequentialSomeAnswer \/ MultiSequentialLoopStep
  \/ (Destroy \/ Advance) /\ UNCHANGED ongoing

-----------------------------------------------------------------------------
(* At most one request is at the base handler, or being answered to its     *)
(* client: the next one is not forwarded before the client's response       *)
(* handler has returned, though that handler may make requests.             *)
SequentialLimitKept == InUse <= 1

(* No request waits for nothing: while the handler exists, one is pending   *)
(* only when another one is in use and will forward it.                     *)
OngoingWhileInUse(flag) == alive => flag = (InUse = 1) /\ (Pending # {} => InUse = 1)
SequentialNoneForgotten == OngoingWhileInUse(request_ongoing)

InUseOf(key) ==
  Cardinality({r \in base : Key(r.id) = key})
    + IF mode = InResponse /\ Key(result.id) = key THEN 1 ELSE 0

(* One request of a key at a time, however those of other keys come between.*)
MultiSequentialLimitKept == \A key \in Queues : InUseOf(key) <= 1

(* A request that comes while others of its key wait does not overtake them.*)
NoOvertakingOfKey ==
  \A r \in base' : r.id > Len(deadlines) => ~HasRequests(queues[Key(r.id)])

(* A request waits only behind one of its own key.                          *)
MultiSequentialNoneForgotten ==
  alive => \A key \in Queues :
    /\ key \in ongoing <=> InUseOf(key) = 1
    /\ HasRequests(queues[key]) => key \in ongoing
==============================================================================
