--------------------------- MODULE MCRequestHandlers ---------------------------
(***************************************************************************)
(* The handlers that EXTEND RequestHandling, for model checking and proof: *)
(* the initial state chooses the class.                                    *)
(***************************************************************************)
EXTENDS SequentialRequestHandler, RequestHandlerSemaphore, PrioritizingRequestHandler,
        GroupingRequestHandler, ForwardingRequestHandlers,
        ThrottlingRequestHandler, RequestIterations, InputMessagesDispatchHandler,
        FdBytesWriter, SocketConnections, SubprocessesReaper, ThreadedRequestHandler,
        IoLinesRequestHandler

CONSTANTS
  Kinds,         \* the classes to check
  Small          \* of these, those that two requests show all about

\* The dispatcher of messages has two queues.
ASSUME KindsAssumption == "dispatch" \in Kinds => N >= 2

vars == <<shared_vars, own, kind>>

Init ==
  /\ kind \in Kinds
  /\ \/ kind = "sequential" /\ SequentialInit
     \/ kind = "semaphore" /\ SemaphoreInit
     \/ kind = "prioritizing" /\ PrioritizingInit
     \/ kind = "grouping" /\ GroupingInit
     \/ kind = "lazy_init" /\ LazyInit
     \/ kind = "multi_sequential" /\ MultiSequentialInit
     \/ kind = "forwarding" /\ ForwardingInit
     \/ kind = "throttling" /\ ThrottlingInit
     \/ kind = "iterations" /\ IterationsInit
     \/ kind = "dispatch" /\ DispatchInit
     \/ kind = "fd_writer" /\ FdWriterInit
     \/ kind = "connections" /\ ConnectionsInit
     \/ kind = "reaper" /\ ReaperInit
     \/ kind = "threaded" /\ ThreadedInit
     \/ kind = "io_lines" /\ IoLinesInit

Next ==
  /\ \/ kind = "sequential" /\ SequentialNext
     \/ kind = "semaphore" /\ SemaphoreNext
     \/ kind = "prioritizing" /\ PrioritizingNext
     \/ kind = "grouping" /\ GroupingNext
     \/ kind = "lazy_init" /\ LazyNext
     \/ kind = "multi_sequential" /\ MultiSequentialNext
     \/ kind = "forwarding" /\ ForwardingNext
     \/ kind = "throttling" /\ ThrottlingNext
     \/ kind = "iterations" /\ IterationsNext
     \/ kind = "dispatch" /\ DispatchNext
     \/ kind = "fd_writer" /\ FdWriterNext
     \/ kind = "connections" /\ ConnectionsNext
     \/ kind = "reaper" /\ ReaperNext
     \/ kind = "threaded" /\ ThreadedNext
     \/ kind = "io_lines" /\ IoLinesNext
  /\ kind \in Small => Len(deadlines') <= 2
  /\ UNCHANGED kind

Spec == Init /\ [][Next]_vars

LoopStep ==
  /\ \/ kind = "sequential" /\ SequentialLoopStep
     \/ kind = "semaphore" /\ SemaphoreLoopStep
     \/ kind = "prioritizing" /\ PrioritizingLoopStep
     \/ kind = "grouping" /\ GroupingLoopStep
     \/ kind = "lazy_init" /\ LazyLoopStep
     \/ kind = "multi_sequential" /\ MultiSequentialLoopStep
     \/ kind = "forwarding" /\ ForwardingLoopStep
     \/ kind = "throttling" /\ ThrottlingLoopStep
     \/ kind = "iterations" /\ IterationsLoopStep
     \/ kind = "dispatch" /\ DispatchLoopStep
     \/ kind = "fd_writer" /\ FdWriterLoopStep
     \/ kind = "connections" /\ ConnectionsLoopStep
     \/ kind = "reaper" /\ ReaperLoopStep
     \/ kind = "threaded" /\ ThreadedLoopStep
     \/ kind = "io_lines" /\ IoLinesLoopStep
  /\ UNCHANGED kind

SomeAnswer ==
  /\ \/ kind = "sequential" /\ SequentialSomeAnswer
     \/ kind = "semaphore" /\ SemaphoreSomeAnswer
     \/ kind = "prioritizing" /\ PrioritizingSomeAnswer
     \/ kind = "grouping" /\ GroupingSomeAnswer
     \/ kind = "lazy_init" /\ LazySomeAnswer
     \/ kind = "multi_sequential" /\ MultiSequentialSomeAnswer
     \/ kind = "forwarding" /\ ForwardingSomeAnswer
     \/ kind = "throttling" /\ ThrottlingSomeAnswer
     \/ kind = "iterations" /\ IterationsSomeAnswer
     \/ kind = "dispatch" /\ DispatchSomeAnswer
     \/ kind = "fd_writer" /\ FdWriterSomeAnswer
     \/ kind = "connections" /\ ConnectionsSomeAnswer
     \/ kind = "reaper" /\ ReaperSomeAnswer
     \/ kind = "threaded" /\ ThreadedSomeAnswer
     \/ kind = "io_lines" /\ IoLinesSomeAnswer
  /\ UNCHANGED kind

Time ==
  /\ IF kind = "throttling" THEN OnTime ELSE Advance
  /\ UNCHANGED <<kind, own>>

\* Response handlers return, the loop runs its tasks, the base handler answers
\* and time passes.
FairSpec == Spec /\ WF_vars(LoopStep) /\ WF_vars(SomeAnswer) /\ WF_vars(Time)

-----------------------------------------------------------------------------
(* LimitKept of the class: sequential-request-handler-impl.h:46-63,         *)
(* request-handler-semaphore-impl.h:44-57.                                  *)
LimitKept ==
  /\ kind = "sequential" => SequentialLimitKept
  /\ kind = "semaphore" => SemaphoreLimitKept
  /\ kind = "grouping" => GroupingLimitKept
  /\ kind = "multi_sequential" => MultiSequentialLimitKept
  /\ kind = "forwarding" => ForwardingLimitKept
  /\ kind = "throttling" => ThrottlingLimitKept
  /\ kind = "iterations" => IterationsLimitKept
  /\ kind = "fd_writer" => FdWriterLimitKept
  /\ kind = "connections" => ConnectionsLimitKept
  /\ kind = "reaper" => ReaperLimitKept

(* NoneForgotten of the class: response handlers that make requests, and    *)
(* timeouts in between, leave no request behind; and pending ones will be    *)
(* told of their timeouts.                                                   *)
NoneForgotten ==
  /\ TimeoutTasksCover
  /\ kind = "sequential" => SequentialNoneForgotten
  /\ kind = "semaphore" => SemaphoreNoneForgotten
  /\ kind = "prioritizing" => PrioritizingNoneForgotten
  /\ kind = "grouping" => GroupingNoneForgotten
  /\ kind = "lazy_init" => LazyNoneForgotten
  /\ kind = "multi_sequential" => MultiSequentialNoneForgotten
  /\ kind = "throttling" => ThrottlingNoneForgotten
  /\ kind = "dispatch" => DispatchNoneForgotten
  /\ kind = "fd_writer" => FdWriterNoneForgotten
  /\ kind = "connections" => ConnectionsNoneForgotten
  /\ kind = "reaper" => ReaperNoneForgotten
  /\ kind = "threaded" => ThreadedNoneForgotten
  /\ kind = "io_lines" => IoLinesNoneForgotten

\* What a new request may go ahead of.
NewcomersWait ==
  /\ kind = "multi_sequential" => NoOvertakingOfKey
  /\ kind # "multi_sequential" => NoOvertaking \/ (kind = "prioritizing" /\ mode = InResponse)

(* Pending requests are forwarded in the order in which they came, those of *)
(* a higher priority first, and a new request goes ahead of none of them:    *)
(* of multi_sequential, of none of its key.  The prioritizer keeps that but  *)
(* in one place, the call of a client's response handler: its flag has       *)
(* fallen, and what is pending is forwarded only after it                    *)
(* (prioritizing-request-handler-impl.h:82-84).  A request that the handler  *)
(* makes overtakes pending ones of the same proxy, too, which is not what    *)
(* prioritizing-request-handler.h:27 says: "requests from single proxy are   *)
(* processed in the order of receipt".                                       *)
ServedInOrder ==
  [][/\ FirstComeFirstServed
     /\ kind # "multi_sequential" => UrgentFirst
     /\ NewcomersWait]_vars

(* What prioritizing-request-handler.h:24-25 says: "only one request is     *)
(* processed at a time".                                                    *)
OneAtATime == kind = "prioritizing" => PrioritizingOneAtATime
==============================================================================
