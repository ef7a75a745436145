------------------------ MODULE RequestHandlerSemaphore ------------------------
(***************************************************************************)
(* request_handler_semaphore, used through semaphore-protected handlers.   *)
(* A request whose own handler is gone when its turn comes is answered in  *)
(* a later task with an error: it is in base like the others.              *)
(***************************************************************************)
EXTENDS RequestHandling

CONSTANT InitValue       \* of the semaphore

ASSUME SemaphoreAssumption == InitValue \in Nat

sem_value == own

SemaphoreInit == InitShared /\ sem_value = InitValue

\* handle_request_with_acquired_semaphore
SemaphoreHandleRequest(timeout) ==
  /\ Admit(1, Request(timeout), sem_value = 0)
  /\ sem_value' = IF sem_value = 0 THEN sem_value ELSE sem_value - 1

SemaphoreBaseAnswers(r, res) == Answer(r, res) /\ UNCHANGED sem_value

ReleaseOnly ==                                       \* mutant of SemaphoreResponseReturns
  /\ ResponseReturned
  /\ sem_value' = (IF alive THEN sem_value + 1 ELSE sem_value)
  /\ UNCHANGED <<queues, base>>

\* handle_release, after the client's response handler was called.
SemaphoreResponseReturns ==
  /\ ResponseReturned
  /\ ForwardPending(1)
  /\ sem_value' = IF alive /\ ~HasRequests(queues[1]) THEN sem_value + 1 ELSE sem_value

SemaphoreLoopStep == SemaphoreResponseReturns \/ (QueueTask /\ UNCHANGED sem_value)
SemaphoreSomeAnswer == \E r \in base, res \in Results : SemaphoreBaseAnswers(r, res)

SemaphoreNext ==
  \/ \E timeout \in Timeouts : SemaphoreHandleRequest(timeout)
  \/ SemaphoreSomeAnswer \/ SemaphoreLoopStep
  \/ (Destroy \/ Advance) /\ UNCHANGED sem_value

-----------------------------------------------------------------------------
(* The semaphore is held by at most InitValue requests, each from before it *)
(* is forwarded until its response handler has returned                     *)
(* (request-handler-semaphore.h:24-26).                                     *)
SemaphoreLimitKept == InUse <= InitValue

(* The value counts what is free, and requests wait only for a semaphore    *)
(* that is used up.                                                         *)
SemaphoreNoneForgotten ==
  alive => sem_value = InitValue - InUse /\ (Pending # {} => InUse = InitValue)
==============================================================================
