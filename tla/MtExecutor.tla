----------------------------- MODULE MtExecutor -----------------------------
(***************************************************************************)
(* What an executor of an event loop promises to the threads that use it   *)
(* (event-loop-mt-executor-provider.h: "executing tasks inside an event    *)
(* loop"): each task accepted is executed once by the loop, in the order   *)
(* of acceptance, and the loop keeps listening while someone can still     *)
(* hand it a task.  EventLoopMtExecutor and SyncQueueEventLoop are shown   *)
(* to implement it.                                                        *)
(***************************************************************************)
EXTENDS Naturals, Sequences

VARIABLES
  undone,      \* numbers of the tasks accepted and not yet started, in order
  accepted,    \* how many were accepted
  referenced,  \* someone holds the executor
  listening    \* the loop waits for tasks of the executor

vars == <<undone, accepted, referenced, listening>>

Init == undone = <<>> /\ accepted = 0 /\ listening = referenced

Acquire ==
  /\ referenced' = TRUE
  /\ listening' = TRUE
  /\ UNCHANGED <<undone, accepted>>

Accept ==
  /\ referenced
  /\ accepted' = accepted + 1
  /\ undone' = Append(undone, accepted + 1)
  /\ UNCHANGED <<referenced, listening>>

Execute ==
  /\ undone # <<>>
  /\ undone' = Tail(undone)
  /\ UNCHANGED <<accepted, referenced, listening>>

Release ==
  /\ referenced' = FALSE
  /\ UNCHANGED <<undone, accepted, listening>>

StopListening ==
  /\ ~referenced
  /\ listening' = FALSE
  /\ UNCHANGED <<undone, accepted, referenced>>

Next == Acquire \/ Accept \/ Execute \/ Release \/ StopListening

Spec == Init /\ referenced \in BOOLEAN /\ [][Next]_vars
==============================================================================
