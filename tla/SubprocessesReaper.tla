-------------------------- MODULE SubprocessesReaper --------------------------
(***************************************************************************)
(* subprocesses_reaper: requests for the exit status of a process, in a    *)
(* queue that the watcher of SIGCHLD goes through; start_piped_command     *)
(* makes one for the process that it starts.                               *)
(***************************************************************************)
EXTENDS RequestHandling

CONSTANT Pids        \* the system gives them again after waitpid

ASSUME ReaperAssumption == Pids \subseteq Nat \ {0}

\* [state, started, signal, at, status, told, asked, misled]: of each pid, and
\* how many processes have had it; SIGCHLD is pending; the pid that is being
\* looked for, 0 for the next waitpid, and whose status it is; the loop has just
\* called a handler; what each request asks for; as history the requests that
\* got the status of another process.
children == own

ReaperInit ==
  /\ InitShared
  /\ children = [state |-> [p \in Pids |-> "free"], started |-> [p \in Pids |-> 0],
                 signal |-> FALSE, at |-> 0, status |-> 0, told |-> FALSE, misled |-> {},
                 asked |-> [n \in 1 .. MaxRequests |-> [pid |-> 0, nth |-> 0, there |-> FALSE]]]

\* Calls are made by tasks and response handlers.
CallMade(r) == Accept(r) /\ (mode = InReap => children.told) /\ Enqueue(1, r) /\ UNCHANGED base

Asks(now, pid) ==
  [now EXCEPT !.asked[Len(deadlines) + 1] =
     [pid |-> pid, nth |-> now.started[pid],
      there |-> now.state[pid] # "free" /\ ~(mode = InReap /\ now.at = pid)]]

\* fork, and the request for the status, without a timeout.  Whoever still
\* waits for a former process of that pid is taken for waiting for this one.
StartCommand(pid) ==
  LET r == Request(Never)
  IN  /\ children.state[pid] = "free"
      /\ CallMade(r)
      /\ children' = Asks([children EXCEPT !.state[pid] = "running", !.started[pid] = @ + 1], pid)

\* The bound leaves time for the timeout of requests that no process will answer.
ReaperHandleRequest(pid, timeout) ==
  LET r == Request(timeout)
  IN  /\ CallMade(r)
      /\ r.timeout_end <= MaxTime
      /\ children' = Asks(children, pid)

Exit(pid) ==
  /\ children.state[pid] = "running"
  /\ children' = [children EXCEPT !.state[pid] = "ended", !.signal = TRUE]
  /\ UNCHANGED shared_vars

\* signalfd is read once, for however many signals; then children are collected.
SignalNotified ==
  /\ mode = Idle
  /\ alive
  /\ children.signal
  /\ mode' = InReap
  /\ children' = [children EXCEPT !.signal = FALSE, !.at = 0]
  /\ UNCHANGED <<etime, deadlines, queues, base, alive, called, cancelled, result>>

Waitpid ==
  LET ended == {p \in Pids : children.state[p] = "ended"}
  IN  /\ mode = InReap
      /\ children.at = 0
      /\ \/ \E p \in ended :
              /\ children' = [children EXCEPT !.at = p, !.state[p] = "free",
                                       !.status = children.started[p], !.told = FALSE]
              /\ UNCHANGED mode
         \/ /\ ended = {}
            /\ mode' = Idle
            /\ UNCHANGED children
      /\ UNCHANGED <<etime, deadlines, queues, base, alive, called, cancelled, result>>

Matching == {r \in queues[1].requests : children.asked[r.id].pid = children.at}

StatusTold(r) ==
  [children EXCEPT !.told = TRUE,
     !.misled = IF children.asked[r.id].nth = children.status THEN @ ELSE @ \cup {r.id}]

\* pull_next_matching_request_to_consumer, until there is none.
PullMatching ==
  /\ mode = InReap
  /\ children.at # 0
  /\ \/ \E r \in Matching :
          /\ IsFirst(r, Matching)
          /\ queues' = [queues EXCEPT ![1] = PullRequest(@, r)]
          /\ result' = [id |-> r.id, res |-> "ok"]
          /\ children' = StatusTold(r)
     \/ /\ Matching = {}
        /\ children' = [children EXCEPT !.at = 0, !.told = FALSE]
        /\ UNCHANGED <<queues, result>>
  /\ UNCHANGED <<etime, deadlines, base, alive, mode, called, cancelled>>

ReaperTask ==
  /\ mode # InReap
  /\ QueueTask
  /\ UNCHANGED children

ReaperLoopStep == SignalNotified \/ Waitpid \/ PullMatching \/ ReaperTask
ReaperSomeAnswer == \E pid \in Pids : Exit(pid)

ReaperNext ==
  \/ \E pid \in Pids :
       StartCommand(pid) \/ \E timeout \in Timeouts : ReaperHandleRequest(pid, timeout)
  \/ ReaperSomeAnswer \/ ReaperLoopStep
  \/ (Destroy \/ Advance) /\ UNCHANGED children

-----------------------------------------------------------------------------
(* The status that a request gets is that of the process it was made for.   *)
(* Only one made when its process was gone can get that of a later process  *)
(* with the same pid, and only one made by a response handler in the loop   *)
(* that collects a pid that of the one before it, should the system give    *)
(* the pid again at once (subprocesses-reaper.cpp:23-46).                   *)
ReaperLimitKept == \A id \in children.misled : ~children.asked[id].there

(* While a process that has ended is not collected the signal is pending or *)
(* its handler runs; a request made while its process was there waits only  *)
(* for a process that is still there, or is just being looked for.          *)
ReaperNoneForgotten ==
  alive =>
    /\ \A p \in Pids : children.state[p] = "ended" => children.signal \/ mode = InReap
    /\ \A r \in queues[1].requests : children.asked[r.id].there =>
         \/ children.state[children.asked[r.id].pid] # "free"
         \/ mode = InReap /\ children.at = children.asked[r.id].pid
==============================================================================
