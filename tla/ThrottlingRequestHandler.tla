----------------------- MODULE ThrottlingRequestHandler -----------------------
(***************************************************************************)
(* throttling_request_handler: requests are passed on no faster than one   *)
(* in Distance.  One that comes too early goes through handle_request      *)
(* again in a task, with the timeout that it came with.                    *)
(***************************************************************************)
EXTENDS RequestHandling

CONSTANT Distance    \* min_req_time_distance

ASSUME ThrottlingAssumption == Distance \in Nat

\* [allowed, tasks, passed]: min_allowed_req_time, tasks that handle a request
\* again, times when one was passed on.
throttle == own

ThrottlingInit == InitShared /\ throttle = [allowed |-> 0, tasks |-> <<>>, passed |-> <<>>]

\* What handle_request does with an entry [id, timeout], the new or retried.
Pass(entry, tasks) ==
  [allowed |-> etime + Distance, tasks |-> tasks, passed |-> Append(throttle.passed, etime)]
Postpone(entry, tasks) ==
  [throttle EXCEPT !.tasks = Append(tasks, [entry EXCEPT !.time = throttle.allowed])]

Handled(entry, tasks) ==
  IF etime >= throttle.allowed THEN Pass(entry, tasks) ELSE Postpone(entry, tasks)

\* The bound leaves time for all that wait.
ThrottlingHandleRequest(timeout) ==
  LET r == Request(timeout)
  IN  /\ PassOn(r)
      /\ throttle.allowed + Len(throttle.tasks) * Distance <= MaxTime
      /\ throttle' = Handled([id |-> r.id, timeout |-> timeout, time |-> etime], throttle.tasks)

Waiting == {throttle.tasks[n].id : n \in DOMAIN throttle.tasks}

\* The task that is due first, of those of one time the oldest.
RetryTask ==
  \E n \in DOMAIN throttle.tasks :
    LET entry == throttle.tasks[n]
        others == [m \in 1 .. Len(throttle.tasks) - 1 |-> throttle.tasks[IF m < n THEN m ELSE m + 1]]
    IN  /\ mode = Idle
        /\ entry.time <= etime
        /\ \A m \in DOMAIN throttle.tasks :
             m < n => throttle.tasks[m].time > entry.time
        /\ \A m \in DOMAIN throttle.tasks : throttle.tasks[m].time >= entry.time
        /\ throttle' = Handled(entry, others)
        /\ base' = IF etime >= throttle.allowed
                   THEN {IF r.id = entry.id
                         THEN [r EXCEPT !.timeout_end = SatAdd(etime, entry.timeout, Never)]
                         ELSE r : r \in base}
                   ELSE base
        /\ UNCHANGED <<etime, deadlines, queues, alive, mode, called, cancelled, result>>

ThrottlingBaseAnswers(r, res) == r.id \notin Waiting /\ Answer(r, res) /\ UNCHANGED throttle

ThrottlingResponseReturns == ResponseReturned /\ UNCHANGED <<queues, base, throttle>>

\* Tasks that are due run first: with what ThrottlingHandleRequest leaves, the
\* time that MaxTime bounds is enough for all.
OnTime == (\A n \in DOMAIN throttle.tasks : throttle.tasks[n].time > etime) /\ Advance

ThrottlingLoopStep == ThrottlingResponseReturns \/ RetryTask
ThrottlingSomeAnswer == \E r \in base, res \in Results : ThrottlingBaseAnswers(r, res)

ThrottlingNext ==
  \/ \E timeout \in Timeouts : ThrottlingHandleRequest(timeout)
  \/ ThrottlingSomeAnswer \/ ThrottlingLoopStep
  \/ (Destroy \/ OnTime) /\ UNCHANGED throttle

-----------------------------------------------------------------------------
(* Requests are passed on at least Distance apart, also those that waited   *)
(* together for the same time.                                              *)
ThrottlingLimitKept ==
  \A n \in 2 .. Len(throttle.passed) : throttle.passed[n] - throttle.passed[n - 1] >= Distance

(* One that waits is due when the next one is allowed, or was overtaken and *)
(* is handled again at once.                                                *)
ThrottlingNoneForgotten ==
  \A n \in DOMAIN throttle.tasks : throttle.tasks[n].time <= throttle.allowed
==============================================================================
