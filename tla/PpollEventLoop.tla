---------------------------- MODULE PpollEventLoop ----------------------------
(***************************************************************************)
(* ppoll_based_event_loop: run_iterations alternates between the           *)
(* manual_event_loop (Tasks), ppoll(2), and the manual_fd_watcher          *)
(* (Watches).  User code - a task, a watch's function, or the program      *)
(* around run_iterations - is any sequence of calls of the loop's          *)
(* interface.                                                              *)
(***************************************************************************)
EXTENDS Naturals, FiniteSets

CONSTANTS
  MaxTime, MaxTasks,     \* bounds, see ManualEventLoop
  NKeys, MaxWatches,     \* bounds, see ManualFdWatcher
  StaleDisables          \* whether it calls disable() on a finished task's handle

ASSUME PpollBounds == MaxTime \in Nat /\ MaxTasks \in Nat /\ MaxWatches \in Nat

VARIABLES
  last_event_time, pending_tasks, next_task_id, task_quit, task_mode,
  watches, next_watch_id, watch_quit, round, normal_return, watch_mode,
  clock,                 \* CLOCK_MONOTONIC
  etime,
  quit_request_pending,
  pc,                    \* "stopped", or where run_iterations is
  ready,                 \* keys with revents # 0 still to be notified
  result,                \* what run_iterations last returned
  quit_called,           \* history: quit() was called during this run
  disabled,              \* history: ids of the watches that were disabled
  reported,              \* history: the keys that the last ppoll found ready,
  owed,                  \*   ids of the watches they had then, and
  called                 \*   ids of the watches called since

task_vars == <<last_event_time, pending_tasks, next_task_id, task_quit,
               task_mode>>
watch_vars == <<watches, next_watch_id, watch_quit, round, normal_return,
                watch_mode>>
run_vars == <<etime, quit_request_pending, pc, ready, result, quit_called>>
notified_vars == <<reported, owed, called>>
vars == <<task_vars, watch_vars, run_vars, clock, disabled, notified_vars>>

Tasks == INSTANCE ManualEventLoop
           WITH quit_request_pending <- task_quit, mode <- task_mode
Watches == INSTANCE ManualFdWatcher
             WITH quit_request_pending <- watch_quit, mode <- watch_mode

Init ==
  /\ Tasks!Init
  /\ Watches!Init
  /\ clock = last_event_time
  /\ etime = last_event_time
  /\ quit_request_pending = FALSE
  /\ pc = "stopped"
  /\ ready = {}
  /\ result = "none"
  /\ quit_called = FALSE
  /\ disabled = {} /\ reported = {} /\ owed = {} /\ called = {}

InUserCode ==
  \/ pc = "stopped"
  \/ pc = "tasks" /\ task_mode = "task"
  \/ pc = "dispatch" /\ watch_mode = "watch"

-----------------------------------------------------------------------------
(* Calls made by user code                                                 *)

InvokeAt(t) ==
  /\ InUserCode
  /\ Tasks!InvokeAt(t)
  /\ UNCHANGED <<watch_vars, run_vars, clock, disabled, notified_vars>>

DisableTask(k) ==
  /\ InUserCode
  /\ Tasks!Disable(k)
  /\ UNCHANGED <<watch_vars, run_vars, clock, disabled, notified_vars>>

AddWatch(key) ==
  /\ InUserCode
  /\ Watches!AddWatch(key)
  /\ UNCHANGED <<task_vars, run_vars, clock, disabled, notified_vars>>

DisableWatch(w) ==
  /\ InUserCode
  /\ Watches!DisableWatch(w)
  /\ disabled' = disabled \cup {w.id}
  /\ UNCHANGED <<task_vars, run_vars, clock, notified_vars>>

\* Mutant of Quit: only the inner loop is told.
QuitTasksOnly ==
  /\ InUserCode
  /\ Tasks!Quit
  /\ quit_called' = TRUE
  /\ UNCHANGED <<watch_vars, clock, etime, quit_request_pending, pc, ready, result,
                 disabled, notified_vars>>

Quit ==
  /\ InUserCode
  /\ Tasks!Quit
  /\ Watches!Quit
  /\ quit_request_pending' = TRUE
  /\ quit_called' = TRUE
  /\ UNCHANGED <<clock, etime, pc, ready, result, disabled, notified_vars>>

-----------------------------------------------------------------------------
(* run_iterations                                                          *)

PassNoTime == Tasks!ProcessTimePassage(0)                      \* mutant of PassTime

PassTime ==
  Tasks!ProcessTimePassage(IF etime > last_event_time
                           THEN etime - last_event_time ELSE 0)

RunIterations ==
  /\ pc = "stopped"
  /\ PassTime
  /\ pc' = "tasks"
  /\ result' = "none"
  /\ quit_called' = FALSE
  /\ UNCHANGED <<watch_vars, clock, etime, quit_request_pending, ready, disabled,
                 notified_vars>>

RunTask ==
  /\ pc = "tasks"
  /\ Tasks!RunTask
  /\ UNCHANGED <<watch_vars, run_vars, clock, disabled, notified_vars>>

TaskReturns ==
  /\ pc = "tasks"
  /\ Tasks!TaskReturns
  /\ UNCHANGED <<watch_vars, run_vars, clock, disabled, notified_vars>>

NoTaskDue ==
  /\ pc = "tasks"
  /\ Tasks!NothingDue
  /\ UNCHANGED <<watch_vars, run_vars, clock, disabled, notified_vars>>

Return(code) == pc' = "stopped" /\ result' = code

\* disable() on a stale task handle throws: the exception leaves run_iterations.
TaskThrows ==
  /\ StaleDisables
  /\ pc = "tasks"
  /\ Tasks!DisableMissing
  /\ Return("exception")
  /\ UNCHANGED <<watch_vars, clock, etime, quit_request_pending, ready, quit_called,
                 disabled, notified_vars>>

PolledKeys == {w.key : w \in watches}

\* After process_time_passage: quit, idle, or on to ppoll.
AfterTasks ==
  /\ pc = "tasks"
  /\ task_mode = "caller"
  /\ IF quit_request_pending THEN Return("interrupted")
     ELSE IF pending_tasks = {} /\ PolledKeys = {} THEN Return("ok")
     ELSE pc' = "poll" /\ UNCHANGED result
  /\ quit_request_pending' = FALSE
  /\ UNCHANGED <<task_vars, watch_vars, clock, etime, ready, quit_called, disabled,
                 notified_vars>>

Now == clock

\* ppoll returns 0 only when the time of the earliest task has come.
TimedOut == \E k \in pending_tasks : k.time <= clock

PollTimeout ==
  /\ pc = "poll"
  /\ TimedOut
  /\ etime' = Now
  /\ pc' = "iterate"
  /\ UNCHANGED <<task_vars, watch_vars, clock, quit_request_pending, ready,
                 result, quit_called, disabled, notified_vars>>

PollReady ==
  /\ pc = "poll"
  /\ ready' \in (SUBSET PolledKeys) \ {{}}
  /\ etime' = Now
  /\ pc' = "dispatch"
  /\ reported' = ready'
  /\ owed' = {w.id : w \in {v \in watches : v.key \in ready'}}
  /\ called' = {}
  /\ UNCHANGED <<task_vars, watch_vars, clock, quit_request_pending, result,
                 quit_called, disabled>>

PollFails ==
  /\ pc = "poll"
  /\ etime' = Now
  /\ Return("error")
  /\ UNCHANGED <<task_vars, watch_vars, clock, quit_request_pending, ready,
                 quit_called, disabled, notified_vars>>

\* all_of over the pollfds, in key order, up to the first abnormal return.
NotifyKey ==
  /\ pc = "dispatch"
  /\ normal_return
  /\ \E key \in ready :
       /\ \A o \in ready : key <= o
       /\ Watches!NotifyWatches(key)
       /\ ready' = ready \ {key}
  /\ UNCHANGED <<task_vars, clock, etime, quit_request_pending, pc, result,
                 quit_called, disabled, notified_vars>>

VisitWatch ==
  /\ pc = "dispatch"
  /\ Watches!VisitWatch
  /\ called' = IF watch_mode' = "watch" THEN called \cup {w.id : w \in round \ round'}
               ELSE called
  /\ UNCHANGED <<task_vars, run_vars, clock, disabled, reported, owed>>

WatchReturns ==
  /\ pc = "dispatch"
  /\ Watches!WatchReturns
  /\ UNCHANGED <<task_vars, run_vars, clock, disabled, notified_vars>>

\* What was reported is forgotten when the dispatch is left.
Forget == reported' = {} /\ owed' = {} /\ called' = {}

WatchThrows ==
  /\ StaleDisables
  /\ pc = "dispatch"
  /\ Cardinality(pending_tasks) < next_task_id
  /\ Watches!WatchThrows
  /\ Return("exception")
  /\ ready' = {}
  /\ Forget
  /\ UNCHANGED <<task_vars, clock, etime, quit_request_pending, quit_called, disabled>>

RoundEnds ==
  /\ pc = "dispatch"
  /\ Watches!RoundEnds
  /\ UNCHANGED <<task_vars, run_vars, clock, disabled, notified_vars>>

DispatchEnds ==
  /\ pc = "dispatch"
  /\ watch_mode = "idle"
  /\ IF normal_return THEN ready = {} /\ pc' = "iterate" /\ UNCHANGED result
                      ELSE Return("interrupted")
  /\ ready' = {}
  /\ normal_return' = TRUE           \* the returned value is consumed
  /\ Forget
  /\ UNCHANGED <<task_vars, watches, next_watch_id, watch_quit, round, watch_mode,
                 clock, etime, quit_request_pending, quit_called, disabled>>

\* The end of the loop's body, and process_time_passage of the next iteration.
Iterate ==
  /\ pc = "iterate"
  /\ IF quit_request_pending
     THEN Return("interrupted") /\ quit_request_pending' = FALSE
          /\ UNCHANGED task_vars
     ELSE PassTime /\ pc' = "tasks" /\ UNCHANGED <<quit_request_pending, result>>
  /\ UNCHANGED <<watch_vars, clock, etime, ready, quit_called, disabled,
                 notified_vars>>

Tick ==
  /\ clock < MaxTime
  /\ clock' = clock + 1
  /\ UNCHANGED <<task_vars, watch_vars, run_vars, disabled, notified_vars>>

UserCall ==
  \/ \E t \in Tasks!Times : InvokeAt(t)
  \/ \E k \in pending_tasks : DisableTask(k)
  \/ \E key \in Watches!Keys : AddWatch(key)
  \/ \E w \in watches : DisableWatch(w)
  \/ Quit

LoopStep ==
  \/ RunTask \/ NoTaskDue \/ AfterTasks \/ PollTimeout
  \/ NotifyKey \/ VisitWatch \/ RoundEnds \/ DispatchEnds \/ Iterate

UserReturns == TaskReturns \/ WatchReturns

Next ==
  \/ UserCall \/ RunIterations \/ LoopStep \/ PollReady \/ UserReturns
  \/ TaskThrows \/ WatchThrows \/ PollFails \/ Tick

Spec == Init /\ [][Next]_vars

\* The loop's thread runs, tasks and notifications return ("it must return very
\* quickly", event-loop.h:39), and time passes; no fd has to become ready.
FairSpec ==
  Spec /\ WF_vars(LoopStep) /\ WF_vars(UserReturns) /\ WF_vars(Tick)

-----------------------------------------------------------------------------
(* The time of the inner loop never runs ahead of the time users see, nor   *)
(* that ahead of the clock: otherwise a task could run before its time as   *)
(* get_etime() tells it (ppoll-based-event-loop.cpp:166, 184).              *)
TimesInOrder == last_event_time <= etime /\ etime <= clock

InTask == pc = "tasks" /\ task_mode = "task"
InWatch == pc = "dispatch" /\ watch_mode = "watch"

(* The whole loop keeps the contract of event_loop, with its own etime,    *)
(* which is a time that has come.                                           *)
Contract == INSTANCE EventLoop
  WITH Times <- Tasks!Times, pending <- pending_tasks, next_id <- next_task_id,
       busy <- InTask \/ InWatch
ImplementsContract == Contract!Spec /\ []TimesInOrder

(* What ppoll reports reaches the watches, whatever watches, tasks and      *)
(* functions of watches do meanwhile.  A function that starts is that of a  *)
(* watch of a reported key, has not been called since that report, and its  *)
(* watch was never disabled - not by a watch called before it in the same   *)
(* round either, nor in the round of another key (activity-handle.h:20-21,  *)
(* manual-fd-watcher.cpp:158-162); and the loop goes on to its next         *)
(* iteration only when each watch that the report was about was called, or  *)
(* was disabled first: a quit or an exception ends the run instead          *)
(* (ppoll-based-event-loop.cpp:184-195).                                    *)
ReportsReachWatches ==
  [][/\ ~InWatch /\ InWatch' =>
          \E w \in round : /\ called' = called \cup {w.id} /\ w.id \notin called
                           /\ w.id \notin disabled /\ w.key \in reported
     /\ pc = "dispatch" /\ pc' = "iterate" => owed \subseteq called \cup disabled]_vars

(* quit() stops the iterations: in the run it was called in, no task and no *)
(* watch is started after it (event-loop-control.h:19-20).                     *)
NothingStartsAfterQuit ==
  [][quit_called /\ pc # "stopped" => ~(~InTask /\ InTask') /\ ~(~InWatch /\ InWatch')]_vars

(* ... and run_iterations returns.                                         *)
QuitEndsRun == quit_called /\ pc # "stopped" ~> pc = "stopped"

(* A task enqueued in a run is executed or disabled, or the run ends: no    *)
(* sequence of notifications, and no choice of ppoll's timeout, leaves it   *)
(* waiting.                                                                 *)
TasksServed ==
  \A i \in 0 .. MaxTasks - 1 :
    (\E k \in pending_tasks : k.id = i) /\ pc # "stopped"
      ~> (\A k \in pending_tasks : k.id # i) \/ pc = "stopped"
==============================================================================
