------------------------- MODULE PpollEventLoopProofs -------------------------
(***************************************************************************)
(* Proofs about PpollEventLoop, for all bounds: the three times are in     *)
(* order, the whole loop keeps the contract of event_loop, what ppoll      *)
(* reports reaches the watches, and nothing starts in a run after a quit.  *)
(***************************************************************************)
EXTENDS PpollEventLoop, TLAPS

Times == Tasks!Times

TypeInv ==
  /\ last_event_time \in Times /\ etime \in Times /\ clock \in Times
  /\ pending_tasks \subseteq [time : Times, id : Nat]
  /\ next_task_id \in Nat
  /\ task_quit \in BOOLEAN /\ watch_quit \in BOOLEAN
  /\ quit_request_pending \in BOOLEAN /\ quit_called \in BOOLEAN
  /\ normal_return \in BOOLEAN
  /\ task_mode \in {"caller", "loop", "task"}
  /\ watch_mode \in {"idle", "notify", "watch"}
  /\ pc \in {"stopped", "tasks", "poll", "dispatch", "iterate"}

\* The inner components rest while run_iterations is elsewhere.
ModesInv ==
  /\ pc # "tasks" => task_mode = "caller"
  /\ pc # "dispatch" => watch_mode = "idle"

IInv == TypeInv /\ ModesInv /\ TimesInOrder

\* The calls that user code makes leave run_iterations where it is.
LEMMA CallsStayInUserCode ==
  ASSUME UserCall PROVE UNCHANGED <<pc, task_mode, watch_mode, etime, clock, last_event_time>>
<1>1. ASSUME NEW t \in Times, InvokeAt(t)
      PROVE  UNCHANGED <<pc, task_mode, watch_mode, etime, clock, last_event_time>>
  BY <1>1 DEF InvokeAt, Tasks!InvokeAt, watch_vars, run_vars
<1>2. ASSUME NEW k \in pending_tasks, DisableTask(k)
      PROVE  UNCHANGED <<pc, task_mode, watch_mode, etime, clock, last_event_time>>
  BY <1>2 DEF DisableTask, Tasks!Disable, watch_vars, run_vars
<1>3. ASSUME NEW key \in Watches!Keys, AddWatch(key)
      PROVE  UNCHANGED <<pc, task_mode, watch_mode, etime, clock, last_event_time>>
  BY <1>3 DEF AddWatch, Watches!AddWatch, task_vars, run_vars
<1>4. ASSUME NEW w \in watches, DisableWatch(w)
      PROVE  UNCHANGED <<pc, task_mode, watch_mode, etime, clock, last_event_time>>
  BY <1>4 DEF DisableWatch, Watches!DisableWatch, task_vars, run_vars
<1>5. ASSUME Quit
      PROVE  UNCHANGED <<pc, task_mode, watch_mode, etime, clock, last_event_time>>
  BY <1>5 DEF Quit, Tasks!Quit, Watches!Quit
<1> QED
  BY <1>1, <1>2, <1>3, <1>4, <1>5 DEF UserCall, Times

\* process_time_passage brings the inner loop to etime, never past it.
LEMMA PassTimeReachesEtime ==
  ASSUME IInv, PassTime
  PROVE  /\ last_event_time' \in Times
         /\ last_event_time' <= etime
         /\ task_mode' = "loop"
         /\ UNCHANGED <<pending_tasks, next_task_id, task_quit>>
<1> USE PpollBounds
<1>1. CASE etime > last_event_time
  <2>1. Tasks!ProcessTimePassage(etime - last_event_time)
    BY <1>1 DEF PassTime
  <2> QED
    BY <1>1, <2>1, SMT DEF IInv, TypeInv, TimesInOrder, Tasks!ProcessTimePassage, Times, Tasks!Times
<1>2. CASE ~(etime > last_event_time)
  <2>1. Tasks!ProcessTimePassage(0)
    BY <1>2 DEF PassTime
  <2> QED
    BY <1>2, <2>1, SMT DEF IInv, TypeInv, TimesInOrder, Tasks!ProcessTimePassage, Times, Tasks!Times
<1> QED
  BY <1>1, <1>2

LEMMA InitIInv == Init => IInv
<1> SUFFICES ASSUME Init PROVE IInv
  OBVIOUS
<1>1. /\ last_event_time \in Times /\ etime = last_event_time /\ clock = last_event_time
      /\ pending_tasks = {} /\ next_task_id = 0 /\ pc = "stopped"
      /\ task_mode = "caller" /\ watch_mode = "idle"
      /\ task_quit = FALSE /\ watch_quit = FALSE /\ quit_request_pending = FALSE
      /\ quit_called = FALSE /\ normal_return = TRUE
  BY DEF Init, Tasks!Init, Watches!Init, Times
<1>2. TimesInOrder
  BY <1>1, PpollBounds, SMT DEF TimesInOrder, Times, Tasks!Times
<1>3. next_task_id \in Nat
  BY <1>1, SMT
<1>4. TypeInv /\ ModesInv
  BY <1>1, <1>3, Zenon DEF TypeInv, ModesInv
<1> QED
  BY <1>2, <1>4 DEF IInv

LEMMA CallsKeepIInv == ASSUME IInv, UserCall PROVE IInv'
<1> USE PpollBounds
<1>1. UNCHANGED <<pc, task_mode, watch_mode, etime, clock, last_event_time>>
  BY CallsStayInUserCode
<1>2. ModesInv' /\ TimesInOrder'
  BY <1>1 DEF IInv, ModesInv, TimesInOrder
<1>3. TypeInv'
  <2>1. ASSUME NEW t \in Times, InvokeAt(t) PROVE TypeInv'
    BY <2>1, <1>1, SMT DEF IInv, TypeInv, InvokeAt, Tasks!InvokeAt, Tasks!NextId, watch_vars, run_vars
  <2>2. ASSUME NEW k \in pending_tasks, DisableTask(k) PROVE TypeInv'
    BY <2>2, <1>1 DEF IInv, TypeInv, DisableTask, Tasks!Disable, watch_vars, run_vars
  <2>3. ASSUME NEW key \in Watches!Keys, AddWatch(key) PROVE TypeInv'
    BY <2>3, <1>1 DEF IInv, TypeInv, AddWatch, Watches!AddWatch, task_vars, run_vars
  <2>4. ASSUME NEW w \in watches, DisableWatch(w) PROVE TypeInv'
    BY <2>4, <1>1 DEF IInv, TypeInv, DisableWatch, Watches!DisableWatch, task_vars, run_vars
  <2>5. ASSUME Quit PROVE TypeInv'
    BY <2>5, <1>1 DEF IInv, TypeInv, Quit, Tasks!Quit, Watches!Quit
  <2> QED
    BY <2>1, <2>2, <2>3, <2>4, <2>5 DEF UserCall, Times
<1> QED
  BY <1>2, <1>3 DEF IInv

LEMMA NextIInv == IInv /\ [Next]_vars => IInv'
<1> SUFFICES ASSUME IInv, [Next]_vars PROVE IInv'
  OBVIOUS
<1> USE PpollBounds DEF IInv, TypeInv, ModesInv, TimesInOrder
<1>1. CASE UserCall
  BY <1>1, CallsKeepIInv
<1>2. CASE RunIterations
  <2>1. PassTime /\ pc' = "tasks" /\ pc = "stopped"
    BY <1>2 DEF RunIterations
  <2> QED
    BY <1>2, <2>1, PassTimeReachesEtime DEF RunIterations, watch_vars
<1>3. CASE RunTask
  BY <1>3 DEF RunTask, Tasks!RunTask, watch_vars, run_vars
<1>4. CASE NoTaskDue
  BY <1>4 DEF NoTaskDue, Tasks!NothingDue, watch_vars, run_vars
<1>5. CASE AfterTasks
  BY <1>5 DEF AfterTasks, Return, task_vars, watch_vars
<1>6. CASE PollTimeout
  BY <1>6, SMT DEF PollTimeout, Now, task_vars, watch_vars, Times, Tasks!Times
<1>7. CASE NotifyKey
  BY <1>7 DEF NotifyKey, Watches!NotifyWatches, task_vars
<1>8. CASE VisitWatch
  BY <1>8 DEF VisitWatch, Watches!VisitWatch, Watches!CheckQuit, task_vars, run_vars
<1>9. CASE RoundEnds
  BY <1>9 DEF RoundEnds, Watches!RoundEnds, task_vars, run_vars
<1>10. CASE DispatchEnds
  BY <1>10 DEF DispatchEnds, Return, task_vars
<1>11. CASE Iterate
  <2>1. CASE quit_request_pending
    BY <1>11, <2>1 DEF Iterate, Return, task_vars, watch_vars
  <2>2. CASE ~quit_request_pending
    <3>1. PassTime /\ pc' = "tasks" /\ pc = "iterate"
      BY <1>11, <2>2 DEF Iterate
    <3> QED
      BY <1>11, <2>2, <3>1, PassTimeReachesEtime DEF Iterate, watch_vars
  <2> QED
    BY <2>1, <2>2
<1>12. CASE PollReady
  BY <1>12, SMT DEF PollReady, Now, task_vars, watch_vars, Times, Tasks!Times
<1>13. CASE TaskReturns
  BY <1>13 DEF TaskReturns, Tasks!TaskReturns, watch_vars, run_vars
<1>14. CASE WatchReturns
  BY <1>14 DEF WatchReturns, Watches!WatchReturns, Watches!CheckQuit, task_vars, run_vars
<1>15. CASE TaskThrows
  BY <1>15 DEF TaskThrows, Tasks!DisableMissing, Return, watch_vars
<1>16. CASE WatchThrows
  BY <1>16 DEF WatchThrows, Watches!WatchThrows, Return, task_vars
<1>17. CASE PollFails
  BY <1>17, SMT DEF PollFails, Now, Return, task_vars, watch_vars, Times, Tasks!Times
<1>18. CASE Tick
  BY <1>18, SMT DEF Tick, task_vars, watch_vars, run_vars, Times, Tasks!Times
<1>19. CASE UNCHANGED vars
  BY <1>19 DEF vars, task_vars, watch_vars, run_vars
<1> QED
  BY <1>1, <1>2, <1>3, <1>4, <1>5, <1>6, <1>7, <1>8, <1>9, <1>10, <1>11, <1>12, <1>13, <1>14,
     <1>15, <1>16, <1>17, <1>18, <1>19
  DEF Next, LoopStep, UserReturns

LEMMA Invariance == Spec => []IInv
  BY InitIInv, NextIInv, PTL DEF Spec

-----------------------------------------------------------------------------
LEMMA InitImplements == Init => Contract!Init
  BY DEF Init, Tasks!Init, Contract!Init, InTask, InWatch

(* Each step of the loop is one step of the contract or none: watches and   *)
(* tasks make it busy, ppoll is where time passes, and everything that      *)
(* run_iterations decides between them is invisible.                        *)
LEMMA StepImplements ==
  IInv /\ [Next]_vars => [Contract!Next]_(Contract!vars)
<1> SUFFICES ASSUME IInv, [Next]_vars
             PROVE  Contract!Next \/ UNCHANGED Contract!vars
  OBVIOUS
<1> USE DEF Contract!Next, Contract!vars, InTask, InWatch
<1>1. CASE UserCall
  <2>1. ASSUME NEW t \in Times, InvokeAt(t) PROVE Contract!Enqueue
    BY <2>1 DEF InvokeAt, Tasks!InvokeAt, Tasks!NextId, watch_vars, run_vars,
                Contract!Enqueue, Times
  <2>2. ASSUME NEW k \in pending_tasks, DisableTask(k) PROVE Contract!Disable
    BY <2>2 DEF DisableTask, Tasks!Disable, watch_vars, run_vars, Contract!Disable
  <2>3. ASSUME NEW key \in Watches!Keys, AddWatch(key) PROVE UNCHANGED Contract!vars
    BY <2>3 DEF AddWatch, Watches!AddWatch, task_vars, run_vars
  <2>4. ASSUME NEW w \in watches, DisableWatch(w) PROVE UNCHANGED Contract!vars
    BY <2>4 DEF DisableWatch, Watches!DisableWatch, task_vars, run_vars
  <2>5. ASSUME Quit PROVE UNCHANGED Contract!vars
    BY <2>5 DEF Quit, Tasks!Quit, Watches!Quit
  <2> QED
    BY <1>1, <2>1, <2>2, <2>3, <2>4, <2>5 DEF UserCall, Times
<1>2. CASE RunIterations
  <2>1. PassTime /\ pc = "stopped" /\ pc' = "tasks"
    BY <1>2 DEF RunIterations
  <2> QED
    BY <1>2, <2>1, PassTimeReachesEtime DEF RunIterations
<1>3. CASE RunTask
  <2>1. PICK k \in pending_tasks :
          Tasks!IsHead(k) /\ Tasks!Due(k) /\ pending_tasks' = pending_tasks \ {k}
    BY <1>3 DEF RunTask, Tasks!RunTask
  <2>2. k.time <= etime
    BY <2>1, PpollBounds, SMT
    DEF Tasks!Due, IInv, TypeInv, TimesInOrder, Times, Tasks!Times
  <2>3. \A o \in pending_tasks : o.time = k.time => k.id <= o.id
    BY <2>1, PpollBounds, SMT
    DEF Tasks!IsHead, Tasks!Before, IInv, TypeInv, Times, Tasks!Times
  <2>4. ~(InTask \/ InWatch) /\ (InTask \/ InWatch)' /\ UNCHANGED <<etime, next_task_id>>
    BY <1>3 DEF RunTask, Tasks!RunTask, watch_vars, run_vars
  <2>5. Contract!Start
    BY <2>1, <2>2, <2>3, <2>4 DEF Contract!Start
  <2> QED
    BY <2>5
<1>4. CASE NoTaskDue
  BY <1>4 DEF NoTaskDue, Tasks!NothingDue, watch_vars, run_vars
<1>5. CASE AfterTasks
  BY <1>5 DEF AfterTasks, Return, task_vars, watch_vars
<1>6. CASE PollTimeout
  <2>1. Contract!Advance
    BY <1>6, PpollBounds, SMT
    DEF PollTimeout, Now, task_vars, IInv, TypeInv, TimesInOrder, Times, Tasks!Times,
        Contract!Advance
  <2> QED
    BY <2>1
<1>7. CASE NotifyKey
  BY <1>7 DEF NotifyKey, Watches!NotifyWatches, task_vars
<1>8. CASE VisitWatch
  <2>1. CASE watch_mode' = "watch"
    BY <1>8, <2>1
    DEF VisitWatch, Watches!VisitWatch, task_vars, run_vars, Contract!StartOther
  <2>2. CASE watch_mode' # "watch"
    BY <1>8, <2>2
    DEF VisitWatch, Watches!VisitWatch, Watches!CheckQuit, task_vars, run_vars
  <2> QED
    BY <2>1, <2>2
<1>9. CASE RoundEnds
  BY <1>9 DEF RoundEnds, Watches!RoundEnds, task_vars, run_vars
<1>10. CASE DispatchEnds
  BY <1>10 DEF DispatchEnds, Return, task_vars
<1>11. CASE Iterate
  <2>1. CASE quit_request_pending
    BY <1>11, <2>1 DEF Iterate, Return, task_vars, watch_vars
  <2>2. CASE ~quit_request_pending
    <3>1. PassTime /\ pc = "iterate" /\ pc' = "tasks"
      BY <1>11, <2>2 DEF Iterate
    <3> QED
      BY <1>11, <3>1, PassTimeReachesEtime DEF Iterate
  <2> QED
    BY <2>1, <2>2
<1>12. CASE PollReady
  <2>1. watch_mode = "idle"
    BY <1>12 DEF PollReady, IInv, ModesInv
  <2>2. Contract!Advance
    BY <1>12, <2>1, PpollBounds, SMT
    DEF PollReady, Now, task_vars, watch_vars, IInv, TypeInv, TimesInOrder, Times,
        Tasks!Times, Contract!Advance
  <2> QED
    BY <2>2
<1>13. CASE TaskReturns
  BY <1>13 DEF TaskReturns, Tasks!TaskReturns, watch_vars, run_vars, Contract!Finish
<1>14. CASE WatchReturns
  BY <1>14
  DEF WatchReturns, Watches!WatchReturns, Watches!CheckQuit, task_vars, run_vars,
      Contract!Finish
<1>15. CASE TaskThrows
  BY <1>15 DEF TaskThrows, Tasks!DisableMissing, Return, watch_vars, Contract!Finish
<1>16. CASE WatchThrows
  BY <1>16 DEF WatchThrows, Watches!WatchThrows, Return, task_vars, Contract!Finish
<1>17. CASE PollFails
  <2>1. Contract!Advance
    BY <1>17, PpollBounds, SMT
    DEF PollFails, Now, Return, task_vars, IInv, TypeInv, TimesInOrder, Times,
        Tasks!Times, Contract!Advance
  <2> QED
    BY <2>1
<1>18. CASE Tick
  BY <1>18 DEF Tick, task_vars, watch_vars, run_vars
<1>19. CASE UNCHANGED vars
  BY <1>19 DEF vars, task_vars, watch_vars, run_vars
<1> QED
  BY <1>1, <1>2, <1>3, <1>4, <1>5, <1>6, <1>7, <1>8, <1>9, <1>10, <1>11, <1>12, <1>13, <1>14,
     <1>15, <1>16, <1>17, <1>18, <1>19
  DEF Next, LoopStep, UserReturns

(* ppoll_based_event_loop keeps the contract of event_loop, whatever tasks, *)
(* watches, ready descriptors, errors and exceptions there are, and the     *)
(* time of its inner loop is never ahead of its own, nor that of the clock. *)
THEOREM Implementation == Spec => ImplementsContract
<1>1. Spec => []IInv
  BY Invariance
<1>2. IInv => TimesInOrder
  BY DEF IInv
<1> QED
  BY <1>1, <1>2, InitImplements, StepImplements, PTL
  DEF Spec, ImplementsContract, Contract!Spec

-----------------------------------------------------------------------------
Watch == [key : Watches!Keys, id : Nat]

\* Watches have ids of their own, never that of a watch that was disabled.
WatchesInv ==
  /\ next_watch_id \in Nat
  /\ watches \subseteq Watch
  /\ \A w \in watches : w.id < next_watch_id /\ w.id \notin disabled
  /\ \A v, w \in watches : v.id = w.id => v = w
  /\ \A i \in disabled \cup called : i \in Nat /\ i < next_watch_id

\* Within a round of notify_watches.
Visiting == watch_mode # "idle"

\* The watches of a round belong to a reported key that is not to come again,
\* and a watch that was called is in no round to come.
RoundInv ==
  /\ Visiting => normal_return
  /\ ready \subseteq reported
  /\ Visiting => \A w \in round : w.key \in reported /\ w.key \notin ready
  /\ \A w \in watches : w.id \in called => w.key \notin ready /\ ~(Visiting /\ w \in round)

\* As long as no quit was seen, the watches reported are called or disabled, or
\* their turn will come.
OwedInv ==
  pc = "dispatch" /\ normal_return =>
    \A i \in owed : \/ i \in called \cup disabled
                    \/ \E w \in watches : /\ w.id = i
                                          /\ w.key \in ready \/ (Visiting /\ w \in round)

NotifyInv == WatchesInv /\ RoundInv /\ OwedInv

(* Steps that call, add and disable no watch keep what is known of them.   *)
LEMMA NotifyKept ==
  ASSUME NotifyInv,
         UNCHANGED <<watches, next_watch_id, disabled, notified_vars, ready, round,
                     normal_return>>,
         Visiting' = Visiting,
         pc' = "dispatch" => pc = "dispatch"
  PROVE  NotifyInv'
<1>1. WatchesInv'
  BY DEF NotifyInv, WatchesInv, notified_vars
<1>2. RoundInv'
  BY DEF NotifyInv, RoundInv, notified_vars
<1>3. OwedInv'
  BY DEF NotifyInv, OwedInv, notified_vars
<1> QED
  BY <1>1, <1>2, <1>3 DEF NotifyInv

LEMMA AddWatchNotify ==
  ASSUME NotifyInv, NEW key \in Watches!Keys, AddWatch(key) PROVE NotifyInv'
<1> DEFINE n == [key |-> key, id |-> next_watch_id]
<1>1. /\ watches' = watches \cup {n} /\ next_watch_id' = next_watch_id + 1
      /\ UNCHANGED <<round, normal_return, watch_mode, pc, ready, disabled, reported, owed, called>>
  BY DEF AddWatch, Watches!AddWatch, run_vars, notified_vars
<1>2. n \in Watch /\ n.id = next_watch_id /\ next_watch_id' \in Nat
      /\ \A i \in Nat : i < next_watch_id => i < next_watch_id'
      /\ next_watch_id < next_watch_id' /\ ~(next_watch_id < next_watch_id)
  BY <1>1, SMT DEF NotifyInv, WatchesInv, Watch
<1> HIDE DEF n
<1>3. \A w \in watches : w.id \in Nat
  BY DEF NotifyInv, WatchesInv, Watch
<1>4. WatchesInv'
  BY <1>1, <1>2, <1>3 DEF NotifyInv, WatchesInv
<1>5. n.id \notin called
  BY <1>2 DEF NotifyInv, WatchesInv
<1>6. RoundInv'
  BY <1>1, <1>5 DEF NotifyInv, RoundInv, Visiting
<1>7. OwedInv'
  BY <1>1 DEF NotifyInv, OwedInv, Visiting
<1> QED
  BY <1>4, <1>6, <1>7 DEF NotifyInv

LEMMA DisableWatchNotify ==
  ASSUME NotifyInv, NEW w \in watches, DisableWatch(w) PROVE NotifyInv'
<1>1. /\ watches' = watches \ {w} /\ disabled' = disabled \cup {w.id}
      /\ UNCHANGED <<next_watch_id, round, normal_return, watch_mode, pc, ready, reported,
                     owed, called>>
  BY DEF DisableWatch, Watches!DisableWatch, run_vars, notified_vars
<1>2. w.id \in Nat /\ w.id < next_watch_id
  BY DEF NotifyInv, WatchesInv, Watch
<1>3. WatchesInv'
  BY <1>1, <1>2 DEF NotifyInv, WatchesInv
<1>4. RoundInv'
  BY <1>1 DEF NotifyInv, RoundInv, Visiting
<1>5. OwedInv'
  BY <1>1 DEF NotifyInv, OwedInv, Visiting
<1> QED
  BY <1>3, <1>4, <1>5 DEF NotifyInv

LEMMA NotifyKeyNotify ==
  ASSUME NotifyInv, NotifyKey PROVE NotifyInv'
<1>1. PICK key \in ready :
        /\ round' = {w \in watches : w.key = key} /\ ready' = ready \ {key}
        /\ watch_mode' = "notify" /\ normal_return /\ normal_return' /\ pc = "dispatch"
        /\ watch_mode = "idle"
        /\ UNCHANGED <<watches, next_watch_id, pc, disabled, reported, owed, called>>
  BY DEF NotifyKey, Watches!NotifyWatches, notified_vars
<1>2. WatchesInv'
  BY <1>1 DEF NotifyInv, WatchesInv
<1>3. RoundInv'
  BY <1>1 DEF NotifyInv, RoundInv, Visiting
<1>4. OwedInv'
  BY <1>1 DEF NotifyInv, OwedInv, Visiting
<1> QED
  BY <1>2, <1>3, <1>4 DEF NotifyInv

(* The one step that calls a watch: the watch is enabled, it was not called *)
(* since the report, and it is of a key of the report.                      *)
LEMMA WatchCalled ==
  ASSUME NotifyInv, VisitWatch, watch_mode' = "watch"
  PROVE  \E w \in round : /\ w \in watches /\ round' = round \ {w}
                          /\ called' = called \cup {w.id} /\ w.id \notin called
                          /\ w.id \notin disabled /\ w.key \in reported
<1>1. PICK w \in round : round' = round \ {w} /\ w \in watches
  BY DEF VisitWatch, Watches!VisitWatch, Watches!CheckQuit, Watches!Alive
<1>2. {v.id : v \in round \ round'} = {w.id}
  BY <1>1
<1>3. called' = called \cup {w.id}
  BY <1>2 DEF VisitWatch
<1>4. watch_mode = "notify"
  BY DEF VisitWatch, Watches!VisitWatch
<1>5. w.id \notin called /\ w.key \in reported
  BY <1>1, <1>4 DEF NotifyInv, RoundInv, Visiting
<1>6. w.id \notin disabled
  BY <1>1 DEF NotifyInv, WatchesInv
<1> QED
  BY <1>1, <1>3, <1>5, <1>6

LEMMA VisitWatchNotify ==
  ASSUME NotifyInv, VisitWatch PROVE NotifyInv'
<1>1. /\ UNCHANGED <<watches, next_watch_id, pc, ready, disabled, reported, owed>>
      /\ watch_mode = "notify" /\ watch_mode' \in {"idle", "notify", "watch"}
  BY DEF VisitWatch, Watches!VisitWatch, Watches!CheckQuit, run_vars
<1>2. CASE watch_mode' = "watch"
  <2>1. PICK w \in round : /\ w \in watches /\ round' = round \ {w}
                           /\ called' = called \cup {w.id}
    BY <1>2, WatchCalled
  <2>2. w.id \in Nat /\ w.id < next_watch_id /\ \A v \in watches : v.id = w.id => v = w
    BY <2>1 DEF NotifyInv, WatchesInv, Watch
  <2>3. w.key \notin ready /\ w \notin round'
    BY <2>1, <1>1 DEF NotifyInv, RoundInv, Visiting
  <2>4. WatchesInv'
    BY <1>1, <2>1, <2>2 DEF NotifyInv, WatchesInv
  <2>5. normal_return' = normal_return
    BY <1>2 DEF VisitWatch, Watches!VisitWatch, Watches!CheckQuit
  <2>6. RoundInv'
    BY <1>1, <1>2, <2>1, <2>2, <2>3, <2>5 DEF NotifyInv, RoundInv, Visiting
  <2>7. OwedInv'
    BY <1>1, <1>2, <2>1, <2>5 DEF NotifyInv, OwedInv, Visiting
  <2> QED
    BY <2>4, <2>6, <2>7 DEF NotifyInv
<1>3. CASE watch_mode' # "watch"
  <2>1. PICK w \in round : round' = round \ {w} /\ w \notin watches /\ called' = called
    BY <1>3 DEF VisitWatch, Watches!VisitWatch, Watches!Alive
  <2>2. normal_return' <=> Visiting'
    BY <1>3 DEF VisitWatch, Watches!VisitWatch, Watches!CheckQuit, Visiting
  <2>3. WatchesInv'
    BY <1>1, <2>1 DEF NotifyInv, WatchesInv
  <2>4. RoundInv'
    BY <1>1, <2>1, <2>2 DEF NotifyInv, RoundInv, Visiting
  <2>5. OwedInv'
    BY <1>1, <2>1, <2>2 DEF NotifyInv, OwedInv, RoundInv, Visiting
  <2> QED
    BY <2>3, <2>4, <2>5 DEF NotifyInv
<1> QED
  BY <1>2, <1>3

LEMMA NextNotifyInv == IInv /\ NotifyInv /\ [Next]_vars => NotifyInv'
<1> SUFFICES ASSUME IInv, NotifyInv, [Next]_vars PROVE NotifyInv'
  OBVIOUS
<1>1. ASSUME NEW t \in Times, InvokeAt(t) PROVE NotifyInv'
  BY <1>1, NotifyKept DEF InvokeAt, watch_vars, run_vars, Visiting
<1>2. ASSUME NEW k \in pending_tasks, DisableTask(k) PROVE NotifyInv'
  BY <1>2, NotifyKept DEF DisableTask, watch_vars, run_vars, Visiting
<1>3. ASSUME NEW key \in Watches!Keys, AddWatch(key) PROVE NotifyInv'
  BY <1>3, AddWatchNotify
<1>4. ASSUME NEW w \in watches, DisableWatch(w) PROVE NotifyInv'
  BY <1>4, DisableWatchNotify
<1>5. CASE Quit
  BY <1>5, NotifyKept DEF Quit, Watches!Quit, Visiting
<1>6. CASE RunIterations
  BY <1>6, NotifyKept DEF RunIterations, watch_vars, Visiting
<1>7. CASE RunTask \/ TaskReturns \/ NoTaskDue
  BY <1>7, NotifyKept DEF RunTask, TaskReturns, NoTaskDue, watch_vars, run_vars, Visiting
<1>8. CASE TaskThrows
  BY <1>8, NotifyKept DEF TaskThrows, Return, watch_vars, Visiting
<1>9. CASE AfterTasks
  BY <1>9, NotifyKept DEF AfterTasks, Return, watch_vars, Visiting
<1>10. CASE PollTimeout \/ PollFails
  BY <1>10, NotifyKept DEF PollTimeout, PollFails, Return, watch_vars, Visiting
<1>11. CASE Iterate
  BY <1>11, NotifyKept DEF Iterate, Return, watch_vars, Visiting
<1>12. CASE Tick \/ UNCHANGED vars
  BY <1>12, NotifyKept DEF Tick, vars, watch_vars, run_vars, Visiting
<1>13. CASE NotifyKey
  BY <1>13, NotifyKeyNotify
<1>14. CASE VisitWatch
  BY <1>14, VisitWatchNotify
<1>15. CASE PollReady
  <2>1. /\ UNCHANGED <<watches, next_watch_id, round, normal_return, watch_mode, disabled>>
        /\ reported' = ready' /\ called' = {} /\ pc = "poll"
        /\ owed' = {w.id : w \in {v \in watches : v.key \in ready'}}
    BY <1>15 DEF PollReady, watch_vars
  <2>2. ~Visiting /\ ~Visiting'
    BY <2>1 DEF IInv, ModesInv, Visiting
  <2>3. WatchesInv' /\ RoundInv' /\ OwedInv'
    BY <2>1, <2>2 DEF NotifyInv, WatchesInv, RoundInv, OwedInv
  <2> QED
    BY <2>3 DEF NotifyInv
<1>16. CASE WatchReturns \/ RoundEnds
  <2>1. /\ UNCHANGED <<watches, next_watch_id, round, pc, ready, disabled, reported, owed, called>>
        /\ Visiting
        /\ \/ Visiting' /\ normal_return'
           \/ ~Visiting' /\ ~normal_return'
           \/ ~Visiting' /\ normal_return' = normal_return /\ round = {}
    BY <1>16
    DEF WatchReturns, RoundEnds, Watches!WatchReturns, Watches!RoundEnds, Watches!CheckQuit,
        run_vars, notified_vars, Visiting
  <2>2. WatchesInv'
    BY <2>1 DEF NotifyInv, WatchesInv
  <2>3. RoundInv'
    BY <2>1 DEF NotifyInv, RoundInv
  <2>4. OwedInv'
    BY <2>1 DEF NotifyInv, OwedInv, RoundInv
  <2> QED
    BY <2>2, <2>3, <2>4 DEF NotifyInv
<1>17. CASE DispatchEnds \/ WatchThrows
  <2>1. /\ UNCHANGED <<watches, next_watch_id, disabled>>
        /\ ready' = {} /\ reported' = {} /\ owed' = {} /\ called' = {}
        /\ ~Visiting'
    BY <1>17
    DEF DispatchEnds, WatchThrows, Watches!WatchThrows, Forget, Visiting
  <2>2. WatchesInv' /\ RoundInv' /\ OwedInv'
    BY <2>1 DEF NotifyInv, WatchesInv, RoundInv, OwedInv
  <2> QED
    BY <2>2 DEF NotifyInv
<1> QED
  BY <1>1, <1>2, <1>3, <1>4, <1>5, <1>6, <1>7, <1>8, <1>9, <1>10, <1>11, <1>12, <1>13, <1>14,
     <1>15, <1>16, <1>17
  DEF Next, UserCall, LoopStep, UserReturns, Times

\* A watch is called by VisitWatch only.
LEMMA OnlyVisitCalls ==
  ASSUME IInv, [Next]_vars, ~InWatch, InWatch' PROVE VisitWatch
<1>1. CASE UserCall
  BY <1>1, CallsStayInUserCode DEF InWatch
<1>2. CASE ~VisitWatch /\ ~UserCall
  BY <1>2
  DEF IInv, ModesInv, InWatch, Next, LoopStep, UserReturns, RunIterations, RunTask, NoTaskDue,
      AfterTasks, PollTimeout, NotifyKey, RoundEnds, DispatchEnds, Iterate, PollReady,
      TaskReturns, WatchReturns, TaskThrows, WatchThrows, PollFails, Tick, Return,
      Watches!NotifyWatches, Watches!RoundEnds, Watches!WatchReturns, Watches!CheckQuit,
      Watches!WatchThrows, vars, watch_vars, run_vars
<1> QED
  BY <1>1, <1>2

\* The dispatch goes on to the next iteration at its normal end only.
LEMMA DispatchCompletes ==
  ASSUME IInv, NotifyInv, [Next]_vars, pc = "dispatch", pc' = "iterate"
  PROVE  owed \subseteq called \cup disabled
<1>1. CASE UserCall
  BY <1>1, CallsStayInUserCode
<1>2. CASE DispatchEnds
  <2>1. normal_return /\ ready = {} /\ ~Visiting
    BY <1>2 DEF DispatchEnds, Return, Visiting
  <2> QED
    BY <2>1 DEF NotifyInv, OwedInv
<1>3. CASE ~DispatchEnds /\ ~UserCall
  BY <1>3
  DEF Next, LoopStep, UserReturns, RunIterations, RunTask, NoTaskDue, AfterTasks, PollTimeout,
      NotifyKey, VisitWatch, RoundEnds, Iterate, PollReady, TaskReturns, WatchReturns,
      TaskThrows, WatchThrows, PollFails, Tick, Return, vars, run_vars
<1> QED
  BY <1>1, <1>2, <1>3

(* For any number of watches, keys and reports: only watches of reported    *)
(* descriptors are called, each once for a report and none that was ever    *)
(* disabled, and none is passed over when the loop goes on.                 *)
THEOREM ReportsReach == Spec => ReportsReachWatches
<1> DEFINE
  Called == \E w \in round : /\ called' = called \cup {w.id} /\ w.id \notin called
                             /\ w.id \notin disabled /\ w.key \in reported
  Kept == /\ ~InWatch /\ InWatch' => Called
          /\ pc = "dispatch" /\ pc' = "iterate" => owed \subseteq called \cup disabled
<1>1. Spec => []IInv
  BY Invariance
<1>2. Init => NotifyInv
  <2> SUFFICES ASSUME Init PROVE NotifyInv
    OBVIOUS
  <2>1. /\ watches = {} /\ next_watch_id = 0 /\ watch_mode = "idle" /\ ready = {}
        /\ disabled = {} /\ called = {} /\ pc = "stopped"
    BY DEF Init, Watches!Init
  <2>2. WatchesInv
    BY <2>1, SMT DEF WatchesInv
  <2>3. RoundInv /\ OwedInv
    BY <2>1 DEF RoundInv, OwedInv, Visiting
  <2> QED
    BY <2>2, <2>3 DEF NotifyInv
<1>3. Spec => []NotifyInv
  BY <1>1, <1>2, NextNotifyInv, PTL DEF Spec
<1>4. ASSUME IInv, NotifyInv, [Next]_vars PROVE Kept
  <2>1. ~InWatch /\ InWatch' => Called
    <3> SUFFICES ASSUME ~InWatch, InWatch' PROVE Called
      OBVIOUS
    <3>1. VisitWatch /\ watch_mode' = "watch"
      BY <1>4, OnlyVisitCalls DEF InWatch
    <3> QED
      BY <1>4, <3>1, WatchCalled
  <2> QED
    BY <1>4, <2>1, DispatchCompletes
<1>5. IInv /\ NotifyInv /\ [Next]_vars => [Kept]_vars
  BY <1>4
<1> HIDE DEF Kept
<1> QED
  BY <1>1, <1>3, <1>5, PTL DEF Spec, ReportsReachWatches, Kept, Called

-----------------------------------------------------------------------------
\* After a quit the run is on its way out: no task or watch can be chosen until
\* the request has been seen, at the end of the task or the watch that made it.
QuitInv ==
  quit_called /\ pc # "stopped" =>
    \/ /\ pc = "tasks"
       /\ quit_request_pending
       /\ task_mode = "caller" \/ (task_mode = "task" /\ task_quit)
    \/ /\ pc = "dispatch"
       /\ quit_request_pending
       /\ \/ watch_mode = "watch" /\ watch_quit
          \/ watch_mode = "idle" /\ ~normal_return

LEMMA NextQuitInv == IInv /\ QuitInv /\ [Next]_vars => QuitInv'
<1> SUFFICES ASSUME IInv, QuitInv, [Next]_vars PROVE QuitInv'
  OBVIOUS
<1> USE DEF QuitInv
<1>1. ASSUME NEW t \in Times, InvokeAt(t) PROVE QuitInv'
  BY <1>1 DEF InvokeAt, Tasks!InvokeAt, watch_vars, run_vars
<1>2. ASSUME NEW k \in pending_tasks, DisableTask(k) PROVE QuitInv'
  BY <1>2 DEF DisableTask, Tasks!Disable, watch_vars, run_vars
<1>3. ASSUME NEW key \in Watches!Keys, AddWatch(key) PROVE QuitInv'
  BY <1>3 DEF AddWatch, Watches!AddWatch, task_vars, run_vars
<1>4. ASSUME NEW w \in watches, DisableWatch(w) PROVE QuitInv'
  BY <1>4 DEF DisableWatch, Watches!DisableWatch, task_vars, run_vars
<1>5. ASSUME Quit PROVE QuitInv'
  BY <1>5 DEF Quit, Tasks!Quit, Watches!Quit, InUserCode
<1>6. CASE RunIterations
  BY <1>6 DEF RunIterations
<1>7. CASE RunTask
  BY <1>7 DEF RunTask, Tasks!RunTask, watch_vars, run_vars
<1>8. CASE NoTaskDue
  BY <1>8 DEF NoTaskDue, Tasks!NothingDue, watch_vars, run_vars
<1>9. CASE AfterTasks
  BY <1>9 DEF AfterTasks, Return, task_vars, watch_vars
<1>10. CASE PollTimeout
  BY <1>10 DEF PollTimeout
<1>11. CASE NotifyKey
  BY <1>11 DEF NotifyKey, Watches!NotifyWatches
<1>12. CASE VisitWatch
  BY <1>12 DEF VisitWatch, Watches!VisitWatch, run_vars, task_vars
<1>13. CASE RoundEnds
  BY <1>13 DEF RoundEnds, Watches!RoundEnds, run_vars, task_vars
<1>14. CASE DispatchEnds
  BY <1>14 DEF DispatchEnds, Return
<1>15. CASE Iterate
  BY <1>15 DEF Iterate
<1>16. CASE PollReady
  BY <1>16 DEF PollReady
<1>17. CASE TaskReturns
  BY <1>17 DEF TaskReturns, Tasks!TaskReturns, watch_vars, run_vars
<1>18. CASE WatchReturns
  BY <1>18
  DEF WatchReturns, Watches!WatchReturns, Watches!CheckQuit, task_vars, run_vars
<1>19. CASE TaskThrows
  BY <1>19 DEF TaskThrows, Return
<1>20. CASE WatchThrows
  BY <1>20 DEF WatchThrows, Return
<1>21. CASE PollFails
  BY <1>21 DEF PollFails
<1>22. CASE Tick
  BY <1>22 DEF Tick, task_vars, watch_vars, run_vars
<1>23. CASE UNCHANGED vars
  BY <1>23 DEF vars, task_vars, watch_vars, run_vars
<1> QED
  BY <1>1, <1>2, <1>3, <1>4, <1>5, <1>6, <1>7, <1>8, <1>9, <1>10, <1>11, <1>12, <1>13, <1>14,
     <1>15, <1>16, <1>17, <1>18, <1>19, <1>20, <1>21, <1>22, <1>23
  DEF Next, UserCall, LoopStep, UserReturns, Times

\* A task starts from the loop of tasks only, a watch from a round only, and
\* after a quit run_iterations is in neither.
LEMMA QuitStep ==
  ASSUME IInv, QuitInv, [Next]_vars, quit_called, pc # "stopped"
  PROVE  ~(~InTask /\ InTask') /\ ~(~InWatch /\ InWatch')
<1> USE DEF QuitInv, InTask, InWatch
<1>1. CASE UserCall
  BY <1>1, CallsStayInUserCode
<1>2. CASE TaskReturns \/ WatchReturns \/ TaskThrows \/ WatchThrows
  BY <1>2
  DEF TaskReturns, Tasks!TaskReturns, WatchReturns, Watches!WatchReturns, Watches!CheckQuit,
      TaskThrows, WatchThrows, Return, task_vars, watch_vars, run_vars
<1>3. CASE AfterTasks \/ DispatchEnds
  BY <1>3 DEF AfterTasks, DispatchEnds, Return
<1>4. CASE Tick \/ UNCHANGED vars
  BY <1>4 DEF Tick, vars, task_vars, watch_vars, run_vars
<1>5. ~RunIterations /\ ~RunTask /\ ~NoTaskDue /\ ~PollTimeout /\ ~NotifyKey
      /\ ~VisitWatch /\ ~RoundEnds /\ ~Iterate /\ ~PollReady /\ ~PollFails
  BY DEF RunIterations, RunTask, Tasks!RunTask, NoTaskDue, Tasks!NothingDue, PollTimeout,
         NotifyKey, Watches!NotifyWatches, VisitWatch, Watches!VisitWatch, RoundEnds,
         Watches!RoundEnds, Iterate, PollReady, PollFails
<1> QED
  BY <1>1, <1>2, <1>3, <1>4, <1>5 DEF Next, LoopStep, UserReturns

(* In the run that quit() was called in, from a task or from a watch, no    *)
(* task and no watch is started after it, for any number of tasks, watches  *)
(* and ready descriptors.                                                   *)
THEOREM QuitIsFinal == Spec => NothingStartsAfterQuit
<1> DEFINE Stays == ~(~InTask /\ InTask') /\ ~(~InWatch /\ InWatch')
<1>1. Spec => []IInv
  BY Invariance
<1>2. Init => QuitInv
  BY DEF Init, QuitInv
<1>3. Spec => []QuitInv
  BY <1>1, <1>2, NextQuitInv, PTL DEF Spec
<1>4. IInv /\ QuitInv /\ [Next]_vars => [quit_called /\ pc # "stopped" => Stays]_vars
  BY QuitStep
<1> HIDE DEF Stays
<1> QED
  BY <1>1, <1>3, <1>4, PTL DEF Spec, NothingStartsAfterQuit, Stays
==============================================================================
