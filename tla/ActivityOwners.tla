----------------------------- MODULE ActivityOwners -----------------------------
(***************************************************************************)
(* What keeps an activity going: activity_owner, objects_owner, and the    *)
(* periodic tick generator, whose owner is a member.                       *)
(***************************************************************************)
EXTENDS Integers, Sequences, FiniteSets, FiniteSetsExt

CONSTANTS
  Handles,    \* numbers of tasks; one is used again when nobody has the old handle
  OwnerVars,  \* the activity_owners of the program
  Interval,   \* at least 1: tasks for the present time would never end
  LastTime

TickOwner == "tick_task_owner"
AllOwners == OwnerVars \cup {TickOwner}
NoHandle == 0

ASSUME ActivityOwnersAssumption ==
  /\ Handles \subseteq Nat \ {NoHandle} /\ TickOwner \notin OwnerVars
  /\ Interval \in Nat \ {0} /\ LastTime \in Nat

VARIABLES
  now,        \* event_loop::get_etime()
  task,       \* [time, func] of each enabled task, or NoTask
  owned,      \* owned_handle of each owner
  generator,  \* [alive, ticking, last_tick_time, start, ticks]
  in_group    \* is the generator among the owned_objects of an objects_owner?

activity_vars == <<now, task, owned, generator, in_group>>

NoTask == [time |-> 0, func |-> "none"]
is_enabled(h) == task[h] # NoTask
Unused == {h \in Handles : ~is_enabled(h) /\ \A o \in AllOwners : owned[o] # h}

ActivitiesInit ==
  /\ now = 0
  /\ task = [h \in Handles |-> NoTask]
  /\ owned = [o \in AllOwners |-> NoHandle]
  /\ generator = [alive |-> FALSE, ticking |-> FALSE, last_tick_time |-> 0, start |-> 0, ticks |-> 0]
  /\ in_group = FALSE

-----------------------------------------------------------------------------
(* activity_owner.  disable() throws unless the task is enabled.            *)

DisabledOf(o) == IF owned[o] # NoHandle /\ is_enabled(owned[o]) THEN {owned[o]} ELSE {}

Disabled(tasks, hs) == [h \in Handles |-> IF h \in hs THEN NoTask ELSE tasks[h]]

\* owner = evloop.invoke_at(time, func): the new task is there before reset().
AssignWithoutReset(o, time, func) ==                     \* mutant of AssignTask
  \E h \in Unused :
    /\ h = Min(Unused)
    /\ task' = [task EXCEPT ![h] = [time |-> time, func |-> func]]
    /\ owned' = [owned EXCEPT ![o] = h]
AssignTask(o, time, func) ==
  \E h \in Unused :
    /\ h = Min(Unused)
    /\ task' = [Disabled(task, DisabledOf(o)) EXCEPT ![h] = [time |-> time, func |-> func]]
    /\ owned' = [owned EXCEPT ![o] = h]

reset(o) ==
  /\ task' = Disabled(task, DisabledOf(o))
  /\ owned' = [owned EXCEPT ![o] = NoHandle]

\* o = move(p): also with itself, when the reset leaves nothing to move.
move_assign(o, p) ==
  LET moved == IF o = p THEN NoHandle ELSE owned[p]
  IN  /\ task' = Disabled(task, DisabledOf(o))
      /\ owned' = [owned EXCEPT ![p] = NoHandle, ![o] = moved]

Rest == UNCHANGED <<now, generator, in_group>>

\* invoke_later and invoke_with_etime_delay
invoke_with_etime_delay(o, delay) ==
  /\ now + delay <= LastTime
  /\ AssignTask(o, now + delay, "task")
  /\ Rest

ResetOwner(o) == reset(o) /\ Rest
MoveOwner(o, p) == move_assign(o, p) /\ Rest

-----------------------------------------------------------------------------
(* The generator, which an objects_owner may have.                           *)

schedule_next_tick == AssignTask(TickOwner, generator'.last_tick_time + Interval, "tick")

make_periodic_tick_generator ==
  /\ ~generator.alive
  /\ generator' = [alive |-> TRUE, ticking |-> FALSE, last_tick_time |-> now, start |-> now, ticks |-> 0]
  /\ schedule_next_tick
  /\ UNCHANGED <<now, in_group>>

\* tick_func() must not do this: the task goes on with the generator.
GeneratorDestroyed ==
  /\ generator.alive /\ ~generator.ticking
  /\ generator' = [generator EXCEPT !.alive = FALSE]
  /\ reset(TickOwner)
  /\ UNCHANGED now

DropGenerator ==
  /\ ~in_group
  /\ GeneratorDestroyed
  /\ UNCHANGED in_group

\* add_object or add_objects, with the only pointer to the generator.
add_objects ==
  /\ generator.alive /\ ~in_group
  /\ in_group' = TRUE
  /\ UNCHANGED <<now, task, owned, generator>>

DestroyGroup ==
  /\ in_group
  /\ GeneratorDestroyed
  /\ in_group' = FALSE

-----------------------------------------------------------------------------
(* The loop: the task with the earliest time that has come.                  *)

DueHandles == {h \in Handles : is_enabled(h) /\ task[h].time <= now}
Runs(h) ==
  /\ ~generator.ticking
  /\ h \in DueHandles /\ \A g \in DueHandles : task[h].time <= task[g].time
  /\ task' = [task EXCEPT ![h] = NoTask]

TaskRuns(h) ==
  /\ Runs(h) /\ task[h].func = "task"
  /\ UNCHANGED <<now, owned, generator, in_group>>

\* last_tick_time += interval; tick_func() ...
Tick(h) ==
  /\ Runs(h) /\ task[h].func = "tick"
  /\ generator' = [generator EXCEPT !.last_tick_time = @ + Interval, !.ticking = TRUE, !.ticks = @ + 1]
  /\ UNCHANGED <<now, owned, in_group>>

\* ... schedule_next_tick()
TickReturns ==
  /\ generator.ticking
  /\ generator' = [generator EXCEPT !.ticking = FALSE]
  /\ schedule_next_tick
  /\ UNCHANGED <<now, in_group>>

\* Time may pass over several tasks.
TimePasses ==
  /\ DueHandles = {} /\ ~generator.ticking
  /\ now' \in now + 1 .. LastTime
  /\ UNCHANGED <<task, owned, generator, in_group>>

ActivitiesNext ==
  \/ \E o \in OwnerVars, delay \in 0 .. 1 : invoke_with_etime_delay(o, delay)
  \/ \E o \in OwnerVars : ResetOwner(o)
  \/ \E o, p \in OwnerVars : MoveOwner(o, p)
  \/ make_periodic_tick_generator \/ DropGenerator \/ add_objects \/ DestroyGroup
  \/ \E h \in Handles : TaskRuns(h) \/ Tick(h)
  \/ TickReturns
  \/ TimePasses

ActivitiesSpec == ActivitiesInit /\ [][ActivitiesNext]_activity_vars

-----------------------------------------------------------------------------
(* An activity that has an owner ends with it, and with its owner only: an  *)
(* enabled task is held by one owner, who holds no other; the generator's   *)
(* next tick is set while it lives, at its interval from the last one       *)
(* however late the loop may be, and none comes after it                    *)
(* (activity-owner.cpp:11-55, periodic-tick-generator.cpp:39-48).           *)
OwnersEndActivities ==
  /\ \A h \in Handles : is_enabled(h) =>
       \E o \in AllOwners : owned[o] = h /\ (task[h].func = "tick" <=> o = TickOwner)
  /\ \A o, p \in AllOwners : owned[o] = owned[p] /\ owned[o] # NoHandle => o = p
  /\ generator.last_tick_time = generator.start + Interval * generator.ticks
  /\ generator.last_tick_time <= now
  /\ LET tick == owned[TickOwner]
     IN  IF generator.alive /\ ~generator.ticking
         THEN is_enabled(tick) /\ task[tick].time = generator.last_tick_time + Interval
         ELSE \A h \in Handles : task[h].func # "tick"
================================================================================
