--------------------------- MODULE ManualFdWatcher ---------------------------
(***************************************************************************)
(* manual_fd_watcher: the multimap of watches, and notify_watches, which   *)
(* takes weak pointers to the watches of one key and calls those that are  *)
(* still alive when their turn comes.  A key stands for a (fd, mode) pair; *)
(* keys are ordered as the multimap orders them.                           *)
(***************************************************************************)
EXTENDS Naturals

CONSTANTS
  NKeys,        \* number of (fd, mode) pairs in use
  MaxWatches    \* bound on the number of add_watch calls

VARIABLES
  watches,                \* the multimap: [key, id], id in order of insertion
  next_watch_id,
  quit_request_pending,
  round,                  \* watches the current notify_watches has yet to visit
  normal_return,          \* what the last notify_watches returned
  mode                    \* "idle", "notify" (in notify_watches), "watch"

vars == <<watches, next_watch_id, quit_request_pending, round, normal_return,
          mode>>

Keys == 1 .. NKeys

Init ==
  /\ watches = {}
  /\ next_watch_id = 0
  /\ quit_request_pending = FALSE
  /\ round = {}
  /\ normal_return = TRUE
  /\ mode = "idle"

AddWatch(key) ==
  /\ mode # "notify"
  /\ next_watch_id < MaxWatches
  /\ watches' = watches \cup {[key |-> key, id |-> next_watch_id]}
  /\ next_watch_id' = next_watch_id + 1
  /\ UNCHANGED <<quit_request_pending, round, normal_return, mode>>

\* disable() on the handle of a watch; on one that is gone it does nothing.
DisableWatch(w) ==
  /\ mode # "notify"
  /\ watches' = watches \ {w}
  /\ UNCHANGED <<next_watch_id, quit_request_pending, round, normal_return,
                 mode>>

Quit ==
  /\ mode # "notify"
  /\ quit_request_pending' = TRUE
  /\ UNCHANGED <<watches, next_watch_id, round, normal_return, mode>>

NotifyWatches(key) ==
  /\ mode = "idle"
  /\ round' = {w \in watches : w.key = key}
  /\ normal_return' = TRUE
  /\ mode' = "notify"
  /\ UNCHANGED <<watches, next_watch_id, quit_request_pending>>

\* The check that follows the visit of each watch, dead or alive; a quit ends
\* the loop over the weak pointers.
CheckQuit ==
  /\ mode' = IF quit_request_pending THEN "idle" ELSE "notify"
  /\ normal_return' = ~quit_request_pending
  /\ quit_request_pending' = FALSE

AliveAlways(w) == TRUE                                  \* mutant of Alive
Alive(w) == w \in watches

VisitWatch ==
  /\ mode = "notify"
  /\ \E w \in round :
       /\ \A o \in round : w.id <= o.id
       /\ round' = round \ {w}
       /\ IF Alive(w)
          THEN mode' = "watch" /\ UNCHANGED <<quit_request_pending, normal_return>>
          ELSE CheckQuit
  /\ UNCHANGED <<watches, next_watch_id>>

WatchReturns ==
  /\ mode = "watch"
  /\ CheckQuit
  /\ UNCHANGED <<watches, next_watch_id, round>>

RoundEnds ==
  /\ mode = "notify"
  /\ round = {}
  /\ mode' = "idle"
  /\ UNCHANGED <<watches, next_watch_id, quit_request_pending, round,
                 normal_return>>

\* An exception thrown by the function of a watch leaves notify_watches.
WatchThrows ==
  /\ mode = "watch"
  /\ mode' = "idle"
  /\ UNCHANGED <<watches, next_watch_id, quit_request_pending, round,
                 normal_return>>
==============================================================================
