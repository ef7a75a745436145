-------------------------- MODULE SynchronizedQueue --------------------------
(***************************************************************************)
(* synchronized_queue: a deque, its mutex and its condition variable.  A   *)
(* critical section is one step, so the mutex itself needs no state; the   *)
(* threads blocked on the condition variable are the set waiting.  A       *)
(* thread outside of that set evaluates the wait's predicate when it next  *)
(* gets the mutex.                                                         *)
(***************************************************************************)
EXTENDS Sequences

NewQueue == [elements |-> <<>>, waiting |-> {}]

\* Mutants of Push: notify_one instead of notify_all; no notification; the
\* element put at the wrong end.
PushNotifyOne(q, e) ==
  [elements |-> Append(q.elements, e),
   waiting |-> IF q.waiting = {} THEN {}
               ELSE q.waiting \ {CHOOSE t \in q.waiting : TRUE}]
PushSilently(q, e) == [q EXCEPT !.elements = Append(@, e)]
PushFront(q, e) == [elements |-> <<e>> \o q.elements, waiting |-> {}]

\* push: notify_all, but only when the queue was empty.
Push(q, e) ==
  [elements |-> Append(q.elements, e),
   waiting |-> IF q.elements = <<>> THEN {} ELSE q.waiting]

\* The wait of pop and pop_group: the predicate was false for thread t.
CanBlock(q, t) == q.elements = <<>> /\ t \notin q.waiting
Block(q, t) == [q EXCEPT !.waiting = @ \cup {t}]

\* A spurious wakeup, or the timeout of try_pop_group.
Wake(q, t) == [q EXCEPT !.waiting = @ \ {t}]

\* pop: the predicate was true for thread t.
CanPop(q, t) == q.elements # <<>> /\ t \notin q.waiting
Oldest(q) == Head(q.elements)
PopKept(q) == q                                   \* mutant of Pop
Pop(q) == [q EXCEPT !.elements = Tail(@)]

\* pop_group_unlocked with its default size limit takes everything.
PopAll(q) == [q EXCEPT !.elements = <<>>]

(* No thread sleeps while there is something to take.                      *)
NoneSleepsOnWork(q) == q.elements # <<>> => q.waiting = {}
==============================================================================
