------------------------- MODULE RequestHandlersProofs -------------------------
(***************************************************************************)
(* Proofs about the handlers that EXTEND RequestHandling, for any times,   *)
(* numbers of requests, queues and classes.  First what all classes share: *)
(* where the requests are, and that each is in one place.                  *)
(***************************************************************************)
EXTENDS MCRequestHandlers, TLAPS, FiniteSetTheorems, SequenceTheorems

RequestType == [id : Nat, timeout_end : 0 .. Never]
QueueType == [requests : SUBSET RequestType, scheduled_timeout_task : SUBSET (0 .. Never)]

-----------------------------------------------------------------------------
(* Times.                                                                  *)

LEMMA NeverFacts == Never \in Nat /\ MaxTime \in Nat /\ Never = MaxTime + 1
  BY RequestHandlingAssumption DEF Never

LEMMA SatAddFacts ==
  \A t, d \in 0 .. Never : /\ SatAdd(t, d, Never) \in 0 .. Never
                           /\ SatAdd(t, d, Never) >= t
                           /\ \A s \in 0 .. t : SatAdd(s, d, Never) <= SatAdd(t, d, Never)
  BY NeverFacts DEF SatAdd

-----------------------------------------------------------------------------
(* A queue as a value.                                                     *)

LEMMA EarliestType == \A S \in SUBSET RequestType : Earliest(S) \in SUBSET (0 .. Never)
  BY DEF Earliest, RequestType

LEMMA NewQueueType == NewRequestsQueue \in QueueType
  BY DEF NewRequestsQueue, QueueType

LEMMA RescheduleFacts ==
  ASSUME NEW q \in QueueType
  PROVE  /\ Reschedule(q) \in QueueType
         /\ Reschedule(q).requests = q.requests
         /\ Reschedule(q).scheduled_timeout_task = Earliest(q.requests)
  BY EarliestType DEF Reschedule, QueueType

LEMMA WithRequests ==
  ASSUME NEW q \in QueueType, NEW S \in SUBSET RequestType
  PROVE  LET p == Reschedule([q EXCEPT !.requests = S])
         IN  /\ p \in QueueType
             /\ p.requests = S
             /\ p.scheduled_timeout_task = Earliest(S)
<1>1. [q EXCEPT !.requests = S] \in QueueType
  BY DEF QueueType
<1>2. [q EXCEPT !.requests = S].requests = S
  BY DEF QueueType
<1> QED
  BY <1>1, <1>2, RescheduleFacts

LEMMA PushFacts ==
  ASSUME NEW q \in QueueType, NEW r \in RequestType
  PROVE  /\ PushRequest(q, r) \in QueueType
         /\ PushRequest(q, r).requests = q.requests \cup {r}
         /\ PushRequest(q, r).scheduled_timeout_task = Earliest(q.requests \cup {r})
<1>1. q.requests \cup {r} \in SUBSET RequestType
  BY DEF QueueType
<1> QED
  BY <1>1, WithRequests DEF PushRequest

LEMMA PullFacts ==
  ASSUME NEW q \in QueueType, NEW r
  PROVE  /\ PullRequest(q, r) \in QueueType
         /\ PullRequest(q, r).requests = q.requests \ {r}
         /\ PullRequest(q, r).scheduled_timeout_task = Earliest(q.requests \ {r})
<1>1. q.requests \ {r} \in SUBSET RequestType
  BY DEF QueueType
<1> QED
  BY <1>1, WithRequests DEF PullRequest

LEMMA WithoutExpiredFacts ==
  ASSUME NEW q \in QueueType, NEW now
  PROVE  /\ WithoutExpired(q, now) \in QueueType
         /\ WithoutExpired(q, now).requests = q.requests \ Expired(q, now)
         /\ WithoutExpired(q, now).scheduled_timeout_task = {}
         /\ Expired(q, now) \subseteq q.requests
         /\ \A r \in Expired(q, now) : r.timeout_end <= now
  BY DEF WithoutExpired, Expired, QueueType

-----------------------------------------------------------------------------
(* Modes.                                                                  *)

Modes == {Idle, InResponse, InCancel, InReap, InLater, Thrown} \cup {InTimeouts(i) : i \in Queues}

LEMMA ModesDiffer ==
  /\ Idle # InResponse /\ Idle # InCancel /\ Idle # InReap /\ Idle # Thrown
  /\ InResponse # InCancel /\ InResponse # InReap /\ InResponse # Thrown
  /\ InCancel # InReap /\ InCancel # Thrown /\ InReap # Thrown
  /\ InLater \notin {Idle, InResponse, InCancel, InReap, Thrown}
  /\ \A i \in Queues : InTimeouts(i) \notin {Idle, InResponse, InCancel, InReap, InLater, Thrown}
  /\ \A i, j \in Queues : InTimeouts(i) = InTimeouts(j) => i = j
  BY DEF Idle, InResponse, InCancel, InReap, InLater, Thrown, InTimeouts

-----------------------------------------------------------------------------
(* The invariant that all classes share: requests have the ids of calls     *)
(* made, each is in one place, and none is told of a timeout too early.     *)

Of(i) == queues[i].requests

SharedType ==
  /\ etime \in 0 .. MaxTime
  /\ deadlines \in Seq(0 .. Never)
  /\ queues \in [Queues -> QueueType]
  /\ base \in SUBSET RequestType
  /\ called \in SUBSET RequestType
  /\ cancelled \in SUBSET RequestType
  /\ alive \in BOOLEAN
  /\ mode \in Modes
  /\ result.id \in Nat

Known(S) == \A r \in S : r.id \in 1 .. Len(deadlines) /\ deadlines[r.id] <= r.timeout_end

KnownInv ==
  /\ Known(base) /\ Known(called) /\ Known(cancelled)
  /\ \A i \in Queues : Known(Of(i))

OneEach(S) == \A r, o \in S : r.id = o.id => r = o
Apart(S, T) == \A r \in S, o \in T : r.id # o.id

ApartInv ==
  /\ OneEach(base) /\ OneEach(called) /\ OneEach(cancelled)
  /\ Apart(base, called) /\ Apart(base, cancelled) /\ Apart(called, cancelled)
  /\ \A i \in Queues :
       /\ OneEach(Of(i))
       /\ Apart(Of(i), base) /\ Apart(Of(i), called) /\ Apart(Of(i), cancelled)
       /\ \A j \in Queues : i # j => Apart(Of(i), Of(j))

CalledInv ==
  /\ mode \in {Idle, InReap, InLater, Thrown} => called = {}
  /\ kind # "grouping" /\ mode = InResponse => called = {}
  /\ \A i \in Queues : mode = InTimeouts(i) => \A r \in called : r.timeout_end <= etime

\* The cancel task is made once, and leaves empty queues.
AliveInv == IF alive THEN cancelled = {} ELSE \A i \in Queues : Of(i) = {}

SharedInv ==
  SharedType /\ KnownInv /\ ApartInv /\ CalledInv /\ AliveInv /\ TimeoutTasksCover

LEMMA KnownFacts ==
  ASSUME SharedType, NEW S \in SUBSET RequestType, Known(S), NEW r \in S
  PROVE  /\ r.id \in 1 .. Len(deadlines)
         /\ deadlines[r.id] \in 0 .. Never /\ r.timeout_end \in 0 .. Never /\ etime \in 0 .. Never
         /\ deadlines[r.id] <= r.timeout_end
         /\ r.timeout_end <= etime => deadlines[r.id] <= etime
<1>1. r.id \in 1 .. Len(deadlines) /\ deadlines[r.id] <= r.timeout_end
  BY DEF Known
<1>2. r.timeout_end \in 0 .. Never
  BY DEF RequestType
<1>3. etime \in 0 .. Never /\ deadlines \in Seq(0 .. Never)
  BY NeverFacts DEF SharedType
<1>4. deadlines[r.id] \in 0 .. Never
  <2> DEFINE T == 0 .. Never
  <2>1. deadlines \in Seq(T)
    BY <1>3
  <2> HIDE DEF T
  <2>2. deadlines[r.id] \in T
    BY <1>1, <2>1
  <2> QED
    BY <2>2 DEF T
<1>5. r.timeout_end <= etime => deadlines[r.id] <= etime
  BY <1>1, <1>2, <1>3, <1>4, NeverFacts
<1> QED
  BY <1>1, <1>2, <1>3, <1>4, <1>5

(* Requests that leave disturb nobody. *)
LEMMA FewerRequests ==
  ASSUME UNCHANGED deadlines, base' \subseteq base, called' \subseteq called,
         cancelled' \subseteq cancelled, \A i \in Queues : Of(i)' \subseteq Of(i)
  PROVE  (KnownInv => KnownInv') /\ (ApartInv => ApartInv') /\ (AliveInv /\ UNCHANGED alive => AliveInv')
<1>1. ASSUME KnownInv PROVE KnownInv'
  BY <1>1 DEF KnownInv, Known
<1>2. ASSUME ApartInv PROVE ApartInv'
  <2>1. /\ OneEach(base)' /\ OneEach(called)' /\ OneEach(cancelled)'
        /\ Apart(base, called)' /\ Apart(base, cancelled)' /\ Apart(called, cancelled)'
    BY <1>2 DEF ApartInv, OneEach, Apart
  <2>2. ASSUME NEW i \in Queues
        PROVE  /\ OneEach(Of(i)')
               /\ Apart(Of(i)', base') /\ Apart(Of(i)', called') /\ Apart(Of(i)', cancelled')
               /\ \A j \in Queues : i # j => Apart(Of(i)', Of(j)')
    BY <1>2 DEF ApartInv, OneEach, Apart
  <2> QED
    BY <2>1, <2>2 DEF ApartInv
<1>3. ASSUME AliveInv, alive' = alive PROVE AliveInv'
  BY <1>3 DEF AliveInv
<1> QED
  BY <1>1, <1>2, <1>3

-----------------------------------------------------------------------------
(* The requests that are open, by their place.                             *)

InOne(n) ==
  \/ \E r \in base : r.id = n
  \/ \E r \in called : r.id = n
  \/ \E r \in cancelled : r.id = n
  \/ \E i \in Queues : \E r \in Of(i) : r.id = n

LEMMA OpenIs == \A n : n \in Open <=> InOne(n)
  BY DEF Open, IdsOf, Pending, InOne, Of

LEMMA OpenNextIs == \A n : n \in Open' <=> InOne(n)'
  BY DEF Open, IdsOf, Pending, InOne, Of

(* What a step is in the terms of the contract.                            *)

Stutters == UNCHANGED <<etime, deadlines, result>> /\ Open' = Open

Plain == INSTANCE RequestHandler WITH Times <- 0 .. Never, open <- Open, copies <- {}

\* A step that gives no copies, as every class but grouping takes.
ContractStep == Plain!Next \/ Stutters


\* Requests that move keep their ids.
LEMMA StutterIfMoved ==
  ASSUME UNCHANGED <<etime, deadlines, result>>, \A n : InOne(n)' <=> InOne(n)
  PROVE  ContractStep /\ Stutters
<1>1. Open' = Open
  BY OpenIs, OpenNextIs
<1> QED
  BY <1>1 DEF ContractStep, Stutters

LEMMA AnswerIfGone ==
  ASSUME UNCHANGED <<etime, deadlines>>,
         NEW m, InOne(m), \A n : InOne(n)' <=> InOne(n) /\ n # m,
         result'.id = m, result'.res = "timed out" => deadlines[m] <= etime
  PROVE  ContractStep
<1>1. Open' = Open \ {m} /\ m \in Open
  BY OpenIs, OpenNextIs
<1> QED
  BY <1>1 DEF ContractStep, Plain!Next, Plain!Answer

LEMMA NewIfAccepted ==
  ASSUME SharedType, UNCHANGED <<etime, result>>,
         NEW t \in etime .. Never, deadlines' = Append(deadlines, t),
         \A n : InOne(n)' <=> InOne(n) \/ n = Len(deadlines) + 1
  PROVE  ContractStep
<1>1. Open' = Open \cup {Len(deadlines) + 1}
  BY OpenIs, OpenNextIs
<1>2. t \in 0 .. Never /\ t >= etime
  BY NeverFacts DEF SharedType
<1> QED
  BY <1>1, <1>2 DEF ContractStep, Plain!Next, Plain!HandleRequest

\* A step of any class.
CopiesStep == Contract!Next \/ UNCHANGED Contract!vars

LEMMA CopiesStepIs == CopiesStep <=> [Contract!Next]_(Contract!vars)
  BY DEF CopiesStep

LEMMA NoCopies ==
  ASSUME ContractStep, Copies = {}, Copies' = {}
  PROVE  CopiesStep
<1>1. CASE Plain!HandleRequest
  BY <1>1 DEF Plain!HandleRequest, Contract!HandleRequest, CopiesStep, Contract!Next
<1>2. CASE Plain!Answer
  BY <1>2 DEF Plain!Answer, Contract!Answer, CopiesStep, Contract!Next
<1>3. CASE Plain!AnswerCopy
  BY <1>3 DEF Plain!AnswerCopy
<1>4. CASE Plain!Advance
  BY <1>4 DEF Plain!Advance, Contract!Advance, CopiesStep, Contract!Next
<1>5. CASE Stutters
  BY <1>5 DEF Stutters, CopiesStep, Contract!vars
<1> QED
  BY <1>1, <1>2, <1>3, <1>4, <1>5 DEF ContractStep, Plain!Next

-----------------------------------------------------------------------------
(* A call: the new request gets the next id, in a queue or at the base.     *)

LEMMA RequestFacts ==
  ASSUME SharedType, NEW timeout \in 0 .. Never
  PROVE  /\ Request(timeout) \in RequestType
         /\ Request(timeout).id = Len(deadlines) + 1
         /\ Request(timeout).timeout_end \in etime .. Never
         /\ Request(timeout).timeout_end = SatAdd(etime, timeout, Never)
<1>1. etime \in 0 .. Never /\ Len(deadlines) \in Nat
  BY NeverFacts DEF SharedType
<1>2. SatAdd(etime, timeout, Never) \in etime .. Never
  <2>1. SatAdd(etime, timeout, Never) \in 0 .. Never /\ SatAdd(etime, timeout, Never) >= etime
    BY <1>1, SatAddFacts
  <2> QED
    BY <1>1, <2>1, NeverFacts
<1> QED
  BY <1>1, <1>2, NeverFacts DEF Request, RequestType

NewRequest(r) ==
  r \in RequestType /\ r.id = Len(deadlines) + 1 /\ r.timeout_end \in etime .. Never

LEMMA AcceptFacts ==
  ASSUME SharedType, KnownInv, NEW r, NewRequest(r), Accept(r)
  PROVE  /\ deadlines' \in Seq(0 .. Never)
         /\ Len(deadlines') = Len(deadlines) + 1
         /\ deadlines'[r.id] = r.timeout_end
         /\ \A S : Known(S) => \A o \in S : /\ o.id # r.id
                                             /\ o.id \in 1 .. Len(deadlines')
                                             /\ deadlines'[o.id] <= o.timeout_end
         /\ UNCHANGED <<etime, alive, mode, called, cancelled, result>>
<1>1. r.timeout_end \in 0 .. Never
  BY DEF NewRequest, RequestType
<1>2. deadlines' = Append(deadlines, r.timeout_end)
      /\ UNCHANGED <<etime, alive, mode, called, cancelled, result>>
  BY DEF Accept
<1>3. /\ deadlines' \in Seq(0 .. Never)
      /\ Len(deadlines') = Len(deadlines) + 1
      /\ deadlines'[Len(deadlines) + 1] = r.timeout_end
      /\ \A n \in 1 .. Len(deadlines) : deadlines'[n] = deadlines[n]
  BY <1>1, <1>2 DEF SharedType
<1>4. Len(deadlines) \in Nat
  BY DEF SharedType
<1>5. \A S : Known(S) => \A o \in S : /\ o.id # r.id
                                      /\ o.id \in 1 .. Len(deadlines')
                                      /\ deadlines'[o.id] <= o.timeout_end
  BY <1>3, <1>4 DEF Known, NewRequest
<1> QED
  BY <1>2, <1>3, <1>5 DEF NewRequest, Known

(* The request goes to a queue or to the base handler. *)
LEMMA NewStep ==
  ASSUME SharedInv, UNCHANGED kind, NEW r, NewRequest(r), Accept(r),
         \/ \E i \in Queues : /\ queues' = [queues EXCEPT ![i] = PushRequest(@, r)]
                              /\ UNCHANGED base
         \/ base' = base \cup {r} /\ UNCHANGED queues
  PROVE  SharedInv' /\ ContractStep
<1> USE DEF SharedInv
<1>1. /\ deadlines' \in Seq(0 .. Never)
      /\ Len(deadlines') = Len(deadlines) + 1
      /\ deadlines'[r.id] = r.timeout_end
      /\ UNCHANGED <<etime, alive, mode, called, cancelled, result>>
      /\ \A S : Known(S) => \A o \in S : /\ o.id # r.id
                                         /\ o.id \in 1 .. Len(deadlines')
                                         /\ deadlines'[o.id] <= o.timeout_end
  BY AcceptFacts
<1>2. /\ r \in RequestType /\ r.id = Len(deadlines) + 1 /\ r.timeout_end \in etime .. Never
      /\ r.id \in 1 .. Len(deadlines')
  BY <1>1 DEF NewRequest, SharedType
<1>3. /\ \A o \in base : o.id # r.id /\ o.id \in 1 .. Len(deadlines')
                         /\ deadlines'[o.id] <= o.timeout_end
      /\ \A o \in called : o.id # r.id /\ o.id \in 1 .. Len(deadlines')
                           /\ deadlines'[o.id] <= o.timeout_end
      /\ \A o \in cancelled : o.id # r.id /\ o.id \in 1 .. Len(deadlines')
                              /\ deadlines'[o.id] <= o.timeout_end
      /\ \A j \in Queues : \A o \in Of(j) : o.id # r.id /\ o.id \in 1 .. Len(deadlines')
                                            /\ deadlines'[o.id] <= o.timeout_end
  BY <1>1 DEF KnownInv
<1>4. CASE \E i \in Queues : /\ queues' = [queues EXCEPT ![i] = PushRequest(@, r)]
                             /\ UNCHANGED base
  <2> PICK i \in Queues : queues' = [queues EXCEPT ![i] = PushRequest(@, r)] /\ UNCHANGED base
    BY <1>4
  <2>1. /\ queues[i] \in QueueType
        /\ queues' = [queues EXCEPT ![i] = PushRequest(queues[i], r)]
    BY DEF SharedType
  <2>2. /\ PushRequest(queues[i], r) \in QueueType
        /\ PushRequest(queues[i], r).requests = Of(i) \cup {r}
        /\ PushRequest(queues[i], r).scheduled_timeout_task = Earliest(Of(i) \cup {r})
    BY <1>2, <2>1, PushFacts DEF Of
  <2>3. /\ queues' \in [Queues -> QueueType]
        /\ Of(i)' = Of(i) \cup {r}
        /\ \A j \in Queues : j # i => Of(j)' = Of(j)
        /\ queues[i]'.scheduled_timeout_task = Earliest(Of(i)')
        /\ \A j \in Queues : j # i => queues[j]' = queues[j]
    BY <2>1, <2>2 DEF SharedType, Of
  <2>4. SharedType'
    BY <1>1, <2>3 DEF SharedType
  <2>5. KnownInv'
    BY <1>1, <1>2, <1>3, <2>3 DEF KnownInv, Known
  <2>6. ApartInv'
    BY <1>1, <1>3, <2>3 DEF ApartInv, OneEach, Apart
  <2>7. CalledInv' /\ AliveInv'
    BY <1>1, <2>3 DEF CalledInv, AliveInv, Accept
  <2>8. TimeoutTasksCover'
    BY <1>1, <2>3 DEF TimeoutTasksCover, Of
  <2>9. \A n : InOne(n)' <=> InOne(n) \/ n = Len(deadlines) + 1
    BY <1>1, <1>2, <2>3 DEF InOne
  <2>10. ContractStep
    BY <1>1, <1>2, <2>9, NewIfAccepted DEF Accept
  <2> QED
    BY <2>4, <2>5, <2>6, <2>7, <2>8, <2>10
<1>5. CASE base' = base \cup {r} /\ UNCHANGED queues
  <2>3. \A j \in Queues : Of(j)' = Of(j)
    BY <1>5 DEF Of
  <2>4. SharedType'
    BY <1>1, <1>2, <1>5 DEF SharedType
  <2>5. KnownInv'
    BY <1>1, <1>2, <1>3, <1>5, <2>3 DEF KnownInv, Known
  <2>6. ApartInv'
    BY <1>1, <1>3, <1>5, <2>3 DEF ApartInv, OneEach, Apart
  <2>7. CalledInv' /\ AliveInv'
    BY <1>1, <2>3 DEF CalledInv, AliveInv, Accept
  <2>8. TimeoutTasksCover'
    BY <1>1, <1>5 DEF TimeoutTasksCover
  <2>9. \A n : InOne(n)' <=> InOne(n) \/ n = Len(deadlines) + 1
    BY <1>1, <1>2, <1>5, <2>3 DEF InOne
  <2>10. ContractStep
    BY <1>1, <1>2, <2>9, NewIfAccepted DEF Accept
  <2> QED
    BY <2>4, <2>5, <2>6, <2>7, <2>8, <2>10
<1> QED
  BY <1>4, <1>5

-----------------------------------------------------------------------------
(* The base handler answers one of its requests.                           *)

LEMMA AnswerStep ==
  ASSUME SharedInv, UNCHANGED kind, NEW r \in base, NEW res, Answer(r, res)
  PROVE  SharedInv' /\ ContractStep
<1> USE DEF SharedInv
<1>1. /\ mode = Idle /\ mode' = InResponse
      /\ res = "timed out" => r.timeout_end <= etime
      /\ base' = base \ {r}
      /\ result'.id = r.id /\ result'.res = res
      /\ UNCHANGED <<etime, deadlines, queues, alive, called, cancelled>>
  BY DEF Answer
<1>2. called = {}
  BY <1>1 DEF CalledInv
<1>3. \A j \in Queues : Of(j)' = Of(j)
  BY <1>1 DEF Of
<1>r. r.id \in Nat
  BY DEF SharedInv, SharedType, RequestType
<1>4. SharedType'
  BY <1>r, <1>1 DEF SharedType, Modes
<1>5. KnownInv'
  BY <1>1, <1>3 DEF KnownInv, Known
<1>6. ApartInv'
  <2>1. base' \subseteq base /\ called' = called /\ cancelled' = cancelled
    BY <1>1
  <2> QED
    BY <2>1, <1>3 DEF ApartInv, OneEach, Apart
<1>7. CalledInv' /\ AliveInv'
  BY <1>1, <1>2, <1>3, ModesDiffer DEF CalledInv, AliveInv
<1>8. TimeoutTasksCover'
  BY <1>1, ModesDiffer DEF TimeoutTasksCover
<1>9. InOne(r.id) /\ \A n : InOne(n)' <=> InOne(n) /\ n # r.id
  <2>1. called' = called /\ cancelled' = cancelled
        /\ \A o : o \in base' <=> o \in base /\ o.id # r.id
    BY <1>1 DEF ApartInv, OneEach
  <2>2. /\ \A o \in called : o.id # r.id
        /\ \A o \in cancelled : o.id # r.id
        /\ \A j \in Queues : \A o \in Of(j) : o.id # r.id
    BY DEF ApartInv, Apart
  <2> QED
    BY <2>1, <2>2, <1>3 DEF InOne
<1>10. result'.res = "timed out" => deadlines[r.id] <= etime
  <2>1. base \in SUBSET RequestType /\ Known(base)
    BY DEF SharedType, KnownInv
  <2>2. r.timeout_end <= etime => deadlines[r.id] <= etime
    BY <2>1, KnownFacts
  <2> QED
    BY <2>2, <1>1
<1>11. ContractStep
  BY <1>1, <1>9, <1>10, AnswerIfGone
<1> QED
  BY <1>4, <1>5, <1>6, <1>7, <1>8, <1>11

-----------------------------------------------------------------------------
(* Pending requests are forwarded to the base handler.                     *)

LEMMA ForwardedFacts ==
  ASSUME SharedType, NEW r \in RequestType
  PROVE  /\ Forwarded(r) \in RequestType
         /\ Forwarded(r).id = r.id
         /\ Forwarded(r).timeout_end >= r.timeout_end
<1>1. etime \in 0 .. Never /\ r.timeout_end \in 0 .. Never
  BY NeverFacts DEF SharedType, RequestType
<1>2. SatAdd(etime, Remaining(r, etime), Never) \in r.timeout_end .. Never
  BY <1>1, NeverFacts DEF SatAdd, Remaining
<1> QED
  BY <1>1, <1>2, NeverFacts DEF Forwarded, RequestType

\* The handlers have returned; a first request of some queue may go.
LEMMA ForwardStep ==
  ASSUME SharedInv, UNCHANGED kind, ResponseReturned, called = {},
         \/ UNCHANGED <<queues, base>>
         \/ \E i \in Queues : ForwardNext(i)
  PROVE  SharedInv' /\ ContractStep
<1> USE DEF SharedInv
<1>1. /\ mode' = Idle
      /\ UNCHANGED <<etime, deadlines, alive, called, cancelled, result>>
  BY DEF ResponseReturned
<1>2. CalledInv' 
  BY <1>1, ModesDiffer DEF CalledInv
<1>3. mode = InResponse
  BY DEF ResponseReturned
<1>4. \A j \in Queues : queues[j].scheduled_timeout_task = Earliest(Of(j))
  BY <1>3, ModesDiffer DEF TimeoutTasksCover, Of
<1>5. CASE UNCHANGED <<queues, base>>
  <2>1. \A j \in Queues : Of(j)' = Of(j)
    BY <1>5 DEF Of
  <2>2. SharedType'
    BY <1>1, <1>5 DEF SharedType, Modes
  <2>3. KnownInv'
    BY <1>1, <1>5, <2>1 DEF KnownInv, Known
  <2>4. ApartInv'
    BY <1>1, <1>5, <2>1 DEF ApartInv, OneEach, Apart
  <2>5. TimeoutTasksCover' /\ AliveInv'
    BY <1>1, <1>5, <1>4, <2>1 DEF TimeoutTasksCover, Of, AliveInv
  <2>6. ContractStep
    BY <1>1, <1>5, <2>1, StutterIfMoved DEF InOne
  <2> QED
    BY <1>2, <2>2, <2>3, <2>4, <2>5, <2>6
<1>6. CASE \E i \in Queues : ForwardNext(i)
  <2> PICK i \in Queues : ForwardNext(i)
    BY <1>6
  <2> PICK r \in queues[i].requests : /\ queues' = [queues EXCEPT ![i] = PullRequest(@, r)]
                                      /\ base' = base \cup {Forwarded(r)}
    BY DEF ForwardNext
  <2>1. /\ queues[i] \in QueueType
        /\ queues' = [queues EXCEPT ![i] = PullRequest(queues[i], r)]
        /\ r \in RequestType /\ r \in Of(i)
    BY DEF SharedType, QueueType, Of
  <2>2. /\ PullRequest(queues[i], r) \in QueueType
        /\ PullRequest(queues[i], r).requests = Of(i) \ {r}
        /\ PullRequest(queues[i], r).scheduled_timeout_task = Earliest(Of(i) \ {r})
    BY <2>1, PullFacts DEF Of
  <2>3. /\ queues' \in [Queues -> QueueType]
        /\ Of(i)' = Of(i) \ {r}
        /\ \A j \in Queues : j # i => Of(j)' = Of(j)
        /\ queues[i]'.scheduled_timeout_task = Earliest(Of(i)')
        /\ \A j \in Queues : j # i => queues[j]' = queues[j]
    BY <2>1, <2>2 DEF SharedType, Of
  <2> DEFINE f == Forwarded(r)
  <2>4. /\ f \in RequestType /\ f.id = r.id /\ f.timeout_end >= r.timeout_end
        /\ base' = base \cup {f}
    BY <2>1, ForwardedFacts
  <2> HIDE DEF f
  <2>5. SharedType'
    BY <1>1, <2>3, <2>4 DEF SharedType, Modes
  <2>6. KnownInv'
    <3>1. /\ r.id \in 1 .. Len(deadlines) /\ deadlines[r.id] <= r.timeout_end
          /\ r.timeout_end \in Int /\ f.timeout_end \in Int /\ deadlines[r.id] \in Int
      <4>1. Of(i) \in SUBSET RequestType /\ Known(Of(i))
        BY <2>1 DEF QueueType, Of, KnownInv
      <4>2. f.timeout_end \in 0 .. Never
        BY <2>4 DEF RequestType
      <4> QED
        BY <2>1, <4>1, <4>2, KnownFacts, NeverFacts
    <3>2. f.id \in 1 .. Len(deadlines) /\ deadlines[f.id] <= f.timeout_end
      BY <3>1, <2>4
    <3> QED
      BY <1>1, <2>3, <2>4, <3>2 DEF KnownInv, Known
  <2>7. ApartInv'
    BY <1>1, <2>1, <2>3, <2>4 DEF ApartInv, OneEach, Apart
  <2>8. TimeoutTasksCover' /\ AliveInv'
    BY <1>1, <1>4, <2>3 DEF TimeoutTasksCover, Of, AliveInv
  <2>9. \A n : InOne(n)' <=> InOne(n)
    BY <1>1, <2>1, <2>3, <2>4 DEF InOne
  <2>10. ContractStep
    BY <1>1, <2>9, StutterIfMoved
  <2> QED
    BY <1>2, <2>5, <2>6, <2>7, <2>8, <2>10
<1> QED
  BY <1>5, <1>6

-----------------------------------------------------------------------------
(* The tasks of the queues.                                                *)

LEMMA TimeoutTaskStep ==
  ASSUME SharedInv, UNCHANGED kind, NEW i \in Queues, TimeoutTask(i)
  PROVE  SharedInv' /\ ContractStep
<1> DEFINE E == Expired(queues[i], etime)
<1>a. SharedType /\ KnownInv /\ ApartInv /\ CalledInv /\ AliveInv /\ TimeoutTasksCover
  BY DEF SharedInv
<1>1. /\ mode = Idle
      /\ queues' = [queues EXCEPT ![i] = WithoutExpired(queues[i], etime)]
      /\ UNCHANGED <<etime, deadlines, base, alive, cancelled>>
      /\ \E r \in E : /\ mode' = InTimeouts(i) /\ called' = E \ {r}
                      /\ result'.id = r.id
  <2>1. CallFirst(E, "timed out", InTimeouts(i))
    BY DEF TimeoutTask
  <2> HIDE DEF E
  <2>2. \E r \in E : /\ mode' = InTimeouts(i) /\ called' = E \ {r}
                     /\ result'.id = r.id
    <3> PICK r \in E : /\ mode' = InTimeouts(i) /\ called' = E \ {r}
                       /\ result' = [id |-> r.id, res |-> "timed out"]
      BY <2>1 DEF CallFirst
    <3> QED
      OBVIOUS
  <2>3. /\ mode = Idle
        /\ queues' = [queues EXCEPT ![i] = WithoutExpired(queues[i], etime)]
        /\ UNCHANGED <<etime, deadlines, base, alive, cancelled>>
    BY DEF TimeoutTask
  <2> QED
    BY <2>2, <2>3
<1> PICK r \in E : mode' = InTimeouts(i) /\ called' = E \ {r} /\ result'.id = r.id
  BY <1>1
<1>2. /\ queues[i] \in QueueType
      /\ E \subseteq Of(i) /\ \A o \in E : o.timeout_end <= etime
      /\ WithoutExpired(queues[i], etime) \in QueueType
      /\ WithoutExpired(queues[i], etime).requests = Of(i) \ E
      /\ WithoutExpired(queues[i], etime).scheduled_timeout_task = {}
  BY <1>a, WithoutExpiredFacts DEF SharedType, Of
<1> HIDE DEF E
<1>3. /\ queues' \in [Queues -> QueueType]
      /\ Of(i)' = Of(i) \ E
      /\ queues[i]'.scheduled_timeout_task = {}
      /\ \A j \in Queues : j # i => Of(j)' = Of(j) /\ queues[j]' = queues[j]
  BY <1>a, <1>1, <1>2 DEF SharedType, Of
<1>4. Of(i) \in SUBSET RequestType /\ Known(Of(i)) /\ r \in Of(i)
  BY <1>a, <1>2 DEF SharedType, QueueType, Of, KnownInv
<1>5. called = {}
  BY <1>a, <1>1 DEF CalledInv
<1>r. r.id \in Nat
  BY <1>4 DEF RequestType
<1>6. SharedType'
  BY <1>r, <1>a, <1>1, <1>2, <1>3, <1>4 DEF SharedType, Modes
<1>7. KnownInv'
  BY <1>a, <1>1, <1>2, <1>3 DEF KnownInv, Known
<1>8. ApartInv'
  <2>1. called' \subseteq Of(i) /\ base' = base /\ cancelled' = cancelled
        /\ \A o \in called' : o \notin Of(i)'
    BY <1>1, <1>2, <1>3
  <2>2. \A j \in Queues : Of(j)' \subseteq Of(j)
    BY <1>3
  <2> QED
    BY <1>a, <2>1, <2>2 DEF ApartInv, OneEach, Apart
<1>9. CalledInv'
  <2>1. \A j \in Queues : mode' = InTimeouts(j) => \A o \in called' : o.timeout_end <= etime'
    BY <1>1, <1>2
  <2>2. mode' \notin {Idle, InResponse, InReap, InLater, Thrown}
    BY ModesDiffer
  <2> QED
    BY <2>1, <2>2 DEF CalledInv
<1>14. AliveInv'
  BY <1>a, <1>1, <1>3 DEF AliveInv
<1>10. TimeoutTasksCover'
  <2>1. \A j \in Queues : queues[j].scheduled_timeout_task = Earliest(Of(j))
    BY <1>a, <1>1, ModesDiffer DEF TimeoutTasksCover, Of
  <2> QED
    BY <1>3, <2>1 DEF TimeoutTasksCover, Of
<1>11. InOne(r.id) /\ \A n : InOne(n)' <=> InOne(n) /\ n # r.id
  <2>1. /\ base' = base /\ cancelled' = cancelled
        /\ \A o \in base : o.id # r.id
        /\ \A o \in cancelled : o.id # r.id
        /\ \A j \in Queues : j # i => \A o \in Of(j) : o.id # r.id
        /\ \A o \in Of(i) : o # r => o.id # r.id
    BY <1>a, <1>1, <1>4 DEF ApartInv, Apart, OneEach
  <2>2. \A o : o \in Of(i) /\ o # r <=> o \in Of(i)' \/ o \in called'
    BY <1>2, <1>3
  <2>3. InOne(r.id)
    BY <1>4 DEF InOne
  <2>4. ASSUME NEW n, InOne(n)' PROVE InOne(n) /\ n # r.id
    BY <1>3, <2>1, <2>2, <2>4 DEF InOne
  <2>5. ASSUME NEW n, InOne(n), n # r.id PROVE InOne(n)'
    BY <1>3, <1>5, <2>1, <2>2, <2>5 DEF InOne
  <2> QED
    BY <2>3, <2>4, <2>5
<1>12. deadlines[r.id] <= etime
  <2>1. r.timeout_end <= etime
    BY <1>2
  <2>2. r.timeout_end <= etime => deadlines[r.id] <= etime
    BY <1>a, <1>4, KnownFacts
  <2> QED
    BY <2>1, <2>2
<1>13. ContractStep
  BY <1>1, <1>11, <1>12, AnswerIfGone
<1> QED
  BY <1>6, <1>7, <1>8, <1>9, <1>14, <1>10, <1>13 DEF SharedInv

LEMMA CancelTaskStep ==
  ASSUME SharedInv, UNCHANGED kind, CancelTask
  PROVE  SharedInv' /\ ContractStep
<1>a. SharedType /\ KnownInv /\ ApartInv /\ CalledInv /\ AliveInv /\ TimeoutTasksCover
  BY DEF SharedInv
<1>1. /\ mode = Idle /\ cancelled' = {}
      /\ UNCHANGED <<etime, deadlines, queues, base, alive>>
      /\ \E r \in cancelled : /\ mode' = InCancel /\ called' = cancelled \ {r}
                              /\ result'.id = r.id /\ result'.res = "canceled"
  BY DEF CancelTask, CallFirst
<1> PICK r \in cancelled : /\ mode' = InCancel /\ called' = cancelled \ {r}
                           /\ result'.id = r.id /\ result'.res = "canceled"
  BY <1>1
<1>2. \A j \in Queues : Of(j)' = Of(j)
  BY <1>1 DEF Of
<1>3. called = {}
  BY <1>a, <1>1 DEF CalledInv
<1>r. r.id \in Nat
  BY DEF SharedInv, SharedType, RequestType
<1>4. SharedType'
  BY <1>r, <1>a, <1>1 DEF SharedType, Modes
<1>5. KnownInv'
  BY <1>a, <1>1, <1>2 DEF KnownInv, Known
<1>6. ApartInv'
  BY <1>a, <1>1, <1>2 DEF ApartInv, OneEach, Apart
<1>7. CalledInv' /\ AliveInv'
  BY <1>a, <1>1, <1>2, ModesDiffer DEF CalledInv, AliveInv
<1>8. TimeoutTasksCover'
  BY <1>a, <1>1, ModesDiffer DEF TimeoutTasksCover
<1>9. InOne(r.id) /\ \A n : InOne(n)' <=> InOne(n) /\ n # r.id
  <2>1. /\ base' = base
        /\ \A o \in base : o.id # r.id
        /\ \A j \in Queues : \A o \in Of(j) : o.id # r.id
        /\ \A o \in cancelled : o # r => o.id # r.id
    BY <1>a, <1>1 DEF ApartInv, Apart, OneEach
  <2>2. \A o : o \in cancelled /\ o # r <=> o \in called'
    OBVIOUS
  <2>3. InOne(r.id)
    BY DEF InOne
  <2>4. ASSUME NEW n, InOne(n)' PROVE InOne(n) /\ n # r.id
    BY <1>1, <1>2, <2>1, <2>2, <2>4 DEF InOne
  <2>5. ASSUME NEW n, InOne(n), n # r.id PROVE InOne(n)'
    BY <1>1, <1>2, <1>3, <2>1, <2>2, <2>5 DEF InOne
  <2> QED
    BY <2>3, <2>4, <2>5
<1>10. ContractStep
  BY <1>1, <1>9, AnswerIfGone
<1> QED
  BY <1>4, <1>5, <1>6, <1>7, <1>8, <1>10 DEF SharedInv

(* The next handler of those that a task has to call, in whatever mode. *)
LEMMA CalledLess ==
  ASSUME SharedInv, UNCHANGED kind, NEW r \in called, NEW res,
         UNCHANGED <<etime, deadlines, queues, base, alive, mode, cancelled>>,
         called' = called \ {r}, result' = [id |-> r.id, res |-> res]
  PROVE  /\ SharedInv'
         /\ InOne(r.id) /\ \A n : InOne(n)' <=> InOne(n) /\ n # r.id
<1>a. SharedType /\ KnownInv /\ ApartInv /\ CalledInv /\ AliveInv /\ TimeoutTasksCover
  BY DEF SharedInv
<1>1. /\ called' \subseteq called
      /\ etime' = etime /\ deadlines' = deadlines /\ queues' = queues /\ base' = base
      /\ alive' = alive /\ mode' = mode /\ cancelled' = cancelled /\ kind' = kind
      /\ result'.id = r.id /\ result'.res = res
  OBVIOUS
<1>2. \A j \in Queues : Of(j)' = Of(j)
  BY <1>1 DEF Of
<1>r. r.id \in Nat
  BY DEF SharedInv, SharedType, RequestType
<1>4. SharedType'
  BY <1>r, <1>a, <1>1 DEF SharedType
<1>5. KnownInv'
  BY <1>a, <1>1, <1>2 DEF KnownInv, Known
<1>6. ApartInv'
  <2>1. called' \subseteq called /\ base' = base /\ cancelled' = cancelled
    BY <1>1
  <2> QED
    BY <1>a, <1>1, <2>1, <1>2, FewerRequests
<1>7. CalledInv' /\ AliveInv'
  <2>1. CalledInv'
    BY <1>a, <1>1 DEF CalledInv
  <2>2. AliveInv'
    BY <1>a, <1>1, <1>2, FewerRequests
  <2> QED
    BY <2>1, <2>2
<1>8. TimeoutTasksCover'
  BY <1>a, <1>1 DEF TimeoutTasksCover
<1>9. InOne(r.id) /\ \A n : InOne(n)' <=> InOne(n) /\ n # r.id
  <2>1. /\ \A o \in base : o.id # r.id
        /\ \A o \in cancelled : o.id # r.id
        /\ \A j \in Queues : \A o \in Of(j) : o.id # r.id
        /\ \A o \in called : o # r => o.id # r.id
    BY <1>a DEF ApartInv, Apart, OneEach
  <2>2. \A o : o \in called /\ o # r <=> o \in called'
    OBVIOUS
  <2>3. InOne(r.id)
    BY DEF InOne
  <2>4. ASSUME NEW n, InOne(n)' PROVE InOne(n) /\ n # r.id
    BY <1>1, <1>2, <2>1, <2>2, <2>4 DEF InOne
  <2>5. ASSUME NEW n, InOne(n), n # r.id PROVE InOne(n)'
    BY <1>1, <1>2, <2>1, <2>2, <2>5 DEF InOne
  <2> QED
    BY <2>3, <2>4, <2>5
<1> QED
  BY <1>4, <1>5, <1>6, <1>7, <1>8, <1>9 DEF SharedInv

LEMMA CallNextStep ==
  ASSUME SharedInv, UNCHANGED kind, NEW r \in called, NEW res,
         UNCHANGED <<etime, deadlines, queues, base, alive, mode, cancelled>>,
         called' = called \ {r}, result' = [id |-> r.id, res |-> res],
         res = "timed out" => \E i \in Queues : mode = InTimeouts(i)
  PROVE  SharedInv' /\ ContractStep
<1>a. SharedType /\ KnownInv /\ CalledInv
  BY DEF SharedInv
<1>1. UNCHANGED <<etime, deadlines>> /\ result'.id = r.id /\ result'.res = res
  OBVIOUS
<1>2. SharedInv' /\ InOne(r.id) /\ \A n : InOne(n)' <=> InOne(n) /\ n # r.id
  BY CalledLess
<1>3. result'.res = "timed out" => deadlines[r.id] <= etime
  <2> SUFFICES ASSUME res = "timed out" PROVE deadlines[r.id] <= etime
    BY <1>1
  <2>1. r.timeout_end <= etime
    BY <1>a DEF CalledInv
  <2>2. called \in SUBSET RequestType /\ Known(called)
    BY <1>a DEF SharedType, KnownInv
  <2>3. r.timeout_end <= etime => deadlines[r.id] <= etime
    BY <1>a, <2>2, KnownFacts
  <2> QED
    BY <2>1, <2>3
<1> QED
  BY <1>1, <1>2, <1>3, AnswerIfGone

LEMMA QueueTaskReturnsStep ==
  ASSUME SharedInv, UNCHANGED kind, QueueTaskReturns
  PROVE  SharedInv' /\ ContractStep
<1>a. SharedType /\ KnownInv /\ ApartInv /\ CalledInv /\ AliveInv /\ TimeoutTasksCover
  BY DEF SharedInv
<1>1. /\ mode' = Idle /\ called = {} /\ called' = called
      /\ etime' = etime /\ deadlines' = deadlines /\ base' = base
      /\ alive' = alive /\ cancelled' = cancelled /\ result' = result
      /\ queues' = [i \in Queues |-> IF mode = InTimeouts(i) THEN Reschedule(queues[i])
                                     ELSE queues[i]]
  BY DEF QueueTaskReturns
<1>2. \A i \in Queues :
        /\ queues[i] \in QueueType
        /\ Reschedule(queues[i]) \in QueueType
        /\ Reschedule(queues[i]).requests = Of(i)
        /\ Reschedule(queues[i]).scheduled_timeout_task = Earliest(Of(i))
  BY <1>a, RescheduleFacts DEF SharedType, Of
<1>3. /\ queues' \in [Queues -> QueueType]
      /\ \A j \in Queues : Of(j)' = Of(j)
      /\ \A j \in Queues : queues[j]'.scheduled_timeout_task =
           IF mode = InTimeouts(j) THEN Earliest(Of(j)) ELSE queues[j].scheduled_timeout_task
  BY <1>1, <1>2 DEF Of
<1>4. SharedType'
  BY <1>a, <1>1, <1>3 DEF SharedType, Modes
<1>5. KnownInv' /\ ApartInv' /\ AliveInv'
  BY <1>a, <1>1, <1>3, FewerRequests
<1>6. CalledInv'
  BY <1>1, ModesDiffer DEF CalledInv
<1>7. TimeoutTasksCover'
  BY <1>a, <1>3 DEF TimeoutTasksCover, Of
<1>8. ContractStep
  BY <1>1, <1>3, StutterIfMoved DEF InOne
<1> QED
  BY <1>4, <1>5, <1>6, <1>7, <1>8 DEF SharedInv

LEMMA QueueTaskStep ==
  ASSUME SharedInv, UNCHANGED kind, QueueTask
  PROVE  SharedInv' /\ ContractStep
<1>1. ASSUME NEW i \in Queues, TimeoutTask(i) PROVE SharedInv' /\ ContractStep
  BY <1>1, TimeoutTaskStep
<1>2. CASE CancelTask
  BY <1>2, CancelTaskStep
<1>3. CASE NextHandler
  <2>1. CalledInv /\ SharedType
    BY DEF SharedInv
  <2>2. /\ mode \notin {Idle, InResponse}
        /\ UNCHANGED <<etime, deadlines, queues, base, alive, mode, cancelled>>
    BY <1>3 DEF NextHandler, CallFirst
  <2> DEFINE res == IF mode = InCancel THEN "canceled" ELSE "timed out"
  <2> PICK r \in called : called' = called \ {r} /\ result' = [id |-> r.id, res |-> res]
    BY <1>3 DEF NextHandler, CallFirst
  <2>3. mode \notin {InReap, InLater, Thrown}
    BY <2>1 DEF CalledInv
  <2>4. res = "timed out" => \E i \in Queues : mode = InTimeouts(i)
    BY <2>1, <2>2, <2>3 DEF SharedType, Modes
  <2> HIDE DEF res
  <2> QED
    BY <2>2, <2>4, CallNextStep
<1>4. CASE QueueTaskReturns
  BY <1>4, QueueTaskReturnsStep
<1> QED
  BY <1>1, <1>2, <1>3, <1>4 DEF QueueTask

-----------------------------------------------------------------------------
(* Destruction and time.                                                   *)

LEMMA DestroyStep ==
  ASSUME SharedInv, UNCHANGED kind, Destroy
  PROVE  SharedInv' /\ ContractStep /\ Stutters
<1>a. SharedType /\ KnownInv /\ ApartInv /\ CalledInv /\ AliveInv /\ TimeoutTasksCover
  BY DEF SharedInv
<1>1. /\ alive /\ alive' = FALSE /\ mode \in {Idle, InResponse}
      /\ etime' = etime /\ deadlines' = deadlines /\ base' = base /\ mode' = mode
      /\ called' = called /\ result' = result
      /\ cancelled' = UNION {Of(i) : i \in Queues}
      /\ queues' = [i \in Queues |-> NewRequestsQueue]
  BY DEF Destroy, Of
<1>2. cancelled = {}
  BY <1>a, <1>1 DEF AliveInv
<1>3. /\ queues' \in [Queues -> QueueType]
      /\ \A j \in Queues : Of(j)' = {} /\ queues[j]'.scheduled_timeout_task = {}
  BY <1>1, NewQueueType DEF Of, NewRequestsQueue
<1>4. \A r : r \in cancelled' <=> \E i \in Queues : r \in Of(i)
  BY <1>1
<1>5. \A i \in Queues : Of(i) \in SUBSET RequestType
  BY <1>a DEF SharedType, QueueType, Of
<1>6. SharedType'
  BY <1>a, <1>1, <1>3, <1>4, <1>5 DEF SharedType
<1>7. KnownInv'
  BY <1>a, <1>1, <1>3, <1>4 DEF KnownInv, Known
<1>8. ApartInv'
  <2>1. OneEach(base)' /\ OneEach(called)' /\ Apart(base, called)'
    BY <1>a, <1>1 DEF ApartInv, OneEach, Apart
  <2>2. OneEach(cancelled)'
    BY <1>a, <1>4 DEF ApartInv, OneEach, Apart
  <2>3. Apart(base, cancelled)' /\ Apart(called, cancelled)'
    BY <1>a, <1>1, <1>4 DEF ApartInv, Apart
  <2> QED
    BY <2>1, <2>2, <2>3, <1>3 DEF ApartInv, OneEach, Apart
<1>9. CalledInv' /\ AliveInv'
  BY <1>a, <1>1, <1>3 DEF CalledInv, AliveInv
<1>10. TimeoutTasksCover'
  BY <1>3 DEF TimeoutTasksCover, Earliest, Of
<1>11. ContractStep /\ Stutters
  BY <1>1, <1>2, <1>3, <1>4, StutterIfMoved DEF InOne
<1> QED
  BY <1>6, <1>7, <1>8, <1>9, <1>10, <1>11 DEF SharedInv

LEMMA AdvanceStep ==
  ASSUME SharedInv, UNCHANGED kind, Advance
  PROVE  SharedInv' /\ ContractStep
<1>a. SharedType /\ KnownInv /\ ApartInv /\ CalledInv /\ AliveInv /\ TimeoutTasksCover
  BY DEF SharedInv
<1>1. /\ etime' = etime + 1 /\ etime < MaxTime /\ mode = Idle
      /\ deadlines' = deadlines /\ queues' = queues /\ base' = base /\ alive' = alive
      /\ mode' = mode /\ called' = called /\ cancelled' = cancelled /\ result' = result
  BY DEF Advance
<1>2. \A j \in Queues : Of(j)' = Of(j)
  BY <1>1 DEF Of
<1>3. SharedType'
  BY <1>a, <1>1, NeverFacts DEF SharedType
<1>4. KnownInv' /\ ApartInv' /\ AliveInv'
  BY <1>a, <1>1, <1>2, FewerRequests
<1>5. CalledInv'
  BY <1>a, <1>1, ModesDiffer DEF CalledInv
<1>6. TimeoutTasksCover'
  BY <1>a, <1>1 DEF TimeoutTasksCover
<1>7. ContractStep
  <2>1. \A n : InOne(n)' <=> InOne(n)
    BY <1>1, <1>2 DEF InOne
  <2>2. Open' = Open
    BY <2>1, OpenIs, OpenNextIs
  <2>3. etime' > etime
    BY <1>a, <1>1, NeverFacts DEF SharedType
  <2> QED
    BY <1>1, <2>2, <2>3 DEF ContractStep, Plain!Next, Plain!Advance
<1> QED
  BY <1>3, <1>4, <1>5, <1>6, <1>7 DEF SharedInv

(* Steps that change only the fields of the class. *)
LEMMA OwnStep ==
  ASSUME SharedInv, UNCHANGED kind, UNCHANGED shared_vars
  PROVE  SharedInv' /\ ContractStep
<1>a. SharedType /\ KnownInv /\ ApartInv /\ CalledInv /\ AliveInv /\ TimeoutTasksCover
  BY DEF SharedInv
<1>1. /\ etime' = etime /\ deadlines' = deadlines /\ queues' = queues /\ base' = base
      /\ alive' = alive /\ mode' = mode /\ called' = called /\ cancelled' = cancelled
      /\ result' = result /\ kind' = kind
  BY DEF shared_vars
<1>2. \A j \in Queues : Of(j)' = Of(j)
  BY <1>1 DEF Of
<1>3. SharedType'
  BY <1>a, <1>1 DEF SharedType
<1>4. KnownInv' /\ ApartInv' /\ AliveInv'
  BY <1>a, <1>1, <1>2, FewerRequests
<1>5. CalledInv' /\ TimeoutTasksCover'
  BY <1>a, <1>1 DEF CalledInv, TimeoutTasksCover
<1>6. ContractStep
  BY <1>1, <1>2, StutterIfMoved DEF InOne
<1> QED
  BY <1>3, <1>4, <1>5, <1>6 DEF SharedInv

-----------------------------------------------------------------------------
(* What only one class does.                                               *)

LEMMA FirstQueue == 1 \in Queues
  BY RequestHandlingAssumption DEF Queues

(* A step that changes only the mode, between tasks and watches. *)
LEMMA ModeStep ==
  ASSUME SharedInv, UNCHANGED kind, mode \in {Idle, InReap}, mode' \in {Idle, InReap, Thrown},
         UNCHANGED <<etime, deadlines, queues, base, alive, called, cancelled, result>>
  PROVE  SharedInv' /\ ContractStep
<1>a. SharedType /\ KnownInv /\ ApartInv /\ CalledInv /\ AliveInv /\ TimeoutTasksCover
  BY DEF SharedInv
<1>1. /\ etime' = etime /\ deadlines' = deadlines /\ queues' = queues /\ base' = base
      /\ alive' = alive /\ called' = called /\ cancelled' = cancelled
      /\ result' = result /\ kind' = kind
  OBVIOUS
<1>2. \A j \in Queues : Of(j)' = Of(j)
  BY <1>1 DEF Of
<1>3. SharedType'
  BY <1>a, <1>1 DEF SharedType, Modes
<1>4. KnownInv' /\ ApartInv' /\ AliveInv'
  BY <1>a, <1>1, <1>2, FewerRequests
<1>5. CalledInv' /\ TimeoutTasksCover'
  BY <1>a, <1>1, ModesDiffer DEF CalledInv, TimeoutTasksCover
<1>6. ContractStep
  BY <1>1, <1>2, StutterIfMoved DEF InOne
<1> QED
  BY <1>3, <1>4, <1>5, <1>6 DEF SharedInv

(* A group leaves the queue and its handlers are called. *)
LEMMA GroupStep ==
  ASSUME SharedInv, UNCHANGED kind, kind = "grouping", NEW r \in base, NEW res,
         GroupingBaseAnswers(r, res)
  PROVE  SharedInv' /\ CopiesStep
<1>a. SharedType /\ KnownInv /\ ApartInv /\ CalledInv /\ AliveInv /\ TimeoutTasksCover
  BY DEF SharedInv
<1> DEFINE q == Reschedule([queues[1] EXCEPT !.requests = {}])
<1>1. /\ mode = Idle /\ mode' = InResponse
      /\ res = "timed out" => r.timeout_end <= etime
      /\ base' = base \ {r} /\ called' = Of(1)
      /\ result' = [id |-> r.id, res |-> res]
      /\ queues' = [queues EXCEPT ![1] = q]
      /\ UNCHANGED <<etime, deadlines, alive, cancelled>>
  BY DEF GroupingBaseAnswers, Of
<1>2. q \in QueueType /\ q.requests = {} /\ q.scheduled_timeout_task = Earliest({})
  BY <1>a, FirstQueue, WithRequests DEF SharedType
<1> HIDE DEF q
<1>3. /\ queues' \in [Queues -> QueueType]
      /\ Of(1)' = {} /\ \A j \in Queues : j # 1 => Of(j)' = Of(j) /\ queues[j]' = queues[j]
      /\ queues[1]'.scheduled_timeout_task = Earliest(Of(1)')
  BY <1>a, <1>1, <1>2, FirstQueue DEF SharedType, Of
<1>4. Of(1) \in SUBSET RequestType /\ Known(Of(1)) /\ called = {}
  BY <1>a, <1>1, FirstQueue DEF SharedType, QueueType, Of, KnownInv, CalledInv
<1>r. r.id \in Nat
  BY <1>a DEF SharedType, RequestType
<1>5. SharedType'
  BY <1>r, <1>a, <1>1, <1>3, <1>4 DEF SharedType, Modes
<1>6. KnownInv'
  BY <1>a, <1>1, <1>3, <1>4 DEF KnownInv, Known
<1>7. ApartInv'
  <2>1. base' \subseteq base /\ called' = Of(1) /\ cancelled' = cancelled
        /\ \A j \in Queues : Of(j)' \subseteq Of(j)
    BY <1>1, <1>3
  <2>2. /\ OneEach(base)' /\ OneEach(called)' /\ OneEach(cancelled)'
        /\ Apart(base, called)' /\ Apart(base, cancelled)' /\ Apart(called, cancelled)'
    BY <1>a, <2>1, FirstQueue DEF ApartInv, OneEach, Apart
  <2>3. ASSUME NEW i \in Queues
        PROVE  /\ OneEach(Of(i)')
               /\ Apart(Of(i)', base') /\ Apart(Of(i)', cancelled')
               /\ \A j \in Queues : i # j => Apart(Of(i)', Of(j)')
    BY <1>a, <2>1 DEF ApartInv, OneEach, Apart
  <2>4. ASSUME NEW i \in Queues PROVE Apart(Of(i)', called')
    BY <1>a, <2>1, <1>3, FirstQueue DEF ApartInv, Apart
  <2> QED
    BY <2>2, <2>3, <2>4 DEF ApartInv
<1>8. CalledInv'
  BY <1>1, ModesDiffer DEF CalledInv
<1>9. AliveInv' /\ TimeoutTasksCover'
  BY <1>a, <1>1, <1>3, ModesDiffer DEF AliveInv, TimeoutTasksCover, Of
<1>10. InOne(r.id) /\ \A n : InOne(n)' <=> InOne(n) /\ n # r.id
  <2>1. /\ \A o \in cancelled : o.id # r.id
        /\ \A j \in Queues : \A o \in Of(j) : o.id # r.id
        /\ \A o \in base : o # r => o.id # r.id
    BY <1>a DEF ApartInv, Apart, OneEach
  <2>2. \A o : o \in base /\ o # r <=> o \in base'
    BY <1>1
  <2>3. InOne(r.id)
    BY DEF InOne
  <2>4. ASSUME NEW n, InOne(n)' PROVE InOne(n) /\ n # r.id
    <3>1. CASE \E o \in base' \cup called' \cup cancelled' : o.id = n
      BY <1>1, <2>1, <2>2, <3>1, FirstQueue DEF InOne
    <3>2. ASSUME NEW j \in Queues, NEW o \in Of(j)', o.id = n PROVE InOne(n) /\ n # r.id
      BY <1>3, <2>1, <3>2, FirstQueue DEF InOne
    <3> QED
      BY <2>4, <3>1, <3>2 DEF InOne
  <2>5. ASSUME NEW n, InOne(n), n # r.id PROVE InOne(n)'
    BY <1>1, <1>3, <1>4, <2>1, <2>2, <2>5, FirstQueue DEF InOne
  <2> QED
    BY <2>3, <2>4, <2>5
<1>11. res = "timed out" => deadlines[r.id] <= etime
  <2>1. r.timeout_end <= etime => deadlines[r.id] <= etime
    BY <1>a, KnownFacts DEF KnownInv, SharedType
  <2> QED
    BY <2>1, <1>1
<1>12. CopiesStep
  <2>1. r.id \in Open /\ Open' = Open \ {r.id}
    BY <1>10, OpenIs, OpenNextIs
  <2>2. \A o \in called' : o.id \in Open'
    BY OpenNextIs DEF InOne
  <2>3. Copies = {} /\ Copies' \subseteq Open'
    BY <1>1, <2>2, ModesDiffer DEF Copies, IdsOf
  <2>4. result'.id = r.id /\ result'.res = res
    BY <1>1
  <2>5. Contract!Answer
    BY <1>1, <1>11, <2>1, <2>3, <2>4 DEF Contract!Answer
  <2> QED
    BY <2>5 DEF CopiesStep, Contract!Next
<1> QED
  BY <1>5, <1>6, <1>7, <1>8, <1>9, <1>12 DEF SharedInv

(* All that waits in the queue is forwarded. *)
LEMMA FactoryStep ==
  ASSUME SharedInv, UNCHANGED kind, FactoryAnswers
  PROVE  SharedInv' /\ ContractStep
<1>a. SharedType /\ KnownInv /\ ApartInv /\ CalledInv /\ AliveInv /\ TimeoutTasksCover
  BY DEF SharedInv
<1> DEFINE q == Reschedule([queues[1] EXCEPT !.requests = {}])
           F == {Forwarded(r) : r \in Of(1)}
<1>1. /\ mode = Idle
      /\ base' = base \cup F
      /\ queues' = [queues EXCEPT ![1] = q]
      /\ UNCHANGED <<etime, deadlines, alive, mode, called, cancelled, result>>
  BY DEF FactoryAnswers, Of
<1>2. q \in QueueType /\ q.requests = {} /\ q.scheduled_timeout_task = Earliest({})
  BY <1>a, FirstQueue, WithRequests DEF SharedType
<1> HIDE DEF q
<1>3. /\ queues' \in [Queues -> QueueType]
      /\ Of(1)' = {} /\ \A j \in Queues : j # 1 => Of(j)' = Of(j) /\ queues[j]' = queues[j]
      /\ queues[1]'.scheduled_timeout_task = Earliest(Of(1)')
  BY <1>a, <1>1, <1>2, FirstQueue DEF SharedType, Of
<1>4. Of(1) \in SUBSET RequestType /\ Known(Of(1))
  BY <1>a, FirstQueue DEF SharedType, QueueType, Of, KnownInv
<1>5. \A r \in Of(1) : /\ Forwarded(r) \in RequestType /\ Forwarded(r).id = r.id
                       /\ Forwarded(r).timeout_end >= r.timeout_end
  BY <1>a, <1>4, ForwardedFacts
<1>6. /\ \A f \in F : \E r \in Of(1) : f.id = r.id /\ f = Forwarded(r)
      /\ \A r \in Of(1) : \E f \in F : f.id = r.id
      /\ F \subseteq RequestType
  BY <1>5
<1>7. Known(F)
  <2>1. ASSUME NEW r \in Of(1)
        PROVE  /\ Forwarded(r).id \in 1 .. Len(deadlines)
               /\ deadlines[Forwarded(r).id] <= Forwarded(r).timeout_end
    <3>1. /\ r.id \in 1 .. Len(deadlines)
          /\ deadlines[r.id] \in 0 .. Never /\ r.timeout_end \in 0 .. Never
          /\ deadlines[r.id] <= r.timeout_end
      BY <1>a, <1>4, KnownFacts
    <3>2. Forwarded(r).timeout_end \in 0 .. Never /\ Forwarded(r).id = r.id
          /\ Forwarded(r).timeout_end >= r.timeout_end
      BY <1>5 DEF RequestType
    <3> QED
      BY <3>1, <3>2, NeverFacts
  <2> QED
    BY <2>1 DEF Known
<1>8. OneEach(F) /\ Apart(F, base) /\ Apart(base, F) /\ Apart(F, called) /\ Apart(F, cancelled)
      /\ \A j \in Queues : j # 1 => Apart(Of(j), F)
  <2>1. ASSUME NEW f \in F, NEW g \in F, f.id = g.id PROVE f = g
    BY <1>a, <1>6, <2>1, FirstQueue DEF ApartInv, OneEach
  <2>2. \A f \in F : \E r \in Of(1) : f.id = r.id
    BY <1>6
  <2> HIDE DEF F
  <2>3. OneEach(F)
    BY <2>1 DEF OneEach
  <2>4. Apart(F, base) /\ Apart(base, F) /\ Apart(F, called) /\ Apart(F, cancelled)
    BY <1>a, <2>2, FirstQueue DEF ApartInv, Apart
  <2>5. ASSUME NEW j \in Queues, j # 1 PROVE Apart(Of(j), F)
    BY <1>a, <2>2, <2>5, FirstQueue DEF ApartInv, Apart
  <2> QED
    BY <2>3, <2>4, <2>5
<1> HIDE DEF F
<1>9. SharedType'
  BY <1>a, <1>1, <1>3, <1>6 DEF SharedType
<1>10. KnownInv'
  BY <1>a, <1>1, <1>3, <1>7 DEF KnownInv, Known
<1>11. ApartInv'
  <2>1. /\ OneEach(base)' /\ OneEach(called)' /\ OneEach(cancelled)'
        /\ Apart(base, called)' /\ Apart(base, cancelled)' /\ Apart(called, cancelled)'
    BY <1>a, <1>1, <1>8 DEF ApartInv, OneEach, Apart
  <2>2. ASSUME NEW i \in Queues
        PROVE  /\ OneEach(Of(i)')
               /\ Apart(Of(i)', called') /\ Apart(Of(i)', cancelled')
               /\ \A j \in Queues : i # j => Apart(Of(i)', Of(j)')
    BY <1>a, <1>1, <1>3 DEF ApartInv, OneEach, Apart
  <2>3. ASSUME NEW i \in Queues PROVE Apart(Of(i)', base')
    BY <1>a, <1>1, <1>3, <1>8 DEF ApartInv, Apart
  <2> QED
    BY <2>1, <2>2, <2>3 DEF ApartInv
<1>12. CalledInv' /\ AliveInv' /\ TimeoutTasksCover'
  <2>1. mode' = mode /\ called' = called /\ cancelled' = cancelled /\ alive' = alive
        /\ etime' = etime
    BY <1>1
  <2>2. CalledInv' /\ AliveInv'
    BY <1>a, <2>1, <1>3 DEF CalledInv, AliveInv
  <2>3. TimeoutTasksCover'
    BY <1>a, <2>1, <1>3 DEF TimeoutTasksCover, Of
  <2> QED
    BY <2>2, <2>3
<1>13. ContractStep
  <2>1. \A n : InOne(n)' <=> InOne(n)
    BY <1>1, <1>3, <1>6, FirstQueue DEF InOne
  <2> QED
    BY <1>1, <2>1, StutterIfMoved
<1> QED
  BY <1>9, <1>10, <1>11, <1>12, <1>13 DEF SharedInv

(* A request at the base is made again, with a new timeout. *)
LEMMA RenewStep ==
  ASSUME SharedInv, UNCHANGED kind, NEW r \in base, NEW t \in 0 .. Never, deadlines[r.id] <= t,
         base' = (base \ {r}) \cup {[r EXCEPT !.timeout_end = t]},
         UNCHANGED <<etime, deadlines, queues, alive, mode, called, cancelled, result>>
  PROVE  SharedInv' /\ ContractStep
<1>a. SharedType /\ KnownInv /\ ApartInv /\ CalledInv /\ AliveInv /\ TimeoutTasksCover
  BY DEF SharedInv
<1> DEFINE f == [r EXCEPT !.timeout_end = t]
<1>1. /\ etime' = etime /\ deadlines' = deadlines /\ queues' = queues /\ alive' = alive
      /\ mode' = mode /\ called' = called /\ cancelled' = cancelled /\ result' = result
      /\ kind' = kind /\ base' = (base \ {r}) \cup {f}
  OBVIOUS
<1>2. f \in RequestType /\ f.id = r.id /\ f.timeout_end = t /\ r \in RequestType
  BY <1>a DEF SharedType, RequestType
<1> HIDE DEF f
<1>3. r.id \in 1 .. Len(deadlines)
  BY <1>a DEF KnownInv, Known
<1>4. \A j \in Queues : Of(j)' = Of(j)
  BY <1>1 DEF Of
<1>5. SharedType'
  BY <1>a, <1>1, <1>2 DEF SharedType
<1>6. KnownInv'
  BY <1>a, <1>1, <1>2, <1>3, <1>4 DEF KnownInv, Known
<1>7. ApartInv'
  <2>1. \A o \in base' : (o \in base /\ o # r) \/ o = f
    BY <1>1
  <2>2. /\ OneEach(base)' /\ OneEach(called)' /\ OneEach(cancelled)'
        /\ Apart(base, called)' /\ Apart(base, cancelled)' /\ Apart(called, cancelled)'
    BY <1>a, <1>1, <1>2, <2>1 DEF ApartInv, OneEach, Apart
  <2>3. ASSUME NEW i \in Queues
        PROVE  /\ OneEach(Of(i)')
               /\ Apart(Of(i)', called') /\ Apart(Of(i)', cancelled')
               /\ \A j \in Queues : i # j => Apart(Of(i)', Of(j)')
    BY <1>a, <1>1, <1>4 DEF ApartInv
  <2>4. ASSUME NEW i \in Queues PROVE Apart(Of(i)', base')
    BY <1>a, <1>1, <1>2, <1>4, <2>1 DEF ApartInv, Apart
  <2> QED
    BY <2>2, <2>3, <2>4 DEF ApartInv
<1>8. CalledInv'
  BY <1>a, <1>1 DEF CalledInv
<1>9. AliveInv' /\ TimeoutTasksCover'
  BY <1>a, <1>1, <1>4 DEF AliveInv, TimeoutTasksCover
<1>10. ContractStep
  <2>1. \A n : InOne(n)' <=> InOne(n)
    BY <1>1, <1>2, <1>4 DEF InOne
  <2> QED
    BY <1>1, <2>1, StutterIfMoved
<1> QED
  BY <1>5, <1>6, <1>7, <1>8, <1>9, <1>10 DEF SharedInv

(* The watcher of SIGCHLD pulls a request and calls its handler. *)
LEMMA PullStep ==
  ASSUME SharedInv, UNCHANGED kind, NEW r \in Of(1),
         queues' = [queues EXCEPT ![1] = PullRequest(@, r)],
         result' = [id |-> r.id, res |-> "ok"],
         UNCHANGED <<etime, deadlines, base, alive, mode, called, cancelled>>
  PROVE  SharedInv' /\ ContractStep
<1>a. SharedType /\ KnownInv /\ ApartInv /\ CalledInv /\ AliveInv /\ TimeoutTasksCover
  BY DEF SharedInv
<1>1. /\ etime' = etime /\ deadlines' = deadlines /\ base' = base /\ alive' = alive
      /\ mode' = mode /\ called' = called /\ cancelled' = cancelled
      /\ kind' = kind /\ result'.id = r.id /\ result'.res # "timed out"
  OBVIOUS
<1>2. /\ PullRequest(queues[1], r) \in QueueType
      /\ PullRequest(queues[1], r).requests = Of(1) \ {r}
      /\ PullRequest(queues[1], r).scheduled_timeout_task = Earliest(Of(1) \ {r})
  BY <1>a, FirstQueue, PullFacts DEF SharedType, Of
<1>3. /\ queues' \in [Queues -> QueueType]
      /\ Of(1)' = Of(1) \ {r}
      /\ \A j \in Queues : j # 1 => Of(j)' = Of(j) /\ queues[j]' = queues[j]
      /\ queues[1]'.scheduled_timeout_task = Earliest(Of(1)')
  BY <1>a, <1>2, FirstQueue DEF SharedType, Of
<1>r. r.id \in Nat
  BY <1>a, FirstQueue DEF SharedType, QueueType, RequestType, Of
<1>4. SharedType'
  BY <1>r, <1>a, <1>1, <1>3 DEF SharedType
<1>5. KnownInv' /\ ApartInv' /\ AliveInv'
  <2>1. \A j \in Queues : Of(j)' \subseteq Of(j)
    BY <1>3
  <2> QED
    BY <1>a, <1>1, <2>1, FewerRequests
<1>6. CalledInv'
  BY <1>a, <1>1 DEF CalledInv
<1>7. TimeoutTasksCover'
  BY <1>a, <1>1, <1>3 DEF TimeoutTasksCover, Of
<1>8. InOne(r.id) /\ \A n : InOne(n)' <=> InOne(n) /\ n # r.id
  <2>1. /\ \A o \in base : o.id # r.id
        /\ \A o \in called : o.id # r.id
        /\ \A o \in cancelled : o.id # r.id
        /\ \A j \in Queues : j # 1 => \A o \in Of(j) : o.id # r.id
        /\ \A o \in Of(1) : o # r => o.id # r.id
    BY <1>a, FirstQueue DEF ApartInv, Apart, OneEach
  <2>2. \A o : o \in Of(1) /\ o # r <=> o \in Of(1)'
    BY <1>3
  <2>3. InOne(r.id)
    BY FirstQueue DEF InOne
  <2>4. ASSUME NEW n, InOne(n)' PROVE InOne(n) /\ n # r.id
    BY <1>1, <1>3, <2>1, <2>2, <2>4 DEF InOne
  <2>5. ASSUME NEW n, InOne(n), n # r.id PROVE InOne(n)'
    BY <1>1, <1>3, <2>1, <2>2, <2>5 DEF InOne
  <2> QED
    BY <2>3, <2>4, <2>5
<1>9. ContractStep
  BY <1>1, <1>8, AnswerIfGone
<1> QED
  BY <1>4, <1>5, <1>6, <1>7, <1>9 DEF SharedInv

(* What the dispatcher has when the read ends: both queues in one. *)
LEMMA MergedFacts ==
  ASSUME SharedInv, 2 \in Queues
  PROVE  /\ Merged \in QueueType
         /\ Merged.requests \in SUBSET RequestType
         /\ Known(Merged.requests) /\ OneEach(Merged.requests)
         /\ \A m \in Merged.requests : \E o \in Of(1) \cup Of(2) : o.id = m.id
         /\ \A o \in Of(1) \cup Of(2) : \E m \in Merged.requests : o.id = m.id
         /\ Merged.requests = Of(1) \cup {Forwarded(r) : r \in Of(2)}
<1>a. SharedType /\ KnownInv /\ ApartInv
  BY DEF SharedInv
<1> DEFINE F == {Forwarded(r) : r \in Of(2)}
<1>1. /\ Of(1) \in SUBSET RequestType /\ Known(Of(1)) /\ OneEach(Of(1))
      /\ Of(2) \in SUBSET RequestType /\ Known(Of(2)) /\ OneEach(Of(2))
      /\ Apart(Of(1), Of(2))
  BY <1>a, FirstQueue DEF SharedType, QueueType, Of, KnownInv, ApartInv
<1>2. \A r \in Of(2) : /\ Forwarded(r) \in RequestType /\ Forwarded(r).id = r.id
                       /\ Forwarded(r).timeout_end >= r.timeout_end
  BY <1>a, <1>1, ForwardedFacts
<1>3. ASSUME NEW r \in Of(2)
      PROVE  /\ Forwarded(r).id \in 1 .. Len(deadlines)
             /\ deadlines[Forwarded(r).id] <= Forwarded(r).timeout_end
  <2>1. /\ r.id \in 1 .. Len(deadlines)
        /\ deadlines[r.id] \in 0 .. Never /\ r.timeout_end \in 0 .. Never
        /\ deadlines[r.id] <= r.timeout_end
    BY <1>a, <1>1, KnownFacts
  <2>2. Forwarded(r).timeout_end \in 0 .. Never /\ Forwarded(r).id = r.id
        /\ Forwarded(r).timeout_end >= r.timeout_end
    BY <1>2 DEF RequestType
  <2> QED
    BY <2>1, <2>2, NeverFacts
<1>4. queues[1] \in QueueType /\ Merged = [queues[1] EXCEPT !.requests = Of(1) \cup F]
  BY <1>a, FirstQueue DEF SharedType, Merged, Of
<1>5. /\ F \in SUBSET RequestType
      /\ \A f \in F : \E r \in Of(2) : f.id = r.id /\ f = Forwarded(r)
      /\ \A r \in Of(2) : \E f \in F : f.id = r.id
  BY <1>2
<1>6. Known(F)
  BY <1>3 DEF Known
<1>7. OneEach(F)
  BY <1>1, <1>5 DEF OneEach
<1> HIDE DEF F
<1>8. Apart(Of(1), F)
  BY <1>1, <1>5 DEF Apart
<1>9. Merged \in QueueType /\ Merged.requests = Of(1) \cup F
  BY <1>1, <1>4, <1>5 DEF QueueType
<1>10. Known(Of(1) \cup F) /\ OneEach(Of(1) \cup F)
  BY <1>1, <1>6, <1>7, <1>8 DEF Known, OneEach, Apart
<1>11. /\ \A m \in Of(1) \cup F : \E o \in Of(1) \cup Of(2) : o.id = m.id
       /\ \A o \in Of(1) \cup Of(2) : \E m \in Of(1) \cup F : o.id = m.id
  BY <1>5
<1> QED
  BY <1>1, <1>5, <1>9, <1>10, <1>11 DEF F

(* The read has ended: what remains waits in the first queue. *)
LEMMA MergeShared ==
  ASSUME SharedInv, UNCHANGED kind, kind # "grouping", 2 \in Queues, mode = Idle,
         NEW p \in QueueType, p.requests \subseteq Merged.requests,
         p.scheduled_timeout_task = Earliest(p.requests),
         queues' = [queues EXCEPT ![1] = p, ![2] = NewRequestsQueue],
         mode' \in {Idle, InResponse}, result'.id \in Nat,
         UNCHANGED <<etime, deadlines, base, alive, called, cancelled>>
  PROVE  /\ SharedInv'
         /\ Of(1)' = p.requests /\ Of(2)' = {}
         /\ \A j \in Queues : j \notin {1, 2} => Of(j)' = Of(j)
<1>a. SharedType /\ KnownInv /\ ApartInv /\ CalledInv /\ AliveInv /\ TimeoutTasksCover
  BY DEF SharedInv
<1>1. /\ etime' = etime /\ deadlines' = deadlines /\ base' = base /\ alive' = alive
      /\ called' = called /\ cancelled' = cancelled /\ kind' = kind
  OBVIOUS
<1>2. /\ queues' \in [Queues -> QueueType]
      /\ queues[1]' = p /\ queues[2]' = NewRequestsQueue
      /\ \A j \in Queues : j \notin {1, 2} => queues[j]' = queues[j]
  BY <1>a, FirstQueue, NewQueueType DEF SharedType
<1>3. /\ Of(1)' = p.requests /\ Of(2)' = {}
      /\ \A j \in Queues : j \notin {1, 2} => Of(j)' = Of(j)
  BY <1>2 DEF Of, NewRequestsQueue
<1>4. /\ p.requests \in SUBSET RequestType /\ Known(p.requests) /\ OneEach(p.requests)
      /\ \A m \in p.requests : \E o \in Of(1) \cup Of(2) : o.id = m.id
  BY MergedFacts DEF Known, OneEach
<1>5. SharedType'
  BY <1>a, <1>1, <1>2 DEF SharedType, Modes
<1>6. KnownInv'
  BY <1>a, <1>1, <1>3, <1>4 DEF KnownInv, Known
<1>7. ApartInv'
  <2>1. ASSUME NEW i \in Queues
        PROVE  Apart(p.requests, base) /\ Apart(p.requests, called) /\ Apart(p.requests, cancelled)
               /\ (i \notin {1, 2} => Apart(p.requests, Of(i)) /\ Apart(Of(i), p.requests))
    BY <1>a, <1>4, FirstQueue DEF ApartInv, Apart
  <2>2. /\ OneEach(base)' /\ OneEach(called)' /\ OneEach(cancelled)'
        /\ Apart(base, called)' /\ Apart(base, cancelled)' /\ Apart(called, cancelled)'
    BY <1>a, <1>1 DEF ApartInv
  <2>3. ASSUME NEW i \in Queues
        PROVE  /\ OneEach(Of(i)')
               /\ Apart(Of(i)', base') /\ Apart(Of(i)', called') /\ Apart(Of(i)', cancelled')
    <3>1. CASE i = 1
      BY <3>1, <1>1, <1>3, <1>4, <2>1
    <3>2. CASE i = 2
      BY <3>2, <1>3 DEF OneEach, Apart
    <3>3. CASE i \notin {1, 2}
      BY <3>3, <1>a, <1>1, <1>3 DEF ApartInv
    <3> QED
      BY <3>1, <3>2, <3>3
  <2>4. ASSUME NEW i \in Queues, NEW j \in Queues, i # j PROVE Apart(Of(i)', Of(j)')
    <3>1. CASE i = 2 \/ j = 2
      BY <3>1, <1>3 DEF Apart
    <3>2. CASE i = 1 /\ j \notin {1, 2}
      BY <3>2, <1>3, <2>1
    <3>3. CASE j = 1 /\ i \notin {1, 2}
      BY <3>3, <1>3, <2>1
    <3>4. CASE i \notin {1, 2} /\ j \notin {1, 2}
      BY <3>4, <2>4, <1>a, <1>3 DEF ApartInv
    <3> QED
      BY <2>4, <3>1, <3>2, <3>3, <3>4
  <2> QED
    BY <2>2, <2>3, <2>4 DEF ApartInv
<1>8. CalledInv'
  BY <1>a, <1>1, ModesDiffer DEF CalledInv
<1>9. AliveInv'
  <2>1. ~alive => p.requests = {}
    BY <1>a, <1>4, FirstQueue DEF AliveInv
  <2> QED
    BY <1>a, <1>1, <1>3, <2>1 DEF AliveInv
<1>10. TimeoutTasksCover'
  <2>1. ASSUME NEW j \in Queues
        PROVE  queues[j]'.scheduled_timeout_task = Earliest(queues[j]'.requests)
    <3>1. CASE j = 1
      BY <3>1, <1>2
    <3>2. CASE j = 2
      BY <3>2, <1>2 DEF NewRequestsQueue, Earliest
    <3>3. CASE j \notin {1, 2}
      BY <3>3, <1>a, <1>2, ModesDiffer DEF TimeoutTasksCover
    <3> QED
      BY <3>1, <3>2, <3>3
  <2> QED
    BY <2>1 DEF TimeoutTasksCover
<1> QED
  BY <1>3, <1>5, <1>6, <1>7, <1>8, <1>9, <1>10 DEF SharedInv

LEMMA DispatchStep ==
  ASSUME SharedInv, UNCHANGED kind, kind = "dispatch", 2 \in Queues,
         NEW candidates \in SUBSET Merged.requests, NEW res,
         res # "timed out" \/ candidates = {}, Dispatch(candidates, res)
  PROVE  SharedInv' /\ ContractStep
<1>a. SharedType /\ KnownInv /\ ApartInv /\ CalledInv /\ AliveInv /\ TimeoutTasksCover
  BY DEF SharedInv
<1>b. /\ mode = Idle /\ etime' = etime /\ deadlines' = deadlines /\ base' = base
      /\ alive' = alive /\ called' = called /\ cancelled' = cancelled
  BY DEF Dispatch
<1>1. CASE candidates = {}
  <2> DEFINE p == Reschedule(Merged)
  <2>1. /\ queues' = [queues EXCEPT ![1] = p, ![2] = NewRequestsQueue]
        /\ mode' = mode /\ result' = result
    BY <1>1 DEF Dispatch
  <2>2. /\ p \in QueueType /\ p.requests = Merged.requests
        /\ p.scheduled_timeout_task = Earliest(p.requests)
    BY MergedFacts, RescheduleFacts
  <2> HIDE DEF p
  <2>3. /\ SharedInv' /\ Of(1)' = p.requests /\ Of(2)' = {}
        /\ \A j \in Queues : j \notin {1, 2} => Of(j)' = Of(j)
    BY <1>a, <1>b, <2>1, <2>2, MergeShared DEF SharedType
  <2>4. \A n : InOne(n)' <=> InOne(n)
    <3>1. /\ \A m \in p.requests : \E o \in Of(1) \cup Of(2) : o.id = m.id
          /\ \A o \in Of(1) \cup Of(2) : \E m \in p.requests : o.id = m.id
      BY <2>2, MergedFacts
    <3>2. ASSUME NEW n, InOne(n)' PROVE InOne(n)
      <4>1. CASE \E o \in base' \cup called' \cup cancelled' : o.id = n
        BY <1>b, <4>1 DEF InOne
      <4>2. ASSUME NEW j \in Queues, NEW o \in Of(j)', o.id = n PROVE InOne(n)
        <5>1. CASE j = 1
          BY <2>3, <3>1, <4>2, <5>1, FirstQueue DEF InOne
        <5>2. CASE j = 2
          BY <2>3, <4>2, <5>2
        <5>3. CASE j \notin {1, 2}
          BY <2>3, <4>2, <5>3 DEF InOne
        <5> QED
          BY <5>1, <5>2, <5>3
      <4> QED
        BY <3>2, <4>1, <4>2 DEF InOne
    <3>3. ASSUME NEW n, InOne(n) PROVE InOne(n)'
      <4>1. ASSUME NEW j \in Queues, NEW o \in Of(j)
            PROVE  \E i \in Queues : \E m \in Of(i)' : m.id = o.id
        <5>1. CASE j \in {1, 2}
          BY <5>1, <2>3, <3>1, FirstQueue
        <5>2. CASE j \notin {1, 2}
          BY <5>2, <2>3
        <5> QED
          BY <5>1, <5>2
      <4> QED
        BY <1>b, <3>3, <4>1 DEF InOne
    <3> QED
      BY <3>2, <3>3
  <2> QED
    BY <1>b, <2>1, <2>3, <2>4, StutterIfMoved
<1>2. CASE candidates # {}
  <2> PICK r \in candidates :
        /\ queues' = [queues EXCEPT ![1] = PullRequest(Merged, r), ![2] = NewRequestsQueue]
        /\ mode' = InResponse
        /\ result' = [id |-> r.id, res |-> res]
    BY <1>2 DEF Dispatch
  <2> DEFINE p == PullRequest(Merged, r)
  <2>1. queues' = [queues EXCEPT ![1] = p, ![2] = NewRequestsQueue]
    OBVIOUS
  <2>2. /\ p \in QueueType /\ p.requests = Merged.requests \ {r}
        /\ p.scheduled_timeout_task = Earliest(p.requests)
    BY MergedFacts, PullFacts
  <2> HIDE DEF p
  <2>r. result'.id \in Nat
    BY MergedFacts DEF RequestType
  <2>3. /\ SharedInv' /\ Of(1)' = p.requests /\ Of(2)' = {}
        /\ \A j \in Queues : j \notin {1, 2} => Of(j)' = Of(j)
    BY <1>b, <2>r, <2>1, <2>2, MergeShared
  <2>4. InOne(r.id) /\ \A n : InOne(n)' <=> InOne(n) /\ n # r.id
    <3>1. /\ \A m \in p.requests : m.id # r.id /\ \E o \in Of(1) \cup Of(2) : o.id = m.id
          /\ \A o \in Of(1) \cup Of(2) : o.id # r.id => \E m \in p.requests : o.id = m.id
          /\ \E o \in Of(1) \cup Of(2) : o.id = r.id
      BY <2>2, MergedFacts DEF OneEach
    <3>2. /\ \A o \in base : o.id # r.id
          /\ \A o \in called : o.id # r.id
          /\ \A o \in cancelled : o.id # r.id
          /\ \A j \in Queues : j \notin {1, 2} => \A o \in Of(j) : o.id # r.id
      <4> PICK o \in Of(1) \cup Of(2) : o.id = r.id
        BY <3>1
      <4>1. PICK i \in {1, 2} : o \in Of(i)
        OBVIOUS
      <4>2. i \in Queues
        BY FirstQueue
      <4>3. /\ Apart(Of(i), base) /\ Apart(Of(i), called) /\ Apart(Of(i), cancelled)
            /\ \A j \in Queues : i # j => Apart(Of(i), Of(j))
        BY <1>a, <4>2 DEF ApartInv
      <4> QED
        BY <4>1, <4>3 DEF Apart
    <3>3. InOne(r.id)
      BY <3>1, FirstQueue DEF InOne
    <3>4. ASSUME NEW n, InOne(n)' PROVE InOne(n) /\ n # r.id
      <4>1. CASE \E o \in base' \cup called' \cup cancelled' : o.id = n
        BY <1>b, <3>2, <4>1 DEF InOne
      <4>2. ASSUME NEW j \in Queues, NEW o \in Of(j)', o.id = n PROVE InOne(n) /\ n # r.id
        <5>1. CASE j = 1
          BY <2>3, <3>1, <4>2, <5>1, FirstQueue DEF InOne
        <5>2. CASE j = 2
          BY <2>3, <4>2, <5>2
        <5>3. CASE j \notin {1, 2}
          BY <2>3, <3>2, <4>2, <5>3 DEF InOne
        <5> QED
          BY <5>1, <5>2, <5>3
      <4> QED
        BY <3>4, <4>1, <4>2 DEF InOne
    <3>5. ASSUME NEW n, InOne(n), n # r.id PROVE InOne(n)'
      <4>1. ASSUME NEW j \in Queues, NEW o \in Of(j), o.id # r.id
            PROVE  \E i \in Queues : \E m \in Of(i)' : m.id = o.id
        <5>1. CASE j \in {1, 2}
          BY <4>1, <5>1, <2>3, <3>1, FirstQueue
        <5>2. CASE j \notin {1, 2}
          BY <5>2, <2>3
        <5> QED
          BY <5>1, <5>2
      <4> QED
        BY <1>b, <3>5, <4>1 DEF InOne
    <3> QED
      BY <3>3, <3>4, <3>5
  <2>5. result'.id = r.id /\ result'.res # "timed out"
    BY <1>2
  <2>6. ContractStep
    BY <1>b, <2>4, <2>5, AnswerIfGone
  <2> QED
    BY <2>3, <2>6
<1> QED
  BY <1>1, <1>2

-----------------------------------------------------------------------------
(* The steps of each class.  What the handlers have in common first.        *)

LEMMA PassOnStep ==
  ASSUME SharedInv, UNCHANGED kind, NEW timeout \in 0 .. Never, PassOn(Request(timeout))
  PROVE  SharedInv' /\ ContractStep
<1>1. NewRequest(Request(timeout))
  BY RequestFacts DEF NewRequest, SharedInv
<1> QED
  BY <1>1, NewStep DEF PassOn

LEMMA EnqueueStep ==
  ASSUME SharedInv, UNCHANGED kind, NEW timeout \in 0 .. Never, NEW i \in Queues,
         Accept(Request(timeout)), Enqueue(i, Request(timeout)), UNCHANGED base
  PROVE  SharedInv' /\ ContractStep
<1>1. NewRequest(Request(timeout))
  BY RequestFacts DEF NewRequest, SharedInv
<1>2. \E j \in Queues : /\ queues' = [queues EXCEPT ![j] = PushRequest(@, Request(timeout))]
                        /\ UNCHANGED base
  BY DEF Enqueue
<1> QED
  BY <1>1, <1>2, NewStep

LEMMA AdmitStep ==
  ASSUME SharedInv, UNCHANGED kind, NEW timeout \in 0 .. Never, NEW i \in Queues, NEW waits,
         Admit(i, Request(timeout), waits)
  PROVE  SharedInv' /\ ContractStep
<1>1. CASE waits
  BY <1>1, EnqueueStep DEF Admit
<1>2. CASE ~waits
  BY <1>2, PassOnStep DEF Admit
<1> QED
  BY <1>1, <1>2

LEMMA ReturnStep ==
  ASSUME SharedInv, UNCHANGED kind, kind # "grouping", ResponseReturned,
         UNCHANGED <<queues, base>> \/ \E i \in Queues : ForwardPending(i)
  PROVE  SharedInv' /\ ContractStep
<1>1. called = {}
  BY DEF SharedInv, CalledInv, ResponseReturned
<1>2. UNCHANGED <<queues, base>> \/ \E i \in Queues : ForwardNext(i)
  BY DEF ForwardPending
<1> QED
  BY <1>1, <1>2, ForwardStep

LEMMA TimeoutsIs == Timeouts = 0 .. Never
  BY DEF Timeouts

LEMMA SequentialStep ==
  ASSUME SharedInv, UNCHANGED kind, kind = "sequential", SequentialNext
  PROVE  SharedInv' /\ ContractStep
<1> USE FirstQueue, TimeoutsIs
<1>1. ASSUME NEW timeout \in Timeouts, SequentialHandleRequest(timeout)
      PROVE  SharedInv' /\ ContractStep
  BY <1>1, AdmitStep DEF SequentialHandleRequest
<1>2. CASE SequentialSomeAnswer
  BY <1>2, AnswerStep DEF SequentialSomeAnswer, SequentialBaseAnswers
<1>3. CASE SequentialResponseReturns
  BY <1>3, ReturnStep DEF SequentialResponseReturns
<1>4. CASE QueueTask
  BY <1>4, QueueTaskStep
<1>5. CASE Destroy \/ Advance
  BY <1>5, DestroyStep, AdvanceStep
<1> QED
  BY <1>1, <1>2, <1>3, <1>4, <1>5 DEF SequentialNext, SequentialLoopStep

LEMMA MultiSequentialStep ==
  ASSUME SharedInv, UNCHANGED kind, kind = "multi_sequential", MultiSequentialNext
  PROVE  SharedInv' /\ ContractStep
<1>1. ASSUME NEW timeout \in Timeouts, MultiSequentialHandleRequest(timeout)
      PROVE  SharedInv' /\ ContractStep
  <2>1. Key(Request(timeout).id) \in Queues
    BY RequestFacts, TimeoutsIs, RequestHandlingAssumption DEF Key, Queues, SharedInv, SharedType
  <2> QED
    BY <1>1, <2>1, AdmitStep, TimeoutsIs DEF MultiSequentialHandleRequest
<1>2. CASE MultiSequentialSomeAnswer
  BY <1>2, AnswerStep DEF MultiSequentialSomeAnswer, MultiSequentialBaseAnswers
<1>3. CASE MultiSequentialResponseReturns
  <2>1. ForwardPending(Key(result.id)) /\ ResponseReturned
    BY <1>3 DEF MultiSequentialResponseReturns
  <2>2. Key(result.id) \in Queues
    BY RequestHandlingAssumption DEF Key, Queues, SharedInv, SharedType
  <2> QED
    BY <2>1, <2>2, ReturnStep
<1>4. CASE QueueTask
  BY <1>4, QueueTaskStep
<1>5. CASE Destroy \/ Advance
  BY <1>5, DestroyStep, AdvanceStep
<1> QED
  BY <1>1, <1>2, <1>3, <1>4, <1>5 DEF MultiSequentialNext, MultiSequentialLoopStep

LEMMA SemaphoreStep ==
  ASSUME SharedInv, UNCHANGED kind, kind = "semaphore", SemaphoreNext
  PROVE  SharedInv' /\ ContractStep
<1> USE FirstQueue, TimeoutsIs
<1>1. ASSUME NEW timeout \in Timeouts, SemaphoreHandleRequest(timeout)
      PROVE  SharedInv' /\ ContractStep
  BY <1>1, AdmitStep DEF SemaphoreHandleRequest
<1>2. CASE SemaphoreSomeAnswer
  BY <1>2, AnswerStep DEF SemaphoreSomeAnswer, SemaphoreBaseAnswers
<1>3. CASE SemaphoreResponseReturns
  BY <1>3, ReturnStep DEF SemaphoreResponseReturns
<1>4. CASE QueueTask
  BY <1>4, QueueTaskStep
<1>5. CASE Destroy \/ Advance
  BY <1>5, DestroyStep, AdvanceStep
<1> QED
  BY <1>1, <1>2, <1>3, <1>4, <1>5 DEF SemaphoreNext, SemaphoreLoopStep

LEMMA PrioritizingStep ==
  ASSUME SharedInv, UNCHANGED kind, kind = "prioritizing", PrioritizingNext
  PROVE  SharedInv' /\ ContractStep
<1>1. ASSUME NEW i \in Queues, NEW timeout \in Timeouts, PrioritizingHandleRequest(i, timeout)
      PROVE  SharedInv' /\ ContractStep
  BY <1>1, AdmitStep, TimeoutsIs DEF PrioritizingHandleRequest
<1>2. CASE PrioritizingSomeAnswer
  BY <1>2, AnswerStep DEF PrioritizingSomeAnswer, PrioritizingBaseAnswers
<1>3. CASE PrioritizingResponseReturns
  <2>1. /\ ResponseReturned
        /\ UNCHANGED <<queues, base>> \/ \E i \in Queues : ForwardNext(i)
    BY <1>3 DEF PrioritizingResponseReturns
  <2>2. called = {}
    BY <2>1 DEF SharedInv, CalledInv, ResponseReturned
  <2> QED
    BY <2>1, <2>2, ForwardStep
<1>4. CASE QueueTask
  BY <1>4, QueueTaskStep
<1>5. CASE Advance
  BY <1>5, AdvanceStep
<1> QED
  BY <1>1, <1>2, <1>3, <1>4, <1>5 DEF PrioritizingNext, PrioritizingLoopStep

LEMMA GroupingStep ==
  ASSUME SharedInv, UNCHANGED kind, kind = "grouping", GroupingNext
  PROVE  SharedInv' /\ CopiesStep
<1>a. SharedType /\ ApartInv /\ kind' = kind
  BY DEF SharedInv
<1>1. ASSUME NEW timeout \in Timeouts, GroupingHandleRequest(timeout)
      PROVE  SharedInv' /\ CopiesStep
  <2> DEFINE end == Request(timeout).timeout_end
  <2>1. SharedInv' /\ ContractStep
    BY <1>1, AdmitStep, FirstQueue, TimeoutsIs DEF GroupingHandleRequest
  <2>2. /\ UNCHANGED <<etime, mode, called, result>>
        /\ deadlines' = Append(deadlines, end)
    BY <1>1 DEF GroupingHandleRequest, Admit, PassOn, Accept
  <2> HIDE DEF end
  <2>3. deadlines' # deadlines
    BY <1>a, <2>2, AppendProperties DEF SharedType
  <2>4. Plain!HandleRequest
    BY <2>1, <2>3 DEF ContractStep, Stutters, Plain!Next, Plain!Answer, Plain!AnswerCopy,
                      Plain!Advance
  <2>5. Copies' = Copies
    BY <1>a, <2>2 DEF Copies, IdsOf
  <2>6. Contract!HandleRequest
    BY <2>4, <2>5 DEF Plain!HandleRequest, Contract!HandleRequest
  <2> QED
    BY <2>1, <2>6 DEF CopiesStep, Contract!Next
<1>2. CASE GroupingSomeAnswer
  BY <1>2, GroupStep DEF GroupingSomeAnswer
<1>3. CASE NextOfGroup
  <2>1. /\ mode = InResponse /\ mode' = InResponse
        /\ UNCHANGED <<etime, deadlines, queues, base, alive, mode, cancelled>>
    BY <1>3 DEF NextOfGroup, CallFirst
  <2>2. PICK r \in called : /\ called' = called \ {r}
                            /\ result' = [id |-> r.id, res |-> result.res]
    BY <1>3 DEF NextOfGroup, CallFirst
  <2>3. SharedInv' /\ InOne(r.id) /\ \A n : InOne(n)' <=> InOne(n) /\ n # r.id
    BY <2>1, <2>2, CalledLess
  <2>4. r.id \in Open /\ Open' = Open \ {r.id}
    BY <2>3, OpenIs, OpenNextIs
  <2>5. r.id \in Copies /\ Copies' = Copies \ {r.id}
    <3>1. \A o \in called : o # r => o.id # r.id
      BY <1>a DEF ApartInv, OneEach
    <3> QED
      BY <1>a, <2>1, <2>2, <3>1 DEF Copies, IdsOf
  <2>6. Contract!AnswerCopy
    BY <2>1, <2>2, <2>4, <2>5 DEF Contract!AnswerCopy
  <2> QED
    BY <2>3, <2>6 DEF CopiesStep, Contract!Next
<1>4. CASE GroupDone
  <2>1. SharedInv' /\ ContractStep
    BY <1>4, ForwardStep DEF GroupDone
  <2>2. called = {} /\ called' = {}
    BY <1>4 DEF GroupDone, ResponseReturned
  <2> QED
    BY <2>1, <2>2, NoCopies DEF Copies, IdsOf
<1>5. CASE QueueTask
  <2>1. SharedInv' /\ ContractStep
    BY <1>5, QueueTaskStep
  <2>2. mode # InResponse /\ mode' # InResponse
    BY <1>5, ModesDiffer DEF QueueTask, TimeoutTask, CancelTask, NextHandler, QueueTaskReturns,
                             CallFirst
  <2> QED
    BY <2>1, <2>2, NoCopies DEF Copies
<1>6. CASE Destroy
  <2>1. SharedInv' /\ Stutters
    BY <1>6, DestroyStep
  <2>2. Copies' = Copies
    BY <1>a, <1>6 DEF Destroy, Copies, IdsOf
  <2> QED
    BY <2>1, <2>2 DEF Stutters, CopiesStep, Contract!vars
<1>7. CASE Advance
  <2>1. SharedInv' /\ ContractStep
    BY <1>7, AdvanceStep
  <2>2. mode # InResponse /\ mode' # InResponse
    BY <1>7, ModesDiffer DEF Advance
  <2> QED
    BY <2>1, <2>2, NoCopies DEF Copies
<1> QED
  BY <1>1, <1>2, <1>3, <1>4, <1>5, <1>6, <1>7 DEF GroupingNext, GroupingLoopStep

LEMMA LazyStep ==
  ASSUME SharedInv, UNCHANGED kind, kind = "lazy_init", LazyNext
  PROVE  SharedInv' /\ ContractStep
<1> USE FirstQueue, TimeoutsIs
<1>1. ASSUME NEW timeout \in Timeouts, LazyHandleRequest(timeout)
      PROVE  SharedInv' /\ ContractStep
  BY <1>1, AdmitStep DEF LazyHandleRequest
<1>2. CASE FactoryAnswers
  BY <1>2, FactoryStep
<1>3. ASSUME NEW r \in base, NEW res \in Results, LazyBaseAnswers(r, res)
      PROVE  SharedInv' /\ ContractStep
  BY <1>3, AnswerStep DEF LazyBaseAnswers
<1>4. CASE LazyResponseReturns
  BY <1>4, ReturnStep DEF LazyResponseReturns
<1>5. CASE QueueTask
  BY <1>5, QueueTaskStep
<1>6. CASE Destroy \/ Advance
  BY <1>6, DestroyStep, AdvanceStep
<1> QED
  BY <1>1, <1>2, <1>3, <1>4, <1>5, <1>6 DEF LazyNext, LazyLoopStep, LazySomeAnswer

-----------------------------------------------------------------------------
(* throttling_request_handler.  Tasks are due at the times that were        *)
(* allowed, and start their timeouts afresh: no earlier than the deadline.  *)

ThrottleTask == [id : Nat, timeout : 0 .. Never, time : Nat]

InTime(e) ==
  e.id \in 1 .. Len(deadlines) /\ deadlines[e.id] <= SatAdd(etime, e.timeout, Never)

ThrottlingInv ==
  /\ throttle \in [allowed : Nat, tasks : Seq(ThrottleTask), passed : Seq(Nat)]
  /\ \A n \in DOMAIN throttle.tasks : InTime(throttle.tasks[n])
  /\ ThrottlingNoneForgotten
  /\ \A n \in DOMAIN throttle.passed : throttle.passed[n] + Distance <= throttle.allowed
  /\ ThrottlingLimitKept

LEMMA HandledFacts ==
  ASSUME ThrottlingInv, etime \in Nat, NEW entry \in ThrottleTask, NEW tasks \in Seq(ThrottleTask),
         \A n \in DOMAIN tasks : tasks[n].time <= throttle.allowed,
         throttle' = Handled(entry, tasks)
  PROVE  /\ throttle' \in [allowed : Nat, tasks : Seq(ThrottleTask), passed : Seq(Nat)]
         /\ ThrottlingNoneForgotten'
         /\ \A n \in DOMAIN throttle'.passed : throttle'.passed[n] + Distance <= throttle'.allowed
         /\ ThrottlingLimitKept'
         /\ \A n \in DOMAIN throttle'.tasks :
              \/ n \in DOMAIN tasks /\ throttle'.tasks[n] = tasks[n]
              \/ throttle'.tasks[n].id = entry.id /\ throttle'.tasks[n].timeout = entry.timeout
<1>1. /\ throttle \in [allowed : Nat, tasks : Seq(ThrottleTask), passed : Seq(Nat)]
      /\ throttle.allowed \in Nat /\ throttle.passed \in Seq(Nat) /\ throttle.tasks \in Seq(ThrottleTask)
      /\ Distance \in Nat
  BY ThrottlingAssumption DEF ThrottlingInv
<1>2. /\ \A n \in DOMAIN throttle.passed : throttle.passed[n] + Distance <= throttle.allowed
      /\ \A n \in 2 .. Len(throttle.passed) :
           throttle.passed[n] - throttle.passed[n - 1] >= Distance
  BY DEF ThrottlingInv, ThrottlingLimitKept
<1>3. CASE etime >= throttle.allowed
  <2> DEFINE passed == Append(throttle.passed, etime)
  <2>1. throttle' = [allowed |-> etime + Distance, tasks |-> tasks, passed |-> passed]
    BY <1>3 DEF Handled, Pass
  <2>2. /\ passed \in Seq(Nat) /\ Len(passed) = Len(throttle.passed) + 1
        /\ \A n \in 1 .. Len(throttle.passed) : passed[n] = throttle.passed[n]
        /\ passed[Len(throttle.passed) + 1] = etime
        /\ DOMAIN passed = 1 .. Len(throttle.passed) + 1
        /\ DOMAIN throttle.passed = 1 .. Len(throttle.passed)
        /\ Len(throttle.passed) \in Nat
    BY <1>1
  <2>9. \A n \in 1 .. Len(throttle.passed) :
          throttle.passed[n] \in Nat /\ throttle.passed[n] + Distance <= throttle.allowed
    BY <1>1, <1>2
  <2> HIDE DEF passed
  <2>3. /\ throttle'.allowed = etime + Distance /\ throttle'.tasks = tasks
        /\ throttle'.passed = passed
        /\ throttle' \in [allowed : Nat, tasks : Seq(ThrottleTask), passed : Seq(Nat)]
    BY <1>1, <2>1, <2>2
  <2>4. ASSUME NEW n \in DOMAIN tasks PROVE tasks[n].time <= etime + Distance
    <3>1. tasks[n] \in ThrottleTask
      OBVIOUS
    <3>2. tasks[n].time \in Nat
      BY <3>1 DEF ThrottleTask
    <3> QED
      BY <1>1, <1>3, <3>2
  <2>5. ThrottlingNoneForgotten'
    BY <2>3, <2>4 DEF ThrottlingNoneForgotten
  <2>6. ASSUME NEW n \in DOMAIN passed PROVE passed[n] + Distance <= etime + Distance
    <3>1. CASE n \in 1 .. Len(throttle.passed)
      <4>1. passed[n] \in Nat /\ passed[n] + Distance <= throttle.allowed
        BY <2>9, <2>2, <3>1
      <4>2. \A x, y, z, d \in Nat : x + d <= y /\ z >= y => x + d <= z + d
        OBVIOUS
      <4> QED
        BY <4>1, <4>2, <1>1, <1>3
    <3>2. CASE n = Len(throttle.passed) + 1
      BY <1>1, <2>2, <3>2
    <3> QED
      BY <2>2, <3>1, <3>2
  <2>7. ASSUME NEW n \in 2 .. Len(passed) PROVE passed[n] - passed[n - 1] >= Distance
    <3>1. CASE n \in 2 .. Len(throttle.passed)
      <4>1. n \in 1 .. Len(throttle.passed) /\ n - 1 \in 1 .. Len(throttle.passed)
        BY <2>2, <3>1
      <4>2. passed[n] = throttle.passed[n] /\ passed[n - 1] = throttle.passed[n - 1]
        BY <2>2, <4>1
      <4> QED
        BY <1>2, <3>1, <4>2
    <3>2. CASE n = Len(throttle.passed) + 1
      <4>1. n - 1 \in 1 .. Len(throttle.passed) /\ passed[n] = etime
        BY <2>2, <3>2
      <4>2. passed[n - 1] = throttle.passed[n - 1]
        BY <2>2, <4>1
      <4>3. passed[n - 1] \in Nat /\ passed[n - 1] + Distance <= throttle.allowed
        BY <2>9, <4>1, <4>2
      <4>4. \A x, y, z, d \in Nat : x + d <= y /\ z >= y => z - x >= d
        OBVIOUS
      <4> QED
        BY <4>1, <4>3, <4>4, <1>1, <1>3
    <3> QED
      BY <2>2, <3>1, <3>2
  <2> QED
    BY <2>3, <2>5, <2>6, <2>7 DEF ThrottlingLimitKept
<1>4. CASE ~(etime >= throttle.allowed)
  <2> DEFINE e == [entry EXCEPT !.time = throttle.allowed]
             more == Append(tasks, e)
  <2>1. throttle' = [throttle EXCEPT !.tasks = more]
    BY <1>4 DEF Handled, Postpone
  <2>2. e \in ThrottleTask /\ e.id = entry.id /\ e.timeout = entry.timeout /\ e.time = throttle.allowed
    BY <1>1 DEF ThrottleTask
  <2> HIDE DEF e
  <2>3. /\ more \in Seq(ThrottleTask)
        /\ DOMAIN more = 1 .. Len(tasks) + 1
        /\ \A n \in 1 .. Len(tasks) : more[n] = tasks[n]
        /\ more[Len(tasks) + 1] = e
        /\ DOMAIN tasks = 1 .. Len(tasks) /\ Len(tasks) \in Nat
    BY <2>2
  <2> HIDE DEF more
  <2>4. /\ throttle'.allowed = throttle.allowed /\ throttle'.tasks = more
        /\ throttle'.passed = throttle.passed
        /\ throttle' \in [allowed : Nat, tasks : Seq(ThrottleTask), passed : Seq(Nat)]
    BY <1>1, <2>1, <2>3
  <2>5. ASSUME NEW n \in DOMAIN more PROVE more[n].time <= throttle.allowed
    BY <1>1, <2>2, <2>3
  <2>6. ThrottlingNoneForgotten'
    BY <2>4, <2>5 DEF ThrottlingNoneForgotten
  <2>7. \A n \in DOMAIN more : \/ n \in DOMAIN tasks /\ more[n] = tasks[n]
                               \/ more[n].id = entry.id /\ more[n].timeout = entry.timeout
    BY <2>2, <2>3
  <2>8. ThrottlingLimitKept'
    BY <1>2, <2>4 DEF ThrottlingLimitKept
  <2> QED
    BY <1>2, <2>4, <2>6, <2>7, <2>8
<1> QED
  BY <1>3, <1>4

InTimeNext(e) ==
  e.id \in 1 .. Len(deadlines') /\ deadlines'[e.id] <= SatAdd(etime', e.timeout, Never)

LEMMA InTimeKept ==
  ASSUME SharedType, etime' \in etime .. Never,
         UNCHANGED deadlines \/ \E t \in 0 .. Never : deadlines' = Append(deadlines, t),
         NEW e \in ThrottleTask, InTime(e)
  PROVE  InTimeNext(e)
<1> DEFINE T == 0 .. Never
<1>1. etime \in T /\ etime' \in T /\ etime \in 0 .. etime'
  BY NeverFacts DEF SharedType
<1>2. SatAdd(etime, e.timeout, Never) \in T /\ SatAdd(etime', e.timeout, Never) \in T
      /\ SatAdd(etime, e.timeout, Never) <= SatAdd(etime', e.timeout, Never)
  BY <1>1, SatAddFacts DEF ThrottleTask
<1>3. /\ e.id \in 1 .. Len(deadlines)
      /\ deadlines[e.id] <= SatAdd(etime, e.timeout, Never)
      /\ deadlines \in Seq(T)
  BY DEF InTime, SharedType
<1>4. T \subseteq Nat
  BY NeverFacts
<1> HIDE DEF T
<1>5. /\ Len(deadlines) \in Nat /\ deadlines[e.id] \in T
  BY <1>3
<1>6. e.id \in 1 .. Len(deadlines') /\ deadlines'[e.id] = deadlines[e.id]
  <2>1. CASE UNCHANGED deadlines
    BY <1>3, <2>1
  <2>2. ASSUME NEW t \in T, deadlines' = Append(deadlines, t)
        PROVE  e.id \in 1 .. Len(deadlines') /\ deadlines'[e.id] = deadlines[e.id]
    BY <1>3, <1>5, <2>2
  <2> QED
    BY <2>1, <2>2 DEF T
<1>8. \A x, y, z \in T : x <= y /\ y <= z => x <= z
  BY <1>4
<1>7. deadlines[e.id] <= SatAdd(etime', e.timeout, Never)
  BY <1>2, <1>3, <1>5, <1>8
<1> QED
  BY <1>6, <1>7 DEF InTimeNext

LEMMA ThrottlingStep ==
  ASSUME SharedInv, ThrottlingInv, UNCHANGED kind, kind = "throttling", ThrottlingNext
  PROVE  SharedInv' /\ ContractStep /\ ThrottlingInv'
<1>1. /\ throttle \in [allowed : Nat, tasks : Seq(ThrottleTask), passed : Seq(Nat)]
      /\ throttle.tasks \in Seq(ThrottleTask)
      /\ \A n \in DOMAIN throttle.tasks :
           /\ throttle.tasks[n] \in ThrottleTask
           /\ InTime(throttle.tasks[n])
           /\ throttle.tasks[n].time <= throttle.allowed
  BY DEF ThrottlingInv, ThrottlingNoneForgotten
<1>2. SharedType /\ etime \in Nat /\ etime \in etime .. Never /\ deadlines \in Seq(0 .. Never)
      /\ NewRequestsQueue.requests = {}
  BY NeverFacts DEF SharedInv, SharedType, NewRequestsQueue
<1>3. ASSUME UNCHANGED throttle, etime' \in etime .. Never, UNCHANGED deadlines
      PROVE  ThrottlingInv'
  <2>1. \A n \in DOMAIN throttle.tasks : InTimeNext(throttle.tasks[n])
    BY <1>1, <1>2, <1>3, InTimeKept
  <2>2. \A n \in DOMAIN throttle'.tasks : InTimeNext(throttle'.tasks[n])
    BY <1>3, <2>1
  <2> QED
    BY <1>3, <2>2 DEF ThrottlingInv, InTime, InTimeNext, ThrottlingNoneForgotten, ThrottlingLimitKept
<1>4. ASSUME NEW timeout \in Timeouts, ThrottlingHandleRequest(timeout)
      PROVE  SharedInv' /\ ContractStep /\ ThrottlingInv'
  <2> DEFINE r == Request(timeout)
             entry == [id |-> r.id, timeout |-> timeout, time |-> etime]
  <2>1. PassOn(r) /\ throttle' = Handled(entry, throttle.tasks)
    BY <1>4 DEF ThrottlingHandleRequest
  <2>2. SharedInv' /\ ContractStep
    BY <2>1, PassOnStep, TimeoutsIs
  <2>3. /\ r.id = Len(deadlines) + 1
        /\ r.timeout_end = SatAdd(etime, timeout, Never)
        /\ r.timeout_end \in etime .. Never
    BY <1>2, RequestFacts, TimeoutsIs
  <2>4. deadlines' = Append(deadlines, r.timeout_end) /\ etime' = etime
    BY <2>1 DEF PassOn, Accept
  <2> HIDE DEF r
  <2>5. entry \in ThrottleTask /\ entry.id = r.id /\ entry.timeout = timeout
    BY <1>2, <2>3, TimeoutsIs DEF ThrottleTask
  <2> HIDE DEF entry
  <2>6. /\ throttle' \in [allowed : Nat, tasks : Seq(ThrottleTask), passed : Seq(Nat)]
        /\ ThrottlingNoneForgotten' /\ ThrottlingLimitKept'
        /\ \A n \in DOMAIN throttle'.passed : throttle'.passed[n] + Distance <= throttle'.allowed
        /\ \A n \in DOMAIN throttle'.tasks :
             \/ n \in DOMAIN throttle.tasks /\ throttle'.tasks[n] = throttle.tasks[n]
             \/ throttle'.tasks[n].id = entry.id /\ throttle'.tasks[n].timeout = entry.timeout
    BY <1>1, <1>2, <2>1, <2>5, HandledFacts
  <2>7. r.timeout_end \in 0 .. Never
    BY <1>2, <2>3
  <2>8. InTimeNext(entry)
    <3>1. entry.id \in 1 .. Len(deadlines') /\ deadlines'[entry.id] = r.timeout_end
      BY <1>2, <2>3, <2>4, <2>5, <2>7
    <3> QED
      BY <2>3, <2>4, <2>5, <2>7, <3>1 DEF InTimeNext
  <2>9. \A n \in DOMAIN throttle'.tasks : InTimeNext(throttle'.tasks[n])
    <3> TAKE n \in DOMAIN throttle'.tasks
    <3>1. CASE n \in DOMAIN throttle.tasks /\ throttle'.tasks[n] = throttle.tasks[n]
      <4>1. InTimeNext(throttle.tasks[n])
        BY <1>1, <1>2, <2>4, <2>7, <3>1, InTimeKept
      <4> QED
        BY <3>1, <4>1
    <3>2. CASE throttle'.tasks[n].id = entry.id /\ throttle'.tasks[n].timeout = entry.timeout
      BY <2>8, <3>2 DEF InTimeNext
    <3> QED
      BY <2>6, <3>1, <3>2
  <2> QED
    BY <2>2, <2>6, <2>9 DEF ThrottlingInv, InTime, InTimeNext
<1>5. CASE ThrottlingSomeAnswer
  <2>1. PICK r \in base, res \in Results : Answer(r, res) /\ UNCHANGED throttle
    BY <1>5 DEF ThrottlingSomeAnswer, ThrottlingBaseAnswers
  <2>2. etime' = etime /\ UNCHANGED deadlines
    BY <2>1 DEF Answer
  <2> QED
    BY <1>2, <1>3, <2>1, <2>2, AnswerStep
<1>6. CASE ThrottlingResponseReturns
  <2>1. ResponseReturned /\ UNCHANGED <<queues, base>> /\ UNCHANGED throttle
    BY <1>6 DEF ThrottlingResponseReturns
  <2>2. etime' = etime /\ UNCHANGED deadlines
    BY <2>1 DEF ResponseReturned
  <2> QED
    BY <1>2, <1>3, <2>1, <2>2, ReturnStep
<1>7. CASE RetryTask
  <2> DEFINE Without(n) ==
               [m \in 1 .. Len(throttle.tasks) - 1 |-> throttle.tasks[IF m < n THEN m ELSE m + 1]]
  <2>1. PICK n \in DOMAIN throttle.tasks :
          /\ throttle' = Handled(throttle.tasks[n], Without(n))
          /\ base' = IF etime >= throttle.allowed
                     THEN {IF r.id = throttle.tasks[n].id
                           THEN [r EXCEPT !.timeout_end = SatAdd(etime, throttle.tasks[n].timeout, Never)]
                           ELSE r : r \in base}
                     ELSE base
          /\ etime' = etime /\ deadlines' = deadlines
          /\ UNCHANGED <<queues, alive, mode, called, cancelled, result>>
    BY <1>7 DEF RetryTask
  <2> DEFINE entry == throttle.tasks[n]
             others == Without(n)
             end == SatAdd(etime, entry.timeout, Never)
  <2>2. entry \in ThrottleTask /\ InTime(entry)
    BY <1>1
  <2>3. end \in 0 .. Never
    <3>1. entry.timeout \in 0 .. Never
      BY <2>2 DEF ThrottleTask
    <3>2. etime \in 0 .. Never
      BY <1>2, NeverFacts DEF SharedType
    <3> QED
      BY <3>1, <3>2, SatAddFacts
  <2>4. others \in Seq(ThrottleTask)
        /\ \A m \in DOMAIN others : \E k \in DOMAIN throttle.tasks : others[m] = throttle.tasks[k]
    <3>1. /\ DOMAIN throttle.tasks = 1 .. Len(throttle.tasks) /\ Len(throttle.tasks) \in Nat
          /\ Len(throttle.tasks) - 1 \in Nat
      BY <1>1
    <3>2. ASSUME NEW m \in 1 .. Len(throttle.tasks) - 1
          PROVE  (IF m < n THEN m ELSE m + 1) \in DOMAIN throttle.tasks
      BY <3>1
    <3>3. \A m \in 1 .. Len(throttle.tasks) - 1 :
            /\ others[m] \in ThrottleTask
            /\ \E k \in DOMAIN throttle.tasks : others[m] = throttle.tasks[k]
      BY <1>1, <3>2
    <3>4. others \in [1 .. Len(throttle.tasks) - 1 -> ThrottleTask]
      BY <3>3
    <3>5. DOMAIN others = 1 .. Len(throttle.tasks) - 1
      OBVIOUS
    <3>6. \A k \in Nat : \A s \in [1 .. k -> ThrottleTask] : s \in Seq(ThrottleTask)
      OBVIOUS
    <3> HIDE DEF others
    <3> QED
      BY <3>1, <3>3, <3>4, <3>5, <3>6
  <2>5. SharedInv' /\ ContractStep
    <3>1. CASE UNCHANGED base
      BY <2>1, <3>1, OwnStep DEF shared_vars
    <3>2. ASSUME NEW r \in base, r.id = entry.id, etime >= throttle.allowed
          PROVE  SharedInv' /\ ContractStep
      <4>1. \A o \in base : o.id = entry.id <=> o = r
        BY <3>2 DEF SharedInv, ApartInv, OneEach
      <4>2. base' = (base \ {r}) \cup {[r EXCEPT !.timeout_end = end]}
        BY <2>1, <3>2, <4>1
      <4>3. deadlines[r.id] <= end
        BY <2>2, <3>2 DEF InTime
      <4> HIDE DEF end
      <4> QED
        BY <2>1, <2>3, <3>2, <4>2, <4>3, RenewStep
    <3>3. CASE etime >= throttle.allowed /\ \A r \in base : r.id # entry.id
      <4>1. base' = base
        BY <2>1, <3>3
      <4> QED
        BY <3>1, <4>1
    <3> QED
      BY <2>1, <3>1, <3>2, <3>3
  <2>6. \A m \in DOMAIN others : others[m].time <= throttle.allowed /\ InTime(others[m])
                                 /\ others[m] \in ThrottleTask
    BY <1>1, <2>4
  <2> HIDE DEF others, Without
  <2>7. throttle' = Handled(entry, others)
    BY <2>1 DEF others
  <2> HIDE DEF entry, end
  <2>8. /\ throttle' \in [allowed : Nat, tasks : Seq(ThrottleTask), passed : Seq(Nat)]
        /\ ThrottlingNoneForgotten' /\ ThrottlingLimitKept'
        /\ \A m \in DOMAIN throttle'.passed : throttle'.passed[m] + Distance <= throttle'.allowed
        /\ \A m \in DOMAIN throttle'.tasks :
             \/ m \in DOMAIN others /\ throttle'.tasks[m] = others[m]
             \/ throttle'.tasks[m].id = entry.id /\ throttle'.tasks[m].timeout = entry.timeout
    BY <1>2, <2>2, <2>4, <2>6, <2>7, HandledFacts
  <2>9. InTimeNext(entry) /\ \A m \in DOMAIN others : InTimeNext(others[m])
    BY <1>2, <2>1, <2>2, <2>6, InTimeKept
  <2>10. \A m \in DOMAIN throttle'.tasks : InTimeNext(throttle'.tasks[m])
    <3> TAKE m \in DOMAIN throttle'.tasks
    <3>1. CASE m \in DOMAIN others /\ throttle'.tasks[m] = others[m]
      BY <2>9, <3>1
    <3>2. CASE throttle'.tasks[m].id = entry.id /\ throttle'.tasks[m].timeout = entry.timeout
      BY <2>9, <3>2 DEF InTimeNext
    <3> QED
      BY <2>8, <3>1, <3>2
  <2> QED
    BY <2>5, <2>8, <2>10 DEF ThrottlingInv, InTime, InTimeNext
<1>8. CASE Destroy /\ UNCHANGED throttle
  <2>1. etime' = etime /\ UNCHANGED deadlines
    BY <1>8 DEF Destroy
  <2> QED
    BY <1>2, <1>3, <1>8, <2>1, DestroyStep
<1>9. CASE OnTime /\ UNCHANGED throttle
  <2>1. etime' = etime + 1 /\ etime < MaxTime /\ UNCHANGED deadlines /\ Advance
    BY <1>9 DEF OnTime, Advance
  <2>2. etime' \in etime .. Never
    BY <1>2, <2>1, NeverFacts
  <2> QED
    BY <1>3, <1>9, <2>1, <2>2, AdvanceStep
<1> QED
  BY <1>4, <1>5, <1>6, <1>7, <1>8, <1>9 DEF ThrottlingNext, ThrottlingLoopStep

-----------------------------------------------------------------------------
(* Calls that make several requests.  The request that a call waits for has *)
(* the call's timeout, counted from a time no earlier than the call's.      *)

Call == [kind : {"vector", "stream"}, timeout : 0 .. Never, left : Nat, got : Seq(Nat),
         vector : Seq(Int)]

Counted(k) == [e \in 1 .. k |-> e]

GotInOrder(c) == c.got = Counted(Len(c.got)) /\ (c.vector # None => c.vector = Counted(Len(c.got)))

CallsInv ==
  /\ calls \in Seq(Call) /\ Len(calls) = Len(deadlines)
  /\ \A n \in DOMAIN calls :
       /\ GotInOrder(calls[n])
       /\ calls[n].vector # None => n \notin IdsOf(base)
       /\ deadlines[n] <= SatAdd(etime, calls[n].timeout, Never)

LEMMA CountedFacts ==
  ASSUME NEW g \in Seq(Nat), g = Counted(Len(g))
  PROVE  /\ Append(g, Len(g) + 1) = Counted(Len(g) + 1)
         /\ Append(g, Len(g) + 1) \in Seq(Nat) /\ Len(Append(g, Len(g) + 1)) = Len(g) + 1
         /\ ResultVector(g) = g /\ g \in Seq(Int)
<1>1. Len(g) \in Nat /\ \A n \in 1 .. Len(g) : g[n] = n
  BY DEF Counted
<1>2. Append(g, Len(g) + 1) \in Seq(Nat) /\ Len(Append(g, Len(g) + 1)) = Len(g) + 1
  BY <1>1
<1>3. Append(g, Len(g) + 1) = Counted(Len(g) + 1)
  <2>1. Append(g, Len(g) + 1) = [n \in 1 .. Len(g) + 1 |-> IF n = Len(g) + 1 THEN Len(g) + 1 ELSE g[n]]
    BY <1>1
  <2>2. \A n \in 1 .. Len(g) + 1 : (IF n = Len(g) + 1 THEN Len(g) + 1 ELSE g[n]) = n
    BY <1>1
  <2> QED
    BY <2>1, <2>2 DEF Counted
<1>4. ResultVector(g) = g
  <2> DEFINE c == Collected(g)
  <2>1. c = [n \in 1 .. Len(g) |-> g[Len(g) + 1 - n]]
    BY DEF Collected
  <2>2. c \in [1 .. Len(g) -> Nat]
    BY <1>1, <2>1
  <2>3. c \in Seq(Nat) /\ Len(c) = Len(g)
    BY <1>1, <2>2
  <2>4. \A n \in 1 .. Len(g) : c[n] = g[Len(g) + 1 - n]
    BY <2>1
  <2> HIDE DEF c
  <2>5. Reverse(c) = [n \in 1 .. Len(g) |-> c[(Len(g) - n) + 1]]
    BY <2>3 DEF Reverse
  <2>6. \A n \in 1 .. Len(g) : c[(Len(g) - n) + 1] = n
    <3> TAKE n \in 1 .. Len(g)
    <3>1. (Len(g) - n) + 1 \in 1 .. Len(g) /\ Len(g) + 1 - ((Len(g) - n) + 1) = n
      BY <1>1
    <3> QED
      BY <1>1, <2>4, <3>1
  <2>7. Reverse(c) = Counted(Len(g))
    BY <2>5, <2>6 DEF Counted
  <2> QED
    BY <2>7 DEF ResultVector, c
<1>5. g \in Seq(Int)
  BY <1>1
<1> QED
  BY <1>2, <1>3, <1>4, <1>5

LEMMA CallInTime ==
  ASSUME SharedType, CallsInv, etime' \in etime .. Never,
         UNCHANGED deadlines \/ \E t \in 0 .. Never : deadlines' = Append(deadlines, t),
         NEW n \in DOMAIN calls
  PROVE  /\ n \in 1 .. Len(deadlines')
         /\ deadlines'[n] <= SatAdd(etime', calls[n].timeout, Never)
<1> DEFINE e == [id |-> n, timeout |-> calls[n].timeout, time |-> 0]
<1>1. calls[n] \in Call /\ n \in 1 .. Len(deadlines)
  BY DEF CallsInv
<1>2. e \in ThrottleTask /\ e.id = n /\ e.timeout = calls[n].timeout
  BY <1>1 DEF Call, ThrottleTask, SharedType
<1> HIDE DEF e
<1>3. InTime(e)
  BY <1>1, <1>2 DEF InTime, CallsInv
<1>4. InTimeNext(e)
  BY <1>2, <1>3, InTimeKept
<1> QED
  BY <1>2, <1>4 DEF InTimeNext

LEMMA CallsKept ==
  ASSUME SharedType, CallsInv, etime' \in etime .. Never, UNCHANGED <<deadlines, calls>>,
         IdsOf(base') \subseteq IdsOf(base)
  PROVE  CallsInv'
<1>1. \A n \in DOMAIN calls : deadlines'[n] <= SatAdd(etime', calls[n].timeout, Never)
  BY CallInTime
<1>2. \A n \in DOMAIN calls :
        GotInOrder(calls[n]) /\ (calls[n].vector # None => n \notin IdsOf(base'))
  BY DEF CallsInv
<1>3. calls' = calls /\ calls \in Seq(Call) /\ Len(calls) = Len(deadlines')
  BY DEF CallsInv
<1> QED
  BY <1>1, <1>2, <1>3 DEF CallsInv, GotInOrder, IdsOf

LEMMA CallChanged ==
  ASSUME SharedType, CallsInv, NEW i \in DOMAIN calls, NEW c \in Call,
         c.timeout = calls[i].timeout, GotInOrder(c), c.vector # None => i \notin IdsOf(base'),
         calls' = [calls EXCEPT ![i] = c],
         UNCHANGED <<deadlines, etime>>, IdsOf(base') \subseteq IdsOf(base)
  PROVE  CallsInv'
<1>1. etime' \in etime .. Never
  BY NeverFacts DEF SharedType
<1>2. \A n \in DOMAIN calls : deadlines'[n] <= SatAdd(etime', calls[n].timeout, Never)
  BY <1>1, CallInTime
<1>3. \A n \in DOMAIN calls :
        GotInOrder(calls[n]) /\ (calls[n].vector # None => n \notin IdsOf(base'))
  BY DEF CallsInv
<1>4. calls \in Seq(Call) /\ Len(calls) = Len(deadlines')
  BY DEF CallsInv
<1>5. /\ calls' \in Seq(Call) /\ Len(calls') = Len(deadlines') /\ DOMAIN calls' = DOMAIN calls
      /\ \A n \in DOMAIN calls : calls'[n] = IF n = i THEN c ELSE calls[n]
  BY <1>4
<1>6. \A n \in DOMAIN calls' :
        /\ GotInOrder(calls'[n])
        /\ calls'[n].vector # None => n \notin IdsOf(base')
        /\ deadlines'[n] <= SatAdd(etime', calls'[n].timeout, Never)
  <2> TAKE n \in DOMAIN calls'
  <2>1. CASE n = i
    BY <1>2, <1>5, <2>1
  <2>2. CASE n # i
    BY <1>2, <1>3, <1>5, <2>2
  <2> QED
    BY <2>1, <2>2
<1> QED
  BY <1>5, <1>6 DEF CallsInv, GotInOrder, IdsOf

LEMMA CallAdded ==
  ASSUME SharedInv, CallsInv, NEW timeout \in 0 .. Never, PassOn(Request(timeout)),
         NEW c \in Call, c.timeout = timeout, c.got = <<>>, c.vector = None,
         calls' = Append(calls, c)
  PROVE  CallsInv'
<1> DEFINE r == Request(timeout)
<1>1. /\ r.id = Len(deadlines) + 1
      /\ r.timeout_end = SatAdd(etime, timeout, Never)
      /\ r.timeout_end \in 0 .. Never
      /\ SharedType /\ etime \in etime .. Never /\ deadlines \in Seq(0 .. Never)
  <2>1. SharedType
    BY DEF SharedInv
  <2>2. etime \in 0 .. MaxTime /\ deadlines \in Seq(0 .. Never)
    BY <2>1 DEF SharedType
  <2>3. etime \in etime .. Never
    BY <2>2, NeverFacts
  <2>4. r \in RequestType /\ r.id = Len(deadlines) + 1 /\ r.timeout_end = SatAdd(etime, timeout, Never)
    BY <2>1, RequestFacts
  <2> HIDE DEF r
  <2>5. r.timeout_end \in 0 .. Never
    BY <2>4 DEF RequestType
  <2> QED
    BY <2>1, <2>2, <2>3, <2>4, <2>5
<1>2. /\ deadlines' = Append(deadlines, r.timeout_end) /\ etime' = etime
      /\ base' = base \cup {r}
  BY DEF PassOn, Accept
<1> HIDE DEF r
<1>3. \A n \in DOMAIN calls : deadlines'[n] <= SatAdd(etime', calls[n].timeout, Never)
  BY <1>1, <1>2, CallInTime
<1>4. /\ Len(deadlines') = Len(deadlines) + 1 /\ deadlines'[r.id] = r.timeout_end
      /\ Len(deadlines) \in Nat
  BY <1>1, <1>2
<1>5. /\ calls \in Seq(Call) /\ Len(calls) = Len(deadlines)
      /\ \A n \in DOMAIN calls : GotInOrder(calls[n]) /\ n \in 1 .. Len(deadlines)
                                 /\ (calls[n].vector # None => n \notin IdsOf(base))
  BY DEF CallsInv
<1>6. /\ calls' \in Seq(Call) /\ Len(calls') = Len(deadlines') /\ DOMAIN calls' = 1 .. Len(deadlines) + 1
      /\ DOMAIN calls = 1 .. Len(deadlines)
      /\ \A n \in DOMAIN calls : calls'[n] = calls[n]
      /\ calls'[r.id] = c
  BY <1>1, <1>4, <1>5
<1>7. GotInOrder(c)
  BY DEF GotInOrder, Counted
<1>8. \A n \in DOMAIN calls' :
        /\ GotInOrder(calls'[n])
        /\ calls'[n].vector # None => n \notin IdsOf(base')
        /\ deadlines'[n] <= SatAdd(etime', calls'[n].timeout, Never)
  <2> TAKE n \in DOMAIN calls'
  <2>1. CASE n = r.id
    <3>1. deadlines'[n] <= SatAdd(etime', calls'[n].timeout, Never)
      BY <1>1, <1>2, <1>4, <1>6, <2>1, NeverFacts
    <3> QED
      BY <3>1, <1>6, <1>7, <2>1
  <2>2. CASE n \in DOMAIN calls
    <3>1. n # r.id
      BY <1>1, <1>4, <1>5, <2>2
    <3>2. n \notin IdsOf(base) => n \notin IdsOf(base')
      BY <1>2, <3>1 DEF IdsOf
    <3> QED
      BY <1>3, <1>5, <1>6, <2>2, <3>2
  <2> QED
    BY <1>1, <1>4, <1>6, <2>1, <2>2
<1> QED
  BY <1>6, <1>8 DEF CallsInv, GotInOrder, IdsOf

\* The call of a request that is waited for.
LEMMA CallOf ==
  ASSUME SharedInv, CallsInv, NEW r \in base
  PROVE  /\ r.id \in DOMAIN calls /\ calls[r.id] \in Call /\ calls[r.id].vector = None
         /\ calls[r.id].got \in Seq(Nat) /\ GotInOrder(calls[r.id])
         /\ deadlines[r.id] <= SatAdd(etime, calls[r.id].timeout, Never)
<1>1. r.id \in 1 .. Len(deadlines) /\ r.id \in IdsOf(base)
  BY DEF SharedInv, KnownInv, Known, IdsOf
<1>2. r.id \in DOMAIN calls
  BY <1>1 DEF CallsInv
<1>3. calls[r.id] \in Call
  BY <1>2 DEF CallsInv
<1>4. calls[r.id].got \in Seq(Nat)
  BY <1>3 DEF Call
<1> QED
  BY <1>1, <1>2, <1>3, <1>4 DEF CallsInv

LEMMA ValueGot ==
  ASSUME SharedInv, CallsInv, NEW r \in base, calls[r.id].left > 0,
         calls' = [calls EXCEPT ![r.id].left = @ - 1, ![r.id].got = Append(@, Len(@) + 1)],
         UNCHANGED <<deadlines, etime>>, IdsOf(base') \subseteq IdsOf(base)
  PROVE  CallsInv'
<1> DEFINE old == calls[r.id]
           c == [old EXCEPT !.left = @ - 1, !.got = Append(@, Len(@) + 1)]
<1>1. /\ r.id \in DOMAIN calls /\ old \in Call /\ old.vector = None
      /\ old.got \in Seq(Nat) /\ old.got = Counted(Len(old.got))
  BY CallOf DEF GotInOrder
<1>2. calls' = [calls EXCEPT ![r.id] = c]
  BY <1>1 DEF CallsInv
<1>3. /\ Append(old.got, Len(old.got) + 1) = Counted(Len(old.got) + 1)
      /\ Append(old.got, Len(old.got) + 1) \in Seq(Nat)
      /\ Len(Append(old.got, Len(old.got) + 1)) = Len(old.got) + 1
  BY <1>1, CountedFacts
<1>4. /\ c.left = old.left - 1 /\ c.got = Append(old.got, Len(old.got) + 1)
      /\ c.timeout = old.timeout /\ c.vector = old.vector /\ c.kind = old.kind
  BY <1>1 DEF Call
<1>5. old.left - 1 \in Nat
  BY <1>1 DEF Call
<1>6. c \in Call
  BY <1>1, <1>3, <1>5 DEF Call
<1> HIDE DEF c, old
<1>7. GotInOrder(c) /\ c.vector = None
  BY <1>1, <1>3, <1>4 DEF GotInOrder
<1> QED
  BY <1>1, <1>2, <1>4, <1>6, <1>7, CallChanged DEF SharedInv, old

LEMMA CallEnds ==
  ASSUME SharedInv, CallsInv, NEW r \in base, NEW res, Answer(r, res),
         \/ calls' = [calls EXCEPT ![r.id].left = 0]
         \/ calls' = [calls EXCEPT ![r.id].vector = ResultVector(calls[r.id].got)]
  PROVE  CallsInv'
<1> DEFINE old == calls[r.id]
           ended == [old EXCEPT !.left = 0]
           done == [old EXCEPT !.vector = ResultVector(old.got)]
<1>1. /\ r.id \in DOMAIN calls /\ old \in Call /\ old.vector = None
      /\ old.got \in Seq(Nat) /\ old.got = Counted(Len(old.got))
  BY CallOf DEF GotInOrder
<1>2. calls' = [calls EXCEPT ![r.id] = ended] \/ calls' = [calls EXCEPT ![r.id] = done]
  BY <1>1 DEF CallsInv
<1>3. ResultVector(old.got) = old.got /\ old.got \in Seq(Int)
  BY <1>1, CountedFacts
<1>4. /\ ended \in Call /\ ended.got = old.got /\ ended.vector = None
      /\ ended.timeout = old.timeout
  BY <1>1 DEF Call
<1>5. /\ done \in Call /\ done.got = old.got /\ done.vector = old.got
      /\ done.timeout = old.timeout
  BY <1>1, <1>3 DEF Call
<1>6. UNCHANGED <<deadlines, etime>> /\ base' = base \ {r}
  BY DEF Answer
<1>7. IdsOf(base') \subseteq IdsOf(base) /\ r.id \notin IdsOf(base')
  BY <1>6 DEF IdsOf, SharedInv, ApartInv, OneEach
<1> HIDE DEF ended, done, old
<1>8. GotInOrder(ended) /\ GotInOrder(done)
  BY <1>1, <1>4, <1>5 DEF GotInOrder
<1>9. CASE calls' = [calls EXCEPT ![r.id] = ended]
  BY <1>1, <1>4, <1>6, <1>7, <1>8, <1>9, CallChanged DEF SharedInv, old
<1>10. CASE calls' = [calls EXCEPT ![r.id] = done]
  BY <1>1, <1>5, <1>6, <1>7, <1>8, <1>10, CallChanged DEF SharedInv, old
<1> QED
  BY <1>2, <1>9, <1>10

LEMMA IterationsStep ==
  ASSUME SharedInv, CallsInv, UNCHANGED kind, kind = "iterations", IterationsNext
  PROVE  SharedInv' /\ ContractStep /\ CallsInv'
<1>0. SharedType /\ etime \in etime .. Never
  BY NeverFacts DEF SharedInv, SharedType
<1>1. ASSUME NEW timeout \in Timeouts, HandleRequestsSequentially(timeout)
      PROVE  SharedInv' /\ ContractStep /\ CallsInv'
  <2>1. PassOn(Request(timeout)) /\ timeout \in 0 .. Never
    BY <1>1, TimeoutsIs DEF HandleRequestsSequentially
  <2>2. PICK n \in 0 .. MaxElements :
          calls' = Append(calls, [kind |-> "vector", timeout |-> timeout, left |-> n,
                                  got |-> <<>>, vector |-> None])
    BY <1>1 DEF HandleRequestsSequentially
  <2> DEFINE c == [kind |-> "vector", timeout |-> timeout, left |-> n, got |-> <<>>,
                   vector |-> None]
  <2>3. c \in Call /\ c.timeout = timeout /\ c.got = <<>> /\ c.vector = None
    BY <2>1, IterationsAssumption DEF Call, None
  <2>4. calls' = Append(calls, c)
    BY <2>2
  <2> HIDE DEF c
  <2>5. CallsInv'
    BY <2>1, <2>3, <2>4, CallAdded
  <2> QED
    BY <2>1, <2>5, PassOnStep
<1>2. CASE FetchResults
  <2> DEFINE c == [kind |-> "stream", timeout |-> Never, left |-> MaxElements, got |-> <<>>,
                   vector |-> None]
  <2>1. PassOn(Request(Never)) /\ Never \in 0 .. Never /\ calls' = Append(calls, c)
    BY <1>2, NeverFacts DEF FetchResults
  <2>2. c \in Call /\ c.timeout = Never /\ c.got = <<>> /\ c.vector = None
    BY <2>1, IterationsAssumption DEF Call, None
  <2> HIDE DEF c
  <2>3. CallsInv'
    BY <2>1, <2>2, CallAdded
  <2> QED
    BY <2>1, <2>3, PassOnStep
<1>3. ASSUME NEW r \in base, ElementAnswered(r)
      PROVE  SharedInv' /\ ContractStep /\ CallsInv'
  <2> DEFINE t == SatAdd(etime, calls[r.id].timeout, Never)
  <2>1. calls[r.id] \in Call /\ deadlines[r.id] <= t
    BY CallOf
  <2>2. t \in 0 .. Never
    <3>1. calls[r.id].timeout \in 0 .. Never
      BY <2>1 DEF Call
    <3>2. etime \in 0 .. Never
      BY <1>0, NeverFacts DEF SharedType
    <3> QED
      BY <3>1, <3>2, SatAddFacts
  <2>3. /\ base' = (base \ {r}) \cup {[r EXCEPT !.timeout_end = t]}
        /\ UNCHANGED <<etime, deadlines, queues, alive, mode, called, cancelled, result>>
        /\ calls' = [calls EXCEPT ![r.id].left = @ - 1, ![r.id].got = Append(@, Len(@) + 1)]
        /\ calls[r.id].left > 0
    BY <1>3 DEF ElementAnswered, Renewed
  <2>4. SharedInv' /\ ContractStep
    <3> HIDE DEF t
    <3> QED
      BY <2>1, <2>2, <2>3, RenewStep
  <2>5. IdsOf(base') \subseteq IdsOf(base)
    <3>1. [r EXCEPT !.timeout_end = t].id = r.id
      BY <1>0 DEF SharedType, RequestType
    <3> QED
      BY <2>3, <3>1 DEF IdsOf
  <2>6. CallsInv'
    BY <2>3, <2>5, ValueGot
  <2> QED
    BY <2>4, <2>6
<1>4. ASSUME NEW r \in base, NEW res \in Results, ElementFails(r, res)
      PROVE  SharedInv' /\ ContractStep /\ CallsInv'
  <2>1. Answer(r, res) /\ calls' = [calls EXCEPT ![r.id].left = 0]
    BY <1>4 DEF ElementFails
  <2> QED
    BY <2>1, CallEnds, AnswerStep
<1>5. ASSUME NEW r \in base, NEW res \in Results, ResultFetched(r, res)
      PROVE  SharedInv' /\ ContractStep /\ CallsInv'
  <2>1. CASE UNCHANGED shared_vars
    <3>1. /\ calls[r.id].left > 0
          /\ calls' = [calls EXCEPT ![r.id].left = @ - 1, ![r.id].got = Append(@, Len(@) + 1)]
      <4>1. ~Answer(r, res)
        BY <2>1, ModesDiffer DEF Answer, shared_vars
      <4> QED
        BY <1>5, <4>1 DEF ResultFetched
    <3>2. UNCHANGED <<deadlines, etime>> /\ IdsOf(base') \subseteq IdsOf(base)
      BY <2>1 DEF shared_vars, IdsOf
    <3> QED
      BY <2>1, <3>1, <3>2, ValueGot, OwnStep
  <2>2. CASE Answer(r, res) /\ calls' = [calls EXCEPT ![r.id].left = 0]
    BY <2>2, CallEnds, AnswerStep
  <2> QED
    BY <1>5, <2>1, <2>2 DEF ResultFetched
<1>6. CASE IterationsResponseReturns
  <2>1. ResponseReturned /\ UNCHANGED <<queues, base, calls>>
    BY <1>6 DEF IterationsResponseReturns
  <2>2. UNCHANGED <<etime, deadlines, calls>> /\ IdsOf(base') \subseteq IdsOf(base)
    BY <2>1 DEF ResponseReturned, IdsOf
  <2> QED
    BY <1>0, <2>1, <2>2, CallsKept, ReturnStep
<1>7. CASE (Destroy \/ Advance) /\ UNCHANGED calls
  <2>1. UNCHANGED <<deadlines, calls, base>> /\ etime' \in etime .. Never
    BY <1>0, <1>7, NeverFacts DEF Destroy, Advance, SharedType
  <2>2. IdsOf(base') \subseteq IdsOf(base)
    BY <2>1 DEF IdsOf
  <2> QED
    BY <1>0, <1>7, <2>1, <2>2, CallsKept, DestroyStep, AdvanceStep
<1>8. ASSUME NEW r \in base, RestAnswered(r)
      PROVE  SharedInv' /\ ContractStep /\ CallsInv'
  <2>1. /\ Answer(r, "ok")
        /\ calls' = [calls EXCEPT ![r.id].vector = ResultVector(calls[r.id].got)]
    BY <1>8 DEF RestAnswered
  <2> QED
    BY <2>1, CallEnds, AnswerStep
<1>9. CASE IterationsSomeAnswer
  <2>1. PICK r \in base : \/ ElementAnswered(r)
                         \/ \E res \in Results : ElementFails(r, res) \/ ResultFetched(r, res)
    BY <1>9 DEF IterationsSomeAnswer
  <2>2. CASE ElementAnswered(r)
    BY <1>3, <2>2
  <2>3. CASE \E res \in Results : ElementFails(r, res) \/ ResultFetched(r, res)
    <3>1. PICK res \in Results : ElementFails(r, res) \/ ResultFetched(r, res)
      BY <2>3
    <3>2. CASE ElementFails(r, res)
      BY <1>4, <3>2
    <3>3. CASE ResultFetched(r, res)
      BY <1>5, <3>3
    <3> QED
      BY <3>1, <3>2, <3>3
  <2> QED
    BY <2>1, <2>2, <2>3
<1>10. CASE IterationsLoopStep
  BY <1>6, <1>8, <1>10 DEF IterationsLoopStep
<1> QED
  BY <1>1, <1>2, <1>7, <1>9, <1>10 DEF IterationsNext

-----------------------------------------------------------------------------
(* threaded_request_handler.                                               *)

PostedInv ==
  /\ posted \in Seq([req : RequestType, res : {"ok", "timed out", "owner dead"}])
  /\ ThreadedNoneForgotten

\* The same as ThreadedNoneForgotten, in simpler words.
LEMMA PostedIs ==
  ThreadedNoneForgotten <=>
    /\ \A n, m \in DOMAIN posted : posted[n].req.id = posted[m].req.id => n = m
    /\ \A n \in DOMAIN posted : posted[n].req \in base
  BY DEF ThreadedNoneForgotten, IsInjective

LEMMA PostedNextIs ==
  ThreadedNoneForgotten' <=>
    /\ \A n, m \in DOMAIN posted' : posted'[n].req.id = posted'[m].req.id => n = m
    /\ \A n \in DOMAIN posted' : posted'[n].req \in base'
  BY DEF ThreadedNoneForgotten, IsInjective

LEMMA AppendFacts ==
  ASSUME NEW S, NEW s \in Seq(S), NEW x \in S
  PROVE  /\ Append(s, x) \in Seq(S)
         /\ DOMAIN Append(s, x) = DOMAIN s \cup {Len(s) + 1}
         /\ \A n \in DOMAIN s : Append(s, x)[n] = s[n]
         /\ Append(s, x)[Len(s) + 1] = x
         /\ Len(s) + 1 \notin DOMAIN s
  OBVIOUS

LEMMA PostedKept ==
  ASSUME PostedInv, UNCHANGED posted, base \subseteq base'
  PROVE  PostedInv'
  BY PostedIs, PostedNextIs DEF PostedInv

LEMMA ThreadedStep ==
  ASSUME SharedInv, PostedInv, UNCHANGED kind, kind = "threaded", ThreadedNext
  PROVE  SharedInv' /\ ContractStep /\ PostedInv'
<1> DEFINE Post == [req : RequestType, res : {"ok", "timed out", "owner dead"}]
<1>0. /\ posted \in Seq(Post)
      /\ \A n, m \in DOMAIN posted : posted[n].req.id = posted[m].req.id => n = m
      /\ \A n \in DOMAIN posted : posted[n].req \in base
      /\ OneEach(base) /\ base \subseteq RequestType
  BY PostedIs DEF PostedInv, SharedInv, SharedType, ApartInv
<1>1. ASSUME NEW timeout \in Timeouts, ThreadedHandleRequest(timeout)
      PROVE  SharedInv' /\ ContractStep /\ PostedInv'
  <2>1. PassOn(Request(timeout)) /\ UNCHANGED posted
    BY <1>1 DEF ThreadedHandleRequest
  <2>2. base \subseteq base'
    BY <2>1 DEF PassOn
  <2> QED
    BY <2>1, <2>2, PostedKept, PassOnStep, TimeoutsIs
<1>2. CASE ThreadedSomeAnswer
  <2>1. PICK r \in base, res \in {"ok", "timed out", "owner dead"} : JobEnds(r, res)
    BY <1>2 DEF ThreadedSomeAnswer
  <2> DEFINE post == [req |-> r, res |-> res]
  <2>2. /\ posted' = Append(posted, post)
        /\ \A n \in DOMAIN posted : posted[n].req # r
        /\ UNCHANGED shared_vars
    BY <2>1 DEF JobEnds, IsPosted
  <2>3. post \in Post /\ post.req = r
    BY <1>0
  <2> HIDE DEF post, Post
  <2>4. /\ posted' \in Seq(Post)
        /\ DOMAIN posted' = DOMAIN posted \cup {Len(posted) + 1}
        /\ \A n \in DOMAIN posted : posted'[n] = posted[n]
        /\ posted'[Len(posted) + 1] = post
        /\ Len(posted) + 1 \notin DOMAIN posted
    <3>1. posted \in Seq(Post) /\ posted' = Append(posted, post)
      BY <1>0, <2>2
    <3>2. post \in Post
      BY <2>3
    <3>3. /\ Append(posted, post) \in Seq(Post)
          /\ DOMAIN Append(posted, post) = DOMAIN posted \cup {Len(posted) + 1}
          /\ \A n \in DOMAIN posted : Append(posted, post)[n] = posted[n]
          /\ Append(posted, post)[Len(posted) + 1] = post
          /\ Len(posted) + 1 \notin DOMAIN posted
      BY <3>1, <3>2, AppendFacts
    <3> QED
      BY <3>1, <3>3
  <2>5. \A n \in DOMAIN posted : posted[n].req.id # r.id
    BY <1>0, <2>2 DEF OneEach
  <2>6. base' = base
    BY <2>2 DEF shared_vars
  <2>7. /\ \A n, m \in DOMAIN posted' : posted'[n].req.id = posted'[m].req.id => n = m
        /\ \A n \in DOMAIN posted' : posted'[n].req \in base'
    BY <1>0, <2>3, <2>4, <2>5, <2>6
  <2>8. PostedInv'
    BY <2>4, <2>7, PostedNextIs DEF PostedInv, Post
  <2> QED
    BY <2>2, <2>8, OwnStep
<1>3. CASE ThreadedResponseReturns
  <2>1. ResponseReturned /\ UNCHANGED <<queues, base, posted>>
    BY <1>3 DEF ThreadedResponseReturns
  <2> QED
    BY <2>1, PostedKept, ReturnStep
<1>4. CASE ResponseTask
  <2>1. posted # <<>> /\ Answer(Head(posted).req, Head(posted).res) /\ posted' = Tail(posted)
    BY <1>4 DEF ResponseTask
  <2> HIDE DEF Post
  <2>2. /\ Len(posted) \in Nat \ {0} /\ 1 \in DOMAIN posted /\ Head(posted) = posted[1]
        /\ DOMAIN posted = 1 .. Len(posted)
    BY <1>0, <2>1
  <2>3. /\ posted' \in Seq(Post) /\ DOMAIN posted' = 1 .. Len(posted) - 1
        /\ \A n \in 1 .. Len(posted) - 1 : posted'[n] = posted[n + 1]
    BY <1>0, <2>1, <2>2
  <2>4. Head(posted).req \in base /\ base' = base \ {posted[1].req}
    BY <1>0, <2>1, <2>2 DEF Answer
  <2>5. /\ \A n \in DOMAIN posted' : n \in Nat /\ n + 1 \in DOMAIN posted /\ n + 1 # 1
        /\ \A n, m \in DOMAIN posted' : n + 1 = m + 1 => n = m
    BY <2>2, <2>3
  <2>6. /\ \A n, m \in DOMAIN posted' : posted'[n].req.id = posted'[m].req.id => n = m
        /\ \A n \in DOMAIN posted' : posted'[n].req \in base'
    <3>1. ASSUME NEW n \in DOMAIN posted', NEW m \in DOMAIN posted',
                 posted'[n].req.id = posted'[m].req.id
          PROVE  n = m
      <4>1. posted[n + 1].req.id = posted[m + 1].req.id
        BY <2>3, <3>1
      <4> QED
        BY <1>0, <2>5, <4>1
    <3>2. ASSUME NEW n \in DOMAIN posted' PROVE posted'[n].req \in base'
      <4>1. posted[n + 1].req \in base /\ posted[n + 1].req # posted[1].req
        BY <1>0, <2>2, <2>5
      <4> QED
        BY <2>3, <2>4, <4>1
    <3> QED
      BY <3>1, <3>2
  <2>7. PostedInv'
    BY <2>3, <2>6, PostedNextIs DEF PostedInv, Post
  <2> QED
    BY <2>1, <2>4, <2>7, AnswerStep
<1>5. CASE (Destroy \/ Advance) /\ UNCHANGED posted
  <2>1. base' = base
    BY <1>5 DEF Destroy, Advance
  <2> QED
    BY <1>5, <2>1, PostedKept, DestroyStep, AdvanceStep
<1> QED
  BY <1>1, <1>2, <1>3, <1>4, <1>5 DEF ThreadedNext, ThreadedLoopStep

-----------------------------------------------------------------------------
(* The classes whose own fields do not matter for the contract.            *)

LEMMA ForwardingStep ==
  ASSUME SharedInv, UNCHANGED kind, kind = "forwarding", ForwardingNext
  PROVE  SharedInv' /\ ContractStep
<1>0. etime \in Nat /\ Never \in Nat /\ Deadline \in Nat /\ MaxTimeout \in Nat
  BY ForwardingAssumption, NeverFacts DEF SharedInv, SharedType
<1>1. ASSUME NEW timeout \in {1, Never}, ForwardingHandleRequest(timeout)
      PROVE  SharedInv' /\ ContractStep
  <2> DEFINE left == IF Deadline >= etime THEN Deadline - etime ELSE 0
  <2>1. timeout \in 0 .. Never /\ left \in Nat
    BY <1>0, NeverFacts
  <2>2. \A b \in Nat : Lesser(timeout, b) \in 0 .. Never
    BY <1>0, <2>1 DEF Lesser
  <2> HIDE DEF left
  <2>3. PICK t \in {timeout, Lesser(timeout, left), Lesser(timeout, MaxTimeout)} : PassOn(Request(t))
    BY <1>1 DEF ForwardingHandleRequest, NoConcurrent, NoConcurrentBytesIo, CallOnce, IdleNotifying,
             DeadlineSetting, TimeoutLimiting, Transforming, FullTransforming, ConstResponse, Arrives,
             left
  <2>4. t \in 0 .. Never
    BY <1>0, <2>1, <2>2, <2>3
  <2> QED
    BY <2>3, <2>4, PassOnStep
<1>2. CASE ForwardingSomeAnswer
  BY <1>2, AnswerStep DEF ForwardingSomeAnswer, ForwardingBaseAnswers, ZeroBytesRead
<1>3. ASSUME NEW r \in base, RefusalTask(r)
      PROVE  SharedInv' /\ ContractStep
  BY <1>3, AnswerStep DEF RefusalTask
<1>4. CASE ForwardingResponseReturns
  BY <1>4, ReturnStep DEF ForwardingResponseReturns
<1>5. CASE Drop \/ Advance
  BY <1>5, DestroyStep, AdvanceStep DEF Drop
<1> QED
  BY <1>1, <1>2, <1>3, <1>4, <1>5 DEF ForwardingNext, ForwardingLoopStep

LEMMA FdWriterStep ==
  ASSUME SharedInv, UNCHANGED kind, kind = "fd_writer", FdWriterNext
  PROVE  SharedInv' /\ ContractStep
<1>1. CASE WriteBytes
  <2>1. PassOn(Request(Never)) /\ Never \in 0 .. Never
    BY <1>1, NeverFacts DEF WriteBytes
  <2> QED
    BY <2>1, PassOnStep
<1>2. ASSUME NEW timeout \in Timeouts, WriteChunk(timeout)
      PROVE  SharedInv' /\ ContractStep
  BY <1>2, AdmitStep, FirstQueue, TimeoutsIs DEF WriteChunk
<1>3. ASSUME NEW r \in base, NEW k, WriteSome(r, k)
      PROVE  SharedInv' /\ ContractStep
  BY <1>3, OwnStep, AnswerStep DEF WriteSome
<1>4. ASSUME NEW r \in base, FdWriteFails(r)
      PROVE  SharedInv' /\ ContractStep
  BY <1>4, AnswerStep DEF FdWriteFails
<1>5. CASE FdWriterResponseReturns
  BY <1>5, ReturnStep, FirstQueue DEF FdWriterResponseReturns
<1>6. CASE QueueTask
  BY <1>6, QueueTaskStep
<1>7. CASE Destroy \/ Advance
  BY <1>7, DestroyStep, AdvanceStep
<1>8. CASE FdWriterSomeAnswer
  BY <1>3, <1>4, <1>8 DEF FdWriterSomeAnswer
<1> QED
  BY <1>1, <1>2, <1>5, <1>6, <1>7, <1>8 DEF FdWriterNext, FdWriterLoopStep

LEMMA ConnectionsStep ==
  ASSUME SharedInv, UNCHANGED kind, kind = "connections", ConnectionsNext
  PROVE  SharedInv' /\ ContractStep
<1>1. ASSUME NEW timeout \in Timeouts, ConnectionsHandleRequest(timeout)
      PROVE  SharedInv' /\ ContractStep
  BY <1>1, PassOnStep, TimeoutsIs DEF ConnectionsHandleRequest
<1>2. ASSUME NEW r \in base, KernelConnects(r)
      PROVE  SharedInv' /\ ContractStep
  BY <1>2, OwnStep DEF KernelConnects
<1>3. CASE Polled
  BY <1>3, OwnStep DEF Polled
<1>4. ASSUME NEW r \in base, LaterTask(r) \/ WatchNotified(r) \/ ConnectTimesOut(r)
      PROVE  SharedInv' /\ ContractStep
  BY <1>4, AnswerStep DEF LaterTask, WatchNotified, ConnectTimesOut, Ended
<1>5. CASE ConnectionsResponseReturns
  BY <1>5, ReturnStep DEF ConnectionsResponseReturns
<1>6. CASE Advance
  BY <1>6, AdvanceStep
<1> QED
  BY <1>1, <1>2, <1>3, <1>4, <1>5, <1>6 DEF ConnectionsNext, ConnectionsLoopStep, ConnectionsSomeAnswer

LEMMA ReaperStep ==
  ASSUME SharedInv, UNCHANGED kind, kind = "reaper", ReaperNext
  PROVE  SharedInv' /\ ContractStep
<1>1. ASSUME NEW timeout \in 0 .. Never, CallMade(Request(timeout))
      PROVE  SharedInv' /\ ContractStep
  BY <1>1, EnqueueStep, FirstQueue DEF CallMade
<1>2. ASSUME NEW pid \in Pids, StartCommand(pid) \/ Exit(pid)
      PROVE  SharedInv' /\ ContractStep
  <2>1. CASE StartCommand(pid)
    <3>1. CallMade(Request(Never)) /\ Never \in 0 .. Never
      BY <2>1, NeverFacts DEF StartCommand
    <3> QED
      BY <1>1, <3>1
  <2>2. CASE Exit(pid)
    BY <2>2, OwnStep DEF Exit
  <2> QED
    BY <1>2, <2>1, <2>2
<1>3. ASSUME NEW pid \in Pids, NEW timeout \in Timeouts, ReaperHandleRequest(pid, timeout)
      PROVE  SharedInv' /\ ContractStep
  BY <1>1, <1>3, TimeoutsIs DEF ReaperHandleRequest
<1>4. CASE SignalNotified
  BY <1>4, ModeStep DEF SignalNotified
<1>5. CASE Waitpid
  <2>1. /\ mode = InReap /\ (UNCHANGED mode \/ mode' = Idle)
        /\ UNCHANGED <<etime, deadlines, queues, base, alive, called, cancelled, result>>
    BY <1>5 DEF Waitpid
  <2> QED
    BY <2>1, ModeStep
<1>6. CASE PullMatching
  <2>1. CASE UNCHANGED <<queues, result>>
    BY <1>6, <2>1, OwnStep DEF PullMatching, shared_vars
  <2>2. ASSUME NEW r \in Matching, queues' = [queues EXCEPT ![1] = PullRequest(@, r)],
               result' = [id |-> r.id, res |-> "ok"]
        PROVE  SharedInv' /\ ContractStep
    BY <1>6, <2>2, PullStep DEF PullMatching, Matching, Of
  <2> QED
    BY <1>6, <2>1, <2>2 DEF PullMatching
<1>7. CASE ReaperTask
  BY <1>7, QueueTaskStep DEF ReaperTask
<1>8. CASE Destroy \/ Advance
  BY <1>8, DestroyStep, AdvanceStep
<1> QED
  BY <1>2, <1>3, <1>4, <1>5, <1>6, <1>7, <1>8 DEF ReaperNext, ReaperLoopStep, ReaperSomeAnswer

LEMMA IoLinesStep ==
  ASSUME SharedInv, UNCHANGED kind, kind = "io_lines", IoLinesNext
  PROVE  SharedInv' /\ ContractStep
<1>1. ASSUME NEW timeout \in Timeouts, IoLinesHandleRequest(timeout)
      PROVE  SharedInv' /\ ContractStep
  BY <1>1, PassOnStep, TimeoutsIs DEF IoLinesHandleRequest
<1>2. ASSUME NEW r \in base, LineRefused(r) \/ LineWritten(r) \/ LineWriteFails(r)
      PROVE  SharedInv' /\ ContractStep
  BY <1>2, AnswerStep, OwnStep DEF LineRefused, LineWritten, LineWriteFails, Told, Saved
<1>3. ASSUME NEW id, ResponseRead(id)
      PROVE  SharedInv' /\ ContractStep
  BY <1>3, AnswerStep, OwnStep DEF ResponseRead, Told, Saved
<1>4. ASSUME NEW id, ResponseFails(id)
      PROVE  SharedInv' /\ ContractStep
  BY <1>4, ModeStep DEF ResponseFails
<1>5. CASE IoLinesResponseReturns
  BY <1>5, ReturnStep DEF IoLinesResponseReturns
<1>6. CASE Advance
  BY <1>6, AdvanceStep
<1>7. CASE IoLinesSomeAnswer
  BY <1>2, <1>3, <1>4, <1>7 DEF IoLinesSomeAnswer
<1> QED
  BY <1>1, <1>2, <1>5, <1>6, <1>7 DEF IoLinesNext, IoLinesLoopStep

LEMMA DispatcherStep ==
  ASSUME SharedInv, UNCHANGED kind, kind = "dispatch", kind \in Kinds, DispatchNext
  PROVE  SharedInv' /\ ContractStep
<1>0. 1 \in Queues /\ 2 \in Queues
  BY KindsAssumption, RequestHandlingAssumption DEF Queues
<1>1. ASSUME NEW timeout \in Timeouts, DispatchHandleRequest(timeout)
      PROVE  SharedInv' /\ ContractStep
  BY <1>0, <1>1, EnqueueStep, TimeoutsIs DEF DispatchHandleRequest
<1>2. ASSUME NEW id, MessageRead(id)
      PROVE  SharedInv' /\ ContractStep
  <2> DEFINE candidates == {r \in Merged.requests : MsgId(r) = id}
  <2>1. candidates \in SUBSET Merged.requests /\ "ok" # "timed out" /\ Dispatch(candidates, "ok")
    BY <1>2 DEF MessageRead
  <2> HIDE DEF candidates
  <2> QED
    BY <1>0, <2>1, DispatchStep
<1>3. CASE ReadTimesOut
  <2>1. Dispatch({}, "timed out") /\ {} \in SUBSET Merged.requests
    BY <1>3 DEF ReadTimesOut
  <2> QED
    BY <1>0, <2>1, DispatchStep
<1>4. CASE ReadFails
  <2>1. Dispatch(Merged.requests, "error") /\ "error" # "timed out"
    BY <1>4 DEF ReadFails
  <2> QED
    BY <1>0, <2>1, DispatchStep
<1>5. CASE ReadIgnored
  BY <1>5, OwnStep DEF ReadIgnored
<1>6. CASE DispatchResponseReturns
  BY <1>6, ReturnStep DEF DispatchResponseReturns
<1>7. CASE QueueTask
  BY <1>7, QueueTaskStep
<1>8. CASE Destroy \/ Advance
  BY <1>8, DestroyStep, AdvanceStep
<1> QED
  BY <1>1, <1>2, <1>3, <1>4, <1>5, <1>6, <1>7, <1>8 DEF DispatchNext, DispatchLoopStep, DispatchSomeAnswer

-----------------------------------------------------------------------------
(* All classes.                                                            *)

\* What a class needs of its own fields for the contract.
OwnInv ==
  /\ kind = "throttling" => ThrottlingInv
  /\ kind = "iterations" => CallsInv
  /\ kind = "threaded" => PostedInv

HandlersInv == SharedInv /\ kind \in Kinds /\ OwnInv

LEMMA InitSharedFacts ==
  ASSUME InitShared
  PROVE  SharedInv /\ Plain!Init /\ Open = {} /\ mode = Idle
<1>2. /\ etime = 0 /\ deadlines = <<>> /\ base = {} /\ alive = TRUE /\ mode = Idle /\ called = {}
      /\ cancelled = {} /\ result.id = 0
      /\ queues = [i \in Queues |-> NewRequestsQueue]
  BY DEF InitShared
<1>3. /\ queues \in [Queues -> QueueType]
      /\ \A i \in Queues : Of(i) = {} /\ queues[i].scheduled_timeout_task = {}
  BY <1>2, NewQueueType DEF Of, NewRequestsQueue
<1>4. SharedType
  BY <1>2, <1>3, NeverFacts DEF SharedType, Modes
<1>5. KnownInv /\ ApartInv /\ AliveInv
  BY <1>2, <1>3 DEF KnownInv, Known, ApartInv, OneEach, Apart, AliveInv
<1>6. CalledInv
  BY <1>2 DEF CalledInv
<1>7. TimeoutTasksCover
  BY <1>3 DEF TimeoutTasksCover, Earliest, Of
<1>8. Open = {}
  BY <1>2, <1>3, OpenIs DEF InOne
<1> QED
  BY <1>2, <1>4, <1>5, <1>6, <1>7, <1>8 DEF SharedInv, Plain!Init

LEMMA InitFacts ==
  ASSUME Init
  PROVE  SharedInv /\ Plain!Init /\ mode = Idle
<1>1. InitShared
  BY DEF Init, SequentialInit, SemaphoreInit, PrioritizingInit, GroupingInit, LazyInit,
         MultiSequentialInit, ForwardingInit, ThrottlingInit, IterationsInit, DispatchInit,
         FdWriterInit, ConnectionsInit, ReaperInit, ThreadedInit, IoLinesInit
<1> QED
  BY <1>1, InitSharedFacts

LEMMA HandlersInit == ASSUME Init PROVE HandlersInv
<1>1. SharedInv /\ kind \in Kinds
  BY InitFacts DEF Init
<1>2. ASSUME kind = "throttling" PROVE ThrottlingInv
  <2>1. throttle = [allowed |-> 0, tasks |-> <<>>, passed |-> <<>>]
    BY <1>2 DEF Init, ThrottlingInit
  <2>2. /\ throttle \in [allowed : Nat, tasks : Seq(ThrottleTask), passed : Seq(Nat)]
        /\ DOMAIN throttle.tasks = {} /\ DOMAIN throttle.passed = {} /\ Len(throttle.passed) = 0
    BY <2>1
  <2> QED
    BY <2>2 DEF ThrottlingInv, ThrottlingNoneForgotten, ThrottlingLimitKept
<1>3. ASSUME kind = "iterations" PROVE CallsInv
  <2>1. calls = <<>> /\ deadlines = <<>>
    BY <1>3 DEF Init, IterationsInit, InitShared
  <2> QED
    BY <2>1 DEF CallsInv
<1>4. ASSUME kind = "threaded" PROVE PostedInv
  <2>1. posted = <<>>
    BY <1>4 DEF Init, ThreadedInit
  <2> QED
    BY <2>1, PostedIs DEF PostedInv
<1> QED
  BY <1>1, <1>2, <1>3, <1>4 DEF HandlersInv, OwnInv

LEMMA HandlersNext ==
  ASSUME HandlersInv, [Next]_vars
  PROVE  HandlersInv' /\ CopiesStep
<1>0. SharedInv /\ kind \in Kinds /\ OwnInv /\ UNCHANGED kind /\ kind' \in Kinds
  BY DEF HandlersInv, Next, vars
<1>p. ASSUME ContractStep, kind # "grouping" PROVE CopiesStep
  BY <1>0, <1>p, NoCopies DEF Copies
<1>1. ASSUME kind \notin {"throttling", "iterations", "threaded"} PROVE OwnInv'
  BY <1>0, <1>1 DEF OwnInv
<1>2. CASE UNCHANGED vars
  <2>1. UNCHANGED <<shared_vars, own, kind>>
    BY <1>2 DEF vars
  <2>2. SharedInv' /\ ContractStep
    BY <1>0, <2>1, OwnStep
  <2>3. OwnInv'
    BY <1>0, <2>1 DEF OwnInv, ThrottlingInv, InTime, ThrottlingNoneForgotten, ThrottlingLimitKept,
         throttle, CallsInv, calls, GotInOrder, IdsOf, PostedInv, ThreadedNoneForgotten, posted,
         shared_vars
  <2>4. Open' = Open /\ Copies' = Copies
    BY <2>1 DEF shared_vars, Open, Pending, IdsOf, Copies
  <2>5. CopiesStep
    BY <2>1, <2>4 DEF shared_vars, CopiesStep, Contract!vars
  <2> QED
    BY <1>0, <2>2, <2>3, <2>5 DEF HandlersInv
<1>3. CASE Next
  <2>1. CASE kind = "sequential" /\ SequentialNext
    BY <1>0, <1>p, <1>1, <2>1, SequentialStep DEF HandlersInv
  <2>2. CASE kind = "semaphore" /\ SemaphoreNext
    BY <1>0, <1>p, <1>1, <2>2, SemaphoreStep DEF HandlersInv
  <2>3. CASE kind = "prioritizing" /\ PrioritizingNext
    BY <1>0, <1>p, <1>1, <2>3, PrioritizingStep DEF HandlersInv
  <2>4. CASE kind = "grouping" /\ GroupingNext
    BY <1>0, <1>1, <2>4, GroupingStep DEF HandlersInv
  <2>5. CASE kind = "lazy_init" /\ LazyNext
    BY <1>0, <1>p, <1>1, <2>5, LazyStep DEF HandlersInv
  <2>6. CASE kind = "multi_sequential" /\ MultiSequentialNext
    BY <1>0, <1>p, <1>1, <2>6, MultiSequentialStep DEF HandlersInv
  <2>7. CASE kind = "forwarding" /\ ForwardingNext
    BY <1>0, <1>p, <1>1, <2>7, ForwardingStep DEF HandlersInv
  <2>8. CASE kind = "throttling" /\ ThrottlingNext
    BY <1>0, <1>p, <2>8, ThrottlingStep DEF HandlersInv, OwnInv
  <2>9. CASE kind = "iterations" /\ IterationsNext
    BY <1>0, <1>p, <2>9, IterationsStep DEF HandlersInv, OwnInv
  <2>10. CASE kind = "dispatch" /\ DispatchNext
    BY <1>0, <1>p, <1>1, <2>10, DispatcherStep DEF HandlersInv
  <2>11. CASE kind = "fd_writer" /\ FdWriterNext
    BY <1>0, <1>p, <1>1, <2>11, FdWriterStep DEF HandlersInv
  <2>12. CASE kind = "connections" /\ ConnectionsNext
    BY <1>0, <1>p, <1>1, <2>12, ConnectionsStep DEF HandlersInv
  <2>13. CASE kind = "reaper" /\ ReaperNext
    BY <1>0, <1>p, <1>1, <2>13, ReaperStep DEF HandlersInv
  <2>14. CASE kind = "threaded" /\ ThreadedNext
    BY <1>0, <1>p, <2>14, ThreadedStep DEF HandlersInv, OwnInv
  <2>15. CASE kind = "io_lines" /\ IoLinesNext
    BY <1>0, <1>p, <1>1, <2>15, IoLinesStep DEF HandlersInv
  <2> QED
    BY <1>3, <2>1, <2>2, <2>3, <2>4, <2>5, <2>6, <2>7, <2>8, <2>9, <2>10, <2>11, <2>12, <2>13,
       <2>14, <2>15 DEF Next
<1> QED
  BY <1>2, <1>3

(* Requests are in one place at a time, with the deadline of their call or  *)
(* a later one: what every class keeps.                                     *)
THEOREM HandlersInvariant == Spec => []HandlersInv
<1>1. Init => HandlersInv
  BY HandlersInit
<1>2. HandlersInv /\ [Next]_vars => HandlersInv'
  BY HandlersNext
<1> QED
  BY <1>1, <1>2, PTL DEF Spec

(* Every class implements request_handler: each request is answered once,   *)
(* later than the call that made it, and told of a timeout only when its    *)
(* time has come, wherever it waited (request-handler.h:21-31); but those    *)
(* grouped behind another one are told, at once, whatever that one was, the  *)
(* timeout of it too (grouping-null-request-handler-impl.h:69-77).           *)
THEOREM HandlersImplementContract == Spec => ImplementsRequestHandler
<1>1. Init => Contract!Init
  <2> SUFFICES ASSUME Init PROVE Contract!Init
    OBVIOUS
  <2>1. Plain!Init /\ mode = Idle
    BY InitFacts
  <2>2. Copies = {}
    BY <2>1, ModesDiffer DEF Copies
  <2> QED
    BY <2>1, <2>2 DEF Plain!Init, Contract!Init
<1>2. HandlersInv /\ [Next]_vars => [Contract!Next]_(Contract!vars)
  BY HandlersNext, CopiesStepIs
<1> QED
  BY <1>1, <1>2, HandlersInvariant, PTL DEF Spec, ImplementsRequestHandler, Contract!Spec

-----------------------------------------------------------------------------
(* What the classes promise of the order and of what is in use.  First what *)
(* the steps that they share do to it.                                      *)

Busy == base # {} \/ mode = InResponse

AtMostOne == (\A r, o \in base : r = o) /\ (mode = InResponse => base = {})

OnlyFirst == \A i \in Queues : i # 1 => Of(i) = {}
NothingWaits == \A i \in Queues : Of(i) = {}

LEMMA PendingIs ==
  /\ Pending = {} <=> NothingWaits
  /\ OnlyFirst => (Pending = {} <=> Of(1) = {})
  BY FirstQueue DEF Pending, Of, NothingWaits, OnlyFirst

LEMMA InUseFacts ==
  /\ IsFiniteSet(base) => InUse \in Nat /\ (InUse > 0 <=> Busy)
  /\ AtMostOne => IsFiniteSet(base) /\ InUse <= 1 /\ (InUse = 1 <=> Busy) /\ Cardinality(base) <= 1
<1>1. ASSUME IsFiniteSet(base) PROVE InUse \in Nat /\ (InUse > 0 <=> Busy)
  <2>1. Cardinality(base) \in Nat /\ (Cardinality(base) = 0 <=> base = {})
    BY <1>1, FS_CardinalityType, FS_EmptySet
  <2> QED
    BY <2>1 DEF InUse, Busy
<1>2. ASSUME AtMostOne
      PROVE  IsFiniteSet(base) /\ InUse <= 1 /\ (InUse = 1 <=> Busy) /\ Cardinality(base) <= 1
  <2>1. CASE base = {}
    BY <2>1, FS_EmptySet DEF InUse, Busy
  <2>2. ASSUME NEW r \in base
        PROVE  IsFiniteSet(base) /\ InUse <= 1 /\ (InUse = 1 <=> Busy) /\ Cardinality(base) <= 1
    <3>1. base = {r} /\ mode # InResponse
      BY <1>2 DEF AtMostOne
    <3>2. IsFiniteSet(base) /\ Cardinality(base) = 1
      BY <3>1, FS_Singleton
    <3> QED
      BY <3>1, <3>2 DEF InUse, Busy
  <2> QED
    BY <2>1, <2>2
<1> QED
  BY <1>1, <1>2

\* The queues' tasks, destruction and time leave the base handler alone.
Quiet ==
  /\ UNCHANGED <<base, deadlines>>
  /\ mode' = InResponse <=> mode = InResponse
  /\ mode # InReap => mode' # InReap
  /\ mode = InResponse => UNCHANGED result
  /\ \A i \in Queues : Of(i)' \subseteq Of(i)
  /\ alive' => alive
  /\ etime' \in Nat /\ etime <= etime'

LEMMA QuietStep ==
  ASSUME SharedInv, QueueTask \/ Destroy \/ Advance
  PROVE  Quiet
<1>0. /\ queues \in [Queues -> QueueType] /\ etime \in Nat
      /\ \A i \in Queues : queues[i] \in QueueType
  BY DEF SharedInv, SharedType
<1>1. ASSUME NEW i \in Queues, TimeoutTask(i) PROVE Quiet
  <2>1. /\ mode = Idle /\ mode' = InTimeouts(i)
        /\ queues' = [queues EXCEPT ![i] = WithoutExpired(@, etime)]
        /\ UNCHANGED <<etime, deadlines, base, alive>>
    BY <1>1 DEF TimeoutTask, CallFirst
  <2>2. \A j \in Queues : Of(j)' \subseteq Of(j)
    BY <1>0, <2>1, WithoutExpiredFacts DEF Of
  <2> QED
    BY <1>0, <2>1, <2>2, ModesDiffer DEF Quiet
<1>2. CASE CancelTask
  <2>1. /\ mode = Idle /\ mode' = InCancel
        /\ UNCHANGED <<etime, deadlines, queues, base, alive>>
    BY <1>2 DEF CancelTask, CallFirst
  <2> QED
    BY <1>0, <2>1, ModesDiffer DEF Quiet, Of
<1>3. CASE NextHandler
  <2>1. /\ mode # InResponse /\ mode' = mode
        /\ UNCHANGED <<etime, deadlines, queues, base, alive>>
    BY <1>3 DEF NextHandler, CallFirst
  <2> QED
    BY <1>0, <2>1 DEF Quiet, Of
<1>4. CASE QueueTaskReturns
  <2>1. /\ mode # InResponse /\ mode' = Idle
        /\ queues' = [i \in Queues |-> IF mode = InTimeouts(i) THEN Reschedule(queues[i])
                                       ELSE queues[i]]
        /\ UNCHANGED <<etime, deadlines, base, alive>>
    BY <1>4 DEF QueueTaskReturns
  <2>2. \A j \in Queues : Of(j)' = Of(j)
    BY <1>0, <2>1, RescheduleFacts DEF Of
  <2> QED
    BY <1>0, <2>1, <2>2, ModesDiffer DEF Quiet
<1>5. CASE Destroy
  <2>1. /\ alive' = FALSE /\ queues' = [i \in Queues |-> NewRequestsQueue]
        /\ UNCHANGED <<etime, deadlines, base, mode, result>>
    BY <1>5 DEF Destroy
  <2>2. \A j \in Queues : Of(j)' = {}
    BY <2>1 DEF Of, NewRequestsQueue
  <2> QED
    BY <1>0, <2>1, <2>2 DEF Quiet
<1>6. CASE Advance
  <2>1. etime' = etime + 1 /\ mode = Idle /\ UNCHANGED <<deadlines, queues, base, alive, mode>>
    BY <1>6 DEF Advance
  <2> QED
    BY <1>0, <2>1, ModesDiffer DEF Quiet, Of
<1> QED
  BY <1>1, <1>2, <1>3, <1>4, <1>5, <1>6 DEF QueueTask

LEMMA ForwardedOne ==
  ASSUME SharedInv, NEW i \in Queues, ForwardNext(i)
  PROVE  \E r \in Of(i) : /\ IsFirst(r, Of(i))
                          /\ Of(i)' = Of(i) \ {r}
                          /\ \A j \in Queues : j # i => Of(j)' = Of(j)
                          /\ base' = base \cup {Forwarded(r)}
                          /\ Forwarded(r).id = r.id
                          /\ \A o \in base : o.id # r.id
<1>0. queues \in [Queues -> QueueType] /\ queues[i] \in QueueType
  BY DEF SharedInv, SharedType
<1>1. PICK r \in Of(i) : /\ IsFirst(r, Of(i))
                         /\ queues' = [queues EXCEPT ![i] = PullRequest(@, r)]
                         /\ base' = base \cup {Forwarded(r)}
  BY DEF ForwardNext, Of
<1>2. Of(i)' = Of(i) \ {r} /\ \A j \in Queues : j # i => Of(j)' = Of(j)
  BY <1>0, <1>1, PullFacts DEF Of
<1>3. r \in RequestType /\ SharedType
  BY <1>0, <1>1 DEF Of, QueueType, SharedInv
<1>4. Forwarded(r).id = r.id
  BY <1>3, ForwardedFacts
<1>5. \A o \in base : o.id # r.id
  BY <1>1 DEF SharedInv, ApartInv, Apart
<1> QED
  BY <1>1, <1>2, <1>4, <1>5

LEMMA EnqueuedOne ==
  ASSUME SharedInv, NEW i \in Queues, NEW r \in RequestType, Enqueue(i, r)
  PROVE  Of(i)' = Of(i) \cup {r} /\ \A j \in Queues : j # i => Of(j)' = Of(j)
<1>1. queues \in [Queues -> QueueType] /\ queues[i] \in QueueType
  BY DEF SharedInv, SharedType
<1> QED
  BY <1>1, PushFacts DEF Enqueue, Of

LEMMA AdmittedOne ==
  ASSUME SharedInv, NEW timeout \in 0 .. Never, NEW i \in Queues, NEW waits,
         Admit(i, Request(timeout), waits)
  PROVE  /\ Len(deadlines) \in Nat /\ Len(deadlines') = Len(deadlines) + 1
         /\ Request(timeout).id = Len(deadlines) + 1
         /\ alive /\ UNCHANGED <<etime, alive, mode, called, result>>
         /\ \A o \in base : o.id # Request(timeout).id
         /\ \/ waits /\ base' = base /\ Of(i)' = Of(i) \cup {Request(timeout)}
            \/ ~waits /\ base' = base \cup {Request(timeout)} /\ Of(i)' = Of(i)
         /\ \A j \in Queues : j # i => Of(j)' = Of(j)
<1> DEFINE r == Request(timeout)
<1>1. SharedType /\ KnownInv /\ Known(base)
  BY DEF SharedInv, KnownInv
<1>2. r \in RequestType /\ NewRequest(r) /\ r.id = Len(deadlines) + 1
  BY <1>1, RequestFacts DEF NewRequest
<1> HIDE DEF r
<1>3. Accept(r) /\ Admit(i, r, waits)
  BY DEF Admit, PassOn, r
<1>4. /\ Len(deadlines') = Len(deadlines) + 1
      /\ \A o \in base : o.id # r.id
      /\ UNCHANGED <<etime, alive, mode, called, cancelled, result>>
  BY <1>1, <1>2, <1>3, AcceptFacts
<1>5. Len(deadlines) \in Nat /\ alive
  BY <1>1, <1>3 DEF SharedType, Accept
<1>6. CASE waits
  <2>1. Enqueue(i, r) /\ base' = base
    BY <1>3, <1>6 DEF Admit
  <2> QED
    BY <1>2, <1>4, <1>5, <1>6, <2>1, EnqueuedOne DEF r
<1>7. CASE ~waits
  <2>1. base' = base \cup {r} /\ queues' = queues
    BY <1>3, <1>7 DEF Admit, PassOn
  <2> QED
    BY <1>2, <1>4, <1>5, <1>7, <2>1 DEF r, Of
<1> QED
  BY <1>6, <1>7

(* What is never ahead of what waited longer, or with more urgency.        *)

InOrder ==
  /\ FirstComeFirstServed
  /\ kind # "multi_sequential" => UrgentFirst
  /\ NewcomersWait

LEMMA OrderIs ==
  /\ (\A i \in Queues : \A r, o \in Of(i) :
        o.id < r.id /\ r.id \in IdsOf(base') => o.id \in IdsOf(base')) => FirstComeFirstServed
  /\ (\A i \in Queues : \A r \in Of(i) : r.id \in IdsOf(base') =>
        \A j \in 1 .. i - 1 : j \in Queues /\ \A o \in Of(j) : o.id \in IdsOf(base')) => UrgentFirst
  BY DEF FirstComeFirstServed, UrgentFirst, IdsOf, Of

LEMMA KeyFacts == \A id \in Nat : Key(id) \in Queues
  BY RequestHandlingAssumption DEF Key, Queues

\* A step that passes on no new request.
LEMMA NoNewcomer ==
  ASSUME SharedInv, \A b \in base' : b.id \in 1 .. Len(deadlines)
  PROVE  NewcomersWait
<1>1. Len(deadlines) \in Nat
  BY DEF SharedInv, SharedType
<1>2. \A b \in base' : ~(b.id > Len(deadlines))
  BY <1>1
<1> QED
  BY <1>2 DEF NewcomersWait, NoOvertaking, NoOvertakingOfKey

\* No request that waits goes to the base handler.
LEMMA OrderIfNoneGoes ==
  ASSUME \A i \in Queues : \A r \in Of(i) : r.id \notin IdsOf(base'), NewcomersWait
  PROVE  InOrder
<1>1. FirstComeFirstServed /\ UrgentFirst
  BY OrderIs
<1> QED
  BY <1>1 DEF InOrder

LEMMA OrderKept ==
  ASSUME SharedInv, IdsOf(base') \subseteq IdsOf(base)
  PROVE  InOrder
<1>1. \A i \in Queues : \A r \in Of(i) : r.id \notin IdsOf(base)
  BY DEF SharedInv, ApartInv, Apart, IdsOf
<1>2. \A b \in base : b.id \in 1 .. Len(deadlines)
  BY DEF SharedInv, KnownInv, Known
<1>3. \A b \in base' : b.id \in 1 .. Len(deadlines)
  BY <1>2 DEF IdsOf
<1>4. \A i \in Queues : \A r \in Of(i) : r.id \notin IdsOf(base')
  BY <1>1
<1> QED
  BY <1>3, <1>4, NoNewcomer, OrderIfNoneGoes

LEMMA OrderIfQuiet ==
  ASSUME SharedInv, base' \subseteq base
  PROVE  InOrder
<1>1. IdsOf(base') \subseteq IdsOf(base)
  BY DEF IdsOf
<1> QED
  BY <1>1, OrderKept

LEMMA OrderIfAdmitted ==
  ASSUME SharedInv, NEW timeout \in 0 .. Never, NEW i \in Queues, NEW waits,
         Admit(i, Request(timeout), waits),
         \/ waits
         \/ NothingWaits
         \/ kind = "multi_sequential" /\ i = Key(Request(timeout).id) /\ Of(i) = {}
         \/ kind = "prioritizing" /\ mode = InResponse
  PROVE  InOrder
<1> DEFINE r == Request(timeout)
<1>1. r.id = Len(deadlines) + 1 /\ Len(deadlines) \in Nat
  BY AdmittedOne
<1>2. \/ waits /\ base' = base /\ Of(i)' = Of(i) \cup {r}
      \/ ~waits /\ base' = base \cup {r} /\ Of(i)' = Of(i)
  BY AdmittedOne
<1>k. \/ waits
      \/ NothingWaits
      \/ kind = "multi_sequential" /\ i = Key(r.id) /\ Of(i) = {}
      \/ kind = "prioritizing" /\ mode = InResponse
  OBVIOUS
<1> HIDE DEF r
<1>3. CASE base' = base
  BY <1>3, OrderIfQuiet
<1>4. CASE ~waits /\ base' = base \cup {r}
  <2>1. \A j \in Queues : \A o \in Of(j) : o.id \in 1 .. Len(deadlines) /\ o.id \notin IdsOf(base)
    BY DEF SharedInv, KnownInv, Known, ApartInv, Apart, IdsOf
  <2>2. \A j \in Queues : \A o \in Of(j) : o.id \notin IdsOf(base')
    BY <1>1, <1>4, <2>1 DEF IdsOf
  <2>3. ASSUME NEW b \in base', b.id > Len(deadlines) PROVE b.id = r.id /\ Key(b.id) \in Queues
    <3>1. b \in base => b.id \in 1 .. Len(deadlines)
      BY DEF SharedInv, KnownInv, Known
    <3>2. b.id = r.id
      BY <1>1, <1>4, <2>3, <3>1
    <3> QED
      BY <1>1, <3>2, KeyFacts
  <2>4. \A k \in Queues : HasRequests(queues[k]) <=> Of(k) # {}
    BY DEF HasRequests, Of
  <2>5. CASE NothingWaits
    <3>1. NoOvertakingOfKey
      BY <2>3, <2>4, <2>5 DEF NoOvertakingOfKey, NothingWaits
    <3>2. NoOvertaking
      BY <2>5, PendingIs DEF NoOvertaking
    <3> QED
      BY <2>2, <3>1, <3>2, OrderIfNoneGoes DEF NewcomersWait
  <2>6. CASE kind = "multi_sequential" /\ i = Key(r.id) /\ Of(i) = {}
    <3>1. NoOvertakingOfKey
      BY <2>3, <2>4, <2>6 DEF NoOvertakingOfKey
    <3> QED
      BY <2>2, <2>6, <3>1, OrderIfNoneGoes DEF NewcomersWait
  <2>7. CASE kind = "prioritizing" /\ mode = InResponse
    BY <2>2, <2>7, OrderIfNoneGoes DEF NewcomersWait
  <2> QED
    BY <1>k, <1>4, <2>5, <2>6, <2>7
<1> QED
  BY <1>2, <1>3, <1>4

LEMMA OrderIfPassed ==
  ASSUME SharedInv, NEW timeout \in 0 .. Never, PassOn(Request(timeout)), NothingWaits
  PROVE  InOrder
<1>1. Admit(1, Request(timeout), FALSE)
  BY DEF Admit
<1> QED
  BY <1>1, OrderIfAdmitted, FirstQueue

LEMMA OrderIfForwarded ==
  ASSUME SharedInv, NEW i \in Queues, ForwardNext(i),
         kind = "multi_sequential" \/ \A j \in 1 .. i - 1 : Of(j) = {}
  PROVE  InOrder
<1>1. PICK r \in Of(i) : /\ IsFirst(r, Of(i))
                         /\ base' = base \cup {Forwarded(r)}
                         /\ Forwarded(r).id = r.id
  BY ForwardedOne
<1>2. \A n : n \in IdsOf(base') <=> n \in IdsOf(base) \/ n = r.id
  BY <1>1 DEF IdsOf
<1>3. /\ \A j \in Queues : \A o \in Of(j) : o.id \notin IdsOf(base)
      /\ \A o \in Of(i) : o.id = r.id => o = r
      /\ \A j \in Queues : j # i => \A o \in Of(j) : o.id # r.id
  BY <1>1 DEF SharedInv, ApartInv, Apart, OneEach, IdsOf
<1>4. ASSUME NEW j \in Queues, NEW o \in Of(j), o.id \in IdsOf(base')
      PROVE  j = i /\ o = r
  BY <1>2, <1>3, <1>4
<1>5. FirstComeFirstServed
  <2>1. ASSUME NEW j \in Queues, NEW x \in Of(j), NEW o \in Of(j), o.id < x.id,
               x.id \in IdsOf(base')
        PROVE  FALSE
    <3>1. j = i /\ x = r
      BY <1>4, <2>1
    <3>2. r.id <= o.id
      BY <1>1, <3>1 DEF IsFirst
    <3>3. r.id \in Nat /\ o.id \in Nat
      BY <1>1, <3>1 DEF SharedInv, KnownInv, Known
    <3> QED
      BY <2>1, <3>1, <3>2, <3>3
  <2> QED
    BY <2>1, OrderIs
<1>6. ASSUME kind # "multi_sequential" PROVE UrgentFirst
  <2>1. \A j \in 1 .. i - 1 : j \in Queues
    BY RequestHandlingAssumption DEF Queues
  <2>2. \A j \in 1 .. i - 1 : Of(j) = {}
    BY <1>6
  <2> QED
    BY <1>4, <2>1, <2>2, OrderIs
<1>7. NewcomersWait
  <2>1. \A b \in base' : b.id \in IdsOf(base) \/ b.id = r.id
    BY <1>2 DEF IdsOf
  <2>2. \A b \in base' : b.id \in 1 .. Len(deadlines)
    BY <1>1, <2>1 DEF SharedInv, KnownInv, Known, IdsOf
  <2> QED
    BY <2>2, NoNewcomer
<1> QED
  BY <1>5, <1>6, <1>7 DEF InOrder

LEMMA OrderIfReturned ==
  ASSUME SharedInv, ForwardPending(1)
  PROVE  InOrder
<1>1. CASE ForwardNext(1)
  BY <1>1, OrderIfForwarded, FirstQueue
<1>2. CASE UNCHANGED <<queues, base>>
  BY <1>2, OrderIfQuiet
<1> QED
  BY <1>1, <1>2 DEF ForwardPending

-----------------------------------------------------------------------------
(* One request at a time, with a flag that says so: sequential handlers,    *)
(* also those of single keys, and the writer of chunks.                     *)

FlagInv(flag) ==
  /\ AtMostOne /\ OnlyFirst /\ flag \in BOOLEAN
  /\ alive => (flag <=> Busy) /\ (Of(1) # {} => Busy)

FlagInvNext(flag) ==
  /\ AtMostOne' /\ OnlyFirst' /\ flag \in BOOLEAN
  /\ alive' => (flag <=> Busy') /\ (Of(1)' # {} => Busy')

LEMMA FlagAdmitted ==
  ASSUME SharedInv, NEW flag, FlagInv(flag), NEW timeout \in 0 .. Never,
         Admit(1, Request(timeout), flag)
  PROVE  FlagInvNext(TRUE) /\ InOrder
<1> DEFINE r == Request(timeout)
<1>1. /\ alive /\ UNCHANGED <<alive, mode>>
      /\ \/ flag /\ base' = base /\ Of(1)' = Of(1) \cup {r}
         \/ ~flag /\ base' = base \cup {r} /\ Of(1)' = Of(1)
      /\ \A j \in Queues : j # 1 => Of(j)' = Of(j)
  BY AdmittedOne, FirstQueue
<1> HIDE DEF r
<1>2. CASE flag
  <2>1. FlagInvNext(TRUE)
    BY <1>1, <1>2 DEF FlagInv, FlagInvNext, AtMostOne, OnlyFirst, Busy
  <2> QED
    BY <1>2, <2>1, OrderIfAdmitted, FirstQueue
<1>3. CASE ~flag
  <2>1. base = {} /\ mode # InResponse /\ NothingWaits
    BY <1>1, <1>3 DEF FlagInv, Busy, NothingWaits, OnlyFirst
  <2>2. base' = {r} /\ mode' # InResponse
    BY <1>1, <1>3, <2>1
  <2>3. FlagInvNext(TRUE)
    BY <1>1, <1>3, <2>1, <2>2 DEF FlagInv, FlagInvNext, AtMostOne, OnlyFirst, Busy
  <2> QED
    BY <2>1, <2>3, OrderIfAdmitted, FirstQueue
<1> QED
  BY <1>2, <1>3 DEF FlagInv

LEMMA FlagAnswered ==
  ASSUME SharedInv, NEW flag, FlagInv(flag), NEW r \in base, NEW res, Answer(r, res)
  PROVE  FlagInvNext(flag) /\ InOrder
<1>1. base' = base \ {r} /\ mode' = InResponse /\ mode = Idle /\ UNCHANGED <<alive, queues>>
  BY DEF Answer
<1>2. base' = {}
  BY <1>1 DEF FlagInv, AtMostOne
<1>3. \A i \in Queues : Of(i)' = Of(i)
  BY <1>1 DEF Of
<1>4. FlagInvNext(flag)
  BY <1>1, <1>2, <1>3, FirstQueue DEF FlagInv, FlagInvNext, AtMostOne, OnlyFirst, Busy
<1> QED
  BY <1>1, <1>4, OrderIfQuiet

LEMMA FlagReturned ==
  ASSUME SharedInv, NEW flag, FlagInv(flag), ResponseReturned, ForwardPending(1)
  PROVE  FlagInvNext(IF alive THEN HasRequests(queues[1]) ELSE flag) /\ InOrder
<1>1. mode = InResponse /\ mode' = Idle /\ alive' = alive /\ base = {}
  BY DEF ResponseReturned, FlagInv, AtMostOne
<1>2. HasRequests(queues[1]) <=> Of(1) # {}
  BY DEF HasRequests, Of
<1>3. CASE alive /\ Of(1) # {}
  <2>1. ForwardNext(1)
    BY <1>2, <1>3 DEF ForwardPending
  <2>2. PICK r \in Of(1) : /\ base' = {Forwarded(r)}
                           /\ \A j \in Queues : j # 1 => Of(j)' = Of(j)
    BY <1>1, <2>1, ForwardedOne, FirstQueue
  <2>3. FlagInvNext(TRUE)
    BY <1>1, <1>3, <2>2, ModesDiffer DEF FlagInv, FlagInvNext, AtMostOne, OnlyFirst, Busy
  <2> QED
    BY <1>2, <1>3, <2>3, OrderIfReturned DEF HasRequests
<1>4. CASE ~(alive /\ Of(1) # {})
  <2>1. base' = base /\ \A j \in Queues : Of(j)' = Of(j)
    BY <1>2, <1>4 DEF ForwardPending, Of
  <2>2. ASSUME alive PROVE FlagInvNext(FALSE) /\ ~HasRequests(queues[1])
    BY <1>1, <1>2, <1>4, <2>1, <2>2, ModesDiffer, FirstQueue
       DEF FlagInv, FlagInvNext, AtMostOne, OnlyFirst, Busy
  <2>3. ASSUME ~alive PROVE FlagInvNext(flag)
    BY <1>1, <2>1, <2>3, ModesDiffer DEF FlagInv, FlagInvNext, AtMostOne, OnlyFirst
  <2> QED
    BY <2>2, <2>3, OrderIfReturned DEF HasRequests
<1> QED
  BY <1>3, <1>4

LEMMA FlagQuiet ==
  ASSUME SharedInv, NEW flag, FlagInv(flag), Quiet
  PROVE  FlagInvNext(flag) /\ InOrder
<1>1. FlagInvNext(flag)
  BY FirstQueue DEF FlagInv, FlagInvNext, AtMostOne, OnlyFirst, Busy, Quiet
<1> QED
  BY <1>1, OrderIfQuiet DEF Quiet

LEMMA FlagPromises ==
  ASSUME NEW flag, FlagInv(flag)
  PROVE  OngoingWhileInUse(flag) /\ SequentialLimitKept
  BY PendingIs, InUseFacts DEF FlagInv, OngoingWhileInUse, SequentialLimitKept

SequentialInv == FlagInv(request_ongoing)

LEMMA SequentialKept ==
  ASSUME SharedInv, SequentialInv, kind = "sequential", SequentialNext
  PROVE  SequentialInv' /\ InOrder
<1>0. SequentialInv' <=> FlagInvNext(request_ongoing')
  BY DEF SequentialInv, FlagInv, FlagInvNext
<1>1. ASSUME NEW timeout \in Timeouts, SequentialHandleRequest(timeout)
      PROVE  SequentialInv' /\ InOrder
  BY <1>0, <1>1, FlagAdmitted, TimeoutsIs DEF SequentialInv, SequentialHandleRequest
<1>2. CASE SequentialSomeAnswer
  BY <1>0, <1>2, FlagAnswered DEF SequentialInv, SequentialSomeAnswer, SequentialBaseAnswers
<1>3. CASE SequentialResponseReturns
  BY <1>0, <1>3, FlagReturned DEF SequentialInv, SequentialResponseReturns
<1>4. CASE (QueueTask \/ Destroy \/ Advance) /\ UNCHANGED request_ongoing
  BY <1>0, <1>4, QuietStep, FlagQuiet DEF SequentialInv
<1> QED
  BY <1>1, <1>2, <1>3, <1>4 DEF SequentialNext, SequentialLoopStep

BusyKey(key) == (\E r \in base : Key(r.id) = key) \/ (mode = InResponse /\ Key(result.id) = key)

MultiSequentialInv ==
  /\ \A i \in Queues : \A r \in Of(i) : Key(r.id) = i
  /\ \A r, o \in base : Key(r.id) = Key(o.id) => r = o
  /\ mode = InResponse => \A r \in base : Key(r.id) # Key(result.id)
  /\ alive => \A key \in Queues : (key \in ongoing <=> BusyKey(key)) /\ (Of(key) # {} => BusyKey(key))

LEMMA MultiSequentialKept ==
  ASSUME SharedInv, MultiSequentialInv, kind = "multi_sequential", MultiSequentialNext
  PROVE  MultiSequentialInv' /\ InOrder
<1> USE DEF MultiSequentialInv, BusyKey
<1>1. ASSUME NEW timeout \in Timeouts, MultiSequentialHandleRequest(timeout)
      PROVE  MultiSequentialInv' /\ InOrder
  <2>0. timeout \in 0 .. Never /\ Key(Request(timeout).id) \in Queues
    BY TimeoutsIs, RequestFacts, KeyFacts DEF RequestType, SharedInv
  <2>2. PICK k \in Queues : k = Key(Request(timeout).id)
    BY <2>0
  <2>9. PICK r : r = Request(timeout)
    OBVIOUS
  <2>1. Admit(k, Request(timeout), k \in ongoing) /\ ongoing' = ongoing \cup {k}
    BY <1>1, <2>2 DEF MultiSequentialHandleRequest
  <2>3. /\ alive /\ UNCHANGED <<alive, mode, result>>
        /\ \/ k \in ongoing /\ base' = base /\ Of(k)' = Of(k) \cup {r}
           \/ k \notin ongoing /\ base' = base \cup {r} /\ Of(k)' = Of(k)
        /\ \A j \in Queues : j # k => Of(j)' = Of(j)
    <3>1. /\ alive /\ UNCHANGED <<etime, alive, mode, called, result>>
          /\ \/ k \in ongoing /\ base' = base /\ Of(k)' = Of(k) \cup {Request(timeout)}
             \/ k \notin ongoing /\ base' = base \cup {Request(timeout)} /\ Of(k)' = Of(k)
          /\ \A j \in Queues : j # k => Of(j)' = Of(j)
      BY <2>0, <2>1, AdmittedOne, Zenon
    <3> QED
      BY <2>9, <3>1
  <2>4. InOrder
    <3>1. k \in ongoing \/ Of(k) = {}
      BY <2>3
    <3> QED
      BY <2>0, <2>1, <2>2, <3>1, OrderIfAdmitted
  <2>5. Key(r.id) = k
    BY <2>2, <2>9
  <2>6. CASE k \in ongoing
    <3>1. /\ base' = base /\ Of(k)' = Of(k) \cup {r} /\ ongoing' = ongoing
      BY <2>1, <2>3, <2>6
    <3>2. \A key \in Queues : BusyKey(key)' <=> BusyKey(key)
      BY <2>3, <3>1
    <3>3. BusyKey(k)
      BY <2>2, <2>3, <2>6
    <3>4. \A i \in Queues : \A o \in Of(i)' : Key(o.id) = i
      BY <2>3, <2>5, <3>1
    <3>5. \A key \in Queues : (key \in ongoing' <=> BusyKey(key)') /\ (Of(key)' # {} => BusyKey(key)')
      BY <2>2, <2>3, <3>1, <3>2, <3>3
    <3> QED
      BY <2>3, <2>4, <3>1, <3>4, <3>5
  <2>7. CASE k \notin ongoing
    <3>1. base' = base \cup {r} /\ \A j \in Queues : Of(j)' = Of(j)
      BY <2>3, <2>7
    <3>2. ~BusyKey(k)
      BY <2>2, <2>3, <2>7
    <3>3. \A key \in Queues : BusyKey(key)' <=> BusyKey(key) \/ key = k
      BY <2>3, <2>5, <3>1
    <3> QED
      BY <2>1, <2>3, <2>4, <2>5, <3>1, <3>2, <3>3
  <2> QED
    BY <2>6, <2>7
<1>2. ASSUME NEW r \in base, NEW res, Answer(r, res), UNCHANGED ongoing
      PROVE  MultiSequentialInv' /\ InOrder
  <2>1. /\ base' = base \ {r} /\ mode' = InResponse /\ mode = Idle
        /\ result'.id = r.id /\ UNCHANGED <<alive, queues>>
    BY <1>2 DEF Answer
  <2>2. \A i \in Queues : Of(i)' = Of(i)
    BY <2>1 DEF Of
  <2>3. \A key \in Queues : BusyKey(key)' <=> BusyKey(key)
    BY <2>1, ModesDiffer
  <2>4. \A o \in base' : Key(o.id) # Key(result'.id)
    BY <2>1
  <2> QED
    BY <1>2, <2>1, <2>2, <2>3, <2>4, OrderIfQuiet
<1>3. CASE MultiSequentialResponseReturns
  <2>2. PICK k \in Queues : k = Key(result.id)
    BY KeyFacts DEF SharedInv, SharedType
  <2>1. /\ mode = InResponse /\ mode' = Idle /\ UNCHANGED <<alive, result>>
        /\ ForwardPending(k)
        /\ ongoing' = IF alive /\ ~HasRequests(queues[k]) THEN ongoing \ {k} ELSE ongoing
    BY <1>3, <2>2 DEF MultiSequentialResponseReturns, ResponseReturned
  <2>3. \A r \in base : Key(r.id) # k
    BY <2>1, <2>2
  <2>4. HasRequests(queues[k]) <=> Of(k) # {}
    BY DEF HasRequests, Of
  <2>5. BusyKey(k) /\ \A key \in Queues : key # k => (BusyKey(key) <=> \E r \in base : Key(r.id) = key)
    BY <2>1, <2>2
  <2>6. CASE alive /\ Of(k) # {}
    <3>1. ForwardNext(k)
      BY <2>1, <2>4, <2>6 DEF ForwardPending
    <3>2. PICK r \in Of(k) : /\ Of(k)' = Of(k) \ {r}
                             /\ base' = base \cup {Forwarded(r)} /\ Forwarded(r).id = r.id
                             /\ \A j \in Queues : j # k => Of(j)' = Of(j)
      BY <2>2, <3>1, ForwardedOne
    <3>3. Key(Forwarded(r).id) = k /\ ongoing' = ongoing
      BY <2>1, <2>2, <2>4, <2>6, <3>2
    <3>4. \A key \in Queues : BusyKey(key)' <=> BusyKey(key)
      BY <2>1, <2>5, <3>2, <3>3, ModesDiffer
    <3>5. \A i \in Queues : Of(i)' \subseteq Of(i)
      BY <3>2
    <3>6. \A b, o \in base' : Key(b.id) = Key(o.id) => b = o
      BY <2>3, <3>2, <3>3
    <3>7. MultiSequentialInv'
      BY <2>1, <2>6, <3>3, <3>4, <3>5, <3>6, ModesDiffer
    <3> QED
      BY <2>2, <3>1, <3>7, OrderIfForwarded
  <2>7. CASE ~(alive /\ Of(k) # {})
    <3>1. base' = base /\ queues' = queues
      BY <2>1, <2>4, <2>7 DEF ForwardPending
    <3>2. \A i \in Queues : Of(i)' = Of(i)
      BY <3>1 DEF Of
    <3>3. \A key \in Queues : BusyKey(key)' <=> BusyKey(key) /\ key # k
      BY <2>1, <2>3, <2>5, <3>1, ModesDiffer
    <3>4. alive => ongoing' = ongoing \ {k} /\ Of(k) = {}
      BY <2>1, <2>4, <2>7
    <3>5. MultiSequentialInv'
      BY <2>1, <3>1, <3>2, <3>3, <3>4, ModesDiffer
    <3> QED
      BY <3>1, <3>5, OrderIfQuiet
  <2> QED
    BY <2>6, <2>7
<1>4. CASE (QueueTask \/ Destroy \/ Advance) /\ UNCHANGED ongoing
  <2>1. Quiet
    BY <1>4, QuietStep
  <2>2. \A key \in Queues : BusyKey(key)' <=> BusyKey(key)
    BY <2>1 DEF Quiet
  <2>3. MultiSequentialInv'
    BY <1>4, <2>1, <2>2 DEF Quiet
  <2> QED
    BY <2>1, <2>3, OrderIfQuiet DEF Quiet
<1> QED
  BY <1>1, <1>2, <1>3, <1>4
     DEF MultiSequentialNext, MultiSequentialLoopStep, MultiSequentialSomeAnswer, MultiSequentialBaseAnswers

LEMMA MultiSequentialPromises ==
  ASSUME MultiSequentialInv
  PROVE  MultiSequentialLimitKept /\ MultiSequentialNoneForgotten
<1>1. ASSUME NEW key \in Queues
      PROVE  InUseOf(key) <= 1 /\ (InUseOf(key) = 1 <=> BusyKey(key))
  <2> DEFINE S == {r \in base : Key(r.id) = key}
  <2>1. CASE S = {}
    BY <2>1, FS_EmptySet DEF InUseOf, BusyKey
  <2>2. ASSUME NEW r \in S
        PROVE  InUseOf(key) <= 1 /\ (InUseOf(key) = 1 <=> BusyKey(key))
    <3>1. S = {r} /\ ~(mode = InResponse /\ Key(result.id) = key)
      BY DEF MultiSequentialInv
    <3>2. Cardinality(S) = 1
      BY <3>1, FS_Singleton
    <3> QED
      BY <3>1, <3>2 DEF InUseOf, BusyKey
  <2> QED
    BY <2>1, <2>2
<1> QED
  BY <1>1 DEF MultiSequentialInv, MultiSequentialLimitKept, MultiSequentialNoneForgotten, HasRequests, Of

-----------------------------------------------------------------------------
(* A semaphore, which counts.                                              *)

LEMMA InUseMore ==
  ASSUME IsFiniteSet(base), NEW x, x \notin base, base' = base \cup {x},
         mode' = InResponse <=> mode = InResponse
  PROVE  IsFiniteSet(base') /\ InUse' = InUse + 1
<1>1. IsFiniteSet(base') /\ Cardinality(base') = Cardinality(base) + 1 /\ Cardinality(base) \in Nat
  BY FS_AddElement, FS_CardinalityType
<1> QED
  BY <1>1 DEF InUse

LEMMA InUseAnswered ==
  ASSUME IsFiniteSet(base), NEW r \in base, NEW res, Answer(r, res)
  PROVE  IsFiniteSet(base') /\ InUse' = InUse
<1>1. base' = base \ {r} /\ mode = Idle /\ mode' = InResponse
  BY DEF Answer
<1>2. IsFiniteSet(base') /\ Cardinality(base') = Cardinality(base) - 1 /\ Cardinality(base) \in Nat
  BY <1>1, FS_RemoveElement, FS_CardinalityType
<1> QED
  BY <1>1, <1>2, ModesDiffer DEF InUse

LEMMA InUseReturned ==
  ASSUME IsFiniteSet(base), ResponseReturned
  PROVE  /\ InUse >= 1
         /\ base' = base => InUse' = InUse - 1
         /\ \A x : x \notin base /\ base' = base \cup {x} => IsFiniteSet(base') /\ InUse' = InUse
<1>1. mode = InResponse /\ mode' = Idle /\ Cardinality(base) \in Nat
  BY FS_CardinalityType DEF ResponseReturned
<1>2. ASSUME NEW x, x \notin base, base' = base \cup {x}
      PROVE  IsFiniteSet(base') /\ Cardinality(base') = Cardinality(base) + 1
  BY <1>2, FS_AddElement
<1> QED
  BY <1>1, <1>2, ModesDiffer DEF InUse

SemaphoreInv ==
  /\ OnlyFirst /\ IsFiniteSet(base) /\ InUse <= InitValue
  /\ alive => sem_value = InitValue - InUse /\ (Of(1) # {} => InUse = InitValue)

LEMMA SemaphoreKept ==
  ASSUME SharedInv, SemaphoreInv, kind = "semaphore", SemaphoreNext
  PROVE  SemaphoreInv' /\ InOrder
<1>0. /\ InUse \in Nat /\ InitValue \in Nat /\ OnlyFirst /\ IsFiniteSet(base) /\ InUse <= InitValue
      /\ alive => sem_value = InitValue - InUse /\ (Of(1) # {} => InUse = InitValue)
  BY SemaphoreAssumption, InUseFacts DEF SemaphoreInv
<1>1. ASSUME NEW timeout \in Timeouts, SemaphoreHandleRequest(timeout)
      PROVE  SemaphoreInv' /\ InOrder
  <2>1. timeout \in 0 .. Never
    BY TimeoutsIs
  <2>2. PICK r : r = Request(timeout)
    OBVIOUS
  <2>3. CASE sem_value = 0
    <3>1. Admit(1, Request(timeout), TRUE) /\ sem_value' = sem_value
      BY <1>1, <2>3 DEF SemaphoreHandleRequest
    <3>2. /\ alive /\ UNCHANGED <<alive, mode, base>> /\ Of(1)' = Of(1) \cup {r}
          /\ \A j \in Queues : j # 1 => Of(j)' = Of(j)
      BY <2>1, <2>2, <3>1, AdmittedOne, FirstQueue
    <3>3. InUse' = InUse
      BY <3>2 DEF InUse
    <3>4. InUse = InitValue
      BY <1>0, <2>3, <3>2
    <3>5. SemaphoreInv'
      BY <1>0, <3>1, <3>2, <3>3, <3>4 DEF SemaphoreInv, OnlyFirst
    <3> QED
      BY <2>1, <3>1, <3>5, OrderIfAdmitted, FirstQueue
  <2>4. CASE sem_value # 0
    <3>1. Admit(1, Request(timeout), FALSE) /\ sem_value' = sem_value - 1
      BY <1>1, <2>4 DEF SemaphoreHandleRequest
    <3>2. /\ alive /\ UNCHANGED <<alive, mode>> /\ base' = base \cup {r} /\ r \notin base
          /\ \A j \in Queues : Of(j)' = Of(j)
      BY <2>1, <2>2, <3>1, AdmittedOne, FirstQueue
    <3>3. InUse' = InUse + 1 /\ IsFiniteSet(base')
      BY <1>0, <3>2, InUseMore
    <3>4. InUse # InitValue /\ Of(1) = {}
      BY <1>0, <2>4, <3>2
    <3>5. InUse + 1 <= InitValue /\ sem_value' = InitValue - (InUse + 1)
      BY <1>0, <3>1, <3>2, <3>4
    <3>6. SemaphoreInv'
      BY <1>0, FirstQueue, <3>2, <3>3, <3>4, <3>5 DEF SemaphoreInv, OnlyFirst
    <3>7. NothingWaits
      BY <1>0, <3>4 DEF NothingWaits, OnlyFirst
    <3> QED
      BY <2>1, <3>1, <3>6, <3>7, OrderIfAdmitted, FirstQueue
  <2> QED
    BY <2>3, <2>4
<1>2. ASSUME NEW r \in base, NEW res, Answer(r, res), UNCHANGED sem_value
      PROVE  SemaphoreInv' /\ InOrder
  <2>1. base' \subseteq base /\ UNCHANGED <<alive, queues>>
    BY <1>2 DEF Answer
  <2>2. \A j \in Queues : Of(j)' = Of(j)
    BY <2>1 DEF Of
  <2>3. IsFiniteSet(base') /\ InUse' = InUse
    BY <1>0, <1>2, InUseAnswered
  <2>4. SemaphoreInv'
    BY <1>0, <1>2, <2>1, <2>2, <2>3, FirstQueue DEF SemaphoreInv, OnlyFirst
  <2> QED
    BY <2>1, <2>4, OrderIfQuiet
<1>3. CASE SemaphoreResponseReturns
  <2>1. /\ ResponseReturned /\ ForwardPending(1) /\ alive' = alive
        /\ sem_value' = IF alive /\ ~HasRequests(queues[1]) THEN sem_value + 1 ELSE sem_value
    BY <1>3 DEF SemaphoreResponseReturns, ResponseReturned
  <2>2. HasRequests(queues[1]) <=> Of(1) # {}
    BY DEF HasRequests, Of
  <2>3. CASE alive /\ Of(1) # {}
    <3>1. ForwardNext(1) /\ sem_value' = sem_value
      BY <2>1, <2>2, <2>3 DEF ForwardPending
    <3>2. PICK r \in Of(1) : /\ base' = base \cup {Forwarded(r)} /\ Forwarded(r) \notin base
                             /\ Of(1)' \subseteq Of(1)
                             /\ \A j \in Queues : j # 1 => Of(j)' = Of(j)
      BY <3>1, ForwardedOne, FirstQueue
    <3>3. PICK x : x = Forwarded(r)
      OBVIOUS
    <3>4. InUse' = InUse /\ IsFiniteSet(base')
      BY <1>0, <2>1, <3>2, <3>3, InUseReturned
    <3>5. SemaphoreInv'
      BY <1>0, <2>1, <2>3, <3>1, <3>2, <3>4 DEF SemaphoreInv, OnlyFirst
    <3> QED
      BY <2>1, <3>5, OrderIfReturned
  <2>4. CASE ~(alive /\ Of(1) # {})
    <3>1. base' = base /\ queues' = queues /\ (alive => sem_value' = sem_value + 1)
      BY <2>1, <2>2, <2>4 DEF ForwardPending
    <3>2. \A j \in Queues : Of(j)' = Of(j)
      BY <3>1 DEF Of
    <3>3. InUse' = InUse - 1 /\ InUse >= 1
      BY <1>0, <2>1, <3>1, InUseReturned
    <3>4. SemaphoreInv'
      BY <1>0, <2>1, <2>4, <3>1, <3>2, <3>3, FirstQueue DEF SemaphoreInv, OnlyFirst
    <3> QED
      BY <2>1, <3>4, OrderIfReturned
  <2> QED
    BY <2>3, <2>4
<1>4. CASE (QueueTask \/ Destroy \/ Advance) /\ UNCHANGED sem_value
  <2>1. Quiet
    BY <1>4, QuietStep
  <2>2. InUse' = InUse
    BY <2>1 DEF Quiet, InUse
  <2>3. SemaphoreInv'
    BY <1>0, <1>4, <2>1, <2>2, FirstQueue DEF Quiet, SemaphoreInv, OnlyFirst
  <2> QED
    BY <2>1, <2>3, OrderIfQuiet DEF Quiet
<1> QED
  BY <1>1, <1>2, <1>3, <1>4 DEF SemaphoreNext, SemaphoreLoopStep, SemaphoreSomeAnswer, SemaphoreBaseAnswers

LEMMA SemaphorePromises ==
  ASSUME SemaphoreInv
  PROVE  SemaphoreLimitKept /\ SemaphoreNoneForgotten
  BY PendingIs DEF SemaphoreInv, SemaphoreLimitKept, SemaphoreNoneForgotten

-----------------------------------------------------------------------------
(* Priorities, groups, and requests that wait for a factory.               *)

PrioritizingInv ==
  /\ IsFiniteSet(base) /\ request_handling_ongoing \in BOOLEAN
  /\ request_handling_ongoing => base # {}
  /\ \A i \in Queues : Of(i) # {} => Busy
  /\ NothingWaits \/ request_handling_ongoing \/ mode = InResponse

LEMMA PrioritizingKept ==
  ASSUME SharedInv, PrioritizingInv, kind = "prioritizing", PrioritizingNext
  PROVE  PrioritizingInv' /\ InOrder
<1>0. /\ IsFiniteSet(base) /\ request_handling_ongoing \in BOOLEAN
      /\ request_handling_ongoing => base # {}
      /\ \A i \in Queues : Of(i) # {} => Busy
      /\ NothingWaits \/ request_handling_ongoing \/ mode = InResponse
  BY DEF PrioritizingInv
<1>1. ASSUME NEW i \in Queues, NEW timeout \in Timeouts, PrioritizingHandleRequest(i, timeout)
      PROVE  PrioritizingInv' /\ InOrder
  <2>1. timeout \in 0 .. Never
    BY TimeoutsIs
  <2>2. PICK r, w : r = Request(timeout) /\ w = request_handling_ongoing
    OBVIOUS
  <2>3. Admit(i, Request(timeout), w) /\ request_handling_ongoing' = TRUE
    BY <1>1, <2>2 DEF PrioritizingHandleRequest
  <2>4. (base' = base /\ w) \/ base' = base \cup {r}
    BY <2>1, <2>2, <2>3, AdmittedOne
  <2>5. base' # {}
    BY <1>0, <2>2, <2>4
  <2>6. IsFiniteSet(base')
    BY <1>0, <2>4, FS_AddElement
  <2>7. PrioritizingInv'
    BY <2>3, <2>5, <2>6 DEF PrioritizingInv, Busy
  <2>8. w \/ NothingWaits \/ mode = InResponse
    BY <1>0, <2>2
  <2> QED
    BY <2>1, <2>3, <2>7, <2>8, OrderIfAdmitted
<1>2. ASSUME NEW r \in base, NEW res, PrioritizingBaseAnswers(r, res)
      PROVE  PrioritizingInv' /\ InOrder
  <2>1. base' = base \ {r} /\ mode' = InResponse /\ request_handling_ongoing' = FALSE
    BY <1>2 DEF PrioritizingBaseAnswers, Answer
  <2>2. IsFiniteSet(base')
    BY <1>0, <2>1, FS_RemoveElement
  <2>3. PrioritizingInv'
    BY <2>1, <2>2 DEF PrioritizingInv, Busy
  <2> QED
    BY <2>1, <2>3, OrderIfQuiet
<1>3. CASE PrioritizingResponseReturns
  <2>1. CASE \E i \in Queues : FirstPending(i) /\ ForwardNext(i)
    <3>1. PICK i \in Queues : FirstPending(i) /\ ForwardNext(i)
      BY <2>1
    <3>2. \A j \in 1 .. i - 1 : Of(j) = {}
      BY <3>1 DEF FirstPending, HasRequests, Of
    <3>3. InOrder
      BY <3>1, <3>2, OrderIfForwarded
    <3>4. PICK r \in Of(i) : base' = base \cup {Forwarded(r)}
      BY <3>1, ForwardedOne
    <3>5. IsFiniteSet(base') /\ base' # {}
      BY <1>0, <3>4, FS_AddElement
    <3>6. request_handling_ongoing' = TRUE
      BY <1>3, <2>1 DEF PrioritizingResponseReturns, FirstPending
    <3> QED
      BY <3>3, <3>5, <3>6 DEF PrioritizingInv, Busy
  <2>2. CASE ~ \E i \in Queues : HasRequests(queues[i])
    <3>1. UNCHANGED <<queues, base, request_handling_ongoing>>
      BY <1>3, <2>2 DEF PrioritizingResponseReturns
    <3>2. \A i \in Queues : Of(i)' = {}
      BY <2>2, <3>1 DEF HasRequests, Of
    <3>3. PrioritizingInv'
      BY <1>0, <3>1, <3>2 DEF PrioritizingInv, NothingWaits
    <3> QED
      BY <3>1, <3>3, OrderIfQuiet
  <2> QED
    BY <1>3, <2>1, <2>2 DEF PrioritizingResponseReturns
<1>4. CASE (QueueTask \/ Advance) /\ UNCHANGED request_handling_ongoing
  <2>1. Quiet
    BY <1>4, QuietStep
  <2>2. PrioritizingInv'
    BY <1>0, <1>4, <2>1 DEF Quiet, PrioritizingInv, Busy, NothingWaits
  <2> QED
    BY <2>1, <2>2, OrderIfQuiet DEF Quiet
<1> QED
  BY <1>1, <1>2, <1>3, <1>4 DEF PrioritizingNext, PrioritizingLoopStep, PrioritizingSomeAnswer

LEMMA PrioritizingPromises ==
  ASSUME PrioritizingInv PROVE PrioritizingNoneForgotten
  BY PendingIs, InUseFacts DEF PrioritizingInv, PrioritizingNoneForgotten, NothingWaits

GroupingInv ==
  /\ OnlyFirst /\ (\A r, o \in base : r = o) /\ grouping_ongoing \in BOOLEAN
  /\ alive => (grouping_ongoing <=> base # {}) /\ (Of(1) # {} => base # {})

LEMMA GroupingKept ==
  ASSUME SharedInv, GroupingInv, kind = "grouping", GroupingNext
  PROVE  GroupingInv' /\ InOrder
<1>0. /\ OnlyFirst /\ (\A r, o \in base : r = o) /\ grouping_ongoing \in BOOLEAN
      /\ alive => (grouping_ongoing <=> base # {}) /\ (Of(1) # {} => base # {})
  BY DEF GroupingInv
<1>1. ASSUME NEW timeout \in Timeouts, GroupingHandleRequest(timeout)
      PROVE  GroupingInv' /\ InOrder
  <2>1. timeout \in 0 .. Never
    BY TimeoutsIs
  <2>2. PICK r, w : r = Request(timeout) /\ w = grouping_ongoing
    OBVIOUS
  <2>3. Admit(1, Request(timeout), w) /\ grouping_ongoing' = TRUE
    BY <1>1, <2>2 DEF GroupingHandleRequest
  <2>4. /\ alive /\ alive' = alive
        /\ (base' = base /\ w) \/ (base' = base \cup {r} /\ ~w)
        /\ \A j \in Queues : j # 1 => Of(j)' = Of(j)
    <3>1. /\ alive /\ alive' = alive
          /\ \/ w /\ base' = base /\ Of(1)' = Of(1) \cup {Request(timeout)}
             \/ ~w /\ base' = base \cup {Request(timeout)} /\ Of(1)' = Of(1)
          /\ \A j \in Queues : j # 1 => Of(j)' = Of(j)
      BY <2>1, <2>3, AdmittedOne, FirstQueue
    <3> QED
      BY <2>2, <3>1
  <2>5. (w <=> base # {}) /\ (Of(1) # {} => base # {})
    BY <1>0, <2>2, <2>4
  <2>6. GroupingInv'
    BY <1>0, <2>3, <2>4, <2>5 DEF GroupingInv, OnlyFirst
  <2>7. w \/ NothingWaits
    BY <1>0, <2>5 DEF NothingWaits, OnlyFirst
  <2> QED
    BY <2>1, <2>3, <2>6, <2>7, OrderIfAdmitted, FirstQueue
<1>2. ASSUME NEW r \in base, NEW res, GroupingBaseAnswers(r, res)
      PROVE  GroupingInv' /\ InOrder
  <2>1. /\ base' = base \ {r} /\ grouping_ongoing' = FALSE /\ alive' = alive
        /\ queues' = [queues EXCEPT ![1] = Reschedule([queues[1] EXCEPT !.requests = {}])]
    BY <1>2 DEF GroupingBaseAnswers
  <2>2. base' = {}
    BY <1>0, <2>1
  <2>3. queues \in [Queues -> QueueType] /\ queues[1] \in QueueType
    BY FirstQueue DEF SharedInv, SharedType
  <2>4. Reschedule([queues[1] EXCEPT !.requests = {}]).requests = {}
    BY <2>3, WithRequests
  <2>5. \A j \in Queues : Of(j)' = {}
    BY <1>0, <2>1, <2>3, <2>4 DEF Of, OnlyFirst
  <2>6. GroupingInv'
    BY <2>1, <2>2, <2>5, FirstQueue DEF GroupingInv, OnlyFirst
  <2> QED
    BY <2>1, <2>6, OrderIfQuiet
<1>3. CASE NextOfGroup \/ GroupDone
  <2>1. UNCHANGED <<queues, base, alive, grouping_ongoing>>
    BY <1>3 DEF NextOfGroup, GroupDone, ResponseReturned
  <2>2. \A j \in Queues : Of(j)' = Of(j)
    BY <2>1 DEF Of
  <2>3. GroupingInv'
    BY <1>0, <2>1, <2>2, FirstQueue DEF GroupingInv, OnlyFirst
  <2> QED
    BY <2>1, <2>3, OrderIfQuiet
<1>4. CASE (QueueTask \/ Destroy \/ Advance) /\ UNCHANGED grouping_ongoing
  <2>1. Quiet
    BY <1>4, QuietStep
  <2>2. GroupingInv'
    BY <1>0, <1>4, <2>1, FirstQueue DEF Quiet, GroupingInv, OnlyFirst
  <2> QED
    BY <2>1, <2>2, OrderIfQuiet DEF Quiet
<1> QED
  BY <1>1, <1>2, <1>3, <1>4 DEF GroupingNext, GroupingLoopStep, GroupingSomeAnswer

LEMMA GroupingPromises ==
  ASSUME GroupingInv
  PROVE  GroupingLimitKept /\ GroupingNoneForgotten
<1>1. Cardinality(base) <= 1
  <2>1. CASE base = {}
    BY <2>1, FS_EmptySet
  <2>2. ASSUME NEW r \in base PROVE Cardinality(base) <= 1
    <3>1. base = {r}
      BY DEF GroupingInv
    <3>2. Cardinality(base) = 1
      BY <3>1, FS_Singleton
    <3> QED
      BY <3>2
  <2> QED
    BY <2>1, <2>2
<1> QED
  BY <1>1, PendingIs DEF GroupingInv, GroupingLimitKept, GroupingNoneForgotten

LazyInv ==
  /\ OnlyFirst
  /\ alive /\ Of(1) # {} => factory = "running"
  /\ base # {} => factory = "answered"

LEMMA LazyKept ==
  ASSUME SharedInv, LazyInv, kind = "lazy_init", LazyNext
  PROVE  LazyInv' /\ InOrder
<1>0. OnlyFirst /\ (alive /\ Of(1) # {} => factory = "running") /\ (base # {} => factory = "answered")
  BY DEF LazyInv
<1>1. ASSUME NEW timeout \in Timeouts, LazyHandleRequest(timeout)
      PROVE  LazyInv' /\ InOrder
  <2>1. timeout \in 0 .. Never
    BY TimeoutsIs
  <2>2. PICK r, w \in BOOLEAN : w = (factory # "answered")
    OBVIOUS
  <2>3. Admit(1, Request(timeout), w) /\ factory' = IF factory = "answered" THEN factory ELSE "running"
    BY <1>1, <2>2 DEF LazyHandleRequest
  <2>4. /\ alive /\ alive' = alive
        /\ base' = base \/ ~w
        /\ w \/ Of(1)' = Of(1)
        /\ \A j \in Queues : j # 1 => Of(j)' = Of(j)
    BY <2>1, <2>3, AdmittedOne, FirstQueue
  <2>5. LazyInv'
    BY <1>0, <2>2, <2>3, <2>4 DEF LazyInv, OnlyFirst
  <2>6. w \/ NothingWaits
    BY <1>0, <2>2, <2>4 DEF NothingWaits, OnlyFirst
  <2> QED
    BY <2>1, <2>3, <2>5, <2>6, OrderIfAdmitted, FirstQueue
<1>2. CASE FactoryAnswers
  <2>1. /\ base' = base \cup {Forwarded(o) : o \in Of(1)} /\ factory' = "answered"
        /\ queues' = [queues EXCEPT ![1] = Reschedule([queues[1] EXCEPT !.requests = {}])]
    BY <1>2 DEF FactoryAnswers, Of
  <2>2. /\ queues \in [Queues -> QueueType] /\ queues[1] \in QueueType
        /\ SharedType /\ Of(1) \subseteq RequestType
    BY FirstQueue DEF SharedInv, SharedType, QueueType, Of
  <2>3. Reschedule([queues[1] EXCEPT !.requests = {}]).requests = {}
    BY <2>2, WithRequests
  <2>4. \A j \in Queues : Of(j)' = {}
    BY <1>0, <2>1, <2>2, <2>3 DEF Of, OnlyFirst
  <2>5. LazyInv'
    BY <2>1, <2>4, FirstQueue DEF LazyInv, OnlyFirst
  <2>6. \A o \in Of(1) : Forwarded(o).id = o.id
    BY <2>2, ForwardedFacts
  <2>7. \A o \in Of(1) : o.id \in IdsOf(base')
    BY <2>1, <2>6 DEF IdsOf
  <2>8. ASSUME NEW i \in Queues, NEW o \in Of(i) PROVE i = 1
    BY <1>0 DEF OnlyFirst
  <2>9. FirstComeFirstServed /\ UrgentFirst
    BY <2>7, <2>8, OrderIs
  <2>10. \A b \in base' : b.id \in 1 .. Len(deadlines)
    BY <2>1, <2>6, FirstQueue DEF SharedInv, KnownInv, Known
  <2>11. NewcomersWait
    BY <2>10, NoNewcomer
  <2> QED
    BY <2>5, <2>9, <2>11 DEF InOrder
<1>3. ASSUME NEW r \in base, NEW res, LazyBaseAnswers(r, res)
      PROVE  LazyInv' /\ InOrder
  <2>1. base' \subseteq base /\ UNCHANGED <<alive, queues, factory>>
    BY <1>3 DEF LazyBaseAnswers, Answer
  <2>2. \A j \in Queues : Of(j)' = Of(j)
    BY <2>1 DEF Of
  <2>3. LazyInv'
    BY <1>0, <2>1, <2>2, FirstQueue DEF LazyInv, OnlyFirst
  <2> QED
    BY <2>1, <2>3, OrderIfQuiet
<1>4. CASE LazyResponseReturns
  <2>1. UNCHANGED <<queues, base, alive, factory>>
    BY <1>4 DEF LazyResponseReturns, ResponseReturned
  <2>2. \A j \in Queues : Of(j)' = Of(j)
    BY <2>1 DEF Of
  <2>3. LazyInv'
    BY <1>0, <2>1, <2>2, FirstQueue DEF LazyInv, OnlyFirst
  <2> QED
    BY <2>1, <2>3, OrderIfQuiet
<1>5. CASE (QueueTask \/ Destroy \/ Advance) /\ UNCHANGED factory
  <2>1. Quiet
    BY <1>5, QuietStep
  <2>2. LazyInv'
    BY <1>0, <1>5, <2>1, FirstQueue DEF Quiet, LazyInv, OnlyFirst
  <2> QED
    BY <2>1, <2>2, OrderIfQuiet DEF Quiet
<1> QED
  BY <1>1, <1>2, <1>3, <1>4, <1>5 DEF LazyNext, LazyLoopStep, LazySomeAnswer

LEMMA LazyPromises ==
  ASSUME LazyInv PROVE LazyNoneForgotten
  BY PendingIs DEF LazyInv, LazyNoneForgotten

-----------------------------------------------------------------------------
(* Handlers that pass each request on at once.                             *)

LEMMA NothingWaitsKept ==
  ASSUME NothingWaits, UNCHANGED queues \/ Quiet
  PROVE  NothingWaits'
  BY DEF NothingWaits, Of, Quiet

LEMMA PassedOn ==
  ASSUME SharedInv, NEW timeout \in 0 .. Never, PassOn(Request(timeout))
  PROVE  /\ base' = base \cup {Request(timeout)} /\ UNCHANGED <<etime, alive, mode, queues>>
         /\ Request(timeout).id = Len(deadlines) + 1 /\ Len(deadlines) \in Nat
         /\ Len(deadlines') = Len(deadlines) + 1 /\ Len(deadlines) < MaxRequests
         /\ \A o \in base : o.id # Request(timeout).id /\ o.id \in 1 .. Len(deadlines)
<1>1. Admit(1, Request(timeout), FALSE)
  BY DEF Admit
<1>2. /\ Len(deadlines) \in Nat /\ Len(deadlines') = Len(deadlines) + 1
      /\ Request(timeout).id = Len(deadlines) + 1
      /\ \A o \in base : o.id # Request(timeout).id
  BY <1>1, AdmittedOne, FirstQueue
<1>3. \A o \in base : o.id \in 1 .. Len(deadlines)
  BY DEF SharedInv, KnownInv, Known
<1> QED
  BY <1>2, <1>3 DEF PassOn, Accept

\* With the steps that leave the queues alone: what is new is put behind nothing.
LEMMA ThrottlingKept ==
  ASSUME SharedInv, NothingWaits, kind = "throttling", ThrottlingNext
  PROVE  NothingWaits' /\ InOrder
<1>1. ASSUME NEW timeout \in Timeouts, ThrottlingHandleRequest(timeout)
      PROVE  NothingWaits' /\ InOrder
  BY <1>1, OrderIfPassed, NothingWaitsKept, TimeoutsIs DEF ThrottlingHandleRequest, PassOn
<1>2. CASE ThrottlingSomeAnswer \/ ThrottlingResponseReturns
  <2>1. base' \subseteq base /\ UNCHANGED queues
    BY <1>2 DEF ThrottlingSomeAnswer, ThrottlingBaseAnswers, ThrottlingResponseReturns, Answer
  <2> QED
    BY <2>1, OrderIfQuiet, NothingWaitsKept
<1>3. CASE RetryTask
  <2> DEFINE endOf(n) == SatAdd(etime, throttle.tasks[n].timeout, Never)
  <2>1. PICK n \in DOMAIN throttle.tasks :
          /\ \/ base' = {IF r.id = throttle.tasks[n].id THEN [r EXCEPT !.timeout_end = endOf(n)] ELSE r :
                         r \in base}
             \/ base' = base
          /\ UNCHANGED queues
    BY <1>3 DEF RetryTask
  <2> HIDE DEF endOf
  <2>2. base \subseteq RequestType
    BY DEF SharedInv, SharedType
  <2>3. \A r \in base : [r EXCEPT !.timeout_end = endOf(n)].id = r.id
    <3> SUFFICES ASSUME NEW r \in base PROVE [r EXCEPT !.timeout_end = endOf(n)].id = r.id
      OBVIOUS
    <3>1. r \in [id : Nat, timeout_end : 0 .. Never]
      BY <2>2 DEF RequestType
    <3> QED
      BY <3>1
  <2>4. \A b \in base' : \E r \in base : b.id = r.id
    <3> SUFFICES ASSUME NEW b \in base' PROVE \E r \in base : b.id = r.id
      OBVIOUS
    <3>1. CASE base' = base
      BY <3>1
    <3>2. CASE base' = {IF r.id = throttle.tasks[n].id THEN [r EXCEPT !.timeout_end = endOf(n)] ELSE r :
                        r \in base}
      <4>1. PICK r \in base : b = IF r.id = throttle.tasks[n].id
                                  THEN [r EXCEPT !.timeout_end = endOf(n)] ELSE r
        BY <3>2
      <4> QED
        BY <2>3, <4>1
    <3> QED
      BY <2>1, <3>1, <3>2
  <2>5. IdsOf(base') \subseteq IdsOf(base)
    BY <2>4 DEF IdsOf
  <2> QED
    BY <2>1, <2>5, OrderKept, NothingWaitsKept
<1>4. CASE Destroy \/ OnTime
  <2>1. Quiet
    BY <1>4, QuietStep DEF OnTime
  <2> QED
    BY <2>1, OrderIfQuiet, NothingWaitsKept DEF Quiet
<1> QED
  BY <1>1, <1>2, <1>3, <1>4 DEF ThrottlingNext, ThrottlingLoopStep

LEMMA IterationsKept ==
  ASSUME SharedInv, NothingWaits, kind = "iterations", IterationsNext
  PROVE  NothingWaits' /\ InOrder
<1>1. ASSUME NEW timeout \in Timeouts, HandleRequestsSequentially(timeout)
      PROVE  NothingWaits' /\ InOrder
  BY <1>1, OrderIfPassed, NothingWaitsKept, TimeoutsIs DEF HandleRequestsSequentially, PassOn
<1>2. CASE FetchResults
  <2>1. PassOn(Request(Never)) /\ Never \in 0 .. Never
    BY <1>2, NeverFacts DEF FetchResults
  <2> QED
    BY <2>1, OrderIfPassed, NothingWaitsKept DEF PassOn
<1>3. ASSUME NEW r \in base, ElementAnswered(r)
      PROVE  NothingWaits' /\ InOrder
  <2>1. base' = (base \ {r}) \cup {Renewed(r)} /\ UNCHANGED queues
    BY <1>3 DEF ElementAnswered
  <2>2. Renewed(r).id = r.id
    BY DEF Renewed, SharedInv, SharedType, RequestType
  <2>3. IdsOf(base') \subseteq IdsOf(base)
    BY <2>1, <2>2 DEF IdsOf
  <2> QED
    BY <2>1, <2>3, OrderKept, NothingWaitsKept
<1>4. ASSUME NEW r \in base, \/ RestAnswered(r)
                             \/ \E res \in Results : ElementFails(r, res) \/ ResultFetched(r, res)
      PROVE  NothingWaits' /\ InOrder
  <2>1. base' \subseteq base /\ UNCHANGED queues
    BY <1>4 DEF RestAnswered, ElementFails, ResultFetched, Answer, shared_vars
  <2> QED
    BY <2>1, OrderIfQuiet, NothingWaitsKept
<1>5. CASE IterationsResponseReturns
  BY <1>5, OrderIfQuiet, NothingWaitsKept DEF IterationsResponseReturns
<1>6. CASE Destroy \/ Advance
  <2>1. Quiet
    BY <1>6, QuietStep
  <2> QED
    BY <2>1, OrderIfQuiet, NothingWaitsKept DEF Quiet
<1> QED
  BY <1>1, <1>2, <1>3, <1>4, <1>5, <1>6 DEF IterationsNext, IterationsLoopStep, IterationsSomeAnswer

LEMMA ThreadedKept ==
  ASSUME SharedInv, NothingWaits, kind = "threaded", ThreadedNext
  PROVE  NothingWaits' /\ InOrder
<1>1. ASSUME NEW timeout \in Timeouts, ThreadedHandleRequest(timeout)
      PROVE  NothingWaits' /\ InOrder
  BY <1>1, OrderIfPassed, NothingWaitsKept, TimeoutsIs DEF ThreadedHandleRequest, PassOn
<1>2. CASE ThreadedSomeAnswer \/ ThreadedLoopStep
  <2>1. base' \subseteq base /\ UNCHANGED queues
    BY <1>2 DEF ThreadedSomeAnswer, JobEnds, ThreadedLoopStep, ThreadedResponseReturns, ResponseTask,
         Answer, shared_vars
  <2> QED
    BY <2>1, OrderIfQuiet, NothingWaitsKept
<1>3. CASE Destroy \/ Advance
  <2>1. Quiet
    BY <1>3, QuietStep
  <2> QED
    BY <2>1, OrderIfQuiet, NothingWaitsKept DEF Quiet
<1> QED
  BY <1>1, <1>2, <1>3 DEF ThreadedNext

-----------------------------------------------------------------------------
(* Lines: the contexts say which requests are open.                        *)

Context ==
  [resp : {"waiting", "saved", "ended"}, req : {"waiting", "saved", "ended"}, told : BOOLEAN]

ContextKept(ctx) ==
  /\ ~(ctx.resp = "saved" /\ ctx.req = "saved")
  /\ ~ctx.told => ctx.resp # "ended" \/ ctx.req = "ended"

IoLinesInv ==
  /\ NothingWaits
  /\ contexts \in Seq(Context) /\ Len(contexts) = Len(deadlines)
  /\ \A id \in 1 .. Len(deadlines) :
       /\ contexts[id].told <=> \A r \in base : r.id # id
       /\ ContextKept(contexts[id])

LEMMA IoLinesPromises ==
  ASSUME IoLinesInv PROVE IoLinesNoneForgotten
<1>1. DOMAIN contexts = 1 .. Len(deadlines)
  BY DEF IoLinesInv
<1>2. \A id : id \notin IdsOf(base) <=> \A r \in base : r.id # id
  BY DEF IdsOf
<1> QED
  BY <1>1, <1>2 DEF IoLinesInv, IoLinesNoneForgotten, ContextKept

\* One context changes, and with it whether its request is open.
LEMMA ContextChanged ==
  ASSUME SharedInv, IoLinesInv, NEW m \in 1 .. Len(deadlines), NEW ctx \in Context,
         contexts' = [contexts EXCEPT ![m] = ctx], UNCHANGED <<deadlines, queues>>,
         ContextKept(ctx),
         \/ ctx.told /\ \E r \in base : r.id = m /\ base' = base \ {r}
         \/ ctx.told = contexts[m].told /\ base' = base
  PROVE  IoLinesInv'
<1>1. NothingWaits'
  BY DEF IoLinesInv, NothingWaits, Of
<1>2. contexts' \in Seq(Context) /\ Len(contexts') = Len(deadlines')
  BY DEF IoLinesInv
<1>3. contexts'[m] = ctx /\ \A id \in 1 .. Len(deadlines) : id # m => contexts'[id] = contexts[id]
  BY DEF IoLinesInv
<1>4. \A r, o \in base : r.id = o.id => r = o
  BY DEF SharedInv, ApartInv, OneEach
<1>5. ctx.told <=> \A r \in base' : r.id # m
  <2>1. CASE ctx.told /\ \E r \in base : r.id = m /\ base' = base \ {r}
    BY <1>4, <2>1
  <2>2. CASE ctx.told = contexts[m].told /\ base' = base
    BY <2>2 DEF IoLinesInv
  <2> QED
    BY <2>1, <2>2
<1>6. \A id : id # m => ((\A r \in base' : r.id # id) <=> (\A r \in base : r.id # id))
  OBVIOUS
<1>7. \A id \in 1 .. Len(deadlines) :
        (contexts'[id].told <=> \A r \in base' : r.id # id) /\ ContextKept(contexts'[id])
  BY <1>3, <1>5, <1>6 DEF IoLinesInv
<1> QED
  BY <1>1, <1>2, <1>7 DEF IoLinesInv

LEMMA IoLinesCalled ==
  ASSUME SharedInv, IoLinesInv, NEW timeout \in 0 .. Never, PassOn(Request(timeout)),
         NEW ctx \in Context, contexts' = Append(contexts, ctx), ~ctx.told, ContextKept(ctx)
  PROVE  IoLinesInv'
<1> DEFINE r == Request(timeout)
           n == Len(deadlines)
<1>1. /\ base' = base \cup {r} /\ UNCHANGED queues /\ r.id = n + 1 /\ n \in Nat
      /\ Len(deadlines') = n + 1
      /\ \A o \in base : o.id # r.id
  BY PassedOn
<1> HIDE DEF r
<1>2. NothingWaits'
  BY <1>1 DEF IoLinesInv, NothingWaits, Of
<1>3. /\ contexts' \in Seq(Context) /\ Len(contexts') = n + 1 /\ contexts'[n + 1] = ctx
      /\ \A id \in 1 .. n : contexts'[id] = contexts[id]
  BY DEF IoLinesInv
<1> HIDE DEF n
<1>4. \A id \in 1 .. n : (\A o \in base' : o.id # id) <=> (\A o \in base : o.id # id)
  BY <1>1
<1>5. \A id \in 1 .. n :
        (contexts'[id].told <=> \A o \in base' : o.id # id) /\ ContextKept(contexts'[id])
  BY <1>3, <1>4 DEF IoLinesInv, n
<1>6. (contexts'[n + 1].told <=> \A o \in base' : o.id # n + 1) /\ ContextKept(contexts'[n + 1])
  BY <1>1, <1>3
<1>7. \A id \in 1 .. n + 1 : id \in 1 .. n \/ id = n + 1
  BY <1>1
<1> QED
  BY <1>1, <1>2, <1>3, <1>5, <1>6, <1>7 DEF IoLinesInv

LEMMA IoLinesKept ==
  ASSUME SharedInv, IoLinesInv, kind = "io_lines", IoLinesNext
  PROVE  IoLinesInv' /\ InOrder
<1>0. /\ NothingWaits /\ contexts \in Seq(Context) /\ Len(contexts) = Len(deadlines)
      /\ DOMAIN contexts = 1 .. Len(deadlines)
      /\ \A id \in 1 .. Len(deadlines) : contexts[id] \in Context /\ ContextKept(contexts[id])
  BY DEF IoLinesInv
<1>1. ASSUME NEW timeout \in Timeouts, IoLinesHandleRequest(timeout)
      PROVE  IoLinesInv' /\ InOrder
  <2>1. PassOn(Request(timeout)) /\ timeout \in 0 .. Never
    BY <1>1, TimeoutsIs DEF IoLinesHandleRequest
  <2>2. PICK ctx \in {[resp |-> "waiting", req |-> "waiting", told |-> FALSE],
                      [resp |-> "ended", req |-> "ended", told |-> FALSE]} :
          contexts' = Append(contexts, ctx)
    BY <1>1 DEF IoLinesHandleRequest
  <2>3. ctx \in Context /\ ~ctx.told /\ ContextKept(ctx)
    <3>1. CASE ctx = [resp |-> "waiting", req |-> "waiting", told |-> FALSE]
      BY <3>1 DEF Context, ContextKept
    <3>2. CASE ctx = [resp |-> "ended", req |-> "ended", told |-> FALSE]
      BY <3>2 DEF Context, ContextKept
    <3> QED
      BY <2>2, <3>1, <3>2
  <2> QED
    BY <1>0, <2>1, <2>2, <2>3, IoLinesCalled, OrderIfPassed
<1>2. ASSUME NEW r \in base, NEW res, Answer(r, res), NEW ctx \in Context,
             contexts' = [contexts EXCEPT ![r.id] = ctx], ctx.told, ContextKept(ctx)
      PROVE  IoLinesInv' /\ InOrder
  <2>1. base' = base \ {r} /\ UNCHANGED <<deadlines, queues>>
    BY <1>2 DEF Answer
  <2>2. r.id \in 1 .. Len(deadlines)
    BY DEF SharedInv, KnownInv, Known
  <2> QED
    BY <1>2, <2>1, <2>2, ContextChanged, OrderIfQuiet
<1>3. ASSUME NEW r \in base, NEW res, Told(r, res)
      PROVE  IoLinesInv' /\ InOrder
  <2>1. [resp |-> "ended", req |-> "ended", told |-> TRUE] \in Context
        /\ ContextKept([resp |-> "ended", req |-> "ended", told |-> TRUE])
    BY DEF Context, ContextKept
  <2> QED
    BY <1>2, <1>3, <2>1 DEF Told
<1>4. ASSUME NEW r \in base, NEW field \in {"resp", "req"}, Saved(r, field),
             ContextKept([contexts[r.id] EXCEPT ![field] = "saved"])
      PROVE  IoLinesInv' /\ InOrder
  <2> DEFINE ctx == [contexts[r.id] EXCEPT ![field] = "saved"]
  <2>1. UNCHANGED <<deadlines, base, queues>> /\ contexts' = [contexts EXCEPT ![r.id] = ctx]
    BY <1>4 DEF Saved, shared_vars
  <2>2. r.id \in 1 .. Len(deadlines)
    BY DEF SharedInv, KnownInv, Known
  <2>3. contexts[r.id] \in Context
    BY <1>0, <2>2
  <2>4. ctx \in Context /\ ctx.told = contexts[r.id].told
    BY <2>3 DEF Context
  <2> HIDE DEF ctx
  <2>5. ContextKept(ctx)
    BY <1>4 DEF ctx
  <2> QED
    BY <2>1, <2>2, <2>4, <2>5, ContextChanged, OrderIfQuiet
<1>5. ASSUME NEW r \in base, LineRefused(r)
      PROVE  IoLinesInv' /\ InOrder
  <2> DEFINE ctx == [contexts[r.id] EXCEPT !.told = TRUE]
  <2>1. r.id \in 1 .. Len(deadlines)
    BY DEF SharedInv, KnownInv, Known
  <2>2. contexts[r.id] \in Context /\ contexts[r.id].resp = "ended"
    BY <1>0, <1>5, <2>1 DEF LineRefused
  <2>3. ctx \in Context /\ ctx.told /\ ContextKept(ctx)
    BY <2>2 DEF Context, ContextKept
  <2>4. contexts' = [contexts EXCEPT ![r.id] = ctx] /\ Answer(r, "error")
    BY <1>5 DEF LineRefused
  <2> HIDE DEF ctx
  <2> QED
    BY <1>2, <2>3, <2>4
<1>6. ASSUME NEW id \in DOMAIN contexts, ResponseRead(id)
      PROVE  IoLinesInv' /\ InOrder
  <2>1. contexts[id] \in Context /\ contexts[id].resp = "waiting"
    BY <1>0, <1>6 DEF ResponseRead
  <2>2. CASE contexts[id].req = "saved" /\ \E r \in base : r.id = id /\ Told(r, "ok")
    BY <1>3, <2>2
  <2>3. CASE contexts[id].req = "waiting" /\ \E r \in base : r.id = id /\ Saved(r, "resp")
    <3>1. PICK r \in base : r.id = id /\ Saved(r, "resp")
      BY <2>3
    <3>2. ContextKept([contexts[r.id] EXCEPT !["resp"] = "saved"])
      BY <2>1, <2>3, <3>1 DEF ContextKept, Context
    <3> QED
      BY <1>4, <3>1, <3>2
  <2>4. CASE /\ contexts[id].req = "ended"
             /\ contexts' = [contexts EXCEPT ![id].resp = "ended"]
             /\ UNCHANGED shared_vars
    <3> DEFINE ctx == [contexts[id] EXCEPT !.resp = "ended"]
    <3>1. UNCHANGED <<deadlines, base, queues>> /\ contexts' = [contexts EXCEPT ![id] = ctx]
      BY <2>4 DEF shared_vars
    <3>2. ctx \in Context /\ ctx.told = contexts[id].told /\ ContextKept(ctx)
      BY <2>1, <2>4 DEF Context, ContextKept
    <3> HIDE DEF ctx
    <3> QED
      BY <1>0, <3>1, <3>2, ContextChanged, OrderIfQuiet
  <2> QED
    BY <1>6, <2>2, <2>3, <2>4 DEF ResponseRead
<1>7. ASSUME NEW r \in base, LineWritten(r)
      PROVE  IoLinesInv' /\ InOrder
  <2>1. r.id \in 1 .. Len(deadlines)
    BY DEF SharedInv, KnownInv, Known
  <2>2. contexts[r.id] \in Context
    BY <1>0, <2>1
  <2>3. CASE contexts[r.id].resp = "waiting" /\ Saved(r, "req")
    <3>1. ContextKept([contexts[r.id] EXCEPT !["req"] = "saved"])
      BY <2>2, <2>3 DEF ContextKept, Context
    <3> QED
      BY <1>4, <2>3, <3>1
  <2> QED
    BY <1>3, <1>7, <2>3 DEF LineWritten
<1>8. ASSUME NEW r \in base, LineWriteFails(r)
      PROVE  IoLinesInv' /\ InOrder
  <2> DEFINE ctx == [contexts[r.id] EXCEPT !.req = "ended", !.told = TRUE]
  <2>1. r.id \in 1 .. Len(deadlines)
    BY DEF SharedInv, KnownInv, Known
  <2>2. contexts[r.id] \in Context
    BY <1>0, <2>1
  <2>3. ctx \in Context /\ ctx.told /\ ContextKept(ctx)
    BY <2>2 DEF Context, ContextKept
  <2>4. contexts' = [contexts EXCEPT ![r.id] = ctx] /\ Answer(r, "error")
    BY <1>8, <1>0, <2>1, <2>2 DEF LineWriteFails, Context
  <2> HIDE DEF ctx
  <2> QED
    BY <1>2, <2>3, <2>4
<1>9. CASE \/ Advance /\ UNCHANGED contexts
           \/ IoLinesResponseReturns
           \/ \E id \in DOMAIN contexts : ResponseFails(id)
  <2>1. UNCHANGED <<deadlines, base, queues, contexts>>
    BY <1>9 DEF Advance, IoLinesResponseReturns, ResponseReturned, ResponseFails
  <2>2. IoLinesInv'
    BY <2>1 DEF IoLinesInv, NothingWaits, Of
  <2> QED
    BY <2>1, <2>2, OrderIfQuiet
<1> QED
  BY <1>1, <1>5, <1>6, <1>7, <1>8, <1>9 DEF IoLinesNext, IoLinesLoopStep, IoLinesSomeAnswer

-----------------------------------------------------------------------------
(* Connections: the ready contexts are those of sockets whose connecting    *)
(* has ended, and are gone with their requests.                             *)

Sockets ==
  {"none", "connected", "connecting", "failed at once", "established", "refused"}

Tried == {"established", "refused", "failed at once"}
HandedOut == {"connected", "established", "failed at once"}

ConnectionsInv ==
  /\ NothingWaits
  /\ conns \in [sockets : [1 .. MaxRequests -> Sockets], ready : SUBSET base,
                accepted : SUBSET (1 .. Len(deadlines))]
  /\ Len(deadlines) <= MaxRequests
  /\ \A r \in conns.ready : conns.sockets[r.id] \in Tried
  /\ \A id \in conns.accepted : conns.sockets[id] \in HandedOut

LEMMA ConnectionsPromises ==
  ASSUME ConnectionsInv PROVE ConnectionsNoneForgotten /\ ConnectionsLimitKept
  BY DEF ConnectionsInv, ConnectionsNoneForgotten, ConnectionsLimitKept, HandedOut

LEMMA ConnectionsKept ==
  ASSUME SharedInv, ConnectionsInv, kind = "connections", ConnectionsNext
  PROVE  ConnectionsInv' /\ InOrder
<1> DEFINE n == Len(deadlines)
<1>0. /\ NothingWaits /\ n \in Nat /\ n <= MaxRequests /\ MaxRequests \in Nat
      /\ conns = [sockets |-> conns.sockets, ready |-> conns.ready, accepted |-> conns.accepted]
      /\ conns.sockets \in [1 .. MaxRequests -> Sockets]
      /\ conns.ready \subseteq base /\ conns.accepted \subseteq 1 .. n
      /\ \A r \in conns.ready : conns.sockets[r.id] \in Tried
      /\ \A id \in conns.accepted : conns.sockets[id] \in HandedOut
      /\ \A r \in base : r.id \in 1 .. n /\ r.id \in 1 .. MaxRequests
  BY RequestHandlingAssumption DEF ConnectionsInv, SharedInv, SharedType, KnownInv, Known
<1> HIDE DEF n
<1>1. ASSUME NEW timeout \in Timeouts, ConnectionsHandleRequest(timeout)
      PROVE  ConnectionsInv' /\ InOrder
  <2>1. PassOn(Request(timeout)) /\ timeout \in 0 .. Never
    BY <1>1, TimeoutsIs DEF ConnectionsHandleRequest
  <2>2. /\ base \subseteq base' /\ UNCHANGED queues /\ Len(deadlines') = n + 1
        /\ n < MaxRequests
    BY <2>1, PassedOn DEF n
  <2>3. /\ n \in Nat /\ MaxRequests \in Nat /\ n + 1 <= MaxRequests
        /\ \A id \in 1 .. n : id \in 1 .. MaxRequests /\ id # n + 1 /\ id \in 1 .. n + 1
    <3>1. n \in Nat /\ MaxRequests \in Nat /\ n < MaxRequests
      BY <1>0, <2>2
    <3> QED
      BY <3>1
  <2>4. PICK s \in {"none", "connected", "connecting", "failed at once"} :
          conns' = [conns EXCEPT !.sockets[n + 1] = s]
    BY <1>1 DEF ConnectionsHandleRequest, n
  <2>5. /\ conns'.sockets = [conns.sockets EXCEPT ![n + 1] = s]
        /\ conns' = [sockets |-> conns'.sockets, ready |-> conns.ready, accepted |-> conns.accepted]
        /\ conns'.ready = conns.ready /\ conns'.accepted = conns.accepted
    BY <1>0, <2>4
  <2>6. /\ conns'.sockets \in [1 .. MaxRequests -> Sockets]
        /\ \A id \in 1 .. n : conns'.sockets[id] = conns.sockets[id]
    <3>1. s \in Sockets
      BY <2>4 DEF Sockets
    <3> QED
      BY <1>0, <2>3, <2>5, <3>1
  <2>7. /\ conns.ready \subseteq base' /\ conns.accepted \subseteq 1 .. Len(deadlines')
        /\ Len(deadlines') <= MaxRequests /\ NothingWaits'
    <3>1. conns.accepted \subseteq 1 .. n + 1
      BY <1>0, <2>3
    <3>2. NothingWaits'
      BY <1>0, <2>2, NothingWaitsKept
    <3> QED
      BY <1>0, <2>2, <2>3, <3>1, <3>2
  <2>8. /\ \A r \in conns.ready : conns'.sockets[r.id] \in Tried
        /\ \A id \in conns.accepted : conns'.sockets[id] \in HandedOut
    BY <1>0, <2>6
  <2>9. ConnectionsInv'
    BY <2>5, <2>6, <2>7, <2>8 DEF ConnectionsInv
  <2> QED
    BY <1>0, <2>1, <2>9, OrderIfPassed
<1>2. ASSUME NEW r \in base, KernelConnects(r)
      PROVE  ConnectionsInv' /\ InOrder
  <2>1. conns.sockets[r.id] = "connecting" /\ UNCHANGED <<base, deadlines, queues>>
    BY <1>2 DEF KernelConnects, shared_vars
  <2>2. PICK s \in {"established", "refused"} : conns' = [conns EXCEPT !.sockets[r.id] = s]
    BY <1>2 DEF KernelConnects
  <2>3. /\ conns'.sockets \in [1 .. MaxRequests -> Sockets]
        /\ \A id \in 1 .. MaxRequests : id # r.id => conns'.sockets[id] = conns.sockets[id]
        /\ conns'.ready = conns.ready /\ conns'.accepted = conns.accepted
        /\ conns' = [sockets |-> conns'.sockets, ready |-> conns.ready, accepted |-> conns.accepted]
    BY <1>0, <2>2 DEF Sockets
  <2>4. /\ \A o \in conns.ready : conns.sockets[o.id] # "connecting" /\ o.id \in 1 .. MaxRequests
        /\ \A id \in conns.accepted : conns.sockets[id] # "connecting" /\ id \in 1 .. MaxRequests
    <3>1. "connecting" \notin Tried /\ "connecting" \notin HandedOut
      BY DEF Tried, HandedOut
    <3>2. \A id \in 1 .. n : id \in 1 .. MaxRequests
      BY <1>0
    <3> QED
      BY <1>0, <3>1, <3>2
  <2>5. ConnectionsInv'
    <3>1. NothingWaits'
      BY <1>0, <2>1 DEF NothingWaits, Of
    <3>2. /\ \A o \in conns'.ready : conns'.sockets[o.id] \in Tried
          /\ \A id \in conns'.accepted : conns'.sockets[id] \in HandedOut
      <4>1. \A o \in conns.ready : o.id # r.id /\ conns'.sockets[o.id] = conns.sockets[o.id]
        BY <2>1, <2>3, <2>4
      <4>2. \A id \in conns.accepted : id # r.id /\ conns'.sockets[id] = conns.sockets[id]
        BY <2>1, <2>3, <2>4
      <4> QED
        BY <1>0, <2>3, <4>1, <4>2
    <3>3. Len(deadlines') <= MaxRequests /\ conns.ready \subseteq base'
          /\ conns.accepted \subseteq 1 .. Len(deadlines')
      BY <1>0, <2>1 DEF n
    <3>4. conns' \in [sockets : [1 .. MaxRequests -> Sockets], ready : SUBSET base',
                     accepted : SUBSET (1 .. Len(deadlines'))]
      BY <2>3, <3>3
    <3> QED
      BY <3>1, <3>2, <3>3, <3>4 DEF ConnectionsInv
  <2> QED
    BY <2>1, <2>5, OrderIfQuiet
<1>3. CASE Polled
  <2>1. /\ conns' = [conns EXCEPT !.ready = {r \in base : Watched(r) /\ conns.sockets[r.id] # "connecting"}]
        /\ UNCHANGED <<base, deadlines, queues>>
    BY <1>3 DEF Polled, shared_vars
  <2>2. /\ conns'.sockets = conns.sockets /\ conns'.accepted = conns.accepted
        /\ conns'.ready \subseteq base
        /\ \A r \in conns'.ready : conns.sockets[r.id] \in Tried
        /\ conns' = [sockets |-> conns.sockets, ready |-> conns'.ready, accepted |-> conns.accepted]
    BY <1>0, <2>1 DEF Watched, Tried
  <2>3. ConnectionsInv'
    BY <1>0, <2>1, <2>2 DEF ConnectionsInv, NothingWaits, Of, n
  <2> QED
    BY <2>1, <2>3, OrderIfQuiet
<1>4. ASSUME NEW r \in base, NEW res, Ended(r, res),
             res = "ok" => conns.sockets[r.id] \in HandedOut
      PROVE  ConnectionsInv' /\ InOrder
  <2>1. base' = base \ {r} /\ UNCHANGED <<deadlines, queues>>
    BY <1>4 DEF Ended, Answer
  <2>2. /\ conns'.sockets = conns.sockets
        /\ conns'.ready = conns.ready \ {r}
        /\ conns'.accepted = IF res = "ok" THEN conns.accepted \cup {r.id} ELSE conns.accepted
        /\ conns' = [sockets |-> conns.sockets, ready |-> conns'.ready, accepted |-> conns'.accepted]
    BY <1>0, <1>4 DEF Ended
  <2>3. conns'.accepted \subseteq 1 .. n /\ \A id \in conns'.accepted : conns.sockets[id] \in HandedOut
    BY <1>0, <1>4, <2>2
  <2>4. conns'.ready \subseteq base' /\ \A o \in conns'.ready : conns.sockets[o.id] \in Tried
    BY <1>0, <2>1, <2>2
  <2>5. ConnectionsInv'
    BY <1>0, <2>1, <2>2, <2>3, <2>4 DEF ConnectionsInv, NothingWaits, Of, n
  <2> QED
    BY <2>1, <2>5, OrderIfQuiet
<1>5. ASSUME NEW r \in base, LaterTask(r) \/ WatchNotified(r) \/ ConnectTimesOut(r)
      PROVE  ConnectionsInv' /\ InOrder
  <2>1. CASE LaterTask(r)
    BY <1>4, <2>1 DEF LaterTask, HandedOut
  <2>2. CASE WatchNotified(r)
    BY <1>0, <1>4, <2>2 DEF WatchNotified, Tried, HandedOut
  <2>3. CASE ConnectTimesOut(r)
    BY <1>4, <2>3 DEF ConnectTimesOut
  <2> QED
    BY <1>5, <2>1, <2>2, <2>3
<1>6. CASE ConnectionsResponseReturns \/ (Advance /\ UNCHANGED conns)
  <2>1. UNCHANGED <<deadlines, base, queues, conns>>
    BY <1>6 DEF Advance, ConnectionsResponseReturns, ResponseReturned
  <2>2. ConnectionsInv'
    BY <2>1 DEF ConnectionsInv, NothingWaits, Of
  <2> QED
    BY <2>1, <2>2, OrderIfQuiet
<1> QED
  BY <1>1, <1>2, <1>3, <1>5, <1>6 DEF ConnectionsNext, ConnectionsLoopStep, ConnectionsSomeAnswer

-----------------------------------------------------------------------------
(* The reaper: a request made while its process was there waits for that    *)
(* process, or the process is the one being looked for.                     *)

Ask == [pid : Pids \cup {0}, nth : Nat, there : BOOLEAN]

Children ==
  [state : [Pids -> {"free", "running", "ended"}], started : [Pids -> Nat], signal : BOOLEAN,
   at : Pids \cup {0}, status : Nat, told : BOOLEAN, misled : SUBSET Nat,
   asked : [1 .. MaxRequests -> Ask]]

StillThere(ask, of, looking) ==
  /\ ask.pid \in Pids
  /\ \/ /\ of.state[ask.pid] # "free" /\ ask.nth = of.started[ask.pid]
        /\ ~(looking /\ of.at = ask.pid)
     \/ looking /\ of.at = ask.pid /\ ask.nth = of.status

ThereKept(requests, of, looking) ==
  \A r \in requests : of.asked[r.id].there => StillThere(of.asked[r.id], of, looking)

ReaperInv ==
  /\ base = {} /\ OnlyFirst /\ mode # InResponse
  /\ children \in Children
  /\ Len(deadlines) <= MaxRequests
  /\ mode # InReap => children.at = 0
  /\ alive => \A p \in Pids : children.state[p] = "ended" => children.signal \/ mode = InReap
  /\ ThereKept(Of(1), children, mode = InReap)
  /\ \A id \in children.misled : id \in 1 .. Len(deadlines) /\ ~children.asked[id].there

LEMMA ReaperPromises ==
  ASSUME ReaperInv PROVE ReaperNoneForgotten /\ ReaperLimitKept
<1>1. ReaperLimitKept
  BY DEF ReaperInv, ReaperLimitKept
<1>2. ReaperNoneForgotten
  BY DEF ReaperInv, ReaperNoneForgotten, ThereKept, StillThere, Of
<1> QED
  BY <1>1, <1>2

\* A process is looked for with 0 only when none is.
LEMMA NoPidIsZero == 0 \notin Pids
  BY ReaperAssumption

\* What the reaper's steps do to the requests, put together.
LEMMA ReaperIf ==
  ASSUME SharedInv, ReaperInv, base' = {}, OnlyFirst', mode' # InResponse, children' \in Children,
         Len(deadlines') <= MaxRequests, Len(deadlines') >= Len(deadlines), Len(deadlines') \in Nat,
         mode' # InReap => children'.at = 0,
         alive' => \A p \in Pids : children'.state[p] = "ended" => children'.signal \/ mode' = InReap,
         ThereKept(Of(1)', children', mode' = InReap),
         \A id \in children'.misled : \/ id \in 1 .. Len(deadlines') /\ ~children'.asked[id].there
                                      \/ id \in children.misled
                                         /\ children'.asked[id] = children.asked[id]
  PROVE  ReaperInv' /\ InOrder
<1>1. \A id \in children'.misled : id \in 1 .. Len(deadlines') /\ ~children'.asked[id].there
  <2>1. Len(deadlines) \in Nat
    BY DEF SharedInv, SharedType
  <2> QED
    BY <2>1 DEF ReaperInv
<1>2. ReaperInv'
  <2>1. ThereKept(Of(1), children, mode = InReap)'
    BY DEF ThereKept, StillThere
  <2> QED
    BY <1>1, <2>1 DEF ReaperInv
<1>3. base' \subseteq base
  OBVIOUS
<1> QED
  BY <1>2, <1>3, OrderIfQuiet

LEMMA ReaperCalled ==
  ASSUME SharedInv, ReaperInv, NEW timeout \in 0 .. Never, CallMade(Request(timeout)),
         NEW pid \in Pids, NEW now \in Children, children' = Asks(now, pid),
         \/ now = children
         \/ /\ children.state[pid] = "free"
            /\ now = [children EXCEPT !.state[pid] = "running", !.started[pid] = @ + 1]
  PROVE  ReaperInv' /\ InOrder
<1> DEFINE n == Len(deadlines)
           r == Request(timeout)
           looking == mode = InReap
           ask == [pid |-> pid, nth |-> now.started[pid],
                   there |-> now.state[pid] # "free" /\ ~(looking /\ now.at = pid)]
<1>1. /\ Accept(r) /\ Enqueue(1, r) /\ base' = {} /\ UNCHANGED <<alive, mode>> /\ n < MaxRequests
      /\ n \in Nat /\ MaxRequests \in Nat
  BY RequestHandlingAssumption DEF CallMade, Accept, ReaperInv, SharedInv, SharedType
<1>2. r \in RequestType /\ NewRequest(r) /\ r.id = n + 1
  BY RequestFacts DEF NewRequest, SharedInv
<1> HIDE DEF r
<1>3. Len(deadlines') = n + 1 /\ Of(1)' = Of(1) \cup {r}
      /\ \A j \in Queues : j # 1 => Of(j)' = Of(j)
  BY <1>1, <1>2, AcceptFacts, EnqueuedOne, FirstQueue DEF SharedInv
<1>4. OnlyFirst'
  BY <1>3 DEF ReaperInv, OnlyFirst
<1>5. /\ now.asked = children.asked /\ now.at = children.at /\ now.status = children.status
      /\ now.signal = children.signal /\ now.misled = children.misled
      /\ \A p \in Pids : now.state[p] = "ended" => children.state[p] = "ended"
      /\ \A p \in Pids : p # pid => /\ now.state[p] = children.state[p]
                                    /\ now.started[p] = children.started[p]
      /\ now = children \/ children.state[pid] = "free"
  <2>1. children \in Children
    BY DEF ReaperInv
  <2>2. ASSUME children.state[pid] = "free",
               now = [children EXCEPT !.state[pid] = "running", !.started[pid] = @ + 1]
        PROVE  /\ now.asked = children.asked /\ now.at = children.at /\ now.status = children.status
               /\ now.signal = children.signal /\ now.misled = children.misled
               /\ now.state = [children.state EXCEPT ![pid] = "running"]
               /\ now.started = [children.started EXCEPT ![pid] = @ + 1]
    BY <2>1, <2>2 DEF Children
  <2>3. children.state \in [Pids -> {"free", "running", "ended"}] /\ children.started \in [Pids -> Nat]
    BY <2>1 DEF Children
  <2>4. CASE now = children
    BY <2>4
  <2>5. CASE /\ children.state[pid] = "free"
             /\ now = [children EXCEPT !.state[pid] = "running", !.started[pid] = @ + 1]
    BY <2>2, <2>3, <2>5
  <2> QED
    BY <2>4, <2>5
<1>6. ask \in Ask
  BY DEF Ask, Children
<1>7. children' = [now EXCEPT !.asked[n + 1] = ask]
  BY DEF Asks
<1> HIDE DEF ask, n
<1>8. n + 1 \in 1 .. MaxRequests
  BY <1>1
<1>9. /\ children' \in Children
      /\ children'.asked = [now.asked EXCEPT ![n + 1] = ask]
      /\ children'.state = now.state /\ children'.started = now.started /\ children'.at = now.at
      /\ children'.status = now.status /\ children'.signal = now.signal
      /\ children'.misled = now.misled
  <2> DEFINE asked == [now.asked EXCEPT ![n + 1] = ask]
  <2>1. asked \in [1 .. MaxRequests -> Ask]
    BY <1>6, <1>8 DEF Children
  <2>2. children' = [now EXCEPT !.asked = asked]
    BY <1>7
  <2> HIDE DEF asked
  <2>3. /\ children' \in Children /\ children'.asked = asked
        /\ children'.state = now.state /\ children'.started = now.started /\ children'.at = now.at
        /\ children'.status = now.status /\ children'.signal = now.signal
        /\ children'.misled = now.misled
    BY <2>1, <2>2 DEF Children
  <2> QED
    BY <2>3 DEF asked
<1>10. children'.asked[n + 1] = ask /\ \A id \in 1 .. n : children'.asked[id] = children.asked[id]
  <2>1. now.asked \in [1 .. MaxRequests -> Ask]
    BY DEF Children
  <2>2. \A id \in 1 .. n : id \in 1 .. MaxRequests /\ id # n + 1
    BY <1>1
  <2> QED
    <3>1. children'.asked[n + 1] = ask
      BY <1>8, <1>9, <2>1
    <3>2. \A id \in 1 .. n : children'.asked[id] = now.asked[id]
      BY <1>9, <2>1, <2>2
    <3> QED
      BY <1>5, <3>1, <3>2
<1>11. ThereKept(Of(1)', children', mode' = InReap)
  <2> SUFFICES ASSUME NEW o \in Of(1)', children'.asked[o.id].there
               PROVE  StillThere(children'.asked[o.id], children', looking)
    BY <1>1 DEF ThereKept
  <2>1. CASE o = r
    <3>1. children'.asked[o.id] = ask
      BY <1>2, <1>10, <2>1
    <3>2. ask.there => now.state[pid] # "free" /\ ~(looking /\ now.at = pid)
      BY DEF ask
    <3>3. ask.pid = pid /\ ask.nth = now.started[pid]
      BY DEF ask
    <3> QED
      BY <1>9, <3>1, <3>2, <3>3 DEF StillThere
  <2>2. CASE o \in Of(1)
    <3>1. o.id \in 1 .. n
      BY <2>2, FirstQueue DEF SharedInv, KnownInv, Known, n
    <3>2. children'.asked[o.id] = children.asked[o.id]
      BY <1>10, <3>1
    <3>3. StillThere(children.asked[o.id], children, looking)
      BY <2>2, <3>2 DEF ReaperInv, ThereKept
    <3> DEFINE a == children.asked[o.id]
    <3>4. StillThere(a, children, looking)
      BY <3>3
    <3> HIDE DEF a
    <3>5. StillThere(a, children', looking)
      BY <1>5, <1>9, <3>4 DEF StillThere
    <3> QED
      BY <3>2, <3>5 DEF a
  <2> QED
    BY <1>3, <2>1, <2>2
<1>12. mode' # InReap => children'.at = 0
  BY <1>1, <1>5, <1>9 DEF ReaperInv
<1>13. alive' => \A p \in Pids : children'.state[p] = "ended" => children'.signal \/ mode' = InReap
  BY <1>1, <1>5, <1>9 DEF ReaperInv
<1>14. \A id \in children'.misled : id \in children.misled /\ children'.asked[id] = children.asked[id]
  BY <1>5, <1>9, <1>10 DEF ReaperInv, n
<1>15. mode' # InResponse /\ Len(deadlines') <= MaxRequests /\ Len(deadlines') >= n
       /\ Len(deadlines') \in Nat
  BY <1>1, <1>3 DEF ReaperInv
<1> QED
  BY <1>1, <1>4, <1>9, <1>11, <1>12, <1>13, <1>14, <1>15, ReaperIf DEF n

LEMMA ReaperKept ==
  ASSUME SharedInv, ReaperInv, kind = "reaper", ReaperNext
  PROVE  ReaperInv' /\ InOrder
<1> DEFINE looking == mode = InReap
<1>0. /\ base = {} /\ OnlyFirst /\ mode # InResponse /\ children \in Children
      /\ Len(deadlines) \in Nat /\ Len(deadlines) <= MaxRequests
      /\ mode # InReap => children.at = 0
      /\ alive => \A p \in Pids : children.state[p] = "ended" => children.signal \/ mode = InReap
      /\ ThereKept(Of(1), children, looking)
      /\ \A id \in children.misled : id \in 1 .. Len(deadlines) /\ ~children.asked[id].there
      /\ \A r \in Of(1) : r.id \in 1 .. Len(deadlines) /\ r.id \in 1 .. MaxRequests
  BY RequestHandlingAssumption, FirstQueue
     DEF ReaperInv, SharedInv, SharedType, KnownInv, Known
<1> HIDE DEF looking
<1>1. ASSUME NEW pid \in Pids, StartCommand(pid)
      PROVE  ReaperInv' /\ InOrder
  <2> DEFINE now == [children EXCEPT !.state[pid] = "running", !.started[pid] = @ + 1]
  <2>1. /\ children.state[pid] = "free" /\ CallMade(Request(Never)) /\ children' = Asks(now, pid)
        /\ Never \in 0 .. Never
    BY <1>1, NeverFacts DEF StartCommand
  <2>2. now \in Children
    <3> DEFINE state == [children.state EXCEPT ![pid] = "running"]
               started == [children.started EXCEPT ![pid] = @ + 1]
    <3>1. state \in [Pids -> {"free", "running", "ended"}] /\ started \in [Pids -> Nat]
      BY <1>0 DEF Children
    <3>2. now = [children EXCEPT !.state = state, !.started = started]
      BY <1>0 DEF Children
    <3> HIDE DEF state, started
    <3> QED
      BY <1>0, <3>1, <3>2 DEF Children
  <2>3. now = [children EXCEPT !.state[pid] = "running", !.started[pid] = @ + 1]
    OBVIOUS
  <2> HIDE DEF now
  <2> QED
    BY <2>1, <2>2, <2>3, ReaperCalled
<1>2. ASSUME NEW pid \in Pids, NEW timeout \in Timeouts, ReaperHandleRequest(pid, timeout)
      PROVE  ReaperInv' /\ InOrder
  <2>1. CallMade(Request(timeout)) /\ children' = Asks(children, pid) /\ timeout \in 0 .. Never
    BY <1>2, TimeoutsIs DEF ReaperHandleRequest
  <2>2. PICK now \in Children : now = children
    BY <1>0
  <2> QED
    BY <2>1, <2>2, ReaperCalled
<1>3. ASSUME NEW pid \in Pids, Exit(pid)
      PROVE  ReaperInv' /\ InOrder
  <2>1. /\ children.state[pid] = "running" /\ UNCHANGED <<deadlines, base, queues, alive, mode>>
        /\ children' = [children EXCEPT !.state[pid] = "ended", !.signal = TRUE]
    BY <1>3 DEF Exit, shared_vars
  <2> DEFINE state == [children.state EXCEPT ![pid] = "ended"]
  <2>2. state \in [Pids -> {"free", "running", "ended"}]
    BY <1>0 DEF Children
  <2>3. /\ state[pid] # "free" /\ \A p \in Pids : p # pid => state[p] = children.state[p]
    BY <1>0 DEF Children
  <2>4. children' = [children EXCEPT !.state = state, !.signal = TRUE]
    BY <1>0, <2>1 DEF Children
  <2> HIDE DEF state
  <2>5. /\ children' \in Children /\ children'.state = state /\ children'.signal = TRUE
        /\ children'.started = children.started /\ children'.at = children.at
        /\ children'.status = children.status /\ children'.asked = children.asked
        /\ children'.misled = children.misled
    BY <1>0, <2>2, <2>4 DEF Children
  <2>6. ThereKept(Of(1), children', looking)
    BY <1>0, <2>1, <2>3, <2>5 DEF ThereKept, StillThere
  <2>7. ThereKept(Of(1)', children', mode' = InReap)
    BY <2>1, <2>6 DEF Of, looking
  <2>8. OnlyFirst'
    BY <1>0, <2>1 DEF OnlyFirst, Of
  <2> QED
    BY <1>0, <2>1, <2>5, <2>7, <2>8, ReaperIf
<1>4. CASE SignalNotified
  <2>1. /\ mode = Idle /\ mode' = InReap /\ UNCHANGED <<deadlines, base, queues, alive>>
        /\ children' = [children EXCEPT !.signal = FALSE, !.at = 0]
    BY <1>4 DEF SignalNotified
  <2>2. /\ children' \in Children /\ children'.state = children.state /\ children'.at = 0
        /\ children'.started = children.started
        /\ children'.status = children.status /\ children'.asked = children.asked
        /\ children'.misled = children.misled
    BY <1>0, <2>1 DEF Children
  <2>3. ThereKept(Of(1), children', TRUE)
    BY <1>0, <2>1, <2>2, NoPidIsZero, ModesDiffer DEF ThereKept, StillThere, looking
  <2>4. ThereKept(Of(1)', children', mode' = InReap)
    BY <2>1, <2>3 DEF Of
  <2>5. OnlyFirst'
    BY <1>0, <2>1 DEF OnlyFirst, Of
  <2> QED
    BY <1>0, <2>1, <2>2, <2>4, <2>5, ModesDiffer, ReaperIf
<1>5. CASE Waitpid
  <2>1. /\ mode = InReap /\ children.at = 0
        /\ UNCHANGED <<deadlines, base, queues, alive>>
    BY <1>5 DEF Waitpid
  <2>2. OnlyFirst' /\ Of(1)' = Of(1)
    BY <1>0, <2>1 DEF OnlyFirst, Of
  <2>3. ASSUME NEW p \in Pids, children.state[p] = "ended", UNCHANGED mode,
               children' = [children EXCEPT !.at = p, !.state[p] = "free",
                                            !.status = children.started[p], !.told = FALSE]
        PROVE  ReaperInv' /\ InOrder
    <3> DEFINE state == [children.state EXCEPT ![p] = "free"]
    <3>1. state \in [Pids -> {"free", "running", "ended"}]
      BY <1>0 DEF Children
    <3>2. \A q \in Pids : q # p => state[q] = children.state[q]
      BY <1>0 DEF Children
    <3>3. /\ children' = [children EXCEPT !.at = p, !.state = state, !.status = children.started[p],
                                          !.told = FALSE]
          /\ children.started[p] \in Nat
      BY <1>0, <2>3 DEF Children
    <3> HIDE DEF state
    <3>4. /\ children' \in Children /\ children'.state = state /\ children'.at = p
          /\ children'.started = children.started /\ children'.status = children.started[p]
          /\ children'.asked = children.asked /\ children'.misled = children.misled
      BY <1>0, <3>1, <3>3 DEF Children
    <3>5. ThereKept(Of(1), children', TRUE)
      BY <1>0, <2>1, <3>2, <3>4, NoPidIsZero DEF ThereKept, StillThere
    <3>6. ThereKept(Of(1)', children', mode' = InReap)
      BY <2>1, <2>2, <2>3, <3>5
    <3> QED
      BY <1>0, <2>1, <2>2, <2>3, <3>4, <3>6, ReaperIf
  <2>4. ASSUME \A p \in Pids : children.state[p] # "ended", mode' = Idle, UNCHANGED children
        PROVE  ReaperInv' /\ InOrder
    <3>1. ThereKept(Of(1), children, FALSE)
      BY <1>0, <2>1, NoPidIsZero DEF ThereKept, StillThere
    <3>2. ThereKept(Of(1)', children', mode' = InReap)
      BY <2>2, <2>4, <3>1, ModesDiffer
    <3> QED
      BY <1>0, <2>1, <2>2, <2>4, <3>2, ModesDiffer, ReaperIf
  <2> QED
    BY <1>5, <2>3, <2>4 DEF Waitpid
<1>6. CASE PullMatching
  <2>1. /\ mode = InReap /\ children.at # 0 /\ UNCHANGED <<deadlines, base, alive, mode>>
    BY <1>6 DEF PullMatching
  <2>2. ASSUME NEW r \in Matching, queues' = [queues EXCEPT ![1] = PullRequest(@, r)],
               children' = StatusTold(r)
        PROVE  ReaperInv' /\ InOrder
    <3>1. /\ queues \in [Queues -> QueueType] /\ queues[1] \in QueueType
      BY FirstQueue DEF SharedInv, SharedType
    <3>2. /\ Of(1)' = Of(1) \ {r} /\ \A j \in Queues : j # 1 => Of(j)' = Of(j)
      BY <2>2, <3>1, PullFacts, FirstQueue DEF Of
    <3>3. OnlyFirst'
      BY <1>0, <3>2 DEF OnlyFirst
    <3>4. r \in Of(1) /\ children.asked[r.id].pid = children.at
      BY DEF Matching, Of
    <3> DEFINE misled == IF children.asked[r.id].nth = children.status THEN children.misled
                         ELSE children.misled \cup {r.id}
    <3>5. misled \in SUBSET Nat
      BY <1>0, <3>4 DEF Children
    <3>6. children' = [children EXCEPT !.told = TRUE, !.misled = misled]
      BY <2>2 DEF StatusTold
    <3>7. \A id \in misled : id \in 1 .. Len(deadlines) /\ ~children.asked[id].there
      <4>1. children.asked[r.id].there => children.asked[r.id].nth = children.status
        <5>1. children.asked[r.id].there => StillThere(children.asked[r.id], children, looking)
          BY <1>0, <3>4 DEF ThereKept
        <5> QED
          BY <2>1, <3>4, <5>1 DEF StillThere, looking
      <4> QED
        BY <1>0, <3>4, <4>1
    <3> HIDE DEF misled
    <3>8. /\ children' \in Children /\ children'.state = children.state /\ children'.at = children.at
          /\ children'.started = children.started /\ children'.status = children.status
          /\ children'.asked = children.asked /\ children'.misled = misled
          /\ children'.signal = children.signal
      BY <1>0, <3>5, <3>6 DEF Children
    <3>9. ThereKept(Of(1)', children', looking)
      BY <1>0, <3>2, <3>8 DEF ThereKept, StillThere
    <3>10. ThereKept(Of(1)', children', mode' = InReap)
      BY <2>1, <3>9 DEF looking
    <3> QED
      BY <1>0, <2>1, <3>3, <3>7, <3>8, <3>10, ReaperIf
  <2>3. ASSUME Matching = {}, children' = [children EXCEPT !.at = 0, !.told = FALSE], UNCHANGED queues
        PROVE  ReaperInv' /\ InOrder
    <3>1. OnlyFirst' /\ Of(1)' = Of(1)
      BY <1>0, <2>3 DEF OnlyFirst, Of
    <3>2. \A r \in Of(1) : children.asked[r.id].pid # children.at
      BY <2>3 DEF Matching, Of
    <3>3. /\ children' \in Children /\ children'.state = children.state /\ children'.at = 0
          /\ children'.started = children.started /\ children'.status = children.status
          /\ children'.asked = children.asked /\ children'.misled = children.misled
          /\ children'.signal = children.signal
      BY <1>0, <2>3 DEF Children
    <3>4. ThereKept(Of(1), children', TRUE)
      BY <1>0, <2>1, <3>2, <3>3, NoPidIsZero DEF ThereKept, StillThere, looking
    <3>5. ThereKept(Of(1)', children', mode' = InReap)
      BY <2>1, <3>1, <3>4
    <3> QED
      BY <1>0, <2>1, <3>1, <3>3, <3>5, ReaperIf
  <2> QED
    BY <1>6, <2>2, <2>3 DEF PullMatching
<1>7. CASE ReaperTask \/ ((Destroy \/ Advance) /\ UNCHANGED children)
  <2>1. mode # InReap
    BY <1>7, ModesDiffer DEF ReaperTask, Destroy, Advance
  <2>2. Quiet /\ UNCHANGED children
    BY <1>7, QuietStep DEF ReaperTask
  <2>3. /\ UNCHANGED <<base, deadlines>> /\ mode' # InReap /\ mode' # InResponse
        /\ Of(1)' \subseteq Of(1) /\ (alive' => alive)
    BY <1>0, <2>1, <2>2, FirstQueue DEF Quiet
  <2>4. OnlyFirst'
    BY <1>0, <2>2 DEF OnlyFirst, Quiet
  <2>5. ThereKept(Of(1)', children', mode' = InReap)
    <3>1. ThereKept(Of(1)', children, FALSE)
      BY <1>0, <2>1, <2>3 DEF ThereKept, looking
    <3> QED
      BY <2>2, <2>3, <3>1
  <2> QED
    BY <1>0, <2>1, <2>2, <2>3, <2>4, <2>5, ReaperIf
<1> QED
  BY <1>1, <1>2, <1>3, <1>4, <1>5, <1>6, <1>7 DEF ReaperNext, ReaperLoopStep, ReaperSomeAnswer

-----------------------------------------------------------------------------
(* Handlers that pass requests on or refuse them.                          *)

Fwd == [class : Classes, active : Nat, refused : SUBSET Nat, idle : BOOLEAN]

OneClasses == {"noconcurrent", "noconcurrent_bytes_io"}

ActiveKept(f, passed, made) ==
  /\ f.class \in OneClasses =>
       (\A r, o \in passed : r = o) /\ f.active = IF passed = {} THEN 0 ELSE 1
  /\ f.class = "call_once" => (f.active = 0 => made = 0) /\ \A r \in passed : r.id = 1

IdleKept(f, inUse) ==
  f.class = "idle_notifying" => f.active = inUse /\ (f.idle <=> inUse = 0)

\* Of one request that is passed on.
EndKept(f, end, now) ==
  /\ f.class = "deadline_setting" => end <= Deadline \/ end <= now
  /\ f.class = "timeout_limiting" => end <= SatAdd(now, MaxTimeout, Never)

ForwardingInv ==
  /\ NothingWaits /\ IsFiniteSet(base)
  /\ fwd \in Fwd /\ \A id \in fwd.refused : id \in 1 .. Len(deadlines)
  /\ ActiveKept(fwd, Passed, Len(deadlines))
  /\ IdleKept(fwd, InUse)
  /\ \A r \in Passed : EndKept(fwd, r.timeout_end, etime)

LEMMA ForwardingPromises ==
  ASSUME ForwardingInv PROVE ForwardingLimitKept
<1>0. /\ fwd.class = "noconcurrent" => BaseCalls = Passed
      /\ {r \in BaseCalls : ~ZeroRead(r)} = Passed
  BY DEF BaseCalls, Passed, Refused, ZeroRead
<1>1. ASSUME fwd.class \in OneClasses
      PROVE  Cardinality(Passed) = fwd.active /\ fwd.active <= 1
  <2>1. (\A r, o \in Passed : r = o) /\ fwd.active = IF Passed = {} THEN 0 ELSE 1
    BY <1>1 DEF ForwardingInv, ActiveKept
  <2>2. CASE Passed = {}
    BY <2>1, <2>2, FS_EmptySet
  <2>3. ASSUME NEW r \in Passed PROVE Cardinality(Passed) = 1 /\ fwd.active = 1
    <3>1. Passed = {r}
      BY <2>1
    <3>2. Cardinality({r}) = 1
      BY FS_Singleton
    <3> QED
      BY <2>1, <3>1, <3>2
  <2> QED
    BY <2>1, <2>2, <2>3
<1>2. fwd.class = "call_once" => IdsOf(Passed) \subseteq {1}
  BY DEF ForwardingInv, ActiveKept, IdsOf
<1>3. fwd.class = "idle_notifying" => fwd.active = InUse /\ fwd.idle = (InUse = 0)
  BY DEF ForwardingInv, IdleKept, Fwd
<1>4. \A r \in Passed :
        /\ fwd.class = "deadline_setting" => r.timeout_end <= Deadline \/ r.timeout_end <= etime
        /\ fwd.class = "timeout_limiting" => r.timeout_end <= SatAdd(etime, MaxTimeout, Never)
  BY DEF ForwardingInv, EndKept
<1> QED
  BY <1>0, <1>1, <1>2, <1>3, <1>4 DEF ForwardingLimitKept, OneClasses

LEMMA SatAddMore ==
  \A t, s, d, e \in Nat : t <= s /\ d <= e => SatAdd(t, d, Never) <= SatAdd(s, e, Never)
  BY NeverFacts DEF SatAdd

\* Time passes, and what was in bounds stays so.
LEMMA EndsStay ==
  ASSUME NEW f, NEW end \in Nat, NEW now \in Nat, NEW later \in Nat, now <= later,
         EndKept(f, end, now)
  PROVE  EndKept(f, end, later)
<1>1. SatAdd(now, MaxTimeout, Never) <= SatAdd(later, MaxTimeout, Never)
  BY SatAddMore, ForwardingAssumption
<1>2. SatAdd(now, MaxTimeout, Never) \in Nat /\ SatAdd(later, MaxTimeout, Never) \in Nat
  BY ForwardingAssumption, NeverFacts DEF SatAdd
<1> QED
  BY <1>1, <1>2, ForwardingAssumption DEF EndKept

\* A request is passed on, or it is refused.
LEMMA ForwardingPassed ==
  ASSUME SharedInv, ForwardingInv, NEW t \in 0 .. Never, PassOn(Request(t)),
         fwd' \in Fwd, fwd'.class = fwd.class,
         \A id \in fwd'.refused : id \in fwd.refused \/ id = Request(t).id,
         fwd.refused \subseteq fwd'.refused,
         fwd.class \in OneClasses \cup {"call_once"} =>
           IF fwd.active = 0 THEN fwd'.active = 1 /\ fwd'.refused = fwd.refused
           ELSE fwd'.active = fwd.active /\ Request(t).id \in fwd'.refused,
         fwd.class = "idle_notifying" => fwd'.active = fwd.active + 1 /\ fwd'.idle = FALSE,
         EndKept(fwd, Request(t).timeout_end, etime)
  PROVE  ForwardingInv' /\ InOrder
<1>1. PICK r : r = Request(t)
  OBVIOUS
<1>2. PICK n \in Nat : n = Len(deadlines)
  BY DEF SharedInv, SharedType
<1>3. /\ base' = base \cup {r} /\ UNCHANGED <<etime, alive, mode, queues>>
      /\ r.id = n + 1 /\ Len(deadlines') = n + 1
      /\ r \notin base /\ \A o \in base : o.id # r.id
  BY <1>1, <1>2, PassedOn
<1>4. /\ NothingWaits /\ IsFiniteSet(base) /\ fwd \in Fwd
      /\ \A id \in fwd.refused : id \in 1 .. n /\ id # n + 1
      /\ ActiveKept(fwd, Passed, n) /\ IdleKept(fwd, InUse)
      /\ \A o \in Passed : EndKept(fwd, o.timeout_end, etime)
  BY <1>2 DEF ForwardingInv
<1>5. Passed' = IF r.id \in fwd'.refused THEN Passed ELSE Passed \cup {r}
  BY <1>1, <1>3, <1>4 DEF Passed, Refused
<1>6. NothingWaits'
  BY <1>3, <1>4, NothingWaitsKept
<1>7. IsFiniteSet(base') /\ InUse' = InUse + 1 /\ InUse \in Nat
  BY <1>3, <1>4, InUseMore, InUseFacts
<1>8. \A id \in fwd'.refused : id \in 1 .. n + 1
  BY <1>1, <1>3, <1>4
<1>9. ActiveKept(fwd', Passed', n + 1)
  <2>1. CASE fwd.class \in OneClasses
    <3>1. (\A x, o \in Passed : x = o) /\ fwd.active = IF Passed = {} THEN 0 ELSE 1
      BY <1>4, <2>1 DEF ActiveKept
    <3>2. CASE fwd.active = 0
      <4>1. Passed' = {r} /\ fwd'.active = 1
        BY <1>3, <1>4, <1>5, <2>1, <3>1, <3>2
      <4> QED
        BY <2>1, <4>1 DEF ActiveKept, OneClasses
    <3>3. CASE fwd.active # 0
      <4>1. Passed' = Passed /\ fwd'.active = fwd.active
        BY <1>1, <1>5, <2>1, <3>3
      <4> QED
        BY <2>1, <3>1, <4>1 DEF ActiveKept, OneClasses
    <3> QED
      BY <3>2, <3>3
  <2>2. CASE fwd.class = "call_once"
    <3>1. (fwd.active = 0 => n = 0) /\ \A o \in Passed : o.id = 1
      BY <1>4, <2>2 DEF ActiveKept
    <3>2. CASE fwd.active = 0
      <4>1. Passed' = Passed \cup {r} /\ r.id = 1 /\ fwd'.active = 1
        BY <1>3, <1>4, <1>5, <2>2, <3>1, <3>2
      <4> QED
        BY <2>2, <3>1, <4>1 DEF ActiveKept, OneClasses
    <3>3. CASE fwd.active # 0
      <4>1. Passed' = Passed /\ fwd'.active = fwd.active
        BY <1>1, <1>5, <2>2, <3>3
      <4> QED
        BY <2>2, <3>1, <3>3, <4>1 DEF ActiveKept, OneClasses
    <3> QED
      BY <3>2, <3>3
  <2> QED
    BY <2>1, <2>2 DEF ActiveKept
<1>10. IdleKept(fwd', InUse')
  BY <1>4, <1>7 DEF IdleKept
<1>11. \A o \in Passed' : EndKept(fwd', o.timeout_end, etime')
  <2>1. \A o \in Passed' : EndKept(fwd, o.timeout_end, etime)
    BY <1>1, <1>4, <1>5
  <2> QED
    BY <1>3, <2>1 DEF EndKept
<1>12. ForwardingInv'
  BY <1>3, <1>6, <1>7, <1>8, <1>9, <1>10, <1>11 DEF ForwardingInv
<1> QED
  BY <1>4, <1>12, OrderIfPassed

LEMMA ForwardingCalled ==
  ASSUME SharedInv, ForwardingInv, NEW timeout \in {1, Never}, ForwardingHandleRequest(timeout)
  PROVE  ForwardingInv' /\ InOrder
<1>0. /\ fwd \in Fwd /\ timeout \in 0 .. Never /\ etime \in 0 .. Never /\ etime < Never
      /\ Never \in Nat /\ Deadline \in Nat /\ MaxTimeout \in Nat
      /\ fwd.class \in Classes /\ fwd.active \in Nat
  BY ForwardingAssumption, NeverFacts DEF ForwardingInv, SharedInv, SharedType, Fwd
<1>1. \A t \in 0 .. Never : Request(t).timeout_end = SatAdd(etime, t, Never) /\ Request(t).id \in Nat
  BY RequestFacts DEF SharedInv, RequestType
<1>2. ASSUME fwd.class \in OneClasses \cup {"call_once"}, PassOn(Request(timeout)),
             PassUnlessActive(Request(timeout))
      PROVE  ForwardingInv' /\ InOrder
  <2>1. PICK id \in Nat : id = Request(timeout).id
    BY <1>0, <1>1
  <2>2. EndKept(fwd, Request(timeout).timeout_end, etime)
    BY <1>2 DEF EndKept, OneClasses
  <2>3. CASE fwd.active = 0
    <3>1. fwd' = [fwd EXCEPT !.active = 1]
      BY <1>2, <2>3 DEF PassUnlessActive
    <3>2. fwd' \in Fwd /\ fwd'.class = fwd.class /\ fwd'.active = 1 /\ fwd'.refused = fwd.refused
      BY <1>0, <3>1 DEF Fwd
    <3> QED
      BY <1>0, <1>2, <2>2, <2>3, <3>2, ForwardingPassed DEF OneClasses
  <2>4. CASE fwd.active # 0
    <3>1. fwd' = [fwd EXCEPT !.refused = @ \cup {id}]
      BY <1>2, <2>1, <2>4 DEF PassUnlessActive
    <3>2. fwd' \in Fwd /\ fwd'.class = fwd.class /\ fwd'.active = fwd.active
          /\ fwd'.refused = fwd.refused \cup {id}
      BY <1>0, <3>1 DEF Fwd
    <3> QED
      BY <1>0, <1>2, <2>1, <2>2, <2>4, <3>2, ForwardingPassed DEF OneClasses
  <2> QED
    BY <2>3, <2>4
<1>3. CASE IdleNotifying(timeout)
  <2>1. /\ fwd.class = "idle_notifying" /\ PassOn(Request(timeout))
        /\ fwd' = [fwd EXCEPT !.active = @ + 1, !.idle = FALSE]
    BY <1>3 DEF IdleNotifying, Arrives
  <2>2. EndKept(fwd, Request(timeout).timeout_end, etime)
    BY <2>1 DEF EndKept
  <2>3. /\ fwd' \in Fwd /\ fwd'.class = fwd.class /\ fwd'.active = fwd.active + 1
        /\ fwd'.refused = fwd.refused /\ fwd'.idle = FALSE
    <3>1. PICK m \in Nat : m = fwd.active + 1
      BY <1>0
    <3>2. fwd' = [fwd EXCEPT !.active = m, !.idle = FALSE]
      BY <2>1, <3>1
    <3> QED
      BY <1>0, <3>1, <3>2 DEF Fwd
  <2> QED
    BY <1>0, <2>1, <2>2, <2>3, ForwardingPassed DEF OneClasses
<1>4. CASE DeadlineSetting(timeout)
  <2> DEFINE left == IF Deadline >= etime THEN Deadline - etime ELSE 0
             t == Lesser(timeout, left)
  <2>1. fwd.class = "deadline_setting" /\ PassOn(Request(t)) /\ UNCHANGED fwd
    BY <1>4 DEF DeadlineSetting, Arrives
  <2>2. (left \in Nat /\ etime + left <= Deadline) \/ left = 0
    BY <1>0
  <2>3. left \in Nat
    BY <1>0
  <2> HIDE DEF left
  <2>4. t \in 0 .. Never /\ t <= left
    BY <1>0, <2>3 DEF Lesser
  <2> HIDE DEF t
  <2>5. SatAdd(etime, t, Never) <= Deadline \/ SatAdd(etime, t, Never) <= etime
    <3>1. SatAdd(etime, t, Never) <= etime + t
      BY <1>0, <2>4 DEF SatAdd
    <3>2. SatAdd(etime, t, Never) \in Nat
      BY <1>0, <2>4 DEF SatAdd
    <3> QED
      BY <1>0, <2>2, <2>3, <2>4, <3>1, <3>2
  <2>6. EndKept(fwd, Request(t).timeout_end, etime)
    BY <1>1, <2>1, <2>4, <2>5 DEF EndKept
  <2> QED
    BY <1>0, <2>1, <2>4, <2>6, ForwardingPassed DEF OneClasses
<1>5. CASE TimeoutLimiting(timeout)
  <2> DEFINE t == Lesser(timeout, MaxTimeout)
  <2>1. fwd.class = "timeout_limiting" /\ PassOn(Request(t)) /\ UNCHANGED fwd
    BY <1>5 DEF TimeoutLimiting, Arrives
  <2>2. t \in 0 .. Never /\ t <= MaxTimeout
    BY <1>0 DEF Lesser
  <2> HIDE DEF t
  <2>3. SatAdd(etime, t, Never) <= SatAdd(etime, MaxTimeout, Never)
    BY <1>0, <2>2, SatAddMore
  <2>4. EndKept(fwd, Request(t).timeout_end, etime)
    BY <1>1, <2>1, <2>2, <2>3 DEF EndKept
  <2> QED
    BY <1>0, <2>1, <2>2, <2>4, ForwardingPassed DEF OneClasses
<1>6. CASE Transforming(timeout) \/ FullTransforming(timeout) \/ ConstResponse(timeout)
  <2>1. /\ fwd.class \in {"transforming", "full_transforming", "const_response"}
        /\ PassOn(Request(timeout))
        /\ PassTransformed(Request(timeout)) \/ UNCHANGED fwd
    BY <1>6 DEF Transforming, FullTransforming, ConstResponse, Arrives
  <2>2. EndKept(fwd, Request(timeout).timeout_end, etime)
    BY <2>1 DEF EndKept
  <2>3. PICK id \in Nat : id = Request(timeout).id
    BY <1>0, <1>1
  <2>4. fwd' = fwd \/ fwd' = [fwd EXCEPT !.refused = @ \cup {id}]
    BY <2>1, <2>3 DEF PassTransformed
  <2>5. /\ fwd' \in Fwd /\ fwd'.class = fwd.class
        /\ fwd'.refused = fwd.refused \/ fwd'.refused = fwd.refused \cup {id}
    BY <1>0, <2>4 DEF Fwd
  <2> QED
    BY <1>0, <2>1, <2>2, <2>3, <2>5, ForwardingPassed DEF OneClasses
<1> QED
  BY <1>2, <1>3, <1>4, <1>5, <1>6
     DEF ForwardingHandleRequest, NoConcurrent, NoConcurrentBytesIo, CallOnce, Arrives, OneClasses

\* Steps after which the same requests are passed on, or one less.
LEMMA ForwardingLess ==
  ASSUME SharedInv, ForwardingInv, UNCHANGED <<deadlines, queues>>, etime' \in Nat, etime <= etime',
         base' \subseteq base, IsFiniteSet(base'),
         fwd' \in Fwd, fwd'.class = fwd.class, fwd'.refused = fwd.refused,
         ActiveKept(fwd', Passed', Len(deadlines)), IdleKept(fwd', InUse')
  PROVE  ForwardingInv' /\ InOrder
<1>1. NothingWaits'
  BY NothingWaitsKept DEF ForwardingInv
<1>2. Passed' \subseteq Passed /\ \A o \in base : o.timeout_end \in Nat
  BY NeverFacts DEF Passed, Refused, SharedInv, SharedType, RequestType
<1>3. etime \in Nat
  BY DEF SharedInv, SharedType
<1>4. ASSUME NEW o \in Passed' PROVE EndKept(fwd', o.timeout_end, etime')
  <2>1. o \in base /\ o \in Passed
    BY <1>2, <1>4 DEF Passed, Refused
  <2>2. EndKept(fwd, o.timeout_end, etime) /\ o.timeout_end \in Nat
    BY <1>2, <2>1 DEF ForwardingInv
  <2>3. EndKept(fwd, o.timeout_end, etime')
    BY <1>3, <2>2, EndsStay
  <2> QED
    BY <2>3 DEF EndKept
<1>5. ForwardingInv'
  BY <1>1, <1>4 DEF ForwardingInv
<1> QED
  BY <1>5, OrderIfQuiet

LEMMA ForwardingKept ==
  ASSUME SharedInv, ForwardingInv, kind = "forwarding", ForwardingNext
  PROVE  ForwardingInv' /\ InOrder
<1>0. /\ NothingWaits /\ IsFiniteSet(base) /\ fwd \in Fwd /\ etime \in Nat
      /\ \A id \in fwd.refused : id \in 1 .. Len(deadlines)
      /\ ActiveKept(fwd, Passed, Len(deadlines)) /\ IdleKept(fwd, InUse) /\ InUse \in Nat
  BY InUseFacts DEF ForwardingInv, SharedInv, SharedType
<1>1. ASSUME NEW timeout \in {1, Never}, ForwardingHandleRequest(timeout)
      PROVE  ForwardingInv' /\ InOrder
  BY <1>1, ForwardingCalled
<1>2. ASSUME NEW r \in base, NEW res, ForwardingBaseAnswers(r, res)
      PROVE  ForwardingInv' /\ InOrder
  <2>1. /\ r \in Passed /\ Answer(r, res) /\ base' = base \ {r} /\ UNCHANGED <<etime, deadlines, queues>>
        /\ fwd' = IF fwd.class \in OneClasses THEN [fwd EXCEPT !.active = 0] ELSE fwd
    BY <1>2 DEF ForwardingBaseAnswers, Answer, OneClasses
  <2>2. IsFiniteSet(base') /\ InUse' = InUse
    BY <1>0, <2>1, InUseAnswered
  <2>3. /\ fwd' \in Fwd /\ fwd'.class = fwd.class /\ fwd'.refused = fwd.refused
        /\ fwd.class \in OneClasses => fwd'.active = 0
        /\ fwd.class \notin OneClasses => fwd' = fwd
    BY <1>0, <2>1 DEF Fwd
  <2>4. Passed' = Passed \ {r}
    BY <2>1, <2>3 DEF Passed, Refused
  <2>5. ActiveKept(fwd', Passed', Len(deadlines))
    <3>1. CASE fwd.class \in OneClasses
      <4>1. Passed' = {}
        BY <1>0, <2>1, <2>4, <3>1 DEF ActiveKept
      <4> QED
        BY <2>3, <3>1, <4>1 DEF ActiveKept, OneClasses
    <3>2. CASE fwd.class \notin OneClasses
      BY <1>0, <2>3, <2>4, <3>2 DEF ActiveKept
    <3> QED
      BY <3>1, <3>2
  <2>6. IdleKept(fwd', InUse')
    BY <1>0, <2>2, <2>3 DEF IdleKept, OneClasses
  <2>7. etime' \in Nat /\ etime <= etime' /\ base' \subseteq base
    BY <1>0, <2>1
  <2> QED
    BY <2>1, <2>2, <2>3, <2>5, <2>6, <2>7, ForwardingLess
<1>3. ASSUME NEW r \in base, RefusalTask(r) \/ ZeroBytesRead(r)
      PROVE  ForwardingInv' /\ InOrder
  <2>1. /\ r \notin Passed /\ Answer(r, "error") /\ base' = base \ {r} /\ UNCHANGED fwd
        /\ UNCHANGED <<etime, deadlines, queues>>
    BY <1>3 DEF RefusalTask, ZeroBytesRead, ZeroRead, Passed, Refused, Answer
  <2>2. IsFiniteSet(base') /\ InUse' = InUse
    BY <1>0, <2>1, InUseAnswered
  <2>3. Passed' = Passed
    BY <2>1 DEF Passed, Refused
  <2>4. ActiveKept(fwd', Passed', Len(deadlines)) /\ IdleKept(fwd', InUse')
    BY <1>0, <2>1, <2>2, <2>3
  <2>5. etime' \in Nat /\ etime <= etime' /\ base' \subseteq base
    BY <1>0, <2>1
  <2> QED
    BY <1>0, <2>1, <2>2, <2>4, <2>5, ForwardingLess
<1>4. CASE ForwardingResponseReturns
  <2>1. /\ ResponseReturned /\ UNCHANGED <<etime, deadlines, queues, base>>
        /\ fwd' = IF fwd.class = "idle_notifying"
                  THEN [fwd EXCEPT !.active = @ - 1, !.idle = fwd.active = 1] ELSE fwd
    BY <1>4 DEF ForwardingResponseReturns, ResponseReturned
  <2>2. InUse >= 1 /\ InUse' = InUse - 1
    BY <1>0, <2>1, InUseReturned
  <2>3. /\ fwd' \in Fwd /\ fwd'.class = fwd.class /\ fwd'.refused = fwd.refused
        /\ fwd.class # "idle_notifying" => fwd' = fwd
        /\ IdleKept(fwd', InUse')
    <3>1. CASE fwd.class = "idle_notifying"
      <4>1. fwd.active = InUse
        BY <1>0, <3>1 DEF IdleKept
      <4>2. InUse - 1 \in Nat /\ (InUse = 1) \in BOOLEAN
        BY <1>0, <2>2
      <4>3. PICK m \in Nat : m = InUse - 1
        BY <4>2
      <4>4. PICK b \in BOOLEAN : b = (InUse = 1)
        BY <4>2
      <4>5. fwd' = [fwd EXCEPT !.active = m, !.idle = b]
        BY <1>0, <2>1, <3>1, <4>1, <4>4, <4>3 DEF Fwd
      <4>6. /\ fwd' \in Fwd /\ fwd'.class = fwd.class /\ fwd'.refused = fwd.refused
            /\ fwd'.active = m /\ fwd'.idle = b
        BY <1>0, <4>5 DEF Fwd
      <4>7. InUse' = m /\ (b <=> m = 0)
        <5>1. InUse' = m
          BY <2>2, <4>3
        <5>2. InUse = 1 <=> m = 0
          BY <1>0, <2>2, <4>3
        <5>3. b <=> InUse = 1
          BY <4>4, Zenon
        <5> QED
          BY <5>1, <5>2, <5>3, Zenon
      <4> QED
        BY <3>1, <4>6, <4>7 DEF IdleKept
    <3>2. CASE fwd.class # "idle_notifying"
      BY <1>0, <2>1, <3>2 DEF IdleKept
    <3> QED
      BY <3>1, <3>2
  <2>4. Passed' = Passed
    BY <2>1, <2>3 DEF Passed, Refused
  <2>5. ActiveKept(fwd', Passed', Len(deadlines))
    BY <1>0, <2>3, <2>4 DEF ActiveKept, OneClasses
  <2>6. etime' \in Nat /\ etime <= etime' /\ base' \subseteq base /\ IsFiniteSet(base')
    BY <1>0, <2>1
  <2> QED
    BY <2>1, <2>3, <2>5, <2>6, ForwardingLess
<1>5. CASE (Drop \/ Advance) /\ UNCHANGED fwd
  <2>1. Quiet
    BY <1>5, QuietStep DEF Drop
  <2>2. InUse' = InUse /\ Passed' = Passed /\ UNCHANGED <<deadlines, base>>
        /\ etime' \in Nat /\ etime <= etime'
    BY <1>5, <2>1 DEF Quiet, InUse, Passed, Refused
  <2>3. NothingWaits'
    BY <1>0, <2>1, NothingWaitsKept
  <2>4. \A o \in Passed : EndKept(fwd, o.timeout_end, etime')
    <3>1. \A o \in Passed : EndKept(fwd, o.timeout_end, etime) /\ o.timeout_end \in Nat
      BY NeverFacts DEF ForwardingInv, Passed, Refused, SharedInv, SharedType, RequestType
    <3> QED
      BY <1>0, <2>2, <3>1, EndsStay
  <2>5. ForwardingInv'
    BY <1>0, <1>5, <2>2, <2>3, <2>4 DEF ForwardingInv, IdleKept, EndKept, ActiveKept
  <2> QED
    BY <2>2, <2>5, OrderIfQuiet
<1> QED
  BY <1>1, <1>2, <1>3, <1>4, <1>5 DEF ForwardingNext, ForwardingLoopStep, ForwardingSomeAnswer

-----------------------------------------------------------------------------
(* The dispatcher: what is being read does not outlast the requests.       *)

LEMMA LeastOf ==
  ASSUME NEW T, T \subseteq Nat, T # {}
  PROVE  \E x \in T : \A y \in T : x <= y
<1> DEFINE R == {ss \in Nat \X Nat : ss[1] < ss[2]}
<1>1. IsWellFoundedOn(R, Nat)
  BY NatLessThanWellFounded DEF OpToRel
<1> HIDE DEF R
<1>2. \E x \in T : \A y \in T : ~(<<y, x>> \in R)
  BY <1>1, WFMin, Zenon
<1>3. PICK x \in T : \A y \in T : ~(<<y, x>> \in R)
  BY <1>2
<1>4. \A y \in T : ~(y < x)
  BY <1>3 DEF R
<1> QED
  BY <1>4

LEMMA EarliestFacts ==
  ASSUME NEW S \in SUBSET RequestType
  PROVE  /\ S # {} => Earliest(S) # {}
         /\ \A t \in Earliest(S) : t \in Nat /\ \A r \in S : t <= r.timeout_end
<1>1. \A r \in S : r.timeout_end \in Nat
  BY NeverFacts DEF RequestType
<1>2. ASSUME S # {} PROVE Earliest(S) # {}
  <2> DEFINE T == {r.timeout_end : r \in S}
  <2>1. T \subseteq Nat /\ T # {}
    BY <1>1, <1>2
  <2> HIDE DEF T
  <2>2. PICK x \in T : \A y \in T : x <= y
    BY <2>1, LeastOf
  <2>3. PICK r \in S : \A o \in S : r.timeout_end <= o.timeout_end
    BY <2>2 DEF T
  <2> QED
    BY <2>3 DEF Earliest
<1>3. \A t \in Earliest(S) : t \in Nat /\ \A r \in S : t <= r.timeout_end
  BY <1>1 DEF Earliest
<1> QED
  BY <1>2, <1>3

LEMMA NextReadFacts ==
  ASSUME NEW q, q.requests \in SUBSET RequestType, etime \in Nat
  PROVE  /\ NextRead(q) \in SUBSET Nat
         /\ q.requests # {} => NextRead(q) # {}
         /\ \A t \in NextRead(q) : \A r \in q.requests : t <= r.timeout_end \/ t <= etime
<1>1. PICK S \in SUBSET RequestType : S = q.requests
  OBVIOUS
<1>2. /\ S # {} => Earliest(S) # {}
      /\ \A t \in Earliest(S) : t \in Nat /\ \A r \in S : t <= r.timeout_end
  BY EarliestFacts
<1>3. NextRead(q) = {IF t > etime THEN t ELSE etime : t \in Earliest(S)}
  BY <1>1 DEF NextRead
<1> QED
  BY <1>1, <1>2, <1>3

DispatchInv ==
  /\ base = {} /\ reading \in SUBSET Nat
  /\ \A i \in Queues : i \notin {1, 2} => Of(i) = {}
  /\ alive => /\ Of(2) # {} => reading # {}
              /\ \A r \in Of(1), t \in reading : t <= r.timeout_end \/ t <= etime
              /\ mode # InResponse /\ Of(1) # {} => reading # {}

LEMMA DispatchPromises ==
  ASSUME DispatchInv, 2 \in Queues PROVE DispatchNoneForgotten
<1>1. Pending # {} => Of(1) # {} \/ Of(2) # {}
  BY FirstQueue DEF DispatchInv, Pending, Of
<1> QED
  BY <1>1 DEF DispatchInv, DispatchNoneForgotten, HasRequests, Of

LEMMA DispatchCalled ==
  ASSUME SharedInv, DispatchInv, 2 \in Queues, NEW timeout \in 0 .. Never,
         DispatchHandleRequest(timeout)
  PROVE  DispatchInv'
<1>1. PICK r : r = Request(timeout)
  OBVIOUS
<1>2. /\ Accept(r) /\ base' = base /\ UNCHANGED <<etime, alive, mode>>
  BY <1>1 DEF DispatchHandleRequest, Accept
<1>3. r \in RequestType /\ etime \in Nat /\ queues[1] \in QueueType
  BY <1>1, RequestFacts, FirstQueue DEF SharedInv, SharedType
<1>4. CASE reading = {}
  <2>1. Enqueue(1, r) /\ reading' = NextRead(PushRequest(queues[1], r))
    BY <1>1, <1>4 DEF DispatchHandleRequest
  <2>2. Of(1)' = Of(1) \cup {r} /\ \A j \in Queues : j # 1 => Of(j)' = Of(j)
    BY <1>3, <2>1, EnqueuedOne, FirstQueue
  <2>3. PICK q : q = PushRequest(queues[1], r)
    OBVIOUS
  <2>4. q.requests = Of(1) \cup {r} /\ q.requests \in SUBSET RequestType
    BY <1>3, <2>3, PushFacts DEF Of, QueueType
  <2>5. /\ reading' \in SUBSET Nat /\ reading' # {}
        /\ \A t \in reading' : \A o \in Of(1)' : t <= o.timeout_end \/ t <= etime
    BY <1>3, <2>1, <2>2, <2>3, <2>4, NextReadFacts
  <2> QED
    BY <1>2, <2>2, <2>5 DEF DispatchInv
<1>5. CASE reading # {}
  <2>1. Enqueue(2, r) /\ reading' = reading
    BY <1>1, <1>5 DEF DispatchHandleRequest
  <2>2. Of(2)' = Of(2) \cup {r} /\ \A j \in Queues : j # 2 => Of(j)' = Of(j)
    BY <1>3, <2>1, EnqueuedOne
  <2>3. Of(1)' = Of(1)
    BY <2>2, FirstQueue
  <2> QED
    BY <1>2, <1>5, <2>1, <2>2, <2>3 DEF DispatchInv
<1> QED
  BY <1>4, <1>5

LEMMA DispatchEnds ==
  ASSUME SharedInv, DispatchInv, 2 \in Queues, NEW candidates \in SUBSET Merged.requests, NEW res,
         Dispatch(candidates, res)
  PROVE  DispatchInv'
<1>1. /\ mode = Idle /\ UNCHANGED <<etime, base, alive>>
      /\ queues \in [Queues -> QueueType] /\ etime \in Nat
  BY DEF Dispatch, SharedInv, SharedType
<1>2. Merged \in QueueType /\ Merged.requests \in SUBSET RequestType
  BY MergedFacts
<1>3. CASE candidates = {}
  <2>1. PICK p : p = Reschedule(Merged)
    OBVIOUS
  <2>2. /\ queues' = [queues EXCEPT ![1] = p, ![2] = NewRequestsQueue]
        /\ reading' = NextRead(Merged)
    BY <1>3, <2>1 DEF Dispatch
  <2>3. p \in QueueType /\ p.requests = Merged.requests
    BY <1>2, <2>1, RescheduleFacts
  <2>4. /\ Of(1)' = Merged.requests /\ Of(2)' = {}
        /\ \A j \in Queues : j \notin {1, 2} => Of(j)' = Of(j)
    BY <1>1, <2>2, <2>3, FirstQueue DEF Of, NewRequestsQueue
  <2>5. PICK q : q = Merged
    OBVIOUS
  <2>6. /\ reading' \in SUBSET Nat /\ (Of(1)' # {} => reading' # {})
        /\ \A t \in reading' : \A o \in Of(1)' : t <= o.timeout_end \/ t <= etime
    BY <1>1, <1>2, <2>2, <2>4, <2>5, NextReadFacts
  <2> QED
    BY <1>1, <2>4, <2>6 DEF DispatchInv
<1>4. CASE candidates # {}
  <2>1. PICK r \in candidates : /\ queues' = [queues EXCEPT ![1] = PullRequest(Merged, r),
                                                          ![2] = NewRequestsQueue]
                                /\ reading' = {} /\ mode' = InResponse
    BY <1>4 DEF Dispatch
  <2>2. Of(2)' = {} /\ \A j \in Queues : j \notin {1, 2} => Of(j)' = Of(j)
    BY <1>1, <2>1, FirstQueue DEF Of, NewRequestsQueue
  <2> QED
    BY <1>1, <2>1, <2>2 DEF DispatchInv
<1> QED
  BY <1>3, <1>4

LEMMA DispatchKept ==
  ASSUME SharedInv, DispatchInv, 2 \in Queues, kind = "dispatch", DispatchNext
  PROVE  DispatchInv' /\ InOrder
<1>0. DispatchInv' => InOrder
  <2>1. base' = {} => base' \subseteq base
    OBVIOUS
  <2> QED
    BY <2>1, OrderIfQuiet DEF DispatchInv
<1>a. etime \in Nat /\ queues[1] \in QueueType
  BY FirstQueue DEF SharedInv, SharedType
<1>1. ASSUME NEW timeout \in Timeouts, DispatchHandleRequest(timeout)
      PROVE  DispatchInv'
  BY <1>1, TimeoutsIs, DispatchCalled
<1>2. ASSUME (\E id \in Ids \cup {NobodysId} : MessageRead(id)) \/ ReadTimesOut \/ ReadFails
      PROVE  DispatchInv'
  <2>1. PICK candidates \in SUBSET Merged.requests, res \in Results : Dispatch(candidates, res)
    BY <1>2 DEF Results, MessageRead, ReadTimesOut, ReadFails
  <2> QED
    BY <2>1, DispatchEnds
<1>3. ASSUME ReadIgnored
      PROVE  DispatchInv'
  <2>1. ~alive /\ reading' = {} /\ UNCHANGED <<base, queues, alive, mode, etime>>
    BY <1>3 DEF ReadIgnored, shared_vars
  <2> QED
    BY <2>1 DEF DispatchInv, Of
<1>4. ASSUME DispatchResponseReturns
      PROVE  DispatchInv'
  <2>1. /\ mode' = Idle /\ UNCHANGED <<base, queues, alive, etime>>
        /\ reading' = IF alive /\ reading = {} THEN NextRead(queues[1]) ELSE reading
    BY <1>4 DEF DispatchResponseReturns, ResponseReturned
  <2>2. PICK q : q = queues[1]
    OBVIOUS
  <2>3. q.requests = Of(1) /\ q.requests \in SUBSET RequestType
    BY <1>a, <2>2 DEF Of, QueueType
  <2>4. CASE alive /\ reading = {}
    <3>1. /\ reading' \in SUBSET Nat /\ (Of(1) # {} => reading' # {})
          /\ \A t \in reading' : \A o \in Of(1) : t <= o.timeout_end \/ t <= etime
      BY <1>a, <2>1, <2>2, <2>3, <2>4, NextReadFacts
    <3>2. \A j \in Queues : Of(j)' = Of(j)
      BY <2>1 DEF Of
    <3>3. Of(1)' = Of(1) /\ Of(2)' = Of(2)
      BY <3>2, FirstQueue
    <3>4. Of(2) = {}
      BY <2>4 DEF DispatchInv
    <3> QED
      BY <2>1, <3>1, <3>2, <3>3, <3>4 DEF DispatchInv
  <2>5. CASE ~(alive /\ reading = {})
    <3>1. reading' = reading /\ \A j \in Queues : Of(j)' = Of(j)
      BY <2>1, <2>5 DEF Of
    <3>2. Of(1)' = Of(1) /\ Of(2)' = Of(2)
      BY <3>1, FirstQueue
    <3> QED
      BY <2>1, <2>5, <3>1, <3>2 DEF DispatchInv
  <2> QED
    BY <2>4, <2>5
<1>5. ASSUME (QueueTask \/ Destroy \/ Advance) /\ UNCHANGED reading
      PROVE  DispatchInv'
  <2>1. Quiet
    BY <1>5, QuietStep
  <2>2. /\ base' = base /\ (mode' = InResponse <=> mode = InResponse) /\ (alive' => alive)
        /\ Of(1)' \subseteq Of(1) /\ Of(2)' \subseteq Of(2)
        /\ \A j \in Queues : Of(j)' \subseteq Of(j)
        /\ etime' \in Nat /\ etime <= etime' /\ reading' = reading
    BY <1>5, <2>1, FirstQueue DEF Quiet
  <2>3. \A t \in Nat : t <= etime => t <= etime'
    BY <1>a, <2>2
  <2>4. ASSUME alive'
        PROVE  /\ Of(2)' # {} => reading' # {}
               /\ \A r \in Of(1)', t \in reading' : t <= r.timeout_end \/ t <= etime'
               /\ mode' # InResponse /\ Of(1)' # {} => reading' # {}
    BY <2>2, <2>3, <2>4 DEF DispatchInv
  <2>5. /\ base' = {} /\ reading' \in SUBSET Nat
        /\ \A i \in Queues : i \notin {1, 2} => Of(i)' = {}
    BY <2>2 DEF DispatchInv
  <2> QED
    BY <2>4, <2>5 DEF DispatchInv
<1> QED
  BY <1>0, <1>1, <1>2, <1>3, <1>4, <1>5 DEF DispatchNext, DispatchLoopStep, DispatchSomeAnswer
-----------------------------------------------------------------------------
(* The writer to a descriptor: what is in the pipe are the bytes of each    *)
(* request from the first on, as many as its offset says, each of them once *)
(* and after the one before it.                                             *)

Bytes == Nat \X Nat

IdOf(b) == b[1]
PosOf(b) == b[2]

\* What k more bytes of a request append.
More(id, o, k) == [i \in 1 .. k |-> <<id, o + i>>]

PipeKept(pipe, offset) ==
  /\ \A i \in 1 .. Len(pipe) :
       /\ IdOf(pipe[i]) \in 1 .. MaxRequests /\ PosOf(pipe[i]) \in 1 .. offset[IdOf(pipe[i])]
       /\ \A j \in 1 .. i - 1 : IdOf(pipe[j]) = IdOf(pipe[i]) => PosOf(pipe[j]) < PosOf(pipe[i])
       /\ \A p \in 1 .. PosOf(pipe[i]) - 1 :
            \E j \in 1 .. i - 1 : IdOf(pipe[j]) = IdOf(pipe[i]) /\ PosOf(pipe[j]) = p
  /\ \A id \in 1 .. MaxRequests : \A p \in 1 .. offset[id] :
       \E i \in 1 .. Len(pipe) : IdOf(pipe[i]) = id /\ PosOf(pipe[i]) = p

\* The bytes of a request follow those of the requests before it.
PipeSorted(pipe) == \A i \in 1 .. Len(pipe) : \A j \in 1 .. i - 1 : IdOf(pipe[j]) <= IdOf(pipe[i])

Extended(more, pipe, id, o, k) ==
  /\ more \in Seq(Bytes) /\ Len(more) = Len(pipe) + k
  /\ \A i \in 1 .. Len(pipe) : more[i] = pipe[i]
  /\ \A i \in 1 .. k : IdOf(more[Len(pipe) + i]) = id /\ PosOf(more[Len(pipe) + i]) = o + i
  /\ \A i \in 1 .. Len(more) : i \in 1 .. Len(pipe) \/ \E j \in 1 .. k : i = Len(pipe) + j

LEMMA Concatenated ==
  ASSUME NEW pipe \in Seq(Bytes), NEW id \in Nat, NEW o \in Nat, NEW k \in Nat,
         NEW more, more = pipe \o More(id, o, k)
  PROVE  Extended(more, pipe, id, o, k)
<1> DEFINE byte(i) == <<id, o + i>>
           new == [i \in 1 .. k |-> byte(i)]
<1>1. \A i \in 1 .. k : byte(i) \in Bytes /\ IdOf(byte(i)) = id /\ PosOf(byte(i)) = o + i
  BY DEF Bytes, IdOf, PosOf
<1>2. more = pipe \o new
  BY DEF More
<1> HIDE DEF byte
<1>3. new \in Seq(Bytes) /\ Len(new) = k /\ \A i \in 1 .. k : new[i] = byte(i)
  <2>1. new \in [1 .. k -> Bytes] /\ DOMAIN new = 1 .. k /\ \A i \in 1 .. k : new[i] = byte(i)
    BY <1>1
  <2> HIDE DEF new
  <2>2. new \in Seq(Bytes)
    BY <2>1, SeqDef
  <2>3. DOMAIN new = 1 .. Len(new) /\ Len(new) \in Nat
    BY <2>2, LenProperties
  <2>4. Len(new) = k
    BY <2>1, <2>3
  <2> QED
    BY <2>1, <2>2, <2>4
<1> HIDE DEF new
<1>4. /\ more \in Seq(Bytes) /\ Len(more) = Len(pipe) + k
      /\ \A i \in 1 .. Len(pipe) : more[i] = pipe[i]
      /\ \A i \in 1 .. k : more[Len(pipe) + i] = new[i]
  <2> DEFINE L == Len(pipe)
  <2>1. /\ pipe \o new \in Seq(Bytes) /\ Len(pipe \o new) = L + Len(new)
        /\ \A i \in 1 .. L + Len(new) :
             (pipe \o new)[i] = IF i <= L THEN pipe[i] ELSE new[i - L]
    BY <1>3, ConcatProperties
  <2>2. /\ more \in Seq(Bytes) /\ Len(more) = L + k
        /\ \A i \in 1 .. L + k : more[i] = IF i <= L THEN pipe[i] ELSE new[i - L]
    BY <1>2, <1>3, <2>1
  <2>3. L \in Nat
    BY LenProperties
  <2> HIDE DEF L
  <2>4. ASSUME NEW i \in 1 .. k PROVE more[L + i] = new[i]
    <3>1. L + i \in 1 .. L + k /\ ~(L + i <= L) /\ (L + i) - L = i
      BY <2>3
    <3> QED
      BY <2>2, <3>1
  <2>5. ASSUME NEW i \in 1 .. L PROVE more[i] = pipe[i]
    <3>1. i \in 1 .. L + k /\ i <= L
      BY <2>3
    <3> QED
      BY <2>2, <3>1
  <2> QED
    BY <2>2, <2>4, <2>5 DEF L
<1>5. \A i \in 1 .. Len(more) : i \in 1 .. Len(pipe) \/ \E j \in 1 .. k : i = Len(pipe) + j
  <2> SUFFICES ASSUME NEW i \in 1 .. Len(more), i \notin 1 .. Len(pipe)
               PROVE  \E j \in 1 .. k : i = Len(pipe) + j
    OBVIOUS
  <2>1. i - Len(pipe) \in 1 .. k /\ i = Len(pipe) + (i - Len(pipe))
    BY <1>4
  <2> QED
    BY <2>1
<1>6. ASSUME NEW i \in 1 .. k
      PROVE  IdOf(more[Len(pipe) + i]) = id /\ PosOf(more[Len(pipe) + i]) = o + i
  BY <1>1, <1>3, <1>4
<1> QED
  BY <1>4, <1>5, <1>6 DEF Extended

Grown(more, to, pipe, id) ==
  /\ more \in Seq(Bytes) /\ to \in [1 .. MaxRequests -> Nat] /\ PipeKept(more, to)
  /\ PipeSorted(pipe) /\ (\A i \in 1 .. Len(pipe) : IdOf(pipe[i]) <= id) => PipeSorted(more)
  /\ \A i \in 1 .. Len(more) : IdOf(more[i]) = id \/ \E j \in 1 .. Len(pipe) : more[i] = pipe[j]

LEMMA PipeGrows ==
  ASSUME NEW pipe \in Seq(Bytes), NEW offset \in [1 .. MaxRequests -> Nat], PipeKept(pipe, offset),
         NEW id \in 1 .. MaxRequests, NEW k \in Nat,
         NEW more, more = pipe \o More(id, offset[id], k),
         NEW to, to = [offset EXCEPT ![id] = @ + k]
  PROVE  Grown(more, to, pipe, id)
<1> DEFINE L == Len(pipe)
           o == offset[id]
<1>1. o \in Nat /\ id \in Nat /\ L \in Nat
  BY LenProperties
<1> HIDE DEF o
<1>2. /\ more \in Seq(Bytes) /\ Len(more) = L + k
      /\ \A i \in 1 .. L : more[i] = pipe[i]
      /\ \A i \in 1 .. k : IdOf(more[L + i]) = id /\ PosOf(more[L + i]) = o + i
      /\ \A i \in 1 .. Len(more) : i \in 1 .. L \/ \E j \in 1 .. k : i = L + j
  <2>1. more = pipe \o More(id, o, k)
    BY DEF o
  <2>2. Extended(more, pipe, id, o, k)
    BY <1>1, <2>1, Concatenated
  <2> QED
    BY <2>2 DEF Extended, L
<1>3. /\ to \in [1 .. MaxRequests -> Nat] /\ to[id] = o + k
      /\ \A n \in 1 .. MaxRequests : n # id => to[n] = offset[n]
  BY <1>1 DEF o
<1> HIDE DEF L
<1>4. \A i \in 1 .. L : IdOf(pipe[i]) \in Nat /\ PosOf(pipe[i]) \in Nat
  BY <1>1 DEF L, PipeKept
<1>5. ASSUME NEW i \in 1 .. Len(more)
      PROVE  /\ IdOf(more[i]) \in 1 .. MaxRequests /\ PosOf(more[i]) \in 1 .. to[IdOf(more[i])]
             /\ \A j \in 1 .. i - 1 : IdOf(more[j]) = IdOf(more[i]) => PosOf(more[j]) < PosOf(more[i])
             /\ \A p \in 1 .. PosOf(more[i]) - 1 : \E j \in 1 .. i - 1 : IdOf(more[j]) = IdOf(more[i]) /\ PosOf(more[j]) = p
  <2>1. CASE i \in 1 .. L
    <3>4. i \in 1 .. L /\ \A j \in 1 .. i - 1 : j \in 1 .. L
      BY <1>1, <2>1
    <3>1. more[i] = pipe[i] /\ \A j \in 1 .. i - 1 : j \in 1 .. L /\ more[j] = pipe[j]
      BY <1>2, <3>4
    <3>2. /\ IdOf(pipe[i]) \in 1 .. MaxRequests /\ PosOf(pipe[i]) \in 1 .. offset[IdOf(pipe[i])]
          /\ \A j \in 1 .. i - 1 : IdOf(pipe[j]) = IdOf(pipe[i]) => PosOf(pipe[j]) < PosOf(pipe[i])
          /\ \A p \in 1 .. PosOf(pipe[i]) - 1 : \E j \in 1 .. i - 1 : IdOf(pipe[j]) = IdOf(pipe[i]) /\ PosOf(pipe[j]) = p
      BY <2>1 DEF PipeKept, L
    <3>3. PosOf(pipe[i]) \in 1 .. to[IdOf(pipe[i])]
      <4>1. CASE IdOf(pipe[i]) = id
        <5>1. offset[id] = o
          BY DEF o
        <5>2. PosOf(pipe[i]) \in 1 .. o
          BY <3>2, <4>1, <5>1
        <5>3. PosOf(pipe[i]) \in 1 .. o + k
          BY <1>1, <5>2
        <5> QED
          BY <1>3, <4>1, <5>3
      <4>2. CASE IdOf(pipe[i]) # id
        BY <1>3, <3>2, <4>2
      <4> QED
        BY <4>1, <4>2
    <3> QED
      BY <3>1, <3>2, <3>3
  <2>2. ASSUME NEW m \in 1 .. k, i = L + m
        PROVE  /\ IdOf(more[i]) \in 1 .. MaxRequests /\ PosOf(more[i]) \in 1 .. to[IdOf(more[i])]
               /\ \A j \in 1 .. i - 1 : IdOf(more[j]) = IdOf(more[i]) => PosOf(more[j]) < PosOf(more[i])
               /\ \A p \in 1 .. PosOf(more[i]) - 1 : \E j \in 1 .. i - 1 : IdOf(more[j]) = IdOf(more[i]) /\ PosOf(more[j]) = p
    <3>1. IdOf(more[i]) = id /\ PosOf(more[i]) = o + m
      BY <1>2, <2>2
    <3>2. o + m \in 1 .. to[id]
      BY <1>1, <1>3
    <3>3. ASSUME NEW j \in 1 .. i - 1, IdOf(more[j]) = id PROVE PosOf(more[j]) < o + m
      <4>1. CASE j \in 1 .. L
        <5>1. more[j] = pipe[j] /\ PosOf(pipe[j]) \in 1 .. o
          BY <1>2, <3>3, <4>1 DEF PipeKept, L, o
        <5> QED
          BY <1>1, <5>1
      <4>2. CASE j \notin 1 .. L
        <5>1. PICK q \in 1 .. k : j = L + q
          BY <1>1, <1>2, <2>2, <4>2
        <5>2. q < m /\ PosOf(more[j]) = o + q
          BY <1>1, <1>2, <2>2, <5>1
        <5> QED
          BY <1>1, <5>2
      <4> QED
        BY <4>1, <4>2
    <3>4. ASSUME NEW p \in 1 .. o + m - 1 PROVE \E j \in 1 .. i - 1 : IdOf(more[j]) = id /\ PosOf(more[j]) = p
      <4>1. CASE p \in 1 .. o
        <5>1. PICK j \in 1 .. L : IdOf(pipe[j]) = id /\ PosOf(pipe[j]) = p
          BY <4>1 DEF PipeKept, L, o
        <5>2. j \in 1 .. i - 1 /\ more[j] = pipe[j]
          BY <1>1, <1>2, <2>2
        <5> QED
          BY <5>1, <5>2
      <4>2. CASE p \notin 1 .. o
        <5>1. p - o \in 1 .. k /\ p - o < m /\ o + (p - o) = p
          BY <1>1, <4>2
        <5>2. IdOf(more[L + (p - o)]) = id /\ PosOf(more[L + (p - o)]) = p
          BY <1>2, <5>1
        <5>3. L + (p - o) \in 1 .. i - 1
          BY <1>1, <2>2, <5>1
        <5> QED
          BY <5>2, <5>3
      <4> QED
        BY <4>1, <4>2
    <3>5. PosOf(more[i]) \in 1 .. to[IdOf(more[i])] /\ IdOf(more[i]) \in 1 .. MaxRequests
      BY <3>1, <3>2
    <3>6. \A j \in 1 .. i - 1 : IdOf(more[j]) = IdOf(more[i]) => PosOf(more[j]) < PosOf(more[i])
      BY <3>1, <3>3
    <3>7. \A p \in 1 .. PosOf(more[i]) - 1 : \E j \in 1 .. i - 1 : IdOf(more[j]) = IdOf(more[i]) /\ PosOf(more[j]) = p
      <4> DEFINE at == PosOf(more[i])
      <4>1. at = o + m
        BY <3>1
      <4> HIDE DEF at
      <4>2. \A p \in 1 .. at - 1 : \E j \in 1 .. i - 1 : IdOf(more[j]) = id /\ PosOf(more[j]) = p
        <5> SUFFICES ASSUME NEW p \in 1 .. at - 1
                     PROVE  \E j \in 1 .. i - 1 : IdOf(more[j]) = id /\ PosOf(more[j]) = p
          OBVIOUS
        <5>1. p \in 1 .. o + m - 1
          BY <1>1, <4>1
        <5> QED
          BY <3>4, <5>1
      <4> QED
        BY <3>1, <4>2 DEF at
    <3> QED
      BY <3>1, <3>5, <3>6, <3>7
  <2> QED
    BY <1>2, <2>1, <2>2
<1>6. ASSUME NEW n \in 1 .. MaxRequests, NEW p \in 1 .. to[n]
      PROVE  \E i \in 1 .. Len(more) : IdOf(more[i]) = n /\ PosOf(more[i]) = p
  <2>1. CASE n = id /\ p \notin 1 .. o
    <3>1. p - o \in 1 .. k /\ o + (p - o) = p
      BY <1>1, <1>3, <2>1
    <3>3. PICK q \in 1 .. k : q = p - o /\ o + q = p
      BY <3>1
    <3>4. IdOf(more[L + q]) = id /\ PosOf(more[L + q]) = p
      BY <1>2, <3>3
    <3>2. L + q \in 1 .. Len(more)
      BY <1>1, <1>2
    <3> QED
      BY <2>1, <3>2, <3>4
  <2>2. CASE ~(n = id /\ p \notin 1 .. o)
    <3>1. p \in 1 .. offset[n]
      BY <1>3, <2>2 DEF o
    <3>2. PICK i \in 1 .. L : IdOf(pipe[i]) = n /\ PosOf(pipe[i]) = p
      BY <3>1 DEF PipeKept, L
    <3>3. i \in 1 .. L + k
      BY <1>1
    <3> QED
      BY <1>2, <3>2, <3>3
  <2> QED
    BY <2>1, <2>2
<1>7. PipeKept(more, to)
  BY <1>5, <1>6 DEF PipeKept
<1>8. \A i \in 1 .. Len(more) : IdOf(more[i]) = id \/ \E j \in 1 .. L : more[i] = pipe[j]
  <2> SUFFICES ASSUME NEW i \in 1 .. Len(more)
               PROVE  IdOf(more[i]) = id \/ \E j \in 1 .. L : more[i] = pipe[j]
    OBVIOUS
  <2>1. CASE i \in 1 .. L
    BY <1>2, <2>1
  <2>2. ASSUME NEW m \in 1 .. k, i = L + m PROVE IdOf(more[i]) = id
    BY <1>2, <2>2
  <2> QED
    BY <1>2, <2>1, <2>2
<1>9. ASSUME PipeSorted(pipe), \A i \in 1 .. L : IdOf(pipe[i]) <= id
      PROVE  PipeSorted(more)
  <2> SUFFICES ASSUME NEW i \in 1 .. Len(more), NEW j \in 1 .. i - 1
               PROVE  IdOf(more[j]) <= IdOf(more[i])
    BY DEF PipeSorted
  <2>1. CASE i \in 1 .. L
    <3>1. j \in 1 .. L /\ more[i] = pipe[i] /\ more[j] = pipe[j]
      BY <1>1, <1>2, <2>1
    <3> QED
      BY <1>9, <2>1, <3>1 DEF PipeSorted, L
  <2>2. ASSUME NEW m \in 1 .. k, i = L + m PROVE IdOf(more[j]) <= IdOf(more[i])
    <3>1. IdOf(more[i]) = id
      BY <1>2, <2>2
    <3>2. j \in 1 .. Len(more)
      BY <1>1, <1>2
    <3>3. IdOf(more[j]) <= id
      <4>1. CASE IdOf(more[j]) = id
        BY <1>1, <4>1
      <4>2. CASE \E n \in 1 .. L : more[j] = pipe[n]
        BY <1>9, <4>2
      <4> QED
        BY <1>8, <3>2, <4>1, <4>2
    <3> QED
      BY <3>1, <3>3
  <2> QED
    BY <1>2, <2>1, <2>2
<1> QED
  BY <1>2, <1>3, <1>7, <1>8, <1>9 DEF L, Grown


Writer ==
  [chunked : BOOLEAN, ongoing : BOOLEAN, offset : [1 .. MaxRequests -> Nat], pipe : Seq(Bytes),
   acked : SUBSET Nat]

\* Of the numbers of requests made, those that are active and those that wait.
AckedKept(w, open, made) ==
  \A id \in w.acked : id \in 1 .. made /\ id \notin open /\ w.offset[id] = DataLen

ChunksKept(w, active, waiting, made) ==
  /\ PipeSorted(w.pipe)
  /\ \A i \in 1 .. Len(w.pipe) : \A id \in active \cup waiting : IdOf(w.pipe[i]) <= id
  /\ \A i \in 1 .. Len(w.pipe) : IdOf(w.pipe[i]) <= made
  /\ \A a \in active, b \in waiting : a <= b

WriterInv(w, active, waiting, made) ==
  /\ w \in Writer
  /\ PipeKept(w.pipe, w.offset)
  /\ AckedKept(w, active \cup waiting, made)
  /\ w.chunked => ChunksKept(w, active, waiting, made)

\* Requests come and go, and nothing is written.
LEMMA WriterUnwritten ==
  ASSUME NEW w, NEW active, NEW waiting, NEW made \in Nat, WriterInv(w, active, waiting, made),
         NEW x \in Writer, x.chunked = w.chunked, x.offset = w.offset, x.pipe = w.pipe,
         x.acked = w.acked,
         NEW active2 \in SUBSET Nat, NEW waiting2 \in SUBSET Nat, NEW made2 \in Nat, made <= made2,
         \A id \in active2 \cup waiting2 : id \in active \cup waiting \/ id > made,
         w.chunked => \A a \in active2, b \in waiting2 : a <= b
  PROVE  WriterInv(x, active2, waiting2, made2)
<1>1. PipeKept(x.pipe, x.offset)
  BY DEF WriterInv
<1>2. AckedKept(x, active2 \cup waiting2, made2)
  <2> SUFFICES ASSUME NEW id \in x.acked
               PROVE  id \in 1 .. made2 /\ id \notin active2 \cup waiting2 /\ x.offset[id] = DataLen
    BY DEF AckedKept
  <2>1. id \in 1 .. made /\ id \notin active \cup waiting /\ x.offset[id] = DataLen
    BY DEF WriterInv, AckedKept
  <2>2. id \in 1 .. made2 /\ ~(id > made)
    BY <2>1
  <2> QED
    BY <2>1, <2>2
<1>3. ASSUME w.chunked PROVE ChunksKept(x, active2, waiting2, made2)
  <2> DEFINE pipe == w.pipe
  <2>1. /\ PipeSorted(pipe)
        /\ \A i \in 1 .. Len(pipe) : \A id \in active \cup waiting : IdOf(pipe[i]) <= id
        /\ \A i \in 1 .. Len(pipe) : IdOf(pipe[i]) <= made /\ IdOf(pipe[i]) \in Nat
    <3>1. \A i \in 1 .. Len(pipe) : IdOf(pipe[i]) \in 1 .. MaxRequests
      BY DEF WriterInv, PipeKept
    <3>2. \A i \in 1 .. Len(pipe) : IdOf(pipe[i]) \in Nat
      BY <3>1
    <3> QED
      BY <1>3, <3>2 DEF WriterInv, ChunksKept
  <2>2. x.pipe = pipe
    OBVIOUS
  <2> HIDE DEF pipe
  <2>3. \A i \in 1 .. Len(pipe) : IdOf(pipe[i]) <= made2
    BY <2>1
  <2>4. ASSUME NEW i \in 1 .. Len(pipe), NEW id \in active2 \cup waiting2 PROVE IdOf(pipe[i]) <= id
    <3>1. id \in Nat
      OBVIOUS
    <3>2. CASE id \in active \cup waiting
      BY <2>1, <3>2
    <3>3. CASE id > made
      BY <2>1, <3>1, <3>3
    <3> QED
      BY <3>2, <3>3
  <2> QED
    BY <1>3, <2>1, <2>2, <2>3, <2>4 DEF ChunksKept
<1> QED
  BY <1>1, <1>2, <1>3 DEF WriterInv

\* Some bytes of an active request are written, maybe its last ones.
LEMMA WriterWrites ==
  ASSUME NEW w, NEW active, NEW waiting, NEW made \in Nat, WriterInv(w, active, waiting, made),
         made <= MaxRequests, NEW id \in active, id \in 1 .. made, NEW k \in Nat,
         NEW x \in Writer, x.chunked = w.chunked,
         x.pipe = w.pipe \o More(id, w.offset[id], k), x.offset = [w.offset EXCEPT ![id] = @ + k],
         w.chunked => active = {id},
         NEW active2 \in SUBSET active,
         \/ x.acked = w.acked
         \/ x.acked = w.acked \cup {id} /\ id \notin active2 \cup waiting /\ w.offset[id] + k = DataLen
  PROVE  WriterInv(x, active2, waiting, made)
<1> DEFINE pipe == w.pipe
           offset == w.offset
           more == x.pipe
           to == x.offset
<1>1. pipe \in Seq(Bytes) /\ offset \in [1 .. MaxRequests -> Nat] /\ PipeKept(pipe, offset)
  BY DEF WriterInv, Writer
<1>2. id \in 1 .. MaxRequests
  BY RequestHandlingAssumption
<1>3. more = pipe \o More(id, offset[id], k) /\ to = [offset EXCEPT ![id] = @ + k]
  OBVIOUS
<1> HIDE DEF pipe, offset, more, to
<1>4. /\ PipeKept(more, to)
      /\ PipeSorted(pipe) /\ (\A i \in 1 .. Len(pipe) : IdOf(pipe[i]) <= id) => PipeSorted(more)
      /\ \A i \in 1 .. Len(more) : IdOf(more[i]) = id \/ \E j \in 1 .. Len(pipe) : more[i] = pipe[j]
  <2>1. Grown(more, to, pipe, id)
    BY <1>1, <1>2, <1>3, PipeGrows
  <2> QED
    BY <2>1 DEF Grown
<1>5. to[id] = offset[id] + k /\ \A n \in 1 .. MaxRequests : n # id => to[n] = offset[n]
  BY <1>1, <1>2, <1>3
<1>6. AckedKept(x, active2 \cup waiting, made)
  <2> SUFFICES ASSUME NEW n \in x.acked
               PROVE  n \in 1 .. made /\ n \notin active2 \cup waiting /\ x.offset[n] = DataLen
    BY DEF AckedKept
  <2>1. CASE n \in w.acked
    <3>1. n \in 1 .. made /\ n \notin active \cup waiting /\ offset[n] = DataLen
      BY <2>1 DEF WriterInv, AckedKept, offset
    <3>2. n # id /\ n \in 1 .. MaxRequests
      BY <3>1, RequestHandlingAssumption
    <3> QED
      BY <1>5, <3>1, <3>2 DEF to
  <2>2. CASE n \notin w.acked
    BY <1>5, <2>2 DEF to, offset
  <2> QED
    BY <2>1, <2>2
<1>7. ASSUME w.chunked PROVE ChunksKept(x, active2, waiting, made)
  <2>1. /\ PipeSorted(pipe) /\ \A a \in active, b \in waiting : a <= b
        /\ \A i \in 1 .. Len(pipe) : IdOf(pipe[i]) <= made /\ IdOf(pipe[i]) <= id
        /\ \A i \in 1 .. Len(pipe) : \A n \in active \cup waiting : IdOf(pipe[i]) <= n
    BY <1>7 DEF WriterInv, ChunksKept, pipe
  <2>2. PipeSorted(more)
    BY <1>4, <2>1
  <2>3. ASSUME NEW i \in 1 .. Len(more), NEW n \in active2 \cup waiting
        PROVE  IdOf(more[i]) <= n
    <3>1. CASE IdOf(more[i]) = id
      <4>1. id \in Nat
        OBVIOUS
      <4>2. n = id \/ n \in waiting
        BY <1>7
      <4> QED
        BY <2>1, <3>1, <4>1, <4>2
    <3>2. CASE \E j \in 1 .. Len(pipe) : more[i] = pipe[j]
      BY <2>1, <3>2
    <3> QED
      BY <1>4, <3>1, <3>2
  <2>4. ASSUME NEW i \in 1 .. Len(more) PROVE IdOf(more[i]) <= made
    <3>1. CASE IdOf(more[i]) = id
      BY <3>1
    <3>2. CASE \E j \in 1 .. Len(pipe) : more[i] = pipe[j]
      BY <2>1, <3>2
    <3> QED
      BY <1>4, <3>1, <3>2
  <2> QED
    BY <2>1, <2>2, <2>3, <2>4 DEF ChunksKept, more
<1> QED
  BY <1>4, <1>6, <1>7 DEF WriterInv, more, to

FdWriterInv ==
  /\ Len(deadlines) <= MaxRequests
  /\ writer.chunked => FlagInv(writer.ongoing)
  /\ ~writer.chunked => NothingWaits
  /\ WriterInv(writer, IdsOf(base), IdsOf(Of(1)), Len(deadlines))

WrittenAs(x, w, id, k) ==
  /\ x \in Writer /\ x.chunked = w.chunked /\ x.ongoing = w.ongoing
  /\ x.pipe = w.pipe \o More(id, w.offset[id], k)
  /\ x.offset = [w.offset EXCEPT ![id] = @ + k]
  /\ x.acked = w.acked

LEMMA WrittenFacts ==
  ASSUME writer \in Writer, NEW id \in 1 .. MaxRequests, NEW k \in Nat, NEW x, x = Written(id, k)
  PROVE  WrittenAs(x, writer, id, k)
<1> DEFINE more == writer.pipe \o More(id, writer.offset[id], k)
           to == [writer.offset EXCEPT ![id] = @ + k]
<1>1. x = [writer EXCEPT !.offset = to, !.pipe = more]
  BY DEF Written, More, Writer
<1>2. /\ writer.pipe \in Seq(Bytes) /\ writer.offset \in [1 .. MaxRequests -> Nat]
      /\ writer.offset[id] \in Nat /\ id \in Nat
  <2>1. writer.pipe \in Seq(Bytes)
    BY DEF Writer
  <2> DEFINE offset == writer.offset
  <2>2. offset \in [1 .. MaxRequests -> Nat]
    BY DEF Writer
  <2> HIDE DEF offset
  <2>3. offset[id] \in Nat
    BY <2>2
  <2>4. id \in Nat
    OBVIOUS
  <2> QED
    BY <2>1, <2>2, <2>3, <2>4 DEF offset
<1>3. to \in [1 .. MaxRequests -> Nat]
  BY <1>2
<1>4. Extended(more, writer.pipe, id, writer.offset[id], k)
  BY <1>2, Concatenated
<1> HIDE DEF more, to
<1>5. more \in Seq(Bytes)
  BY <1>4 DEF Extended
<1>6. /\ x \in Writer /\ x.chunked = writer.chunked /\ x.ongoing = writer.ongoing
      /\ x.pipe = more /\ x.offset = to /\ x.acked = writer.acked
  BY <1>1, <1>3, <1>5 DEF Writer
<1> QED
  BY <1>6 DEF more, to, WrittenAs

LEMMA FdWriterFacts ==
  ASSUME SharedInv, FdWriterInv
  PROVE  /\ Len(deadlines) \in Nat /\ writer \in Writer
         /\ WriterInv(writer, IdsOf(base), IdsOf(Of(1)), Len(deadlines))
         /\ IdsOf(base) \in SUBSET Nat /\ IdsOf(Of(1)) \in SUBSET Nat
         /\ \A id \in IdsOf(base) \cup IdsOf(Of(1)) : id \in 1 .. Len(deadlines)
         /\ writer.chunked => \A a \in IdsOf(base), b \in IdsOf(Of(1)) : a <= b
<1>1. \A id \in IdsOf(base) \cup IdsOf(Of(1)) : id \in 1 .. Len(deadlines)
  BY FirstQueue DEF SharedInv, KnownInv, Known, IdsOf
<1>2. Len(deadlines) \in Nat
  BY DEF SharedInv, SharedType
<1> QED
  BY <1>1, <1>2 DEF FdWriterInv, WriterInv, ChunksKept

\* Requests come and go, and nothing is written.
LEMMA FdWriterMoves ==
  ASSUME SharedInv, FdWriterInv, SharedType', Len(deadlines') <= MaxRequests,
         Len(deadlines) <= Len(deadlines'),
         NEW flag \in BOOLEAN, writer' = [writer EXCEPT !.ongoing = flag],
         \A id \in IdsOf(base') \cup IdsOf(Of(1)') :
           id \in IdsOf(base) \cup IdsOf(Of(1)) \/ id > Len(deadlines),
         writer.chunked => \A a \in IdsOf(base'), b \in IdsOf(Of(1)') : a <= b,
         writer.chunked => FlagInvNext(flag),
         ~writer.chunked => NothingWaits'
  PROVE  FdWriterInv'
<1>1. /\ writer' \in Writer /\ writer'.chunked = writer.chunked /\ writer'.offset = writer.offset
      /\ writer'.pipe = writer.pipe /\ writer'.acked = writer.acked /\ writer'.ongoing = flag
  BY FdWriterFacts DEF Writer
<1>2. IdsOf(base') \in SUBSET Nat /\ IdsOf(Of(1)') \in SUBSET Nat /\ Len(deadlines') \in Nat
  BY FirstQueue DEF SharedType, IdsOf, RequestType, QueueType, Of
<1>3. WriterInv(writer', IdsOf(base'), IdsOf(Of(1)'), Len(deadlines'))
  <2>1. PICK x : x = writer'
    OBVIOUS
  <2>2. PICK active2, waiting2, made2 :
          active2 = IdsOf(base') /\ waiting2 = IdsOf(Of(1)') /\ made2 = Len(deadlines')
    OBVIOUS
  <2>3. PICK active, waiting, made :
          active = IdsOf(base) /\ waiting = IdsOf(Of(1)) /\ made = Len(deadlines)
    OBVIOUS
  <2>4. WriterInv(writer, active, waiting, made) /\ made \in Nat
    BY <2>3, FdWriterFacts
  <2>5. /\ active2 \in SUBSET Nat /\ waiting2 \in SUBSET Nat /\ made2 \in Nat /\ made <= made2
        /\ \A id \in active2 \cup waiting2 : id \in active \cup waiting \/ id > made
        /\ writer.chunked => \A a \in active2, b \in waiting2 : a <= b
    BY <1>2, <2>2, <2>3
  <2>6. WriterInv(x, active2, waiting2, made2)
    <3>1. PICK w : w = writer
      OBVIOUS
    <3>2. /\ x \in Writer /\ x.chunked = w.chunked /\ x.offset = w.offset /\ x.pipe = w.pipe
          /\ x.acked = w.acked
      BY <1>1, <2>1, <3>1
    <3>3. WriterInv(w, active, waiting, made)
      BY <2>4, <3>1
    <3>4. w.chunked => \A a \in active2, b \in waiting2 : a <= b
      BY <2>5, <3>1
    <3> QED
      BY <2>4, <2>5, <3>2, <3>3, <3>4, WriterUnwritten
  <2> QED
    BY <2>1, <2>2, <2>6
<1> QED
  BY <1>1, <1>3 DEF FdWriterInv, FlagInv, FlagInvNext

LEMMA FdWriterWrites ==
  ASSUME SharedInv, FdWriterInv, NEW r \in base, NEW k \in Nat, WriteSome(r, k)
  PROVE  FdWriterInv' /\ InOrder
<1> DEFINE id == r.id
<1>1. /\ id \in 1 .. Len(deadlines) /\ id \in IdsOf(base) /\ id \notin IdsOf(Of(1))
      /\ \A o \in base : o.id = id => o = r
  BY FirstQueue DEF SharedInv, KnownInv, Known, ApartInv, OneEach, Apart, IdsOf
<1>2. id \in 1 .. MaxRequests
  <2>1. Len(deadlines) \in Nat /\ Len(deadlines) <= MaxRequests
    BY FdWriterFacts DEF FdWriterInv
  <2> QED
    BY <1>1, <2>1, RequestHandlingAssumption
<1>3. writer.chunked => IdsOf(base) = {id}
  BY DEF FdWriterInv, FlagInv, AtMostOne, IdsOf
<1> HIDE DEF id
<1>4. PICK x : x = Written(id, k)
  OBVIOUS
<1>5. /\ x \in Writer /\ x.chunked = writer.chunked /\ x.ongoing = writer.ongoing
      /\ x.pipe = writer.pipe \o More(id, writer.offset[id], k)
      /\ x.offset = [writer.offset EXCEPT ![id] = @ + k]
      /\ x.acked = writer.acked
  <2>1. WrittenAs(x, writer, id, k)
    BY <1>2, <1>4, FdWriterFacts, WrittenFacts
  <2> QED
    BY <2>1 DEF WrittenAs
<1>6. CASE mode = Idle /\ writer' = x /\ UNCHANGED shared_vars
  <2>1. UNCHANGED <<deadlines, queues, base, mode, alive>>
    BY <1>6 DEF shared_vars
  <2>2. WriterInv(writer', IdsOf(base), IdsOf(Of(1)), Len(deadlines))
    BY <1>1, <1>3, <1>5, <1>6, FdWriterFacts, WriterWrites DEF FdWriterInv
  <2>3. FdWriterInv'
    BY <1>5, <1>6, <2>1, <2>2
       DEF FdWriterInv, FlagInv, AtMostOne, OnlyFirst, NothingWaits, Busy, Of
  <2> QED
    BY <2>1, <2>3, OrderIfQuiet
<1>7. CASE /\ writer.offset[id] + k = DataLen
           /\ writer' = [x EXCEPT !.acked = @ \cup {id}]
           /\ Answer(r, "ok")
  <2>1. base' = base \ {r} /\ UNCHANGED <<deadlines, queues>>
    BY <1>7 DEF Answer
  <2>2. id \notin IdsOf(base') \cup IdsOf(Of(1)) /\ IdsOf(base') \in SUBSET IdsOf(base)
    BY <1>1, <2>1 DEF IdsOf, id
  <2>3. /\ writer' \in Writer /\ writer'.chunked = writer.chunked
        /\ writer'.ongoing = writer.ongoing
        /\ writer'.pipe = x.pipe /\ writer'.offset = x.offset
        /\ writer'.acked = writer.acked \cup {id}
    <3>1. id \in Nat
      BY <1>2
    <3>2. PICK acked : acked = x.acked \cup {id}
      OBVIOUS
    <3>3. acked \in SUBSET Nat /\ acked = writer.acked \cup {id}
      BY <1>5, <3>1, <3>2 DEF Writer
    <3>4. writer' = [x EXCEPT !.acked = acked]
      BY <1>7, <3>2
    <3> QED
      BY <1>5, <3>3, <3>4 DEF Writer
  <2>4. WriterInv(writer', IdsOf(base'), IdsOf(Of(1)), Len(deadlines))
    <3> DEFINE active == IdsOf(base)
               active2 == IdsOf(base')
               waiting == IdsOf(Of(1))
               made == Len(deadlines)
    <3>1. /\ made \in Nat /\ made <= MaxRequests /\ WriterInv(writer, active, waiting, made)
          /\ id \in active /\ id \in 1 .. made
      BY <1>1, FdWriterFacts DEF FdWriterInv
    <3>2. active2 \in SUBSET active /\ id \notin active2 \cup waiting
      BY <2>2
    <3>3. writer.chunked => active = {id}
      BY <1>3
    <3> HIDE DEF active, active2, waiting, made
    <3>4. PICK w : w = writer
      OBVIOUS
    <3>5. PICK y : y = writer'
      OBVIOUS
    <3>6. /\ y \in Writer /\ y.chunked = w.chunked
          /\ y.pipe = w.pipe \o More(id, w.offset[id], k)
          /\ y.offset = [w.offset EXCEPT ![id] = @ + k]
          /\ y.acked = w.acked \cup {id} /\ w.offset[id] + k = DataLen
      BY <1>5, <1>7, <2>3, <3>4, <3>5
    <3>7. WriterInv(w, active, waiting, made) /\ (w.chunked => active = {id})
      BY <3>1, <3>3, <3>4
    <3>8. WriterInv(y, active2, waiting, made)
      BY <3>1, <3>2, <3>6, <3>7, WriterWrites
    <3> QED
      BY <3>5, <3>8 DEF active2, waiting, made
  <2>5. writer.chunked => FlagInvNext(writer.ongoing)
    BY <1>7, FlagAnswered DEF FdWriterInv
  <2>6. ~writer.chunked => NothingWaits'
    BY <2>1, NothingWaitsKept DEF FdWriterInv
  <2>7. FdWriterInv'
    BY <2>1, <2>3, <2>4, <2>5, <2>6 DEF FdWriterInv, FlagInv, FlagInvNext, Of
  <2> QED
    BY <2>1, <2>7, OrderIfQuiet
<1> QED
  BY <1>4, <1>6, <1>7 DEF WriteSome, id

LEMMA FdWriterKept ==
  ASSUME SharedInv, SharedType', FdWriterInv, kind = "fd_writer", FdWriterNext
  PROVE  FdWriterInv' /\ InOrder
<1>0. /\ writer \in Writer /\ writer.ongoing \in BOOLEAN /\ Len(deadlines) \in Nat
      /\ writer = [writer EXCEPT !.ongoing = writer.ongoing]
      /\ \A id \in IdsOf(base) \cup IdsOf(Of(1)) : id \in 1 .. Len(deadlines)
      /\ Len(deadlines) <= MaxRequests
      /\ writer.chunked => \A a \in IdsOf(base), b \in IdsOf(Of(1)) : a <= b
  BY FdWriterFacts DEF Writer, FdWriterInv
<1>1. ASSUME NEW timeout \in 0 .. Never, Admit(1, Request(timeout), writer.chunked /\ writer.ongoing),
             NEW flag \in BOOLEAN, writer' = [writer EXCEPT !.ongoing = flag],
             writer.chunked => FlagInvNext(flag),
             ~writer.chunked => NothingWaits'
      PROVE  FdWriterInv'
  <2> DEFINE r == Request(timeout)
  <2>1. /\ Len(deadlines') = Len(deadlines) + 1 /\ r.id = Len(deadlines) + 1 /\ alive
        /\ \/ base' = base /\ Of(1)' = Of(1) \cup {r}
           \/ ~(writer.chunked /\ writer.ongoing) /\ base' = base \cup {r} /\ Of(1)' = Of(1)
    BY <1>1, AdmittedOne, FirstQueue
  <2>2. Len(deadlines) < MaxRequests
    BY <1>1 DEF Admit, PassOn, Accept
  <2> HIDE DEF r
  <2>3. \/ IdsOf(base') = IdsOf(base) /\ IdsOf(Of(1)') = IdsOf(Of(1)) \cup {r.id}
        \/ /\ ~(writer.chunked /\ writer.ongoing)
           /\ IdsOf(base') = IdsOf(base) \cup {r.id} /\ IdsOf(Of(1)') = IdsOf(Of(1))
    BY <2>1 DEF IdsOf
  <2>4. \A id \in IdsOf(base') \cup IdsOf(Of(1)') :
          id \in IdsOf(base) \cup IdsOf(Of(1)) \/ id > Len(deadlines)
    BY <1>0, <2>1, <2>3
  <2>5. ASSUME writer.chunked PROVE \A a \in IdsOf(base'), b \in IdsOf(Of(1)') : a <= b
    <3>1. CASE IdsOf(base') = IdsOf(base) /\ IdsOf(Of(1)') = IdsOf(Of(1)) \cup {r.id}
      <4>1. \A a \in IdsOf(base) : a <= r.id
        BY <1>0, <2>1
      <4> QED
        BY <1>0, <2>5, <3>1, <4>1
    <3>2. CASE ~writer.ongoing /\ IdsOf(Of(1)') = IdsOf(Of(1))
      <4>1. Of(1) = {}
        BY <2>1, <2>5, <3>2 DEF FdWriterInv, FlagInv
      <4> QED
        BY <3>2, <4>1 DEF IdsOf
    <3> QED
      BY <2>3, <2>5, <3>1, <3>2
  <2>6. Len(deadlines') <= MaxRequests /\ Len(deadlines) <= Len(deadlines')
    BY <1>0, <2>1, <2>2, RequestHandlingAssumption
  <2> QED
    BY <1>1, <2>4, <2>5, <2>6, FdWriterMoves
<1>2. ASSUME IdsOf(base') \subseteq IdsOf(base), IdsOf(Of(1)') \subseteq IdsOf(Of(1)),
             UNCHANGED deadlines, UNCHANGED writer,
             writer.chunked => FlagInvNext(writer.ongoing), ~writer.chunked => NothingWaits'
      PROVE  FdWriterInv'
  <2>1. /\ Len(deadlines') <= MaxRequests /\ Len(deadlines) <= Len(deadlines')
        /\ writer' = [writer EXCEPT !.ongoing = writer.ongoing]
        /\ \A id \in IdsOf(base') \cup IdsOf(Of(1)') : id \in IdsOf(base) \cup IdsOf(Of(1))
        /\ writer.chunked => \A a \in IdsOf(base'), b \in IdsOf(Of(1)') : a <= b
    BY <1>0, <1>2
  <2> QED
    BY <1>0, <1>2, <2>1, FdWriterMoves
<1>3. CASE WriteBytes
  <2>1. ~writer.chunked /\ PassOn(Request(Never)) /\ UNCHANGED writer /\ Never \in 0 .. Never
    BY <1>3, NeverFacts DEF WriteBytes
  <2>2. NothingWaits /\ NothingWaits'
    BY <2>1, NothingWaitsKept DEF FdWriterInv, PassOn
  <2>3. Admit(1, Request(Never), writer.chunked /\ writer.ongoing)
    BY <2>1 DEF Admit
  <2>4. FdWriterInv'
    BY <1>0, <1>1, <2>1, <2>2, <2>3
  <2> QED
    BY <2>1, <2>2, <2>4, OrderIfPassed
<1>4. ASSUME NEW timeout \in Timeouts, WriteChunk(timeout)
      PROVE  FdWriterInv' /\ InOrder
  <2>1. /\ writer.chunked /\ Admit(1, Request(timeout), writer.ongoing) /\ timeout \in 0 .. Never
        /\ writer' = [writer EXCEPT !.ongoing = TRUE] /\ FlagInv(writer.ongoing)
    BY <1>4, TimeoutsIs DEF WriteChunk, FdWriterInv
  <2>2. FlagInvNext(TRUE) /\ InOrder
    BY <2>1, FlagAdmitted
  <2>3. Admit(1, Request(timeout), writer.chunked /\ writer.ongoing)
    BY <2>1 DEF Admit
  <2> QED
    BY <1>1, <2>1, <2>2, <2>3
<1>5. ASSUME NEW r \in base, FdWriteFails(r)
      PROVE  FdWriterInv' /\ InOrder
  <2>1. base' = base \ {r} /\ UNCHANGED deadlines /\ UNCHANGED queues /\ UNCHANGED writer
        /\ Answer(r, "error")
    BY <1>5 DEF FdWriteFails, Answer
  <2>2. IdsOf(base') \subseteq IdsOf(base) /\ IdsOf(Of(1)') \subseteq IdsOf(Of(1))
    BY <2>1 DEF IdsOf, Of
  <2>3. writer.chunked => FlagInvNext(writer.ongoing)
    BY <2>1, FlagAnswered DEF FdWriterInv
  <2>4. ~writer.chunked => NothingWaits'
    BY <2>1, NothingWaitsKept DEF FdWriterInv
  <2> QED
    BY <1>2, <2>1, <2>2, <2>3, <2>4, OrderIfQuiet
<1>6. CASE FdWriterResponseReturns
  <2>1. ResponseReturned /\ UNCHANGED deadlines
    BY <1>6 DEF FdWriterResponseReturns, ResponseReturned
  <2>2. CASE ~writer.chunked /\ UNCHANGED <<queues, base, writer>>
    <3>1. IdsOf(base') \subseteq IdsOf(base) /\ IdsOf(Of(1)') \subseteq IdsOf(Of(1)) /\ NothingWaits'
      BY <2>2, NothingWaitsKept DEF IdsOf, Of, FdWriterInv
    <3> QED
      BY <1>2, <2>1, <2>2, <3>1, OrderIfQuiet
  <2>3. CASE /\ writer.chunked
             /\ ForwardPending(1)
             /\ writer' = [writer EXCEPT !.ongoing = IF alive THEN HasRequests(queues[1]) ELSE @]
    <3>1. PICK flag \in BOOLEAN : flag = IF alive THEN HasRequests(queues[1]) ELSE writer.ongoing
      BY <1>0 DEF HasRequests
    <3>2. writer' = [writer EXCEPT !.ongoing = flag]
      BY <2>3, <3>1
    <3>3. FlagInv(writer.ongoing)
      BY <2>3 DEF FdWriterInv
    <3>4. FlagInvNext(flag) /\ InOrder
      BY <2>1, <2>3, <3>1, <3>3, FlagReturned
    <3>5. /\ \A id \in IdsOf(base') \cup IdsOf(Of(1)') : id \in IdsOf(base) \cup IdsOf(Of(1))
          /\ \A a \in IdsOf(base'), b \in IdsOf(Of(1)') : a <= b
      <4>1. CASE ForwardNext(1)
        <5>1. PICK r \in Of(1) : /\ IsFirst(r, Of(1)) /\ Of(1)' = Of(1) \ {r}
                                 /\ base' = base \cup {Forwarded(r)}
                                 /\ Forwarded(r).id = r.id
          BY <4>1, ForwardedOne, FirstQueue
        <5>2. base = {}
          BY <2>1, <3>3 DEF ResponseReturned, FlagInv, AtMostOne
        <5>3. IdsOf(base') = {r.id} /\ IdsOf(Of(1)') \subseteq IdsOf(Of(1)) /\ r.id \in IdsOf(Of(1))
          BY <5>1, <5>2 DEF IdsOf
        <5>4. \A b \in IdsOf(Of(1)') : r.id <= b
          BY <5>1 DEF IsFirst, IdsOf
        <5> QED
          BY <5>3, <5>4
      <4>2. CASE UNCHANGED <<queues, base>>
        BY <1>0, <2>3, <4>2 DEF Of
      <4> QED
        BY <2>3, <4>1, <4>2 DEF ForwardPending
    <3>6. Len(deadlines') <= MaxRequests /\ Len(deadlines) <= Len(deadlines')
      BY <1>0, <2>1
    <3> QED
      BY <2>3, <3>2, <3>4, <3>5, <3>6, FdWriterMoves
  <2> QED
    BY <1>6, <2>2, <2>3 DEF FdWriterResponseReturns
<1>7. CASE (QueueTask \/ Destroy \/ Advance) /\ UNCHANGED writer
  <2>1. Quiet
    BY <1>7, QuietStep
  <2>2. base' = base /\ UNCHANGED deadlines /\ Of(1)' \subseteq Of(1)
    BY <2>1, FirstQueue DEF Quiet
  <2>3. IdsOf(base') \subseteq IdsOf(base) /\ IdsOf(Of(1)') \subseteq IdsOf(Of(1))
    BY <2>2 DEF IdsOf
  <2>4. writer.chunked => FlagInvNext(writer.ongoing)
    BY <2>1, FlagQuiet DEF FdWriterInv
  <2>5. ~writer.chunked => NothingWaits'
    BY <2>1, NothingWaitsKept DEF FdWriterInv
  <2> QED
    BY <1>2, <1>7, <2>2, <2>3, <2>4, <2>5, OrderIfQuiet
<1>8. CASE FdWriterSomeAnswer
  <2>1. PICK r \in base :
          FdWriteFails(r) \/ \E k \in 1 .. DataLen - writer.offset[r.id] : WriteSome(r, k)
    BY <1>8 DEF FdWriterSomeAnswer
  <2>2. ASSUME NEW k \in 1 .. DataLen - writer.offset[r.id], WriteSome(r, k)
        PROVE  FdWriterInv' /\ InOrder
    <3>1. k \in Nat
      OBVIOUS
    <3> QED
      BY <2>2, <3>1, FdWriterWrites
  <2> QED
    BY <1>5, <2>1, <2>2
<1> QED
  BY <1>3, <1>4, <1>6, <1>7, <1>8 DEF FdWriterNext, FdWriterLoopStep

\* Bytes as pairs.
LEMMA ByteIs == \A b \in Bytes : /\ b = <<IdOf(b), PosOf(b)>> /\ b[1] = IdOf(b) /\ b[2] = PosOf(b)
  BY DEF Bytes, IdOf, PosOf

LEMMA PairIs == \A id, p : IdOf(<<id, p>>) = id /\ PosOf(<<id, p>>) = p /\ <<id, p>>[1] = id
  BY DEF IdOf, PosOf

LEMMA FdWriterPromises ==
  ASSUME SharedInv, FdWriterInv
  PROVE  FdWriterLimitKept /\ FdWriterNoneForgotten
<1> DEFINE pipe == writer.pipe
           offset == writer.offset
<1>1. /\ pipe \in Seq(Bytes) /\ PipeKept(pipe, offset)
      /\ writer.chunked => PipeSorted(pipe)
      /\ \A id \in writer.acked : id \in 1 .. Len(deadlines) /\ offset[id] = DataLen
  BY FdWriterFacts DEF WriterInv, ChunksKept, AckedKept, Writer
<1>2. \A id \in writer.acked : id \in 1 .. MaxRequests
  <2>1. Len(deadlines) \in Nat /\ Len(deadlines) <= MaxRequests
    BY FdWriterFacts DEF FdWriterInv
  <2> QED
    BY <1>1, <2>1, RequestHandlingAssumption
<1> HIDE DEF offset
<1>3. DOMAIN pipe = 1 .. Len(pipe) /\ Len(pipe) \in Nat /\ \A i \in 1 .. Len(pipe) : pipe[i] \in Bytes
  <2> HIDE DEF pipe
  <2>1. pipe \in Seq(Bytes)
    BY <1>1
  <2>2. pipe \in [1 .. Len(pipe) -> Bytes] /\ Len(pipe) \in Nat
    BY <2>1, LenProperties
  <2> QED
    BY <2>2
<1> HIDE DEF pipe
<1>4. ASSUME NEW i \in 1 .. Len(pipe)
      PROVE  LET id == pipe[i][1]
                 before == {pipe[j] : j \in 1 .. i - 1}
             IN  /\ {b \in before : b[1] = id} = {<<id, p>> : p \in 1 .. pipe[i][2] - 1}
                 /\ writer.chunked => \A b \in before : b[1] <= id
  <2> DEFINE before == {pipe[j] : j \in 1 .. i - 1}
             id == IdOf(pipe[i])
             pos == PosOf(pipe[i])
  <2>1. /\ pipe[i][1] = id /\ pipe[i][2] = pos
        /\ \A j \in 1 .. i - 1 : j \in 1 .. Len(pipe) /\ pipe[j] \in Bytes
    BY <1>3, ByteIs
  <2>2. /\ \A j \in 1 .. i - 1 : IdOf(pipe[j]) = id => PosOf(pipe[j]) < pos
        /\ \A p \in 1 .. pos - 1 : \E j \in 1 .. i - 1 : IdOf(pipe[j]) = id /\ PosOf(pipe[j]) = p
        /\ pos \in Nat
    BY <1>1, <1>3, ByteIs DEF PipeKept, Bytes, PosOf
  <2>3. \A j \in 1 .. i - 1 : PosOf(pipe[j]) \in Nat /\ 1 <= PosOf(pipe[j])
    <3>1. \A b \in Bytes : PosOf(b) \in Nat
      BY DEF Bytes, PosOf
    <3>2. \A j \in 1 .. Len(pipe) : PosOf(pipe[j]) \in 1 .. offset[IdOf(pipe[j])]
      BY <1>1 DEF PipeKept
    <3> QED
      BY <2>1, <3>1, <3>2
  <2>4. writer.chunked => \A j \in 1 .. i - 1 : IdOf(pipe[j]) <= id
    BY <1>1 DEF PipeSorted
  <2> HIDE DEF id, pos
  <2>5. ASSUME NEW b, b \in before, b[1] = id PROVE b \in {<<id, p>> : p \in 1 .. pos - 1}
    <3>1. PICK j \in 1 .. i - 1 : b = pipe[j]
      BY <2>5
    <3>2. b = <<IdOf(b), PosOf(b)>> /\ b[1] = IdOf(b)
      BY <2>1, <3>1, ByteIs
    <3>3. IdOf(b) = id
      BY <2>5, <3>2
    <3>4. b = <<id, PosOf(b)>>
      BY <3>2, <3>3
    <3>5. PosOf(b) \in 1 .. pos - 1
      BY <2>2, <2>3, <3>1, <3>3
    <3> QED
      BY <3>4, <3>5
  <2>6. ASSUME NEW p \in 1 .. pos - 1 PROVE <<id, p>> \in before /\ <<id, p>>[1] = id
    <3>1. PICK j \in 1 .. i - 1 : IdOf(pipe[j]) = id /\ PosOf(pipe[j]) = p
      BY <2>2
    <3>2. pipe[j] = <<id, p>>
      BY <2>1, <3>1, ByteIs
    <3> QED
      BY <3>2, PairIs
  <2>7. writer.chunked => \A b \in before : b[1] <= id
    BY <2>1, <2>4, ByteIs
  <2>8. {b \in before : b[1] = id} = {<<id, p>> : p \in 1 .. pos - 1}
    <3> HIDE DEF before
    <3> QED
      BY <2>5, <2>6
  <2> QED
    BY <2>1, <2>7, <2>8
<1>5. ASSUME NEW id \in writer.acked
      PROVE  {b \in WrittenBytes : b[1] = id} = {<<id, p>> : p \in 1 .. DataLen}
  <2>1. WrittenBytes = {pipe[i] : i \in 1 .. Len(pipe)}
    BY <1>3 DEF WrittenBytes, pipe
  <2>2. ASSUME NEW b, b \in WrittenBytes, b[1] = id PROVE b \in {<<id, p>> : p \in 1 .. DataLen}
    <3>1. PICK i \in 1 .. Len(pipe) : b = pipe[i]
      BY <2>1, <2>2
    <3>2. b = <<IdOf(b), PosOf(b)>> /\ b[1] = IdOf(b)
      BY <1>3, <3>1, ByteIs
    <3>3. IdOf(b) = id
      BY <2>2, <3>2
    <3>4. b = <<id, PosOf(b)>>
      BY <3>2, <3>3
    <3>5. PosOf(b) \in 1 .. DataLen
      BY <1>1, <3>1, <3>3 DEF PipeKept
    <3> QED
      BY <3>4, <3>5
  <2>3. ASSUME NEW p \in 1 .. DataLen PROVE <<id, p>> \in WrittenBytes /\ <<id, p>>[1] = id
    <3>1. PICK i \in 1 .. Len(pipe) : IdOf(pipe[i]) = id /\ PosOf(pipe[i]) = p
      BY <1>1, <1>2 DEF PipeKept
    <3>2. pipe[i] = <<id, p>>
      BY <1>3, <3>1, ByteIs
    <3> QED
      BY <2>1, <3>2, PairIs
  <2> HIDE DEF WrittenBytes
  <2> QED
    BY <2>2, <2>3
<1>6. FdWriterLimitKept
  BY <1>3, <1>4, <1>5 DEF FdWriterLimitKept, pipe
<1>7. FdWriterNoneForgotten
  BY FlagPromises DEF FdWriterInv, FdWriterNoneForgotten
<1> QED
  BY <1>6, <1>7

-----------------------------------------------------------------------------
(* All classes.                                                             *)

PromisesInv ==
  /\ kind = "sequential" => SequentialInv
  /\ kind = "semaphore" => SemaphoreInv
  /\ kind = "prioritizing" => PrioritizingInv
  /\ kind = "grouping" => GroupingInv
  /\ kind = "lazy_init" => LazyInv
  /\ kind = "multi_sequential" => MultiSequentialInv
  /\ kind = "forwarding" => ForwardingInv
  /\ kind \in {"throttling", "iterations", "threaded"} => NothingWaits
  /\ kind = "dispatch" => DispatchInv
  /\ kind = "fd_writer" => FdWriterInv
  /\ kind = "connections" => ConnectionsInv
  /\ kind = "reaper" => ReaperInv
  /\ kind = "io_lines" => IoLinesInv

LEMMA PromisesInit == ASSUME Init PROVE PromisesInv
<1>1. InitShared
  BY DEF Init, SequentialInit, SemaphoreInit, PrioritizingInit, GroupingInit, LazyInit,
         MultiSequentialInit, ForwardingInit, ThrottlingInit, IterationsInit, DispatchInit,
         FdWriterInit, ConnectionsInit, ReaperInit, ThreadedInit, IoLinesInit
<1>2. /\ etime = 0 /\ deadlines = <<>> /\ Len(deadlines) = 0 /\ base = {} /\ alive = TRUE
      /\ mode = Idle /\ mode # InResponse /\ mode # InReap
      /\ \A i \in Queues : Of(i) = {}
  BY <1>1, ModesDiffer DEF InitShared, Of, NewRequestsQueue
<1>3. AtMostOne /\ OnlyFirst /\ NothingWaits /\ ~Busy /\ Of(1) = {} /\ IsFiniteSet(base)
  BY <1>2, FirstQueue, FS_EmptySet DEF AtMostOne, OnlyFirst, NothingWaits, Busy
<1>4. InUse = 0
  BY <1>2, FS_EmptySet DEF InUse
<1>5. FlagInv(FALSE)
  BY <1>3 DEF FlagInv
<1>6. kind = "sequential" => SequentialInv
  BY <1>5 DEF Init, SequentialInit, SequentialInv
<1>7. kind = "semaphore" => SemaphoreInv
  BY <1>3, <1>4, SemaphoreAssumption DEF Init, SemaphoreInit, SemaphoreInv
<1>8. kind = "prioritizing" => PrioritizingInv
  BY <1>2, <1>3 DEF Init, PrioritizingInit, PrioritizingInv
<1>9. kind = "grouping" => GroupingInv
  BY <1>2, <1>3 DEF Init, GroupingInit, GroupingInv
<1>10. kind = "lazy_init" => LazyInv
  BY <1>2, <1>3 DEF Init, LazyInit, LazyInv
<1>11. kind = "multi_sequential" => MultiSequentialInv
  BY <1>2 DEF Init, MultiSequentialInit, MultiSequentialInv, BusyKey
<1>12. kind = "forwarding" => ForwardingInv
  <2> SUFFICES ASSUME kind = "forwarding" PROVE ForwardingInv
    OBVIOUS
  <2>1. fwd \in [class : Classes, active : {0}, refused : {{}}, idle : {TRUE}]
    BY DEF Init, ForwardingInit
  <2>2. fwd \in Fwd /\ fwd.active = 0 /\ fwd.refused = {} /\ fwd.idle = TRUE
    <3>1. PICK class \in Classes : fwd = [class |-> class, active |-> 0, refused |-> {}, idle |-> TRUE]
      BY <2>1
    <3> QED
      BY <3>1 DEF Fwd
  <2>3. Passed = {}
    BY <1>2 DEF Passed, Refused
  <2>4. ActiveKept(fwd, Passed, Len(deadlines))
    BY <1>2, <2>2, <2>3 DEF ActiveKept
  <2>5. IdleKept(fwd, InUse)
    BY <1>4, <2>2 DEF IdleKept
  <2>6. \A r \in Passed : EndKept(fwd, r.timeout_end, etime)
    BY <2>3
  <2>7. \A id \in fwd.refused : id \in 1 .. Len(deadlines)
    BY <2>2
  <2>8. fwd \in Fwd
    BY <2>2
  <2>9. NothingWaits /\ IsFiniteSet(base)
    BY <1>3
  <2> QED
    BY <2>4, <2>5, <2>6, <2>7, <2>8, <2>9 DEF ForwardingInv
<1>13. kind = "dispatch" => DispatchInv
  <2> SUFFICES ASSUME kind = "dispatch" PROVE DispatchInv
    OBVIOUS
  <2>1. 2 \in Queues
    BY KindsAssumption, RequestHandlingAssumption DEF Queues, Init
  <2>2. reading = {} /\ reading \in SUBSET Nat
    BY DEF Init, DispatchInit
  <2> QED
    BY <1>2, <1>3, <2>1, <2>2 DEF DispatchInv
<1>14. kind = "fd_writer" => FdWriterInv
  <2> SUFFICES ASSUME kind = "fd_writer" PROVE FdWriterInv
    OBVIOUS
  <2>1. PICK chunked \in BOOLEAN :
          writer = [chunked |-> chunked, ongoing |-> FALSE,
                    offset |-> [n \in 1 .. MaxRequests |-> 0], pipe |-> <<>>, acked |-> {}]
    BY DEF Init, FdWriterInit
  <2>2. /\ writer \in Writer /\ writer.ongoing = FALSE /\ writer.acked = {}
        /\ writer.offset = [n \in 1 .. MaxRequests |-> 0] /\ writer.pipe = <<>>
    BY <2>1 DEF Writer
  <2>3. PipeKept(writer.pipe, writer.offset) /\ PipeSorted(writer.pipe)
    BY <2>2 DEF PipeKept, PipeSorted
  <2>4. IdsOf(base) = {} /\ IdsOf(Of(1)) = {}
    BY <1>2, <1>3 DEF IdsOf
  <2>5. WriterInv(writer, IdsOf(base), IdsOf(Of(1)), Len(deadlines))
    BY <2>2, <2>3, <2>4 DEF WriterInv, AckedKept, ChunksKept
  <2>6. Len(deadlines) <= MaxRequests
    BY <1>2, RequestHandlingAssumption
  <2>7. FlagInv(writer.ongoing)
    BY <1>5, <2>2
  <2> QED
    BY <1>3, <2>5, <2>6, <2>7 DEF FdWriterInv
<1>15. kind = "connections" => ConnectionsInv
  <2> SUFFICES ASSUME kind = "connections" PROVE ConnectionsInv
    OBVIOUS
  <2> DEFINE sockets == [n \in 1 .. MaxRequests |-> "none"]
  <2>1. conns = [sockets |-> sockets, ready |-> {}, accepted |-> {}]
    BY DEF Init, ConnectionsInit
  <2>2. sockets \in [1 .. MaxRequests -> Sockets]
    BY DEF Sockets
  <2> HIDE DEF sockets
  <2>3. Len(deadlines) <= MaxRequests
    BY <1>2, RequestHandlingAssumption
  <2> QED
    BY <1>3, <2>1, <2>2, <2>3 DEF ConnectionsInv
<1>16. kind = "reaper" => ReaperInv
  <2> SUFFICES ASSUME kind = "reaper" PROVE ReaperInv
    OBVIOUS
  <2> DEFINE nobody == [pid |-> 0, nth |-> 0, there |-> FALSE]
             state == [p \in Pids |-> "free"]
             started == [p \in Pids |-> 0]
             asked == [n \in 1 .. MaxRequests |-> nobody]
  <2>1. nobody \in Ask
    BY DEF Ask
  <2>2. /\ state \in [Pids -> {"free", "running", "ended"}] /\ started \in [Pids -> Nat]
        /\ \A p \in Pids : state[p] # "ended"
    OBVIOUS
  <2>3. children = [state |-> state, started |-> started,
                    signal |-> FALSE, at |-> 0, status |-> 0, told |-> FALSE, misled |-> {},
                    asked |-> asked]
    BY DEF Init, ReaperInit
  <2> HIDE DEF nobody, state, started
  <2>4. asked \in [1 .. MaxRequests -> Ask]
    BY <2>1
  <2> HIDE DEF asked
  <2>5. /\ children \in Children /\ children.at = 0 /\ children.misled = {}
        /\ \A p \in Pids : children.state[p] # "ended"
    BY <2>2, <2>3, <2>4 DEF Children
  <2> QED
    BY <1>2, <1>3, <2>5, RequestHandlingAssumption DEF ReaperInv, ThereKept
<1>17. kind = "io_lines" => IoLinesInv
  BY <1>2, <1>3 DEF Init, IoLinesInit, IoLinesInv
<1> QED
  BY <1>3, <1>6, <1>7, <1>8, <1>9, <1>10, <1>11, <1>12, <1>13, <1>14, <1>15, <1>16, <1>17
     DEF PromisesInv

LEMMA PromisesStutter ==
  ASSUME PromisesInv, UNCHANGED vars
  PROVE  PromisesInv'
<1>1. /\ UNCHANGED etime /\ UNCHANGED deadlines /\ UNCHANGED queues /\ UNCHANGED base
      /\ UNCHANGED alive /\ UNCHANGED mode /\ UNCHANGED result /\ UNCHANGED own /\ UNCHANGED kind
  BY DEF vars, shared_vars
<1>2. /\ AtMostOne' <=> AtMostOne
      /\ OnlyFirst' <=> OnlyFirst
      /\ NothingWaits' <=> NothingWaits
      /\ Busy' <=> Busy
      /\ InUse' = InUse
      /\ Of(1)' = Of(1)
  BY <1>1 DEF AtMostOne, OnlyFirst, NothingWaits, Busy, InUse, Of
<1>3. SequentialInv' <=> SequentialInv
  BY <1>1, <1>2 DEF SequentialInv, FlagInv, request_ongoing
<1>4. SemaphoreInv' <=> SemaphoreInv
  BY <1>1, <1>2 DEF SemaphoreInv, sem_value
<1>5. PrioritizingInv' <=> PrioritizingInv
  BY <1>1, <1>2 DEF PrioritizingInv, Of, request_handling_ongoing
<1>6. GroupingInv' <=> GroupingInv
  BY <1>1, <1>2 DEF GroupingInv, grouping_ongoing
<1>7. LazyInv' <=> LazyInv
  BY <1>1, <1>2 DEF LazyInv, factory
<1>8. MultiSequentialInv' <=> MultiSequentialInv
  BY <1>1 DEF MultiSequentialInv, BusyKey, Of, ongoing
<1>9. ForwardingInv' <=> ForwardingInv
  BY <1>1, <1>2 DEF ForwardingInv, Passed, Refused, fwd
<1>10. DispatchInv' <=> DispatchInv
  BY <1>1 DEF DispatchInv, Of, reading
<1>11. FdWriterInv' <=> FdWriterInv
  BY <1>1, <1>2 DEF FdWriterInv, FlagInv, writer
<1>12. ConnectionsInv' <=> ConnectionsInv
  BY <1>1, <1>2 DEF ConnectionsInv, conns
<1>13. ReaperInv' <=> ReaperInv
  BY <1>1, <1>2 DEF ReaperInv, children, Of
<1>14. IoLinesInv' <=> IoLinesInv
  BY <1>1, <1>2 DEF IoLinesInv, contexts
<1> QED
  BY <1>1, <1>2, <1>3, <1>4, <1>5, <1>6, <1>7, <1>8, <1>9, <1>10, <1>11, <1>12, <1>13, <1>14
     DEF PromisesInv

LEMMA PromisesNext ==
  ASSUME HandlersInv, PromisesInv, Next
  PROVE  PromisesInv' /\ InOrder
<1>1. SharedInv /\ SharedType' /\ UNCHANGED kind /\ kind \in Kinds
  BY HandlersNext DEF HandlersInv, SharedInv, Next
<1>2. CASE kind = "sequential" /\ SequentialNext
  BY <1>1, <1>2, SequentialKept DEF PromisesInv
<1>3. CASE kind = "semaphore" /\ SemaphoreNext
  BY <1>1, <1>3, SemaphoreKept DEF PromisesInv
<1>4. CASE kind = "prioritizing" /\ PrioritizingNext
  BY <1>1, <1>4, PrioritizingKept DEF PromisesInv
<1>5. CASE kind = "grouping" /\ GroupingNext
  BY <1>1, <1>5, GroupingKept DEF PromisesInv
<1>6. CASE kind = "lazy_init" /\ LazyNext
  BY <1>1, <1>6, LazyKept DEF PromisesInv
<1>7. CASE kind = "multi_sequential" /\ MultiSequentialNext
  BY <1>1, <1>7, MultiSequentialKept DEF PromisesInv
<1>8. CASE kind = "forwarding" /\ ForwardingNext
  BY <1>1, <1>8, ForwardingKept DEF PromisesInv
<1>9. CASE kind = "throttling" /\ ThrottlingNext
  BY <1>1, <1>9, ThrottlingKept DEF PromisesInv
<1>10. CASE kind = "iterations" /\ IterationsNext
  BY <1>1, <1>10, IterationsKept DEF PromisesInv
<1>11. CASE kind = "dispatch" /\ DispatchNext
  <2>1. 2 \in Queues
    BY <1>1, <1>11, KindsAssumption, RequestHandlingAssumption DEF Queues
  <2> QED
    BY <1>1, <1>11, <2>1, DispatchKept DEF PromisesInv
<1>12. CASE kind = "fd_writer" /\ FdWriterNext
  BY <1>1, <1>12, FdWriterKept DEF PromisesInv
<1>13. CASE kind = "connections" /\ ConnectionsNext
  BY <1>1, <1>13, ConnectionsKept DEF PromisesInv
<1>14. CASE kind = "reaper" /\ ReaperNext
  BY <1>1, <1>14, ReaperKept DEF PromisesInv
<1>15. CASE kind = "threaded" /\ ThreadedNext
  BY <1>1, <1>15, ThreadedKept DEF PromisesInv
<1>16. CASE kind = "io_lines" /\ IoLinesNext
  BY <1>1, <1>16, IoLinesKept DEF PromisesInv
<1> QED
  BY <1>2, <1>3, <1>4, <1>5, <1>6, <1>7, <1>8, <1>9, <1>10, <1>11, <1>12, <1>13, <1>14, <1>15,
     <1>16 DEF Next

(* What the classes keep beside: flags and counters that tell what is in    *)
(* use, and what is left pending only while something is.                   *)
THEOREM PromisesInvariant == Spec => [](HandlersInv /\ PromisesInv)
<1>1. Init => HandlersInv /\ PromisesInv
  BY HandlersInit, PromisesInit
<1>2. HandlersInv /\ PromisesInv /\ [Next]_vars => (HandlersInv /\ PromisesInv)'
  BY HandlersNext, PromisesNext, PromisesStutter
<1> QED
  BY <1>1, <1>2, PTL DEF Spec

(* Pending requests are forwarded in the order in which they came, those of *)
(* a higher priority first (requests-queue-impl.h:106-135), and a new one    *)
(* goes ahead of none of them, of multi_sequential of none of its key; but   *)
(* where the prioritizer calls a client's response handler, a request that   *)
(* it makes overtakes what is pending (prioritizing-request-handler-impl.h:  *)
(* 82-84).                                                                   *)
THEOREM HandlersServeInOrder == Spec => ServedInOrder
<1>1. HandlersInv /\ PromisesInv /\ [Next]_vars =>
        [/\ FirstComeFirstServed
         /\ kind # "multi_sequential" => UrgentFirst
         /\ NewcomersWait]_vars
  BY PromisesNext DEF InOrder
<1> QED
  BY <1>1, PromisesInvariant, PTL DEF Spec, ServedInOrder

(* No class forgets a request: response handlers that make requests, and    *)
(* timeouts in between, leave no request behind; and pending ones will be    *)
(* told of their timeouts.                                                   *)
THEOREM HandlersForgetNone == Spec => []NoneForgotten
<1>1. ASSUME HandlersInv, PromisesInv PROVE NoneForgotten
  <2>1. SharedInv /\ TimeoutTasksCover /\ kind \in Kinds
    BY <1>1 DEF HandlersInv, SharedInv
  <2>2. kind = "sequential" => SequentialNoneForgotten
    BY <1>1, FlagPromises DEF PromisesInv, SequentialInv, SequentialNoneForgotten
  <2>3. kind = "semaphore" => SemaphoreNoneForgotten
    BY <1>1, SemaphorePromises DEF PromisesInv
  <2>4. kind = "prioritizing" => PrioritizingNoneForgotten
    BY <1>1, PrioritizingPromises DEF PromisesInv
  <2>5. kind = "grouping" => GroupingNoneForgotten
    BY <1>1, GroupingPromises DEF PromisesInv
  <2>6. kind = "lazy_init" => LazyNoneForgotten
    BY <1>1, LazyPromises DEF PromisesInv
  <2>7. kind = "multi_sequential" => MultiSequentialNoneForgotten
    BY <1>1, MultiSequentialPromises DEF PromisesInv
  <2>8. kind = "throttling" => ThrottlingNoneForgotten
    BY <1>1 DEF HandlersInv, OwnInv, ThrottlingInv
  <2>9. kind = "dispatch" => DispatchNoneForgotten
    <3>1. ASSUME kind = "dispatch" PROVE 2 \in Queues
      BY <2>1, <3>1, KindsAssumption, RequestHandlingAssumption DEF Queues
    <3> QED
      BY <1>1, <3>1, DispatchPromises DEF PromisesInv
  <2>10. kind = "fd_writer" => FdWriterNoneForgotten
    BY <1>1, <2>1, FdWriterPromises DEF PromisesInv
  <2>11. kind = "connections" => ConnectionsNoneForgotten
    BY <1>1, ConnectionsPromises DEF PromisesInv
  <2>12. kind = "reaper" => ReaperNoneForgotten
    BY <1>1, ReaperPromises DEF PromisesInv
  <2>13. kind = "threaded" => ThreadedNoneForgotten
    BY <1>1 DEF HandlersInv, OwnInv, PostedInv
  <2>14. kind = "io_lines" => IoLinesNoneForgotten
    BY <1>1, IoLinesPromises DEF PromisesInv
  <2> QED
    BY <2>1, <2>2, <2>3, <2>4, <2>5, <2>6, <2>7, <2>8, <2>9, <2>10, <2>11, <2>12, <2>13, <2>14
       DEF NoneForgotten
<1> QED
  BY <1>1, PromisesInvariant, PTL

(* Every class keeps the limit that it is there for: one request at a time, *)
(* or one of each key, as many as the semaphore counts, no faster than the  *)
(* distance; what was read is what is handed over, and bytes are written    *)
(* whole and in order.                                                      *)
THEOREM HandlersKeepLimits == Spec => []LimitKept
<1>1. ASSUME HandlersInv, PromisesInv PROVE LimitKept
  <2>1. SharedInv
    BY <1>1 DEF HandlersInv
  <2>2. kind = "sequential" => SequentialLimitKept
    BY <1>1, FlagPromises DEF PromisesInv, SequentialInv
  <2>3. kind = "semaphore" => SemaphoreLimitKept
    BY <1>1, SemaphorePromises DEF PromisesInv
  <2>4. kind = "grouping" => GroupingLimitKept
    BY <1>1, GroupingPromises DEF PromisesInv
  <2>5. kind = "multi_sequential" => MultiSequentialLimitKept
    BY <1>1, MultiSequentialPromises DEF PromisesInv
  <2>6. kind = "forwarding" => ForwardingLimitKept
    BY <1>1, ForwardingPromises DEF PromisesInv
  <2>7. kind = "throttling" => ThrottlingLimitKept
    BY <1>1 DEF HandlersInv, OwnInv, ThrottlingInv
  <2>8. kind = "iterations" => IterationsLimitKept
    <3> SUFFICES ASSUME kind = "iterations", NEW n \in DOMAIN calls, calls[n].vector # None
                 PROVE  calls[n].vector = [e \in 1 .. Len(calls[n].got) |-> e]
      BY DEF IterationsLimitKept
    <3>1. GotInOrder(calls[n])
      BY <1>1 DEF HandlersInv, OwnInv, CallsInv
    <3>2. calls[n].got = Counted(Len(calls[n].got)) /\ calls[n].vector = Counted(Len(calls[n].vector))
      BY <3>1, CountedFacts DEF GotInOrder
    <3> QED
      BY <3>1, <3>2 DEF GotInOrder, Counted
  <2>9. kind = "fd_writer" => FdWriterLimitKept
    BY <1>1, <2>1, FdWriterPromises DEF PromisesInv
  <2>10. kind = "connections" => ConnectionsLimitKept
    BY <1>1, ConnectionsPromises DEF PromisesInv
  <2>11. kind = "reaper" => ReaperLimitKept
    BY <1>1, ReaperPromises DEF PromisesInv
  <2> QED
    BY <2>2, <2>3, <2>4, <2>5, <2>6, <2>7, <2>8, <2>9, <2>10, <2>11 DEF LimitKept
<1> QED
  BY <1>1, PromisesInvariant, PTL
==============================================================================
