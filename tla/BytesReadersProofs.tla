-------------------------- MODULE BytesReadersProofs --------------------------
(***************************************************************************)
(* Proofs about the classes that EXTEND BytesReading, for any times, reads, *)
(* streams and parameters of the classes.  What a read shares with other   *)
(* requests is proved in RequestHandlersProofs.                             *)
(***************************************************************************)
EXTENDS RequestHandlersProofs, MCBytesReaders

-----------------------------------------------------------------------------
(* Sequences of bytes.                                                     *)

ByteSeq == Seq(Nat)

LEMMA EmptyBytes == <<>> \in ByteSeq /\ Len(<<>>) = 0 /\ ToSet(<<>>) = {}
  BY DEF ByteSeq, ToSet

LEMMA ToSetIs == \A s \in ByteSeq : \A x : x \in ToSet(s) <=> \E i \in 1 .. Len(s) : s[i] = x
  BY DEF ByteSeq, ToSet

LEMMA InjectiveIs ==
  \A s \in ByteSeq : IsInjective(s) <=> \A i, j \in 1 .. Len(s) : s[i] = s[j] => i = j
  BY DEF ByteSeq, IsInjective

LEMMA BytesEqual ==
  \A s, t \in ByteSeq : Len(s) = Len(t) /\ (\A i \in 1 .. Len(s) : s[i] = t[i]) => s = t
  BY SeqEqual DEF ByteSeq

LEMMA ConcatFacts ==
  ASSUME NEW s \in ByteSeq, NEW t \in ByteSeq
  PROVE  /\ s \o t \in ByteSeq
         /\ Len(s \o t) = Len(s) + Len(t) /\ Len(s) \in Nat /\ Len(t) \in Nat
         /\ \A i \in 1 .. Len(s) : (s \o t)[i] = s[i]
         /\ \A i \in 1 .. Len(t) : (s \o t)[Len(s) + i] = t[i]
         /\ \A i \in 1 .. Len(s \o t) : i > Len(s) => (s \o t)[i] = t[i - Len(s)]
         /\ s \o <<>> = s /\ <<>> \o t = t
<1>1. /\ s \o t \in ByteSeq /\ Len(s \o t) = Len(s) + Len(t) /\ Len(s) \in Nat /\ Len(t) \in Nat
      /\ \A i \in 1 .. Len(s) + Len(t) :
           (s \o t)[i] = IF i <= Len(s) THEN s[i] ELSE t[i - Len(s)]
  BY ConcatProperties, LenProperties DEF ByteSeq
<1>2. \A i \in 1 .. Len(t) : (s \o t)[Len(s) + i] = t[i]
  <2> TAKE i \in 1 .. Len(t)
  <2>1. Len(s) + i \in 1 .. Len(s) + Len(t) /\ ~(Len(s) + i <= Len(s)) /\ (Len(s) + i) - Len(s) = i
    BY <1>1
  <2> QED
    BY <1>1, <2>1
<1>3. \A i \in 1 .. Len(s) : (s \o t)[i] = s[i]
  BY <1>1
<1>4. s \o <<>> = s /\ <<>> \o t = t
  BY ConcatEmptySeq DEF ByteSeq
<1> QED
  BY <1>1, <1>2, <1>3, <1>4

LEMMA Min2Facts == \A a, b \in Nat : Min2(a, b) \in Nat /\ Min2(a, b) <= a /\ Min2(a, b) <= b
                                     /\ Min2(a, b) \in {a, b}
  BY DEF Min2

LEMMA PrefixFacts ==
  ASSUME NEW s \in ByteSeq, NEW n \in Nat
  PROVE  /\ Prefix(s, n) \in ByteSeq /\ Len(Prefix(s, n)) = Min2(n, Len(s))
         /\ \A i \in 1 .. Len(Prefix(s, n)) : Prefix(s, n)[i] = s[i]
<1> DEFINE m == Min2(n, Len(s))
<1>1. Len(s) \in Nat /\ m \in Nat /\ m <= Len(s)
  BY Min2Facts, LenProperties DEF ByteSeq
<1> HIDE DEF m
<1>2. /\ SubSeq(s, 1, m) \in ByteSeq /\ Len(SubSeq(s, 1, m)) = m
      /\ \A i \in 1 .. m : SubSeq(s, 1, m)[i] = s[i]
  BY <1>1 DEF ByteSeq
<1>3. Prefix(s, n) = SubSeq(s, 1, m)
  BY DEF Prefix, m
<1> QED
  BY <1>2, <1>3 DEF m

LEMMA SuffixFacts ==
  ASSUME NEW s \in ByteSeq, NEW n \in Nat
  PROVE  /\ Suffix(s, n) \in ByteSeq
         /\ Len(Suffix(s, n)) = IF n <= Len(s) THEN Len(s) - n ELSE 0
         /\ \A i \in 1 .. Len(Suffix(s, n)) : Suffix(s, n)[i] = s[n + i]
<1>1. Len(s) \in Nat
  BY LenProperties DEF ByteSeq
<1>2. CASE n < Len(s)
  <2>1. /\ SubSeq(s, n + 1, Len(s)) \in ByteSeq
        /\ Len(SubSeq(s, n + 1, Len(s))) = Len(s) - n
        /\ \A i \in 1 .. Len(s) - n : SubSeq(s, n + 1, Len(s))[i] = s[n + i]
    BY <1>1, <1>2 DEF ByteSeq
  <2> QED
    BY <1>1, <1>2, <2>1 DEF Suffix
<1>3. CASE ~(n < Len(s))
  <2>1. SubSeq(s, n + 1, Len(s)) = <<>>
    BY <1>1, <1>3 DEF ByteSeq
  <2>2. Suffix(s, n) = <<>>
    BY <2>1 DEF Suffix
  <2>3. (IF n <= Len(s) THEN Len(s) - n ELSE 0) = 0
    BY <1>1, <1>3
  <2> QED
    BY <2>2, <2>3, EmptyBytes
<1> QED
  BY <1>2, <1>3

(* A span of the stream. *)
LEMMA SpanFacts ==
  ASSUME NEW first \in Nat, NEW last \in Nat, first <= last + 1
  PROVE  /\ Span(first, last) \in ByteSeq /\ Len(Span(first, last)) = (last - first) + 1
         /\ \A i \in 1 .. (last - first) + 1 : Span(first, last)[i] = (first + i) - 1
<1> DEFINE n == (last - first) + 1
<1>1. n \in Nat /\ \A i \in 1 .. n : (first + i) - 1 \in Nat
  OBVIOUS
<1>2. Span(first, last) = [i \in 1 .. n |-> (first + i) - 1]
  BY DEF Span
<1> HIDE DEF n
<1>3. /\ Span(first, last) \in ByteSeq /\ Len(Span(first, last)) = n
      /\ \A i \in 1 .. n : Span(first, last)[i] = (first + i) - 1
  BY <1>1, <1>2 DEF ByteSeq
<1> QED
  BY <1>3 DEF n

-----------------------------------------------------------------------------
(* The invariant that all readers share: the results that are known already *)
(* are for reads that are nowhere else, and for each of them one.           *)

ReaderKinds == {"buffered", "buffered_alone", "size_limited", "lines", "source", "utils"}

BytesType ==
  /\ sizes \in [1 .. MaxRequests -> Nat]
  /\ asked \in [1 .. MaxRequests -> Nat]
  /\ taken \in 0 .. StreamLen
  /\ delivered \in ByteSeq
  /\ Len(deadlines) <= MaxRequests

LaterIds == {c.read.id : c \in later}

InTimeResult(res) == res # "timed out"

LaterInv ==
  /\ \A c \in later : /\ c.read.id \in (1 .. Len(deadlines)) \ Open
                      /\ InTimeResult(c.res) /\ c.bytes \in ByteSeq
  /\ \A c, d \in later : c.read.id = d.read.id => c = d

ReadersShared == SharedInv /\ BytesType /\ LaterInv /\ kind \in ReaderKinds

LEMMA OpenReadsIs == OpenReads = Open \cup LaterIds
  BY DEF OpenReads, LaterIds

LEMMA OpenReadsNextIs == OpenReads' = Open' \cup LaterIds'
  BY DEF OpenReads, LaterIds

LEMMA OpenKnown == ASSUME SharedInv PROVE Open \subseteq 1 .. Len(deadlines)
<1>1. ASSUME NEW n \in Open PROVE n \in 1 .. Len(deadlines)
  <2>1. InOne(n)
    BY <1>1, OpenIs
  <2> QED
    BY <2>1 DEF InOne, SharedInv, KnownInv, Known
<1> QED
  BY <1>1

(* What a step is in the terms of the contract of readers.                 *)

ReadStutters == UNCHANGED <<etime, deadlines, result>> /\ OpenReads' = OpenReads

ReadStep == ReadContract!Next \/ ReadStutters

LEMMA ReadStepIs == ReadStep <=> [ReadContract!Next]_(ReadContract!vars)
  BY DEF ReadStep, ReadStutters, ReadContract!vars

(* A step that leaves the results for later alone is for the reads what it  *)
(* is for the requests.                                                     *)
LEMMA SameLater ==
  ASSUME SharedType, LaterInv, UNCHANGED later, ContractStep
  PROVE  LaterInv' /\ ReadStep
<1> USE OpenReadsIs, OpenReadsNextIs
<1>1. LaterIds' = LaterIds /\ Len(deadlines) \in Nat
  BY DEF LaterIds, SharedType
<1>2. LaterIds \cap Open = {} /\ Len(deadlines) + 1 \notin LaterIds
  <2>1. ASSUME NEW n \in LaterIds PROVE n \in 1 .. Len(deadlines) /\ n \notin Open
    BY <2>1 DEF LaterInv, LaterIds
  <2> QED
    BY <1>1, <2>1
<1>3. CASE Plain!HandleRequest
  <2>1. Open' = Open \cup {Len(deadlines) + 1} /\ Len(deadlines') = Len(deadlines) + 1
    BY <1>3 DEF Plain!HandleRequest, SharedType
  <2>2. LaterInv'
    <3>1. ASSUME NEW c \in later
          PROVE  c.read.id \in (1 .. Len(deadlines')) \ Open' /\ InTimeResult(c.res)
                 /\ c.bytes \in ByteSeq
      <4>1. c.read.id \in 1 .. Len(deadlines) /\ c.read.id \notin Open
        BY DEF LaterInv
      <4>2. c.read.id \in 1 .. Len(deadlines') /\ c.read.id \notin Open'
        BY <1>1, <2>1, <4>1
      <4> QED
        BY <4>2 DEF LaterInv
    <3> QED
      BY <3>1 DEF LaterInv
  <2>3. OpenReads' = OpenReads \cup {Len(deadlines) + 1}
    BY <1>1, <2>1
  <2> QED
    BY <1>3, <2>2, <2>3 DEF Plain!HandleRequest, ReadStep, ReadContract!Next,
                            ReadContract!HandleRequest
<1>4. CASE Plain!Answer
  <2> PICK n \in Open : /\ Open' = Open \ {n} /\ result'.id = n
                        /\ result'.res = "timed out" => deadlines[n] <= etime
    BY <1>4 DEF Plain!Answer
  <2>1. UNCHANGED <<etime, deadlines>>
    BY <1>4 DEF Plain!Answer
  <2>2. LaterInv'
    BY <2>1 DEF LaterInv
  <2>3. OpenReads' = OpenReads \ {n} /\ n \in OpenReads
    BY <1>1, <1>2
  <2> QED
    BY <2>1, <2>2, <2>3 DEF ReadStep, ReadContract!Next, ReadContract!Answer
<1>5. CASE Plain!Advance
  <2>1. LaterInv' /\ OpenReads' = OpenReads
    BY <1>1, <1>5 DEF Plain!Advance, LaterInv
  <2> QED
    BY <1>5, <2>1 DEF Plain!Advance, ReadStep, ReadContract!Next, ReadContract!Advance
<1>6. CASE Stutters
  <2>1. LaterInv' /\ OpenReads' = OpenReads
    BY <1>1, <1>6 DEF Stutters, LaterInv
  <2> QED
    BY <1>6, <2>1 DEF Stutters, ReadStep, ReadStutters
<1> QED
  BY <1>3, <1>4, <1>5, <1>6 DEF ContractStep, Plain!Next, Plain!AnswerCopy

(* A read whose result is known already. *)
LEMMA NewLater ==
  ASSUME SharedInv, LaterInv, UNCHANGED kind, NEW r, NewRequest(r),
         Accept(r), UNCHANGED <<queues, base>>,
         NEW res, InTimeResult(res), NEW bytes \in ByteSeq, InvokeLater(r, res, bytes)
  PROVE  SharedInv' /\ LaterInv' /\ ReadStep
<1>a. SharedType /\ KnownInv /\ ApartInv /\ CalledInv /\ AliveInv /\ TimeoutTasksCover
  BY DEF SharedInv
<1>b. SharedType
  BY <1>a
<1>c. KnownInv
  BY <1>a
<1>1. r.id = Len(deadlines) + 1 /\ r.timeout_end \in etime .. Never /\ r \in RequestType
  BY DEF NewRequest
<1>d. Len(deadlines) \in Nat
  BY <1>a DEF SharedType
<1>e. Len(deadlines') = Len(deadlines) + 1
  BY <1>b, <1>c, AcceptFacts
<1>2. /\ deadlines' \in Seq(0 .. Never)
      /\ \A S : Known(S) => \A o \in S : /\ o.id \in 1 .. Len(deadlines')
                                         /\ deadlines'[o.id] <= o.timeout_end
  BY <1>b, <1>c, AcceptFacts
<1>3. /\ deadlines' = Append(deadlines, r.timeout_end)
      /\ etime' = etime /\ alive' = alive /\ mode' = mode /\ called' = called
      /\ cancelled' = cancelled /\ result' = result /\ queues' = queues /\ base' = base
      /\ kind' = kind
  BY DEF Accept
<1>4. \A j \in Queues : Of(j)' = Of(j)
  BY <1>3 DEF Of
<1>5. SharedType'
  BY <1>a, <1>2, <1>3 DEF SharedType
<1>6. KnownInv'
  BY <1>a, <1>2, <1>3, <1>4 DEF KnownInv, Known
<1>7. ApartInv' /\ AliveInv'
  <2>1. ApartInv'
    BY <1>a, <1>3, <1>4 DEF ApartInv, OneEach, Apart
  <2>2. AliveInv'
    BY <1>a, <1>3, <1>4 DEF AliveInv
  <2> QED
    BY <2>1, <2>2
<1>8. CalledInv' /\ TimeoutTasksCover'
  BY <1>a, <1>3 DEF CalledInv, TimeoutTasksCover
<1>9. Open' = Open
  BY <1>3 DEF Open, IdsOf, Pending
<1> DEFINE n == Len(deadlines) + 1
<1>10. \A m \in 1 .. Len(deadlines) : m \in 1 .. Len(deadlines') /\ m # n
  BY <1>d, <1>e
<1>11. n \in 1 .. Len(deadlines') /\ n \notin Open
  BY <1>d, <1>e, OpenKnown
<1> DEFINE new == [read |-> r, res |-> res, bytes |-> bytes]
<1>12. later' = later \cup {new} /\ new.read.id = n /\ new.res = res /\ new.bytes = bytes
  BY <1>1 DEF InvokeLater
<1> HIDE DEF n, new
<1>13. \A c \in later : /\ c.read.id \in 1 .. Len(deadlines) /\ c.read.id \notin Open
                        /\ InTimeResult(c.res) /\ c.bytes \in ByteSeq
  BY DEF LaterInv
<1>14. \A c, d \in later : c.read.id = d.read.id => c = d
  BY DEF LaterInv
<1>15. \A c \in later : c.read.id \in 1 .. Len(deadlines') /\ c.read.id # n
  BY <1>10, <1>13
<1>16. LaterInv'
  <2>1. \A c \in later' : /\ c.read.id \in 1 .. Len(deadlines') /\ c.read.id \notin Open'
                          /\ InTimeResult(c.res) /\ c.bytes \in ByteSeq
    BY <1>9, <1>11, <1>12, <1>13, <1>15
  <2>2. \A c, d \in later' : c.read.id = d.read.id => c = d
    BY <1>12, <1>14, <1>15
  <2> QED
    BY <2>1, <2>2 DEF LaterInv
<1>17. OpenReads' = OpenReads \cup {n}
  <2>1. LaterIds' = {c.read.id : c \in later'} /\ LaterIds = {c.read.id : c \in later}
    BY DEF LaterIds
  <2>2. LaterIds' = LaterIds \cup {n}
    BY <1>12, <2>1
  <2> QED
    BY <1>9, <2>2, OpenReadsIs, OpenReadsNextIs
<1>18. r.timeout_end \in 0 .. Never /\ r.timeout_end >= etime
  <2>1. r.timeout_end \in 0 .. Never
    BY <1>1 DEF RequestType
  <2>2. etime \in Nat
    BY <1>a, NeverFacts DEF SharedType
  <2> QED
    BY <1>1, <2>1, <2>2, NeverFacts
<1>19. ReadStep
  BY <1>3, <1>17, <1>18 DEF n, ReadStep, ReadContract!Next, ReadContract!HandleRequest
<1> QED
  BY <1>5, <1>6, <1>7, <1>8, <1>16, <1>19 DEF SharedInv

(* The loop calls a handler with a result that was known. *)
LEMMA LaterCalled ==
  ASSUME SharedInv, LaterInv, UNCHANGED kind, CallLater
  PROVE  SharedInv' /\ LaterInv' /\ ReadStep
<1>a. SharedType /\ KnownInv /\ ApartInv /\ CalledInv /\ AliveInv /\ TimeoutTasksCover
  BY DEF SharedInv
<1> PICK c \in later :
      /\ mode = Idle /\ mode' = InLater /\ later' = later \ {c}
      /\ result' = [id |-> c.read.id, res |-> c.res]
      /\ UNCHANGED <<etime, deadlines, queues, base, alive, called, cancelled>>
  BY DEF CallLater
<1>1. /\ mode = Idle /\ mode' = InLater /\ later' = later \ {c}
      /\ result'.id = c.read.id /\ result'.res = c.res
      /\ etime' = etime /\ deadlines' = deadlines /\ queues' = queues /\ base' = base
      /\ alive' = alive /\ called' = called /\ cancelled' = cancelled /\ kind' = kind
  OBVIOUS
<1>2. c.read.id \in 1 .. Len(deadlines) /\ c.read.id \notin Open /\ InTimeResult(c.res)
  BY DEF LaterInv
<1>3. \A j \in Queues : Of(j)' = Of(j)
  BY <1>1 DEF Of
<1>4. SharedType'
  BY <1>a, <1>1, <1>2 DEF SharedType, Modes
<1>5. KnownInv' /\ ApartInv' /\ AliveInv'
  BY <1>a, <1>1, <1>3, FewerRequests
<1>6. CalledInv' /\ TimeoutTasksCover'
  BY <1>a, <1>1, ModesDiffer DEF CalledInv, TimeoutTasksCover
<1>7. Open' = Open
  BY <1>1 DEF Open, IdsOf, Pending
<1>8. LaterInv'
  BY <1>1, <1>7 DEF LaterInv
<1>9. c.read.id \in OpenReads /\ OpenReads' = OpenReads \ {c.read.id}
  <2>1. c.read.id \in LaterIds
    BY DEF LaterIds
  <2>2. LaterIds' = LaterIds \ {c.read.id}
    BY <1>1 DEF LaterIds, LaterInv
  <2> QED
    BY <1>2, <1>7, <2>1, <2>2, OpenReadsIs, OpenReadsNextIs
<1>10. ReadStep
  BY <1>1, <1>2, <1>9 DEF InTimeResult, ReadStep, ReadContract!Next, ReadContract!Answer
<1> QED
  BY <1>4, <1>5, <1>6, <1>8, <1>10 DEF SharedInv

(* A read that waited is answered with a result that is known by now. *)
LEMMA PulledLater ==
  ASSUME SharedInv, LaterInv, UNCHANGED kind, ResponseReturned, called = {}, NEW r \in Of(1),
         queues' = [queues EXCEPT ![1] = PullRequest(@, r)], UNCHANGED base,
         NEW res, InTimeResult(res), InvokeLater(r, res, <<>>)
  PROVE  SharedInv' /\ LaterInv' /\ ReadStep
<1>a. SharedType /\ KnownInv /\ ApartInv /\ CalledInv /\ AliveInv /\ TimeoutTasksCover
  BY DEF SharedInv
<1>1. /\ mode = InResponse /\ mode' = Idle /\ called = {} /\ called' = called
      /\ etime' = etime /\ deadlines' = deadlines /\ base' = base /\ alive' = alive
      /\ cancelled' = cancelled /\ kind' = kind /\ result' = result
      /\ later' = later \cup {[read |-> r, res |-> res, bytes |-> <<>>]}
  BY DEF ResponseReturned, InvokeLater
<1>2. /\ PullRequest(queues[1], r) \in QueueType
      /\ PullRequest(queues[1], r).requests = Of(1) \ {r}
      /\ PullRequest(queues[1], r).scheduled_timeout_task = Earliest(Of(1) \ {r})
  BY <1>a, FirstQueue, PullFacts DEF SharedType, Of
<1>3. /\ queues' \in [Queues -> QueueType]
      /\ Of(1)' = Of(1) \ {r}
      /\ \A j \in Queues : j # 1 => Of(j)' = Of(j) /\ queues[j]' = queues[j]
      /\ queues[1]'.scheduled_timeout_task = Earliest(Of(1)')
  BY <1>a, <1>2, FirstQueue DEF SharedType, Of
<1>4. SharedType'
  BY <1>a, <1>1, <1>3 DEF SharedType, Modes
<1>5. KnownInv' /\ ApartInv' /\ AliveInv'
  <2>1. \A j \in Queues : Of(j)' \subseteq Of(j)
    BY <1>3
  <2> QED
    BY <1>a, <1>1, <2>1, FewerRequests
<1>6. CalledInv'
  BY <1>1, ModesDiffer DEF CalledInv
<1>7. TimeoutTasksCover'
  BY <1>a, <1>1, <1>3, ModesDiffer DEF TimeoutTasksCover, Of
<1>8. InOne(r.id) /\ \A n : InOne(n)' <=> InOne(n) /\ n # r.id
  <2>1. /\ \A o \in base : o.id # r.id
        /\ \A o \in called : o.id # r.id
        /\ \A o \in cancelled : o.id # r.id
        /\ \A j \in Queues : j # 1 => \A o \in Of(j) : o.id # r.id
        /\ \A o \in Of(1) : o # r => o.id # r.id
    BY <1>a, FirstQueue DEF ApartInv, Apart, OneEach
  <2>2. \A o : o \in Of(1) /\ o # r <=> o \in Of(1)'
    BY <1>3
  <2>3. InOne(r.id)
    BY FirstQueue DEF InOne
  <2>4. ASSUME NEW n, InOne(n)' PROVE InOne(n) /\ n # r.id
    BY <1>1, <1>3, <2>1, <2>2, <2>4 DEF InOne
  <2>5. ASSUME NEW n, InOne(n), n # r.id PROVE InOne(n)'
    BY <1>1, <1>3, <2>1, <2>2, <2>5 DEF InOne
  <2> QED
    BY <2>3, <2>4, <2>5
<1>9. r.id \in Open /\ Open' = Open \ {r.id}
  BY <1>8, OpenIs, OpenNextIs
<1>10. r.id \in 1 .. Len(deadlines)
  BY <1>9, OpenKnown
<1>11. LaterInv'
  BY <1>1, <1>9, <1>10, EmptyBytes DEF LaterInv
<1>12. OpenReads' = OpenReads
  <2> DEFINE new == [read |-> r, res |-> res, bytes |-> <<>>]
  <2>a. later' = later \cup {new} /\ new.read.id = r.id
    BY <1>1
  <2> HIDE DEF new
  <2>1. LaterIds' = LaterIds \cup {r.id}
    BY <2>a DEF LaterIds
  <2> QED
    BY <1>9, <2>1, OpenReadsIs, OpenReadsNextIs
<1> QED
  BY <1>1, <1>4, <1>5, <1>6, <1>7, <1>11, <1>12 DEF SharedInv, ReadStep, ReadStutters

-----------------------------------------------------------------------------
(* The steps that readers share.                                           *)

LEMMA Shared ==
  ASSUME ReadersShared
  PROVE  /\ SharedInv /\ SharedType /\ KnownInv /\ ApartInv /\ CalledInv /\ AliveInv
         /\ TimeoutTasksCover /\ BytesType /\ LaterInv /\ kind \in ReaderKinds
  BY DEF ReadersShared, SharedInv

LEMMA NotGrouping == ASSUME ReadersShared PROVE kind # "grouping"
  BY DEF ReadersShared, ReaderKinds

(* The ids of requests are in the domain of the reads' fields. *)
LEMMA ReadIds ==
  ASSUME ReadersShared
  PROVE  /\ Len(deadlines) \in 0 .. MaxRequests
         /\ \A r \in base : r.id \in 1 .. MaxRequests /\ r.id \in 1 .. Len(deadlines)
         /\ \A r \in Of(1) : r.id \in 1 .. MaxRequests /\ r.id \in 1 .. Len(deadlines)
         /\ \A c \in later : c.read.id \in 1 .. MaxRequests /\ c.read.id \in 1 .. Len(deadlines)
<1>1. Len(deadlines) \in Nat /\ Len(deadlines) <= MaxRequests /\ MaxRequests \in Nat
  <2>1. Len(deadlines) \in Nat
    BY Shared DEF SharedType
  <2>2. Len(deadlines) <= MaxRequests
    BY Shared DEF BytesType
  <2> QED
    BY <2>1, <2>2, RequestHandlingAssumption
<1>2. \A n \in 1 .. Len(deadlines) : n \in 1 .. MaxRequests
  BY <1>1
<1>3. \A r \in base : r.id \in 1 .. Len(deadlines)
  BY Shared DEF KnownInv, Known
<1>4. \A r \in Of(1) : r.id \in 1 .. Len(deadlines)
  BY Shared, FirstQueue DEF KnownInv, Known
<1>5. \A c \in later : c.read.id \in 1 .. Len(deadlines)
  BY Shared DEF LaterInv
<1> QED
  BY <1>1, <1>2, <1>3, <1>4, <1>5

(* A new request has all of its time left. *)
LEMMA ForwardedNew ==
  ASSUME SharedType, NEW r, NewRequest(r)
  PROVE  Forwarded(r) = r
<1>1. r \in RequestType /\ r.timeout_end \in etime .. Never
  BY DEF NewRequest
<1>2. r.timeout_end \in 0 .. Never /\ etime \in 0 .. Never
  BY <1>1, NeverFacts DEF RequestType, SharedType
<1>3. SatAdd(etime, Remaining(r, etime), Never) = r.timeout_end
  BY <1>1, <1>2, NeverFacts DEF SatAdd, Remaining
<1> QED
  BY <1>1, <1>3 DEF Forwarded, RequestType

(* What is known of a call that a client makes. *)
LEMMA ReadMade ==
  ASSUME ReadersShared, NEW max_size \in Nat, NEW timeout \in 0 .. Never, Read(max_size, timeout)
  PROVE  LET r == Request(timeout) IN
         /\ NewRequest(r) /\ Accept(r) /\ Forwarded(r) = r
         /\ r.id = Len(deadlines) + 1 /\ r.id \in 1 .. MaxRequests
         /\ alive /\ Len(deadlines') = Len(deadlines) + 1 /\ Len(deadlines') <= MaxRequests
         /\ sizes' = [sizes EXCEPT ![r.id] = max_size]
         /\ sizes' \in [1 .. MaxRequests -> Nat]
         /\ UNCHANGED <<etime, alive, mode, called, cancelled, result, eols>>
<1> DEFINE r == Request(timeout)
<1>1. SharedType /\ BytesType
  BY Shared
<1>2. NewRequest(r) /\ r.id = Len(deadlines) + 1
  BY <1>1, RequestFacts DEF NewRequest
<1>3. Forwarded(r) = r
  BY <1>1, <1>2, ForwardedNew
<1>4. /\ Accept(r) /\ sizes' = [sizes EXCEPT ![r.id] = max_size] /\ eols' = eols
      /\ alive /\ Len(deadlines) < MaxRequests
      /\ deadlines' = Append(deadlines, r.timeout_end)
      /\ UNCHANGED <<etime, alive, mode, called, cancelled, result>>
  BY <1>2 DEF Read, Accept
<1> HIDE DEF r
<1>5. Len(deadlines) \in Nat /\ MaxRequests \in Nat
  BY <1>1, RequestHandlingAssumption DEF SharedType
<1>6. Len(deadlines') = Len(deadlines) + 1
  <2>1. r.timeout_end \in 0 .. Never
    BY <1>2 DEF NewRequest, RequestType
  <2> QED
    BY <1>1, <1>4, <2>1 DEF SharedType
<1>7. r.id \in 1 .. MaxRequests /\ Len(deadlines') <= MaxRequests
  BY <1>2, <1>4, <1>5, <1>6
<1>8. sizes' \in [1 .. MaxRequests -> Nat]
  BY <1>1, <1>4, <1>7 DEF BytesType
<1> QED
  BY <1>2, <1>3, <1>4, <1>6, <1>7, <1>8 DEF r

LEMMA ReadAtBase ==
  ASSUME ReadersShared, UNCHANGED kind, NEW max_size \in Nat, NEW timeout \in 0 .. Never,
         Read(max_size, timeout), NEW n \in Nat,
         base' = base \cup {Request(timeout)},
         asked' = [asked EXCEPT ![Request(timeout).id] = n],
         UNCHANGED <<queues, taken, later, delivered>>
  PROVE  ReadersShared' /\ ReadStep
<1> DEFINE r == Request(timeout)
<1>1. /\ NewRequest(r) /\ Accept(r) /\ r.id \in 1 .. MaxRequests
      /\ Len(deadlines') <= MaxRequests /\ sizes' \in [1 .. MaxRequests -> Nat]
  BY ReadMade
<1>2. SharedInv' /\ ContractStep
  BY <1>1, NewStep, Shared
<1>3. LaterInv' /\ ReadStep
  BY <1>2, SameLater, Shared
<1>4. asked' \in [1 .. MaxRequests -> Nat]
  BY <1>1, Shared DEF BytesType
<1>5. BytesType'
  BY <1>1, <1>4, Shared DEF BytesType
<1> QED
  BY <1>2, <1>3, <1>5 DEF ReadersShared

LEMMA ReadWaits ==
  ASSUME ReadersShared, UNCHANGED kind, NEW max_size \in Nat, NEW timeout \in 0 .. Never,
         Read(max_size, timeout), Enqueue(1, Request(timeout)),
         UNCHANGED <<base, asked, taken, later, delivered>>
  PROVE  ReadersShared' /\ ReadStep
<1> DEFINE r == Request(timeout)
<1>1. /\ NewRequest(r) /\ Accept(r) /\ r.id \in 1 .. MaxRequests
      /\ Len(deadlines') <= MaxRequests /\ sizes' \in [1 .. MaxRequests -> Nat]
  BY ReadMade
<1>2. SharedInv' /\ ContractStep
  BY <1>1, EnqueueStep, Shared, FirstQueue
<1>3. LaterInv' /\ ReadStep
  BY <1>2, SameLater, Shared
<1>5. BytesType'
  BY <1>1, Shared DEF BytesType
<1> QED
  BY <1>2, <1>3, <1>5 DEF ReadersShared

LEMMA ReadLater ==
  ASSUME ReadersShared, UNCHANGED kind, NEW max_size \in Nat, NEW timeout \in 0 .. Never,
         Read(max_size, timeout), NEW res, InTimeResult(res), NEW bytes \in ByteSeq,
         InvokeLater(Request(timeout), res, bytes), taken' \in 0 .. StreamLen,
         UNCHANGED <<queues, base, asked, delivered>>
  PROVE  ReadersShared' /\ ReadStep
<1> DEFINE r == Request(timeout)
<1>1. /\ NewRequest(r) /\ Accept(r) /\ r.id \in 1 .. MaxRequests
      /\ Len(deadlines') <= MaxRequests /\ sizes' \in [1 .. MaxRequests -> Nat]
  BY ReadMade
<1>2. SharedInv' /\ LaterInv' /\ ReadStep
  BY <1>1, NewLater, Shared
<1>3. BytesType'
  BY <1>1, Shared DEF BytesType
<1> QED
  BY <1>2, <1>3 DEF ReadersShared

(* What the base reader may answer: the next bytes of the stream.          *)
Follows(n, s) == \A i \in 1 .. Len(s) : s[i] = n + i

LEMMA ResultFacts ==
  ASSUME ReadersShared, NEW r \in base, NEW n \in Nat, NEW b \in BaseResults(r, n)
  PROVE  /\ b.bytes \in ByteSeq /\ Len(b.bytes) \in 0 .. n
         /\ taken + Len(b.bytes) \in 0 .. StreamLen
         /\ Follows(taken, b.bytes)
         /\ b.res = "timed out" => r.timeout_end <= etime
         /\ b.res # "ok" => b.bytes = <<>>
         /\ b.res = "ok" /\ n > 0 /\ b.bytes = <<>> => taken = StreamLen
<1>1. taken \in 0 .. StreamLen /\ StreamLen \in Nat
  BY Shared, BytesReadingAssumption DEF BytesType
<1>2. taken \in Nat /\ StreamLen - taken \in Nat
  BY <1>1
<1>3. ASSUME NEW k \in IF n = 0 \/ taken = StreamLen THEN {0} ELSE 1 .. Min2(n, StreamLen - taken),
             b = [res |-> "ok", bytes |-> Span(taken + 1, taken + k)]
      PROVE  b.bytes = Span(taken + 1, taken + k) /\ b.res = "ok"
             /\ k \in 0 .. n /\ taken + k \in 0 .. StreamLen
             /\ (n > 0 /\ k = 0 => taken = StreamLen)
  <2>1. b.bytes = Span(taken + 1, taken + k) /\ b.res = "ok"
    BY <1>3
  <2>2. Min2(n, StreamLen - taken) \in Nat /\ Min2(n, StreamLen - taken) <= n
        /\ Min2(n, StreamLen - taken) <= StreamLen - taken
    BY <1>2, Min2Facts
  <2>3. k \in 0 .. n /\ taken + k \in 0 .. StreamLen /\ (n > 0 /\ k = 0 => taken = StreamLen)
    BY <1>1, <1>2, <1>3, <2>2
  <2> QED
    BY <2>1, <2>3
<1>4. ASSUME b.res = "ok", NEW k \in 0 .. n, b.bytes = Span(taken + 1, taken + k),
             taken + k \in 0 .. StreamLen, n > 0 /\ k = 0 => taken = StreamLen
      PROVE  /\ b.bytes \in ByteSeq /\ Len(b.bytes) \in 0 .. n
             /\ taken + Len(b.bytes) \in 0 .. StreamLen
             /\ Follows(taken, b.bytes)
             /\ n > 0 /\ b.bytes = <<>> => taken = StreamLen
  <2>1. taken + 1 \in Nat /\ taken + k \in Nat /\ taken + 1 <= (taken + k) + 1
        /\ ((taken + k) - (taken + 1)) + 1 = k
    BY <1>2
  <2> DEFINE s == Span(taken + 1, taken + k)
  <2>a. /\ s \in ByteSeq /\ Len(s) = ((taken + k) - (taken + 1)) + 1
        /\ \A i \in 1 .. ((taken + k) - (taken + 1)) + 1 : s[i] = ((taken + 1) + i) - 1
    BY <2>1, SpanFacts
  <2> HIDE DEF s
  <2>2. /\ b.bytes \in ByteSeq /\ Len(b.bytes) = k
        /\ \A i \in 1 .. k : b.bytes[i] = ((taken + 1) + i) - 1
    BY <1>4, <2>1, <2>a DEF s
  <2>3. \A i \in 1 .. k : b.bytes[i] = taken + i
    BY <1>2, <2>2
  <2>4. b.bytes = <<>> => k = 0
    BY <2>2, EmptyBytes
  <2> QED
    BY <1>4, <2>2, <2>3, <2>4 DEF Follows
<1>5. ASSUME b.bytes = <<>>
      PROVE  /\ b.bytes \in ByteSeq /\ Len(b.bytes) \in 0 .. n
             /\ taken + Len(b.bytes) \in 0 .. StreamLen /\ Follows(taken, b.bytes)
  BY <1>1, <1>2, <1>5, EmptyBytes DEF Follows
<1>6. ASSUME NEW t \in {r.timeout_end} \cap 0 .. etime PROVE r.timeout_end <= etime
  BY <1>6, Shared, NeverFacts DEF SharedType
<1>7. \/ \E k \in IF n = 0 \/ taken = StreamLen THEN {0} ELSE 1 .. Min2(n, StreamLen - taken) :
           b = [res |-> "ok", bytes |-> Span(taken + 1, taken + k)]
      \/ b = [res |-> "error", bytes |-> <<>>]
      \/ \E t \in {r.timeout_end} \cap 0 .. etime : b = [res |-> "timed out", bytes |-> <<>>]
  BY Zenon DEF BaseResults
<1>8. CASE \E k \in IF n = 0 \/ taken = StreamLen THEN {0} ELSE 1 .. Min2(n, StreamLen - taken) :
           b = [res |-> "ok", bytes |-> Span(taken + 1, taken + k)]
  BY <1>3, <1>4, <1>8
<1>9. CASE b = [res |-> "error", bytes |-> <<>>]
  BY <1>5, <1>9
<1>10. CASE \E t \in {r.timeout_end} \cap 0 .. etime : b = [res |-> "timed out", bytes |-> <<>>]
  <2>1. r.timeout_end <= etime
    BY <1>6, <1>10
  <2>a. PICK t \in {r.timeout_end} \cap 0 .. etime : b = [res |-> "timed out", bytes |-> <<>>]
    BY <1>10
  <2>b. b.bytes = <<>> /\ b.res = "timed out"
    BY <2>a
  <2>2. b.bytes = <<>> /\ b.res = "timed out" /\ b.res # "ok"
    BY <2>b
  <2>3. ~(b.res = "ok" /\ n > 0 /\ b.bytes = <<>>)
    BY <2>2
  <2> QED
    BY <1>5, <2>1, <2>2, <2>3, Zenon
<1> QED
  BY <1>7, <1>8, <1>9, <1>10

LEMMA ResultIsRecord ==
  ASSUME NEW r, NEW n, NEW b \in BaseResults(r, n), NEW bytes
  PROVE  [b EXCEPT !.bytes = bytes].bytes = bytes
<1>1. \/ \E k \in IF n = 0 \/ taken = StreamLen THEN {0} ELSE 1 .. Min2(n, StreamLen - taken) :
           b = [res |-> "ok", bytes |-> Span(taken + 1, taken + k)]
      \/ b = [res |-> "error", bytes |-> <<>>]
      \/ \E t \in {r.timeout_end} \cap 0 .. etime : b = [res |-> "timed out", bytes |-> <<>>]
  BY Zenon DEF BaseResults
<1>2. \E res, s : b = [res |-> res, bytes |-> s]
  BY <1>1, Zenon
<1> QED
  BY <1>2

LEMMA AnswerBytesIs ==
  ASSUME NEW r, NEW b, NEW a, AnswerBytes(r, b, a)
  PROVE  /\ mode = Idle /\ mode' = InResponse /\ base' = base \ {r}
         /\ taken' = taken + Len(b.bytes) /\ delivered' = delivered \o a.bytes
         /\ sizes' = [sizes EXCEPT ![r.id] = 0] /\ asked' = [asked EXCEPT ![r.id] = 0]
         /\ UNCHANGED <<etime, deadlines, queues, alive, called, cancelled, later, eols>>
  BY DEF AnswerBytes, Answer

LEMMA AnswerBytesStep ==
  ASSUME ReadersShared, UNCHANGED kind, NEW r \in base, NEW b, NEW a,
         b.bytes \in ByteSeq, taken + Len(b.bytes) \in 0 .. StreamLen, a.bytes \in ByteSeq,
         AnswerBytes(r, b, a)
  PROVE  ReadersShared' /\ ReadStep
<1>1. SharedInv' /\ ContractStep
  BY AnswerStep, Shared DEF AnswerBytes
<1>2. LaterInv' /\ ReadStep
  BY <1>1, SameLater, Shared, AnswerBytesIs
<1>3. r.id \in 1 .. MaxRequests
  BY ReadIds
<1>a. /\ taken' = taken + Len(b.bytes) /\ delivered' = delivered \o a.bytes
      /\ sizes' = [sizes EXCEPT ![r.id] = 0] /\ asked' = [asked EXCEPT ![r.id] = 0]
      /\ deadlines' = deadlines
  BY AnswerBytesIs
<1>b. BytesType
  BY Shared
<1>4. sizes' \in [1 .. MaxRequests -> Nat] /\ asked' \in [1 .. MaxRequests -> Nat]
  BY <1>3, <1>a, <1>b DEF BytesType
<1>5. delivered' \in ByteSeq
  BY <1>a, <1>b, ConcatFacts DEF BytesType
<1>6. BytesType'
  BY <1>4, <1>5, <1>a, <1>b DEF BytesType
<1> QED
  BY <1>1, <1>2, <1>6 DEF ReadersShared

LEMMA CallLaterIs ==
  ASSUME CallLater
  PROVE  \E c \in later :
           /\ mode = Idle /\ mode' = InLater /\ later' = later \ {c}
           /\ result' = [id |-> c.read.id, res |-> c.res]
           /\ delivered' = delivered \o c.bytes
           /\ sizes' = [sizes EXCEPT ![c.read.id] = 0]
           /\ UNCHANGED <<etime, deadlines, queues, base, alive, called, cancelled,
                          asked, taken, reader, eols>>
  BY DEF CallLater

LEMMA CallLaterStep ==
  ASSUME ReadersShared, UNCHANGED kind, CallLater
  PROVE  ReadersShared' /\ ReadStep
<1>1. SharedInv' /\ LaterInv' /\ ReadStep
  BY LaterCalled, Shared
<1> PICK c \in later : /\ delivered' = delivered \o c.bytes
                       /\ sizes' = [sizes EXCEPT ![c.read.id] = 0]
                       /\ UNCHANGED <<deadlines, asked, taken>>
  BY DEF CallLater
<1>2. c.read.id \in 1 .. MaxRequests
  BY ReadIds
<1>3. sizes' \in [1 .. MaxRequests -> Nat]
  BY <1>2, Shared DEF BytesType
<1>4. delivered' \in ByteSeq
  BY Shared, ConcatFacts DEF BytesType, LaterInv
<1>5. BytesType'
  BY <1>3, <1>4, Shared DEF BytesType
<1> QED
  BY <1>1, <1>5 DEF ReadersShared

(* A step in which no read is made or ends for the decorator. *)
LEMMA SameBytesStep ==
  ASSUME ReadersShared, UNCHANGED kind, UNCHANGED <<sizes, asked, taken, later, delivered>>,
         UNCHANGED deadlines, SharedInv', ContractStep
  PROVE  ReadersShared' /\ ReadStep
<1>1. LaterInv' /\ ReadStep
  BY SameLater, Shared
<1>2. BytesType'
  BY Shared DEF BytesType
<1> QED
  BY <1>1, <1>2 DEF ReadersShared

LEMMA HandlerReturnsStep ==
  ASSUME ReadersShared, UNCHANGED kind, HandlerReturns
  PROVE  ReadersShared' /\ ReadStep
<1>1. ResponseReturned /\ UNCHANGED <<queues, base>>
  BY DEF HandlerReturns, ResponseReturned
<1>2. SharedInv' /\ ContractStep
  BY <1>1, ReturnStep, Shared, NotGrouping
<1> QED
  BY <1>2, SameBytesStep DEF HandlerReturns, bytes_vars

LEMMA LoopTaskStep ==
  ASSUME ReadersShared, UNCHANGED kind, UNCHANGED bytes_vars,
         QueueTask \/ Destroy \/ Advance \/ UNCHANGED shared_vars
  PROVE  ReadersShared' /\ ReadStep
<1>1. SharedInv' /\ ContractStep
  BY Shared, QueueTaskStep, DestroyStep, AdvanceStep, OwnStep
<1>2. UNCHANGED deadlines
  BY DEF QueueTask, TimeoutTask, CancelTask, NextHandler, QueueTaskReturns, Destroy, Advance,
         shared_vars
<1> QED
  BY <1>1, <1>2, SameBytesStep DEF bytes_vars

(* What these tasks do to the reads that are with the base reader. *)
LEMMA LoopTaskIs ==
  ASSUME ReadersShared,
         QueueTask \/ Destroy \/ Advance \/ UNCHANGED shared_vars
  PROVE  /\ UNCHANGED <<base, deadlines>>
         /\ alive' => alive
         /\ \/ UNCHANGED mode
            \/ mode # InResponse /\ mode' # InResponse
<1>1. CASE QueueTask
  <2>1. UNCHANGED <<base, alive, deadlines>>
    BY <1>1 DEF QueueTask, TimeoutTask, CancelTask, NextHandler, QueueTaskReturns
  <2>2. ASSUME NEW i \in Queues, TimeoutTask(i) PROVE mode # InResponse /\ mode' # InResponse
    BY <2>2, ModesDiffer DEF TimeoutTask, CallFirst
  <2>3. CASE CancelTask
    BY <2>3, ModesDiffer DEF CancelTask, CallFirst
  <2>4. CASE NextHandler
    BY <2>4 DEF NextHandler, CallFirst
  <2>5. CASE QueueTaskReturns
    BY <2>5, ModesDiffer DEF QueueTaskReturns
  <2> QED
    BY <1>1, <2>1, <2>2, <2>3, <2>4, <2>5 DEF QueueTask
<1>2. CASE Destroy
  BY <1>2 DEF Destroy
<1>3. CASE Advance
  BY <1>3 DEF Advance
<1>4. CASE UNCHANGED shared_vars
  BY <1>4 DEF shared_vars
<1> QED
  BY <1>1, <1>2, <1>3, <1>4

-----------------------------------------------------------------------------
(* size_limited_bytes_reader: while clients hold it, remaining_size_limit is *)
(* what is left of the limit, but for the bytes that a response handler is   *)
(* given just now, and read_ongoing tells of the one read at the base.       *)

Accounted ==
  /\ reader.read_ongoing <=> base # {} \/ mode = InResponse
  /\ reader.read_ongoing => reader.remaining_size_limit > 0
  /\ mode # InResponse => reader.remaining_size_limit = total_size_limit - taken
  /\ mode = InResponse =>
       reader.remaining_size_limit - reader.read_bytes_count = total_size_limit - taken

SizeLimitedInv ==
  /\ reader \in [remaining_size_limit : Nat, read_ongoing : BOOLEAN, read_bytes_count : Nat]
  /\ \A c \in later : c.bytes = <<>>
  /\ Len(delivered) = taken /\ Follows(0, delivered)
  /\ \A r, o \in base : r = o
  /\ mode = InResponse => base = {}
  /\ taken <= total_size_limit
  /\ \A r \in base : taken + asked[r.id] <= total_size_limit
  /\ alive => Accounted
  /\ TooLargeOnlyAtLimit

(* Bytes that follow those that were delivered. *)
LEMMA DeliveredFollows ==
  ASSUME NEW s \in ByteSeq, NEW t \in ByteSeq, NEW n \in Nat, Follows(n, s), Follows(n + Len(s), t)
  PROVE  Follows(n, s \o t)
<1>1. Len(s) \in Nat /\ Len(t) \in Nat /\ Len(s \o t) = Len(s) + Len(t)
  BY ConcatFacts
<1>2. ASSUME NEW i \in 1 .. Len(s \o t) PROVE (s \o t)[i] = n + i
  <2>1. CASE i <= Len(s)
    BY <1>1, <2>1, ConcatFacts DEF Follows
  <2>2. CASE i > Len(s)
    <3>1. i - Len(s) \in 1 .. Len(t)
      BY <1>1, <2>2
    <3>2. (s \o t)[i] = t[i - Len(s)]
      BY <2>2, ConcatFacts
    <3>3. t[i - Len(s)] = (n + Len(s)) + (i - Len(s))
      BY <3>1 DEF Follows
    <3> QED
      BY <1>1, <3>2, <3>3
  <2> QED
    BY <1>1, <2>1, <2>2
<1> QED
  BY <1>2 DEF Follows

LEMMA SizeLimitedReads ==
  ASSUME ReadersShared, SizeLimitedInv, UNCHANGED kind, NEW max_size \in Nat,
         NEW timeout \in 0 .. Never, SizeLimitedReadSomeBytes(max_size, timeout)
  PROVE  ReadersShared' /\ ReadStep /\ SizeLimitedInv'
<1> DEFINE r == Request(timeout)
<1>a. /\ Read(max_size, timeout) /\ taken' = taken /\ delivered' = delivered
      /\ \/ /\ max_size = 0
            /\ InvokeLater(r, "ok", <<>>)
            /\ UNCHANGED <<queues, base, asked, reader>>
         \/ /\ max_size > 0 /\ ~(reader.read_ongoing /\ reader.remaining_size_limit > 0)
            /\ StartRead(r, max_size, reader)
            /\ UNCHANGED queues
         \/ /\ max_size > 0 /\ (reader.read_ongoing /\ reader.remaining_size_limit > 0)
            /\ Enqueue(1, r)
            /\ UNCHANGED <<base, asked, later, reader>>
  BY DEF SizeLimitedReadSomeBytes
<1>b. /\ NewRequest(r) /\ Forwarded(r) = r /\ r.id \in 1 .. MaxRequests
      /\ alive /\ alive' = alive /\ mode' = mode
  BY <1>a, ReadMade
<1>c. taken' \in 0 .. StreamLen /\ taken \in Nat
  BY <1>a, Shared, BytesReadingAssumption DEF BytesType
<1>d. InTimeResult("ok") /\ InTimeResult("too large")
  BY DEF InTimeResult
<1>e. asked \in [1 .. MaxRequests -> Nat]
  BY Shared DEF BytesType
<1> HIDE DEF r
<1>1. ASSUME NEW res, later' = later \cup {[read |-> r, res |-> res, bytes |-> <<>>]},
             UNCHANGED <<base, asked, reader>>,
             res = "too large" => taken = total_size_limit
      PROVE  SizeLimitedInv'
  <2> DEFINE new == [read |-> r, res |-> res, bytes |-> <<>>]
  <2>1. later' = later \cup {new} /\ new.bytes = <<>> /\ new.res = res
    BY <1>1
  <2> HIDE DEF new
  <2>2. \A c \in later' : c.bytes = <<>>
    BY <2>1 DEF SizeLimitedInv
  <2>3. TooLargeOnlyAtLimit'
    BY <1>1, <1>a, <2>1 DEF SizeLimitedInv, TooLargeOnlyAtLimit
  <2>4. Accounted => Accounted'
    BY <1>1, <1>a, <1>b DEF Accounted
  <2> QED
    BY <1>1, <1>a, <1>b, <2>2, <2>3, <2>4 DEF SizeLimitedInv
<1>2. CASE max_size = 0 /\ InvokeLater(r, "ok", <<>>) /\ UNCHANGED <<queues, base, asked, reader>>
  <2>1. ReadersShared' /\ ReadStep
    BY <1>2, <1>a, <1>c, <1>d, ReadLater, EmptyBytes DEF r
  <2>2. /\ later' = later \cup {[read |-> r, res |-> "ok", bytes |-> <<>>]}
        /\ UNCHANGED <<base, asked, reader>>
    BY <1>2 DEF InvokeLater
  <2>3. "ok" = "too large" => taken = total_size_limit
    OBVIOUS
  <2>4. SizeLimitedInv'
    BY <1>1, <2>2, <2>3
  <2> QED
    BY <2>1, <2>4
<1>3. CASE /\ max_size > 0 /\ ~(reader.read_ongoing /\ reader.remaining_size_limit > 0)
           /\ StartRead(r, max_size, reader) /\ UNCHANGED queues
  <2>0. /\ Accounted /\ reader.remaining_size_limit \in Nat /\ ~reader.read_ongoing
        /\ base = {} /\ mode # InResponse
        /\ reader.remaining_size_limit = total_size_limit - taken
    BY <1>3, <1>b DEF SizeLimitedInv, Accounted
  <2>1. CASE /\ reader.remaining_size_limit = 0 /\ InvokeLater(r, "too large", <<>>)
             /\ reader' = reader /\ UNCHANGED <<base, asked>>
    <3>1. ReadersShared' /\ ReadStep
      BY <1>3, <2>1, <1>a, <1>c, <1>d, ReadLater, EmptyBytes DEF r
    <3>a. reader.remaining_size_limit = 0
      BY <2>1
    <3>b. reader.remaining_size_limit = total_size_limit - taken
      BY <2>0
    <3>2. taken = total_size_limit
      BY <3>a, <3>b, <1>c, SizeLimitedAssumption
    <3>3. SizeLimitedInv'
      BY <1>1, <2>1, <3>2 DEF InvokeLater
    <3> QED
      BY <3>1, <3>3
  <2>2. CASE /\ reader.remaining_size_limit > 0
             /\ ReadFromBase(r, Min2(max_size, reader.remaining_size_limit))
             /\ reader' = [reader EXCEPT !.read_ongoing = TRUE] /\ UNCHANGED later
    <3> DEFINE n == Min2(max_size, reader.remaining_size_limit)
    <3>1. n \in Nat /\ n <= reader.remaining_size_limit
      BY <2>0, Min2Facts
    <3>2. base' = base \cup {r} /\ asked' = [asked EXCEPT ![r.id] = n] /\ later' = later
      BY <2>2, <1>b DEF ReadFromBase
    <3> HIDE DEF n
    <3>3. ReadersShared' /\ ReadStep
      BY <3>1, <3>2, <1>3, <1>a, ReadAtBase DEF r
    <3>4. base' = {r} /\ asked'[r.id] = n
      BY <2>0, <3>2, <1>b, <1>e
    <3>5. taken + n <= total_size_limit
      BY <2>0, <3>1, <1>c, SizeLimitedAssumption
    <3>6. /\ reader' \in [remaining_size_limit : Nat, read_ongoing : BOOLEAN, read_bytes_count : Nat]
          /\ reader'.read_ongoing = TRUE
          /\ reader'.remaining_size_limit = reader.remaining_size_limit
      BY <2>2 DEF SizeLimitedInv
    <3>7. Accounted'
      BY <2>0, <2>2, <3>4, <3>6, <1>a, <1>b DEF Accounted
    <3>8. SizeLimitedInv'
      BY <3>2, <3>4, <3>5, <3>6, <3>7, <2>0, <1>a, <1>b DEF SizeLimitedInv, TooLargeOnlyAtLimit
    <3> QED
      BY <3>3, <3>8
  <2> QED
    BY <1>3, <2>1, <2>2 DEF StartRead
<1>4. CASE /\ max_size > 0 /\ Enqueue(1, r) /\ UNCHANGED <<base, asked, later, reader>>
  <2>1. ReadersShared' /\ ReadStep
    BY <1>4, <1>a, ReadWaits DEF r
  <2>2. Accounted => Accounted'
    BY <1>4, <1>a, <1>b DEF Accounted
  <2>3. SizeLimitedInv'
    BY <1>4, <1>a, <1>b, <2>2 DEF SizeLimitedInv, TooLargeOnlyAtLimit
  <2> QED
    BY <2>1, <2>3
<1> QED
  BY <1>a, <1>2, <1>3, <1>4

LEMMA SizeLimitedAnswers ==
  ASSUME ReadersShared, SizeLimitedInv, UNCHANGED kind, SizeLimitedSomeAnswer
  PROVE  ReadersShared' /\ ReadStep /\ SizeLimitedInv'
<1>1. PICK r \in base : \E b \in BaseResults(r, asked[r.id]) : SizeLimitedBaseAnswers(r, b)
  BY DEF SizeLimitedSomeAnswer
<1>2. PICK b \in BaseResults(r, asked[r.id]) : SizeLimitedBaseAnswers(r, b)
  BY <1>1
<1>3. AnswerBytes(r, b, b) /\ reader' = [reader EXCEPT !.read_bytes_count = Len(b.bytes)]
  BY <1>2 DEF SizeLimitedBaseAnswers
<1>4. asked[r.id] \in Nat
  BY ReadIds, Shared DEF BytesType
<1>5. /\ b.bytes \in ByteSeq /\ Len(b.bytes) \in 0 .. asked[r.id]
      /\ taken + Len(b.bytes) \in 0 .. StreamLen /\ Follows(taken, b.bytes)
  BY <1>4, ResultFacts
<1>6. ReadersShared' /\ ReadStep
  BY <1>3, <1>5, AnswerBytesStep
<1>7. /\ mode = Idle /\ mode' = InResponse /\ base' = base \ {r}
      /\ taken' = taken + Len(b.bytes) /\ delivered' = delivered \o b.bytes
      /\ alive' = alive /\ later' = later
  BY <1>3, AnswerBytesIs
<1>8. base' = {}
  BY <1>7 DEF SizeLimitedInv
<1>9. delivered \in ByteSeq /\ taken \in Nat /\ total_size_limit \in Nat
  BY Shared, BytesReadingAssumption, SizeLimitedAssumption DEF BytesType
<1>10. Len(delivered') = taken' /\ Follows(0, delivered')
  <2>1. Len(delivered) = taken /\ Follows(0, delivered) /\ 0 + Len(delivered) = taken
    BY <1>9 DEF SizeLimitedInv
  <2>2. Follows(0 + Len(delivered), b.bytes)
    BY <1>5, <2>1
  <2>3. Follows(0, delivered \o b.bytes)
    BY <1>5, <1>9, <2>1, <2>2, DeliveredFollows
  <2>4. Len(delivered \o b.bytes) = Len(delivered) + Len(b.bytes)
    BY <1>5, <1>9, ConcatFacts
  <2> QED
    BY <1>7, <2>1, <2>3, <2>4
<1>11. taken + asked[r.id] <= total_size_limit
  BY DEF SizeLimitedInv
<1>12. taken' <= total_size_limit
  BY <1>4, <1>5, <1>7, <1>9, <1>11
<1> DEFINE n == Len(b.bytes)
<1>13. n \in Nat
  BY <1>4, <1>5
<1>14. taken' = taken + n
  BY <1>7
<1>a. reader' = [reader EXCEPT !.read_bytes_count = n]
  BY <1>3
<1> HIDE DEF n
<1>15. /\ reader' \in [remaining_size_limit : Nat, read_ongoing : BOOLEAN, read_bytes_count : Nat]
       /\ reader'.read_ongoing = reader.read_ongoing
       /\ reader'.remaining_size_limit = reader.remaining_size_limit
       /\ reader'.read_bytes_count = n
       /\ reader.remaining_size_limit \in Nat
  BY <1>13, <1>a DEF SizeLimitedInv
<1>16. ASSUME Accounted PROVE Accounted'
  <2>1. /\ base # {} /\ mode # InResponse
        /\ reader.read_ongoing /\ reader.remaining_size_limit > 0
        /\ reader.remaining_size_limit = total_size_limit - taken
    BY <1>7, <1>16, ModesDiffer DEF Accounted
  <2>2. reader.remaining_size_limit - n = total_size_limit - taken'
    BY <1>9, <1>13, <1>14, <1>15, <2>1
  <2> QED
    BY <1>7, <1>15, <2>1, <2>2 DEF Accounted
<1>17. TooLargeOnlyAtLimit'
  <2>1. ASSUME \E c \in later : c.res = "too large" PROVE taken' = total_size_limit
    <3>1. taken = total_size_limit
      BY <2>1 DEF SizeLimitedInv, TooLargeOnlyAtLimit
    <3>2. n = 0
      BY <3>1, <1>4, <1>5, <1>9, <1>11 DEF n
    <3> QED
      BY <3>1, <3>2, <1>9, <1>14
  <2> QED
    BY <1>7, <2>1 DEF TooLargeOnlyAtLimit
<1>18. /\ \A c \in later' : c.bytes = <<>>
       /\ alive' => Accounted'
  BY <1>7, <1>16 DEF SizeLimitedInv
<1> QED
  BY <1>6, <1>8, <1>10, <1>12, <1>15, <1>17, <1>18 DEF SizeLimitedInv

(* What the reader does once the response handler has returned. *)
LEMMA SizeLimitedReturns ==
  ASSUME ReadersShared, SizeLimitedInv, UNCHANGED kind, SizeLimitedResponseReturns
  PROVE  ReadersShared' /\ ReadStep /\ SizeLimitedInv'
<1>1. /\ mode = InResponse /\ mode' = Idle
      /\ etime' = etime /\ deadlines' = deadlines /\ alive' = alive /\ called' = called
      /\ cancelled' = cancelled /\ result' = result /\ sizes' = sizes /\ taken' = taken
      /\ delivered' = delivered /\ eols' = eols
  BY DEF SizeLimitedResponseReturns
<1>2. /\ ResponseReturned /\ called = {} /\ base = {}
  <2>1. ResponseReturned
    BY <1>1 DEF ResponseReturned
  <2>2. called = {}
    BY <1>1, Shared, NotGrouping DEF CalledInv
  <2> QED
    BY <1>1, <2>1, <2>2 DEF SizeLimitedInv
<1>3. /\ sizes \in [1 .. MaxRequests -> Nat] /\ asked \in [1 .. MaxRequests -> Nat]
      /\ taken \in Nat /\ total_size_limit \in Nat
  BY Shared, BytesReadingAssumption, SizeLimitedAssumption DEF BytesType
<1> DEFINE f == AfterRead
<1>4. ASSUME alive
      PROVE  /\ f \in [remaining_size_limit : Nat, read_ongoing : BOOLEAN, read_bytes_count : Nat]
             /\ ~f.read_ongoing /\ f.remaining_size_limit = total_size_limit - taken
  <2> DEFINE n == reader.remaining_size_limit - reader.read_bytes_count
  <2>1. reader \in [remaining_size_limit : Nat, read_ongoing : BOOLEAN, read_bytes_count : Nat]
    BY DEF SizeLimitedInv
  <2>2. n = total_size_limit - taken
    BY <1>1, <1>4 DEF SizeLimitedInv, Accounted
  <2>3. taken <= total_size_limit
    BY DEF SizeLimitedInv
  <2>4. n \in Nat
    BY <1>3, <2>2, <2>3
  <2>5. f = [reader EXCEPT !.read_ongoing = FALSE, !.remaining_size_limit = n]
    BY DEF AfterRead
  <2> HIDE DEF f, n
  <2> QED
    BY <2>1, <2>2, <2>4, <2>5
<1> HIDE DEF f
<1>5. CASE UNCHANGED <<queues, base, asked, later>> /\ reader' = (IF alive THEN f ELSE reader)
  <2>1. SharedInv' /\ ContractStep
    BY <1>2, <1>5, ReturnStep, Shared, NotGrouping
  <2>2. ReadersShared' /\ ReadStep
    BY <1>1, <1>5, <2>1, SameBytesStep
  <2>3. alive => Accounted'
    BY <1>1, <1>2, <1>4, <1>5, ModesDiffer DEF Accounted
  <2>4. SizeLimitedInv'
    BY <1>1, <1>2, <1>4, <1>5, <2>3 DEF SizeLimitedInv, TooLargeOnlyAtLimit
  <2> QED
    BY <2>2, <2>4
<1>6. ASSUME alive, NEW r \in Of(1), IsFirst(r, Of(1)),
             queues' = [queues EXCEPT ![1] = PullRequest(@, r)], StartRead(r, sizes[r.id], f)
      PROVE  ReadersShared' /\ ReadStep /\ SizeLimitedInv'
  <2>1. r.id \in 1 .. MaxRequests /\ sizes[r.id] \in Nat
    BY <1>3, ReadIds
  <2>2. CASE /\ f.remaining_size_limit = 0 /\ InvokeLater(r, "too large", <<>>)
             /\ reader' = f /\ UNCHANGED <<base, asked>>
    <3>1. InTimeResult("too large")
      BY DEF InTimeResult
    <3>2. SharedInv' /\ LaterInv' /\ ReadStep
      BY <1>2, <1>6, <2>2, <3>1, PulledLater, Shared
    <3>3. BytesType'
      BY <1>1, <2>2, Shared DEF BytesType
    <3>4. f.remaining_size_limit = 0 /\ reader' = f /\ base' = base /\ asked' = asked
      BY <2>2
    <3>5. taken = total_size_limit
      BY <1>3, <1>4, <1>6, <3>4
    <3> DEFINE new == [read |-> r, res |-> "too large", bytes |-> <<>>]
    <3>6. later' = later \cup {new} /\ new.bytes = <<>>
      BY <2>2 DEF InvokeLater
    <3> HIDE DEF new
    <3>7. \A c \in later' : c.bytes = <<>>
      BY <3>6 DEF SizeLimitedInv
    <3>8. Accounted'
      BY <1>1, <1>2, <1>4, <1>6, <3>4, ModesDiffer DEF Accounted
    <3>9. SizeLimitedInv'
      BY <1>1, <1>2, <1>4, <1>6, <3>4, <3>5, <3>7, <3>8 DEF SizeLimitedInv, TooLargeOnlyAtLimit
    <3> QED
      BY <3>2, <3>3, <3>9 DEF ReadersShared
  <2>3. CASE /\ f.remaining_size_limit > 0
             /\ ReadFromBase(r, Min2(sizes[r.id], f.remaining_size_limit))
             /\ reader' = [f EXCEPT !.read_ongoing = TRUE] /\ UNCHANGED later
    <3> DEFINE n == Min2(sizes[r.id], f.remaining_size_limit)
    <3>1. n \in Nat /\ n <= f.remaining_size_limit
      BY <1>4, <1>6, <2>1, Min2Facts
    <3>2. base' = base \cup {Forwarded(r)} /\ asked' = [asked EXCEPT ![r.id] = n] /\ later' = later
      BY <2>3 DEF ReadFromBase
    <3> HIDE DEF n
    <3>3. ForwardNext(1)
      BY <1>6, <3>2 DEF ForwardNext, Of
    <3>4. SharedInv' /\ ContractStep
      BY <1>2, <3>3, FirstQueue, ForwardStep, Shared
    <3>5. LaterInv' /\ ReadStep
      BY <3>2, <3>4, SameLater, Shared
    <3>6. BytesType'
      BY <1>1, <1>3, <2>1, <3>1, <3>2, Shared DEF BytesType
    <3>7. Forwarded(r).id = r.id
      <4>1. r \in RequestType
        BY Shared, FirstQueue DEF SharedType, QueueType, Of
      <4> QED
        BY <4>1, ForwardedFacts, Shared
    <3>8. base' = {Forwarded(r)} /\ asked'[Forwarded(r).id] = n
      BY <1>2, <1>3, <2>1, <3>2, <3>7
    <3>9. taken + n <= total_size_limit
      BY <1>3, <1>4, <1>6, <3>1
    <3>10. /\ reader' \in [remaining_size_limit : Nat, read_ongoing : BOOLEAN, read_bytes_count : Nat]
           /\ reader'.read_ongoing = TRUE
           /\ reader'.remaining_size_limit = f.remaining_size_limit
           /\ f.remaining_size_limit > 0
      BY <1>4, <1>6, <2>3
    <3>11. Accounted'
      BY <1>1, <1>4, <1>6, <3>8, <3>10, ModesDiffer DEF Accounted
    <3>12. SizeLimitedInv'
      BY <1>1, <3>2, <3>8, <3>9, <3>10, <3>11, ModesDiffer DEF SizeLimitedInv, TooLargeOnlyAtLimit
    <3> QED
      BY <3>4, <3>5, <3>6, <3>12 DEF ReadersShared
  <2> QED
    BY <1>6, <2>2, <2>3 DEF StartRead
<1> QED
  BY <1>5, <1>6 DEF SizeLimitedResponseReturns, f, Of

LEMMA SizeLimitedStep ==
  ASSUME ReadersShared, SizeLimitedInv, UNCHANGED kind, SizeLimitedNext \/ UNCHANGED reading_vars
  PROVE  ReadersShared' /\ ReadStep /\ SizeLimitedInv'
<1>1. ASSUME NEW max_size \in ReadSizes, NEW timeout \in Timeouts,
             SizeLimitedReadSomeBytes(max_size, timeout)
      PROVE  ReadersShared' /\ ReadStep /\ SizeLimitedInv'
  <2>1. max_size \in Nat /\ timeout \in 0 .. Never
    BY BytesReadingAssumption, TimeoutsIs
  <2> QED
    BY <1>1, <2>1, SizeLimitedReads
<1>2. CASE CallLater
  <2>1. ReadersShared' /\ ReadStep
    BY <1>2, CallLaterStep
  <2>2. PICK c \in later :
          /\ mode = Idle /\ mode' = InLater /\ later' = later \ {c}
          /\ delivered' = delivered \o c.bytes
          /\ UNCHANGED <<base, alive, asked, taken, reader>>
    BY <1>2, CallLaterIs
  <2>3. delivered' = delivered
    <3>1. c.bytes = <<>> /\ delivered \in ByteSeq
      BY Shared DEF SizeLimitedInv, BytesType
    <3> QED
      BY <2>2, <3>1, ConcatFacts, EmptyBytes
  <2>4. Accounted => Accounted'
    BY <2>2, ModesDiffer DEF Accounted
  <2>5. SizeLimitedInv'
    BY <2>2, <2>3, <2>4, ModesDiffer DEF SizeLimitedInv, TooLargeOnlyAtLimit
  <2> QED
    BY <2>1, <2>5
<1>3. CASE UNCHANGED bytes_vars /\ (QueueTask \/ Destroy \/ Advance \/ UNCHANGED shared_vars)
  <2>1. ReadersShared' /\ ReadStep
    BY <1>3, LoopTaskStep
  <2>2. /\ UNCHANGED base /\ (alive' => alive)
        /\ UNCHANGED mode \/ (mode # InResponse /\ mode' # InResponse)
        /\ UNCHANGED <<asked, taken, later, delivered, reader>>
    BY <1>3, LoopTaskIs DEF bytes_vars
  <2>3. Accounted => Accounted'
    BY <2>2 DEF Accounted
  <2>4. SizeLimitedInv'
    BY <2>2, <2>3 DEF SizeLimitedInv, TooLargeOnlyAtLimit
  <2> QED
    BY <2>1, <2>4
<1> QED
  BY <1>1, <1>2, <1>3, SizeLimitedAnswers, SizeLimitedReturns
     DEF SizeLimitedNext, SizeLimitedLoopStep, reading_vars

-----------------------------------------------------------------------------
(* A sequence s that p starts and q ends: what concatenation builds and what *)
(* a prefix leaves.                                                          *)

Distinct(s) == \A i, j \in 1 .. Len(s) : s[i] = s[j] => i = j

Splits(s, p, q) ==
  /\ s \in ByteSeq /\ p \in ByteSeq /\ q \in ByteSeq
  /\ Len(s) = Len(p) + Len(q)
  /\ \A i \in 1 .. Len(p) : s[i] = p[i]
  /\ \A i \in 1 .. Len(q) : s[Len(p) + i] = q[i]

LEMMA ConcatSplits == \A s, t \in ByteSeq : Splits(s \o t, s, t)
  BY ConcatFacts DEF Splits

LEMMA PrefixSplits == \A s \in ByteSeq, n \in Nat : Splits(s, Prefix(s, n), Suffix(s, n))
<1> TAKE s \in ByteSeq, n \in Nat
<1> DEFINE p == Prefix(s, n)
           q == Suffix(s, n)
<1>1. /\ p \in ByteSeq /\ Len(p) = Min2(n, Len(s)) /\ \A i \in 1 .. Len(p) : p[i] = s[i]
  BY PrefixFacts
<1>2. /\ q \in ByteSeq /\ Len(q) = IF n <= Len(s) THEN Len(s) - n ELSE 0
      /\ \A i \in 1 .. Len(q) : q[i] = s[n + i]
  BY SuffixFacts
<1>3. Len(s) \in Nat
  BY ConcatFacts
<1> HIDE DEF p, q
<1>4. Len(s) = Len(p) + Len(q)
  <2>1. CASE n <= Len(s)
    <3>1. Min2(n, Len(s)) = n
      BY <1>3, <2>1 DEF Min2
    <3>2. Len(q) = Len(s) - n
      BY <1>2, <2>1
    <3> QED
      BY <1>1, <1>3, <3>1, <3>2
  <2>2. CASE ~(n <= Len(s))
    <3>1. Len(p) = Len(s) /\ Len(q) = 0
      BY <1>1, <1>2, <1>3, <2>2 DEF Min2
    <3> QED
      BY <1>3, <3>1
  <2> QED
    BY <2>1, <2>2
<1>5. ASSUME NEW i \in 1 .. Len(q) PROVE s[Len(p) + i] = q[i]
  <2>1. n <= Len(s) /\ Len(p) = n
    BY <1>1, <1>2, <1>3, <1>5 DEF Min2
  <2> QED
    BY <1>2, <1>5, <2>1
<1> QED
  BY <1>1, <1>2, <1>4, <1>5 DEF Splits, p, q

\* The other way to name what a prefix leaves.
LEMMA ChunkSplits ==
  \A s \in ByteSeq, n \in Nat : Splits(s, Prefix(s, n), Suffix(s, Len(Prefix(s, n))))
<1> TAKE s \in ByteSeq, n \in Nat
<1> DEFINE p == Prefix(s, n)
           m == Len(p)
           q == Suffix(s, m)
<1>1. /\ p \in ByteSeq /\ m = Min2(n, Len(s)) /\ \A i \in 1 .. m : p[i] = s[i]
  BY PrefixFacts
<1>2. Len(s) \in Nat /\ m \in Nat /\ m <= Len(s)
  BY <1>1, Min2Facts, ConcatFacts
<1>3. /\ q \in ByteSeq /\ Len(q) = IF m <= Len(s) THEN Len(s) - m ELSE 0
      /\ \A i \in 1 .. Len(q) : q[i] = s[m + i]
  BY <1>2, SuffixFacts
<1> HIDE DEF q
<1>4. Len(s) = m + Len(q)
  BY <1>2, <1>3
<1> QED
  BY <1>1, <1>3, <1>4 DEF Splits, q

(* An index of s is one of p or one of q. *)
LEMMA SplitIndices ==
  ASSUME NEW s, NEW p, NEW q, Splits(s, p, q)
  PROVE  /\ Len(p) \in Nat /\ Len(q) \in Nat /\ Len(s) \in Nat
         /\ \A i \in 1 .. Len(p) : i \in 1 .. Len(s) /\ s[i] = p[i]
         /\ \A i \in 1 .. Len(q) : Len(p) + i \in 1 .. Len(s) /\ s[Len(p) + i] = q[i]
         /\ \A i \in 1 .. Len(s) :
              \/ i \in 1 .. Len(p) /\ s[i] = p[i]
              \/ i > Len(p) /\ i - Len(p) \in 1 .. Len(q) /\ s[i] = q[i - Len(p)]
<1>1. /\ Len(p) \in Nat /\ Len(q) \in Nat /\ Len(s) = Len(p) + Len(q)
      /\ \A i \in 1 .. Len(p) : s[i] = p[i]
      /\ \A i \in 1 .. Len(q) : s[Len(p) + i] = q[i]
  BY ConcatFacts DEF Splits
<1>2. ASSUME NEW i \in 1 .. Len(s), i \notin 1 .. Len(p)
      PROVE  i > Len(p) /\ i - Len(p) \in 1 .. Len(q) /\ s[i] = q[i - Len(p)]
  <2>1. i > Len(p) /\ i - Len(p) \in 1 .. Len(q) /\ i = Len(p) + (i - Len(p))
    BY <1>1, <1>2
  <2> QED
    BY <1>1, <2>1
<1> QED
  BY <1>1, <1>2

LEMMA SplitSets ==
  ASSUME NEW s, NEW p, NEW q, Splits(s, p, q)
  PROVE  ToSet(s) = ToSet(p) \cup ToSet(q)
<1> USE SplitIndices
<1>a. s \in ByteSeq /\ p \in ByteSeq /\ q \in ByteSeq
  BY DEF Splits
<1>1. ASSUME NEW x \in ToSet(s) PROVE x \in ToSet(p) \cup ToSet(q)
  <2> PICK i \in 1 .. Len(s) : s[i] = x
    BY <1>1, <1>a, ToSetIs
  <2>1. CASE i \in 1 .. Len(p) /\ s[i] = p[i]
    BY <2>1, <1>a, ToSetIs
  <2>2. CASE i - Len(p) \in 1 .. Len(q) /\ s[i] = q[i - Len(p)]
    BY <2>2, <1>a, ToSetIs
  <2> QED
    BY <2>1, <2>2
<1>2. ASSUME NEW x \in ToSet(p) PROVE x \in ToSet(s)
  <2> PICK i \in 1 .. Len(p) : p[i] = x
    BY <1>2, <1>a, ToSetIs
  <2> QED
    BY <1>a, ToSetIs
<1>3. ASSUME NEW x \in ToSet(q) PROVE x \in ToSet(s)
  <2> PICK i \in 1 .. Len(q) : q[i] = x
    BY <1>3, <1>a, ToSetIs
  <2>1. Len(p) + i \in 1 .. Len(s) /\ s[Len(p) + i] = x
    BY SplitIndices
  <2> QED
    BY <1>a, <2>1, ToSetIs
<1> QED
  BY <1>1, <1>2, <1>3

LEMMA SplitDistinct ==
  ASSUME NEW s, NEW p, NEW q, Splits(s, p, q)
  PROVE  Distinct(s) <=> Distinct(p) /\ Distinct(q) /\ ToSet(p) \cap ToSet(q) = {}
<1>a. s \in ByteSeq /\ p \in ByteSeq /\ q \in ByteSeq
  BY DEF Splits
<1>1. ASSUME Distinct(s) PROVE Distinct(p) /\ Distinct(q) /\ ToSet(p) \cap ToSet(q) = {}
  <2>1. Distinct(p)
    BY <1>1, SplitIndices DEF Distinct
  <2>2. ASSUME NEW i \in 1 .. Len(q), NEW j \in 1 .. Len(q), q[i] = q[j] PROVE i = j
    <3>1. Len(p) + i = Len(p) + j
      BY <1>1, <2>2, SplitIndices DEF Distinct
    <3> QED
      BY <3>1, SplitIndices
  <2>3. ASSUME NEW i \in 1 .. Len(p), NEW j \in 1 .. Len(q) PROVE p[i] # q[j]
    <3>1. i # Len(p) + j
      BY SplitIndices
    <3> QED
      BY <1>1, <3>1, SplitIndices DEF Distinct
  <2> QED
    BY <2>1, <2>2, <2>3, <1>a, ToSetIs DEF Distinct
<1>2. ASSUME Distinct(p), Distinct(q), ToSet(p) \cap ToSet(q) = {} PROVE Distinct(s)
  <2>1. \A i \in 1 .. Len(p), j \in 1 .. Len(q) : p[i] # q[j]
    BY <1>2, <1>a, ToSetIs
  <2>2. ASSUME NEW i \in 1 .. Len(s), NEW j \in 1 .. Len(s), s[i] = s[j] PROVE i = j
    <3>1. \/ i \in 1 .. Len(p) /\ s[i] = p[i]
          \/ i > Len(p) /\ i - Len(p) \in 1 .. Len(q) /\ s[i] = q[i - Len(p)]
      BY SplitIndices
    <3>2. \/ j \in 1 .. Len(p) /\ s[j] = p[j]
          \/ j > Len(p) /\ j - Len(p) \in 1 .. Len(q) /\ s[j] = q[j - Len(p)]
      BY SplitIndices
    <3>3. i \in 1 .. Len(p) /\ j \in 1 .. Len(p) => i = j
      BY <1>2, <2>2, <3>1, <3>2, SplitIndices DEF Distinct
    <3>4. i - Len(p) \in 1 .. Len(q) /\ j - Len(p) \in 1 .. Len(q) /\ i > Len(p) /\ j > Len(p) => i = j
      <4> SUFFICES ASSUME i - Len(p) \in 1 .. Len(q), j - Len(p) \in 1 .. Len(q),
                          i > Len(p), j > Len(p)
                   PROVE  i = j
        OBVIOUS
      <4>1. s[i] = q[i - Len(p)] /\ s[j] = q[j - Len(p)]
        <5>1. ~(i \in 1 .. Len(p)) /\ ~(j \in 1 .. Len(p))
          BY SplitIndices
        <5> QED
          BY <3>1, <3>2, <5>1
      <4>2. i - Len(p) = j - Len(p)
        BY <1>2, <2>2, <4>1 DEF Distinct
      <4> QED
        BY <4>2, SplitIndices
    <3> QED
      BY <2>1, <2>2, <3>1, <3>2, <3>3, <3>4
  <2> QED
    BY <2>2 DEF Distinct
<1> QED
  BY <1>1, <1>2

LEMMA SplitFollows ==
  ASSUME NEW s, NEW p, NEW q, Splits(s, p, q), NEW n \in Nat
  PROVE  Follows(n, s) <=> Follows(n, p) /\ Follows(n + Len(p), q)
<1>1. ASSUME Follows(n, s) PROVE Follows(n, p) /\ Follows(n + Len(p), q)
  <2>1. Follows(n, p)
    BY <1>1, SplitIndices DEF Follows
  <2>2. ASSUME NEW i \in 1 .. Len(q) PROVE q[i] = (n + Len(p)) + i
    <3>1. q[i] = n + (Len(p) + i)
      BY <1>1, SplitIndices DEF Follows
    <3> QED
      BY <3>1, SplitIndices
  <2> QED
    BY <2>1, <2>2 DEF Follows
<1>2. ASSUME Follows(n, p), Follows(n + Len(p), q) PROVE Follows(n, s)
  <2>1. ASSUME NEW i \in 1 .. Len(s) PROVE s[i] = n + i
    <3>1. CASE i \in 1 .. Len(p) /\ s[i] = p[i]
      BY <1>2, <3>1 DEF Follows
    <3>2. CASE i - Len(p) \in 1 .. Len(q) /\ s[i] = q[i - Len(p)]
      <4>1. s[i] = (n + Len(p)) + (i - Len(p))
        BY <1>2, <3>2 DEF Follows
      <4> QED
        BY <4>1, SplitIndices
    <3> QED
      BY <3>1, <3>2, SplitIndices
  <2> QED
    BY <2>1 DEF Follows
<1> QED
  BY <1>1, <1>2

(* A run of the stream. *)
LEMMA FollowsFacts ==
  ASSUME NEW s \in ByteSeq, NEW n \in Nat, Follows(n, s)
  PROVE  /\ ToSet(s) = n + 1 .. n + Len(s)
         /\ Distinct(s) /\ Ascending(s)
         /\ n = 0 => s = Span(1, Len(s))
<1>1. Len(s) \in Nat
  BY ConcatFacts
<1>2. Distinct(s) /\ Ascending(s)
  BY <1>1 DEF Follows, Distinct, Ascending
<1>3. ToSet(s) = n + 1 .. n + Len(s)
  <2>1. ASSUME NEW x \in ToSet(s) PROVE x \in n + 1 .. n + Len(s)
    <3> PICK i \in 1 .. Len(s) : s[i] = x
      BY <2>1, ToSetIs
    <3> QED
      BY <1>1 DEF Follows
  <2>2. ASSUME NEW x \in n + 1 .. n + Len(s) PROVE x \in ToSet(s)
    <3>1. x - n \in 1 .. Len(s) /\ n + (x - n) = x
      BY <1>1
    <3>2. s[x - n] = x
      BY <3>1 DEF Follows
    <3> QED
      BY <3>1, <3>2, ToSetIs
  <2> QED
    BY <2>1, <2>2
<1>4. ASSUME n = 0 PROVE s = Span(1, Len(s))
  <2>a. 1 \in Nat /\ 1 <= Len(s) + 1
    BY <1>1
  <2>1. /\ Span(1, Len(s)) \in ByteSeq /\ Len(Span(1, Len(s))) = (Len(s) - 1) + 1
        /\ \A i \in 1 .. (Len(s) - 1) + 1 : Span(1, Len(s))[i] = (1 + i) - 1
    BY <1>1, <2>a, SpanFacts
  <2>2. Len(Span(1, Len(s))) = Len(s)
    BY <1>1, <2>1
  <2>3. \A i \in 1 .. Len(s) : Span(1, Len(s))[i] = s[i]
    BY <1>1, <1>4, <2>1 DEF Follows
  <2> QED
    BY <2>1, <2>2, <2>3, BytesEqual
<1> QED
  BY <1>2, <1>3, <1>4

LEMMA SplitAscending ==
  ASSUME NEW s, NEW p, NEW q, Splits(s, p, q)
  PROVE  Ascending(s) <=> /\ Ascending(p) /\ Ascending(q)
                          /\ \A x \in ToSet(p), y \in ToSet(q) : x < y
<1>a. s \in ByteSeq /\ p \in ByteSeq /\ q \in ByteSeq
  BY DEF Splits
<1>1. ASSUME Ascending(s)
      PROVE  Ascending(p) /\ Ascending(q) /\ \A x \in ToSet(p), y \in ToSet(q) : x < y
  <2>1. Ascending(p)
    BY <1>1, SplitIndices DEF Ascending
  <2>2. ASSUME NEW i \in 1 .. Len(q), NEW j \in 1 .. Len(q), i < j PROVE q[i] < q[j]
    <3>1. Len(p) + i < Len(p) + j
      BY <2>2, SplitIndices
    <3> QED
      BY <1>1, <3>1, SplitIndices DEF Ascending
  <2>3. ASSUME NEW x \in ToSet(p), NEW y \in ToSet(q) PROVE x < y
    <3> PICK i \in 1 .. Len(p) : p[i] = x
      BY <1>a, ToSetIs
    <3> PICK j \in 1 .. Len(q) : q[j] = y
      BY <1>a, ToSetIs
    <3>1. i < Len(p) + j
      BY SplitIndices
    <3> QED
      BY <1>1, <3>1, SplitIndices DEF Ascending
  <2> QED
    BY <2>1, <2>2, <2>3 DEF Ascending
<1>2. ASSUME Ascending(p), Ascending(q), \A x \in ToSet(p), y \in ToSet(q) : x < y
      PROVE  Ascending(s)
  <2>1. \A i \in 1 .. Len(p), j \in 1 .. Len(q) : p[i] < q[j]
    BY <1>2, <1>a, ToSetIs
  <2>2. ASSUME NEW i \in 1 .. Len(s), NEW j \in 1 .. Len(s), i < j PROVE s[i] < s[j]
    <3>1. CASE i \in 1 .. Len(p) /\ j \in 1 .. Len(p)
      BY <1>2, <2>2, <3>1, SplitIndices DEF Ascending
    <3>2. CASE i \in 1 .. Len(p) /\ ~(j \in 1 .. Len(p))
      BY <2>1, <3>2, SplitIndices
    <3>3. CASE ~(i \in 1 .. Len(p))
      <4> DEFINE k == i - Len(p)
                 l == j - Len(p)
      <4>1. k \in 1 .. Len(q) /\ s[i] = q[k] /\ i > Len(p)
        BY <3>3, SplitIndices
      <4>2. ~(j \in 1 .. Len(p))
        BY <2>2, <4>1, SplitIndices
      <4>3. l \in 1 .. Len(q) /\ s[j] = q[l]
        BY <4>2, SplitIndices
      <4>4. k < l
        BY <2>2, SplitIndices
      <4> QED
        BY <1>2, <4>1, <4>3, <4>4 DEF Ascending
    <3> QED
      BY <3>1, <3>2, <3>3
  <2> QED
    BY <2>2 DEF Ascending
<1> QED
  BY <1>1, <1>2

-----------------------------------------------------------------------------
(* One read at a time.                                                     *)

OneOpen == \A n, m \in OpenReads : n = m

LEMMA OneOpenKept ==
  ASSUME ReadersShared, ReadStep, OneOpen, deadlines' # deadlines => OpenReads = {}
  PROVE  OneOpen'
<1>1. CASE ReadContract!HandleRequest
  <2>1. OpenReads' = OpenReads \cup {Len(deadlines) + 1}
    BY <1>1 DEF ReadContract!HandleRequest
  <2>2. deadlines' # deadlines
    <3>1. PICK t \in 0 .. Never : deadlines' = Append(deadlines, t)
      BY <1>1 DEF ReadContract!HandleRequest
    <3>2. Len(deadlines') = Len(deadlines) + 1 /\ Len(deadlines) \in Nat
      BY <3>1, Shared DEF SharedType
    <3> QED
      BY <3>2
  <2> QED
    BY <2>1, <2>2 DEF OneOpen
<1>2. CASE ReadContract!Answer
  <2>1. \E n : OpenReads' = OpenReads \ {n}
    BY <1>2 DEF ReadContract!Answer
  <2> QED
    BY <2>1 DEF OneOpen
<1>3. CASE ReadContract!Advance \/ ReadStutters
  BY <1>3 DEF ReadContract!Advance, ReadStutters, OneOpen
<1> QED
  BY <1>1, <1>2, <1>3 DEF ReadStep, ReadContract!Next, ReadContract!AnswerCopy

LEMMA OneOpenFacts ==
  ASSUME ReadersShared, OneOpen
  PROVE  /\ \A r, o \in base : r = o
         /\ \A c, d \in later : c = d
         /\ base = {} \/ later = {}
         /\ OpenReads = {} => base = {} /\ later = {}
<1>1. \A r \in base : r.id \in OpenReads /\ r.id \in Open
  BY OpenIs, OpenReadsIs DEF InOne
<1>2. \A c \in later : c.read.id \in OpenReads /\ c.read.id \notin Open
  <2>1. \A c \in later : c.read.id \in LaterIds
    BY DEF LaterIds
  <2>2. \A c \in later : c.read.id \notin Open
    BY Shared DEF LaterInv
  <2> QED
    BY <2>1, <2>2, OpenReadsIs
<1>3. \A r, o \in base : r = o
  BY <1>1, Shared DEF OneOpen, ApartInv, OneEach
<1>4. \A c, d \in later : c = d
  BY <1>2, Shared DEF OneOpen, LaterInv
<1>5. base = {} \/ later = {}
  <2> SUFFICES ASSUME NEW r \in base, NEW c \in later PROVE FALSE
    OBVIOUS
  <2>1. r.id = c.read.id
    BY <1>1, <1>2 DEF OneOpen
  <2> QED
    BY <1>1, <1>2, <2>1
<1> QED
  BY <1>1, <1>2, <1>3, <1>4, <1>5

-----------------------------------------------------------------------------
(* buffered_bytes_reader: every byte that the base reader returned was       *)
(* delivered, is with a result for later, or is in the buffer: in one of     *)
(* these places, and once.  A client that makes one read at a time gets the  *)
(* bytes in their order, as they follow each other in these places.          *)

BytesApart ==
  /\ Distinct(delivered) /\ Distinct(reader.buffer)
  /\ \A c \in later : Distinct(c.bytes)
  /\ ToSet(delivered) \subseteq 1 .. taken /\ ToSet(reader.buffer) \subseteq 1 .. taken
  /\ \A c \in later : ToSet(c.bytes) \subseteq 1 .. taken
  /\ ToSet(delivered) \cap ToSet(reader.buffer) = {}
  /\ \A c \in later : /\ ToSet(c.bytes) \cap ToSet(delivered) = {}
                      /\ ToSet(c.bytes) \cap ToSet(reader.buffer) = {}
  /\ \A c, d \in later : c # d => ToSet(c.bytes) \cap ToSet(d.bytes) = {}

BytesInLine ==
  /\ OneOpen
  /\ Follows(0, delivered)
  /\ base # {} => reader.buffer = <<>> /\ Len(delivered) = taken
  /\ \A c \in later :
       /\ Follows(Len(delivered), c.bytes)
       /\ alive => /\ Follows(Len(delivered) + Len(c.bytes), reader.buffer)
                   /\ Len(delivered) + Len(c.bytes) + Len(reader.buffer) = taken
  /\ alive /\ base = {} /\ later = {} =>
       Follows(Len(delivered), reader.buffer) /\ Len(delivered) + Len(reader.buffer) = taken

BufferedInv ==
  /\ reader \in [buffer : ByteSeq]
  /\ BytesApart
  /\ BufferedNoByteLost
  /\ kind = "buffered_alone" => BytesInLine

LEMMA ResultBytes ==
  ASSUME NEW s \in ByteSeq, taken \in Nat, Follows(taken, s)
  PROVE  /\ Distinct(s) /\ ToSet(s) = taken + 1 .. taken + Len(s)
         /\ ToSet(s) \cap (1 .. taken) = {}
         /\ 1 .. (taken + Len(s)) = (1 .. taken) \cup ToSet(s)
<1>1. Distinct(s) /\ ToSet(s) = taken + 1 .. taken + Len(s) /\ Len(s) \in Nat
  BY FollowsFacts, ConcatFacts
<1> QED
  BY <1>1

LEMMA BufferedReads ==
  ASSUME ReadersShared, BufferedInv, UNCHANGED kind, NEW max_size \in Nat,
         NEW timeout \in 0 .. Never, BufferedReadSomeBytes(max_size, timeout),
         kind = "buffered_alone" => OpenReads = {}
  PROVE  ReadersShared' /\ ReadStep /\ BufferedInv'
<1> DEFINE r == Request(timeout)
           chunk == Prefix(reader.buffer, max_size)
           rest == Suffix(reader.buffer, Len(chunk))
<1>a. /\ Read(max_size, timeout) /\ queues' = queues /\ taken' = taken /\ delivered' = delivered
      /\ \/ /\ reader.buffer # <<>>
            /\ InvokeLater(r, "ok", chunk)
            /\ reader' = [buffer |-> rest]
            /\ UNCHANGED <<base, asked>>
         \/ /\ reader.buffer = <<>>
            /\ ReadFromBase(r, IF max_size >= max_buffer_size THEN max_size ELSE max_buffer_size)
            /\ UNCHANGED <<reader, later>>
  BY DEF BufferedReadSomeBytes
<1>b. NewRequest(r) /\ Forwarded(r) = r /\ alive /\ alive' = alive
  BY <1>a, ReadMade
<1>c. taken' \in 0 .. StreamLen /\ taken \in Nat /\ delivered \in ByteSeq
  BY <1>a, Shared, BytesReadingAssumption DEF BytesType
<1>d. reader.buffer \in ByteSeq /\ Splits(reader.buffer, chunk, rest)
  BY ChunkSplits DEF BufferedInv
<1>e. chunk \in ByteSeq /\ rest \in ByteSeq
  BY <1>d DEF Splits
<1>f. kind = "buffered_alone" => OneOpen
  BY DEF BufferedInv, BytesInLine
<1> HIDE DEF r, chunk, rest
<1>1. CASE /\ InvokeLater(r, "ok", chunk) /\ reader' = [buffer |-> rest] /\ UNCHANGED <<base, asked>>
  <2>1. InTimeResult("ok")
    BY DEF InTimeResult
  <2>2. ReadersShared' /\ ReadStep
    BY <1>1, <1>a, <1>c, <1>e, <2>1, ReadLater DEF r
  <2> DEFINE new == [read |-> r, res |-> "ok", bytes |-> chunk]
  <2>3. /\ later' = later \cup {new} /\ new.bytes = chunk
        /\ reader'.buffer = rest /\ reader' \in [buffer : ByteSeq] /\ base' = base
    BY <1>1, <1>e DEF InvokeLater
  <2> HIDE DEF new
  <2>4. /\ ToSet(reader.buffer) = ToSet(chunk) \cup ToSet(rest)
        /\ Distinct(reader.buffer) <=>
             Distinct(chunk) /\ Distinct(rest) /\ ToSet(chunk) \cap ToSet(rest) = {}
    BY <1>d, SplitSets, SplitDistinct
  <2>5. BytesApart'
    BY <1>a, <2>3, <2>4 DEF BufferedInv, BytesApart
  <2>6. Promised' = Promised \cup ToSet(chunk)
    BY <2>3 DEF Promised
  <2>7. BufferedNoByteLost'
    BY <1>a, <1>b, <2>3, <2>4, <2>6 DEF BufferedInv, BufferedNoByteLost
  <2>8. ASSUME kind = "buffered_alone" PROVE BytesInLine'
    <3>1. OneOpen' /\ base = {} /\ later = {}
      BY <2>2, <2>8, <1>f, OneOpenKept, OneOpenFacts
    <3>2. /\ Follows(Len(delivered), reader.buffer) /\ Len(delivered) + Len(reader.buffer) = taken
          /\ Follows(0, delivered)
      BY <2>8, <3>1, <1>b DEF BufferedInv, BytesInLine
    <3>3. Len(delivered) \in Nat /\ Len(chunk) \in Nat /\ Len(rest) \in Nat
          /\ Len(reader.buffer) = Len(chunk) + Len(rest)
      BY <1>c, <1>d, <1>e, ConcatFacts DEF Splits
    <3>4. Follows(Len(delivered), chunk) /\ Follows(Len(delivered) + Len(chunk), rest)
      BY <1>d, <3>2, <3>3, SplitFollows
    <3>5. (Len(delivered) + Len(chunk)) + Len(rest) = taken
      BY <3>2, <3>3
    <3>6. \A c \in later' : c.bytes = chunk
      BY <2>3, <3>1
    <3>7. base' = {} /\ later' # {} /\ delivered' = delivered /\ taken' = taken
      BY <1>a, <2>3, <3>1
    <3> QED
      BY <2>3, <3>1, <3>2, <3>4, <3>5, <3>6, <3>7 DEF BytesInLine
  <2> QED
    BY <2>2, <2>3, <2>5, <2>7, <2>8 DEF BufferedInv
<1>2. CASE /\ reader.buffer = <<>> /\ UNCHANGED <<reader, later>>
           /\ ReadFromBase(r, IF max_size >= max_buffer_size THEN max_size ELSE max_buffer_size)
  <2>1. PICK n \in Nat : base' = base \cup {r} /\ asked' = [asked EXCEPT ![r.id] = n]
    BY <1>2, <1>b, BufferedAssumption DEF ReadFromBase
  <2>2. ReadersShared' /\ ReadStep
    BY <1>2, <1>a, <2>1, ReadAtBase DEF r
  <2>3. BytesApart' /\ BufferedNoByteLost'
    BY <1>2, <1>a, <1>b DEF BufferedInv, BytesApart, BufferedNoByteLost, Promised
  <2>4. ASSUME kind = "buffered_alone" PROVE BytesInLine'
    <3>1. OneOpen' /\ base = {} /\ later = {}
      BY <2>2, <2>4, <1>f, OneOpenKept, OneOpenFacts
    <3>2. Len(delivered) + Len(reader.buffer) = taken /\ Follows(0, delivered)
      BY <2>4, <3>1, <1>b DEF BufferedInv, BytesInLine
    <3>3. Len(delivered) = taken
      BY <1>2, <1>c, <3>2, EmptyBytes, ConcatFacts
    <3> QED
      BY <1>2, <1>a, <2>1, <3>1, <3>2, <3>3 DEF BytesInLine
  <2> QED
    BY <1>2, <2>2, <2>3, <2>4 DEF BufferedInv
<1> QED
  BY <1>a, <1>1, <1>2

LEMMA BufferedAnswers ==
  ASSUME ReadersShared, BufferedInv, UNCHANGED kind, BufferedSomeAnswer
  PROVE  ReadersShared' /\ ReadStep /\ BufferedInv'
<1>1. PICK r \in base : \E b \in BaseResults(r, asked[r.id]) : BufferedBaseAnswers(r, b)
  BY DEF BufferedSomeAnswer
<1>2. PICK b \in BaseResults(r, asked[r.id]) : BufferedBaseAnswers(r, b)
  BY <1>1
<1> DEFINE n == sizes[r.id]
           given == Prefix(b.bytes, n)
           rest == Suffix(b.bytes, n)
           a == [b EXCEPT !.bytes = given]
<1>3. /\ AnswerBytes(r, b, a)
      /\ reader' = (IF alive THEN [buffer |-> reader.buffer \o rest] ELSE reader)
  BY <1>2 DEF BufferedBaseAnswers
<1>4. asked[r.id] \in Nat /\ n \in Nat
  BY ReadIds, Shared DEF BytesType
<1>5. /\ b.bytes \in ByteSeq /\ taken + Len(b.bytes) \in 0 .. StreamLen /\ Follows(taken, b.bytes)
  BY <1>4, ResultFacts
<1>6. Splits(b.bytes, given, rest)
  BY <1>4, <1>5, PrefixSplits
<1>7. given \in ByteSeq /\ rest \in ByteSeq
  BY <1>6 DEF Splits
<1>8. a.bytes = given
  BY ResultIsRecord
<1> HIDE DEF n, given, rest, a
<1>9. ReadersShared' /\ ReadStep
  BY <1>3, <1>5, <1>7, <1>8, AnswerBytesStep
<1>10. /\ mode = Idle /\ mode' = InResponse /\ base' = base \ {r}
       /\ taken' = taken + Len(b.bytes) /\ delivered' = delivered \o given
       /\ alive' = alive /\ later' = later /\ deadlines' = deadlines
  BY <1>3, <1>8, AnswerBytesIs
<1>11. delivered \in ByteSeq /\ taken \in Nat /\ reader.buffer \in ByteSeq
  BY Shared, BytesReadingAssumption DEF BytesType, BufferedInv
<1>12. /\ Distinct(given) /\ Distinct(rest) /\ ToSet(given) \cap ToSet(rest) = {}
       /\ (ToSet(given) \cup ToSet(rest)) \cap (1 .. taken) = {}
       /\ 1 .. taken' = (1 .. taken) \cup ToSet(given) \cup ToSet(rest)
  <2>1. /\ Distinct(b.bytes) /\ ToSet(b.bytes) \cap (1 .. taken) = {}
        /\ 1 .. (taken + Len(b.bytes)) = (1 .. taken) \cup ToSet(b.bytes)
    BY <1>5, <1>11, ResultBytes
  <2>2. ToSet(b.bytes) = ToSet(given) \cup ToSet(rest)
    BY <1>6, SplitSets
  <2>3. Distinct(given) /\ Distinct(rest) /\ ToSet(given) \cap ToSet(rest) = {}
    BY <1>6, <2>1, SplitDistinct
  <2> QED
    BY <1>10, <2>1, <2>2, <2>3
<1>13. /\ Splits(delivered', delivered, given) /\ delivered' \in ByteSeq
       /\ ToSet(delivered') = ToSet(delivered) \cup ToSet(given)
       /\ Distinct(delivered') <=>
            Distinct(delivered) /\ Distinct(given) /\ ToSet(delivered) \cap ToSet(given) = {}
  <2>1. Splits(delivered', delivered, given)
    BY <1>7, <1>10, <1>11, ConcatSplits
  <2>2. ToSet(delivered') = ToSet(delivered) \cup ToSet(given)
    BY <2>1, SplitSets
  <2>3. Distinct(delivered') <=>
          Distinct(delivered) /\ Distinct(given) /\ ToSet(delivered) \cap ToSet(given) = {}
    BY <2>1, SplitDistinct
  <2>4. delivered' \in ByteSeq
    BY <2>1 DEF Splits
  <2> QED
    BY <2>1, <2>2, <2>3, <2>4
<1> DEFINE filled == reader.buffer \o rest
<1>14. /\ Splits(filled, reader.buffer, rest) /\ filled \in ByteSeq
       /\ ToSet(filled) = ToSet(reader.buffer) \cup ToSet(rest)
       /\ Distinct(filled) <=>
            Distinct(reader.buffer) /\ Distinct(rest) /\ ToSet(reader.buffer) \cap ToSet(rest) = {}
  <2>1. Splits(filled, reader.buffer, rest)
    BY <1>7, <1>11, ConcatSplits
  <2> HIDE DEF filled
  <2>2. ToSet(filled) = ToSet(reader.buffer) \cup ToSet(rest)
    BY <2>1, SplitSets
  <2>3. Distinct(filled) <=>
          Distinct(reader.buffer) /\ Distinct(rest) /\ ToSet(reader.buffer) \cap ToSet(rest) = {}
    BY <2>1, SplitDistinct
  <2>4. filled \in ByteSeq
    BY <2>1 DEF Splits
  <2> QED
    BY <2>1, <2>2, <2>3, <2>4
<1>15. reader'.buffer = (IF alive THEN filled ELSE reader.buffer) /\ reader' \in [buffer : ByteSeq]
  BY <1>3, <1>14 DEF BufferedInv
<1> HIDE DEF filled
<1>a. Promised' = Promised
  BY <1>10 DEF Promised
<1>16. BytesApart'
  <2>1. BytesApart
    BY DEF BufferedInv
  <2>2. CASE alive
    BY <1>10, <1>12, <1>13, <1>14, <1>15, <2>1, <2>2 DEF BytesApart
  <2>3. CASE ~alive
    BY <1>10, <1>12, <1>13, <1>15, <2>1, <2>3 DEF BytesApart
  <2> QED
    BY <2>2, <2>3
<1>17. BufferedNoByteLost'
  BY <1>a, <1>10, <1>12, <1>13, <1>14, <1>15 DEF BufferedInv, BufferedNoByteLost
<1>18. ASSUME kind = "buffered_alone" PROVE BytesInLine'
  <2>1. OneOpen /\ OneOpen' /\ base' = {} /\ later = {}
    <3>1. OneOpen
      BY <1>18 DEF BufferedInv, BytesInLine
    <3>2. OneOpen'
      BY <1>9, <1>10, <3>1, OneOpenKept
    <3>3. \A o \in base : o = r
      BY <3>1, OneOpenFacts
    <3>4. later = {}
      BY <3>1, OneOpenFacts
    <3> QED
      BY <1>10, <3>1, <3>2, <3>3, <3>4
  <2>2. Follows(0, delivered) /\ reader.buffer = <<>> /\ Len(delivered) = taken
    BY <1>18 DEF BufferedInv, BytesInLine
  <2>3. /\ Len(given) \in Nat /\ Len(rest) \in Nat /\ Len(b.bytes) = Len(given) + Len(rest)
        /\ Len(delivered') = Len(delivered) + Len(given) /\ Len(delivered) \in Nat
        /\ filled = rest
    BY <1>6, <1>7, <1>10, <1>11, <2>2, ConcatFacts DEF Splits, filled
  <2>4. Follows(taken, given) /\ Follows(taken + Len(given), rest)
    BY <1>5, <1>6, <1>11, SplitFollows
  <2>5. Follows(0, delivered')
    <3>1. Follows(0 + Len(delivered), given)
      BY <1>11, <2>2, <2>4
    <3> QED
      BY <1>13, <2>2, <3>1, SplitFollows
  <2>6. alive' => Follows(Len(delivered'), reader'.buffer)
    BY <1>10, <1>15, <2>2, <2>3, <2>4
  <2>7. alive' => Len(delivered') + Len(reader'.buffer) = taken'
    BY <1>10, <1>11, <1>15, <2>2, <2>3
  <2> QED
    BY <1>10, <2>1, <2>5, <2>6, <2>7 DEF BytesInLine
<1> QED
  BY <1>9, <1>15, <1>16, <1>17, <1>18 DEF BufferedInv

LEMMA BufferedStep ==
  ASSUME ReadersShared, BufferedInv, UNCHANGED kind, BufferedNext \/ UNCHANGED reading_vars,
         kind = "buffered_alone" /\ deadlines' # deadlines => OpenReads = {}
  PROVE  ReadersShared' /\ ReadStep /\ BufferedInv'
<1>1. ASSUME NEW max_size \in ReadSizes, NEW timeout \in Timeouts,
             BufferedReadSomeBytes(max_size, timeout)
      PROVE  ReadersShared' /\ ReadStep /\ BufferedInv'
  <2>1. max_size \in Nat /\ timeout \in 0 .. Never
    BY BytesReadingAssumption, TimeoutsIs
  <2>2. deadlines' # deadlines
    <3>1. Read(max_size, timeout)
      BY <1>1 DEF BufferedReadSomeBytes
    <3>2. Len(deadlines') = Len(deadlines) + 1 /\ Len(deadlines) \in Nat
      BY <2>1, <3>1, ReadMade, ReadIds
    <3> QED
      BY <3>2
  <2> QED
    BY <1>1, <2>1, <2>2, BufferedReads
<1>2. CASE HandlerReturns \/ (UNCHANGED bytes_vars /\ (QueueTask \/ Destroy \/ Advance \/ UNCHANGED shared_vars))
  <2>1. ReadersShared' /\ ReadStep
    BY <1>2, HandlerReturnsStep, LoopTaskStep
  <2>2. /\ base' = base /\ deadlines' = deadlines /\ (alive' => alive)
        /\ taken' = taken /\ later' = later /\ delivered' = delivered /\ reader' = reader
    BY <1>2, LoopTaskIs DEF bytes_vars, HandlerReturns
  <2>3. BytesApart' /\ BufferedNoByteLost'
    BY <2>2 DEF BufferedInv, BytesApart, BufferedNoByteLost, Promised
  <2>4. ASSUME kind = "buffered_alone" PROVE BytesInLine'
    <3>1. BytesInLine /\ OneOpen'
      BY <2>1, <2>2, <2>4, OneOpenKept DEF BufferedInv, BytesInLine
    <3> QED
      BY <2>2, <3>1 DEF BytesInLine
  <2> QED
    BY <2>1, <2>2, <2>3, <2>4 DEF BufferedInv
<1>3. CASE CallLater
  <2>1. ReadersShared' /\ ReadStep
    BY <1>3, CallLaterStep
  <2>2. PICK c \in later :
          /\ later' = later \ {c} /\ delivered' = delivered \o c.bytes
          /\ UNCHANGED <<base, deadlines, alive, taken, reader>>
    BY <1>3, CallLaterIs
  <2>3. delivered \in ByteSeq /\ c.bytes \in ByteSeq
    BY Shared DEF BytesType, LaterInv
  <2>4. Splits(delivered', delivered, c.bytes)
    BY <2>2, <2>3, ConcatSplits
  <2>5. /\ ToSet(delivered') = ToSet(delivered) \cup ToSet(c.bytes)
        /\ Distinct(delivered') <=>
             /\ Distinct(delivered) /\ Distinct(c.bytes)
             /\ ToSet(delivered) \cap ToSet(c.bytes) = {}
    BY <2>4, SplitSets, SplitDistinct
  <2>6. BytesApart'
    BY <2>2, <2>5 DEF BufferedInv, BytesApart
  <2>7. BufferedNoByteLost'
    <3>1. Promised = Promised' \cup ToSet(c.bytes)
      BY <2>2 DEF Promised
    <3> QED
      BY <2>2, <2>5, <3>1 DEF BufferedInv, BufferedNoByteLost
  <2>8. ASSUME kind = "buffered_alone" PROVE BytesInLine'
    <3>1. BytesInLine /\ OneOpen' /\ base = {} /\ later' = {}
      <4>1. BytesInLine /\ OneOpen
        BY <2>8 DEF BufferedInv, BytesInLine
      <4>2. OneOpen'
        BY <2>1, <2>2, <4>1, OneOpenKept
      <4>3. base = {} /\ \A d \in later : d = c
        BY <4>1, OneOpenFacts
      <4> QED
        BY <2>2, <4>1, <4>2, <4>3
    <3>2. Len(delivered') = Len(delivered) + Len(c.bytes) /\ Len(delivered) \in Nat
      BY <2>4, <2>3, ConcatFacts DEF Splits
    <3>3. Follows(0, delivered')
      <4>a. 0 + Len(delivered) = Len(delivered)
        BY <3>2
      <4>b. Follows(0, delivered) /\ Follows(Len(delivered), c.bytes)
        BY <3>1 DEF BytesInLine
      <4>1. Follows(0, delivered) /\ Follows(0 + Len(delivered), c.bytes)
        BY <4>a, <4>b
      <4> QED
        BY <2>4, <4>1, SplitFollows
    <3>4. alive => /\ Follows(Len(delivered'), reader.buffer)
                   /\ Len(delivered') + Len(reader.buffer) = taken
      BY <3>1, <3>2 DEF BytesInLine
    <3> QED
      BY <2>2, <3>1, <3>3, <3>4 DEF BytesInLine
  <2> QED
    BY <2>1, <2>2, <2>6, <2>7, <2>8 DEF BufferedInv
<1> QED
  BY <1>1, <1>2, <1>3, BufferedAnswers
     DEF BufferedNext, BufferedLoopStep, reading_vars

-----------------------------------------------------------------------------
(* lines_reader and read_line: up to a position p of the stream every byte   *)
(* was delivered in a line or lost with a request that failed; what follows  *)
(* p is in one place after the other: the line of the request in progress or *)
(* the line for later, then the buffer.                                      *)

EndsLine(s) == s # <<>> /\ Last(s) \in eols

LinesType ==
  /\ reader \in [buffer : ByteSeq, line : [1 .. MaxRequests -> ByteSeq], failed : SUBSET Nat]
  /\ Len(reader.buffer) <= max_line_size
  /\ \A n \in 1 .. MaxRequests :
       /\ Len(reader.line[n]) <= max_line_size
       /\ reader.line[n] # <<>> => \E r \in base : r.id = n
  /\ \A r \in base : asked[r.id] <= (max_line_size + 1) - Len(reader.line[r.id])

LinesAt(p) ==
  /\ p \in 0 .. taken
  /\ ToSet(delivered) \cup reader.failed = 1 .. p
  /\ p = 0 \/ p \in reader.failed \/ (delivered # <<>> /\ Last(delivered) = p)
  /\ \A r \in base : /\ reader.buffer = <<>>
                     /\ Follows(p, reader.line[r.id]) /\ p + Len(reader.line[r.id]) = taken
  /\ \A c \in later :
       /\ Follows(p, c.bytes) /\ EndsLine(c.bytes) /\ p + Len(c.bytes) <= taken
       /\ alive => /\ Follows(p + Len(c.bytes), reader.buffer)
                   /\ p + Len(c.bytes) + Len(reader.buffer) = taken
  /\ alive /\ base = {} /\ later = {} =>
       Follows(p, reader.buffer) /\ p + Len(reader.buffer) = taken

LinesDelivered ==
  /\ Ascending(delivered)
  /\ \A i \in 1 .. Len(delivered) :
       \/ i > 1 /\ delivered[i] = delivered[i - 1] + 1
       \/ /\ delivered[i] - 1 \in reader.failed \cup {0}
          /\ i > 1 => delivered[i - 1] \in eols /\ delivered[i - 1] < delivered[i]
  /\ delivered # <<>> => Last(delivered) \in eols

LinesInv == LinesType /\ OneOpen /\ LinesDelivered /\ \E p \in Nat : LinesAt(p)

LEMMA EolFacts ==
  ASSUME NEW s \in ByteSeq, HasEol(s)
  PROVE  /\ EolPos(s) \in 1 .. Len(s)
         /\ Len(Prefix(s, EolPos(s))) = EolPos(s)
         /\ EndsLine(Prefix(s, EolPos(s)))
         /\ Splits(s, Prefix(s, EolPos(s)), Suffix(s, EolPos(s)))
<1> DEFINE T == {i \in 1 .. Len(s) : s[i] \in eols}
           n == EolPos(s)
<1>1. Len(s) \in Nat
  BY ConcatFacts
<1>2. PICK m \in T : \A j \in T : m <= j
  <2>1. T # {} /\ T \subseteq Nat
    BY <1>1 DEF HasEol
  <2> HIDE DEF T
  <2> QED
    BY <2>1, LeastOf
<1>3. m \in 1 .. Len(s) /\ s[m] \in eols /\ \A j \in 1 .. m - 1 : s[j] \notin eols
  BY <1>1, <1>2
<1>4. n \in 1 .. Len(s) /\ s[n] \in eols
  BY <1>3 DEF EolPos
<1> HIDE DEF n, T
<1>5. n \in Nat /\ n <= Len(s) /\ n >= 1
  BY <1>1, <1>4
<1>6. /\ Prefix(s, n) \in ByteSeq /\ Len(Prefix(s, n)) = Min2(n, Len(s))
      /\ \A i \in 1 .. Len(Prefix(s, n)) : Prefix(s, n)[i] = s[i]
  BY <1>5, PrefixFacts
<1>7. Len(Prefix(s, n)) = n
  BY <1>1, <1>5, <1>6 DEF Min2
<1>8. EndsLine(Prefix(s, n))
  <2>1. Last(Prefix(s, n)) = s[n]
    BY <1>5, <1>6, <1>7 DEF Last
  <2>2. Prefix(s, n) # <<>>
    BY <1>5, <1>7, EmptyBytes
  <2> QED
    BY <1>4, <2>1, <2>2 DEF EndsLine
<1>9. Splits(s, Prefix(s, n), Suffix(s, n))
  BY <1>5, PrefixSplits
<1> QED
  BY <1>4, <1>7, <1>8, <1>9 DEF n

(* What the end of a longer line is. *)
LEMMA LineEnd ==
  ASSUME NEW s, NEW p, NEW q, Splits(s, p, q), EndsLine(q)
  PROVE  EndsLine(s) /\ Last(s) = Last(q)
<1>1. Len(q) \in Nat /\ Len(q) # 0 /\ s \in ByteSeq /\ Len(p) \in Nat /\ Len(s) = Len(p) + Len(q)
  <2>1. p \in ByteSeq /\ q \in ByteSeq /\ s \in ByteSeq /\ Len(s) = Len(p) + Len(q)
    BY DEF Splits
  <2>2. q # <<>>
    BY DEF EndsLine
  <2>3. Len(q) # 0
    BY <2>1, <2>2 DEF ByteSeq
  <2> QED
    BY <2>1, <2>3, ConcatFacts
<1>2. s[Len(p) + Len(q)] = q[Len(q)]
  BY <1>1 DEF Splits
<1>3. s # <<>>
  BY <1>1, EmptyBytes
<1> QED
  BY <1>1, <1>2, <1>3 DEF EndsLine, Last

(* A line is delivered that follows what was delivered or lost. *)
LEMMA LineDelivered ==
  ASSUME delivered \in ByteSeq, NEW p \in Nat, ToSet(delivered) \subseteq 1 .. p,
         p = 0 \/ p \in reader.failed \/ (delivered # <<>> /\ Last(delivered) = p),
         LinesDelivered, NEW s \in ByteSeq, Follows(p, s), EndsLine(s),
         delivered' = delivered \o s, reader'.failed = reader.failed, eols' = eols
  PROVE  /\ LinesDelivered'
         /\ delivered' # <<>> /\ Last(delivered') = p + Len(s)
         /\ ToSet(delivered') = ToSet(delivered) \cup (p + 1 .. p + Len(s))
<1>1. Splits(delivered', delivered, s)
  BY ConcatSplits
<1>2. Len(s) \in Nat /\ Len(s) # 0 /\ s[Len(s)] = p + Len(s) /\ Last(s) = p + Len(s)
  <2>1. Len(s) \in Nat /\ s # <<>>
    BY ConcatFacts DEF EndsLine
  <2>2. Len(s) # 0
    BY <2>1 DEF ByteSeq
  <2>3. s[Len(s)] = p + Len(s)
    BY <2>1, <2>2 DEF Follows
  <2> QED
    BY <2>1, <2>2, <2>3 DEF Last
<1>3. ToSet(s) = p + 1 .. p + Len(s) /\ Ascending(s)
  BY FollowsFacts
<1>4. EndsLine(delivered') /\ Last(delivered') = p + Len(s)
  BY <1>1, <1>2, LineEnd
<1>5. ToSet(delivered') = ToSet(delivered) \cup (p + 1 .. p + Len(s))
  BY <1>1, <1>3, SplitSets
<1>6. Ascending(delivered')
  <2>1. \A x \in ToSet(delivered), y \in ToSet(s) : x < y
    BY <1>2, <1>3
  <2> QED
    BY <1>1, <1>3, <2>1, SplitAscending DEF LinesDelivered
<1>7. ASSUME NEW i \in 1 .. Len(delivered')
      PROVE  \/ i > 1 /\ delivered'[i] = delivered'[i - 1] + 1
             \/ /\ delivered'[i] - 1 \in reader.failed \cup {0}
                /\ i > 1 => delivered'[i - 1] \in eols /\ delivered'[i - 1] < delivered'[i]
  <2> DEFINE n == Len(delivered)
  <2>0. n \in Nat /\ i \in Nat /\ i >= 1 /\ Len(delivered') = n + Len(s)
    BY <1>1, SplitIndices DEF Splits
  <2>1. CASE i \in 1 .. n
    <3>1. delivered'[i] = delivered[i]
      BY <1>1, <2>1, SplitIndices
    <3>2. i > 1 => i - 1 \in 1 .. n
      BY <2>0, <2>1
    <3>3. i > 1 => delivered'[i - 1] = delivered[i - 1]
      BY <1>1, <3>2, SplitIndices
    <3> QED
      BY <2>1, <3>1, <3>3 DEF LinesDelivered
  <2>2. CASE i > n /\ i - n \in 1 .. Len(s) /\ delivered'[i] = s[i - n] /\ i # n + 1
    <3>1. i - 1 > n /\ (i - 1) - n \in 1 .. Len(s) /\ i - 1 \in 1 .. Len(delivered') /\ ~(i - 1 \in 1 .. n)
          /\ i > 1
      BY <1>2, <2>0, <2>2
    <3>2. delivered'[i - 1] = s[(i - 1) - n]
      BY <1>1, <3>1, SplitIndices
    <3>3. s[i - n] = p + (i - n) /\ s[(i - 1) - n] = p + ((i - 1) - n)
      BY <2>2, <3>1 DEF Follows
    <3> QED
      BY <2>0, <2>2, <3>1, <3>2, <3>3
  <2>3. CASE i = n + 1 /\ delivered'[i] = s[i - n]
    <3>1. delivered'[i] = p + 1
      <4>1. i - n = 1 /\ 1 \in 1 .. Len(s)
        BY <1>2, <2>0, <2>3
      <4> QED
        BY <2>3, <4>1 DEF Follows
    <3>2. CASE n = 0
      <4>1. delivered = <<>>
        BY <3>2 DEF ByteSeq
      <4>2. p \in reader.failed \cup {0} /\ ~(i > 1)
        BY <2>0, <2>3, <3>2, <4>1
      <4> QED
        BY <3>1, <4>2
    <3>3. CASE n # 0
      <4>1. i - 1 = n /\ n \in 1 .. n /\ i > 1 /\ delivered # <<>>
        BY <2>0, <2>3, <3>3, EmptyBytes
      <4>2. delivered'[i - 1] = delivered[n] /\ delivered[n] = Last(delivered)
        BY <1>1, <4>1, SplitIndices DEF Last
      <4>3. delivered[n] \in eols /\ delivered[n] \in ToSet(delivered)
        BY <4>1, <4>2, ToSetIs DEF LinesDelivered
      <4>4. delivered[n] \in 1 .. p
        BY <4>3
      <4>5. CASE p = 0 \/ p \in reader.failed
        BY <3>1, <4>1, <4>2, <4>3, <4>4, <4>5
      <4>6. CASE Last(delivered) = p
        BY <3>1, <4>1, <4>2, <4>6
      <4> QED
        BY <4>5, <4>6
    <3> QED
      BY <3>2, <3>3
  <2> QED
    BY <1>1, <2>0, <2>1, <2>2, <2>3, SplitIndices
<1> QED
  BY <1>4, <1>5, <1>6, <1>7 DEF LinesDelivered, EndsLine

LEMMA ChunkForFacts ==
  ASSUME NEW s \in ByteSeq, Len(s) <= max_line_size
  PROVE  ChunkFor(s) \in Nat /\ ChunkFor(s) <= (max_line_size + 1) - Len(s)
<1>1. /\ max_line_size + 1 - Len(s) \in Nat /\ input_chunk_size \in Nat
      /\ max_line_size + 1 - Len(s) = (max_line_size + 1) - Len(s)
  BY LinesAssumption, ConcatFacts
<1>2. ChunkFor(s) = Min2(max_line_size + 1 - Len(s), input_chunk_size)
  BY DEF ChunkFor
<1> QED
  BY <1>1, <1>2, Min2Facts

LEMMA LinesReads ==
  ASSUME ReadersShared, LinesInv, UNCHANGED kind, OpenReads = {}, NEW timeout \in 0 .. Never,
         LinesHandleRequest(timeout)
  PROVE  ReadersShared' /\ ReadStep /\ LinesInv'
<1> DEFINE r == Request(timeout)
           buffer == reader.buffer
           line == Prefix(buffer, EolPos(buffer))
           rest == Suffix(buffer, EolPos(buffer))
<1>a. /\ Read(0, timeout) /\ queues' = queues /\ taken' = taken /\ delivered' = delivered
      /\ \/ /\ HasEol(buffer) /\ InvokeLater(r, "ok", line)
            /\ reader' = [reader EXCEPT !.buffer = rest]
            /\ UNCHANGED <<base, asked>>
         \/ /\ ~HasEol(buffer)
            /\ reader' = [reader EXCEPT !.buffer = <<>>, !.line[r.id] = buffer]
            /\ ReadFromBase(r, ChunkFor(buffer))
            /\ UNCHANGED later
  BY DEF LinesHandleRequest
<1>b. NewRequest(r) /\ Forwarded(r) = r /\ alive /\ alive' = alive /\ eols' = eols
      /\ r.id \in 1 .. MaxRequests
  BY <1>a, ReadMade
<1>c. taken' \in 0 .. StreamLen /\ taken \in Nat /\ delivered \in ByteSeq
  BY <1>a, Shared, BytesReadingAssumption DEF BytesType
<1>d. /\ reader \in [buffer : ByteSeq, line : [1 .. MaxRequests -> ByteSeq], failed : SUBSET Nat]
      /\ buffer \in ByteSeq /\ Len(buffer) <= max_line_size
      /\ \A n \in 1 .. MaxRequests : reader.line[n] # <<>> => \E o \in base : o.id = n
      /\ \A n \in 1 .. MaxRequests : Len(reader.line[n]) <= max_line_size
  BY DEF LinesInv, LinesType
<1>e. base = {} /\ later = {} /\ OneOpen
  BY OneOpenFacts DEF LinesInv
<1> PICK p \in Nat : LinesAt(p)
  BY DEF LinesInv
<1>f. /\ p \in 0 .. taken /\ ToSet(delivered) \cup reader.failed = 1 .. p
      /\ p = 0 \/ p \in reader.failed \/ (delivered # <<>> /\ Last(delivered) = p)
      /\ Follows(p, buffer) /\ p + Len(buffer) = taken
  BY <1>b, <1>e DEF LinesAt
<1>g. LinesDelivered /\ 0 \in Nat
  BY DEF LinesInv
<1>h. max_line_size \in Nat
  BY LinesAssumption
<1> HIDE DEF r, buffer, line, rest
<1>1. CASE /\ HasEol(buffer) /\ InvokeLater(r, "ok", line)
           /\ reader' = [reader EXCEPT !.buffer = rest] /\ UNCHANGED <<base, asked>>
  <2>1. Splits(buffer, line, rest) /\ EndsLine(line)
    BY <1>1, <1>d, EolFacts DEF line, rest
  <2>2. line \in ByteSeq /\ rest \in ByteSeq /\ Len(buffer) = Len(line) + Len(rest)
        /\ Len(line) \in Nat /\ Len(rest) \in Nat
    BY <2>1, ConcatFacts DEF Splits
  <2>3. InTimeResult("ok")
    BY DEF InTimeResult
  <2>4. ReadersShared' /\ ReadStep
    BY <1>1, <1>a, <1>c, <2>2, <2>3, ReadLater DEF r
  <2>5. OneOpen'
    BY <2>4, <1>e, OneOpenKept
  <2> DEFINE new == [read |-> r, res |-> "ok", bytes |-> line]
  <2>6. /\ later' = {new} /\ new.bytes = line
        /\ reader'.buffer = rest /\ reader'.line = reader.line /\ reader'.failed = reader.failed
        /\ reader' \in [buffer : ByteSeq, line : [1 .. MaxRequests -> ByteSeq], failed : SUBSET Nat]
        /\ base' = {}
    BY <1>1, <1>d, <1>e, <2>2 DEF InvokeLater
  <2> HIDE DEF new
  <2>7. Follows(p, line) /\ Follows(p + Len(line), rest) /\ (p + Len(line)) + Len(rest) = taken
        /\ p + Len(line) <= taken
    BY <1>f, <2>1, <2>2, SplitFollows
  <2>8. LinesType'
    <3>1. Len(rest) <= max_line_size
      BY <1>d, <1>h, <2>2
    <3> QED
      BY <1>d, <1>e, <2>6, <3>1 DEF LinesType
  <2>9. LinesDelivered'
    BY <1>a, <1>b, <1>g, <2>6 DEF LinesDelivered
  <2>10. LinesAt(p)'
    BY <1>a, <1>f, <2>1, <2>6, <2>7, <1>b DEF LinesAt, EndsLine
  <2> QED
    BY <2>4, <2>5, <2>8, <2>9, <2>10 DEF LinesInv
<1>2. CASE /\ reader' = [reader EXCEPT !.buffer = <<>>, !.line[r.id] = buffer]
           /\ ReadFromBase(r, ChunkFor(buffer)) /\ UNCHANGED later
  <2>1. ChunkFor(buffer) \in Nat /\ ChunkFor(buffer) <= (max_line_size + 1) - Len(buffer)
    BY <1>d, ChunkForFacts
  <2>2. base' = {r} /\ asked' = [asked EXCEPT ![r.id] = ChunkFor(buffer)] /\ base' = base \cup {r}
        /\ later' = {}
    BY <1>2, <1>b, <1>e DEF ReadFromBase
  <2>3. ReadersShared' /\ ReadStep
    BY <1>2, <1>a, <2>1, <2>2, ReadAtBase DEF r
  <2>4. OneOpen'
    BY <2>3, <1>e, OneOpenKept
  <2>5. /\ reader'.buffer = <<>> /\ reader'.failed = reader.failed
        /\ reader'.line = [reader.line EXCEPT ![r.id] = buffer]
        /\ reader' \in [buffer : ByteSeq, line : [1 .. MaxRequests -> ByteSeq], failed : SUBSET Nat]
    BY <1>2, <1>b, <1>d, EmptyBytes
  <2>6. /\ reader'.line[r.id] = buffer
        /\ \A n \in 1 .. MaxRequests : n # r.id => reader'.line[n] = reader.line[n]
    BY <2>5, <1>b, <1>d
  <2>7. asked'[r.id] = ChunkFor(buffer)
    BY <2>2, <1>b, Shared DEF BytesType
  <2>8. LinesType'
    <3>1. \A n \in 1 .. MaxRequests : Len(reader'.line[n]) <= max_line_size
      BY <1>d, <2>6
    <3>2. \A n \in 1 .. MaxRequests : reader'.line[n] # <<>> => \E o \in base' : o.id = n
      BY <1>d, <1>e, <2>2, <2>6
    <3>3. \A o \in base' : asked'[o.id] <= (max_line_size + 1) - Len(reader'.line[o.id])
      BY <2>1, <2>2, <2>6, <2>7
    <3>4. Len(reader'.buffer) <= max_line_size
      BY <1>h, <2>5, EmptyBytes
    <3> QED
      BY <2>5, <3>1, <3>2, <3>3, <3>4 DEF LinesType
  <2>9. LinesDelivered'
    BY <1>a, <1>b, <1>g, <2>5 DEF LinesDelivered
  <2>10. LinesAt(p)'
    BY <1>a, <1>f, <2>2, <2>5, <2>6 DEF LinesAt
  <2> QED
    BY <2>3, <2>4, <2>8, <2>9, <2>10 DEF LinesInv
<1> QED
  BY <1>a, <1>1, <1>2

(* What the answer of the base reader finds. *)
LEMMA LinesAnswered ==
  ASSUME ReadersShared, LinesInv, NEW r \in base, NEW b \in BaseResults(r, asked[r.id])
  PROVE  /\ b.bytes \in ByteSeq /\ taken + Len(b.bytes) \in 0 .. StreamLen
         /\ reader.line[r.id] \in ByteSeq /\ Len(reader.line[r.id]) <= max_line_size
         /\ Len(reader.line[r.id]) + Len(b.bytes) <= max_line_size + 1
         /\ Len(reader.line[r.id]) \in Nat /\ Len(b.bytes) \in Nat
         /\ Splits(reader.line[r.id] \o b.bytes, reader.line[r.id], b.bytes)
         /\ base = {r} /\ later = {} /\ OneOpen
         /\ reader.buffer = <<>> /\ r.id \in 1 .. MaxRequests
         /\ taken \in Nat /\ delivered \in ByteSeq
         /\ \A p \in Nat : LinesAt(p) =>
              /\ Follows(p, reader.line[r.id] \o b.bytes)
              /\ p + Len(reader.line[r.id] \o b.bytes) = taken + Len(b.bytes)
         /\ \A n \in 1 .. MaxRequests : n # r.id => reader.line[n] = <<>>
<1> DEFINE line == reader.line[r.id]
<1>1. r.id \in 1 .. MaxRequests /\ asked[r.id] \in Nat /\ taken \in Nat /\ delivered \in ByteSeq
  BY ReadIds, Shared, BytesReadingAssumption DEF BytesType
<1>2. /\ b.bytes \in ByteSeq /\ Len(b.bytes) \in 0 .. asked[r.id]
      /\ taken + Len(b.bytes) \in 0 .. StreamLen /\ Follows(taken, b.bytes)
  BY <1>1, ResultFacts
<1>3. /\ line \in ByteSeq /\ Len(line) <= max_line_size
      /\ asked[r.id] <= (max_line_size + 1) - Len(line)
  BY <1>1 DEF LinesInv, LinesType
<1>4. Len(line) \in Nat /\ Len(b.bytes) \in Nat
  BY <1>2, <1>3, ConcatFacts
<1>5. base = {r} /\ later = {} /\ OneOpen
  BY OneOpenFacts DEF LinesInv
<1>6. reader.buffer = <<>>
  BY DEF LinesInv, LinesAt
<1>7. Splits(line \o b.bytes, line, b.bytes)
  BY <1>2, <1>3, ConcatSplits
<1> DEFINE whole == line \o b.bytes
<1>8. ASSUME NEW p \in Nat, LinesAt(p)
      PROVE  Follows(p, whole) /\ p + Len(whole) = taken + Len(b.bytes)
  <2>1. Follows(p, line) /\ p + Len(line) = taken
    BY <1>8 DEF LinesAt
  <2>a. Splits(whole, line, b.bytes)
    BY <1>7
  <2>b. Len(b.bytes) \in Nat /\ Len(line) \in Nat
    BY <1>4
  <2> HIDE DEF whole, line
  <2>c. Follows(p + Len(line), b.bytes)
    BY <1>2, <2>1
  <2>2. Follows(p, whole)
    BY <2>a, <2>1, <2>c, SplitFollows
  <2>3. Len(whole) = Len(line) + Len(b.bytes)
    BY <2>a DEF Splits
  <2> QED
    BY <1>1, <2>b, <2>1, <2>2, <2>3
<1>9. \A n \in 1 .. MaxRequests : n # r.id => reader.line[n] = <<>>
  <2> TAKE n \in 1 .. MaxRequests
  <2>1. reader.line[n] # <<>> => \E o \in base : o.id = n
    BY DEF LinesInv, LinesType
  <2> QED
    BY <1>5, <2>1
<1> HIDE DEF line
<1>10. Len(line) + Len(b.bytes) <= max_line_size + 1
  BY <1>1, <1>2, <1>3, <1>4, LinesAssumption
<1> QED
  BY <1>1, <1>2, <1>3, <1>4, <1>5, <1>6, <1>7, <1>8, <1>9, <1>10 DEF line, whole

LEMMA LineEndsStep ==
  ASSUME ReadersShared, LinesInv, UNCHANGED kind, NEW r \in base,
         NEW b \in BaseResults(r, asked[r.id]), LineEnds(r, b)
  PROVE  ReadersShared' /\ ReadStep /\ LinesInv'
<1> DEFINE line == reader.line[r.id]
           whole == line \o b.bytes
           head == Prefix(b.bytes, EolPos(b.bytes))
           tail == Suffix(b.bytes, EolPos(b.bytes))
           given == line \o head
           rest == IF alive THEN tail ELSE <<>>
           a == [b EXCEPT !.bytes = given]
<1>1. /\ HasEol(b.bytes) /\ AnswerBytes(r, b, a)
      /\ reader' = [reader EXCEPT !.buffer = @ \o rest, !.line[r.id] = <<>>]
  BY DEF LineEnds
<1>2. /\ b.bytes \in ByteSeq /\ taken + Len(b.bytes) \in 0 .. StreamLen
      /\ line \in ByteSeq /\ Len(line) \in Nat /\ Len(line) <= max_line_size
      /\ Len(line) + Len(b.bytes) <= max_line_size + 1 /\ Len(b.bytes) \in Nat
      /\ Splits(whole, line, b.bytes)
      /\ base = {r} /\ later = {} /\ OneOpen /\ reader.buffer = <<>> /\ r.id \in 1 .. MaxRequests
      /\ taken \in Nat /\ delivered \in ByteSeq
      /\ \A n \in 1 .. MaxRequests : n # r.id => reader.line[n] = <<>>
  BY LinesAnswered
<1> PICK p \in Nat : LinesAt(p)
  BY DEF LinesInv
<1>3. Follows(p, whole) /\ p + Len(whole) = taken + Len(b.bytes)
  BY LinesAnswered
<1>5. Splits(b.bytes, head, tail) /\ EndsLine(head)
  BY <1>1, <1>2, EolFacts
<1>6. head \in ByteSeq /\ tail \in ByteSeq /\ Len(b.bytes) = Len(head) + Len(tail)
      /\ Len(head) \in Nat /\ Len(tail) \in Nat
  BY <1>5, ConcatFacts DEF Splits
<1>a. Len(head) # 0
  <2>1. head # <<>>
    BY <1>5 DEF EndsLine
  <2> QED
    BY <1>6, <2>1 DEF ByteSeq
<1>7. Splits(given, line, head)
  BY <1>2, <1>6, ConcatSplits
<1> HIDE DEF line, whole, head, tail, given
<1>4. a.bytes = given
  BY ResultIsRecord
<1> HIDE DEF a
<1>8. given \in ByteSeq /\ Len(given) = Len(line) + Len(head) /\ Len(given) \in Nat
      /\ EndsLine(given)
  <2>1. given \in ByteSeq /\ Len(given) = Len(line) + Len(head)
    BY <1>7 DEF Splits
  <2>2. EndsLine(given)
    BY <1>5, <1>7, LineEnd
  <2> QED
    BY <1>2, <1>6, <2>1, <2>2
<1>9. Len(whole) = Len(line) + Len(b.bytes)
  BY <1>2 DEF Splits
<1>10. Follows(p, given) /\ Follows(p + Len(given), tail)
  <2>1. Follows(p, line) /\ Follows(p + Len(line), b.bytes)
    BY <1>2, <1>3, SplitFollows
  <2>2. p + Len(line) \in Nat
    BY <1>2
  <2>3. Follows(p + Len(line), head) /\ Follows((p + Len(line)) + Len(head), tail)
    BY <1>5, <2>1, <2>2, SplitFollows
  <2>4. (p + Len(line)) + Len(head) = p + Len(given)
    BY <1>2, <1>6, <1>8
  <2> QED
    BY <1>7, <2>1, <2>3, <2>4, SplitFollows
<1>11. ReadersShared' /\ ReadStep
  BY <1>1, <1>2, <1>4, <1>8, AnswerBytesStep
<1>12. /\ base' = {} /\ taken' = taken + Len(b.bytes) /\ delivered' = delivered \o given
       /\ alive' = alive /\ later' = {} /\ deadlines' = deadlines /\ eols' = eols
  BY <1>1, <1>2, <1>4, AnswerBytesIs
<1>13. OneOpen'
  BY <1>2, <1>11, <1>12, OneOpenKept
<1>14. rest \in ByteSeq /\ Len(rest) <= max_line_size /\ (alive => rest = tail)
  <2>1. Len(tail) <= max_line_size
    BY <1>2, <1>6, <1>a, LinesAssumption
  <2>2. Len(<<>>) <= max_line_size
    BY EmptyBytes, LinesAssumption
  <2> QED
    BY <1>6, <2>1, <2>2, EmptyBytes
<1> HIDE DEF rest
<1>15. reader \in [buffer : ByteSeq, line : [1 .. MaxRequests -> ByteSeq], failed : SUBSET Nat]
  BY DEF LinesInv, LinesType
<1>16. /\ reader'.buffer = rest /\ reader'.failed = reader.failed
       /\ reader' \in [buffer : ByteSeq, line : [1 .. MaxRequests -> ByteSeq], failed : SUBSET Nat]
       /\ \A n \in 1 .. MaxRequests : reader'.line[n] = <<>>
  <2>1. <<>> \o rest = rest
    BY <1>14, EmptyBytes, ConcatFacts
  <2>2. reader' = [reader EXCEPT !.buffer = rest, !.line[r.id] = <<>>]
    BY <1>1, <1>2, <2>1
  <2>3. /\ reader'.buffer = rest /\ reader'.failed = reader.failed
        /\ reader'.line = [reader.line EXCEPT ![r.id] = <<>>]
        /\ reader' \in [buffer : ByteSeq, line : [1 .. MaxRequests -> ByteSeq], failed : SUBSET Nat]
    BY <1>2, <1>14, <1>15, <2>2, EmptyBytes
  <2> QED
    BY <1>2, <1>15, <2>3
<1>17. LinesType'
  <2>1. Len(<<>>) <= max_line_size
    BY EmptyBytes, LinesAssumption
  <2> QED
    BY <1>12, <1>14, <1>16, <2>1 DEF LinesType
<1>18. /\ LinesDelivered' /\ delivered' # <<>> /\ Last(delivered') = p + Len(given)
       /\ ToSet(delivered') = ToSet(delivered) \cup (p + 1 .. p + Len(given))
  <2>1. /\ ToSet(delivered) \subseteq 1 .. p
        /\ p = 0 \/ p \in reader.failed \/ (delivered # <<>> /\ Last(delivered) = p)
    BY DEF LinesAt
  <2>2. LinesDelivered
    BY DEF LinesInv
  <2> QED
    BY <1>2, <1>8, <1>10, <1>12, <1>16, <2>1, <2>2, LineDelivered
<1> PICK q \in Nat : q = p + Len(given)
  BY <1>8
<1>19. LinesAt(q)'
  <2>1. q \in 0 .. taken' /\ q + Len(tail) = taken'
    BY <1>2, <1>3, <1>6, <1>8, <1>9, <1>12, SMTT(20)
  <2>2. ToSet(delivered') \cup reader'.failed = 1 .. q
    BY <1>8, <1>16, <1>18 DEF LinesAt
  <2>3. delivered' # <<>> /\ Last(delivered') = q
    BY <1>18
  <2>4. alive' => Follows(q, reader'.buffer) /\ q + Len(reader'.buffer) = taken'
    BY <1>10, <1>12, <1>14, <1>16, <2>1
  <2> QED
    BY <1>12, <2>1, <2>2, <2>3, <2>4 DEF LinesAt
<1> QED
  BY <1>11, <1>13, <1>17, <1>18, <1>19 DEF LinesInv

LEMMA LineFailsStep ==
  ASSUME ReadersShared, LinesInv, UNCHANGED kind, NEW r \in base,
         NEW b \in BaseResults(r, asked[r.id]), LineFails(r, b)
  PROVE  ReadersShared' /\ ReadStep /\ LinesInv'
<1> DEFINE line == reader.line[r.id]
           whole == line \o b.bytes
<1>1. reader' = [reader EXCEPT !.line[r.id] = <<>>, !.failed = @ \cup ToSet(whole)]
  BY DEF LineFails
<1>2. \E a : AnswerBytes(r, b, a) /\ a.bytes = <<>>
  <2>1. CASE b.res # "ok" /\ AnswerBytes(r, b, b)
    <3>1. asked[r.id] \in Nat
      BY ReadIds, Shared DEF BytesType
    <3>2. b.bytes = <<>>
      BY <2>1, <3>1, ResultFacts
    <3> QED
      BY <2>1, <3>2
  <2>2. ASSUME NEW res, AnswerBytes(r, b, [res |-> res, bytes |-> <<>>])
        PROVE  \E a : AnswerBytes(r, b, a) /\ a.bytes = <<>>
    <3> DEFINE a == [res |-> res, bytes |-> <<>>]
    <3>1. AnswerBytes(r, b, a) /\ a.bytes = <<>>
      BY <2>2
    <3> HIDE DEF a
    <3> QED
      BY <3>1
  <2> QED
    BY <2>1, <2>2 DEF LineFails
<1> PICK a : AnswerBytes(r, b, a) /\ a.bytes = <<>>
  BY <1>2
<1>3. /\ b.bytes \in ByteSeq /\ taken + Len(b.bytes) \in 0 .. StreamLen
      /\ Splits(whole, line, b.bytes) /\ Len(b.bytes) \in Nat
      /\ base = {r} /\ later = {} /\ OneOpen /\ reader.buffer = <<>> /\ r.id \in 1 .. MaxRequests
      /\ taken \in Nat /\ delivered \in ByteSeq
      /\ \A n \in 1 .. MaxRequests : n # r.id => reader.line[n] = <<>>
  BY LinesAnswered
<1> PICK p \in Nat : LinesAt(p)
  BY DEF LinesInv
<1>4. Follows(p, whole) /\ p + Len(whole) = taken + Len(b.bytes)
  BY LinesAnswered
<1> HIDE DEF line, whole
<1>5. whole \in ByteSeq /\ ToSet(whole) = p + 1 .. p + Len(whole) /\ Len(whole) \in Nat
  <2>1. whole \in ByteSeq
    BY <1>3 DEF Splits
  <2> QED
    BY <1>4, <2>1, FollowsFacts, ConcatFacts
<1>6. ReadersShared' /\ ReadStep
  BY <1>2, <1>3, AnswerBytesStep, EmptyBytes
<1>7. /\ base' = {} /\ taken' = taken + Len(b.bytes) /\ delivered' = delivered \o <<>>
      /\ alive' = alive /\ later' = {} /\ deadlines' = deadlines /\ eols' = eols
  BY <1>2, <1>3, AnswerBytesIs
<1>8. OneOpen'
  BY <1>3, <1>6, <1>7, OneOpenKept
<1>9. delivered' = delivered
  BY <1>3, <1>7, EmptyBytes, ConcatFacts
<1>10. reader \in [buffer : ByteSeq, line : [1 .. MaxRequests -> ByteSeq], failed : SUBSET Nat]
  BY DEF LinesInv, LinesType
<1>11. /\ reader'.buffer = <<>> /\ reader'.failed = reader.failed \cup ToSet(whole)
       /\ reader' \in [buffer : ByteSeq, line : [1 .. MaxRequests -> ByteSeq], failed : SUBSET Nat]
       /\ \A n \in 1 .. MaxRequests : reader'.line[n] = <<>>
  <2>a. ToSet(whole) \subseteq Nat
    BY <1>5
  <2>1. /\ reader'.buffer = <<>> /\ reader'.failed = reader.failed \cup ToSet(whole)
        /\ reader'.line = [reader.line EXCEPT ![r.id] = <<>>]
        /\ reader' \in [buffer : ByteSeq, line : [1 .. MaxRequests -> ByteSeq], failed : SUBSET Nat]
    BY <1>1, <1>3, <1>10, <2>a, EmptyBytes
  <2> QED
    BY <1>3, <1>10, <2>1
<1>12. LinesType'
  <2>1. Len(<<>>) <= max_line_size
    BY EmptyBytes, LinesAssumption
  <2> QED
    BY <1>7, <1>11, <2>1 DEF LinesType
<1>13. LinesDelivered'
  <2>1. reader.failed \subseteq reader'.failed
    BY <1>11
  <2> QED
    BY <1>7, <1>9, <2>1 DEF LinesInv, LinesDelivered
<1> PICK q \in Nat : q = p + Len(whole)
  BY <1>5
<1>14. LinesAt(q)'
  <2>1. q \in 0 .. taken' /\ q = taken'
    BY <1>4, <1>7
  <2>2. ToSet(delivered') \cup reader'.failed = 1 .. q
    <3>1. 1 .. q = (1 .. p) \cup (p + 1 .. p + Len(whole))
      BY <1>5
    <3> QED
      BY <1>5, <1>9, <1>11, <3>1 DEF LinesAt
  <2>3. q = 0 \/ q \in reader'.failed \/ (delivered' # <<>> /\ Last(delivered') = q)
    <3>1. CASE Len(whole) = 0
      <4>1. q = p
        BY <3>1
      <4> QED
        BY <1>9, <1>11, <4>1 DEF LinesAt
    <3>2. CASE Len(whole) # 0
      <4>1. q \in p + 1 .. p + Len(whole)
        BY <1>5, <3>2
      <4> QED
        BY <1>5, <1>11, <4>1
    <3> QED
      BY <3>1, <3>2
  <2>4. Follows(q, <<>>) /\ q + Len(<<>>) = taken'
    BY <2>1, EmptyBytes DEF Follows
  <2> QED
    BY <1>7, <1>11, <2>1, <2>2, <2>3, <2>4 DEF LinesAt
<1> QED
  BY <1>6, <1>8, <1>12, <1>13, <1>14 DEF LinesInv

LEMMA BaseKnown ==
  ASSUME ReadersShared, NEW r \in base
  PROVE  /\ deadlines[r.id] \in 0 .. Never /\ r.timeout_end \in 0 .. Never /\ etime \in 0 .. Never
         /\ deadlines[r.id] <= r.timeout_end
         /\ r.timeout_end <= etime => deadlines[r.id] <= etime
<1>1. SharedType /\ base \in SUBSET RequestType /\ Known(base)
  BY Shared DEF SharedType, KnownInv
<1> QED
  BY <1>1, KnownFacts

(* A request that stays at the base reader, with another end of its time. *)
LEMMA ReadsOnStep ==
  ASSUME ReadersShared, UNCHANGED kind, NEW r \in base, NEW t \in 0 .. Never, deadlines[r.id] <= t,
         base' = (base \ {r}) \cup {[r EXCEPT !.timeout_end = t]},
         NEW n \in Nat, asked' = [asked EXCEPT ![r.id] = n],
         NEW b, b.bytes \in ByteSeq, taken' = taken + Len(b.bytes), taken' \in 0 .. StreamLen,
         delivered' \in ByteSeq,
         UNCHANGED <<etime, deadlines, queues, alive, mode, called, cancelled, result>>,
         UNCHANGED <<sizes, later>>
  PROVE  /\ ReadersShared' /\ ReadStep
         /\ [r EXCEPT !.timeout_end = t].id = r.id
<1>1. SharedInv' /\ ContractStep
  BY RenewStep, Shared
<1>2. LaterInv' /\ ReadStep
  BY <1>1, SameLater, Shared
<1>3. asked' \in [1 .. MaxRequests -> Nat]
  BY ReadIds, Shared DEF BytesType
<1>4. BytesType'
  BY <1>3, Shared DEF BytesType
<1>5. [r EXCEPT !.timeout_end = t].id = r.id
  BY Shared DEF SharedType, RequestType
<1> QED
  BY <1>1, <1>2, <1>4, <1>5 DEF ReadersShared

LEMMA LineContinuesStep ==
  ASSUME ReadersShared, LinesInv, UNCHANGED kind, NEW r \in base,
         NEW b \in BaseResults(r, asked[r.id]), LineContinues(r, b)
  PROVE  ReadersShared' /\ ReadStep /\ LinesInv'
<1> DEFINE line == reader.line[r.id]
           whole == line \o b.bytes
           t == SatAdd(etime, Remaining(r, etime), Never)
           f == Forwarded(r)
<1>1. /\ Len(whole) <= max_line_size /\ taken' = taken + Len(b.bytes)
      /\ reader' = [reader EXCEPT !.line[r.id] = whole]
      /\ base' = (base \ {r}) \cup {f} /\ f = [r EXCEPT !.timeout_end = t]
      /\ asked' = [asked EXCEPT ![r.id] = ChunkFor(whole)]
      /\ UNCHANGED <<etime, deadlines, queues, alive, mode, called, cancelled, result>>
      /\ UNCHANGED <<sizes, later, delivered, eols>>
  BY DEF LineContinues, Forwarded
<1>2. /\ b.bytes \in ByteSeq /\ taken + Len(b.bytes) \in 0 .. StreamLen
      /\ Splits(whole, line, b.bytes) /\ Len(b.bytes) \in Nat
      /\ base = {r} /\ later = {} /\ OneOpen /\ reader.buffer = <<>> /\ r.id \in 1 .. MaxRequests
      /\ taken \in Nat /\ delivered \in ByteSeq
      /\ \A n \in 1 .. MaxRequests : n # r.id => reader.line[n] = <<>>
  BY LinesAnswered
<1> PICK p \in Nat : LinesAt(p)
  BY DEF LinesInv
<1>3. Follows(p, whole) /\ p + Len(whole) = taken + Len(b.bytes)
  BY LinesAnswered
<1>4. t \in 0 .. Never /\ deadlines[r.id] <= t
  <2>1. r.timeout_end \in 0 .. Never /\ etime \in 0 .. Never /\ deadlines[r.id] \in 0 .. Never
        /\ deadlines[r.id] <= r.timeout_end
    BY BaseKnown
  <2>2. t \in r.timeout_end .. Never
    BY <2>1, NeverFacts DEF SatAdd, Remaining
  <2> HIDE DEF t
  <2> QED
    BY <2>1, <2>2, NeverFacts
<1> HIDE DEF line, whole, t, f
<1>5. whole \in ByteSeq /\ ChunkFor(whole) \in Nat
      /\ ChunkFor(whole) <= (max_line_size + 1) - Len(whole)
  <2>1. whole \in ByteSeq
    BY <1>2 DEF Splits
  <2> QED
    BY <1>1, <2>1, ChunkForFacts
<1>a. base' = (base \ {r}) \cup {[r EXCEPT !.timeout_end = t]}
  BY <1>1
<1>b. delivered' \in ByteSeq /\ taken' \in 0 .. StreamLen
  BY <1>1, <1>2
<1>6. ReadersShared' /\ ReadStep /\ f.id = r.id
  BY <1>a, <1>b, <1>1, <1>2, <1>4, <1>5, ReadsOnStep
<1>7. base' = {f} /\ later' = {}
  BY <1>1, <1>2
<1>8. OneOpen'
  BY <1>1, <1>2, <1>6, OneOpenKept
<1>10. reader \in [buffer : ByteSeq, line : [1 .. MaxRequests -> ByteSeq], failed : SUBSET Nat]
       /\ \A n \in 1 .. MaxRequests : Len(reader.line[n]) <= max_line_size
  BY DEF LinesInv, LinesType
<1>11. /\ reader'.buffer = <<>> /\ reader'.failed = reader.failed
       /\ reader' \in [buffer : ByteSeq, line : [1 .. MaxRequests -> ByteSeq], failed : SUBSET Nat]
       /\ reader'.line[r.id] = whole
       /\ \A n \in 1 .. MaxRequests : n # r.id => reader'.line[n] = reader.line[n]
  <2>1. /\ reader'.buffer = <<>> /\ reader'.failed = reader.failed
        /\ reader'.line = [reader.line EXCEPT ![r.id] = whole]
        /\ reader' \in [buffer : ByteSeq, line : [1 .. MaxRequests -> ByteSeq], failed : SUBSET Nat]
    BY <1>1, <1>2, <1>5, <1>10
  <2> QED
    BY <1>2, <1>10, <2>1
<1>12. LinesType'
  <2>1. \A n \in 1 .. MaxRequests : Len(reader'.line[n]) <= max_line_size
    BY <1>1, <1>10, <1>11
  <2>2. \A n \in 1 .. MaxRequests : reader'.line[n] # <<>> => \E o \in base' : o.id = n
    BY <1>2, <1>6, <1>7, <1>11
  <2>3. asked'[r.id] = ChunkFor(whole)
    BY <1>1, <1>2, Shared DEF BytesType
  <2>4. \A o \in base' : asked'[o.id] <= (max_line_size + 1) - Len(reader'.line[o.id])
    BY <1>5, <1>6, <1>7, <1>11, <2>3
  <2>5. Len(<<>>) <= max_line_size
    BY EmptyBytes, LinesAssumption
  <2> QED
    BY <1>11, <2>1, <2>2, <2>4, <2>5 DEF LinesType
<1>13. LinesDelivered'
  BY <1>1, <1>11 DEF LinesInv, LinesDelivered
<1>14. LinesAt(p)'
  <2>1. p \in 0 .. taken'
    BY <1>1, <1>2 DEF LinesAt
  <2>2. \A o \in base' : Follows(p, reader'.line[o.id]) /\ p + Len(reader'.line[o.id]) = taken'
    BY <1>1, <1>3, <1>6, <1>7, <1>11
  <2> QED
    BY <1>1, <1>7, <1>11, <2>1, <2>2 DEF LinesAt
<1> QED
  BY <1>6, <1>8, <1>12, <1>13, <1>14 DEF LinesInv

LEMMA LinesStep ==
  ASSUME ReadersShared, LinesInv, UNCHANGED kind, LinesNext \/ UNCHANGED reading_vars
  PROVE  ReadersShared' /\ ReadStep /\ LinesInv'
<1>1. ASSUME NEW timeout \in Timeouts, OpenReads = {}, LinesHandleRequest(timeout)
      PROVE  ReadersShared' /\ ReadStep /\ LinesInv'
  BY <1>1, TimeoutsIs, LinesReads
<1>2. CASE HandlerReturns \/ (UNCHANGED bytes_vars /\ (QueueTask \/ Destroy \/ Advance \/ UNCHANGED shared_vars))
  <2>1. ReadersShared' /\ ReadStep
    BY <1>2, HandlerReturnsStep, LoopTaskStep
  <2>2. /\ base' = base /\ deadlines' = deadlines /\ (alive' => alive) /\ asked' = asked
        /\ taken' = taken /\ later' = later /\ delivered' = delivered /\ reader' = reader
        /\ eols' = eols
    BY <1>2, LoopTaskIs DEF bytes_vars, HandlerReturns
  <2>3. LinesType' /\ LinesDelivered'
    BY <2>2 DEF LinesInv, LinesType, LinesDelivered
  <2>4. OneOpen'
    BY <2>1, <2>2, OneOpenKept DEF LinesInv
  <2>5. PICK p \in Nat : LinesAt(p)
    BY DEF LinesInv
  <2>6. LinesAt(p)'
    BY <2>2, <2>5 DEF LinesAt, EndsLine
  <2> QED
    BY <2>1, <2>3, <2>4, <2>6 DEF LinesInv
<1>3. CASE CallLater
  <2>1. ReadersShared' /\ ReadStep
    BY <1>3, CallLaterStep
  <2>2. PICK c \in later :
          /\ later' = later \ {c} /\ delivered' = delivered \o c.bytes
          /\ UNCHANGED <<base, deadlines, alive, asked, taken, reader, eols>>
    BY <1>3, CallLaterIs
  <2>3. delivered \in ByteSeq /\ c.bytes \in ByteSeq /\ Len(c.bytes) \in Nat
    BY Shared, ConcatFacts DEF BytesType, LaterInv
  <2>4. OneOpen' /\ base = {} /\ \A d \in later : d = c
    BY <2>1, <2>2, OneOpenKept, OneOpenFacts DEF LinesInv
  <2>5. base' = {} /\ later' = {}
    BY <2>2, <2>4
  <2>6. PICK p \in Nat : LinesAt(p)
    BY DEF LinesInv
  <2>7. Follows(p, c.bytes) /\ EndsLine(c.bytes)
    BY <2>6 DEF LinesAt
  <2>8. /\ LinesDelivered' /\ delivered' # <<>> /\ Last(delivered') = p + Len(c.bytes)
        /\ ToSet(delivered') = ToSet(delivered) \cup (p + 1 .. p + Len(c.bytes))
    <3>1. /\ ToSet(delivered) \subseteq 1 .. p
          /\ p = 0 \/ p \in reader.failed \/ (delivered # <<>> /\ Last(delivered) = p)
      BY <2>6 DEF LinesAt
    <3>2. LinesDelivered
      BY DEF LinesInv
    <3> QED
      BY <2>2, <2>3, <2>7, <3>1, <3>2, LineDelivered
  <2>9. LinesType'
    BY <2>2 DEF LinesInv, LinesType
  <2>10. PICK q \in Nat : q = p + Len(c.bytes)
    BY <2>3
  <2>11. LinesAt(q)'
    <3>1. q \in 0 .. taken'
      <4>1. p + Len(c.bytes) <= taken /\ taken \in Nat
        BY Shared, BytesReadingAssumption, <2>6 DEF BytesType, LinesAt
      <4> QED
        BY <2>2, <2>10, <4>1
    <3>2. ToSet(delivered') \cup reader'.failed = 1 .. q
      BY <2>2, <2>3, <2>6, <2>8, <2>10 DEF LinesAt
    <3>3. alive' => Follows(q, reader'.buffer) /\ q + Len(reader'.buffer) = taken'
      BY <2>2, <2>6, <2>10 DEF LinesAt
    <3> QED
      BY <2>5, <2>8, <2>10, <3>1, <3>2, <3>3 DEF LinesAt
  <2> QED
    BY <2>1, <2>4, <2>8, <2>9, <2>11 DEF LinesInv
<1>4. CASE LinesSomeAnswer
  BY <1>4, LineEndsStep, LineFailsStep, LineContinuesStep DEF LinesSomeAnswer
<1> QED
  BY <1>1, <1>2, <1>3, <1>4 DEF LinesNext, LinesLoopStep, reading_vars

-----------------------------------------------------------------------------
(* The readers at the end of a chain: what a result for later has to give   *)
(* comes after what was delivered and after the results of earlier reads,   *)
(* and the first of the contexts that a round notifies finds the descriptor *)
(* readable, as nothing reads it after ppoll returned.                      *)

SourcesType ==
  /\ reader \in [source : {"fd", "const", "failed"}, ready : SUBSET RequestType,
                 arrived : 0 .. StreamLen, notified : BOOLEAN, spurious : {FALSE},
                 pending_error : {"error", "not connected"}]
  /\ reader.ready \subseteq base
  /\ reader.source # "fd" => base = {}
  /\ reader.source = "fd" => taken <= reader.arrived
  /\ reader.source # "const" => \A c \in later : c.bytes = <<>>
  /\ reader.ready # {} /\ ~reader.notified => Readable

SourcesInv == SourcesType /\ SourcesNoByteLost

(* The next bytes are delivered at once. *)
LEMMA InOrderNow ==
  ASSUME BytesType, SourcesNoByteLost, \A c \in later : c.bytes = <<>>,
         NEW s \in ByteSeq, Follows(taken, s), taken' = taken + Len(s),
         delivered' = delivered \o s, later' = later, ~reader'.spurious
  PROVE  SourcesNoByteLost'
<1>1. delivered \in ByteSeq /\ taken \in Nat /\ Len(s) \in Nat
  BY BytesReadingAssumption, ConcatFacts DEF BytesType
<1>2. Splits(delivered', delivered, s)
  BY <1>1, ConcatSplits
<1>3. Ascending(s) /\ ToSet(s) = taken + 1 .. taken + Len(s)
  BY <1>1, FollowsFacts
<1>4. ToSet(delivered) \subseteq 1 .. taken /\ Ascending(delivered)
  BY DEF SourcesNoByteLost
<1>5. \A x \in ToSet(delivered), y \in ToSet(s) : x < y
  BY <1>1, <1>3, <1>4
<1>6. Ascending(delivered') /\ ToSet(delivered') = ToSet(delivered) \cup ToSet(s)
  BY <1>2, <1>3, <1>4, <1>5, SplitAscending, SplitSets
<1>7. Promised = {} /\ Promised' = {}
  BY EmptyBytes DEF Promised
<1>8. 1 .. taken' = (1 .. taken) \cup ToSet(s)
  BY <1>1, <1>3
<1>9. 1 .. taken' = ToSet(delivered') \cup Promised'
  BY <1>6, <1>7, <1>8 DEF SourcesNoByteLost
<1>10. \A c \in later' : c.bytes = <<>> /\ ToSet(c.bytes) = {} /\ Ascending(c.bytes)
  BY EmptyBytes DEF Ascending
<1> QED
  BY <1>6, <1>9, <1>10 DEF SourcesNoByteLost

(* The next bytes are for a handler that is called later. *)
LEMMA InOrderLater ==
  ASSUME BytesType, SourcesNoByteLost, LaterInv, Len(deadlines) \in Nat,
         NEW s \in ByteSeq, Follows(taken, s), taken' = taken + Len(s), delivered' = delivered,
         NEW c, c.bytes = s, c.read.id = Len(deadlines) + 1, later' = later \cup {c},
         ~reader'.spurious
  PROVE  SourcesNoByteLost'
<1>1. taken \in Nat /\ Len(s) \in Nat
  BY BytesReadingAssumption, ConcatFacts DEF BytesType
<1>2. Ascending(s) /\ ToSet(s) = taken + 1 .. taken + Len(s)
  BY <1>1, FollowsFacts
<1>3. Promised' = Promised \cup ToSet(s)
  BY DEF Promised
<1>4. 1 .. taken' = (1 .. taken) \cup ToSet(s) /\ 1 .. taken = ToSet(delivered) \cup Promised
  BY <1>1, <1>2 DEF SourcesNoByteLost
<1>5. \A d \in later : ToSet(d.bytes) \subseteq 1 .. taken
  BY <1>4 DEF Promised
<1>6. \A x \in ToSet(s), y \in 1 .. taken : y < x
  BY <1>1, <1>2
<1>7. \A d \in later : ~(c.read.id < d.read.id)
  BY DEF LaterInv
<1>8. ~(c.read.id < c.read.id)
  OBVIOUS
<1>9. ASSUME NEW d \in later', NEW x \in ToSet(d.bytes)
      PROVE  /\ \A y \in ToSet(delivered) : y < x
             /\ \A e \in later' : e.read.id < d.read.id => \A y \in ToSet(e.bytes) : y < x
  <2>1. CASE d \in later
    BY <1>7, <1>9, <2>1 DEF SourcesNoByteLost
  <2>2. CASE d = c
    BY <1>4, <1>5, <1>6, <1>8, <1>9, <2>2
  <2> QED
    BY <2>1, <2>2
<1>10. \A d \in later' : Ascending(d.bytes)
  BY <1>2 DEF SourcesNoByteLost
<1>11. 1 .. taken' = ToSet(delivered') \cup Promised' /\ Ascending(delivered')
  BY <1>3, <1>4 DEF SourcesNoByteLost
<1> QED
  BY <1>9, <1>10, <1>11 DEF SourcesNoByteLost

(* The handler of the earliest read is called. *)
LEMMA InOrderCalled ==
  ASSUME BytesType, SourcesNoByteLost, LaterInv, NEW c \in later,
         \A d \in later \ {c} : d.read.id > c.read.id,
         later' = later \ {c}, delivered' = delivered \o c.bytes, taken' = taken, reader' = reader
  PROVE  SourcesNoByteLost'
<1>1. delivered \in ByteSeq /\ c.bytes \in ByteSeq
  BY DEF BytesType, LaterInv
<1>2. Splits(delivered', delivered, c.bytes)
  BY <1>1, ConcatSplits
<1>3. Ascending(delivered) /\ Ascending(c.bytes)
      /\ \A x \in ToSet(delivered), y \in ToSet(c.bytes) : x < y
  BY DEF SourcesNoByteLost
<1>4. Ascending(delivered') /\ ToSet(delivered') = ToSet(delivered) \cup ToSet(c.bytes)
  BY <1>2, <1>3, SplitAscending, SplitSets
<1>5. Promised = Promised' \cup ToSet(c.bytes)
  BY DEF Promised
<1>6. 1 .. taken' = ToSet(delivered') \cup Promised'
  BY <1>4, <1>5 DEF SourcesNoByteLost
<1>7. \A d \in later' : c.read.id < d.read.id
  BY DEF LaterInv
<1>8. ASSUME NEW d \in later', NEW x \in ToSet(d.bytes)
      PROVE  /\ \A y \in ToSet(delivered') : y < x
             /\ \A e \in later' : e.read.id < d.read.id => \A y \in ToSet(e.bytes) : y < x
  BY <1>4, <1>7, <1>8 DEF SourcesNoByteLost
<1> QED
  BY <1>4, <1>6, <1>8 DEF SourcesNoByteLost

(* Up to a position that is not before what was taken. *)
LEMMA StreamSpan ==
  ASSUME taken \in Nat, NEW n \in Nat, NEW end \in Nat, taken <= end, end <= StreamLen
  PROVE  LET chunk == Span(taken + 1, Min2(taken + n, end))
         IN  /\ chunk \in ByteSeq /\ Follows(taken, chunk)
             /\ taken + Len(chunk) \in 0 .. StreamLen /\ taken + Len(chunk) <= end
<1> DEFINE last == Min2(taken + n, end)
           chunk == Span(taken + 1, last)
<1>1. last \in Nat /\ last <= end /\ last >= taken
  BY DEF Min2
<1> HIDE DEF last
<1>2. taken + 1 \in Nat /\ taken + 1 <= last + 1
  BY <1>1
<1>3. /\ chunk \in ByteSeq /\ Len(chunk) = (last - (taken + 1)) + 1
      /\ \A i \in 1 .. (last - (taken + 1)) + 1 : chunk[i] = ((taken + 1) + i) - 1
  BY <1>1, <1>2, SpanFacts
<1> HIDE DEF chunk
<1>4. taken + Len(chunk) = last /\ Len(chunk) \in Nat
  BY <1>1, <1>3
<1>5. Follows(taken, chunk)
  BY <1>1, <1>3 DEF Follows
<1>6. taken + Len(chunk) \in 0 .. StreamLen
  BY <1>1, <1>4, BytesReadingAssumption
<1> QED
  BY <1>1, <1>3, <1>4, <1>5, <1>6 DEF chunk, last

LEMMA SourcesReads ==
  ASSUME ReadersShared, SourcesInv, UNCHANGED kind, NEW max_size \in Nat, NEW timeout \in 0 .. Never,
         SourcesReadSomeBytes(max_size, timeout)
  PROVE  ReadersShared' /\ ReadStep /\ SourcesInv'
<1> DEFINE r == Request(timeout)
<1>1. /\ Read(max_size, timeout) /\ queues' = queues /\ delivered' = delivered
      /\ FdRead(r, max_size) \/ ConstRead(r, max_size) \/ FailedRead(r)
  BY DEF SourcesReadSomeBytes
<1>2. r.id = Len(deadlines) + 1 /\ r.id \in 1 .. MaxRequests
  BY <1>1, ReadMade
<1>3. BytesType /\ LaterInv /\ Len(deadlines) \in Nat /\ taken \in 0 .. StreamLen /\ taken \in Nat
  BY Shared, ReadIds, BytesReadingAssumption DEF BytesType
<1>4. SourcesType /\ SourcesNoByteLost
  BY DEF SourcesInv
<1> HIDE DEF r
\* What remains to be shown of a result for later.
<1>5. ASSUME NEW res, InTimeResult(res), NEW s \in ByteSeq, InvokeLater(r, res, s),
             Follows(taken, s), taken' = taken + Len(s), taken' \in 0 .. StreamLen,
             UNCHANGED <<base, asked>>, reader'.spurious = FALSE
      PROVE  ReadersShared' /\ ReadStep /\ SourcesNoByteLost'
             /\ \A d \in later' : d.bytes = s \/ d \in later
  <2>1. ReadersShared' /\ ReadStep
    BY <1>1, <1>5, ReadLater DEF r
  <2> DEFINE c == [read |-> r, res |-> res, bytes |-> s]
  <2>2. later' = later \cup {c} /\ c.bytes = s /\ c.read.id = Len(deadlines) + 1
    BY <1>2, <1>5 DEF InvokeLater
  <2> HIDE DEF c
  <2>3. SourcesNoByteLost'
    BY <1>1, <1>3, <1>4, <1>5, <2>2, InOrderLater
  <2> QED
    BY <2>1, <2>2, <2>3
<1>6. ASSUME UNCHANGED <<base, reader>>, taken' = taken,
             \A d \in later' : d.bytes = <<>> \/ d \in later
      PROVE  SourcesType'
  BY <1>4, <1>6 DEF SourcesType, Readable
<1>7. reader.spurious = FALSE /\ InTimeResult(reader.pending_error)
  BY <1>4 DEF SourcesType, InTimeResult
<1>8. taken = taken + Len(<<>>) /\ Follows(taken, <<>>) /\ InTimeResult("ok")
  BY <1>3, EmptyBytes DEF Follows, InTimeResult
<1>9. CASE FdRead(r, max_size)
  <2>1. taken' = taken /\ reader' = reader /\ reader.source = "fd"
    BY <1>9 DEF FdRead
  <2>2. CASE InvokeLater(r, "ok", <<>>) /\ UNCHANGED <<base, asked>>
    <3>1. ReadersShared' /\ ReadStep /\ SourcesNoByteLost' /\ \A d \in later' : d.bytes = <<>> \/ d \in later
      BY <1>3, <1>5, <1>7, <1>8, <2>1, <2>2, EmptyBytes
    <3> QED
      BY <1>6, <2>1, <2>2, <3>1 DEF SourcesInv
  <2>3. CASE base' = base \cup {r} /\ asked' = [asked EXCEPT ![r.id] = max_size] /\ UNCHANGED later
    <3>1. ReadersShared' /\ ReadStep
      BY <1>1, <2>1, <2>3, ReadAtBase DEF r
    <3>2. SourcesType'
      BY <1>4, <2>1, <2>3 DEF SourcesType, Readable
    <3>3. SourcesNoByteLost'
      BY <1>1, <1>4, <2>1, <2>3 DEF SourcesNoByteLost, Promised
    <3> QED
      BY <3>1, <3>2, <3>3 DEF SourcesInv
  <2> QED
    BY <1>9, <2>2, <2>3 DEF FdRead
<1>10. CASE ConstRead(r, max_size)
  <2> DEFINE chunk == Span(taken + 1, Min2(taken + max_size, StreamLen))
  <2>1. /\ reader.source = "const" /\ InvokeLater(r, "ok", chunk) /\ taken' = taken + Len(chunk)
        /\ UNCHANGED <<base, asked>> /\ reader' = reader
    BY <1>10 DEF ConstRead
  <2>2. chunk \in ByteSeq /\ Follows(taken, chunk) /\ taken + Len(chunk) \in 0 .. StreamLen
    <3>1. StreamLen \in Nat /\ taken <= StreamLen /\ StreamLen <= StreamLen
      BY <1>3, BytesReadingAssumption
    <3> QED
      BY <1>3, <3>1, StreamSpan
  <2> HIDE DEF chunk
  <2>3. ReadersShared' /\ ReadStep /\ SourcesNoByteLost'
    BY <1>5, <1>7, <1>8, <2>1, <2>2
  <2>4. SourcesType'
    BY <1>4, <2>1 DEF SourcesType
  <2> QED
    BY <2>3, <2>4 DEF SourcesInv
<1>11. CASE FailedRead(r)
  <2>1. /\ reader.source = "failed" /\ InvokeLater(r, reader.pending_error, <<>>)
        /\ reader' = [reader EXCEPT !.pending_error = "not connected"]
        /\ UNCHANGED <<base, asked>> /\ taken' = taken
    BY <1>11 DEF FailedRead
  <2>2. /\ reader'.source = reader.source /\ reader'.ready = reader.ready
        /\ reader'.arrived = reader.arrived /\ reader'.notified = reader.notified
        /\ reader'.spurious = FALSE /\ reader'.pending_error = "not connected"
        /\ reader' \in [source : {"fd", "const", "failed"}, ready : SUBSET RequestType,
                 arrived : 0 .. StreamLen, notified : BOOLEAN, spurious : {FALSE},
                 pending_error : {"error", "not connected"}]
    BY <1>4, <2>1 DEF SourcesType
  <2>3. ReadersShared' /\ ReadStep /\ SourcesNoByteLost' /\ \A d \in later' : d.bytes = <<>> \/ d \in later
    BY <1>3, <1>5, <1>7, <1>8, <2>1, <2>2, EmptyBytes
  <2>4. SourcesType'
    BY <1>4, <2>1, <2>2, <2>3 DEF SourcesType, Readable
  <2> QED
    BY <2>3, <2>4 DEF SourcesInv
<1> QED
  BY <1>1, <1>9, <1>10, <1>11

(* A context ends: with what read() returned, or as its time has come. *)
LEMMA ContextEnds ==
  ASSUME ReadersShared, SourcesInv, UNCHANGED kind, NEW r \in base, reader.source = "fd",
         NEW b, b.bytes \in ByteSeq, Follows(taken, b.bytes),
         taken + Len(b.bytes) \in 0 .. StreamLen, taken + Len(b.bytes) <= reader.arrived,
         AnswerBytes(r, b, b), ContextEnded(r), reader'.spurious = FALSE
  PROVE  ReadersShared' /\ ReadStep /\ SourcesInv'
<1>1. ReadersShared' /\ ReadStep
  BY AnswerBytesStep
<1>2. /\ base' = base \ {r} /\ taken' = taken + Len(b.bytes) /\ delivered' = delivered \o b.bytes
      /\ later' = later
  BY AnswerBytesIs
<1>3. reader \in [source : {"fd", "const", "failed"}, ready : SUBSET RequestType,
                 arrived : 0 .. StreamLen, notified : BOOLEAN, spurious : {FALSE},
                 pending_error : {"error", "not connected"}]
      /\ reader.ready \subseteq base /\ \A c \in later : c.bytes = <<>>
  BY DEF SourcesInv, SourcesType
<1>4. /\ reader'.source = "fd" /\ reader'.ready = reader.ready \ {r}
      /\ reader'.arrived = reader.arrived /\ reader'.notified = (reader.ready # {})
  BY <1>3 DEF ContextEnded
<1>5. reader' \in [source : {"fd", "const", "failed"}, ready : SUBSET RequestType,
                 arrived : 0 .. StreamLen, notified : BOOLEAN, spurious : {FALSE},
                 pending_error : {"error", "not connected"}]
  <2> DEFINE s == (reader.spurious \/ (result'.res = "again" /\ ~reader.notified))
  <2>1. reader' = [reader EXCEPT !.ready = @ \ {r}, !.notified = reader.ready # {}, !.spurious = s]
    BY DEF ContextEnded
  <2> HIDE DEF s
  <2>2. reader'.spurious = s
    BY <1>3, <2>1
  <2>3. s = FALSE
    BY <2>2
  <2>4. (reader.ready # {}) \in BOOLEAN
    OBVIOUS
  <2> QED
    BY <1>3, <2>1, <2>3, <2>4
<1>6. SourcesType'
  <2>1. reader'.ready \subseteq base'
    BY <1>2, <1>3, <1>4
  <2>2. reader'.ready # {} => reader'.notified
    BY <1>4
  <2>3. taken' <= reader'.arrived
    BY <1>2, <1>4
  <2> QED
    BY <1>2, <1>3, <1>4, <1>5, <2>1, <2>2, <2>3 DEF SourcesType
<1>7. SourcesNoByteLost'
  BY <1>2, <1>3, Shared, InOrderNow DEF SourcesInv
<1> QED
  BY <1>1, <1>6, <1>7 DEF SourcesInv

LEMMA FdNotified ==
  ASSUME ReadersShared, SourcesInv, UNCHANGED kind, NEW r \in base, FdWatchNotified(r)
  PROVE  ReadersShared' /\ ReadStep /\ SourcesInv'
<1>1. PICK b \in FdResults(asked[r.id]) : AnswerBytes(r, b, b)
  BY DEF FdWatchNotified
<1>2. r \in reader.ready /\ ContextEnded(r)
  BY DEF FdWatchNotified
<1>3. SourcesType /\ reader.ready # {}
  BY <1>2 DEF SourcesInv
<1>4. reader.source = "fd" /\ taken <= reader.arrived /\ reader.arrived \in 0 .. StreamLen
      /\ reader.spurious = FALSE
  BY <1>3 DEF SourcesType
<1>5. asked[r.id] \in Nat /\ taken \in Nat /\ StreamLen \in Nat
  BY ReadIds, Shared, BytesReadingAssumption DEF BytesType
<1>6. reader.arrived \in Nat /\ reader.arrived <= StreamLen
  BY <1>4, <1>5
<1> DEFINE chunk == Span(taken + 1, Min2(taken + asked[r.id], reader.arrived))
<1>7. /\ chunk \in ByteSeq /\ Follows(taken, chunk)
      /\ taken + Len(chunk) \in 0 .. StreamLen /\ taken + Len(chunk) <= reader.arrived
  BY <1>4, <1>5, <1>6, StreamSpan
<1> HIDE DEF chunk
<1>8. /\ <<>> \in ByteSeq /\ Follows(taken, <<>>)
      /\ taken + Len(<<>>) \in 0 .. StreamLen /\ taken + Len(<<>>) <= reader.arrived
  BY <1>4, <1>5, <1>6, EmptyBytes DEF Follows
<1>9. b = [res |-> "error", bytes |-> <<>>] \/ b = [res |-> "ok", bytes |-> chunk]
      \/ (~Readable /\ b = [res |-> "again", bytes |-> <<>>])
  BY <1>1 DEF FdResults, Readable, chunk
<1>10. b.bytes = <<>> \/ b.bytes = chunk
  BY <1>9
<1>11. result'.res = b.res
  BY <1>1 DEF AnswerBytes, Answer
<1>12. ~(result'.res = "again" /\ ~reader.notified)
  <2>1. b.res = "again" => ~Readable
    BY <1>9
  <2>2. ~reader.notified => Readable
    BY <1>3 DEF SourcesType
  <2> QED
    BY <1>11, <2>1, <2>2
<1>13. reader'.spurious = FALSE
  <2> DEFINE s == (reader.spurious \/ (result'.res = "again" /\ ~reader.notified))
  <2>1. s = FALSE
    BY <1>4, <1>12
  <2>2. reader' = [reader EXCEPT !.ready = @ \ {r}, !.notified = reader.ready # {}, !.spurious = s]
    BY <1>2 DEF ContextEnded
  <2> HIDE DEF s
  <2> QED
    BY <1>3, <2>1, <2>2 DEF SourcesType
<1> QED
  BY <1>1, <1>2, <1>4, <1>7, <1>8, <1>10, <1>13, ContextEnds

LEMMA FdTimesOut ==
  ASSUME ReadersShared, SourcesInv, UNCHANGED kind, NEW r \in base, FdReadTimesOut(r)
  PROVE  ReadersShared' /\ ReadStep /\ SourcesInv'
<1> DEFINE b == [res |-> "timed out", bytes |-> <<>>]
<1>1. AnswerBytes(r, b, b) /\ ContextEnded(r) /\ reader.source = "fd"
  BY DEF FdReadTimesOut
<1>2. b.bytes = <<>> /\ b.res # "again"
  OBVIOUS
<1> HIDE DEF b
<1>3. SourcesType
  BY DEF SourcesInv
<1>4. taken \in Nat /\ taken \in 0 .. StreamLen
  BY Shared, BytesReadingAssumption DEF BytesType
<1>5. /\ b.bytes \in ByteSeq /\ Follows(taken, b.bytes)
      /\ taken + Len(b.bytes) \in 0 .. StreamLen /\ taken + Len(b.bytes) = taken
  BY <1>2, <1>4, EmptyBytes DEF Follows
<1>6. taken + Len(b.bytes) <= reader.arrived
  BY <1>1, <1>3, <1>5 DEF SourcesType
<1>7. reader'.spurious = FALSE
  <2> DEFINE s == (reader.spurious \/ (result'.res = "again" /\ ~reader.notified))
  <2>1. result'.res # "again"
    BY <1>1, <1>2 DEF AnswerBytes, Answer
  <2>2. s = FALSE
    BY <1>3, <2>1 DEF SourcesType
  <2>3. reader' = [reader EXCEPT !.ready = @ \ {r}, !.notified = reader.ready # {}, !.spurious = s]
    BY <1>1 DEF ContextEnded
  <2> HIDE DEF s
  <2> QED
    BY <1>3, <2>2, <2>3 DEF SourcesType
<1> QED
  BY <1>1, <1>5, <1>6, <1>7, ContextEnds

(* The peer sends a byte, or ppoll returns. *)
LEMMA DescriptorChanges ==
  ASSUME ReadersShared, SourcesInv, UNCHANGED kind, Arrive \/ FdPolled
  PROVE  ReadersShared' /\ ReadStep /\ SourcesInv'
<1>1. UNCHANGED shared_vars /\ UNCHANGED <<sizes, asked, taken, later, delivered, eols>>
  BY DEF Arrive, FdPolled
<1>2. UNCHANGED deadlines /\ UNCHANGED base
  BY <1>1 DEF shared_vars
<1>3. SharedInv' /\ ContractStep
  BY <1>1, OwnStep, Shared
<1>4. ReadersShared' /\ ReadStep
  BY <1>1, <1>2, <1>3, SameBytesStep
<1>5. SourcesType /\ SourcesNoByteLost
  BY DEF SourcesInv
<1> DEFINE Fields == [source : {"fd", "const", "failed"}, ready : SUBSET RequestType,
                 arrived : 0 .. StreamLen, notified : BOOLEAN, spurious : {FALSE},
                 pending_error : {"error", "not connected"}]
<1>6. reader \in Fields /\ base \in SUBSET RequestType
  BY <1>5, Shared DEF SourcesType, SharedType
<1>9. reader.arrived \in 0 .. StreamLen /\ StreamLen \in Nat /\ taken \in Nat
  <2>1. reader.arrived \in 0 .. StreamLen
    BY <1>6
  <2>2. StreamLen \in Nat /\ taken \in 0 .. StreamLen
    BY Shared, BytesReadingAssumption DEF BytesType
  <2> QED
    BY <2>1, <2>2
<1> DEFINE more == reader.arrived + 1
<1>7. CASE Arrive
  <2>1. reader.source = "fd" /\ reader.arrived < StreamLen
        /\ reader' = [reader EXCEPT !.arrived = @ + 1]
    BY <1>7 DEF Arrive
  <2>a. reader.arrived < StreamLen /\ reader' = [reader EXCEPT !.arrived = more]
    BY <2>1
  <2>2. more \in 0 .. StreamLen /\ more > reader.arrived /\ more \in Nat
    BY <1>9, <2>a
  <2>b. taken <= reader.arrived
    BY <1>5, <2>1 DEF SourcesType
  <2>c. taken <= more
    BY <1>9, <2>2, <2>b
  <2>d. Readable => more > taken
    BY <1>9, <2>2, <2>a DEF Readable
  <2> HIDE DEF more
  <2>3. /\ reader' \in Fields /\ reader'.source = "fd" /\ reader'.ready = reader.ready
        /\ reader'.arrived = more /\ reader'.notified = reader.notified
        /\ reader'.spurious = FALSE
    BY <1>6, <2>1, <2>2, <2>a
  <2>4. Readable => Readable'
    BY <1>1, <2>3, <2>d DEF Readable
  <2>5. taken' <= reader'.arrived
    BY <1>1, <2>3, <2>c
  <2>6. SourcesType'
    BY <1>1, <1>2, <1>5, <2>1, <2>3, <2>4, <2>5 DEF SourcesType
  <2>7. SourcesNoByteLost'
    BY <1>1, <1>5, <2>3 DEF SourcesNoByteLost, Promised
  <2> QED
    BY <1>4, <2>6, <2>7 DEF SourcesInv
<1>8. CASE FdPolled
  <2>1. reader.source = "fd" /\ Readable
        /\ reader' = [reader EXCEPT !.ready = base, !.notified = FALSE]
    BY <1>8 DEF FdPolled
  <2>2. /\ reader' \in Fields /\ reader'.source = "fd" /\ reader'.ready = base
        /\ reader'.arrived = reader.arrived /\ reader'.spurious = FALSE
    BY <1>6, <2>1
  <2>3. SourcesType'
    BY <1>1, <1>2, <1>5, <2>1, <2>2 DEF SourcesType, Readable
  <2>4. SourcesNoByteLost'
    BY <1>1, <1>5, <2>2 DEF SourcesNoByteLost, Promised
  <2> QED
    BY <1>4, <2>3, <2>4 DEF SourcesInv
<1> QED
  BY <1>7, <1>8

LEMMA SourcesStep ==
  ASSUME ReadersShared, SourcesInv, UNCHANGED kind, SourcesNext \/ UNCHANGED reading_vars
  PROVE  ReadersShared' /\ ReadStep /\ SourcesInv'
<1>1. ASSUME NEW max_size \in ReadSizes, NEW timeout \in Timeouts,
             SourcesReadSomeBytes(max_size, timeout)
      PROVE  ReadersShared' /\ ReadStep /\ SourcesInv'
  BY <1>1, BytesReadingAssumption, TimeoutsIs, SourcesReads
<1>2. CASE HandlerReturns \/ (UNCHANGED bytes_vars /\ (QueueTask \/ Advance \/ UNCHANGED shared_vars))
  <2>1. ReadersShared' /\ ReadStep
    BY <1>2, HandlerReturnsStep, LoopTaskStep
  <2>2. base' = base /\ taken' = taken /\ later' = later /\ delivered' = delivered /\ reader' = reader
    BY <1>2, LoopTaskIs DEF bytes_vars, HandlerReturns
  <2> QED
    BY <2>1, <2>2 DEF SourcesInv, SourcesType, SourcesNoByteLost, Promised, Readable
<1>3. CASE SourcesLaterTask
  <2>1. CallLater /\ \A c \in later' : c.read.id > result'.id
    BY <1>3 DEF SourcesLaterTask
  <2>2. ReadersShared' /\ ReadStep
    BY <2>1, CallLaterStep
  <2>3. PICK c \in later :
          /\ later' = later \ {c} /\ delivered' = delivered \o c.bytes
          /\ result' = [id |-> c.read.id, res |-> c.res]
          /\ UNCHANGED <<base, taken, reader>>
    BY <2>1, CallLaterIs
  <2>4. \A d \in later \ {c} : d.read.id > c.read.id
    BY <2>1, <2>3
  <2>5. SourcesNoByteLost'
    BY <2>3, <2>4, Shared, InOrderCalled DEF SourcesInv
  <2>6. SourcesType'
    BY <2>3 DEF SourcesInv, SourcesType, Readable
  <2> QED
    BY <2>2, <2>5, <2>6 DEF SourcesInv
<1> QED
  BY <1>1, <1>2, <1>3, FdNotified, FdTimesOut, DescriptorChanges
     DEF SourcesNext, SourcesSomeAnswer, SourcesLoopStep, reading_vars

-----------------------------------------------------------------------------
(* The functions that read more than once: up to a position p of the stream *)
(* the bytes were delivered or lost with a call that failed, what follows   *)
(* is the data of the call in progress, which asks for what it still needs. *)

UtilsFields ==
  [func : {"fully", "process", "pending"}, data : [1 .. MaxRequests -> ByteSeq],
   failed : SUBSET Nat, short : {FALSE}]

AsksForRest ==
  reader.func = "fully" => \A r \in base : asked[r.id] + Len(reader.data[r.id]) = sizes[r.id]

AsksForPending ==
  reader.func = "pending" => \A r \in base : r.timeout_end <= etime

UtilsType ==
  /\ reader \in UtilsFields
  /\ later = {}
  /\ \A n \in 1 .. MaxRequests :
       reader.data[n] # <<>> => reader.func = "fully" /\ \E r \in base : r.id = n
  /\ AsksForRest /\ AsksForPending

UtilsAt(p) ==
  /\ p \in 0 .. taken
  /\ ToSet(delivered) \cup reader.failed = 1 .. p
  /\ \A r \in base : Follows(p, reader.data[r.id]) /\ p + Len(reader.data[r.id]) = taken
  /\ base = {} => p = taken

UtilsInv == UtilsType /\ OneOpen /\ Ascending(delivered) /\ \E p \in Nat : UtilsAt(p)

LEMMA NextDelivered ==
  ASSUME delivered \in ByteSeq, Ascending(delivered), NEW p \in Nat, ToSet(delivered) \subseteq 1 .. p,
         NEW s \in ByteSeq, Follows(p, s), delivered' = delivered \o s
  PROVE  Ascending(delivered') /\ ToSet(delivered') = ToSet(delivered) \cup (p + 1 .. p + Len(s))
<1>1. Splits(delivered', delivered, s)
  BY ConcatSplits
<1>2. Ascending(s) /\ ToSet(s) = p + 1 .. p + Len(s) /\ Len(s) \in Nat
  BY FollowsFacts, ConcatFacts
<1>3. \A x \in ToSet(delivered), y \in ToSet(s) : x < y
  BY <1>2
<1> QED
  BY <1>1, <1>2, <1>3, SplitAscending, SplitSets

LEMMA UtilsAnswered ==
  ASSUME ReadersShared, UtilsInv, NEW r \in base, NEW b \in BaseResults(r, asked[r.id])
  PROVE  /\ b.bytes \in ByteSeq /\ taken + Len(b.bytes) \in 0 .. StreamLen
         /\ Len(b.bytes) <= asked[r.id] /\ asked[r.id] \in Nat /\ sizes[r.id] \in Nat
         /\ b.res # "ok" => b.bytes = <<>>
         /\ reader.data[r.id] \in ByteSeq
         /\ Len(reader.data[r.id]) \in Nat /\ Len(b.bytes) \in Nat
         /\ Splits(DataWith(r, b), reader.data[r.id], b.bytes)
         /\ base = {r} /\ r.id \in 1 .. MaxRequests
         /\ taken \in Nat /\ delivered \in ByteSeq
         /\ \A p \in Nat : UtilsAt(p) =>
              /\ Follows(p, DataWith(r, b))
              /\ p + Len(DataWith(r, b)) = taken + Len(b.bytes)
         /\ \A n \in 1 .. MaxRequests : n # r.id => reader.data[n] = <<>>
<1> DEFINE data == reader.data[r.id]
           whole == DataWith(r, b)
<1>1. r.id \in 1 .. MaxRequests /\ asked[r.id] \in Nat /\ sizes[r.id] \in Nat
      /\ taken \in Nat /\ delivered \in ByteSeq
  BY ReadIds, Shared, BytesReadingAssumption DEF BytesType
<1>2. /\ b.bytes \in ByteSeq /\ Len(b.bytes) \in 0 .. asked[r.id]
      /\ taken + Len(b.bytes) \in 0 .. StreamLen /\ Follows(taken, b.bytes)
      /\ b.res # "ok" => b.bytes = <<>>
  BY <1>1, ResultFacts
<1>3. data \in ByteSeq
  BY <1>1 DEF UtilsInv, UtilsType, UtilsFields
<1>4. Len(data) \in Nat /\ Len(b.bytes) \in Nat /\ Len(b.bytes) <= asked[r.id]
  <2>1. Len(data) \in Nat
    BY <1>3, ConcatFacts
  <2> QED
    BY <1>1, <1>2, <2>1
<1>5. base = {r}
  BY OneOpenFacts DEF UtilsInv
<1>6. \A n \in 1 .. MaxRequests : n # r.id => reader.data[n] = <<>>
  <2> TAKE n \in 1 .. MaxRequests
  <2>1. reader.data[n] # <<>> => \E o \in base : o.id = n
    BY DEF UtilsInv, UtilsType
  <2> QED
    BY <1>5, <2>1
<1>7. Splits(whole, data, b.bytes)
  BY <1>2, <1>3, ConcatSplits DEF DataWith
<1>8. ASSUME NEW p \in Nat, UtilsAt(p)
      PROVE  Follows(p, whole) /\ p + Len(whole) = taken + Len(b.bytes)
  <2>1. Follows(p, data) /\ p + Len(data) = taken
    BY <1>8 DEF UtilsAt
  <2> HIDE DEF whole, data
  <2>2. Follows(p + Len(data), b.bytes)
    BY <1>2, <2>1
  <2>3. Follows(p, whole)
    BY <1>7, <2>1, <2>2, SplitFollows
  <2>4. Len(whole) = Len(data) + Len(b.bytes)
    BY <1>7 DEF Splits
  <2> QED
    BY <1>1, <1>4, <2>1, <2>3, <2>4, SMTT(20)
<1> QED
  BY <1>1, <1>2, <1>3, <1>4, <1>5, <1>6, <1>7, <1>8

(* A call ends, and its client gets what it has, or an error. *)
LEMMA UtilsEnds ==
  ASSUME ReadersShared, UtilsInv, UNCHANGED kind, NEW r \in base,
         NEW b \in BaseResults(r, asked[r.id]), NEW a, AnswerBytes(r, b, a),
         \/ a.bytes = DataWith(r, b) /\ reader'.failed = reader.failed
         \/ a.bytes = <<>> /\ reader'.failed = reader.failed \cup ToSet(DataWith(r, b)),
         reader' \in UtilsFields,
         \A n \in 1 .. MaxRequests : reader'.data[n] = <<>>
  PROVE  ReadersShared' /\ ReadStep /\ UtilsInv'
<1> DEFINE whole == DataWith(r, b)
<1>1. /\ b.bytes \in ByteSeq /\ taken + Len(b.bytes) \in 0 .. StreamLen /\ Len(b.bytes) \in Nat
      /\ Splits(whole, reader.data[r.id], b.bytes) /\ base = {r}
      /\ taken \in Nat /\ delivered \in ByteSeq
  BY UtilsAnswered
<1>2. later = {} /\ OneOpen /\ Ascending(delivered)
  BY DEF UtilsInv, UtilsType
<1> PICK p \in Nat : UtilsAt(p)
  BY DEF UtilsInv
<1>3. Follows(p, whole) /\ p + Len(whole) = taken + Len(b.bytes)
  BY UtilsAnswered
<1> HIDE DEF whole
<1>4. whole \in ByteSeq /\ Len(whole) \in Nat /\ ToSet(whole) = p + 1 .. p + Len(whole)
  <2>1. whole \in ByteSeq
    BY <1>1 DEF Splits
  <2> QED
    BY <1>3, <2>1, ConcatFacts, FollowsFacts
<1>c. \/ a.bytes = whole /\ reader'.failed = reader.failed
      \/ a.bytes = <<>> /\ reader'.failed = reader.failed \cup ToSet(whole)
  BY DEF whole
<1>5. a.bytes \in ByteSeq
  BY <1>4, <1>c, EmptyBytes
<1>6. ReadersShared' /\ ReadStep
  BY <1>1, <1>5, AnswerBytesStep
<1>7. /\ base' = {} /\ taken' = taken + Len(b.bytes) /\ delivered' = delivered \o a.bytes
      /\ later' = {} /\ deadlines' = deadlines
  BY <1>1, <1>2, AnswerBytesIs
<1>8. OneOpen'
  BY <1>2, <1>6, <1>7, OneOpenKept
<1>9. UtilsType'
  <2>1. AsksForRest' /\ AsksForPending'
    BY <1>7, Zenon DEF AsksForRest, AsksForPending
  <2> QED
    BY <1>7, <2>1 DEF UtilsType
<1> PICK q \in Nat : q = p + Len(whole)
  BY <1>4
<1>a. ToSet(delivered) \cup reader.failed = 1 .. p
  BY DEF UtilsAt
<1>b. 1 .. q = (1 .. p) \cup ToSet(whole) /\ q = taken' /\ q \in 0 .. taken'
  <2>1. q = taken'
    BY <1>3, <1>7
  <2>2. 1 .. q = (1 .. p) \cup (p + 1 .. p + Len(whole))
    BY <1>4
  <2> QED
    BY <1>4, <2>1, <2>2
<1>10. Ascending(delivered') /\ ToSet(delivered') \cup reader'.failed = 1 .. q
  <2>1. CASE a.bytes = whole /\ reader'.failed = reader.failed
    <3>1. Ascending(delivered') /\ ToSet(delivered') = ToSet(delivered) \cup ToSet(whole)
      BY <1>1, <1>2, <1>3, <1>4, <1>7, <1>a, <2>1, NextDelivered
    <3> QED
      BY <1>a, <1>b, <2>1, <3>1
  <2>2. CASE a.bytes = <<>> /\ reader'.failed = reader.failed \cup ToSet(whole)
    <3>1. delivered' = delivered
      BY <1>1, <1>7, <2>2, EmptyBytes, ConcatFacts
    <3> QED
      BY <1>2, <1>a, <1>b, <2>2, <3>1
  <2> QED
    BY <1>c, <2>1, <2>2
<1>11. UtilsAt(q)'
  BY <1>7, <1>10, <1>b DEF UtilsAt
<1> QED
  BY <1>6, <1>8, <1>9, <1>10, <1>11 DEF UtilsInv

(* A call reads on, and keeps what it got or has given it to its client. *)
LEMMA UtilsReadsOn ==
  ASSUME ReadersShared, UtilsInv, UNCHANGED kind, NEW r \in base,
         NEW b \in BaseResults(r, asked[r.id]), NEW n \in Nat,
         NEW t \in 0 .. Never, deadlines[r.id] <= t, ReadsOn(r, b, n, t),
         UtilsType', reader'.failed = reader.failed,
         \/ delivered' = delivered /\ reader'.data[r.id] = DataWith(r, b)
         \/ delivered' = delivered \o b.bytes
            /\ reader.data[r.id] = <<>> /\ reader'.data[r.id] = <<>>
  PROVE  ReadersShared' /\ ReadStep /\ UtilsInv'
<1> DEFINE whole == DataWith(r, b)
           f == [r EXCEPT !.timeout_end = t]
<1>1. /\ b.bytes \in ByteSeq /\ taken + Len(b.bytes) \in 0 .. StreamLen /\ Len(b.bytes) \in Nat
      /\ Splits(whole, reader.data[r.id], b.bytes) /\ base = {r}
      /\ taken \in Nat /\ delivered \in ByteSeq
  BY UtilsAnswered
<1>2. OneOpen /\ Ascending(delivered)
  BY DEF UtilsInv
<1> PICK p \in Nat : UtilsAt(p)
  BY DEF UtilsInv
<1>3. Follows(p, whole) /\ p + Len(whole) = taken + Len(b.bytes)
  BY UtilsAnswered
<1>4. /\ base' = (base \ {r}) \cup {f} /\ taken' = taken + Len(b.bytes)
      /\ asked' = [asked EXCEPT ![r.id] = n]
      /\ UNCHANGED <<etime, deadlines, queues, alive, mode, called, cancelled, result>>
      /\ UNCHANGED <<sizes, later, eols>>
  BY DEF ReadsOn
<1> DEFINE data == reader.data[r.id]
<1>5. \/ delivered' = delivered /\ reader'.data[r.id] = whole
      \/ delivered' = delivered \o b.bytes /\ data = <<>> /\ reader'.data[r.id] = <<>>
  OBVIOUS
<1>6. delivered' \in ByteSeq
  <2>1. delivered \o b.bytes \in ByteSeq
    BY <1>1, ConcatFacts
  <2> QED
    BY <1>1, <1>5, <2>1
<1>7. taken' \in 0 .. StreamLen
  BY <1>1, <1>4
<1>8. ReadersShared' /\ ReadStep /\ f.id = r.id
  BY <1>1, <1>4, <1>6, <1>7, ReadsOnStep
<1> HIDE DEF whole, data, f
<1>9. base' = {f}
  BY <1>1, <1>4
<1>10. OneOpen'
  BY <1>2, <1>4, <1>8, OneOpenKept
<1>11. p \in 0 .. taken /\ ToSet(delivered) \cup reader.failed = 1 .. p
  BY DEF UtilsAt
<1>12. CASE delivered' = delivered /\ reader'.data[r.id] = whole
  <2>1. p \in 0 .. taken'
    BY <1>1, <1>4, <1>11
  <2>2. Follows(p, reader'.data[f.id]) /\ p + Len(reader'.data[f.id]) = taken'
    BY <1>3, <1>4, <1>8, <1>12
  <2>3. UtilsAt(p)'
    BY <1>9, <1>11, <1>12, <2>1, <2>2 DEF UtilsAt
  <2> QED
    BY <1>2, <1>8, <1>10, <1>12, <2>3 DEF UtilsInv
<1>13. CASE delivered' = delivered \o b.bytes /\ data = <<>> /\ reader'.data[r.id] = <<>>
  <2>1. whole = b.bytes
    BY <1>1, <1>13, ConcatFacts DEF whole, data, DataWith
  <2> PICK q \in Nat : q = p + Len(b.bytes)
    BY <1>1
  <2>2. q = taken' /\ q \in 0 .. taken'
    BY <1>3, <1>4, <2>1
  <2>3. 1 .. q = (1 .. p) \cup (p + 1 .. p + Len(b.bytes))
    BY <1>1
  <2>4. Ascending(delivered') /\ ToSet(delivered') = ToSet(delivered) \cup (p + 1 .. p + Len(b.bytes))
    <3>1. ToSet(delivered) \subseteq 1 .. p
      BY <1>11
    <3> QED
      BY <1>1, <1>2, <1>3, <1>13, <2>1, <3>1, NextDelivered
  <2>5. ToSet(delivered') \cup reader'.failed = 1 .. q
    BY <1>11, <2>3, <2>4
  <2>6. Follows(q, reader'.data[f.id]) /\ q + Len(reader'.data[f.id]) = taken'
    BY <1>8, <1>13, <2>2, EmptyBytes DEF Follows
  <2>7. UtilsAt(q)'
    BY <1>9, <2>2, <2>5, <2>6 DEF UtilsAt
  <2> QED
    BY <1>8, <1>10, <2>4, <2>7 DEF UtilsInv
<1> QED
  BY <1>5, <1>12, <1>13 DEF whole, data

(* What is left of the fields of a call that ends. *)
LEMMA DataDropped ==
  ASSUME ReadersShared, UtilsInv, NEW r \in base, NEW b \in BaseResults(r, asked[r.id]),
         NEW failed \in SUBSET Nat,
         reader' = [reader EXCEPT !.data[r.id] = <<>>, !.failed = failed]
  PROVE  /\ reader' \in UtilsFields /\ reader'.failed = failed
         /\ \A n \in 1 .. MaxRequests : reader'.data[n] = <<>>
<1>1. r.id \in 1 .. MaxRequests /\ \A n \in 1 .. MaxRequests : n # r.id => reader.data[n] = <<>>
  BY UtilsAnswered
<1>2. reader \in UtilsFields
  BY DEF UtilsInv, UtilsType
<1>3. reader' \in UtilsFields /\ reader'.failed = failed
      /\ reader'.data = [reader.data EXCEPT ![r.id] = <<>>]
  BY <1>1, <1>2, EmptyBytes DEF UtilsFields
<1>4. \A n \in 1 .. MaxRequests : reader'.data[n] = <<>>
  BY <1>1, <1>2, <1>3 DEF UtilsFields
<1> QED
  BY <1>3, <1>4

IsFully == reader.func = "fully"

LEMMA FullySteps ==
  ASSUME ReadersShared, UtilsInv, UNCHANGED kind, NEW r \in base,
         NEW b \in BaseResults(r, asked[r.id]), IsFully,
         FullyAnswered(r, b) \/ FullyContinues(r, b)
  PROVE  ReadersShared' /\ ReadStep /\ UtilsInv'
<1> DEFINE data == DataWith(r, b)
<1>1. /\ b.bytes \in ByteSeq /\ Splits(data, reader.data[r.id], b.bytes)
      /\ Len(b.bytes) <= asked[r.id] /\ asked[r.id] \in Nat /\ sizes[r.id] \in Nat
      /\ Len(reader.data[r.id]) \in Nat /\ Len(b.bytes) \in Nat
      /\ base = {r} /\ r.id \in 1 .. MaxRequests
      /\ \A n \in 1 .. MaxRequests : n # r.id => reader.data[n] = <<>>
  BY UtilsAnswered
<1>2. reader \in UtilsFields /\ AsksForRest /\ AsksForPending /\ later = {}
  BY DEF UtilsInv, UtilsType
<1>a. asked[r.id] + Len(reader.data[r.id]) = sizes[r.id]
  BY <1>2 DEF AsksForRest, IsFully
<1> HIDE DEF data
<1>3. data \in ByteSeq /\ Len(data) = Len(reader.data[r.id]) + Len(b.bytes) /\ Len(data) \in Nat
      /\ ToSet(data) \subseteq Nat
  <2>1. data \in ByteSeq /\ Len(data) = Len(reader.data[r.id]) + Len(b.bytes)
    BY <1>1 DEF Splits
  <2>2. ToSet(data) \subseteq Nat
    BY <2>1, ToSetIs DEF ByteSeq
  <2> QED
    BY <2>1, <2>2, ConcatFacts
<1>4. Len(data) <= sizes[r.id] /\ Len(data) \in Nat /\ sizes[r.id] \in Nat
  <2> DEFINE x == asked[r.id]
             y == Len(reader.data[r.id])
             z == Len(b.bytes)
  <2>1. x \in Nat /\ y \in Nat /\ z \in Nat /\ z <= x /\ x + y = sizes[r.id] /\ Len(data) = y + z
    BY <1>1, <1>3, <1>a
  <2> HIDE DEF x, y, z
  <2>2. Len(data) <= sizes[r.id]
    BY <2>1
  <2> QED
    BY <1>1, <1>3, <2>2
<1>5. ASSUME NEW res, AnswerBytes(r, b, [res |-> res, bytes |-> <<>>]),
             reader' = [reader EXCEPT !.data[r.id] = <<>>, !.failed = @ \cup ToSet(data)]
      PROVE  ReadersShared' /\ ReadStep /\ UtilsInv'
  <2> DEFINE failed == reader.failed \cup ToSet(data)
             a == [res |-> res, bytes |-> <<>>]
  <2>1. failed \in SUBSET Nat
    BY <1>2, <1>3 DEF UtilsFields
  <2>2. reader' = [reader EXCEPT !.data[r.id] = <<>>, !.failed = failed]
    BY <1>5
  <2> HIDE DEF failed
  <2>3. /\ reader' \in UtilsFields /\ reader'.failed = failed
        /\ \A n \in 1 .. MaxRequests : reader'.data[n] = <<>>
    BY <2>1, <2>2, DataDropped
  <2>4. AnswerBytes(r, b, a) /\ a.bytes = <<>>
    BY <1>5
  <2> HIDE DEF a
  <2>5. reader'.failed = reader.failed \cup ToSet(DataWith(r, b))
    BY <2>3 DEF failed, data
  <2> QED
    BY <2>3, <2>4, <2>5, UtilsEnds
<1>6. ASSUME AnswerBytes(r, b, [b EXCEPT !.bytes = data]), Len(data) >= sizes[r.id],
             reader' = [reader EXCEPT !.data[r.id] = <<>>, !.short = @ \/ Len(data) # sizes[r.id]]
      PROVE  ReadersShared' /\ ReadStep /\ UtilsInv'
  <2> DEFINE s == (reader.short \/ Len(data) # sizes[r.id])
             a == [b EXCEPT !.bytes = data]
  <2>1. Len(data) = sizes[r.id]
    BY <1>4, <1>6
  <2>2. s = FALSE
    BY <1>2, <2>1 DEF UtilsFields
  <2>3. reader' = [reader EXCEPT !.data[r.id] = <<>>, !.short = s]
    BY <1>6
  <2> HIDE DEF s
  <2>4. reader' \in UtilsFields /\ reader'.failed = reader.failed
        /\ reader'.data = [reader.data EXCEPT ![r.id] = <<>>]
    BY <1>1, <1>2, <2>2, <2>3, EmptyBytes DEF UtilsFields
  <2>5. \A n \in 1 .. MaxRequests : reader'.data[n] = <<>>
    BY <1>1, <1>2, <2>4 DEF UtilsFields
  <2>6. AnswerBytes(r, b, a) /\ a.bytes = data
    BY <1>6, ResultIsRecord
  <2> HIDE DEF a
  <2> QED
    BY <2>4, <2>5, <2>6, UtilsEnds DEF data
<1>7. CASE FullyAnswered(r, b)
  BY <1>5, <1>6, <1>7 DEF FullyAnswered, data
<1>8. CASE FullyContinues(r, b)
  <2> DEFINE n == sizes[r.id] - Len(data)
  <2>1. ReadsOn(r, b, n, Never) /\ reader' = [reader EXCEPT !.data[r.id] = data]
        /\ delivered' = delivered
    BY <1>8 DEF FullyContinues, data
  <2>2. n \in Nat /\ n + Len(data) = sizes[r.id]
    BY <1>4
  <2> HIDE DEF n
  <2>3. deadlines[r.id] <= Never /\ Never \in 0 .. Never
    BY BaseKnown, NeverFacts
  <2>4. /\ reader' \in UtilsFields /\ reader'.failed = reader.failed /\ reader'.func = "fully"
        /\ reader'.data[r.id] = data
        /\ \A m \in 1 .. MaxRequests : m # r.id => reader'.data[m] = <<>>
    <3>1. /\ reader' \in UtilsFields /\ reader'.failed = reader.failed /\ reader'.func = "fully"
          /\ reader'.data = [reader.data EXCEPT ![r.id] = data]
      BY <1>1, <1>2, <1>3, <2>1 DEF UtilsFields, IsFully
    <3> QED
      BY <1>1, <1>2, <3>1 DEF UtilsFields
  <2> DEFINE f == [r EXCEPT !.timeout_end = Never]
  <2>5. base' = {f} /\ asked' = [asked EXCEPT ![r.id] = n] /\ sizes' = sizes /\ later' = {}
    BY <1>1, <1>2, <2>1 DEF ReadsOn
  <2>6. f.id = r.id
    BY Shared DEF SharedType, RequestType
  <2> HIDE DEF f
  <2>7. asked'[r.id] = n
    BY <1>1, <2>5, Shared DEF BytesType
  <2>8. AsksForRest'
    BY <2>2, <2>4, <2>5, <2>6, <2>7 DEF AsksForRest
  <2>9. AsksForPending'
    BY <2>4 DEF AsksForPending
  <2>10. UtilsType'
    BY <2>4, <2>5, <2>6, <2>8, <2>9 DEF UtilsType
  <2> QED
    BY <2>1, <2>2, <2>3, <2>4, <2>10, UtilsReadsOn DEF data
<1> QED
  BY <1>7, <1>8

(* The other functions keep no data. *)
LEMMA NoDataKept ==
  ASSUME ReadersShared, UtilsInv, ~IsFully, NEW r \in base, NEW b \in BaseResults(r, asked[r.id])
  PROVE  /\ \A n \in 1 .. MaxRequests : reader.data[n] = <<>>
         /\ reader.data[r.id] = <<>> /\ DataWith(r, b) = b.bytes
         /\ reader \in UtilsFields
<1>1. \A n \in 1 .. MaxRequests : reader.data[n] = <<>>
  BY DEF UtilsInv, UtilsType, IsFully
<1>2. reader.data[r.id] = <<>> /\ b.bytes \in ByteSeq
  BY <1>1, UtilsAnswered
<1>3. DataWith(r, b) = b.bytes
  BY <1>2, EmptyBytes, ConcatFacts DEF DataWith
<1> QED
  BY <1>1, <1>2, <1>3 DEF UtilsInv, UtilsType

IsPending == reader.func = "pending"

LEMMA FunctionEnds ==
  ASSUME ReadersShared, UtilsInv, UNCHANGED kind, ~IsFully, NEW r \in base,
         NEW b \in BaseResults(r, asked[r.id]), ProcessAnswered(r, b) \/ PendingEnds(r, b)
  PROVE  ReadersShared' /\ ReadStep /\ UtilsInv'
<1>1. reader' = reader /\ reader'.failed = reader.failed
  BY DEF ProcessAnswered, PendingEnds
<1>2. \E a : AnswerBytes(r, b, a) /\ a.bytes = b.bytes
  <2>1. CASE ProcessAnswered(r, b)
    BY <2>1 DEF ProcessAnswered
  <2>2. CASE PendingEnds(r, b)
    <3> DEFINE a == [res |-> "ok", bytes |-> <<>>]
    <3>1. AnswerBytes(r, b, a) /\ a.bytes = <<>> /\ b.res # "ok"
      BY <2>2 DEF PendingEnds
    <3> HIDE DEF a
    <3>2. b.bytes = <<>>
      BY <3>1, UtilsAnswered
    <3> QED
      BY <3>1, <3>2
  <2> QED
    BY <2>1, <2>2
<1> PICK a : AnswerBytes(r, b, a) /\ a.bytes = b.bytes
  BY <1>2
<1>3. a.bytes = DataWith(r, b)
  BY NoDataKept
<1>4. reader' \in UtilsFields /\ \A n \in 1 .. MaxRequests : reader'.data[n] = <<>>
  BY <1>1, NoDataKept
<1> QED
  BY <1>1, <1>3, <1>4, UtilsEnds

LEMMA FunctionContinues ==
  ASSUME ReadersShared, UtilsInv, UNCHANGED kind, ~IsFully, NEW r \in base,
         NEW b \in BaseResults(r, asked[r.id]), NEW n \in Nat,
         NEW t \in 0 .. Never, deadlines[r.id] <= t, IsPending => t <= etime,
         ReadsOn(r, b, n, t), delivered' = delivered \o b.bytes, UNCHANGED reader
  PROVE  ReadersShared' /\ ReadStep /\ UtilsInv'
<1> DEFINE f == [r EXCEPT !.timeout_end = t]
<1>1. \A m \in 1 .. MaxRequests : reader'.data[m] = <<>>
  BY NoDataKept
<1>2. reader' \in UtilsFields /\ reader.data[r.id] = <<>> /\ reader'.data[r.id] = <<>>
      /\ reader'.failed = reader.failed
  BY NoDataKept
<1>3. base = {r} /\ later = {}
  BY UtilsAnswered DEF UtilsInv, UtilsType
<1>4. base' = (base \ {r}) \cup {f} /\ later' = later /\ etime' = etime
  BY DEF ReadsOn
<1>5. f.timeout_end = t
  BY Shared DEF SharedType, RequestType
<1> HIDE DEF f
<1>6. AsksForPending'
  BY <1>3, <1>4, <1>5 DEF AsksForPending, IsPending
<1>7. AsksForRest'
  BY DEF AsksForRest, IsFully
<1>8. UtilsType'
  BY <1>1, <1>2, <1>3, <1>4, <1>6, <1>7 DEF UtilsType
<1> QED
  BY <1>2, <1>8, UtilsReadsOn

LEMMA UtilsAnswers ==
  ASSUME ReadersShared, UtilsInv, UNCHANGED kind, UtilsSomeAnswer
  PROVE  ReadersShared' /\ ReadStep /\ UtilsInv'
<1>1. PICK r \in base : \E b \in BaseResults(r, asked[r.id]) :
        \/ reader.func = "fully" /\ (FullyAnswered(r, b) \/ FullyContinues(r, b))
        \/ reader.func = "process" /\ (ProcessAnswered(r, b) \/ ProcessContinues(r, b))
        \/ reader.func = "pending" /\ (PendingEnds(r, b) \/ PendingContinues(r, b))
  BY DEF UtilsSomeAnswer
<1>2. PICK b \in BaseResults(r, asked[r.id]) :
        \/ reader.func = "fully" /\ (FullyAnswered(r, b) \/ FullyContinues(r, b))
        \/ reader.func = "process" /\ (ProcessAnswered(r, b) \/ ProcessContinues(r, b))
        \/ reader.func = "pending" /\ (PendingEnds(r, b) \/ PendingContinues(r, b))
  BY <1>1
<1>3. /\ deadlines[r.id] <= r.timeout_end /\ r.timeout_end \in 0 .. Never
      /\ r.timeout_end <= etime => deadlines[r.id] <= etime
      /\ etime \in 0 .. Never
  BY BaseKnown
<1>4. CASE reader.func = "fully" /\ (FullyAnswered(r, b) \/ FullyContinues(r, b))
  BY <1>4, FullySteps DEF IsFully
<1>5. CASE reader.func = "process" /\ (ProcessAnswered(r, b) \/ ProcessContinues(r, b))
  <2>1. ~IsFully /\ ~IsPending /\ 1 \in Nat
    BY <1>5 DEF IsFully, IsPending
  <2>2. CASE ProcessAnswered(r, b)
    BY <2>1, <2>2, FunctionEnds
  <2>3. CASE ProcessContinues(r, b)
    <3>1. ReadsOn(r, b, 1, r.timeout_end) /\ delivered' = delivered \o b.bytes /\ UNCHANGED reader
      BY <2>3 DEF ProcessContinues
    <3> QED
      BY <1>3, <2>1, <3>1, FunctionContinues
  <2> QED
    BY <1>5, <2>2, <2>3
<1>6. CASE reader.func = "pending" /\ (PendingEnds(r, b) \/ PendingContinues(r, b))
  <2>1. ~IsFully
    BY <1>6 DEF IsFully
  <2>2. CASE PendingEnds(r, b)
    BY <2>1, <2>2, FunctionEnds
  <2>3. CASE PendingContinues(r, b)
    <3>1. ReadsOn(r, b, asked[r.id], etime) /\ delivered' = delivered \o b.bytes /\ UNCHANGED reader
      BY <2>3 DEF PendingContinues
    <3>2. r.timeout_end <= etime
      BY <1>6 DEF UtilsInv, UtilsType, AsksForPending
    <3>3. asked[r.id] \in Nat /\ deadlines[r.id] <= etime /\ (IsPending => etime <= etime)
      BY <1>3, <3>2, UtilsAnswered, SMTT(20)
    <3> QED
      BY <1>3, <2>1, <3>1, <3>3, FunctionContinues
  <2> QED
    BY <1>6, <2>2, <2>3
<1> QED
  BY <1>2, <1>4, <1>5, <1>6

LEMMA CallOfFunction ==
  ASSUME ReadersShared, UtilsInv, UNCHANGED kind, OpenReads = {},
         NEW max_size \in Nat, NEW timeout \in 0 .. Never, Read(max_size, timeout),
         ReadFromBase(Request(timeout), max_size),
         UNCHANGED <<queues, taken, later, delivered, reader>>,
         IsPending => timeout = 0
  PROVE  ReadersShared' /\ ReadStep /\ UtilsInv'
<1> DEFINE r == Request(timeout)
<1>1. NewRequest(r) /\ Forwarded(r) = r /\ r.id \in 1 .. MaxRequests /\ etime' = etime
      /\ sizes' = [sizes EXCEPT ![r.id] = max_size]
  BY ReadMade
<1>2. base = {} /\ later = {} /\ OneOpen
  BY OneOpenFacts DEF UtilsInv
<1>3. ReadFromBase(r, max_size)
  OBVIOUS
<1>4. IsPending => r.timeout_end <= etime
  <2>1. etime \in 0 .. Never
    BY Shared, NeverFacts DEF SharedType
  <2>2. SatAdd(etime, 0, Never) = etime
    BY <2>1, NeverFacts DEF SatAdd
  <2>3. r.timeout_end = SatAdd(etime, timeout, Never)
    BY DEF Request
  <2>4. etime <= etime
    BY <2>1, NeverFacts
  <2> QED
    BY <2>2, <2>3, <2>4
<1> HIDE DEF r
<1>5. base' = base \cup {r} /\ base' = {r} /\ asked' = [asked EXCEPT ![r.id] = max_size]
  BY <1>1, <1>2, <1>3 DEF ReadFromBase
<1>6. ReadersShared' /\ ReadStep
  BY <1>5, ReadAtBase DEF r
<1>7. OneOpen'
  BY <1>2, <1>6, OneOpenKept
<1>8. reader \in UtilsFields /\ \A n \in 1 .. MaxRequests : reader.data[n] = <<>>
  BY <1>2 DEF UtilsInv, UtilsType
<1>9. asked'[r.id] = max_size /\ sizes'[r.id] = max_size /\ reader'.data[r.id] = <<>>
  BY <1>1, <1>5, <1>8, Shared DEF BytesType
<1>10. AsksForRest'
  <2>1. asked'[r.id] + Len(reader'.data[r.id]) = sizes'[r.id]
    BY <1>9, EmptyBytes
  <2> QED
    BY <1>5, <2>1 DEF AsksForRest
<1>11. AsksForPending'
  BY <1>1, <1>4, <1>5 DEF AsksForPending, IsPending
<1>12. UtilsType'
  BY <1>2, <1>8, <1>10, <1>11 DEF UtilsType
<1> PICK p \in Nat : UtilsAt(p)
  BY DEF UtilsInv
<1>13. p = taken /\ taken \in Nat
  BY <1>2, Shared, BytesReadingAssumption DEF UtilsAt, BytesType
<1>14. Follows(p, reader'.data[r.id]) /\ p + Len(reader'.data[r.id]) = taken
  BY <1>9, <1>13, EmptyBytes DEF Follows
<1>15. UtilsAt(p)'
  BY <1>5, <1>13, <1>14 DEF UtilsAt
<1> QED
  BY <1>6, <1>7, <1>12, <1>15 DEF UtilsInv

LEMMA UtilsStep ==
  ASSUME ReadersShared, UtilsInv, UNCHANGED kind, UtilsNext \/ UNCHANGED reading_vars
  PROVE  ReadersShared' /\ ReadStep /\ UtilsInv'
<1>1. CASE Calls
  <2>1. OpenReads = {} /\ UNCHANGED <<queues, taken, later, delivered, reader>>
    BY <1>1 DEF Calls
  <2>2. ASSUME NEW size \in ReadSizes, ReadBytesFully(size)
        PROVE  ReadersShared' /\ ReadStep /\ UtilsInv'
    <3>1. Read(size, Never) /\ ReadFromBase(Request(Never), size) /\ ~IsPending
      BY <2>2 DEF ReadBytesFully, IsPending
    <3>2. size \in Nat /\ Never \in 0 .. Never
      BY BytesReadingAssumption, NeverFacts
    <3> QED
      BY <2>1, <3>1, <3>2, CallOfFunction
  <2>3. ASSUME NEW timeout \in Timeouts, ProcessReadBytesWithTimeout(timeout)
        PROVE  ReadersShared' /\ ReadStep /\ UtilsInv'
    <3>1. Read(1, timeout) /\ ReadFromBase(Request(timeout), 1) /\ ~IsPending
      BY <2>3 DEF ProcessReadBytesWithTimeout, IsPending
    <3> QED
      BY <2>1, <3>1, TimeoutsIs, CallOfFunction
  <2>4. CASE ReadAllPendingBytes(2)
    <3>1. Read(2, 0) /\ ReadFromBase(Request(0), 2)
      BY <2>4 DEF ReadAllPendingBytes
    <3>2. 0 \in 0 .. Never
      BY NeverFacts
    <3> QED
      BY <2>1, <3>1, <3>2, CallOfFunction
  <2> QED
    BY <1>1, <2>2, <2>3, <2>4 DEF Calls
<1>2. CASE HandlerReturns \/ (UNCHANGED bytes_vars /\ (QueueTask \/ Advance \/ UNCHANGED shared_vars))
  <2>1. ReadersShared' /\ ReadStep
    BY <1>2, HandlerReturnsStep, LoopTaskStep
  <2>2. /\ base' = base /\ deadlines' = deadlines /\ asked' = asked /\ sizes' = sizes
        /\ taken' = taken /\ later' = later /\ delivered' = delivered /\ reader' = reader
    BY <1>2, LoopTaskIs DEF bytes_vars, HandlerReturns
  <2>3. OneOpen'
    BY <2>1, <2>2, OneOpenKept DEF UtilsInv
  <2>4. AsksForRest' /\ AsksForPending /\ later = {}
    BY <2>2 DEF UtilsInv, UtilsType, AsksForRest
  <2>5. AsksForPending'
    <3>1. etime' = etime \/ (etime' = etime + 1)
      <4>1. CASE HandlerReturns \/ UNCHANGED shared_vars
        BY <4>1 DEF HandlerReturns, shared_vars
      <4>2. CASE QueueTask
        BY <4>2 DEF QueueTask, TimeoutTask, CancelTask, NextHandler, QueueTaskReturns
      <4>3. CASE Advance
        BY <4>3 DEF Advance
      <4> QED
        BY <1>2, <4>1, <4>2, <4>3
    <3>2. etime \in Nat /\ \A r \in base : r.timeout_end \in Nat
      BY BaseKnown, NeverFacts, Shared DEF SharedType
    <3>3. \A r \in base : r.timeout_end <= etime => r.timeout_end <= etime'
      BY <3>1, <3>2
    <3> QED
      BY <2>2, <2>4, <3>3 DEF AsksForPending
  <2>6. UtilsType'
    BY <2>2, <2>4, <2>5 DEF UtilsInv, UtilsType
  <2>7. PICK p \in Nat : UtilsAt(p)
    BY DEF UtilsInv
  <2>8. UtilsAt(p)'
    BY <2>2, <2>7 DEF UtilsAt
  <2> QED
    BY <2>1, <2>2, <2>3, <2>6, <2>8 DEF UtilsInv
<1> QED
  BY <1>1, <1>2, UtilsAnswers DEF UtilsNext, UtilsLoopStep, reading_vars

-----------------------------------------------------------------------------
(* The readers.                                                             *)

ReadersInv ==
  /\ ReadersShared
  /\ IsBuffered => BufferedInv
  /\ kind = "size_limited" => SizeLimitedInv
  /\ kind = "lines" => LinesInv
  /\ kind = "source" => SourcesInv
  /\ kind = "utils" => UtilsInv

SourcesFieldsStart ==
  \E source \in {"fd", "const", "failed"} :
    reader = [source |-> source, ready |-> {}, arrived |-> 0, notified |-> FALSE,
              spurious |-> FALSE, pending_error |-> "error"]

LEMMA SourcesStart ==
  ASSUME SourcesFieldsStart, base = {}, later = {}, taken = 0
  PROVE  SourcesType /\ reader.spurious = FALSE
<1>1. {} \in SUBSET RequestType
  OBVIOUS
<1>2. 0 \in 0 .. StreamLen /\ 0 <= 0
  BY BytesReadingAssumption
<1>3. /\ reader \in [source : {"fd", "const", "failed"}, ready : SUBSET RequestType,
                      arrived : 0 .. StreamLen, notified : BOOLEAN, spurious : {FALSE},
                      pending_error : {"error", "not connected"}]
      /\ reader.ready = {} /\ reader.arrived = 0 /\ reader.spurious = FALSE
  BY <1>1, <1>2 DEF SourcesFieldsStart
<1>4. /\ reader.ready \subseteq base
      /\ reader.source # "fd" => base = {}
      /\ reader.source # "const" => \A c \in later : c.bytes = <<>>
      /\ reader.ready # {} /\ ~reader.notified => Readable
  BY <1>3
<1>5. taken <= reader.arrived
  BY <1>2, <1>3
<1> QED
  BY <1>3, <1>4, <1>5 DEF SourcesType

LEMMA ReadersStart ==
  ASSUME ReadersInit
  PROVE  ReadersInv /\ ReadContract!Init
<1>1. InitBytes /\ kind \in ReaderKinds
  BY DEF ReadersInit, BufferedInit, SizeLimitedInit, LinesInit, SourcesInit, UtilsInit,
         IsBuffered, ReaderKinds
<1>2. InitShared /\ sizes = [n \in 1 .. MaxRequests |-> 0] /\ asked = [n \in 1 .. MaxRequests |-> 0]
      /\ taken = 0 /\ later = {} /\ delivered = <<>>
  BY <1>1 DEF InitBytes
<1>3. /\ etime = 0 /\ deadlines = <<>> /\ base = {} /\ mode = Idle /\ alive = TRUE
  BY <1>2 DEF InitShared
<1>4. SharedInv /\ Plain!Init /\ Open = {}
  BY <1>2, InitSharedFacts
<1>5. OpenReads = {} /\ LaterInv /\ Promised = {}
  BY <1>2, <1>4 DEF OpenReads, LaterInv, Promised
<1>6. ReadContract!Init
  BY <1>3, <1>5 DEF ReadContract!Init
<1>7. 0 \in Nat /\ 0 \in 0 .. StreamLen /\ Len(deadlines) <= MaxRequests /\ 1 .. 0 = {}
  BY <1>3, BytesReadingAssumption, RequestHandlingAssumption
<1>8. BytesType
  BY <1>2, <1>7, EmptyBytes DEF BytesType
<1>9. ReadersShared
  BY <1>1, <1>4, <1>5, <1>8 DEF ReadersShared
<1>10. /\ Distinct(<<>>) /\ Ascending(<<>>) /\ <<>> \in ByteSeq /\ Len(<<>>) = 0 /\ ToSet(<<>>) = {}
       /\ \A n : Follows(n, <<>>)
  BY EmptyBytes DEF Distinct, Ascending, Follows
<1>11. OneOpen
  BY <1>5 DEF OneOpen
<1> USE <1>2, <1>3, <1>7, <1>10
<1>12. ASSUME IsBuffered PROVE BufferedInv
  <2>1. reader = [buffer |-> <<>>]
    BY <1>12 DEF ReadersInit, BufferedInit, IsBuffered
  <2>2. reader \in [buffer : ByteSeq] /\ reader.buffer = <<>>
    BY <2>1
  <2>3. BytesApart
    BY <2>2 DEF BytesApart
  <2>4. BufferedNoByteLost
    BY <1>5, <2>2 DEF BufferedNoByteLost
  <2>5. BytesInLine
    BY <1>11, <2>2 DEF BytesInLine
  <2> QED
    BY <2>2, <2>3, <2>4, <2>5 DEF BufferedInv
<1>13. ASSUME kind = "size_limited" PROVE SizeLimitedInv
  <2>1. SizeLimitedInit
    BY <1>13 DEF ReadersInit, IsBuffered
  <2>2. total_size_limit \in Nat
    BY SizeLimitedAssumption
  <2>3. /\ reader \in [remaining_size_limit : Nat, read_ongoing : BOOLEAN, read_bytes_count : Nat]
        /\ reader.remaining_size_limit = total_size_limit /\ reader.read_ongoing = FALSE
    BY <2>1, <2>2 DEF SizeLimitedInit
  <2>4. mode # InResponse
    BY ModesDiffer
  <2>5. Accounted
    BY <2>2, <2>3, <2>4 DEF Accounted
  <2> QED
    BY <2>2, <2>3, <2>4, <2>5 DEF SizeLimitedInv, TooLargeOnlyAtLimit
<1>14. ASSUME kind = "lines" PROVE LinesInv
  <2>1. LinesInit
    BY <1>14 DEF ReadersInit, IsBuffered
  <2>2. max_line_size \in Nat
    BY LinesAssumption
  <2>3. /\ reader \in [buffer : ByteSeq, line : [1 .. MaxRequests -> ByteSeq], failed : SUBSET Nat]
        /\ reader.buffer = <<>> /\ reader.failed = {}
        /\ \A n \in 1 .. MaxRequests : reader.line[n] = <<>>
    BY <2>1 DEF LinesInit
  <2>4. LinesType
    BY <2>2, <2>3 DEF LinesType
  <2>5. LinesDelivered
    BY DEF LinesDelivered
  <2>6. LinesAt(0)
    BY <2>3 DEF LinesAt
  <2> QED
    BY <1>11, <2>4, <2>5, <2>6 DEF LinesInv
<1>15. ASSUME kind = "source" PROVE SourcesInv
  <2>1. SourcesInit
    BY <1>15 DEF ReadersInit, IsBuffered
  <2>2. SourcesFieldsStart
    BY <2>1 DEF SourcesInit, SourcesFieldsStart
  <2>3. base = {} /\ later = {} /\ taken = 0
    OBVIOUS
  <2>4. SourcesType /\ reader.spurious = FALSE
    BY <2>2, <2>3, SourcesStart
  <2>5. SourcesNoByteLost
    BY <1>5, <2>4 DEF SourcesNoByteLost
  <2> QED
    BY <2>4, <2>5 DEF SourcesInv
<1>16. ASSUME kind = "utils" PROVE UtilsInv
  <2>1. UtilsInit
    BY <1>16 DEF ReadersInit, IsBuffered
  <2>2. PICK func \in {"fully", "process", "pending"} :
          reader = [func |-> func, data |-> [n \in 1 .. MaxRequests |-> <<>>],
                    failed |-> {}, short |-> FALSE]
    BY <2>1 DEF UtilsInit
  <2>3. /\ reader \in UtilsFields /\ reader.failed = {}
        /\ \A n \in 1 .. MaxRequests : reader.data[n] = <<>>
    BY <2>2 DEF UtilsFields
  <2>4. AsksForRest /\ AsksForPending
    BY DEF AsksForRest, AsksForPending
  <2>5. UtilsType
    BY <2>3, <2>4 DEF UtilsType
  <2>6. UtilsAt(0)
    BY <2>3 DEF UtilsAt
  <2> QED
    BY <1>11, <2>5, <2>6 DEF UtilsInv
<1> QED
  BY <1>6, <1>9, <1>12, <1>13, <1>14, <1>15, <1>16 DEF ReadersInv

LEMMA ReadersNextStep ==
  ASSUME ReadersInv, [ReadersNext]_reading_vars
  PROVE  ReadersInv' /\ ReadStep
<1>1. ReadersShared /\ kind \in ReaderKinds /\ UNCHANGED kind
  BY DEF ReadersInv, ReadersShared, ReadersNext, reading_vars
<1>2. CASE IsBuffered
  <2>1. kind # "size_limited" /\ kind # "lines" /\ kind # "source" /\ kind # "utils"
    BY <1>2 DEF IsBuffered
  <2>2. IsBuffered' <=> IsBuffered
    BY <1>1 DEF IsBuffered
  <2>3. \/ BufferedNext /\ (deadlines' # deadlines => ClientReads)
        \/ UNCHANGED reading_vars
    BY <2>1 DEF ReadersNext
  <2>4. kind = "buffered_alone" /\ deadlines' # deadlines => OpenReads = {}
    BY <2>3 DEF ClientReads, reading_vars, shared_vars
  <2>5. BufferedInv
    BY <1>2 DEF ReadersInv
  <2>6. ReadersShared' /\ ReadStep /\ BufferedInv'
    BY <1>1, <2>3, <2>4, <2>5, BufferedStep
  <2> QED
    BY <1>1, <2>1, <2>6 DEF ReadersInv
<1>3. CASE kind = "size_limited"
  <2>1. ~IsBuffered /\ ~IsBuffered' /\ kind' = "size_limited"
    BY <1>1, <1>3 DEF IsBuffered
  <2>2. SizeLimitedNext \/ UNCHANGED reading_vars
    BY <1>3, <2>1 DEF ReadersNext
  <2>3. ReadersShared' /\ ReadStep /\ SizeLimitedInv'
    BY <1>1, <1>3, <2>2, SizeLimitedStep DEF ReadersInv
  <2> QED
    BY <2>1, <2>3 DEF ReadersInv
<1>4. CASE kind = "lines"
  <2>1. ~IsBuffered /\ ~IsBuffered' /\ kind' = "lines"
    BY <1>1, <1>4 DEF IsBuffered
  <2>2. LinesNext \/ UNCHANGED reading_vars
    BY <1>4, <2>1 DEF ReadersNext
  <2>3. ReadersShared' /\ ReadStep /\ LinesInv'
    BY <1>1, <1>4, <2>2, LinesStep DEF ReadersInv
  <2> QED
    BY <2>1, <2>3 DEF ReadersInv
<1>5. CASE kind = "source"
  <2>1. ~IsBuffered /\ ~IsBuffered' /\ kind' = "source"
    BY <1>1, <1>5 DEF IsBuffered
  <2>2. SourcesNext \/ UNCHANGED reading_vars
    BY <1>5, <2>1 DEF ReadersNext
  <2>3. ReadersShared' /\ ReadStep /\ SourcesInv'
    BY <1>1, <1>5, <2>2, SourcesStep DEF ReadersInv
  <2> QED
    BY <2>1, <2>3 DEF ReadersInv
<1>6. CASE kind = "utils"
  <2>1. ~IsBuffered /\ ~IsBuffered' /\ kind' = "utils"
    BY <1>1, <1>6 DEF IsBuffered
  <2>2. UtilsNext \/ UNCHANGED reading_vars
    BY <1>6, <2>1 DEF ReadersNext
  <2>3. ReadersShared' /\ ReadStep /\ UtilsInv'
    BY <1>1, <1>6, <2>2, UtilsStep DEF ReadersInv
  <2> QED
    BY <2>1, <2>3 DEF ReadersInv
<1> QED
  BY <1>1, <1>2, <1>3, <1>4, <1>5, <1>6 DEF ReaderKinds, IsBuffered

(* What was read, delivered and is still to deliver is in order for each of *)
(* the readers, whatever clients read, the base reader answers, and when    *)
(* handlers return, time passes or the reader is dropped.                   *)
THEOREM ReadersInvariant == ReadersSpec => []ReadersInv
<1>1. ReadersInit => ReadersInv
  BY ReadersStart
<1>2. ReadersInv /\ [ReadersNext]_reading_vars => ReadersInv'
  BY ReadersNextStep
<1> QED
  BY <1>1, <1>2, PTL DEF ReadersSpec

(* The readers keep the contract of bytes_reader: each read is answered once, *)
(* later than it was made, and told of a timeout only when its time has come  *)
(* (bytes-reader.h:17-42).                                                    *)
THEOREM ReadersImplementContract == ReadersSpec => ImplementsBytesReader
<1>1. ReadersInit => ReadContract!Init
  BY ReadersStart
<1>2. ReadersInv /\ [ReadersNext]_reading_vars => [ReadContract!Next]_(ReadContract!vars)
  BY ReadersNextStep, ReadStepIs
<1> QED
  BY <1>1, <1>2, ReadersInvariant, PTL DEF ReadersSpec, ImplementsBytesReader, ReadContract!Spec

-----------------------------------------------------------------------------
(* What the invariant says of the properties.                               *)

LEMMA AscendingDistinct ==
  ASSUME NEW s \in ByteSeq, Ascending(s)
  PROVE  Distinct(s)
<1>1. Len(s) \in Nat /\ \A i \in 1 .. Len(s) : s[i] \in Nat
  BY ConcatFacts DEF ByteSeq
<1>2. ASSUME NEW i \in 1 .. Len(s), NEW j \in 1 .. Len(s), s[i] = s[j] PROVE i = j
  <2>1. ~(s[i] < s[j]) /\ ~(s[j] < s[i])
    BY <1>1, <1>2
  <2>2. ~(i < j) /\ ~(j < i)
    BY <2>1 DEF Ascending
  <2> QED
    BY <1>1, <2>2
<1> QED
  BY <1>2 DEF Distinct

LEMMA DistinctInjective == \A s \in ByteSeq : Distinct(s) => IsInjective(s)
  BY InjectiveIs DEF Distinct

LEMMA LimitsFollow ==
  ASSUME ReadersInv
  PROVE  ReadLimitKept
<1>1. ASSUME SizeLimitedInv PROVE SizeLimitKept
  <2>1. \A r \in base : base = {r} /\ taken + asked[r.id] <= total_size_limit
    BY <1>1 DEF SizeLimitedInv
  <2>2. alive /\ mode # InResponse => reader.remaining_size_limit = total_size_limit - taken
    BY <1>1 DEF SizeLimitedInv, Accounted
  <2> QED
    BY <2>1, <2>2 DEF SizeLimitKept
<1>2. ASSUME LinesInv PROVE LineLimitKept
  BY <1>2 DEF LinesInv, LinesType, LineLimitKept
<1> QED
  BY <1>1, <1>2 DEF ReadersInv, ReadLimitKept

LEMMA LinesKeepBytes ==
  ASSUME ReadersShared, LinesInv
  PROVE  LinesWhole
<1> DEFINE lines == UNION {ToSet(reader.line[n]) : n \in 1 .. MaxRequests}
<1>1. PICK p \in Nat : LinesAt(p)
  BY DEF LinesInv
<1>2. /\ taken \in Nat /\ delivered \in ByteSeq /\ \A c \in later : c.bytes \in ByteSeq
      /\ \A r \in base : r.id \in 1 .. MaxRequests
      /\ reader.buffer \in ByteSeq
      /\ \A n \in 1 .. MaxRequests : reader.line[n] \in ByteSeq
      /\ \A n \in 1 .. MaxRequests : reader.line[n] # <<>> => \E r \in base : r.id = n
  <2>1. \A r \in base : r.id \in 1 .. MaxRequests
    BY ReadIds
  <2>2. taken \in Nat /\ delivered \in ByteSeq /\ \A c \in later : c.bytes \in ByteSeq
    BY BytesReadingAssumption DEF ReadersShared, BytesType, LaterInv
  <2> QED
    BY <2>1, <2>2 DEF LinesInv, LinesType
<1>3. /\ \A r, o \in base : r = o
      /\ \A c, d \in later : c = d
      /\ base = {} \/ later = {}
  BY OneOpenFacts DEF LinesInv
<1>4. p <= taken /\ 1 .. p = ToSet(delivered) \cup reader.failed
  BY <1>1 DEF LinesAt
<1>5. \A s \in ByteSeq, q \in Nat : Follows(q, s) => ToSet(s) = q + 1 .. q + Len(s) /\ Len(s) \in Nat
  BY FollowsFacts, ConcatFacts
<1>6. base = {} => lines = {}
  BY <1>2, EmptyBytes
<1>7. later = {} => Promised = {}
  BY DEF Promised
<1>8. \A c \in later : Promised = ToSet(c.bytes)
  BY <1>3 DEF Promised
<1>9. \A r \in base : lines = ToSet(reader.line[r.id])
  <2> SUFFICES ASSUME NEW r \in base PROVE lines = ToSet(reader.line[r.id])
    OBVIOUS
  <2>1. \A n \in 1 .. MaxRequests : n # r.id => reader.line[n] = <<>>
    BY <1>2, <1>3
  <2>2. \A n \in 1 .. MaxRequests : n # r.id => ToSet(reader.line[n]) = {}
    BY <2>1, EmptyBytes
  <2> QED
    BY <1>2, <2>2
<1> HIDE DEF lines
<1>10. ASSUME alive
       PROVE  1 .. taken = (1 .. p) \cup Promised \cup lines \cup ToSet(reader.buffer)
  <2>1. ASSUME NEW r \in base
        PROVE  1 .. taken = (1 .. p) \cup Promised \cup lines \cup ToSet(reader.buffer)
    <3>1. later = {} /\ reader.buffer = <<>>
      BY <1>1, <1>3 DEF LinesAt
    <3>2. Promised = {} /\ ToSet(reader.buffer) = {} /\ lines = ToSet(reader.line[r.id])
      BY <1>7, <1>9, <3>1, EmptyBytes
    <3>3. Follows(p, reader.line[r.id]) /\ p + Len(reader.line[r.id]) = taken
          /\ reader.line[r.id] \in ByteSeq
      BY <1>1, <1>2 DEF LinesAt
    <3>4. lines = p + 1 .. taken
      BY <1>5, <3>2, <3>3
    <3>5. 1 .. taken = (1 .. p) \cup (p + 1 .. taken)
      BY <1>2, <1>4
    <3> QED
      BY <3>2, <3>4, <3>5
  <2>2. ASSUME NEW c \in later
        PROVE  1 .. taken = (1 .. p) \cup Promised \cup lines \cup ToSet(reader.buffer)
    <3>1. base = {}
      BY <1>3
    <3>2. lines = {} /\ Promised = ToSet(c.bytes)
      BY <1>6, <1>8, <3>1
    <3> DEFINE l == Len(c.bytes)
               b == Len(reader.buffer)
    <3>3. /\ Follows(p, c.bytes) /\ Follows(p + l, reader.buffer)
          /\ p + l + b = taken /\ c.bytes \in ByteSeq /\ reader.buffer \in ByteSeq
      BY <1>1, <1>2, <1>10 DEF LinesAt
    <3>4. l \in Nat /\ b \in Nat
      BY <3>3, ConcatFacts
    <3>5. ToSet(c.bytes) = p + 1 .. p + l
      BY <1>5, <3>3
    <3> HIDE DEF l, b
    <3>6. PICK q \in Nat : q = p + l
      BY <3>4
    <3>7. ToSet(reader.buffer) = q + 1 .. q + b
      <4>1. ToSet(reader.buffer) = q + 1 .. q + Len(reader.buffer)
        BY <1>5, <3>3, <3>6
      <4> QED
        BY <4>1 DEF b
    <3>8. q + b = taken /\ q <= taken /\ p <= q
      <4>1. p + l + b = taken
        BY <3>3
      <4> QED
        BY <3>4, <3>6, <4>1
    <3>9. 1 .. taken = (1 .. p) \cup (p + 1 .. q) \cup (q + 1 .. taken)
      BY <1>2, <3>8
    <3> QED
      BY <3>2, <3>5, <3>6, <3>7, <3>8, <3>9
  <2>3. CASE base = {} /\ later = {}
    <3>1. Follows(p, reader.buffer) /\ p + Len(reader.buffer) = taken
      BY <1>1, <1>10, <2>3 DEF LinesAt
    <3>2. ToSet(reader.buffer) = p + 1 .. taken /\ Promised = {} /\ lines = {}
      BY <1>2, <1>5, <1>6, <1>7, <2>3, <3>1
    <3>3. 1 .. taken = (1 .. p) \cup (p + 1 .. taken)
      BY <1>2, <1>4
    <3> QED
      BY <3>2, <3>3
  <2> QED
    BY <2>1, <2>2, <2>3
<1>11. alive => 1 .. taken = ToSet(delivered) \cup Promised \cup lines
                               \cup reader.failed \cup ToSet(reader.buffer)
  BY <1>4, <1>10
<1>12. LinesDelivered
  BY DEF LinesInv
<1> QED
  BY <1>11, <1>12 DEF LinesWhole, LinesDelivered, lines

LEMMA UtilsKeepBytes ==
  ASSUME ReadersShared, UtilsInv
  PROVE  NoByteSkipped
<1> DEFINE held == UNION {ToSet(reader.data[n]) : n \in 1 .. MaxRequests}
<1>1. PICK p \in Nat : UtilsAt(p)
  BY DEF UtilsInv
<1>2. taken \in Nat /\ \A r \in base : r.id \in 1 .. MaxRequests
  <2>1. taken \in Nat
    BY BytesReadingAssumption DEF ReadersShared, BytesType
  <2> QED
    BY <2>1, ReadIds
<1>3. /\ \A n \in 1 .. MaxRequests : reader.data[n] \in ByteSeq
      /\ \A n \in 1 .. MaxRequests : reader.data[n] # <<>> => \E r \in base : r.id = n
      /\ ~reader.short
  BY DEF UtilsInv, UtilsType, UtilsFields
<1>4. \A r, o \in base : r = o
  BY OneOpenFacts DEF UtilsInv
<1>5. p <= taken /\ 1 .. p = ToSet(delivered) \cup reader.failed
  BY <1>1 DEF UtilsAt
<1>6. base = {} => held = {}
  BY <1>3, EmptyBytes
<1>7. \A r \in base : held = ToSet(reader.data[r.id])
  <2> SUFFICES ASSUME NEW r \in base PROVE held = ToSet(reader.data[r.id])
    OBVIOUS
  <2>1. \A n \in 1 .. MaxRequests : n # r.id => reader.data[n] = <<>>
    BY <1>3, <1>4
  <2>2. \A n \in 1 .. MaxRequests : n # r.id => ToSet(reader.data[n]) = {}
    BY <2>1, EmptyBytes
  <2> QED
    BY <1>2, <2>2
<1> HIDE DEF held
<1>8. (1 .. p) \cup held = 1 .. taken
  <2>1. ASSUME NEW r \in base PROVE (1 .. p) \cup held = 1 .. taken
    <3>1. /\ Follows(p, reader.data[r.id]) /\ p + Len(reader.data[r.id]) = taken
          /\ reader.data[r.id] \in ByteSeq
      BY <1>1, <1>2, <1>3 DEF UtilsAt
    <3>2. held = p + 1 .. taken
      BY <1>7, <3>1, FollowsFacts
    <3>3. 1 .. taken = (1 .. p) \cup (p + 1 .. taken)
      BY <1>2, <1>5
    <3> QED
      BY <3>2, <3>3
  <2>2. CASE base = {}
    BY <1>1, <1>6, <2>2 DEF UtilsAt
  <2> QED
    BY <2>1, <2>2
<1>9. ToSet(delivered) \cup held \cup reader.failed = 1 .. taken
  BY <1>5, <1>8
<1>10. Ascending(delivered)
  BY DEF UtilsInv
<1> QED
  BY <1>3, <1>9, <1>10 DEF NoByteSkipped, held

LEMMA StreamKept ==
  ASSUME ReadersInv
  PROVE  StreamPreserved
<1>1. ReadersShared /\ kind \in ReaderKinds /\ delivered \in ByteSeq
  BY DEF ReadersInv, ReadersShared, BytesType
<1>2. Follows(0, delivered) => Distinct(delivered) /\ delivered = Span(1, Len(delivered))
  BY <1>1, FollowsFacts
<1>3. Ascending(delivered) => Distinct(delivered)
  BY <1>1, AscendingDistinct
<1>4. IsBuffered => Distinct(delivered) /\ BufferedNoByteLost
  BY DEF ReadersInv, BufferedInv, BytesApart
<1>5. kind = "buffered_alone" => delivered = Span(1, Len(delivered))
  BY <1>2 DEF ReadersInv, BufferedInv, BytesInLine, IsBuffered
<1>6. kind = "size_limited" => /\ Distinct(delivered) /\ delivered = Span(1, Len(delivered))
                               /\ taken = Len(delivered) /\ TooLargeOnlyAtLimit
  BY <1>2 DEF ReadersInv, SizeLimitedInv
<1>7. kind = "lines" => Distinct(delivered) /\ LinesWhole
  BY <1>1, <1>3, LinesKeepBytes DEF ReadersInv, LinesInv, LinesDelivered
<1>8. kind = "source" => Distinct(delivered) /\ SourcesNoByteLost
  BY <1>3 DEF ReadersInv, SourcesInv, SourcesNoByteLost
<1>9. kind = "utils" => Distinct(delivered) /\ NoByteSkipped
  BY <1>1, <1>3, UtilsKeepBytes DEF ReadersInv, UtilsInv
<1>10. IsInjective(delivered)
  <2>1. Distinct(delivered)
    BY <1>1, <1>4, <1>6, <1>7, <1>8, <1>9 DEF ReaderKinds, IsBuffered
  <2> QED
    BY <1>1, <2>1, DistinctInjective
<1> QED
  BY <1>4, <1>5, <1>6, <1>7, <1>8, <1>9, <1>10 DEF StreamPreserved

(* No byte that the base reader returned is lost or delivered twice, and a  *)
(* client that can rely on an order gets the bytes in the order of the      *)
(* stream, with any number of reads and bytes (buffered-bytes-reader.h:16-28, *)
(* lines-reader.cpp:98-127).                                                *)
THEOREM ReadersPreserveStream == ReadersSpec => []StreamPreserved
<1>1. ReadersInv => StreamPreserved
  BY StreamKept
<1> QED
  BY <1>1, ReadersInvariant, PTL

(* A size limited reader never reads more than its limit, whatever reads    *)
(* are made at the same time, and no line grows longer than a line may be   *)
(* (size-limited-bytes-reader.cpp:71-101, lines-reader.cpp:49-115).         *)
THEOREM ReadersKeepLimits == ReadersSpec => []ReadLimitKept
<1>1. ReadersInv => ReadLimitKept
  BY LimitsFollow
<1> QED
  BY <1>1, ReadersInvariant, PTL
===============================================================================
