------------------------------ MODULE BytesSources ------------------------------
(***************************************************************************)
(* The bytes_readers at the end of a chain: fd_bytes_reader, whose reads   *)
(* each have a watch of the descriptor and a timeout task,                 *)
(* const_bytes_reader with the bytes of a datagram, and                    *)
(* failed_recv_bytes_io for a datagram that could not be received.         *)
(***************************************************************************)
EXTENDS BytesReading

\* base has the async_read_contexts; ready are those whose watches the loop
\* notifies since the last ppoll, arrived are the bytes that the peer sent.
SourcesInit ==
  /\ InitBytes
  /\ eols = {}
  /\ \E source \in {"fd", "const", "failed"} :
       reader = [source |-> source, ready |-> {}, arrived |-> 0, notified |-> FALSE,
                 spurious |-> FALSE,      \* history: EAGAIN for the first of a round
                 pending_error |-> "error"]

FdRead(r, max_size) ==
  /\ reader.source = "fd"
  /\ IF max_size = 0
     THEN InvokeLater(r, "ok", <<>>) /\ UNCHANGED <<base, asked>>
     ELSE /\ base' = base \cup {r}
          /\ asked' = [asked EXCEPT ![r.id] = max_size]
          /\ UNCHANGED later
  /\ UNCHANGED <<taken, reader>>

\* substr(offset, max_size) of the input, whatever the timeout.
ConstRead(r, max_size) ==
  LET chunk == Span(taken + 1, Min2(taken + max_size, StreamLen))
  IN  /\ reader.source = "const"
      /\ InvokeLater(r, "ok", chunk)
      /\ taken' = taken + Len(chunk)
      /\ UNCHANGED <<base, asked, reader>>

FailedRead(r) ==
  /\ reader.source = "failed"
  /\ InvokeLater(r, reader.pending_error, <<>>)
  /\ reader' = [reader EXCEPT !.pending_error = "not connected"]
  /\ UNCHANGED <<base, asked, taken>>

SourcesReadSomeBytes(max_size, timeout) ==
  /\ Read(max_size, timeout)
  /\ \/ FdRead(Request(timeout), max_size)
     \/ ConstRead(Request(timeout), max_size)
     \/ FailedRead(Request(timeout))
  /\ UNCHANGED <<queues, delivered>>

Arrive ==
  /\ reader.source = "fd"
  /\ reader.arrived < StreamLen
  /\ reader' = [reader EXCEPT !.arrived = @ + 1]
  /\ UNCHANGED shared_vars
  /\ UNCHANGED <<sizes, asked, taken, later, delivered, eols>>

Readable == reader.arrived > taken \/ reader.arrived = StreamLen

\* ppoll returns: the watches of all contexts are to be notified.
FdPolled ==
  /\ mode = Idle
  /\ reader.source = "fd"
  /\ reader.ready = {} /\ Readable /\ base # {}
  /\ reader' = [reader EXCEPT !.ready = base, !.notified = FALSE]
  /\ UNCHANGED shared_vars
  /\ UNCHANGED <<sizes, asked, taken, later, delivered, eols>>

\* read() in a watch: the bytes that are there, the end of the stream when the
\* peer is gone, EAGAIN when another context of the round got them all.
FdResults(n) ==
  {[res |-> "error", bytes |-> <<>>]}
  \cup IF reader.arrived > taken \/ reader.arrived = StreamLen
       THEN {[res |-> "ok", bytes |-> Span(taken + 1, Min2(taken + n, reader.arrived))]}
       ELSE {[res |-> "again", bytes |-> <<>>]}

\* handle_result resets the watch and the timeout task.
ContextEnded(r) ==
  reader' = [reader EXCEPT !.ready = @ \ {r}, !.notified = reader.ready # {},
                           !.spurious = @ \/ (result'.res = "again" /\ ~reader.notified)]

\* The watches of a descriptor are notified in the order they were added in.
FdWatchNotified(r) ==
  LET enabled == reader.ready \cap base
  IN  /\ r \in enabled
      /\ \A o \in enabled : r.id <= o.id
      /\ \E b \in FdResults(asked[r.id]) : AnswerBytes(r, b, b)
      /\ ContextEnded(r)

\* The tasks whose time has come run after the watches of the round.
FdReadTimesOut(r) ==
  /\ reader.source = "fd"
  /\ r \in base
  /\ reader.ready = {}
  /\ LET b == [res |-> "timed out", bytes |-> <<>>] IN AnswerBytes(r, b, b)
  /\ ContextEnded(r)

\* invoke_result_handler_later: tasks of one time run in the order they came.
SourcesLaterTask == CallLater /\ \A c \in later' : c.read.id > result'.id

SourcesLoopStep ==
  \/ HandlerReturns \/ SourcesLaterTask \/ FdPolled
  \/ QueueTask /\ UNCHANGED bytes_vars
  \/ \E r \in base : FdWatchNotified(r) \/ FdReadTimesOut(r)
SourcesSomeAnswer == Arrive

\* No time passes while watches are notified.  What a read needs does not
\* belong to the reader, which may be gone.
SourcesNext ==
  \/ \E max_size \in ReadSizes, timeout \in Timeouts : SourcesReadSomeBytes(max_size, timeout)
  \/ SourcesSomeAnswer \/ SourcesLoopStep
  \/ Advance /\ reader.ready = {} /\ UNCHANGED bytes_vars

-----------------------------------------------------------------------------
(* The bytes are delivered in order and none is lost, not even when reads   *)
(* time out or are made at the same time; EAGAIN reaches a client only when *)
(* reads overlap (fd-bytes-reader.cpp:61-98).                               *)
SourcesNoByteLost ==
  /\ 1 .. taken = ToSet(delivered) \cup Promised
  /\ Ascending(delivered)
  /\ \A c \in later :
       /\ Ascending(c.bytes)
       /\ \A x \in ToSet(c.bytes) :
            /\ \A y \in ToSet(delivered) : y < x
            /\ \A d \in later : d.read.id < c.read.id => \A y \in ToSet(d.bytes) : y < x
  /\ ~reader.spurious
==============================================================================
