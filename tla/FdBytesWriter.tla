----------------------------- MODULE FdBytesWriter -----------------------------
(***************************************************************************)
(* Writes to a descriptor: async_write_job has a watch until all its data  *)
(* is written or a write fails.  The jobs are made by the clients, or one  *)
(* after the other by the sequential chunks writer, a sequential handler   *)
(* whose base handler is the bytes_writer.                                 *)
(***************************************************************************)
EXTENDS SequentialRequestHandler

CONSTANT DataLen     \* bytes of a request's data

ASSUME FdWriterAssumption == DataLen \in Nat

\* [chunked, ongoing, offset, pipe, acked]: request_ongoing of the sequential
\* handler, data_offset of the jobs, and as history the bytes <<id, position>>
\* in the order in which they were written, and the requests answered with ok.
writer == own

FdWriterInit ==
  /\ InitShared
  /\ \E chunked \in BOOLEAN :
       writer = [chunked |-> chunked, ongoing |-> FALSE, offset |-> [n \in 1 .. MaxRequests |-> 0],
                 pipe |-> <<>>, acked |-> {}]

\* write_bytes has no timeout, and the chunks writer ignores what it is given.
WriteBytes ==
  ~writer.chunked /\ PassOn(Request(Never)) /\ UNCHANGED writer

WriteChunk(timeout) ==
  /\ writer.chunked
  /\ Admit(1, Request(timeout), writer.ongoing)
  /\ writer' = [writer EXCEPT !.ongoing = TRUE]

\* The descriptor is writable: some bytes of the rest go, or all.
Written(id, k) ==
  [writer EXCEPT !.offset[id] = @ + k,
                 !.pipe = @ \o [i \in 1 .. k |-> <<id, writer.offset[id] + i>>]]

WriteSome(r, k) ==
  \/ /\ writer.offset[r.id] + k < DataLen
     /\ mode = Idle
     /\ writer' = Written(r.id, k)
     /\ UNCHANGED shared_vars
  \/ /\ writer.offset[r.id] + k = DataLen
     /\ writer' = [Written(r.id, k) EXCEPT !.acked = @ \cup {r.id}]
     /\ Answer(r, "ok")

\* Also EAGAIN, when another job's watch of the same round filled the pipe.
FdWriteFails(r) == Answer(r, "error") /\ UNCHANGED writer

FdWriterResponseReturns ==
  /\ ResponseReturned
  /\ \/ /\ writer.chunked
        /\ ForwardPending(1)
        /\ writer' = [writer EXCEPT !.ongoing = IF alive THEN HasRequests(queues[1]) ELSE @]
     \/ ~writer.chunked /\ UNCHANGED <<queues, base, writer>>

FdWriterLoopStep == FdWriterResponseReturns \/ (QueueTask /\ UNCHANGED writer)
FdWriterSomeAnswer ==
  \E r \in base :
    FdWriteFails(r) \/ \E k \in 1 .. DataLen - writer.offset[r.id] : WriteSome(r, k)

FdWriterNext ==
  \/ WriteBytes \/ \E timeout \in Timeouts : WriteChunk(timeout)
  \/ FdWriterSomeAnswer \/ FdWriterLoopStep
  \/ (Destroy \/ Advance) /\ UNCHANGED writer

-----------------------------------------------------------------------------
WrittenBytes == {writer.pipe[i] : i \in DOMAIN writer.pipe}

(* A request is answered with ok when all its bytes were written, in order, *)
(* and chunks are not mixed: one follows the other, cut only when its write *)
(* failed (fd-bytes-writer.cpp:74-87, sequential-chunks-writer.cpp:35-38).  *)
FdWriterLimitKept ==
  /\ \A i \in DOMAIN writer.pipe :
       LET id == writer.pipe[i][1]
           before == {writer.pipe[j] : j \in 1 .. i - 1}
       IN  /\ {b \in before : b[1] = id} = {<<id, p>> : p \in 1 .. writer.pipe[i][2] - 1}
           /\ writer.chunked => \A b \in before : b[1] <= id
  /\ \A id \in writer.acked :
       {b \in WrittenBytes : b[1] = id} = {<<id, p>> : p \in 1 .. DataLen}

(* See SequentialRequestHandler. *)
FdWriterNoneForgotten == writer.chunked => OngoingWhileInUse(writer.ongoing)
==============================================================================
