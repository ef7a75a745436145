---------------------------- MODULE BytesReaderUtils ----------------------------
(***************************************************************************)
(* The functions that read more than once for a client: read_bytes_fully,  *)
(* process_read_bytes_with_timeout and read_all_pending_bytes.  A request  *)
(* is a call of one of them, which the initial state chooses.              *)
(***************************************************************************)
EXTENDS BytesReading

\* data is what read_fully_context has collected for a call.
UtilsInit ==
  /\ InitBytes
  /\ eols \in SUBSET (1 .. StreamLen)        \* the bytes that the processor waits for
  /\ \E func \in {"fully", "process", "pending"} :
       reader = [func |-> func, data |-> [n \in 1 .. MaxRequests |-> <<>>],
                 failed |-> {},             \* history: bytes of calls that failed
                 short |-> FALSE]           \* history: success with another size

ReadBytesFully(size) ==
  /\ reader.func = "fully"
  /\ Read(size, Never)
  /\ ReadFromBase(Request(Never), size)

ProcessReadBytesWithTimeout(timeout) ==
  /\ reader.func = "process"
  /\ Read(1, timeout)
  /\ ReadFromBase(Request(timeout), 1)

ReadAllPendingBytes(default_read_size) ==
  /\ reader.func = "pending"
  /\ Read(default_read_size, 0)
  /\ ReadFromBase(Request(0), default_read_size)

\* One call at a time: two of them would share out the bytes.
Calls ==
  /\ OpenReads = {}
  /\ \/ \E size \in ReadSizes : ReadBytesFully(size)
     \/ \E timeout \in Timeouts : ProcessReadBytesWithTimeout(timeout)
     \/ ReadAllPendingBytes(2)
  /\ UNCHANGED <<queues, taken, later, delivered, reader>>

\* The lambda makes another read, until timeout_end.
ReadsOn(r, b, max_size, timeout_end) ==
  /\ mode = Idle
  /\ taken' = taken + Len(b.bytes)
  /\ base' = (base \ {r}) \cup {[r EXCEPT !.timeout_end = timeout_end]}
  /\ asked' = [asked EXCEPT ![r.id] = max_size]
  /\ UNCHANGED <<etime, deadlines, queues, alive, mode, called, cancelled, result>>
  /\ UNCHANGED <<sizes, later, eols>>

-----------------------------------------------------------------------------
(* read_fully_context::continue_work                                        *)

DataWith(r, b) == reader.data[r.id] \o b.bytes

FullyAnswered(r, b) ==
  LET data == DataWith(r, b)
      Fails(res) ==
        /\ AnswerBytes(r, b, [res |-> res, bytes |-> <<>>])
        /\ reader' = [reader EXCEPT !.data[r.id] = <<>>, !.failed = @ \cup ToSet(data)]
  IN  \/ b.res # "ok" /\ Fails(b.res)
      \/ /\ b.res = "ok" /\ Len(data) >= sizes[r.id]
         /\ AnswerBytes(r, b, [b EXCEPT !.bytes = data])
         /\ reader' = [reader EXCEPT !.data[r.id] = <<>>, !.short = @ \/ Len(data) # sizes[r.id]]
      \/ b.res = "ok" /\ Len(data) < sizes[r.id] /\ b.bytes = <<>> /\ Fails("no message")

FullyContinues(r, b) ==
  LET data == DataWith(r, b)
  IN  /\ b.bytes # <<>> /\ Len(data) < sizes[r.id]
      /\ ReadsOn(r, b, sizes[r.id] - Len(data), Never)
      /\ reader' = [reader EXCEPT !.data[r.id] = data]
      /\ UNCHANGED delivered

-----------------------------------------------------------------------------
(* process_read_bytes_with_timeout: bytes_processor gets a byte at a time   *)
(* and returns a result for those of eols.  An empty read tells nothing.    *)

ProcessAnswered(r, b) ==
  /\ b.res = "ok" => b.bytes # <<>> /\ b.bytes[1] \in eols
  /\ AnswerBytes(r, b, b)
  /\ UNCHANGED reader

ProcessContinues(r, b) ==
  /\ b.res = "ok"
  /\ b.bytes # <<>> => b.bytes[1] \notin eols
  /\ ReadsOn(r, b, 1, r.timeout_end)
  /\ delivered' = delivered \o b.bytes
  /\ UNCHANGED reader

-----------------------------------------------------------------------------
(* read_all_pending_bytes: data_consumer gets the bytes, after_func is       *)
(* called for the first read that is not ok.                                 *)

PendingContinues(r, b) ==
  /\ b.res = "ok"
  /\ ReadsOn(r, b, asked[r.id], etime)
  /\ delivered' = delivered \o b.bytes
  /\ UNCHANGED reader

PendingEnds(r, b) ==
  /\ b.res # "ok"
  /\ AnswerBytes(r, b, [res |-> "ok", bytes |-> <<>>])
  /\ UNCHANGED reader

-----------------------------------------------------------------------------
UtilsLoopStep == HandlerReturns \/ (QueueTask /\ UNCHANGED bytes_vars)
UtilsSomeAnswer ==
  \E r \in base : \E b \in BaseResults(r, asked[r.id]) :
    \/ reader.func = "fully" /\ (FullyAnswered(r, b) \/ FullyContinues(r, b))
    \/ reader.func = "process" /\ (ProcessAnswered(r, b) \/ ProcessContinues(r, b))
    \/ reader.func = "pending" /\ (PendingEnds(r, b) \/ PendingContinues(r, b))

UtilsNext == Calls \/ UtilsSomeAnswer \/ UtilsLoopStep \/ (Advance /\ UNCHANGED bytes_vars)

-----------------------------------------------------------------------------
(* The bytes come in their order and none is skipped, but for those of a     *)
(* call that failed; and a full read has the size that was asked for         *)
(* (bytes-reader-utils.cpp:55-75, bytes-reader-utils-impl.h:100-129).        *)
NoByteSkipped ==
  LET held == UNION {ToSet(reader.data[n]) : n \in 1 .. MaxRequests}
  IN  /\ ToSet(delivered) \cup held \cup reader.failed = 1 .. taken
      /\ Ascending(delivered)
      /\ ~reader.short
==============================================================================
