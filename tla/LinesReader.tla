------------------------------ MODULE LinesReader ------------------------------
(* lines_reader and read_line: a request is for the bytes up to the next   *)
(* '\n'.  line holds what a request in progress has read: the prefix that  *)
(* it took from the buffer and the data of read_line_impl.                 *)
EXTENDS BytesReading

CONSTANTS max_line_size, input_chunk_size

ASSUME LinesAssumption == max_line_size \in Nat /\ input_chunk_size \in Nat

LinesInit ==
  /\ InitBytes
  /\ reader = [buffer |-> <<>>, line |-> [n \in 1 .. MaxRequests |-> <<>>],
               failed |-> {}]        \* history: bytes of failed requests
  /\ eols \in SUBSET (1 .. StreamLen)

HasEol(s) == \E i \in 1 .. Len(s) : s[i] \in eols
EolPos(s) == CHOOSE i \in 1 .. Len(s) : s[i] \in eols /\ \A j \in 1 .. i - 1 : s[j] \notin eols

\* What read_line_impl asks for: max_line_size is what the prefix left of it.
ChunkFor(line) == Min2(max_line_size + 1 - Len(line), input_chunk_size)

\* Delivered are the bytes of a line with its '\n', which the client is not given.
LinesHandleRequest(timeout) ==
  LET r == Request(timeout)
      buffer == reader.buffer
  IN  /\ Read(0, timeout)
      /\ \/ /\ HasEol(buffer)
            /\ InvokeLater(r, "ok", Prefix(buffer, EolPos(buffer)))
            /\ reader' = [reader EXCEPT !.buffer = Suffix(@, EolPos(buffer))]
            /\ UNCHANGED <<base, asked>>
         \/ /\ ~HasEol(buffer)
            /\ reader' = [reader EXCEPT !.buffer = <<>>, !.line[r.id] = buffer]
            /\ ReadFromBase(r, ChunkFor(buffer))
            /\ UNCHANGED later
      /\ UNCHANGED <<queues, taken, delivered>>

\* The line is there; the buffer gets the rest, unless the reader is gone.
LineEnds(r, b) ==
  LET line == reader.line[r.id]
      rest == IF alive THEN Suffix(b.bytes, EolPos(b.bytes)) ELSE <<>>
  IN  /\ HasEol(b.bytes)
      /\ AnswerBytes(r, b, [b EXCEPT !.bytes = line \o Prefix(@, EolPos(@))])
      /\ reader' = [reader EXCEPT !.buffer = @ \o rest, !.line[r.id] = <<>>]

\* An error, the end of the stream, or too long a line: what was read is lost.
LineFails(r, b) ==
  LET line == reader.line[r.id] \o b.bytes
  IN  /\ ~HasEol(b.bytes)
      /\ \/ b.res # "ok" /\ AnswerBytes(r, b, b)
         \/ /\ b.res = "ok" /\ b.bytes = <<>>
            /\ AnswerBytes(r, b, [res |-> "no message", bytes |-> <<>>])
         \/ /\ Len(line) > max_line_size
            /\ AnswerBytes(r, b, [res |-> "too large", bytes |-> <<>>])
      /\ reader' = [reader EXCEPT !.line[r.id] = <<>>, !.failed = @ \cup ToSet(line)]

\* read_line_impl reads on, with the time that is left.
LineContinues(r, b) ==
  LET line == reader.line[r.id] \o b.bytes
  IN  /\ mode = Idle
      /\ b.bytes # <<>> /\ ~HasEol(b.bytes) /\ Len(line) <= max_line_size
      /\ taken' = taken + Len(b.bytes)
      /\ reader' = [reader EXCEPT !.line[r.id] = line]
      /\ base' = (base \ {r}) \cup {Forwarded(r)}
      /\ asked' = [asked EXCEPT ![r.id] = ChunkFor(line)]
      /\ UNCHANGED <<etime, deadlines, queues, alive, mode, called, cancelled, result>>
      /\ UNCHANGED <<sizes, later, delivered, eols>>

LinesLoopStep == HandlerReturns \/ CallLater \/ (QueueTask /\ UNCHANGED bytes_vars)
LinesSomeAnswer ==
  \E r \in base : \E b \in BaseResults(r, asked[r.id]) :
    LineEnds(r, b) \/ LineFails(r, b) \/ LineContinues(r, b)

\* Clients ask for one line at a time: requests in progress at the same time
\* would share out the bytes of a line.
LinesNext ==
  \/ \E timeout \in Timeouts : OpenReads = {} /\ LinesHandleRequest(timeout)
  \/ LinesSomeAnswer \/ LinesLoopStep
  \/ (Destroy \/ Advance) /\ UNCHANGED bytes_vars

-----------------------------------------------------------------------------
(* No subtraction from max_line_size wraps: the buffer and a line in        *)
(* progress never hold more than a line may have (lines-reader.cpp:49,115). *)
LineLimitKept ==
  /\ Len(reader.buffer) <= max_line_size
  /\ \A n \in 1 .. MaxRequests : Len(reader.line[n]) <= max_line_size

(* Bytes are lost in failed requests only: all others were delivered, in    *)
(* lines that end with '\n' and begin where the last one ended or failed,   *)
(* or wait to be.                                                           *)
LinesWhole ==
  LET lines == UNION {ToSet(reader.line[n]) : n \in 1 .. MaxRequests}
  IN  /\ alive => 1 .. taken = ToSet(delivered) \cup Promised \cup lines
                                 \cup reader.failed \cup ToSet(reader.buffer)
      /\ \A i \in 1 .. Len(delivered) :
           \/ i > 1 /\ delivered[i] = delivered[i - 1] + 1
           \/ /\ delivered[i] - 1 \in reader.failed \cup {0}
              /\ i > 1 => delivered[i - 1] \in eols /\ delivered[i - 1] < delivered[i]
      /\ delivered # <<>> => Last(delivered) \in eols
==============================================================================
