-------------------------- MODULE BufferedBytesReader --------------------------
(* buffered_bytes_reader: reads ahead and keeps what was not asked for.    *)
EXTENDS BytesReading

CONSTANT max_buffer_size

ASSUME BufferedAssumption == max_buffer_size \in Nat

BufferedInit == InitBytes /\ reader = [buffer |-> <<>>] /\ eols = {}

BufferedReadSomeBytes(max_size, timeout) ==
  LET r == Request(timeout)
      chunk == Prefix(reader.buffer, max_size)
  IN  /\ Read(max_size, timeout)
      /\ \/ /\ reader.buffer # <<>>
            /\ InvokeLater(r, "ok", chunk)
            /\ reader' = [buffer |-> Suffix(reader.buffer, Len(chunk))]
            /\ UNCHANGED <<base, asked>>
         \/ /\ reader.buffer = <<>>
            /\ ReadFromBase(r, IF max_size >= max_buffer_size THEN max_size
                               ELSE max_buffer_size)
            /\ UNCHANGED <<reader, later>>
      /\ UNCHANGED <<queues, taken, delivered>>

\* The rest is kept before the handler is called.  It is lost with the reader.
Overwrites(r, b) ==                                  \* mutant of BufferedBaseAnswers
  LET rest == Suffix(b.bytes, sizes[r.id])
  IN  /\ AnswerBytes(r, b, [b EXCEPT !.bytes = Prefix(@, sizes[r.id])])
      /\ reader' = (IF alive /\ rest # <<>> THEN [buffer |-> rest] ELSE reader)
BufferedBaseAnswers(r, b) ==
  LET rest == Suffix(b.bytes, sizes[r.id])
  IN  /\ AnswerBytes(r, b, [b EXCEPT !.bytes = Prefix(@, sizes[r.id])])
      /\ reader' = (IF alive THEN [buffer |-> reader.buffer \o rest] ELSE reader)

BufferedLoopStep == HandlerReturns \/ CallLater \/ (QueueTask /\ UNCHANGED bytes_vars)
BufferedSomeAnswer == \E r \in base : \E b \in BaseResults(r, asked[r.id]) : BufferedBaseAnswers(r, b)

BufferedNext ==
  \/ \E max_size \in ReadSizes, timeout \in Timeouts : BufferedReadSomeBytes(max_size, timeout)
  \/ BufferedSomeAnswer \/ BufferedLoopStep
  \/ (Destroy \/ Advance) /\ UNCHANGED bytes_vars

-----------------------------------------------------------------------------
(* Every byte that was read ahead is somewhere, and in one place: it was    *)
(* delivered, is on its way to a handler, or waits in the buffer.           *)
BufferedNoByteLost ==
  alive => 1 .. taken = Promised \cup ToSet(reader.buffer) \cup ToSet(delivered)
==============================================================================
