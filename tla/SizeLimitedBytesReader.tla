------------------------ MODULE SizeLimitedBytesReader ------------------------
(* size_limited_bytes_reader: one base read at a time, as its length is    *)
(* needed to know what the next one may ask for.  read_bytes_count is the  *)
(* local variable of the lambda that calls the response handler.           *)
EXTENDS BytesReading

CONSTANT total_size_limit

ASSUME SizeLimitedAssumption == total_size_limit \in Nat

SizeLimitedInit ==
  /\ InitBytes
  /\ reader = [remaining_size_limit |-> total_size_limit, read_ongoing |-> FALSE,
               read_bytes_count |-> 0]
  /\ eols = {}

\* read_some_bytes for a read that neither is empty nor has to wait, when the
\* reader's fields are f.
NoReturn(r, max_size, f) ==                          \* mutant of StartRead
  /\ later' = later \cup {[read |-> r, res |-> "too large", bytes |-> <<>>] :
                 x \in {0} \cap {f.remaining_size_limit}}
  /\ ReadFromBase(r, Min2(max_size, f.remaining_size_limit))
  /\ reader' = [f EXCEPT !.read_ongoing = TRUE]
StartRead(r, max_size, f) ==
  \/ /\ f.remaining_size_limit = 0
     /\ InvokeLater(r, "too large", <<>>)
     /\ reader' = f
     /\ UNCHANGED <<base, asked>>
  \/ /\ f.remaining_size_limit > 0
     /\ ReadFromBase(r, Min2(max_size, f.remaining_size_limit))
     /\ reader' = [f EXCEPT !.read_ongoing = TRUE]
     /\ UNCHANGED later

SizeLimitedReadSomeBytes(max_size, timeout) ==
  LET r == Request(timeout)
      mustWait == reader.read_ongoing /\ reader.remaining_size_limit > 0
  IN  /\ Read(max_size, timeout)
      /\ \/ /\ max_size = 0
            /\ InvokeLater(r, "ok", <<>>)
            /\ UNCHANGED <<queues, base, asked, reader>>
         \/ /\ max_size > 0 /\ ~mustWait
            /\ StartRead(r, max_size, reader)
            /\ UNCHANGED queues
         \/ /\ max_size > 0 /\ mustWait
            /\ Enqueue(1, r)
            /\ UNCHANGED <<base, asked, later, reader>>
      /\ UNCHANGED <<taken, delivered>>

SizeLimitedBaseAnswers(r, b) ==
  /\ AnswerBytes(r, b, b)
  /\ reader' = [reader EXCEPT !.read_bytes_count = Len(b.bytes)]

\* The client's handler has returned.  Only now the bytes that it was given are
\* taken from the limit and the next pending read, if any, is made.
NotCounted == [reader EXCEPT !.read_ongoing = FALSE] \* mutant of AfterRead
AfterRead ==
  [reader EXCEPT !.read_ongoing = FALSE, !.remaining_size_limit = @ - reader.read_bytes_count]

SizeLimitedResponseReturns ==
  /\ mode = InResponse
  /\ mode' = Idle
  /\ \/ /\ alive
        /\ \E r \in queues[1].requests :
             /\ IsFirst(r, queues[1].requests)
             /\ queues' = [queues EXCEPT ![1] = PullRequest(@, r)]
             /\ StartRead(r, sizes[r.id], AfterRead)
     \/ /\ alive => ~HasRequests(queues[1])
        /\ reader' = (IF alive THEN AfterRead ELSE reader)
        /\ UNCHANGED <<queues, base, asked, later>>
  /\ UNCHANGED <<etime, deadlines, alive, called, cancelled, result, sizes, taken, delivered, eols>>

SizeLimitedLoopStep == SizeLimitedResponseReturns \/ CallLater \/ (QueueTask /\ UNCHANGED bytes_vars)
SizeLimitedSomeAnswer == \E r \in base : \E b \in BaseResults(r, asked[r.id]) : SizeLimitedBaseAnswers(r, b)

SizeLimitedNext ==
  \/ \E max_size \in ReadSizes, timeout \in Timeouts : SizeLimitedReadSomeBytes(max_size, timeout)
  \/ SizeLimitedSomeAnswer \/ SizeLimitedLoopStep
  \/ (Destroy \/ Advance) /\ UNCHANGED bytes_vars

-----------------------------------------------------------------------------
(* No bytes above the limit are ever read, whatever reads are made at the   *)
(* same time and by response handlers: what was read and what the base      *)
(* reader may still return do not exceed it, and it does not wrap below 0.  *)
SizeLimitKept ==
  /\ \A r \in base : base = {r} /\ taken + asked[r.id] <= total_size_limit
  /\ alive /\ mode # InResponse => reader.remaining_size_limit = total_size_limit - taken

(* A read fails as too large only when the limit has been reached, and then *)
(* nothing is read any more.                                                *)
TooLargeOnlyAtLimit ==
  (\E c \in later : c.res = "too large") => taken = total_size_limit
==============================================================================
