----------------------------- MODULE BytesReading -----------------------------
(***************************************************************************)
(* What the decorators of a bytes_reader have in common.  A read is a      *)
(* request whose request is max_size.  The base reader is any reader of    *)
(* one stream, with the contract of bytes-reader.h; a byte is its position *)
(* in the stream.  A decorator EXTENDS this module with its own state.     *)
(***************************************************************************)
EXTENDS RequestHandling, SequencesExt

CONSTANTS
  StreamLen,      \* bytes before the end of the stream
  ReadSizes       \* values of max_size

ASSUME BytesReadingAssumption == StreamLen \in Nat /\ ReadSizes \subseteq Nat

VARIABLES
  sizes,          \* max_size of the reads, 0 for those the decorator answered
  asked,          \* max_size of the base reader's reads, else 0
  taken,          \* bytes that the base reader has returned
  later,          \* [read, res, bytes]: calls by invoke_result_handler_later
  delivered,      \* history: the bytes that response handlers got
  eols            \* the bytes of the stream that are '\n'

reader == own     \* the fields of the decorator

bytes_vars == <<sizes, asked, taken, later, delivered, reader, eols>>

InitBytes ==
  /\ InitShared
  /\ sizes = [n \in 1 .. MaxRequests |-> 0]
  /\ asked = [n \in 1 .. MaxRequests |-> 0]
  /\ taken = 0
  /\ later = {}
  /\ delivered = <<>>

Min2(a, b) == IF a < b THEN a ELSE b
Span(first, last) == [i \in 1 .. last - first + 1 |-> first + i - 1]
Prefix(s, n) == SubSeq(s, 1, Min2(n, Len(s)))
Suffix(s, n) == SubSeq(s, n + 1, Len(s))

Read(max_size, timeout) ==
  /\ Accept(Request(timeout))
  /\ sizes' = [sizes EXCEPT ![Len(deadlines) + 1] = max_size]
  /\ UNCHANGED eols

ReadFromBase(r, max_size) ==
  /\ base' = base \cup {Forwarded(r)}
  /\ asked' = [asked EXCEPT ![r.id] = max_size]

\* invoke_result_handler_later_via_bytes_reader: a read of no bytes, after
\* which the handler gets a result that is known already.
InvokeLater(r, res, bytes) ==
  later' = later \cup {[read |-> r, res |-> res, bytes |-> bytes]}

\* What the base reader may answer to a read of up to n bytes by r.timeout_end:
\* no bytes only when none were wanted or the stream ended.
BaseResults(r, n) ==
  {[res |-> "ok", bytes |-> Span(taken + 1, taken + k)] : k \in
     IF n = 0 \/ taken = StreamLen THEN {0} ELSE 1 .. Min2(n, StreamLen - taken)}
  \cup IF n = 0 THEN {}
       ELSE {[res |-> "error", bytes |-> <<>>]}
            \cup {[res |-> "timed out", bytes |-> <<>>] : t \in {r.timeout_end} \cap 0 .. etime}

\* The base reader calls the lambda of the decorator with b, and the lambda
\* calls the response handler with a.
AnswerBytes(r, b, a) ==
  /\ Answer(r, a.res)
  /\ taken' = taken + Len(b.bytes)
  /\ delivered' = delivered \o a.bytes
  /\ sizes' = [sizes EXCEPT ![r.id] = 0]
  /\ asked' = [asked EXCEPT ![r.id] = 0]
  /\ UNCHANGED <<later, eols>>

CallLater ==
  \E c \in later :
    /\ mode = Idle
    /\ mode' = InLater
    /\ later' = later \ {c}
    /\ result' = [id |-> c.read.id, res |-> c.res]
    /\ delivered' = delivered \o c.bytes
    /\ sizes' = [sizes EXCEPT ![c.read.id] = 0]
    /\ UNCHANGED <<etime, deadlines, queues, base, alive, called, cancelled>>
    /\ UNCHANGED <<asked, taken, reader, eols>>

\* The response handler of a decorator without queue returns.
HandlerReturns ==
  /\ mode = InResponse
  /\ mode' = Idle
  /\ UNCHANGED <<etime, deadlines, queues, base, alive, called, cancelled, result, bytes_vars>>

-----------------------------------------------------------------------------
Promised == UNION {ToSet(c.bytes) : c \in later}
Ascending(s) == \A i, j \in 1 .. Len(s) : i < j => s[i] < s[j]

OpenReads == Open \cup {c.read.id : c \in later}

(* Each read is answered once, later, and told of a timeout only when its   *)
(* time has come (bytes-reader.h:17-42).                                    *)
ReadContract ==
  INSTANCE RequestHandler WITH Times <- 0 .. Never, open <- OpenReads, copies <- {}
ImplementsBytesReader == ReadContract!Spec
==============================================================================
