---------------------------- MODULE MCBytesReaders ----------------------------
(***************************************************************************)
(* The decorators of bytes_reader, for model checking and proof: the       *)
(* initial state chooses the class.  "buffered_alone" has a client that    *)
(* makes one read at a time.                                               *)
(***************************************************************************)
EXTENDS BufferedBytesReader, SizeLimitedBytesReader, LinesReader, BytesSources,
        BytesReaderUtils

CONSTANTS
  Readers,       \* the classes to check
  MaxOpen, OpenSizes, OpenDeadlines
                 \* the reads that clients make while others are open

reading_vars == <<shared_vars, bytes_vars, kind>>

IsBuffered == kind \in {"buffered", "buffered_alone"}

ClientReads ==
  IF kind = "buffered_alone" THEN OpenReads = {}
  ELSE /\ Cardinality(OpenReads) < MaxOpen
       /\ sizes'[Len(deadlines')] \in OpenSizes
       /\ deadlines'[Len(deadlines')] \in OpenDeadlines

ReadersInit ==
  /\ kind \in Readers
  /\ \/ IsBuffered /\ BufferedInit
     \/ kind = "size_limited" /\ SizeLimitedInit
     \/ kind = "lines" /\ LinesInit
     \/ kind = "source" /\ SourcesInit
     \/ kind = "utils" /\ UtilsInit

ReadersNext ==
  /\ \/ /\ IsBuffered /\ BufferedNext
        /\ deadlines' # deadlines => ClientReads
     \/ kind = "size_limited" /\ SizeLimitedNext
     \/ kind = "lines" /\ LinesNext
     \/ /\ kind = "source" /\ SourcesNext
        /\ deadlines' # deadlines => OpenReads = {} \/ ClientReads
     \/ kind = "utils" /\ UtilsNext
  /\ UNCHANGED kind

ReadersSpec == ReadersInit /\ [][ReadersNext]_reading_vars

ReadersLoopStep ==
  /\ \/ IsBuffered /\ BufferedLoopStep
     \/ kind = "size_limited" /\ SizeLimitedLoopStep
     \/ kind = "lines" /\ LinesLoopStep
     \/ kind = "source" /\ SourcesLoopStep
     \/ kind = "utils" /\ UtilsLoopStep
  /\ UNCHANGED kind

ReadersSomeAnswer ==
  /\ \/ IsBuffered /\ BufferedSomeAnswer
     \/ kind = "size_limited" /\ SizeLimitedSomeAnswer
     \/ kind = "lines" /\ LinesSomeAnswer
     \/ kind = "source" /\ SourcesSomeAnswer
     \/ kind = "utils" /\ UtilsSomeAnswer
  /\ UNCHANGED kind

ReadersTime == Advance /\ UNCHANGED <<bytes_vars, kind>>

\* Handlers return, the loop runs its tasks, time passes, the base reader answers.
FairReadersSpec ==
  /\ ReadersSpec
  /\ WF_reading_vars(ReadersLoopStep)
  /\ WF_reading_vars(ReadersSomeAnswer)
  /\ WF_reading_vars(ReadersTime)

-----------------------------------------------------------------------------
(* The bytes of the stream: none is lost or delivered twice, and a client   *)
(* that can rely on an order gets them in the order of the stream           *)
(* (buffered-bytes-reader.h:16-28, lines-reader.cpp:98-127).                *)
StreamPreserved ==
  /\ IsInjective(delivered)
  /\ IsBuffered => BufferedNoByteLost
  /\ kind \in {"buffered_alone", "size_limited"} => delivered = Span(1, Len(delivered))
  /\ kind = "size_limited" => taken = Len(delivered) /\ TooLargeOnlyAtLimit
  /\ kind = "lines" => LinesWhole
  /\ kind = "source" => SourcesNoByteLost
  /\ kind = "utils" => NoByteSkipped

(* The limits on bytes: of a size limited reader, with reads made at the    *)
(* same time and by response handlers, and of a line.                       *)
ReadLimitKept ==
  /\ kind = "size_limited" => SizeLimitKept
  /\ kind = "lines" => LineLimitKept

(* Each read is answered, if the base reader answers and time passes - or   *)
(* the time of the read does, for a size limited reader, whose waiting      *)
(* reads are forgotten at the limit (size-limited-bytes-reader.cpp:71-101). *)
(* A function that goes on after an empty read never ends with a base       *)
(* reader that only says so (bytes-reader-utils.cpp:96-98).                 *)
Endless == kind = "utils" /\ reader.func # "fully"
EveryReadAnswered ==
  \A n \in 1 .. MaxRequests :
    (Len(deadlines) >= n /\ (kind = "size_limited" => deadlines[n] <= MaxTime) /\ ~Endless)
      ~> n \notin OpenReads
==============================================================================
