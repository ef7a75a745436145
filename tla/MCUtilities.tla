------------------------------- MODULE MCUtilities -------------------------------
(***************************************************************************)
(* Model checking of the parts below the loops and the handlers: the       *)
(* initial state chooses descriptors, owners of activities, or values.     *)
(* For the values every state is a sample of arguments, small enough to    *)
(* take all of them, or the boundaries of a larger type.                   *)
(***************************************************************************)
EXTENDS Values, Descriptors, ActivityOwners, TLC

CONSTANT Kinds

VARIABLES sample, kind

vars == <<descriptor_vars, activity_vars, sample, kind>>

Symmetry == Permutations(Vars) \cup Permutations(Blocks) \cup Permutations(OwnerVars)

NoSample == <<"none">>

Init ==
  /\ kind \in Kinds
  /\ DescriptorsInit /\ (kind # "descriptors" => listen = 0)
  /\ ActivitiesInit
  /\ sample = NoSample

-----------------------------------------------------------------------------
(* Samples.                                                                  *)

Types == {Signed(1), Unsigned(1), Signed(2), Unsigned(2)}
Atoms == {char, Unsigned(1), Unsigned(2)}
Small == {-2, 1}            \* values of char with two bits
Number(T, v) == [class |-> "number", type |-> T, value |-> v]
Node(class, elems) == [class |-> class, elems |-> elems]

\* Characters at the edges of the ranges that the functions tell apart.
Chars == {0, 31, 32, 47, 48, 57, 58, 64, 65, 70, 71, 92, 96, 97, 102, 103, 120, 126, 127, 128, 255}
Texts == UNION {[1 .. n -> Chars] : n \in 0 .. 2} \cup {<<ch>> : ch \in 0 .. 255}
HexTexts == [1 .. 3 -> {48, 57, 65, 70, 71, 97, 102}] \cup Texts

PathChars == {NUL, 97}
Paths == UNION {[1 .. n -> PathChars] : n \in 0 .. SunPathSize + 1}

Ticks == FirstTick .. LastTick
Results == {create_with_value(v) : v \in {0, 1}} \cup {create_with_error(e) : e \in {0, 1}}

NumberSample ==
  \/ \E T \in Types \cup {Unsigned(4)} : \E v \in Numbers(T) : sample' = <<"number", T, v>>
  \/ \E TL, TR \in Types : \E l \in Numbers(TL), r \in Numbers(TR) :
       sample' = <<"pair", TL, TR, l, r>>
  \/ \E T \in Types, bound \in Small \cup {0} : sample' = <<"range", T, Cast(T, bound)>>

TupleSample ==
  \E a, b, c \in Small, T \in Types :
    LET x == Number(T, Cast(T, a))    y == Number(Unsigned(2), b + 2)    z == Number(char, c)
    IN  sample' \in {<<"tuple", Node("tuple", elems)>> :
          elems \in {<<>>, <<x>>, <<x, y, z>>,
                     <<Node("pair", <<y, z>>), x>>,
                     <<Node("array", <<Node("pair", <<x, y>>), Node("pair", <<x, z>>)>>)>>,
                     <<Node("tuple", <<>>), Node("tuple", <<z>>), y>>}}

SupplierSample ==
  \E chunks \in UNION {[1 .. n -> 1 .. 2] : n \in 0 .. 3}, sizes \in [1 .. 3 -> 0 .. 3] :
    sample' = <<"supplier", chunks, sizes>>

TextSample ==
  \/ \E text \in Texts : sample' = <<"text", text>>
  \/ \E hex \in HexTexts : sample' = <<"hex", hex>>

AddressSample ==
  \/ \E path \in Paths, other \in Paths : sample' = <<"paths", path, other>>
  \/ \E host \in {0, 1, 37, 254}, port \in Numbers(uint16_t) : sample' = <<"ipv4", host, port>>
  \/ \E path \in Paths, n \in 0 .. 3 : sample' = <<"datagram", path, n>>
  \/ \E size \in {4, 8}, value \in {"SOCK_STREAM", "SOCK_DGRAM", "SOCK_RAW"} :
       sample' = <<"option", [size |-> size, value |-> value]>>

TimeSample ==
  \/ \E time, delta \in Ticks : sample' = <<"sum", time, delta>>
  \/ \E duration \in 0 .. 5 * Second : sample' = <<"time", duration>>

ResultSample == \E lhs, rhs \in Results : sample' = <<"results", lhs, rhs>>

Sample ==
  /\ sample = NoSample
  /\ \/ NumberSample \/ TupleSample \/ SupplierSample \/ TextSample
     \/ AddressSample \/ TimeSample \/ ResultSample

Next ==
  /\ \/ kind = "descriptors" /\ DescriptorsNext /\ UNCHANGED <<activity_vars, sample>>
     \/ kind = "owners" /\ ActivitiesNext /\ UNCHANGED <<descriptor_vars, sample>>
     \/ kind = "values" /\ Sample /\ UNCHANGED <<descriptor_vars, activity_vars>>
  /\ UNCHANGED kind

Spec == Init /\ [][Next]_vars

-----------------------------------------------------------------------------
(* References for the functions on values.                                   *)

Unsigned_(T, v) == IF v < 0 THEN v + 2 ^ sizeof_in_bits(T) ELSE v

NumberInverts(T, v) ==
  /\ \A Atom \in {B \in Atoms : T.size % B.size = 0} :
       LET be == encode_to_be_atoms(Atom, T, v)
           le == encode_to_le_atoms(Atom, T, v)
       IN  /\ decode_be_atoms_to_number(Atom, T, be) = v
           /\ decode_le_atoms_to_number(Atom, T, le) = v
           /\ Reverse(be) = le
  /\ decode_be_bytes_to_number(T, encode_to_be_bytes(T, v)) = v
  /\ decode_le_bytes_to_number(T, encode_to_le_bytes(T, v)) = v
  /\ decode_leading_be_bytes_to_number(T, encode_to_be_bytes(T, v) \o <<1>>) = v
  /\ decode_leading_le_bytes_to_number(T, encode_to_le_bytes(T, v) \o <<1>>) = v
  /\ DecodeCounted(T, 2, encode_to_be_bytes(T, v) \o encode_to_be_bytes(T, 1)) = <<v, 1>>
  /\ is_power_of_two(T, v) <=> \E k \in 0 .. 15 : Unsigned_(T, v) = 2 ^ k
  /\ \A n \in 0 .. 9 : is_nth_bit_set(T, v, n) <=> ((Unsigned_(T, v) \div 2 ^ n) % 2) = 1

ComparesAsIntegers(TL, TR, l, r) ==
  /\ is_number_less(TL, TR, l, r) <=> l < r
  /\ number_fits_in_type(TR, TL, l) <=> l \in Numbers(TR)

\* A negative bound is never reached.
RangeEnds(T, bound) ==
  LET range == int_range(T, bound)
  IN  IF bound < 0 THEN Overflow \in ToSet(range)
      ELSE range = [i \in 1 .. bound |-> i - 1]

RECURSIVE Leaves(_)
Leaves(v) ==
  IF v.class = "number" THEN <<v>> ELSE FlattenSeq([i \in 1 .. Len(v.elems) |-> Leaves(v.elems[i])])

TupleInverts(v) ==
  LET bytes  == encode_tuple(v, "bytes", <<0>>)
      leaves == Leaves(v)
      TT     == [i \in 1 .. Len(leaves) |-> leaves[i].type]
  IN  /\ Head(bytes) = 0
      /\ Len(Tail(bytes)) = calc_encoded_tuple_size(v)
      /\ calc_encoded_tuple_size(v) = sizeof_sum(TT)
      /\ reduce(0, [T \in ToSet(TT), sum \in 0 .. sizeof_sum(TT) |-> T.size + sum], TT) = sizeof_sum(TT)
      /\ decode_be_bytes_to_numbers(TT, Tail(bytes)) = [i \in 1 .. Len(leaves) |-> leaves[i].value]

\* The chunks are numbered bytes; each call gets what it asked for until the end.
ChunksRegrouped(chunks, sizes) ==
  LET total(seq, n) == FoldLeft(LAMBDA sum, x : sum + x, 0, SubSeq(seq, 1, n))
      Chunk(i)  == [j \in 1 .. chunks[i] |-> total(chunks, i - 1) + j]
      base      == [i \in 1 .. Len(chunks) |-> Chunk(i)]
      all       == total(chunks, Len(chunks))
      Upto(n)   == IF total(sizes, n) < all THEN total(sizes, n) ELSE all
      supplied  == BufferingSupplier(sizes, [buffer |-> <<>>, base |-> base])
  IN  /\ \A i \in 1 .. Len(sizes) : supplied[i] = [j \in 1 .. Upto(i) - Upto(i - 1) |-> Upto(i - 1) + j]
      /\ copy_from_supplier_to_consumer(Append(base, <<>>)) = base
      /\ \A i \in 1 .. Len(base) : make_enumerating_func(base)[i] = <<i - 1, base[i]>>

RECURSIVE Unescaped(_)
Unescaped(text) ==
  LET Digit(i) == try_decode_hex_digit_to_number(text[i])
  IN  CASE text = <<>> -> <<>>
        [] text[1] # Backslash -> <<text[1]>> \o Unescaped(Tail(text))
        [] text[1] = Backslash /\ text[2] = Backslash -> <<Backslash>> \o Unescaped(SubSeq(text, 3, Len(text)))
        [] OTHER -> <<Digit(3) * 16 + Digit(4)>> \o Unescaped(SubSeq(text, 5, Len(text)))

TextInverts(text) ==
  /\ ToSet(to_hex_escaped_printable_string(text)) \subseteq Printable
  /\ Unescaped(to_hex_escaped_printable_string(text)) = text
  /\ HexEncodedResponse(HexEncodedRequest(text)) = text
  /\ Len(bytes_to_hex_string(text)) = 2 * Len(text)

UpperCase(ch) == IF ch \in LowerA .. LowerA + 25 THEN ch - LowerA + UpperA ELSE ch
IsHex(hex) == Len(hex) % 2 = 0 /\ \A i \in 1 .. Len(hex) : UpperCase(hex[i]) \in (Zero .. Zero + 9) \cup (UpperA .. UpperA + 5)
HexInverts(hex) ==
  LET bytes == try_decode_hex_string_to_bytes(hex)
  IN  IF IsHex(hex) THEN bytes_to_hex_string(bytes) = [i \in 1 .. Len(hex) |-> UpperCase(hex[i])]
      ELSE bytes = nullopt

PathsTold(path, other) ==
  LET abstract == make_local_abstract_socket_address(path)
      file     == make_local_filesystem_socket_address(path)
      unnamed  == make_local_socket_unnamed_address
      Same(a, b) == is_ok(a) /\ is_ok(b) /\ get_value(a) = get_value(b)
  IN  /\ is_ok(abstract) <=> Len(path) < SunPathSize
      /\ is_ok(file) <=> Len(path) \in 1 .. SunPathSize - 1 /\ NUL \notin ToSet(path)
      /\ \A a \in {abstract, file} : is_ok(a) => Len(get_value(a).bytes) <= SunPathSize /\ get_value(a) # unnamed
      /\ Same(abstract, make_local_abstract_socket_address(other)) => path = other
      /\ Same(file, make_local_filesystem_socket_address(other)) => path = other
      /\ ~Same(abstract, make_local_filesystem_socket_address(other))
      /\ is_ok(abstract) =>
           /\ get_local_socket_abstract_path(get_value(abstract)) = create_with_value(path)
           /\ bind_local_socket_to_auto_abstract_path(unnamed, path) = create_with_value(path)
           /\ connect_local_socket_to_abstract_path(path) = create_with_value(Autobind(path))
      /\ is_ok(file) => get_error(get_local_socket_abstract_path(get_value(file))) = BadAddress

Ipv4Told(host, port) ==
  LET addr == make_ipv4_socket_address(host, port)
  IN  /\ decode_be_bytes_to_numbers(<<uint16_t, uint32_t>>, addr.bytes) = <<port, host>>
      /\ ~is_ok(get_local_socket_abstract_path(addr))

NeverCut(data, n) ==
  LET received == receive_datagram_via_socket(data, "src", n)
  IN  IF Len(data) > n THEN get_error(received) = "message_size"
      ELSE get_value(received) = <<"src", data>>

OneSocketType(option) ==
  /\ ~(is_stream_socket(option) /\ is_datagram_socket(option))
  /\ is_stream_socket(option) <=> option = [size |-> 4, value |-> "SOCK_STREAM"]

SumSaturates(time, delta) ==
  time_point_sat_add(time, delta) =
    IF time + delta > LastTick THEN LastTick ELSE IF time + delta < FirstTick THEN FirstTick ELSE time + delta

\* Times after the epoch: the microseconds of one before it come out wrong.
TimeInverts(time) ==
  LET ts == make_timespec_from_duration(time)
      tv == make_timeval_from_duration(time)
      text == format_time_to_gmtime_microseconds(time)
      digits == SubSeq(text, 3, Len(text))
  IN  /\ ts[2] \in 0 .. Second - 1 /\ make_duration_from_timespec(ts) = time
      /\ tv[2] \in 0 .. Second \div 10 - 1 /\ make_duration_from_timeval(tv) = time - (time % 10)
      /\ Len(digits) = micros_dec_digits
      /\ text[1] * Second + FoldLeft(LAMBDA n, d : 10 * n + d, 0, digits) = time
      /\ format_time_to_localtime_microseconds_tz(time) = text \o Tz
      /\ format_time_to_localtime_seconds_tz(time) = format_time_to_gmtime_seconds(time) \o Tz

\* An error stays an error, also one whose code is 0.
ResultKept(lhs, rhs) ==
  LET failed == lhs.value = <<>>
      trans  == [v \in {0, 1} |-> create_with_value(v + 1)]
      merged == merge_result_handler(lhs)
  IN  /\ Converted(lhs) = lhs
      /\ Equal(lhs, rhs) <=> lhs = rhs
      /\ transform_result_handler(lhs, trans) = IF failed THEN lhs ELSE trans[get_value(lhs)]
      /\ merged.called = "base_res_handler" <=> failed
      /\ failed => merged.with = lhs /\ get_value(lhs) = LogicError
      /\ get_result_value_or_throw(lhs) =
           [thrown |-> IF failed THEN <<lhs.error>> ELSE <<>>, returned |-> lhs.value]
      /\ ~failed => raw_error_result(lhs) = LogicError
      /\ \A ok \in BOOLEAN : LET res == void_result(ok, lhs.error)
                            IN  is_ok(res) = ok /\ (ok \/ get_error(res) = lhs.error)
      /\ failed => ~Equal(make_raw_error_result_from_errno(lhs.error), create_with_value(lhs.error))

(* What the functions produce can be read back, and nothing else is taken   *)
(* for it: numbers and tuples and their bytes, texts and their escapes,     *)
(* socket addresses and paths, times and their parts, results and errors;   *)
(* comparisons and sums are those of the integers                           *)
(* (number-utils.h, string-utils.h, net-utils.h, time-utils.h, result.h).   *)
ValuesInvert ==
  kind = "values" =>
    CASE sample[1] = "none"     -> TRUE
      [] sample[1] = "number"   -> NumberInverts(sample[2], sample[3])
      [] sample[1] = "pair"     -> ComparesAsIntegers(sample[2], sample[3], sample[4], sample[5])
      [] sample[1] = "range"    -> RangeEnds(sample[2], sample[3])
      [] sample[1] = "tuple"    -> TupleInverts(sample[2])
      [] sample[1] = "supplier" -> ChunksRegrouped(sample[2], sample[3])
      [] sample[1] = "text"     -> TextInverts(sample[2])
      [] sample[1] = "hex"      -> HexInverts(sample[2])
      [] sample[1] = "paths"    -> PathsTold(sample[2], sample[3])
      [] sample[1] = "ipv4"     -> Ipv4Told(sample[2], sample[3])
      [] sample[1] = "datagram" -> NeverCut(sample[2], sample[3])
      [] sample[1] = "option"   -> OneSocketType(sample[2])
      [] sample[1] = "sum"      -> SumSaturates(sample[2], sample[3])
      [] sample[1] = "time"     -> TimeInverts(sample[2])
      [] sample[1] = "results"  -> ResultKept(sample[2], sample[3])
==================================================================================
