---------------------------------- MODULE Values ----------------------------------
(***************************************************************************)
(* The pure functions: number-utils, the decoding of bytes-reader-utils,   *)
(* tuple-encoder, int-range, function-utils and string-utils; then the     *)
(* value types: result<T> and the handlers made of handlers, socket        *)
(* addresses, datagrams, times and durations.  A number's type is [size,   *)
(* signed], its size in bytes of CharBit bits; a byte that is part of a    *)
(* text is its code.                                                       *)
(***************************************************************************)
EXTENDS Integers, Sequences, SequencesExt

CONSTANTS
  CharBit,        \* bits of a byte
  nullopt,
  SunPathSize,    \* sizeof(sockaddr_un::sun_path)
  LastTick,       \* time_point::max(); time_point::min() is -LastTick - 1
  Second,         \* ticks of a second, a power of 10
  WordSize,       \* values of uint32_t
  LogicError      \* thrown by throw_logic_error

ASSUME CharBitAssumption == CharBit \in Nat \ {0}

-----------------------------------------------------------------------------
(* Types and conversions.                                                    *)

Signed(size) == [size |-> size, signed |-> TRUE]
Unsigned(size) == [size |-> size, signed |-> FALSE]
char == Signed(1)

sizeof_in_bits(T) == T.size * CharBit
sizeof_in_atoms(Atom, T) == T.size \div Atom.size
sizeof_sum(TT) == FoldLeft(LAMBDA sum, T : sum + T.size, 0, TT)

MinValue(T) == IF T.signed THEN -(2 ^ (sizeof_in_bits(T) - 1)) ELSE 0
MaxValue(T) == IF T.signed THEN 2 ^ (sizeof_in_bits(T) - 1) - 1 ELSE 2 ^ sizeof_in_bits(T) - 1
Numbers(T) == MinValue(T) .. MaxValue(T)

\* static_cast<T>
Cast(T, value) ==
  LET u == value % 2 ^ sizeof_in_bits(T)
  IN  IF u > MaxValue(T) THEN u - 2 ^ sizeof_in_bits(T) ELSE u

cast_to_unsigned(T, value) == Cast([T EXCEPT !.signed = FALSE], value)

BitsOf(u) == {n \in 0 .. 30 : (u \div 2 ^ n) % 2 = 1}

is_nth_bit_set(T, value, n) ==
  n < sizeof_in_bits(T) /\ n \in BitsOf(cast_to_unsigned(T, value))

\* (u & (u - 1)) = 0
is_power_of_two(T, value) ==
  LET u == cast_to_unsigned(T, value)
  IN  u # 0 /\ BitsOf(u) \cap BitsOf(u - 1) = {}

\* What the comparison of the built-in types does: a mutant of is_number_less.
LessAfterConversion(TL, TR, lhs, rhs) ==
  IF TL.signed = TR.signed THEN lhs < rhs
  ELSE cast_to_unsigned(TL, lhs) < cast_to_unsigned(TR, rhs)

is_number_less(TL, TR, lhs, rhs) ==
  \/ TL.signed = TR.signed /\ lhs < rhs
  \/ TL.signed /\ ~TR.signed /\ (lhs < 0 \/ cast_to_unsigned(TL, lhs) < rhs)
  \/ ~TL.signed /\ TR.signed /\ rhs >= 0 /\ lhs < cast_to_unsigned(TR, rhs)

number_fits_in_type(T, TV, number) ==
  ~ \/ is_number_less(TV, T, number, MinValue(T))
    \/ is_number_less(T, TV, MaxValue(T), number)

-----------------------------------------------------------------------------
(* Numbers as atoms: bytes, or larger parts.                                 *)

get_nth_atom(Atom, T, value, n) ==
  Cast(Atom, cast_to_unsigned(T, value) \div 2 ^ (n * sizeof_in_bits(Atom)))

encode_to_be_atoms(Atom, T, value) ==
  LET count == sizeof_in_atoms(Atom, T)
  IN  [i \in 1 .. count |-> get_nth_atom(Atom, T, value, count - i)]

encode_to_le_atoms(Atom, T, value) ==
  [i \in 1 .. sizeof_in_atoms(Atom, T) |-> get_nth_atom(Atom, T, value, i - 1)]

encode_to_be_bytes(T, value) == encode_to_be_atoms(char, T, value)
encode_to_le_bytes(T, value) == encode_to_le_atoms(char, T, value)

\* value |= static_cast<T>(cast_to_unsigned(atoms[i])) << ...: the bits of the
\* atoms do not overlap, so that | adds.
Shifted(Atom, atom, places) == cast_to_unsigned(Atom, atom) * 2 ^ (sizeof_in_bits(Atom) * places)

decode_be_atoms_to_number(Atom, T, atoms) ==
  LET n == Len(atoms)
  IN  Cast(T, FoldLeftDomain(LAMBDA v, i : v + Shifted(Atom, atoms[i], n - i), 0, atoms))

decode_le_atoms_to_number(Atom, T, atoms) ==
  Cast(T, FoldLeftDomain(LAMBDA v, i : v + Shifted(Atom, atoms[i], i - 1), 0, atoms))

decode_be_bytes_to_number(T, bytes) == decode_be_atoms_to_number(char, T, bytes)
decode_le_bytes_to_number(T, bytes) == decode_le_atoms_to_number(char, T, bytes)

Used(T, bytes) == SubSeq(bytes, 1, IF T.size < Len(bytes) THEN T.size ELSE Len(bytes))

decode_leading_be_bytes_to_number(T, bytes) ==
  LET used == Used(T, bytes)
      n == Len(used)
  IN  Cast(T, FoldLeftDomain(LAMBDA v, i : v + Shifted(char, used[i], n - i), 0, used))

decode_leading_le_bytes_to_number(T, bytes) ==
  Cast(T, FoldLeftDomain(LAMBDA v, i : v + Shifted(char, bytes[i], i - 1), 0, Used(T, bytes)))

RECURSIVE decode_be_bytes_to_numbers(_, _)
decode_be_bytes_to_numbers(TT, input) ==
  IF TT = <<>> THEN <<>>
  ELSE <<decode_leading_be_bytes_to_number(Head(TT), input)>>
         \o decode_be_bytes_to_numbers(Tail(TT), SubSeq(input, Head(TT).size + 1, Len(input)))

\* read_be_numbers_fully with a count: the bytes of the i-th number by substr.
DecodeCounted(T, count, input) ==
  [i \in 1 .. count |->
     decode_leading_be_bytes_to_number(T, SubSeq(input, (i - 1) * T.size + 1, i * T.size))]

-----------------------------------------------------------------------------
(* encode_tuple: a value is [class |-> "number", type, value], or [class,    *)
(* elems] of a tuple, pair or array; kind is "bytes" for an encoder that     *)
(* appends the bytes, "size" for encoded_size_collector with sizeof.         *)

EncodeNumber(v, kind, out) ==
  IF kind = "size" THEN out + v.type.size ELSE out \o encode_to_be_bytes(v.type, v.value)

RECURSIVE encode_tuple(_, _, _), encode_from_index(_, _, _, _), EncodeArray(_, _, _, _)

encode_from_index(idx, v, kind, out) ==
  LET encoded == encode_tuple(v.elems[idx], kind, out)
  IN  IF idx < Len(v.elems) THEN encode_from_index(idx + 1, v, kind, encoded) ELSE encoded

EncodePair(v, kind, out) ==
  encode_tuple(v.elems[2], kind, encode_tuple(v.elems[1], kind, out))

EncodeArray(i, v, kind, out) ==
  IF i > Len(v.elems) THEN out
  ELSE EncodeArray(i + 1, v, kind, encode_tuple(v.elems[i], kind, out))

EncodeEmpty(out) == out

encode_tuple(v, kind, out) ==
  CASE v.class = "number" -> EncodeNumber(v, kind, out)
    [] v.class = "pair"   -> EncodePair(v, kind, out)
    [] v.class = "array"  -> EncodeArray(1, v, kind, out)
    [] v.class = "tuple" /\ v.elems = <<>> -> EncodeEmpty(out)
    [] OTHER -> encode_from_index(1, v, kind, out)

calc_encoded_tuple_size(v) == encode_tuple(v, "size", 0)

-----------------------------------------------------------------------------
(* int_range<T>(upper_bound): begin() is 0, and ++ goes on until the value   *)
(* is the bound; past the largest value it is undefined.                     *)

Overflow == -1
RECURSIVE Iterate(_, _, _)
Iterate(T, value, end) ==
  IF value = end THEN <<>>
  ELSE <<value>> \o (IF value = MaxValue(T) THEN <<Overflow>> ELSE Iterate(T, value + 1, end))

int_range(T, upper_bound) == Iterate(T, 0, upper_bound)

-----------------------------------------------------------------------------
(* function-utils.  A supplier is the sequence of what its calls return.     *)

reduce(init_value, op, values) == FoldRight(LAMBDA v, acc : op[v, acc], values, init_value)

\* Up to the first value that is not to be continued with, the empty one.
copy_from_supplier_to_consumer(supplied) ==
  LET Continued(n) == \A i \in 1 .. n : supplied[i] # <<>>
  IN  SubSeq(supplied, 1, CHOOSE n \in 0 .. Len(supplied) :
        Continued(n) /\ (n < Len(supplied) => ~Continued(n + 1)))

make_enumerating_func(args) == [i \in 1 .. Len(args) |-> <<i - 1, args[i]>>]

\* One call for chunk_size bytes: what it returns, and what stays in
\* bytes_buffer and with the base supplier.  An exhausted one returns <<>>.
RECURSIVE SupplyChunk(_, _, _)
SupplyChunk(chunk_size, output, s) ==
  LET need == chunk_size - Len(output)
      part == SubSeq(s.buffer, 1, IF need < Len(s.buffer) THEN need ELSE Len(s.buffer))
      all  == output \o part
      rest == SubSeq(s.buffer, Len(part) + 1, Len(s.buffer))
      next == IF s.base = <<>> THEN <<>> ELSE Head(s.base)
      more == [buffer |-> next, base |-> IF s.base = <<>> THEN <<>> ELSE Tail(s.base)]
  IN  CASE Len(all) = chunk_size -> [output |-> all, s |-> [s EXCEPT !.buffer = rest]]
        [] next = <<>>           -> [output |-> all, s |-> more]
        [] OTHER                 -> SupplyChunk(chunk_size, all, more)

RECURSIVE BufferingSupplier(_, _)
BufferingSupplier(sizes, s) ==
  IF sizes = <<>> THEN <<>>
  ELSE LET call == SupplyChunk(Head(sizes), <<>>, s)
       IN  <<call.output>> \o BufferingSupplier(Tail(sizes), call.s)

-----------------------------------------------------------------------------
(* Texts: the codes of their characters, 8 bits each.                        *)

Zero == 48
UpperA == 65
LowerA == 97
Backslash == 92
LowerX == 120
Printable == 32 .. 126

to_hex_digit(value) == LET v == value % 16 IN IF v < 10 THEN Zero + v ELSE UpperA + v - 10

number_to_hex_digits_array(ch) == <<to_hex_digit(ch \div 16), to_hex_digit(ch)>>

try_decode_hex_digit_to_number(digit) ==
  CASE digit \in Zero .. Zero + 9 -> digit - Zero
    [] digit \in UpperA .. UpperA + 5 -> digit - UpperA + 10
    [] digit \in LowerA .. LowerA + 5 -> digit - LowerA + 10
    [] OTHER -> nullopt

bytes_to_hex_string(bytes) == FlattenSeq([i \in 1 .. Len(bytes) |-> number_to_hex_digits_array(bytes[i])])

try_decode_hex_string_to_bytes(hex) ==
  LET Digit(i) == try_decode_hex_digit_to_number(hex[i])
  IN  IF Len(hex) % 2 # 0 \/ \E i \in 1 .. Len(hex) : Digit(i) = nullopt THEN nullopt
      ELSE [i \in 1 .. Len(hex) \div 2 |-> Digit(2 * i - 1) * 16 + Digit(2 * i)]

\* make_hex_encoded_messages_request_handler between a client and a peer.
HexEncodedRequest(msg) == bytes_to_hex_string(msg)
HexEncodedResponse(msg) == try_decode_hex_string_to_bytes(msg)

Escape(ch) ==
  CASE ch = Backslash -> <<Backslash, ch>>
    [] ch \in Printable \ {Backslash} -> <<ch>>
    [] OTHER -> <<Backslash, LowerX>> \o number_to_hex_digits_array(ch)

to_hex_escaped_printable_string(input) == FlattenSeq([i \in 1 .. Len(input) |-> Escape(input[i])])

-----------------------------------------------------------------------------
(* result<T>: <<>> is nullopt, an error code may be 0.                       *)

create_with_value(value) == [value |-> <<value>>, error |-> 0]
create_with_error(ec) == [value |-> <<>>, error |-> ec]

is_ok(res) == res.value # <<>>

get_value(res) == IF is_ok(res) THEN res.value[1] ELSE LogicError
get_error(res) == IF is_ok(res) THEN LogicError ELSE res.error

\* result<void>: (bool, error_code), the bool as its value.
void_result(ok, ec) == IF ok THEN create_with_value(TRUE) ELSE create_with_error(ec)

\* operator result<U>
Converted(res) == IF is_ok(res) THEN create_with_value(get_value(res)) ELSE create_with_error(get_error(res))

Equal(lhs, rhs) ==
  \/ ~is_ok(lhs) /\ ~is_ok(rhs) /\ get_error(lhs) = get_error(rhs)
  \/ is_ok(lhs) /\ is_ok(rhs) /\ get_value(lhs) = get_value(rhs)

\* raw_error_result(res).as_result(): the constructor throws for a value.
raw_error_result(res) == IF is_ok(res) THEN LogicError ELSE create_with_error(get_error(res))

\* The system_error that is thrown, if any.
throw_if_error_result(res) == IF is_ok(res) THEN <<>> ELSE <<get_error(res)>>
get_result_value_or_throw(res) ==
  LET thrown == throw_if_error_result(res)
  IN  [thrown |-> thrown, returned |-> IF thrown = <<>> THEN <<get_value(res)>> ELSE <<>>]

\* What the base handler is called with.
transform_result_handler(res, trans) == IF is_ok(res) THEN trans[get_value(res)] ELSE raw_error_result(res)

\* merge_result_handler: handle_func gets the base handler, or it is called.
merge_result_handler(res) ==
  IF is_ok(res) THEN [called |-> "handle_func", with |-> get_value(res)]
  ELSE [called |-> "base_res_handler", with |-> raw_error_result(res)]

make_raw_error_result_from_errno(errno_value) == create_with_error(errno_value)

-----------------------------------------------------------------------------
(* Addresses: the family and the bytes after it, as many as addr_size says.  *)
(* A character of a path is its code, NUL is 0.                              *)

NUL == 0
Address(family, bytes) == [family |-> family, bytes |-> bytes]
un_socket_address(bytes) == Address("AF_UNIX", bytes)
in_socket_address(bytes) == Address("AF_INET", bytes)

TooLong == "filename_too_long"
BadAddress == "bad_address"

make_local_socket_unnamed_address == un_socket_address(<<>>)

make_local_abstract_socket_address(path) ==
  IF Len(path) > SunPathSize - 1 THEN create_with_error(TooLong)
  ELSE create_with_value(un_socket_address(<<NUL>> \o path))

make_local_filesystem_socket_address(path) ==
  IF Len(path) >= SunPathSize THEN create_with_error(TooLong)
  ELSE IF path = <<>> \/ NUL \in ToSet(path) THEN create_with_error(BadAddress)
  ELSE create_with_value(un_socket_address(Append(path, NUL)))

uint16_t == Unsigned(2)
uint32_t == Unsigned(4)

make_ipv4_socket_address(host, port) ==
  in_socket_address(encode_to_be_bytes(uint16_t, port) \o encode_to_be_bytes(uint32_t, host))

\* getsockname of a socket bound to the address: the address itself.
get_local_socket_raw_path(bound) ==
  IF bound.family = "AF_UNIX" THEN create_with_value(bound.bytes)
  ELSE create_with_error("address_family_not_supported")

get_local_socket_abstract_path(bound) ==
  LET raw == get_local_socket_raw_path(bound)
      path == get_value(raw)
  IN  IF ~is_ok(raw) THEN raw
      ELSE IF path # <<>> /\ path[1] = NUL THEN create_with_value(Tail(path))
      ELSE create_with_error(BadAddress)

\* A bind to the unnamed address: the kernel picks an abstract one.
Autobind(name) == un_socket_address(<<NUL>> \o name)
bind_local_socket_to_auto_abstract_path(addr, name) ==
  get_local_socket_abstract_path(IF addr = make_local_socket_unnamed_address THEN Autobind(name) ELSE addr)

\* The address that connect gets, or the error.
connect_local_socket_to_abstract_path(path) == Converted(make_local_abstract_socket_address(path))

\* getsockopt with an int: the kernel may know another size.
get_socket_int_option(option) ==
  IF option.size = 4 THEN create_with_value(option.value) ELSE create_with_error("message_size")
is_stream_socket(option) == LET type == get_socket_int_option(option) IN is_ok(type) /\ get_value(type) = "SOCK_STREAM"
is_datagram_socket(option) == LET type == get_socket_int_option(option) IN is_ok(type) /\ get_value(type) = "SOCK_DGRAM"

\* recvfrom into a buffer with a byte more than wanted; a sender without a
\* name has no bytes in src_addr, which any_socket_address copies all the same.
receive_datagram_via_socket(data, src, max_data_size) ==
  LET received == SubSeq(data, 1, IF Len(data) > max_data_size THEN max_data_size + 1 ELSE Len(data))
  IN  IF Len(received) > max_data_size THEN create_with_error("message_size")
      ELSE create_with_value(<<src, received>>)

-----------------------------------------------------------------------------
(* Times and durations, in ticks.  Division truncates towards zero.          *)

Quotient(a, b) == IF a >= 0 THEN a \div b ELSE -((-a) \div b)
Remainder(a, b) == a - b * Quotient(a, b)
FirstTick == -LastTick - 1

time_point_sat_add(time, delta) ==
  IF time >= 0 /\ delta > LastTick - time THEN LastTick
  ELSE IF time < 0 /\ delta < FirstTick - time THEN FirstTick
  ELSE time + delta

\* duration_cast to seconds; per is the number of subsecond units.
make_sec_subsec_from_duration(duration, per) == <<Quotient(duration, per), Remainder(duration, per)>>
make_timespec_from_duration(duration) == make_sec_subsec_from_duration(duration, Second)

\* Ten ticks are the unit of a timeval.
make_timeval_from_duration(duration) == make_sec_subsec_from_duration(Quotient(duration, 10), Second \div 10)

make_duration_from_timespec(ts) == ts[1] * Second + ts[2]
make_duration_from_timeval(tv) == (tv[1] * (Second \div 10) + tv[2]) * 10

RECURSIVE DecimalDigits(_)
DecimalDigits(n) == IF n < 10 THEN <<n>> ELSE Append(DecimalDigits(n \div 10), n % 10)

micros_dec_digits == Len(DecimalDigits(Second)) - 1

\* snprintf cuts the number to the size of the buffer; the rest is filled up.
format_time_microseconds(time) ==
  LET digits == DecimalDigits(Remainder(time, Second) % WordSize)
      kept == SubSeq(digits, 1, IF Len(digits) < micros_dec_digits THEN Len(digits) ELSE micros_dec_digits)
  IN  [i \in 1 .. micros_dec_digits - Len(kept) |-> 0] \o kept

\* strftime of the broken-down time of to_time_t(time): its number of seconds
\* since the epoch stands for the text; tz is that of the local time.
format_time(time) == <<Quotient(time, Second)>>
Tz == <<"+HHMM">>

concat_array_str_buf_arrays(bufs) == FlattenSeq(bufs)

format_time_to_gmtime_seconds(time) == format_time(time)
format_time_to_localtime_seconds_tz(time) == format_time(time) \o Tz
format_time_to_gmtime_microseconds(time) ==
  concat_array_str_buf_arrays(<<format_time(time), <<".">>, format_time_microseconds(time)>>)
format_time_to_localtime_microseconds_tz(time) ==
  concat_array_str_buf_arrays(<<format_time(time), <<".">>, format_time_microseconds(time), Tz>>)
===================================================================================
