------------------------------- MODULE MPack -------------------------------
(***************************************************************************)
(* The part of the serialization library (mpack/mpack.h, mpack/mpack.c)    *)
(* that the server uses: the growable and the fixed writer, the reader of  *)
(* a complete buffer, and the expect functions of the wire protocol.       *)
(*                                                                         *)
(* A byte is a number, data is a sequence of bytes, and an integer of n    *)
(* bits is the big-endian sequence of its n / 8 bytes, in two's complement *)
(* when the C type is signed: widths and signs are those of the code.      *)
(* A floating point number is its bytes.  The library is built without     *)
(* extensions, tracking and size optimisation, as the server builds it.    *)
(*                                                                         *)
(* Not modelled: a failing malloc, and the buffered reader, builder and    *)
(* node interfaces, which the server never calls.                          *)
(***************************************************************************)
EXTENDS Integers, Sequences

CONSTANT
    BufferSize      \* MPACK_BUFFER_SIZE, first capacity of a growable writer

\* mpack_writer_ensure is asked for at most 32 bytes and doubles the buffer.
ASSUME MPackAssumption == BufferSize \in Nat /\ BufferSize >= 32

Byte == 0..255
Data == Seq(Byte)

Filled(n, b) == [i \in 1..n |-> b]

High(w, n) == SubSeq(w, 1, n)
Low(w, n) == SubSeq(w, Len(w) - n + 1, Len(w))

Negative(w) == w[1] >= 128

\* The word keeps its value when cut to its n low bytes.
FitsUnsigned(w, n) == High(w, Len(w) - n) = Filled(Len(w) - n, 0)

FitsSigned(w, n) ==
    High(w, Len(w) - n) = Filled(Len(w) - n, IF Negative(Low(w, n)) THEN 255 ELSE 0)

\* (uint64_t) of an unsigned word, (int64_t) of a signed one.
ZeroExtended(w, n) == Filled(n - Len(w), 0) \o w
SignExtended(w, n) == Filled(n - Len(w), IF Negative(w) THEN 255 ELSE 0) \o w

\* The value of an unsigned word of 4 bytes.  Bound: MaxLength stands for itself
\* and everything above it, which no buffer here reaches.
MaxLength == 2 ^ 30

Length(w) ==
    IF w[1] >= 64 THEN MaxLength
    ELSE ((w[1] * 256 + w[2]) * 256 + w[3]) * 256 + w[4]

\* The unsigned word of n bytes of a number the model can hold.
Word(x, n) == [i \in 1..n |-> IF i <= n - 4 THEN 0 ELSE (x \div 256 ^ (n - i)) % 256]

---------------------------------------------------------------------------
(* The writer. *)

mpack_writer_init(size) == [buffer |-> <<>>, size |-> size, grows |-> FALSE, error |-> "ok"]

mpack_writer_init_growable == [mpack_writer_init(BufferSize) EXCEPT !.grows = TRUE]

mpack_writer_buffer_used(w) == Len(w.buffer)
mpack_writer_buffer_left(w) == w.size - mpack_writer_buffer_used(w)

mpack_writer_flag_error(w, e) == IF w.error = "ok" THEN [w EXCEPT !.error = e] ELSE w

\* The capacity after as many doublings, at least one, as n bytes need.
Doubled(size, n) ==
    LET Enough(c) == IF c >= n THEN c ELSE 2 * c
        Capacity[k \in 1..31] == IF k = 1 THEN 2 * size ELSE Enough(Capacity[k - 1])
    IN  Capacity[31]

Appended(w, bytes) == [w EXCEPT !.buffer = @ \o bytes]

\* mpack_growable_writer_flush with data from outside: room is made for it.
mpack_growable_writer_flush(w, bytes) ==
    Appended([w EXCEPT !.size = Doubled(@, mpack_writer_buffer_used(w) + Len(bytes))], bytes)

\* The same with the buffer itself: its data stays and room is made for more.
\* An empty buffer looks like the teardown and is left as it is.
mpack_writer_flush_unchecked(w) ==
    IF w.buffer = <<>> THEN w ELSE mpack_growable_writer_flush(w, <<>>)

\* The writer after a flush for n bytes that are more than it has room for.
mpack_writer_ensure(w, n) ==
    LET Checked(flushed) == IF mpack_writer_buffer_left(flushed) >= n THEN flushed
                            ELSE mpack_writer_flag_error(flushed, "io")
    IN  CASE w.error # "ok" -> w
          [] w.error = "ok" /\ ~ w.grows -> mpack_writer_flag_error(w, "too_big")
          [] OTHER -> Checked(mpack_writer_flush_unchecked(w))

\* Encoded elements of at most 32 bytes.
MPACK_WRITE_ENCODED(w, bytes) ==
    LET Encoded(ensured) == IF ensured.error = "ok" THEN Appended(ensured, bytes) ELSE ensured
    IN  IF mpack_writer_buffer_left(w) >= Len(bytes) THEN Appended(w, bytes)
        ELSE Encoded(mpack_writer_ensure(w, Len(bytes)))

\* Bytes that do not fit: after a flush they may, otherwise they are flushed
\* themselves.
mpack_write_native_straddle(w, bytes) ==
    LET Straddled(flushed) == IF Len(bytes) > mpack_writer_buffer_left(flushed)
                              THEN mpack_growable_writer_flush(flushed, bytes)
                              ELSE Appended(flushed, bytes)
    IN  CASE w.error # "ok" -> w
          [] w.error = "ok" /\ ~ w.grows -> mpack_writer_flag_error(w, "too_big")
          [] OTHER -> Straddled(mpack_writer_flush_unchecked(w))

mpack_write_native(w, bytes) ==
    IF mpack_writer_buffer_left(w) < Len(bytes) THEN mpack_write_native_straddle(w, bytes)
    ELSE Appended(w, bytes)

\* A buffer less than half full is shrunk to its data; after an error there is none.
mpack_growable_writer_teardown(w) ==
    CASE w.error # "ok" -> [w EXCEPT !.buffer = <<>>, !.size = 0]
      [] w.error = "ok" /\ mpack_writer_buffer_used(w) < w.size \div 2 ->
            [w EXCEPT !.size = IF w.buffer = <<>> THEN 1 ELSE mpack_writer_buffer_used(w)]
      [] OTHER -> w

\* What a growable writer leaves behind.
mpack_writer_destroy(w) == mpack_growable_writer_teardown(w).buffer

\* The smallest of the sizes in which a word keeps its value.
Shortest(fitting) == CHOOSE n \in fitting : \A m \in fitting : n <= m

TagOfUnsigned == [n \in {1, 2, 4, 8} |-> CASE n = 1 -> \hCC [] n = 2 -> \hCD [] n = 4 -> \hCE [] n = 8 -> \hCF]
TagOfSigned   == [n \in {1, 2, 4, 8} |-> CASE n = 1 -> \hD0 [] n = 2 -> \hD1 [] n = 4 -> \hD2 [] n = 8 -> \hD3]

mpack_encode_fixuint(w) == Low(w, 1)
mpack_encode_fixint(w) == Low(w, 1)

\* An unsigned word, or a signed one that is not negative: a fixint up to 127,
\* the shortest of uint8 to uint64 beyond.
EncodedUnsigned(w) ==
    IF FitsUnsigned(w, 1) /\ w[Len(w)] <= 127 THEN mpack_encode_fixuint(w)
    ELSE LET n == Shortest({m \in {1, 2, 4, 8} : m <= Len(w) /\ FitsUnsigned(w, m)})
         IN  <<TagOfUnsigned[n]>> \o Low(w, n)

\* A negative signed word: a fixint down to -32, the shortest of int8 to int64
\* below.
EncodedNegative(w) ==
    IF FitsSigned(w, 1) /\ w[Len(w)] >= 224 THEN mpack_encode_fixint(w)
    ELSE LET n == Shortest({m \in {1, 2, 4, 8} : m <= Len(w) /\ FitsSigned(w, m)})
         IN  <<TagOfSigned[n]>> \o Low(w, n)

EncodedSigned(w) == IF Negative(w) THEN EncodedNegative(w) ELSE EncodedUnsigned(w)

\* A count or length: in the tag up to the limit, in 2 or 4 bytes beyond, and
\* for strings also in 1.
EncodedCount(count, fix, limit, tags) ==
    IF count <= limit THEN <<fix + count>>
    ELSE LET n == Shortest({m \in DOMAIN tags : FitsUnsigned(Word(count, 4), m)})
         IN  <<tags[n]>> \o Word(count, n)

EncodedArray(count) ==
    EncodedCount(count, \h90, 15, [n \in {2, 4} |-> IF n = 2 THEN \hDC ELSE \hDD])

EncodedMap(count) ==
    EncodedCount(count, \h80, 15, [n \in {2, 4} |-> IF n = 2 THEN \hDE ELSE \hDF])

EncodedStr(length) ==
    EncodedCount(length, \hA0, 31,
                 [n \in {1, 2, 4} |-> CASE n = 1 -> \hD9 [] n = 2 -> \hDA [] n = 4 -> \hDB])

mpack_encode_float(x) == <<\hCA>> \o x

mpack_write_u32(w, x) == MPACK_WRITE_ENCODED(w, EncodedUnsigned(x))
mpack_write_i32(w, x) == MPACK_WRITE_ENCODED(w, EncodedSigned(x))
mpack_write_bool(w, b) == MPACK_WRITE_ENCODED(w, <<IF b THEN \hC3 ELSE \hC2>>)
mpack_write_float(w, x) == MPACK_WRITE_ENCODED(w, mpack_encode_float(x))

mpack_start_array(w, count) == MPACK_WRITE_ENCODED(w, EncodedArray(count))
mpack_start_map(w, count) == MPACK_WRITE_ENCODED(w, EncodedMap(count))

\* Strings of up to 31 bytes are one element with their tag.
mpack_write_str(w, s) ==
    IF Len(s) <= 31 THEN MPACK_WRITE_ENCODED(w, EncodedStr(Len(s)) \o s)
    ELSE mpack_write_native(MPACK_WRITE_ENCODED(w, EncodedStr(Len(s))), s)

\* A C string, of less than 2^32 bytes.
mpack_write_cstr(w, cstr) == mpack_write_str(w, cstr)

---------------------------------------------------------------------------
(* The reader of a complete buffer. *)

mpack_reader_init_data(data) == [data |-> data, error |-> "ok"]

\* The first error stays, and no byte is left to read after it.
mpack_reader_flag_error(r, e) == IF r.error = "ok" THEN [data |-> <<>>, error |-> e] ELSE r

Skip(r, n) == [r EXCEPT !.data = SubSeq(@, n + 1, Len(@))]

\* There is no fill function: too few bytes are an error.
mpack_reader_ensure_straddle(r) == mpack_reader_flag_error(r, "invalid")

mpack_reader_ensure(r, n) == IF n <= Len(r.data) THEN r ELSE mpack_reader_ensure_straddle(r)

\* The type a first byte announces, and how many bytes of value follow it.
TypeOf(b) ==
    CASE b <= \h7F                       -> "uint"
      [] b \in \h80..\h8F                -> "map"
      [] b \in \h90..\h9F                -> "array"
      [] b \in \hA0..\hBF                -> "str"
      [] b = \hC0                        -> "nil"
      [] b = \hC1                        -> "reserved"
      [] b \in {\hC2, \hC3}              -> "bool"
      [] b \in \hC4..\hC6                -> "bin"
      [] b \in \hC7..\hC9 \cup \hD4..\hD8 -> "ext"
      [] b = \hCA                        -> "float"
      [] b = \hCB                        -> "double"
      [] b \in \hCC..\hCF                -> "uint"
      [] b \in \hD0..\hD3                -> "int"
      [] b \in \hD9..\hDB                -> "str"
      [] b \in {\hDC, \hDD}              -> "array"
      [] b \in {\hDE, \hDF}              -> "map"
      [] b >= \hE0                       -> "int"

SizeAfter(b) ==
    CASE b \in {\hC4, \hCC, \hD0, \hD9}             -> 1
      [] b \in {\hC5, \hCD, \hD1, \hDA, \hDC, \hDE} -> 2
      [] b \in {\hC6, \hCA, \hCE, \hD2, \hDB, \hDD, \hDF} -> 4
      [] b \in {\hCB, \hCF, \hD3}                   -> 8
      [] OTHER                                      -> 0

\* The value of a tag without bytes after it.
Inline(b) ==
    CASE TypeOf(b) = "map" -> <<b % 16>>
      [] TypeOf(b) = "array" -> <<b % 16>>
      [] TypeOf(b) = "str" -> <<b % 32>>
      [] OTHER -> <<b>>

\* Integers become 64 bits wide, counts and lengths 32.
Widened(type, bytes) ==
    CASE type = "uint" -> ZeroExtended(bytes, 8)
      [] type = "int" -> SignExtended(bytes, 8)
      [] type \in {"map", "array", "str", "bin"} -> ZeroExtended(bytes, 4)
      [] OTHER -> bytes

Nil == [type |-> "nil", v |-> <<>>]

\* Faulty variant: the sign of an integer is not extended.
mpack_parse_tag_Unsigned(data) ==
    LET b == data[1]  n == SizeAfter(b)
    IN  [type |-> TypeOf(b),
         v |-> Widened(IF TypeOf(b) = "int" THEN "uint" ELSE TypeOf(b),
                       IF n = 0 THEN Inline(b) ELSE SubSeq(data, 2, n + 1))]

\* The tag of data that holds all of it.
mpack_parse_tag(data) ==
    LET b == data[1]  n == SizeAfter(b)
    IN  [type |-> TypeOf(b),
         v |-> Widened(TypeOf(b), IF n = 0 THEN Inline(b) ELSE SubSeq(data, 2, n + 1))]

Result(r, x) == [r |-> r, v |-> x]

\* An element whose first byte is b, with n bytes after it.
ReadElement(r, b, n) ==
    CASE TypeOf(b) = "ext" -> Result(mpack_reader_flag_error(r, "unsupported"), Nil)
      [] TypeOf(b) # "ext" /\ (TypeOf(b) = "reserved" \/ mpack_reader_ensure(r, 1 + n).error # "ok") ->
            Result(mpack_reader_flag_error(r, "invalid"), Nil)
      [] OTHER -> Result(Skip(r, 1 + n), mpack_parse_tag(r.data))

mpack_read_tag(r) ==
    CASE r.error # "ok" -> Result(r, Nil)
      [] r.error = "ok" /\ r.data = <<>> -> Result(mpack_reader_ensure(r, 1), Nil)
      [] OTHER -> ReadElement(r, r.data[1], SizeAfter(r.data[1]))

\* An expect function: the value when the tag is acceptable, else an error and
\* zero.
Expected(tag, accepted, value, zero) ==
    IF accepted THEN Result(tag.r, value)
    ELSE Result(mpack_reader_flag_error(tag.r, "type"), zero)

mpack_expect_u32(r) ==
    LET Of(tag) == Expected(tag, /\ tag.v.type \in {"uint", "int"}
                                 /\ tag.v.type = "int" => ~ Negative(tag.v.v)
                                 /\ FitsUnsigned(tag.v.v, 4),
                            Low(tag.v.v, 4), Filled(4, 0))
    IN  Of(mpack_read_tag(r))

\* An unsigned value must be at most INT32_MAX.
mpack_expect_i32(r) ==
    LET Of(tag) == Expected(tag, /\ tag.v.type \in {"uint", "int"}
                                 /\ tag.v.type = "uint" => ~ Negative(Low(tag.v.v, 4))
                                 /\ FitsSigned(tag.v.v, 4),
                            Low(tag.v.v, 4), Filled(4, 0))
    IN  Of(mpack_read_tag(r))

\* Whatever is a number is accepted; the conversion of one that is not a float
\* already is left abstract.
mpack_expect_float(r) ==
    LET Of(tag) == Expected(tag, tag.v.type \in {"uint", "int", "float", "double"},
                            IF tag.v.type = "float" THEN tag.v.v ELSE <<tag.v.type, tag.v.v>>,
                            Filled(4, 0))
    IN  Of(mpack_read_tag(r))

\* The count of the array, map or string that must come next.
CountOf(type, r) ==
    LET Of(tag) == Expected(tag, tag.v.type = type, Length(tag.v.v), 0)
    IN  Of(mpack_read_tag(r))

mpack_expect_array(r) == CountOf("array", r)

mpack_expect_map(r) == CountOf("map", r)

\* Looks at the first byte itself: another type is an error before any value is read.
mpack_expect_str(r) ==
    IF r.data # <<>> /\ TypeOf(r.data[1]) # "str"
    THEN Result(mpack_reader_flag_error(r, "type"), 0)
    ELSE CountOf("str", r)

\* The bytes, or zeros when there are too few.
mpack_read_bytes(r, n) ==
    IF n <= Len(r.data) THEN Result(Skip(r, n), SubSeq(r.data, 1, n))
    ELSE Result(mpack_reader_flag_error(r, "invalid"), Filled(n, 0))

---------------------------------------------------------------------------
(* Texts of a limited size. *)

\* How many bytes a lead byte announces, itself included; 0 if it is none.
SequenceLength(lead) ==
    CASE lead <= 127       -> 1
      [] lead \in 192..223 -> 2
      [] lead \in 224..239 -> 3
      [] lead \in 240..247 -> 4
      [] OTHER             -> 0

\* The least code point written in so many bytes; NUL is not allowed.
LeastCodePoint == <<1, 128, 2048, 65536>>

CodePoint(s) ==
    LET Joined(lead, cont) == lead * 64 + (cont % 64)
    IN  CASE Len(s) = 1 -> s[1]
          [] Len(s) = 2 -> Joined(s[1] % 32, s[2])
          [] Len(s) = 3 -> Joined(Joined(s[1] % 16, s[2]), s[3])
          [] Len(s) = 4 -> Joined(Joined(Joined(s[1] % 8, s[2]), s[3]), s[4])

\* Neither overlong, nor a surrogate, nor beyond Unicode.
LegalCodePoint(s) ==
    /\ CodePoint(s) >= LeastCodePoint[Len(s)]
    /\ CodePoint(s) \notin \hD800..\hDFFF
    /\ CodePoint(s) <= \h10FFFF

mpack_utf8_check_no_null(s) ==
    LET Valid[i \in 1..Len(s) + 1] ==
            IF i > Len(s) THEN TRUE
            ELSE LET n == SequenceLength(s[i])
                 IN  /\ n # 0 /\ i + n - 1 <= Len(s)
                     /\ \A j \in i + 1..i + n - 1 : s[j] \in 128..191
                     /\ LegalCodePoint(SubSeq(s, i, i + n - 1))
                     /\ Valid[i + n]
    IN  Valid[1]

\* A text of n bytes with room for its terminator; empty after any error.
mpack_read_cstr_unchecked(r, size, n) ==
    CASE r.error # "ok"                     -> Result(r, <<>>)
      [] r.error = "ok" /\ n > size - 1     -> Result(mpack_reader_flag_error(r, "too_big"), <<>>)
      [] OTHER                              -> mpack_read_bytes(r, n)

\* Bytes that could not be read are zeros: the C string is empty.
mpack_read_utf8_cstr(r, size, n) ==
    LET Checked(text) ==
            CASE text.r.error # "ok" -> Result(text.r, <<>>)
              [] text.r.error = "ok" /\ ~ mpack_utf8_check_no_null(text.v) ->
                    Result(mpack_reader_flag_error(text.r, "type"), <<>>)
              [] OTHER -> text
    IN  Checked(mpack_read_cstr_unchecked(r, size, n))

mpack_expect_utf8_cstr(r, size) ==
    LET Of(length) == mpack_read_utf8_cstr(length.r, size, length.v)
    IN  Of(mpack_expect_str(r))

\* Bytes that are left over are no error.
mpack_reader_destroy(r) == r.error
============================================================================
