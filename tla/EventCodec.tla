----------------------------- MODULE EventCodec -----------------------------
(***************************************************************************)
(* The packages of the wire protocol and their parameters (ya_event.c).    *)
(*                                                                         *)
(* A package is a total size, a header size, a header of four integers and *)
(* a body that depends on the type:                                        *)
(*                                                                         *)
(*    | total - 4 | header size | [uid, type, direction, index] | body |   *)
(*                                                                         *)
(* An event is the header's fields and a parameter, NoParam for NULL.  uid *)
(* and index are 32-bit words; a text is its bytes.                        *)
(***************************************************************************)
EXTENDS MPack

TypeCode ==
    [MOUSE_MOVE |-> 1, MOUSE_CLICK |-> 2, MOUSE_WHEEL |-> 3, KEYBOARD |-> 4,
     TEXT_INPUT |-> 5, TEXT_GET |-> 6, DISCOVER |-> 7, MOUSE_STOP |-> 8,
     CONTROL |-> 9, AUTHORIZE |-> 10, HEARTBEAT |-> 11, SESSION_OPTION |-> 12]

Direction == [REQUEST |-> 1, RESPONSE |-> 2]

CommonTypes == {"MOUSE_MOVE", "MOUSE_CLICK", "MOUSE_WHEEL", "CONTROL"}

DISCOVERY_MAGIC == <<\h4B, \h42, \h4D, \h43>>
YA_PROTOCOL_VERSION == 3

NoParam == [none |-> TRUE]

---------------------------------------------------------------------------
(* The parameters. *)

Word32 == [1..4 -> Byte]

YACommonEventRequest == [lparam : Word32, rparam : Word32]
YAKeyboardEventRequest == [code : Word32, op : Word32, mods : Word32]
YATextInputEventRequest == [text : Data]
YAAuthorizeEventRequest == [type : Word32, version : Word32]
YASessionOptionEventRequest == [pointer_scale : Word32]
YADiscoverEventRequest == [magic : Word32]

YAServerOSType == [OS_WINDOWS |-> 1, OS_MAC |-> 2, OS_LINUX |-> 3]

\* client_version is the phone's, kept for the serializer.
YAAuthorizeEventResponse ==
    [success : BOOLEAN, os_type : Word32, uid : Word32, session_port : Word32,
     command_port : Word32, macs : Data, display_scale : Word32, client_version : Word32]
YAInputGetEventResponse == [text : Data]

\* The magic is always DISCOVERY_MAGIC.
YADiscoverEventResponse == [port : Word32]

\* What the handler of a type finds in param, and what it puts there.
RequestParam(type) ==
    CASE type \in CommonTypes                -> YACommonEventRequest
      [] type = "KEYBOARD"                   -> YAKeyboardEventRequest
      [] type \in {"TEXT_INPUT", "TEXT_GET"} -> YATextInputEventRequest
      [] type = "AUTHORIZE"                  -> YAAuthorizeEventRequest
      [] type = "SESSION_OPTION"             -> YASessionOptionEventRequest
      [] type = "DISCOVER"                   -> YADiscoverEventRequest
      [] OTHER                               -> {}

ResponseParam(type) ==
    CASE type = "AUTHORIZE" -> YAAuthorizeEventResponse
      [] type = "TEXT_GET"  -> YAInputGetEventResponse
      [] type = "DISCOVER"  -> YADiscoverEventResponse
      [] OTHER              -> {}

YAEventHeader(type, direction) ==
    [type : {type}, direction : {direction}, uid : Word32, index : Word32]

\* A header together with a parameter or without one.
IsYAEvent(e, direction, params) ==
    /\ DOMAIN e = {"type", "direction", "uid", "index", "param"}
    /\ [f \in DOMAIN e \ {"param"} |-> e[f]] \in YAEventHeader(e.type, direction)
    /\ e.param = NoParam \/ e.param \in params

TypeName(code) ==
    IF \E t \in DOMAIN TypeCode : TypeCode[t] = code
    THEN CHOOSE t \in DOMAIN TypeCode : TypeCode[t] = code
    ELSE "UNKNOWN"

---------------------------------------------------------------------------
(* Serializers. *)

serialize_common_request(w, p) ==
    mpack_write_i32(mpack_write_i32(mpack_start_array(w, 2), p.lparam), p.rparam)

serialize_keyboard_request(w, p) ==
    mpack_write_u32(
        mpack_write_i32(mpack_write_i32(mpack_start_array(w, 3), p.code), p.op), p.mods)

serialize_text(w, p) == mpack_write_str(w, p.text)

serialize_authorize_request(w, p) ==
    mpack_write_u32(mpack_write_u32(mpack_start_array(w, 2), p.type), p.version)

\* Faulty variant: the fields of the newer protocol announced as seven.
serialize_authorize_response_Seven(w, p) ==
    LET head == mpack_write_u32(mpack_write_u32(
                    mpack_write_bool(mpack_start_array(w, 7), p.success),
                    p.os_type), p.uid)
        ports == mpack_write_u32(mpack_write_u32(head, p.session_port), p.command_port)
        seven == mpack_write_float(mpack_write_str(ports, p.macs), p.display_scale)
    IN  IF Length(p.client_version) >= 2
        THEN mpack_write_u32(seven, Word(YA_PROTOCOL_VERSION, 4)) ELSE seven

\* A phone of protocol 2 or later is told the server's version as well.
serialize_authorize_response(w, p) ==
    LET newer == Length(p.client_version) >= 2
        head == mpack_write_u32(mpack_write_u32(
                    mpack_write_bool(mpack_start_array(w, IF newer THEN 8 ELSE 7), p.success),
                    p.os_type), p.uid)
        ports == mpack_write_u32(mpack_write_u32(head, p.session_port), p.command_port)
        seven == mpack_write_float(mpack_write_str(ports, p.macs), p.display_scale)
    IN  IF newer THEN mpack_write_u32(seven, Word(YA_PROTOCOL_VERSION, 4)) ELSE seven

\* Faulty variant: the port before the magic.
serialize_discover_response_Swapped(w, p) ==
    mpack_write_u32(mpack_write_u32(mpack_start_array(w, 2), p.port), DISCOVERY_MAGIC)

\* The magic of the parameter is not looked at.
serialize_discover_response(w, p) ==
    mpack_write_u32(mpack_write_u32(mpack_start_array(w, 2), DISCOVERY_MAGIC), p.port)

\* The serializer of a type is chosen without regard to the direction.
SerializedTypes ==
    CommonTypes \cup {"KEYBOARD", "TEXT_INPUT", "TEXT_GET", "AUTHORIZE", "DISCOVER"}

get_serializer(type, w, p) ==
    CASE type \in CommonTypes              -> serialize_common_request(w, p)
      [] type = "KEYBOARD"                 -> serialize_keyboard_request(w, p)
      [] type \in {"TEXT_INPUT", "TEXT_GET"} -> serialize_text(w, p)
      [] type = "AUTHORIZE"                -> serialize_authorize_response(w, p)
      [] type = "DISCOVER"                 -> serialize_discover_response(w, p)
      [] OTHER                             -> w

\* A serializer reads its parameter, whether there is one or not.
NullRead(e) == e.type \in SerializedTypes /\ e.param = NoParam

SerializedHeader(e) ==
    mpack_writer_destroy(
        mpack_write_u32(mpack_write_u32(mpack_write_u32(mpack_write_u32(
            mpack_start_array(mpack_writer_init_growable, 4),
            e.uid), Word(TypeCode[e.type], 4)), Word(Direction[e.direction], 4)), e.index))

\* The total covers everything but itself.
Combined(header, body) ==
    Word(Len(header) + Len(body) + 4, 4) \o Word(Len(header), 4) \o header \o body

\* Unless NullRead(e).
ya_serialize_event(e) ==
    Combined(SerializedHeader(e),
             mpack_writer_destroy(get_serializer(e.type, mpack_writer_init_growable, e.param)))

---------------------------------------------------------------------------
(* Parsers.  None of them looks at the array's length, and only the allocation *)
(* of one can fail: what cannot be read is zero.                               *)

\* The C string in a buffer.
CString(bytes) ==
    IF \E i \in 1..Len(bytes) : bytes[i] = 0
    THEN SubSeq(bytes, 1, (CHOOSE i \in 1..Len(bytes) :
                             bytes[i] = 0 /\ \A j \in 1..i - 1 : bytes[j] # 0) - 1)
    ELSE bytes

\* An array's elements, read one after another as the kinds say.
Expect(kind, r) ==
    CASE kind = "i32"   -> mpack_expect_i32(r)
      [] kind = "u32"   -> mpack_expect_u32(r)
      [] kind = "float" -> mpack_expect_float(r)

InTurn(r, kinds) ==
    LET Then(before, x) == Result(x.r, Append(before.v, x.v))
        Read[i \in 0..Len(kinds)] ==
            IF i = 0 THEN Result(r, <<>>) ELSE Then(Read[i - 1], Expect(kinds[i], Read[i - 1].r))
    IN  Read[Len(kinds)]

ArrayOf(r, kinds) == InTurn(mpack_expect_array(r).r, kinds).v

parse_common_request(r) ==
    LET Of(v) == [lparam |-> v[1], rparam |-> v[2]] IN Of(ArrayOf(r, <<"i32", "i32">>))

parse_keyboard_request(r) ==
    LET Of(v) == [code |-> v[1], op |-> v[2], mods |-> v[3]]
    IN  Of(ArrayOf(r, <<"i32", "i32", "u32">>))

parse_text(r) ==
    LET Of(length) == [text |-> CString(mpack_read_bytes(length.r, length.v).v)]
    IN  Of(mpack_expect_str(r))

parse_authorize_request(r) ==
    LET Of(v) == [type |-> v[1], version |-> v[2]] IN Of(ArrayOf(r, <<"u32", "u32">>))

parse_session_option_request(r) == [pointer_scale |-> ArrayOf(r, <<"float">>)[1]]

parse_discover_request(r) == [magic |-> mpack_expect_u32(r).v]

\* Types without a parser have no parameter, whatever their body is.
get_parser(type, r) ==
    CASE type \in CommonTypes                -> parse_common_request(r)
      [] type = "KEYBOARD"                   -> parse_keyboard_request(r)
      [] type \in {"TEXT_INPUT", "TEXT_GET"} -> parse_text(r)
      [] type = "AUTHORIZE"                  -> parse_authorize_request(r)
      [] type = "SESSION_OPTION"             -> parse_session_option_request(r)
      [] type = "DISCOVER"                   -> parse_discover_request(r)
      [] OTHER                               -> NoParam

Failure == [ok |-> FALSE]

\* Four integers in the first length bytes; type and direction are cut to 8 bits.
ya_parse_event_header(buf, length) ==
    LET Four(a) == IF a.v = 4 THEN a.r ELSE mpack_reader_flag_error(a.r, "type")
        Of(read) ==
            IF length = 0 \/ Len(buf) < length \/ read.r.error # "ok" THEN Failure
            ELSE [ok |-> TRUE, uid |-> read.v[1], type |-> read.v[2][4],
                  direction |-> read.v[3][4], index |-> read.v[4]]
    IN  Of(InTurn(Four(mpack_expect_array(mpack_reader_init_data(SubSeq(buf, 1, length)))),
                    <<"i32", "i32", "i32", "i32">>))

Drop(buf, n) == SubSeq(buf, n + 1, Len(buf))

\* An event with header h and a body that is the first n bytes of rest.
ParsedBody(h, type, rest, n) ==
    [ok |-> TRUE, left |-> Drop(rest, n),
     event |-> [type |-> type, direction |-> h.direction, uid |-> h.uid, index |-> h.index,
                param |-> IF n = 0 THEN NoParam
                          ELSE get_parser(type, mpack_reader_init_data(SubSeq(rest, 1, n)))]]

\* The event at the start of the buffer and the buffer that is left.  Without
\* a readable header nothing is drained.
ya_parse_event(buf, size) ==
    LET Of(h, rest) ==
            CASE ~ h.ok -> [ok |-> FALSE, left |-> buf]
              [] h.ok /\ size.body > Len(rest) -> [ok |-> FALSE, left |-> rest]
              [] OTHER -> ParsedBody(h, TypeName(h.type), rest, size.body)
    IN  Of(ya_parse_event_header(buf, size.header), Drop(buf, size.header))

\* evbuffer_ptr_set finds a position that is not behind the end of the buffer.
Reaches(buf, start) == start <= Len(buf)

\* The four bytes at start; those behind the end of the buffer are zero.  Only where the
\* position is reached: evbuffer_ptr_set's failure is not looked at, and
\* evbuffer_copyout_from then follows a chain that is NULL.
to_uint32(buf, start) ==
    [i \in 1..4 |-> IF start + i <= Len(buf) THEN buf[start + i] ELSE 0]

\* ya_get_package_size returns.  With fewer than four bytes the second size is looked
\* for behind the end, and the process ends there.
SizesThere(buf) == Reaches(buf, 0) /\ Reaches(buf, 4)

\* The sizes, the second as far as it has arrived.  It never reports a failure.
ya_get_package_size(buf) ==
    LET Of(total, header) == [total |-> total, header |-> header, body |-> total - header - 4]
    IN  Of(Length(to_uint32(buf, 0)), Length(to_uint32(buf, 4)))
---------------------------------------------------------------------------
(* Memory. *)

\* What an event holds: itself, its parameter and the text that points to.
Blocks(e) ==
    {"event"} \cup
    (IF e.param = NoParam THEN {}
     ELSE {"param"} \cup
          (CASE e.type \in {"TEXT_INPUT", "TEXT_GET"} -> {"text"}
             [] e.type = "AUTHORIZE" /\ e.direction = "RESPONSE" -> {"macs"}
             [] OTHER -> {}))

ya_free_event_param(e) ==
    IF e.param = NoParam THEN {}
    ELSE CASE e.type \in {"TEXT_INPUT", "TEXT_GET"} -> {"text"}
           [] e.type = "AUTHORIZE" /\ e.direction = "RESPONSE" -> {"macs", "param"}
           [] OTHER -> {"param"}

ya_free_event(e) == {"event"} \cup ya_free_event_param(e)
============================================================================
