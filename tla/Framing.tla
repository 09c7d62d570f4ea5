------------------------------ MODULE Framing ------------------------------
(***************************************************************************)
(* How packages become events and events answers: the read callbacks of    *)
(* the session (ya_server_session.c), of the command port                  *)
(* (ya_server_command.c) and of discovery (ya_server_discover.c), with the *)
(* handlers that answer (ya_server_handler.c), on the bytes themselves.    *)
(*                                                                         *)
(* A phone writes packages on its session; TCP hands the bytes over in     *)
(* pieces of any size, and each piece runs conn_readcb once.  A package is *)
(* a record of the phone's: type code, uid, index and the body it encoded, *)
(* with the parameter it meant.  Words are big-endian (see MPack).         *)
(*                                                                         *)
(* What the handlers do to the machine is modelled in CommandServer,       *)
(* MousePipeline and KeyInject, the connections in CommandServer: here     *)
(* there is one session, whose client stays active.                        *)
(***************************************************************************)
EXTENDS EventCodec, HostInfo, PowerScripts

CONSTANTS
    Packages,       \* what the phone may write on its session
    Datagrams,      \* what it may send to the command port
    Searches,       \* what it may send to the discovery port
    Strays,         \* datagrams shorter than the two sizes of a package, to both ports
    DatagramSize,   \* the command port's buffer, 2048 bytes
    SearchSize,     \* the discovery port's buffer, 512 bytes
    ClientUid,      \* the word the client manager gave this session
    SessionPort, CommandPort,   \* words of 2 bytes, in host order
    Adapters,       \* the machine's network adapters
    Environment,    \* and the variables that tell its display's scale
    Float,          \* the bytes of a scale
    Clipboard,      \* what clipboard_get may return
    Pieces,         \* bound: how many bytes may arrive at once
    MaxPackages     \* bound: packages on the session

ASSUME FramingAssumption ==
    /\ DatagramSize \in Nat /\ SearchSize \in Nat /\ MaxPackages \in Nat
    /\ DatagramSize >= 8 /\ SearchSize >= 8
    /\ Pieces \subseteq Nat \ {0}
    /\ \A b \in Strays : b \in Data /\ Len(b) < 8

VARIABLES
    sent,           \* the packages the phone wrote on the session
    wire,           \* their bytes that have not arrived
    input,          \* bufferevent_get_input
    parsed,         \* the events that came out of the session
    answered,       \* the responses made for them, in memory
    output,         \* bufferevent_get_output
    command_index,  \* client->command_index
    heard,          \* the last datagram, its port, its event and the answer's bytes,
                    \* until the session is used
    died            \* the NULL that ended the process: "sizes", "parameter",
                    \* "connection" or "response"; "no" while it runs

vars == <<sent, wire, input, parsed, answered, output, command_index, heard, died>>

Nothing == [none |-> TRUE]

up == died = "no"

Init ==
    /\ sent = <<>> /\ wire = <<>> /\ input = <<>>
    /\ parsed = <<>> /\ answered = <<>> /\ output = <<>>
    /\ command_index = Word(0, 4)
    /\ heard = Nothing
    /\ died = "no"

---------------------------------------------------------------------------
(* The phone. *)

PhoneHeader(p) ==
    mpack_writer_destroy(
        mpack_write_u32(mpack_write_u32(mpack_write_u32(mpack_write_u32(
            mpack_start_array(mpack_writer_init_growable, 4),
            p.uid), Word(p.code, 4)), Word(Direction.REQUEST, 4)), p.index))

Frame(p) == Combined(PhoneHeader(p), p.body)

\* The ways to write a word: in one byte where it fits, or after the tag of any size
\* in which it keeps its value.
UnsignedForms(w) ==
    (IF FitsUnsigned(w, 1) /\ w[4] <= 127 THEN {mpack_encode_fixuint(w)} ELSE {})
    \cup {<<TagOfUnsigned[n]>> \o Low(w, n) : n \in {m \in {1, 2, 4} : FitsUnsigned(w, m)}}

SignedForms(w) ==
    (IF Negative(w) THEN {} ELSE UnsignedForms(w))
    \cup (IF FitsSigned(w, 1) /\ w[4] >= 224 THEN {mpack_encode_fixint(w)} ELSE {})
    \cup {<<TagOfSigned[n]>> \o Low(w, n) : n \in {m \in {1, 2, 4} : FitsSigned(w, m)}}

TagOfText == [n \in {1, 2, 4} |-> CASE n = 1 -> \hD9 [] n = 2 -> \hDA [] n = 4 -> \hDB]

LengthForms(n) ==
    (IF n <= 31 THEN {<<\hA0 + n>>} ELSE {})
    \cup {<<TagOfText[k]>> \o Low(Word(n, 4), k) : k \in {m \in {1, 2, 4} : FitsUnsigned(Word(n, 4), m)}}

Begins(bytes, start) == Len(start) <= Len(bytes) /\ SubSeq(bytes, 1, Len(start)) = start

\* The body is one of the ways to write what the package means: its fields in turn, those
\* of an array behind the array's tag.  A text ends where its zero would be.  What comes
\* after the fields is not read.
Writes(p) ==
    LET type == TypeName(p.code)
        Array(fields) == \E head \in \h90..\h9F : Begins(p.body, <<head>> \o fields)
    IN  IF p.body = <<>> THEN p.means = NoParam
        ELSE
        \/ p.means = NoParam /\ type \in {"MOUSE_STOP", "HEARTBEAT", "UNKNOWN"}
        \/ /\ type \in CommonTypes /\ p.means \in YACommonEventRequest
           /\ \E l \in SignedForms(p.means.lparam), r \in SignedForms(p.means.rparam) : Array(l \o r)
        \/ /\ type = "KEYBOARD" /\ p.means \in YAKeyboardEventRequest
           /\ \E c \in SignedForms(p.means.code), o \in SignedForms(p.means.op),
                 m \in UnsignedForms(p.means.mods) : Array(c \o (o \o m))
        \/ /\ type \in {"TEXT_INPUT", "TEXT_GET"} /\ p.means \in YATextInputEventRequest
           /\ Len(p.means.text) < MaxLength /\ \A i \in 1..Len(p.means.text) : p.means.text[i] # 0
           /\ \E l \in LengthForms(Len(p.means.text)) : Begins(p.body, l \o p.means.text)
        \/ /\ type = "AUTHORIZE" /\ p.means \in YAAuthorizeEventRequest
           /\ \E t \in UnsignedForms(p.means.type), v \in UnsignedForms(p.means.version) : Array(t \o v)
        \/ /\ type = "SESSION_OPTION" /\ p.means \in YASessionOptionEventRequest
           /\ Array(<<\hCA>> \o p.means.pointer_scale)
        \/ /\ type = "DISCOVER" /\ p.means \in YADiscoverEventRequest
           /\ \E m \in UnsignedForms(p.means.magic) : Begins(p.body, m)

PhoneWrites(p) ==
    /\ up /\ Len(sent) < MaxPackages
    /\ sent' = Append(sent, p)
    /\ wire' = wire \o Frame(p)
    /\ heard' = Nothing
    /\ UNCHANGED <<input, parsed, answered, output, command_index, died>>

---------------------------------------------------------------------------
(* The handlers that answer. *)

\* Parameters of a response: NoParam is NULL.
Response(e, param) ==
    [type |-> e.type, direction |-> "RESPONSE", uid |-> e.uid, index |-> e.index, param |-> param]

Accepted(request) ==
    Length(request.version) >= 1 /\ Length(request.type) \in {1, 2}

\* Cached when the server starts.
macs_csv == ya_get_macs_csv(FALSE, Adapters)

\* The parameters handle_authorize fills in.
AuthorizeResponse(request) ==
    LET ok == Accepted(request)
    IN  [success |-> ok, os_type |-> Word(YAServerOSType.OS_LINUX, 4),
         uid |-> IF ok THEN ClientUid ELSE Word(0, 4),
         session_port |-> IF ok THEN <<0, 0>> \o SessionPort ELSE Word(0, 4),
         command_port |-> IF ok THEN <<0, 0>> \o CommandPort ELSE Word(0, 4),
         macs |-> IF ok THEN macs_csv.text ELSE <<>>,
         display_scale |-> Float[IF ok THEN ya_primary_scale(Environment) ELSE 1],
         client_version |-> request.version]

\* Unless its parameter is NULL, see Fault.
handle_discover(e) ==
    IF e.param.magic # DISCOVERY_MAGIC THEN {}
    ELSE {Response(e, [port |-> <<0, 0>> \o SessionPort])}

\* What a handler dereferences without looking: handle_discover and handle_input_text
\* their parameter, handle_authorize the connection of a phone it lets in, which the
\* command port passes as NULL.
Fault(e, connected) ==
    CASE e.type \in {"DISCOVER", "TEXT_INPUT"} /\ e.param = NoParam -> "parameter"
      [] e.type = "AUTHORIZE" /\ e.param # NoParam /\ ~ connected ->
            IF Accepted(e.param) THEN "connection" ELSE "no"
      [] OTHER -> "no"

\* The responses a handler without a fault may make, at most one of which is made: {}
\* is NULL.  Reading the selection may fail at any of its steps.
Handlers(e) ==
    CASE e.type = "AUTHORIZE" /\ e.param # NoParam -> {Response(e, AuthorizeResponse(e.param))}
      [] e.type = "DISCOVER" /\ e.param # NoParam -> handle_discover(e)
      [] e.type = "HEARTBEAT" -> {Response(e, NoParam)}
      [] e.type = "CONTROL" /\ e.param # NoParam -> {Response(e, NoParam)}
      [] e.type = "TEXT_GET" -> {Response(e, [text |-> t]) : t \in Clipboard}
      [] OTHER -> {}

MayFail(e) == e.type = "TEXT_GET"

AtMost(v, w) == \A i \in 1..4 : v[i] > w[i] => \E j \in 1..i - 1 : v[j] < w[j]

Indexed(e) == e.type \notin {"DISCOVER", "AUTHORIZE", "HEARTBEAT"}

\* The client knows of this command or of a later one.
Old(e, client) == client /\ Indexed(e) /\ AtMost(e.index, command_index)

\* No handler is called.
Ignored(e, client) == e.type = "UNKNOWN" \/ Old(e, client)

\* What process_server_event may return, in a process that goes on: {NULL} or the
\* responses.
process_server_event(e, client, connected) ==
    IF Ignored(e, client) \/ Fault(e, connected) # "no" THEN {Nothing}
    ELSE Handlers(e) \cup (IF MayFail(e) \/ Handlers(e) = {} THEN {Nothing} ELSE {})

\* What becomes of the process that handles e and sends the response.
Fate(e, client, connected, response) ==
    CASE ~ Ignored(e, client) /\ Fault(e, connected) # "no" -> Fault(e, connected)
      [] response # Nothing /\ NullRead(response) -> "response"
      [] OTHER -> "no"

Indices(e, client) ==
    command_index' = IF client /\ Indexed(e) /\ ~ Ignored(e, client)
                     THEN e.index ELSE command_index

---------------------------------------------------------------------------
(* The read callbacks. *)

Smaller(a, b) == IF a < b THEN a ELSE b

\* Faulty variant: the size's own four bytes are not waited for.
Whole_Early(in) == Len(in) >= ya_get_package_size(in).total

\* Whether the callback finds a package: one that has arrived completely.
Whole(in) == Len(in) >= ya_get_package_size(in).total + 4

\* One call of conn_readcb per piece that arrives, one package per call.
conn_readcb(n) ==
    /\ up /\ wire # <<>> /\ n <= Len(wire)
    /\ wire' = Drop(wire, n)
    /\ UNCHANGED <<sent, heard>>
    /\ \E in \in {input \o SubSeq(wire, 1, n)} :
       \E got \in {ya_parse_event(Drop(in, 8), ya_get_package_size(in))} :
          \/ /\ ~ SizesThere(in)
             /\ input' = in /\ died' = "sizes"
             /\ UNCHANGED <<parsed, answered, output, command_index>>
          \/ /\ SizesThere(in) /\ ~ Whole(in)
             /\ input' = in
             /\ UNCHANGED <<parsed, answered, output, command_index, died>>
          \/ /\ Whole(in) /\ ~ got.ok
             /\ input' = got.left
             /\ UNCHANGED <<parsed, answered, output, command_index, died>>
          \/ /\ Whole(in) /\ got.ok
             /\ input' = got.left
             /\ parsed' = Append(parsed, got.event)
             /\ Indices(got.event, TRUE)
             /\ \E response \in process_server_event(got.event, TRUE, TRUE) :
                   /\ died' = Fate(got.event, TRUE, TRUE, response)
                   /\ IF response = Nothing \/ died' # "no" THEN UNCHANGED <<answered, output>>
                      ELSE /\ answered' = Append(answered, response)
                           /\ output' = output \o ya_serialize_event(response)

\* What recvfrom puts into a buffer of the size.
Buffer(bytes, size) == SubSeq(bytes, 1, Smaller(Len(bytes), size))

\* What a buffer with both sizes parses to: it must be one package.
Received(buffer) ==
    LET Of(package) == IF Len(buffer) # package.total + 4 THEN [ok |-> FALSE]
                       ELSE ya_parse_event(Drop(buffer, 8), package)
    IN  Of(ya_get_package_size(buffer))

Heard(p, port, event, response) ==
    heard' = [of |-> p, port |-> port, event |-> event, answered |-> response,
              answer |-> IF response = Nothing THEN <<>> ELSE ya_serialize_event(response)]

\* A datagram of the phone's that is no package, for what was heard.
Stray == [stray |-> TRUE]

\* p arrives as the bytes.  Bound: datagrams come before the session is used;
\* CommandServer interleaves the two.
udp_readcb(p, bytes) ==
    /\ up /\ sent = <<>>
    /\ UNCHANGED <<sent, wire, input, parsed, answered, output>>
    /\ \E buffer \in {Buffer(bytes, DatagramSize)} : \E got \in {Received(buffer)} :
          \/ /\ ~ SizesThere(buffer)
             /\ Heard(p, "command", Nothing, Nothing) /\ died' = "sizes"
             /\ UNCHANGED command_index
          \/ /\ SizesThere(buffer) /\ ~ got.ok
             /\ Heard(p, "command", Nothing, Nothing)
             /\ UNCHANGED <<command_index, died>>
          \/ /\ SizesThere(buffer) /\ got.ok
             /\ Indices(got.event, got.event.uid = ClientUid)
             /\ \E response \in process_server_event(got.event, got.event.uid = ClientUid, FALSE) :
                   /\ died' = Fate(got.event, got.event.uid = ClientUid, FALSE, response)
                   /\ Heard(p, "command", got.event, IF up' THEN response ELSE Nothing)

\* run_loop takes whatever parameter it finds for a search: its first word is the magic,
\* and the first word of a text is an address.
MagicOf(e) ==
    CASE e.type \in CommonTypes                -> {e.param.lparam}
      [] e.type = "KEYBOARD"                   -> {e.param.code}
      [] e.type \in {"TEXT_INPUT", "TEXT_GET"} -> {DISCOVERY_MAGIC, Word(0, 4)}
      [] e.type = "AUTHORIZE"                  -> {e.param.type}
      [] e.type = "SESSION_OPTION"             -> {e.param.pointer_scale}
      [] e.type = "DISCOVER"                   -> {e.param.magic}

\* The port goes out in network order: sin_port as it is.
SearchAnswer ==
    [type |-> "DISCOVER", direction |-> "RESPONSE", uid |-> Word(0, 4), index |-> Word(0, 4),
     param |-> [port |-> <<0, 0, SessionPort[2], SessionPort[1]>>]]

\* One turn of run_loop.
run_loop(p, bytes) ==
    /\ up /\ sent = <<>>
    /\ UNCHANGED <<sent, wire, input, parsed, answered, output, command_index>>
    /\ \E buffer \in {Buffer(bytes, SearchSize)} : \E got \in {Received(buffer)} :
          \/ /\ ~ SizesThere(buffer)
             /\ Heard(p, "discovery", Nothing, Nothing) /\ died' = "sizes"
          \/ /\ SizesThere(buffer) /\ ~ got.ok
             /\ Heard(p, "discovery", Nothing, Nothing) /\ UNCHANGED died
          \/ /\ SizesThere(buffer) /\ got.ok /\ got.event.param = NoParam
             /\ Heard(p, "discovery", got.event, Nothing) /\ died' = "parameter"
          \/ /\ SizesThere(buffer) /\ got.ok /\ got.event.param # NoParam
             /\ \E magic \in MagicOf(got.event) :
                   Heard(p, "discovery", got.event,
                         IF magic = DISCOVERY_MAGIC THEN SearchAnswer ELSE Nothing)
             /\ UNCHANGED died

Next ==
    \/ \E p \in Packages : PhoneWrites(p)
    \/ \E n \in Pieces : conn_readcb(n)
    \/ \E p \in Datagrams : udp_readcb(p, Frame(p))
    \/ \E p \in Searches : run_loop(p, Frame(p))
    \/ \E b \in Strays : udp_readcb(Stray, b) \/ run_loop(Stray, b)

Spec == Init /\ [][Next]_vars

---------------------------------------------------------------------------
(* What the phone makes of the answers. *)

\* A header the server can read: its four integers are read as signed.
Readable(p) == ~ Negative(p.uid) /\ ~ Negative(p.index)

Meant(p) ==
    [type |-> TypeName(p.code), direction |-> Direction.REQUEST,
     uid |-> p.uid, index |-> p.index, param |-> p.means]

Frames(s) ==
    LET From[i \in 1..Len(s) + 1] == IF i > Len(s) THEN <<>> ELSE Frame(s[i]) \o From[i + 1]
    IN  From[1]

\* A package writes what it means; what it announces, and what a session sends, is
\* below MaxLength.
ASSUME PackagesAssumption ==
    /\ \A p \in Packages \cup Datagrams \cup Searches :
          /\ p.uid \in Word32 /\ p.index \in Word32 /\ p.code \in Byte /\ p.body \in Data
          /\ Len(PhoneHeader(p)) + Len(p.body) + 4 < MaxLength
          /\ Writes(p)
    /\ \A n \in 0..MaxPackages : \A s \in [1..n -> Packages] : Len(Frames(s)) < MaxLength

\* What the server has to answer with: the machine's words, adapters and scales, and
\* texts of less than half of MaxLength.
ASSUME AnswersAssumption ==
    /\ ClientUid \in Word32 /\ SessionPort \in [1..2 -> Byte] /\ CommandPort \in [1..2 -> Byte]
    /\ \A t \in Clipboard : t \in Data /\ Len(t) < MaxLength \div 2
    /\ Adapters \in Seq([addressed : BOOLEAN, loopback : BOOLEAN, tunnel : BOOLEAN,
                         link : BOOLEAN, bytes : Data])
    /\ 18 * Len(Adapters) < MaxLength \div 2
    /\ Float[1] \in Word32 /\ Float[ya_primary_scale(Environment)] \in Word32

Scalar(r) ==
    LET Of(tag) ==
            CASE tag.v.type = "str"  -> mpack_read_bytes(tag.r, Length(tag.v.v))
              [] tag.v.type = "bool" -> Result(tag.r, tag.v.v = <<\hC3>>)
              [] tag.v.type = "uint" -> Result(tag.r, Low(tag.v.v, 4))
              [] OTHER               -> Result(tag.r, tag.v.v)
    IN  Of(mpack_read_tag(r))

\* The elements an array announces, and what is left after them.
Elements(bytes) ==
    LET Then(before, x) == [r |-> x.r, v |-> Append(before.v, x.v)]
        Of(head) ==
            LET Read[i \in 0..head.v] ==
                    IF i = 0 THEN [r |-> head.r, v |-> <<>>]
                    ELSE Then(Read[i - 1], Scalar(Read[i - 1].r))
            IN  Read[head.v]
    IN  Of(mpack_expect_array(mpack_reader_init_data(bytes)))

\* The answer in a package: its header and the values of its body, which must
\* end with the package.
Decoded(bytes) ==
    LET Body(type, body) ==
            CASE type = "TEXT_GET" -> Scalar(mpack_reader_init_data(body))
              [] type # "TEXT_GET" /\ body = <<>> -> Result(mpack_reader_init_data(body), <<>>)
              [] OTHER -> Elements(body)
        Answer(header, type, body) ==
            [type |-> type, uid |-> header.uid, index |-> header.index,
             values |-> body.v, whole |-> body.r = mpack_reader_init_data(<<>>)]
        Of(header, package) ==
            Answer(header, TypeName(header.type),
                   Body(TypeName(header.type), SubSeq(bytes, 9 + package.header, package.total + 4)))
        size == ya_get_package_size(bytes)
    IN  Of(ya_parse_event_header(Drop(bytes, 8), size.header), size)

\* The values a phone of the response's protocol expects.
Values(response) ==
    LET p == response.param
    IN  CASE response.type = "AUTHORIZE" ->
               <<p.success, p.os_type, p.uid, p.session_port, p.command_port, p.macs,
                 p.display_scale>> \o
               (IF Length(p.client_version) >= 2 THEN <<Word(3, 4)>> ELSE <<>>)
          [] response.type = "DISCOVER" -> <<DISCOVERY_MAGIC, p.port>>
          [] response.type = "TEXT_GET" -> p.text
          [] OTHER -> <<>>

Announced(response) ==
    [type |-> response.type, uid |-> response.uid, index |-> response.index,
     values |-> Values(response), whole |-> TRUE]

\* The bytes are the responses, one package after another and nothing else.
Decodes(bytes, responses) ==
    LET After(start) == start + ya_get_package_size(Drop(bytes, start)).total + 4
        Start[i \in 0..Len(responses)] == IF i = 0 THEN 0 ELSE After(Start[i - 1])
    IN  /\ Start[Len(responses)] = Len(bytes)
        /\ \A i \in 1..Len(responses) :
              Decoded(Drop(bytes, Start[i - 1])) = Announced(responses[i])

\* A text's parts between separators.
CutAt(text, separator) ==
    LET Parts[i \in 0..Len(text)] ==
            IF i = 0 THEN <<<<>>>>
            ELSE LET before == Parts[i - 1]
                 IN  IF text[i] = separator THEN Append(before, <<>>)
                     ELSE [before EXCEPT ![Len(before)] = Append(@, text[i])]
    IN  Parts[Len(text)]

---------------------------------------------------------------------------
(* Properties. *)

\* What the phone may send to a port without ending the process: on TCP and the command
\* port a package whose handler gets what it dereferences, and that is not answered with
\* the NULL of CONTROL; in a search whatever parameter there is.
Harmless(p, port) ==
    LET type == TypeName(p.code)
    IN  IF p.means = NoParam THEN port # "discovery" /\ type \notin {"DISCOVER", "TEXT_INPUT"}
        ELSE \/ port = "discovery"
             \/ type # "CONTROL" /\ (port = "command" => type # "AUTHORIZE" \/ ~ Accepted(p.means))

\* However TCP cuts the bytes up and however many packages one piece holds, what
\* has not been parsed is exactly the packages not parsed yet: conn_readcb never
\* takes a byte too many or too few.  Only a header it cannot read puts it out of
\* step, by the eight bytes of the sizes.  The process outlives the session but for two
\* cases: a call that finds one to three bytes does not wait for more but ends it
\* (ya_utils.c:128), and so does a package that is not harmless.
InStep ==
    LET rest == SubSeq(sent, Len(parsed) + 1, Len(sent))
    IN  /\ \/ input \o wire = Frames(rest)
           \/ /\ rest # <<>> /\ ~ Readable(rest[1])
              /\ input \o wire = Drop(Frames(rest), 8)
        /\ ~ up /\ heard = Nothing =>
              \/ died = "sizes" /\ Len(input) < 4
              \/ parsed # <<>> /\ ~ Harmless(sent[Len(parsed)], "session")

\* What comes out of ya_parse_event is what the phone meant, package by package
\* and in order, whatever the width its integers and texts were written in; and
\* once out of step nothing is taken for a package any more.
ParsedAsMeant ==
    \A i \in 1..Len(parsed) : Readable(sent[i]) /\ parsed[i] = Meant(sent[i])

\* Every response the handlers make but CONTROL's, which has no parameter to serialize
\* (ServerSurvives), is one its serializer and ya_free_event can read, and its bytes
\* decode, one package after another, into that response: the fields the phone's protocol
\* version expects, texts longer than the writer's buffer, nothing left over.  Once it is
\* sent nothing of it is left and nothing is freed that it did not have; the one block that
\* stays is the parameter of TEXT_GET, of which ya_free_event frees the text only
\* (ya_event.c:178-283, 433-492).
AnswersInStep ==
    /\ Decodes(output, answered)
    /\ \A i \in 1..Len(answered) :
          /\ IsYAEvent(answered[i], "RESPONSE", ResponseParam(answered[i].type))
          /\ ya_free_event(answered[i]) \subseteq Blocks(answered[i])
          /\ Blocks(answered[i]) \ ya_free_event(answered[i])
                 = IF answered[i].type = "TEXT_GET" THEN {"param"} ELSE {}

\* On both UDP ports a datagram is the package the phone meant or nothing at all, never a
\* part of it, and what is answered decodes into the response.  A datagram that ends the
\* process is not answered, and it is one that is too short for its sizes (ya_utils.c:128),
\* or brings no parameter to a search (ya_server_discover.c:142) or to DISCOVER and
\* TEXT_INPUT (ya_server_handler.c:867, 656), or an AUTHORIZE that is accepted
\* (ya_server_handler.c:149), or a CONTROL (ya_event.c:289).
DatagramWhole ==
    heard # Nothing =>
        /\ \/ heard.event = Nothing
           \/ heard.of \in Datagrams \cup Searches /\ heard.event = Meant(heard.of)
        /\ Decodes(heard.answer, IF heard.answered = Nothing THEN <<>> ELSE <<heard.answered>>)
        /\ ~ up => /\ heard.answered = Nothing
                   /\ heard.of = Stray \/ ~ Harmless(heard.of, heard.port)

\* A phone that was let in can wake the machine through any of its adapters: the text
\* it got, cut at its commas, is the eligible addresses in order, and the server wrote
\* it, with its terminator, into the buffer it had for it, on every platform.
AdaptersTold ==
    \A i \in 1..Len(answered) :
        answered[i].type = "AUTHORIZE" /\ answered[i].param.success =>
            /\ answered[i].param.macs = ya_get_macs_csv(FALSE, Adapters).text
            /\ \A windows \in BOOLEAN :
                  LET csv  == ya_get_macs_csv(windows, Adapters)
                      told == Eligible(windows, Adapters)
                  IN  /\ Len(csv.text) + 1 <= csv.capacity
                      /\ IF told = <<>> THEN csv.text = <<>>
                         ELSE CutAt(csv.text, Comma)
                                  = [j \in 1..Len(told) |-> format_mac_lower_colon(told[j].bytes)]

\* A CONTROL datagram reaches the machine once: the operation it meant is the one the
\* handlers take it for, no program runs after one that did what was asked, no program
\* runs twice, and where every script fails or is missing the system's own command is
\* the last resort, on every platform and build that knows its home
\* (ya_power_scripts.c:86-168, ya_server_handler.c:737-861).
PowerOnce ==
    (/\ heard # Nothing /\ heard.event # Nothing /\ heard.port = "command"
     /\ heard.event.type = "CONTROL" /\ heard.event.param # NoParam) =>
        \A m \in Machines :
            (m.platform = "macos" => m.home # <<>>) =>
                ReachesOnce(m, Length(heard.of.means.lparam),
                            handle_control(m, Length(heard.event.param.lparam)))

\* ya_event_test.c:258: "an event without parameters should be serializable".
\* No response makes ya_serialize_event read a parameter that is not there.
ServerSurvives == died # "response"
============================================================================
