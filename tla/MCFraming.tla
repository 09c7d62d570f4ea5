----------------------------- MODULE MCFraming -----------------------------
(* Packages of every type, with integers and texts at the limits of their      *)
(* encodings; a writer that starts with 32 bytes; datagrams of at most 64.     *)
EXTENDS Framing

Encoded(w) == mpack_writer_destroy(w)
New == mpack_writer_init_growable

Text(n) == Filled(n, 97)

Pkg(code, uid, index, body, means) ==
    [code |-> code, uid |-> uid, index |-> index, body |-> body, means |-> means]

Uid == <<0, 0, 1, 2>>

Common(code, index, l, r) ==
    LET p == [lparam |-> l, rparam |-> r]
    IN  Pkg(code, Uid, index, Encoded(serialize_common_request(New, p)), p)

Keys(index, c, o, m) ==
    LET p == [code |-> c, op |-> o, mods |-> m]
    IN  Pkg(4, Uid, index, Encoded(serialize_keyboard_request(New, p)), p)

TextInput(index, n) ==
    LET p == [text |-> Text(n)] IN Pkg(5, Uid, index, Encoded(serialize_text(New, p)), p)

Authorize(index, type, version) ==
    LET p == [type |-> type, version |-> version]
    IN  Pkg(10, Word(0, 4), index, Encoded(serialize_authorize_request(New, p)), p)

\* A later protocol's move: one element more than this server reads.
NewerMove(index, l, r) ==
    LET p == [lparam |-> l, rparam |-> r]
    IN  Pkg(1, Uid, index,
            Encoded(mpack_write_i32(mpack_write_i32(mpack_write_i32(mpack_start_array(New, 3),
                l), r), l)), p)

Option(index, scale) ==
    Pkg(12, Uid, index, Encoded(mpack_write_float(mpack_start_array(New, 1), scale)),
        [pointer_scale |-> scale])

Bare(code, index) == Pkg(code, Uid, index, <<>>, NoParam)

Search(magic) == Pkg(7, Word(0, 4), Word(1, 4), Encoded(mpack_write_u32(New, magic)), [magic |-> magic])

N(x) == Word(x, 4)
Minus(x) == <<255, 255, 255 - (x - 1) \div 256, 255 - ((x - 1) % 256)>>

MCPackages ==
    {Authorize(N(0), N(1), N(1)), Authorize(N(0), N(2), N(3)), Common(1, N(1), Minus(33), N(128)),
     TextInput(N(2), 33), Bare(5, N(2)), Bare(6, N(300)), Bare(11, N(0)),
     Common(1, <<128, 0, 0, 0>>, N(1), N(1))}

\* CONTROL is the one request whose response has no parameter but a serializer.
MCControl == {Common(9, N(1), N(3), N(0)), Bare(11, N(0)), Common(1, N(2), N(1), N(1))}

\* Around every change of width.
Edges == {N(0), N(127), N(128), N(255), N(256), N(65535), <<0, 1, 0, 0>>, <<127, 255, 255, 255>>,
          Minus(1), Minus(32), Minus(33), Minus(128), Minus(129), Minus(32768), Minus(32769),
          <<128, 0, 0, 0>>}

Magics == {DISCOVERY_MAGIC, N(5)}

MCDatagrams ==
    {Common(1, N(1), l, N(1)) : l \in Edges} \cup {Keys(N(1), N(97), N(2), m) : m \in Edges}
    \cup {TextInput(N(7), n) : n \in {0, 1, 31, 32, 45, 255}}
    \cup {Common(9, N(9), N(op), N(0)) : op \in 0..4}
    \cup {NewerMove(N(9), N(3), N(4)), Option(N(9), <<\h3F, 192, 0, 0>>), Bare(8, N(9)),
          Bare(6, N(9)), Bare(11, N(9)), Bare(13, N(9))}
    \cup {Authorize(N(0), type, N(1)) : type \in {N(1), N(3)}} \cup {Search(m) : m \in Magics}
    \cup {Bare(code, N(9)) : code \in {1, 5, 7, 9, 10}}

\* Searches, and what is no search and is taken for one.
MCSearches ==
    {Search(m) : m \in Magics} \cup {Common(1, N(1), m, N(1)) : m \in Magics}
    \cup {TextInput(N(7), 1), Authorize(N(0), N(1), N(3)), Keys(N(1), N(97), N(2), N(0)),
          Option(N(9), DISCOVERY_MAGIC), Bare(7, N(0)), Bare(11, N(0))}

\* Up to one byte less than the sizes; the last reads as a size of 0 and four bytes.
MCStrays == {Filled(n, 1) : n \in 0..7} \cup {Filled(4, 0)}
NoStrays == {}

MCClipboard == {Text(n) : n \in {0, 40, 256}}
MCSessionPort == <<175, 201>>
MCCommandPort == <<0, 80>>
Mac(n) == <<0, 26, 160, 255, 16, n>>
MCAdapters ==
    <<[addressed |-> TRUE, loopback |-> TRUE, tunnel |-> FALSE, link |-> TRUE, bytes |-> Mac(0)],
      [addressed |-> TRUE, loopback |-> FALSE, tunnel |-> FALSE, link |-> TRUE, bytes |-> Mac(1)],
      [addressed |-> TRUE, loopback |-> FALSE, tunnel |-> FALSE, link |-> FALSE, bytes |-> <<127, 0, 0, 1>>],
      [addressed |-> FALSE, loopback |-> FALSE, tunnel |-> FALSE, link |-> FALSE, bytes |-> <<>>],
      [addressed |-> TRUE, loopback |-> FALSE, tunnel |-> FALSE, link |-> TRUE, bytes |-> Filled(6, 0)],
      [addressed |-> TRUE, loopback |-> FALSE, tunnel |-> FALSE, link |-> TRUE, bytes |-> Mac(2)],
      [addressed |-> TRUE, loopback |-> FALSE, tunnel |-> FALSE, link |-> TRUE, bytes |-> Mac(3)],
      [addressed |-> FALSE, loopback |-> FALSE, tunnel |-> FALSE, link |-> FALSE, bytes |-> Mac(4)],
      [addressed |-> FALSE, loopback |-> FALSE, tunnel |-> TRUE, link |-> FALSE, bytes |-> Mac(5)]>>

\* GDK_SCALE is above what a float holds for strtod, and 2 for strtol.
MCEnvironment ==
    [v \in ScaleVariables |->
        CASE v = "GDK_SCALE" -> [double |-> 1000, long |-> 2]
          [] v = "GDK_DPI_SCALE" -> [double |-> 2, long |-> 2]
          [] v = "QT_SCALE_FACTOR" -> [double |-> 1, long |-> 1]
          [] OTHER -> [double |-> 0, long |-> 0]]

MCFloat == [x \in {1, 2, 4} |-> CASE x = 1 -> <<\h3F, 128, 0, 0>> [] x = 2 -> <<64, 0, 0, 0>>
                                 [] x = 4 -> <<64, 128, 0, 0>>]
\* Every platform and build, installed or started without a known path; each script
\* there or not, working or not.
MCDir == <<"srv", "build", "linux", "x64", "bundle">>
MCHome == <<"home", "u">>
MCMachine(platform, debug, executable, home) ==
    [platform |-> platform, debug |-> debug, executable |-> executable, cwd |-> MCHome,
     home |-> home, garbage |-> <<"poweroff">>, files |-> {}, works |-> {}]
MCScripts(m, name) ==
    {DebugScript(m, name)} \cup
    (IF m.platform = "macos"
     THEN {Up(ya_get_exe_dir(m), 1) \o <<"Resources", "scripts", name>>,
           MCHome \o <<"Library", "MouseHero", "scripts", name>>}
     ELSE {ya_get_exe_dir(m) \o <<"scripts", name>>,
           ya_get_exe_dir(m) \o <<"scripts", m.platform, name>>})
MCCommands ==
    {{}, {<<"shutdown /s /t 0">>, <<"reboot">>, <<"pmset sleepnow">>, <<"systemctl suspend">>}}
MCFiles(m, name) ==
    UNION {{[m EXCEPT !.files = files, !.works = scripts \cup commands] :
              scripts \in SUBSET files, commands \in MCCommands} :
           files \in SUBSET MCScripts(m, name)}
MCMachines ==
    UNION {MCFiles(MCMachine(p, d, e, h), name) :
           p \in {"windows", "macos", "linux"}, d \in BOOLEAN,
           e \in {<<>>, Append(MCDir, "server")}, h \in {<<>>, MCHome},
           name \in {"poweroff", "restart", "sleep"}}
============================================================================
