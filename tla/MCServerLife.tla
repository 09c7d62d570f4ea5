---------------------------- MODULE MCServerLife ----------------------------
(* One-letter names for the sections and keys of server.conf, texts with every  *)
(* byte that is syntax, and requests that are well-formed, cut, too long, of     *)
(* another shape and not UTF-8.                                                  *)
EXTENDS ServerLife, CrashDump

MCSession == <<115>>    \* s
MCCommand == <<99>>     \* c
MCHttp == <<104>>       \* h
MCLogger == <<108>>     \* l
MCListener == <<97>>    \* a
MCFile == <<102>>       \* f
MCSectionKey == <<83>>
MCKeyKey == <<75>>
MCValueKey == <<86>>

At(n) == <<48 + n, 58, 48 + n>>     \* "n:n"
MCAddresses == {At(n) : n \in 1..4}
LogA == <<65>>
LogB == <<66>>
MCLogNames == {LogA, LogB}
MCGarbage == <<0>>

Header(s) == <<Opening>> \o s \o <<Closing, Newline>>
Pair(k, v) == k \o <<Equals>> \o v \o <<Newline>>

\* As installed: a comment, spaces around a key, sections apart.
MCInitial ==
    <<Hash, 120, Newline>>
    \o Header(MCSession) \o Pair(MCListener, At(1)) \o <<Newline>>
    \o Header(MCCommand) \o Pair(<<32>> \o MCListener \o <<32>>, At(2))
    \o Header(MCHttp) \o Pair(MCListener, At(3)) \o Header(MCLogger) \o Pair(MCFile, LogA)

\* By hand: a quoted value, a comment after another, a key twice, bytes that are not
\* UTF-8, no newline at the end; and a file without a log.
MCEdits ==
    {Header(MCSession) \o Pair(MCListener, <<Quote>> \o At(1) \o <<Quote>>)
     \o Header(MCCommand) \o Pair(MCListener, At(2) \o <<32, Semicolon, 120>>)
     \o Header(MCHttp) \o Pair(MCListener, At(3)) \o Pair(MCListener, At(4))
     \o Header(MCLogger) \o MCFile \o <<Equals>> \o LogB,
     Header(MCSession) \o Pair(MCListener, At(4)) \o Header(MCCommand) \o Pair(MCListener, At(2))
     \o Header(MCHttp) \o Pair(MCListener, At(1)) \o Pair(<<120>>, <<200, 120>>)}

E(s, k, v) == [section |-> s, key |-> k, value |-> v]

Body(entries) ==
    mpack_writer_destroy(
        FoldLeft(EntryAnswer, mpack_start_array(mpack_writer_init_growable, Len(entries)), entries))

Post(entries) == [body |-> Body(entries), well |-> TRUE, means |-> entries]
Bad(body) == [body |-> body, well |-> FALSE, means |-> <<>>]

Cut(s, n) == SubSeq(s, 1, Len(s) - n)

Two == <<E(MCHttp, MCListener, At(4)), E(MCLogger, MCFile, LogB)>>

MCPosts ==
    {Post(Two), Bad(Cut(Body(Two), 1)),
     Post(<<E(MCHttp, <<120>>, <<49>>), E(MCHttp, <<120>>, <<49, Equals, 50>>)>>),
     Post(<<E(<<122>>, <<121>>, <<Hash>>)>>),
     Post(<<E(MCSession, <<120, 121, 122>>, <<49, 32, 50, 51, 52, 53, 54, 55, 56, 57, 58>>)>>),
     Post(<<E(MCLogger, MCFile, <<195, 169>>)>>),
     Bad(Body(<<E(MCHttp, Filled(4, 120), <<49>>)>>)),
     Bad(Body(<<E(MCHttp, <<120>>, <<192, 129>>)>>)),
     Bad(EntryAnswer(mpack_writer_init_growable, Two[1]).buffer), Bad(<<>>)}

\* The configuration next to the executable, in the directory above or below it, or not
\* at all, under its name and under the name a path that does not fit is cut to.
MCConfigName == <<"s", ".", "c">>
MCConfigPaths ==
    {MCConfigName, <<"/", "v", "/">> \o MCConfigName, <<"w", "/", "/">> \o MCConfigName,
     <<"v", "/", "w", "/">> \o MCConfigName, <<"C", ":", "\\", "v", "/">> \o MCConfigName, <<"/", "v">>}
MCExePaths ==
    {<<"/", "v", "/", "x">>, <<"/", "v", "/", "w", "/", "x">>, <<"/", "x">>, <<"C", ":", "\\", "v", "\\", "x">>,
     <<"/", "v", "/", "w", "/", "v", "/", "w", "/", "x">>, <<>>}
\* Every mix of directories, permissions and a file in the way, below a root where only
\* some may be made; relative, absolute, with separators of both kinds, doubled and
\* at the end, as long as the buffers and longer, and a drive.
MCUnder(cwd, windows) ==
    LET v == Append(cwd, <<"v">>)
        w == Append(v, <<"w">>)
    IN  {[windows |-> windows, cwd |-> cwd, dirs |-> {<<>>, cwd} \cup d, files |-> f, writable |-> r] :
            d \in {{}, {v}, {v, w}}, f \in {{}, {w}}, r \in {{}, {cwd}, {cwd, v}, {<<>>, cwd, v, w}}}
MCHosts ==
    {h \in MCUnder(<<>>, FALSE) \cup MCUnder(<<<<"u">>>>, FALSE) \cup MCUnder(<<<<"C", ":">>>>, TRUE) :
        (\A f \in h.files : f \notin h.dirs /\ Front(f) \in h.dirs) /\ h.writable \subseteq h.dirs}
    \cup {With([windows |-> FALSE, cwd |-> c, dirs |-> {<<>>}, files |-> f, writable |-> {}], {<<<<"v">>>>, <<<<"v">>, <<"w">>>>}) :
            c \in {<<>>, <<<<"v">>>>}, f \in SUBSET {Append(d, n) : d \in {<<<<"v">>>>, <<<<"v">>, <<"w">>>>}, n \in {MCConfigName, <<"s">>}}}
    \cup {With([windows |-> TRUE, cwd |-> <<<<"C", ":">>>>, dirs |-> {<<>>}, files |-> f, writable |-> {}], {<<<<"C", ":">>>>, <<<<"C", ":">>, <<"v">>>>}) :
            f \in SUBSET {<<<<"C", ":">>, <<"v">>, MCConfigName>>, <<<<"C", ":">>, MCConfigName>>}}
MCLogPaths ==
    {<<"l">>, <<"v", "/", "l">>, <<"/", "v", "/", "w", "/", "l">>, <<"v", "/", "w", "/", "l">>,
     <<"v", "/", "/", "w", "/", "l">>, <<"v", "\\", "w", "\\", "l">>, <<"v", "/", "w", "\\", "l">>,
     <<"v", "\\", "w", "/", "l">>, <<"C", ":", "\\", "v", "\\", "l">>, <<"C", ":", "/", "v", "/", "w", "/", "l">>,
     <<"v", "/", "w", "/", "x", "/", "y", "/", "z", "/", "l">>,
     <<"v", "/", "w", "/", "x", "/", "y", "/", "z", "/", "l", "l">>, <<"v", "/">>, <<"/", "l">>}
\* Set, not set, with a separator at the end, and too long for the directory.
MCHomes == {<<"/", "v">>, <<"v">>, <<"/">>, <<>>, <<"C", ":", "\\", "v">>}
MCSeconds == {"1", "2"}

---------------------------------------------------------------------------
(* What a start does before there is a server, for every host at once. *)

\* A server that is down, before its first start and after every crash, starts soundly
\* from wherever and with whatever configuration: main reads the configuration that is
\* meant, opens the log where that is possible, and no level hides the severe lines
\* (run.c, ya_utils.c, ya_logger.c).
SetupSound == ~ up => ConfigFound /\ LogOpens /\ SevereLinesReach

\* A server that runs in a debug build leaves the dump of a segmentation fault and
\* spares those of the servers before it (ya_crash_dump.c, sigsegv_handler in run.c).
SegfaultDumped == up => SegfaultLeavesDump
=============================================================================
