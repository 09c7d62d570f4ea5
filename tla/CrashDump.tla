------------------------------ MODULE CrashDump ------------------------------
(***************************************************************************)
(* The crash dumps of a debug build (ya_crash_dump.c, run.c): the          *)
(* directory main makes for them, and what a signal that ends the server   *)
(* leaves there.  A dump is its file and the reason it tells; its name     *)
(* holds the second of the crash.                                          *)
(*                                                                         *)
(* A process is a record: its host, dump_dir, the signals crash_handler is *)
(* installed for and the dumps on the disk.                                *)
(***************************************************************************)
EXTENDS MainSetup, FiniteSets

CONSTANTS
    Homes,      \* what LOCALAPPDATA and HOME may hold, Nothing if they are not set
    Seconds     \* in which a server may crash

CrashSignals == {"SIGSEGV", "SIGABRT", "SIGFPE", "SIGILL", "SIGBUS"}

\* NULL.
NoDir == <<"NULL">>

\* "./crash" on Linux; without a variable the text stays empty.
ya_crash_dump_get_default_dir(platform, home) ==
    CASE platform = "linux" -> <<"crash">>
      [] platform # "linux" /\ home = Nothing -> <<>>
      [] platform = "apple" /\ home # Nothing -> home \o <<"/", "Library", "/", "Logs", "/", "CrashReporter", "/", "yaya">>
      [] platform = "windows" /\ home # Nothing -> home \o <<"\\", "yaya", "\\", "dumps">>

\* A failure ends the start of the server.
ya_crash_dump_init(h, dir, dumps) ==
    LET Of(made) ==
            [host |-> made.host, ok |-> made.ok, dump_dir |-> IF made.ok THEN dir ELSE NoDir,
             handlers |-> {}, dumps |-> dumps]
    IN  Of(ya_ensure_dir(h, dir))

ya_crash_dump_cleanup(p) == [p EXCEPT !.dump_dir = NoDir]

DumpFile(p, second) == p.dump_dir \o <<Separator(p.host), second>>

\* Faulty variant: the name holds the day only.
generate_crash_dump_Day(p, second, reason) ==
    LET file == DumpFile(p, "today")
    IN  IF Opens(p.host, file)
        THEN [p EXCEPT !.dumps = {d \in @ : d.file # Resolved(p.host, file)}
                                  \cup {[file |-> Resolved(p.host, file), reason |-> reason]}]
        ELSE p

\* A dump of the same second is overwritten; a file that cannot be opened is only
\* logged.
generate_crash_dump(p, second, reason) ==
    LET file == DumpFile(p, second)
    IN  IF Opens(p.host, file)
        THEN [p EXCEPT !.dumps = {d \in @ : d.file # Resolved(p.host, file)}
                                  \cup {[file |-> Resolved(p.host, file), reason |-> reason]}]
        ELSE p

\* The handlers are installed with the first dump and not before, on Windows never.
ya_crash_dump_generate(p, second, reason) ==
    IF p.dump_dir = NoDir THEN p
    ELSE generate_crash_dump([p EXCEPT !.handlers = IF p.host.windows THEN {} ELSE CrashSignals],
                             second, reason)

\* main's own, from its first line on.  exit follows.
sigsegv_handler(p, second) == ya_crash_dump_generate(p, second, "Segmentation fault")

\* Default action follows.
crash_handler(p, second) ==
    IF p.dump_dir = NoDir THEN p ELSE generate_crash_dump(p, second, "Program crashed")

\* What a signal leaves.
Signalled(p, signal, second) ==
    IF signal \in p.handlers THEN crash_handler(p, second)
    ELSE IF signal = "SIGSEGV" THEN sigsegv_handler(p, second)
    ELSE p

---------------------------------------------------------------------------
(* Properties. *)

Platforms(h) == IF h.windows THEN {"windows"} ELSE {"linux", "apple"}

\* A segmentation fault of a server that got past its start leaves its dump, wherever
\* that was started, when the directory main made or found takes files, and the dump
\* of an earlier server stays unless it is of the same second.  A signal while the
\* first one's exit runs may overwrite the dump with one that tells less, but never
\* leaves none.  (The other four signals have no handler before the first dump.)
SegfaultLeavesDump ==
    \A h \in Hosts : \A home \in Homes : \A platform \in Platforms(h) : \A before, second \in Seconds :
        \A fresh \in {ya_crash_dump_init(h, ya_crash_dump_get_default_dir(platform, home), {})} :
            fresh.ok /\ Opens(fresh.host, DumpFile(fresh, second)) =>
                \A p \in {[fresh EXCEPT !.dumps = Signalled(fresh, "SIGSEGV", before).dumps]} :
                \A once \in {Signalled(p, "SIGSEGV", second)} :
                \A twice \in {Signalled(once, "SIGABRT", second)} :
                    /\ Cardinality(once.dumps) = Cardinality({before, second})
                    /\ \A d \in once.dumps : d.reason = "Segmentation fault"
                    /\ {d.file : d \in twice.dumps} = {d.file : d \in once.dumps}
                    /\ before # second => p.dumps \subseteq twice.dumps
                    /\ Signalled(ya_crash_dump_cleanup(p), "SIGSEGV", second).dumps = p.dumps
=============================================================================
