----------------------------- MODULE MainSetup ------------------------------
(***************************************************************************)
(* What main (run.c) does before there is a server: it finds server.conf   *)
(* and opens the log, with the directories run.c, ya_utils.c and           *)
(* ya_logger.c make for it and the levels of a line.  What becomes of the  *)
(* files later is in ServerLife.                                           *)
(*                                                                         *)
(* A path is a sequence of names and separators, each one symbol; the      *)
(* buffers' sizes count symbols.  A host is a record: whether it is        *)
(* Windows, the current directory, its directories and files as sequences  *)
(* of names from the root, and the directories the server may write in.    *)
(* Links and the names . and .. are left out.                              *)
(***************************************************************************)
EXTENDS Naturals, Sequences

LOCAL INSTANCE SequencesExt

CONSTANTS
    Hosts,
    LogPaths,       \* names a configuration may give the log
    ConfigPaths,    \* names of a configuration on the command line
    ExePaths,       \* what the system may tell of the executable
    ConfigName,     \* server.conf
    ExeSize,        \* 1024: of that path, and of the configuration's next to it
    PathSize,       \* 512: of the path ya_ensure_dir works on
    DirSize         \* 256: of the one ya_logger_init makes

ASSUME MainSetupAssumption == PathSize \in Nat \ {0} /\ ExeSize \in Nat \ {0} /\ DirSize \in Nat

Separators == {"/", "\\"}

\* The one the platform writes, and those it reads.
Separator(h) == IF h.windows THEN "\\" ELSE "/"
Reads(h) == IF h.windows THEN Separators ELSE {"/"}

\* The places of the separators, and of the names between them, empty ones included.
SeparatorsOf(path, separators) ==
    SelectSeq([i \in 1..Len(path) |-> i], LAMBDA i : path[i] \in separators)

Names(path, separators) ==
    LET cuts == <<0>> \o SeparatorsOf(path, separators) \o <<Len(path) + 1>>
    IN  [k \in 1..Len(cuts) - 1 |-> SubSeq(path, cuts[k] + 1, cuts[k + 1] - 1)]

Members(s) == {s[i] : i \in DOMAIN s}

NotEmpty(name) == name # <<>>

Absolute(h, path) ==
    path # <<>> /\ (path[1] \in Reads(h) \/ (h.windows /\ Last(Names(path, Separators)[1]) = ":"))

\* On Windows a path without a drive is on the current one.
Root(h, path) ==
    IF ~ Absolute(h, path) THEN h.cwd
    ELSE IF h.windows /\ path[1] \in Separators THEN SubSeq(h.cwd, 1, 1) ELSE <<>>

\* Where a path leads.
Resolved(h, path) ==
    Root(h, path) \o SelectSeq(Names(path, Reads(h)), NotEmpty)

With(h, new) ==
    [h EXCEPT !.dirs = h.dirs \cup new, !.writable = h.writable \cup new]

\* [host, errno], 0 for success.
mkdir(h, path) ==
    LET to == Resolved(h, path)
    IN  CASE path = <<>> -> [host |-> h, errno |-> "ENOENT"]
          [] path # <<>> /\ to \in h.dirs \cup h.files -> [host |-> h, errno |-> "EEXIST"]
          [] OTHER ->
               IF Front(to) \notin h.dirs THEN [host |-> h, errno |-> "ENOENT"]
               ELSE IF Front(to) \notin h.writable THEN [host |-> h, errno |-> "EACCES"]
               ELSE [host |-> With(h, {to}), errno |-> "0"]

\* fopen "a".
Opens(h, path) ==
    LET to == Resolved(h, path)
    IN  /\ path # <<>> /\ Last(path) \notin Reads(h) /\ to \notin h.dirs
        /\ \/ to \in h.files
           \/ Front(to) \in h.dirs /\ Front(to) \in h.writable

\* The place of the last separator, 0 for none.
LastOf(path, separators) == Last(<<0>> \o SeparatorsOf(path, separators))

Within(path, size) == SubSeq(path, 1, IF Len(path) < size THEN Len(path) ELSE size - 1)

---------------------------------------------------------------------------
(* server.conf. *)

\* NULL, and no argument on the command line.
Nothing == <<>>

\* The path from the root; on Windows it begins with the drive.
Text(h, to) ==
    LET text == FoldLeft(LAMBDA before, name : before \o <<Separator(h)>> \o name, <<>>, to)
    IN  IF to = <<>> THEN <<"/">> ELSE IF h.windows THEN Tail(text) ELSE text

\* On Windows it does not look whether there is anything.
realpath(h, path) ==
    IF h.windows \/ Resolved(h, path) \in h.dirs \cup h.files
    THEN Text(h, Resolved(h, path))
    ELSE Nothing

file_exists(h, path) ==
    Resolved(h, [i \in DOMAIN path |-> IF path[i] = "\\" THEN "/" ELSE path[i]])
        \in h.dirs \cup h.files

\* Nothing when the system does not tell.
ya_get_executable_path(exe) == Within(exe, ExeSize)

\* Faulty variant: up to the first separator.
ya_get_dir_path_First(path) ==
    LET cuts == SeparatorsOf(path, Separators)
    IN  [found |-> cuts # <<>>, dir |-> IF cuts = <<>> THEN Nothing ELSE SubSeq(path, 1, cuts[1] - 1)]

ya_get_dir_path(path) ==
    LET n == LastOf(path, Separators)
    IN  [found |-> n # 0, dir |-> SubSeq(path, 1, n - 1)]

\* The values config_file may have.  It is not set when the place of the executable is
\* not known; it may then be NULL or lead anywhere.
config_file(h, argument, exe) ==
    LET to == ya_get_dir_path(ya_get_executable_path(exe))
    IN  IF argument # Nothing THEN {realpath(h, argument)}
        ELSE IF to.found
        THEN {realpath(h, Within(to.dir \o <<"/">> \o ConfigName, ExeSize))}
        ELSE {Nothing} \cup {Text(h, f) : f \in h.files}

\* Those main goes on with.
Accepted(h, argument, exe) ==
    {path \in config_file(h, argument, exe) : path # Nothing /\ file_exists(h, path)}

---------------------------------------------------------------------------
(* Directories. *)

\* tmp, without the separator at its end.
WithoutEnd(path) ==
    LET tmp == Within(path, PathSize)
    IN  IF Len(tmp) > 1 /\ Last(tmp) \in Separators THEN Front(tmp) ELSE tmp

\* The separators before which a directory is made, in order.
Stops(tmp) ==
    SelectSeq(SeparatorsOf(tmp, Separators), LAMBDA i : i # 1 /\ tmp[i - 1] # ":")

\* The stops up to n have the platform's separator by then.
Restored(h, tmp, n) ==
    [i \in 1..Len(tmp) |->
        IF i <= n /\ i \in Members(Stops(tmp)) THEN Separator(h)
        ELSE tmp[i]]

Made(before, path) ==
    IF ~ before.ok THEN before
    ELSE LET Of(made) == [host |-> made.host, ok |-> made.errno \in {"0", "EEXIST"}]
         IN  Of(mkdir(before.host, path))

ya_ensure_dir(h, path) ==
    IF path = <<>> THEN [host |-> h, ok |-> TRUE]
    ELSE LET All(tmp, stops) ==
                Made(FoldLeft(LAMBDA before, i :
                                  Made(before, SubSeq(Restored(h, tmp, i - 1), 1, i - 1)),
                              [host |-> h, ok |-> TRUE], stops),
                     Restored(h, tmp, Len(tmp)))
         IN  All(WithoutEnd(path), Stops(WithoutEnd(path)))

ensure_log_directory(h, target) ==
    LET n == LastOf(target, Separators)
    IN  IF n \in {0, 1} \/ n > PathSize THEN [host |-> h, ok |-> TRUE]
        ELSE ya_ensure_dir(h, SubSeq(target, 1, n - 1))

\* The log's directory once more, whatever comes of it, and the log.
ya_logger_init(h, target) ==
    LET n    == LastOf(target, {"/"})
        host == IF n # 0 /\ n <= DirSize THEN mkdir(h, SubSeq(target, 1, n - 1)).host ELSE h
    IN  [host |-> host, ok |-> Opens(host, target)]

\* init_logger: a failure ends the start.
log_started(h, target) ==
    LET Of(made) == IF made.ok THEN ya_logger_init(made.host, target) ELSE made
    IN  Of(ensure_log_directory(h, target))

---------------------------------------------------------------------------
(* Levels. *)

ya_log_level_t == <<"TRACE", "DEBUG", "INFO", "WARN", "ERROR", "FATAL", "OFF">>

Number(level) == (CHOOSE i \in DOMAIN ya_log_level_t : ya_log_level_t[i] = level) - 1

\* What [logger] level says; anything else is INFO.
Level(text) == IF text \in Members(ya_log_level_t) THEN text ELSE "INFO"

Keeps(configured, level) == level # "OFF" /\ Number(level) >= Number(configured)

\* The levels that share one of the system's, mildest first.  (Windows computes its
\* level and then writes to the debugger, which has none.)
SystemLevels ==
    [windows |-> <<{"TRACE", "DEBUG", "INFO"}, {"WARN"}, {"ERROR", "FATAL"}>>,
     apple   |-> <<{"TRACE", "DEBUG"}, {"INFO"}, {"WARN"}, {"ERROR"}, {"FATAL"}>>,
     android |-> <<{"TRACE"}, {"DEBUG"}, {"INFO"}, {"WARN"}, {"ERROR"}, {"FATAL"}>>,
     linux   |-> <<{"TRACE", "DEBUG"}, {"INFO"}, {"WARN"}, {"ERROR"}, {"FATAL"}>>]

\* The place of a line's level among the system's.
write_to_system_log(platform, level) ==
    CHOOSE i \in DOMAIN SystemLevels[platform] : level \in SystemLevels[platform][i]

---------------------------------------------------------------------------
(* Properties. *)

\* The directories a path names, outermost first.
Ancestors(h, path) ==
    LET to == Resolved(h, path)
    IN  [n \in 0..Len(to) - (IF Last(path) \in Reads(h) THEN 0 ELSE 1) |-> SubSeq(to, 1, n)]

\* Nothing keeps the server from logging there: the nearest directory there is takes
\* new ones, no file is in the way and the name fits.
Possible(h, target) ==
    LET all == Ancestors(h, target)
        last == CHOOSE n \in DOMAIN all :
                   all[n] \in h.dirs /\ \A m \in DOMAIN all : m > n => all[m] \notin h.dirs
    IN  /\ Opens(With(h, Members(all)), target)
        /\ \A n \in DOMAIN all : all[n] \notin h.files
        /\ all[last] \in h.writable
        /\ Len(target) <= PathSize

\* The platform and ya_ensure_dir read the name alike: elsewhere than on Windows it
\* has no backslash and no drive, which are parts of a name there.
Plain(h, target) == h.windows \/ Members(target) \cap {"\\", ":"} = {}

\* Wherever it is started from, main reads the configuration it was given, without one
\* the one next to the executable, and ends when there is none: a configuration that
\* lies elsewhere is never taken for it.  (Where the executable's place is known, and
\* the path of the configuration next to it fits.)
ConfigFound ==
    \A h \in Hosts : \A argument \in ConfigPaths \cup {Nothing} : \A exe \in ExePaths :
        LET meant == IF argument # Nothing THEN Resolved(h, argument)
                     ELSE Append(Front(Resolved(h, exe)), ConfigName)
        IN  /\ Plain(h, argument) /\ Plain(h, exe)
            /\ argument = Nothing =>
                  /\ exe # Nothing /\ Len(exe) < ExeSize
                  /\ ya_get_dir_path(exe).found
                  /\ Len(ya_get_dir_path(exe).dir) + 1 + Len(ConfigName) < ExeSize
            => {Resolved(h, path) : path \in Accepted(h, argument, exe)} =
                  {meant} \cap (h.dirs \cup h.files)

\* A log that can be written is: init_logger makes every directory that is missing on
\* the way and no other, in an order in which each has its parent, and a start ends
\* only where the log could not have been opened.
LogOpens ==
    \A h \in Hosts : \A target \in LogPaths : Plain(h, target) =>
        \A done \in {log_started(h, target)} :
            /\ Possible(h, target) => done.ok
            /\ done.host.dirs \subseteq h.dirs \cup Members(Ancestors(h, target))

\* Whatever level is configured, on every platform: where a line is kept a more severe
\* one is too, and the system's log never shows it as the milder of the two.
SevereLinesReach ==
    \A text \in Members(ya_log_level_t) \cup {"", "info"} :
        \A a, b \in Members(ya_log_level_t) \ {"OFF"} : Number(a) <= Number(b) =>
            /\ Keeps(Level(text), a) => Keeps(Level(text), b)
            /\ \A platform \in DOMAIN SystemLevels :
                  write_to_system_log(platform, a) <= write_to_system_log(platform, b)

=============================================================================
