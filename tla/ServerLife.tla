----------------------------- MODULE ServerLife -----------------------------
(***************************************************************************)
(* The server's life around its files: how it starts from server.conf      *)
(* (run.c, ya_server.c), what its HTTP interface reads and changes         *)
(* (ya_server_http.c), what it logs (ya_logger.c), and what a crash at any *)
(* of its writes leaves for the next start and for the desktop application.*)
(*                                                                         *)
(* The configuration is an array of entries.  The listeners' addresses and *)
(* the log file's name are pointers into that array, taken at the start:   *)
(* they are modelled by the index of their entry, 0 for NULL.              *)
(*                                                                         *)
(* The main thread starts one component after another and then handles    *)
(* HTTP requests one at a time; the discovery thread runs beside it from   *)
(* its start to the end of the process.  Sessions and commands are         *)
(* modelled in CommandServer and Framing; the list of clients in /status   *)
(* is left out.  A log line stands for the lines an operation writes;      *)
(* levels and the opening of the first log are in MainSetup; the console   *)
(* and the discovery thread's own logging are left out.                    *)
(***************************************************************************)
EXTENDS ConfigFile

CONSTANTS
    Initial,            \* server.conf as it is installed
    Edits,              \* what the user may make of it in the desktop application
    Session, Command, Http, Logger,     \* the sections' names
    Listener, File,                     \* and the keys'
    SectionKey, KeyKey, ValueKey,       \* the keys of an entry in a request
    Addresses,          \* texts evutil_parse_sockaddr_port accepts
    LogNames,           \* file names a log can be opened under
    Posts,              \* requests to /config: body, whether it is well-formed, the entries meant
    Garbage,            \* what freed memory may hold
    BlockSize,          \* stdio writes a file in blocks of this size
    MaxSize,            \* logger max_file_size, in lines
    MaxBackups,         \* logger max_backup_files
    MaxCalls, MaxLines  \* bounds: starts, requests and edits; lines logged

ASSUME ServerLifeAssumption ==
    /\ BlockSize \in Nat \ {0} /\ MaxSize \in Nat /\ MaxBackups \in Nat
    /\ MaxCalls \in Nat /\ MaxLines \in Nat
    /\ Garbage \notin Addresses \cup LogNames
    /\ Initial \in Data /\ Edits \subseteq Data
    /\ \A post \in Posts : post.body \in Data
    /\ <<-1>> \notin Addresses

VARIABLES
    disk,           \* the text of server.conf
    saved,          \* what ya_config_save last wrote there, and whether to the end
    up,             \* the process runs
    state,          \* svr_context.state
    ready,          \* svr_context.components_state
    thread,         \* the discovery thread
    config,         \* the global configuration
    freed,          \* the array's contents when realloc last moved it
    pointer,        \* session_addr, command_addr, http_addr and the log's name
    sock_addr,      \* session_sock_addr and its like: parsed at the start
    listens,        \* the address each port is bound to, NoText if it is not
    log,            \* the logger and what it left behind
    reply,          \* the last answer to a POST
    status,         \* the last answer of /status
    got,            \* the body of the last answer to a GET of /config
    found,          \* the session's address in the last answer of discovery
    calls           \* counted for the bound

files == <<disk, saved>>
memory == <<config, freed, pointer>>
process == <<up, state, ready, thread, sock_addr, listens>>
vars == <<files, process, memory, log, reply, status, got, found, calls>>

None == [none |-> TRUE]

\* NULL where a text may be, and an array that has not moved.
NoText == <<-1>>
Unmoved == <<>>

Ports == {"session", "command", "http"}

Components == {"session", "command", "http", "discovery"}

Down == [p \in Ports |-> NoText]

Init ==
    /\ disk = Initial /\ saved = None
    /\ up = FALSE /\ state = "STOPPED" /\ ready = {} /\ thread = "none"
    /\ config = ya_config_init /\ freed = Unmoved
    /\ pointer = [p \in Ports \cup {"log"} |-> 0]
    /\ sock_addr = Down /\ listens = Down
    /\ log = [fp |-> NoText, files |-> [n \in LogNames |-> [i \in {} |-> <<>>]],
              written |-> [n \in LogNames |-> <<>>], torn |-> [n \in LogNames |-> 0]]
    /\ reply = None /\ status = None /\ got = NoText /\ found = NoText
    /\ calls = 0

\* What a pointer taken at the start may point at now.
Pointed(p) ==
    CASE pointer[p] = 0 -> {NoText}
      [] pointer[p] # 0 /\ freed = Unmoved -> {config.entries[pointer[p]].value}
      [] OTHER -> {freed[pointer[p]].value, Garbage}

---------------------------------------------------------------------------
(* The log: the name log_fp was opened under, the files of each log by backup  *)
(* number; and, for the properties, every line that went to a log and how many *)
(* of its rotations ended between two renames.                                 *)

\* rename of a backup to the next number; without the file nothing happens.
Renamed(lines, i) ==
    IF i \notin DOMAIN lines THEN lines
    ELSE [j \in (DOMAIN lines \ {i}) \cup {i + 1} |-> IF j = i + 1 THEN lines[i] ELSE lines[j]]

\* Faulty variant: the youngest file is renamed first.
Rotated_Youngest(lines, k) ==
    FoldLeft(Renamed, lines, [n \in 1..MaxBackups - k |-> n - 1])

\* The files after the renames down to number k: the oldest backup goes first.
Rotated(lines, k) ==
    FoldLeft(Renamed, lines, [n \in 1..MaxBackups - k |-> MaxBackups - n])

\* fopen "a".
Opened(l, name) ==
    [l EXCEPT !.fp = name,
              !.files[name] = [i \in DOMAIN @ \cup {0} |-> IF i \in DOMAIN @ THEN @[i] ELSE <<>>]]

\* There is a file under the logger's name now, and it is large enough.
Full(l, name) ==
    /\ name \in LogNames
    /\ 0 \in DOMAIN l.files[name] /\ Len(l.files[name][0]) >= MaxSize

\* The process may be killed between two renames; when the file cannot be opened
\* again the next fputs has no stream, and that ends the process as well.
check_and_rotate_log(l, name) ==
    IF ~ Full(l, name) THEN {l}
    ELSE {Opened([l EXCEPT !.files[name] = Rotated(@, 0)], name)} \cup
         {[l EXCEPT !.fp = NoText, !.files[name] = Rotated(@, k),
                    !.torn[name] = IF k \in 1..MaxBackups - 1 THEN @ + 1 ELSE @] : k \in 0..MaxBackups}

NumberOfLines(l) == FoldFunction(LAMBDA lines, n : n + Len(lines), 0, l.written)

Line(l) ==
    LET line == NumberOfLines(l) + 1
    IN  IF l.fp = NoText THEN l
        ELSE [l EXCEPT !.files[l.fp][0] = Append(@, line), !.written[l.fp] = Append(@, line)]

\* The outcomes of a line under a name: without log_fp the process is gone.
ya_logger_log(l, name) == {Line(r) : r \in check_and_rotate_log(l, name)}

\* The stream is closed; the logger is gone with it.
ya_logger_destroy(l) == [l EXCEPT !.fp = NoText]

\* The files of a log, for the properties: the last backup comes first, and a number
\* without a file has no lines.
OldestFirst(of) ==
    [i \in 1..MaxBackups + 1 |->
        IF MaxBackups + 1 - i \in DOMAIN of THEN of[MaxBackups + 1 - i] ELSE <<>>]

MayLog == NumberOfLines(log) < MaxLines

Answers(post, get) == reply' = post /\ status' = get /\ got' = NoText /\ found' = NoText

\* A start, a request or an edit.
Call == calls < MaxCalls /\ calls' = calls + 1

Dies ==
    /\ up' = FALSE /\ state' = "STOPPED" /\ ready' = {} /\ thread' = "none"
    /\ sock_addr' = Down /\ listens' = Down
    /\ config' = ya_config_init /\ freed' = Unmoved
    /\ pointer' = [p \in DOMAIN pointer |-> 0]

\* A line of any of the handlers.
Logs ==
    /\ up /\ log.fp # NoText /\ MayLog
    /\ UNCHANGED <<files, calls>> /\ Answers(None, None)
    /\ \E name \in Pointed("log") : log' \in ya_logger_log(log, name)
    /\ IF log'.fp = NoText THEN Dies ELSE UNCHANGED <<process, memory>>

---------------------------------------------------------------------------
(* Start and end. *)

Section == [session |-> Session, command |-> Command, http |-> Http]

ValueAt(c, i) == IF i = 0 THEN NoText ELSE c.entries[i].value

\* init_logger and the first line.  Without a name there is no file, and nothing
\* to survive.
init_logger(name) == IF name = NoText THEN {log} ELSE ya_logger_log(Opened(log, name), name)

\* main up to start_server, or up to where it gives up.  A log that cannot be
\* opened is one of these: nothing has happened yet.
main ==
    /\ ~ up /\ MayLog /\ Call
    /\ UNCHANGED <<files, ready, thread, listens>> /\ Answers(None, None)
    /\ LET c == ya_config_parse(disk)
           wanted == [p \in Ports |-> ya_config_get(c, Section[p], Listener)]
           name == ValueAt(c, ya_config_get(c, Logger, File))
       IN  /\ name \in LogNames \cup {NoText}
           /\ \E l \in init_logger(name) :
                \/ /\ name # NoText => l.fp # NoText
                   /\ \A p \in Ports : ValueAt(c, wanted[p]) \in Addresses
                   /\ config' = c /\ freed' = Unmoved
                   /\ pointer' = [p \in DOMAIN pointer |->
                                    IF p = "log" THEN ya_config_get(c, Logger, File)
                                    ELSE wanted[p]]
                   /\ sock_addr' = [p \in Ports |-> ValueAt(c, wanted[p])]
                   /\ up' = TRUE /\ state' = "INIT"
                   /\ log' = l
                \/ /\ log' = [l EXCEPT !.fp = NoText]
                   /\ UNCHANGED <<up, state, memory, sock_addr>>

ya_server_all_components_ready(components) == components = Components

ya_server_set_component_ready(component) ==
    /\ ready' = ready \cup {component}
    /\ state' = IF ya_server_all_components_ready(ready') THEN "RUNNING" ELSE state

\* start_server stops at the first component that reports a failure, and main
\* returns.
GivesUp ==
    /\ Dies /\ log' = ya_logger_destroy(log)
    /\ UNCHANGED files

\* The step of start_server that follows these components.
Starts(components) ==
    /\ up /\ state = "INIT" /\ ready = components
    /\ UNCHANGED calls /\ Answers(None, None)

Binds(p) == listens' = [listens EXCEPT ![p] = sock_addr[p]]

\* Faulty variant: a failure is not reported.
run_session_server_Unreported ==
    /\ Starts({})
    /\ UNCHANGED <<files, up, thread, sock_addr, memory, log>>
    /\ ya_server_set_component_ready("session")
    /\ Binds("session") \/ UNCHANGED listens

run_session_server ==
    /\ Starts({})
    /\ \/ /\ UNCHANGED <<files, up, thread, sock_addr, memory, log>>
          /\ ya_server_set_component_ready("session") /\ Binds("session")
       \/ GivesUp

\* Failures are reported as numbers above 0, which start_server does not take for
\* failures.
run_command_server ==
    /\ Starts({"session"})
    /\ UNCHANGED <<files, up, thread, sock_addr, memory, log>>
    /\ ya_server_set_component_ready("command")
    /\ Binds("command") \/ UNCHANGED listens

\* The thread has not bound its port yet; that it could not be created is ignored.
run_discovery_server ==
    /\ Starts({"session", "command"})
    /\ UNCHANGED <<files, up, sock_addr, listens, memory, log>>
    /\ ya_server_set_component_ready("discovery")
    /\ thread' \in {"started", "gone"}

run_http_server ==
    /\ Starts(Components \ {"http"})
    /\ \/ /\ UNCHANGED <<files, up, thread, sock_addr, memory, log>>
          /\ ya_server_set_component_ready("http") /\ Binds("http")
       \/ GivesUp

start_server ==
    run_session_server \/ run_command_server \/ run_discovery_server \/ run_http_server

\* SIGINT is handled once the loop runs, and logged.  What else that pass of the
\* loop handles counts as handled before.
signal_cb ==
    /\ state = "RUNNING" /\ MayLog
    /\ UNCHANGED <<files, calls>> /\ Answers(None, None)
    /\ \E name \in Pointed("log") : log' \in ya_logger_log(log, name)
    /\ IF log.fp # NoText /\ log'.fp = NoText THEN Dies
       ELSE /\ state' = "STOPPING"
            /\ UNCHANGED <<up, ready, thread, sock_addr, listens, memory>>

\* The session's listener was never stored in the context and stays bound, and the
\* discovery thread goes on.
stop ==
    /\ state = "STOPPING"
    /\ state' = "STOPPED" /\ listens' = [Down EXCEPT !["session"] = listens["session"]]
    /\ UNCHANGED <<files, up, ready, thread, sock_addr, memory, log, calls>>
    /\ Answers(None, None)

\* The end of main: the logger and the configuration are freed.
Exits ==
    /\ up /\ state = "STOPPED"
    /\ Dies /\ log' = ya_logger_destroy(log)
    /\ UNCHANGED <<files, calls>> /\ Answers(None, None)

\* Whatever else ends the process is not.
Killed ==
    /\ up /\ Dies
    /\ log' = [log EXCEPT !.fp = NoText]
    /\ UNCHANGED <<files, calls>> /\ Answers(None, None)

---------------------------------------------------------------------------
(* The discovery thread. *)

\* A port that cannot be bound ends the thread, and nobody is told.
create_broadcast_server ==
    /\ thread = "started" /\ thread' \in {"listening", "gone"}
    /\ UNCHANGED <<files, up, state, ready, sock_addr, listens, memory, log, calls>>
    /\ Answers(None, None)

\* Faulty variant: the port is looked up in the text the start left a pointer to.
Told_Text == Pointed("session")

\* The session's port in an answer.
Told == {sock_addr["session"]}

\* One turn, of a request that is one (see Framing).
run_loop ==
    /\ thread = "listening"
    /\ reply' = None /\ status' = None /\ got' = NoText /\ found' \in Told
    /\ UNCHANGED <<files, process, memory, log, calls>>

---------------------------------------------------------------------------
(* The HTTP interface. *)

\* The loop handles requests between the start and the signal.
Serves == state = "RUNNING" /\ Call

\* The handler of a request, by its path and method.
Handler ==
    [path \in {"/command", "/status", "/config"} |->
        CASE path = "/command" -> [POST |-> "handle_command"]
          [] path = "/status"  -> [GET |-> "handle_status"]
          [] path = "/config"  -> [GET |-> "handle_get_config", POST |-> "handle_post_config"]]

Handled(path, method, by) == method \in DOMAIN Handler[path] /\ Handler[path][method] = by

\* Faulty variant: the key's text under "value" and the value's under "key".
EntryAnswer_Swapped(w, e) ==
    LET cstr(v, s) == mpack_write_cstr(v, s)
    IN  cstr(cstr(cstr(cstr(cstr(cstr(mpack_start_map(w, 3), SectionKey), e.section),
                            KeyKey), e.value), ValueKey), e.key)

EntryAnswer(w, e) ==
    LET cstr(v, s) == mpack_write_cstr(v, s)
    IN  cstr(cstr(cstr(cstr(cstr(cstr(mpack_start_map(w, 3), SectionKey), e.section),
                            KeyKey), e.key), ValueKey), e.value)

handle_get_config ==
    /\ Serves
    /\ reply' = None /\ status' = None /\ found' = NoText
    /\ got' = mpack_writer_destroy(
                  FoldLeft(EntryAnswer,
                           mpack_start_array(mpack_writer_init_growable, Len(config.entries)),
                           config.entries))
    /\ UNCHANGED <<files, process, memory, log>>

\* One entry of a request: the map's size and the keys' texts are not looked at.
\* What cannot be read is empty.
PostedEntry(r) ==
    LET Then(before, size) ==
            IF before.r.error # "ok" THEN Result(before.r, <<>>)
            ELSE mpack_expect_utf8_cstr(before.r, size)
        Name(before) == Then(before, NameLength)
        section == Name(Name(mpack_expect_map(r)))
        key == Name(Name(section))
        value == Then(Name(key), ValueLength)
    IN  [r |-> value.r, section |-> section.v, key |-> key.v, value |-> value.v]

\* Every entry goes into the configuration as it is read, before the rest is known
\* to be readable; left is what the array held when it first had to grow.
SetPosted(done, i) ==
    LET Set(r, c) == [r |-> r, config |-> c,
                      left |-> IF c.capacity = done.config.capacity \/ done.left # Unmoved
                               THEN done.left ELSE done.config.entries]
        Of(e) == Set(e.r, ya_config_set(done.config, e.section, e.key, e.value))
    IN  Of(PostedEntry(done.r))

\* The configuration after a request, and whether it could be read.  Bound: a
\* request announces no more entries than MaxEntries.
MaxEntries == 8

Posted(c, body) ==
    LET End(end) == [ok |-> mpack_reader_destroy(end.r) = "ok",
                     config |-> end.config, left |-> end.left]
        Of(array, count) ==
            IF array.v.type # "array" THEN [ok |-> FALSE, config |-> c, left |-> Unmoved]
            ELSE End(FoldLeft(SetPosted, [r |-> array.r, config |-> c, left |-> Unmoved],
                              [i \in 1..Min({count, MaxEntries}) |-> i]))
        tag == mpack_read_tag(mpack_reader_init_data(body))
    IN  Of(tag, Length(tag.v.v))

\* realloc may find room where the array is, or move it.
realloc(left) == IF freed = Unmoved THEN {Unmoved, left} ELSE {freed}

\* A request's handling ends with its answer.  Saving truncates the file first; the
\* process may be killed when any number of blocks have been written.
handle_post_config(post) ==
    /\ Serves
    /\ \E p \in {Posted(config, post.body)} : \E text \in {ya_config_save(p.config)} :
       LET answer(ok) == [ok |-> ok, request |-> post, before |-> config.entries]
           kept == /\ config' = p.config /\ freed' \in realloc(p.left)
                   /\ UNCHANGED <<process, pointer, log>>
       IN  \/ /\ ~ p.ok
              /\ kept /\ UNCHANGED files
              /\ Answers(answer(FALSE), None)
           \/ /\ p.ok
              /\ kept /\ UNCHANGED files
              /\ Answers(answer(FALSE), None)
           \/ /\ p.ok
              /\ kept
              /\ disk' = text /\ saved' = [entries |-> p.config.entries, whole |-> TRUE]
              /\ Answers(answer(TRUE), None)
           \/ /\ p.ok
              /\ \E n \in 0..Len(text) \div BlockSize : disk' = SubSeq(text, 1, n * BlockSize)
              /\ saved' = [entries |-> p.config.entries, whole |-> FALSE]
              /\ Dies /\ log' = [log EXCEPT !.fp = NoText]
              /\ Answers(None, None)

\* What is written for a port: no text where none was taken at the start.
Shown(p) == IF pointer[p] = 0 THEN {<<>>} ELSE Pointed(p)

\* What the texts taken at the start say by now, whatever that is.
Reported ==
    {[session |-> s, command |-> c, http |-> h] :
        s \in Shown("session"), c \in Shown("command"), h \in Shown("http")}

\* The listeners, read where the pointers point; and the log's name, looked up.
handle_status ==
    /\ Serves
    /\ \E at \in Reported :
          Answers(None, [state |-> state, listeners |-> at,
                         log_path |-> ValueAt(config, ya_config_get(config, Logger, File))])
    /\ UNCHANGED <<files, process, memory, log>>

\* A command is answered with success; it is not executed.
handle_command ==
    /\ Serves /\ Answers(None, None)
    /\ UNCHANGED <<files, process, memory, log>>

process_request(path, method) ==
    \/ Handled(path, method, "handle_post_config") /\ \E post \in Posts : handle_post_config(post)
    \/ Handled(path, method, "handle_get_config") /\ handle_get_config
    \/ Handled(path, method, "handle_status") /\ handle_status
    \/ Handled(path, method, "handle_command") /\ handle_command

---------------------------------------------------------------------------
(* The desktop application. *)

\* The user saves server.conf in the editor.  A server the application started is
\* killed, and the next start reads the file; one that was started by hand goes on.
_saveConfig(text) ==
    /\ Call
    /\ disk' = text /\ saved' = None
    /\ \/ Dies /\ log' = [log EXCEPT !.fp = NoText]
       \/ UNCHANGED <<process, memory, log>>
    /\ Answers(None, None)

Next ==
    \/ main \/ start_server \/ signal_cb \/ stop \/ Exits \/ Killed \/ Logs
    \/ create_broadcast_server \/ run_loop
    \/ \E path \in DOMAIN Handler, method \in {"GET", "POST"} : process_request(path, method)
    \/ \E text \in Edits : _saveConfig(text)

Spec == Init /\ [][Next]_vars

---------------------------------------------------------------------------
(* Properties. *)

\* The array of entries never outgrows its allocation, and every string in it its
\* buffer; a process that does not run holds nothing (whole state of ya_config.c
\* and of the server's globals).
TypeOK ==
    /\ disk \in Data
    /\ Len(config.entries) <= config.capacity
    /\ \A i \in DOMAIN config.entries :
          LET e == config.entries[i]
          IN  /\ Len(e.section) < NameLength /\ Len(e.key) < NameLength
              /\ Len(e.value) < ValueLength
    /\ \A p \in DOMAIN pointer : pointer[p] \in 0..Len(config.entries)
    /\ log.fp \in LogNames \cup {NoText}
    /\ state = "INIT" => up
    /\ state \in {"RUNNING", "STOPPING"} => up /\ ready = Components
    /\ ~ up => log.fp = NoText /\ listens = Down /\ thread = "none"

SameEntry(e, f) == e.section = f.section /\ e.key = f.key

\* What ya_config_save wrote is what the next ya_config_parse reads, as long as no
\* entry holds a syntax character or outgrows a line.  A server killed while it was
\* saving leaves a prefix of the entries, of which only the last value may be cut
\* short: the next start never reads a value under another section or key.
FileAsSaved ==
    saved # None /\ AllSurvive(saved.entries) =>
        LET read == ya_config_parse(disk).entries  n == Len(read)
        IN  /\ saved.whole => read = saved.entries
            /\ n <= Len(saved.entries)
            /\ \A i \in 1..n - 1 : read[i] = saved.entries[i]
            /\ n > 0 => /\ SameEntry(read[n], saved.entries[n])
                        /\ IsPrefix(read[n].value, saved.entries[n].value)

\* handle_post_config says success only of a request that was well-formed to its end.
\* Then every entry of it counts, the last one where two set the same key, among
\* duplicates of a key too, and nothing else has changed.
PostedTakesEffect ==
    reply # None /\ reply.ok =>
        LET means == reply.request.means
            Named(e) == {i \in DOMAIN means : SameEntry(means[i], e)}
        IN  /\ reply.request.well
            /\ \A i \in DOMAIN means :
                  ValueAt(config, ya_config_get(config, means[i].section, means[i].key)) =
                      means[Max(Named(means[i]))].value
            /\ \A j \in DOMAIN reply.before :
                  Named(reply.before[j]) = {} => config.entries[j] = reply.before[j]

\* Two requests that are written by different code understand each other: the answer
\* to a GET of /config, posted back, is accepted and changes nothing.
GetPostAgree ==
    LET texts == UNION {{e.section, e.key, e.value} : e \in ToSet(config.entries)}
    IN  got # NoText /\ UniqueKeys(config.entries)
            /\ (\A s \in texts : mpack_utf8_check_no_null(s)) =>
        Posted(config, got) = [ok |-> TRUE, config |-> config, left |-> Unmoved]

\* The two parsers of server.conf read the same settings in a file the server saved
\* whole, provided that the entries of a section stand together.
SameReading ==
    saved # None /\ saved.whole =>
        LET entries == saved.entries
        IN  AllSurvive(entries) /\ UniqueKeys(entries) /\ Contiguous(entries)
                /\ (\A e \in ToSet(entries) : e.section # <<>>) =>
            _parseConfigContent(disk) =
                {Setting(e.section, e.key, e.value) : e \in ToSet(entries)}

\* Whatever the logger was killed in the middle of and however its name changed, the
\* files of a log hold its newest lines in order and without a gap, and as many as
\* the backups are for, less one backup for each rotation that was cut short: it leaves
\* a number unused, and the next one still pushes out the oldest file (ya_logger.c:56).
LogKeepsNewest ==
    \A n \in LogNames :
        LET kept == FlattenSeq(OldestFirst(log.files[n]))
        IN  /\ IsSuffix(kept, log.written[n])
            /\ Len(kept) >= Min({Len(log.written[n]), Max({1, MaxBackups - log.torn[n]}) * MaxSize})

\* Of a server that says RUNNING, a phone can reach the session and the desktop
\* application the HTTP port, at the addresses of the server.conf it was started with:
\* a component that is not up never counts as ready, except the two whose failure the
\* program ignores.
RunningIsReachable ==
    state = "RUNNING" =>
        \A p \in {"session", "http"} : listens[p] = sock_addr[p] /\ listens[p] # NoText

\* Whatever a POST makes of the texts the addresses were read from.  From the start of
\* the thread to the end of the process, an answered search names the port the session
\* is bound to.  And as long as no entry was added that made the array move, /status
\* tells the addresses of the live configuration, one changed in place included: the
\* pointers taken at the start lead to the entries a lookup finds.  (Whether a port is
\* bound to its address is not said: a command port that cannot be counts as ready, and
\* a changed address is bound at the next start.)  (ya_server_discover.c:73-170,
\* ya_server_http.c:213-260)
AddressesTold ==
    /\ found # NoText => found = listens["session"]
    /\ status # None /\ freed = Unmoved =>
          \A p \in Ports :
              status.listeners[p] = ValueAt(config, ya_config_get(config, Section[p], Listener))
=============================================================================
