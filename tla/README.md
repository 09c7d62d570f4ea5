# MouseHero, specified in TLA+

MouseHero turns a phone into a mouse and keyboard for a computer. The repository
holds the server that runs on the computer (`server/`, C with libevent and a Rust
input library) and the desktop application that starts and supervises it
(`server_gui/`, Flutter). The phone application is proprietary and not in the
repository. Paths below are relative to `src/`.

This directory models what in these programs depends on order, on bytes and on
failure: which record a lookup may return, which command is executed and how often,
where a package ends in a stream, which keys stay down when a write fails, what a
crash leaves of the configuration and the log, and what the supervisor does when
stops, crashes, timers and starts overlap. The modules are checked with TLC on small
instances; most safety properties of the client manager, the command server, the
mouse pipeline, the keys, the error stack and the supervisor, those of the server's life
that relate sockets, buffers and pointers, and what becomes of the bytes and datagrams of a
phone up to the scripts of a power request are also proved with TLAPS for every value of
the constants.

## The system

| Component | Source | State it keeps | Operations | What is hard | What makes it correct | Here |
|---|---|---|---|---|---|---|
| Client manager | `server/src/ya_client_manager.c` | hash table of client records, `client_count`, `next_uid` | create, find by uid / fd, ref, unref, remove, cleanup | references of callbacks against removal; descriptors and uids that are used again | no record is freed in use; a lookup returns the connected client | ClientTable, ClientManager |
| Session server | `server/src/ya_server_session.c` | one bufferevent per TCP connection | accept, read, event callback | bytes arrive in any pieces; close at any point | nothing lost or repeated over TCP; in step with the stream | CommandServer, Framing |
| Command server | `server/src/ya_server_command.c` | UDP socket | read callback | loss, repetition, reordering; datagrams of ended sessions | commands in order, at most once; whole or not at all | CommandServer, Framing |
| Dispatch and handlers | `server/src/ya_server_handler.c`, `ya_authorize.c` | `command_index` and protocol version of each client | AUTHORIZE, heartbeat, mouse, keyboard, text, control, discover | index shared by two transports; lookups by reused descriptor | the right uid is answered; an index is spent only by execution | CommandServer, Framing, MousePipeline, KeyInject, PowerScripts |
| Framing and serialization | `server/src/ya_event.c`, `ya_utils.c`, `mpack/` | buffer position, growing output buffer | parse, serialize, free | widths, signs, texts larger than buffers, packages cut anywhere | events are what was meant; answers decode | MPack, EventCodec, Framing, HostInfo |
| Mouse pipeline | `server/src/ya_mouse_throttle.c`, `ya_mouse_filter.c` | pending movement, velocity, sub-pixel remainders | move, stop, option; collect, flush, process, reset | one throttle for all clients; truncation | no drift, no movement lost or left behind | MousePipeline |
| Key injection | `server/src/input/`, `keycode_map.c` | keys held down, clipboard, layout cache | press, release, click, type, paste, capture | one of several writes fails; the user acts in between | no key stays down unexplained; a character types itself | KeyInject, KeyTables |
| Life cycle | `server/src/run.c`, `ya_server.c` | component readiness, sockets, event base | start, run, stop | partly failing start; a thread that outlives the loop | RUNNING means reachable | MainSetup, ServerLife |
| Discovery | `server/src/ya_server_discover.c` | socket and run flag of a thread | answer a search | unsynchronised thread | answers the session's port | Framing, ServerLife |
| HTTP and configuration | `server/src/ya_server_http.c`, `ya_config.c` | live configuration, its file, pointers into it | status, get, post, save, parse | partial update, lossy round trip, kill during a save | what was saved is read; accepted posts count | ConfigFile, ServerLife |
| Logger, crash dumps | `server/src/ya_logger.c`, `ya_crash_dump.c` | log and backups, dump directory, handlers | log, rotate, open, dump | rotation under kills; paths of two platforms | newest lines kept; log opens; a fault leaves its dump | ServerLife, MainSetup, CrashDump |
| Error stack | `server/src/ya_error.c` | one context per thread | set, get, clear, init, cleanup | overflow | the newest errors, in order | ErrorStack |
| Power scripts | `server/src/ya_power_scripts.c` | - | shutdown, restart, sleep | several places for a script, several platforms | asked once | PowerScripts |
| Supervisor | `server_gui/lib/services/server_process_service.dart` | process handle, flags, restart timer | start, stop, restart, exit callback, timer | everything overlaps at awaits | supervision is not lost; every stop returns | ServerProcess |
| Desktop services and pages | `server_gui/lib/` | settings, single-instance lock, tray, pages | parse and edit server.conf, buttons | two parsers of one file | both read the same | ConfigFile, ServerLife (in part) |

How they interact: all callbacks of the server run on the one libevent loop, in one
thread; only discovery has a thread of its own. `accept_cb` creates a client in the
client manager; a phone then sends AUTHORIZE over TCP and is answered its uid; from
then on it may send each command over TCP or as a datagram that carries the uid.
Both transports call `process_server_event`, which compares the request's index with
the client's `command_index` and calls the handler. Movement goes through the throttle
and the client's filter, keys and text through chords and the clipboard to the input
device. The desktop application runs the server as a child process, reads its state and
edits its configuration over HTTP, and reads server.conf itself.

`PROJECT.json` lists every component, the hazards of the code with the line where
each bites, and the source lines each definition stands for.

## The modules

**ClientTable** - the data of the client manager and its operations as operators on
the manager record `[clients, client_count, next_uid]`. A record is named by the
connection it was created for (`Client`, natural numbers in the order of acceptance), which
also gives the order within a bucket: `ya_client_create` pushes at the head, so the
newest is found first. `FirstInTable` is the search bucket by bucket;
`ya_client_find_by_uid` looks into one bucket, `ya_client_find_by_fd` into all.
`Fd`, `MaxUid` (2^32 - 1 in the code) and `HashSize` (1024 in the code) are constants.

**ClientManager** - the rules of use, as a state machine: connections are accepted,
callbacks and other callers take and drop references, connections close,
`ya_client_remove` and `ya_client_manager_cleanup` run at any point. History variables
`attached` and `holds` say who still has the record; the invariants compare the
reference counts with them. It is what a user of the client manager must keep to.

**CommandLog** - the abstract specification of the command channel: a session opens
and closes; while it is open commands are executed, each with an index greater than
the one before it.

**CommandServer** - session server, command server and dispatch around one client
table. One action per callback: `accept_cb`, `conn_readcb`, `conn_eventcb`,
`udp_readcb`; `process_server_event`, `handle_authorize` and the counters are the
operators they call. `wire[k]` is what phone k has sent over TCP and the server has not
read, `inbuf[k]` what libevent has buffered; `conn_readcb(k, n)` moves n packages from
one to the other and then handles at most one, as the code does. `udp` is the set of all
datagrams ever sent: each may be handled never, late and repeatedly. The phone (external)
numbers its commands 1, 2, ... and carries the uid it was answered; it does nothing else
the server relies on. `done[k]` and `late[k]` record which commands were executed, with
and without a client. From four bytes on, a package that is not complete stays in the buffer and needs no
representation (the length test leaves it untouched). Packages parse, and a piece never ends one to three bytes into one; their
bytes, and the cuts and packages that end the process, are Framing's. AUTHORIZE comes over TCP.

CommandServer refines CommandLog (`CommandsInOrder`) and, with `issued`, `attached` and
`holds` computed from its own state, ClientManager (`UsesManagerCorrectly`).

**ServerProcess** - the supervisor. Dart runs one event at a time, so an action is what
runs between two awaits: `startServer` to its first await, `Process.start` done
(`ProcessStarted`) or failed, the pid and the settings written (`StartCompletes`) or
not (`StartSpoiled`), the exit delivered (`ExitDelivered`: the exit callback and the
waiting stops up to their next await) and handled, the restart timer, and a stop with its
five-second timeout. `shown` is the last value published to the pages and the tray: it
decides which button the user sees. Left out: pid file, settings, delays, log buffer.

**MousePipeline** - from MOUSE_MOVE to the movement asked of the operating system. One
action per branch of a handler: `MoveSmoothed` and `StopSmoothed` for protocol 3, `MoveRaw`
and `StopRaw` for older ones. `accum` and `sinceEmit` are the throttle all clients share
(`accum_dx`, `last_emit`), `client[p]` is the filter of phone p, `moved` the argument of the
last `input_mouse_move`. Time is counted in intervals of 4 ms since the last emission, and
`ya_mouse_throttle_collect` has an outcome that keeps the movement (`Collected`) and one that lets it
through (`LetThrough`). x and y are treated alike in the code; one of them is modelled (in two
dimensions the velocity and the throttle's distance would combine both). A float
is a whole number of units, `kRecvScale` to a pixel, and products are cut off to units: rounding errors of floats
are left out. A connection and its AUTHORIZE are one step, because a phone has no uid to
move with before. The history variables `owed`, `unpassed`, `pending` and `moving` appear in
no guard.

**KeyInject** - from a request to the operating system's keyboard. One request is handled
at a time and sleeps between two calls: `job` is the request with the stage it is in, and an
action is one call of the device, the clipboard or the library (`PressModifier`, `MainKey`,
`ReleaseModifier`, `Shortcut`, `Paste`, `Restore`, `SelectAll`, ...), which may fail after any of
its writes (`Written`: what was written stays). `held` is what is down. Between two calls the user copies or switches the
layout, an application serves a copy shortcut late. Both builds are modelled, with uinput and
with the native library. `asked`, `hit`, `own`, `intruded`, `spoiled` and `typed` are history.

**KeyTables** - the tables a key goes through: protocol code to CKey, CKey to Linux code, the
list announced to the kernel; and a code point's way through UTF-8. Pure, over every code.

**MPack, EventCodec, Framing, HostInfo** - the wire. MPack is the vendored library as far as the
server uses it: encodings by value, the writer that doubles its buffer, the reader with its sticky
error; words are sequences of bytes, with the widths and signs of the C types. EventCodec is
`ya_event.c` on top of it, serializer and parser per type. Framing has the read callbacks:
`PhoneWrites`, `conn_readcb` (a piece of any size arrives, at most one package is handled),
`udp_readcb`, and `run_loop` of discovery. `died` is the NULL that ends the process, after which nothing is enabled:
the size words of one to three bytes or of an empty datagram (`SizesThere`), a parameter or a connection a
handler does not look for (`Fault`), a response's parameter (`NullRead`); what a datagram's sender has to avoid is
`Harmless`. `run_loop` takes any parameter for a search (`MagicOf`). A phone may write what it means in any of the encodings of the
format (`Writes`: an integer in any width that holds it, a text behind any of its length tags), and on the UDP ports
also what is too short to be a package (`Strays`). Errors of `recvfrom` and `sendto` are left out. HostInfo is what an AUTHORIZE answer tells: the addresses of the
adapters and the scale. `sent`, `parsed` and `answered` are history; the properties compare the
bytes with them.

**PowerScripts** - what a CONTROL request makes the machine run, on each platform, installed or
in a debug build, whichever scripts exist and work. Framing extends it: `PowerOnce` is about the CONTROL
datagrams it hears, `AdaptersTold` about the AUTHORIZE answers it gives.

**ConfigFile** - parse, get, set and save of `server.conf` on bytes, with the widths of all
buffers, and the Dart parser of the same file. `Survives` says which entries a file can hold.

**ServerLife** - processes that start, serve and end around that file. `main`, `start_server` (the components in order,
each of which may fail), `create_broadcast_server` and `run_loop` of the discovery thread, `process_request` with
its handlers, `ya_logger_log` with the rotation, `signal_cb`, `stop`, `Exits`, and `Killed` at any
point; a POST may be killed after any block of the save, a rotation between any two renames. The
listeners' addresses are pointers into the array of entries, modelled by index; when
`realloc` moves the array they read `freed`. `saved`, `reply`, `status`, `got`, `found` and the lines
written are history.

**MainSetup, CrashDump** - what `main` does before: which configuration it takes, which directories it makes for the log, which lines the levels
let through; and the dump a signal leaves in a debug build. Pure, over hosts with two kinds of separators.

**ErrorStack** - the error context of every thread, with C's fixed arrays. `reported` is history.

**ClientManager_proofs, CommandServer_proofs, ServerProcess_proofs, MousePipeline_proofs,
KeyInject_proofs, Framing_proofs, ServerLife_proofs, ErrorStack_proofs** -
the theorems. **MCClientManager, MCCommandServer, MCMousePipeline, MCKeyInject, MCFraming,
MCServerLife, MCErrorStack** give TLC symmetry sets and values, ServerProcess needs none; the
`.cfg` files give the constants. MCKeyInject also takes in KeyTables, and MCServerLife CrashDump: what is said
there of every code and every host at once is checked where it matters, `CodesArrive` while the device is
open, `SetupSound` before every start of the server, `SegfaultDumped` while it runs.

Definitions named `X_Something` and commented "Faulty variant" are not part of any
specification: each is X with one plausible mistake, kept to show that the properties
notice it.

## The runs

| Run | Question | Bounds, and why they are enough |
|---|---|---|
| `client_manager` | Is any record freed in use, and are lookups by descriptor and by uid unambiguous, up to and past a wrap of the uid counter? | 4 connections on 2 descriptors (each descriptor is used again), 3 uids (the fourth connection comes after the wrap), 2 buckets (collisions and a search over both), 2 callers per record |
| `command_server` | Two phones, both transports: own uid, order, at most once, use of the manager | 2 sessions at once or one after the other on a descriptor, 2 commands each: a command can be overtaken, repeated, late. Three datagrams add no new relation: the check compares with the last one only |
| `one_session` | Is an index spent only by execution, is TCP lossless, and is every buffered package handled in the end, although a callback handles one? | 1 phone, 4 commands, 3 packages under way, a handler that acts on its own and one that needs its client, a version that is refused |
| `late_commands` | Is a repeated datagram discarded after its session ended? No: finding 1 | 1 phone, 2 commands |
| `server_process` | Does the supervisor keep stale handles or lose the supervision; does a supervised server come back and every stop return? | 2 processes, 2 stop or restart calls, 2 user starts at once: every pair of operations overlaps, with another process alive |
| `manual_stop` | Does a manual stop end the supervision? No: finding 2 | 1 start, 1 call |
| `mouse_pipeline` | Does the pointer drift, or start a gesture with residue; does the shared throttle lose movement or keep any of a phone that stopped? | 2 old phones and a new one that stop, disconnect and come back; 2 units to a pixel (the theorems hold for any number); a backward fraction and a movement fast enough for the acceleration and the longer interval; the smallest pointer scale; 1 pending pixel |
| `key_inject` | Does a key stay down, a character type another, the clipboard get lost, a chord go down incomplete, when any one write fails? Does every key and character of the protocol arrive? | 3 requests of every kind in a row, 1 failing call, two layouts of one key with Shift and AltGr levels, a cache of 4 entries, two configurations; all codes up to U+FFFF and some of four bytes |
| `framing` | Do the callbacks stay in step with the bytes; is every event and answer what was meant; are answers freed, with every type's parameter its own; is a power request run once? | 3 packages of every shape, in pieces of one byte, of four or of everything: a session can be read without ever ending a call on one to three bytes, and with; datagrams of 0 to 7 bytes, without the body, of another port's type, or an AUTHORIZE that is let in; integers on both sides of every change of encoding, texts around the lengths where the encoding or the buffer changes (`BufferSize` 32 for 4096, `DatagramSize` 64 for 2048, `FirstCapacity` 20 for 128: all are outgrown); a header that cannot be read |
| `control_response` | Can every answer be serialized? No: finding 3 | 2 packages |
| `server_life` | Is what was saved read; do posts count, agree with gets and with the desktop's parser; does a log keep its newest lines; is RUNNING reachable; do searches and /status tell the truth; is the right configuration found, the log opened, a dump left? | 3 starts, requests or edits (`MaxCalls`), 5 lines (`MaxLines`) with 1 per file and 3 backups: the oldest is dropped, and a rotation can be cut short between any two of its three renames; blocks of 13 bytes, so that a kill falls into every entry; names of 3 and values of 11 bytes, so that posts reach all limits; `PathSize` 10, `DirSize` 6, `ExeSize` 9 symbols, with paths on both sides of each |
| `errors` | Does a thread read back its own newest errors, and has every code a message? | 2 threads, `YA_ERROR_STACK_SIZE` 2 for 64 with 4 errors each (`MaxReports`): both slots are pushed out twice; texts that fit, just fit and do not |

`CHECK_DEADLOCK FALSE` stands in the configurations of the client table and the server,
where behaviour is bounded by the number of connections, packages, requests and commands and
therefore ends. The supervisor's, the mouse pipeline's, the keys' and the errors' runs check for deadlock.

### Findings

1. **Late commands are executed again** (`late_commands`): a datagram whose client is no
   longer ACTIVE is dispatched with a NULL client, for which there is no index check.
   Handlers that act on the computer directly (click, wheel, keyboard, text, power)
   execute it.
2. **A stop in the wrong moment is ignored** (`manual_stop`): between the exit of the
   server and the update of the pages, `stopServer` finds no process and returns without
   ending the supervision; the server is restarted after the user has stopped it.
3. **The answer to a power request cannot be serialized** (`control_response`): it has no
   parameter, and the serializer it gets reads one, in the main loop.

Where the code differs from what one may expect and no run is spent on it, the model follows the code and
the properties are stated so that they show the limit:

- a session that has brought one to three bytes of a package, or an empty datagram, does not wait for more and is not refused:
  `evbuffer_ptr_set` fails unnoticed and a NULL chain is read (`ya_utils.c:128`). Four to seven bytes are read
  as sizes with zeros behind. `ya_event_test.c:527-545` expects -1 for partial sizes, which `ya_get_package_size` never returns.
  `InStep` and `DatagramWhole` name the case among those that end the process;
- a search without a parameter (`ya_server_discover.c:142`), a DISCOVER or TEXT_INPUT without one (`ya_server_handler.c:867`,
  `:656`), and an AUTHORIZE that is let in as a datagram, where there is no bufferevent (`:149`), end the process as well
  (`Fault`, `Harmless`); a search of another type is read as if it were one;
- the answer to CONTROL never leaves (finding 3), so `AnswersInStep` is about all other answers;
- of two processes started one after another at the wrong moment the newer one can be left without a handle: `HandleIsFresh`
  and `SupervisionNeverLost` are about the handle and do not exclude it;
- after 2^32 - 1 connections uids are given twice (`UidUniqueBeforeWrap` ends there);
- records of closed connections are never freed: they end DISCONNECTING, and only DISCONNECTED ones are freed;
- old phones share one throttle, so one's movement can go through the other's filter, although
  `ya_client_manager.h` calls smoothing isolated per client;
- `clipboard_restore` is documented and never read;
- a refused POST has changed the live configuration (`PostedTakesEffect` is about accepted ones), and a POST
  that adds an entry to a section that is not the last makes the desktop's parser lose the rest of the section (`SameReading` asks for `Contiguous`);
- a command port that could not be bound counts as ready, and `/status` lists it (`RunningIsReachable` leaves it out);
- after the array of entries moved, `/status` reads freed memory (`AddressesTold` asks for `freed = Unmoved`);
- the parameter of a TEXT_GET answer is never freed (`AnswersInStep` names it);
- five of the phone's keys are mapped but not announced to the kernel (`CodesArrive` names them);
- a rotation killed between two renames leaves a backup number unused, and the next rotation still pushes out the
  oldest file: with three backups or more one of them is lost to it (`log.torn` counts such rotations, and
  `LogKeepsNewest` allows for one backup each);
- crash dumps: only SIGSEGV leaves one at first, the number of dumps is never limited.

### Fairness

`one_session`: the loop reads bytes that have arrived and notices a closed connection
(libevent's level-triggered dispatch), and a phone that stays connected keeps sending
heartbeats, which the protocol has it do. Without the last assumption the property is
false: a package that arrived with another one would wait for ever.

`server_process`: the Dart event loop delivers exits, fires timers and ends file operations
(weak fairness), and `Process.start` does not fail for ever (strong fairness). Nothing
is assumed of the user or of the server process, which may live on or ignore SIGTERM.

The other specifications state no fairness: their properties are invariants and properties
of steps, and hold however early the behaviour stops.

## The proofs

Assumptions: the named ASSUMEs of the modules, i.e. that bounds are numbers, that null
values are no members of their sets, and for the command server `SessionsAssumption`, that fewer
connections are accepted than there are uids. Everything else is arbitrary: any number
of clients, descriptors, uids, buckets, phones, commands, processes, layouts, files, requests
and calls. Seven assumptions say more than the type of a constant: `MainKeysAssumption`, that the keys of the layout
cache are no modifiers (the scan goes through the main block of the keyboard); `ConfigFileAssumption`, that the
longest section name fits a line of the file with its brackets (64 and 256 in the code); in
`ServerLifeAssumption`, that the files and the bodies of requests are sequences of bytes and that the
marker for a missing text, which is not one, is no address; `PackagesAssumption`, that the body of a
package is one of the ways to write what the phone means (`Writes`) and that everything a session writes is
shorter than 2^30 bytes, `MaxLength` (the code's lengths turn negative at 2^31); `FramingAssumption`, that
the buffers of both UDP ports hold the two sizes (2048 and 512 bytes in the code) and that `Strays` are the datagrams shorter than those; `AnswersAssumption`, that
a text of the clipboard is shorter than half of that and the machine has fewer than 2^29 / 18 network adapters,
so that an answer keeps below it too; and `MachinesAssumption`, that a debug build is not installed at the root of the file system and its source tree is not the
directory of the user's own scripts. TLC evaluates all of them on the packages, machines, adapters and files of its runs.

**ClientManager.** `IInv` says for each record that `ref_count` is the number of its
holders plus one while the connection is attached, that an ACTIVE record is attached and has
its bufferevent, that attached records have different descriptors, and that uids before
the wrap are the record's own number. Use-after-free alone is not inductive: that `unref`
frees nothing in use needs the counts to be exact. From `IInv` follow
`NoUseAfterFree`, `ReferencesCounted`, `ClientsCounted`, `LookupsReturnConnected`,
`DescriptorsUnambiguous` and `UidsDistinct`. The lemmas about ClientTable's operators (what a lookup returns,
that a wrapped uid is in range, what each operation does to a record) stand before the invariants that use them, here and
in CommandServer_proofs.

**CommandServer.** `SInv` adds to the types: the table holds exactly the records
1..created with their own uids (no record is ever freed); a phone knows no uid but
its own; every package on a connection is one of that phone; `command_index` is the
last executed index and the largest. `ImplementsCommandLog` maps every
step to a step of CommandLog or a stutter: the case that matters is a datagram, where `SInv` gives that
the client found by uid is the sender's own session. `KeepsManagerRules` maps the
server's steps to `Accept`, `Close` and stutters of ClientManager. `OwnUidAnswered`,
`IndexSpentByExecution` and `FiguresAgree` (the two figures of the status page) are conjuncts of `SInv` or follow from it.
`TcpLossless` says that of a phone that uses TCP only, the commands executed, those in the buffer and those on the
wire are in order all it sent. It is inductive under `SInv`
with `Fresh` beside it (both are `Streams`): on a connection that was not accepted yet nothing is under way, so that an
accepted one starts with an empty stream. `SInv` gives that the index of the last command executed is the
client's `command_index`, so that the next in the stream is never taken for a repetition.

**ServerProcess.** `SupervisionNeverLost` is not inductive: a timer that fires while a
process is known ends, so the known process must exist (`HandleIsFresh`), and one that
fires while the flags contradict each other would end too (`FlagsExclusive`). Together
with the types they are `IInv`.

**MousePipeline.** `TracksFinger` becomes inductive with `FractionIsOwed` (the fraction a filter
keeps is exactly what it owes) and the lemma `Truncation` about division towards zero, which holds for any
number of units per pixel. `PendingHasMover` needs `PendingIsOld`: the stop of a phone of
protocol 3 does not flush the throttle, so nothing of such a phone may be in it. `NeverAgainstFinger`
follows from `TypeOK`, because `Acceleration` keeps the sign and a fraction is less than a pixel.

**KeyInject.** `Injected` adds to the types what each stage of a request explains: what is down was pressed by
a phone, was left by a call that failed, or is among the first `down` keys of the chord in hand
(`Explained`, `ChordDown`); whether the clipboard or the backup is the user's (`ClipboardKept`); and that a plain
character's key and chord are where the layout's table has it (`Meant`). The properties speak of
a moment, mostly between two requests, and say nothing of the stages in between, where the failing write may
come. `Meant` rests on `CacheSound`, an induction over the loop of `build_cache`: what the cache has for a
character types it, whatever the capacity, and with the plain level taken first. From
`Injected` follow `NoStrayKeys`, `TypedAsMeant`, `ClipboardSafe` and the step property `ChordComplete`.

**ServerLife.** `Living` has five parts: every text fits its buffer, the array its allocation, and the
pointers taken at the start are places in it (`Stored`); how far the start has come (`Started`); a
component that is ready is bound where it started (`Bound`); as long as the array has not moved, each pointer leads
where a lookup of the live configuration does (`LedThere`); and `AddressesTold` itself. `LedThere`
is what makes the last one inductive: it asks that no POST moves, removes or renames an
entry that is there. That is `PostedKeeps`, an induction over the entries a request announces,
on top of lemmas about the reader of the wire format: whatever the bytes, what it
returns is a text of bytes or its error. `TypeOK` rests on `ParsedConfig`, an induction over the lines of the file, whatever bytes they
have. `FoldIn` and `FoldExists` are the two rules all these loops use: what every step keeps, a fold keeps. From
`Living` follow `TypeOK`, `RunningIsReachable` and `AddressesTold`. Kills at any block of a save and between
two renames of a rotation are steps like all others.

`LogKeepsNewest` rests on `Ordered`, the part of the invariant about each log: all lines
written can be cut so that the file with backup number i holds exactly the lines between two neighbouring cuts, every
backup is full, and nothing was pushed out unless the last number is in use (`Laid`); and no more numbers below the oldest backup are unused (`Holes`) than
rotations were cut short. An induction over the renames shows that a rotation stopped after k of them shifts
the cuts and keeps all three, with one unused number more only if it stopped between two. Inductions over
the backup numbers then join the stretches into an end of what was written and count its lines
(`KeptIsEnd`, `BackupsFull`, `KeptNewest`). This is for any number of backups, and why the property speaks of
rotations cut short: with two backups, none is ever missed.

`FileAsSaved` and `SameReading` have an invariant of their own, `FileSaved`: the file is what `ya_config_save` made of some
configuration with the saved entries, or, if the save was interrupted, the beginning of that up to some byte. The
rest is about texts and depends on no state. `ya_config_save` is unrolled entry by entry (`SavedInTurn`), and what is
written so far is followed by the parser: `Says` is that the text ends with a line and what its lines left the parser
with, `Got` that this is exactly the first k entries. A gap, a header and an entry's line each take `Says` one line further
(`SaysGap`, `SaysSection`, `SaysEntry`), where it matters that a line of an entry that survives fits the buffer of `fgets`, and that trimming,
cutting at the first equals sign and stripping comments and quotes give back the key and the value (`PairText`). A file that
ends inside an entry is the last case: inside the gap, the header or the key, nothing is read but what stood before; inside the value, a
beginning of it (`PartOfEntry`). The desktop application's parser is followed the same way over the same
text with lines of any length (`DesktopSays`, `DesktopGot`). There the two conditions of `SameReading` are needed:
`Contiguous`, so that a header empties nothing (`NothingDropped`), and `UniqueKeys`, so that no
entry replaces another (`NothingReplaced`).

**Framing.** `FramingInv` is `StreamInv`, the types of the streams (`SessionOK`) with `ParsedAsMeant` and the first half of `InStep`,
and `SessionEnds`, its second half.
The heart is `ReadKeeps`: with what is not yet handled equal to the packages not yet parsed, one `conn_readcb`,
whatever piece arrives, takes nothing or exactly the first package. Below it are what the reader does
with each encoding, for any bytes behind it (a word comes back with its width and sign, a text up to
its length, the buffer of the reader notwithstanding), that a body so read is what the phone meant
(`Writes`), and that the size function announces the length of header and body as soon as four bytes are there. A header that
cannot be read is where the stream goes out of step: eight bytes are gone, and the next four begin with an array's tag, so that they announce
more than a session ever writes (`FrameFacts`), and nothing is parsed after it. `SessionEnds` is a case split over
what a handler may find (`FateReads`): the event is what the phone meant, so a NULL that is read is one
the phone did not give, or the sizes are not there. Nothing is said to go on that does not.

`HeardAsMeant` is the same for a datagram: the event is what the phone meant or there is none, never a part of a package that the
buffer cut, and a stray is never a package (`StrayUnread`). `DatagramsEnd` adds which datagrams end the process, without an
answer, and `DatagramsAnswered` that the answers of the others decode; the three together are
`DatagramWhole` (`DatagramsAreWhole`).
From `HeardAsMeant` follows `PowerOnce`: the number in the request is the one the handlers branch on, and
`ControlOnce` goes through platforms and builds: a script is tried in the user's place, the bundle's or
the source tree's, which are different files, and none after one that worked.

The way back is `AnswersInv`: `answered` holds responses of the server's own making (`Answers`), and `output` can be
cut into their packages (`AnsweredBy`). A handler's response has the parameter of its type because the event it answers
is what the phone meant, so `AnswersInv` rests on `StreamInv` (`HandlersAnswer`). That the output decodes is, from
the bottom: a growing writer holds the bytes given to it, however often its buffer doubled (`Growing`, `DoubledSize`);
each element is read back as its value whatever follows it (`Codes`), an array element by element (`Writing`); each body
is read back as the fields the phone's protocol expects, with nothing left over (`BodyIsRead`); the package announces
the sizes it has (`AnswerDecodes`); and packages in a row are found one after another (`AnsweredDecodes`), which is
`AnswersInStep` for the session and, with one package, the answers' half of `DatagramWhole`.

`AdaptersTold` needs no state beyond that the addresses in an answer are the cached ones. `CsvOf` says where each byte of
`ya_get_macs_csv`'s text is: address j at 18 (j - 1) + 1, commas at every eighteenth place. Its growing buffer always has
room for the terminator (`GrownPast`), on every platform and for any adapters. No digit is a comma, so cutting
gives the addresses back (`CutAtMacs`). What the recursions of HostInfo and Framing compute is proved without
the library's induction theorems: a recursive function is shown to exist (`LoopExists`), and what holds of each of its
values follows by counting up (`UpTo`, from a least counterexample).

**ErrorStack.** `IInv` adds to the types `Kept`: the first `stack_size` slots hold the newest reports in
order, cut to the room of their fields, and `last_error` is the code of the newest. An overflow keeps it because the
slots move down by one before the push, which is one lemma about the array (`Room`, `Pushed`). `ErrorsKept` and
`LastTold` then follow for any number of threads and any size of the stack and its texts.
`MessagesTold` depends on no state: it is read off the array of messages and its lookup, for every code a
caller may pass.

Type invariants, and the invariants `RefCountExact`, `CountMatchesTable`, `FindableIsConnected`,
`StatsAgree`, `NeverAgainstFinger` and `LastTold`, hold by these proofs and are not repeated in a run.
ServerLife's `TypeOK` is in both: its point is that no text and no
array outgrows its buffer. What the phone's packages of Framing stand for is typed by `PackagesAssumption`,
which TLC evaluates, and the answers by `AnswersInStep`. All invariants of Framing's passing run are theorems.

Only model-checked:

- of ServerLife: `PostedTakesEffect` and `GetPostAgree`. The first compares a request with what it means, and both are given
  by the constant `Posts`: a theorem would have to assume for every body, the malformed ones included, what it means. The second, that posting
  back what /config answers changes nothing, is not true of the model for every configuration, because `Posted` stops at
  `MaxEntries` (8) entries of a request, more than any run of TLC has. What is proved of both requests is that they stay within types and
  buffers and that a post moves, removes and renames no entry (`PostedKeeps`).
- `CodesArrive`, `SetupSound` and `SegfaultDumped`, which state finite tables and hosts given by the MC modules.
- the liveness properties, which are outside the prover's reach.

## Not modelled

- `rs/`: a thin wrapper around libraries that are not in the repository; KeyInject takes its calls as
  external. `ya_xdo.c` is called from nowhere.
- of mpack: nodes, builders, streams and extension types, which the server does not use.
- failing mallocs, the text of log lines and dumps, console colours.
- the list of clients in `/status`, and data races of the discovery thread on the logger.
- of the desktop application: pid file, orphan cleanup, restart delays, single-instance lock, settings, tray
  texts and page layout.

## Plan

In order of importance:

1. ClientTable, ClientManager, with proofs - done.
2. CommandLog, CommandServer, with refinements and proofs - done.
3. ServerProcess, with proofs - done for start, stop, restart and crash.
4. MousePipeline, with proofs - done.
5. KeyInject, KeyTables, with proofs of KeyInject - done.
6. MainSetup, CrashDump, ConfigFile, ServerLife - done, with proofs of what relates sockets, buffers and
   pointers, of the log under rotations that are cut short, and of reading a saved file with either parser.
7. Framing, EventCodec, MPack, HostInfo, PowerScripts - done, with proofs of everything the run checks.
8. ErrorStack, with proofs - done.
