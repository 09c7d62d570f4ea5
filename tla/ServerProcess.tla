--------------------------- MODULE ServerProcess ---------------------------
(***************************************************************************)
(* The supervisor of the server process in the desktop application         *)
(* (server_gui/lib/services/server_process_service.dart).                  *)
(*                                                                         *)
(* Dart runs one event at a time: an action is what runs between two       *)
(* awaits.  Whatever is suspended at an await, a start waiting for         *)
(* Process.start, a stop waiting for the exit, an exit callback waiting    *)
(* for the pid file, can be overtaken by the user, by the restart timer    *)
(* and by each other.  The reset of the pid file and of the settings and   *)
(* the length of the restart delay are left out: nothing below depends on  *)
(* them.                                                                   *)
(*                                                                         *)
(* A process keeps its name from Process.start until its exit callback has *)
(* run to the end; then the name is free again.                            *)
(***************************************************************************)
EXTENDS Naturals

CONSTANTS
    Procs,      \* names of server processes, and so a bound on them
    NoProcess,  \* null
    Calls,      \* stop and restart calls that may be under way
    MaxStarts   \* bound: with so many starts under way neither the user nor the
                \* restart timer starts another, only a restart that is under way

ASSUME ProcessAssumption == NoProcess \notin Procs

VARIABLES
    proc,           \* what became of each process
    serverProcess,  \* _serverProcess: the process the service knows of
    autoRestart,    \* _autoRestart
    stopping,       \* _stopping
    restartTimer,   \* _restartTimer is armed
    starting,       \* _startOnce calls suspended before Process.start is done
    recording,      \* _startOnce calls suspended after it
    call,           \* the stop and restart calls
    shown,          \* last value on stateStream: what the pages and the tray show
    lastRequest     \* history: the last thing the user asked for

vars == <<proc, serverProcess, autoRestart, stopping, restartTimer, starting,
          recording, call, shown, lastRequest>>

flags == <<autoRestart, stopping>>

\* The exit of a dead process has not been delivered to the service yet; the
\* exit callback of an exited one waits for the removal of the pid file.
ProcStates == {"none", "alive", "dead", "exited"}

Idle == [op |-> "none", stage |-> "none", waits |-> NoProcess]

Suspended ==
    [op : {"stop", "restart"}, stage : {"exit", "pidfile"}, waits : Procs]

TypeOK ==
    /\ proc \in [Procs -> ProcStates]
    /\ serverProcess \in Procs \cup {NoProcess}
    /\ autoRestart \in BOOLEAN
    /\ stopping \in BOOLEAN
    /\ restartTimer \in BOOLEAN
    /\ starting \in Nat
    /\ recording \in Nat
    /\ call \in [Calls -> Suspended \cup {Idle}]
    /\ shown \in BOOLEAN
    /\ lastRequest \in {"none", "start", "stop"}

Init ==
    /\ proc = [p \in Procs |-> "none"]
    /\ serverProcess = NoProcess
    /\ autoRestart = FALSE
    /\ stopping = FALSE
    /\ restartTimer = FALSE
    /\ starting = 0
    /\ recording = 0
    /\ call = [c \in Calls |-> Idle]
    /\ shown = FALSE
    /\ lastRequest = "none"

isRunning == serverProcess # NoProcess

---------------------------------------------------------------------------
\* Starting.

\* startServer up to the first await of _startOnce; a pending restart timer is
\* left armed.
startServer ==
    IF isRunning THEN UNCHANGED <<flags, starting>>
    ELSE /\ autoRestart' = TRUE
         /\ stopping' = FALSE
         /\ starting' = starting + 1

\* A start button (shown while no server is known to run), or the automatic
\* start of the home page.
UserStarts ==
    /\ ~ shown /\ starting < MaxStarts
    /\ startServer
    /\ lastRequest' = "start"
    /\ UNCHANGED <<proc, serverProcess, restartTimer, recording, call, shown>>

\* _scheduleRestart, which replaces a timer that is already armed.
ScheduleIfSupervised == restartTimer' = (restartTimer \/ (autoRestart /\ ~ stopping))

\* Process.start succeeds, and the exit callback is installed.
ProcessStarted(p) ==
    /\ starting > 0 /\ recording < MaxStarts
    /\ proc[p] = "none"
    /\ proc' = [proc EXCEPT ![p] = "alive"]
    /\ serverProcess' = p
    /\ starting' = starting - 1
    /\ recording' = recording + 1
    /\ UNCHANGED <<flags, restartTimer, call, shown, lastRequest>>

\* Faulty variant: a start that fails is not tried again.
StartFails_GivesUp ==
    /\ starting > 0
    /\ starting' = starting - 1
    /\ serverProcess' = NoProcess
    /\ UNCHANGED <<proc, flags, restartTimer, recording, call, shown, lastRequest>>

\* The scripts, the configuration or Process.start fail.
StartFails ==
    /\ starting > 0
    /\ starting' = starting - 1
    /\ serverProcess' = NoProcess
    /\ ScheduleIfSupervised
    /\ UNCHANGED <<proc, flags, recording, call, shown, lastRequest>>

\* The pid is recorded and the settings are written.
StartCompletes ==
    /\ recording > 0
    /\ recording' = recording - 1
    /\ shown' = TRUE
    /\ UNCHANGED <<proc, serverProcess, flags, restartTimer, starting, call, lastRequest>>

\* The settings cannot be written: the service forgets the process, although
\* it runs.
StartSpoiled ==
    /\ recording > 0
    /\ recording' = recording - 1
    /\ serverProcess' = NoProcess
    /\ ScheduleIfSupervised
    /\ UNCHANGED <<proc, flags, starting, call, shown, lastRequest>>

---------------------------------------------------------------------------
\* Exits and the restart timer.

\* A crash, or a signal that took effect.
ProcessDies(p) ==
    /\ proc[p] = "alive"
    /\ proc' = [proc EXCEPT ![p] = "dead"]
    /\ UNCHANGED <<serverProcess, flags, restartTimer, starting, recording, call, shown,
                   lastRequest>>

WaitsForExit(c, p) == call[c].stage = "exit" /\ call[c].waits = p

\* Faulty variant: the callback forgets the process only at its end.
ExitDelivered_Late(p) ==
    /\ proc[p] = "dead"
    /\ proc' = [proc EXCEPT ![p] = "exited"]
    /\ call' = [c \in Calls |-> IF WaitsForExit(c, p) THEN [call[c] EXCEPT !.stage = "pidfile"]
                                ELSE call[c]]
    /\ UNCHANGED <<serverProcess, flags, restartTimer, starting, recording, shown, lastRequest>>

\* exitCode completes: in one go the exit callback and the stop calls that
\* wait for this process forget _serverProcess, whichever process that is by
\* now, and go on to remove the pid file.
ExitDelivered(p) ==
    /\ proc[p] = "dead"
    /\ proc' = [proc EXCEPT ![p] = "exited"]
    /\ serverProcess' = NoProcess
    /\ call' = [c \in Calls |-> IF WaitsForExit(c, p) THEN [call[c] EXCEPT !.stage = "pidfile"]
                                ELSE call[c]]
    /\ UNCHANGED <<flags, restartTimer, starting, recording, shown, lastRequest>>

\* The rest of the exit callback.
ExitHandled(p) ==
    /\ proc[p] = "exited"
    /\ proc' = [proc EXCEPT ![p] = "none"]
    /\ shown' = FALSE
    /\ ScheduleIfSupervised
    /\ UNCHANGED <<serverProcess, flags, starting, recording, call, lastRequest>>

RestartTimerFires ==
    /\ restartTimer
    /\ restartTimer' = FALSE
    /\ IF autoRestart /\ ~ stopping /\ ~ isRunning
       THEN starting < MaxStarts /\ starting' = starting + 1
       ELSE UNCHANGED starting
    /\ UNCHANGED <<proc, serverProcess, flags, recording, call, shown, lastRequest>>

---------------------------------------------------------------------------
\* Stopping.

\* stopServer up to its wait for the exit: SIGTERM is sent, and the process
\* may die of it.
stopServer(c, op) ==
    IF ~ isRunning THEN UNCHANGED <<flags, restartTimer, call>>
    ELSE /\ stopping' = TRUE
         /\ autoRestart' = FALSE
         /\ restartTimer' = FALSE
         /\ call' = [call EXCEPT ![c] = [op |-> op, stage |-> "exit", waits |-> serverProcess]]

\* A stop button, shown while a server is known to run.
UserStops(c) ==
    /\ shown /\ call[c] = Idle
    /\ stopServer(c, "stop")
    /\ lastRequest' = "stop"
    /\ UNCHANGED <<proc, serverProcess, starting, recording, shown>>

\* restartServer: the restart button, or a configuration that was saved.
UserRestarts(c) ==
    /\ shown \/ isRunning
    /\ call[c] = Idle /\ starting < MaxStarts
    /\ IF isRunning THEN stopServer(c, "restart") /\ UNCHANGED starting
       ELSE startServer /\ UNCHANGED <<restartTimer, call>>
    /\ lastRequest' = "start"
    /\ UNCHANGED <<proc, serverProcess, recording, shown>>

\* Faulty variant: a process that does not exit is waited for.
StopTimesOut_Waits(c) ==
    /\ call[c].stage = "exit"
    /\ proc[call[c].waits] = "none"
    /\ UNCHANGED vars

\* Five seconds have passed: SIGKILL goes to the process the service knows of
\* by now.  If there is none the call fails, and a restart ends with its stop.
StopTimesOut(c) ==
    /\ call[c].stage = "exit"
    /\ proc' = IF isRunning /\ proc[serverProcess] = "alive"
               THEN [proc EXCEPT ![serverProcess] = "dead"] ELSE proc
    /\ serverProcess' = NoProcess
    /\ call' = [call EXCEPT ![c].stage = "pidfile",
                            ![c].op = IF isRunning THEN @ ELSE "stop"]
    /\ UNCHANGED <<flags, restartTimer, starting, recording, shown, lastRequest>>

\* The pid file is gone: the end of stopServer, and for a restart the start.
StopCompletes(c) ==
    /\ call[c].stage = "pidfile"
    /\ call' = [call EXCEPT ![c] = Idle]
    /\ shown' = FALSE
    /\ IF call[c].op = "restart" THEN startServer ELSE UNCHANGED <<flags, starting>>
    /\ UNCHANGED <<proc, serverProcess, restartTimer, recording, lastRequest>>

---------------------------------------------------------------------------
ProcessStep(p) ==
    ProcessStarted(p) \/ ProcessDies(p) \/ ExitDelivered(p) \/ ExitHandled(p)

CallStep(c) == UserStops(c) \/ UserRestarts(c) \/ StopTimesOut(c) \/ StopCompletes(c)

Next ==
    \/ UserStarts \/ StartFails \/ StartCompletes \/ StartSpoiled \/ RestartTimerFires
    \/ \E p \in Procs : ProcessStep(p)
    \/ \E c \in Calls : CallStep(c)

Spec == Init /\ [][Next]_vars

\* Events are delivered, timers fire, file operations end, and Process.start
\* does not fail for ever.  Nothing is assumed of the user or of the server
\* process, which may live on or ignore SIGTERM.
Fairness ==
    /\ WF_vars(StartCompletes \/ StartSpoiled)
    /\ WF_vars(RestartTimerFires)
    /\ \A p \in Procs : WF_vars(ExitDelivered(p)) /\ WF_vars(ExitHandled(p))
    /\ \A c \in Calls : WF_vars(StopTimesOut(c)) /\ WF_vars(StopCompletes(c))
    /\ WF_vars((\E p \in Procs : ProcessStarted(p)) \/ StartFails)
    /\ SF_vars(\E p \in Procs : ProcessStarted(p))

FairSpec == Spec /\ Fairness

---------------------------------------------------------------------------
(* Properties. *)

\* isRunning never outlives the process: the service knows of a process only
\* until its exit is delivered, whatever stops, timeouts and starts overlap.
HandleIsFresh == isRunning => proc[serverProcess] \in {"alive", "dead"}

\* Line 105, "a start that fails is tried again too": while the service
\* supervises, a server process exists or a step that leads to a start is
\* pending; no order of crashes, failed starts, stops and timers ends the
\* supervision silently.
SupervisionNeverLost ==
    autoRestart =>
        \/ \E p \in Procs : proc[p] # "none"
        \/ restartTimer
        \/ starting > 0

\* Line 34, "after a start the process is guarded and restarted when it
\* crashes": a supervised server that is down comes up again, unless
\* supervision is turned off.
ServerComesBack == autoRestart ~> ((\E p \in Procs : proc[p] = "alive") \/ ~ autoRestart)

\* Every stop and restart returns, even if the process ignores SIGTERM.
StopReturns == \A c \in Calls : call[c] # Idle ~> call[c] = Idle

\* Line 34, "a manual stop turns the flag off": once the user has asked for a
\* stop, the service no longer restarts the server by itself.  A stop that
\* arrives after the exit was delivered, but before the pages show it, returns
\* early.
ManualStopEndsSupervision == lastRequest = "stop" => ~ autoRestart
============================================================================
