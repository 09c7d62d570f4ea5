---------------------------- MODULE PowerScripts ----------------------------
(***************************************************************************)
(* What a CONTROL request makes the machine run: the scripts of            *)
(* ya_power_scripts.c and the handlers of ya_server_handler.c that fall    *)
(* back to the system's own command.                                       *)
(*                                                                         *)
(* A machine is a record: its platform and build, the path of the server's *)
(* executable (<<>> where the system does not tell it), the directory the  *)
(* server was started in, the user's home (<<>> where unknown), what an    *)
(* uninitialised path may hold, the files there are and the programs that  *)
(* exit with 0.  Paths are sequences of names from the root, without the   *)
(* scripts' extensions.  The event loop waits for every program.           *)
(***************************************************************************)
EXTENDS Naturals, Sequences, SequencesExt

CONSTANT Machines

CONTROL_OP_SHUTDOWN == 1
CONTROL_OP_RESTART == 2
CONTROL_OP_SLEEP == 3

\* What has been run, and whether the last program exited with 0.
Nobody == [ran |-> <<>>, ok |-> FALSE]

system(before, program, m) ==
    [ran |-> Append(before.ran, program), ok |-> program \in m.works]

\* Faulty variant: what a program exited with is not looked at before the next.
Tried_On(programs, m) == [ran |-> programs, ok |-> Last(programs) \in m.works]

\* One program after another until one exits with 0.
Tried(programs, m) ==
    LET Works(i) == programs[i] \in m.works
        n == CHOOSE k \in 1..Len(programs) :
                (Works(k) \/ k = Len(programs)) /\ \A i \in 1..k - 1 : ~ Works(i)
    IN  [ran |-> SubSeq(programs, 1, n), ok |-> Works(n)]

Up(dir, n) == SubSeq(dir, 1, IF n < Len(dir) THEN Len(dir) - n ELSE 0)

ya_get_exe_dir(m) == IF m.executable = <<>> THEN m.cwd ELSE Up(m.executable, 1)

\* Where a debug build finds the scripts of the source tree.
DebugScript(m, name) == Up(ya_get_exe_dir(m), 4) \o <<"scripts", name>>

\* Windows' cmd is asked to run the script whether it is there or not.
Debug(m, name) ==
    IF m.debug /\ (m.platform = "windows" \/ DebugScript(m, name) \in m.files)
    THEN <<DebugScript(m, name)>> ELSE <<>>

UserScript(m, name) == m.home \o <<"Library", "MouseHero", "scripts", name>>

\* On macOS: the user's script if it is there, else the bundle's.  Where there is no
\* home, the path holds what it held before.
OnMac(m, name) ==
    LET left == IF m.home # <<>> THEN UserScript(m, name)
                ELSE IF m.debug THEN DebugScript(m, name) ELSE m.garbage
    IN  IF left \in m.files THEN left
        ELSE Up(ya_get_exe_dir(m), 1) \o <<"Resources", "scripts", name>>

ya_run_power_script(m, name) ==
    LET packaged == ya_get_exe_dir(m) \o <<"scripts", name>>
        older    == ya_get_exe_dir(m) \o <<"scripts", m.platform, name>>
    IN  Tried(Debug(m, name) \o
              (CASE m.platform = "windows" -> <<packaged, older>>
                 [] m.platform = "macos"   -> <<OnMac(m, name)>>
                 [] m.platform = "linux"   -> <<IF packaged \in m.files THEN packaged ELSE older>>),
              m)

\* A command of the system's, when no script did it.
OrCommand(before, m, command) ==
    IF before.ok THEN before ELSE system(before, command, m)

handle_poweroff(m) ==
    OrCommand(ya_run_power_script(m, "poweroff"), m,
              IF m.platform = "windows" THEN <<"shutdown /s /t 0">> ELSE <<"shutdown -h now">>)

handle_restart(m) ==
    OrCommand(ya_run_power_script(m, "restart"), m,
              CASE m.platform = "windows" -> <<"shutdown /r /t 0">>
                [] m.platform = "macos"   -> <<"shutdown -r now">>
                [] m.platform = "linux"   -> <<"reboot">>)

handle_sleep(m) ==
    OrCommand(ya_run_power_script(m, "sleep"), m,
              CASE m.platform = "windows" -> <<"rundll32.exe powrprof.dll,SetSuspendState 0,1,0">>
                [] m.platform = "macos"   -> <<"pmset sleepnow">>
                [] m.platform = "linux"   -> <<"systemctl suspend">>)

\* Whatever came of it, the answer is the same (see Framing).
handle_control(m, op) ==
    CASE op = CONTROL_OP_SHUTDOWN -> handle_poweroff(m)
      [] op = CONTROL_OP_RESTART  -> handle_restart(m)
      [] op = CONTROL_OP_SLEEP    -> handle_sleep(m)
      [] OTHER                    -> Nobody

\* A debug build is not installed at the root, where its source tree would be its own
\* directory, and its source tree is not the directory of the user's scripts.
ASSUME MachinesAssumption ==
    \A m \in Machines :
        /\ m.platform \in {"windows", "macos", "linux"}
        /\ m.executable \in Seq(STRING) /\ m.cwd \in Seq(STRING) /\ m.home \in Seq(STRING)
        /\ m.debug =>
              /\ ya_get_exe_dir(m) # <<>>
              /\ \A name \in {"poweroff", "restart", "sleep"} :
                    DebugScript(m, name) # UserScript(m, name)

---------------------------------------------------------------------------
(* What should run. *)

Script(op) == <<"poweroff", "restart", "sleep">>[op]

\* The places a request's scripts may be in.
Trusted(m, path) ==
    LET at(dir) == IsPrefix(dir, path)
    IN  at(Up(ya_get_exe_dir(m), 4)) \/ (m.home # <<>> /\ at(m.home))

\* No program runs after one that did what was asked, none runs twice, and the
\* system's own command is the last resort; what runs else is the operation's script,
\* of the server's or of the user's.
ReachesOnce(m, op, done) ==
    LET ran == done.ran
    IN  /\ op \notin 1..3 <=> ran = <<>>
        /\ \A i, j \in 1..Len(ran) : i < j => ran[i] \notin m.works /\ ran[i] # ran[j]
        /\ \A i \in 1..Len(ran) :
              IF Len(ran[i]) = 1 THEN i = Len(ran)
              ELSE Trusted(m, ran[i]) /\ Last(ran[i]) = Script(op)
        /\ op \in 1..3 => done.ok \/ Len(Last(ran)) = 1
=============================================================================
