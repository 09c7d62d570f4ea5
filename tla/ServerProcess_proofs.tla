----------------------- MODULE ServerProcess_proofs -----------------------
(***************************************************************************)
(* Proofs about the supervisor of the server process, for any number of    *)
(* processes, of overlapping stop and restart calls and of starts.         *)
(***************************************************************************)
EXTENDS ServerProcess, TLAPS

\* Every assignment of the two flags writes opposite values.
FlagsExclusive == ~ (autoRestart /\ stopping)

\* A handle that is fresh keeps a timer that fires while the server runs from
\* losing the supervision; exclusive flags keep one that fires otherwise.
IInv == TypeOK /\ FlagsExclusive /\ HandleIsFresh /\ SupervisionNeverLost

LEMMA InitIInv == Init => IInv
<1> SUFFICES ASSUME Init PROVE IInv
  OBVIOUS
<1>1. TypeOK
  <2>1. starting \in Nat /\ recording \in Nat
    BY SMT DEF Init
  <2> QED
    BY <2>1, Zenon DEF Init, TypeOK, ProcStates
<1>2. FlagsExclusive /\ HandleIsFresh /\ SupervisionNeverLost
  BY Zenon DEF Init, FlagsExclusive, HandleIsFresh, SupervisionNeverLost, isRunning
<1> QED
  BY <1>1, <1>2 DEF IInv

\* startServer alone: what it does to the flags and to the number of starts.
LEMMA StartServer ==
    ASSUME IInv, startServer
    PROVE  /\ autoRestart' \in BOOLEAN /\ stopping' \in BOOLEAN /\ starting' \in Nat
           /\ ~ (autoRestart' /\ stopping')
           /\ starting > 0 => starting' > 0
           /\ autoRestart' => autoRestart \/ starting' > 0
<1>1. starting \in Nat /\ autoRestart \in BOOLEAN /\ stopping \in BOOLEAN
      /\ ~ (autoRestart /\ stopping)
  BY Zenon DEF IInv, TypeOK, FlagsExclusive
<1>2. CASE isRunning
  BY <1>1, <1>2, Zenon DEF startServer, flags
<1>3. CASE ~ isRunning
  <2>1. autoRestart' = TRUE /\ stopping' = FALSE /\ starting' = starting + 1
    BY <1>3, Zenon DEF startServer
  <2>2. starting' \in Nat /\ starting' > 0
    BY <1>1, <2>1, SMT
  <2> QED
    BY <2>1, <2>2, Zenon
<1> QED
  BY <1>2, <1>3, Zenon

LEMMA StepIInv == IInv /\ [Next]_vars => IInv'
<1> SUFFICES ASSUME IInv, [Next]_vars PROVE IInv'
  OBVIOUS
<1> USE ProcessAssumption
<1> USE DEF IInv, TypeOK, FlagsExclusive, HandleIsFresh, SupervisionNeverLost, isRunning,
            ProcStates, flags
<1>1. CASE UserStarts
  <2>1. startServer
    BY <1>1 DEF UserStarts
  <2> QED
    BY <1>1, <2>1, StartServer DEF UserStarts
<1>2. CASE StartFails
  BY <1>2 DEF StartFails, ScheduleIfSupervised
<1>3. CASE StartCompletes
  BY <1>3 DEF StartCompletes
<1>4. CASE StartSpoiled
  BY <1>4 DEF StartSpoiled, ScheduleIfSupervised
<1>5. CASE RestartTimerFires
  <2>1. CASE autoRestart /\ ~ stopping /\ ~ isRunning
    <3>1. starting' \in Nat /\ starting' > 0
      BY <1>5, <2>1 DEF RestartTimerFires
    <3> QED
      BY <1>5, <3>1, Zenon DEF RestartTimerFires
  <2>2. CASE ~ (autoRestart /\ ~ stopping /\ ~ isRunning)
    <3>1. autoRestart => isRunning
      BY <2>2, Zenon
    <3>2. isRunning => serverProcess \in Procs /\ proc[serverProcess] # "none"
      BY Zenon
    <3>3. starting' = starting
      BY <1>5, <2>2, Zenon DEF RestartTimerFires
    <3> QED
      BY <1>5, <3>1, <3>2, <3>3, Zenon DEF RestartTimerFires
  <2> QED
    BY <2>1, <2>2, Zenon
<1>6. ASSUME NEW p \in Procs, ProcessStarted(p) PROVE IInv'
  BY <1>6 DEF ProcessStarted
<1>7. ASSUME NEW p \in Procs, ProcessDies(p) PROVE IInv'
  BY <1>7 DEF ProcessDies
<1>8. ASSUME NEW p \in Procs, ExitDelivered(p) PROVE IInv'
  <2>1. call' \in [Calls -> Suspended \cup {Idle}]
    BY <1>8 DEF ExitDelivered, WaitsForExit, Suspended, Idle
  <2> QED
    BY <1>8, <2>1 DEF ExitDelivered
<1>9. ASSUME NEW p \in Procs, ExitHandled(p) PROVE IInv'
  BY <1>9 DEF ExitHandled, ScheduleIfSupervised
<1>10. ASSUME NEW c \in Calls, UserStops(c) PROVE IInv'
  <2>1. CASE isRunning
    <3>1. call' \in [Calls -> Suspended \cup {Idle}]
      BY <1>10, <2>1 DEF UserStops, stopServer, Suspended
    <3> QED
      BY <1>10, <2>1, <3>1, Zenon DEF UserStops, stopServer
  <2>2. CASE ~ isRunning
    BY <1>10, <2>2, Zenon DEF UserStops, stopServer
  <2> QED
    BY <2>1, <2>2, Zenon
<1>11. ASSUME NEW c \in Calls, UserRestarts(c) PROVE IInv'
  <2>1. CASE isRunning
    <3>1. call' \in [Calls -> Suspended \cup {Idle}]
      BY <1>11, <2>1 DEF UserRestarts, stopServer, Suspended
    <3> QED
      BY <1>11, <2>1, <3>1, Zenon DEF UserRestarts, stopServer
  <2>2. CASE ~ isRunning
    <3>1. startServer
      BY <1>11, <2>2 DEF UserRestarts
    <3> QED
      BY <1>11, <2>2, <3>1, StartServer DEF UserRestarts
  <2> QED
    BY <2>1, <2>2
<1>12. ASSUME NEW c \in Calls, StopTimesOut(c) PROVE IInv'
  <2>1. call' \in [Calls -> Suspended \cup {Idle}]
    <3>1. call[c] \in Suspended
      BY <1>12 DEF StopTimesOut, Idle
    <3>2. PICK op \in {"stop", "restart"} :
              call' = [call EXCEPT ![c] = [call[c] EXCEPT !.stage = "pidfile", !.op = op]]
      BY <1>12, <3>1 DEF StopTimesOut, Suspended
    <3> QED
      BY <3>1, <3>2 DEF Suspended
  <2>2. proc' \in [Procs -> ProcStates]
    BY <1>12 DEF StopTimesOut
  <2>3. \A p \in Procs : proc[p] # "none" => proc'[p] # "none"
    BY <1>12 DEF StopTimesOut
  <2> QED
    <3>1. serverProcess' = NoProcess
      BY <1>12, Zenon DEF StopTimesOut
    <3>2. UNCHANGED <<autoRestart, stopping, restartTimer, starting, recording, shown,
                      lastRequest>>
      BY <1>12, Zenon DEF StopTimesOut
    <3>3. SupervisionNeverLost'
      BY <2>3, <3>2, Zenon
    <3> QED
      BY <2>1, <2>2, <3>1, <3>2, <3>3, Zenon
<1>13. ASSUME NEW c \in Calls, StopCompletes(c) PROVE IInv'
  <2>1. startServer \/ UNCHANGED <<flags, starting>>
    BY <1>13 DEF StopCompletes
  <2>2. call' \in [Calls -> Suspended \cup {Idle}]
    BY <1>13 DEF StopCompletes
  <2> QED
    <3>1. CASE startServer
      BY <1>13, <2>2, <3>1, StartServer, Zenon DEF StopCompletes
    <3>2. CASE UNCHANGED <<flags, starting>>
      BY <1>13, <2>2, <3>2, Zenon DEF StopCompletes
    <3> QED
      BY <2>1, <3>1, <3>2, Zenon
<1>14. CASE UNCHANGED vars
  BY <1>14 DEF vars
<1> QED
  BY <1>1, <1>2, <1>3, <1>4, <1>5, <1>6, <1>7, <1>8, <1>9, <1>10, <1>11, <1>12, <1>13, <1>14
     DEF Next, ProcessStep, CallStep

\* The inductive invariant, for every number of processes and calls.
THEOREM Invariance == Spec => []IInv
BY InitIInv, StepIInv, PTL DEF Spec

\* Type correctness of the supervisor.
THEOREM TypeCorrect == Spec => []TypeOK
<1>1. IInv => TypeOK
  BY DEF IInv
<1> QED
  BY <1>1, Invariance, PTL

\* _serverProcess is never a process whose exit was already delivered.
THEOREM HandlesAreFresh == Spec => []HandleIsFresh
<1>1. IInv => HandleIsFresh
  BY DEF IInv
<1> QED
  BY <1>1, Invariance, PTL

\* _autoRestart is never left set with nothing running and nothing pending
\* that would start the server again.
THEOREM SupervisionHolds == Spec => []SupervisionNeverLost
<1>1. IInv => SupervisionNeverLost
  BY DEF IInv
<1> QED
  BY <1>1, Invariance, PTL
============================================================================
