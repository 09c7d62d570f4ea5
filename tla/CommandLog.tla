---------------------------- MODULE CommandLog ----------------------------
(***************************************************************************)
(* What the command channel promises a phone, without connections, uids,   *)
(* buffers or datagrams: while its session is open the commands of the     *)
(* phone are executed in increasing order of their index, so that none is  *)
(* executed twice, and none of them under the index check afterwards.      *)
(* Commands may be lost.                                                   *)
(***************************************************************************)
EXTENDS Integers, Sequences

CONSTANTS Session, Index

VARIABLES
    session,    \* "none", "open" or "closed", per session
    done        \* indexes of the commands executed, in order, per session

vars == <<session, done>>

Init ==
    /\ session = [s \in Session |-> "none"]
    /\ done = [s \in Session |-> <<>>]

Open(s) ==
    /\ session[s] = "none"
    /\ session' = [session EXCEPT ![s] = "open"]
    /\ UNCHANGED done

Execute(s, i) ==
    /\ session[s] = "open"
    /\ \A n \in 1..Len(done[s]) : done[s][n] < i
    /\ done' = [done EXCEPT ![s] = Append(@, i)]
    /\ UNCHANGED session

Close(s) ==
    /\ session[s] = "open"
    /\ session' = [session EXCEPT ![s] = "closed"]
    /\ UNCHANGED done

Next == \E s \in Session : Open(s) \/ Close(s) \/ \E i \in Index : Execute(s, i)

Spec == Init /\ [][Next]_vars
===========================================================================
