------------------------ MODULE CommandServer_proofs ------------------------
(***************************************************************************)
(* Safety of the command channel for any number of phones, commands and    *)
(* descriptors: it implements CommandLog, uses the client manager within   *)
(* its rules, tells every phone its own uid and loses nothing of a TCP     *)
(* stream.  SInv is inductive, and so is Streams under it.                 *)
(***************************************************************************)
EXTENDS CommandServer, FiniteSetTheorems, SequenceTheorems, TLAPS

---------------------------------------------------------------------------
(* The operators of ClientTable, as CommandServer uses them. *)

\* The counter of ya_client_create skips 0: it goes to the next uid, or back
\* to 1 after the largest one.
LEMMA UidAfterLemma ==
    ASSUME NEW u \in 1..MaxUid
    PROVE  UidAfter(u) = IF u = MaxUid THEN 1 ELSE u + 1
<1>1. CASE u = MaxUid
  <2>1. (MaxUid + 1) % (MaxUid + 1) = 0
    BY MaxUidAssumption, SMTT(20)
  <2> QED BY <1>1, <2>1 DEF UidAfter
<1>2. CASE u # MaxUid
  <2>1. (u + 1) % (MaxUid + 1) = u + 1
    BY <1>2, MaxUidAssumption, SMTT(20)
  <2> QED BY <1>2, <2>1, MaxUidAssumption DEF UidAfter
<1> QED BY <1>1, <1>2

\* What conn_eventcb writes into a record keeps it well formed.
LEMMA ClosedRecord ==
    ASSUME NEW r \in ClientRecord, NEW n \in Nat
    PROVE  /\ [r EXCEPT !.ref_count = n, !.state = DISCONNECTING, !.bev = FALSE]
                 \in ClientRecord
           /\ [r EXCEPT !.ref_count = n, !.state = DISCONNECTING, !.bev = FALSE].uid = r.uid
           /\ [r EXCEPT !.ref_count = n, !.state = DISCONNECTING, !.bev = FALSE].ref_count = n
<1> DEFINE d == [r EXCEPT !.ref_count = n, !.state = DISCONNECTING, !.bev = FALSE]
<1>1. [r EXCEPT !.ref_count = n, !.state = DISCONNECTING] \in ClientRecord
  BY DEF ClientRecord, ClientStates
<1>2. [[r EXCEPT !.ref_count = n, !.state = DISCONNECTING] EXCEPT !.bev = FALSE]
         \in ClientRecord
  BY <1>1 DEF ClientRecord
<1>3. d \in ClientRecord
  BY <1>2, Zenon
<1>4. d.uid = r.uid /\ d.ref_count = n
  BY DEF ClientRecord
<1> QED BY <1>3, <1>4

\* Writing a field back restores the record.
LEMMA RestoredRecord ==
    ASSUME NEW r \in ClientRecord, r.ref_count = 1
    PROVE  [[r EXCEPT !.ref_count = 2] EXCEPT !.ref_count = @ - 1] = r
<1>1. [r EXCEPT !.ref_count = 2].ref_count = 2
  BY DEF ClientRecord
<1>2. [[r EXCEPT !.ref_count = 2] EXCEPT !.ref_count = 1] = [r EXCEPT !.ref_count = 1]
  BY DEF ClientRecord
<1>3. [r EXCEPT !.ref_count = 1] = r
  BY DEF ClientRecord
<1> QED BY <1>1, <1>2, <1>3

\* The record of a closed connection once its only reference is dropped.
LEMMA DisconnectedRecord ==
    ASSUME NEW r \in ClientRecord, r.ref_count = 1
    PROVE  [[r EXCEPT !.state = DISCONNECTING, !.bev = FALSE] EXCEPT !.ref_count = @ - 1]
             = [r EXCEPT !.ref_count = 0, !.state = DISCONNECTING, !.bev = FALSE]
<1> DEFINE c == [r EXCEPT !.state = DISCONNECTING, !.bev = FALSE]
<1>1. c.ref_count = 1
  BY DEF ClientRecord
<1>2. [c EXCEPT !.ref_count = 0]
        = [r EXCEPT !.ref_count = 0, !.state = DISCONNECTING, !.bev = FALSE]
  BY DEF ClientRecord
<1>3. [c EXCEPT !.ref_count = @ - 1] = [c EXCEPT !.ref_count = 0]
  <2>1. c.ref_count - 1 = 0
    BY <1>1
  <2> HIDE DEF c
  <2> QED BY <2>1, Zenon
<1> QED BY <1>2, <1>3

---------------------------------------------------------------------------
(* The invariants. *)

\* The packages phone k may send: a command carries the uid of its session.
OwnPackage(k) ==
    {p \in Package : /\ p.from = k
                     /\ need_command_index_check(p.type) => p.uid = k /\ p.index \in Index}

\* No record is ever freed, the k-th has uid k, and one that is ACTIVE has its
\* connection, one reference and a descriptor of its own.
Table ==
    /\ DOMAIN mgr.clients = 1..created
    /\ mgr.next_uid = IF created = MaxUid THEN 1 ELSE created + 1
    /\ \A k \in 1..created :
          /\ mgr.clients[k].uid = k
          /\ mgr.clients[k].bev <=> mgr.clients[k].state = ACTIVE
          /\ mgr.clients[k].bev => mgr.clients[k].ref_count = 1
    /\ \A j, k \in Sessions : mgr.clients[j].fd = mgr.clients[k].fd => j = k

\* A phone never holds, or is about to be told, another phone's uid.
OwnUid == \A k \in Names : phone[k].uid \in {0, k} /\ reply[k] \in {0, k}

OwnPackages ==
    /\ \A k \in Names : inbuf[k] \in Seq(OwnPackage(k)) /\ wire[k] \in Seq(OwnPackage(k))
    /\ \A p \in udp : p \in OwnPackage(p.from) /\ p.type \in CommandTypes

\* command_index is the last index executed and the largest.
Executed ==
    \A k \in Names :
        /\ command_index[k] = IF done[k] = <<>> THEN 0 ELSE done[k][Len(done[k])]
        /\ \A n \in 1..Len(done[k]) : done[k][n] <= command_index[k]

SInv ==
    /\ TypeOK
    /\ Table
    /\ OwnUid
    /\ OwnPackages
    /\ Executed
    /\ StatsAgree

---------------------------------------------------------------------------
(* The table. *)

\* Sessions are among the connections accepted.
LEMMA SessionNames ==
    ASSUME SInv
    PROVE  /\ Sessions \subseteq 1..created
           /\ 1..created \subseteq Names
           /\ IsFiniteSet(Sessions)
           /\ \A k \in Names : Connected(k) <=> k \in Sessions
<1>1. Sessions \subseteq 1..created
  BY DEF SInv, Table, Sessions, ActiveClients
<1>2. created \in Nat /\ 1..created \subseteq Names
  BY ServerAssumption DEF SInv, TypeOK, Names
<1>3. IsFiniteSet(Sessions)
  <2>1. IsFiniteSet(1..created)
    BY <1>2, FS_Interval
  <2> QED BY <1>1, <2>1, FS_Subset
<1> QED BY <1>1, <1>2, <1>3 DEF SInv, Table, Connected, Sessions, ActiveClients

LEMMA SessionName ==
    ASSUME SInv, NEW k \in Sessions
    PROVE  k \in Names /\ k \in 0..MaxUid /\ k # NoClient
<1>1. created \in Nat /\ k \in 1..created /\ k \in 1..MaxClients
  BY SessionNames DEF SInv, TypeOK, Names
<1> QED BY <1>1, ServerAssumption, SessionsAssumption, MaxUidAssumption DEF Names, NoClient

\* The uid of a session finds that session, any other finds none.
LEMMA FindByUid ==
    ASSUME SInv, NEW uid \in 0..MaxUid
    PROVE  ya_client_find_by_uid(mgr, uid) = IF uid \in Sessions THEN uid ELSE NoClient
<1> DEFINE S == {k \in Sessions : mgr.clients[k].uid = uid}
<1>1. S = IF uid \in Sessions THEN {uid} ELSE {}
  BY SessionNames DEF SInv, Table
<1>2. 0 \notin Sessions
  BY SessionNames DEF SInv, TypeOK
<1>3. CASE uid \in Sessions
  <2>1. FirstInTable(mgr, {uid}) = uid
    BY <1>3, SessionNames DEF FirstInTable, SInv, TypeOK
  <2> QED BY <1>1, <1>2, <1>3, <2>1 DEF ya_client_find_by_uid, Sessions
<1>4. CASE uid \notin Sessions
  BY <1>1, <1>4 DEF ya_client_find_by_uid, Sessions
<1> QED BY <1>3, <1>4

\* The descriptor of a session finds that session.
LEMMA FindByFd ==
    ASSUME SInv, NEW k \in Sessions
    PROVE  ya_client_find_by_fd(mgr, mgr.clients[k].fd) = k
<1> DEFINE S == {j \in Sessions : mgr.clients[j].fd = mgr.clients[k].fd}
<1>1. S = {k}
  BY DEF SInv, Table
<1>2. FirstInTable(mgr, {k}) = k
  BY SessionNames DEF FirstInTable, SInv, TypeOK
<1> QED BY <1>1, <1>2 DEF ya_client_find_by_fd, Sessions

\* A callback's own reference is taken and dropped: the table is as before.
LEMMA UnderReferenceLemma ==
    ASSUME SInv, NEW k \in Sessions
    PROVE  UnderReference(mgr, k) = mgr
<1>1. /\ k \in DOMAIN mgr.clients /\ mgr.clients[k] \in ClientRecord
      /\ mgr.clients[k].ref_count = 1
  BY SessionNames DEF SInv, TypeOK, Table, Sessions, ActiveClients
<1>0. /\ mgr = [clients |-> mgr.clients, client_count |-> mgr.client_count,
                next_uid |-> mgr.next_uid]
      /\ mgr.clients \in [DOMAIN mgr.clients -> ClientRecord]
  BY DEF SInv, TypeOK
<1> DEFINE m == ya_client_ref(mgr, k)
<1>2. /\ m.clients = [mgr.clients EXCEPT ![k].ref_count = 2]
      /\ m.client_count = mgr.client_count /\ m.next_uid = mgr.next_uid
      /\ m = [clients |-> m.clients, client_count |-> m.client_count,
              next_uid |-> m.next_uid]
  BY <1>0, <1>1 DEF ya_client_ref
<1>3. m.clients[k] = [mgr.clients[k] EXCEPT !.ref_count = 2]
  BY <1>0, <1>1, <1>2
<1>4. m.clients[k].ref_count = 2
  BY <1>1, <1>3 DEF ClientRecord
<1>5. ya_client_unref(m, k) = [m EXCEPT !.clients[k].ref_count = @ - 1]
  <2> HIDE DEF m
  <2> QED BY <1>4 DEF ya_client_unref
<1>6. [m.clients EXCEPT ![k].ref_count = @ - 1] = mgr.clients
  <2>1. [m.clients[k] EXCEPT !.ref_count = @ - 1] = mgr.clients[k]
    BY <1>1, <1>3, RestoredRecord
  <2> QED BY <1>0, <1>1, <1>2, <2>1
<1>7. [m EXCEPT !.clients[k].ref_count = @ - 1] = mgr
  <2> HIDE DEF m
  <2> QED BY <1>0, <1>2, <1>6
<1> QED BY <1>5, <1>7 DEF UnderReference

\* The table after a step: what the steps that change it must establish.
TableStep ==
    /\ Table'
    /\ DOMAIN mgr'.clients \subseteq 1..created'
    /\ mgr'.clients \in [DOMAIN mgr'.clients -> ClientRecord]
    /\ mgr'.client_count \in Nat
    /\ mgr'.next_uid \in 1..MaxUid
    /\ mgr' = [clients |-> mgr'.clients, client_count |-> mgr'.client_count,
               next_uid |-> mgr'.next_uid]

\* A new record has the next uid and a descriptor no session has.
LEMMA AcceptTable ==
    ASSUME SInv, NEW fd \in Fd, accept_cb(fd)
    PROVE  /\ TableStep
           /\ Sessions' = Sessions \cup {created + 1}
           /\ created' \in 0..MaxClients
<1> DEFINE n == created + 1
           c == [fd |-> fd, uid |-> mgr.next_uid, ref_count |-> 1,
                 state |-> ACTIVE, bev |-> TRUE]
<1>0. /\ created \in Nat /\ n \in 1..MaxUid /\ n \in Names /\ created' = n
      /\ n \notin 1..created /\ 1..n = 1..created \cup {n}
  <2>1. created \in Nat /\ created < MaxClients /\ created' = n
    BY ServerAssumption DEF SInv, TypeOK, accept_cb
  <2> QED BY <2>1, ServerAssumption, SessionsAssumption, MaxUidAssumption DEF Names
<1>1. mgr.next_uid = n
  BY <1>0, MaxUidAssumption DEF SInv, Table
<1>2. /\ mgr'.clients = [j \in DOMAIN mgr.clients \cup {n} |->
                            IF j = n THEN c ELSE mgr.clients[j]]
      /\ mgr'.client_count = mgr.client_count + 1
      /\ mgr'.next_uid = UidAfter(n)
      /\ mgr' = [clients |-> mgr'.clients, client_count |-> mgr'.client_count,
                 next_uid |-> mgr'.next_uid]
  <2>1. mgr' = ya_client_create(mgr, n, fd)
    BY DEF accept_cb
  <2>2. n # 0
    BY <1>0
  <2> QED BY <1>1, <2>1, <2>2 DEF ya_client_create
<1>3. DOMAIN mgr.clients = 1..created /\ mgr.clients \in [1..created -> ClientRecord]
  BY DEF SInv, Table, TypeOK
<1>4. c \in ClientRecord
  BY <1>0, <1>1 DEF ClientRecord, ClientStates
<1>5. /\ DOMAIN mgr'.clients = 1..n
      /\ mgr'.clients \in [1..n -> ClientRecord]
      /\ mgr'.clients[n] = c
      /\ \A j \in 1..created : mgr'.clients[j] = mgr.clients[j]
  <2> HIDE DEF c
  <2> QED BY <1>0, <1>2, <1>3, <1>4
<1>6. mgr'.next_uid = (IF n = MaxUid THEN 1 ELSE n + 1) /\ mgr'.next_uid \in 1..MaxUid
  BY <1>0, <1>2, UidAfterLemma, MaxUidAssumption
<1>7. Sessions' = Sessions \cup {n}
  BY <1>0, <1>3, <1>5 DEF Sessions, ActiveClients
<1>8. \A j \in Sessions : mgr.clients[j].fd # fd
  BY DEF accept_cb, SInv, Table, Sessions, ActiveClients
<1>9. \A j, k \in Sessions' : mgr'.clients[j].fd = mgr'.clients[k].fd => j = k
  BY <1>5, <1>7, <1>8, SessionNames DEF SInv, Table
<1>10. \A k \in 1..n :
          /\ mgr'.clients[k].uid = k
          /\ mgr'.clients[k].bev <=> mgr'.clients[k].state = ACTIVE
          /\ mgr'.clients[k].bev => mgr'.clients[k].ref_count = 1
  <2>1. c.uid = n /\ c.bev = TRUE /\ c.state = ACTIVE /\ c.ref_count = 1
    BY <1>1
  <2>2. \A k \in 1..created :
          /\ mgr.clients[k].uid = k
          /\ mgr.clients[k].bev <=> mgr.clients[k].state = ACTIVE
          /\ mgr.clients[k].bev => mgr.clients[k].ref_count = 1
    BY DEF SInv, Table
  <2> HIDE DEF c
  <2> QED BY <1>0, <1>5, <2>1, <2>2
<1>11. Table'
  BY <1>0, <1>5, <1>6, <1>9, <1>10 DEF Table
<1>12. mgr'.client_count \in Nat
  BY <1>2 DEF SInv, TypeOK
<1>13. created' \in 0..MaxClients
  BY <1>0, ServerAssumption DEF Names
<1> QED BY <1>0, <1>2, <1>5, <1>6, <1>7, <1>11, <1>12, <1>13 DEF TableStep

\* The record of a closed connection stays, DISCONNECTING and unreferenced.
LEMMA CloseTable ==
    ASSUME SInv, NEW k \in Names, conn_eventcb(k)
    PROVE  /\ TableStep
           /\ k \in Sessions
           /\ Sessions' = Sessions \ {k}
<1> DEFINE c == [mgr.clients[k] EXCEPT !.ref_count = 0,
                                       !.state = DISCONNECTING, !.bev = FALSE]
<1>0. k \in Sessions /\ k \in 1..created /\ created' = created
  BY SessionNames DEF conn_eventcb
<1>1. /\ DOMAIN mgr.clients = 1..created
      /\ mgr.clients \in [1..created -> ClientRecord]
      /\ mgr.clients[k] \in ClientRecord /\ mgr.clients[k].ref_count = 1
      /\ mgr = [clients |-> mgr.clients, client_count |-> mgr.client_count,
                next_uid |-> mgr.next_uid]
  BY <1>0 DEF SInv, Table, TypeOK, conn_eventcb, Connected
<1>2. c \in ClientRecord /\ c.uid = mgr.clients[k].uid
  BY <1>1, ClosedRecord
<1>3. c.state = DISCONNECTING /\ c.bev = FALSE
  BY <1>1 DEF ClientRecord
<1> DEFINE m == [mgr EXCEPT !.clients[k].state = DISCONNECTING,
                            !.clients[k].bev = FALSE]
<1>4. /\ m.clients = [mgr.clients EXCEPT ![k] =
                         [mgr.clients[k] EXCEPT !.state = DISCONNECTING, !.bev = FALSE]]
      /\ m.client_count = mgr.client_count /\ m.next_uid = mgr.next_uid
      /\ m = [clients |-> m.clients, client_count |-> m.client_count,
              next_uid |-> m.next_uid]
  <2> DEFINE m1 == [mgr EXCEPT !.clients[k].state = DISCONNECTING]
  <2>1. /\ m1.clients = [mgr.clients EXCEPT ![k] =
                            [mgr.clients[k] EXCEPT !.state = DISCONNECTING]]
        /\ m1.client_count = mgr.client_count /\ m1.next_uid = mgr.next_uid
        /\ m1 = [clients |-> m1.clients, client_count |-> m1.client_count,
                 next_uid |-> m1.next_uid]
    BY <1>0, <1>1
  <2>2. m = [m1 EXCEPT !.clients[k].bev = FALSE]
    OBVIOUS
  <2>3. m1.clients[k] = [mgr.clients[k] EXCEPT !.state = DISCONNECTING]
    BY <1>0, <1>1, <2>1
  <2>4. [m1.clients[k] EXCEPT !.bev = FALSE]
          = [mgr.clients[k] EXCEPT !.state = DISCONNECTING, !.bev = FALSE]
    BY <2>3
  <2> HIDE DEF m1, m
  <2>5. m.clients = [m1.clients EXCEPT ![k] = [m1.clients[k] EXCEPT !.bev = FALSE]]
    BY <2>1, <2>2
  <2> QED BY <1>0, <1>1, <2>1, <2>2, <2>4, <2>5
<1>5. m.clients[k].ref_count = 1 /\ m.clients[k].state = DISCONNECTING
  BY <1>0, <1>1, <1>4 DEF ClientRecord
<1>6. mgr' = [m EXCEPT !.clients[k].ref_count = @ - 1]
  <2> HIDE DEF m
  <2> QED BY <1>5 DEF ya_client_unref, DISCONNECTING, DISCONNECTED, m, conn_eventcb, Disconnect
<1>7. [m.clients[k] EXCEPT !.ref_count = @ - 1] = c
  <2>1. m.clients[k] = [mgr.clients[k] EXCEPT !.state = DISCONNECTING, !.bev = FALSE]
    BY <1>0, <1>1, <1>4
  <2> QED BY <1>1, <2>1, DisconnectedRecord
<1>8. /\ mgr'.clients = [mgr.clients EXCEPT ![k] = c]
      /\ mgr'.client_count = mgr.client_count /\ mgr'.next_uid = mgr.next_uid
      /\ mgr' = [clients |-> mgr'.clients, client_count |-> mgr'.client_count,
                 next_uid |-> mgr'.next_uid]
  <2> HIDE DEF m, c
  <2> QED BY <1>0, <1>1, <1>4, <1>6, <1>7
<1>9. /\ mgr'.clients \in [1..created -> ClientRecord]
      /\ mgr'.clients[k] = c
      /\ \A j \in 1..created : j # k => mgr'.clients[j] = mgr.clients[j]
  <2> HIDE DEF c
  <2> QED BY <1>0, <1>1, <1>2, <1>8
<1>10. Sessions' = Sessions \ {k}
  <2> HIDE DEF c
  <2> QED BY <1>0, <1>1, <1>3, <1>9 DEF Sessions, ActiveClients, ACTIVE, DISCONNECTING
<1>11. \A j \in 1..created :
          /\ mgr'.clients[j].uid = j
          /\ mgr'.clients[j].bev <=> mgr'.clients[j].state = ACTIVE
          /\ mgr'.clients[j].bev => mgr'.clients[j].ref_count = 1
  <2> HIDE DEF c
  <2> QED BY <1>0, <1>2, <1>3, <1>9 DEF SInv, Table, ACTIVE, DISCONNECTING
<1>12. \A i, j \in Sessions' : mgr'.clients[i].fd = mgr'.clients[j].fd => i = j
  BY <1>9, <1>10, SessionNames DEF SInv, Table
<1>13. Table'
  BY <1>0, <1>8, <1>9, <1>11, <1>12 DEF Table, SInv
<1> QED BY <1>0, <1>8, <1>9, <1>10, <1>13 DEF TableStep, SInv, TypeOK

---------------------------------------------------------------------------
(* Dispatch. *)

\* Commands, and only they, are under the index check and act.
LEMMA CommandTypesLemma ==
    /\ \A t \in CommandTypes : need_command_index_check(t)
    /\ \A t \in CommandTypes : t \in GlobalTypes \/ t \in ClientTypes
    /\ \A t \in {"AUTHORIZE", "HEARTBEAT"} :
          /\ ~ need_command_index_check(t)
          /\ t \notin GlobalTypes /\ t \notin ClientTypes /\ t \notin CommandTypes
BY TypesAssumption DEF need_command_index_check, GlobalTypes, ClientTypes

\* What the handling of a request of session k may do: answer k its own uid,
\* and execute one command with a larger index than any before.
Handled1(k) ==
    /\ late' = late
    /\ protocol_version' \in [Names -> Versions \cup {0}]
    /\ reply' \in [Names -> 0..MaxUid]
    /\ \A j \in Names : reply'[j] \in {0, j}
    /\ \/ UNCHANGED <<command_index, done>>
       \/ \E i \in Index :
             /\ i > command_index[k]
             /\ command_index' = [command_index EXCEPT ![k] = i]
             /\ done' = [done EXCEPT ![k] = Append(@, i)]

LEMMA AuthorizeLemma ==
    ASSUME SInv, NEW k \in Sessions, NEW p \in Package, handle_authorize(k, p)
    PROVE  /\ protocol_version' \in [Names -> Versions \cup {0}]
           /\ reply' \in [Names -> 0..MaxUid]
           /\ \A j \in Names : reply'[j] \in {0, j}
<1>1. /\ protocol_version \in [Names -> Versions \cup {0}]
      /\ reply \in [Names -> 0..MaxUid]
      /\ \A j \in Names : reply[j] \in {0, j}
      /\ p.version \in Versions \cup {0}
  BY DEF SInv, TypeOK, OwnUid, Package
<1>2. k \in Names /\ k \in 0..MaxUid /\ k # NoClient
  BY SessionName
<1>3. ya_client_find_by_fd(mgr, mgr.clients[k].fd) = k /\ mgr.clients[k].uid = k
  BY FindByFd, SessionNames DEF SInv, Table
<1>4. \/ UNCHANGED <<protocol_version, reply>>
      \/ /\ protocol_version' = [protocol_version EXCEPT ![k] = p.version]
         /\ reply' = [reply EXCEPT ![k] = k]
  BY <1>2, <1>3 DEF handle_authorize
<1> QED BY <1>1, <1>2, <1>4

\* A request of a session.
LEMMA DispatchLemma ==
    ASSUME SInv, NEW k \in Sessions, NEW p \in OwnPackage(k),
           process_server_event(k, p)
    PROVE  Handled1(k)
<1>1. /\ p \in Package /\ p.from = k
      /\ p.type \in CommandTypes \cup {"AUTHORIZE", "HEARTBEAT"}
      /\ need_command_index_check(p.type) => p.uid = k /\ p.index \in Index
  <2>1. /\ p \in Package /\ p.from = k
        /\ need_command_index_check(p.type) => p.uid = k /\ p.index \in Index
    BY DEF OwnPackage
  <2>2. p.type \in CommandTypes \cup {"AUTHORIZE", "HEARTBEAT"}
    BY <2>1 DEF Package
  <2> QED BY <2>1, <2>2
<1>2. k \in Names /\ k \in 0..MaxUid /\ k # NoClient
  BY SessionName
<1>3. late' = late
  BY <1>2 DEF process_server_event
<1>4. /\ protocol_version' \in [Names -> Versions \cup {0}]
      /\ reply' \in [Names -> 0..MaxUid]
      /\ \A j \in Names : reply'[j] \in {0, j}
  <2>1. CASE p.type = "AUTHORIZE"
    BY <1>1, <2>1, AuthorizeLemma DEF process_server_event
  <2>2. CASE p.type # "AUTHORIZE"
    BY <2>2 DEF process_server_event, SInv, TypeOK, OwnUid
  <2> QED BY <2>1, <2>2
<1>5. \/ UNCHANGED <<command_index, done>>
      \/ \E i \in Index :
            /\ i > command_index[k]
            /\ command_index' = [command_index EXCEPT ![k] = i]
            /\ done' = [done EXCEPT ![k] = Append(@, i)]
  <2>1. CASE p.type \in CommandTypes
    <3>1. need_command_index_check(p.type) /\ p.index \in Index /\ p.uid = k
      BY <1>1, <2>1, CommandTypesLemma
    <3>2. Acts(p)
      BY <1>2, <2>1, <3>1, CommandTypesLemma, FindByUid DEF Acts
    <3>3. command_index[k] \in Nat /\ p.index \in Nat
      BY <1>2, <3>1 DEF SInv, TypeOK, Index
    <3>4. CASE Stale(k, p)
      BY <3>4 DEF process_server_event
    <3>5. CASE ~ Stale(k, p)
      <4>1. p.index > command_index[k]
        BY <1>2, <3>1, <3>3, <3>5 DEF Stale
      <4>2. /\ command_index' = [command_index EXCEPT ![k] = p.index]
            /\ done' = [done EXCEPT ![k] = Append(@, p.index)]
        BY <1>1, <1>2, <3>1, <3>2, <3>5 DEF process_server_event
      <4> QED BY <3>1, <4>1, <4>2
    <3> QED BY <3>4, <3>5
  <2>2. CASE p.type \in {"AUTHORIZE", "HEARTBEAT"}
    <3>1. ~ need_command_index_check(p.type) /\ ~ Acts(p)
      BY <2>2, CommandTypesLemma DEF Acts
    <3> QED BY <3>1 DEF process_server_event
  <2> QED BY <1>1, <2>1, <2>2
<1> QED BY <1>3, <1>4, <1>5 DEF Handled1

\* A datagram of a session that has ended changes nothing but late.
LEMMA LateLemma ==
    ASSUME SInv, NEW p \in udp, process_server_event(NoClient, p)
    PROVE  /\ UNCHANGED <<command_index, done, protocol_version, reply>>
           /\ late' \in [Names -> SUBSET Index]
<1>1. p.type \in CommandTypes /\ p.index \in Index /\ p.from \in Names
  BY CommandTypesLemma DEF SInv, OwnPackages, OwnPackage, Package
<1>2. p.type # "AUTHORIZE"
  BY <1>1, CommandTypesLemma
<1>3. late \in [Names -> SUBSET Index]
  BY DEF SInv, TypeOK
<1>4. late' = late \/ late' = [late EXCEPT ![p.from] = @ \cup {p.index}]
  BY DEF process_server_event
<1> QED BY <1>1, <1>2, <1>3, <1>4 DEF process_server_event

\* The history after a command: its index is the last and the largest.
LEMMA ExecutedLemma ==
    ASSUME SInv, NEW k \in Names, Handled1(k)
    PROVE  /\ command_index' \in [Names -> 0..MaxIndex]
           /\ done' \in [Names -> Seq(Index)]
           /\ Executed'
<1>1. /\ command_index \in [Names -> 0..MaxIndex]
      /\ done \in [Names -> Seq(Index)]
      /\ Executed
  BY DEF SInv, TypeOK
<1>2. CASE UNCHANGED <<command_index, done>>
  BY <1>1, <1>2 DEF Executed
<1>3. ASSUME NEW i \in Index,
             i > command_index[k],
             command_index' = [command_index EXCEPT ![k] = i],
             done' = [done EXCEPT ![k] = Append(@, i)]
      PROVE  /\ command_index' \in [Names -> 0..MaxIndex]
             /\ done' \in [Names -> Seq(Index)]
             /\ Executed'
  <2>1. i \in Nat /\ i \in 0..MaxIndex /\ command_index[k] \in Nat
    BY <1>1 DEF Index
  <2>2. /\ Append(done[k], i) \in Seq(Index)
        /\ Len(Append(done[k], i)) = Len(done[k]) + 1
        /\ Append(done[k], i)[Len(done[k]) + 1] = i
        /\ \A n \in 1..Len(done[k]) : Append(done[k], i)[n] = done[k][n]
        /\ Len(done[k]) \in Nat
    BY <1>1
  <2>3. /\ command_index' \in [Names -> 0..MaxIndex]
        /\ done' \in [Names -> Seq(Index)]
        /\ command_index'[k] = i /\ done'[k] = Append(done[k], i)
        /\ \A j \in Names : j # k => command_index'[j] = command_index[j] /\ done'[j] = done[j]
    BY <1>1, <1>3, <2>1, <2>2
  <2>4. \A n \in 1..Len(done[k]) : done[k][n] \in Nat /\ done[k][n] <= command_index[k]
    <3>1. \A n \in 1..Len(done[k]) : done[k][n] \in Index
      BY <1>1, ElementOfSeq
    <3> QED BY <1>1, <3>1 DEF Executed, Index
  <2>5. \A n \in 1..Len(done'[k]) : done'[k][n] <= i
    BY <1>3, <2>1, <2>2, <2>3, <2>4
  <2>6. done'[k] # <<>> /\ done'[k][Len(done'[k])] = i
    BY <2>2, <2>3
  <2> QED BY <1>1, <2>3, <2>5, <2>6 DEF Executed
<1> QED BY <1>2, <1>3 DEF Handled1

---------------------------------------------------------------------------
(* The phones. *)

\* OwnPackage(k) sequences are what the channels hold.
LEMMA OwnSeq ==
    ASSUME NEW k \in Names, NEW s \in Seq(OwnPackage(k))
    PROVE  s \in Seq(Package)
BY SeqMonotonic DEF OwnPackage

LEMMA PlainLemma ==
    ASSUME SInv, NEW k \in Names, NEW t \in {"AUTHORIZE", "HEARTBEAT"},
           NEW v \in Versions \cup {0}
    PROVE  Plain(k, t, v) \in OwnPackage(k)
<1>1. phone[k].uid \in 0..MaxUid
  BY DEF SInv, TypeOK
<1>2. Plain(k, t, v) \in Package
  BY <1>1, ServerAssumption DEF Plain, Package
<1> QED BY <1>2, CommandTypesLemma DEF OwnPackage, Plain

LEMMA CommandLemma ==
    ASSUME SInv, NEW k \in Names, NEW t \in CommandTypes,
           phone[k].uid # 0, phone[k].sent < MaxIndex
    PROVE  Command(k, t) \in OwnPackage(k)
<1>1. phone[k].uid \in 0..MaxUid /\ phone[k].sent \in 0..MaxIndex /\ phone[k].uid = k
  BY DEF SInv, TypeOK, OwnUid
<1>2. phone[k].sent + 1 \in Index
  BY <1>1, ServerAssumption DEF Index
<1>3. Command(k, t) \in Package
  BY <1>1, <1>2, ServerAssumption DEF Command, Package, Index
<1> QED BY <1>1, <1>2, <1>3 DEF OwnPackage, Command

\* Sending keeps a connection's packages its phone's own.
LEMMA SendLemma ==
    ASSUME SInv, NEW k \in Names, NEW q \in OwnPackage(k), Send(k, q)
    PROVE  /\ wire' \in [Names -> Seq(Package)]
           /\ \A j \in Names : wire'[j] \in Seq(OwnPackage(j))
<1>1. wire \in [Names -> Seq(Package)] /\ \A j \in Names : wire[j] \in Seq(OwnPackage(j))
  BY DEF SInv, TypeOK, OwnPackages
<1>2. Append(wire[k], q) \in Seq(OwnPackage(k))
  BY <1>1, AppendProperties
<1>3. Append(wire[k], q) \in Seq(Package)
  BY <1>2, OwnSeq
<1> QED BY <1>1, <1>2, <1>3 DEF Send

\* What a phone's step leaves alone.
LEMMA ServerUnchanged ==
    ASSUME SInv, UNCHANGED serverVars
    PROVE  /\ Table' /\ Executed' /\ StatsAgree'
           /\ created' \in 0..MaxClients
           /\ DOMAIN mgr'.clients \subseteq 1..created'
           /\ mgr'.clients \in [DOMAIN mgr'.clients -> ClientRecord]
           /\ mgr'.client_count \in Nat
           /\ mgr'.next_uid \in 1..MaxUid
           /\ mgr' = [clients |-> mgr'.clients, client_count |-> mgr'.client_count,
                      next_uid |-> mgr'.next_uid]
           /\ stats' \in [total_connections : Nat, active_connections : Nat]
           /\ command_index' \in [Names -> 0..MaxIndex]
           /\ protocol_version' \in [Names -> Versions \cup {0}]
           /\ done' \in [Names -> Seq(Index)]
           /\ late' \in [Names -> SUBSET Index]
<1>1. /\ mgr' = mgr /\ created' = created /\ stats' = stats
      /\ command_index' = command_index /\ protocol_version' = protocol_version
      /\ done' = done /\ late' = late
  BY DEF serverVars
<1>2. Table' /\ Executed' /\ StatsAgree'
  BY <1>1 DEF SInv, Table, Sessions, ActiveClients, Executed, StatsAgree, ya_client_get_count
<1> QED BY <1>1, <1>2 DEF SInv, TypeOK

\* A phone's step: it learns its own uid, and sends what it may send.
LEMMA PhoneLemma ==
    ASSUME SInv, NEW k \in Names, PhoneStep(k)
    PROVE  SInv' /\ UNCHANGED <<mgr, created, done>>
<1>0. UNCHANGED serverVars
  BY DEF PhoneStep, PhoneAuthorize, PhoneLearnUid, PhoneSendTcp, PhoneSendUdp,
         PhoneHeartbeat, PhoneClose
<1>1. UNCHANGED <<mgr, created, done>>
  BY <1>0 DEF serverVars
<1> DEFINE Phone == [open : BOOLEAN, asked : BOOLEAN, uid : 0..MaxUid, sent : 0..MaxIndex]
           Phones == [Names -> Phone]
<1>2. /\ phone \in Phones /\ reply \in [Names -> 0..MaxUid] /\ OwnUid
      /\ inbuf \in [Names -> Seq(Package)] /\ wire \in [Names -> Seq(Package)]
      /\ udp \subseteq Package /\ OwnPackages
  BY DEF SInv, TypeOK
<1>3. /\ phone' \in Phones /\ reply' \in [Names -> 0..MaxUid] /\ OwnUid'
      /\ inbuf' \in [Names -> Seq(Package)] /\ wire' \in [Names -> Seq(Package)]
      /\ udp' \subseteq Package /\ OwnPackages'
  <2>1. ASSUME NEW v \in Versions, PhoneAuthorize(k, v) PROVE <1>3!:
    <3>1. Plain(k, "AUTHORIZE", v) \in OwnPackage(k)
      BY PlainLemma
    <3>2. /\ wire' \in [Names -> Seq(Package)]
          /\ \A j \in Names : wire'[j] \in Seq(OwnPackage(j))
      BY <2>1, <3>1, SendLemma DEF PhoneAuthorize
    <3>3. phone' \in Phones /\ \A j \in Names : phone'[j].uid = phone[j].uid
      BY <1>2, <2>1 DEF PhoneAuthorize
    <3> QED BY <1>2, <2>1, <3>2, <3>3 DEF PhoneAuthorize, OwnUid, OwnPackages
  <2>2. CASE PhoneLearnUid(k)
    <3>1. phone' \in Phones /\ \A j \in Names : phone'[j].uid \in {0, j}
      <4> DEFINE c == [phone[k] EXCEPT !.uid = reply[k]]
      <4>1. c \in Phone /\ c.uid = reply[k]
        BY <1>2
      <4>2. phone' = [phone EXCEPT ![k] = c]
        BY <2>2 DEF PhoneLearnUid
      <4> HIDE DEF c, Phone
      <4> QED BY <1>2, <4>1, <4>2 DEF OwnUid
    <3>2. reply' \in [Names -> 0..MaxUid] /\ \A j \in Names : reply'[j] \in {0, j}
      BY <1>2, <2>2, MaxUidAssumption DEF PhoneLearnUid, OwnUid
    <3> QED BY <1>2, <2>2, <3>1, <3>2 DEF PhoneLearnUid, OwnUid, OwnPackages
  <2>3. ASSUME NEW t \in CommandTypes, PhoneSendTcp(k, t) PROVE <1>3!:
    <3>1. Command(k, t) \in OwnPackage(k)
      BY <2>3, CommandLemma DEF PhoneSendTcp
    <3>2. /\ wire' \in [Names -> Seq(Package)]
          /\ \A j \in Names : wire'[j] \in Seq(OwnPackage(j))
      BY <2>3, <3>1, SendLemma DEF PhoneSendTcp
    <3>3. phone' \in Phones /\ \A j \in Names : phone'[j].uid = phone[j].uid
      <4> DEFINE c == [phone[k] EXCEPT !.sent = @ + 1]
      <4>1. phone[k].sent + 1 \in 0..MaxIndex
        BY <1>2, <2>3, ServerAssumption DEF PhoneSendTcp
      <4>2. c \in Phone /\ c.uid = phone[k].uid
        BY <1>2, <4>1
      <4>3. phone' = [phone EXCEPT ![k] = c]
        BY <2>3 DEF PhoneSendTcp
      <4> HIDE DEF c, Phone
      <4> QED BY <1>2, <4>2, <4>3
    <3> QED BY <1>2, <2>3, <3>2, <3>3 DEF PhoneSendTcp, OwnUid, OwnPackages
  <2>4. ASSUME NEW t \in CommandTypes, PhoneSendUdp(k, t) PROVE <1>3!:
    <3>1. Command(k, t) \in OwnPackage(k)
      BY <2>4, CommandLemma DEF PhoneSendUdp
    <3>2. /\ Command(k, t) \in Package /\ Command(k, t).from = k
          /\ Command(k, t).type \in CommandTypes
      BY <3>1 DEF OwnPackage, Command
    <3>3. udp' \subseteq Package /\ \A q \in udp' : q \in OwnPackage(q.from) /\ q.type \in CommandTypes
      BY <1>2, <2>4, <3>1, <3>2 DEF PhoneSendUdp, OwnPackages
    <3>4. phone' \in Phones /\ \A j \in Names : phone'[j].uid = phone[j].uid
      <4> DEFINE c == [phone[k] EXCEPT !.sent = @ + 1]
      <4>1. phone[k].sent + 1 \in 0..MaxIndex
        BY <1>2, <2>4, ServerAssumption DEF PhoneSendUdp
      <4>2. c \in Phone /\ c.uid = phone[k].uid
        BY <1>2, <4>1
      <4>3. phone' = [phone EXCEPT ![k] = c]
        BY <2>4 DEF PhoneSendUdp
      <4> HIDE DEF c, Phone
      <4> QED BY <1>2, <4>2, <4>3
    <3> QED BY <1>2, <2>4, <3>3, <3>4 DEF PhoneSendUdp, OwnUid, OwnPackages
  <2>5. CASE PhoneHeartbeat(k)
    <3>1. Plain(k, "HEARTBEAT", 0) \in OwnPackage(k)
      BY PlainLemma
    <3>2. /\ wire' \in [Names -> Seq(Package)]
          /\ \A j \in Names : wire'[j] \in Seq(OwnPackage(j))
      BY <2>5, <3>1, SendLemma DEF PhoneHeartbeat
    <3> QED BY <1>2, <2>5, <3>2 DEF PhoneHeartbeat, OwnUid, OwnPackages
  <2>6. CASE PhoneClose(k)
    <3>1. phone' \in Phones /\ \A j \in Names : phone'[j].uid = phone[j].uid
      BY <1>2, <2>6 DEF PhoneClose
    <3> QED BY <1>2, <2>6, <3>1 DEF PhoneClose, OwnUid, OwnPackages
  <2> QED BY <2>1, <2>2, <2>3, <2>4, <2>5, <2>6 DEF PhoneStep
<1> QED BY <1>0, <1>1, <1>3, ServerUnchanged DEF SInv, TypeOK

---------------------------------------------------------------------------
(* The callbacks. *)

\* The two figures follow the table when a connection is accepted.
LEMMA AcceptStep ==
    ASSUME SInv, NEW fd \in Fd, accept_cb(fd)
    PROVE  SInv'
<1>1. /\ TableStep /\ created' \in 0..MaxClients
      /\ Sessions' = Sessions \cup {created + 1} /\ created' = created + 1
      /\ created \in Nat /\ created + 1 \in Names
  <2>1. created \in Nat /\ created < MaxClients /\ created' = created + 1
    BY ServerAssumption DEF SInv, TypeOK, accept_cb
  <2> QED BY <2>1, AcceptTable, ServerAssumption DEF Names
<1>2. StatsAgree' /\ stats' \in [total_connections : Nat, active_connections : Nat]
  <2>1. created + 1 \notin Sessions
    BY <1>1, SessionNames
  <2>2. /\ Cardinality(Sessions') = Cardinality(Sessions) + 1
        /\ Cardinality(Sessions) \in Nat
    BY <1>1, <2>1, SessionNames, FS_AddElement, FS_CardinalityType
  <2>3. /\ stats.active_connections = Cardinality(Sessions)
        /\ stats.total_connections = created
    BY DEF SInv, StatsAgree, ya_client_get_count, Sessions
  <2>4. stats' = [total_connections |-> stats.total_connections + 1,
                  active_connections |-> stats.active_connections + 1]
    BY DEF accept_cb, ya_server_stats_inc_connections
  <2> QED BY <1>1, <2>2, <2>3, <2>4 DEF StatsAgree, ya_client_get_count, Sessions
<1>3. /\ phone' \in [Names -> [open : BOOLEAN, asked : BOOLEAN, uid : 0..MaxUid,
                               sent : 0..MaxIndex]]
      /\ \A j \in Names : phone'[j].uid = phone[j].uid
  <2>1. phone' = [phone EXCEPT ![created + 1].open = TRUE]
    BY DEF accept_cb
  <2> QED BY <1>1, <2>1 DEF SInv, TypeOK
<1>4. UNCHANGED <<command_index, protocol_version, inbuf, wire, udp, reply, done, late>>
  BY DEF accept_cb
<1>5. TypeOK'
  BY <1>1, <1>2, <1>3, <1>4 DEF TableStep, SInv, TypeOK
<1>6. OwnUid' /\ OwnPackages' /\ Executed'
  BY <1>3, <1>4 DEF SInv, OwnUid, OwnPackages, Executed
<1> QED BY <1>1, <1>2, <1>5, <1>6 DEF SInv, TableStep

\* And when one is closed.
LEMMA CloseStep ==
    ASSUME SInv, NEW k \in Names, conn_eventcb(k)
    PROVE  SInv'
<1>1. TableStep /\ k \in Sessions /\ Sessions' = Sessions \ {k}
  BY CloseTable
<1>2. StatsAgree' /\ stats' \in [total_connections : Nat, active_connections : Nat]
  <2>1. /\ Cardinality(Sessions') = Cardinality(Sessions) - 1
        /\ Cardinality(Sessions) \in Nat /\ Cardinality(Sessions') \in Nat
    <3>1. IsFiniteSet(Sessions)
      BY SessionNames
    <3> QED BY <1>1, <3>1, FS_RemoveElement, FS_CardinalityType
  <2>2. /\ stats.active_connections = Cardinality(Sessions)
        /\ stats.total_connections = created
        /\ stats \in [total_connections : Nat, active_connections : Nat]
    BY DEF SInv, TypeOK, StatsAgree, ya_client_get_count, Sessions
  <2>3. stats.active_connections > 0
    BY <2>1, <2>2
  <2>4. stats' = [stats EXCEPT !.active_connections = stats.active_connections - 1]
    BY <2>3 DEF conn_eventcb, ya_server_stats_dec_connections
  <2>5. /\ stats'.active_connections = Cardinality(Sessions')
        /\ stats'.total_connections = created
        /\ stats' \in [total_connections : Nat, active_connections : Nat]
    BY <2>1, <2>2, <2>4
  <2>6. created' = created
    BY DEF conn_eventcb
  <2> QED BY <2>5, <2>6 DEF StatsAgree, ya_client_get_count, Sessions
<1>3. /\ phone' \in [Names -> [open : BOOLEAN, asked : BOOLEAN, uid : 0..MaxUid,
                               sent : 0..MaxIndex]]
      /\ \A j \in Names : phone'[j].uid = phone[j].uid
  <2>1. phone' = [phone EXCEPT ![k].open = FALSE]
    BY DEF conn_eventcb
  <2> QED BY <2>1 DEF SInv, TypeOK
<1>4. UNCHANGED <<created, command_index, protocol_version, udp, done, late>>
  BY DEF conn_eventcb
<1>5. /\ reply' \in [Names -> 0..MaxUid]
      /\ \A j \in Names : reply'[j] \in {0, j}
  <2>1. reply' = [reply EXCEPT ![k] = 0]
    BY DEF conn_eventcb
  <2> QED BY <2>1, MaxUidAssumption DEF SInv, TypeOK, OwnUid
<1>6. /\ inbuf' \in [Names -> Seq(Package)] /\ wire' \in [Names -> Seq(Package)]
      /\ \A j \in Names : inbuf'[j] \in Seq(OwnPackage(j)) /\ wire'[j] \in Seq(OwnPackage(j))
  <2>1. inbuf' = [inbuf EXCEPT ![k] = <<>>] /\ wire' = [wire EXCEPT ![k] = <<>>]
    BY DEF conn_eventcb
  <2>2. <<>> \in Seq(Package) /\ <<>> \in Seq(OwnPackage(k))
    BY EmptySeq
  <2>3. /\ inbuf \in [Names -> Seq(Package)] /\ wire \in [Names -> Seq(Package)]
        /\ \A j \in Names : inbuf[j] \in Seq(OwnPackage(j)) /\ wire[j] \in Seq(OwnPackage(j))
    BY DEF SInv, TypeOK, OwnPackages
  <2> QED BY <2>1, <2>2, <2>3
<1>7. TypeOK'
  BY <1>1, <1>2, <1>3, <1>4, <1>5, <1>6 DEF TableStep, SInv, TypeOK
<1>8. OwnUid' /\ OwnPackages' /\ Executed'
  BY <1>3, <1>4, <1>5, <1>6 DEF SInv, OwnUid, OwnPackages, Executed
<1> QED BY <1>1, <1>2, <1>7, <1>8 DEF SInv, TableStep

\* What dispatch may change, with the table left as it was, keeps SInv.
LEMMA HandledStep ==
    ASSUME SInv, NEW k \in Names, Handled1(k),
           UNCHANGED <<mgr, created, stats, udp, phone>>,
           inbuf' \in [Names -> Seq(Package)], wire' \in [Names -> Seq(Package)],
           \A j \in Names : inbuf'[j] \in Seq(OwnPackage(j)) /\ wire'[j] \in Seq(OwnPackage(j))
    PROVE  SInv'
<1>1. /\ command_index' \in [Names -> 0..MaxIndex] /\ done' \in [Names -> Seq(Index)]
      /\ Executed'
  BY ExecutedLemma
<1>2. Table' /\ StatsAgree'
  BY DEF SInv, Table, StatsAgree, ya_client_get_count, Sessions, ActiveClients
<1>3. OwnUid' /\ OwnPackages'
  BY DEF SInv, OwnUid, OwnPackages, Handled1
<1>4. TypeOK'
  BY <1>1 DEF SInv, TypeOK, Handled1
<1> QED BY <1>1, <1>2, <1>3, <1>4 DEF SInv

\* The bytes that arrive are the phone's own packages, in order.
LEMMA ReadStep ==
    ASSUME SInv, NEW k \in Names, NEW n \in 0..Len(wire[k]), conn_readcb(k, n)
    PROVE  SInv' /\ k \in Sessions /\ Handled1(k) /\ UNCHANGED <<mgr, created>>
<1> DEFINE buffer == inbuf[k] \o SubSeq(wire[k], 1, n)
<1>1. k \in Sessions
  BY SessionNames DEF conn_readcb
<1>2. /\ inbuf \in [Names -> Seq(Package)] /\ wire \in [Names -> Seq(Package)]
      /\ \A j \in Names : inbuf[j] \in Seq(OwnPackage(j)) /\ wire[j] \in Seq(OwnPackage(j))
  BY DEF SInv, TypeOK, OwnPackages
<1>3. Len(wire[k]) \in Nat /\ n \in Nat /\ \A i \in 1..Len(wire[k]) : wire[k][i] \in OwnPackage(k)
  <2>1. Len(wire[k]) \in Nat /\ \A i \in 1..Len(wire[k]) : wire[k][i] \in OwnPackage(k)
    BY <1>2, LenProperties, ElementOfSeq
  <2> QED BY <2>1
<1>4. SubSeq(wire[k], 1, n) \in Seq(OwnPackage(k))
  <2>1. \A i \in 1..n : wire[k][i] \in OwnPackage(k)
    BY <1>3
  <2> QED BY <1>3, <2>1, SubSeqProperties
<1>5. SubSeq(wire[k], n + 1, Len(wire[k])) \in Seq(OwnPackage(k))
  <2>1. \A i \in (n + 1)..Len(wire[k]) : wire[k][i] \in OwnPackage(k)
    BY <1>3
  <2> QED BY <1>3, <2>1, SubSeqProperties
<1>6. buffer \in Seq(OwnPackage(k))
  BY <1>2, <1>4, ConcatProperties
<1>7. buffer # <<>> => Head(buffer) \in OwnPackage(k) /\ Tail(buffer) \in Seq(OwnPackage(k))
  <2> HIDE DEF buffer
  <2> QED BY <1>6, HeadTailProperties
<1>8. wire' = [wire EXCEPT ![k] = SubSeq(@, n + 1, Len(@))]
      /\ UNCHANGED <<created, stats, udp, phone>>
  BY DEF conn_readcb
<1>9. UNCHANGED mgr /\ Handled1(k) /\ \E s \in Seq(OwnPackage(k)) : inbuf' = [inbuf EXCEPT ![k] = s]
  <2>1. CASE mgr.clients[k].state = ACTIVE /\ buffer # <<>>
    <3>1. /\ inbuf' = [inbuf EXCEPT ![k] = Drained(buffer)]
          /\ mgr' = UnderReference(mgr, k)
          /\ process_server_event(k, Head(buffer))
      BY <2>1 DEF conn_readcb
    <3>2. UNCHANGED mgr
      BY <1>1, <3>1, UnderReferenceLemma
    <3>3. Handled1(k)
      <4> HIDE DEF buffer
      <4> QED BY <1>1, <1>7, <2>1, <3>1, DispatchLemma
    <3> QED BY <1>7, <2>1, <3>1, <3>2, <3>3 DEF Drained
  <2>2. CASE ~ (mgr.clients[k].state = ACTIVE /\ buffer # <<>>)
    <3>1. /\ inbuf' = [inbuf EXCEPT ![k] = buffer]
          /\ UNCHANGED <<mgr, command_index, protocol_version, reply, done, late>>
      BY <2>2 DEF conn_readcb
    <3>2. Handled1(k)
      BY <3>1 DEF Handled1, SInv, TypeOK, OwnUid
    <3> QED BY <1>6, <3>1, <3>2
  <2> QED BY <2>1, <2>2
<1>10. /\ inbuf' \in [Names -> Seq(Package)] /\ wire' \in [Names -> Seq(Package)]
       /\ \A j \in Names : inbuf'[j] \in Seq(OwnPackage(j)) /\ wire'[j] \in Seq(OwnPackage(j))
  <2>1. PICK s \in Seq(OwnPackage(k)) : inbuf' = [inbuf EXCEPT ![k] = s]
    BY <1>9
  <2>2. s \in Seq(Package) /\ SubSeq(wire[k], n + 1, Len(wire[k])) \in Seq(Package)
    BY <1>5, OwnSeq
  <2> QED BY <1>2, <1>5, <1>8, <2>1, <2>2
<1>11. SInv'
  BY <1>8, <1>9, <1>10, HandledStep
<1> QED BY <1>1, <1>8, <1>9, <1>11

\* A datagram is handled for its own session, or finds none.
LEMMA DatagramStep ==
    ASSUME SInv, NEW p \in udp, udp_readcb(p)
    PROVE  /\ SInv' /\ UNCHANGED <<mgr, created>>
           /\ done' = done \/ (p.from \in Sessions /\ Handled1(p.from))
<1>1. p \in OwnPackage(p.from) /\ p.type \in CommandTypes /\ p \in Package
  BY DEF SInv, OwnPackages, TypeOK
<1>2. p.uid = p.from /\ p.from \in Names /\ p.uid \in 0..MaxUid
  BY <1>1, CommandTypesLemma DEF OwnPackage, Package
<1>3. UNCHANGED <<mgr, created, stats, inbuf, wire, udp, phone>>
  BY DEF udp_readcb
<1>4. CASE p.from \in Sessions
  <2>1. process_server_event(p.from, p)
    BY <1>2, <1>4, FindByUid DEF udp_readcb
  <2>2. Handled1(p.from)
    BY <1>1, <1>4, <2>1, DispatchLemma
  <2>3. SInv'
    BY <1>2, <1>3, <2>2, HandledStep DEF SInv, TypeOK, OwnPackages
  <2> QED BY <1>3, <1>4, <2>2, <2>3
<1>5. CASE p.from \notin Sessions
  <2>1. process_server_event(NoClient, p)
    BY <1>2, <1>5, FindByUid DEF udp_readcb
  <2>2. /\ UNCHANGED <<command_index, done, protocol_version, reply>>
        /\ late' \in [Names -> SUBSET Index]
    BY <2>1, LateLemma
  <2>3. TypeOK'
    BY <1>3, <2>2 DEF SInv, TypeOK
  <2>4. Table' /\ StatsAgree' /\ OwnUid' /\ OwnPackages' /\ Executed'
    BY <1>3, <2>2 DEF SInv, Table, StatsAgree, ya_client_get_count, Sessions, ActiveClients,
                      OwnUid, OwnPackages, Executed
  <2> QED BY <1>3, <2>2, <2>3, <2>4 DEF SInv
<1> QED BY <1>4, <1>5

---------------------------------------------------------------------------
(* The theorems. *)

LEMMA InitInv == Init => SInv
<1> SUFFICES ASSUME Init PROVE SInv
  OBVIOUS
<1>1. /\ created = 0 /\ mgr.client_count = 0 /\ mgr.next_uid = 1
      /\ mgr = [clients |-> mgr.clients, client_count |-> mgr.client_count,
                next_uid |-> mgr.next_uid]
      /\ DOMAIN mgr.clients = {}
      /\ mgr.clients \in [DOMAIN mgr.clients -> ClientRecord]
  BY DEF Init, ya_client_manager_init
<1>2. 1..created = {} /\ Sessions = {}
  BY <1>1 DEF Sessions, ActiveClients
<1>3. TypeOK
  BY <1>1, <1>2, MaxUidAssumption, ServerAssumption, EmptySeq DEF Init, TypeOK
<1>4. Table
  BY <1>1, <1>2, MaxUidAssumption DEF Table
<1>5. OwnUid /\ OwnPackages /\ Executed
  BY EmptySeq DEF Init, OwnUid, OwnPackages, Executed
<1>6. StatsAgree
  BY <1>1, <1>2, FS_EmptySet DEF Init, StatsAgree, ya_client_get_count, Sessions
<1> QED BY <1>3, <1>4, <1>5, <1>6 DEF SInv

\* SInv is inductive.
THEOREM Invariance == Spec => []SInv
<1>1. SInv /\ [Next]_vars => SInv'
  <2> SUFFICES ASSUME SInv, [Next]_vars PROVE SInv'
    OBVIOUS
  <2>1. ASSUME NEW fd \in Fd, accept_cb(fd) PROVE SInv'
    BY <2>1, AcceptStep
  <2>2. ASSUME NEW k \in Names, PhoneStep(k) PROVE SInv'
    BY <2>2, PhoneLemma
  <2>3. ASSUME NEW k \in Names, conn_eventcb(k) PROVE SInv'
    BY <2>3, CloseStep
  <2>4. ASSUME NEW k \in Names, NEW n \in 0..Len(wire[k]), conn_readcb(k, n) PROVE SInv'
    BY <2>4, ReadStep
  <2>5. ASSUME NEW p \in udp, udp_readcb(p) PROVE SInv'
    BY <2>5, DatagramStep
  <2>6. CASE UNCHANGED vars
    BY <2>6 DEF vars, SInv, TypeOK, Table, Sessions, ActiveClients, OwnUid, OwnPackages,
                Executed, StatsAgree, ya_client_get_count
  <2> QED BY <2>1, <2>2, <2>3, <2>4, <2>5, <2>6 DEF Next
<1> QED BY <1>1, InitInv, PTL DEF Spec

\* The server's state is well typed.
THEOREM TypeCorrect == Spec => []TypeOK
<1>1. SInv => TypeOK
  BY DEF SInv
<1> QED BY <1>1, Invariance, PTL

\* Every phone is told its own uid, however descriptors are reused.
THEOREM OwnUidAnswered == Spec => []AuthorizeAnswersOwnUid
<1>1. SInv => AuthorizeAnswersOwnUid
  <2> SUFFICES ASSUME SInv, NEW k \in Sessions,
                      NEW uid \in {reply[k], phone[k].uid} \ {0}
               PROVE  ya_client_find_by_uid(mgr, uid) = k
    BY DEF AuthorizeAnswersOwnUid
  <2>1. k \in Names /\ k \in 0..MaxUid
    BY SessionName
  <2>2. uid = k
    BY <2>1 DEF SInv, OwnUid
  <2> QED BY <2>1, <2>2, FindByUid
<1> QED BY <1>1, Invariance, PTL

\* An index is spent only by executing its command.
THEOREM IndexSpentByExecution == Spec => []IndexIsLastExecuted
<1>1. SInv => IndexIsLastExecuted
  BY SessionName DEF SInv, Executed, IndexIsLastExecuted
<1> QED BY <1>1, Invariance, PTL

\* The figures of the status page agree with the table.
THEOREM FiguresAgree == Spec => []StatsAgree
<1>1. SInv => StatsAgree
  BY DEF SInv
<1> QED BY <1>1, Invariance, PTL

\* The channel implements CommandLog: the commands of a session are executed
\* in increasing order, none twice, over both transports.
THEOREM ImplementsCommandLog == Spec => CommandsInOrder
<1> DEFINE session == [k \in Names |-> IF k > created THEN "none"
                                       ELSE IF k \in Sessions THEN "open" ELSE "closed"]
<1>1. Init => Log!Init
  <2> SUFFICES ASSUME Init PROVE Log!Init
    OBVIOUS
  <2>1. created = 0 /\ done = [k \in Names |-> <<>>]
    BY DEF Init
  <2>2. session = [k \in Names |-> "none"]
    BY <2>1, ServerAssumption DEF Names
  <2> QED BY <2>1, <2>2 DEF Log!Init
<1>2. SInv /\ SInv' /\ [Next]_vars => [Log!Next]_(Log!vars)
  <2> SUFFICES ASSUME SInv, SInv', [Next]_vars PROVE [Log!Next]_(Log!vars)
    OBVIOUS
  <2>1. ASSUME NEW fd \in Fd, accept_cb(fd) PROVE Log!Next
    <3>1. /\ created \in Nat /\ created + 1 \in Names /\ created' = created + 1
          /\ UNCHANGED done
      BY <2>1, ServerAssumption DEF accept_cb, SInv, TypeOK, Names
    <3>2. Sessions' = Sessions \cup {created + 1} /\ Sessions \subseteq 1..created
      BY <2>1, AcceptTable, SessionNames
    <3>3. session[created + 1] = "none"
      BY <3>1
    <3>4. session' = [session EXCEPT ![created + 1] = "open"]
      <4>1. \A k \in Names : session'[k] = IF k = created + 1 THEN "open" ELSE session[k]
        BY <3>1, <3>2 DEF Names
      <4>2. session' = [k \in Names |-> session'[k]] /\ session = [k \in Names |-> session[k]]
        BY DEF Names
      <4> HIDE DEF session
      <4> QED BY <4>1, <4>2
    <3>5. \A s \in Names : s = created + 1 => Log!Open(s)
      BY <3>1, <3>3, <3>4 DEF Log!Open
    <3>6. \A s \in Names : Log!Open(s) => Log!Next
      BY DEF Log!Next
    <3> QED BY <3>1, <3>5, <3>6
  <2>2. ASSUME NEW k \in Names, PhoneStep(k) PROVE UNCHANGED Log!vars
    BY <2>2, PhoneLemma DEF Log!vars, Sessions, ActiveClients
  <2>3. ASSUME NEW k \in Names, conn_eventcb(k) PROVE Log!Next
    <3>1. UNCHANGED <<created, done>> /\ created \in Nat
      BY <2>3 DEF conn_eventcb, SInv, TypeOK
    <3>2. k \in Sessions /\ Sessions' = Sessions \ {k} /\ Sessions \subseteq 1..created
      BY <2>3, CloseTable, SessionNames
    <3>3. session[k] = "open" /\ session' = [session EXCEPT ![k] = "closed"]
      <4>1. session[k] = "open"
        BY <3>1, <3>2 DEF Names
      <4>2. \A j \in Names : session'[j] = IF j = k THEN "closed" ELSE session[j]
        BY <3>1, <3>2 DEF Names
      <4>3. session' = [j \in Names |-> session'[j]] /\ session = [j \in Names |-> session[j]]
        BY DEF Names
      <4> HIDE DEF session
      <4> QED BY <4>1, <4>2, <4>3
    <3>4. Log!Close(k)
      BY <3>1, <3>3 DEF Log!Close
    <3> QED BY <3>4 DEF Log!Next
  <2>4. ASSUME NEW k \in Sessions, Handled1(k), UNCHANGED <<mgr, created>>
        PROVE  Log!Next \/ UNCHANGED Log!vars
    <3>1. session' = session
      BY <2>4 DEF Sessions, ActiveClients
    <3>2. CASE UNCHANGED done
      BY <3>1, <3>2 DEF Log!vars
    <3>3. ASSUME NEW i \in Index, i > command_index[k],
                 done' = [done EXCEPT ![k] = Append(@, i)]
          PROVE  Log!Next
      <4>1. k \in Names /\ k <= created /\ created \in Nat
        <5>1. k \in Names
          BY SessionName
        <5>2. created \in Nat
          BY DEF SInv, TypeOK
        <5>3. k \in 1..created
          BY SessionNames
        <5> QED BY <5>1, <5>2, <5>3
      <4>2. session[k] = "open"
        BY <4>1 DEF Names
      <4>3. \A n \in 1..Len(done[k]) : done[k][n] < i
        <5>1. \A n \in 1..Len(done[k]) : done[k][n] <= command_index[k]
          BY <4>1 DEF SInv, Executed
        <5>2. command_index[k] \in Nat /\ done[k] \in Seq(Index)
          BY <4>1 DEF SInv, TypeOK
        <5>3. \A n \in 1..Len(done[k]) : done[k][n] \in Nat
          <6>1. \A n \in 1..Len(done[k]) : done[k][n] \in Index
            BY <5>2, ElementOfSeq
          <6> QED BY <6>1 DEF Index
        <5> QED BY <3>3, <5>1, <5>2, <5>3 DEF Index
      <4>4. Log!Execute(k, i)
        BY <3>1, <3>3, <4>2, <4>3 DEF Log!Execute
      <4> QED BY <4>1, <4>4 DEF Log!Next
    <3> QED BY <2>4, <3>2, <3>3 DEF Handled1
  <2>5. ASSUME NEW k \in Names, NEW n \in 0..Len(wire[k]), conn_readcb(k, n)
        PROVE  Log!Next \/ UNCHANGED Log!vars
    BY <2>4, <2>5, ReadStep
  <2>6. ASSUME NEW p \in udp, udp_readcb(p) PROVE Log!Next \/ UNCHANGED Log!vars
    <3>1. /\ UNCHANGED <<mgr, created>>
          /\ done' = done \/ (p.from \in Sessions /\ Handled1(p.from))
      BY <2>6, DatagramStep
    <3>2. CASE done' = done
      BY <3>1, <3>2 DEF Log!vars, Sessions, ActiveClients
    <3> QED BY <2>4, <3>1, <3>2
  <2>7. CASE UNCHANGED vars
    BY <2>7 DEF vars, Log!vars, Sessions, ActiveClients
  <2> QED BY <2>1, <2>2, <2>3, <2>5, <2>6, <2>7 DEF Next
<1> QED BY <1>1, <1>2, Invariance, PTL DEF Spec, CommandsInOrder, Log!Spec

\* The server keeps to the client manager's rules, so that what is proved of
\* ClientManager holds of the server's table.
THEOREM KeepsManagerRules == Spec => UsesManagerCorrectly
<1>1. Init => Manager!Init
  <2> SUFFICES ASSUME Init PROVE Manager!Init
    OBVIOUS
  <2>1. Sessions = {}
    BY DEF Init, ya_client_manager_init, Sessions, ActiveClients
  <2>2. /\ mgr = ya_client_manager_init /\ created = 0
        /\ ya_client_manager_init = Manager!ya_client_manager_init
    BY DEF Init, ya_client_manager_init, Manager!ya_client_manager_init,
           NoClient, Manager!NoClient
  <2> QED BY <2>1, <2>2 DEF Manager!Init, Names, Manager!Names
<1>2. SInv /\ SInv' /\ [Next]_vars => [Manager!Next]_(Manager!vars)
  <2> SUFFICES ASSUME SInv, SInv', [Next]_vars PROVE [Manager!Next]_(Manager!vars)
    OBVIOUS
  <2>1. ASSUME NEW fd \in Fd, accept_cb(fd) PROVE Manager!Next
    <3>1. /\ created < MaxClients /\ created' = created + 1
          /\ mgr' = ya_client_create(mgr, created + 1, fd)
      BY <2>1 DEF accept_cb
    <3>2. Sessions' = Sessions \cup {created + 1}
      BY <2>1, AcceptTable
    <3>3. \A k \in Sessions : mgr.clients[k].fd # fd
      BY <2>1 DEF accept_cb, SInv, Table, Sessions, ActiveClients
    <3>4. Manager!Accept(fd)
      BY <3>1, <3>2, <3>3 DEF Manager!Accept, Manager!ya_client_create, ya_client_create,
         Manager!UidAfter, UidAfter, Manager!ACTIVE, ACTIVE
    <3> QED BY <3>4 DEF Manager!Next
  <2>2. ASSUME NEW k \in Names, conn_eventcb(k) PROVE Manager!Next
    <3>1. k \in Sessions /\ Sessions' = Sessions \ {k}
      BY <2>2, CloseTable
    <3>2. mgr' = Disconnect(mgr, k) /\ UNCHANGED created
      BY <2>2 DEF conn_eventcb
    <3>3. Disconnect(mgr, k) = Manager!Disconnect(mgr, k)
      BY DEF Disconnect, ya_client_unref, Freed, DISCONNECTING, DISCONNECTED,
             Manager!Disconnect, Manager!ya_client_unref, Manager!Freed,
             Manager!DISCONNECTING, Manager!DISCONNECTED
    <3>4. Manager!Close(k)
      BY <3>1, <3>2, <3>3 DEF Manager!Close
    <3> QED BY <3>4 DEF Manager!Next, Names, Manager!Names
  <2>3. ASSUME UNCHANGED <<mgr, created>> PROVE UNCHANGED Manager!vars
    BY <2>3 DEF Manager!vars, Sessions, ActiveClients
  <2>4. ASSUME NEW k \in Names, PhoneStep(k) PROVE UNCHANGED Manager!vars
    BY <2>3, <2>4, PhoneLemma
  <2>5. ASSUME NEW k \in Names, NEW n \in 0..Len(wire[k]), conn_readcb(k, n)
        PROVE  UNCHANGED Manager!vars
    BY <2>3, <2>5, ReadStep
  <2>6. ASSUME NEW p \in udp, udp_readcb(p) PROVE UNCHANGED Manager!vars
    BY <2>3, <2>6, DatagramStep
  <2>7. CASE UNCHANGED vars
    BY <2>3, <2>7 DEF vars
  <2> QED BY <2>1, <2>2, <2>4, <2>5, <2>6, <2>7 DEF Next
<1> QED BY <1>1, <1>2, Invariance, PTL DEF Spec, UsesManagerCorrectly, Manager!Spec


---------------------------------------------------------------------------
(* A stream of its own. *)

\* Nothing is under way on a connection that was not accepted yet.
Fresh ==
    \A k \in Names :
        k > created =>
            /\ inbuf[k] = <<>> /\ wire[k] = <<>> /\ done[k] = <<>>
            /\ phone[k].sent = 0 /\ ~ phone[k].open

Streams == Fresh /\ TcpLossless

LEMMA CarriesNone ==
    ASSUME NEW n \in Nat
    PROVE  Carries(<<>>, n + 1, n)
<1>1. DOMAIN <<>> = {} /\ (n + 1)..n = {}
  OBVIOUS
<1> QED BY <1>1 DEF Carries

\* A package joins the stream.
LEMMA CarriesAppend ==
    ASSUME NEW s \in Seq(Package), NEW q \in Package, NEW f \in Nat, NEW l \in Nat, f <= l + 1, Carries(s, f, l)
    PROVE  /\ ~ need_command_index_check(q.type) => Carries(Append(s, q), f, l)
           /\ need_command_index_check(q.type) /\ q.index = l + 1 => Carries(Append(s, q), f, l + 1)
<1> DEFINE t == Append(s, q)
           C(u) == {i \in DOMAIN u : need_command_index_check(u[i].type)}
<1>1. /\ Len(s) \in Nat /\ DOMAIN s = 1..Len(s) /\ DOMAIN t = 1..(Len(s) + 1)
      /\ t[Len(s) + 1] = q /\ \A i \in 1..Len(s) : t[i] = s[i]
  OBVIOUS
<1>2. /\ {s[i].index : i \in C(s)} = f..l
      /\ \A i, j \in C(s) : i < j => s[i].index < s[j].index
  BY DEF Carries
<1>3. /\ \A i \in C(s) : i \in C(t) /\ t[i] = s[i] /\ i \in 1..Len(s) /\ s[i].index \in f..l
      /\ \A i \in C(t) : i \in C(s) \/ i = Len(s) + 1
  <2> HIDE DEF t
  <2> QED BY <1>1, <1>2
<1> HIDE DEF t
<1>4. CASE ~ need_command_index_check(q.type)
  <2>1. C(t) = C(s)
    BY <1>1, <1>3, <1>4
  <2> HIDE DEF C
  <2>2. {t[i].index : i \in C(t)} = {s[i].index : i \in C(s)}
    BY <1>3, <2>1
  <2>3. \A i, j \in C(t) : i < j => t[i].index < t[j].index
    BY <1>2, <1>3, <2>1
  <2> QED BY <1>2, <1>4, <2>2, <2>3, Zenon DEF Carries, C, t
<1>5. CASE need_command_index_check(q.type) /\ q.index = l + 1
  <2>1. Len(s) + 1 \in C(t) /\ t[Len(s) + 1].index = l + 1
    BY <1>1, <1>5
  <2> HIDE DEF C
  <2>2. {t[i].index : i \in C(t)} = f..(l + 1)
    <3>1. ASSUME NEW i \in C(t) PROVE t[i].index \in f..(l + 1)
      BY <1>3, <2>1
    <3>2. ASSUME NEW n \in f..(l + 1) PROVE \E i \in C(t) : t[i].index = n
      <4>1. CASE n = l + 1
        BY <2>1, <4>1
      <4>2. CASE n \in f..l
        <5>1. PICK i \in C(s) : s[i].index = n
          BY <1>2, <4>2
        <5> QED BY <1>3, <5>1
      <4> QED BY <4>1, <4>2
    <3> QED BY <3>1, <3>2
  <2>3. ASSUME NEW i \in C(t), NEW j \in C(t), i < j PROVE t[i].index < t[j].index
    <3>1. i \in C(s)
      <4>1. i = Len(s) + 1 => j \in 1..Len(s) \/ j = Len(s) + 1
        BY <1>3
      <4> QED BY <1>1, <1>3, <2>3, <4>1
    <3>2. CASE j \in C(s)
      BY <1>2, <1>3, <2>3, <3>1, <3>2
    <3>3. CASE j = Len(s) + 1
      <4>1. t[i].index \in f..l /\ t[j].index = l + 1
        BY <1>3, <2>1, <3>1, <3>3
      <4> QED BY <4>1
    <3> QED BY <1>3, <3>2, <3>3
  <2> QED BY <1>5, <2>2, <2>3, Zenon DEF Carries, C, t
<1> QED BY <1>4, <1>5 DEF t

\* The first package leaves the stream.
LEMMA CarriesTail ==
    ASSUME NEW s \in Seq(Package), s # <<>>, NEW f \in Nat, NEW l \in Nat, Carries(s, f, l)
    PROVE  /\ ~ need_command_index_check(s[1].type) => Carries(Tail(s), f, l)
           /\ need_command_index_check(s[1].type) => s[1].index = f /\ f <= l /\ Carries(Tail(s), f + 1, l)
<1> DEFINE t == Tail(s)
           C(u) == {i \in DOMAIN u : need_command_index_check(u[i].type)}
<1>1. /\ Len(s) \in Nat \ {0} /\ DOMAIN s = 1..Len(s) /\ DOMAIN t = 1..(Len(s) - 1)
      /\ \A i \in 1..(Len(s) - 1) : t[i] = s[i + 1]
  BY EmptySeq, HeadTailProperties, LenProperties
<1>2. /\ {s[i].index : i \in C(s)} = f..l
      /\ \A i, j \in C(s) : i < j => s[i].index < s[j].index
  BY DEF Carries
<1> HIDE DEF t
<1>3. /\ \A i \in C(t) : i + 1 \in C(s) /\ t[i] = s[i + 1] /\ s[i + 1].index \in f..l /\ i \in Nat \ {0}
      /\ \A i \in C(s) : i = 1 \/ (i - 1 \in C(t) /\ t[i - 1] = s[i])
      /\ \A i \in C(s) : i \in Nat \ {0} /\ s[i].index \in f..l
      /\ 1 \in C(s) <=> need_command_index_check(s[1].type)
  <2>1. ASSUME NEW i \in C(t) PROVE i + 1 \in C(s) /\ t[i] = s[i + 1] /\ i \in Nat \ {0}
    BY <1>1
  <2>2. ASSUME NEW i \in C(s), i # 1 PROVE i - 1 \in C(t) /\ t[i - 1] = s[i]
    <3>1. i \in 1..Len(s) /\ i - 1 \in 1..(Len(s) - 1) /\ (i - 1) + 1 = i
      BY <1>1, <2>2
    <3>2. t[i - 1] = s[i]
      BY <1>1, <3>1
    <3> QED BY <1>1, <3>1, <3>2
  <2>3. ASSUME NEW i \in C(s) PROVE i \in Nat \ {0} /\ s[i].index \in f..l
    BY <1>1, <1>2
  <2>4. 1 \in C(s) <=> need_command_index_check(s[1].type)
    BY <1>1
  <2> QED BY <2>1, <2>2, <2>3, <2>4
<1>4. \A i, j \in C(t) : i < j => t[i].index < t[j].index
  <2> HIDE DEF C
  <2> SUFFICES ASSUME NEW i \in C(t), NEW j \in C(t), i < j PROVE t[i].index < t[j].index
    OBVIOUS
  <2>1. i + 1 \in C(s) /\ j + 1 \in C(s) /\ t[i] = s[i + 1] /\ t[j] = s[j + 1] /\ i + 1 < j + 1
    BY <1>3
  <2> QED BY <1>2, <2>1
<1>5. CASE ~ need_command_index_check(s[1].type)
  <2> HIDE DEF C
  <2>1. {t[i].index : i \in C(t)} = f..l
    <3>1. ASSUME NEW i \in C(t) PROVE t[i].index \in f..l
      BY <1>3
    <3>2. ASSUME NEW n \in f..l PROVE \E i \in C(t) : t[i].index = n
      <4>1. PICK i \in C(s) : s[i].index = n
        BY <1>2
      <4> QED BY <1>3, <1>5, <4>1
    <3> QED BY <3>1, <3>2
  <2> QED BY <1>4, <1>5, <2>1, Zenon DEF Carries, C, t
<1>6. CASE need_command_index_check(s[1].type)
  <2> HIDE DEF C
  <2>1. 1 \in C(s) /\ s[1].index \in f..l
    BY <1>3, <1>6
  <2>2. s[1].index = f /\ f <= l
    <3>1. f \in f..l
      BY <2>1
    <3>2. PICK i \in C(s) : s[i].index = f
      BY <1>2, <3>1
    <3>3. i = 1 \/ 1 < i
      BY <1>3
    <3> QED BY <1>2, <2>1, <3>2, <3>3
  <2>3. {t[i].index : i \in C(t)} = (f + 1)..l
    <3>1. ASSUME NEW i \in C(t) PROVE t[i].index \in (f + 1)..l
      <4>1. 1 < i + 1 /\ i + 1 \in C(s) /\ t[i] = s[i + 1] /\ s[i + 1].index \in f..l
        BY <1>3
      <4>2. s[1].index < s[i + 1].index
        BY <1>2, <2>1, <4>1
      <4> QED BY <2>2, <4>1, <4>2
    <3>2. ASSUME NEW n \in (f + 1)..l PROVE \E i \in C(t) : t[i].index = n
      <4>1. n \in f..l /\ n # f
        OBVIOUS
      <4>2. PICK i \in C(s) : s[i].index = n
        BY <1>2, <4>1
      <4>3. i # 1
        BY <2>2, <4>1, <4>2
      <4> QED BY <1>3, <4>2, <4>3
    <3> QED BY <3>1, <3>2
  <2>4. Carries(t, f + 1, l)
    BY <1>4, <2>3, Zenon DEF Carries, C
  <2> QED BY <1>6, <2>2, <2>4 DEF t
<1> QED BY <1>5, <1>6 DEF t
\* What was executed is 1, 2, ..., and the rest of what was sent is in the stream.
Stream(executed, packages, sent) ==
    /\ Len(executed) <= sent
    /\ \A i \in 1..Len(executed) : executed[i] = i
    /\ Carries(packages, Len(executed) + 1, sent)

\* No datagram of phone k was sent.
TcpOnly(k) == \A p \in udp : p.from # k

LEMMA StreamsEach ==
    TcpLossless <=> \A k \in Sessions :
                        TcpOnly(k) => Stream(done[k], inbuf[k] \o wire[k], phone[k].sent)
BY Zenon DEF TcpLossless, TcpOnly, Stream

LEMMA StreamSent ==
    ASSUME NEW d \in Seq(Index), NEW s \in Seq(Package), NEW q \in Package, NEW n \in Nat, Stream(d, s, n)
    PROVE  /\ ~ need_command_index_check(q.type) => Stream(d, Append(s, q), n)
           /\ need_command_index_check(q.type) /\ q.index = n + 1 => Stream(d, Append(s, q), n + 1)
<1>1. Len(d) \in Nat /\ Len(d) + 1 \in Nat /\ Len(d) <= n /\ Len(d) + 1 <= n + 1 /\ Len(d) <= n + 1
  BY LenProperties DEF Stream
<1>2. Carries(s, Len(d) + 1, n)
  BY DEF Stream
<1>3. /\ ~ need_command_index_check(q.type) => Carries(Append(s, q), Len(d) + 1, n)
      /\ need_command_index_check(q.type) /\ q.index = n + 1 => Carries(Append(s, q), Len(d) + 1, n + 1)
  BY <1>1, <1>2, CarriesAppend
<1> QED BY <1>1, <1>3, Zenon DEF Stream

LEMMA StreamHandled ==
    ASSUME NEW d \in Seq(Index), NEW s \in Seq(Package), s # <<>>, NEW n \in Nat, Stream(d, s, n)
    PROVE  /\ ~ need_command_index_check(s[1].type) => Stream(d, Tail(s), n)
           /\ need_command_index_check(s[1].type) =>
                 s[1].index = Len(d) + 1 /\ Stream(Append(d, s[1].index), Tail(s), n)
<1>1. Len(d) \in Nat /\ Len(d) + 1 \in Nat /\ Carries(s, Len(d) + 1, n)
  BY LenProperties DEF Stream
<1>2. CASE ~ need_command_index_check(s[1].type)
  BY <1>1, <1>2, CarriesTail DEF Stream
<1>3. CASE need_command_index_check(s[1].type)
  <2>1. s[1].index = Len(d) + 1 /\ Len(d) + 1 <= n /\ Carries(Tail(s), (Len(d) + 1) + 1, n)
    BY <1>1, <1>3, CarriesTail
  <2> DEFINE e == Append(d, s[1].index)
  <2>2. /\ Len(e) = Len(d) + 1 /\ e[Len(d) + 1] = Len(d) + 1
        /\ \A i \in 1..Len(d) : e[i] = d[i]
    BY <2>1
  <2> HIDE DEF e
  <2>3. \A i \in 1..Len(e) : e[i] = i
    BY <1>1, <2>2 DEF Stream
  <2>4. Stream(e, Tail(s), n)
    BY <2>1, <2>2, <2>3 DEF Stream
  <2> QED BY <1>3, <2>1, <2>4 DEF e
<1> QED BY <1>2, <1>3

\* command_index counts the commands of a stream.
LEMMA StreamIndex ==
    ASSUME SInv, NEW k \in Names, NEW s, NEW n, Stream(done[k], s, n)
    PROVE  command_index[k] = Len(done[k]) /\ Len(done[k]) \in Nat
<1>1. done[k] \in Seq(Index) /\ Len(done[k]) \in Nat /\ (Len(done[k]) = 0 <=> done[k] = <<>>)
  BY EmptySeq, LenProperties DEF SInv, TypeOK
<1>2. command_index[k] = IF done[k] = <<>> THEN 0 ELSE done[k][Len(done[k])]
  BY DEF SInv, Executed
<1> QED BY <1>1, <1>2 DEF Stream

\* A package that is read from the front of a buffer is the front of whatever follows.
LEMMA FrontOfConcat ==
    ASSUME NEW S, NEW s \in Seq(S), NEW t \in Seq(S), s # <<>>
    PROVE  s \o t # <<>> /\ Head(s) = (s \o t)[1] /\ Tail(s) \o t = Tail(s \o t)
<1>1. Len(s) \in Nat \ {0} /\ Len(t) \in Nat
  BY EmptySeq, LenProperties
<1>2. /\ Tail(s) \in Seq(S) /\ Len(Tail(s)) = Len(s) - 1 /\ Head(s) = s[1]
      /\ \A i \in 1..(Len(s) - 1) : Tail(s)[i] = s[i + 1]
  BY HeadTailProperties
<1>3. /\ s \o t \in Seq(S) /\ Len(s \o t) = Len(s) + Len(t)
      /\ \A i \in 1..(Len(s) + Len(t)) : (s \o t)[i] = IF i <= Len(s) THEN s[i] ELSE t[i - Len(s)]
  BY ConcatProperties
<1>4. s \o t # <<>>
  BY <1>1, <1>3
<1>5. /\ Tail(s \o t) \in Seq(S) /\ Len(Tail(s \o t)) = Len(s) + Len(t) - 1
      /\ \A i \in 1..(Len(s) + Len(t) - 1) : Tail(s \o t)[i] = (s \o t)[i + 1]
  <2> DEFINE u == s \o t
  <2> HIDE DEF u
  <2>1. Tail(u) \in Seq(S) /\ Len(Tail(u)) = Len(u) - 1 /\ \A i \in 1..Len(Tail(u)) : Tail(u)[i] = u[i + 1]
    BY <1>3, <1>4, HeadTailProperties DEF u
  <2> QED BY <1>3, <2>1 DEF u
<1>6. /\ Tail(s) \o t \in Seq(S) /\ Len(Tail(s) \o t) = Len(s) + Len(t) - 1
      /\ \A i \in 1..(Len(s) + Len(t) - 1) :
            (Tail(s) \o t)[i] = IF i <= Len(s) - 1 THEN Tail(s)[i] ELSE t[i - (Len(s) - 1)]
  <2> DEFINE r == Tail(s)
  <2>1. r \in Seq(S) /\ Len(r) = Len(s) - 1
    BY <1>2
  <2> HIDE DEF r
  <2>2. /\ r \o t \in Seq(S) /\ Len(r \o t) = Len(r) + Len(t)
        /\ \A i \in 1..(Len(r) + Len(t)) : (r \o t)[i] = IF i <= Len(r) THEN r[i] ELSE t[i - Len(r)]
    BY <2>1, ConcatProperties
  <2>3. Len(r) + Len(t) = Len(s) + Len(t) - 1
    BY <1>1, <2>1
  <2>4. /\ r \o t \in Seq(S) /\ Len(r \o t) = Len(s) + Len(t) - 1
        /\ \A i \in 1..(Len(s) + Len(t) - 1) :
              (r \o t)[i] = IF i <= Len(s) - 1 THEN r[i] ELSE t[i - (Len(s) - 1)]
    BY <2>1, <2>2, <2>3
  <2> QED BY <2>4 DEF r
<1>7. ASSUME NEW i \in 1..(Len(s) + Len(t) - 1) PROVE (Tail(s) \o t)[i] = Tail(s \o t)[i]
  <2>1. Tail(s \o t)[i] = IF i + 1 <= Len(s) THEN s[i + 1] ELSE t[(i + 1) - Len(s)]
    BY <1>1, <1>3, <1>5
  <2>2. (i + 1) - Len(s) = i - (Len(s) - 1) /\ (i + 1 <= Len(s) <=> i <= Len(s) - 1)
    BY <1>1
  <2>3. i <= Len(s) - 1 => Tail(s)[i] = s[i + 1]
    BY <1>1, <1>2
  <2> QED BY <1>6, <2>1, <2>2, <2>3
<1>8. Tail(s) \o t = Tail(s \o t)
  BY <1>5, <1>6, <1>7, SeqEqual
<1> QED BY <1>2, <1>1, <1>3, <1>4, <1>8

\* Packages that move from the wire to the buffer stay where they are in the stream.
LEMMA MovedPackages ==
    ASSUME NEW S, NEW b \in Seq(S), NEW w \in Seq(S), NEW n \in 0..Len(w)
    PROVE  (b \o SubSeq(w, 1, n)) \o SubSeq(w, n + 1, Len(w)) = b \o w
<1>1. Len(w) \in Nat /\ n \in Nat /\ n <= Len(w)
  BY LenProperties
<1>2. SubSeq(w, 1, n) \o SubSeq(w, n + 1, Len(w)) = SubSeq(w, 1, Len(w))
  <2>1. 1 \in 1..(Len(w) + 1) /\ n \in (1 - 1)..Len(w) /\ Len(w) \in n..Len(w)
    BY <1>1
  <2> QED BY <2>1, ConcatAdjacentSubSeq, Zenon
<1>3. SubSeq(w, 1, n) \in Seq(S) /\ SubSeq(w, n + 1, Len(w)) \in Seq(S)
  BY <1>1
<1>4. ASSUME NEW x \in Seq(S), NEW v \in Seq(S) PROVE (b \o x) \o v = b \o (x \o v)
  BY ConcatAssociative
<1>5. SubSeq(w, 1, Len(w)) = w
  BY SubSeqFull
<1>6. (b \o SubSeq(w, 1, n)) \o SubSeq(w, n + 1, Len(w)) = b \o (SubSeq(w, 1, n) \o SubSeq(w, n + 1, Len(w)))
  <2> DEFINE x == SubSeq(w, 1, n)
             v == SubSeq(w, n + 1, Len(w))
  <2>1. x \in Seq(S) /\ v \in Seq(S)
    BY <1>3
  <2> HIDE DEF x, v
  <2>2. (b \o x) \o v = b \o (x \o v)
    BY <1>4, <2>1
  <2> QED BY <2>2 DEF x, v
<1> QED BY <1>2, <1>5, <1>6

\* What a session's request adds to what was executed.
LEMMA DispatchExecutes ==
    ASSUME SInv, NEW k \in Sessions, NEW p \in OwnPackage(k), process_server_event(k, p)
    PROVE  /\ ~ need_command_index_check(p.type) => done' = done
           /\ need_command_index_check(p.type) /\ p.index > command_index[k] =>
                 done' = [done EXCEPT ![k] = Append(@, p.index)]
<1>1. /\ p \in Package /\ p.from = k
      /\ need_command_index_check(p.type) => p.uid = k /\ p.index \in Index
  BY DEF OwnPackage
<1>2. p.type \in CommandTypes \cup {"AUTHORIZE", "HEARTBEAT"}
  BY <1>1 DEF Package
<1>3. k \in Names /\ k \in 0..MaxUid /\ k # NoClient
  BY SessionName
<1>4. CASE ~ need_command_index_check(p.type)
  <2>1. ~ Acts(p)
    BY <1>2, <1>4, CommandTypesLemma DEF Acts
  <2> QED BY <1>4, <2>1 DEF process_server_event
<1>5. CASE need_command_index_check(p.type)
  <2>1. Acts(p)
    <3>1. p.type \in CommandTypes
      BY <1>2, <1>5, CommandTypesLemma
    <3> QED BY <1>1, <1>3, <1>5, <3>1, CommandTypesLemma, FindByUid DEF Acts
  <2>2. command_index[k] \in Nat /\ p.index \in Nat
    BY <1>1, <1>3, <1>5 DEF SInv, TypeOK, Index
  <2>3. p.index > command_index[k] => ~ Stale(k, p)
    BY <2>2 DEF Stale
  <2> QED BY <1>1, <1>3, <1>5, <2>1, <2>3 DEF process_server_event
<1> QED BY <1>4, <1>5

\* A step that concerns one connection, already accepted, keeps every stream
\* that it keeps for that connection.
LEMMA OneStream ==
    ASSUME SInv, Streams, NEW k \in Names, k <= created,
           UNCHANGED <<mgr, created>>, udp \subseteq udp',
           \A j \in Names \ {k} :
              /\ inbuf'[j] = inbuf[j] /\ wire'[j] = wire[j] /\ done'[j] = done[j]
              /\ phone'[j].sent = phone[j].sent /\ phone'[j].open = phone[j].open,
           k \in Sessions /\ TcpOnly(k)' /\ Stream(done[k], inbuf[k] \o wire[k], phone[k].sent) =>
              Stream(done'[k], inbuf'[k] \o wire'[k], phone'[k].sent)
    PROVE  Streams'
<1>1. created \in Nat /\ Names = 1..MaxClients
  BY DEF SInv, TypeOK, Names
<1>2. Fresh'
  <2> SUFFICES ASSUME NEW j \in Names, j > created
               PROVE  /\ inbuf'[j] = <<>> /\ wire'[j] = <<>> /\ done'[j] = <<>>
                      /\ phone'[j].sent = 0 /\ ~ phone'[j].open
    BY DEF Fresh
  <2>1. j # k
    BY <1>1, ServerAssumption
  <2> QED BY <2>1 DEF Streams, Fresh
<1>3. Sessions' = Sessions /\ \A j \in Names : TcpOnly(j)' => TcpOnly(j)
  BY DEF Sessions, ActiveClients, TcpOnly
<1>4. ASSUME NEW j \in Sessions', TcpOnly(j)'
      PROVE  Stream(done'[j], inbuf'[j] \o wire'[j], phone'[j].sent)
  <2>1. j \in Names /\ j \in Sessions /\ TcpOnly(j)
    BY <1>3, <1>4, SessionName
  <2>2. Stream(done[j], inbuf[j] \o wire[j], phone[j].sent)
    BY <2>1, StreamsEach DEF Streams
  <2>3. CASE j = k
    BY <1>4, <2>1, <2>2, <2>3
  <2>4. CASE j # k
    BY <2>1, <2>2, <2>4
  <2> QED BY <2>3, <2>4
<1>5. TcpLossless'
  BY <1>4, Zenon DEF TcpLossless, TcpOnly, Stream
<1> QED BY <1>2, <1>5 DEF Streams

\* A package sent is the last of its stream.
LEMMA StreamAppend ==
    \A b, w \in Seq(Package) : \A q \in Package : b \o Append(w, q) = Append(b \o w, q)
<1> SUFFICES ASSUME NEW b \in Seq(Package), NEW w \in Seq(Package), NEW q \in Package
             PROVE  b \o Append(w, q) = Append(b \o w, q)
  OBVIOUS
<1> DEFINE S == Package
<1>1. b \o w \in Seq(S) /\ <<q>> \in Seq(S)
  OBVIOUS
<1>2. Append(w, q) = w \o <<q>> /\ Append(b \o w, q) = (b \o w) \o <<q>>
  BY <1>1, AppendIsConcat
<1>3. (b \o w) \o <<q>> = b \o (w \o <<q>>)
  <2> DEFINE v == <<q>>
  <2>1. v \in Seq(S)
    BY <1>1
  <2> HIDE DEF v
  <2>2. (b \o w) \o v = b \o (w \o v)
    BY <2>1, ConcatAssociative
  <2> QED BY <2>2 DEF v
<1> QED BY <1>2, <1>3

\* What the phones do to their streams.
LEMMA PhoneStreams ==
    ASSUME SInv, Streams, NEW k \in Names, PhoneStep(k)
    PROVE  Streams'
<1>1. /\ UNCHANGED <<mgr, created, done, inbuf>> /\ udp \subseteq udp' /\ phone[k].open
      /\ wire \in [Names -> Seq(Package)] /\ inbuf \in [Names -> Seq(Package)]
      /\ done[k] \in Seq(Index)
      /\ phone \in [Names -> [open : BOOLEAN, asked : BOOLEAN, uid : 0..MaxUid, sent : 0..MaxIndex]]
      /\ phone[k].sent \in Nat
  BY DEF PhoneStep, PhoneAuthorize, PhoneLearnUid, PhoneSendTcp, PhoneSendUdp, PhoneHeartbeat, PhoneClose,
         serverVars, SInv, TypeOK
<1>2. k <= created
  <2>1. k \in Nat /\ created \in Nat
    BY DEF SInv, TypeOK, Names
  <2> QED BY <1>1, <2>1 DEF Streams, Fresh
<1>3. ASSUME wire' = wire \/ \E q \in Package : ~ need_command_index_check(q.type) /\ Send(k, q),
             \A j \in Names : phone'[j].sent = phone[j].sent /\ (j # k => phone'[j].open = phone[j].open)
      PROVE  Streams'
  <2>1. \A j \in Names \ {k} : wire'[j] = wire[j]
    BY <1>1, <1>3 DEF Send
  <2>2. CASE wire' = wire
    BY <1>1, <1>2, <1>3, <2>1, <2>2, OneStream
  <2>3. ASSUME NEW q \in Package, ~ need_command_index_check(q.type), Send(k, q) PROVE Streams'
    <3>1. wire'[k] = Append(wire[k], q)
      BY <1>1, <2>3 DEF Send
    <3>2. inbuf'[k] \o wire'[k] = Append(inbuf[k] \o wire[k], q) /\ inbuf[k] \o wire[k] \in Seq(Package)
      <4>1. inbuf[k] \in Seq(Package) /\ wire[k] \in Seq(Package) /\ inbuf'[k] = inbuf[k]
        BY <1>1
      <4>2. inbuf[k] \o Append(wire[k], q) = Append(inbuf[k] \o wire[k], q)
        BY <4>1, StreamAppend, Zenon
      <4> QED BY <3>1, <4>1, <4>2
    <3>3. Stream(done[k], inbuf[k] \o wire[k], phone[k].sent) =>
             Stream(done[k], Append(inbuf[k] \o wire[k], q), phone[k].sent)
      <4>1. inbuf[k] \o wire[k] \in Seq(Package)
        BY <3>2
      <4> QED BY <1>1, <2>3, <4>1, StreamSent
    <3>4. Stream(done[k], inbuf[k] \o wire[k], phone[k].sent) =>
             Stream(done'[k], inbuf'[k] \o wire'[k], phone'[k].sent)
      BY <1>1, <1>3, <3>2, <3>3
    <3> QED BY <1>1, <1>2, <1>3, <2>1, <3>4, OneStream
  <2> QED BY <1>3, <2>2, <2>3
<1>4. ASSUME NEW v \in Versions, PhoneAuthorize(k, v) PROVE Streams'
  <2>1. Plain(k, "AUTHORIZE", v) \in Package /\ ~ need_command_index_check(Plain(k, "AUTHORIZE", v).type)
    BY PlainLemma DEF OwnPackage, Plain, need_command_index_check
  <2>2. Send(k, Plain(k, "AUTHORIZE", v)) /\ phone' = [phone EXCEPT ![k].asked = TRUE]
    BY <1>4 DEF PhoneAuthorize
  <2>3. \A j \in Names : phone'[j].sent = phone[j].sent /\ (j # k => phone'[j].open = phone[j].open)
    BY <1>1, <2>2
  <2> QED BY <1>3, <2>1, <2>2, <2>3
<1>5. CASE PhoneHeartbeat(k)
  <2>1. Plain(k, "HEARTBEAT", 0) \in Package /\ ~ need_command_index_check(Plain(k, "HEARTBEAT", 0).type)
    BY PlainLemma DEF OwnPackage, Plain, need_command_index_check
  <2>2. Send(k, Plain(k, "HEARTBEAT", 0)) /\ phone' = phone
    BY <1>5 DEF PhoneHeartbeat
  <2> QED BY <1>3, <2>1, <2>2
<1>6. CASE PhoneLearnUid(k)
  <2>1. wire' = wire /\ phone' = [phone EXCEPT ![k].uid = reply[k]]
    BY <1>6 DEF PhoneLearnUid
  <2> QED BY <1>1, <1>3, <2>1
<1>7. CASE PhoneClose(k)
  <2>1. wire' = wire /\ phone' = [phone EXCEPT ![k].open = FALSE]
    BY <1>7 DEF PhoneClose
  <2> QED BY <1>1, <1>3, <2>1
<1>8. ASSUME NEW t \in CommandTypes, PhoneSendTcp(k, t) PROVE Streams'
  <2> DEFINE q == Command(k, t)
  <2>1. /\ q \in Package /\ need_command_index_check(q.type) /\ q.index = phone[k].sent + 1
        /\ Send(k, q) /\ phone' = [phone EXCEPT ![k].sent = @ + 1]
    BY <1>8, CommandLemma, CommandTypesLemma DEF PhoneSendTcp, OwnPackage, Command
  <2> HIDE DEF q
  <2>2. /\ \A j \in Names \ {k} : wire'[j] = wire[j] /\ phone'[j] = phone[j]
        /\ wire'[k] = Append(wire[k], q) /\ phone'[k].sent = phone[k].sent + 1
    BY <1>1, <2>1 DEF Send
  <2>3. inbuf'[k] \o wire'[k] = Append(inbuf[k] \o wire[k], q) /\ inbuf[k] \o wire[k] \in Seq(Package)
    <3>1. inbuf[k] \in Seq(Package) /\ wire[k] \in Seq(Package) /\ inbuf'[k] = inbuf[k]
      BY <1>1
    <3>2. inbuf[k] \o Append(wire[k], q) = Append(inbuf[k] \o wire[k], q)
      BY <2>1, <3>1, StreamAppend, Zenon
    <3> QED BY <2>2, <3>1, <3>2
  <2>4. Stream(done[k], inbuf[k] \o wire[k], phone[k].sent) =>
           Stream(done[k], Append(inbuf[k] \o wire[k], q), phone[k].sent + 1)
    <3>1. inbuf[k] \o wire[k] \in Seq(Package)
      BY <2>3
    <3> QED BY <1>1, <2>1, <3>1, StreamSent
  <2>5. Stream(done[k], inbuf[k] \o wire[k], phone[k].sent) =>
           Stream(done'[k], inbuf'[k] \o wire'[k], phone'[k].sent)
    BY <1>1, <2>2, <2>3, <2>4
  <2> QED BY <1>1, <1>2, <2>2, <2>5, OneStream
<1>9. ASSUME NEW t \in CommandTypes, PhoneSendUdp(k, t) PROVE Streams'
  <2>1. Command(k, t) \in udp' /\ wire' = wire /\ phone' = [phone EXCEPT ![k].sent = @ + 1]
    BY <1>9 DEF PhoneSendUdp
  <2>2. ~ TcpOnly(k)'
    BY <2>1 DEF TcpOnly, Command
  <2>3. \A j \in Names \ {k} : phone'[j] = phone[j]
    BY <1>1, <2>1
  <2> QED BY <1>1, <1>2, <2>1, <2>2, <2>3, OneStream
<1> QED BY <1>4, <1>5, <1>6, <1>7, <1>8, <1>9 DEF PhoneStep

\* A new connection has an empty stream.
LEMMA AcceptStreams ==
    ASSUME SInv, Streams, NEW fd \in Fd, accept_cb(fd)
    PROVE  Streams'
<1>1. /\ created \in Nat /\ created' = created + 1 /\ created + 1 \in Names
      /\ Sessions' = Sessions \cup {created + 1}
      /\ UNCHANGED <<inbuf, wire, done, udp>> /\ phone' = [phone EXCEPT ![created + 1].open = TRUE]
      /\ phone \in [Names -> [open : BOOLEAN, asked : BOOLEAN, uid : 0..MaxUid, sent : 0..MaxIndex]]
  <2>1. created \in Nat /\ created < MaxClients /\ created' = created + 1
    BY ServerAssumption DEF SInv, TypeOK, accept_cb
  <2>2. Sessions' = Sessions \cup {created + 1}
    BY AcceptTable
  <2>3. UNCHANGED <<inbuf, wire, done, udp>> /\ phone' = [phone EXCEPT ![created + 1].open = TRUE]
    BY DEF accept_cb
  <2>4. phone \in [Names -> [open : BOOLEAN, asked : BOOLEAN, uid : 0..MaxUid, sent : 0..MaxIndex]]
    BY DEF SInv, TypeOK
  <2>5. created + 1 \in Names
    BY <2>1, ServerAssumption DEF Names
  <2> QED BY <2>1, <2>2, <2>3, <2>4, <2>5
<1>2. \A j \in Names : phone'[j].sent = phone[j].sent /\ (j # created + 1 => phone'[j] = phone[j])
  BY <1>1
<1>3. Fresh'
  <2> SUFFICES ASSUME NEW j \in Names, j > created'
               PROVE  /\ inbuf'[j] = <<>> /\ wire'[j] = <<>> /\ done'[j] = <<>>
                      /\ phone'[j].sent = 0 /\ ~ phone'[j].open
    BY DEF Fresh
  <2>1. j > created /\ j # created + 1
    BY <1>1 DEF Names
  <2> QED BY <1>1, <1>2, <2>1 DEF Streams, Fresh
<1>4. ASSUME NEW j \in Sessions', TcpOnly(j)'
      PROVE  Stream(done'[j], inbuf'[j] \o wire'[j], phone'[j].sent)
  <2>1. CASE j \in Sessions
    <3>1. TcpOnly(j) /\ j \in Names
      BY <1>1, <1>4, <2>1, SessionName DEF TcpOnly
    <3>2. Stream(done[j], inbuf[j] \o wire[j], phone[j].sent)
      BY <2>1, <3>1, StreamsEach DEF Streams
    <3> QED BY <1>1, <1>2, <3>1, <3>2
  <2>2. CASE j = created + 1
    <3>1. j \in Names /\ j > created
      BY <1>1, <2>2
    <3>2. inbuf[j] = <<>> /\ wire[j] = <<>> /\ done[j] = <<>> /\ phone[j].sent = 0
      BY <3>1 DEF Streams, Fresh
    <3>3. inbuf[j] \o wire[j] = <<>> /\ Len(done[j]) = 0
      BY <3>2, EmptySeq, ConcatEmptySeq
    <3>4. Carries(<<>>, 0 + 1, 0)
      BY CarriesNone
    <3>5. Stream(done[j], inbuf[j] \o wire[j], phone[j].sent)
      BY <3>2, <3>3, <3>4 DEF Stream
    <3> QED BY <1>1, <1>2, <3>1, <3>5
  <2> QED BY <1>1, <1>4, <2>1, <2>2
<1>5. TcpLossless'
  BY <1>4, Zenon DEF TcpLossless, TcpOnly, Stream
<1> QED BY <1>3, <1>5 DEF Streams

\* A connection that ends takes its stream along.
LEMMA CloseStreams ==
    ASSUME SInv, Streams, NEW k \in Names, conn_eventcb(k)
    PROVE  Streams'
<1>1. /\ created' = created /\ Sessions' = Sessions \ {k} /\ k \in Sessions
      /\ UNCHANGED <<done, udp>>
      /\ inbuf' = [inbuf EXCEPT ![k] = <<>>] /\ wire' = [wire EXCEPT ![k] = <<>>]
      /\ phone' = [phone EXCEPT ![k].open = FALSE]
      /\ phone \in [Names -> [open : BOOLEAN, asked : BOOLEAN, uid : 0..MaxUid, sent : 0..MaxIndex]]
      /\ inbuf \in [Names -> Seq(Package)] /\ wire \in [Names -> Seq(Package)]
  BY CloseTable DEF conn_eventcb, SInv, TypeOK
<1>2. \A j \in Names : /\ phone'[j].sent = phone[j].sent
                       /\ phone'[j].open => phone[j].open
                       /\ j # k => inbuf'[j] = inbuf[j] /\ wire'[j] = wire[j]
                       /\ j = k => inbuf'[j] = <<>> /\ wire'[j] = <<>>
  BY <1>1
<1>3. Fresh'
  BY <1>1, <1>2 DEF Streams, Fresh
<1>4. ASSUME NEW j \in Sessions', TcpOnly(j)'
      PROVE  Stream(done'[j], inbuf'[j] \o wire'[j], phone'[j].sent)
  <2>1. j \in Names /\ j \in Sessions /\ j # k /\ TcpOnly(j)
    BY <1>1, <1>4, SessionName DEF TcpOnly
  <2>2. Stream(done[j], inbuf[j] \o wire[j], phone[j].sent)
    BY <2>1, StreamsEach DEF Streams
  <2> QED BY <1>1, <1>2, <2>1, <2>2
<1>5. TcpLossless'
  BY <1>4, Zenon DEF TcpLossless, TcpOnly, Stream
<1> QED BY <1>3, <1>5 DEF Streams

\* A callback reads packages from the wire and handles the first one of the
\* buffer: the first of the stream, and the next command to execute.
LEMMA ReadStreams ==
    ASSUME SInv, Streams, NEW k \in Names, NEW n \in 0..Len(wire[k]), conn_readcb(k, n)
    PROVE  Streams'
<1> DEFINE buffer == inbuf[k] \o SubSeq(wire[k], 1, n)
           rest == SubSeq(wire[k], n + 1, Len(wire[k]))
           stream == inbuf[k] \o wire[k]
<1>1. /\ k \in Sessions /\ k \in Names /\ UNCHANGED <<mgr, created, udp, phone>>
      /\ wire \in [Names -> Seq(Package)] /\ inbuf \in [Names -> Seq(Package)]
      /\ inbuf[k] \in Seq(OwnPackage(k)) /\ wire[k] \in Seq(OwnPackage(k))
      /\ done \in [Names -> Seq(Index)] /\ phone[k].sent \in Nat
      /\ created \in Nat
  <2>1. k \in Sessions /\ UNCHANGED <<mgr, created>>
    BY ReadStep
  <2>2. UNCHANGED <<udp, phone>>
    BY DEF conn_readcb
  <2>3. inbuf[k] \in Seq(OwnPackage(k)) /\ wire[k] \in Seq(OwnPackage(k))
    BY DEF SInv, OwnPackages
  <2>4. /\ wire \in [Names -> Seq(Package)] /\ inbuf \in [Names -> Seq(Package)]
        /\ done \in [Names -> Seq(Index)] /\ phone[k].sent \in Nat /\ created \in Nat
    BY DEF SInv, TypeOK
  <2> QED BY <2>1, <2>2, <2>3, <2>4
<1>2. k <= created
  BY <1>1, SessionNames
<1>3. wire' = [wire EXCEPT ![k] = rest]
  BY DEF conn_readcb
<1>4. buffer \o rest = stream
  BY <1>1, MovedPackages
<1>5. /\ buffer \in Seq(OwnPackage(k)) /\ rest \in Seq(OwnPackage(k)) /\ stream \in Seq(Package)
  <2>1. Len(wire[k]) \in Nat /\ n \in Nat /\ n <= Len(wire[k])
    BY <1>1, LenProperties
  <2>2. SubSeq(wire[k], 1, n) \in Seq(OwnPackage(k)) /\ rest \in Seq(OwnPackage(k))
    <3>1. \A i \in 1..Len(wire[k]) : wire[k][i] \in OwnPackage(k)
      BY <1>1, ElementOfSeq
    <3> QED BY <2>1, <3>1, SubSeqProperties
  <2> QED BY <1>1, <2>2, ConcatProperties
<1>6. CASE mgr.clients[k].state = ACTIVE /\ buffer # <<>>
  <2> DEFINE p == Head(buffer)
  <2>1. inbuf' = [inbuf EXCEPT ![k] = Tail(buffer)] /\ process_server_event(k, p)
    BY <1>6 DEF conn_readcb, Drained
  <2> HIDE DEF buffer, rest, stream
  <2>2. p \in OwnPackage(k) /\ stream # <<>> /\ p = stream[1] /\ Tail(buffer) \o rest = Tail(stream)
    BY <1>4, <1>5, <1>6, FrontOfConcat, HeadTailProperties
  <2>3. inbuf'[k] \o wire'[k] = Tail(stream)
    BY <1>1, <1>3, <2>1, <2>2
  <2>4. /\ ~ need_command_index_check(p.type) => done' = done
        /\ need_command_index_check(p.type) /\ p.index > command_index[k] =>
              done' = [done EXCEPT ![k] = Append(@, p.index)]
    <3> HIDE DEF p
    <3> QED BY <1>1, <2>1, <2>2, DispatchExecutes
  <2> HIDE DEF p
  <2>5. ASSUME Stream(done[k], stream, phone[k].sent)
        PROVE  Stream(done'[k], Tail(stream), phone[k].sent) /\ \A j \in Names \ {k} : done'[j] = done[j]
    <3>1. command_index[k] = Len(done[k]) /\ Len(done[k]) \in Nat
      BY <1>1, <2>5, StreamIndex
    <3>2. done[k] \in Seq(Index)
      BY <1>1
    <3>3. /\ ~ need_command_index_check(p.type) => Stream(done[k], Tail(stream), phone[k].sent)
          /\ need_command_index_check(p.type) =>
                p.index = Len(done[k]) + 1 /\ Stream(Append(done[k], p.index), Tail(stream), phone[k].sent)
      BY <1>1, <1>5, <2>2, <2>5, <3>2, StreamHandled
    <3>4. CASE ~ need_command_index_check(p.type)
      BY <2>4, <3>3, <3>4
    <3>5. CASE need_command_index_check(p.type)
      <4>1. done' = [done EXCEPT ![k] = Append(@, p.index)]
        BY <2>4, <3>1, <3>3, <3>5
      <4> QED BY <1>1, <3>3, <3>5, <4>1
    <3> QED BY <3>4, <3>5
  <2>6. \A j \in Names \ {k} : done'[j] = done[j] /\ inbuf'[j] = inbuf[j] /\ wire'[j] = wire[j]
    BY <1>1, <1>3, <2>1, ReadStep DEF Handled1
  <2>7. TcpOnly(k)' => TcpOnly(k)
    BY <1>1 DEF TcpOnly
  <2> QED BY <1>1, <1>2, <2>3, <2>5, <2>6, <2>7, OneStream DEF stream
<1>7. CASE ~ (mgr.clients[k].state = ACTIVE /\ buffer # <<>>)
  <2>1. inbuf' = [inbuf EXCEPT ![k] = buffer] /\ UNCHANGED done
    BY <1>7 DEF conn_readcb
  <2>2. \A j \in Names \ {k} : inbuf'[j] = inbuf[j] /\ wire'[j] = wire[j]
    BY <1>1, <1>3, <2>1
  <2>3. inbuf'[k] \o wire'[k] = stream
    BY <1>1, <1>3, <1>4, <2>1
  <2> QED BY <1>1, <1>2, <2>1, <2>2, <2>3, OneStream
<1> QED BY <1>6, <1>7

\* A datagram is handled, if at all, for a phone that has not used TCP only.
LEMMA DatagramStreams ==
    ASSUME SInv, Streams, NEW p \in udp, udp_readcb(p)
    PROVE  Streams'
<1>1. /\ UNCHANGED <<mgr, created, udp, inbuf, wire, phone>>
      /\ done' = done \/ (p.from \in Sessions /\ Handled1(p.from))
      /\ p.from \in Names /\ created \in Nat
      /\ done \in [Names -> Seq(Index)]
  <2>1. UNCHANGED <<mgr, created>> /\ (done' = done \/ (p.from \in Sessions /\ Handled1(p.from)))
    BY DatagramStep
  <2>2. UNCHANGED <<udp, inbuf, wire, phone>>
    BY DEF udp_readcb
  <2>3. p \in Package /\ created \in Nat /\ done \in [Names -> Seq(Index)]
    BY DEF SInv, TypeOK
  <2>4. p.from \in Names
    BY <2>3 DEF Package
  <2> QED BY <2>1, <2>2, <2>3, <2>4
<1>2. ~ TcpOnly(p.from)'
  BY <1>1 DEF TcpOnly
<1>3. CASE p.from \in Sessions
  <2>1. p.from <= created
    BY <1>1, <1>3, SessionNames
  <2>2. \A j \in Names \ {p.from} : done'[j] = done[j]
    BY <1>1 DEF Handled1
  <2> QED BY <1>1, <1>2, <2>1, <2>2, OneStream
<1>4. CASE p.from \notin Sessions
  BY <1>1, <1>4 DEF Streams, Fresh, TcpLossless, Sessions, ActiveClients
<1> QED BY <1>3, <1>4

\* As long as a phone uses TCP only, its commands are executed exactly as
\* sent: ya_server_session.c reads its stream one package per callback and the
\* index check of process_server_event lets every one of them through.
THEOREM StreamLossless == Spec => []TcpLossless
<1>1. Init => Streams
  <2> SUFFICES ASSUME Init PROVE Streams
    OBVIOUS
  <2>1. Sessions = {}
    BY DEF Init, ya_client_manager_init, Sessions, ActiveClients
  <2>2. Fresh
    BY DEF Init, Fresh
  <2> QED BY <2>1, <2>2 DEF Streams, TcpLossless
<1>2. SInv /\ Streams /\ [Next]_vars => Streams'
  <2> SUFFICES ASSUME SInv, Streams, [Next]_vars PROVE Streams'
    OBVIOUS
  <2>1. ASSUME NEW fd \in Fd, accept_cb(fd) PROVE Streams'
    BY <2>1, AcceptStreams
  <2>2. ASSUME NEW k \in Names, PhoneStep(k) PROVE Streams'
    BY <2>2, PhoneStreams
  <2>3. ASSUME NEW k \in Names, conn_eventcb(k) PROVE Streams'
    BY <2>3, CloseStreams
  <2>4. ASSUME NEW k \in Names, NEW n \in 0..Len(wire[k]), conn_readcb(k, n) PROVE Streams'
    BY <2>4, ReadStreams
  <2>5. ASSUME NEW p \in udp, udp_readcb(p) PROVE Streams'
    BY <2>5, DatagramStreams
  <2>6. CASE UNCHANGED vars
    BY <2>6 DEF vars, Streams, Fresh, TcpLossless, Sessions, ActiveClients
  <2> QED BY <2>1, <2>2, <2>3, <2>4, <2>5, <2>6 DEF Next
<1>3. Streams => TcpLossless
  BY DEF Streams
<1> QED BY <1>1, <1>2, <1>3, Invariance, PTL DEF Spec
=============================================================================
