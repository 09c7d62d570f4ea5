--------------------------- MODULE CommandServer ---------------------------
(***************************************************************************)
(* The session server (ya_server_session.c, TCP), the command server       *)
(* (ya_server_command.c, UDP) and the dispatch of requests to handlers     *)
(* (process_server_event), around one client table.                        *)
(*                                                                         *)
(* All callbacks run on the one libevent loop, so each is one step.  A     *)
(* phone speaks to the server over its TCP connection and, once it knows   *)
(* its uid, also by datagrams; both channels share the client's command    *)
(* index.  The phone application is not part of the repository: its        *)
(* actions say only what the code assumes of it, indexes that grow by one  *)
(* per command and requests that carry the uid it was given.               *)
(*                                                                         *)
(* The client named k is the one of the k-th accepted connection; phone k  *)
(* is its peer.  from, in a package, names the phone that sent it and is   *)
(* not part of the message.                                                *)
(***************************************************************************)
EXTENDS ClientTable, Sequences

CONSTANTS
    MaxClients,     \* bound: connections accepted in a behaviour
    MaxIndex,       \* bound: commands a phone sends on a connection
    MaxInFlight,    \* bound: packages of a connection not yet handled
    CommandTypes,   \* the command types the phones use
    Versions        \* protocol versions of the phones

ASSUME ServerAssumption ==
    /\ MaxClients \in Nat
    /\ MaxIndex \in Nat
    /\ MaxInFlight \in Nat
    /\ Versions \subseteq Nat

\* Fewer connections than uids: the wrap of the counter, after 2^32 - 1
\* connections of one server process, is ClientManager's subject.
ASSUME SessionsAssumption == MaxClients <= MaxUid

VARIABLES
    mgr,                \* svr_context.client_manager
    created,            \* connections accepted so far
    stats,              \* svr_context.stats: total and active connections
    command_index,      \* command_index of each client
    protocol_version,   \* protocol_version of each client, 0 before AUTHORIZE
    inbuf,              \* complete packages in a connection's input buffer
    wire,               \* packages sent on the connection and not yet read
    udp,                \* datagrams sent: any may arrive never, late or twice
    reply,              \* uid in an AUTHORIZE response not yet seen, 0 if none
    phone,              \* state of the phones
    done,               \* history: indexes executed for a session, in order
    late                \* history: indexes executed without a client

vars == <<mgr, created, stats, command_index, protocol_version, inbuf, wire,
          udp, reply, phone, done, late>>

serverVars == <<mgr, created, stats, command_index, protocol_version, done, late>>

Names == 1..MaxClients
Index == 1..MaxIndex

\* Handlers that give up when no ACTIVE client has the uid of the request,
\* and handlers that act on the computer without looking at the client.
ClientTypes == {"MOUSE_MOVE", "MOUSE_STOP", "SESSION_OPTION"}
GlobalTypes == {"MOUSE_CLICK", "MOUSE_WHEEL", "KEYBOARD", "TEXT_INPUT", "TEXT_GET",
                "CONTROL"}

ASSUME TypesAssumption == CommandTypes \subseteq ClientTypes \cup GlobalTypes

Package ==
    [type : CommandTypes \cup {"AUTHORIZE", "HEARTBEAT"}, index : 0..MaxIndex,
     uid : 0..MaxUid, from : Names, version : Versions \cup {0}]

Command(k, t) ==
    [type |-> t, index |-> phone[k].sent + 1, uid |-> phone[k].uid,
     from |-> k, version |-> 0]

Plain(k, t, v) ==
    [type |-> t, index |-> 0, uid |-> phone[k].uid, from |-> k, version |-> v]

TypeOK ==
    /\ created \in 0..MaxClients
    /\ DOMAIN mgr.clients \subseteq 1..created
    /\ mgr.clients \in [DOMAIN mgr.clients -> ClientRecord]
    /\ mgr.client_count \in Nat
    /\ mgr.next_uid \in 1..MaxUid
    /\ mgr = [clients |-> mgr.clients, client_count |-> mgr.client_count,
              next_uid |-> mgr.next_uid]
    /\ stats \in [total_connections : Nat, active_connections : Nat]
    /\ command_index \in [Names -> 0..MaxIndex]
    /\ protocol_version \in [Names -> Versions \cup {0}]
    /\ inbuf \in [Names -> Seq(Package)]
    /\ wire \in [Names -> Seq(Package)]
    /\ udp \subseteq Package
    /\ reply \in [Names -> 0..MaxUid]
    /\ phone \in [Names -> [open : BOOLEAN, asked : BOOLEAN, uid : 0..MaxUid,
                            sent : 0..MaxIndex]]
    /\ done \in [Names -> Seq(Index)]
    /\ late \in [Names -> SUBSET Index]

Init ==
    /\ mgr = ya_client_manager_init
    /\ created = 0
    /\ stats = [total_connections |-> 0, active_connections |-> 0]
    /\ command_index = [k \in Names |-> 0]
    /\ protocol_version = [k \in Names |-> 0]
    /\ inbuf = [k \in Names |-> <<>>]
    /\ wire = [k \in Names |-> <<>>]
    /\ udp = {}
    /\ reply = [k \in Names |-> 0]
    /\ phone = [k \in Names |-> [open |-> FALSE, asked |-> FALSE, uid |-> 0, sent |-> 0]]
    /\ done = [k \in Names |-> <<>>]
    /\ late = [k \in Names |-> {}]

---------------------------------------------------------------------------
\* The phones (external).

Room(k) == Len(inbuf[k]) + Len(wire[k]) < MaxInFlight

Send(k, p) == wire' = [wire EXCEPT ![k] = Append(@, p)]

PhoneAuthorize(k, v) ==
    /\ phone[k].open /\ ~ phone[k].asked
    /\ Room(k)
    /\ Send(k, Plain(k, "AUTHORIZE", v))
    /\ phone' = [phone EXCEPT ![k].asked = TRUE]
    /\ UNCHANGED <<serverVars, inbuf, udp, reply>>

PhoneLearnUid(k) ==
    /\ phone[k].open /\ reply[k] # 0
    /\ phone' = [phone EXCEPT ![k].uid = reply[k]]
    /\ reply' = [reply EXCEPT ![k] = 0]
    /\ UNCHANGED <<serverVars, inbuf, wire, udp>>

PhoneSendTcp(k, t) ==
    /\ phone[k].open /\ phone[k].uid # 0 /\ phone[k].sent < MaxIndex
    /\ Room(k)
    /\ Send(k, Command(k, t))
    /\ phone' = [phone EXCEPT ![k].sent = @ + 1]
    /\ UNCHANGED <<serverVars, inbuf, udp, reply>>

PhoneSendUdp(k, t) ==
    /\ phone[k].open /\ phone[k].uid # 0 /\ phone[k].sent < MaxIndex
    /\ udp' = udp \cup {Command(k, t)}
    /\ phone' = [phone EXCEPT ![k].sent = @ + 1]
    /\ UNCHANGED <<serverVars, inbuf, wire, reply>>

\* Bound: only when nothing else is on the way, and little is unhandled.
PhoneHeartbeat(k) ==
    /\ phone[k].open
    /\ wire[k] = <<>> /\ Len(inbuf[k]) <= MaxInFlight
    /\ Send(k, Plain(k, "HEARTBEAT", 0))
    /\ UNCHANGED <<serverVars, inbuf, udp, reply, phone>>

PhoneClose(k) ==
    /\ phone[k].open
    /\ phone' = [phone EXCEPT ![k].open = FALSE]
    /\ UNCHANGED <<serverVars, inbuf, wire, udp, reply>>

---------------------------------------------------------------------------
\* Dispatch and the handlers (ya_server_handler.c).

\* Faulty variant: clicks are exempt as well.
need_command_index_check_NoClick(type) ==
    type \notin {"DISCOVER", "AUTHORIZE", "HEARTBEAT", "MOUSE_CLICK"}

need_command_index_check(type) == type \notin {"DISCOVER", "AUTHORIZE", "HEARTBEAT"}

\* Faulty variant: a request with the index of the last one is let through.
Stale_Equal(k, p) ==
    /\ k # NoClient
    /\ need_command_index_check(p.type)
    /\ p.index < command_index[k]

\* The request is old news for the client k the transport found, if any.
Stale(k, p) ==
    /\ k # NoClient
    /\ need_command_index_check(p.type)
    /\ p.index <= command_index[k]

\* authorize() with the phone applications' client types.
authorize(version) == version >= 1

\* handle_authorize on the connection k: the client is looked up again by
\* descriptor, remembers the version, and its uid is answered.  (Without a
\* client the handler would free the bufferevent; the lookup always finds one,
\* see AuthorizeAnswersOwnUid.)
handle_authorize(k, p) ==
    LET c == ya_client_find_by_fd(mgr, mgr.clients[k].fd)
    IN  IF authorize(p.version) /\ c # NoClient
        THEN /\ protocol_version' = [protocol_version EXCEPT ![c] = p.version]
             /\ reply' = [reply EXCEPT ![k] = mgr.clients[c].uid]
        ELSE UNCHANGED <<protocol_version, reply>>

\* Whether the handler of the request acts on the computer.
Acts(p) ==
    \/ p.type \in GlobalTypes
    \/ p.type \in ClientTypes /\ ya_client_find_by_uid(mgr, p.uid) # NoClient

\* The index check, then the handler; k is the client the transport found.
process_server_event(k, p) ==
    /\ command_index' =
          IF k # NoClient /\ need_command_index_check(p.type) /\ ~ Stale(k, p)
          THEN [command_index EXCEPT ![k] = p.index] ELSE command_index
    /\ done' = IF k # NoClient /\ ~ Stale(k, p) /\ Acts(p)
               THEN [done EXCEPT ![p.from] = Append(@, p.index)] ELSE done
    /\ late' = IF k = NoClient /\ Acts(p)
               THEN [late EXCEPT ![p.from] = @ \cup {p.index}] ELSE late
    /\ IF p.type = "AUTHORIZE" THEN handle_authorize(k, p)
       ELSE UNCHANGED <<protocol_version, reply>>

---------------------------------------------------------------------------
\* The connection figures (ya_server.c).

ya_server_stats_inc_connections(s) ==
    [total_connections |-> s.total_connections + 1,
     active_connections |-> s.active_connections + 1]

ya_server_stats_dec_connections(s) ==
    [s EXCEPT !.active_connections = IF @ > 0 THEN @ - 1 ELSE @]

---------------------------------------------------------------------------
\* The callbacks.

\* The kernel gives out no descriptor that is still open.
accept_cb(fd) ==
    LET k == created + 1
    IN  /\ created < MaxClients
        /\ \A j \in DOMAIN mgr.clients : mgr.clients[j].bev => mgr.clients[j].fd # fd
        /\ mgr' = ya_client_create(mgr, k, fd)
        /\ created' = k
        /\ stats' = ya_server_stats_inc_connections(stats)
        /\ phone' = [phone EXCEPT ![k].open = TRUE]
        /\ UNCHANGED <<command_index, protocol_version, inbuf, wire, udp, reply, done, late>>

Connected(k) == k \in DOMAIN mgr.clients /\ mgr.clients[k].bev

\* Faulty variants: everything in the buffer is drained with the package; the
\* package is not drained.
Drained_All(buffer) == <<>>

Drained_Not(buffer) == buffer

\* The buffer once its first package is taken out.
Drained(buffer) == Tail(buffer)

\* Faulty variant: the reference that is dropped was not taken.
UnderReference_NotTaken(m, k) == ya_client_unref(m, k)

\* The table after the reference a callback holds while it handles a request.
UnderReference(m, k) == ya_client_unref(ya_client_ref(m, k), k)

\* Bytes arrive: n more packages are complete, and perhaps a part of the next
\* one.  The callback handles at most one package, whatever the buffer holds,
\* and is called again only when more bytes arrive.
conn_readcb(k, n) ==
    LET buffer == inbuf[k] \o SubSeq(wire[k], 1, n)
    IN  /\ Connected(k)
        /\ wire[k] # <<>>
        /\ wire' = [wire EXCEPT ![k] = SubSeq(@, n + 1, Len(@))]
        /\ IF mgr.clients[k].state = ACTIVE /\ buffer # <<>>
           THEN /\ inbuf' = [inbuf EXCEPT ![k] = Drained(buffer)]
                /\ mgr' = UnderReference(mgr, k)
                /\ process_server_event(k, Head(buffer))
           ELSE /\ inbuf' = [inbuf EXCEPT ![k] = buffer]
                /\ UNCHANGED <<mgr, command_index, protocol_version, reply, done, late>>
        /\ UNCHANGED <<created, stats, udp, phone>>

\* EOF once the bytes are read, or an error at any time.  What the buffers
\* still hold is lost with the bufferevent.
conn_eventcb(k) ==
    /\ Connected(k)
    /\ stats' = ya_server_stats_dec_connections(stats)
    /\ mgr' = Disconnect(mgr, k)
    /\ inbuf' = [inbuf EXCEPT ![k] = <<>>]
    /\ wire' = [wire EXCEPT ![k] = <<>>]
    /\ reply' = [reply EXCEPT ![k] = 0]
    /\ phone' = [phone EXCEPT ![k].open = FALSE]
    /\ UNCHANGED <<created, command_index, protocol_version, udp, done, late>>

udp_readcb(p) ==
    /\ process_server_event(ya_client_find_by_uid(mgr, p.uid), p)
    /\ UNCHANGED <<mgr, created, stats, inbuf, wire, udp, phone>>

---------------------------------------------------------------------------
PhoneStep(k) ==
    \/ \E v \in Versions : PhoneAuthorize(k, v)
    \/ PhoneLearnUid(k)
    \/ \E t \in CommandTypes : PhoneSendTcp(k, t) \/ PhoneSendUdp(k, t)
    \/ PhoneHeartbeat(k)
    \/ PhoneClose(k)

Next ==
    \/ \E fd \in Fd : accept_cb(fd)
    \/ \E k \in Names : PhoneStep(k) \/ conn_eventcb(k)
    \/ \E k \in Names : \E n \in 0..Len(wire[k]) : conn_readcb(k, n)
    \/ \E p \in udp : udp_readcb(p)

Spec == Init /\ [][Next]_vars

\* The event loop reads what has arrived and notices a closed connection; a
\* phone that stays connected keeps sending heartbeats.
Fairness ==
    \A k \in Names :
        /\ WF_vars(\E n \in 1..Len(wire[k]) : conn_readcb(k, n))
        /\ WF_vars(~ phone[k].open /\ conn_eventcb(k))
        /\ WF_vars(PhoneHeartbeat(k))

FairSpec == Spec /\ Fairness

---------------------------------------------------------------------------
(* Properties. *)

Sessions == ActiveClients(mgr)

\* The commands among these packages carry the indexes from first to last, in
\* this order.
Carries(packages, first, last) ==
    LET commands == {i \in DOMAIN packages : need_command_index_check(packages[i].type)}
    IN  /\ {packages[i].index : i \in commands} = first..last
        /\ \A i, j \in commands : i < j => packages[i].index < packages[j].index

\* The server implements CommandLog: whatever the network does to datagrams
\* and however they interleave with the TCP stream, a session's commands are
\* executed in increasing order of index, never twice.
Log == INSTANCE CommandLog WITH
    Session <- Names, Index <- Index, done <- done,
    session <- [k \in Names |-> IF k > created THEN "none"
                                ELSE IF k \in Sessions THEN "open" ELSE "closed"]

CommandsInOrder == Log!Spec

\* The server uses the client manager within the rules of ClientManager: every
\* ya_client_unref is of a reference the caller has.
Manager == INSTANCE ClientManager WITH
    MaxHolds <- 0, issued <- created, attached <- Sessions,
    holds <- [k \in Names |-> 0]

UsesManagerCorrectly == Manager!Spec

\* An index is spent only by executing its command: the index check discards
\* a command only when a command of the same phone with that index or a later
\* one was executed before it.
IndexIsLastExecuted ==
    \A k \in Sessions :
        command_index[k] = IF done[k] = <<>> THEN 0 ELSE done[k][Len(done[k])]

\* As long as a phone uses TCP only, no command is lost, duplicated, reordered
\* or discarded: what was executed and what is still buffered are, in order,
\* exactly what was sent (ya_server_session.c:75-106, ya_server_handler.c:956).
TcpLossless ==
    \A k \in Sessions :
        (\A p \in udp : p.from # k) =>
            LET executed == Len(done[k])
            IN  /\ executed <= phone[k].sent
                /\ \A i \in 1..executed : done[k][i] = i
                /\ Carries(inbuf[k] \o wire[k], executed + 1, phone[k].sent)

\* handle_authorize looks its client up by descriptor, among records that may
\* keep the descriptor of a connection closed long ago: the uid a phone is
\* given is that of its own session and of no other.
AuthorizeAnswersOwnUid ==
    \A k \in Sessions :
        \A uid \in {reply[k], phone[k].uid} \ {0} :
            ya_client_find_by_uid(mgr, uid) = k

\* The two connection figures of the /status page agree, and the total counts
\* every connection once.
StatsAgree ==
    /\ stats.active_connections = ya_client_get_count(mgr)
    /\ stats.total_connections = created

\* Commands of a session that has ended: ya_server_handler_test.c:525 "an old
\* command index must be discarded".  A late or repeated datagram whose client
\* is no longer found skips the index check.
LateCommandsDiscarded ==
    \A k \in Names : \A i \in late[k] : \A n \in 1..Len(done[k]) : done[k][n] # i

\* A complete package in the buffer is handled in the end, or the connection
\* ends: one package per callback is enough as long as heartbeats arrive.
Handled(k, i) ==
    (\E n \in 1..Len(inbuf[k]) : inbuf[k][n].index = i)
        ~> ~ (\E n \in 1..Len(inbuf[k]) : inbuf[k][n].index = i)

BufferedCommandsHandled == \A k \in Names : \A i \in Index : Handled(k, i)
============================================================================
