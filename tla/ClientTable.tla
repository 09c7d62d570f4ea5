---------------------------- MODULE ClientTable ----------------------------
(***************************************************************************)
(* The operations of server/src/ya_client_manager.c on the table of        *)
(* clients, as operators from a table to the table the call leaves behind. *)
(*                                                                         *)
(* A table m is a record:                                                  *)
(*   clients       the allocated ya_client_t records.  A record is named   *)
(*                 by the number of its ya_client_create call, a name that *)
(*                 is never given again: a pointer to a freed record is a  *)
(*                 name outside DOMAIN m.clients.                          *)
(*   client_count  manager->client_count                                   *)
(*   next_uid      manager->next_uid, a uint32_t (MaxUid is UINT32_MAX)    *)
(*                                                                         *)
(* A hash chain is kept newest first (a new record becomes the head of its *)
(* bucket), so the place of a record in the table is given by its bucket   *)
(* and its name.  The fields command_index and protocol_version belong to  *)
(* the request handlers and are variables of CommandServer; the mouse      *)
(* filter is created and freed with the record.                            *)
(***************************************************************************)
EXTENDS Integers, FiniteSets

CONSTANTS
    Fd,         \* file descriptors the kernel hands out
    MaxUid,     \* the largest uint32_t
    HashSize    \* YA_CLIENT_HASH_SIZE

ASSUME MaxUidAssumption == MaxUid \in Nat \ {0}
ASSUME HashSizeAssumption == HashSize \in Nat \ {0}

ACTIVE == "YA_CLIENT_ACTIVE"
DISCONNECTING == "YA_CLIENT_DISCONNECTING"
DISCONNECTED == "YA_CLIENT_DISCONNECTED"

ClientStates == {ACTIVE, DISCONNECTING, DISCONNECTED}

\* The NULL pointer; names of records start at 1.
NoClient == 0

ClientRecord ==
    [fd : Fd, uid : 1..MaxUid, ref_count : Nat, state : ClientStates, bev : BOOLEAN]

ya_client_manager_init ==
    [clients |-> [k \in {} |-> NoClient], client_count |-> 0, next_uid |-> 1]

\* Every record is freed whatever its reference count.
ya_client_manager_cleanup(m) == ya_client_manager_init

---------------------------------------------------------------------------
\* Creation.

\* Faulty variant: the counter wraps one too early.
UidAfter_Early(u) == IF u + 1 >= MaxUid THEN 1 ELSE u + 1

\* next_uid++ in 32 bits; the value 0 is skipped.
UidAfter(u) ==
    LET n == (u + 1) % (MaxUid + 1)
    IN  IF n = 0 THEN 1 ELSE n

ya_client_create(m, k, fd) ==
    LET uid == IF m.next_uid = 0 THEN 1 ELSE m.next_uid
        client == [fd |-> fd, uid |-> uid, ref_count |-> 1,
                   state |-> ACTIVE, bev |-> TRUE]
    IN  [clients |-> [j \in DOMAIN m.clients \cup {k} |->
                         IF j = k THEN client ELSE m.clients[j]],
         client_count |-> m.client_count + 1,
         next_uid |-> UidAfter(uid)]

---------------------------------------------------------------------------
\* Lookup.

hash_uid(uid) == uid % HashSize

\* The first record of the set S in a walk over the buckets and their chains.
FirstInTable(m, S) ==
    LET bucket(k) == hash_uid(m.clients[k].uid)
    IN  CHOOSE k \in S : \A j \in S : \/ bucket(k) < bucket(j)
                                      \/ bucket(k) = bucket(j) /\ j <= k

ActiveClients(m) == {k \in DOMAIN m.clients : m.clients[k].state = ACTIVE}

ya_client_find_by_uid(m, uid) ==
    LET S == {k \in ActiveClients(m) : m.clients[k].uid = uid}
    IN  IF uid = 0 \/ S = {} THEN NoClient ELSE FirstInTable(m, S)

\* Faulty variant: records of closed connections are found too.
ya_client_find_by_fd_AnyState(m, fd) ==
    LET S == {k \in DOMAIN m.clients : m.clients[k].fd = fd}
    IN  IF S = {} THEN NoClient ELSE FirstInTable(m, S)

ya_client_find_by_fd(m, fd) ==
    LET S == {k \in ActiveClients(m) : m.clients[k].fd = fd}
    IN  IF S = {} THEN NoClient ELSE FirstInTable(m, S)

ya_client_get_count(m) == Cardinality(ActiveClients(m))

---------------------------------------------------------------------------
\* Reference counting.

Freed(m, k) ==
    [m EXCEPT !.clients = [j \in DOMAIN m.clients \ {k} |-> m.clients[j]],
              !.client_count = @ - 1]

ya_client_ref(m, k) == [m EXCEPT !.clients[k].ref_count = @ + 1]

\* A count that is already 0 is left alone; the last reference frees the
\* record only when its state is DISCONNECTED.
ya_client_unref(m, k) ==
    LET client == m.clients[k]
        last == client.ref_count = 1 /\ client.state = DISCONNECTED
    IN  IF client.ref_count = 0 THEN m
        ELSE IF last THEN Freed(m, k)
        ELSE [m EXCEPT !.clients[k].ref_count = @ - 1]

\* Faulty variant: the record is freed although it is referenced.
ya_client_remove_Forced(m, uid) ==
    LET S == {k \in DOMAIN m.clients : m.clients[k].uid = uid}
    IN  IF uid = 0 \/ S = {} THEN m ELSE Freed(m, FirstInTable(m, S))

\* Looks at records in any state, not only ACTIVE ones.
ya_client_remove(m, uid) ==
    LET S == {k \in DOMAIN m.clients : m.clients[k].uid = uid}
        k == FirstInTable(m, S)
    IN  IF uid = 0 \/ S = {} THEN m
        ELSE IF m.clients[k].ref_count = 0 THEN Freed(m, k)
        ELSE [m EXCEPT !.clients[k].state = DISCONNECTED]

\* Faulty variant: the state stays ACTIVE when the connection is gone.
Disconnect_StillActive(m, k) ==
    ya_client_unref([m EXCEPT !.clients[k].bev = FALSE], k)

\* What conn_eventcb does to the record of a connection that was closed or
\* failed: DISCONNECTING, bufferevent freed, one reference dropped.
Disconnect(m, k) ==
    ya_client_unref([m EXCEPT !.clients[k].state = DISCONNECTING,
                              !.clients[k].bev = FALSE], k)
============================================================================
