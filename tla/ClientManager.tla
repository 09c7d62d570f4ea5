--------------------------- MODULE ClientManager ---------------------------
(***************************************************************************)
(* The client manager under every use its header allows: connections are   *)
(* accepted and closed, callers take and drop references, a client is      *)
(* removed by uid, and the manager is cleaned up at shutdown.              *)
(*                                                                         *)
(* attached and holds say who may still use a record.  The callbacks of a  *)
(* connection own the reference ya_client_create starts with, until        *)
(* conn_eventcb drops it; every other reference was taken with             *)
(* ya_client_ref and is dropped with ya_client_unref.                      *)
(***************************************************************************)
EXTENDS ClientTable

CONSTANTS
    MaxClients, \* bound: ya_client_create calls in a behaviour
    MaxHolds    \* bound: references a caller may hold on one client

ASSUME BoundsAssumption == MaxClients \in Nat /\ MaxHolds \in Nat

VARIABLES
    mgr,        \* svr_context.client_manager
    created,    \* successful ya_client_create calls so far
    issued,     \* those since the manager was last initialised
    attached,   \* clients whose connection callbacks are still installed
    holds       \* references taken with ya_client_ref, per client

vars == <<mgr, created, issued, attached, holds>>

Names == 1..MaxClients

TypeOK ==
    /\ created \in 0..MaxClients
    /\ issued \in 0..created
    /\ attached \subseteq 1..created
    /\ holds \in [Names -> 0..MaxHolds]
    /\ mgr.next_uid \in 1..MaxUid
    /\ mgr.client_count \in Nat
    /\ DOMAIN mgr.clients \subseteq 1..created
    /\ mgr.clients \in [DOMAIN mgr.clients -> ClientRecord]
    /\ mgr = [clients |-> mgr.clients, client_count |-> mgr.client_count,
              next_uid |-> mgr.next_uid]

Init ==
    /\ mgr = ya_client_manager_init
    /\ created = 0
    /\ issued = 0
    /\ attached = {}
    /\ holds = [k \in Names |-> 0]

\* accept_cb.  The kernel gives out no descriptor that is still open: a
\* connection's descriptor is closed with its bufferevent.
Accept(fd) ==
    /\ created < MaxClients
    /\ \A k \in attached : mgr.clients[k].fd # fd
    /\ mgr' = ya_client_create(mgr, created + 1, fd)
    /\ created' = created + 1
    /\ issued' = issued + 1
    /\ attached' = attached \cup {created + 1}
    /\ UNCHANGED holds

\* A callback of a connection that is ACTIVE takes a reference.
Hold(k) ==
    /\ k \in attached
    /\ mgr.clients[k].state = ACTIVE
    /\ holds[k] < MaxHolds
    /\ mgr' = ya_client_ref(mgr, k)
    /\ holds' = [holds EXCEPT ![k] = @ + 1]
    /\ UNCHANGED <<created, issued, attached>>

Release(k) ==
    /\ holds[k] > 0
    /\ mgr' = ya_client_unref(mgr, k)
    /\ holds' = [holds EXCEPT ![k] = @ - 1]
    /\ UNCHANGED <<created, issued, attached>>

\* conn_eventcb on EOF or error; freeing the bufferevent removes the
\* connection's callbacks.
Close(k) ==
    /\ k \in attached
    /\ mgr' = Disconnect(mgr, k)
    /\ attached' = attached \ {k}
    /\ UNCHANGED <<created, issued, holds>>

Remove(uid) ==
    /\ mgr' = ya_client_remove(mgr, uid)
    /\ UNCHANGED <<created, issued, attached, holds>>

\* stop(), after the event loop has returned: no callback holds a reference.
Cleanup ==
    /\ \A k \in Names : holds[k] = 0
    /\ mgr' = ya_client_manager_cleanup(mgr)
    /\ issued' = 0
    /\ attached' = {}
    /\ UNCHANGED <<created, holds>>

Next ==
    \/ \E fd \in Fd : Accept(fd)
    \/ \E k \in Names : Hold(k) \/ Release(k) \/ Close(k)
    \/ \E uid \in 1..MaxUid : Remove(uid)
    \/ Cleanup

Spec == Init /\ [][Next]_vars

---------------------------------------------------------------------------
Live == DOMAIN mgr.clients

Owned(k) == IF k \in attached THEN 1 ELSE 0

\* No reference dangles: a record that connection callbacks or a caller can
\* still reach has not been freed, whatever order of unref, remove and
\* disconnect led here (ya_client_unref, ya_client_remove).
NoDanglingClient ==
    \A k \in Names : k \in attached \/ holds[k] > 0 => k \in Live

\* ref_count is exactly the number of parties that may use the record, so the
\* underflow branch of ya_client_unref is never what keeps a record alive.
RefCountExact ==
    \A k \in Live : mgr.clients[k].ref_count = holds[k] + Owned(k)

\* client_count is the number of allocated records: every path that unlinks
\* a record decrements it once, every path that links one increments it once.
CountMatchesTable == mgr.client_count = Cardinality(Live)

\* A client the lookups can return still has its connection: its bufferevent
\* has not been freed and its callbacks are installed.
FindableIsConnected ==
    \A k \in ActiveClients(mgr) : k \in attached /\ mgr.clients[k].bev

\* Two clients that the lookups can return never share a descriptor, so
\* ya_client_find_by_fd, which handle_authorize relies on, is unambiguous
\* although records of closed connections keep their old descriptor.
ActiveFdUnique ==
    \A j, k \in ActiveClients(mgr) :
        mgr.clients[j].fd = mgr.clients[k].fd => j = k

\* uids are unique among allocated records until the counter has wrapped.
UidUniqueBeforeWrap ==
    issued <= MaxUid =>
        \A j, k \in Live : mgr.clients[j].uid = mgr.clients[k].uid => j = k

---------------------------------------------------------------------------
\* The inductive invariant of ClientManager_proofs.
UidsFollowCounter ==
    issued <= MaxUid =>
        /\ mgr.next_uid = IF issued = MaxUid THEN 1 ELSE issued + 1
        /\ \A k \in Live : mgr.clients[k].uid <= issued

AttachedFdUnique ==
    \A j, k \in attached : mgr.clients[j].fd = mgr.clients[k].fd => j = k

IInv ==
    /\ TypeOK
    /\ NoDanglingClient
    /\ RefCountExact
    /\ CountMatchesTable
    /\ FindableIsConnected
    /\ AttachedFdUnique
    /\ UidsFollowCounter
    /\ UidUniqueBeforeWrap
============================================================================
