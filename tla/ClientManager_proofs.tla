------------------------ MODULE ClientManager_proofs ------------------------
(***************************************************************************)
(* Safety of the client manager for every number of clients, descriptors,  *)
(* uids, buckets and references.  IInv (ClientManager) is inductive; the   *)
(* properties follow from it.                                              *)
(***************************************************************************)
EXTENDS ClientManager, WellFoundedInduction, FiniteSetTheorems, TLAPS

---------------------------------------------------------------------------
(* The operators of ClientTable. *)

\* The counter of ya_client_create skips 0: it goes to the next uid, or back
\* to 1 after the largest one.
LEMMA UidAfterLemma ==
    ASSUME NEW u \in 1..MaxUid
    PROVE  UidAfter(u) = IF u = MaxUid THEN 1 ELSE u + 1
<1>1. CASE u = MaxUid
  <2>1. (MaxUid + 1) % (MaxUid + 1) = 0
    BY MaxUidAssumption, SMTT(20)
  <2> QED BY <1>1, <2>1 DEF UidAfter
<1>2. CASE u # MaxUid
  <2>1. (u + 1) % (MaxUid + 1) = u + 1
    BY <1>2, MaxUidAssumption, SMTT(20)
  <2> QED BY <1>2, <2>1, MaxUidAssumption DEF UidAfter
<1> QED BY <1>1, <1>2

\* A bounded nonempty set of naturals has a largest element.
LEMMA LargestElement ==
    ASSUME NEW S \in SUBSET Nat, S # {}, NEW n \in Nat, \A k \in S : k <= n
    PROVE  \E k \in S : \A j \in S : j <= k
<1> DEFINE T == {n - k : k \in S}
<1>1. T \subseteq Nat /\ T # {}
  <2>1. \A k \in S : n - k \in Nat
    OBVIOUS
  <2>2. T \subseteq Nat
    BY <2>1
  <2>3. PICK k : k \in S
    OBVIOUS
  <2>4. n - k \in T
    BY <2>3
  <2> QED BY <2>2, <2>4
<1>2. PICK x \in T : \A y \in T : ~ (<<y, x>> \in OpToRel(<, Nat))
  <2> HIDE DEF T
  <2> QED BY <1>1, NatLessThanWellFounded, WFMin
<1>3. PICK k \in S : x = n - k
  BY <1>2
<1>4. ASSUME NEW j \in S PROVE j <= k
  <2>1. n - j \in T
    OBVIOUS
  <2>2. ~ (n - j < n - k)
    BY <1>1, <1>2, <1>3, <2>1 DEF OpToRel
  <2> QED BY <2>2
<1> QED BY <1>3, <1>4

\* The walk over the chain of a uid finds a record when there is one: the
\* newest, the chains being kept newest first.
LEMMA FirstInTableLemma ==
    ASSUME NEW m, NEW S \in SUBSET Nat, S # {}, NEW n \in Nat,
           \A k \in S : k <= n,
           \A j, k \in S : m.clients[j].uid = m.clients[k].uid
    PROVE  FirstInTable(m, S) \in S
<1>1. PICK k \in S : \A j \in S : j <= k
  BY LargestElement
<1>2. \A j \in S : hash_uid(m.clients[k].uid) = hash_uid(m.clients[j].uid)
  BY <1>1
<1> QED BY <1>1, <1>2 DEF FirstInTable

\* What conn_eventcb writes into a record keeps it well formed.
LEMMA ClosedRecord ==
    ASSUME NEW r \in ClientRecord, NEW n \in Nat
    PROVE  /\ [r EXCEPT !.ref_count = n, !.state = DISCONNECTING, !.bev = FALSE]
                 \in ClientRecord
           /\ [r EXCEPT !.ref_count = n, !.state = DISCONNECTING, !.bev = FALSE].uid = r.uid
           /\ [r EXCEPT !.ref_count = n, !.state = DISCONNECTING, !.bev = FALSE].ref_count = n
<1> DEFINE d == [r EXCEPT !.ref_count = n, !.state = DISCONNECTING, !.bev = FALSE]
<1>1. [r EXCEPT !.ref_count = n, !.state = DISCONNECTING] \in ClientRecord
  BY DEF ClientRecord, ClientStates
<1>2. [[r EXCEPT !.ref_count = n, !.state = DISCONNECTING] EXCEPT !.bev = FALSE]
         \in ClientRecord
  BY <1>1 DEF ClientRecord
<1>3. d \in ClientRecord
  BY <1>2, Zenon
<1>4. d.uid = r.uid /\ d.ref_count = n
  BY DEF ClientRecord
<1> QED BY <1>3, <1>4

---------------------------------------------------------------------------
(* The three ways a step changes the table: a record is updated in place,  *)
(* unlinked and freed, or linked at the head of its chain.                 *)

Updated(k, c) ==
    /\ mgr'.clients = [mgr.clients EXCEPT ![k] = c]
    /\ mgr'.client_count = mgr.client_count
    /\ mgr'.next_uid = mgr.next_uid
    /\ mgr' = [clients |-> mgr'.clients, client_count |-> mgr'.client_count,
               next_uid |-> mgr'.next_uid]

Unlinked(k) ==
    /\ mgr'.clients = [j \in Live \ {k} |-> mgr.clients[j]]
    /\ mgr'.client_count = mgr.client_count - 1
    /\ mgr'.next_uid = mgr.next_uid
    /\ mgr' = [clients |-> mgr'.clients, client_count |-> mgr'.client_count,
               next_uid |-> mgr'.next_uid]

\* The conjuncts of IInv that are about the table and the uid counter only.
TableInv ==
    /\ TypeOK
    /\ CountMatchesTable
    /\ UidsFollowCounter
    /\ UidUniqueBeforeWrap

\* The table is finite.
LEMMA LiveFinite ==
    ASSUME TypeOK
    PROVE  IsFiniteSet(Live)
<1>1. created \in Int
  BY DEF TypeOK
<1>2. IsFiniteSet(1..created)
  BY <1>1, FS_Interval
<1> QED BY <1>2, FS_Subset DEF TypeOK, Live

\* A record that keeps its uid can change in any other field.
LEMMA UpdatedLemma ==
    ASSUME TableInv, NEW k \in Live, NEW c \in ClientRecord, Updated(k, c),
           c.uid = mgr.clients[k].uid,
           UNCHANGED <<created, issued>>,
           attached' \subseteq attached, holds' \in [Names -> 0..MaxHolds]
    PROVE  TableInv'
<1>1. Live' = Live
  BY DEF Updated, Live, TableInv, TypeOK
<1>2. mgr'.clients \in [Live -> ClientRecord]
  BY DEF Updated, Live, TableInv, TypeOK
<1>3. TypeOK'
  BY <1>1, <1>2 DEF Updated, Live, TableInv, TypeOK
<1>4. \A j \in Live : mgr'.clients[j].uid = mgr.clients[j].uid
  BY DEF Updated, Live, TableInv, TypeOK
<1>5. CountMatchesTable'
  BY <1>1 DEF Updated, TableInv, CountMatchesTable
<1>6. UidsFollowCounter' /\ UidUniqueBeforeWrap'
  BY <1>1, <1>4 DEF Updated, TableInv, UidsFollowCounter, UidUniqueBeforeWrap
<1> QED BY <1>3, <1>5, <1>6 DEF TableInv

\* Freeing a record decrements client_count once and leaves the others alone.
LEMMA UnlinkedLemma ==
    ASSUME TableInv, NEW k \in Live, Unlinked(k),
           UNCHANGED <<created, issued>>,
           attached' \subseteq attached, holds' \in [Names -> 0..MaxHolds]
    PROVE  TableInv'
<1>1. Live' = Live \ {k}
  BY DEF Unlinked, Live
<1>2. \A j \in Live' : mgr'.clients[j] = mgr.clients[j]
  BY <1>1 DEF Unlinked, Live
<1>3. IsFiniteSet(Live)
  BY LiveFinite DEF TableInv
<1>4. Cardinality(Live') = Cardinality(Live) - 1
  BY <1>1, <1>3, FS_RemoveElement
<1>5. Cardinality(Live') \in Nat
  BY <1>1, <1>3, FS_RemoveElement, FS_CardinalityType
<1>6. CountMatchesTable' /\ mgr'.client_count \in Nat
  BY <1>4, <1>5 DEF Unlinked, TableInv, CountMatchesTable
<1>7. mgr'.clients \in [Live' -> ClientRecord]
  BY <1>1 DEF Unlinked, Live, TableInv, TypeOK
<1>8. TypeOK'
  BY <1>1, <1>6, <1>7 DEF Unlinked, Live, TableInv, TypeOK
<1>9. UidsFollowCounter' /\ UidUniqueBeforeWrap'
  BY <1>1, <1>2 DEF Unlinked, TableInv, UidsFollowCounter, UidUniqueBeforeWrap
<1> QED BY <1>6, <1>8, <1>9 DEF TableInv

---------------------------------------------------------------------------
(* Every step preserves the inductive invariant. *)

USE DEF Names

\* Initialisation, and cleanup at shutdown, leave an empty table.
EmptyManager ==
    /\ mgr = ya_client_manager_init
    /\ created \in 0..MaxClients
    /\ issued = 0
    /\ attached = {}
    /\ holds = [k \in Names |-> 0]

LEMMA EmptyTable == EmptyManager => IInv
<1> SUFFICES ASSUME EmptyManager PROVE IInv
  OBVIOUS
<1> USE DEF EmptyManager
<1>1. mgr.clients = [k \in {} |-> NoClient] /\ mgr.client_count = 0 /\ mgr.next_uid = 1
  BY DEF ya_client_manager_init
<1>2. Live = {}
  BY <1>1 DEF Live
<1>3. TypeOK
  BY <1>1, <1>2, MaxUidAssumption, BoundsAssumption DEF TypeOK, Live, ya_client_manager_init
<1>4. CountMatchesTable
  BY <1>1, <1>2, FS_EmptySet DEF CountMatchesTable
<1>5. NoDanglingClient /\ RefCountExact /\ FindableIsConnected /\ AttachedFdUnique
  BY <1>2 DEF NoDanglingClient, RefCountExact, FindableIsConnected, ActiveClients,
              AttachedFdUnique, Live
<1>6. UidsFollowCounter /\ UidUniqueBeforeWrap
  BY <1>1, <1>2, MaxUidAssumption DEF UidsFollowCounter, UidUniqueBeforeWrap
<1> QED BY <1>3, <1>4, <1>5, <1>6 DEF IInv

\* accept_cb: the new record is named by the next number and takes the next
\* uid; its descriptor is not that of an open connection.
LEMMA AcceptStep ==
    ASSUME IInv, NEW fd \in Fd, Accept(fd)
    PROVE  IInv'
<1> USE DEF IInv
<1> DEFINE n == created + 1
           c == [fd |-> fd, uid |-> mgr.next_uid, ref_count |-> 1,
                 state |-> ACTIVE, bev |-> TRUE]
<1>1. /\ mgr'.clients = [j \in Live \cup {n} |-> IF j = n THEN c ELSE mgr.clients[j]]
      /\ mgr'.client_count = mgr.client_count + 1
      /\ mgr'.next_uid = UidAfter(mgr.next_uid)
      /\ mgr' = [clients |-> mgr'.clients, client_count |-> mgr'.client_count,
                 next_uid |-> mgr'.next_uid]
  <2>1. mgr.next_uid # 0
    BY MaxUidAssumption DEF TypeOK
  <2> QED BY <2>1 DEF Accept, ya_client_create, Live
<1>2. n \notin Live /\ n \in 1..MaxClients /\ n \notin attached
  BY BoundsAssumption DEF Accept, TypeOK, Live
<1>3. Live' = Live \cup {n}
  BY <1>1 DEF Live
<1>4. c \in ClientRecord
  BY DEF ClientRecord, ClientStates, TypeOK
<1>5. mgr'.clients[n] = c /\ \A j \in Live : mgr'.clients[j] = mgr.clients[j]
  BY <1>1, <1>2
<1>6. /\ mgr'.next_uid = IF mgr.next_uid = MaxUid THEN 1 ELSE mgr.next_uid + 1
      /\ mgr'.next_uid \in 1..MaxUid
  BY <1>1, UidAfterLemma, MaxUidAssumption DEF TypeOK
<1>7. CountMatchesTable' /\ mgr'.client_count \in Nat
  <2>1. IsFiniteSet(Live)
    BY LiveFinite
  <2>2. Cardinality(Live') = Cardinality(Live) + 1
    BY <1>2, <1>3, <2>1, FS_AddElement
  <2> QED BY <1>1, <2>2 DEF CountMatchesTable, TypeOK
<1>8. mgr'.clients \in [Live' -> ClientRecord]
  BY <1>1, <1>3, <1>4 DEF TypeOK, Live
<1>9. TypeOK'
  BY <1>1, <1>3, <1>6, <1>7, <1>8, BoundsAssumption DEF TypeOK, Live, Accept
<1>10. NoDanglingClient'
  BY <1>3 DEF NoDanglingClient, Accept
<1>11. holds[n] = 0
  BY <1>2 DEF NoDanglingClient, TypeOK
<1>12. RefCountExact'
  BY <1>2, <1>3, <1>5, <1>11 DEF RefCountExact, Owned, Accept
<1>13. FindableIsConnected'
  BY <1>3, <1>5 DEF FindableIsConnected, ActiveClients, Live, Accept
<1>14. AttachedFdUnique'
  <2>1. \A j \in attached : j \in Live
    BY BoundsAssumption DEF NoDanglingClient, TypeOK
  <2> QED BY <1>2, <1>5, <2>1 DEF AttachedFdUnique, Accept
<1>15. UidsFollowCounter'
  <2> SUFFICES ASSUME issued + 1 <= MaxUid
               PROVE  /\ mgr'.next_uid = IF issued + 1 = MaxUid THEN 1 ELSE issued + 2
                      /\ \A k \in Live' : mgr'.clients[k].uid <= issued + 1
    BY DEF UidsFollowCounter, Accept, TypeOK
  <2>1. mgr.next_uid = issued + 1 /\ \A j \in Live : mgr.clients[j].uid <= issued
    BY MaxUidAssumption DEF UidsFollowCounter, TypeOK
  <2>2. \A j \in Live : mgr.clients[j].uid \in Int
    BY MaxUidAssumption DEF TypeOK, Live, ClientRecord
  <2>3. \A k \in Live' : mgr'.clients[k].uid <= issued + 1
    BY <1>3, <1>5, <2>1, <2>2 DEF TypeOK
  <2> QED BY <1>6, <2>1, <2>3 DEF TypeOK
<1>16. UidUniqueBeforeWrap'
  <2> SUFFICES ASSUME issued + 1 <= MaxUid
               PROVE  \A j, k \in Live' :
                         mgr'.clients[j].uid = mgr'.clients[k].uid => j = k
    BY DEF UidUniqueBeforeWrap, Accept
  <2>1. mgr.next_uid = issued + 1 /\ \A j \in Live : mgr.clients[j].uid <= issued
    BY MaxUidAssumption DEF UidsFollowCounter, TypeOK
  <2>2. \A j \in Live : mgr.clients[j].uid # c.uid
    BY <2>1 DEF TypeOK
  <2>3. \A j, k \in Live : mgr.clients[j].uid = mgr.clients[k].uid => j = k
    BY MaxUidAssumption DEF UidUniqueBeforeWrap, TypeOK
  <2> QED BY <1>3, <1>5, <2>2, <2>3
<1> QED BY <1>7, <1>9, <1>10, <1>12, <1>13, <1>14, <1>15, <1>16

\* ya_client_ref: the caller's pointer is one more reference.
LEMMA HoldStep ==
    ASSUME IInv, NEW k \in Names, Hold(k)
    PROVE  IInv'
<1> USE DEF IInv
<1> DEFINE c == [mgr.clients[k] EXCEPT !.ref_count = @ + 1]
<1>1. k \in Live /\ mgr.clients[k] \in ClientRecord
  BY DEF Hold, NoDanglingClient, TypeOK, Live
<1>2. c \in ClientRecord /\ c.uid = mgr.clients[k].uid
  BY <1>1 DEF ClientRecord
<1>3. Updated(k, c)
  BY <1>1 DEF Hold, ya_client_ref, Updated, TypeOK
<1>4. holds' \in [Names -> 0..MaxHolds]
  BY BoundsAssumption DEF Hold, TypeOK
<1>5. TableInv'
  BY <1>1, <1>2, <1>3, <1>4, UpdatedLemma DEF TableInv, Hold
<1>6. Live' = Live /\ mgr'.clients[k] = c
      /\ \A j \in Live \ {k} : mgr'.clients[j] = mgr.clients[j]
  BY <1>1, <1>3 DEF Updated, Live
<1>7. NoDanglingClient'
  BY <1>1, <1>6 DEF NoDanglingClient, Hold, TypeOK
<1>8. RefCountExact'
  BY <1>1, <1>6 DEF RefCountExact, Owned, Hold, TypeOK, ClientRecord
<1>9. c.state = mgr.clients[k].state /\ c.bev = mgr.clients[k].bev /\ c.fd = mgr.clients[k].fd
  BY <1>1 DEF ClientRecord
<1>10. FindableIsConnected'
  BY <1>6, <1>9 DEF FindableIsConnected, ActiveClients, Live, Hold
<1>11. AttachedFdUnique'
  <2>1. \A j \in attached : j \in Live
    BY BoundsAssumption DEF NoDanglingClient, TypeOK
  <2>2. \A j \in Live : mgr'.clients[j].fd = mgr.clients[j].fd
    BY <1>6, <1>9
  <2> HIDE DEF c
  <2> QED BY <2>1, <2>2 DEF AttachedFdUnique, Hold
<1> QED BY <1>5, <1>7, <1>8, <1>10, <1>11 DEF TableInv

\* conn_eventcb: the state it sets keeps ya_client_unref from freeing the
\* record, so the pointers that callers hold stay valid.
LEMMA CloseStep ==
    ASSUME IInv, NEW k \in Names, Close(k)
    PROVE  IInv'
<1> USE DEF IInv
<1> DEFINE c == [mgr.clients[k] EXCEPT !.ref_count = @ - 1,
                                       !.state = DISCONNECTING, !.bev = FALSE]
<1>1. /\ k \in Live /\ mgr.clients[k] \in ClientRecord
      /\ mgr.clients[k].ref_count = holds[k] + 1
  BY DEF Close, NoDanglingClient, TypeOK, Live, RefCountExact, Owned
<1>2. holds[k] \in Nat
  BY BoundsAssumption DEF TypeOK
<1>3. c \in ClientRecord /\ c.uid = mgr.clients[k].uid /\ c.ref_count = holds[k]
  <2>1. mgr.clients[k].ref_count - 1 = holds[k]
    BY <1>1, <1>2
  <2> DEFINE r == mgr.clients[k]
             d == [r EXCEPT !.ref_count = holds[k], !.state = DISCONNECTING, !.bev = FALSE]
  <2>2. c = d
    BY <2>1
  <2>3. d \in ClientRecord /\ d.uid = r.uid /\ d.ref_count = holds[k]
    BY <1>1, <1>2, ClosedRecord
  <2> QED BY <2>2, <2>3
<1>4. Updated(k, c)
  <2> DEFINE m == [mgr EXCEPT !.clients[k].state = DISCONNECTING,
                              !.clients[k].bev = FALSE]
  <2>1. m.clients[k] = [mgr.clients[k] EXCEPT !.state = DISCONNECTING, !.bev = FALSE]
    BY <1>1 DEF TypeOK, Live
  <2>2. /\ m.clients[k].ref_count = mgr.clients[k].ref_count
        /\ m.clients[k].state = DISCONNECTING
    BY <1>1, <2>1 DEF ClientRecord
  <2>3. mgr' = [m EXCEPT !.clients[k].ref_count = @ - 1]
    BY <1>1, <1>2, <2>2 DEF Close, Disconnect, ya_client_unref,
                            DISCONNECTING, DISCONNECTED
  <2> QED BY <1>1, <2>3 DEF Updated, TypeOK, Live, ClientRecord
<1>5. TableInv'
  BY <1>1, <1>3, <1>4, UpdatedLemma DEF TableInv, Close, TypeOK
<1>6. Live' = Live /\ mgr'.clients[k] = c
      /\ \A j \in Live \ {k} : mgr'.clients[j] = mgr.clients[j]
  BY <1>1, <1>4 DEF Updated, Live
<1>7. NoDanglingClient'
  BY <1>6 DEF NoDanglingClient, Close
<1>8. RefCountExact'
  <2> HIDE DEF c
  <2>1. mgr'.clients[k].ref_count = holds'[k] + Owned(k)'
    BY <1>2, <1>3, <1>6 DEF Owned, Close
  <2>2. ASSUME NEW j \in Live, j # k
        PROVE  mgr'.clients[j].ref_count = holds'[j] + Owned(j)'
    BY <1>6, <2>2 DEF RefCountExact, Owned, Close
  <2> QED BY <1>6, <2>1, <2>2 DEF RefCountExact
<1>9. c.state # ACTIVE
  BY <1>1 DEF ClientRecord, ACTIVE, DISCONNECTING
<1>10. FindableIsConnected'
  BY <1>6, <1>9 DEF FindableIsConnected, ActiveClients, Live, Close
<1>11. AttachedFdUnique'
  <2>1. \A j \in attached : j \in Live
    BY BoundsAssumption DEF NoDanglingClient, TypeOK
  <2> QED BY <1>6, <2>1 DEF AttachedFdUnique, Close
<1> QED BY <1>5, <1>7, <1>8, <1>10, <1>11 DEF TableInv

\* Freeing a record that nobody references keeps the whole invariant.
LEMMA FreeUnreferenced ==
    ASSUME IInv, NEW k \in Live, Unlinked(k), UNCHANGED <<created, issued, attached>>,
           holds' \in [Names -> 0..MaxHolds], k \notin attached, holds'[k] = 0,
           \A j \in Names : j # k => holds'[j] = holds[j]
    PROVE  IInv'
<1> USE DEF IInv
<1>1. TableInv'
  BY UnlinkedLemma DEF TableInv
<1>2. Live' = Live \ {k} /\ \A j \in Live' : mgr'.clients[j] = mgr.clients[j]
  BY DEF Unlinked, Live
<1>3. Live \subseteq Names
  BY BoundsAssumption DEF TypeOK, Live
<1>4. NoDanglingClient'
  BY <1>2 DEF NoDanglingClient
<1>5. RefCountExact'
  BY <1>2, <1>3 DEF RefCountExact, Owned
<1>6. FindableIsConnected'
  BY <1>2 DEF FindableIsConnected, ActiveClients, Live
<1>7. AttachedFdUnique'
  <2>1. \A j \in attached : j \in Live'
    BY <1>2, BoundsAssumption DEF NoDanglingClient, TypeOK
  <2> QED BY <1>2, <2>1 DEF AttachedFdUnique
<1> QED BY <1>1, <1>4, <1>5, <1>6, <1>7 DEF TableInv

\* Changing the reference count, or leaving ACTIVE, keeps it as well when the
\* new count is the number of references left.
LEMMA UpdateReferenced ==
    ASSUME IInv, NEW k \in Live, NEW c \in ClientRecord, Updated(k, c),
           UNCHANGED <<created, issued, attached>>,
           holds' \in [Names -> 0..MaxHolds],
           \A j \in Names : j # k => holds'[j] = holds[j],
           c.uid = mgr.clients[k].uid, c.fd = mgr.clients[k].fd,
           c.bev = mgr.clients[k].bev,
           c.state = ACTIVE => mgr.clients[k].state = ACTIVE,
           c.ref_count = holds'[k] + Owned(k)
    PROVE  IInv'
<1> USE DEF IInv
<1>1. TableInv'
  BY UpdatedLemma DEF TableInv
<1>2. Live' = Live /\ mgr'.clients[k] = c
      /\ \A j \in Live \ {k} : mgr'.clients[j] = mgr.clients[j]
  BY DEF Updated, Live
<1>3. Live \subseteq Names
  BY BoundsAssumption DEF TypeOK, Live
<1>4. NoDanglingClient'
  BY <1>2 DEF NoDanglingClient
<1>5. RefCountExact'
  BY <1>2, <1>3 DEF RefCountExact, Owned
<1>6. FindableIsConnected'
  BY <1>2 DEF FindableIsConnected, ActiveClients, Live
<1>7. AttachedFdUnique'
  <2>1. \A j \in attached : j \in Live
    BY BoundsAssumption DEF NoDanglingClient, TypeOK
  <2>2. \A j \in Live : mgr'.clients[j].fd = mgr.clients[j].fd
    BY <1>2
  <2> QED BY <2>1, <2>2 DEF AttachedFdUnique
<1> QED BY <1>1, <1>4, <1>5, <1>6, <1>7 DEF TableInv

\* ya_client_unref by a caller.  The count is at least 1, so it is this
\* reference that is dropped; the record is freed only with the last one.
LEMMA ReleaseStep ==
    ASSUME IInv, NEW k \in Names, Release(k)
    PROVE  IInv'
<1> USE DEF IInv
<1>1. k \in Live /\ mgr.clients[k] \in ClientRecord
  BY DEF Release, NoDanglingClient, TypeOK, Live
<1>2. holds[k] \in Nat /\ Owned(k) \in Nat
  BY BoundsAssumption DEF TypeOK, Owned
<1>3. mgr.clients[k].ref_count = holds[k] + Owned(k) /\ holds[k] > 0
  BY <1>1 DEF RefCountExact, Release
<1>4. /\ holds' \in [Names -> 0..MaxHolds] /\ holds'[k] = holds[k] - 1
      /\ \A j \in Names : j # k => holds'[j] = holds[j]
  BY BoundsAssumption DEF Release, TypeOK
<1>5. CASE mgr.clients[k].ref_count = 1 /\ mgr.clients[k].state = DISCONNECTED
  <2>1. mgr' = Freed(mgr, k)
    BY <1>5 DEF Release, ya_client_unref
  <2>2. Unlinked(k)
    BY <2>1 DEF Freed, Unlinked, Live, TypeOK
  <2>3. k \notin attached /\ holds'[k] = 0
    BY <1>2, <1>3, <1>4, <1>5 DEF Owned
  <2> QED BY <1>1, <1>4, <2>2, <2>3, FreeUnreferenced DEF Release
<1>6. CASE ~ (mgr.clients[k].ref_count = 1 /\ mgr.clients[k].state = DISCONNECTED)
  <2> DEFINE n == mgr.clients[k].ref_count - 1
             c == [mgr.clients[k] EXCEPT !.ref_count = n]
  <2>1. mgr.clients[k].ref_count # 0
    BY <1>2, <1>3
  <2>2. mgr' = [mgr EXCEPT !.clients[k].ref_count = @ - 1]
    BY <1>6, <2>1 DEF Release, ya_client_unref
  <2>3. Updated(k, c)
    BY <1>1, <2>2 DEF Updated, Live, TypeOK
  <2>4. n \in Nat /\ n = holds'[k] + Owned(k)
    BY <1>2, <1>3, <1>4
  <2>5. /\ c \in ClientRecord
        /\ c.uid = mgr.clients[k].uid /\ c.fd = mgr.clients[k].fd
        /\ c.bev = mgr.clients[k].bev /\ c.state = mgr.clients[k].state
        /\ c.ref_count = n
    <3> HIDE DEF n
    <3> QED BY <1>1, <2>4 DEF ClientRecord
  <2> HIDE DEF c
  <2> QED BY <1>1, <1>4, <2>3, <2>4, <2>5, UpdateReferenced DEF Release
<1> QED BY <1>5, <1>6

\* ya_client_remove: frees at once only what nobody references, and otherwise
\* takes the client out of the lookups.
LEMMA RemoveStep ==
    ASSUME IInv, NEW uid \in 1..MaxUid, Remove(uid)
    PROVE  IInv'
<1> USE DEF IInv
<1> DEFINE S == {k \in DOMAIN mgr.clients : mgr.clients[k].uid = uid}
           k == FirstInTable(mgr, S)
<1>1. CASE S = {}
  <2>1. UNCHANGED vars
    BY <1>1 DEF Remove, ya_client_remove, vars
  <2> QED BY <2>1 DEF vars, TypeOK, Live, NoDanglingClient, RefCountExact, Owned,
             CountMatchesTable, FindableIsConnected, ActiveClients, AttachedFdUnique,
             UidsFollowCounter, UidUniqueBeforeWrap
<1>2. CASE S # {}
  <2>1. S \in SUBSET Nat /\ created \in Nat /\ \A j \in S : j <= created
    BY DEF TypeOK
  <2>2. \A i, j \in S : mgr.clients[i].uid = mgr.clients[j].uid
    OBVIOUS
  <2>3. k \in S
    <3> HIDE DEF S
    <3> QED BY <1>2, <2>1, <2>2, FirstInTableLemma
  <2>4. k \in Live /\ mgr.clients[k] \in ClientRecord /\ k \in Names
    BY <2>3, BoundsAssumption DEF Live, TypeOK
  <2>5. mgr' = IF mgr.clients[k].ref_count = 0 THEN Freed(mgr, k)
               ELSE [mgr EXCEPT !.clients[k].state = DISCONNECTED]
    BY <1>2, MaxUidAssumption DEF Remove, ya_client_remove
  <2> HIDE DEF k, S
  <2>6. holds[k] \in Nat /\ Owned(k) \in Nat /\ holds' \in [Names -> 0..MaxHolds]
    BY <2>4, BoundsAssumption DEF TypeOK, Owned, Remove
  <2>7. CASE mgr.clients[k].ref_count = 0
    <3>1. Unlinked(k)
      BY <2>5, <2>7 DEF Freed, Unlinked, Live, TypeOK
    <3>2. k \notin attached /\ holds[k] = 0
      BY <2>4, <2>6, <2>7 DEF RefCountExact, Owned
    <3> QED BY <2>4, <2>6, <3>1, <3>2, FreeUnreferenced DEF Remove
  <2>8. CASE mgr.clients[k].ref_count # 0
    <3> DEFINE c == [mgr.clients[k] EXCEPT !.state = DISCONNECTED]
    <3>1. Updated(k, c)
      BY <2>4, <2>5, <2>8 DEF Updated, Live, TypeOK
    <3>2. /\ c \in ClientRecord
          /\ c.uid = mgr.clients[k].uid /\ c.fd = mgr.clients[k].fd
          /\ c.bev = mgr.clients[k].bev /\ c.state = DISCONNECTED
          /\ c.ref_count = mgr.clients[k].ref_count
      BY <2>4 DEF ClientRecord, ClientStates
    <3>3. c.ref_count = holds'[k] + Owned(k) /\ c.state # ACTIVE
      BY <2>4, <3>2 DEF RefCountExact, Remove, ACTIVE, DISCONNECTED
    <3> HIDE DEF c
    <3> QED BY <2>4, <2>6, <3>1, <3>2, <3>3, UpdateReferenced DEF Remove
  <2> QED BY <2>7, <2>8
<1> QED BY <1>1, <1>2

\* stop(): ya_client_manager_cleanup frees every record.
LEMMA CleanupStep ==
    ASSUME IInv, Cleanup
    PROVE  IInv'
<1>1. /\ mgr' = ya_client_manager_init /\ issued' = 0 /\ attached' = {}
      /\ created' \in 0..MaxClients
  BY DEF Cleanup, ya_client_manager_cleanup, IInv, TypeOK
<1>2. holds' = [k \in Names |-> 0]
  BY DEF Cleanup, IInv, TypeOK
<1>3. EmptyManager'
  BY <1>1, <1>2 DEF EmptyManager
<1> QED BY <1>3, EmptyTable, PTL

---------------------------------------------------------------------------
(* The invariance theorems. *)

\* IInv holds of every reachable state.
THEOREM Invariance == Spec => []IInv
<1>1. Init => IInv
  <2>1. Init => EmptyManager
    BY BoundsAssumption DEF Init, EmptyManager
  <2> QED BY <2>1, EmptyTable
<1>2. IInv /\ [Next]_vars => IInv'
  <2> SUFFICES ASSUME IInv, [Next]_vars PROVE IInv'
    OBVIOUS
  <2>1. ASSUME NEW fd \in Fd, Accept(fd) PROVE IInv'
    BY <2>1, AcceptStep
  <2>2. ASSUME NEW k \in Names, Hold(k) PROVE IInv'
    BY <2>2, HoldStep
  <2>3. ASSUME NEW k \in Names, Release(k) PROVE IInv'
    BY <2>3, ReleaseStep
  <2>4. ASSUME NEW k \in Names, Close(k) PROVE IInv'
    BY <2>4, CloseStep
  <2>5. ASSUME NEW uid \in 1..MaxUid, Remove(uid) PROVE IInv'
    BY <2>5, RemoveStep
  <2>6. CASE Cleanup
    BY <2>6, CleanupStep
  <2>7. CASE UNCHANGED vars
    BY <2>7 DEF vars, IInv, TypeOK, Live, NoDanglingClient, RefCountExact, Owned,
       CountMatchesTable, FindableIsConnected, ActiveClients, AttachedFdUnique,
       UidsFollowCounter, UidUniqueBeforeWrap
  <2> QED BY <2>1, <2>2, <2>3, <2>4, <2>5, <2>6, <2>7 DEF Next
<1> QED BY <1>1, <1>2, PTL DEF Spec

\* The manager's state is well typed: in particular next_uid is never 0.
THEOREM TypeCorrect == Spec => []TypeOK
<1>1. IInv => TypeOK
  BY DEF IInv
<1> QED BY <1>1, Invariance, PTL

\* No unref, remove or disconnect frees a client that callbacks or a caller
\* can still reach.
THEOREM NoUseAfterFree == Spec => []NoDanglingClient
<1>1. IInv => NoDanglingClient
  BY DEF IInv
<1> QED BY <1>1, Invariance, PTL

\* ref_count is the number of parties that may use the client.
THEOREM ReferencesCounted == Spec => []RefCountExact
<1>1. IInv => RefCountExact
  BY DEF IInv
<1> QED BY <1>1, Invariance, PTL

\* client_count is the number of allocated clients.
THEOREM ClientsCounted == Spec => []CountMatchesTable
<1>1. IInv => CountMatchesTable
  BY DEF IInv
<1> QED BY <1>1, Invariance, PTL

\* Whatever a lookup returns still has its connection.
THEOREM LookupsReturnConnected == Spec => []FindableIsConnected
<1>1. IInv => FindableIsConnected
  BY DEF IInv
<1> QED BY <1>1, Invariance, PTL

\* ya_client_find_by_fd has at most one candidate.
THEOREM DescriptorsUnambiguous == Spec => []ActiveFdUnique
<1>1. IInv => ActiveFdUnique
  BY DEF IInv, FindableIsConnected, AttachedFdUnique, ActiveFdUnique
<1> QED BY <1>1, Invariance, PTL

\* Until the counter wraps, that is for the first UINT32_MAX clients, no two
\* clients have the same uid.
THEOREM UidsDistinct == Spec => []UidUniqueBeforeWrap
<1>1. IInv => UidUniqueBeforeWrap
  BY DEF IInv
<1> QED BY <1>1, Invariance, PTL
============================================================================
