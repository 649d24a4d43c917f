--------------------------- MODULE MetricsProofs ---------------------------
(***************************************************************************)
(* Proofs about the labelled series, for any number of handlers, hosts and *)
(* labels, and any cap: the types and the caps of the three maps, and the  *)
(* exactness of the publishers' counters, of the two breakdowns, and of    *)
(* the counters of what the caps keep out.                                 *)
(***************************************************************************)
EXTENDS MetricsProps, SumTheorems, TLAPS

(* The result of bumpLabel on a map within its cap is a map within its cap. *)
LEMMA BumpLabelTypes ==
  ASSUME NEW S, IsFiniteSet(S), NEW m \in SUBSET S, Cardinality(m) <= MaxEventLabels,
         NEW count \in [S -> Nat], NEW k \in S
  PROVE  LET b == BumpLabel(m, count, k) IN
         /\ b.keys \subseteq S /\ Cardinality(b.keys) <= MaxEventLabels
         /\ b.count \in [S -> Nat]
         /\ b.drop \in 0..1
<1> USE MetricsAssumption
<1>1. IsFiniteSet(m) /\ Cardinality(m) \in Nat
  BY FS_Subset, FS_CardinalityType
<1>2. CASE k \notin m /\ Full(m)
  BY <1>1, <1>2 DEF BumpLabel
<1>3. CASE ~(k \notin m /\ Full(m))
  <2>1. IsFiniteSet(m \cup {k}) /\ Cardinality(m \cup {k})
          = IF k \in m THEN Cardinality(m) ELSE Cardinality(m) + 1
    BY <1>1, FS_AddElement
  <2>2. Cardinality(m \cup {k}) <= MaxEventLabels
    BY <1>1, <1>3, <2>1 DEF Full
  <2>3. [count EXCEPT ![k] = @ + 1] \in [S -> Nat]
    OBVIOUS
  <2> QED
    BY <1>3, <2>2, <2>3 DEF BumpLabel
<1> QED
  BY <1>2, <1>3

----------------------------------------------------------------------------
LEMMA PeerInsertTypes ==
  ASSUME TypeOK, NEW h \in Handlers, RequestInsert(h)
  PROVE  TypeOK'
<1> USE MetricsAssumption
<1>1. IsFiniteSet(peers) /\ Cardinality(peers) \in Nat
  BY FS_Subset, FS_CardinalityType DEF TypeOK
<1>2. Cardinality(peers \cup {host[h]})
        = IF host[h] \in peers THEN Cardinality(peers) ELSE Cardinality(peers) + 1
  BY <1>1, FS_AddElement, Zenon
<1>3. Cardinality(peers') <= MaxPeers /\ peers' \subseteq Hosts
  <2>1. CASE UNCHANGED peers
    BY <2>1 DEF TypeOK
  <2>2. CASE Cardinality(peers) < MaxPeers /\ peers' = peers \cup {host[h]}
    <3>1. Cardinality(peers') <= MaxPeers
      BY <1>1, <1>2, <2>2
    <3>2. peers' \subseteq Hosts
      BY <2>2 DEF TypeOK
    <3> QED
      BY <3>1, <3>2
  <2> QED
    BY <2>1, <2>2 DEF RequestInsert, peerVars
<1>4. /\ peersDropped' \in Nat
      /\ registrations' \in [Hosts -> Nat] /\ heartbeats' \in [Hosts -> Nat]
  BY DEF RequestInsert, TypeOK, peerVars
<1> QED
  BY <1>3, <1>4 DEF RequestInsert, TypeOK, labelVars, localVars, peerCalls, eventCalls, To, Pc

LEMMA PeerTypes ==
  ASSUME TypeOK, NEW h \in Handlers, RecordPeer(h)
  PROVE  TypeOK'
<1> USE MetricsAssumption
<1>1. ASSUME NEW p \in Hosts, RequestCall(h, p) PROVE TypeOK'
  BY <1>1 DEF RequestCall, TypeOK, peerVars, labelVars, localVars, eventCalls, To, Pc
<1>2. CASE RequestLookup(h)
  BY <1>2 DEF RequestLookup, TypeOK, peerVars, labelVars, localVars, peerCalls, eventCalls, To, Pc
<1>3. CASE RequestInsert(h)
  BY <1>3, PeerInsertTypes
<1>4. CASE Registration(h)
  BY <1>4 DEF Registration, TypeOK, labelVars, localVars, eventCalls, To, Pc
<1>5. CASE Heartbeat(h)
  BY <1>5 DEF Heartbeat, TypeOK, labelVars, localVars, eventCalls, To, Pc
<1>6. CASE Finish(h)
  BY <1>6 DEF Finish, TypeOK, peerVars, labelVars, localVars, peerCalls, eventCalls, To, Pc
<1> QED
  BY <1>1, <1>2, <1>3, <1>4, <1>5, <1>6 DEF RecordPeer

----------------------------------------------------------------------------
LEMMA InsertLabelsTypes ==
  ASSUME TypeOK, NEW h \in Handlers, InsertLabels(h)
  PROVE  TypeOK'
<1> USE MetricsAssumption
<1> DEFINE t == BumpLabel(types, typeCount, key[h])
<1> DEFINE s == IF server[h] = NoServer
                  THEN [keys |-> servers, count |-> serverCount, drop |-> 0]
                  ELSE BumpLabel(servers, serverCount, server[h])
<1>1. /\ types' = t.keys /\ typeCount' = t.count
      /\ servers' = s.keys /\ serverCount' = s.count
      /\ eventLabelsDropped' = eventLabelsDropped + t.drop + s.drop
  BY DEF InsertLabels
<1>2. /\ t.keys \subseteq Types /\ Cardinality(t.keys) <= MaxEventLabels
      /\ t.count \in [Types -> Nat] /\ t.drop \in 0..1
  <2>1. /\ IsFiniteSet(Types) /\ types \in SUBSET Types /\ Cardinality(types) <= MaxEventLabels
        /\ typeCount \in [Types -> Nat] /\ key[h] \in Types
    BY DEF TypeOK
  <2> QED
    BY <2>1, BumpLabelTypes
<1>3. /\ s.keys \subseteq Servers /\ Cardinality(s.keys) <= MaxEventLabels
      /\ s.count \in [Servers -> Nat] /\ s.drop \in 0..1
  <2>1. /\ IsFiniteSet(Servers) /\ servers \in SUBSET Servers
        /\ Cardinality(servers) <= MaxEventLabels
        /\ serverCount \in [Servers -> Nat] /\ server[h] \in Servers \cup {NoServer}
    BY DEF TypeOK
  <2>2. CASE server[h] = NoServer
    BY <2>1, <2>2
  <2>3. CASE server[h] # NoServer
    <3>1. server[h] \in Servers
      BY <2>1, <2>3
    <3>2. s = BumpLabel(servers, serverCount, server[h])
      BY <2>3
    <3> HIDE DEF s
    <3> QED
      BY <2>1, <3>1, <3>2, BumpLabelTypes
  <2> QED
    BY <2>2, <2>3
<1> HIDE DEF t, s
<1>4. /\ types' \subseteq Types /\ Cardinality(types') <= MaxEventLabels
      /\ servers' \subseteq Servers /\ Cardinality(servers') <= MaxEventLabels
      /\ typeCount' \in [Types -> Nat] /\ serverCount' \in [Servers -> Nat]
  BY <1>1, <1>2, <1>3
<1>5. eventLabelsDropped' \in Nat
  BY <1>1, <1>2, <1>3 DEF TypeOK
<1>6. pc' \in [Handlers -> Pc]
  BY DEF InsertLabels, TypeOK, To, Pc
<1>7. UNCHANGED <<peerVars, host, peerCalls, localVars, calls, eventCalls>>
  BY DEF InsertLabels, beyondEvent
<1> QED
  BY <1>4, <1>5, <1>6, <1>7 DEF TypeOK, peerVars, peerCalls, localVars, eventCalls

LEMMA EventTypes ==
  ASSUME TypeOK, NEW h \in Handlers, RecordEvent(h)
  PROVE  TypeOK'
<1> USE MetricsAssumption DEF beyondEvent
<1>1. ASSUME NEW k \in Types, NEW s \in Servers \cup {NoServer}, EventLook(h, k, s) PROVE TypeOK'
  <2>1. served' \in [Servers -> Nat]
    BY <1>1 DEF EventLook, TypeOK
  <2>2. typed' \in [Types -> Nat] /\ calls' \in Nat
    BY <1>1 DEF EventLook, TypeOK
  <2>3. key' \in [Handlers -> Types] /\ server' \in [Handlers -> Servers \cup {NoServer}]
    BY <1>1 DEF EventLook, TypeOK
  <2>4. knewType' \in [Handlers -> BOOLEAN] /\ knewServer' \in [Handlers -> BOOLEAN]
    BY <1>1 DEF EventLook, TypeOK
  <2>5. pc' \in [Handlers -> Pc]
    BY <1>1 DEF EventLook, TypeOK, To, Pc
  <2>6. UNCHANGED <<peerVars, host, peerCalls, labelVars, dropped>>
    BY <1>1 DEF EventLook
  <2> QED
    BY <2>1, <2>2, <2>3, <2>4, <2>5, <2>6 DEF TypeOK, peerVars, peerCalls, labelVars
<1>2. CASE BumpType(h)
  BY <1>2 DEF BumpType, TypeOK, peerVars, peerCalls, eventCalls, To, Pc
<1>3. CASE BumpServer(h)
  <2>1. serverCount' \in [Servers -> Nat] /\ dropped' \in [Handlers -> Nat]
    BY <1>3 DEF BumpServer, TypeOK
  <2> QED
    BY <1>3, <2>1 DEF BumpServer, TypeOK, peerVars, peerCalls, eventCalls, To, Pc
<1>4. CASE AddDropped(h)
  BY <1>4 DEF AddDropped, TypeOK, peerVars, peerCalls, eventCalls, To, Pc
<1>5. CASE InsertLabels(h)
  BY <1>5, InsertLabelsTypes
<1> QED
  BY <1>1, <1>2, <1>3, <1>4, <1>5 DEF RecordEvent

(* Every variable keeps its type, and the peer table and the two breakdowns
   never grow past their caps, whatever the handlers do at the same time. *)
THEOREM MetricsTypeCorrect == Spec => []TypeOK
<1>1. Init => TypeOK
  <2>1. Cardinality({}) = 0
    BY FS_EmptySet
  <2> QED
    BY <2>1, MetricsAssumption DEF Init, TypeOK, Pc
<1>2. TypeOK /\ [Next]_vars => TypeOK'
  <2> SUFFICES ASSUME TypeOK, [Next]_vars PROVE TypeOK'
    OBVIOUS
  <2>1. CASE Next
    BY <2>1, PeerTypes, EventTypes DEF Next
  <2>2. CASE UNCHANGED vars
    BY <2>2 DEF vars, peerVars, labelVars, localVars, peerCalls, eventCalls, TypeOK
  <2> QED
    BY <2>1, <2>2
<1> QED
  BY <1>1, <1>2, PTL DEF Spec

----------------------------------------------------------------------------
(* Why a peer is counted from its first handshake: whoever is past the look-up
   has its peer in the table or found the table full, and a full table stays
   full; so a peer that is inserted now has no handshake behind it. *)
TableFull == Cardinality(peers) >= MaxPeers

KnownOrFull ==
  \A h \in Handlers :
    pc[h] \notin {"idle", "lookup", "insertPeer"} => host[h] \in peers \/ TableFull

AbsentIsNewOrFull ==
  \A p \in Hosts \ peers : (registered[p] = 0 /\ beats[p] = 0) \/ TableFull

PeerInv == TypeOK /\ KnownOrFull /\ AbsentIsNewOrFull /\ PeersAreExact

LEMMA InsertKeepsPeerInv ==
  ASSUME PeerInv, NEW h \in Handlers, RequestInsert(h)
  PROVE  (KnownOrFull /\ AbsentIsNewOrFull /\ PeersAreExact)'
<1> USE MetricsAssumption
<1>1. /\ pc' = [pc EXCEPT ![h] = "serving"] /\ UNCHANGED <<host, registered, beats>>
      /\ pc \in [Handlers -> Pc] /\ host \in [Handlers -> Hosts]
  BY DEF RequestInsert, PeerInv, TypeOK, To, peerCalls
<1>2. CASE host[h] \in peers \/ TableFull
  <2>1. UNCHANGED <<peers, registrations, heartbeats>>
    <3>1. IsFiniteSet(peers) /\ Cardinality(peers) \in Nat
      BY FS_Subset, FS_CardinalityType DEF PeerInv, TypeOK
    <3> QED
      BY <1>2, <3>1 DEF RequestInsert, peerVars, TableFull
  <2>2. KnownOrFull'
    BY <1>1, <1>2, <2>1 DEF PeerInv, KnownOrFull, TableFull
  <2>3. AbsentIsNewOrFull' /\ PeersAreExact'
    BY <1>1, <2>1 DEF PeerInv, AbsentIsNewOrFull, PeersAreExact, TableFull
  <2> QED
    BY <2>2, <2>3
<1>3. CASE host[h] \notin peers /\ ~TableFull
  <2>1. /\ peers' = peers \cup {host[h]}
        /\ registrations' = [registrations EXCEPT ![host[h]] = 0]
        /\ heartbeats' = [heartbeats EXCEPT ![host[h]] = 0]
    BY <1>3 DEF RequestInsert, peerVars, TableFull
  <2>2. KnownOrFull'
    BY <1>1, <1>3, <2>1 DEF PeerInv, KnownOrFull
  <2>3. AbsentIsNewOrFull'
    BY <1>1, <1>3, <2>1 DEF PeerInv, AbsentIsNewOrFull
  <2>4. registered[host[h]] = 0 /\ beats[host[h]] = 0
    BY <1>1, <1>3 DEF PeerInv, AbsentIsNewOrFull
  <2>5. PeersAreExact'
    BY <1>1, <2>1, <2>4 DEF PeerInv, PeersAreExact, TypeOK
  <2> QED
    BY <2>2, <2>3, <2>5
<1> QED
  BY <1>2, <1>3

LEMMA HandshakeKeepsPeerInv ==
  ASSUME PeerInv, NEW h \in Handlers, Registration(h) \/ Heartbeat(h)
  PROVE  (KnownOrFull /\ AbsentIsNewOrFull /\ PeersAreExact)'
<1>1. /\ pc[h] = "serving" /\ pc' = [pc EXCEPT ![h] = "idle"] /\ UNCHANGED <<peers, host>>
      /\ pc \in [Handlers -> Pc] /\ host \in [Handlers -> Hosts]
  BY DEF Registration, Heartbeat, PeerInv, TypeOK, To
<1>2. KnownOrFull'
  BY <1>1 DEF PeerInv, KnownOrFull, TableFull
<1>3. host[h] \in peers \/ TableFull
  BY <1>1 DEF PeerInv, KnownOrFull
<1>4. AbsentIsNewOrFull'
  <2>1. \A p \in Hosts \ {host[h]} : registered'[p] = registered[p] /\ beats'[p] = beats[p]
    BY DEF Registration, Heartbeat, PeerInv, TypeOK
  <2> QED
    BY <1>1, <1>3, <2>1 DEF PeerInv, AbsentIsNewOrFull, TableFull
<1>5. PeersAreExact'
  BY <1>1 DEF Registration, Heartbeat, PeerInv, PeersAreExact, TypeOK
<1> QED
  BY <1>2, <1>4, <1>5

(* A publisher in the table has all its handshakes in its counters, for any
   number of handlers and publishers and any cap. *)
THEOREM HandshakesAreExact == Spec => []PeersAreExact
<1>1. Init => PeerInv
  <2>1. Cardinality({}) = 0
    BY FS_EmptySet
  <2>2. Init => TypeOK
    BY <2>1, MetricsAssumption DEF Init, TypeOK, Pc
  <2> QED
    BY <2>2 DEF Init, PeerInv, KnownOrFull, AbsentIsNewOrFull, PeersAreExact
<1>2. PeerInv /\ [Next]_vars => PeerInv'
  <2> SUFFICES ASSUME PeerInv, [Next]_vars PROVE PeerInv'
    OBVIOUS
  <2>1. TypeOK'
    <3>1. CASE Next
      BY <3>1, PeerTypes, EventTypes DEF Next, PeerInv
    <3>2. CASE UNCHANGED vars
      BY <3>2 DEF vars, peerVars, labelVars, localVars, peerCalls, eventCalls, TypeOK, PeerInv
    <3> QED
      BY <3>1, <3>2
  <2>2. ASSUME UNCHANGED <<peerVars, registered, beats>>,
               NEW h \in Handlers, NEW l \in Pc, pc' = [pc EXCEPT ![h] = l],
               \A g \in Handlers \ {h} : host'[g] = host[g],
               l \in {"idle", "lookup", "insertPeer"} \/ host'[h] \in peers
                 \/ (host'[h] = host[h] /\ pc[h] \notin {"idle", "lookup", "insertPeer"})
        PROVE  (KnownOrFull /\ AbsentIsNewOrFull /\ PeersAreExact)'
    <3>1. AbsentIsNewOrFull' /\ PeersAreExact'
      BY <2>2 DEF PeerInv, AbsentIsNewOrFull, PeersAreExact, TableFull, peerVars
    <3>2. KnownOrFull'
      BY <2>2 DEF PeerInv, KnownOrFull, TableFull, TypeOK, peerVars
    <3> QED
      BY <3>1, <3>2
  <2>3. ASSUME NEW h \in Handlers, NEW p \in Hosts, RequestCall(h, p)
        PROVE  (KnownOrFull /\ AbsentIsNewOrFull /\ PeersAreExact)'
    BY <2>2, <2>3 DEF RequestCall, To, Pc, PeerInv, TypeOK
  <2>4. ASSUME NEW h \in Handlers, RequestLookup(h)
        PROVE  (KnownOrFull /\ AbsentIsNewOrFull /\ PeersAreExact)'
    BY <2>2, <2>4 DEF RequestLookup, To, Pc, peerCalls
  <2>5. ASSUME NEW h \in Handlers, Finish(h)
        PROVE  (KnownOrFull /\ AbsentIsNewOrFull /\ PeersAreExact)'
    BY <2>2, <2>5 DEF Finish, To, Pc, peerCalls
  <2>6. ASSUME NEW h \in Handlers, RecordEvent(h)
        PROVE  (KnownOrFull /\ AbsentIsNewOrFull /\ PeersAreExact)'
    <3>1. /\ UNCHANGED <<peerVars, host, registered, beats>>
          /\ pc[h] \notin {"idle", "lookup", "insertPeer"}
      BY <2>6 DEF RecordEvent, EventLook, BumpType, BumpServer, AddDropped, InsertLabels,
                  beyondEvent, peerCalls
    <3>2. \E l \in Pc : pc' = [pc EXCEPT ![h] = l]
      BY <2>6 DEF RecordEvent, EventLook, BumpType, BumpServer, AddDropped, InsertLabels, To, Pc
    <3> QED
      BY <2>2, <3>1, <3>2
  <2>7. CASE UNCHANGED vars
    BY <2>1, <2>7 DEF vars, peerVars, peerCalls, PeerInv, KnownOrFull, AbsentIsNewOrFull,
                      PeersAreExact, TableFull
  <2> QED
    BY <2>1, <2>3, <2>4, <2>5, <2>6, <2>7, InsertKeepsPeerInv, HandshakeKeepsPeerInv
    DEF Next, RecordPeer, PeerInv
<1>3. PeerInv => PeersAreExact
  BY DEF PeerInv
<1> QED
  BY <1>1, <1>2, <1>3, PTL DEF Spec

----------------------------------------------------------------------------
(* The event breakdowns are exact: whatever the order of the fast and slow *)
(* paths of recordBreakdown, a label that is shown has missed no event.    *)

(* A capped map m of counters c over the labels L, after n[k] calls for each label
   k, of which those in W[k] have not yet come to the map: a label in it has
   counted all others, and before the map was full there was nothing to lose. *)
Exact(L, m, c, n, W) ==
  /\ \A k \in m : c[k] + Cardinality(W[k]) = n[k]
  /\ \A k \in L \ m : c[k] = 0 /\ (~Full(m) => n[k] = Cardinality(W[k]))

LEMMA BeginKeepsExact ==
  ASSUME NEW L, NEW m \in SUBSET L, NEW c \in [L -> Nat], NEW n \in [L -> Nat],
         NEW W \in [L -> SUBSET Handlers], Exact(L, m, c, n, W),
         NEW k \in L, NEW h \in Handlers, h \notin W[k]
  PROVE  Exact(L, m, c, [n EXCEPT ![k] = @ + 1], [W EXCEPT ![k] = @ \cup {h}])
<1>1. IsFiniteSet(W[k])
  BY MetricsAssumption, FS_Subset
<1>2. Cardinality(W[k]) \in Nat /\ Cardinality(W[k] \cup {h}) = Cardinality(W[k]) + 1
  BY <1>1, FS_CardinalityType, FS_AddElement
<1>3. c[k] \in Nat /\ n[k] \in Nat
  OBVIOUS
<1>4. k \in m => c[k] + (Cardinality(W[k]) + 1) = n[k] + 1
  BY <1>2, <1>3 DEF Exact
<1>. QED  BY <1>2, <1>4 DEF Exact

(* One call has come to a label of the map and added to its counter. *)
LEMMA HitKeepsExact ==
  ASSUME NEW L, NEW m \in SUBSET L, NEW c \in [L -> Nat], NEW n \in [L -> Nat],
         NEW W \in [L -> SUBSET Handlers], Exact(L, m, c, n, W),
         NEW k \in m, NEW h \in W[k]
  PROVE  Exact(L, m, [c EXCEPT ![k] = @ + 1], n, [W EXCEPT ![k] = @ \ {h}])
<1>1. k \in L /\ IsFiniteSet(W[k])
  BY MetricsAssumption, FS_Subset
<1>2. Cardinality(W[k]) \in Nat /\ Cardinality(W[k] \ {h}) = Cardinality(W[k]) - 1
  BY <1>1, FS_CardinalityType, FS_RemoveElement
<1>3. c[k] \in Nat /\ n[k] \in Nat
  BY <1>1
<1>4. (c[k] + 1) + (Cardinality(W[k]) - 1) = n[k]
  BY <1>2, <1>3 DEF Exact
<1>. QED  BY <1>1, <1>2, <1>4 DEF Exact

(* One call has found its label shut out for good. *)
LEMMA MissKeepsExact ==
  ASSUME NEW L, NEW m \in SUBSET L, NEW c \in [L -> Nat], NEW n \in [L -> Nat],
         NEW W \in [L -> SUBSET Handlers], Exact(L, m, c, n, W),
         NEW k \in L \ m, NEW h \in Handlers, Full(m)
  PROVE  Exact(L, m, c, n, [W EXCEPT ![k] = @ \ {h}])
BY DEF Exact

(* One call has put its label into the map. *)
LEMMA InsertKeepsExact ==
  ASSUME NEW L, NEW m \in SUBSET L, NEW c \in [L -> Nat], NEW n \in [L -> Nat],
         NEW W \in [L -> SUBSET Handlers], Exact(L, m, c, n, W), IsFiniteSet(L),
         NEW k \in L \ m, NEW h \in W[k], ~Full(m)
  PROVE  Exact(L, m \cup {k}, [c EXCEPT ![k] = @ + 1], n, [W EXCEPT ![k] = @ \ {h}])
<1>1. k \in L /\ IsFiniteSet(W[k])
  BY MetricsAssumption, FS_Subset
<1>2. Cardinality(W[k]) \in Nat /\ Cardinality(W[k] \ {h}) = Cardinality(W[k]) - 1
  BY <1>1, FS_CardinalityType, FS_RemoveElement
<1>3. (0 + 1) + (Cardinality(W[k]) - 1) = n[k] /\ c[k] = 0
  BY <1>2 DEF Exact
<1>4. \A j \in L \ (m \cup {k}) : c[j] = 0 /\ n[j] = Cardinality(W[j])
  BY DEF Exact
<1>5. \A j \in m : c[j] + Cardinality(W[j]) = n[j]
  BY DEF Exact
<1>. QED  BY <1>1, <1>2, <1>3, <1>4, <1>5 DEF Exact

(* bumpLabel is one of the three. *)
LEMMA BumpKeepsExact ==
  ASSUME NEW L, NEW m \in SUBSET L, NEW c \in [L -> Nat], NEW n \in [L -> Nat],
         NEW W \in [L -> SUBSET Handlers], Exact(L, m, c, n, W), IsFiniteSet(L),
         NEW k \in L, NEW h \in W[k]
  PROVE  Exact(L, BumpLabel(m, c, k).keys, BumpLabel(m, c, k).count, n,
               [W EXCEPT ![k] = @ \ {h}])
<1>1. CASE k \in m
  <2>1. /\ BumpLabel(m, c, k).keys = m
        /\ BumpLabel(m, c, k).count = [c EXCEPT ![k] = @ + 1]
    BY <1>1 DEF BumpLabel
  <2>2. Exact(L, m, [c EXCEPT ![k] = @ + 1], n, [W EXCEPT ![k] = @ \ {h}])
    BY <1>1, HitKeepsExact
  <2>. QED  BY <2>1, <2>2
<1>2. CASE k \notin m /\ Full(m)
  <2>1. BumpLabel(m, c, k).keys = m /\ BumpLabel(m, c, k).count = c
    BY <1>2 DEF BumpLabel
  <2>2. h \in Handlers
    OBVIOUS
  <2>. QED  BY <1>2, <2>1, <2>2, MissKeepsExact
<1>3. CASE k \notin m /\ ~Full(m)
  <2>1. /\ BumpLabel(m, c, k).keys = m \cup {k}
        /\ BumpLabel(m, c, k).count = [c EXCEPT ![k] = @ + 1]
    BY <1>3 DEF BumpLabel
  <2>2. Exact(L, m \cup {k}, [c EXCEPT ![k] = @ + 1], n, [W EXCEPT ![k] = @ \ {h}])
    BY <1>3, InsertKeepsExact
  <2>. QED  BY <1>3, <2>1, <2>2
<1>. QED  BY <1>1, <1>2, <1>3

----------------------------------------------------------------------------
(* The two breakdowns                                                      *)

(* The handlers whose event has not yet come to its type, or to its server. *)
TypeWaiters   == [k \in Types |-> {h \in At({"bumpType", "insertLabels"}) : key[h] = k}]
ServerWaiters == [s \in Servers |->
                    {h \in At({"bumpType", "bumpServer", "insertLabels"}) : server[h] = s}]

(* What the read lock showed a handler is still so when it acts on it: a label
   that was there is, and one that could not come to be cannot. *)
LooksHold ==
  \A h \in Handlers :
    /\ pc[h] = "bumpType" =>
         IF knewType[h] THEN key[h] \in types ELSE key[h] \notin types /\ Full(types)
    /\ pc[h] \in {"bumpType", "bumpServer"} /\ server[h] # NoServer =>
         IF knewServer[h] THEN server[h] \in servers
                          ELSE server[h] \notin servers /\ Full(servers)

LabelInv ==
  /\ Exact(Types, types, typeCount, typed, TypeWaiters)
  /\ Exact(Servers, servers, serverCount, served, ServerWaiters)
  /\ LooksHold

LEMMA WaitersTypes ==
  /\ TypeWaiters \in [Types -> SUBSET Handlers]
  /\ ServerWaiters \in [Servers -> SUBSET Handlers]
BY DEF TypeWaiters, ServerWaiters, At

(* How the waiters of the labels change with each step of recordBreakdown. *)
LEMMA LookWaiters ==
  ASSUME TypeOK, NEW h \in Handlers, NEW k \in Types, NEW s \in Servers \cup {NoServer},
         EventLook(h, k, s)
  PROVE  /\ h \notin TypeWaiters[k] /\ TypeWaiters' = [TypeWaiters EXCEPT ![k] = @ \cup {h}]
         /\ s = NoServer => ServerWaiters' = ServerWaiters
         /\ s # NoServer => /\ h \notin ServerWaiters[s]
                            /\ ServerWaiters' = [ServerWaiters EXCEPT ![s] = @ \cup {h}]
<1>1. /\ pc[h] = "serving" /\ pc'[h] \in {"bumpType", "insertLabels"}
      /\ key'[h] = k /\ server'[h] = s
      /\ \A g \in Handlers \ {h} : /\ pc'[g] = pc[g] /\ key'[g] = key[g]
                                   /\ server'[g] = server[g]
  BY DEF EventLook, TypeOK, To
<1>2. h \notin TypeWaiters[k]
  BY <1>1 DEF TypeWaiters, At
<1>3. TypeWaiters' = [TypeWaiters EXCEPT ![k] = @ \cup {h}]
  <2>1. ASSUME NEW j \in Types
        PROVE  TypeWaiters'[j] = [TypeWaiters EXCEPT ![k] = @ \cup {h}][j]
    BY <1>1 DEF TypeWaiters, At
  <2>. QED  BY <2>1 DEF TypeWaiters
<1>4. ASSUME s = NoServer PROVE ServerWaiters' = ServerWaiters
  <2>1. ASSUME NEW j \in Servers PROVE ServerWaiters'[j] = ServerWaiters[j]
    BY <1>1, <1>4, MetricsAssumption DEF ServerWaiters, At
  <2>. QED  BY <2>1 DEF ServerWaiters
<1>5. ASSUME s # NoServer
      PROVE  /\ h \notin ServerWaiters[s]
             /\ ServerWaiters' = [ServerWaiters EXCEPT ![s] = @ \cup {h}]
  <2>1. s \in Servers
    BY <1>5
  <2>2. h \notin ServerWaiters[s]
    BY <1>1, <2>1 DEF ServerWaiters, At
  <2>3. ASSUME NEW j \in Servers
        PROVE  ServerWaiters'[j] = [ServerWaiters EXCEPT ![s] = @ \cup {h}][j]
    BY <1>1, <2>1 DEF ServerWaiters, At
  <2>. QED  BY <2>2, <2>3 DEF ServerWaiters
<1>. QED  BY <1>2, <1>3, <1>4, <1>5

LEMMA BumpTypeWaiters ==
  ASSUME TypeOK, NEW h \in Handlers, BumpType(h)
  PROVE  /\ h \in TypeWaiters[key[h]] /\ TypeWaiters' = [TypeWaiters EXCEPT ![key[h]] = @ \ {h}]
         /\ ServerWaiters' = ServerWaiters
<1>1. /\ pc[h] = "bumpType" /\ key[h] \in Types /\ UNCHANGED <<key, server>>
      /\ pc'[h] = IF server[h] = NoServer THEN "addDropped" ELSE "bumpServer"
      /\ \A g \in Handlers \ {h} : pc'[g] = pc[g]
  BY DEF BumpType, TypeOK, To
<1>2. h \in TypeWaiters[key[h]]
  BY <1>1 DEF TypeWaiters, At
<1>3. ASSUME NEW j \in Types
      PROVE  TypeWaiters'[j] = [TypeWaiters EXCEPT ![key[h]] = @ \ {h}][j]
  BY <1>1 DEF TypeWaiters, At
<1>4. ASSUME NEW j \in Servers PROVE ServerWaiters'[j] = ServerWaiters[j]
  BY <1>1, MetricsAssumption DEF ServerWaiters, At
<1>. QED  BY <1>2, <1>3, <1>4 DEF TypeWaiters, ServerWaiters

LEMMA BumpServerWaiters ==
  ASSUME TypeOK, NEW h \in Handlers, BumpServer(h), server[h] # NoServer
  PROVE  /\ h \in ServerWaiters[server[h]]
         /\ ServerWaiters' = [ServerWaiters EXCEPT ![server[h]] = @ \ {h}]
         /\ TypeWaiters' = TypeWaiters
<1>1. /\ pc[h] = "bumpServer" /\ server[h] \in Servers /\ UNCHANGED <<key, server>>
      /\ pc'[h] = "addDropped" /\ \A g \in Handlers \ {h} : pc'[g] = pc[g]
  BY DEF BumpServer, TypeOK, To
<1>2. h \in ServerWaiters[server[h]]
  BY <1>1 DEF ServerWaiters, At
<1>3. ASSUME NEW j \in Servers
      PROVE  ServerWaiters'[j] = [ServerWaiters EXCEPT ![server[h]] = @ \ {h}][j]
  BY <1>1 DEF ServerWaiters, At
<1>4. ASSUME NEW j \in Types PROVE TypeWaiters'[j] = TypeWaiters[j]
  BY <1>1 DEF TypeWaiters, At
<1>. QED  BY <1>2, <1>3, <1>4 DEF TypeWaiters, ServerWaiters

LEMMA InsertWaiters ==
  ASSUME TypeOK, NEW h \in Handlers, InsertLabels(h)
  PROVE  /\ h \in TypeWaiters[key[h]] /\ TypeWaiters' = [TypeWaiters EXCEPT ![key[h]] = @ \ {h}]
         /\ server[h] = NoServer => ServerWaiters' = ServerWaiters
         /\ server[h] # NoServer =>
              /\ h \in ServerWaiters[server[h]]
              /\ ServerWaiters' = [ServerWaiters EXCEPT ![server[h]] = @ \ {h}]
<1>1. /\ pc[h] = "insertLabels" /\ key[h] \in Types /\ server[h] \in Servers \cup {NoServer}
      /\ pc'[h] = "serving" /\ UNCHANGED <<key, server>>
      /\ \A g \in Handlers \ {h} : pc'[g] = pc[g]
  BY DEF InsertLabels, TypeOK, To, localVars
<1>2. h \in TypeWaiters[key[h]]
  BY <1>1 DEF TypeWaiters, At
<1>3. ASSUME NEW j \in Types
      PROVE  TypeWaiters'[j] = [TypeWaiters EXCEPT ![key[h]] = @ \ {h}][j]
  BY <1>1 DEF TypeWaiters, At
<1>4. ASSUME server[h] = NoServer PROVE ServerWaiters' = ServerWaiters
  <2>1. ASSUME NEW j \in Servers PROVE ServerWaiters'[j] = ServerWaiters[j]
    BY <1>1, <1>4, MetricsAssumption DEF ServerWaiters, At
  <2>. QED  BY <2>1 DEF ServerWaiters
<1>5. ASSUME server[h] # NoServer
      PROVE  /\ h \in ServerWaiters[server[h]]
             /\ ServerWaiters' = [ServerWaiters EXCEPT ![server[h]] = @ \ {h}]
  <2>1. h \in ServerWaiters[server[h]]
    BY <1>1, <1>5 DEF ServerWaiters, At
  <2>2. ASSUME NEW j \in Servers
        PROVE  ServerWaiters'[j] = [ServerWaiters EXCEPT ![server[h]] = @ \ {h}][j]
    BY <1>1, <1>5 DEF ServerWaiters, At
  <2>. QED  BY <2>1, <2>2 DEF ServerWaiters
<1>. QED  BY <1>2, <1>3, <1>4, <1>5 DEF TypeWaiters

(* A step that comes to no label, starts no event and adds no label. *)
LEMMA LabelFrame ==
  ASSUME LabelInv, UNCHANGED <<types, typeCount, servers, serverCount, typed, served, key,
                               server, knewType, knewServer>>,
         \A g \in Handlers :
           \A l \in {"bumpType", "bumpServer", "insertLabels"} : pc'[g] = l <=> pc[g] = l
  PROVE  LabelInv'
<1>1. TypeWaiters' = TypeWaiters /\ ServerWaiters' = ServerWaiters
  BY DEF TypeWaiters, ServerWaiters, At
<1>2. LooksHold'
  BY DEF LabelInv, LooksHold, Full
<1>. QED  BY <1>1, <1>2 DEF LabelInv, Exact, Full

(* The call: both labels are counted as called for, and looked at. *)
LEMMA LookKeepsLabels ==
  ASSUME TypeOK, LabelInv, NEW h \in Handlers, NEW k \in Types,
         NEW s \in Servers \cup {NoServer}, EventLook(h, k, s)
  PROVE  LabelInv'
<1>1. /\ pc[h] = "serving" /\ pc \in [Handlers -> Pc]
      /\ key \in [Handlers -> Types] /\ server \in [Handlers -> Servers \cup {NoServer}]
      /\ pc'[h] \in {"bumpType", "insertLabels"} /\ key'[h] = k /\ server'[h] = s
      /\ \A g \in Handlers \ {h} : /\ pc'[g] = pc[g] /\ key'[g] = key[g]
                                   /\ server'[g] = server[g]
      /\ UNCHANGED <<types, typeCount, servers, serverCount>>
  BY DEF EventLook, TypeOK, To, labelVars
<1>2. h \notin TypeWaiters[k] /\ TypeWaiters' = [TypeWaiters EXCEPT ![k] = @ \cup {h}]
  BY LookWaiters
<1>3. Exact(Types, types, typeCount, typed, TypeWaiters)'
  <2>1. typed' = [typed EXCEPT ![k] = @ + 1]
    BY DEF EventLook
  <2>2. Exact(Types, types, typeCount, [typed EXCEPT ![k] = @ + 1],
              [TypeWaiters EXCEPT ![k] = @ \cup {h}])
    BY <1>2, WaitersTypes, BeginKeepsExact DEF TypeOK, LabelInv
  <2>. QED  BY <1>1, <1>2, <2>1, <2>2 DEF Exact, Full
<1>4. Exact(Servers, servers, serverCount, served, ServerWaiters)'
  <2>1. CASE s = NoServer
    <3>1. served' = served
      BY <2>1 DEF EventLook
    <3>2. ServerWaiters' = ServerWaiters
      BY <2>1, LookWaiters
    <3>. QED  BY <1>1, <3>1, <3>2 DEF LabelInv, Exact, Full
  <2>2. CASE s # NoServer
    <3>1. s \in Servers /\ served' = [served EXCEPT ![s] = @ + 1]
      BY <2>2 DEF EventLook
    <3>2. h \notin ServerWaiters[s]
      BY <2>2, LookWaiters
    <3>3. ServerWaiters' = [ServerWaiters EXCEPT ![s] = @ \cup {h}]
      BY <2>2, LookWaiters
    <3>4. Exact(Servers, servers, serverCount, [served EXCEPT ![s] = @ + 1],
                [ServerWaiters EXCEPT ![s] = @ \cup {h}])
      BY <3>1, <3>2, WaitersTypes, BeginKeepsExact DEF TypeOK, LabelInv
    <3>. QED  BY <1>1, <3>1, <3>3, <3>4 DEF Exact, Full
  <2>. QED  BY <2>1, <2>2
<1>5. LooksHold'
  <2>1. /\ knewType'[h] = (k \in types) /\ knewServer'[h] = (s \in servers)
        /\ pc'[h] = "bumpType" => /\ k \in types \/ Full(types)
                                  /\ s \in servers \cup {NoServer} \/ Full(servers)
        /\ \A g \in Handlers \ {h} : knewType'[g] = knewType[g] /\ knewServer'[g] = knewServer[g]
    BY DEF EventLook, TypeOK, To
  <2>2. ASSUME NEW g \in Handlers
        PROVE  /\ pc'[g] = "bumpType" =>
                    IF knewType'[g] THEN key'[g] \in types ELSE key'[g] \notin types /\ Full(types)
               /\ pc'[g] \in {"bumpType", "bumpServer"} /\ server'[g] # NoServer =>
                    IF knewServer'[g] THEN server'[g] \in servers
                                      ELSE server'[g] \notin servers /\ Full(servers)
    <3>1. CASE g = h
      BY <1>1, <2>1, <3>1
    <3>2. CASE g # h
      BY <1>1, <2>1, <3>2 DEF LabelInv, LooksHold
    <3>. QED  BY <3>1, <3>2
  <2>. QED  BY <1>1, <2>2 DEF LooksHold, Full
<1>. QED  BY <1>3, <1>4, <1>5 DEF LabelInv

(* The fast path adds through the pointer it read, or counts the event as dropped. *)
LEMMA BumpTypeKeepsLabels ==
  ASSUME TypeOK, LabelInv, NEW h \in Handlers, BumpType(h)
  PROVE  LabelInv'
<1> DEFINE k == key[h]
<1>1. /\ pc[h] = "bumpType" /\ pc \in [Handlers -> Pc] /\ k \in Types
      /\ pc'[h] = IF server[h] = NoServer THEN "addDropped" ELSE "bumpServer"
      /\ \A g \in Handlers \ {h} : pc'[g] = pc[g]
      /\ UNCHANGED <<types, servers, serverCount, typed, served, key, server, knewType, knewServer>>
  BY DEF BumpType, TypeOK, To, eventCalls
<1>2. h \in TypeWaiters[k]
  BY BumpTypeWaiters
<1>3. TypeWaiters' = [TypeWaiters EXCEPT ![k] = @ \ {h}]
  BY BumpTypeWaiters
<1>4. ServerWaiters' = ServerWaiters
  BY BumpTypeWaiters
<1>5. Exact(Types, types, typeCount, typed, TypeWaiters)'
  <2>1. CASE knewType[h]
    <3>1. k \in types /\ typeCount' = [typeCount EXCEPT ![k] = @ + 1]
      BY <1>1, <2>1 DEF BumpType, LabelInv, LooksHold
    <3>2. Exact(Types, types, [typeCount EXCEPT ![k] = @ + 1], typed,
                [TypeWaiters EXCEPT ![k] = @ \ {h}])
      BY <1>2, <3>1, WaitersTypes, HitKeepsExact DEF TypeOK, LabelInv
    <3>. QED  BY <1>1, <1>3, <3>1, <3>2 DEF Exact, Full
  <2>2. CASE ~knewType[h]
    <3>1. k \in Types \ types /\ Full(types) /\ typeCount' = typeCount
      BY <1>1, <2>2 DEF BumpType, LabelInv, LooksHold
    <3>2. Exact(Types, types, typeCount, typed, [TypeWaiters EXCEPT ![k] = @ \ {h}])
      BY <3>1, WaitersTypes, MissKeepsExact DEF TypeOK, LabelInv
    <3>. QED  BY <1>1, <1>3, <3>1, <3>2 DEF Exact, Full
  <2>. QED  BY <2>1, <2>2
<1>6. Exact(Servers, servers, serverCount, served, ServerWaiters)'
  BY <1>1, <1>4 DEF LabelInv, Exact, Full
<1>7. LooksHold'
  <2>1. \A g \in Handlers : /\ pc'[g] = "bumpType" => pc[g] = "bumpType"
                            /\ pc'[g] = "bumpServer" => pc[g] \in {"bumpType", "bumpServer"}
    BY <1>1
  <2>. QED  BY <1>1, <2>1 DEF LabelInv, LooksHold, Full
<1>. QED  BY <1>5, <1>6, <1>7 DEF LabelInv

LEMMA BumpServerKeepsLabels ==
  ASSUME TypeOK, LabelInv, NEW h \in Handlers, BumpServer(h), server[h] # NoServer
  PROVE  LabelInv'
<1> DEFINE s == server[h]
<1>1. /\ pc[h] = "bumpServer" /\ pc \in [Handlers -> Pc] /\ s \in Servers
      /\ pc'[h] = "addDropped" /\ \A g \in Handlers \ {h} : pc'[g] = pc[g]
      /\ UNCHANGED <<types, servers, typeCount, typed, served, key, server, knewType, knewServer>>
  BY DEF BumpServer, TypeOK, To, eventCalls
<1>2. h \in ServerWaiters[s]
  BY BumpServerWaiters
<1>3. ServerWaiters' = [ServerWaiters EXCEPT ![s] = @ \ {h}]
  BY BumpServerWaiters
<1>4. TypeWaiters' = TypeWaiters
  BY BumpServerWaiters
<1>5. Exact(Servers, servers, serverCount, served, ServerWaiters)'
  <2>1. CASE knewServer[h]
    <3>1. s \in servers /\ serverCount' = [serverCount EXCEPT ![s] = @ + 1]
      BY <1>1, <2>1 DEF BumpServer, LabelInv, LooksHold
    <3>2. Exact(Servers, servers, [serverCount EXCEPT ![s] = @ + 1], served,
                [ServerWaiters EXCEPT ![s] = @ \ {h}])
      BY <1>2, <3>1, WaitersTypes, HitKeepsExact DEF TypeOK, LabelInv
    <3>. QED  BY <1>1, <1>3, <3>1, <3>2 DEF Exact, Full
  <2>2. CASE ~knewServer[h]
    <3>1. s \in Servers \ servers /\ Full(servers) /\ serverCount' = serverCount
      BY <1>1, <2>2 DEF BumpServer, LabelInv, LooksHold
    <3>2. Exact(Servers, servers, serverCount, served, [ServerWaiters EXCEPT ![s] = @ \ {h}])
      BY <3>1, WaitersTypes, MissKeepsExact DEF TypeOK, LabelInv
    <3>. QED  BY <1>1, <1>3, <3>1, <3>2 DEF Exact, Full
  <2>. QED  BY <2>1, <2>2
<1>6. Exact(Types, types, typeCount, typed, TypeWaiters)'
  BY <1>1, <1>4 DEF LabelInv, Exact, Full
<1>7. LooksHold'
  <2>1. \A g \in Handlers : \A l \in {"bumpType", "bumpServer"} : pc'[g] = l => pc[g] = l
    BY <1>1
  <2>. QED  BY <1>1, <2>1 DEF LabelInv, LooksHold, Full
<1>. QED  BY <1>5, <1>6, <1>7 DEF LabelInv

(* The slow path looks again under the write lock. *)
LEMMA InsertKeepsLabels ==
  ASSUME TypeOK, LabelInv, NEW h \in Handlers, InsertLabels(h)
  PROVE  LabelInv'
<1> DEFINE k == key[h]
           s == server[h]
           b == BumpLabel(types, typeCount, k)
           d == BumpLabel(servers, serverCount, s)
<1>1. /\ pc[h] = "insertLabels" /\ pc \in [Handlers -> Pc] /\ k \in Types
      /\ s \in Servers \cup {NoServer} /\ pc'[h] = "serving"
      /\ \A g \in Handlers \ {h} : pc'[g] = pc[g]
      /\ UNCHANGED <<typed, served, key, server, knewType, knewServer>>
  BY DEF InsertLabels, TypeOK, To, eventCalls, localVars
<1>2. types' = b.keys /\ typeCount' = b.count
  BY DEF InsertLabels
<1>3. /\ s # NoServer => servers' = d.keys /\ serverCount' = d.count
      /\ s = NoServer => servers' = servers /\ serverCount' = serverCount
  BY DEF InsertLabels
<1>4. h \in TypeWaiters[k] /\ TypeWaiters' = [TypeWaiters EXCEPT ![k] = @ \ {h}]
  BY InsertWaiters
<1> HIDE DEF b, d
<1>5. /\ Exact(Types, types, typeCount, typed, TypeWaiters)'
      /\ types \subseteq types' /\ (Full(types) => types' = types)
  <2>1. /\ Exact(Types, b.keys, b.count, typed, [TypeWaiters EXCEPT ![k] = @ \ {h}])
        /\ types \subseteq b.keys /\ (Full(types) => b.keys = types)
    <3>1. /\ types \in SUBSET Types /\ typeCount \in [Types -> Nat] /\ typed \in [Types -> Nat]
          /\ TypeWaiters \in [Types -> SUBSET Handlers] /\ IsFiniteSet(Types) /\ k \in Types
          /\ Exact(Types, types, typeCount, typed, TypeWaiters)
      BY <1>1, WaitersTypes, MetricsAssumption DEF TypeOK, LabelInv
    <3> HIDE DEF k
    <3>2. Exact(Types, BumpLabel(types, typeCount, k).keys, BumpLabel(types, typeCount, k).count,
                typed, [TypeWaiters EXCEPT ![k] = @ \ {h}])
      BY <1>4, <3>1, BumpKeepsExact
    <3>3. /\ types \subseteq BumpLabel(types, typeCount, k).keys
          /\ Full(types) => BumpLabel(types, typeCount, k).keys = types
      BY DEF BumpLabel
    <3>. QED  BY <3>2, <3>3 DEF b
  <2>. QED  BY <1>1, <1>2, <1>4, <2>1 DEF Exact, Full
<1>6. /\ Exact(Servers, servers, serverCount, served, ServerWaiters)'
      /\ servers \subseteq servers' /\ (Full(servers) => servers' = servers)
  <2>1. CASE s = NoServer
    <3>1. ServerWaiters' = ServerWaiters
      BY <2>1, InsertWaiters
    <3>. QED  BY <1>1, <1>3, <2>1, <3>1 DEF LabelInv, Exact, Full
  <2>2. CASE s # NoServer
    <3>1. s \in Servers
      BY <1>1, <2>2
    <3>2. h \in ServerWaiters[s]
      BY <2>2, InsertWaiters
    <3>3. ServerWaiters' = [ServerWaiters EXCEPT ![s] = @ \ {h}]
      BY <2>2, InsertWaiters
    <3>4. /\ Exact(Servers, d.keys, d.count, served, [ServerWaiters EXCEPT ![s] = @ \ {h}])
          /\ servers \subseteq d.keys /\ (Full(servers) => d.keys = servers)
      <4>1. /\ servers \in SUBSET Servers /\ serverCount \in [Servers -> Nat]
            /\ served \in [Servers -> Nat] /\ IsFiniteSet(Servers)
            /\ ServerWaiters \in [Servers -> SUBSET Handlers]
            /\ Exact(Servers, servers, serverCount, served, ServerWaiters)
        BY WaitersTypes, MetricsAssumption DEF TypeOK, LabelInv
      <4> HIDE DEF s
      <4>2. Exact(Servers, BumpLabel(servers, serverCount, s).keys,
                  BumpLabel(servers, serverCount, s).count, served,
                  [ServerWaiters EXCEPT ![s] = @ \ {h}])
        BY <3>1, <3>2, <4>1, BumpKeepsExact
      <4>3. /\ servers \subseteq BumpLabel(servers, serverCount, s).keys
            /\ Full(servers) => BumpLabel(servers, serverCount, s).keys = servers
        BY DEF BumpLabel
      <4>. QED  BY <4>2, <4>3 DEF d
    <3>. QED  BY <1>1, <1>3, <2>2, <3>3, <3>4 DEF Exact, Full
  <2>. QED  BY <2>1, <2>2
<1>7. LooksHold'
  <2>1. \A g \in Handlers : \A l \in {"bumpType", "bumpServer"} : pc'[g] = l => pc[g] = l
    BY <1>1
  <2>2. (Full(types) => Full(types)') /\ (Full(servers) => Full(servers)')
    BY <1>5, <1>6 DEF Full
  <2>. QED  BY <1>1, <1>5, <1>6, <2>1, <2>2 DEF LabelInv, LooksHold
<1>. QED  BY <1>5, <1>6, <1>7 DEF LabelInv

(* The handlers at bumpServer are those of an event that names a server. *)
ServersNamed == \A h \in Handlers : pc[h] = "bumpServer" => server[h] # NoServer

LEMMA LabelStep == TypeOK /\ LabelInv /\ ServersNamed /\ [Next]_vars => LabelInv' /\ ServersNamed'
<1> SUFFICES ASSUME TypeOK, LabelInv, ServersNamed, [Next]_vars PROVE LabelInv' /\ ServersNamed'
  OBVIOUS
<1>1. ASSUME NEW h \in Handlers, RecordPeer(h) PROVE LabelInv' /\ ServersNamed'
  <2>1. /\ UNCHANGED <<types, typeCount, servers, serverCount, typed, served, key, server,
                       knewType, knewServer>>
        /\ \A g \in Handlers :
             \A l \in {"bumpType", "bumpServer", "insertLabels"} : pc'[g] = l <=> pc[g] = l
    <3>1. UNCHANGED <<types, typeCount, servers, serverCount, typed, served, key, server,
                      knewType, knewServer>>
      BY <1>1 DEF RecordPeer, RequestCall, RequestLookup, RequestInsert, Registration, Heartbeat,
         Finish, labelVars, localVars, eventCalls
    <3>2. /\ pc[h] \in {"idle", "lookup", "insertPeer", "serving"}
          /\ \E l \in {"idle", "lookup", "insertPeer", "serving"} : pc' = [pc EXCEPT ![h] = l]
      BY <1>1 DEF RecordPeer, RequestCall, RequestLookup, RequestInsert, Registration, Heartbeat,
         Finish, To
    <3>. QED  BY <3>1, <3>2 DEF TypeOK
  <2>. QED  BY <2>1, LabelFrame DEF ServersNamed
<1>2. ASSUME NEW h \in Handlers, RecordEvent(h) PROVE LabelInv'
  <2>1. CASE \E k \in Types, s \in Servers \cup {NoServer} : EventLook(h, k, s)
    BY <2>1, LookKeepsLabels
  <2>2. CASE BumpType(h)
    BY <2>2, BumpTypeKeepsLabels
  <2>3. CASE BumpServer(h)
    <3>1. server[h] # NoServer
      BY <2>3 DEF BumpServer, ServersNamed
    <3>. QED  BY <2>3, <3>1, BumpServerKeepsLabels
  <2>4. CASE AddDropped(h)
    <3>1. /\ UNCHANGED <<types, typeCount, servers, serverCount, typed, served, key, server,
                         knewType, knewServer>>
          /\ \A g \in Handlers :
               \A l \in {"bumpType", "bumpServer", "insertLabels"} : pc'[g] = l <=> pc[g] = l
      BY <2>4 DEF AddDropped, To, TypeOK, eventCalls
    <3>. QED  BY <3>1, LabelFrame
  <2>5. CASE InsertLabels(h)
    BY <2>5, InsertKeepsLabels
  <2>. QED  BY <1>2, <2>1, <2>2, <2>3, <2>4, <2>5 DEF RecordEvent
<1>3. ASSUME NEW h \in Handlers, RecordEvent(h) PROVE ServersNamed'
  <2>1. ASSUME NEW k \in Types, NEW s \in Servers \cup {NoServer}, EventLook(h, k, s)
        PROVE  ServersNamed'
    BY <2>1 DEF EventLook, To, TypeOK, ServersNamed
  <2>2. BumpType(h) \/ BumpServer(h) \/ AddDropped(h) \/ InsertLabels(h) => ServersNamed'
    BY DEF BumpType, BumpServer, AddDropped, InsertLabels, To, TypeOK, ServersNamed, localVars
  <2>. QED  BY <1>3, <2>1, <2>2 DEF RecordEvent
<1>4. CASE UNCHANGED vars
  <2>1. UNCHANGED <<types, typeCount, servers, serverCount, typed, served, key, server,
                    knewType, knewServer, pc>>
    BY <1>4 DEF vars, labelVars, localVars, eventCalls
  <2>. QED  BY <2>1, LabelFrame DEF ServersNamed
<1>. QED  BY <1>1, <1>2, <1>3, <1>4 DEF Next

LEMMA LabelInit == Init => LabelInv /\ ServersNamed
<1> SUFFICES ASSUME Init PROVE LabelInv /\ ServersNamed
  OBVIOUS
<1>1. /\ \A k \in Types : TypeWaiters[k] = {}
      /\ \A s \in Servers : ServerWaiters[s] = {}
  BY DEF Init, TypeWaiters, ServerWaiters, At
<1>2. Cardinality({}) = 0
  BY FS_EmptySet
<1>3. LooksHold /\ ServersNamed
  BY DEF Init, LooksHold, ServersNamed
<1>. QED  BY <1>1, <1>2, <1>3 DEF Init, LabelInv, Exact

(* A label of a breakdown has counted every event of that label, from the first,
   however the fast path and the slow path of recordBreakdown interleave. *)
THEOREM BreakdownsAreExact == Spec => []LabelsAreExact
<1>2. TypeOK /\ LabelInv => LabelsAreExact
  BY DEF TypeOK, LabelInv, Exact, LabelsAreExact, TypePending, ServerPending, TypeWaiters,
     ServerWaiters
<1>. QED  BY <1>2, LabelInit, LabelStep, MetricsTypeCorrect, PTL DEF Spec

----------------------------------------------------------------------------
(* What the caps keep out                                                  *)

(* Calls for labels that are not in the map, those still on their way left out. *)
Missed(L, m, n, W) == SumFunctionOnSet([k \in L |-> n[k] - Cardinality(W[k])], L \ m)

LEMMA MissedTypes ==
  ASSUME NEW L, IsFiniteSet(L), NEW m \in SUBSET L, NEW n \in [L -> Nat],
         NEW W \in [L -> SUBSET Handlers]
  PROVE  /\ IsFiniteSet(L \ m) /\ Missed(L, m, n, W) \in Int
         /\ \A k \in L : [j \in L |-> n[j] - Cardinality(W[j])][k] \in Int
         /\ \A k \in L : IsFiniteSet(W[k]) /\ Cardinality(W[k]) \in Nat
<1>1. \A k \in L : IsFiniteSet(W[k]) /\ Cardinality(W[k]) \in Nat
  BY MetricsAssumption, FS_Subset, FS_CardinalityType
<1>2. \A k \in L : [j \in L |-> n[j] - Cardinality(W[j])][k] \in Int
  BY <1>1
<1>3. IsFiniteSet(L \ m)
  BY FS_Subset
<1>. QED  BY <1>1, <1>2, <1>3, SumRemove DEF Missed

(* V is W with h gone from, or come to, the calls on their way to k. *)
Leaves(L, W, V, k, h)  == V[k] = W[k] \ {h} /\ \A j \in L \ {k} : V[j] = W[j]
Arrives(L, W, V, k, h) == V[k] = W[k] \cup {h} /\ \A j \in L \ {k} : V[j] = W[j]

(* A call that begins is not missed yet. *)
LEMMA BeginMisses ==
  ASSUME NEW L, IsFiniteSet(L), NEW m \in SUBSET L, NEW n \in [L -> Nat],
         NEW W \in [L -> SUBSET Handlers], NEW k \in L, NEW h \in Handlers, h \notin W[k],
         NEW N, NEW V, N[k] = n[k] + 1, \A j \in L \ {k} : N[j] = n[j], Arrives(L, W, V, k, h)
  PROVE  Missed(L, m, N, V) = Missed(L, m, n, W)
<1>1. Cardinality(W[k]) \in Nat /\ Cardinality(W[k] \cup {h}) = Cardinality(W[k]) + 1
  BY MissedTypes, FS_AddElement
<1>2. ASSUME NEW j \in L PROVE N[j] - Cardinality(V[j]) = n[j] - Cardinality(W[j])
  <2>1. CASE j = k
    <3>1. N[j] = n[k] + 1 /\ V[j] = W[k] \cup {h} /\ n[j] = n[k] /\ W[j] = W[k] /\ n[k] \in Nat
      BY <2>1 DEF Arrives
    <3>2. Cardinality(V[j]) = Cardinality(W[k]) + 1
      BY <1>1, <3>1
    <3>. QED  BY <1>1, <3>1, <3>2
  <2>2. CASE j # k
    BY <2>2 DEF Arrives
  <2>. QED  BY <2>1, <2>2
<1>3. [j \in L |-> N[j] - Cardinality(V[j])] = [j \in L |-> n[j] - Cardinality(W[j])]
  BY <1>2
<1>. QED  BY <1>3, Zenon DEF Missed

(* Neither is one that finds its label. *)
LEMMA HitMisses ==
  ASSUME NEW L, IsFiniteSet(L), NEW m \in SUBSET L, NEW n \in [L -> Nat],
         NEW W \in [L -> SUBSET Handlers], NEW k \in m, NEW h \in Handlers,
         NEW V, Leaves(L, W, V, k, h)
  PROVE  Missed(L, m, n, V) = Missed(L, m, n, W)
<1> DEFINE f == [j \in L |-> n[j] - Cardinality(W[j])]
           g == [j \in L |-> n[j] - Cardinality(V[j])]
<1>1. \A j \in L \ m : f[j] \in Int /\ f[j] = g[j]
  BY MissedTypes DEF Leaves
<1>2. IsFiniteSet(L \ m)
  BY MissedTypes
<1>3. SumFunctionOnSet(f, L \ m) = SumFunctionOnSet(g, L \ m)
  <2> HIDE DEF f, g
  <2>. QED  BY <1>1, <1>2, SumAgrees
<1>. QED  BY <1>3 DEF Missed

(* One that finds its label shut out is. *)
LEMMA MissMisses ==
  ASSUME NEW L, IsFiniteSet(L), NEW m \in SUBSET L, NEW n \in [L -> Nat],
         NEW W \in [L -> SUBSET Handlers], NEW k \in L \ m, NEW h \in W[k],
         NEW V, Leaves(L, W, V, k, h)
  PROVE  Missed(L, m, n, V) = Missed(L, m, n, W) + 1
<1> DEFINE f == [j \in L |-> n[j] - Cardinality(W[j])]
           g == [j \in L |-> n[j] - Cardinality(V[j])]
<1>1. \A j \in L \ m : f[j] \in Int
  BY MissedTypes
<1>2. IsFiniteSet(L \ m) /\ Missed(L, m, n, W) \in Int
  BY MissedTypes
<1>3. Cardinality(W[k]) \in Nat /\ Cardinality(W[k] \ {h}) = Cardinality(W[k]) - 1
  BY MissedTypes, FS_RemoveElement
<1>4. g[k] = f[k] + 1 /\ f[k] \in Int
  <2>1. /\ f[k] = n[k] - Cardinality(W[k]) /\ g[k] = n[k] - Cardinality(W[k] \ {h})
        /\ n[k] \in Nat
    BY DEF Leaves
  <2> HIDE DEF f, g
  <2>. QED  BY <1>3, <2>1
<1>5. \A j \in (L \ m) \ {k} : g[j] = f[j]
  BY DEF Leaves
<1>6. Missed(L, m, n, W) = SumFunctionOnSet(f, L \ m)
  BY DEF Missed
<1>7. Missed(L, m, n, V) = SumFunctionOnSet(g, L \ m)
  BY DEF Missed
<1> HIDE DEF f, g
<1>8. SumFunctionOnSet(g, L \ m) = SumFunctionOnSet(f, L \ m) + g[k] - f[k]
  BY <1>1, <1>2, <1>4, <1>5, SumUpdate
<1>. QED  BY <1>2, <1>4, <1>6, <1>7, <1>8

(* One that adds its label leaves none behind, if none had been missed before. *)
LEMMA InsertMisses ==
  ASSUME NEW L, IsFiniteSet(L), NEW m \in SUBSET L, NEW n \in [L -> Nat],
         NEW W \in [L -> SUBSET Handlers], NEW k \in L \ m, NEW h \in Handlers,
         n[k] = Cardinality(W[k]), NEW V, Leaves(L, W, V, k, h)
  PROVE  Missed(L, m \cup {k}, n, V) = Missed(L, m, n, W)
<1> DEFINE f == [j \in L |-> n[j] - Cardinality(W[j])]
           S == L \ (m \cup {k})
           M == m \cup {k}
<1>1. M \in SUBSET L /\ k \in M
  OBVIOUS
<1>2. Missed(L, M, n, V) = Missed(L, M, n, W)
  <2> HIDE DEF M
  <2>. QED  BY <1>1, HitMisses
<1>3. IsFiniteSet(S) /\ Missed(L, M, n, W) \in Int
  BY <1>1, MissedTypes
<1>4. \A j \in S \cup {k} : f[j] \in Int
  BY MissedTypes
<1>5. f[k] = 0
  <2>1. f[k] = n[k] - Cardinality(W[k]) /\ n[k] \in Nat
    OBVIOUS
  <2> HIDE DEF f
  <2>. QED  BY <2>1
<1>6. k \notin S /\ S \cup {k} = L \ m
  OBVIOUS
<1>7. Missed(L, m, n, W) = SumFunctionOnSet(f, L \ m)
  BY DEF Missed
<1>8. Missed(L, M, n, W) = SumFunctionOnSet(f, S)
  BY DEF Missed
<1> HIDE DEF f, S
<1>9. SumFunctionOnSet(f, S \cup {k}) = SumFunctionOnSet(f, S) + f[k]
  BY <1>3, <1>4, <1>6, SumAdd
<1>10. SumFunctionOnSet(f, L \ m) = SumFunctionOnSet(f, S) + f[k]
  BY <1>6, <1>9, Zenon
<1> HIDE DEF M
<1>11. Missed(L, M, n, V) = Missed(L, m, n, W)
  BY <1>2, <1>3, <1>5, <1>7, <1>8, <1>10
<1>. QED  BY <1>11 DEF M

(* bumpLabel is one of the three, and says whether it was the second. *)
LEMMA BumpMisses ==
  ASSUME NEW L, NEW m \in SUBSET L, NEW c \in [L -> Nat], NEW n \in [L -> Nat],
         NEW W \in [L -> SUBSET Handlers], Exact(L, m, c, n, W), IsFiniteSet(L),
         NEW k \in L, NEW h \in W[k], NEW V, Leaves(L, W, V, k, h),
         NEW b, b = BumpLabel(m, c, k)
  PROVE  \/ b.drop = 0 /\ Missed(L, b.keys, n, V) = Missed(L, m, n, W)
         \/ b.drop = 1 /\ Missed(L, b.keys, n, V) = Missed(L, m, n, W) + 1
<1>0. h \in Handlers /\ Missed(L, m, n, W) \in Int
  BY MissedTypes
<1>1. CASE k \in m
  <2>1. b.keys = m /\ b.drop = 0
    BY <1>1 DEF BumpLabel
  <2>2. Missed(L, m, n, V) = Missed(L, m, n, W)
    BY <1>0, <1>1, HitMisses
  <2>. QED  BY <1>0, <2>1, <2>2
<1>2. CASE k \notin m /\ Full(m)
  <2>1. b.keys = m /\ b.drop = 1
    BY <1>2 DEF BumpLabel
  <2>2. Missed(L, m, n, V) = Missed(L, m, n, W) + 1
    BY <1>2, MissMisses
  <2>. QED  BY <2>1, <2>2
<1>3. CASE k \notin m /\ ~Full(m)
  <2>1. b.keys = m \cup {k} /\ b.drop = 0
    BY <1>3 DEF BumpLabel
  <2>2. n[k] = Cardinality(W[k])
    BY <1>3 DEF Exact
  <2>3. Missed(L, m \cup {k}, n, V) = Missed(L, m, n, W)
    BY <1>0, <1>3, <2>2, InsertMisses
  <2>. QED  BY <1>0, <2>1, <2>3
<1>. QED  BY <1>1, <1>2, <1>3

----------------------------------------------------------------------------
(* The drop counter of the peer table                                      *)

PeerWaiters == [p \in Hosts |-> {h \in At({"lookup", "insertPeer"}) : host[h] = p}]

(* Until the table is full, no request of an absent publisher is behind us. *)
PeerDrops ==
  /\ peersDropped = Missed(Hosts, peers, requests, PeerWaiters)
  /\ \A p \in Hosts \ peers : requests[p] = Cardinality(PeerWaiters[p]) \/ TableFull

LEMMA PeerWaitersTypes == PeerWaiters \in [Hosts -> SUBSET Handlers]
BY DEF PeerWaiters, At

LEMMA CallKeepsPeerDrops ==
  ASSUME TypeOK, PeerDrops, NEW h \in Handlers, NEW p \in Hosts, RequestCall(h, p)
  PROVE  PeerDrops'
<1>1. /\ pc[h] = "idle" /\ pc'[h] = "lookup" /\ host'[h] = p
      /\ \A g \in Handlers \ {h} : pc'[g] = pc[g] /\ host'[g] = host[g]
      /\ UNCHANGED <<peers, peersDropped>> /\ requests' = [requests EXCEPT ![p] = @ + 1]
  BY DEF RequestCall, TypeOK, To, peerVars
<1>2. h \notin PeerWaiters[p]
  BY <1>1 DEF PeerWaiters, At
<1>3. PeerWaiters' = [PeerWaiters EXCEPT ![p] = @ \cup {h}]
  <2>1. ASSUME NEW q \in Hosts
        PROVE  PeerWaiters'[q] = [PeerWaiters EXCEPT ![p] = @ \cup {h}][q]
    BY <1>1 DEF PeerWaiters, At
  <2>. QED  BY <2>1 DEF PeerWaiters
<1>4. /\ IsFiniteSet(Hosts) /\ peers \in SUBSET Hosts /\ requests \in [Hosts -> Nat]
  BY MetricsAssumption DEF TypeOK
<1>5. Missed(Hosts, peers, requests', PeerWaiters') = Missed(Hosts, peers, requests, PeerWaiters)
  <2>1. /\ requests'[p] = requests[p] + 1 /\ \A q \in Hosts \ {p} : requests'[q] = requests[q]
        /\ Arrives(Hosts, PeerWaiters, PeerWaiters', p, h)
    BY <1>1, <1>3, <1>4, PeerWaitersTypes DEF Arrives
  <2>. QED  BY <1>2, <1>4, <2>1, PeerWaitersTypes, BeginMisses
<1>6. peersDropped' = Missed(Hosts, peers', requests', PeerWaiters')
  BY <1>1, <1>3, <1>5 DEF PeerDrops
<1>7. Cardinality(PeerWaiters[p]) \in Nat
      /\ Cardinality(PeerWaiters[p] \cup {h}) = Cardinality(PeerWaiters[p]) + 1
  BY <1>2, <1>4, PeerWaitersTypes, MissedTypes, FS_AddElement
<1>8. ASSUME NEW q \in Hosts \ peers
      PROVE  requests'[q] = Cardinality(PeerWaiters'[q]) \/ TableFull
  <2>1. requests[q] = Cardinality(PeerWaiters[q]) \/ TableFull
    BY DEF PeerDrops
  <2>2. CASE q = p
    <3>1. requests'[q] = requests[q] + 1 /\ PeerWaiters'[q] = PeerWaiters[q] \cup {h}
      BY <1>1, <1>3, <1>4, <2>2, PeerWaitersTypes
    <3>. QED  BY <1>7, <2>1, <2>2, <3>1
  <2>3. CASE q # p
    <3>1. requests'[q] = requests[q] /\ PeerWaiters'[q] = PeerWaiters[q]
      BY <1>1, <1>3, <1>4, <2>3, PeerWaitersTypes
    <3>. QED  BY <2>1, <3>1
  <2>. QED  BY <2>2, <2>3
<1>9. TableFull' = TableFull
  BY <1>1 DEF TableFull
<1>. QED  BY <1>1, <1>6, <1>8, <1>9, Zenon DEF PeerDrops

(* A handler that leaves the look-up or the insertion. *)
LEMMA LeavingWaiters ==
  ASSUME TypeOK, NEW h \in Handlers, pc[h] \in {"lookup", "insertPeer"},
         pc' = [pc EXCEPT ![h] = "serving"], UNCHANGED host
  PROVE  /\ host[h] \in Hosts /\ h \in PeerWaiters[host[h]]
         /\ PeerWaiters' = [PeerWaiters EXCEPT ![host[h]] = @ \ {h}]
<1>1. host[h] \in Hosts
  BY DEF TypeOK
<1>2. pc'[h] = "serving" /\ \A g \in Handlers \ {h} : pc'[g] = pc[g]
  BY DEF TypeOK
<1>3. h \in PeerWaiters[host[h]]
  BY <1>1 DEF PeerWaiters, At
<1>4. ASSUME NEW q \in Hosts
      PROVE  PeerWaiters'[q] = [PeerWaiters EXCEPT ![host[h]] = @ \ {h}][q]
  BY <1>1, <1>2 DEF PeerWaiters, At
<1>. QED  BY <1>1, <1>3, <1>4 DEF PeerWaiters

LEMMA LeaveKeepsPeerDrops ==
  ASSUME TypeOK, PeerDrops, NEW h \in Handlers, pc[h] \in {"lookup", "insertPeer"},
         pc' = [pc EXCEPT ![h] = "serving"], UNCHANGED <<host, requests>>,
         \/ host[h] \in peers /\ UNCHANGED <<peers, peersDropped>>
         \/ /\ host[h] \notin peers /\ TableFull
            /\ peersDropped' = peersDropped + 1 /\ UNCHANGED peers
         \/ /\ host[h] \notin peers /\ ~TableFull
            /\ peers' = peers \cup {host[h]} /\ UNCHANGED peersDropped
  PROVE  PeerDrops'
<1> DEFINE p == host[h]
           V == [PeerWaiters EXCEPT ![p] = @ \ {h}]
<1>1. p \in Hosts /\ h \in PeerWaiters[p] /\ PeerWaiters' = V
  BY LeavingWaiters
<1>2. /\ IsFiniteSet(Hosts) /\ peers \in SUBSET Hosts /\ requests \in [Hosts -> Nat]
      /\ PeerWaiters \in [Hosts -> SUBSET Handlers]
  BY MetricsAssumption, PeerWaitersTypes DEF TypeOK
<1>3. /\ peersDropped = Missed(Hosts, peers, requests, PeerWaiters)
      /\ \A q \in Hosts \ peers : requests[q] = Cardinality(PeerWaiters[q]) \/ TableFull
  BY DEF PeerDrops
<1>4. /\ \A q \in Hosts \ {p} : V[q] = PeerWaiters[q]
      /\ Leaves(Hosts, PeerWaiters, V, p, h)
  BY <1>1, <1>2 DEF Leaves
<1> HIDE DEF p, V
<1>5. CASE p \in peers /\ UNCHANGED <<peers, peersDropped>>
  <2>1. Missed(Hosts, peers, requests, V) = Missed(Hosts, peers, requests, PeerWaiters)
    BY <1>1, <1>2, <1>4, <1>5, HitMisses
  <2>2. TableFull' = TableFull
    BY <1>5 DEF TableFull
  <2>3. \A q \in Hosts \ peers : requests[q] = Cardinality(V[q]) \/ TableFull
    BY <1>3, <1>4, <1>5
  <2>. QED  BY <1>1, <1>3, <1>5, <2>1, <2>2, <2>3 DEF PeerDrops
<1>6. CASE p \notin peers /\ TableFull /\ peersDropped' = peersDropped + 1 /\ UNCHANGED peers
  <2>1. Missed(Hosts, peers, requests, V) = Missed(Hosts, peers, requests, PeerWaiters) + 1
    BY <1>1, <1>2, <1>4, <1>6, MissMisses
  <2>2. TableFull'
    BY <1>6 DEF TableFull
  <2>. QED  BY <1>1, <1>3, <1>6, <2>1, <2>2 DEF PeerDrops
<1>7. CASE p \notin peers /\ ~TableFull /\ peers' = peers \cup {p} /\ UNCHANGED peersDropped
  <2>0. requests[p] = Cardinality(PeerWaiters[p])
    BY <1>1, <1>3, <1>7
  <2>1. Missed(Hosts, peers \cup {p}, requests, V) = Missed(Hosts, peers, requests, PeerWaiters)
    BY <1>1, <1>2, <1>4, <1>7, <2>0, InsertMisses
  <2>2. \A q \in Hosts \ (peers \cup {p}) : requests[q] = Cardinality(V[q])
    BY <1>3, <1>4, <1>7
  <2>. QED  BY <1>1, <1>3, <1>7, <2>1, <2>2 DEF PeerDrops
<1>. QED  BY <1>5, <1>6, <1>7 DEF p

LEMMA PeerDropsInvariant == Spec => []PeerDrops
<1>1. Init => PeerDrops
  <2> SUFFICES ASSUME Init PROVE PeerDrops
    OBVIOUS
  <2>1. /\ peers = {} /\ peersDropped = 0 /\ \A p \in Hosts : PeerWaiters[p] = {}
        /\ \A p \in Hosts : requests[p] = 0
    BY DEF Init, PeerWaiters, At
  <2>2. Cardinality({}) = 0
    BY FS_EmptySet
  <2>3. \A p \in Hosts \ peers : [q \in Hosts |-> requests[q] - Cardinality(PeerWaiters[q])][p] = 0
    BY <2>1, <2>2
  <2>4. IsFiniteSet(Hosts \ peers)
    BY MetricsAssumption, FS_Subset
  <2>5. Missed(Hosts, peers, requests, PeerWaiters) = 0
    BY <2>3, <2>4, SumZero DEF Missed
  <2>. QED  BY <2>1, <2>2, <2>5 DEF PeerDrops
<1>2. TypeOK /\ PeerDrops /\ [Next]_vars => PeerDrops'
  <2> SUFFICES ASSUME TypeOK, PeerDrops, [Next]_vars PROVE PeerDrops'
    OBVIOUS
  <2>1. ASSUME UNCHANGED <<peers, peersDropped, requests, host>>,
               \A g \in Handlers : pc'[g] \in {"lookup", "insertPeer"}
                                     <=> pc[g] \in {"lookup", "insertPeer"}
        PROVE  PeerDrops'
    <3>1. PeerWaiters' = PeerWaiters
      BY <2>1 DEF PeerWaiters, At
    <3>. QED  BY <2>1, <3>1 DEF PeerDrops, TableFull
  <2>2. ASSUME NEW h \in Handlers, RequestLookup(h) PROVE PeerDrops'
    <3>0. UNCHANGED <<peers, peersDropped, requests, host>>
      BY <2>2 DEF RequestLookup, peerVars, peerCalls
    <3>1. CASE host[h] \in peers
      BY <2>2, <3>0, <3>1, LeaveKeepsPeerDrops DEF RequestLookup, To
    <3>2. CASE host[h] \notin peers
      <4>1. \A g \in Handlers : pc'[g] \in {"lookup", "insertPeer"}
                                  <=> pc[g] \in {"lookup", "insertPeer"}
        BY <2>2, <3>2 DEF RequestLookup, To, TypeOK
      <4>. QED  BY <2>1, <3>0, <4>1
    <3>. QED  BY <3>1, <3>2
  <2>3. ASSUME NEW h \in Handlers, RequestInsert(h) PROVE PeerDrops'
    <3>1. /\ pc[h] = "insertPeer" /\ pc' = [pc EXCEPT ![h] = "serving"]
          /\ UNCHANGED <<host, requests>>
      BY <2>3 DEF RequestInsert, To, peerCalls
    <3>2. Cardinality(peers) \in Nat
      BY MetricsAssumption, FS_Subset, FS_CardinalityType DEF TypeOK
    <3>3. \/ host[h] \in peers /\ UNCHANGED <<peers, peersDropped>>
          \/ /\ host[h] \notin peers /\ TableFull
             /\ peersDropped' = peersDropped + 1 /\ UNCHANGED peers
          \/ /\ host[h] \notin peers /\ ~TableFull
             /\ peers' = peers \cup {host[h]} /\ UNCHANGED peersDropped
      BY <2>3, <3>2, MetricsAssumption DEF RequestInsert, peerVars, TableFull
    <3>. QED  BY <3>1, <3>3, LeaveKeepsPeerDrops
  <2>4. ASSUME NEW h \in Handlers, Registration(h) \/ Heartbeat(h) \/ Finish(h) \/ RecordEvent(h)
        PROVE  PeerDrops'
    <3>1. UNCHANGED <<peers, peersDropped, requests, host>>
      BY <2>4 DEF Registration, Heartbeat, Finish, RecordEvent, EventLook, BumpType, BumpServer,
         AddDropped, InsertLabels, beyondEvent, peerVars, peerCalls
    <3>2. \E l \in Pc \ {"lookup", "insertPeer"} : pc' = [pc EXCEPT ![h] = l]
      BY <2>4 DEF Registration, Heartbeat, Finish, RecordEvent, EventLook, BumpType, BumpServer,
         AddDropped, InsertLabels, To, Pc
    <3>3. pc[h] \notin {"lookup", "insertPeer"}
      BY <2>4 DEF Registration, Heartbeat, Finish, RecordEvent, EventLook, BumpType, BumpServer,
         AddDropped, InsertLabels
    <3>4. \A g \in Handlers : pc'[g] \in {"lookup", "insertPeer"}
                                <=> pc[g] \in {"lookup", "insertPeer"}
      BY <3>2, <3>3 DEF TypeOK
    <3>. QED  BY <2>1, <3>1, <3>4
  <2>5. CASE UNCHANGED vars
    BY <2>1, <2>5 DEF vars, peerVars, peerCalls
  <2>. QED  BY <2>2, <2>3, <2>4, <2>5, CallKeepsPeerDrops DEF Next, RecordPeer
<1>. QED  BY <1>1, <1>2, MetricsTypeCorrect, PTL DEF Spec

----------------------------------------------------------------------------
(* The drop counter of the breakdowns                                      *)

TypeMissed   == Missed(Types, types, typed, TypeWaiters)
ServerMissed == Missed(Servers, servers, served, ServerWaiters)

(* What handlers have dropped on the fast path and not yet added to the counter. *)
LocalDrops == SumFunctionOnSet(dropped, Handlers)

LabelDrops == eventLabelsDropped + LocalDrops = TypeMissed + ServerMissed

LEMMA DropTypes ==
  ASSUME TypeOK
  PROVE  /\ eventLabelsDropped \in Int /\ LocalDrops \in Int
         /\ TypeMissed \in Int /\ ServerMissed \in Int
         /\ \A h \in Handlers : dropped[h] \in Int
<1>1. /\ IsFiniteSet(Types) /\ types \in SUBSET Types /\ typed \in [Types -> Nat]
      /\ IsFiniteSet(Servers) /\ servers \in SUBSET Servers /\ served \in [Servers -> Nat]
  BY MetricsAssumption DEF TypeOK
<1>2. TypeMissed \in Int /\ ServerMissed \in Int
  BY <1>1, WaitersTypes, MissedTypes DEF TypeMissed, ServerMissed
<1>3. eventLabelsDropped \in Int /\ \A h \in Handlers : dropped[h] \in Int
  BY DEF TypeOK
<1>4. LocalDrops \in Int
  BY <1>3, MetricsAssumption, SumRemove DEF LocalDrops
<1>. QED  BY <1>2, <1>3, <1>4

(* The local count of one handler changes. *)
LEMMA LocalDropsStep ==
  ASSUME TypeOK, NEW h \in Handlers, dropped'[h] \in Nat,
         \A g \in Handlers \ {h} : dropped'[g] = dropped[g]
  PROVE  LocalDrops' = LocalDrops + dropped'[h] - dropped[h]
<1>1. SumFunctionOnSet(dropped', Handlers)
        = SumFunctionOnSet(dropped, Handlers) + dropped'[h] - dropped[h]
  <2>1. IsFiniteSet(Handlers) /\ dropped'[h] \in Int /\ \A g \in Handlers : dropped[g] \in Int
    BY DropTypes, MetricsAssumption
  <2>. QED  BY <2>1, SumUpdate
<1>. QED  BY <1>1 DEF LocalDrops

LEMMA LookKeepsDrops ==
  ASSUME TypeOK, LabelDrops, NEW h \in Handlers, NEW k \in Types,
         NEW s \in Servers \cup {NoServer}, EventLook(h, k, s)
  PROVE  LabelDrops'
<1>1. /\ UNCHANGED <<types, servers, eventLabelsDropped, dropped>>
      /\ typed' = [typed EXCEPT ![k] = @ + 1]
      /\ served' = IF s = NoServer THEN served ELSE [served EXCEPT ![s] = @ + 1]
  BY DEF EventLook, labelVars
<1>2. /\ IsFiniteSet(Types) /\ types \in SUBSET Types /\ typed \in [Types -> Nat]
      /\ IsFiniteSet(Servers) /\ servers \in SUBSET Servers /\ served \in [Servers -> Nat]
      /\ TypeWaiters \in [Types -> SUBSET Handlers]
      /\ ServerWaiters \in [Servers -> SUBSET Handlers]
  BY MetricsAssumption, WaitersTypes DEF TypeOK
<1>3. h \notin TypeWaiters[k] /\ TypeWaiters' = [TypeWaiters EXCEPT ![k] = @ \cup {h}]
  BY LookWaiters
<1>4. Missed(Types, types, typed', TypeWaiters') = Missed(Types, types, typed, TypeWaiters)
  <2>1. /\ typed'[k] = typed[k] + 1 /\ \A j \in Types \ {k} : typed'[j] = typed[j]
        /\ Arrives(Types, TypeWaiters, TypeWaiters', k, h)
    BY <1>1, <1>2, <1>3 DEF Arrives
  <2>. QED  BY <1>2, <1>3, <2>1, BeginMisses
<1>5. Missed(Servers, servers, served', ServerWaiters')
        = Missed(Servers, servers, served, ServerWaiters)
  <2>1. CASE s = NoServer
    <3>1. served' = served
      BY <1>1, <2>1
    <3>2. ServerWaiters' = ServerWaiters
      BY <2>1, LookWaiters
    <3>. QED  BY <3>1, <3>2
  <2>2. CASE s # NoServer
    <3>0. s \in Servers
      BY <2>2
    <3>1. served' = [served EXCEPT ![s] = @ + 1]
      BY <1>1, <2>2
    <3>2. h \notin ServerWaiters[s]
      BY <2>2, LookWaiters
    <3>3. ServerWaiters' = [ServerWaiters EXCEPT ![s] = @ \cup {h}]
      BY <2>2, LookWaiters
    <3>4. /\ served'[s] = served[s] + 1 /\ \A j \in Servers \ {s} : served'[j] = served[j]
          /\ Arrives(Servers, ServerWaiters, ServerWaiters', s, h)
      BY <1>2, <3>0, <3>1, <3>3 DEF Arrives
    <3>. QED  BY <1>2, <3>0, <3>2, <3>4, BeginMisses
  <2>. QED  BY <2>1, <2>2
<1>. QED  BY <1>1, <1>4, <1>5 DEF LabelDrops, LocalDrops, TypeMissed, ServerMissed

LEMMA BumpTypeKeepsDrops ==
  ASSUME TypeOK, LabelInv, LabelDrops, NEW h \in Handlers, BumpType(h)
  PROVE  LabelDrops'
<1> DEFINE k == key[h]
<1>1. /\ UNCHANGED <<types, servers, eventLabelsDropped, typed, served>>
      /\ pc[h] = "bumpType" /\ k \in Types /\ dropped \in [Handlers -> Nat]
  BY DEF BumpType, eventCalls, TypeOK
<1>2. h \in TypeWaiters[k]
  BY BumpTypeWaiters
<1>3. TypeWaiters' = [TypeWaiters EXCEPT ![k] = @ \ {h}]
  BY BumpTypeWaiters
<1>4. ServerWaiters' = ServerWaiters
  BY BumpTypeWaiters
<1>5. ServerMissed' = ServerMissed
  BY <1>1, <1>4 DEF ServerMissed
<1>6. /\ IsFiniteSet(Types) /\ types \in SUBSET Types /\ typed \in [Types -> Nat]
      /\ TypeWaiters \in [Types -> SUBSET Handlers]
  BY MetricsAssumption, WaitersTypes DEF TypeOK
<1>7. Leaves(Types, TypeWaiters, TypeWaiters', k, h)
  BY <1>1, <1>3, <1>6 DEF Leaves
<1>8. TypeMissed' = Missed(Types, types, typed, TypeWaiters')
  BY <1>1 DEF TypeMissed
<1>9. CASE knewType[h]
  <2>1. k \in types /\ dropped' = dropped
    BY <1>1, <1>9 DEF BumpType, LabelInv, LooksHold
  <2> HIDE DEF k
  <2>2. TypeMissed' = TypeMissed
    BY <1>6, <1>7, <1>8, <2>1, HitMisses DEF TypeMissed
  <2>. QED  BY <1>1, <1>5, <2>1, <2>2 DEF LabelDrops, LocalDrops
<1>10. CASE ~knewType[h]
  <2>1. k \in Types \ types /\ dropped' = [dropped EXCEPT ![h] = dropped[h] + 1]
    BY <1>1, <1>10 DEF BumpType, LabelInv, LooksHold
  <2> HIDE DEF k
  <2>2. TypeMissed' = TypeMissed + 1
    BY <1>2, <1>6, <1>7, <1>8, <2>1, MissMisses DEF TypeMissed
  <2>3. LocalDrops' = LocalDrops + (dropped[h] + 1) - dropped[h]
    <3>1. /\ dropped'[h] = dropped[h] + 1 /\ dropped'[h] \in Nat
          /\ \A g \in Handlers \ {h} : dropped'[g] = dropped[g]
      BY <1>1, <2>1
    <3>. QED  BY <3>1, LocalDropsStep
  <2>. QED  BY <1>1, <1>5, <2>2, <2>3, DropTypes DEF LabelDrops
<1>. QED  BY <1>9, <1>10

LEMMA BumpServerKeepsDrops ==
  ASSUME TypeOK, LabelInv, LabelDrops, NEW h \in Handlers, BumpServer(h), server[h] # NoServer
  PROVE  LabelDrops'
<1> DEFINE s == server[h]
<1>1. /\ UNCHANGED <<types, servers, eventLabelsDropped, typed, served>>
      /\ pc[h] = "bumpServer" /\ s \in Servers /\ dropped \in [Handlers -> Nat]
  BY DEF BumpServer, eventCalls, TypeOK
<1>2. h \in ServerWaiters[s]
  BY BumpServerWaiters
<1>3. ServerWaiters' = [ServerWaiters EXCEPT ![s] = @ \ {h}]
  BY BumpServerWaiters
<1>4. TypeWaiters' = TypeWaiters
  BY BumpServerWaiters
<1>5. TypeMissed' = TypeMissed
  BY <1>1, <1>4 DEF TypeMissed
<1>6. /\ IsFiniteSet(Servers) /\ servers \in SUBSET Servers /\ served \in [Servers -> Nat]
      /\ ServerWaiters \in [Servers -> SUBSET Handlers]
  BY MetricsAssumption, WaitersTypes DEF TypeOK
<1>7. Leaves(Servers, ServerWaiters, ServerWaiters', s, h)
  BY <1>1, <1>3, <1>6 DEF Leaves
<1>8. ServerMissed' = Missed(Servers, servers, served, ServerWaiters')
  BY <1>1 DEF ServerMissed
<1>9. CASE knewServer[h]
  <2>1. s \in servers /\ dropped' = dropped
    BY <1>1, <1>9 DEF BumpServer, LabelInv, LooksHold
  <2> HIDE DEF s
  <2>2. ServerMissed' = ServerMissed
    BY <1>6, <1>7, <1>8, <2>1, HitMisses DEF ServerMissed
  <2>. QED  BY <1>1, <1>5, <2>1, <2>2 DEF LabelDrops, LocalDrops
<1>10. CASE ~knewServer[h]
  <2>1. s \in Servers \ servers /\ dropped' = [dropped EXCEPT ![h] = dropped[h] + 1]
    BY <1>1, <1>10 DEF BumpServer, LabelInv, LooksHold
  <2> HIDE DEF s
  <2>2. ServerMissed' = ServerMissed + 1
    BY <1>2, <1>6, <1>7, <1>8, <2>1, MissMisses DEF ServerMissed
  <2>3. LocalDrops' = LocalDrops + (dropped[h] + 1) - dropped[h]
    <3>1. /\ dropped'[h] = dropped[h] + 1 /\ dropped'[h] \in Nat
          /\ \A g \in Handlers \ {h} : dropped'[g] = dropped[g]
      BY <1>1, <2>1
    <3>. QED  BY <3>1, LocalDropsStep
  <2>. QED  BY <1>1, <1>5, <2>2, <2>3, DropTypes DEF LabelDrops
<1>. QED  BY <1>9, <1>10

(* The slow path counts at once what bumpLabel dropped of either label. *)
LEMMA InsertKeepsDrops ==
  ASSUME TypeOK, LabelInv, LabelDrops, NEW h \in Handlers, InsertLabels(h)
  PROVE  LabelDrops'
<1> DEFINE k == key[h]
           s == server[h]
           b == BumpLabel(types, typeCount, k)
           d == BumpLabel(servers, serverCount, s)
<1>0. k \in Types /\ s \in Servers \cup {NoServer}
  BY DEF TypeOK
<1>1. UNCHANGED <<typed, served, dropped>> /\ types' = b.keys
  BY DEF InsertLabels, eventCalls, localVars, TypeOK
<1>2. /\ s = NoServer => /\ servers' = servers
                         /\ eventLabelsDropped' = eventLabelsDropped + b.drop + 0
      /\ s # NoServer => /\ servers' = d.keys
                         /\ eventLabelsDropped' = eventLabelsDropped + b.drop + d.drop
  BY DEF InsertLabels
<1>3. /\ IsFiniteSet(Types) /\ types \in SUBSET Types /\ typed \in [Types -> Nat]
      /\ typeCount \in [Types -> Nat] /\ TypeWaiters \in [Types -> SUBSET Handlers]
      /\ Exact(Types, types, typeCount, typed, TypeWaiters)
  BY MetricsAssumption, WaitersTypes DEF TypeOK, LabelInv
<1>16. /\ IsFiniteSet(Servers) /\ servers \in SUBSET Servers /\ served \in [Servers -> Nat]
       /\ serverCount \in [Servers -> Nat] /\ ServerWaiters \in [Servers -> SUBSET Handlers]
       /\ Exact(Servers, servers, serverCount, served, ServerWaiters)
  BY MetricsAssumption, WaitersTypes DEF TypeOK, LabelInv
<1>4. h \in TypeWaiters[k]
  BY InsertWaiters
<1>5. TypeWaiters' = [TypeWaiters EXCEPT ![k] = @ \ {h}]
  BY InsertWaiters
<1>6. Leaves(Types, TypeWaiters, TypeWaiters', k, h)
  BY <1>0, <1>3, <1>5 DEF Leaves
<1>7. b.drop \in Int /\ d.drop \in Int
  BY DEF BumpLabel
<1>8. s # NoServer => /\ h \in ServerWaiters[s]
                      /\ Leaves(Servers, ServerWaiters, ServerWaiters', s, h)
  <2>1. ASSUME s # NoServer
        PROVE  h \in ServerWaiters[s] /\ ServerWaiters' = [ServerWaiters EXCEPT ![s] = @ \ {h}]
    BY <2>1, InsertWaiters
  <2>. QED  BY <1>0, <1>16, <2>1 DEF Leaves
<1>9. s = NoServer => ServerWaiters' = ServerWaiters
  BY InsertWaiters
<1>17. b = BumpLabel(types, typeCount, k) /\ d = BumpLabel(servers, serverCount, s)
  OBVIOUS
<1> HIDE DEF k, s, b, d
<1>10. \/ b.drop = 0 /\ Missed(Types, b.keys, typed, TypeWaiters')
                            = Missed(Types, types, typed, TypeWaiters)
       \/ b.drop = 1 /\ Missed(Types, b.keys, typed, TypeWaiters')
                            = Missed(Types, types, typed, TypeWaiters) + 1
  BY <1>0, <1>3, <1>4, <1>6, <1>17, BumpMisses
<1>11. ASSUME s # NoServer
       PROVE  \/ d.drop = 0 /\ Missed(Servers, d.keys, served, ServerWaiters')
                                   = Missed(Servers, servers, served, ServerWaiters)
              \/ d.drop = 1 /\ Missed(Servers, d.keys, served, ServerWaiters')
                                   = Missed(Servers, servers, served, ServerWaiters) + 1
  <2>1. s \in Servers
    BY <1>0, <1>11
  <2>2. h \in ServerWaiters[s] /\ Leaves(Servers, ServerWaiters, ServerWaiters', s, h)
    BY <1>8, <1>11
  <2>. QED  BY <1>16, <1>17, <2>1, <2>2, BumpMisses
<1>12. TypeMissed' = TypeMissed + b.drop
  BY <1>1, <1>10, DropTypes DEF TypeMissed
<1>13. LocalDrops' = LocalDrops
  BY <1>1 DEF LocalDrops
<1>14. CASE s = NoServer
  <2>1. ServerMissed' = ServerMissed
    BY <1>1, <1>2, <1>9, <1>14 DEF ServerMissed
  <2>. QED  BY <1>2, <1>7, <1>12, <1>13, <1>14, <2>1, DropTypes DEF LabelDrops
<1>15. CASE s # NoServer
  <2>1. ServerMissed' = ServerMissed + d.drop
    BY <1>1, <1>2, <1>11, <1>15, DropTypes DEF ServerMissed
  <2>. QED  BY <1>2, <1>7, <1>12, <1>13, <1>15, <2>1, DropTypes DEF LabelDrops
<1>. QED  BY <1>14, <1>15

(* A step that comes to no label. *)
LEMMA DropsFrame ==
  ASSUME UNCHANGED <<types, servers, typed, served, key, server>>,
         \A g \in Handlers :
           \A l \in {"bumpType", "bumpServer", "insertLabels"} : pc'[g] = l <=> pc[g] = l
  PROVE  TypeMissed' = TypeMissed /\ ServerMissed' = ServerMissed
<1>1. TypeWaiters' = TypeWaiters /\ ServerWaiters' = ServerWaiters
  BY DEF TypeWaiters, ServerWaiters, At
<1>. QED  BY <1>1 DEF TypeMissed, ServerMissed

LEMMA AddDroppedKeepsDrops ==
  ASSUME TypeOK, LabelDrops, NEW h \in Handlers, AddDropped(h)
  PROVE  LabelDrops'
<1>1. /\ UNCHANGED <<types, servers, typed, served, key, server>>
      /\ eventLabelsDropped' = eventLabelsDropped + dropped[h]
      /\ dropped' = [dropped EXCEPT ![h] = 0]
      /\ \A g \in Handlers :
           \A l \in {"bumpType", "bumpServer", "insertLabels"} : pc'[g] = l <=> pc[g] = l
  BY DEF AddDropped, To, TypeOK, eventCalls
<1>2. TypeMissed' = TypeMissed /\ ServerMissed' = ServerMissed
  BY <1>1, DropsFrame
<1>3. LocalDrops' = LocalDrops + 0 - dropped[h]
  <2>1. /\ dropped'[h] = 0 /\ dropped'[h] \in Nat
        /\ \A g \in Handlers \ {h} : dropped'[g] = dropped[g]
    BY <1>1 DEF TypeOK
  <2>. QED  BY <2>1, LocalDropsStep
<1>. QED  BY <1>1, <1>2, <1>3, DropTypes DEF LabelDrops

LEMMA LabelDropsStep ==
  TypeOK /\ LabelInv /\ ServersNamed /\ LabelDrops /\ [Next]_vars => LabelDrops'
<1> SUFFICES ASSUME TypeOK, LabelInv, ServersNamed, LabelDrops, [Next]_vars PROVE LabelDrops'
  OBVIOUS
<1>1. ASSUME NEW h \in Handlers, RecordPeer(h) PROVE LabelDrops'
  <2>1. UNCHANGED <<types, servers, typed, served, key, server, eventLabelsDropped, dropped>>
    BY <1>1 DEF RecordPeer, RequestCall, RequestLookup, RequestInsert, Registration, Heartbeat,
       Finish, labelVars, localVars, eventCalls
  <2>2. /\ pc[h] \in {"idle", "lookup", "insertPeer", "serving"}
        /\ \E l \in {"idle", "lookup", "insertPeer", "serving"} : pc' = [pc EXCEPT ![h] = l]
    BY <1>1 DEF RecordPeer, RequestCall, RequestLookup, RequestInsert, Registration, Heartbeat,
       Finish, To
  <2>3. \A g \in Handlers :
          \A l \in {"bumpType", "bumpServer", "insertLabels"} : pc'[g] = l <=> pc[g] = l
    BY <2>2 DEF TypeOK
  <2>. QED  BY <2>1, <2>3, DropsFrame DEF LabelDrops, LocalDrops
<1>2. ASSUME NEW h \in Handlers, BumpServer(h) PROVE LabelDrops'
  <2>1. server[h] # NoServer
    BY <1>2 DEF BumpServer, ServersNamed
  <2>. QED  BY <1>2, <2>1, BumpServerKeepsDrops
<1>3. CASE UNCHANGED vars
  <2>1. UNCHANGED <<types, servers, typed, served, key, server, eventLabelsDropped, dropped, pc>>
    BY <1>3 DEF vars, labelVars, localVars, eventCalls
  <2>. QED  BY <2>1, DropsFrame DEF LabelDrops, LocalDrops
<1>. QED  BY <1>1, <1>2, <1>3, LookKeepsDrops, BumpTypeKeepsDrops, InsertKeepsDrops,
             AddDroppedKeepsDrops DEF Next, RecordEvent

(* What the caps keep out of the peer table and of the two breakdowns is in the
   drop counters, once for each request and once for each label of each event,
   for any number of handlers, hosts and labels and any cap. *)
THEOREM DropsAreCounted == Spec => []DropsAreExact
<1>1. Init => LabelDrops
  <2> SUFFICES ASSUME Init PROVE LabelDrops
    OBVIOUS
  <2>1. /\ \A k \in Types : TypeWaiters[k] = {} /\ typed[k] = 0
        /\ \A s \in Servers : ServerWaiters[s] = {} /\ served[s] = 0
        /\ types = {} /\ servers = {} /\ eventLabelsDropped = 0
        /\ \A h \in Handlers : dropped[h] = 0
    BY DEF Init, TypeWaiters, ServerWaiters, At
  <2>2. Cardinality({}) = 0
    BY FS_EmptySet
  <2>3. \A k \in Types \ types : [j \in Types |-> typed[j] - Cardinality(TypeWaiters[j])][k] = 0
    BY <2>1, <2>2
  <2>8. \A s \in Servers \ servers :
           [j \in Servers |-> served[j] - Cardinality(ServerWaiters[j])][s] = 0
    BY <2>1, <2>2
  <2>4. IsFiniteSet(Types \ types) /\ IsFiniteSet(Servers \ servers)
    BY MetricsAssumption, FS_Subset
  <2>5. TypeMissed = 0
    BY <2>3, <2>4, SumZero DEF Missed, TypeMissed
  <2>6. ServerMissed = 0
    BY <2>8, <2>4, SumZero DEF Missed, ServerMissed
  <2>7. LocalDrops = 0
    BY <2>1, MetricsAssumption, SumZero DEF LocalDrops
  <2>. QED  BY <2>1, <2>5, <2>6, <2>7 DEF LabelDrops
<1>2. PeerDrops /\ LabelDrops => DropsAreExact
  <2>1. [p \in Hosts |-> requests[p] - Cardinality(PeerWaiters[p])]
          = [p \in Hosts |->
               requests[p] - Cardinality({h \in At({"lookup", "insertPeer"}) : host[h] = p})]
    BY DEF PeerWaiters
  <2>2. [k \in Types |-> typed[k] - Cardinality(TypeWaiters[k])]
          = [k \in Types |-> typed[k] - TypePending(k)]
    BY DEF TypeWaiters, TypePending
  <2>3. [s \in Servers |-> served[s] - Cardinality(ServerWaiters[s])]
          = [s \in Servers |-> served[s] - ServerPending(s)]
    BY DEF ServerWaiters, ServerPending
  <2>. QED  BY <2>1, <2>2, <2>3, Zenon
            DEF PeerDrops, LabelDrops, LocalDrops, TypeMissed, ServerMissed, Missed, DropsAreExact
<1>. QED  BY <1>1, <1>2, LabelInit, LabelStep, LabelDropsStep, PeerDropsInvariant,
             MetricsTypeCorrect, PTL DEF Spec
=============================================================================
