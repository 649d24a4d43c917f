------------------------------ MODULE Metrics ------------------------------
(***************************************************************************)
(* The labelled series of pkg/metrics: the table of publishers and the two *)
(* breakdowns of the event counter, all capped, written by the handlers of *)
(* the CEPA server at the same time.                                       *)
(*                                                                         *)
(* A Go map of counters is the set of its keys and a count for each key.   *)
(* One action is one critical section of the map's lock, or one add to a   *)
(* counter through a pointer that was read under the lock.  Time stamps    *)
(* are left out, and so are the snapshots, which only read.                *)
(*                                                                         *)
(* A definition marked FAULT is no part of Next: it is a mistake that the  *)
(* definition after it could have had, kept to show which property notices.*)
(***************************************************************************)
EXTENDS Integers, FiniteSets

CONSTANTS
  Handlers,        \* goroutines that run ServeHTTP
  Hosts,           \* publishers
  Types,           \* eventTypeKey, the pairs of event type and protocol
  Servers,         \* values of the server label
  NoServer,        \* the empty server
  MaxPeers,        \* cap of the peer table
  MaxEventLabels,  \* cap of each breakdown
  MaxCalls         \* bound: requests and events in a behaviour

ASSUME MetricsAssumption ==
  /\ IsFiniteSet(Handlers) /\ IsFiniteSet(Hosts) /\ IsFiniteSet(Types) /\ IsFiniteSet(Servers)
  /\ NoServer \notin Servers
  /\ MaxPeers \in Nat /\ MaxEventLabels \in Nat /\ MaxCalls \in Nat

VARIABLES
  peers, registrations, heartbeats,   \* keys of Store.peers, and each peerStat
  peersDropped,
  types, typeCount,                   \* Store.eventsByType
  servers, serverCount,               \* Store.eventsByServer
  eventLabelsDropped,
  pc, host,                           \* a handler: control point, its publisher
  key, server,                        \* arguments of RecordEvent
  knewType, knewServer, dropped,      \* locals of recordBreakdown
  (* history: calls made, whatever was recorded of them *)
  calls, requests, registered, beats, typed, served

peerVars    == <<peers, registrations, heartbeats, peersDropped>>
labelVars   == <<types, typeCount, servers, serverCount, eventLabelsDropped>>
localVars   == <<key, server, knewType, knewServer, dropped>>
peerCalls   == <<requests, registered, beats>>
eventCalls  == <<typed, served>>
vars == <<peerVars, labelVars, pc, host, localVars, calls, peerCalls, eventCalls>>

Pc == {"idle", "lookup", "insertPeer", "serving", "bumpType", "bumpServer", "addDropped",
       "insertLabels"}

To(h, l) == pc' = [pc EXCEPT ![h] = l]

(* The locals of a handler are assigned before they are read: any value will do. *)
Init ==
  /\ peers = {} /\ registrations = [p \in Hosts |-> 0] /\ heartbeats = [p \in Hosts |-> 0]
  /\ peersDropped = 0
  /\ types = {} /\ typeCount = [k \in Types |-> 0]
  /\ servers = {} /\ serverCount = [s \in Servers |-> 0] /\ eventLabelsDropped = 0
  /\ pc = [h \in Handlers |-> "idle"] /\ host \in [Handlers -> Hosts]
  /\ key \in [Handlers -> Types] /\ server = [h \in Handlers |-> NoServer]
  /\ knewType = [h \in Handlers |-> FALSE] /\ knewServer = [h \in Handlers |-> FALSE]
  /\ dropped = [h \in Handlers |-> 0]
  /\ calls = 0 /\ requests = [p \in Hosts |-> 0]
  /\ registered = [p \in Hosts |-> 0] /\ beats = [p \in Hosts |-> 0]
  /\ typed = [k \in Types |-> 0] /\ served = [s \in Servers |-> 0]

----------------------------------------------------------------------------
(* RecordPeerRequestAt: look under the read lock, look again before inserting. *)

RequestCall(h, p) ==
  /\ pc[h] = "idle" /\ calls < MaxCalls
  /\ calls' = calls + 1
  /\ requests' = [requests EXCEPT ![p] = @ + 1]
  /\ host' = [host EXCEPT ![h] = p]
  /\ To(h, "lookup")
  /\ UNCHANGED <<peerVars, labelVars, localVars, registered, beats, eventCalls>>

RequestLookup(h) ==
  /\ pc[h] = "lookup"
  /\ To(h, IF host[h] \in peers THEN "serving" ELSE "insertPeer")
  /\ UNCHANGED <<peerVars, labelVars, host, localVars, calls, peerCalls, eventCalls>>

(* FAULT: no second look: a peer inserted meanwhile is replaced by a fresh one. *)
RequestInsertBlindly(h) ==
  /\ pc[h] = "insertPeer"
  /\ IF Cardinality(peers) >= MaxPeers
       THEN /\ peersDropped' = peersDropped + 1
            /\ UNCHANGED <<peers, registrations, heartbeats>>
       ELSE /\ peers' = peers \cup {host[h]}
            /\ registrations' = [registrations EXCEPT ![host[h]] = 0]
            /\ heartbeats' = [heartbeats EXCEPT ![host[h]] = 0]
            /\ UNCHANGED peersDropped
  /\ To(h, "serving")
  /\ UNCHANGED <<labelVars, host, localVars, calls, peerCalls, eventCalls>>

RequestInsert(h) ==
  /\ pc[h] = "insertPeer"
  /\ \/ /\ host[h] \in peers
        /\ UNCHANGED peerVars
     \/ /\ host[h] \notin peers /\ Cardinality(peers) >= MaxPeers
        /\ peersDropped' = peersDropped + 1
        /\ UNCHANGED <<peers, registrations, heartbeats>>
     \/ /\ host[h] \notin peers /\ Cardinality(peers) < MaxPeers
        /\ peers' = peers \cup {host[h]}
        /\ registrations' = [registrations EXCEPT ![host[h]] = 0]
        /\ heartbeats' = [heartbeats EXCEPT ![host[h]] = 0]
        /\ UNCHANGED peersDropped
  /\ To(h, "serving")
  /\ UNCHANGED <<labelVars, host, localVars, calls, peerCalls, eventCalls>>

(* RecordPeerRegistration and RecordPeerHeartbeat never create a peer. *)
Registration(h) ==
  LET p == host[h] IN
  /\ pc[h] = "serving"
  /\ registered' = [registered EXCEPT ![p] = @ + 1]
  /\ registrations' = [registrations EXCEPT ![p] = IF p \in peers THEN @ + 1 ELSE @]
  /\ To(h, "idle")
  /\ UNCHANGED <<peers, heartbeats, peersDropped, labelVars, host, localVars, calls, requests,
                 beats, eventCalls>>

Heartbeat(h) ==
  LET p == host[h] IN
  /\ pc[h] = "serving"
  /\ beats' = [beats EXCEPT ![p] = @ + 1]
  /\ heartbeats' = [heartbeats EXCEPT ![p] = IF p \in peers THEN @ + 1 ELSE @]
  /\ To(h, "idle")
  /\ UNCHANGED <<peers, registrations, peersDropped, labelVars, host, localVars, calls, requests,
                 registered, eventCalls>>

(* ServeHTTP is done with the request and its events. *)
Finish(h) ==
  /\ pc[h] = "serving"
  /\ To(h, "idle")
  /\ UNCHANGED <<peerVars, labelVars, host, localVars, calls, peerCalls, eventCalls>>

----------------------------------------------------------------------------
(* RecordEvent                                                             *)

beyondEvent == <<peerVars, host, peerCalls>>

Full(m) == Cardinality(m) >= MaxEventLabels

(* The read lock: both counters are there, or can never come to be. *)
EventLook(h, k, s) ==
  /\ pc[h] = "serving" /\ calls < MaxCalls
  /\ calls' = calls + 1
  /\ typed' = [typed EXCEPT ![k] = @ + 1]
  /\ served' = IF s = NoServer THEN served ELSE [served EXCEPT ![s] = @ + 1]
  /\ key' = [key EXCEPT ![h] = k] /\ server' = [server EXCEPT ![h] = s]
  /\ knewType' = [knewType EXCEPT ![h] = k \in types]
  /\ knewServer' = [knewServer EXCEPT ![h] = s \in servers]
  /\ To(h, IF (k \in types \/ Full(types)) /\ (s \in servers \cup {NoServer} \/ Full(servers))
             THEN "bumpType" ELSE "insertLabels")
  /\ UNCHANGED <<beyondEvent, labelVars, dropped>>

(* The fast path: two adds through the pointers, and one for what was dropped. *)
BumpType(h) ==
  /\ pc[h] = "bumpType"
  /\ IF knewType[h]
       THEN typeCount' = [typeCount EXCEPT ![key[h]] = @ + 1] /\ UNCHANGED dropped
       ELSE dropped' = [dropped EXCEPT ![h] = @ + 1] /\ UNCHANGED typeCount
  /\ To(h, IF server[h] = NoServer THEN "addDropped" ELSE "bumpServer")
  /\ UNCHANGED <<beyondEvent, types, servers, serverCount, eventLabelsDropped, key, server,
                 knewType, knewServer, calls, eventCalls>>

(* FAULT: a server without a counter is passed over in silence. *)
BumpServerSilently(h) ==
  /\ pc[h] = "bumpServer"
  /\ IF knewServer[h]
       THEN serverCount' = [serverCount EXCEPT ![server[h]] = @ + 1]
       ELSE UNCHANGED serverCount
  /\ To(h, "addDropped")
  /\ UNCHANGED <<beyondEvent, types, typeCount, servers, eventLabelsDropped, localVars,
                 calls, eventCalls>>

BumpServer(h) ==
  /\ pc[h] = "bumpServer"
  /\ IF knewServer[h]
       THEN serverCount' = [serverCount EXCEPT ![server[h]] = @ + 1] /\ UNCHANGED dropped
       ELSE dropped' = [dropped EXCEPT ![h] = @ + 1] /\ UNCHANGED serverCount
  /\ To(h, "addDropped")
  /\ UNCHANGED <<beyondEvent, types, typeCount, servers, eventLabelsDropped, key, server,
                 knewType, knewServer, calls, eventCalls>>

AddDropped(h) ==
  /\ pc[h] = "addDropped"
  /\ eventLabelsDropped' = eventLabelsDropped + dropped[h]
  /\ dropped' = [dropped EXCEPT ![h] = 0]
  /\ To(h, "serving")
  /\ UNCHANGED <<beyondEvent, types, typeCount, servers, serverCount, key, server, knewType,
                 knewServer, calls, eventCalls>>

(* FAULT: what the read lock showed is still believed under the write lock. *)
BumpLabelStale(m, count, k) ==
  IF Full(m)
    THEN [keys |-> m, count |-> count, drop |-> 1]
    ELSE [keys |-> m \cup {k}, count |-> [count EXCEPT ![k] = 1], drop |-> 0]

(* FAULT: the map grows past its cap. *)
BumpLabelUncapped(m, count, k) ==
  [keys |-> m \cup {k}, count |-> [count EXCEPT ![k] = @ + 1], drop |-> 0]

(* bumpLabel: the map after it, the counts, and whether the event was dropped. *)
BumpLabel(m, count, k) ==
  IF k \notin m /\ Full(m)
    THEN [keys |-> m, count |-> count, drop |-> 1]
    ELSE [keys |-> m \cup {k}, count |-> [count EXCEPT ![k] = @ + 1], drop |-> 0]

(* The write lock, where both maps are looked at again. *)
InsertLabels(h) ==
  LET t == BumpLabel(types, typeCount, key[h])
      s == IF server[h] = NoServer
             THEN [keys |-> servers, count |-> serverCount, drop |-> 0]
             ELSE BumpLabel(servers, serverCount, server[h])
  IN
  /\ pc[h] = "insertLabels"
  /\ types' = t.keys /\ typeCount' = t.count
  /\ servers' = s.keys /\ serverCount' = s.count
  /\ eventLabelsDropped' = eventLabelsDropped + t.drop + s.drop
  /\ To(h, "serving")
  /\ UNCHANGED <<beyondEvent, localVars, calls, eventCalls>>

----------------------------------------------------------------------------
RecordPeer(h) ==
  \/ \E p \in Hosts : RequestCall(h, p)
  \/ RequestLookup(h) \/ RequestInsert(h)
  \/ Registration(h) \/ Heartbeat(h) \/ Finish(h)

RecordEvent(h) ==
  \/ \E k \in Types, s \in Servers \cup {NoServer} : EventLook(h, k, s)
  \/ BumpType(h) \/ BumpServer(h) \/ AddDropped(h) \/ InsertLabels(h)

Next == \E h \in Handlers : RecordPeer(h) \/ RecordEvent(h)

Spec == Init /\ [][Next]_vars
=============================================================================
