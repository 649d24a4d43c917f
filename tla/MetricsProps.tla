--------------------------- MODULE MetricsProps ---------------------------
(***************************************************************************)
(* What the labelled series have to say of the calls that were made.       *)
(***************************************************************************)
EXTENDS Metrics, Functions

(* Handlers inside a call, at one of these points. *)
At(points) == {h \in Handlers : pc[h] \in points}

(* The types of all variables, and the caps of the three maps. *)
TypeOK ==
  /\ peers \subseteq Hosts /\ Cardinality(peers) <= MaxPeers
  /\ types \subseteq Types /\ Cardinality(types) <= MaxEventLabels
  /\ servers \subseteq Servers /\ Cardinality(servers) <= MaxEventLabels
  /\ registrations \in [Hosts -> Nat] /\ heartbeats \in [Hosts -> Nat]
  /\ typeCount \in [Types -> Nat] /\ serverCount \in [Servers -> Nat]
  /\ peersDropped \in Nat /\ eventLabelsDropped \in Nat
  /\ pc \in [Handlers -> Pc] /\ host \in [Handlers -> Hosts]
  /\ key \in [Handlers -> Types] /\ server \in [Handlers -> Servers \cup {NoServer}]
  /\ knewType \in [Handlers -> BOOLEAN] /\ knewServer \in [Handlers -> BOOLEAN]
  /\ dropped \in [Handlers -> Nat]
  /\ calls \in Nat /\ requests \in [Hosts -> Nat]
  /\ registered \in [Hosts -> Nat] /\ beats \in [Hosts -> Nat]
  /\ typed \in [Types -> Nat] /\ served \in [Servers -> Nat]

(* A publisher in the table has all its handshakes in its counters: the race of
   two first requests loses none, and no peer is counted from the middle. *)
PeersAreExact ==
  \A p \in peers : registrations[p] = registered[p] /\ heartbeats[p] = beats[p]

(* Calls of RecordEvent that have not yet come to their type, or their server. *)
TypePending(k)   ==
  Cardinality({h \in At({"bumpType", "insertLabels"}) : key[h] = k})
ServerPending(s) ==
  Cardinality({h \in At({"bumpType", "bumpServer", "insertLabels"}) : server[h] = s})

(* A label is counted from its first event or not at all: whatever the order of
   fast and slow paths, a series that is shown misses no event. *)
LabelsAreExact ==
  /\ \A k \in types : typeCount[k] + TypePending(k) = typed[k]
  /\ \A s \in servers : serverCount[s] + ServerPending(s) = served[s]

(* What a cap keeps out of the tables is in its drop counter, once for each
   request and once for each label of each event. *)
DropsAreExact ==
  /\ peersDropped =
       SumFunctionOnSet([p \in Hosts |->
           requests[p] - Cardinality({h \in At({"lookup", "insertPeer"}) : host[h] = p})],
         Hosts \ peers)
  /\ eventLabelsDropped + SumFunctionOnSet(dropped, Handlers) =
       SumFunctionOnSet([k \in Types |-> typed[k] - TypePending(k)], Types \ types)
         + SumFunctionOnSet([s \in Servers |-> served[s] - ServerPending(s)], Servers \ servers)
=============================================================================
