--------------------------- MODULE WritersProps ---------------------------
(***************************************************************************)
(* What the output backends have to guarantee to the queue.                *)
(***************************************************************************)
EXTENDS Writers

(* How often backend t took event e. *)
Copies(t, e) == Cardinality({i \in DOMAIN taken[t] : taken[t][i] = e})

(* queue.go counts a batch as written when WriteBatch returned nil: then every
   event of it was taken by every backend, so the counter never over-reports. *)
WrittenIsTaken ==
  \A w \in Workers : pc[w] = "return" /\ ~failed[w] =>
    \A t \in Backends : Range(batch[w]) \subseteq Range(taken[t])

(* A failed write is made again once and whole: an event is taken twice at
   most, and only if its write was repeated. *)
ReplayedAtMostOnce ==
  \A t \in Backends : \A e \in 1..calls :
    Copies(t, e) <= IF e \in resent[t] THEN 2 ELSE 1

(* One event that fails costs no other event, and one backend that fails costs
   no other backend: when WriteBatch returns, every event has been tried on
   every one of them (writer.go, writeBatchSerially; writer_multi.go). *)
EveryEventIsTried ==
  \A w \in Workers : pc[w] = "return" =>
    \A t \in Backends : Range(batch[w]) \subseteq tried[t]

(* The mutex of a socket backend covers the whole batch, its reconnect too:
   what a backend takes of one batch has no event of another in it. *)
FramesStayTogether ==
  \A t \in Backends : targets[t] # "serial" =>
    \A i, j, k \in DOMAIN taken[t] :
      i < j /\ j < k =>
        \A w \in Workers : {taken[t][i], taken[t][k]} \subseteq Range(batch[w])
                             => taken[t][j] \in Range(batch[w])

(* A backend never holds more than one connection open, and none after Close:
   neither a retry nor a failed dial leaks one. *)
OneConnection ==
  \A t \in Backends :
    /\ open[t] \subseteq {conn[t]}
    /\ closed => open[t] = {}
=============================================================================
