----------------------------- MODULE MCIngress -----------------------------
(* Small instances of the CEPA handler for model checking. *)
EXTENDS IngressProps, TLC

CONSTANTS h1, h2, h3

Request(d, n, u, e) == [method |-> "PUT", dialect |-> d, size |-> n, utf16 |-> u, events |-> e]

(* Bodies of 1 are whole in the probe, of 2 are not, of 4 are over the cap. *)
MCRequests ==
  {Request("RegisterRequest", 1, TRUE, 0), Request("HeartBeatRequest", 1, FALSE, 0),
   Request("CheckFileHeartbeat", 1, FALSE, 0), Request("CheckFileEvent", 1, FALSE, 1),
   Request("CheckFileEvent", 1, FALSE, BadPayload), Request("CheckEventRequest", 2, TRUE, 2),
   Request("CheckEventRequest", 3, TRUE, BadPayload), Request("CheckEventRequest", 4, TRUE, 2),
   Request("Events", 2, FALSE, 2), Request("Events", 2, FALSE, 0),
   Request("Events", 1, FALSE, BadPayload), Request("undecodable", 1, FALSE, 0),
   [Request("Events", 1, FALSE, 1) EXCEPT !.method = "GET"]}

(* One of each kind that matters to the slots. *)
MCSlotRequests ==
  {Request("HeartBeatRequest", 1, FALSE, 0), Request("CheckEventRequest", 2, FALSE, 1)}

Symmetry == Permutations(Handlers)
=============================================================================
