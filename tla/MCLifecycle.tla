---------------------------- MODULE MCLifecycle ----------------------------
(* A small instance of the life of the process for model checking. *)
EXTENDS LifecycleProps

CONSTANTS h1, h2

Single(t, ok) == [type |-> t, targets |-> <<>>, valid |-> ok]
Multi(ts)     == [type |-> "multi", targets |-> ts, valid |-> TRUE]

MCSettings ==
  {Single("evtx", TRUE), Single("evtx", FALSE), Single("socket", TRUE), Single("unknown", TRUE),
   Multi(<<"socket", "evtx">>), Multi(<<"evtx", "evtx">>), Multi(<<"evtx", "unknown">>)}
=============================================================================
