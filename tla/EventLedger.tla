---------------------------- MODULE EventLedger ----------------------------
(***************************************************************************)
(* What the queue promises about the events it has accepted, with no       *)
(* channel, worker or lock: every accepted event is settled exactly once,  *)
(* written or failed, in batches of at most MaxBatch; nothing is accepted  *)
(* once the queue is closed; and a queue whose workers run closes its      *)
(* writer only when no accepted event is left unsettled.                   *)
(***************************************************************************)
EXTENDS Integers, FiniteSets

CONSTANTS Event, MaxBatch

VARIABLES
  accepting,   \* the queue has not been closed
  launched,    \* the workers run
  pending,     \* accepted and not yet settled
  written, failed,
  open         \* the writer has not been closed

ledgerVars == <<accepting, launched, pending, written, failed, open>>

Init ==
  /\ accepting = TRUE /\ launched = FALSE /\ open = TRUE
  /\ pending = {} /\ written = {} /\ failed = {}

Launch ==
  /\ ~launched /\ launched' = TRUE
  /\ UNCHANGED <<accepting, pending, written, failed, open>>

Accept(e) ==
  /\ accepting
  /\ e \notin pending \cup written \cup failed
  /\ pending' = pending \cup {e}
  /\ UNCHANGED <<accepting, launched, written, failed, open>>

(* One batch goes through the writer, and the writer answers for all of it. *)
Settle(B) ==
  /\ launched /\ open
  /\ B # {} /\ B \subseteq pending /\ Cardinality(B) <= MaxBatch
  /\ pending' = pending \ B
  /\ \/ written' = written \cup B /\ UNCHANGED failed
     \/ failed' = failed \cup B /\ UNCHANGED written
  /\ UNCHANGED <<accepting, launched, open>>

Close ==
  /\ accepting /\ accepting' = FALSE
  /\ UNCHANGED <<launched, pending, written, failed, open>>

CloseWriter ==
  /\ open /\ ~accepting
  /\ launched => pending = {}
  /\ open' = FALSE
  /\ UNCHANGED <<accepting, launched, pending, written, failed>>

Next ==
  \/ Launch \/ Close \/ CloseWriter
  \/ \E e \in Event : Accept(e)
  \/ \E B \in SUBSET Event : Settle(B)

Spec == Init /\ [][Next]_ledgerVars

(* What it promises in the long run: no accepted event stays pending once the
   workers run. *)
PendingSettles == \A e \in Event : launched /\ e \in pending ~> e \in written \cup failed
============================================================================
