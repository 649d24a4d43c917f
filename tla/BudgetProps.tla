---------------------------- MODULE BudgetProps ----------------------------
(***************************************************************************)
(* What the fields of a record have to be when they are given to go-evtx.  *)
(***************************************************************************)
EXTENDS Budget

(* Values of at most two markers are beyond reclaiming: a budget that has room
   for those has room for every event. *)
Roomy == Cardinality(Fields) * (4 + 4 * Bytes(Marker)) <= budget

(* What go-evtx would count: 4 bytes for a value, and 2 or 4 for a rune. *)
WireBytes(v) == 4 + SumFunction([i \in DOMAIN v |-> IF v[i] = 4 THEN 4 ELSE 2])

(* go-evtx rejects a record that is too long, and the event with it: whatever the
   event holds, what the loop lets through fits, and every value is whole runes: no
   cut falls inside one.  The running total, which is only ever corrected, must not
   drift from what the fields cost. *)
RecordFits ==
  pc = "done" =>
    /\ \A f \in Fields : Range(fields[f]) \subseteq Widths
    /\ Roomy => SumFunction([f \in Fields |-> WireBytes(fields[f])]) <= budget

(* "preserves the small fields that carry the identity of the event": no field is
   shortened by the second pass while a longer one is left alone. *)
LongFieldsGoFirst ==
  pc = "done" => \A f, g \in Fields :
    fields[f] # TruncateField(event[f]) /\ fields[g] = TruncateField(event[g])
      => Bytes(fields[g]) <= Bytes(TruncateField(event[f]))

(* EventsTruncatedTotal counts an event if and only if a value of it was cut. *)
TruncationIsReported == pc = "done" /\ Roomy => (truncated <=> fields # event)

FairSpec == Spec /\ WF_vars(Next)

(* The loop ends, even with a budget that the fields can never meet: a halved
   value with its marker may be no shorter than before. *)
LoopEnds == <>(pc = "done")
=============================================================================
