------------------------------ MODULE Budget ------------------------------
(***************************************************************************)
(* How BinaryEvtxWriter makes the fields of an event fit into one record   *)
(* of go-evtx: every long field is cut (truncateField), and then the       *)
(* longest field is halved until the encoded total is within the budget    *)
(* (enforceEncodedBudget).                                                 *)
(*                                                                         *)
(* A value is the sequence of the widths of its runes, 1 to 4 bytes of     *)
(* UTF-8 each; go-evtx writes it as UTF-16.  The order in which Go walks a *)
(* map is not determined, so of several longest fields any may be taken.   *)
(*                                                                         *)
(* A definition marked FAULT is no part of Next: it is a mistake that the  *)
(* definition after it could have had, kept to show which property notices.*)
(***************************************************************************)
EXTENDS Integers, Sequences, FiniteSets, Functions

CONSTANTS
  Fields,    \* keys of the map
  Values,    \* what a field may hold
  MaxField,  \* maxFieldBytes
  Marker,    \* truncationMarker
  Budgets    \* values to try for maxEncodedFieldsBytes

Widths == 1..4

(* len: the bytes of a value. *)
Bytes(v) == SumFunction(v)

ASSUME BudgetAssumption ==
  /\ IsFiniteSet(Fields) /\ Values \subseteq Seq(Widths) /\ Marker \in Seq(Widths)
  /\ Budgets \subseteq Nat /\ MaxField \in Nat /\ Bytes(Marker) < MaxField

VARIABLES
  budget, event,   \* maxEncodedFieldsBytes, the fields as the event has them
  fields, total,   \* locals of windowsEventToFields and enforceEncodedBudget
  truncated,
  pc

vars == <<budget, event, fields, total, truncated, pc>>

(* FAULT: a rune outside the basic plane is taken for one unit. *)
EncodedLenOfRunes(v) == 4 + 2 * Len(v)

(* encodedLen: two bytes for each UTF-16 unit, and 4 more. *)
EncodedLen(v) == 4 + 2 * (Len(v) + Cardinality({i \in DOMAIN v : v[i] = 4}))

(* The longest prefix of at most n bytes that splits no rune. *)
Prefix(v, n) == SubSeq(v, 1, Cardinality({k \in DOMAIN v : Bytes(SubSeq(v, 1, k)) <= n}))

(* truncateField *)
TruncateField(v) ==
  IF Bytes(v) <= MaxField THEN v ELSE Prefix(v, MaxField - Bytes(Marker)) \o Marker

Init ==
  /\ budget \in Budgets /\ event \in [Fields -> Values]
  /\ fields = event /\ total = 0 /\ truncated = FALSE /\ pc = "clip"

TotalOf(fs) == SumFunction([f \in DOMAIN fs |-> EncodedLen(fs[f])])

(* The first pass over the fields, and the sum that the second begins with. *)
Clip ==
  /\ pc = "clip"
  /\ fields' = [f \in Fields |-> TruncateField(event[f])]
  /\ truncated' = (\E f \in Fields : Bytes(event[f]) > MaxField)
  /\ total' = TotalOf(fields')
  /\ pc' = "enforce"
  /\ UNCHANGED <<budget, event>>

Longest(f) == \A g \in Fields : Bytes(fields[g]) <= Bytes(fields[f])

Halved(v) == Prefix(v, Bytes(v) \div 2) \o Marker

(* FAULT: only the length of the marker ends the loop. *)
ReclaimsAlways(v) == Bytes(v) > Bytes(Marker)

(* Halving a value helps: not if it is too short for the marker. *)
Reclaims(v) ==
  /\ Bytes(v) > Bytes(Marker)
  /\ Bytes(Halved(v)) < Bytes(v)

(* FAULT: a value that was halved does not count as truncated. *)
ShrinkSilently(f) ==
  /\ pc = "enforce" /\ total > budget /\ Longest(f) /\ Reclaims(fields[f])
  /\ fields' = [fields EXCEPT ![f] = Halved(@)]
  /\ total' = total + EncodedLen(Halved(fields[f])) - EncodedLen(fields[f])
  /\ UNCHANGED <<budget, event, truncated, pc>>

(* FAULT: whatever field comes first is taken. *)
ShrinkAny(f) ==
  /\ pc = "enforce" /\ total > budget /\ Reclaims(fields[f])
  /\ fields' = [fields EXCEPT ![f] = Halved(@)]
  /\ total' = total + EncodedLen(Halved(fields[f])) - EncodedLen(fields[f])
  /\ truncated' = TRUE
  /\ UNCHANGED <<budget, event, pc>>

Shrink(f) ==
  /\ pc = "enforce" /\ total > budget /\ Longest(f) /\ Reclaims(fields[f])
  /\ fields' = [fields EXCEPT ![f] = Halved(@)]
  /\ total' = total + EncodedLen(Halved(fields[f])) - EncodedLen(fields[f])
  /\ truncated' = TRUE
  /\ UNCHANGED <<budget, event, pc>>

(* Within the budget, or nothing left to reclaim: the longest cannot shrink. *)
Finish ==
  /\ pc = "enforce"
  /\ total <= budget \/ \E f \in Fields : Longest(f) /\ ~Reclaims(fields[f])
  /\ truncated' = (truncated \/ total > budget)
  /\ pc' = "done"
  /\ UNCHANGED <<budget, event, fields, total>>

Next == Clip \/ Finish \/ \E f \in Fields : Shrink(f)

Spec == Init /\ [][Next]_vars
=============================================================================
