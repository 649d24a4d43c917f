----------------------------- MODULE MCBudget -----------------------------
(* A small instance of the encoded budget for model checking. *)
EXTENDS BudgetProps

CONSTANTS f1, f2, f3

MCMarker == <<3>>

Repeat(w, n) == [i \in 1..n |-> w]

(* Plain values below and above the cap, values of wide runes, and mixtures in which a
   cut falls inside a rune. *)
MCValues ==
  {Repeat(1, n) : n \in {0, 4, 7, 13}}
    \cup {Repeat(3, n) : n \in {3, 5}}
    \cup {Repeat(4, 4), <<1, 4, 4, 3>>, <<1, 1, 3, 4, 4>>}
=============================================================================
