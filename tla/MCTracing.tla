----------------------------- MODULE MCTracing -----------------------------
(* Jobs of two to six ranks; clocks apart by distinct amounts, so that no  *)
(* wrong sum of offsets looks right.  The small jobs log and measure with  *)
(* errors, the large ones are there for the tree and the ranks outside it. *)
EXTENDS Tracing

Offsets == [r \in 0..7 |-> CASE r = 0 -> 0 [] OTHER -> 10 * 3 ^ r]
UnevenLegs == [n \in 2..6 |-> IF n <= 3 THEN {1, 2} ELSE {1}]
Records == [n \in 2..6 |-> CASE n <= 3 -> 3 [] n = 4 -> 1 [] OTHER -> 0]
=============================================================================
