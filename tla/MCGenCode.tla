------------------------------ MODULE MCGenCode -------------------------------
(* Model values and bounds for GenCode. *)
EXTENDS GenCode, TLC

CellSymmetry == Permutations(Cell)

\* Two states that differ in garbage only have the same future: gc_new may collect
\* it at any call.
WithoutGarbage ==
  LET live == Reach(InRegisters \cup Rooted)
  IN  <<[c \in Cell |-> IF c \in live THEN obj[c] ELSE None], roots, todo, val, from>>
===============================================================================
