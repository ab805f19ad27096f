------------------------------- MODULE MCParser -------------------------------
(* Model values and bounds for Parser. *)
EXTENDS Parser

\* A line has room for four operands and the operators between them, for a loop, for a
\* conditional and something more, for a prototype with an argument, for the definition
\* of an operator with its precedence; what is only an error there costs more.
TokenCost ==
  [t \in Token |-> CASE t \in {"then", "else", "in"} -> 1
                     [] t \in {"x", "=", ",", "-", ">", "*", ")", "]", ":",
                               "type", "extern"} -> 2
                     [] t \in {"0", "1.", "5", "."} -> 4
                     [] OTHER -> 3]
===============================================================================
