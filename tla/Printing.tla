------------------------------- MODULE Printing -------------------------------
(***************************************************************************)
(* What is printed of a top-level expression (llvm/codegen.rs, run and        *)
(* print_cons): the only types left when the program runs are the tags that   *)
(* the cells got as they were made, in five places.                          *)
(***************************************************************************)
EXTENDS Types

VARIABLE shown \* what was printed, nothing at first; the rest is the state of Types

\* What print_cons writes of a list or tuple, by the tags of its cells: brackets, units
\* and words.
RECURSIVE print_cons(_, _)
print_cons(v, tag) ==
  <<IF tag = 0 THEN "[" ELSE "(">>
  \o [i \in DOMAIN v.cells |->
        LET cell == v.cells[i]
        IN  CASE cell.is_pointer -> print_cons(cell.car, cell.car_t)
              [] ~cell.is_pointer /\ cell.car_t = 4 -> <<"()">>
              [] OTHER -> IF cell.car.llvm = "i64" /\ cell.car.n >= 0
                            THEN <<"i64", cell.car.n>> ELSE <<"bits">>]

\* A number in a list or tuple is printed as an unsigned word.
RECURSIVE BitsInside(_)
BitsInside(v) ==
  \E i \in DOMAIN v.cells :
    LET w == v.cells[i].car IN w.llvm = "double" \/ w.n < 0 \/ BitsInside(w)

\* A top-level expression is evaluated and printed.
run ==
  /\ Complete /\ shown = << >>
  /\ LET t == stack[1].t
         v == stack[1].v
     IN  /\ BitsInside(v) => "bits" \in Lapses
         /\ shown' = CASE t.kind \in {"List", "Nil"} -> print_cons(v, 0)
                       [] t.kind = "Tuple" -> print_cons(v, 1)
                       [] t = Unit -> <<"()">>
                       [] OTHER -> <<v.llvm, v.n>>
  /\ UNCHANGED vars

PrintInit == Init /\ shown = << >>

\* What goes on before is a behavior of Types.
PrintNext ==
  \/ shown = << >> /\ Next /\ UNCHANGED shown
  \/ run

PrintSpec == PrintInit /\ [][PrintNext]_<<vars, shown>>

-------------------------------------------------------------------------------
(* Correctness.                                                            *)

\* How a value of type t is to be written.
RECURSIVE Display(_, _)
Display(v, t) ==
  CASE t = Unit -> <<"()">>
    [] t \in {F64, I64} -> <<v.llvm, v.n>>
    [] t = Nil -> <<"[">>
    [] t.kind = "List" -> <<"[">> \o [i \in DOMAIN v.cells |-> Display(v.cells[i].car, t.of[1])]
    [] t.kind = "Tuple" -> <<"(">> \o [i \in DOMAIN v.cells |-> Display(v.cells[i].car, t.of[i])]

\* What is printed shows the value as its type has it, though the only types left when
\* the program runs are the tags that the cells got as they were made, in five places
\* (codegen.rs:86-92, 350-360, 427-437, 499-505, 1400-1456).
PrintedRight == shown # << >> => shown = Display(stack[1].v, stack[1].t)
===============================================================================
