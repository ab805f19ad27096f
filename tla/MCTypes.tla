------------------------------- MODULE MCTypes --------------------------------
(* Model values and bounds for Types. *)
EXTENDS Types

\* A list of integers, and a tuple with a list as its first element.
Names == [l |-> List(I64), t |-> Tuple(<<List(F64), I64>>)]

\* The minus one is an index before the first element, or past the end of every word.
Results == {-1, 1}

\* Some values of each type: lists of one element, and the null pointer.
RECURSIVE Values(_)
Values(t) ==
  CASE t.kind = "F64" -> {Double}
    [] t.kind = "I64" -> {Int64(n) : n \in Results}
    [] t.kind = "Unit" -> {Bit}
    [] t.kind = "Nil" -> {Null}
    [] t.kind = "List" -> {Null} \cup {Pointer(<<gc_new(Tag(t.of[1]), v)>>) : v \in Values(t.of[1])}
    [] t.kind = "Tuple" ->
         {Pointer([i \in DOMAIN t.of |-> gc_new(Tag(t.of[i]), f[i])]) :
            f \in {g \in [DOMAIN t.of -> UNION {Values(t.of[i]) : i \in DOMAIN t.of}] :
                     \A i \in DOMAIN t.of : g[i] \in Values(t.of[i])}}

\* The types that the names below have, and the types that these are made of.
Written ==
  {F64, I64, Unit, List(I64), List(F64), List(List(I64)), Tuple(<<I64, I64>>), Tuple(<<List(F64), I64>>)}
Given == UNION {{Claim(t, v) : v \in Values(t)} : t \in Written}

\* Operators and functions over numbers and over lists.
Functions ==
  {[name |-> "binary", args |-> <<F64, F64>>, ret |-> F64],
   [name |-> "binary", args |-> <<I64, I64>>, ret |-> F64],
   [name |-> "binary", args |-> <<I64, I64>>, ret |-> Unit],
   [name |-> "unary", args |-> <<List(I64)>>, ret |-> List(I64)],
   [name |-> "unary", args |-> <<F64>>, ret |-> I64],
   [name |-> "f", args |-> <<List(F64), I64>>, ret |-> Tuple(<<I64, I64>>)],
   [name |-> "g", args |-> << >>, ret |-> List(List(I64))]}
===============================================================================
