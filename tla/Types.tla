-------------------------------- MODULE Types ---------------------------------
(***************************************************************************)
(* The types the checker gives to expressions (semantics/type_checking.rs),   *)
(* the LLVM code the generator makes of them (llvm/codegen.rs), and the       *)
(* values that code computes: one state machine builds an expression from its *)
(* parts, innermost first, and each part is checked, generated and evaluated  *)
(* as it is added.                                                          *)
(*                                                                         *)
(* Names are the matter of module Scopes: here identifiers have fixed types.  *)
(* A value is its structure; who shares it is the matter of module GenCode.   *)
(***************************************************************************)
EXTENDS Integers, Sequences

CONSTANTS
  Number,     \* the integers that occur as literals
  Known,      \* the values of identifiers, and the results of calls and operators: [t, v]
  Identifier, \* the types of the identifiers in scope, by name
  Prototype,  \* of the functions the user defined: [name, args, ret]
  MaxSize,    \* bound: constructs in an expression
  MaxOpen,    \* bound: subexpressions that wait for their construct
  Lapses      \* what the program may do that checker and generator disagree about

ASSUME BoundsAssumption == MaxSize \in Nat /\ MaxOpen \in Nat /\ Number \subseteq Nat
ASSUME LapsesAssumption ==
  Lapses \subseteq {"nil", "unit tail", "unit element", "bits", "pointer element",
                    "pointer operand", "operator result", "pointer loop", "tuple index",
                    "no variable", "temporary"}

VARIABLES
  stack,   \* the subexpressions that wait for their construct, the last one on top
  size,    \* constructs so far
  outcome, \* "" until the expression is complete or something went wrong
  flow     \* the value that last went into a variable, a field, a parameter or a
           \* result, with the type declared for it

vars == <<stack, size, outcome, flow>>

-------------------------------------------------------------------------------
(* Types and values.                                                       *)

\* TypeKind.
Scalar(kind) == [kind |-> kind, of |-> << >>]
F64 == Scalar("F64")
I64 == Scalar("I64")
Unit == Scalar("Unit")
Nil == Scalar("Nil")
List(t) == [kind |-> "List", of |-> <<t>>]
Tuple(ts) == [kind |-> "Tuple", of |-> ts]

\* A value by its LLVM type; n is that of an integer, cells the list a pointer is to.
Value(llvm, n, cells) == [llvm |-> llvm, n |-> n, cells |-> cells]
Double == Value("double", 0, << >>)
Int64(n) == Value("i64", n, << >>)
Bit == Value("i1", 0, << >>)
Pointer(cells) == Value("ptr", 0, cells)
Null == Pointer(<< >>)

\* A word that is read as what it is not.
Wild == Value("wild", 0, << >>)

get_type(t) ==
  CASE t.kind = "F64" -> "double"
    [] t.kind = "I64" -> "i64"
    [] t.kind = "Unit" -> "i1"
    [] t.kind \in {"List", "Tuple", "Nil"} -> "ptr"

Load(llvm, v) == IF v.llvm = llvm THEN v ELSE Wild

\* The tag in a cell's header that says what is in it.
Tag(t) ==
  CASE t.kind \in {"List", "Nil"} -> 0
    [] t.kind = "Tuple" -> 1
    [] t.kind = "F64" -> 2
    [] t.kind = "I64" -> 3
    [] t.kind = "Unit" -> 4

\* gc_new, and the store that follows it.
gc_new(tag, car) == [is_pointer |-> car.llvm = "ptr", car_t |-> tag, car |-> car]

-------------------------------------------------------------------------------
(* Which values are of a type.                                             *)

\* The claim that v is of type t.
Claim(t, v) == [t |-> t, v |-> v]

\* A type that parser or checker can make, but for the types it is made of.
Made(t) ==
  /\ t = [kind |-> t.kind, of |-> t.of]
  /\ t.kind \in {"F64", "I64", "Unit", "Nil", "List", "Tuple"}
  /\ t.of \in Seq({t.of[i] : i \in DOMAIN t.of})
  /\ Len(t.of) = CASE t.kind = "List" -> 1 [] t.kind = "Tuple" -> Len(t.of) [] OTHER -> 0

\* What a claim says, but for what it says of the cars; and nothing is said of tags.
Holds(c) ==
  /\ Made(c.t)
  /\ CASE c.t.kind = "F64" -> c.v = Double
       [] c.t.kind = "I64" -> c.v.n \in Int /\ c.v = Int64(c.v.n)
       [] c.t.kind = "Unit" -> c.v = Bit
       [] c.t.kind = "Nil" -> c.v = Null
       [] OTHER -> /\ c.v.cells \in Seq({c.v.cells[i] : i \in DOMAIN c.v.cells})
                   /\ c.v = Pointer(c.v.cells)
                   /\ c.t.kind = "Tuple" => DOMAIN c.v.cells = DOMAIN c.t.of

\* What it says of the cars.
Element(t, i) == IF t.kind = "List" THEN 1 ELSE i
Parts(c) ==
  {Claim(c.t.of[Element(c.t, i)], c.v.cells[i].car) :
     i \in {j \in DOMAIN c.v.cells : Element(c.t, j) \in DOMAIN c.t.of}}

ASSUME KnownAssumption ==
  \A c \in Known : c = Claim(c.t, c.v) /\ Holds(c) /\ Parts(c) \subseteq Known

\* Nobody can write the type of the empty list.
ASSUME PrototypeAssumption ==
  \A p \in Prototype :
    /\ p.args \in Seq({p.args[i] : i \in DOMAIN p.args})
    /\ \A t \in {p.ret} \cup {p.args[i] : i \in DOMAIN p.args} : Made(t) /\ t.kind # "Nil"
    /\ p.name = "unary" => Len(p.args) = 1
    /\ p.name = "binary" => Len(p.args) = 2

\* Values that a name, a call or an operator of type t may have.
Sample(t) == {c.v : c \in {c \in Known : c.t = t}}

-------------------------------------------------------------------------------
(* Types that go together.                                                 *)

\* Fault: lists of whatever elements are taken for each other.
compare_types_Lists(t1, t2) ==
  {t1.kind, t2.kind} \in {{"Nil", "List"}, {"List"}} \/ t1 = t2

compare_types(t1, t2) == {t1.kind, t2.kind} = {"Nil", "List"} \/ t1 = t2

\* compare_types goes both ways; a list where the empty one is expected is a lapse.
Compatible(expected, found) ==
  /\ compare_types(expected, found)
  /\ expected = Nil /\ found # Nil => "nil" \in Lapses

-------------------------------------------------------------------------------
(* Constructs.                                                             *)

\* A subexpression: what it is as text, as far as checker or generator look at that,
\* its type and its value.
Sub(form, t, v) == [form |-> form, t |-> t, v |-> v]

Init ==
  /\ stack = << >> /\ size = 0
  /\ outcome = ""
  /\ flow = Claim(Unit, Bit)

Arg(k, i) == stack[Len(stack) - k + i]

\* There is room for a construct that has k parts.
Room(k) == outcome = "" /\ size < MaxSize /\ Len(stack) >= k /\ Len(stack) - k < MaxOpen

\* The program stops here, unless it may not do such things.
Stop(how) ==
  /\ outcome' = how
  /\ UNCHANGED <<stack, size, flow>>

Wrong(how, lapse) == lapse \in Lapses /\ Stop(how)

\* The construct takes the place of its k parts; flowed is what went where meanwhile.
PushFlow(k, sub, flowed) ==
  /\ stack' = Append(SubSeq(stack, 1, Len(stack) - k), sub)
  /\ size' = size + 1
  /\ flow' = flowed
  /\ UNCHANGED outcome

Push(k, sub) == PushFlow(k, sub, flow)

Literal ==
  /\ Room(0)
  /\ \/ Push(0, Sub("literal", F64, Double))
     \/ \E n \in Number : Push(0, Sub("literal", I64, Int64(n)))
     \/ Push(0, Sub("unit", Unit, Bit))

Name ==
  /\ Room(0)
  /\ \E x \in DOMAIN Identifier : \E v \in Sample(Identifier[x]) :
       Push(0, Sub("identifier", Identifier[x], v))

\* Fault: a tuple in a tuple or a list gets the tag of a list.
ElementTag_List(a) ==
  CASE a.form \in {"list", "tuple"} -> 0
    [] a.form = "unit" -> 4
    [] OTHER -> IF a.v.llvm = "double" THEN 2 ELSE 3

\* type_to_int sees the LLVM type only: what is no literal gets the tag of a number.
ElementTag(a) ==
  CASE a.form = "list" -> 0
    [] a.form = "tuple" -> 1
    [] a.form = "unit" -> 4
    [] OTHER -> IF a.v.llvm = "double" THEN 2 ELSE 3

\* The first pointer that comes from anything else than a literal is unreachable there.
codegen_pair(form, k, t) ==
  LET args == [i \in 1 .. k |-> Arg(k, i)]
  IN  CASE \E i \in 1 .. k : args[i].v.llvm = "ptr" /\ args[i].form \notin {"list", "tuple"} ->
             Wrong("panicked", "pointer element")
        [] OTHER ->
             /\ \A i \in 1 .. k :
                  /\ args[i].v.llvm = "i1" /\ args[i].form # "unit" => "unit element" \in Lapses
             /\ Push(k, Sub(form, t, Pointer([i \in 1 .. k |-> gc_new(ElementTag(args[i]), args[i].v)])))

\* Fault: the type of the empty list is that of a list of nothing.
Empty_list_Typeless == Room(0) /\ Push(0, Sub("list", [kind |-> "List", of |-> << >>], Null))

Empty_list == Room(0) /\ Push(0, Sub("list", Nil, Null))

Cons_list ==
  \E k \in 1 .. MaxOpen :
    /\ Room(k)
    /\ LET t == Arg(k, 1).t
       IN  IF \A i \in 2 .. k : compare_types(t, Arg(k, i).t)
             THEN /\ \A i \in 2 .. k : Compatible(t, Arg(k, i).t)
                  /\ codegen_pair("list", k, List(t))
             ELSE Stop("rejected")

Cons_tuple ==
  \E k \in 2 .. MaxOpen :
    Room(k) /\ codegen_pair("tuple", k, Tuple([i \in 1 .. k |-> Arg(k, i).t]))

-------------------------------------------------------------------------------
(* The functions on lists.                                                 *)

\* Only the literal () ends a list; another unit is stored where the next cell should be.
codegen_cons ==
  LET head == Arg(2, 1)
      rest == Arg(2, 2)
      cell == gc_new(Tag(head.t), head.v)
  IN  /\ rest.t = Unit /\ rest.form # "unit" => "unit tail" \in Lapses
      /\ Push(2, Sub("other", List(head.t),
                     CASE rest.form = "unit" -> Pointer(<<cell>>)
                       [] rest.form # "unit" /\ rest.v.llvm = "ptr" -> Pointer(<<cell>> \o rest.v.cells)
                       [] OTHER -> Pointer(<<cell, gc_new(0, Wild)>>)))

cons ==
  /\ Room(2)
  /\ LET t == List(Arg(2, 1).t)
         t1 == Arg(2, 2).t
     IN  IF (t1 = Unit \/ compare_types(t, t1)) /\ t1.kind \in {"List", "Unit"}
           THEN codegen_cons
           ELSE Stop("rejected")

car ==
  /\ Room(1)
  /\ LET l == Arg(1, 1)
     IN  CASE l.t.kind # "List" -> Stop("rejected")
           [] l.t.kind = "List" /\ l.v = Null -> Stop("aborted")
           [] OTHER -> Push(1, Sub("other", l.t.of[1], Load(get_type(l.t.of[1]), l.v.cells[1].car)))

cdr ==
  /\ Room(1)
  /\ LET l == Arg(1, 1)
     IN  CASE l.t.kind # "List" -> Stop("rejected")
           [] l.t.kind = "List" /\ l.v = Null -> Stop("aborted")
           [] OTHER -> Push(1, Sub("other", l.t, Pointer(Tail(l.v.cells))))

empty ==
  /\ Room(1)
  /\ IF Arg(1, 1).t.kind \in {"List", "Nil"}
       THEN Push(1, Sub("other", I64, Int64(IF Arg(1, 1).v = Null THEN 1 ELSE 0)))
       ELSE Stop("rejected")

\* Only what begins with an identifier is in a variable.
Projected(form) ==
  CASE form \in {"identifier", "field"} -> "field"
    [] form \in {"temporary field", "deeper field"} -> "deeper field"
    [] OTHER -> "temporary field"

\* gc_proj follows cdrs as long as i < idx: a negative index is the first element.
Place(idx) == IF idx < 0 THEN 1 ELSE idx + 1

\* A field of a tuple is chosen when the program is checked, so its index is a literal.
Projection ==
  /\ Room(2)
  /\ LET val == Arg(2, 1)
         idx == Arg(2, 2)
         n == Place(idx.v.n)
         Of(t) == IF n \in DOMAIN val.v.cells
                    THEN Push(2, Sub(Projected(val.form), t, Load(get_type(t), val.v.cells[n].car)))
                    ELSE Stop("aborted")
     IN  CASE idx.t # I64 \/ val.t.kind \notin {"Tuple", "List", "Nil"} -> Stop("rejected")
           [] idx.t = I64 /\ val.t.kind = "List" -> Of(val.t.of[1])
           [] idx.t = I64 /\ val.t.kind = "Nil" -> Of(Nil)
           [] idx.t = I64 /\ val.t.kind = "Tuple" ->
                CASE idx.form # "literal" -> Wrong("panicked", "tuple index")
                  [] idx.form = "literal" /\ idx.v.n + 1 \notin DOMAIN val.t.of -> Stop("rejected")
                  [] OTHER -> Of(val.t.of[idx.v.n + 1])

-------------------------------------------------------------------------------
(* Operators.                                                              *)

Floats(l, r) == l.v.llvm = "double" /\ r.v.llvm = "double"
Integral(llvm) == llvm \in {"i64", "i1"}
Ints(l, r) == Integral(l.v.llvm) /\ Integral(r.v.llvm)

\* Fault: the types of the operands are not compared.
Arithmetic_Unchecked ==
  /\ Room(2)
  /\ LET l == Arg(2, 1)
         r == Arg(2, 2)
     IN  CASE l.v.llvm = "ptr" /\ r.v.llvm = "ptr" -> Wrong("failed", "pointer operand")
           [] Floats(l, r) \/ Ints(l, r) ->
                \E t \in {l.t, I64} : \E v \in Sample(t) : Push(2, Sub("other", t, v))
           [] OTHER -> Stop("failed")

\* + - * and <; the result is an integer for <.  Any two values of one type will do for
\* the checker, even two lists or tuples.
Arithmetic ==
  /\ Room(2)
  /\ LET l == Arg(2, 1)
         r == Arg(2, 2)
     IN  CASE ~compare_types(l.t, r.t) -> Stop("rejected")
           [] compare_types(l.t, r.t) /\ l.v.llvm = "ptr" -> Wrong("failed", "pointer operand")
           [] OTHER ->
                IF Floats(l, r) \/ Ints(l, r)
                  THEN \E t \in {l.t, I64} : \E v \in Sample(t) : Push(2, Sub("other", t, v))
                  ELSE Stop("failed")

\* The arguments at the top of the stack suit the prototype.
Suits(p) ==
  LET k == Len(p.args) IN \A i \in 1 .. k : compare_types(Arg(k, i).t, p.args[i])

\* The call of p; one of the arguments is the one that flow is about.
Called(p, k) ==
  \E v \in Sample(p.ret) : \E flowed \in {Claim(p.args[i], Arg(k, i).v) : i \in 1 .. k}
                                         \cup IF k = 0 THEN {flow} ELSE {} :
    PushFlow(k, Sub("other", p.ret, v), flowed)

\* binary operators: the result must be of the sort of the operands.
User_binary ==
  \E p \in Prototype :
    /\ p.name = "binary" /\ Room(2)
    /\ LET l == Arg(2, 1)
           r == Arg(2, 2)
       IN  CASE ~Suits(p) -> Stop("rejected")
             [] Suits(p) /\ Floats(l, r) ->
                  IF p.ret = F64 THEN Called(p, 2) ELSE Wrong("panicked", "operator result")
             [] Suits(p) /\ Ints(l, r) ->
                  IF Integral(get_type(p.ret)) THEN Called(p, 2)
                  ELSE Wrong("panicked", "operator result")
             [] OTHER -> Wrong("failed", "pointer operand")

User_unary ==
  \E p \in Prototype :
    /\ p.name = "unary" /\ Room(1)
    /\ CASE ~Suits(p) -> Stop("rejected")
         [] Suits(p) /\ Arg(1, 1).v.llvm = "ptr" -> Wrong("failed", "pointer operand")
         [] OTHER -> Called(p, 1)

Call ==
  \E p \in Prototype :
    /\ p.name \notin {"unary", "binary"} /\ Room(Len(p.args))
    /\ IF Suits(p) THEN Called(p, Len(p.args)) ELSE Stop("rejected")

\* An assignment to what is neither a name nor a field is unreachable in the checker,
\* which looks at the last two projections; the generator looks for the name.
Assign ==
  /\ Room(2)
  /\ LET left == Arg(2, 1)
         right == Arg(2, 2)
     IN  CASE left.form \notin {"identifier", "field", "temporary field", "deeper field"} ->
                Wrong("panicked", "no variable")
           [] left.form = "temporary field" -> Stop("rejected")
           [] left.form = "deeper field" /\ compare_types(left.t, right.t) ->
                Wrong("panicked", "temporary")
           [] left.form \in {"identifier", "field"} /\ compare_types(left.t, right.t) ->
                /\ Compatible(left.t, right.t)
                /\ PushFlow(2, Sub("other", Unit, Bit), Claim(left.t, right.v))
           [] OTHER -> Stop("rejected")

-------------------------------------------------------------------------------
(* Control.                                                                *)

\* The type is that of the first branch, the value that of either.
IfThenElse ==
  /\ Room(3)
  /\ LET cond == Arg(3, 1)
         fst == Arg(3, 2)
         snd == Arg(3, 3)
     IN  IF cond.t \in {I64, F64} /\ compare_types(fst.t, snd.t)
           THEN /\ Compatible(fst.t, snd.t)
                /\ \E v \in {fst.v, snd.v} : Push(3, Sub("other", fst.t, v))
           ELSE Stop("rejected")

\* start, end and body, or start, end, step and body.
ForLoop ==
  \E k \in {3, 4} :
    /\ Room(k)
    /\ LET start == Arg(k, 1)
       IN  CASE Arg(k, 2).t # I64 \/ (k = 4 /\ ~compare_types(Arg(k, 3).t, start.t)) ->
                  Stop("rejected")
             [] start.v.llvm = "ptr" /\ Arg(k, 2).t = I64
                  /\ (k = 4 => compare_types(Arg(k, 3).t, start.t)) ->
                  Wrong("panicked", "pointer loop")
             [] OTHER -> Push(k, Sub("other", Unit, Bit))

Sequence ==
  /\ Room(2)
  /\ IF Arg(2, 1).t = Unit THEN Push(2, Sub("other", Arg(2, 2).t, Arg(2, 2).v))
                           ELSE Stop("rejected")

-------------------------------------------------------------------------------
(* The whole expression.                                                   *)

Complete == outcome = "" /\ Len(stack) = 1

\* The body of a function with a declared result.
Return ==
  /\ Complete
  /\ \E p \in Prototype :
       IF compare_types(p.ret, stack[1].t)
         THEN /\ outcome' = "returned"
              /\ flow' = Claim(p.ret, stack[1].v)
              /\ UNCHANGED <<stack, size>>
         ELSE Stop("rejected")

Next ==
  \/ Literal \/ Name \/ Empty_list \/ Cons_list \/ Cons_tuple
  \/ cons \/ car \/ cdr \/ empty \/ Projection
  \/ Arithmetic \/ User_binary \/ User_unary \/ Call \/ Assign
  \/ IfThenElse \/ ForLoop \/ Sequence
  \/ Return

Spec == Init /\ [][Next]_vars

-------------------------------------------------------------------------------
(* Correctness.                                                            *)

TypeOK ==
  /\ \A i \in DOMAIN stack :
       /\ stack[i].form \in {"literal", "unit", "identifier", "list", "tuple", "field",
                             "temporary field", "deeper field", "other"}
       /\ Made(stack[i].t)
  /\ size \in 0 .. MaxSize
  /\ outcome \in {"", "rejected", "failed", "panicked", "aborted", "returned"}

\* A claim and those that follow for the cars, for the cars of these, and so on: five
\* times, as no value of the model-checked instance is deeper.
Fits1(c) == Holds(c) /\ \A d \in Parts(c) : Holds(d)
Fits2(c) == Holds(c) /\ \A d \in Parts(c) : Fits1(d)
Fits3(c) == Holds(c) /\ \A d \in Parts(c) : Fits2(d)
Fits4(c) == Holds(c) /\ \A d \in Parts(c) : Fits3(d)
Fits5(c) == Holds(c) /\ \A d \in Parts(c) : Fits4(d)

\* What a type says is what there is when the program runs: every value computed, and
\* every value that goes to a variable, a field, a parameter or a result, is one of the
\* type the checker gave to its expression, down to the elements of lists in tuples in
\* lists.  What the generator loads, with the type the checker noted, is what was stored
\* (codegen.rs:64-84, 871-888, 1056-1066; type_checking.rs:8-90, 286-567).
ValuesFit ==
  /\ \A i \in DOMAIN stack : Fits5(Claim(stack[i].t, stack[i].v))
  /\ Fits5(flow)

\* What the checker accepts, the generator can generate; neither of them panics.
Generated == outcome \notin {"failed", "panicked"}

\* unreachable!() (codegen.rs:90) and the like are unreachable.
Unreachable == outcome # "panicked"
===============================================================================
