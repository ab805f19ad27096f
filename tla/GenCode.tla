------------------------------- MODULE GenCode --------------------------------
(***************************************************************************)
(* How generated code keeps its pointers while it evaluates expressions      *)
(* (llvm/codegen.rs).  A value lives in a register from the instruction that *)
(* produces it to the one that consumes it; only allocas of pointer type,     *)
(* those of variables and the aux_alloca of a literal, are roots of the       *)
(* collector.  A collection can happen in any gc_new.                         *)
(*                                                                         *)
(* A behavior evaluates one top-level expression after another, each chosen  *)
(* as it goes: todo holds the constructs that have been entered and not left, *)
(* outermost first, across function calls.                                   *)
(***************************************************************************)
EXTENDS Heap, FiniteSets

CONSTANTS
  MaxOpen,    \* bound: constructs open at a time, function bodies not counted
  MaxRoots,   \* bound: roots of a frame
  MaxFrames,  \* bound: frames on the shadow stack
  MaxArgs,    \* bound: arguments of a call
  Lapses      \* what the program may do that the generated code does not protect

ASSUME BoundsAssumption == {MaxOpen, MaxRoots, MaxFrames, MaxArgs} \subseteq Nat
ASSUME NoneAssumption == None \notin Object
ASSUME LapsesAssumption == Lapses \subseteq {"result", "nested", "reassigned"}

VARIABLES
  todo,  \* the open constructs, with what each keeps in registers
  val,   \* the value of the expression just evaluated, None before there is one
  from   \* where a pointer comes from: a "literal" as it stands, something else that
         \* was "built", what was "read" from a variable or a cell, the "result" of a call

vars == <<obj, roots, todo, val, from>>

\* op: the construct.  regs: the values it keeps.  slot: the root it is about, 0 if
\* none.  got: where the pointers among regs come from.
Construct(op, slot) == [op |-> op, regs |-> << >>, slot |-> slot, got |-> {}]

Top == todo[Len(todo)]
Below == SubSeq(todo, 1, Len(todo) - 1)
WithTop(t) == Append(Below, t)
Frame == roots[1]

\* The next subexpression of the innermost construct is to be evaluated, or has been.
Evaluate == todo # << >> /\ val = None
Evaluated(op) == todo # << >> /\ val # None /\ Top.op = op

Produce(v, origin) ==
  /\ val' = v
  /\ from' = IF v \in Cell \/ (v = Null /\ origin = "literal") THEN origin ELSE "built"
NoValue == val' = None /\ from' = "built"

Init ==
  /\ obj = [c \in Cell |-> None]
  /\ roots = << >>
  /\ todo = << >> /\ val = None /\ from = "built"

\* The anonymous function of a top-level expression.
Start ==
  /\ todo = << >>
  /\ roots' = << << >> >>
  /\ todo' = << Construct("body", 0) >>
  /\ UNCHANGED <<obj, val, from>>

-------------------------------------------------------------------------------
(* Expressions without subexpressions.                                     *)

\* Numbers and unit; the empty list.
Literal(v) ==
  /\ Evaluate
  /\ Produce(v, "literal")
  /\ UNCHANGED <<obj, roots, todo>>

\* The constructs of the function that is running.
Own == {k \in DOMAIN todo : \A j \in k + 1 .. Len(todo) : todo[j].op # "body"}

\* The roots that have a name: the parameters and the variables in scope.
Named ==
  UNION {IF todo[k].op = "body" THEN 1 .. todo[k].slot
         ELSE IF todo[k].op = "in" THEN {todo[k].slot} ELSE {} : k \in Own}

Identifier(s) ==
  /\ Evaluate
  /\ Produce(Frame[s], "read")
  /\ UNCHANGED <<obj, roots, todo>>

-------------------------------------------------------------------------------
(* Entering a construct.                                                   *)

Open(t) ==
  /\ Evaluate
  /\ Len(todo) - Len(roots) < MaxOpen
  /\ todo' = Append(todo, t)
  /\ UNCHANGED <<obj, roots, val, from>>

\* The second argument of cons, where another cons is compiled without a root.
Tail_of_cons == Top.op \in {"cons", "nested"} /\ Top.regs # << >>

\* A tuple or list literal, a call of a function, of an accessor (car, cdr, a
\* projection), a var, a sequence.  The condition of an if, the operands of an operator
\* and a variable that is no pointer are scalars: for the roots these are sequences.
Enter(op) == Evaluate /\ (op = "cons" => ~Tail_of_cons) /\ Open(Construct(op, 0))

EnterNested == Evaluate /\ Tail_of_cons /\ Open(Construct("nested", 0))

\* A loop runs its body again on the same allocas: those made so far are kept.
EnterFor == Evaluate /\ Open(Construct("for", Len(Frame)))

EnterAssign(s) == Open(Construct("assign", s))

\* The cells that gc_proj can come to from the pointer p.
Row(p) ==
  {c \in Cell : \A S \in SUBSET Cell :
     ({p} \cap Cell) \subseteq S /\ (\A d \in S : obj[d] # None => {obj[d].cdr} \cap Cell \subseteq S)
       => c \in S}

\* x[i] = e: after i, x is loaded and the address of the field computed; then come
\* the index of a field of that field, or e.
EnterStore(s, c) ==
  /\ c \in Row(Frame[s])
  /\ Open([Construct("store", 0) EXCEPT !.regs = <<c>>, !.got = {"read"}])

-------------------------------------------------------------------------------
(* gc_new, and the stores that follow it before any other code runs.       *)

\* A call's result that is in a register only.
HoldsResult ==
  \/ from = "result" /\ val \in Cell
  \/ \E k \in DOMAIN todo : "result" \in todo[k].got

\* A cell of a nested cons that is not linked yet.
HalfNested == \E k \in DOMAIN todo : todo[k].op = "nested" /\ todo[k].regs # << >>

\* A call of gc_new: it may collect.
MayCollect ==
  /\ HoldsResult => "result" \in Lapses
  /\ HalfNested => "nested" \in Lapses

\* The heap gc_new takes a cell from: as it is, or after a collection.
Swept == [c \in Cell |-> IF Garbage(c) THEN None ELSE obj[c]]

\* The cell c for the element or head just evaluated, in the heap h.
GcNew(h, c) ==
  /\ MayCollect
  /\ h[c] = None
  /\ obj' = [h EXCEPT ![c] = Fresh(val \in Pointer, val)]
  /\ NoValue

\* An element that is a pointer must be a literal itself: on any other expression of
\* pointer type the generator panics (type_to_int).
Element == Evaluated("pair") /\ (val \in Pointer => from = "literal")

\* create_entry_block_alloca for a pointer, and the store into it.
NewRoot(v) == Len(Frame) < MaxRoots /\ roots' = [roots EXCEPT ![1] = Append(@, v)]

\* Fault: no aux_alloca.
Pair_first_NoRoot(h, c) ==
  /\ Element /\ Top.regs = << >>
  /\ GcNew(h, c)
  /\ todo' = WithTop([Top EXCEPT !.regs = <<c, c>>])
  /\ UNCHANGED roots

\* The first cell of a literal goes to its aux_alloca, the registers keep the cell
\* and the last one so far.
Pair_first(h, c) ==
  /\ Element /\ Top.regs = << >>
  /\ GcNew(h, c)
  /\ NewRoot(c)
  /\ todo' = WithTop([Top EXCEPT !.regs = <<c, c>>])

\* Each other cell is linked to the last as soon as it is there.
Pair_next(h, c) ==
  /\ Element /\ Top.regs # << >>
  /\ MayCollect
  /\ h[c] = None /\ h[Top.regs[2]] # None
  /\ obj' = [h EXCEPT ![c] = Fresh(val \in Pointer, val), ![Top.regs[2]].cdr = c]
  /\ todo' = WithTop([Top EXCEPT !.regs[2] = c])
  /\ NoValue
  /\ UNCHANGED roots

\* The outermost of nested conses has an aux_alloca.
Cons_first(h, c) ==
  /\ Evaluated("cons") /\ Top.regs = << >>
  /\ GcNew(h, c)
  /\ NewRoot(c)
  /\ todo' = WithTop([Top EXCEPT !.regs = <<c>>])

Cons_nested(h, c) ==
  /\ Evaluated("nested") /\ Top.regs = << >>
  /\ GcNew(h, c)
  /\ todo' = WithTop([Top EXCEPT !.regs = <<c>>])
  /\ UNCHANGED roots

-------------------------------------------------------------------------------
(* Completing a construct, or one of its subexpressions.                   *)

\* The end of a literal: a null cdr.
Pair_end ==
  /\ Evaluate /\ Top.op = "pair" /\ Top.regs # << >>
  /\ obj[Top.regs[2]] # None
  /\ obj' = [obj EXCEPT ![Top.regs[2]].cdr = Null]
  /\ todo' = Below
  /\ Produce(Top.regs[1], "literal")
  /\ UNCHANGED roots

\* The cell of a cons is complete only when its tail is.
Cons_end ==
  /\ Evaluated("cons") \/ Evaluated("nested")
  /\ Top.regs # << >> /\ val \in Pointer
  /\ obj[Top.regs[1]] # None
  /\ obj' = [obj EXCEPT ![Top.regs[1]].cdr = val]
  /\ todo' = Below
  /\ Produce(Top.regs[1], "built")
  /\ UNCHANGED roots

\* The arguments of a call wait in registers for each other.
Argument ==
  /\ Evaluated("call")
  /\ Len(Top.regs) < MaxArgs
  /\ todo' = WithTop([Top EXCEPT !.regs = Append(@, val),
                                 !.got = IF val \in Cell THEN @ \cup {from} ELSE @])
  /\ NoValue
  /\ UNCHANGED <<obj, roots>>

\* The pointers among the values in registers, in their order.
Pointers(regs) ==
  LET at == {j \in DOMAIN regs : regs[j] # Scalar}
      Nth(i) == CHOOSE j \in at : Cardinality({h \in at : h <= j}) = i
  IN  [i \in 1 .. Cardinality(at) |-> regs[Nth(i)]]

\* Fault: the allocas of the parameters are no roots.
Invoke_NoRoots ==
  /\ Evaluate /\ Top.op = "call"
  /\ Len(roots) < MaxFrames
  /\ LET args == Pointers(Top.regs)
     IN  /\ roots' = << [k \in DOMAIN args |-> Null] >> \o roots
         /\ todo' = Append(WithTop([Top EXCEPT !.got = {}]), Construct("body", Len(args)))
  /\ UNCHANGED <<obj, val, from>>

\* Prologue and entry of the callee: a frame, whose first roots are the pointers
\* among the parameters.
Invoke ==
  /\ Evaluate /\ Top.op = "call"
  /\ Len(roots) < MaxFrames
  /\ LET args == Pointers(Top.regs)
     IN  /\ roots' = <<args>> \o roots
         /\ todo' = Append(WithTop(Construct("call", 0)), Construct("body", Len(args)))
  /\ UNCHANGED <<obj, val, from>>

\* Fault: no gc_pop after a call.
Return_NoPop ==
  /\ Evaluated("body")
  /\ roots' = IF Len(todo) = 1 THEN Tail(roots) ELSE roots
  /\ IF Len(todo) = 1 THEN todo' = << >> /\ NoValue
                      ELSE todo' = SubSeq(todo, 1, Len(todo) - 2) /\ Produce(val, "result")
  /\ UNCHANGED obj

\* Epilogue: gc_pop, then the return of a value in a register.  The result of a
\* top-level expression is printed.
Return ==
  /\ Evaluated("body")
  /\ roots' = Tail(roots)
  /\ IF Len(todo) = 1 THEN todo' = << >> /\ NoValue
                      ELSE todo' = SubSeq(todo, 1, Len(todo) - 2) /\ Produce(val, "result")
  /\ UNCHANGED obj

\* car and cdr; on a null pointer the program aborts.
Load(w) ==
  /\ Evaluated("load") /\ Top.regs = << >>
  /\ val \in Cell /\ obj[val] # None
  /\ w \in {obj[val].car, obj[val].cdr} \ {None}
  /\ todo' = Below
  /\ Produce(w, IF from = "result" THEN "result" ELSE "read")
  /\ UNCHANGED <<obj, roots>>

\* A projection evaluates its index after the pointer.
Projected ==
  /\ Evaluated("load") /\ Top.regs = << >>
  /\ val \in Cell
  /\ todo' = WithTop([Top EXCEPT !.regs = <<val>>, !.got = {from}])
  /\ NoValue
  /\ UNCHANGED <<obj, roots>>

Projection(c) ==
  /\ Evaluated("load") /\ Top.regs # << >> /\ val = Scalar
  /\ c \in Row(Top.regs[1]) /\ obj[c] # None
  /\ todo' = Below
  /\ Produce(obj[c].car, IF "result" \in Top.got THEN "result" ELSE "read")
  /\ UNCHANGED <<obj, roots>>

\* var x = e: the value goes to the alloca of x, a root as it is a pointer.
Initialise ==
  /\ Evaluated("var")
  /\ val \in Pointer
  /\ NewRoot(val)
  /\ todo' = WithTop(Construct("in", Len(Frame) + 1))
  /\ NoValue
  /\ UNCHANGED obj

\* Pointers read from variables or cells that wait in registers below the top.
Waiting == \E k \in 1 .. Len(todo) - 1 : "read" \in todo[k].got

Assign ==
  /\ Evaluated("assign")
  /\ val \in Pointer
  /\ Waiting => "reassigned" \in Lapses
  /\ roots' = [roots EXCEPT ![1][Top.slot] = val]
  /\ todo' = Below
  /\ Produce(Scalar, "built")
  /\ UNCHANGED obj

\* The address of a field of a field.
Deeper(c) ==
  /\ Evaluated("store") /\ val = Scalar
  /\ obj[Top.regs[1]] # None /\ obj[Top.regs[1]].is_pointer
  /\ c \in Row(obj[Top.regs[1]].car)
  /\ todo' = WithTop([Top EXCEPT !.regs = <<c>>])
  /\ NoValue
  /\ UNCHANGED <<obj, roots>>

\* The store into a field, of a word of the same kind.
Store ==
  /\ Evaluated("store")
  /\ Waiting => "reassigned" \in Lapses
  /\ obj[Top.regs[1]] # None
  /\ obj[Top.regs[1]].is_pointer <=> val \in Pointer
  /\ obj' = [obj EXCEPT ![Top.regs[1]].car = val]
  /\ todo' = Below
  /\ Produce(Scalar, "built")
  /\ UNCHANGED roots

\* The value of a sequence, of a var, is that of its last expression.
Last ==
  /\ Evaluated("seq") \/ Evaluated("in")
  /\ todo' = Below
  /\ Produce(val, IF from = "literal" THEN "built" ELSE from)
  /\ UNCHANGED <<obj, roots>>

Discard ==
  /\ Evaluated("seq")
  /\ NoValue
  /\ UNCHANGED <<obj, roots, todo>>

\* The next iteration of a loop: nothing is known any more of the roots that its body
\* made in this one.
Iterate ==
  /\ Evaluated("for")
  /\ roots' = [roots EXCEPT ![1] = SubSeq(@, 1, Top.slot)]
  /\ NoValue
  /\ UNCHANGED <<obj, todo>>

Loop_end ==
  /\ Evaluated("for")
  /\ todo' = Below
  /\ Produce(Scalar, "built")
  /\ UNCHANGED <<obj, roots>>

-------------------------------------------------------------------------------
Next ==
  \/ Start \/ Literal(Scalar) \/ Literal(Null)
  \/ \E op \in {"pair", "cons", "call", "load", "var", "seq"} : Enter(op)
  \/ EnterNested \/ EnterFor
  \/ \E s \in Named : \/ Identifier(s) \/ EnterAssign(s)
                      \/ \E c \in Cell : EnterStore(s, c)
  \/ \E h \in {obj, Swept}, c \in Cell :
       Pair_first(h, c) \/ Pair_next(h, c) \/ Cons_first(h, c) \/ Cons_nested(h, c)
  \/ \E w \in Pointer \cup {Scalar} : Load(w)
  \/ Projected \/ \E c \in Cell : Projection(c) \/ Deeper(c)
  \/ Pair_end \/ Cons_end \/ Argument \/ Invoke \/ Return
  \/ Initialise \/ Assign \/ Store \/ Last \/ Discard \/ Iterate \/ Loop_end

Spec == Init /\ [][Next]_vars

-------------------------------------------------------------------------------
(* Correctness.                                                            *)

TypeOK ==
  /\ obj \in [Cell -> Object \cup {None}]
  /\ roots \in Seq(Seq(Pointer))
  /\ todo \in Seq([op : {"body", "pair", "cons", "nested", "call", "load", "var", "in", "seq",
                         "for", "assign", "store"},
                   regs : Seq(Pointer \cup {Scalar}), slot : Nat,
                   got : SUBSET {"literal", "built", "read", "result"}])
  /\ val \in Pointer \cup {Scalar, None}
  /\ from \in {"literal", "built", "read", "result"}
  /\ Len(roots) = Cardinality({k \in DOMAIN todo : todo[k].op = "body"})

\* What the code still has in registers.
InRegisters ==
  Cell \cap ({val} \cup UNION {{todo[k].regs[j] : j \in DOMAIN todo[k].regs} : k \in DOMAIN todo})

\* The roots that the code makes are enough: whatever it still has in a register, in
\* a variable, or reaches from there, has not been given away by a collection, at
\* every point of every expression that avoids the three lapses (codegen_pair,
\* codegen_cons, calls; codegen.rs:320-569, 853-894).
NothingLost == \A c \in Reach(InRegisters \cup Rooted) : obj[c] # None

\* What expressions and variables have for a value.
Visible ==
  Cell \cap ({val} \cup (IF todo = << >> THEN {} ELSE {Frame[s] : s \in Named})
                   \cup UNION {{todo[k].regs[j] : j \in DOMAIN todo[k].regs} :
                                 k \in {l \in DOMAIN todo : todo[l].op = "call"}})

\* No value shows a cell that is not complete, and the cdrs of every value end: the
\* loops of gc_proj and print_cons stop (gc.c:123-130, codegen.rs:1420).
ListsEnd ==
  LET seen == Reach(Visible)
  IN  /\ \A c \in seen : obj[c] # None => obj[c].cdr # None
      /\ \A S \in (SUBSET seen) \ {{}} : \E c \in S : obj[c] = None \/ obj[c].cdr \notin S
===============================================================================
