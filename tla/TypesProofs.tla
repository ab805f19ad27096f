------------------------------ MODULE TypesProofs ------------------------------
(***************************************************************************)
(* What the checker accepts is generated, and computes values of the types     *)
(* that the checker gave (Types!Generated, Types!ValuesFit).                  *)
(*                                                                         *)
(* That a value is of a type is a matter of its cells, of their cells, and so *)
(* on.  Instead of a definition by recursion over values the invariant has a  *)
(* set R of claims with which all that follow for the cars are made: whoever  *)
(* builds a value adds one claim, and whoever reads from it finds the claim   *)
(* for what was read.                                                      *)
(***************************************************************************)
EXTENDS Types, SequenceTheorems, TLAPS

\* What may give an expression a value that is not of its type.
Mistyping == {"nil", "unit tail"}

\* What the generator cannot generate though the checker accepts it.
Failing == {"pointer element", "pointer operand", "operator result", "pointer loop",
            "tuple index", "no variable", "temporary"}

\* The claims of R are true.
Closed(R) == \A c \in R : c = Claim(c.t, c.v) /\ Holds(c) /\ Parts(c) \subseteq R

Forms == {"literal", "unit", "identifier", "list", "tuple", "field",
          "temporary field", "deeper field", "other"}

\* Subexpressions of which R makes claims; an integer literal has no sign.
Subs(R) == {s \in {Sub(f, c.t, c.v) : f \in Forms, c \in R} : s.form = "literal" => s.v.n \in Nat}

TypesInv(R) ==
  /\ Closed(R) /\ Known \subseteq R
  /\ stack \in Seq(Subs(R)) /\ flow \in R
  /\ size \in 0 .. MaxSize
  /\ \/ outcome \in {"", "rejected", "aborted", "returned"}
     \/ outcome \in {"failed", "panicked"} /\ Lapses \cap Failing # {}

SoundInv == \E R : TypesInv(R)

-------------------------------------------------------------------------------
(* Claims.                                                                 *)

\* Records, taken apart.
LEMMA Fields ==
  /\ \A t, v : Claim(t, v).t = t /\ Claim(t, v).v = v
  /\ \A f, t, v : Sub(f, t, v).form = f /\ Sub(f, t, v).t = t /\ Sub(f, t, v).v = v
  /\ \A c : Pointer(c).llvm = "ptr" /\ Pointer(c).n = 0 /\ Pointer(c).cells = c
  /\ \A tag, w : gc_new(tag, w).car = w
  /\ \A n : Int64(n).llvm = "i64" /\ Int64(n).n = n /\ Int64(n).cells = << >>
  /\ Double.llvm = "double" /\ Double.n = 0 /\ Double.cells = << >>
  /\ Bit.llvm = "i1" /\ Bit.n = 0 /\ Bit.cells = << >>
  /\ Null = Pointer(<< >>)
BY DEF Claim, Sub, Pointer, Value, gc_new, Int64, Double, Bit, Null

LEMMA Type_fields ==
  /\ F64.kind = "F64" /\ I64.kind = "I64" /\ Unit.kind = "Unit" /\ Nil.kind = "Nil"
  /\ F64.of = << >> /\ I64.of = << >> /\ Unit.of = << >> /\ Nil.of = << >>
  /\ \A t : List(t).kind = "List" /\ List(t).of = <<t>>
  /\ \A ts : Tuple(ts).kind = "Tuple" /\ Tuple(ts).of = ts
BY DEF F64, I64, Unit, Nil, Scalar, List, Tuple

\* A sequence is one of what is in it.
LEMMA Own ==
  ASSUME NEW S, NEW s \in Seq(S)
  PROVE  s \in Seq({s[i] : i \in DOMAIN s}) /\ DOMAIN s = 1 .. Len(s) /\ Len(s) \in Nat
<1>1. Len(s) \in Nat /\ DOMAIN s = 1 .. Len(s)
  BY LenProperties
<1>2. \A i \in 1 .. Len(s) : s[i] \in {s[j] : j \in DOMAIN s}
  BY <1>1
<1> DEFINE X == {s[j] : j \in DOMAIN s}
<1> HIDE DEF X
<1>3. \A i \in 1 .. Len(s) : s[i] \in X
  BY <1>2 DEF X
<1>4. SubSeq(s, 1, Len(s)) \in Seq(X)
  BY <1>1, <1>3, SubSeqProperties
<1>5. SubSeq(s, 1, Len(s)) = s
  BY SubSeqFull
<1> QED BY <1>1, <1>4, <1>5 DEF X

LEMMA Scalars_made == Made(F64) /\ Made(I64) /\ Made(Unit) /\ Made(Nil)
BY DEF Made, F64, I64, Unit, Nil, Scalar

LEMMA List_made ==
  ASSUME NEW t
  PROVE  Made(List(t))
<1>1. <<t>> \in Seq({t}) /\ Len(<<t>>) = 1
  OBVIOUS
<1>2. <<t>> \in Seq({<<t>>[i] : i \in DOMAIN <<t>>})
  BY <1>1, Own
<1> QED BY <1>1, <1>2, Type_fields DEF Made, List

LEMMA Tuple_made ==
  ASSUME NEW S, NEW ts \in Seq(S)
  PROVE  Made(Tuple(ts))
<1>1. ts \in Seq({ts[i] : i \in DOMAIN ts})
  BY Own
<1> QED BY <1>1, Type_fields DEF Made, Tuple

\* Only the empty list is of the type Nil.
LEMMA Nil_only ==
  ASSUME NEW t, Made(t), t.kind = "Nil"
  PROVE  t = Nil
<1>1. t.of \in Seq({t.of[i] : i \in DOMAIN t.of}) /\ Len(t.of) = 0
  BY DEF Made
<1>2. t.of = << >>
  BY <1>1, EmptySeq
<1> QED BY <1>2 DEF Made, Nil, Scalar

\* What goes where a type t is expected: a list where t is one may be the empty one.
LEMMA Goes ==
  ASSUME NEW R, Closed(R), NEW f, NEW v, Claim(f, v) \in R, NEW t, Made(t),
         t = f \/ (t.kind = "List" /\ f.kind = "Nil")
  PROVE  Holds(Claim(t, v)) /\ Parts(Claim(t, v)) \subseteq R
<1>1. CASE t = f
  BY <1>1 DEF Closed
<1>2. CASE t.kind = "List" /\ f.kind = "Nil"
  <2>1. Holds(Claim(f, v))
    BY DEF Closed
  <2>2. v = Null
    BY <1>2, <2>1, Fields DEF Holds
  <2>3. v.cells = << >> /\ v = Pointer(v.cells)
    BY <2>2, Fields
  <2>4. v.cells \in Seq({v.cells[i] : i \in DOMAIN v.cells})
    BY <2>3, EmptySeq
  <2>5. Holds(Claim(t, v))
    <3> DEFINE c == Claim(t, v)
    <3>1. c.t = t /\ c.v = v
      BY Fields
    <3> HIDE DEF c
    <3>2. Holds(c)
      BY <1>2, <2>3, <2>4, <3>1 DEF Holds
    <3> QED BY <3>2 DEF c
  <2>6. DOMAIN v.cells = {}
    BY <2>3
  <2>7. Parts(Claim(t, v)) = {}
    BY <2>6, Fields DEF Parts
  <2> QED BY <2>5, <2>7
<1> QED BY <1>1, <1>2

\* Scalars, and the null pointer of type Nil, are what they are.
LEMMA Plain ==
  /\ Holds(Claim(F64, Double)) /\ Parts(Claim(F64, Double)) = {}
  /\ \A n \in Int : Holds(Claim(I64, Int64(n))) /\ Parts(Claim(I64, Int64(n))) = {}
  /\ Holds(Claim(Unit, Bit)) /\ Parts(Claim(Unit, Bit)) = {}
  /\ Holds(Claim(Nil, Null)) /\ Parts(Claim(Nil, Null)) = {}
<1>1. \A t, v : v.cells = << >> => Parts(Claim(t, v)) = {}
  <2>1. TAKE t, v
  <2>2. HAVE v.cells = << >>
  <2>3. DOMAIN v.cells = {}
    BY <2>2
  <2> QED BY <2>3, Fields DEF Parts
<1>2. Holds(Claim(F64, Double))
  BY Fields, Type_fields, Scalars_made DEF Holds
<1>3. \A n \in Int : Holds(Claim(I64, Int64(n)))
  BY Fields, Type_fields, Scalars_made DEF Holds
<1>4. Holds(Claim(Unit, Bit))
  BY Fields, Type_fields, Scalars_made DEF Holds
<1>5. Holds(Claim(Nil, Null))
  BY Fields, Type_fields, Scalars_made DEF Holds
<1> QED BY <1>1, <1>2, <1>3, <1>4, <1>5, Fields

\* A list of cells whose cars are of one type.
LEMMA List_claim ==
  ASSUME NEW R, NEW t, NEW S, NEW cells \in Seq(S),
         \A i \in 1 .. Len(cells) : Claim(t, cells[i].car) \in R
  PROVE  /\ Holds(Claim(List(t), Pointer(cells)))
         /\ Parts(Claim(List(t), Pointer(cells))) \subseteq R
<1> DEFINE c == Claim(List(t), Pointer(cells))
<1>1. c.t = List(t) /\ c.t.kind = "List" /\ c.t.of = <<t>> /\ c.v = Pointer(cells) /\ c.v.cells = cells
  BY Fields, Type_fields
<1>2. cells \in Seq({cells[i] : i \in DOMAIN cells}) /\ DOMAIN cells = 1 .. Len(cells)
  BY Own
<1>3. Made(List(t))
  BY List_made
<1> HIDE DEF c
<1>4. Holds(c)
  BY <1>1, <1>2, <1>3 DEF Holds
<1>5. ASSUME NEW d \in Parts(c)
      PROVE  d \in R
  <2>1. PICK i \in DOMAIN c.v.cells : d = Claim(c.t.of[Element(c.t, i)], c.v.cells[i].car)
    BY <1>5 DEF Parts
  <2>2. i \in 1 .. Len(cells) /\ Element(c.t, i) = 1 /\ c.t.of[1] = t
    BY <1>1, <1>2, <2>1 DEF Element
  <2> QED BY <1>1, <2>1, <2>2
<1> QED BY <1>4, <1>5 DEF c

\* A tuple of cells whose cars are of the types of its elements.
LEMMA Tuple_claim ==
  ASSUME NEW R, NEW T, NEW ts \in Seq(T), NEW S, NEW cells \in Seq(S), Len(ts) = Len(cells),
         \A i \in 1 .. Len(cells) : Claim(ts[i], cells[i].car) \in R
  PROVE  /\ Holds(Claim(Tuple(ts), Pointer(cells)))
         /\ Parts(Claim(Tuple(ts), Pointer(cells))) \subseteq R
<1> DEFINE c == Claim(Tuple(ts), Pointer(cells))
<1>1. c.t = Tuple(ts) /\ c.t.kind = "Tuple" /\ c.t.of = ts /\ c.v = Pointer(cells) /\ c.v.cells = cells
  BY Fields, Type_fields
<1>2. /\ cells \in Seq({cells[i] : i \in DOMAIN cells}) /\ DOMAIN cells = 1 .. Len(cells)
      /\ DOMAIN ts = 1 .. Len(ts)
  BY Own
<1>3. Made(Tuple(ts))
  BY Tuple_made
<1> HIDE DEF c
<1>4. Holds(c)
  BY <1>1, <1>2, <1>3 DEF Holds
<1>5. ASSUME NEW d \in Parts(c)
      PROVE  d \in R
  <2>1. PICK i \in DOMAIN c.v.cells : d = Claim(c.t.of[Element(c.t, i)], c.v.cells[i].car)
    BY <1>5 DEF Parts
  <2>2. i \in 1 .. Len(cells) /\ Element(c.t, i) = i
    BY <1>1, <1>2, <2>1 DEF Element
  <2> QED BY <1>1, <2>1, <2>2
<1> QED BY <1>4, <1>5 DEF c

\* What is known of a list.
LEMMA Of_list ==
  ASSUME NEW R, Closed(R), NEW t, NEW v, Claim(t, v) \in R, t.kind = "List"
  PROVE  /\ t = List(t.of[1]) /\ v = Pointer(v.cells) /\ v.llvm = "ptr"
         /\ \E S : v.cells \in Seq(S)
         /\ DOMAIN v.cells = 1 .. Len(v.cells) /\ Len(v.cells) \in Nat
         /\ \A i \in 1 .. Len(v.cells) : Claim(t.of[1], v.cells[i].car) \in R
<1> DEFINE c == Claim(t, v)
<1>1. c.t = t /\ c.v = v
  BY Fields
<1>2. Holds(c) /\ Parts(c) \subseteq R
  BY DEF Closed
<1>3. /\ v = Pointer(v.cells) /\ v.cells \in Seq({v.cells[i] : i \in DOMAIN v.cells})
      /\ Made(t)
  BY <1>1, <1>2 DEF Holds
<1>4. DOMAIN v.cells = 1 .. Len(v.cells) /\ Len(v.cells) \in Nat
  BY <1>3, Own
<1>5. t.of \in Seq({t.of[i] : i \in DOMAIN t.of}) /\ Len(t.of) = 1 /\ t = [kind |-> t.kind, of |-> t.of]
  BY <1>3 DEF Made
<1>6. DOMAIN t.of = 1 .. 1 /\ t.of = <<t.of[1]>>
  <2>1. DOMAIN t.of = 1 .. 1
    BY <1>5, Own
  <2>2. t.of[1] \in {t.of[i] : i \in DOMAIN t.of}
    BY <2>1
  <2>3. <<t.of[1]>> \in Seq({t.of[i] : i \in DOMAIN t.of}) /\ Len(<<t.of[1]>>) = 1 /\ <<t.of[1]>>[1] = t.of[1]
    BY <2>2
  <2>4. \A i \in 1 .. Len(t.of) : t.of[i] = <<t.of[1]>>[i]
    BY <1>5, <2>3
  <2>5. t.of = <<t.of[1]>>
    BY <1>5, <2>3, <2>4, SeqEqual
  <2> QED BY <2>1, <2>5
<1>7. t = List(t.of[1])
  BY <1>5, <1>6 DEF List
<1>8. ASSUME NEW i \in 1 .. Len(v.cells)
      PROVE  Claim(t.of[1], v.cells[i].car) \in R
  <2>1. Element(t, i) = 1 /\ 1 \in DOMAIN t.of /\ i \in DOMAIN v.cells
    BY <1>4, <1>6 DEF Element
  <2>2. Claim(t.of[1], v.cells[i].car) \in Parts(c)
    BY <1>1, <2>1 DEF Parts
  <2> QED BY <1>2, <2>2
<1>9. v.llvm = "ptr"
  BY <1>3, Fields
<1> QED BY <1>3, <1>4, <1>7, <1>8, <1>9

\* What is known of a tuple.
LEMMA Of_tuple ==
  ASSUME NEW R, Closed(R), NEW t, NEW v, Claim(t, v) \in R, t.kind = "Tuple"
  PROVE  /\ v.llvm = "ptr" /\ DOMAIN v.cells = DOMAIN t.of
         /\ \A i \in DOMAIN v.cells : Claim(t.of[i], v.cells[i].car) \in R
<1> DEFINE c == Claim(t, v)
<1>1. c.t = t /\ c.v = v
  BY Fields
<1>2. Holds(c) /\ Parts(c) \subseteq R
  BY DEF Closed
<1>3. v = Pointer(v.cells) /\ DOMAIN v.cells = DOMAIN t.of
  BY <1>1, <1>2 DEF Holds
<1>4. ASSUME NEW i \in DOMAIN v.cells
      PROVE  Claim(t.of[i], v.cells[i].car) \in R
  <2>1. Element(t, i) = i /\ i \in DOMAIN t.of
    BY <1>3 DEF Element
  <2>2. Claim(t.of[i], v.cells[i].car) \in Parts(c)
    BY <1>1, <2>1 DEF Parts
  <2> QED BY <1>2, <2>2
<1>5. v.llvm = "ptr"
  BY <1>3, Fields
<1> QED BY <1>3, <1>4, <1>5

\* A value has the LLVM type that the generator expects, and a load finds what was stored.
LEMMA Loads ==
  ASSUME NEW R, Closed(R), NEW t, NEW v, Claim(t, v) \in R
  PROVE  /\ t.kind \in {"F64", "I64", "Unit", "Nil", "List", "Tuple"}
         /\ v.llvm = get_type(t) /\ Load(get_type(t), v) = v
         /\ t.kind = "I64" => t = I64 /\ v.n \in Int
         /\ t.kind = "F64" => t = F64
         /\ t.kind = "Nil" => t = Nil /\ v = Null
<1>1. Holds(Claim(t, v))
  BY DEF Closed
<1>2. Made(t)
  BY <1>1, Fields DEF Holds
<1>3. t.kind \in {"F64", "I64", "Unit", "Nil", "List", "Tuple"}
  BY <1>2 DEF Made
<1>4. v.llvm = get_type(t)
  <2>1. CASE t.kind = "F64"
    BY <1>1, <2>1, Fields DEF Holds, get_type
  <2>2. CASE t.kind = "I64"
    BY <1>1, <2>2, Fields DEF Holds, get_type
  <2>3. CASE t.kind = "Unit"
    BY <1>1, <2>3, Fields DEF Holds, get_type
  <2>4. CASE t.kind = "Nil"
    BY <1>1, <2>4, Fields DEF Holds, get_type
  <2>5. CASE t.kind \in {"List", "Tuple"}
    <3>1. v = Pointer(v.cells)
      BY <1>1, <2>5, Fields DEF Holds
    <3>2. v.llvm = "ptr"
      BY <3>1, Fields
    <3> QED BY <2>5, <3>2 DEF get_type
  <2> QED BY <1>3, <2>1, <2>2, <2>3, <2>4, <2>5
<1>5. t.kind \in {"I64", "F64", "Nil"} => t.of = << >>
  <2>1. t.of \in Seq({t.of[i] : i \in DOMAIN t.of})
    BY <1>2 DEF Made
  <2>2. t.kind \in {"I64", "F64", "Nil"} => Len(t.of) = 0
    BY <1>2 DEF Made
  <2> QED BY <2>1, <2>2, EmptySeq
<1>6. t = [kind |-> t.kind, of |-> t.of]
  BY <1>2 DEF Made
<1>7. /\ t.kind = "I64" => t = I64
      /\ t.kind = "F64" => t = F64
      /\ t.kind = "Nil" => t = Nil
  BY <1>5, <1>6 DEF I64, F64, Nil, Scalar
<1>8. t.kind = "I64" => v.n \in Int
  BY <1>1, Fields DEF Holds
<1>9. t.kind = "Nil" => v = Null
  BY <1>1, Fields DEF Holds
<1> QED BY <1>3, <1>4, <1>7, <1>8, <1>9 DEF Load

-------------------------------------------------------------------------------
(* The stack.                                                              *)

LEMMA Sub_of ==
  ASSUME NEW R, NEW f \in Forms, NEW t, NEW v, Claim(t, v) \in R, f = "literal" => v.n \in Nat
  PROVE  Sub(f, t, v) \in Subs(R)
<1> DEFINE c == Claim(t, v)
<1>1. Sub(f, t, v) = Sub(f, c.t, c.v)
  BY Fields
<1>2. Sub(f, t, v) \in {Sub(g, d.t, d.v) : g \in Forms, d \in R}
  BY <1>1
<1>3. Sub(f, t, v).form = f /\ Sub(f, t, v).v = v
  BY Fields
<1> QED BY <1>2, <1>3 DEF Subs

LEMMA Of_sub ==
  ASSUME NEW R, Closed(R), NEW s \in Subs(R)
  PROVE  s.form \in Forms /\ Claim(s.t, s.v) \in R /\ (s.form = "literal" => s.v.n \in Nat)
<1>1. PICK f \in Forms, c \in R : s = Sub(f, c.t, c.v)
  BY DEF Subs
<1>2. s.form = f /\ s.t = c.t /\ s.v = c.v
  BY <1>1, Fields
<1>3. c = Claim(c.t, c.v)
  BY DEF Closed
<1>4. s.form = "literal" => s.v.n \in Nat
  BY DEF Subs
<1> QED BY <1>2, <1>3, <1>4

\* More claims.
LEMMA More ==
  ASSUME NEW R, Closed(R), NEW C,
         \A c \in C : c = Claim(c.t, c.v) /\ Holds(c) /\ Parts(c) \subseteq R
  PROVE  Closed(R \cup C)
BY DEF Closed

LEMMA Wider ==
  ASSUME NEW R, TypesInv(R), NEW R2, Closed(R2), R \subseteq R2
  PROVE  TypesInv(R2)
<1>1. Subs(R) \subseteq Subs(R2)
  BY DEF Subs
<1>2. stack \in Seq(Subs(R2))
  BY <1>1, SeqMonotonic DEF TypesInv
<1> QED BY <1>2 DEF TypesInv

\* The parts of a construct.
LEMMA Args ==
  ASSUME NEW R, TypesInv(R), NEW k \in Nat, Room(k)
  PROVE  \A i \in 1 .. k :
           /\ Arg(k, i).form \in Forms
           /\ Claim(Arg(k, i).t, Arg(k, i).v) \in R
           /\ Arg(k, i).form = "literal" => Arg(k, i).v.n \in Nat
<1>1. stack \in Seq(Subs(R)) /\ Closed(R) /\ Len(stack) >= k
  BY DEF TypesInv, Room
<1>2. Len(stack) \in Nat /\ \A j \in 1 .. Len(stack) : stack[j] \in Subs(R)
  BY <1>1, LenProperties, ElementOfSeq
<1>3. ASSUME NEW i \in 1 .. k
      PROVE  Len(stack) - k + i \in 1 .. Len(stack)
  BY <1>1, <1>2
<1>4. \A i \in 1 .. k : Arg(k, i) \in Subs(R)
  BY <1>2, <1>3 DEF Arg
<1> QED BY <1>1, <1>4, Of_sub

\* A construct of type t and value v takes the place of its k parts.
LEMMA PushFlows ==
  ASSUME NEW R, TypesInv(R), NEW k \in Nat, Room(k), NEW f \in Forms, NEW t, NEW v,
         Holds(Claim(t, v)), Parts(Claim(t, v)) \subseteq R, f = "literal" => v.n \in Nat,
         NEW c, c \in R, PushFlow(k, Sub(f, t, v), c)
  PROVE  SoundInv'
<1> DEFINE R2 == R \cup {Claim(t, v)}
           s == Sub(f, t, v)
<1>1. Closed(R2)
  <2>1. Claim(t, v) = Claim(Claim(t, v).t, Claim(t, v).v)
    BY Fields
  <2>2. \A d \in {Claim(t, v)} : d = Claim(d.t, d.v) /\ Holds(d) /\ Parts(d) \subseteq R
    BY <2>1
  <2> QED BY <2>2, More DEF TypesInv
<1>2. TypesInv(R2)
  BY <1>1, Wider
<1>3. s \in Subs(R2)
  BY Sub_of
<1> HIDE DEF R2, s
<1>4. /\ stack' = Append(SubSeq(stack, 1, Len(stack) - k), s)
      /\ size' = size + 1 /\ flow' = c /\ outcome' = outcome
  BY DEF PushFlow, s
<1>5. stack' \in Seq(Subs(R2))
  <2>1. stack \in Seq(Subs(R2)) /\ Len(stack) \in Nat /\ Len(stack) >= k
    BY <1>2, LenProperties DEF TypesInv, Room
  <2>2. SubSeq(stack, 1, Len(stack) - k) \in Seq(Subs(R2))
    <3>1. \A i \in 1 .. Len(stack) - k : stack[i] \in Subs(R2)
      BY <2>1, ElementOfSeq
    <3>2. Len(stack) - k \in Int /\ 1 \in Int
      BY <2>1
    <3> QED BY <3>1, <3>2, SubSeqProperties
  <2> QED BY <1>3, <1>4, <2>2
<1>6. size' \in 0 .. MaxSize
  <2>1. size \in 0 .. MaxSize /\ size < MaxSize /\ MaxSize \in Nat
    BY BoundsAssumption DEF TypesInv, Room
  <2> QED BY <1>4, <2>1
<1>7. flow' \in R2
  BY <1>4 DEF R2
<1>8. TypesInv(R2)'
  BY <1>2, <1>4, <1>5, <1>6, <1>7 DEF TypesInv
<1> QED BY <1>8 DEF SoundInv

LEMMA Pushes ==
  ASSUME NEW R, TypesInv(R), NEW k \in Nat, Room(k), NEW f \in Forms, NEW t, NEW v,
         Holds(Claim(t, v)), Parts(Claim(t, v)) \subseteq R, f = "literal" => v.n \in Nat,
         Push(k, Sub(f, t, v))
  PROVE  SoundInv'
<1>1. flow \in R /\ PushFlow(k, Sub(f, t, v), flow)
  BY DEF TypesInv, Push
<1> QED BY <1>1, PushFlows

\* The checker rejects, or the program aborts.
LEMMA Stops ==
  ASSUME SoundInv, NEW how \in {"rejected", "aborted"}, Stop(how)
  PROVE  SoundInv'
<1>1. PICK R : TypesInv(R)
  BY DEF SoundInv
<1>2. TypesInv(R)'
  BY <1>1 DEF TypesInv, Stop
<1> QED BY <1>2 DEF SoundInv

\* The generator fails or panics.
LEMMA Fails ==
  ASSUME SoundInv, NEW how \in {"failed", "panicked"}, NEW lapse \in Failing, Wrong(how, lapse)
  PROVE  SoundInv'
<1>1. PICK R : TypesInv(R)
  BY DEF SoundInv
<1>2. Lapses \cap Failing # {} /\ Stop(how)
  BY DEF Wrong
<1>3. TypesInv(R)'
  BY <1>1, <1>2 DEF TypesInv, Stop
<1> QED BY <1>3 DEF SoundInv

-------------------------------------------------------------------------------
(* Constructs.                                                             *)

LEMMA Sampled ==
  ASSUME NEW R, TypesInv(R), NEW t, NEW v \in Sample(t)
  PROVE  Claim(t, v) \in R
<1>1. PICK c \in Known : c.t = t /\ c.v = v
  BY DEF Sample
<1>2. c = Claim(t, v)
  BY <1>1, KnownAssumption
<1> QED BY <1>2 DEF TypesInv

\* What the claims of R say, a construct may say again.
LEMMA Again ==
  ASSUME NEW R, TypesInv(R), NEW k \in Nat, Room(k), NEW f \in Forms \ {"literal"},
         NEW t, NEW v, Claim(t, v) \in R, Push(k, Sub(f, t, v))
  PROVE  SoundInv'
<1>1. Holds(Claim(t, v)) /\ Parts(Claim(t, v)) \subseteq R
  BY DEF TypesInv, Closed
<1> QED BY <1>1, Pushes

LEMMA Compatibly ==
  ASSUME Lapses \cap Mistyping = {}, NEW e, Made(e), NEW f, Compatible(e, f)
  PROVE  e = f \/ (e.kind = "List" /\ f.kind = "Nil")
<1>1. CASE e = f
  BY <1>1
<1>2. CASE e # f
  <2>1. {e.kind, f.kind} = {"Nil", "List"} /\ ~(e = Nil /\ f # Nil)
    BY <1>2 DEF Compatible, compare_types, Mistyping
  <2>2. CASE e.kind = "Nil"
    <3>1. e = Nil /\ f # Nil
      BY <1>2, <2>2, Nil_only
    <3> QED BY <2>1, <3>1
  <2>3. CASE e.kind = "List"
    <3>1. f.kind = "Nil"
      BY <2>1, <2>3
    <3> QED BY <2>3, <3>1
  <2> QED BY <2>1, <2>2, <2>3
<1> QED BY <1>1, <1>2

\* A written type is never that of the empty list.
LEMMA Written_type ==
  ASSUME NEW e, NEW f, e.kind # "Nil", compare_types(e, f) \/ compare_types(f, e)
  PROVE  e = f \/ (e.kind = "List" /\ f.kind = "Nil")
<1>1. e = f \/ {e.kind, f.kind} = {"Nil", "List"}
  BY DEF compare_types
<1>2. ASSUME {e.kind, f.kind} = {"Nil", "List"}
      PROVE  e.kind = "List" /\ f.kind = "Nil"
  <2>1. e.kind \in {"Nil", "List"} /\ "Nil" \in {e.kind, f.kind}
    BY <1>2
  <2> QED BY <2>1
<1> QED BY <1>1, <1>2

LEMMA Literal_step ==
  ASSUME SoundInv, Literal
  PROVE  SoundInv'
<1>1. PICK R : TypesInv(R)
  BY DEF SoundInv
<1>2. Room(0) /\ 0 \in Nat /\ "literal" \in Forms /\ "unit" \in Forms
  BY DEF Literal, Forms
<1>3. CASE Push(0, Sub("literal", F64, Double))
  <2>1. Double.n \in Nat
    BY Fields
  <2> QED BY <1>1, <1>2, <1>3, <2>1, Plain, Pushes
<1>4. CASE \E n \in Number : Push(0, Sub("literal", I64, Int64(n)))
  <2>1. PICK n \in Number : Push(0, Sub("literal", I64, Int64(n)))
    BY <1>4
  <2>2. n \in Nat /\ n \in Int /\ Int64(n).n = n
    BY BoundsAssumption, Fields
  <2>3. Holds(Claim(I64, Int64(n))) /\ Parts(Claim(I64, Int64(n))) \subseteq R
    BY <2>2, Plain
  <2> QED BY <1>1, <1>2, <2>1, <2>2, <2>3, Pushes
<1>5. CASE Push(0, Sub("unit", Unit, Bit))
  BY <1>1, <1>2, <1>5, Plain, Pushes
<1> QED BY <1>3, <1>4, <1>5 DEF Literal

LEMMA Name_step ==
  ASSUME SoundInv, Name
  PROVE  SoundInv'
<1>1. PICK R : TypesInv(R)
  BY DEF SoundInv
<1>2. Room(0) /\ 0 \in Nat /\ "identifier" \in Forms \ {"literal"}
  BY DEF Name, Forms
<1>3. PICK x \in DOMAIN Identifier :
        \E v \in Sample(Identifier[x]) : Push(0, Sub("identifier", Identifier[x], v))
  BY DEF Name
<1>4. PICK v \in Sample(Identifier[x]) : Push(0, Sub("identifier", Identifier[x], v))
  BY <1>3
<1>5. Claim(Identifier[x], v) \in R
  BY <1>1, Sampled
<1> QED BY <1>1, <1>2, <1>4, <1>5, Again

LEMMA Empty_list_step ==
  ASSUME SoundInv, Empty_list
  PROVE  SoundInv'
<1>1. PICK R : TypesInv(R)
  BY DEF SoundInv
<1>2. Room(0) /\ 0 \in Nat /\ "list" \in Forms /\ Push(0, Sub("list", Nil, Null))
  BY DEF Empty_list, Forms
<1> QED BY <1>1, <1>2, Plain, Pushes

\* The cells of a literal, with the cars in their order.
LEMMA Cells ==
  ASSUME NEW k \in Nat
  PROVE  LET cells == [i \in 1 .. k |-> gc_new(ElementTag(Arg(k, i)), Arg(k, i).v)]
         IN  /\ cells \in Seq({cells[i] : i \in 1 .. k}) /\ Len(cells) = k
             /\ \A i \in 1 .. k : cells[i].car = Arg(k, i).v
<1> DEFINE cells == [i \in 1 .. k |-> gc_new(ElementTag(Arg(k, i)), Arg(k, i).v)]
           C == {cells[i] : i \in 1 .. k}
<1>1. \A i \in 1 .. k : cells[i].car = Arg(k, i).v
  BY Fields
<1>2. DOMAIN cells = 1 .. k /\ \A i \in 1 .. k : cells[i] \in C
  OBVIOUS
<1>3. cells = [i \in 1 .. k |-> cells[i]]
  OBVIOUS
<1> HIDE DEF cells, C
<1>4. cells \in [1 .. k -> C]
  BY <1>2, <1>3
<1>5. cells \in Seq(C) /\ Len(cells) = k
  BY <1>4
<1> QED BY <1>1, <1>5 DEF cells, C

LEMMA Pair ==
  ASSUME NEW R, TypesInv(R), NEW k \in Nat, Room(k), NEW form \in {"list", "tuple"}, NEW t,
         codegen_pair(form, k, t),
         \A cells : /\ cells \in Seq({cells[i] : i \in 1 .. k}) /\ Len(cells) = k
                    /\ \A i \in 1 .. k : cells[i].car = Arg(k, i).v
                    => /\ Holds(Claim(t, Pointer(cells)))
                       /\ Parts(Claim(t, Pointer(cells))) \subseteq R
  PROVE  SoundInv'
<1> DEFINE cells == [i \in 1 .. k |-> gc_new(ElementTag(Arg(k, i)), Arg(k, i).v)]
           args == [i \in 1 .. k |-> Arg(k, i)]
<1>1. [i \in 1 .. k |-> gc_new(ElementTag(args[i]), args[i].v)] = cells
  OBVIOUS
<1>2. Push(k, Sub(form, t, Pointer(cells))) \/ Wrong("panicked", "pointer element")
  BY <1>1 DEF codegen_pair
<1>3. /\ cells \in Seq({cells[i] : i \in 1 .. k}) /\ Len(cells) = k
      /\ \A i \in 1 .. k : cells[i].car = Arg(k, i).v
  BY Cells
<1> HIDE DEF cells, args
<1>4. Holds(Claim(t, Pointer(cells))) /\ Parts(Claim(t, Pointer(cells))) \subseteq R
  BY <1>3
<1>5. form \in Forms /\ form # "literal"
  BY DEF Forms
<1>6. CASE Push(k, Sub(form, t, Pointer(cells)))
  BY <1>4, <1>5, <1>6, Pushes
<1>7. CASE Wrong("panicked", "pointer element")
  BY <1>7, Fails DEF Failing, SoundInv
<1> QED BY <1>2, <1>6, <1>7

\* The elements of a list are of the type of the first one, or empty lists.
LEMMA Cons_list_step ==
  ASSUME SoundInv, Lapses \cap Mistyping = {}, Cons_list
  PROVE  SoundInv'
<1>1. PICK R : TypesInv(R)
  BY DEF SoundInv
<1>2. PICK k \in 1 .. MaxOpen :
        /\ Room(k)
        /\ LET t == Arg(k, 1).t
           IN  IF \A i \in 2 .. k : compare_types(t, Arg(k, i).t)
                 THEN /\ \A i \in 2 .. k : Compatible(t, Arg(k, i).t)
                      /\ codegen_pair("list", k, List(t))
                 ELSE Stop("rejected")
  BY DEF Cons_list
<1> DEFINE t == Arg(k, 1).t
<1>3. k \in Nat /\ k >= 1 /\ 1 \in 1 .. k
  BY BoundsAssumption
<1>6. Room(k)
  BY <1>2
<1>4. CASE Stop("rejected")
  BY <1>4, Stops
<1>5. CASE /\ \A i \in 2 .. k : Compatible(t, Arg(k, i).t)
           /\ codegen_pair("list", k, List(t))
  <2> DEFINE C == {Claim(t, Arg(k, i).v) : i \in 1 .. k}
             R2 == R \cup C
  <2>1. Closed(R) /\ \A i \in 1 .. k : Claim(Arg(k, i).t, Arg(k, i).v) \in R
    <3>1. Closed(R)
      BY <1>1 DEF TypesInv
    <3> HIDE DEF t
    <3> QED BY <1>1, <1>3, <1>6, <3>1, Args
  <2>2. Made(t)
    <3>1. Holds(Claim(t, Arg(k, 1).v))
      BY <1>3, <2>1 DEF Closed
    <3> QED BY <3>1, Fields DEF Holds
  <2> HIDE DEF t
  <2>3. ASSUME NEW i \in 1 .. k
        PROVE  /\ Holds(Claim(t, Arg(k, i).v)) /\ Parts(Claim(t, Arg(k, i).v)) \subseteq R
    <3>1. CASE i = 1
      <4>1. t = Arg(k, i).t
        BY <3>1 DEF t
      <4> QED BY <2>1, <2>2, <4>1, Goes
    <3>2. CASE i \in 2 .. k
      <4>1. t = Arg(k, i).t \/ (t.kind = "List" /\ Arg(k, i).t.kind = "Nil")
        BY <1>5, <2>2, <3>2, Compatibly
      <4> QED BY <2>1, <2>2, <4>1, Goes
    <3> QED BY <1>3, <3>1, <3>2
  <2>4. Closed(R2)
    <3>1. \A c \in C : c = Claim(c.t, c.v) /\ Holds(c) /\ Parts(c) \subseteq R
      BY <2>3, Fields
    <3> HIDE DEF C
    <3> QED BY <2>1, <3>1, More
  <2>5. TypesInv(R2)
    BY <1>1, <2>4, Wider
  <2>6. \A i \in 1 .. k : Claim(t, Arg(k, i).v) \in R2
    OBVIOUS
  <2> HIDE DEF C, R2
  <2>7. ASSUME NEW cells,
               cells \in Seq({cells[i] : i \in 1 .. k}) /\ Len(cells) = k,
               \A i \in 1 .. k : cells[i].car = Arg(k, i).v
        PROVE  /\ Holds(Claim(List(t), Pointer(cells)))
               /\ Parts(Claim(List(t), Pointer(cells))) \subseteq R2
    <3>1. \A i \in 1 .. Len(cells) : Claim(t, cells[i].car) \in R2
      BY <2>6, <2>7
    <3> QED BY <2>7, <3>1, List_claim
  <2>8. codegen_pair("list", k, List(t))
    BY <1>5 DEF t
  <2> QED BY <1>2, <1>3, <2>5, <2>7, <2>8, Pair
<1> QED BY <1>2, <1>4, <1>5

LEMMA Cons_tuple_step ==
  ASSUME SoundInv, Lapses \cap Mistyping = {}, Cons_tuple
  PROVE  SoundInv'
<1>1. PICK R : TypesInv(R)
  BY DEF SoundInv
<1>2. PICK k \in 2 .. MaxOpen :
        Room(k) /\ codegen_pair("tuple", k, Tuple([i \in 1 .. k |-> Arg(k, i).t]))
  BY DEF Cons_tuple
<1> DEFINE ts == [i \in 1 .. k |-> Arg(k, i).t]
           T == {ts[i] : i \in 1 .. k}
<1>3. k \in Nat
  BY BoundsAssumption
<1>8. Room(k)
  BY <1>2
<1>4. \A i \in 1 .. k : Claim(Arg(k, i).t, Arg(k, i).v) \in R
  <2> HIDE DEF ts, T
  <2> QED BY <1>1, <1>3, <1>8, Args
<1>5. ts \in Seq(T) /\ Len(ts) = k /\ \A i \in 1 .. k : ts[i] = Arg(k, i).t
  <2>1. DOMAIN ts = 1 .. k /\ (\A i \in 1 .. k : ts[i] \in T) /\ ts = [i \in 1 .. k |-> ts[i]]
        /\ \A i \in 1 .. k : ts[i] = Arg(k, i).t
    OBVIOUS
  <2> HIDE DEF ts, T
  <2>2. ts \in [1 .. k -> T]
    BY <2>1
  <2> QED BY <1>3, <2>1, <2>2
<1>6. codegen_pair("tuple", k, Tuple(ts))
  BY <1>2
<1> HIDE DEF ts, T
<1>7. ASSUME NEW cells,
             cells \in Seq({cells[i] : i \in 1 .. k}) /\ Len(cells) = k,
             \A i \in 1 .. k : cells[i].car = Arg(k, i).v
      PROVE  /\ Holds(Claim(Tuple(ts), Pointer(cells)))
             /\ Parts(Claim(Tuple(ts), Pointer(cells))) \subseteq R
  <2>1. \A i \in 1 .. Len(cells) : Claim(ts[i], cells[i].car) \in R
    BY <1>4, <1>5, <1>7
  <2> QED BY <1>5, <1>7, <2>1, Tuple_claim
<1> QED BY <1>1, <1>2, <1>3, <1>6, <1>7, Pair

-------------------------------------------------------------------------------
(* The functions on lists.                                                 *)

LEMMA Car_step ==
  ASSUME SoundInv, car
  PROVE  SoundInv'
<1>1. PICK R : TypesInv(R)
  BY DEF SoundInv
<1> DEFINE l == Arg(1, 1)
<1>2. Room(1) /\ 1 \in Nat /\ 1 \in 1 .. 1
  BY DEF car
<1>3. Claim(l.t, l.v) \in R /\ Closed(R)
  <2>1. Closed(R)
    BY <1>1 DEF TypesInv
  <2>2. \A i \in 1 .. 1 : Claim(Arg(1, i).t, Arg(1, i).v) \in R
    BY <1>1, <1>2, Args
  <2> QED BY <1>2, <2>1, <2>2
<1>4. \/ Stop("rejected") \/ Stop("aborted")
      \/ /\ l.t.kind = "List" /\ l.v # Null
         /\ Push(1, Sub("other", l.t.of[1], Load(get_type(l.t.of[1]), l.v.cells[1].car)))
  BY DEF car
<1> HIDE DEF l
<1>5. CASE /\ l.t.kind = "List" /\ l.v # Null
           /\ Push(1, Sub("other", l.t.of[1], Load(get_type(l.t.of[1]), l.v.cells[1].car)))
  <2>1. /\ l.v = Pointer(l.v.cells) /\ Len(l.v.cells) \in Nat
        /\ \E S : l.v.cells \in Seq(S)
        /\ \A i \in 1 .. Len(l.v.cells) : Claim(l.t.of[1], l.v.cells[i].car) \in R
    BY <1>3, <1>5, Of_list
  <2>2. l.v.cells # << >>
    BY <1>5, <2>1, Fields
  <2>8. PICK S : l.v.cells \in Seq(S)
    BY <2>1
  <2>3. Len(l.v.cells) \in Nat \ {0}
    BY <2>2, <2>8, EmptySeq
  <2>4. Claim(l.t.of[1], l.v.cells[1].car) \in R
    BY <2>1, <2>3
  <2>5. Load(get_type(l.t.of[1]), l.v.cells[1].car) = l.v.cells[1].car
    BY <1>3, <2>4, Loads
  <2>6. "other" \in Forms \ {"literal"}
    BY DEF Forms
  <2>7. Push(1, Sub("other", l.t.of[1], l.v.cells[1].car))
    BY <1>5, <2>5
  <2> QED BY <1>1, <1>2, <2>4, <2>6, <2>7, Again
<1> QED BY <1>4, <1>5, Stops

LEMMA Cdr_step ==
  ASSUME SoundInv, cdr
  PROVE  SoundInv'
<1>1. PICK R : TypesInv(R)
  BY DEF SoundInv
<1> DEFINE l == Arg(1, 1)
<1>2. Room(1) /\ 1 \in Nat /\ 1 \in 1 .. 1
  BY DEF cdr
<1>3. Claim(l.t, l.v) \in R /\ Closed(R)
  <2>1. Closed(R)
    BY <1>1 DEF TypesInv
  <2>2. \A i \in 1 .. 1 : Claim(Arg(1, i).t, Arg(1, i).v) \in R
    BY <1>1, <1>2, Args
  <2> QED BY <1>2, <2>1, <2>2
<1>4. \/ Stop("rejected") \/ Stop("aborted")
      \/ /\ l.t.kind = "List" /\ l.v # Null
         /\ Push(1, Sub("other", l.t, Pointer(Tail(l.v.cells))))
  BY DEF cdr
<1> HIDE DEF l
<1>5. CASE /\ l.t.kind = "List" /\ l.v # Null
           /\ Push(1, Sub("other", l.t, Pointer(Tail(l.v.cells))))
  <2> DEFINE u == Tail(l.v.cells)
             h == l.t.of[1]
  <2>1. /\ l.v = Pointer(l.v.cells) /\ Len(l.v.cells) \in Nat /\ l.t = List(h)
        /\ \E S : l.v.cells \in Seq(S)
        /\ \A i \in 1 .. Len(l.v.cells) : Claim(h, l.v.cells[i].car) \in R
    BY <1>3, <1>5, Of_list
  <2>2. l.v.cells # << >>
    BY <1>5, <2>1, Fields
  <2>7. PICK S : l.v.cells \in Seq(S)
    BY <2>1
  <2>3. u \in Seq(S) /\ Len(u) = Len(l.v.cells) - 1 /\ \A i \in 1 .. Len(u) : u[i] = l.v.cells[i + 1]
    BY <2>2, <2>7, HeadTailProperties
  <2> HIDE DEF u
  <2>4. \A i \in 1 .. Len(u) : Claim(h, u[i].car) \in R
    <3>1. \A i \in 1 .. Len(u) : i + 1 \in 1 .. Len(l.v.cells)
      BY <2>1, <2>3
    <3> QED BY <2>1, <2>3, <3>1
  <2> HIDE DEF h
  <2>5. Holds(Claim(List(h), Pointer(u))) /\ Parts(Claim(List(h), Pointer(u))) \subseteq R
    BY <2>3, <2>4, List_claim
  <2>6. "other" \in Forms /\ "other" # "literal" /\ Push(1, Sub("other", List(h), Pointer(u)))
    BY <1>5, <2>1 DEF Forms, u
  <2> QED BY <1>1, <1>2, <2>5, <2>6, Pushes
<1> QED BY <1>4, <1>5, Stops

LEMMA Empty_step ==
  ASSUME SoundInv, empty
  PROVE  SoundInv'
<1>1. PICK R : TypesInv(R)
  BY DEF SoundInv
<1>2. Room(1) /\ 1 \in Nat
  BY DEF empty
<1> DEFINE n == IF Arg(1, 1).v = Null THEN 1 ELSE 0
<1>3. CASE Push(1, Sub("other", I64, Int64(n)))
  <2>1. n \in Int
    OBVIOUS
  <2> HIDE DEF n
  <2>2. Holds(Claim(I64, Int64(n))) /\ Parts(Claim(I64, Int64(n))) \subseteq R
    BY <2>1, Plain
  <2>3. "other" \in Forms /\ "other" # "literal"
    BY DEF Forms
  <2> QED BY <1>1, <1>2, <1>3, <2>2, <2>3, Pushes
<1>4. Push(1, Sub("other", I64, Int64(n))) \/ Stop("rejected")
  BY DEF empty
<1> QED BY <1>3, <1>4, Stops

\* Only the literal () is a tail that is no list (Lapses).
LEMMA Cons_step ==
  ASSUME SoundInv, Lapses \cap Mistyping = {}, cons
  PROVE  SoundInv'
<1>1. PICK R : TypesInv(R)
  BY DEF SoundInv
<1> DEFINE head == Arg(2, 1)
           rest == Arg(2, 2)
           cell == gc_new(Tag(head.t), head.v)
<1>2. Room(2) /\ 2 \in Nat /\ 1 \in 1 .. 2 /\ 2 \in 1 .. 2
  BY DEF cons
<1>3. Closed(R) /\ Claim(head.t, head.v) \in R /\ Claim(rest.t, rest.v) \in R
  <2>1. \A i \in 1 .. 2 : Claim(Arg(2, i).t, Arg(2, i).v) \in R
    BY <1>1, <1>2, Args
  <2> QED BY <1>1, <1>2, <2>1 DEF TypesInv
<1>4. \/ Stop("rejected")
      \/ /\ rest.t = Unit \/ compare_types(List(head.t), rest.t)
         /\ rest.t.kind \in {"List", "Unit"}
         /\ rest.form = "unit" \/ rest.t # Unit
         /\ Push(2, Sub("other", List(head.t),
                        CASE rest.form = "unit" -> Pointer(<<cell>>)
                          [] rest.form # "unit" /\ rest.v.llvm = "ptr" ->
                                  Pointer(<<cell>> \o rest.v.cells)
                          [] OTHER -> Pointer(<<cell, gc_new(0, Wild)>>)))
  BY DEF cons, codegen_cons, Mistyping
<1>5. cell.car = head.v
  BY Fields
<1>6. "other" \in Forms /\ "other" # "literal"
  BY DEF Forms
<1> HIDE DEF head, rest, cell
<1>7. CASE /\ rest.form = "unit"
           /\ Push(2, Sub("other", List(head.t), Pointer(<<cell>>)))
  <2> DEFINE cells == <<cell>>
  <2>1. cells \in Seq({cell}) /\ Len(cells) = 1 /\ cells[1] = cell
    OBVIOUS
  <2>2. Push(2, Sub("other", List(head.t), Pointer(cells)))
    BY <1>7
  <2> HIDE DEF cells
  <2>3. \A i \in 1 .. Len(cells) : Claim(head.t, cells[i].car) \in R
    BY <1>3, <1>5, <2>1
  <2>4. /\ Holds(Claim(List(head.t), Pointer(cells)))
        /\ Parts(Claim(List(head.t), Pointer(cells))) \subseteq R
    BY <2>1, <2>3, List_claim
  <2> QED BY <1>1, <1>2, <1>6, <2>2, <2>4, Pushes
<1>8. ASSUME rest.form # "unit", rest.t # Unit,
             compare_types(List(head.t), rest.t), rest.t.kind \in {"List", "Unit"}
      PROVE  rest.t = List(head.t)
  <2>1. rest.t # List(head.t) => {List(head.t).kind, rest.t.kind} = {"Nil", "List"}
    BY <1>8 DEF compare_types
  <2>2. "Nil" \notin {List(head.t).kind, rest.t.kind}
    BY <1>8, Type_fields
  <2> QED BY <2>1, <2>2
<1>9. CASE /\ rest.form # "unit" /\ rest.t = List(head.t)
           /\ Push(2, Sub("other", List(head.t),
                          CASE rest.form = "unit" -> Pointer(<<cell>>)
                            [] rest.form # "unit" /\ rest.v.llvm = "ptr" ->
                                  Pointer(<<cell>> \o rest.v.cells)
                            [] OTHER -> Pointer(<<cell, gc_new(0, Wild)>>)))
  <2>1. rest.t.kind = "List" /\ rest.t.of[1] = head.t
    BY <1>9, Type_fields
  <2>2. /\ rest.v.llvm = "ptr" /\ \E S : rest.v.cells \in Seq(S)
        /\ \A i \in 1 .. Len(rest.v.cells) : Claim(rest.t.of[1], rest.v.cells[i].car) \in R
    BY <1>3, <2>1, Of_list
  <2>3. PICK S : rest.v.cells \in Seq(S)
    BY <2>2
  <2> DEFINE one == <<cell>>
             more == rest.v.cells
             cells == one \o more
             S2 == S \cup {cell}
  <2>4. one \in Seq(S2) /\ Len(one) = 1 /\ one[1] = cell
    OBVIOUS
  <2>5. more \in Seq(S2) /\ Len(more) \in Nat
    <3>1. S \subseteq S2
      OBVIOUS
    <3>2. more \in Seq(S)
      BY <2>3
    <3> HIDE DEF S2, more
    <3> QED BY <3>1, <3>2, SeqMonotonic, LenProperties
  <2>6. Push(2, Sub("other", List(head.t), Pointer(cells)))
    BY <1>9, <2>2
  <2>7. \A i \in 1 .. Len(more) : Claim(head.t, more[i].car) \in R
    BY <2>1, <2>2
  <2> HIDE DEF one, more, S2
  <2>8. /\ cells \in Seq(S2) /\ Len(cells) = 1 + Len(more)
        /\ \A i \in 1 .. 1 + Len(more) : cells[i] = IF i <= 1 THEN one[i] ELSE more[i - 1]
    BY <2>4, <2>5, ConcatProperties
  <2> HIDE DEF cells
  <2>9. ASSUME NEW i \in 1 .. Len(cells)
        PROVE  Claim(head.t, cells[i].car) \in R
    <3>1. CASE i = 1
      BY <1>3, <1>5, <2>4, <2>5, <2>8, <3>1
    <3>2. CASE i # 1
      <4>1. i - 1 \in 1 .. Len(more) /\ cells[i] = more[i - 1]
        BY <2>5, <2>8, <3>2
      <4> QED BY <2>7, <4>1
    <3> QED BY <3>1, <3>2
  <2>10. /\ Holds(Claim(List(head.t), Pointer(cells)))
         /\ Parts(Claim(List(head.t), Pointer(cells))) \subseteq R
    BY <2>8, <2>9, List_claim
  <2> QED BY <1>1, <1>2, <1>6, <2>6, <2>10, Pushes
<1>10. CASE /\ rest.t = Unit \/ compare_types(List(head.t), rest.t)
            /\ rest.t.kind \in {"List", "Unit"}
            /\ rest.form = "unit" \/ rest.t # Unit
            /\ Push(2, Sub("other", List(head.t),
                           CASE rest.form = "unit" -> Pointer(<<cell>>)
                             [] rest.form # "unit" /\ rest.v.llvm = "ptr" ->
                                  Pointer(<<cell>> \o rest.v.cells)
                             [] OTHER -> Pointer(<<cell, gc_new(0, Wild)>>)))
  <2>1. CASE rest.form = "unit"
    <3>1. Push(2, Sub("other", List(head.t), Pointer(<<cell>>)))
      BY <1>10, <2>1
    <3> QED BY <1>7, <2>1, <3>1
  <2>2. CASE rest.form # "unit"
    <3>1. rest.t = List(head.t)
      BY <1>8, <1>10, <2>2
    <3> QED BY <1>9, <1>10, <2>2, <3>1
  <2> QED BY <2>1, <2>2
<1> QED BY <1>4, <1>10, Stops

\* What is read out of a list or tuple is claimed by R.
LEMMA Projects ==
  ASSUME NEW R, TypesInv(R), Room(2), NEW t, NEW w, Claim(t, w) \in R, NEW form,
         Push(2, Sub(Projected(form), t, Load(get_type(t), w)))
  PROVE  SoundInv'
<1>1. Projected(form) \in Forms \ {"literal"}
  BY DEF Projected, Forms
<1>2. Load(get_type(t), w) = w
  BY Loads DEF TypesInv
<1>3. 2 \in Nat
  OBVIOUS
<1> QED BY <1>1, <1>2, <1>3, Again

LEMMA Projection_step ==
  ASSUME SoundInv, Projection
  PROVE  SoundInv'
<1>1. PICK R : TypesInv(R)
  BY DEF SoundInv
<1> DEFINE val == Arg(2, 1)
           idx == Arg(2, 2)
           n == Place(idx.v.n)
           Of(t) == IF n \in DOMAIN val.v.cells
                      THEN Push(2, Sub(Projected(val.form), t, Load(get_type(t), val.v.cells[n].car)))
                      ELSE Stop("aborted")
<1>2. Room(2) /\ 2 \in Nat /\ 1 \in 1 .. 2 /\ 2 \in 1 .. 2
  <2>1. Room(2)
    BY Zenon DEF Projection
  <2> QED BY <2>1
<1>3. /\ Closed(R) /\ Claim(val.t, val.v) \in R /\ Claim(idx.t, idx.v) \in R
      /\ idx.form = "literal" => idx.v.n \in Nat
  <2>1. \A i \in 1 .. 2 : /\ Claim(Arg(2, i).t, Arg(2, i).v) \in R
                          /\ Arg(2, i).form = "literal" => Arg(2, i).v.n \in Nat
    BY <1>1, <1>2, Args
  <2> QED BY <1>1, <1>2, <2>1 DEF TypesInv
<1>4. \/ Stop("rejected") \/ SoundInv'
      \/ val.t.kind = "List" /\ Of(val.t.of[1])
      \/ val.t.kind = "Nil" /\ Of(Nil)
      \/ /\ val.t.kind = "Tuple" /\ idx.form = "literal"
         /\ idx.v.n + 1 \in DOMAIN val.t.of /\ Of(val.t.of[idx.v.n + 1])
  <2>1. Wrong("panicked", "tuple index") => SoundInv'
    BY Fails DEF Failing
  <2>2. Projection
    OBVIOUS
  <2> HIDE DEF Of
  <2>3. CASE idx.t # I64 \/ val.t.kind \notin {"Tuple", "List", "Nil"}
    BY <2>2, <2>3 DEF Projection
  <2>4. CASE idx.t = I64 /\ val.t.kind = "List"
    BY <2>2, <2>4 DEF Projection, Of
  <2>5. CASE idx.t = I64 /\ val.t.kind = "Nil"
    BY <2>2, <2>5 DEF Projection, Of
  <2>6. CASE idx.t = I64 /\ val.t.kind = "Tuple"
    <3>1. CASE idx.form # "literal"
      BY <2>1, <2>2, <2>6, <3>1 DEF Projection
    <3>2. CASE idx.form = "literal" /\ idx.v.n + 1 \notin DOMAIN val.t.of
      BY <2>2, <2>6, <3>2 DEF Projection
    <3>3. CASE idx.form = "literal" /\ idx.v.n + 1 \in DOMAIN val.t.of
      BY <2>2, <2>6, <3>3 DEF Projection, Of
    <3> QED BY <3>1, <3>2, <3>3
  <2> QED BY <2>3, <2>4, <2>5, <2>6
<1> HIDE DEF val, idx, n
<1>5. ASSUME NEW t, Of(t), n \in DOMAIN val.v.cells => Claim(t, val.v.cells[n].car) \in R
      PROVE  SoundInv'
  <2>1. CASE n \in DOMAIN val.v.cells
    <3>1. Push(2, Sub(Projected(val.form), t, Load(get_type(t), val.v.cells[n].car)))
      BY <1>5, <2>1
    <3> QED BY <1>1, <1>2, <1>5, <2>1, <3>1, Projects
  <2>2. CASE n \notin DOMAIN val.v.cells
    BY <1>5, <2>2, Stops
  <2> QED BY <2>1, <2>2
<1> HIDE DEF Of
<1>6. CASE val.t.kind = "List" /\ Of(val.t.of[1])
  <2>1. /\ \A i \in 1 .. Len(val.v.cells) : Claim(val.t.of[1], val.v.cells[i].car) \in R
        /\ DOMAIN val.v.cells = 1 .. Len(val.v.cells)
    BY <1>3, <1>6, Of_list
  <2> QED BY <1>5, <1>6, <2>1
<1>7. CASE val.t.kind = "Nil" /\ Of(Nil)
  <2>1. val.v = Null
    BY <1>3, <1>7, Loads
  <2>2. n \notin DOMAIN val.v.cells
    BY <2>1, Fields
  <2> QED BY <1>5, <1>7, <2>2
<1>8. CASE /\ val.t.kind = "Tuple" /\ idx.form = "literal"
           /\ idx.v.n + 1 \in DOMAIN val.t.of /\ Of(val.t.of[idx.v.n + 1])
  <2>1. n = idx.v.n + 1
    BY <1>3, <1>8 DEF n, Place
  <2>2. \A i \in DOMAIN val.v.cells : Claim(val.t.of[i], val.v.cells[i].car) \in R
    BY <1>3, <1>8, Of_tuple
  <2>3. Of(val.t.of[n])
    BY <1>8, <2>1
  <2> QED BY <1>5, <2>2, <2>3
<1> QED BY <1>4, <1>6, <1>7, <1>8, Stops

-------------------------------------------------------------------------------
(* Operators and calls.                                                    *)

\* Two values of one type that are no pointers are both of one sort.
LEMMA Arithmetic_step ==
  ASSUME SoundInv, Arithmetic
  PROVE  SoundInv'
<1>1. PICK R : TypesInv(R)
  BY DEF SoundInv
<1> DEFINE l == Arg(2, 1)
           r == Arg(2, 2)
<1>2. Room(2) /\ 2 \in Nat /\ 1 \in 1 .. 2 /\ 2 \in 1 .. 2
  <2>1. Room(2)
    BY Zenon DEF Arithmetic
  <2> QED BY <2>1
<1>3. Closed(R) /\ Claim(l.t, l.v) \in R /\ Claim(r.t, r.v) \in R
  <2>1. \A i \in 1 .. 2 : Claim(Arg(2, i).t, Arg(2, i).v) \in R
    BY <1>1, <1>2, Args
  <2> QED BY <1>1, <1>2, <2>1 DEF TypesInv
<1>4. \/ Stop("rejected") \/ SoundInv'
      \/ /\ compare_types(l.t, r.t) /\ l.v.llvm # "ptr"
         /\ IF Floats(l, r) \/ Ints(l, r)
              THEN \E t \in {l.t, I64} : \E v \in Sample(t) : Push(2, Sub("other", t, v))
              ELSE Stop("failed")
  <2>1. CASE ~compare_types(l.t, r.t)
    BY <2>1 DEF Arithmetic
  <2>2. CASE compare_types(l.t, r.t) /\ l.v.llvm = "ptr"
    <3>1. Wrong("failed", "pointer operand")
      BY <2>2 DEF Arithmetic
    <3> QED BY <3>1, Fails DEF Failing
  <2>3. CASE compare_types(l.t, r.t) /\ l.v.llvm # "ptr"
    BY <2>3 DEF Arithmetic
  <2> QED BY <2>1, <2>2, <2>3
<1> HIDE DEF l, r
<1>5. CASE /\ compare_types(l.t, r.t) /\ l.v.llvm # "ptr"
           /\ IF Floats(l, r) \/ Ints(l, r)
                THEN \E t \in {l.t, I64} : \E v \in Sample(t) : Push(2, Sub("other", t, v))
                ELSE Stop("failed")
  <2>1. /\ l.v.llvm = get_type(l.t) /\ r.v.llvm = get_type(r.t)
        /\ l.t.kind \in {"F64", "I64", "Unit", "Nil", "List", "Tuple"}
    BY <1>3, Loads
  <2>2. l.t.kind \in {"F64", "I64", "Unit"}
    BY <1>5, <2>1 DEF get_type
  <2>3. l.t = r.t
    <3>1. {l.t.kind, r.t.kind} # {"Nil", "List"}
      BY <2>2
    <3> QED BY <1>5, <3>1 DEF compare_types
  <2>4. l.v.llvm \in {"double", "i64", "i1"} /\ r.v.llvm = l.v.llvm
    BY <2>1, <2>2, <2>3 DEF get_type
  <2>5. Floats(l, r) \/ Ints(l, r)
    BY <2>4 DEF Floats, Ints, Integral
  <2>8. PICK t \in {l.t, I64} : \E v \in Sample(t) : Push(2, Sub("other", t, v))
    BY <1>5, <2>5
  <2>6. PICK v \in Sample(t) : Push(2, Sub("other", t, v))
    BY <2>8
  <2>7. Claim(t, v) \in R /\ "other" \in Forms \ {"literal"}
    BY <1>1, Sampled DEF Forms
  <2> QED BY <1>1, <1>2, <2>6, <2>7, Again
<1> QED BY <1>4, <1>5, Stops

\* A construct of type t and value v, while a value goes where a type is expected that
\* it suits.
LEMMA Flows ==
  ASSUME NEW R, TypesInv(R), NEW k \in Nat, Room(k), NEW t, NEW v,
         Holds(Claim(t, v)), Parts(Claim(t, v)) \subseteq R,
         NEW e, NEW w, Holds(Claim(e, w)), Parts(Claim(e, w)) \subseteq R,
         PushFlow(k, Sub("other", t, v), Claim(e, w))
  PROVE  SoundInv'
<1> DEFINE R2 == R \cup {Claim(e, w)}
<1>1. Closed(R2)
  <2>1. Claim(e, w) = Claim(Claim(e, w).t, Claim(e, w).v)
    BY Fields
  <2>2. \A d \in {Claim(e, w)} : d = Claim(d.t, d.v) /\ Holds(d) /\ Parts(d) \subseteq R
    BY <2>1
  <2> QED BY <2>2, More DEF TypesInv
<1>2. TypesInv(R2)
  BY <1>1, Wider
<1>3. Parts(Claim(t, v)) \subseteq R2 /\ Claim(e, w) \in R2
  OBVIOUS
<1>4. "other" \in Forms /\ "other" # "literal"
  BY DEF Forms
<1> HIDE DEF R2
<1> QED BY <1>2, <1>3, <1>4, PushFlows

\* An argument suits the type that was written for its parameter.
LEMMA Called_step ==
  ASSUME SoundInv, NEW p \in Prototype, Suits(p), Room(Len(p.args)), Called(p, Len(p.args))
  PROVE  SoundInv'
<1>1. PICK R : TypesInv(R)
  BY DEF SoundInv
<1> DEFINE k == Len(p.args)
<1>2. /\ k \in Nat /\ DOMAIN p.args = 1 .. k
      /\ \A t \in {p.ret} \cup {p.args[i] : i \in DOMAIN p.args} : Made(t) /\ t.kind # "Nil"
  BY PrototypeAssumption, LenProperties
<1>3. /\ Room(k) /\ \A i \in 1 .. k : compare_types(Arg(k, i).t, p.args[i])
      /\ \E v \in Sample(p.ret) : \E flowed \in {Claim(p.args[i], Arg(k, i).v) : i \in 1 .. k}
                                                \cup IF k = 0 THEN {flow} ELSE {} :
           PushFlow(k, Sub("other", p.ret, v), flowed)
  BY DEF Suits, Called
<1> HIDE DEF k
<1>4. PICK v \in Sample(p.ret) :
        \E flowed \in {Claim(p.args[i], Arg(k, i).v) : i \in 1 .. k}
                      \cup IF k = 0 THEN {flow} ELSE {} :
          PushFlow(k, Sub("other", p.ret, v), flowed)
  BY <1>3
<1>5. PICK flowed \in {Claim(p.args[i], Arg(k, i).v) : i \in 1 .. k}
                      \cup IF k = 0 THEN {flow} ELSE {} :
        PushFlow(k, Sub("other", p.ret, v), flowed)
  BY <1>4
<1>6. Closed(R) /\ Claim(p.ret, v) \in R
  BY <1>1, Sampled DEF TypesInv
<1>7. Holds(Claim(p.ret, v)) /\ Parts(Claim(p.ret, v)) \subseteq R
  BY <1>6 DEF Closed
<1>8. CASE flowed = flow
  <2>1. flow \in R /\ "other" \in Forms /\ "other" # "literal"
    BY <1>1 DEF TypesInv, Forms
  <2> QED BY <1>1, <1>2, <1>3, <1>5, <1>7, <1>8, <2>1, PushFlows
<1>9. ASSUME NEW i \in 1 .. k, flowed = Claim(p.args[i], Arg(k, i).v)
      PROVE  SoundInv'
  <2>1. Claim(Arg(k, i).t, Arg(k, i).v) \in R
    BY <1>1, <1>2, <1>3, Args
  <2>2. Made(p.args[i]) /\ p.args[i].kind # "Nil"
    BY <1>2
  <2>3. p.args[i] = Arg(k, i).t \/ (p.args[i].kind = "List" /\ Arg(k, i).t.kind = "Nil")
    BY <1>3, <2>2, Written_type
  <2>4. /\ Holds(Claim(p.args[i], Arg(k, i).v))
        /\ Parts(Claim(p.args[i], Arg(k, i).v)) \subseteq R
    BY <1>6, <2>1, <2>2, <2>3, Goes
  <2>5. PushFlow(k, Sub("other", p.ret, v), Claim(p.args[i], Arg(k, i).v))
    BY <1>5, <1>9
  <2> QED BY <1>1, <1>2, <1>3, <1>7, <2>4, <2>5, Flows
<1> QED BY <1>5, <1>8, <1>9

LEMMA User_binary_step ==
  ASSUME SoundInv, User_binary
  PROVE  SoundInv'
<1>1. PICK p \in Prototype :
        /\ p.name = "binary" /\ Room(2)
        /\ \/ Stop("rejected") \/ SoundInv'
           \/ Suits(p) /\ Called(p, 2)
  <2>1. /\ Wrong("panicked", "operator result") => SoundInv'
        /\ Wrong("failed", "pointer operand") => SoundInv'
    BY Fails DEF Failing
  <2> DEFINE l == Arg(2, 1)
             r == Arg(2, 2)
  <2>2. PICK p \in Prototype :
          /\ p.name = "binary" /\ Room(2)
          /\ CASE ~Suits(p) -> Stop("rejected")
               [] Suits(p) /\ Floats(l, r) ->
                    IF p.ret = F64 THEN Called(p, 2) ELSE Wrong("panicked", "operator result")
               [] Suits(p) /\ Ints(l, r) ->
                    IF Integral(get_type(p.ret)) THEN Called(p, 2)
                    ELSE Wrong("panicked", "operator result")
               [] OTHER -> Wrong("failed", "pointer operand")
    BY DEF User_binary
  <2>3. ~(Floats(l, r) /\ Ints(l, r))
    BY DEF Floats, Ints, Integral
  <2> HIDE DEF l, r
  <2>4. CASE ~Suits(p)
    BY <2>2, <2>4
  <2>5. CASE Suits(p) /\ Floats(l, r)
    BY <2>1, <2>2, <2>3, <2>5
  <2>6. CASE Suits(p) /\ Ints(l, r)
    BY <2>1, <2>2, <2>3, <2>6
  <2>7. CASE Suits(p) /\ ~Floats(l, r) /\ ~Ints(l, r)
    BY <2>1, <2>2, <2>7
  <2> QED BY <2>4, <2>5, <2>6, <2>7
<1>2. Len(p.args) = 2
  BY <1>1, PrototypeAssumption
<1> QED BY <1>1, <1>2, Stops, Called_step

LEMMA User_unary_step ==
  ASSUME SoundInv, User_unary
  PROVE  SoundInv'
<1>1. PICK p \in Prototype :
        /\ p.name = "unary" /\ Room(1)
        /\ \/ Stop("rejected") \/ SoundInv'
           \/ Suits(p) /\ Called(p, 1)
  <2>1. Wrong("failed", "pointer operand") => SoundInv'
    BY Fails DEF Failing
  <2>2. PICK p \in Prototype :
          /\ p.name = "unary" /\ Room(1)
          /\ CASE ~Suits(p) -> Stop("rejected")
               [] Suits(p) /\ Arg(1, 1).v.llvm = "ptr" -> Wrong("failed", "pointer operand")
               [] OTHER -> Called(p, 1)
    BY DEF User_unary
  <2>4. CASE ~Suits(p)
    BY <2>2, <2>4
  <2>5. CASE Suits(p) /\ Arg(1, 1).v.llvm = "ptr"
    BY <2>1, <2>2, <2>5
  <2>6. CASE Suits(p) /\ Arg(1, 1).v.llvm # "ptr"
    BY <2>1, <2>2, <2>6
  <2> QED BY <2>4, <2>5, <2>6
<1>2. Len(p.args) = 1
  BY <1>1, PrototypeAssumption
<1> QED BY <1>1, <1>2, Stops, Called_step

LEMMA Call_step ==
  ASSUME SoundInv, Call
  PROVE  SoundInv'
<1>1. PICK p \in Prototype :
        /\ Room(Len(p.args))
        /\ IF Suits(p) THEN Called(p, Len(p.args)) ELSE Stop("rejected")
  BY DEF Call
<1> QED BY <1>1, Stops, Called_step

LEMMA Assign_step ==
  ASSUME SoundInv, Lapses \cap Mistyping = {}, Assign
  PROVE  SoundInv'
<1>1. PICK R : TypesInv(R)
  BY DEF SoundInv
<1> DEFINE left == Arg(2, 1)
           right == Arg(2, 2)
<1>2. Room(2) /\ 2 \in Nat /\ 1 \in 1 .. 2 /\ 2 \in 1 .. 2
  <2>1. Room(2)
    BY Zenon DEF Assign
  <2> QED BY <2>1
<1>3. Closed(R) /\ Claim(left.t, left.v) \in R /\ Claim(right.t, right.v) \in R
  <2>1. \A i \in 1 .. 2 : Claim(Arg(2, i).t, Arg(2, i).v) \in R
    BY <1>1, <1>2, Args
  <2> QED BY <1>1, <1>2, <2>1 DEF TypesInv
<1>4. \/ Stop("rejected") \/ SoundInv'
      \/ /\ Compatible(left.t, right.t)
         /\ PushFlow(2, Sub("other", Unit, Bit), Claim(left.t, right.v))
  <2>1. /\ Wrong("panicked", "no variable") => SoundInv'
        /\ Wrong("panicked", "temporary") => SoundInv'
    BY Fails DEF Failing
  <2>2. CASE left.form \notin {"identifier", "field", "temporary field", "deeper field"}
    BY <2>1, <2>2 DEF Assign
  <2>3. CASE left.form = "temporary field"
    BY <2>3 DEF Assign
  <2>4. CASE left.form = "deeper field"
    BY <2>1, <2>4 DEF Assign
  <2>5. CASE left.form \in {"identifier", "field"}
    BY <2>5 DEF Assign
  <2> QED BY <2>2, <2>3, <2>4, <2>5
<1> HIDE DEF left, right
<1>5. CASE /\ Compatible(left.t, right.t)
           /\ PushFlow(2, Sub("other", Unit, Bit), Claim(left.t, right.v))
  <2>1. Made(left.t)
    <3>1. Holds(Claim(left.t, left.v))
      BY <1>3 DEF Closed
    <3> QED BY <3>1, Fields DEF Holds
  <2>2. left.t = right.t \/ (left.t.kind = "List" /\ right.t.kind = "Nil")
    BY <1>5, <2>1, Compatibly
  <2>3. Holds(Claim(left.t, right.v)) /\ Parts(Claim(left.t, right.v)) \subseteq R
    BY <1>3, <2>1, <2>2, Goes
  <2>4. Holds(Claim(Unit, Bit)) /\ Parts(Claim(Unit, Bit)) \subseteq R
    BY Plain
  <2> QED BY <1>1, <1>2, <1>5, <2>3, <2>4, Flows
<1> QED BY <1>4, <1>5, Stops

-------------------------------------------------------------------------------
(* Control.                                                                *)

LEMMA IfThenElse_step ==
  ASSUME SoundInv, Lapses \cap Mistyping = {}, IfThenElse
  PROVE  SoundInv'
<1>1. PICK R : TypesInv(R)
  BY DEF SoundInv
<1> DEFINE fst == Arg(3, 2)
           snd == Arg(3, 3)
<1>2. Room(3) /\ 3 \in Nat /\ 2 \in 1 .. 3 /\ 3 \in 1 .. 3
  BY DEF IfThenElse
<1>3. Closed(R) /\ Claim(fst.t, fst.v) \in R /\ Claim(snd.t, snd.v) \in R
  <2>1. \A i \in 1 .. 3 : Claim(Arg(3, i).t, Arg(3, i).v) \in R
    BY <1>1, <1>2, Args
  <2> QED BY <1>1, <1>2, <2>1 DEF TypesInv
<1>4. \/ Stop("rejected")
      \/ /\ Compatible(fst.t, snd.t)
         /\ \E v \in {fst.v, snd.v} : Push(3, Sub("other", fst.t, v))
  BY DEF IfThenElse
<1> HIDE DEF fst, snd
<1>5. CASE /\ Compatible(fst.t, snd.t)
           /\ \E v \in {fst.v, snd.v} : Push(3, Sub("other", fst.t, v))
  <2>1. Made(fst.t)
    <3>1. Holds(Claim(fst.t, fst.v))
      BY <1>3 DEF Closed
    <3> QED BY <3>1, Fields DEF Holds
  <2>2. fst.t = snd.t \/ (fst.t.kind = "List" /\ snd.t.kind = "Nil")
    BY <1>5, <2>1, Compatibly
  <2>3. PICK v \in {fst.v, snd.v} : Push(3, Sub("other", fst.t, v))
    BY <1>5
  <2>4. Holds(Claim(fst.t, snd.v)) /\ Parts(Claim(fst.t, snd.v)) \subseteq R
    BY <1>3, <2>1, <2>2, Goes
  <2>5. Holds(Claim(fst.t, fst.v)) /\ Parts(Claim(fst.t, fst.v)) \subseteq R
    BY <1>3 DEF Closed
  <2>6. Holds(Claim(fst.t, v)) /\ Parts(Claim(fst.t, v)) \subseteq R
    BY <2>3, <2>4, <2>5
  <2>7. "other" \in Forms /\ "other" # "literal"
    BY DEF Forms
  <2> QED BY <1>1, <1>2, <2>3, <2>6, <2>7, Pushes
<1> QED BY <1>4, <1>5, Stops

LEMMA ForLoop_step ==
  ASSUME SoundInv, ForLoop
  PROVE  SoundInv'
<1>1. PICK R : TypesInv(R)
  BY DEF SoundInv
<1>2. PICK k \in {3, 4} :
        /\ Room(k)
        /\ Stop("rejected") \/ SoundInv' \/ Push(k, Sub("other", Unit, Bit))
  <2>1. Wrong("panicked", "pointer loop") => SoundInv'
    BY Fails DEF Failing
  <2>2. PICK k \in {3, 4} :
          /\ Room(k)
          /\ LET start == Arg(k, 1)
             IN  CASE Arg(k, 2).t # I64 \/ (k = 4 /\ ~compare_types(Arg(k, 3).t, start.t)) ->
                        Stop("rejected")
                   [] start.v.llvm = "ptr" /\ Arg(k, 2).t = I64
                        /\ (k = 4 => compare_types(Arg(k, 3).t, start.t)) ->
                        Wrong("panicked", "pointer loop")
                   [] OTHER -> Push(k, Sub("other", Unit, Bit))
    BY DEF ForLoop
  <2> DEFINE start == Arg(k, 1)
             bad == Arg(k, 2).t # I64 \/ (k = 4 /\ ~compare_types(Arg(k, 3).t, start.t))
  <2>3. CASE bad
    BY <2>2, <2>3
  <2>4. CASE ~bad /\ start.v.llvm = "ptr"
    BY <2>1, <2>2, <2>4
  <2>5. CASE ~bad /\ start.v.llvm # "ptr"
    BY <2>2, <2>5
  <2> QED BY <2>2, <2>3, <2>4, <2>5
<1>3. CASE Push(k, Sub("other", Unit, Bit))
  <2>1. "other" \in Forms /\ "other" # "literal" /\ k \in Nat
    BY DEF Forms
  <2>2. Holds(Claim(Unit, Bit)) /\ Parts(Claim(Unit, Bit)) \subseteq R
    BY Plain
  <2> QED BY <1>1, <1>2, <1>3, <2>1, <2>2, Pushes
<1> QED BY <1>2, <1>3, Stops

LEMMA Sequence_step ==
  ASSUME SoundInv, Sequence
  PROVE  SoundInv'
<1>1. PICK R : TypesInv(R)
  BY DEF SoundInv
<1>2. Room(2) /\ 2 \in Nat /\ 2 \in 1 .. 2
  BY DEF Sequence
<1>3. Claim(Arg(2, 2).t, Arg(2, 2).v) \in R
  BY <1>1, <1>2, Args
<1>4. "other" \in Forms \ {"literal"}
  BY DEF Forms
<1>5. Push(2, Sub("other", Arg(2, 2).t, Arg(2, 2).v)) \/ Stop("rejected")
  BY DEF Sequence
<1> QED BY <1>1, <1>2, <1>3, <1>4, <1>5, Again, Stops

\* What a function returns suits the type that was written for its result.
LEMMA Return_step ==
  ASSUME SoundInv, Return
  PROVE  SoundInv'
<1>1. PICK R : TypesInv(R)
  BY DEF SoundInv
<1> DEFINE s == stack[1]
<1>2. PICK p \in Prototype :
        \/ Stop("rejected")
        \/ /\ compare_types(p.ret, s.t)
           /\ outcome' = "returned" /\ flow' = Claim(p.ret, s.v)
           /\ UNCHANGED <<stack, size>>
  BY DEF Return
<1>3. Closed(R) /\ Claim(s.t, s.v) \in R
  <2>1. Closed(R) /\ stack \in Seq(Subs(R)) /\ Len(stack) = 1
    BY <1>1 DEF TypesInv, Return, Complete
  <2>2. stack[1] \in Subs(R)
    BY <2>1, ElementOfSeq
  <2> QED BY <2>1, <2>2, Of_sub
<1> HIDE DEF s
<1>4. CASE /\ compare_types(p.ret, s.t)
           /\ outcome' = "returned" /\ flow' = Claim(p.ret, s.v)
           /\ UNCHANGED <<stack, size>>
  <2> DEFINE c == Claim(p.ret, s.v)
             R2 == R \cup {c}
  <2>1. Made(p.ret) /\ p.ret.kind # "Nil"
    BY PrototypeAssumption
  <2>2. p.ret = s.t \/ (p.ret.kind = "List" /\ s.t.kind = "Nil")
    BY <1>4, <2>1, Written_type
  <2>3. Holds(c) /\ Parts(c) \subseteq R
    BY <1>3, <2>1, <2>2, Goes
  <2>4. c = Claim(c.t, c.v)
    BY Fields
  <2> HIDE DEF c
  <2>5. Closed(R2)
    <3>1. \A d \in {c} : d = Claim(d.t, d.v) /\ Holds(d) /\ Parts(d) \subseteq R
      BY <2>3, <2>4
    <3> QED BY <1>3, <3>1, More
  <2>6. TypesInv(R2) /\ c \in R2
    BY <1>1, <2>5, Wider
  <2> HIDE DEF R2
  <2>7. PICK S : TypesInv(S) /\ c \in S
    BY <2>6
  <2>8. flow' \in S
    BY <1>4, <2>7 DEF c
  <2>9. TypesInv(S)'
    BY <1>4, <2>7, <2>8 DEF TypesInv
  <2> QED BY <2>9 DEF SoundInv
<1> QED BY <1>2, <1>4, Stops

-------------------------------------------------------------------------------
(* The expression.                                                         *)

LEMMA First ==
  ASSUME Init
  PROVE  SoundInv
<1> DEFINE c == Claim(Unit, Bit)
           R == Known \cup {c}
<1>1. Holds(c) /\ Parts(c) = {} /\ c = Claim(c.t, c.v)
  BY Plain, Fields
<1> HIDE DEF c
<1>2. Closed(R)
  BY <1>1, KnownAssumption DEF Closed
<1>3. Known \subseteq R /\ c \in R
  OBVIOUS
<1> HIDE DEF R
<1>4. stack \in Seq(Subs(R)) /\ size \in 0 .. MaxSize /\ outcome = "" /\ flow = c
  <2>1. stack = << >> /\ size = 0 /\ outcome = "" /\ flow = c
    BY DEF Init, c
  <2>2. 0 \in 0 .. MaxSize
    BY BoundsAssumption
  <2>3. << >> \in Seq(Subs(R))
    OBVIOUS
  <2> QED BY <2>1, <2>2, <2>3
<1>5. TypesInv(R)
  BY <1>2, <1>3, <1>4 DEF TypesInv
<1> QED BY <1>5 DEF SoundInv

LEMMA Each_step ==
  ASSUME SoundInv, Lapses \cap Mistyping = {}, [Next]_vars
  PROVE  SoundInv'
<1>1. CASE UNCHANGED vars
  BY <1>1 DEF SoundInv, TypesInv, vars
<1>2. CASE Next
  BY <1>2, Literal_step, Name_step, Empty_list_step, Cons_list_step, Cons_tuple_step,
     Cons_step, Car_step, Cdr_step, Empty_step, Projection_step, Arithmetic_step,
     User_binary_step, User_unary_step, Call_step, Assign_step, IfThenElse_step,
     ForLoop_step, Sequence_step, Return_step DEF Next
<1> QED BY <1>1, <1>2

\* Whatever the checker accepts, there is a set of claims that this value is of that
\* type, closed under taking cars, with one for every value that was computed and for
\* the one that last went where a type is expected (type_checking.rs:286-567,
\* codegen.rs:64-84).  However deep a list in a tuple in a list, its cars are of the
\* types that the checker gave them.
THEOREM TypesInvariant == Spec => [](Lapses \cap Mistyping = {} => SoundInv)
<1>1. Init => (Lapses \cap Mistyping = {} => SoundInv)
  BY First
<1>2. (Lapses \cap Mistyping = {} => SoundInv) /\ [Next]_vars => (Lapses \cap Mistyping = {} => SoundInv)'
  BY Each_step
<1> QED BY <1>1, <1>2, PTL DEF Spec

-------------------------------------------------------------------------------
(* What the runs check.                                                    *)

\* Every subexpression has a type that parser and checker can make.
THEOREM TypesTypeCorrect == Spec => [](Lapses \cap Mistyping = {} => TypeOK)
<1>1. SoundInv => TypeOK
  <2> SUFFICES ASSUME SoundInv
               PROVE  TypeOK
    OBVIOUS
  <2>1. PICK R : TypesInv(R)
    BY DEF SoundInv
  <2>2. ASSUME NEW i \in DOMAIN stack
        PROVE  stack[i].form \in Forms /\ Made(stack[i].t)
    <3>1. Closed(R) /\ stack \in Seq(Subs(R))
      BY <2>1 DEF TypesInv
    <3>2. stack[i] \in Subs(R)
      BY <2>2, <3>1, LenProperties, ElementOfSeq
    <3>3. Claim(stack[i].t, stack[i].v) \in R /\ stack[i].form \in Forms
      BY <3>1, <3>2, Of_sub
    <3>4. Holds(Claim(stack[i].t, stack[i].v))
      BY <3>1, <3>3 DEF Closed
    <3> QED BY <3>3, <3>4, Fields DEF Holds
  <2>3. /\ size \in 0 .. MaxSize
        /\ outcome \in {"", "rejected", "failed", "panicked", "aborted", "returned"}
    BY <2>1 DEF TypesInv
  <2> QED BY <2>2, <2>3 DEF TypeOK, Forms
<1> QED BY <1>1, TypesInvariant, PTL

\* A claim of a closed set is true down to the fifth car, as it is to any.
LEMMA Deep ==
  ASSUME NEW R, Closed(R), NEW c \in R
  PROVE  Fits5(c)
<1>1. \A d \in R : Fits1(d)
  BY DEF Closed, Fits1
<1>2. \A d \in R : Fits2(d)
  BY <1>1 DEF Closed, Fits2
<1>3. \A d \in R : Fits3(d)
  BY <1>2 DEF Closed, Fits3
<1>4. \A d \in R : Fits4(d)
  BY <1>3 DEF Closed, Fits4
<1>5. \A d \in R : Fits5(d)
  BY <1>4 DEF Closed, Fits5
<1> QED BY <1>5

\* Every value computed is of the type the checker gave to its expression, and every
\* value that goes to a variable, a field, a parameter or a result is of the type that
\* was declared for it (codegen.rs:64-84, 871-888, 1056-1066; type_checking.rs:8-90).
THEOREM ValuesFitCorrect == Spec => [](Lapses \cap Mistyping = {} => ValuesFit)
<1>1. SoundInv => ValuesFit
  <2> SUFFICES ASSUME SoundInv
               PROVE  ValuesFit
    OBVIOUS
  <2>1. PICK R : TypesInv(R)
    BY DEF SoundInv
  <2>2. Closed(R) /\ stack \in Seq(Subs(R)) /\ flow \in R
    BY <2>1 DEF TypesInv
  <2>3. ASSUME NEW i \in DOMAIN stack
        PROVE  Fits5(Claim(stack[i].t, stack[i].v))
    <3>1. stack[i] \in Subs(R)
      BY <2>2, <2>3, LenProperties, ElementOfSeq
    <3>2. Claim(stack[i].t, stack[i].v) \in R
      BY <2>2, <3>1, Of_sub
    <3> QED BY <2>2, <3>2, Deep
  <2>4. Fits5(flow)
    BY <2>2, Deep
  <2> QED BY <2>3, <2>4 DEF ValuesFit
<1> QED BY <1>1, TypesInvariant, PTL

\* What the checker accepts, the generator generates: it neither fails (codegen.rs:945)
\* nor comes to what it takes for unreachable (codegen.rs:90).
THEOREM GeneratedCorrect == Spec => [](Lapses \cap (Mistyping \cup Failing) = {} => Generated)
<1>1. SoundInv /\ Lapses \cap Failing = {} => Generated
  BY DEF SoundInv, TypesInv, Generated
<1>2. (Lapses \cap Mistyping = {} => SoundInv)
      => (Lapses \cap (Mistyping \cup Failing) = {} => Generated)
  BY <1>1
<1> QED BY <1>2, TypesInvariant, PTL
===============================================================================
