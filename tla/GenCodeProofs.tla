---------------------------- MODULE GenCodeProofs ----------------------------
(***************************************************************************)
(* The roots that generated code makes are enough (GenCode!NothingLost), for *)
(* every arena, any depth of expressions and calls, any number of roots.     *)
(*                                                                         *)
(* NothingLost says of a state that nothing in use is free.  It is not       *)
(* inductive: a collection in the next gc_new frees whatever the roots do    *)
(* not reach, so one must know of every register from which root its cell    *)
(* is reached, and that this root stays what it is as long as the register   *)
(* is in use.  A register holds                                             *)
(*   - the first cell of a literal or of an outermost cons, which is in an    *)
(*     aux_alloca that no assignment can name (AuxRoots);                    *)
(*   - the last cell of a literal, in the row of the first (RowIn);           *)
(*   - a pointer read from a variable or a cell, reached from the roots that  *)
(*     were there when it was read (KeptRoots), unless a store to a variable  *)
(*     or a cell cuts the way, the lapse "reassigned";                        *)
(*   - the result of a call or the cell of a nested cons, which no root       *)
(*     reaches: the lapses "result" and "nested".                            *)
(* A loop forgets the roots of an iteration, a var gives a name to a root, a  *)
(* call adds a frame and a return removes one: Shape relates the constructs   *)
(* in todo to the roots they rely on, Kept the registers to these roots.      *)
(***************************************************************************)
EXTENDS GenCode, SequenceTheorems, FunctionTheorems, FiniteSetTheorems, TLAPS

-------------------------------------------------------------------------------
(* What cells name, and what is reached from them, in the heap o.           *)

NamesIn(o, c) ==
  IF o[c] = None THEN {}
  ELSE Cell \cap ({o[c].cdr} \cup IF o[c].is_pointer THEN {o[c].car} ELSE {})

CdrIn(o, c) == IF o[c] = None THEN {} ELSE Cell \cap {o[c].cdr}

ReachIn(o, R) ==
  {c \in Cell : \A S \in SUBSET Cell :
                  R \subseteq S /\ (\A d \in S : NamesIn(o, d) \subseteq S) => c \in S}

RowIn(o, p) ==
  {c \in Cell : \A S \in SUBSET Cell :
                  (Cell \cap {p}) \subseteq S /\ (\A d \in S : CdrIn(o, d) \subseteq S) => c \in S}

RootedIn(r) == Cell \cap UNION {{r[k][s] : s \in DOMAIN r[k]} : k \in DOMAIN r}
Alloc(o) == {c \in Cell : o[c] # None}

\* The operators of Heap and GenCode are these, on the heap of the state.
LEMMA HeapOperators ==
  /\ \A R : Reach(R) = ReachIn(obj, R)
  /\ \A p : Row(p) = RowIn(obj, p)
  /\ Rooted = RootedIn(roots)
<1>1. \A R : Reach(R) = ReachIn(obj, R)
  BY DEF Reach, Closed, Names, ReachIn, NamesIn
<1>2. ASSUME NEW p PROVE Row(p) = RowIn(obj, p)
  <2>1. \A d : CdrIn(obj, d) = IF obj[d] = None THEN {} ELSE {obj[d].cdr} \cap Cell
    BY DEF CdrIn
  <2>2. ASSUME NEW S \in SUBSET Cell
        PROVE  (\A d \in S : CdrIn(obj, d) \subseteq S)
                 <=> (\A d \in S : obj[d] # None => {obj[d].cdr} \cap Cell \subseteq S)
    BY DEF CdrIn
  <2> QED BY <2>2 DEF Row, RowIn
<1> QED BY <1>1, <1>2 DEF Rooted, RootedIn

\* What is reached has the roots, and everything its cells name.
LEMMA ReachClosed ==
  ASSUME NEW o, NEW R \in SUBSET Cell
  PROVE  /\ R \subseteq ReachIn(o, R) /\ ReachIn(o, R) \subseteq Cell
         /\ \A d \in ReachIn(o, R) : NamesIn(o, d) \subseteq ReachIn(o, R)
<1>1. \A d : NamesIn(o, d) \subseteq Cell
  BY DEF NamesIn
<1> QED BY <1>1 DEF ReachIn

\* It is the least such set.
LEMMA ReachLeast ==
  ASSUME NEW o, NEW R, NEW S \in SUBSET Cell, R \subseteq S, \A d \in S : NamesIn(o, d) \subseteq S
  PROVE  ReachIn(o, R) \subseteq S
BY DEF ReachIn

\* More roots and more links reach more.
LEMMA ReachGrows ==
  ASSUME NEW o, NEW o2, NEW R \in SUBSET Cell, NEW R2 \in SUBSET Cell, R \subseteq R2,
         \A d \in ReachIn(o, R) : NamesIn(o, d) \subseteq NamesIn(o2, d)
  PROVE  ReachIn(o, R) \subseteq ReachIn(o2, R2)
<1> DEFINE S == ReachIn(o, R) \cap ReachIn(o2, R2)
<1>1. S \in SUBSET Cell /\ R \subseteq S
  BY ReachClosed
<1>2. \A d \in S : NamesIn(o, d) \subseteq S
  BY ReachClosed
<1> QED BY <1>1, <1>2, ReachLeast

\* A row has its first cell, and with a cell the next one.
LEMMA RowClosed ==
  ASSUME NEW o, NEW p \in Cell
  PROVE  /\ p \in RowIn(o, p) /\ RowIn(o, p) \subseteq Cell
         /\ \A d \in RowIn(o, p) : CdrIn(o, d) \subseteq RowIn(o, p)
<1>1. \A d : CdrIn(o, d) \subseteq Cell
  BY DEF CdrIn
<1> QED BY <1>1 DEF RowIn

\* It is the least such set.
LEMMA RowLeast ==
  ASSUME NEW o, NEW p, NEW S \in SUBSET Cell, p \in S, \A d \in S : CdrIn(o, d) \subseteq S
  PROVE  RowIn(o, p) \subseteq S
BY DEF RowIn

\* No row begins at what is no cell.
LEMMA RowOfNull ==
  ASSUME NEW o, NEW p, p \notin Cell
  PROVE  RowIn(o, p) = {}
<1>1. {} \in SUBSET Cell /\ Cell \cap {p} = {}
  OBVIOUS
<1> QED BY <1>1 DEF RowIn

\* A row is reached when its first cell is.
LEMMA RowReached ==
  ASSUME NEW o, NEW R \in SUBSET Cell, NEW p \in ReachIn(o, R)
  PROVE  RowIn(o, p) \subseteq ReachIn(o, R)
<1>1. \A d : CdrIn(o, d) \subseteq NamesIn(o, d)
  BY DEF CdrIn, NamesIn
<1> QED BY <1>1, ReachClosed, RowLeast

\* More links make longer rows.
LEMMA RowGrows ==
  ASSUME NEW o, NEW o2, NEW p \in Cell,
         \A d \in RowIn(o, p) : CdrIn(o, d) \subseteq CdrIn(o2, d)
  PROVE  RowIn(o, p) \subseteq RowIn(o2, p)
<1> DEFINE S == RowIn(o, p) \cap RowIn(o2, p)
<1>1. S \in SUBSET Cell /\ p \in S
  BY RowClosed
<1>2. \A d \in S : CdrIn(o, d) \subseteq S
  BY RowClosed
<1> QED BY <1>1, <1>2, RowLeast

-------------------------------------------------------------------------------
(* The pointers among the arguments of a call.                              *)

\* The arguments that get a root of the callee are among the registers, and none is a
\* scalar (codegen.rs:1140-1153).
LEMMA PointersType ==
  ASSUME NEW S, NEW regs \in Seq(S)
  PROVE  Pointers(regs) \in Seq({regs[j] : j \in DOMAIN regs} \ {Scalar})
<1> DEFINE at == {j \in DOMAIN regs : regs[j] # Scalar}
           Rank == [j \in at |-> Cardinality({h \in at : h <= j})]
           Nth(i) == CHOOSE j \in at : Cardinality({h \in at : h <= j}) = i
           T == {regs[j] : j \in DOMAIN regs} \ {Scalar}
<1>1. DOMAIN regs = 1 .. Len(regs) /\ Len(regs) \in Nat
  BY LenProperties
<1>2. IsFiniteSet(at) /\ Cardinality(at) \in Nat /\ at \subseteq Nat
  <2>1. IsFiniteSet(1 .. Len(regs)) /\ at \subseteq 1 .. Len(regs) /\ 1 .. Len(regs) \subseteq Nat
    BY <1>1, FS_Interval
  <2> HIDE DEF at
  <2> QED BY <2>1, FS_Subset, FS_CardinalityType
<1>3. ASSUME NEW j \in at
      PROVE  /\ IsFiniteSet({h \in at : h <= j}) /\ Rank[j] \in 1 .. Cardinality(at)
             /\ Rank[j] = Cardinality({h \in at : h <= j})
  <2> DEFINE B == {h \in at : h <= j}
  <2>1. IsFiniteSet(B) /\ Cardinality(B) <= Cardinality(at) /\ Cardinality(B) \in Nat
    BY <1>2, FS_Subset, FS_CardinalityType
  <2>2. j \in B
    BY <1>2
  <2>3. Cardinality(B) # 0
    BY <2>1, <2>2, FS_EmptySet
  <2>4. Rank[j] = Cardinality(B)
    OBVIOUS
  <2> HIDE DEF B, Rank, at
  <2>5. Rank[j] \in 1 .. Cardinality(at)
    BY <1>2, <2>1, <2>3, <2>4
  <2> QED BY <2>1, <2>4, <2>5 DEF B
<1>4. ASSUME NEW i \in at, NEW j \in at, i < j
      PROVE  Rank[i] # Rank[j]
  <2> DEFINE A == {h \in at : h <= i}
             B == {h \in at : h <= j}
  <2>1. A \in SUBSET B /\ j \in B /\ j \notin A
    BY <1>2, <1>4
  <2>2. IsFiniteSet(B)
    BY <1>3
  <2>3. Cardinality(A) # Cardinality(B)
    BY <2>1, <2>2, FS_Subset
  <2> QED BY <1>3, <2>3
<1> HIDE DEF Rank
<1>5. Rank \in [at -> 1 .. Cardinality(at)]
  BY <1>3 DEF Rank
<1>6. \A i, j \in at : Rank[i] = Rank[j] => i = j
  <2>1. \A i, j \in at : i < j \/ j < i \/ i = j
    BY <1>2
  <2> QED BY <1>4, <2>1
<1>7. Rank \in Injection(at, 1 .. Cardinality(at))
  BY <1>5, <1>6 DEF Injection, IsInjective
<1>8. IsFiniteSet(1 .. Cardinality(at)) /\ Cardinality(1 .. Cardinality(at)) = Cardinality(at)
  BY <1>2, FS_Interval
<1>9. Rank \in Surjection(at, 1 .. Cardinality(at))
  BY <1>7, <1>8, FS_Injection
<1>10. ASSUME NEW i \in 1 .. Cardinality(at)
       PROVE  Nth(i) \in at
  <2>1. \E j \in at : Rank[j] = i
    BY <1>9 DEF Surjection
  <2>2. \E j \in at : Cardinality({h \in at : h <= j}) = i
    BY <1>3, <2>1
  <2> HIDE DEF at
  <2> QED BY <2>2
<1>11. Pointers(regs) = [i \in 1 .. Cardinality(at) |-> regs[Nth(i)]]
  BY DEF Pointers
<1> HIDE DEF Nth
<1>12. \A i \in 1 .. Cardinality(at) : regs[Nth(i)] \in T
  BY <1>10
<1> HIDE DEF at, T
<1>13. [i \in 1 .. Cardinality(at) |-> regs[Nth(i)]] \in Seq(T)
  BY <1>2, <1>12
<1> QED BY <1>11, <1>13 DEF T
-------------------------------------------------------------------------------
(* Frames and the constructs they belong to.                                *)

Constructs ==
  [op : {"body", "pair", "cons", "nested", "call", "load", "var", "in", "seq",
         "for", "assign", "store"},
   regs : Seq(Pointer \cup {Scalar}), slot : Nat,
   got : SUBSET {"literal", "built", "read", "result"}]

\* The number of the function that construct k of td belongs to: 1 is the outermost.
Bodies(td, k) == {l \in 1 .. k : td[l].op = "body"}
BodyNo(td, k) == Cardinality(Bodies(td, k))

\* The number of a construct's function is a number.
LEMMA BodyNoType ==
  ASSUME NEW td, NEW k \in Nat
  PROVE  IsFiniteSet(Bodies(td, k)) /\ BodyNo(td, k) \in Nat
<1>1. IsFiniteSet(1 .. k) /\ Bodies(td, k) \subseteq 1 .. k
  BY FS_Interval DEF Bodies
<1> QED BY <1>1, FS_Subset, FS_CardinalityType DEF BodyNo

\* No function is open before the first construct.
LEMMA BodyNoNone ==
  ASSUME NEW td
  PROVE  BodyNo(td, 0) = 0
<1>1. Bodies(td, 0) = {}
  BY DEF Bodies
<1> QED BY <1>1, FS_EmptySet DEF BodyNo

\* A body begins the next function, any other construct belongs to the one before it.
LEMMA BodyNoNext ==
  ASSUME NEW td, NEW k \in Nat
  PROVE  BodyNo(td, k + 1) = IF td[k + 1].op = "body" THEN BodyNo(td, k) + 1 ELSE BodyNo(td, k)
<1>1. IsFiniteSet(Bodies(td, k))
  BY BodyNoType
<1>2. k + 1 \notin Bodies(td, k)
  BY DEF Bodies
<1>3. Bodies(td, k + 1) = IF td[k + 1].op = "body" THEN Bodies(td, k) \cup {k + 1} ELSE Bodies(td, k)
  <2>1. \A l : l \in 1 .. k + 1 <=> (l \in 1 .. k \/ l = k + 1)
    OBVIOUS
  <2> QED BY <2>1 DEF Bodies
<1> QED BY <1>1, <1>3, <1>2, FS_AddElement DEF BodyNo

\* Later constructs belong to later functions.
LEMMA BodyNoGrows ==
  ASSUME NEW td, NEW k \in Nat, NEW l \in Nat, k <= l
  PROVE  BodyNo(td, k) <= BodyNo(td, l)
<1>1. IsFiniteSet(Bodies(td, l))
  BY BodyNoType
<1>2. Bodies(td, k) \in SUBSET Bodies(td, l)
  BY DEF Bodies
<1> QED BY <1>1, <1>2, FS_Subset DEF BodyNo

\* The numbers depend on the kinds of the constructs only.
LEMMA BodyNoSame ==
  ASSUME NEW td, NEW td2, NEW k \in Nat, \A l \in 1 .. k : td2[l].op = td[l].op
  PROVE  BodyNo(td2, k) = BodyNo(td, k)
<1>1. Bodies(td2, k) = Bodies(td, k)
  BY DEF Bodies
<1> QED BY <1>1 DEF BodyNo

\* Frame i of the shadow stack r, counted from the outermost.
FrameAt(r, i) == r[Len(r) + 1 - i]

Owns(t, a) == (t.op = "body" /\ a \in 1 .. t.slot) \/ (t.op = "in" /\ a = t.slot)

\* The root has a name now.
NamedSlot(td, i, a) == \E l \in 1 .. Len(td) : BodyNo(td, l) = i /\ Owns(td[l], a)

\* No loop inside construct k forgets the root.
KeptSlot(r, td, k, i, a) ==
  /\ i \in 1 .. BodyNo(td, k)
  /\ a \in DOMAIN FrameAt(r, i)
  /\ \A l \in k + 1 .. Len(td) : td[l].op = "for" /\ BodyNo(td, l) = i => a <= td[l].slot

\* The cells in such roots, and those that no assignment can replace.
KeptRoots(r, td, k) ==
  {c \in Cell : \E i \in 1 .. BodyNo(td, k) : \E a \in DOMAIN FrameAt(r, i) :
                  KeptSlot(r, td, k, i, a) /\ FrameAt(r, i)[a] = c}

AuxRoots(r, td, k) ==
  {c \in Cell : \E i \in 1 .. BodyNo(td, k) : \E a \in DOMAIN FrameAt(r, i) :
                  /\ KeptSlot(r, td, k, i, a) /\ ~NamedSlot(td, i, a)
                  /\ FrameAt(r, i)[a] = c}

\* The cell c, which came from G, stays allocated as long as construct k is open.
KeptCell(o, r, td, k, G, c) ==
  \/ c \in AuxRoots(r, td, k)
  \/ "read" \in G /\ c \in ReachIn(o, KeptRoots(r, td, k))

\* What a construct has in registers.
Registers(t) ==
  /\ t.op \in {"body", "var", "in", "seq", "for", "assign"} => t.regs = << >>
  /\ t.op = "pair" => t.regs = << >> \/ (Len(t.regs) = 2 /\ t.regs[1] \in Cell /\ t.regs[2] \in Cell)
  /\ t.op \in {"cons", "nested", "load"} => t.regs = << >> \/ (Len(t.regs) = 1 /\ t.regs[1] \in Cell)
  /\ t.op = "store" => Len(t.regs) = 1 /\ t.regs[1] \in Cell /\ t.got = {"read"}
  /\ t.op \in {"pair", "cons", "nested"} => t.got = {}

Formed(r, td, k) ==
  LET t == td[k]
      i == BodyNo(td, k)
  IN  /\ k = 1 => t.op = "body"
      /\ t.op = "body" /\ k > 1 => td[k - 1].op = "call"
      /\ t.op = "nested" => k > 1 /\ td[k - 1].op \in {"cons", "nested"} /\ td[k - 1].regs # << >>
      /\ t.op \in {"body", "for"} => \A a \in 1 .. t.slot : KeptSlot(r, td, k, i, a)
      /\ t.op = "in" => KeptSlot(r, td, k, i, t.slot)
      /\ t.op = "assign" => \E l \in 1 .. k - 1 : BodyNo(td, l) = i /\ Owns(td[l], t.slot)
      /\ Registers(t)

Shape(r, td) == Len(r) = BodyNo(td, Len(td)) /\ \A k \in 1 .. Len(td) : Formed(r, td, k)

\* Nothing that can be reached is free.
Sound(o, r, td, v) ==
  /\ \A c \in Alloc(o) : NamesIn(o, c) \subseteq Alloc(o) /\ (o[c].is_pointer <=> o[c].car \in Pointer)
  /\ RootedIn(r) \subseteq Alloc(o)
  /\ \A k \in 1 .. Len(td) : \A j \in 1 .. Len(td[k].regs) : td[k].regs[j] \in Cell => td[k].regs[j] \in Alloc(o)
  /\ v \in Cell => v \in Alloc(o)

\* A construct that waits for the tail of a list.
AwaitsTail(t) == t.op \in {"cons", "nested"} /\ t.regs # << >>

ValKept(o, r, td, v, f) ==
  /\ td = << >> => v = None
  /\ v \in Cell => \/ f = "result"
                   \/ AwaitsTail(td[Len(td)])
                   \/ KeptCell(o, r, td, Len(td), {f}, v)

RegKept(o, r, td, k) ==
  LET t == td[k]
  IN  t.op # "nested" /\ "result" \notin t.got =>
        \A j \in 1 .. Len(t.regs) : t.regs[j] \in Cell =>
          IF t.op = "pair" /\ j = 2 THEN t.regs[2] \in RowIn(o, t.regs[1])
                                  ELSE KeptCell(o, r, td, k, t.got, t.regs[j])

\* A literal or a cons that is not complete, and its last cell.
Making(t) == t.op \in {"pair", "cons", "nested"} /\ t.regs # << >>
LastCell(t) == t.regs[Len(t.regs)]

Ends(o, td) ==
  \A k \in 1 .. Len(td) : Making(td[k]) =>
    /\ o[LastCell(td[k])] # None => o[LastCell(td[k])].cdr = None
    /\ \A l \in 1 .. Len(td) : Making(td[l]) /\ l # k => LastCell(td[l]) # LastCell(td[k])

Kept(o, r, td, v, f) ==
  /\ Sound(o, r, td, v) /\ ValKept(o, r, td, v, f) /\ Ends(o, td)
  /\ \A k \in 1 .. Len(td) : RegKept(o, r, td, k)

\* Up to construct m, the constructs in td2 are those in td,
SameUpTo(td, td2, m) ==
  /\ m \in Nat /\ m <= Len(td) /\ m <= Len(td2)
  /\ \A l \in 1 .. m : td2[l].op = td[l].op /\ td2[l].slot = td[l].slot

\* and what they can rely on among the roots r still is in r2,
Carries(r, td, r2, td2, m) ==
  \A i, a : KeptSlot(r, td, m, i, a) =>
    KeptSlot(r2, td2, m, i, a) /\ FrameAt(r2, i)[a] = FrameAt(r, i)[a]

\* with no more names than it had.
NoNewNames(r, td, td2, m) ==
  \A i, a : KeptSlot(r, td, m, i, a) /\ ~NamedSlot(td, i, a) => ~NamedSlot(td2, i, a)

\* What is kept for a construct is kept for those outside it.
LEMMA CarriesBelow ==
  ASSUME NEW r, NEW r2, NEW td, NEW td2, NEW m, SameUpTo(td, td2, m), Len(td) \in Nat, Len(td2) \in Nat,
         Carries(r, td, r2, td2, m), NEW k \in 0 .. m
  PROVE  Carries(r, td, r2, td2, k)
<1> SUFFICES ASSUME NEW i, NEW a, KeptSlot(r, td, k, i, a)
             PROVE  KeptSlot(r2, td2, k, i, a) /\ FrameAt(r2, i)[a] = FrameAt(r, i)[a]
  BY DEF Carries
<1>1. k \in Nat /\ m \in Nat /\ k <= m /\ m <= Len(td) /\ m <= Len(td2)
  BY DEF SameUpTo
<1>2. \A l \in 0 .. m : BodyNo(td2, l) = BodyNo(td, l)
  BY <1>1, BodyNoSame DEF SameUpTo
<1>3. i \in 1 .. BodyNo(td, m)
  BY <1>1, BodyNoGrows, BodyNoType DEF KeptSlot
<1>4. \A l \in m + 1 .. Len(td) : l \in k + 1 .. Len(td)
  BY <1>1
<1>5. KeptSlot(r, td, m, i, a)
  BY <1>3, <1>4 DEF KeptSlot
<1>6. KeptSlot(r2, td2, m, i, a) /\ FrameAt(r2, i)[a] = FrameAt(r, i)[a]
  BY <1>5 DEF Carries
<1>7. ASSUME NEW l \in k + 1 .. Len(td2), td2[l].op = "for", BodyNo(td2, l) = i
      PROVE  a <= td2[l].slot
  <2>1. CASE l <= m
    <3>1. l \in 1 .. m /\ l \in 0 .. m /\ l \in k + 1 .. Len(td)
      BY <1>1, <2>1
    <3>2. td[l].op = "for" /\ BodyNo(td, l) = i /\ td2[l].slot = td[l].slot
      BY <1>2, <1>7, <3>1 DEF SameUpTo
    <3>3. a <= td[l].slot
      BY <3>1, <3>2 DEF KeptSlot
    <3> QED BY <3>2, <3>3
  <2>2. CASE ~(l <= m)
    <3>1. l \in m + 1 .. Len(td2)
      BY <1>1, <2>2
    <3> QED BY <1>6, <1>7, <3>1 DEF KeptSlot
  <2> QED BY <2>1, <2>2
<1>8. i \in 1 .. BodyNo(td2, k) /\ a \in DOMAIN FrameAt(r2, i)
  <2>1. i \in 1 .. BodyNo(td, k)
    BY DEF KeptSlot
  <2>2. BodyNo(td2, k) = BodyNo(td, k)
    BY <1>2
  <2> QED BY <1>6, <2>1, <2>2 DEF KeptSlot
<1> QED BY <1>6, <1>7, <1>8 DEF KeptSlot

\* When no root of construct m's function or of its callers gets a name, none of an
\* outer construct does.
LEMMA NamesBelow ==
  ASSUME NEW r, NEW td, NEW td2, NEW m, SameUpTo(td, td2, m), Len(td) \in Nat, Len(td2) \in Nat,
         NoNewNames(r, td, td2, m), NEW k \in 0 .. m
  PROVE  NoNewNames(r, td, td2, k)
<1> SUFFICES ASSUME NEW i, NEW a, KeptSlot(r, td, k, i, a), ~NamedSlot(td, i, a)
             PROVE  ~NamedSlot(td2, i, a)
  BY DEF NoNewNames
<1>1. k \in Nat /\ m \in Nat /\ k <= m /\ m <= Len(td) /\ m <= Len(td2)
  BY DEF SameUpTo
<1>2. i \in 1 .. BodyNo(td, m)
  BY <1>1, BodyNoGrows, BodyNoType DEF KeptSlot
<1>3. \A l \in m + 1 .. Len(td) : l \in k + 1 .. Len(td)
  BY <1>1
<1>4. KeptSlot(r, td, m, i, a)
  BY <1>2, <1>3 DEF KeptSlot
<1> QED BY <1>4 DEF NoNewNames

\* What construct k keeps, it keeps on, whatever becomes of those inside it.
LEMMA RootsCarry ==
  ASSUME NEW r, NEW r2, NEW td, NEW td2, NEW m, SameUpTo(td, td2, m), Len(td) \in Nat, Len(td2) \in Nat,
         Carries(r, td, r2, td2, m), NEW k \in 0 .. m
  PROVE  /\ KeptRoots(r, td, k) \subseteq KeptRoots(r2, td2, k)
         /\ NoNewNames(r, td, td2, m) => AuxRoots(r, td, k) \subseteq AuxRoots(r2, td2, k)
<1>1. Carries(r, td, r2, td2, k)
  BY CarriesBelow
<1>2. NoNewNames(r, td, td2, m) => NoNewNames(r, td, td2, k)
  BY NamesBelow
<1>3. KeptRoots(r, td, k) \subseteq KeptRoots(r2, td2, k)
  BY <1>1 DEF KeptRoots, Carries, KeptSlot
<1>4. ASSUME NoNewNames(r, td, td2, m), NEW c \in AuxRoots(r, td, k)
      PROVE  c \in AuxRoots(r2, td2, k)
  <2>1. PICK i \in 1 .. BodyNo(td, k) : \E a \in DOMAIN FrameAt(r, i) :
                /\ KeptSlot(r, td, k, i, a) /\ ~NamedSlot(td, i, a)
                /\ FrameAt(r, i)[a] = c
    BY <1>4 DEF AuxRoots
  <2>2. PICK a \in DOMAIN FrameAt(r, i) :
                /\ KeptSlot(r, td, k, i, a) /\ ~NamedSlot(td, i, a)
                /\ FrameAt(r, i)[a] = c
    BY <2>1
  <2>3. /\ KeptSlot(r2, td2, k, i, a) /\ FrameAt(r2, i)[a] = c
        /\ ~NamedSlot(td2, i, a)
    BY <1>1, <1>2, <1>4, <2>2 DEF Carries, NoNewNames
  <2>4. c \in Cell
    BY <1>4 DEF AuxRoots
  <2> QED BY <2>3, <2>4 DEF AuxRoots, KeptSlot
<1> QED BY <1>3, <1>4

\* A cell that stays allocated goes on doing so when its roots and links are carried along.
LEMMA CellCarries ==
  ASSUME NEW r, NEW r2, NEW td, NEW td2, NEW m, SameUpTo(td, td2, m), Len(td) \in Nat, Len(td2) \in Nat,
         Carries(r, td, r2, td2, m), NoNewNames(r, td, td2, m), NEW k \in 0 .. m, NEW G, NEW c,
         NEW o, NEW o2, KeptCell(o, r, td, k, G, c),
         \A d \in ReachIn(o, KeptRoots(r, td, k)) : NamesIn(o, d) \subseteq NamesIn(o2, d)
  PROVE  KeptCell(o2, r2, td2, k, G, c)
<1>1. /\ KeptRoots(r, td, k) \subseteq KeptRoots(r2, td2, k)
      /\ AuxRoots(r, td, k) \subseteq AuxRoots(r2, td2, k)
  BY RootsCarry
<1>2. KeptRoots(r, td, k) \in SUBSET Cell /\ KeptRoots(r2, td2, k) \in SUBSET Cell
  BY DEF KeptRoots
<1>3. ReachIn(o, KeptRoots(r, td, k)) \subseteq ReachIn(o2, KeptRoots(r2, td2, k))
  BY <1>1, <1>2, ReachGrows
<1> QED BY <1>1, <1>3 DEF KeptCell

-------------------------------------------------------------------------------
(* The shadow stack, as calls and new roots change it.                      *)

\* The innermost frame is the first of the chain.
LEMMA FrameTop ==
  ASSUME NEW S, NEW r \in Seq(S)
  PROVE  /\ Len(r) \in Nat
         /\ \A i \in 1 .. Len(r) : FrameAt(r, i) \in S
         /\ Len(r) >= 1 => FrameAt(r, Len(r)) = r[1] /\ r[1] \in S
<1>1. Len(r) \in Nat /\ \A j \in 1 .. Len(r) : r[j] \in S
  BY LenProperties, ElementOfSeq
<1>2. \A i \in 1 .. Len(r) : Len(r) + 1 - i \in 1 .. Len(r)
  BY <1>1
<1>3. Len(r) + 1 - Len(r) = 1 /\ (Len(r) >= 1 => 1 \in 1 .. Len(r))
  BY <1>1
<1> QED BY <1>1, <1>2, <1>3 DEF FrameAt

\* A change of the innermost frame leaves the others.
LEMMA FrameChanged ==
  ASSUME NEW S, NEW r \in Seq(S), Len(r) >= 1, NEW r2 \in Seq(S), Len(r2) = Len(r),
         \A j \in 2 .. Len(r) : r2[j] = r[j]
  PROVE  /\ FrameAt(r2, Len(r)) = r2[1]
         /\ \A i \in 1 .. Len(r) - 1 : FrameAt(r2, i) = FrameAt(r, i)
<1>1. Len(r) \in Nat
  BY LenProperties
<1>2. Len(r) + 1 - Len(r) = 1
  BY <1>1
<1>3. \A i \in 1 .. Len(r) - 1 : Len(r) + 1 - i \in 2 .. Len(r)
  BY <1>1
<1> QED BY <1>2, <1>3 DEF FrameAt

\* A function on 1 .. n is a sequence of length n.
LEMMA FunctionSeq ==
  ASSUME NEW S, NEW n \in Nat, NEW f \in [1 .. n -> S]
  PROVE  f \in Seq(S) /\ Len(f) = n
<1>1. f \in Seq(S) /\ DOMAIN f = 1 .. n
  OBVIOUS
<1> QED BY <1>1, LenProperties

\* The contents of the innermost frame become x.
LEMMA FrameExcept ==
  ASSUME NEW r \in Seq(Seq(Pointer)), Len(r) >= 1, NEW x \in Seq(Pointer)
  PROVE  LET r2 == [r EXCEPT ![1] = x]
         IN  /\ r2 \in Seq(Seq(Pointer)) /\ Len(r2) = Len(r) /\ FrameAt(r2, Len(r)) = x
             /\ \A i \in 1 .. Len(r) - 1 : FrameAt(r2, i) = FrameAt(r, i)
<1> DEFINE r2 == [r EXCEPT ![1] = x]
           T == Seq(Pointer)
<1>1. Len(r) \in Nat /\ DOMAIN r = 1 .. Len(r) /\ r \in [1 .. Len(r) -> T] /\ r \in Seq(T) /\ x \in T
  BY LenProperties
<1> HIDE DEF T
<1>2. r2 \in [1 .. Len(r) -> T] /\ r2[1] = x /\ \A j \in 2 .. Len(r) : r2[j] = r[j]
  BY <1>1
<1> HIDE DEF r2
<1>3. Len(r) \in Nat
  BY <1>1
<1>4. r2 \in Seq(T) /\ Len(r2) = Len(r)
  BY <1>2, <1>3, FunctionSeq
<1>5. FrameAt(r2, Len(r)) = r2[1] /\ \A i \in 1 .. Len(r) - 1 : FrameAt(r2, i) = FrameAt(r, i)
  BY <1>1, <1>2, <1>4, FrameChanged
<1> QED BY <1>2, <1>4, <1>5 DEF T, r2

\* gc_push: the frames counted from the outermost stay.
LEMMA FramePushed ==
  ASSUME NEW S, NEW r \in Seq(S), NEW x \in S
  PROVE  LET r2 == <<x>> \o r
         IN  /\ r2 \in Seq(S) /\ Len(r2) = Len(r) + 1 /\ FrameAt(r2, Len(r) + 1) = x
             /\ \A i \in 1 .. Len(r) : FrameAt(r2, i) = FrameAt(r, i)
<1> DEFINE r2 == <<x>> \o r
<1>1. Len(r) \in Nat /\ <<x>> \in Seq(S) /\ Len(<<x>>) = 1 /\ <<x>>[1] = x
  BY LenProperties
<1> HIDE DEF r2
<1>2. /\ r2 \in Seq(S) /\ Len(r2) = Len(r) + 1 /\ r2[1] = x
      /\ \A j \in 2 .. Len(r) + 1 : r2[j] = r[j - 1]
  BY <1>1, ConcatProperties DEF r2
<1>3. (Len(r) + 1) + 1 - (Len(r) + 1) = 1
  BY <1>1
<1>4. \A i \in 1 .. Len(r) : /\ (Len(r) + 1) + 1 - i \in 2 .. Len(r) + 1
                            /\ ((Len(r) + 1) + 1 - i) - 1 = Len(r) + 1 - i
  BY <1>1
<1>5. FrameAt(r2, Len(r) + 1) = x /\ \A i \in 1 .. Len(r) : FrameAt(r2, i) = FrameAt(r, i)
  BY <1>2, <1>3, <1>4 DEF FrameAt
<1> QED BY <1>2, <1>5 DEF r2

\* gc_pop: so they do.
LEMMA FramePopped ==
  ASSUME NEW S, NEW r \in Seq(S), Len(r) >= 1
  PROVE  /\ Tail(r) \in Seq(S) /\ Len(Tail(r)) = Len(r) - 1
         /\ \A i \in 1 .. Len(r) - 1 : FrameAt(Tail(r), i) = FrameAt(r, i)
<1>1. Len(r) \in Nat /\ r # << >>
  BY LenProperties
<1>2. /\ Tail(r) \in Seq(S) /\ Len(Tail(r)) = Len(r) - 1
      /\ \A j \in 1 .. Len(r) - 1 : Tail(r)[j] = r[j + 1]
  BY <1>1, HeadTailProperties
<1>3. \A i \in 1 .. Len(r) - 1 : /\ (Len(r) - 1) + 1 - i \in 1 .. Len(r) - 1
                                /\ ((Len(r) - 1) + 1 - i) + 1 = Len(r) + 1 - i
  BY <1>1
<1> QED BY <1>2, <1>3 DEF FrameAt

\* The constructs without the last n.
LEMMA FirstOnes ==
  ASSUME NEW S, NEW s \in Seq(S), NEW n \in 0 .. Len(s)
  PROVE  /\ SubSeq(s, 1, n) \in Seq(S) /\ Len(SubSeq(s, 1, n)) = n
         /\ \A k \in 1 .. n : SubSeq(s, 1, n)[k] = s[k]
<1>1. Len(s) \in Nat /\ n \in Nat /\ n <= Len(s)
  BY LenProperties
<1>2. \A k \in 1 .. n : s[k] \in S
  BY <1>1, ElementOfSeq
<1>3. /\ \A i \in 1 .. n : i \in DOMAIN s
      /\ Len(SubSeq(s, 1, n)) = n /\ \A k \in 1 .. n : SubSeq(s, 1, n)[k] = s[1 + k - 1]
  BY <1>1, SubSeqProperties
<1>4. \A k \in 1 .. n : 1 + k - 1 = k
  BY <1>1
<1>5. SubSeq(s, 1, n) \in Seq(S)
  BY <1>1, <1>2, SubSeqProperties
<1> QED BY <1>3, <1>4, <1>5

-------------------------------------------------------------------------------
(* What a step does to the open constructs and their roots.                 *)

Typed(r, td) == r \in Seq(Seq(Pointer)) /\ td \in Seq(Constructs)

\* From td and r to td2 and r2, the constructs up to m keep what they rely on.
Continues(r, td, r2, td2, m) ==
  /\ SameUpTo(td, td2, m) /\ Carries(r, td, r2, td2, m) /\ NoNewNames(r, td, td2, m)

\* Constructs, frames and function numbers are in range.
LEMMA Numbers ==
  ASSUME NEW r, NEW td, Typed(r, td), Shape(r, td)
  PROVE  /\ Len(td) \in Nat /\ Len(r) \in Nat /\ Len(r) = BodyNo(td, Len(td))
         /\ td # << >> => Len(td) >= 1 /\ Len(r) >= 1
         /\ td = << >> => Len(r) = 0
         /\ \A k \in 1 .. Len(td) : td[k] \in Constructs /\ BodyNo(td, k) \in 1 .. Len(r)
<1>1. Len(td) \in Nat /\ Len(r) \in Nat /\ \A k \in 1 .. Len(td) : td[k] \in Constructs
  BY LenProperties, ElementOfSeq DEF Typed
<1>2. td # << >> => Len(td) >= 1
  BY <1>1, EmptySeq DEF Typed
<1>3. Len(r) = BodyNo(td, Len(td))
  BY DEF Shape
<1>4. ASSUME NEW k \in 1 .. Len(td)
      PROVE  BodyNo(td, k) \in 1 .. Len(r)
  <2>1. k \in Nat /\ k >= 1 /\ k <= Len(td) /\ 1 \in 1 .. Len(td) /\ 0 + 1 = 1
    BY <1>1
  <2>2. td[0 + 1].op = "body"
    BY <2>1 DEF Shape, Formed
  <2>3. BodyNo(td, 1) = 1
    BY <2>1, <2>2, BodyNoNone, BodyNoNext
  <2>4. BodyNo(td, 1) <= BodyNo(td, k) /\ BodyNo(td, k) <= Len(r)
    BY <1>1, <1>3, <2>1, BodyNoGrows
  <2>5. BodyNo(td, k) \in Nat
    BY <2>1, BodyNoType
  <2> QED BY <1>1, <2>3, <2>4, <2>5
<1>5. td # << >> => Len(r) >= 1
  <2>1. td # << >> => Len(td) \in 1 .. Len(td)
    BY <1>1, <1>2
  <2> QED BY <1>1, <1>4, <2>1
<1>6. td = << >> => Len(r) = 0
  BY <1>3, BodyNoNone
<1> QED BY <1>1, <1>2, <1>3, <1>4, <1>5, <1>6

\* A construct is well-formed as long as what it relies on is carried along.
LEMMA FormedCarries ==
  ASSUME NEW r, NEW r2, NEW td, NEW td2, NEW m, Len(td) \in Nat, Len(td2) \in Nat,
         Continues(r, td, r2, td2, m), NEW k \in 1 .. m, Formed(r, td, k), Registers(td2[k]),
         k > 1 /\ td[k - 1].regs # << >> => td2[k - 1].regs # << >>
  PROVE  Formed(r2, td2, k)
<1>1. m \in Nat /\ m <= Len(td) /\ m <= Len(td2) /\ k \in Nat /\ k \in 0 .. m
      /\ (k > 1 => k - 1 \in 1 .. m) /\ (\A l \in 1 .. k - 1 : l \in 1 .. m /\ l \in 0 .. m)
  BY DEF Continues, SameUpTo
<1>2. \A l \in 0 .. m : BodyNo(td2, l) = BodyNo(td, l)
  BY <1>1, BodyNoSame DEF Continues, SameUpTo
<1>3. \A l \in 1 .. m : td2[l].op = td[l].op /\ td2[l].slot = td[l].slot
  BY DEF Continues, SameUpTo
<1>4. Carries(r, td, r2, td2, k)
  BY <1>1, CarriesBelow DEF Continues
<1> DEFINE i == BodyNo(td, k)
<1>5. i = BodyNo(td2, k) /\ td2[k].op = td[k].op /\ td2[k].slot = td[k].slot
  BY <1>1, <1>2, <1>3
<1>6. \A a : KeptSlot(r, td, k, i, a) => KeptSlot(r2, td2, k, i, a)
  BY <1>4 DEF Carries
<1>7. /\ k = 1 => td2[k].op = "body"
      /\ td2[k].op = "body" /\ k > 1 => td2[k - 1].op = "call"
      /\ td2[k].op = "nested" => k > 1 /\ td2[k - 1].op \in {"cons", "nested"} /\ td2[k - 1].regs # << >>
  BY <1>1, <1>3, <1>5 DEF Formed
<1>8. /\ td2[k].op \in {"body", "for"} => \A a \in 1 .. td2[k].slot : KeptSlot(r2, td2, k, i, a)
      /\ td2[k].op = "in" => KeptSlot(r2, td2, k, i, td2[k].slot)
  BY <1>5, <1>6 DEF Formed
<1>9. td2[k].op = "assign" => \E l \in 1 .. k - 1 : BodyNo(td2, l) = i /\ Owns(td2[l], td2[k].slot)
  <2>1. \A l \in 1 .. k - 1 : /\ BodyNo(td2, l) = BodyNo(td, l)
                              /\ Owns(td2[l], td2[k].slot) <=> Owns(td[l], td[k].slot)
    BY <1>1, <1>2, <1>3, <1>5 DEF Owns
  <2>2. td[k].op = "assign" => \E l \in 1 .. k - 1 : BodyNo(td, l) = i /\ Owns(td[l], td[k].slot)
    BY DEF Formed
  <2> HIDE DEF i
  <2> QED BY <1>5, <2>1, <2>2
<1> HIDE DEF i
<1> QED BY <1>5, <1>7, <1>8, <1>9 DEF Formed

\* A construct is entered.
LEMMA PushContinues ==
  ASSUME NEW r, NEW td, Typed(r, td), Shape(r, td), td # << >>, NEW t \in Constructs,
         t.op \notin {"body", "in"}, t.op = "for" => t.slot = Len(r[1]),
         t.op = "nested" => AwaitsTail(td[Len(td)]),
         t.op = "assign" => \E l \in 1 .. Len(td) : BodyNo(td, l) = Len(r) /\ Owns(td[l], t.slot),
         Registers(t)
  PROVE  LET td2 == Append(td, t)
         IN  /\ Typed(r, td2) /\ Shape(r, td2) /\ Continues(r, td, r, td2, Len(td))
             /\ Len(td2) = Len(td) + 1 /\ td2[Len(td) + 1] = t
             /\ \A k \in 1 .. Len(td) : td2[k] = td[k]
<1> DEFINE td2 == Append(td, t)
           n == Len(td)
<1>1. /\ n \in Nat /\ n >= 1 /\ Len(r) \in Nat /\ Len(r) >= 1 /\ BodyNo(td, n) = Len(r)
  BY Numbers
<1>2. /\ td2 \in Seq(Constructs) /\ Len(td2) = n + 1 /\ td2[n + 1] = t
      /\ \A k \in 1 .. n : td2[k] = td[k]
  BY AppendProperties DEF Typed
<1> HIDE DEF td2, n
<1>3. SameUpTo(td, td2, n)
  BY <1>1, <1>2 DEF SameUpTo, n
<1>4. \A k \in 0 .. n : BodyNo(td2, k) = BodyNo(td, k)
  BY <1>1, <1>2, BodyNoSame
<1>5. BodyNo(td2, n + 1) = Len(r)
  <2>1. BodyNo(td2, n) = Len(r) /\ td2[n + 1].op # "body"
    BY <1>1, <1>2, <1>4
  <2> QED BY <1>1, <2>1, BodyNoNext
<1>6. FrameAt(r, Len(r)) = r[1] /\ DOMAIN r[1] = 1 .. Len(r[1])
  BY <1>1, FrameTop, LenProperties DEF Typed
<1>7. ASSUME NEW i, NEW a, KeptSlot(r, td, n, i, a)
      PROVE  KeptSlot(r, td2, n, i, a)
  <2>1. i \in 1 .. BodyNo(td2, n) /\ a \in DOMAIN FrameAt(r, i)
    BY <1>1, <1>4, <1>7 DEF KeptSlot
  <2>2. ASSUME NEW l \in n + 1 .. n + 1, td2[l].op = "for", BodyNo(td2, l) = i
        PROVE  a <= td2[l].slot
    <3>1. l = n + 1
      BY <1>1
    <3>2. t.op = "for" /\ i = Len(r) /\ td2[l].slot = Len(r[1])
      BY <1>2, <1>5, <2>2, <3>1
    <3>3. a \in 1 .. Len(r[1])
      BY <1>6, <2>1, <3>2
    <3> QED BY <3>2, <3>3
  <2> QED BY <1>2, <2>1, <2>2 DEF KeptSlot
<1>8. Carries(r, td, r, td2, n)
  BY <1>7 DEF Carries
<1>9. \A i, a : NamedSlot(td2, i, a) => NamedSlot(td, i, a)
  <2> SUFFICES ASSUME NEW i, NEW a, NEW l \in 1 .. n + 1, BodyNo(td2, l) = i, Owns(td2[l], a)
               PROVE  NamedSlot(td, i, a)
    BY <1>2 DEF NamedSlot
  <2>1. l # n + 1
    BY <1>2 DEF Owns
  <2>2. l \in 1 .. n /\ l \in 0 .. n
    BY <1>1, <2>1
  <2>3. BodyNo(td, l) = i /\ Owns(td[l], a)
    BY <1>2, <1>4, <2>2
  <2> QED BY <2>2, <2>3 DEF NamedSlot, n
<1>10. Continues(r, td, r, td2, n)
  BY <1>3, <1>8, <1>9 DEF Continues, NoNewNames
<1>11. ASSUME NEW k \in 1 .. n
       PROVE  Formed(r, td2, k)
  <2>1. Formed(r, td, k) /\ Registers(td2[k])
    BY <1>2 DEF Shape, Formed, n
  <2>2. k > 1 => k - 1 \in 1 .. n
    BY <1>1
  <2>3. Len(td2) \in Nat /\ Len(td) \in Nat
    BY <1>1, <1>2 DEF n
  <2> QED BY <1>2, <1>10, <2>1, <2>2, <2>3, FormedCarries
<1>12. Formed(r, td2, n + 1)
  <2>1. (n + 1) - 1 = n /\ n + 1 # 1 /\ n + 1 > 1 /\ n \in 1 .. n
    BY <1>1
  <2>2. t.op = "nested" => td2[n].op \in {"cons", "nested"} /\ td2[n].regs # << >>
    BY <1>2, <2>1 DEF AwaitsTail, n
  <2>3. t.op = "for" => \A a \in 1 .. t.slot : KeptSlot(r, td2, n + 1, Len(r), a)
    <3>1. \A l \in (n + 1) + 1 .. n + 1 : FALSE
      BY <1>1
    <3>2. Len(r) \in 1 .. BodyNo(td2, n + 1)
      BY <1>1, <1>5
    <3> QED BY <1>2, <1>6, <3>1, <3>2 DEF KeptSlot
  <2>4. t.op = "assign" => \E l \in 1 .. (n + 1) - 1 : BodyNo(td2, l) = Len(r) /\ Owns(td2[l], t.slot)
    <3>1. \A l \in 1 .. n : l \in 0 .. n
      OBVIOUS
    <3> QED BY <1>2, <1>4, <2>1, <3>1 DEF n
  <2> QED BY <1>2, <1>5, <2>1, <2>2, <2>3, <2>4 DEF Formed
<1>13. Shape(r, td2)
  <2>1. \A k \in 1 .. n + 1 : k \in 1 .. n \/ k = n + 1
    BY <1>1
  <2> QED BY <1>2, <1>5, <1>11, <1>12, <2>1 DEF Shape
<1> QED BY <1>2, <1>10, <1>13 DEF Typed, td2, n

\* A construct is left.
LEMMA PopContinues ==
  ASSUME NEW r, NEW td, Typed(r, td), Shape(r, td), td # << >>, td[Len(td)].op # "body"
  PROVE  LET td2 == SubSeq(td, 1, Len(td) - 1)
         IN  /\ Typed(r, td2) /\ Shape(r, td2) /\ Continues(r, td, r, td2, Len(td) - 1)
             /\ Len(td2) = Len(td) - 1 /\ Len(td) >= 2 /\ \A k \in 1 .. Len(td) - 1 : td2[k] = td[k]
             /\ \A i, a : NamedSlot(td2, i, a) => NamedSlot(td, i, a)
             /\ td[Len(td)].op = "nested" => AwaitsTail(td2[Len(td2)])
<1> DEFINE n == Len(td)
           td2 == SubSeq(td, 1, n - 1)
<1>1. /\ n \in Nat /\ n >= 1 /\ Len(r) \in Nat /\ BodyNo(td, n) = Len(r) /\ n - 1 \in 0 .. n
      /\ n - 1 \in Nat /\ (n - 1) + 1 = n
  BY Numbers
<1>2. /\ td2 \in Seq(Constructs) /\ Len(td2) = n - 1 /\ \A k \in 1 .. n - 1 : td2[k] = td[k]
  BY <1>1, FirstOnes DEF Typed
<1> HIDE DEF td2, n
<1>3. SameUpTo(td, td2, n - 1)
  BY <1>1, <1>2 DEF SameUpTo, n
<1>4. \A k \in 0 .. n - 1 : BodyNo(td2, k) = BodyNo(td, k)
  BY <1>1, <1>2, BodyNoSame
<1>5. BodyNo(td, n - 1) = Len(r) /\ BodyNo(td2, n - 1) = Len(r)
  <2>1. BodyNo(td, n - 1) = BodyNo(td, n)
    BY <1>1, BodyNoNext DEF n
  <2> QED BY <1>1, <1>4, <2>1
<1>6. Carries(r, td, r, td2, n - 1)
  <2>1. \A l \in (n - 1) + 1 .. Len(td2) : FALSE
    BY <1>1, <1>2
  <2> QED BY <1>5, <2>1 DEF Carries, KeptSlot
<1>7. \A i, a : NamedSlot(td2, i, a) => NamedSlot(td, i, a)
  <2>1. \A l \in 1 .. n - 1 : l \in 0 .. n - 1 /\ l \in 1 .. n
    BY <1>1
  <2> QED BY <1>2, <1>4, <2>1 DEF NamedSlot, n
<1>8. Continues(r, td, r, td2, n - 1)
  BY <1>3, <1>6, <1>7 DEF Continues, NoNewNames
<1>9. ASSUME NEW k \in 1 .. n - 1
      PROVE  Formed(r, td2, k)
  <2>1. k \in 1 .. Len(td) /\ (k > 1 => k - 1 \in 1 .. n - 1) /\ Len(td) \in Nat /\ Len(td2) \in Nat
    BY <1>1, <1>2 DEF n
  <2>2. Formed(r, td, k) /\ Registers(td2[k])
    BY <1>2, <2>1 DEF Shape, Formed
  <2> QED BY <1>2, <1>8, <2>1, <2>2, FormedCarries
<1>10. Shape(r, td2)
  BY <1>2, <1>5, <1>9 DEF Shape
<1>11. n >= 2
  <2>1. n \in 1 .. Len(td)
    BY <1>1 DEF n
  <2>2. n = 1 => td[n].op = "body"
    BY <2>1 DEF Shape, Formed
  <2> QED BY <1>1, <2>2 DEF n
<1>12. td[n].op = "nested" => AwaitsTail(td2[n - 1])
  <2>1. n \in 1 .. Len(td) /\ n - 1 \in 1 .. n - 1
    BY <1>1, <1>11 DEF n
  <2> QED BY <1>2, <2>1 DEF Shape, Formed, AwaitsTail
<1> QED BY <1>2, <1>7, <1>8, <1>10, <1>11, <1>12 DEF Typed, td2, n

\* A sequence with another last element.
LEMMA LastReplaced ==
  ASSUME NEW S, NEW s \in Seq(S), Len(s) >= 1, NEW t \in S
  PROVE  LET s2 == Append(SubSeq(s, 1, Len(s) - 1), t)
         IN  /\ s2 \in Seq(S) /\ Len(s2) = Len(s) /\ s2[Len(s)] = t
             /\ \A k \in 1 .. Len(s) - 1 : s2[k] = s[k]
<1> DEFINE b == SubSeq(s, 1, Len(s) - 1)
<1>1. Len(s) \in Nat /\ Len(s) - 1 \in 0 .. Len(s) /\ (Len(s) - 1) + 1 = Len(s)
  BY LenProperties
<1>2. b \in Seq(S) /\ Len(b) = Len(s) - 1 /\ \A k \in 1 .. Len(s) - 1 : b[k] = s[k]
  BY <1>1, FirstOnes
<1> HIDE DEF b
<1>3. /\ Append(b, t) \in Seq(S) /\ Len(Append(b, t)) = Len(b) + 1 /\ Append(b, t)[Len(b) + 1] = t
      /\ \A k \in 1 .. Len(b) : Append(b, t)[k] = b[k]
  BY <1>2, AppendProperties
<1>4. /\ Len(Append(b, t)) = Len(s) /\ Append(b, t)[Len(s)] = t
      /\ \A k \in 1 .. Len(s) - 1 : Append(b, t)[k] = s[k]
  BY <1>1, <1>2, <1>3
<1> QED BY <1>3, <1>4 DEF b

\* All roots are still there, with what they had.
Extends(r, r2) ==
  /\ Len(r2) = Len(r)
  /\ \A i \in 1 .. Len(r) : \A a \in DOMAIN FrameAt(r, i) :
       a \in DOMAIN FrameAt(r2, i) /\ FrameAt(r2, i)[a] = FrameAt(r, i)[a]

\* The innermost construct goes on.
LEMMA ReplaceContinues ==
  ASSUME NEW r, NEW td, Typed(r, td), Shape(r, td), td # << >>, NEW t \in Constructs,
         t.op = td[Len(td)].op, t.slot = td[Len(td)].slot, Registers(t),
         NEW r2 \in Seq(Seq(Pointer)), Extends(r, r2)
  PROVE  LET td2 == Append(SubSeq(td, 1, Len(td) - 1), t)
         IN  /\ Typed(r2, td2) /\ Shape(r2, td2) /\ Continues(r, td, r2, td2, Len(td))
             /\ Len(td2) = Len(td) /\ td2[Len(td)] = t /\ \A k \in 1 .. Len(td) - 1 : td2[k] = td[k]
<1> DEFINE n == Len(td)
           td2 == Append(SubSeq(td, 1, n - 1), t)
<1>1. /\ n \in Nat /\ n >= 1 /\ Len(r) \in Nat /\ BodyNo(td, n) = Len(r) /\ n - 1 \in 0 .. n
      /\ n - 1 \in Nat /\ (n - 1) + 1 = n
  BY Numbers
<1>2. /\ td2 \in Seq(Constructs) /\ Len(td2) = n /\ td2[n] = t /\ \A k \in 1 .. n - 1 : td2[k] = td[k]
  <2>1. td \in Seq(Constructs) /\ Len(td) >= 1
    BY <1>1 DEF Typed
  <2>2. /\ td2 \in Seq(Constructs) /\ Len(td2) = Len(td) /\ td2[Len(td)] = t
        /\ \A k \in 1 .. Len(td) - 1 : td2[k] = td[k]
    BY <2>1, LastReplaced
  <2> QED BY <2>2
<1> HIDE DEF td2, n
<1>3. \A k \in 1 .. n : k \in 1 .. n - 1 \/ k = n
  BY <1>1
<1>4. SameUpTo(td, td2, n)
  <2>1. \A l \in 1 .. n : td2[l].op = td[l].op /\ td2[l].slot = td[l].slot
    BY <1>2, <1>3 DEF n
  <2> QED BY <1>1, <1>2, <2>1 DEF SameUpTo, n
<1>5. \A k \in 0 .. n : BodyNo(td2, k) = BodyNo(td, k)
  <2> SUFFICES ASSUME NEW k \in 0 .. n PROVE BodyNo(td2, k) = BodyNo(td, k)
    OBVIOUS
  <2>1. k \in Nat /\ \A l \in 1 .. k : l \in 1 .. n
    BY <1>1
  <2>2. \A l \in 1 .. k : td2[l].op = td[l].op
    BY <1>4, <2>1 DEF SameUpTo
  <2> QED BY <2>1, <2>2, BodyNoSame
<1>6. BodyNo(td2, n) = Len(r2)
  BY <1>1, <1>5 DEF Extends
<1>7. Carries(r, td, r2, td2, n)
  <2>1. \A l \in n + 1 .. n : FALSE
    BY <1>1
  <2>2. BodyNo(td2, n) = BodyNo(td, n) /\ BodyNo(td, n) = Len(r)
    BY <1>1, <1>5
  <2>3. ASSUME NEW i, NEW a, KeptSlot(r, td, n, i, a)
        PROVE  KeptSlot(r2, td2, n, i, a) /\ FrameAt(r2, i)[a] = FrameAt(r, i)[a]
    <3>1. i \in 1 .. Len(r) /\ a \in DOMAIN FrameAt(r, i)
      BY <2>2, <2>3 DEF KeptSlot
    <3>2. a \in DOMAIN FrameAt(r2, i) /\ FrameAt(r2, i)[a] = FrameAt(r, i)[a]
      BY <3>1 DEF Extends
    <3> QED BY <1>2, <2>1, <2>2, <3>1, <3>2 DEF KeptSlot
  <2> QED BY <2>3 DEF Carries
<1>8. \A i, a : NamedSlot(td2, i, a) => NamedSlot(td, i, a)
  <2>1. \A l \in 1 .. n : l \in 0 .. n
    BY <1>1
  <2>2. \A a : Owns(t, a) => Owns(td[n], a)
    BY DEF Owns, n
  <2> QED BY <1>2, <1>3, <1>5, <2>1, <2>2 DEF NamedSlot, n
<1>9. Continues(r, td, r2, td2, n)
  BY <1>4, <1>7, <1>8 DEF Continues, NoNewNames
<1>10. ASSUME NEW k \in 1 .. n
       PROVE  Formed(r2, td2, k)
  <2>1. k \in 1 .. Len(td) /\ (k > 1 => k - 1 \in 1 .. n - 1) /\ Len(td) \in Nat /\ Len(td2) \in Nat
    BY <1>1, <1>2 DEF n
  <2>2. Formed(r, td, k) /\ Registers(td2[k])
    BY <1>2, <1>3, <2>1 DEF Shape, Formed
  <2> QED BY <1>2, <1>9, <2>1, <2>2, FormedCarries
<1>11. Shape(r2, td2)
  BY <1>2, <1>6, <1>10 DEF Shape
<1> QED BY <1>2, <1>9, <1>11 DEF Typed, td2, n

\* The innermost function gets a new root.
LEMMA NewRootExtends ==
  ASSUME NEW r \in Seq(Seq(Pointer)), Len(r) >= 1, NEW v \in Pointer
  PROVE  LET r2 == [r EXCEPT ![1] = Append(@, v)]
         IN  /\ r2 \in Seq(Seq(Pointer)) /\ Extends(r, r2)
             /\ Len(r[1]) \in Nat /\ DOMAIN r[1] = 1 .. Len(r[1])
             /\ Len(r[1]) + 1 \in DOMAIN FrameAt(r2, Len(r)) /\ FrameAt(r2, Len(r))[Len(r[1]) + 1] = v
<1> DEFINE x == Append(r[1], v)
           r2 == [r EXCEPT ![1] = x]
<1>1. r[1] \in Seq(Pointer) /\ FrameAt(r, Len(r)) = r[1] /\ Len(r) \in Nat
  BY FrameTop
<1>2. Len(r[1]) \in Nat /\ DOMAIN r[1] = 1 .. Len(r[1])
  BY <1>1, LenProperties
<1>3. /\ x \in Seq(Pointer) /\ Len(x) = Len(r[1]) + 1 /\ x[Len(r[1]) + 1] = v
      /\ \A a \in 1 .. Len(r[1]) : x[a] = r[1][a]
  BY <1>1, AppendProperties
<1>4. DOMAIN x = 1 .. Len(r[1]) + 1
  BY <1>3, LenProperties
<1> HIDE DEF x
<1>5. /\ r2 \in Seq(Seq(Pointer)) /\ Len(r2) = Len(r) /\ FrameAt(r2, Len(r)) = x
      /\ \A i \in 1 .. Len(r) - 1 : FrameAt(r2, i) = FrameAt(r, i)
  <2>1. x \in Seq(Pointer)
    BY <1>3
  <2> QED BY <2>1, FrameExcept
<1>6. Len(r[1]) + 1 \in DOMAIN x /\ \A a \in DOMAIN r[1] : a \in DOMAIN x /\ x[a] = r[1][a]
  BY <1>2, <1>3, <1>4
<1> HIDE DEF r2
<1>7. Extends(r, r2)
  <2>1. \A i \in 1 .. Len(r) : i \in 1 .. Len(r) - 1 \/ i = Len(r)
    BY <1>1
  <2> QED BY <1>1, <1>5, <1>6, <2>1 DEF Extends
<1> QED BY <1>2, <1>3, <1>5, <1>6, <1>7 DEF r2, x

\* A variable gets its value.
LEMMA BindContinues ==
  ASSUME NEW r, NEW td, Typed(r, td), Shape(r, td), td # << >>, td[Len(td)].op = "var", NEW v \in Pointer
  PROVE  LET r2 == [r EXCEPT ![1] = Append(@, v)]
             t == Construct("in", Len(r[1]) + 1)
             td2 == Append(SubSeq(td, 1, Len(td) - 1), t)
         IN  /\ Typed(r2, td2) /\ Shape(r2, td2) /\ Continues(r, td, r2, td2, Len(td) - 1)
             /\ Len(td2) = Len(td) /\ td2[Len(td)] = t /\ \A k \in 1 .. Len(td) - 1 : td2[k] = td[k]
<1> DEFINE n == Len(td)
           r2 == [r EXCEPT ![1] = Append(@, v)]
           t == Construct("in", Len(r[1]) + 1)
           td2 == Append(SubSeq(td, 1, n - 1), t)
<1>1. /\ n \in Nat /\ n >= 1 /\ Len(r) \in Nat /\ Len(r) >= 1 /\ BodyNo(td, n) = Len(r)
      /\ n - 1 \in 0 .. n /\ n - 1 \in Nat /\ (n - 1) + 1 = n
  BY Numbers
<1>2. /\ r2 \in Seq(Seq(Pointer)) /\ Extends(r, r2)
      /\ Len(r[1]) \in Nat /\ DOMAIN r[1] = 1 .. Len(r[1])
      /\ Len(r[1]) + 1 \in DOMAIN FrameAt(r2, Len(r))
  BY <1>1, NewRootExtends DEF Typed
<1>3. t \in Constructs /\ t.op = "in" /\ t.slot = Len(r[1]) + 1 /\ t.regs = << >> /\ Registers(t)
  <2>1. << >> \in Seq(Pointer \cup {Scalar})
    BY EmptySeq
  <2> QED BY <1>2, <2>1 DEF Construct, Constructs, Registers
<1> HIDE DEF r2, t
<1>4. td2 \in Seq(Constructs) /\ Len(td2) = n /\ td2[n] = t /\ \A k \in 1 .. n - 1 : td2[k] = td[k]
  <2>1. td \in Seq(Constructs) /\ Len(td) >= 1
    BY <1>1 DEF Typed
  <2>2. /\ td2 \in Seq(Constructs) /\ Len(td2) = Len(td) /\ td2[Len(td)] = t
        /\ \A k \in 1 .. Len(td) - 1 : td2[k] = td[k]
    BY <1>3, <2>1, LastReplaced
  <2> QED BY <2>2
<1> HIDE DEF td2, n
<1>5. \A k \in 1 .. n : k \in 1 .. n - 1 \/ k = n
  BY <1>1
<1>6. SameUpTo(td, td2, n - 1)
  BY <1>1, <1>4 DEF SameUpTo, n
<1>7. \A k \in 0 .. n : BodyNo(td2, k) = BodyNo(td, k)
  <2> SUFFICES ASSUME NEW k \in 0 .. n PROVE BodyNo(td2, k) = BodyNo(td, k)
    OBVIOUS
  <2>1. k \in Nat /\ \A l \in 1 .. k : l \in 1 .. n - 1 \/ l = n
    BY <1>1
  <2>2. \A l \in 1 .. k : (td2[l].op = "body") = (td[l].op = "body")
    BY <1>3, <1>4, <2>1 DEF n
  <2> QED BY <2>1, <2>2 DEF BodyNo, Bodies
<1>8. BodyNo(td2, n) = Len(r2) /\ BodyNo(td2, n) = Len(r) /\ BodyNo(td, n - 1) = Len(r)
  <2>1. BodyNo(td, n - 1) = BodyNo(td, n)
    BY <1>1, BodyNoNext DEF n
  <2> QED BY <1>1, <1>2, <1>7, <2>1 DEF Extends
<1>9. ASSUME NEW i, NEW a, KeptSlot(r, td, n - 1, i, a)
      PROVE  /\ i \in 1 .. Len(r) /\ a \in DOMAIN FrameAt(r, i)
             /\ KeptSlot(r2, td2, n - 1, i, a) /\ FrameAt(r2, i)[a] = FrameAt(r, i)[a]
  <2>1. i \in 1 .. Len(r) /\ a \in DOMAIN FrameAt(r, i)
    BY <1>8, <1>9 DEF KeptSlot
  <2>2. a \in DOMAIN FrameAt(r2, i) /\ FrameAt(r2, i)[a] = FrameAt(r, i)[a]
    BY <1>2, <2>1 DEF Extends
  <2>3. \A l \in (n - 1) + 1 .. Len(td2) : td2[l].op # "for"
    <3>1. \A l \in (n - 1) + 1 .. Len(td2) : l = n
      BY <1>1, <1>4
    <3> QED BY <1>3, <1>4, <3>1
  <2>4. BodyNo(td2, n - 1) = Len(r)
    BY <1>1, <1>7, <1>8
  <2> QED BY <2>1, <2>2, <2>3, <2>4 DEF KeptSlot
<1>10. Carries(r, td, r2, td2, n - 1)
  BY <1>9 DEF Carries
<1>11. NoNewNames(r, td, td2, n - 1)
  <2> SUFFICES ASSUME NEW i, NEW a, KeptSlot(r, td, n - 1, i, a), NamedSlot(td2, i, a)
               PROVE  NamedSlot(td, i, a)
    BY DEF NoNewNames
  <2>1. PICK l \in 1 .. n : BodyNo(td2, l) = i /\ Owns(td2[l], a)
    BY <1>4 DEF NamedSlot
  <2>2. l # n
    <3> SUFFICES ASSUME l = n PROVE FALSE
      OBVIOUS
    <3>1. a = Len(r[1]) + 1 /\ i = Len(r)
      BY <1>3, <1>4, <1>8, <2>1 DEF Owns
    <3>2. a \in 1 .. Len(r[1])
      <4>1. FrameAt(r, Len(r)) = r[1]
        BY <1>1, FrameTop DEF Typed
      <4> QED BY <1>2, <1>9, <3>1, <4>1
    <3> QED BY <1>2, <3>1, <3>2
  <2>3. l \in 1 .. n - 1 /\ l \in 0 .. n
    BY <1>1, <2>2
  <2> QED BY <1>4, <1>7, <2>1, <2>3 DEF NamedSlot, n
<1>12. Continues(r, td, r2, td2, n - 1)
  BY <1>6, <1>10, <1>11 DEF Continues
<1>13. ASSUME NEW k \in 1 .. n - 1
       PROVE  Formed(r2, td2, k)
  <2>1. k \in 1 .. Len(td) /\ (k > 1 => k - 1 \in 1 .. n - 1) /\ Len(td) \in Nat /\ Len(td2) \in Nat
    BY <1>1, <1>4 DEF n
  <2>2. Formed(r, td, k) /\ Registers(td2[k])
    BY <1>4, <2>1 DEF Shape, Formed
  <2> QED BY <1>4, <1>12, <2>1, <2>2, FormedCarries
<1>14. Formed(r2, td2, n)
  <2>1. n # 1
    <3>1. n \in 1 .. Len(td)
      BY <1>1 DEF n
    <3>2. n = 1 => td[n].op = "body"
      BY <3>1 DEF Shape, Formed
    <3> QED BY <3>2 DEF n
  <2>2. KeptSlot(r2, td2, n, Len(r), t.slot)
    <3>1. \A l \in n + 1 .. Len(td2) : FALSE
      BY <1>1, <1>4
    <3>2. Len(r) \in 1 .. Len(r)
      BY <1>1
    <3> QED BY <1>2, <1>3, <1>8, <3>1, <3>2 DEF KeptSlot
  <2> QED BY <1>3, <1>4, <1>8, <2>1, <2>2 DEF Formed
<1>15. Shape(r2, td2)
  BY <1>4, <1>5, <1>8, <1>13, <1>14 DEF Shape
<1> QED BY <1>2, <1>4, <1>12, <1>15 DEF Typed, td2, n, r2, t

\* A function is called with the pointers args.
LEMMA InvokeContinues ==
  ASSUME NEW r, NEW td, Typed(r, td), Shape(r, td), td # << >>, td[Len(td)].op = "call",
         NEW args \in Seq(Pointer)
  PROVE  LET r2 == <<args>> \o r
             td1 == Append(SubSeq(td, 1, Len(td) - 1), Construct("call", 0))
             td2 == Append(td1, Construct("body", Len(args)))
         IN  /\ Typed(r2, td2) /\ Shape(r2, td2) /\ Continues(r, td, r2, td2, Len(td) - 1)
             /\ Len(td2) = Len(td) + 1 /\ td2[Len(td)] = Construct("call", 0)
             /\ td2[Len(td) + 1] = Construct("body", Len(args))
             /\ \A k \in 1 .. Len(td) - 1 : td2[k] = td[k]
<1> DEFINE n == Len(td)
           t == Construct("call", 0)
           u == Construct("body", Len(args))
           r2 == <<args>> \o r
           td1 == Append(SubSeq(td, 1, n - 1), t)
           td2 == Append(td1, u)
<1>1. /\ n \in Nat /\ n >= 1 /\ Len(r) \in Nat /\ Len(r) >= 1 /\ BodyNo(td, n) = Len(r)
      /\ n - 1 \in 0 .. n /\ n - 1 \in Nat /\ (n - 1) + 1 = n
  BY Numbers
<1>2. /\ r2 \in Seq(Seq(Pointer)) /\ Len(r2) = Len(r) + 1 /\ FrameAt(r2, Len(r) + 1) = args
      /\ \A i \in 1 .. Len(r) : FrameAt(r2, i) = FrameAt(r, i)
  <2>1. r \in Seq(Seq(Pointer)) /\ args \in Seq(Pointer)
    BY DEF Typed
  <2> QED BY <2>1, FramePushed
<1>3. Len(args) \in Nat /\ DOMAIN args = 1 .. Len(args)
  BY LenProperties
<1>4. /\ t \in Constructs /\ t.op = "call" /\ Registers(t)
      /\ u \in Constructs /\ u.op = "body" /\ u.slot = Len(args) /\ Registers(u)
  <2>1. << >> \in Seq(Pointer \cup {Scalar})
    BY EmptySeq
  <2> QED BY <1>3, <2>1 DEF Construct, Constructs, Registers
<1> HIDE DEF r2, t, u
<1>5. td1 \in Seq(Constructs) /\ Len(td1) = n /\ td1[n] = t /\ \A k \in 1 .. n - 1 : td1[k] = td[k]
  <2>1. td \in Seq(Constructs) /\ Len(td) >= 1
    BY <1>1 DEF Typed
  <2>2. /\ td1 \in Seq(Constructs) /\ Len(td1) = Len(td) /\ td1[Len(td)] = t
        /\ \A k \in 1 .. Len(td) - 1 : td1[k] = td[k]
    BY <1>4, <2>1, LastReplaced
  <2> QED BY <2>2
<1> HIDE DEF td1
<1>6. /\ td2 \in Seq(Constructs) /\ Len(td2) = n + 1 /\ td2[n] = t /\ td2[n + 1] = u
      /\ \A k \in 1 .. n - 1 : td2[k] = td[k]
  <2>1. /\ td2 \in Seq(Constructs) /\ Len(td2) = n + 1 /\ td2[n + 1] = u
        /\ \A k \in 1 .. n : td2[k] = td1[k]
    BY <1>4, <1>5, AppendProperties
  <2>2. n \in 1 .. n /\ \A k \in 1 .. n - 1 : k \in 1 .. n
    BY <1>1
  <2> QED BY <1>5, <2>1, <2>2
<1> HIDE DEF td2, n
<1>7. SameUpTo(td, td2, n - 1)
  <2>1. n - 1 <= Len(td) /\ n - 1 <= Len(td2)
    BY <1>1, <1>6 DEF n
  <2> QED BY <1>1, <1>6, <2>1 DEF SameUpTo, n
<1>8. \A k \in 0 .. n : BodyNo(td2, k) = BodyNo(td, k)
  <2> SUFFICES ASSUME NEW k \in 0 .. n PROVE BodyNo(td2, k) = BodyNo(td, k)
    OBVIOUS
  <2>1. k \in Nat /\ \A l \in 1 .. k : l \in 1 .. n - 1 \/ l = n
    BY <1>1
  <2>2. \A l \in 1 .. k : td2[l].op = td[l].op
    BY <1>4, <1>6, <2>1 DEF n
  <2> QED BY <2>1, <2>2, BodyNoSame
<1>9. BodyNo(td2, n + 1) = Len(r) + 1 /\ BodyNo(td2, n) = Len(r) /\ BodyNo(td, n - 1) = Len(r)
  <2>1. BodyNo(td, n - 1) = BodyNo(td, n)
    BY <1>1, BodyNoNext DEF n
  <2>2. BodyNo(td2, n + 1) = BodyNo(td2, n) + 1
    BY <1>1, <1>4, <1>6, BodyNoNext
  <2> QED BY <1>1, <1>8, <2>1, <2>2
<1>10. ASSUME NEW i, NEW a, KeptSlot(r, td, n - 1, i, a)
       PROVE  /\ i \in 1 .. Len(r) /\ KeptSlot(r2, td2, n - 1, i, a)
              /\ FrameAt(r2, i)[a] = FrameAt(r, i)[a]
  <2>1. i \in 1 .. Len(r) /\ a \in DOMAIN FrameAt(r, i)
    BY <1>9, <1>10 DEF KeptSlot
  <2>2. FrameAt(r2, i) = FrameAt(r, i)
    BY <1>2, <2>1
  <2>3. \A l \in (n - 1) + 1 .. Len(td2) : td2[l].op # "for"
    <3>1. \A l \in (n - 1) + 1 .. Len(td2) : l = n \/ l = n + 1
      BY <1>1, <1>6
    <3> QED BY <1>4, <1>6, <3>1
  <2>4. BodyNo(td2, n - 1) = Len(r)
    BY <1>1, <1>8, <1>9
  <2> QED BY <2>1, <2>2, <2>3, <2>4 DEF KeptSlot
<1>11. Carries(r, td, r2, td2, n - 1)
  BY <1>10 DEF Carries
<1>12. NoNewNames(r, td, td2, n - 1)
  <2> SUFFICES ASSUME NEW i, NEW a, KeptSlot(r, td, n - 1, i, a), NamedSlot(td2, i, a)
               PROVE  NamedSlot(td, i, a)
    BY DEF NoNewNames
  <2>1. PICK l \in 1 .. n + 1 : BodyNo(td2, l) = i /\ Owns(td2[l], a)
    BY <1>6 DEF NamedSlot
  <2>2. l # n /\ l # n + 1
    <3>1. i <= Len(r)
      BY <1>10
    <3> QED BY <1>1, <1>4, <1>6, <1>9, <2>1, <3>1 DEF Owns
  <2>3. l \in 1 .. n - 1 /\ l \in 0 .. n /\ l \in 1 .. n
    BY <1>1, <2>2
  <2> QED BY <1>6, <1>8, <2>1, <2>3 DEF NamedSlot, n
<1>13. Continues(r, td, r2, td2, n - 1)
  BY <1>7, <1>11, <1>12 DEF Continues
<1>14. ASSUME NEW k \in 1 .. n - 1
       PROVE  Formed(r2, td2, k)
  <2>1. k \in 1 .. Len(td) /\ (k > 1 => k - 1 \in 1 .. n - 1) /\ Len(td) \in Nat /\ Len(td2) \in Nat
    BY <1>1, <1>6 DEF n
  <2>2. Formed(r, td, k) /\ Registers(td2[k])
    BY <1>6, <2>1 DEF Shape, Formed
  <2> QED BY <1>6, <1>13, <2>1, <2>2, FormedCarries
<1>15. Formed(r2, td2, n)
  <2>1. n # 1
    <3>1. n \in 1 .. Len(td)
      BY <1>1 DEF n
    <3>2. n = 1 => td[n].op = "body"
      BY <3>1 DEF Shape, Formed
    <3> QED BY <3>2 DEF n
  <2> QED BY <1>4, <1>6, <2>1 DEF Formed
<1>16. Formed(r2, td2, n + 1)
  <2>1. n + 1 # 1 /\ (n + 1) - 1 = n
    BY <1>1
  <2>2. \A a \in 1 .. u.slot : KeptSlot(r2, td2, n + 1, Len(r) + 1, a)
    <3>1. \A l \in (n + 1) + 1 .. Len(td2) : FALSE
      BY <1>1, <1>6
    <3>2. Len(r) + 1 \in 1 .. Len(r) + 1
      BY <1>1
    <3> QED BY <1>2, <1>3, <1>4, <1>9, <3>1, <3>2 DEF KeptSlot
  <2> QED BY <1>4, <1>6, <1>9, <2>1, <2>2 DEF Formed
<1>17. Shape(r2, td2)
  <2>1. \A k \in 1 .. n + 1 : k \in 1 .. n - 1 \/ k = n \/ k = n + 1
    BY <1>1
  <2> QED BY <1>2, <1>6, <1>9, <1>14, <1>15, <1>16, <2>1 DEF Shape
<1> QED BY <1>2, <1>6, <1>13, <1>17 DEF Typed, td2, td1, n, r2, t, u

\* A function returns.
LEMMA ReturnContinues ==
  ASSUME NEW r, NEW td, Typed(r, td), Shape(r, td), td # << >>, td[Len(td)].op = "body", Len(td) # 1
  PROVE  LET td2 == SubSeq(td, 1, Len(td) - 2)
             r2 == Tail(r)
         IN  /\ Typed(r2, td2) /\ Shape(r2, td2) /\ Continues(r, td, r2, td2, Len(td) - 2)
             /\ Len(td2) = Len(td) - 2 /\ \A k \in 1 .. Len(td) - 2 : td2[k] = td[k]
<1> DEFINE n == Len(td)
           td2 == SubSeq(td, 1, n - 2)
           r2 == Tail(r)
<1>1. /\ n \in Nat /\ n >= 2 /\ Len(r) \in Nat /\ Len(r) >= 1 /\ BodyNo(td, n) = Len(r)
      /\ n - 2 \in 0 .. n /\ n - 2 \in Nat /\ (n - 1) + 1 = n /\ (n - 2) + 1 = n - 1 /\ n - 1 \in Nat
  <2>1. n \in Nat /\ n >= 1 /\ n # 1 /\ Len(r) \in Nat /\ Len(r) >= 1 /\ BodyNo(td, n) = Len(r)
    BY Numbers
  <2> HIDE DEF n
  <2>2. n >= 2
    BY <2>1
  <2>3. n - 2 \in Nat /\ n - 1 \in Nat /\ n - 2 \in 0 .. n
    BY <2>1, <2>2
  <2> QED BY <2>1, <2>2, <2>3
<1>2. /\ td2 \in Seq(Constructs) /\ Len(td2) = n - 2 /\ \A k \in 1 .. n - 2 : td2[k] = td[k]
  BY <1>1, FirstOnes DEF Typed
<1>3. /\ r2 \in Seq(Seq(Pointer)) /\ Len(r2) = Len(r) - 1
      /\ \A i \in 1 .. Len(r) - 1 : FrameAt(r2, i) = FrameAt(r, i)
  <2>1. r \in Seq(Seq(Pointer))
    BY DEF Typed
  <2> QED BY <1>1, <2>1, FramePopped
<1> HIDE DEF td2, n, r2
<1>4. SameUpTo(td, td2, n - 2)
  BY <1>1, <1>2 DEF SameUpTo, n
<1>5. td[n].op = "body" /\ td[n - 1].op = "call"
  <2>1. n \in 1 .. Len(td) /\ n > 1
    BY <1>1 DEF n
  <2> QED BY <2>1 DEF Shape, Formed, n
<1>6. BodyNo(td, n - 2) = Len(r) - 1
  <2>1. BodyNo(td, n) = BodyNo(td, n - 1) + 1
    BY <1>1, <1>5, BodyNoNext
  <2>2. BodyNo(td, n - 1) = BodyNo(td, n - 2)
    BY <1>1, <1>5, BodyNoNext
  <2>3. BodyNo(td, n - 1) \in Nat
    BY <1>1, BodyNoType
  <2> QED BY <1>1, <2>1, <2>2, <2>3
<1>7. \A k \in 0 .. n - 2 : BodyNo(td2, k) = BodyNo(td, k)
  BY <1>1, <1>2, BodyNoSame
<1>8. BodyNo(td2, n - 2) = Len(r2)
  BY <1>1, <1>3, <1>6, <1>7
<1>9. Carries(r, td, r2, td2, n - 2)
  <2> SUFFICES ASSUME NEW i, NEW a, KeptSlot(r, td, n - 2, i, a)
               PROVE  KeptSlot(r2, td2, n - 2, i, a) /\ FrameAt(r2, i)[a] = FrameAt(r, i)[a]
    BY DEF Carries
  <2>1. i \in 1 .. Len(r) - 1 /\ a \in DOMAIN FrameAt(r, i)
    BY <1>6 DEF KeptSlot
  <2>2. FrameAt(r2, i) = FrameAt(r, i)
    BY <1>3, <2>1
  <2>3. \A l \in (n - 2) + 1 .. Len(td2) : FALSE
    BY <1>1, <1>2
  <2> QED BY <1>3, <1>8, <2>1, <2>2, <2>3 DEF KeptSlot
<1>10. \A i, a : NamedSlot(td2, i, a) => NamedSlot(td, i, a)
  <2>1. \A l \in 1 .. n - 2 : l \in 0 .. n - 2 /\ l \in 1 .. n
    BY <1>1
  <2> QED BY <1>2, <1>7, <2>1 DEF NamedSlot, n
<1>11. Continues(r, td, r2, td2, n - 2)
  BY <1>4, <1>9, <1>10 DEF Continues, NoNewNames
<1>12. ASSUME NEW k \in 1 .. n - 2
       PROVE  Formed(r2, td2, k)
  <2>1. k \in 1 .. Len(td) /\ (k > 1 => k - 1 \in 1 .. n - 2) /\ Len(td) \in Nat /\ Len(td2) \in Nat
    BY <1>1, <1>2 DEF n
  <2>2. Formed(r, td, k) /\ Registers(td2[k])
    BY <1>2, <2>1 DEF Shape, Formed
  <2> QED BY <1>2, <1>11, <2>1, <2>2, FormedCarries
<1>13. Shape(r2, td2)
  BY <1>2, <1>8, <1>12 DEF Shape
<1> QED BY <1>2, <1>3, <1>11, <1>13 DEF Typed, td2, n, r2

\* The body of a loop begins again.
LEMMA IterateContinues ==
  ASSUME NEW r, NEW td, Typed(r, td), Shape(r, td), td # << >>, td[Len(td)].op = "for"
  PROVE  LET r2 == [r EXCEPT ![1] = SubSeq(@, 1, td[Len(td)].slot)]
         IN  Typed(r2, td) /\ Shape(r2, td) /\ Continues(r, td, r2, td, Len(td) - 1)
<1> DEFINE n == Len(td)
           w == td[n].slot
           x == SubSeq(r[1], 1, w)
           r2 == [r EXCEPT ![1] = x]
<1>1. /\ n \in Nat /\ n >= 1 /\ Len(r) \in Nat /\ Len(r) >= 1 /\ BodyNo(td, n) = Len(r)
      /\ n - 1 \in 0 .. n /\ n - 1 \in Nat /\ (n - 1) + 1 = n /\ n \in 1 .. n /\ td[n] \in Constructs
  <2>1. /\ n \in Nat /\ n >= 1 /\ Len(r) \in Nat /\ Len(r) >= 1 /\ BodyNo(td, n) = Len(r)
        /\ \A k \in 1 .. n : td[k] \in Constructs
    BY Numbers
  <2> HIDE DEF n
  <2> QED BY <2>1
<1>2. FrameAt(r, Len(r)) = r[1] /\ r[1] \in Seq(Pointer)
  <2>1. r \in Seq(Seq(Pointer))
    BY DEF Typed
  <2> QED BY <1>1, <2>1, FrameTop
<1>3. Len(r[1]) \in Nat /\ DOMAIN r[1] = 1 .. Len(r[1])
  BY <1>2, LenProperties
<1>4. w \in 0 .. Len(r[1]) /\ w \in Nat
  <2>1. w \in Nat
    BY <1>1 DEF Constructs
  <2>2. \A a \in 1 .. w : a \in 1 .. Len(r[1])
    <3>1. Formed(r, td, n)
      BY <1>1 DEF Shape
    <3>2. \A a \in 1 .. w : KeptSlot(r, td, n, Len(r), a)
      BY <1>1, <3>1 DEF Formed
    <3> QED BY <1>2, <1>3, <3>2 DEF KeptSlot
  <2> HIDE DEF w
  <2>3. w = 0 \/ w \in 1 .. w
    BY <2>1
  <2> QED BY <1>3, <2>1, <2>2, <2>3
<1>5. x \in Seq(Pointer) /\ Len(x) = w /\ \A a \in 1 .. w : x[a] = r[1][a]
  <2> HIDE DEF w
  <2> QED BY <1>2, <1>4, FirstOnes
<1>6. DOMAIN x = 1 .. w
  BY <1>5, LenProperties
<1>7. td[n].slot = w
  OBVIOUS
<1> HIDE DEF w, x
<1>8. /\ r2 \in Seq(Seq(Pointer)) /\ Len(r2) = Len(r) /\ FrameAt(r2, Len(r)) = x
      /\ \A i \in 1 .. Len(r) - 1 : FrameAt(r2, i) = FrameAt(r, i)
  <2>1. r \in Seq(Seq(Pointer)) /\ x \in Seq(Pointer)
    BY <1>5 DEF Typed
  <2> QED BY <1>1, <2>1, FrameExcept
<1> HIDE DEF n, r2
<1>9. SameUpTo(td, td, n - 1) /\ NoNewNames(r, td, td, n - 1)
  BY <1>1 DEF SameUpTo, NoNewNames, n
<1>10. BodyNo(td, n - 1) = Len(r)
  <2>1. td[n].op = "for"
    BY DEF n
  <2>2. BodyNo(td, n) = BodyNo(td, n - 1)
    BY <1>1, <2>1, BodyNoNext
  <2> QED BY <1>1, <2>2
<1>11. Carries(r, td, r2, td, n - 1)
  <2> SUFFICES ASSUME NEW i, NEW a, KeptSlot(r, td, n - 1, i, a)
               PROVE  KeptSlot(r2, td, n - 1, i, a) /\ FrameAt(r2, i)[a] = FrameAt(r, i)[a]
    BY DEF Carries
  <2>1. i \in 1 .. Len(r) /\ a \in DOMAIN FrameAt(r, i)
    BY <1>10 DEF KeptSlot
  <2>2. i = Len(r) => a <= w
    <3>1. n \in (n - 1) + 1 .. Len(td)
      BY <1>1 DEF n
    <3>2. td[n].op = "for"
      BY DEF n
    <3> QED BY <1>1, <1>7, <3>1, <3>2 DEF KeptSlot
  <2>3. CASE i = Len(r)
    <3>1. a \in 1 .. w
      BY <1>2, <1>3, <1>4, <2>1, <2>2, <2>3
    <3> QED BY <1>2, <1>5, <1>6, <1>8, <2>3, <3>1 DEF KeptSlot
  <2>4. CASE i # Len(r)
    <3>1. i \in 1 .. Len(r) - 1
      BY <1>1, <2>1, <2>4
    <3> QED BY <1>8, <3>1 DEF KeptSlot
  <2> QED BY <2>3, <2>4
<1>12. ASSUME NEW k \in 1 .. n
       PROVE  Formed(r2, td, k)
  <2>1. Formed(r, td, k) /\ Registers(td[k])
    BY DEF Shape, Formed, n
  <2>2. CASE k # n
    <3>1. k \in 1 .. n - 1 /\ k - 1 \in Int /\ Len(td) \in Nat
      <4>1. Len(td) \in Nat
        BY <1>1 DEF n
      <4> QED BY <1>1, <2>2, <4>1
    <3>2. Continues(r, td, r2, td, n - 1)
      BY <1>9, <1>11 DEF Continues
    <3> QED BY <2>1, <3>1, <3>2, FormedCarries
  <2>3. CASE k = n
    <3>1. \A a \in 1 .. w : KeptSlot(r2, td, n, Len(r), a)
      <4>1. \A l \in n + 1 .. Len(td) : FALSE
        BY <1>1 DEF n
      <4>2. Len(r) \in 1 .. Len(r)
        BY <1>1
      <4> QED BY <1>1, <1>6, <1>8, <4>1, <4>2 DEF KeptSlot
    <3>2. td[n].op = "for" /\ BodyNo(td, n) = Len(r) /\ td[n].slot = w
      BY <1>1, <1>7 DEF n
    <3> QED BY <2>1, <2>3, <3>1, <3>2 DEF Formed
  <2> QED BY <2>2, <2>3
<1>13. Shape(r2, td)
  BY <1>1, <1>8, <1>12 DEF Shape, n
<1> QED BY <1>8, <1>9, <1>11, <1>13 DEF Typed, Continues, n, r2, x, w

\* A root is overwritten.
LEMMA SameRoots ==
  ASSUME NEW r, NEW td, Typed(r, td), Shape(r, td), NEW r2 \in Seq(Seq(Pointer)), Len(r2) = Len(r),
         \A i \in 1 .. Len(r) : DOMAIN FrameAt(r2, i) = DOMAIN FrameAt(r, i)
  PROVE  Typed(r2, td) /\ Shape(r2, td)
<1>1. \A k \in 1 .. Len(td) : BodyNo(td, k) \in 1 .. Len(r)
  BY Numbers
<1>2. ASSUME NEW k \in 1 .. Len(td)
      PROVE  Formed(r2, td, k)
  <2>1. Formed(r, td, k) /\ BodyNo(td, k) \in 1 .. Len(r)
    BY <1>1 DEF Shape
  <2>2. \A a : KeptSlot(r, td, k, BodyNo(td, k), a) => KeptSlot(r2, td, k, BodyNo(td, k), a)
    BY <2>1 DEF KeptSlot
  <2> QED BY <2>1, <2>2 DEF Formed
<1> QED BY <1>2 DEF Typed, Shape

\* The evaluation of an expression begins.
LEMMA StartShape ==
  LET r2 == << << >> >>
      td2 == << Construct("body", 0) >>
  IN  Typed(r2, td2) /\ Shape(r2, td2) /\ Len(td2) = 1 /\ td2[1] = Construct("body", 0)
<1> DEFINE r2 == << << >> >>
           td2 == << Construct("body", 0) >>
<1>1. Construct("body", 0) \in Constructs /\ Registers(Construct("body", 0))
  <2>1. << >> \in Seq(Pointer \cup {Scalar})
    BY EmptySeq
  <2> QED BY <2>1 DEF Construct, Constructs, Registers
<1>2. r2 \in Seq(Seq(Pointer)) /\ td2 \in Seq(Constructs)
  <2>1. << >> \in Seq(Pointer)
    BY EmptySeq
  <2> QED BY <1>1, <2>1
<1>3. Len(r2) = 1 /\ Len(td2) = 1 /\ td2[1] = Construct("body", 0)
  OBVIOUS
<1>4. td2[0 + 1].op = "body" /\ 0 + 1 = 1
  BY DEF Construct
<1>5. BodyNo(td2, 1) = 1
  BY <1>4, BodyNoNone, BodyNoNext
<1> HIDE DEF td2, r2
<1>6. Formed(r2, td2, 1)
  <2>1. Construct("body", 0).op = "body" /\ Construct("body", 0).slot = 0
    BY DEF Construct
  <2> QED BY <1>1, <1>3, <2>1 DEF Formed
<1>7. Shape(r2, td2)
  BY <1>3, <1>5, <1>6 DEF Shape
<1> QED BY <1>2, <1>3, <1>7 DEF Typed, r2, td2

-------------------------------------------------------------------------------
(* Kept is kept: what holds registers and values when the heap, the roots   *)
(* and the constructs change.                                               *)

HeapType == [Cell -> Object \cup {None}]
Value == Pointer \cup {Scalar, None}
Origin == {"literal", "built", "read", "result"}

GenCodeInv ==
  /\ obj \in HeapType /\ val \in Value /\ from \in Origin
  /\ Typed(roots, todo) /\ Shape(roots, todo)
  /\ Lapses = {} => Kept(obj, roots, todo, val, from)

\* Kept roots are roots.
LEMMA KeptRooted ==
  ASSUME NEW r, NEW td, Typed(r, td), Shape(r, td), NEW k \in 1 .. Len(td)
  PROVE  /\ AuxRoots(r, td, k) \subseteq KeptRoots(r, td, k)
         /\ KeptRoots(r, td, k) \subseteq RootedIn(r) /\ RootedIn(r) \subseteq Cell
<1>1. AuxRoots(r, td, k) \subseteq KeptRoots(r, td, k)
  BY DEF AuxRoots, KeptRoots
<1>2. ASSUME NEW c \in KeptRoots(r, td, k)
      PROVE  c \in RootedIn(r)
  <2>1. PICK i \in 1 .. BodyNo(td, k) : \E a \in DOMAIN FrameAt(r, i) : FrameAt(r, i)[a] = c
    BY <1>2 DEF KeptRoots
  <2>2. Len(r) \in Nat /\ BodyNo(td, k) \in 1 .. Len(r) /\ DOMAIN r = 1 .. Len(r)
    BY Numbers, LenProperties DEF Typed
  <2>3. Len(r) + 1 - i \in DOMAIN r
    BY <2>2
  <2>4. c \in Cell
    BY <1>2 DEF KeptRoots
  <2> QED BY <2>1, <2>3, <2>4 DEF RootedIn, FrameAt
<1> QED BY <1>1, <1>2 DEF RootedIn

\* A cell that stays allocated by itself is reached from the roots.
LEMMA CellReached ==
  ASSUME NEW r, NEW td, Typed(r, td), Shape(r, td), NEW k \in 1 .. Len(td), NEW o, NEW G, NEW c,
         KeptCell(o, r, td, k, G, c)
  PROVE  c \in ReachIn(o, RootedIn(r))
<1>1. /\ AuxRoots(r, td, k) \subseteq KeptRoots(r, td, k)
      /\ KeptRoots(r, td, k) \subseteq RootedIn(r) /\ RootedIn(r) \subseteq Cell
  BY KeptRooted
<1>2. RootedIn(r) \subseteq ReachIn(o, RootedIn(r))
  BY <1>1, ReachClosed
<1>3. KeptRoots(r, td, k) \in SUBSET Cell /\ RootedIn(r) \in SUBSET Cell
  BY <1>1
<1>4. ReachIn(o, KeptRoots(r, td, k)) \subseteq ReachIn(o, RootedIn(r))
  BY <1>1, <1>3, ReachGrows
<1> QED BY <1>1, <1>2, <1>4 DEF KeptCell

\* The registers of construct k, when its roots carry over.
LEMMA RegsCarry ==
  ASSUME NEW r, NEW td, Typed(r, td), Shape(r, td), NEW r2, NEW td2, NEW k \in 1 .. Len(td),
         NEW o, NEW o2, td2[k] = td[k], RegKept(o, r, td, k),
         AuxRoots(r, td, k) \subseteq AuxRoots(r2, td2, k),
         \A d \in ReachIn(o, RootedIn(r)) : CdrIn(o, d) \subseteq CdrIn(o2, d),
         "read" \in td[k].got =>
           /\ KeptRoots(r, td, k) \subseteq KeptRoots(r2, td2, k)
           /\ \A d \in ReachIn(o, RootedIn(r)) : NamesIn(o, d) \subseteq NamesIn(o2, d)
  PROVE  RegKept(o2, r2, td2, k)
<1> DEFINE t == td[k]
<1> SUFFICES ASSUME t.op # "nested", "result" \notin t.got, NEW j \in 1 .. Len(t.regs), t.regs[j] \in Cell
             PROVE  IF t.op = "pair" /\ j = 2 THEN t.regs[2] \in RowIn(o2, t.regs[1])
                                             ELSE KeptCell(o2, r2, td2, k, t.got, t.regs[j])
  BY DEF RegKept
<1>1. CASE ~(t.op = "pair" /\ j = 2)
  <2>1. KeptCell(o, r, td, k, t.got, t.regs[j])
    BY <1>1 DEF RegKept
  <2>2. ASSUME "read" \in t.got, t.regs[j] \in ReachIn(o, KeptRoots(r, td, k))
        PROVE  t.regs[j] \in ReachIn(o2, KeptRoots(r2, td2, k))
    <3>1. KeptRoots(r, td, k) \in SUBSET Cell /\ KeptRoots(r2, td2, k) \in SUBSET Cell
          /\ RootedIn(r) \in SUBSET Cell /\ KeptRoots(r, td, k) \subseteq RootedIn(r)
      BY KeptRooted DEF KeptRoots
    <3>2. ReachIn(o, KeptRoots(r, td, k)) \subseteq ReachIn(o, RootedIn(r))
      BY <3>1, ReachGrows
    <3>3. ReachIn(o, KeptRoots(r, td, k)) \subseteq ReachIn(o2, KeptRoots(r2, td2, k))
      BY <2>2, <3>1, <3>2, ReachGrows
    <3> QED BY <2>2, <3>3
  <2>3. KeptCell(o2, r2, td2, k, t.got, t.regs[j])
    BY <2>1, <2>2 DEF KeptCell
  <2> QED BY <1>1, <2>3
<1>2. CASE t.op = "pair" /\ j = 2
  <2>1. t.regs[2] \in RowIn(o, t.regs[1])
    BY <1>2 DEF RegKept
  <2>2. t.regs[1] \in Cell /\ Len(t.regs) = 2 /\ t.got = {}
    <3>1. Registers(t)
      BY DEF Shape, Formed
    <3>2. t.regs # << >>
      OBVIOUS
    <3> QED BY <1>2, <3>1, <3>2 DEF Registers
  <2>3. 1 \in 1 .. Len(t.regs)
    BY <2>2
  <2>4. KeptCell(o, r, td, k, t.got, t.regs[1])
    BY <2>2, <2>3 DEF RegKept
  <2>5. t.regs[1] \in ReachIn(o, RootedIn(r)) /\ RootedIn(r) \in SUBSET Cell
    BY <2>4, CellReached, KeptRooted
  <2>6. RowIn(o, t.regs[1]) \subseteq ReachIn(o, RootedIn(r))
    BY <2>5, RowReached
  <2>7. RowIn(o, t.regs[1]) \subseteq RowIn(o2, t.regs[1])
    BY <2>2, <2>6, RowGrows
  <2> QED BY <1>2, <2>7, <2>1
<1> QED BY <1>1, <1>2

\* Constructs up to m that continue.
LEMMA RegsContinue ==
  ASSUME NEW r, NEW td, Typed(r, td), Shape(r, td), NEW r2, NEW td2, Typed(r2, td2), NEW m,
         Continues(r, td, r2, td2, m), NEW k \in 1 .. m,
         NEW o, NEW o2, td2[k] = td[k], RegKept(o, r, td, k),
         \A d \in ReachIn(o, RootedIn(r)) : CdrIn(o, d) \subseteq CdrIn(o2, d),
         "read" \in td[k].got =>
           \A d \in ReachIn(o, RootedIn(r)) : NamesIn(o, d) \subseteq NamesIn(o2, d)
  PROVE  RegKept(o2, r2, td2, k)
<1>1. Len(td) \in Nat /\ Len(td2) \in Nat /\ k \in 0 .. m /\ k \in 1 .. Len(td)
  BY LenProperties DEF Typed, Continues, SameUpTo
<1>2. /\ KeptRoots(r, td, k) \subseteq KeptRoots(r2, td2, k)
      /\ AuxRoots(r, td, k) \subseteq AuxRoots(r2, td2, k)
  BY <1>1, RootsCarry DEF Continues
<1> QED BY <1>1, <1>2, RegsCarry

\* The heap after a collection.
SweptIn(o, r) == [c \in Cell |-> IF o[c] # None /\ c \notin ReachIn(o, RootedIn(r)) THEN None ELSE o[c]]

\* The heap after a collection.
LEMMA SweptIs == Swept = SweptIn(obj, roots)
BY HeapOperators DEF Swept, Garbage, SweptIn

\* Nothing is in registers only.
Quiet(td, v, f) ==
  /\ ~(f = "result" /\ v \in Cell)
  /\ \A k \in 1 .. Len(td) : "result" \notin td[k].got /\ (td[k].op = "nested" => td[k].regs = << >>)

\* When no result of a call and no half-made nested cons is about, everything in a
\* register is reached from the roots: the collector sees it.
LEMMA AllReached ==
  ASSUME NEW r, NEW td, Typed(r, td), Shape(r, td), td # << >>, NEW o, NEW v, NEW f,
         Kept(o, r, td, v, f), Quiet(td, v, f), ~AwaitsTail(td[Len(td)])
  PROVE  /\ v \in Cell => v \in ReachIn(o, RootedIn(r))
         /\ \A k \in 1 .. Len(td) : \A j \in 1 .. Len(td[k].regs) :
              td[k].regs[j] \in Cell => td[k].regs[j] \in ReachIn(o, RootedIn(r))
<1>1. Len(td) \in 1 .. Len(td)
  BY Numbers
<1>2. v \in Cell => v \in ReachIn(o, RootedIn(r))
  <2>1. v \in Cell => KeptCell(o, r, td, Len(td), {f}, v)
    BY DEF Kept, ValKept, Quiet
  <2> QED BY <1>1, <2>1, CellReached
<1>3. ASSUME NEW k \in 1 .. Len(td), NEW j \in 1 .. Len(td[k].regs), td[k].regs[j] \in Cell
      PROVE  td[k].regs[j] \in ReachIn(o, RootedIn(r))
  <2> DEFINE t == td[k]
  <2>1. t.regs # << >>
    BY <1>3
  <2>2. t.op # "nested" /\ "result" \notin t.got
    BY <2>1 DEF Quiet
  <2>3. \A i \in 1 .. Len(t.regs) : t.regs[i] \in Cell =>
          \/ KeptCell(o, r, td, k, t.got, t.regs[i])
          \/ t.op = "pair" /\ i = 2 /\ t.regs[2] \in RowIn(o, t.regs[1])
    BY <2>2 DEF Kept, RegKept
  <2>4. CASE KeptCell(o, r, td, k, t.got, t.regs[j])
    BY <2>4, CellReached
  <2>5. CASE t.op = "pair" /\ j = 2 /\ t.regs[2] \in RowIn(o, t.regs[1])
    <3>1. Registers(t)
      BY DEF Shape, Formed
    <3>2. Len(t.regs) = 2 /\ t.regs[1] \in Cell /\ 1 \in 1 .. Len(t.regs) /\ 1 # 2
      BY <2>1, <2>5, <3>1 DEF Registers
    <3>3. KeptCell(o, r, td, k, t.got, t.regs[1])
      BY <2>3, <3>2
    <3>4. t.regs[1] \in ReachIn(o, RootedIn(r)) /\ RootedIn(r) \in SUBSET Cell
      BY <3>3, CellReached, KeptRooted
    <3> QED BY <2>5, <3>4, RowReached
  <2> QED BY <1>3, <2>3, <2>4, <2>5
<1> QED BY <1>2, <1>3

\* So a collection keeps the invariant (gc_new may call collect, gc.c).
LEMMA Collected ==
  ASSUME NEW r, NEW td, Typed(r, td), Shape(r, td), td # << >>, NEW o \in HeapType, NEW v, NEW f,
         Kept(o, r, td, v, f), Quiet(td, v, f), ~AwaitsTail(td[Len(td)]),
         NEW h, h = o \/ h = SweptIn(o, r)
  PROVE  h \in HeapType /\ Kept(h, r, td, v, f)
<1>1. CASE h = o
  BY <1>1
<1>2. CASE h = SweptIn(o, r)
  <2> DEFINE L == ReachIn(o, RootedIn(r))
  <2>1. h \in HeapType
    BY <1>2 DEF SweptIn, HeapType
  <2>2. /\ RootedIn(r) \in SUBSET Cell /\ L \subseteq Cell /\ RootedIn(r) \subseteq L
        /\ \A d \in L : NamesIn(o, d) \subseteq L
    <3>1. RootedIn(r) \in SUBSET Cell
      BY DEF RootedIn
    <3> QED BY <3>1, ReachClosed
  <2>3. L \subseteq Alloc(o)
    <3>1. RootedIn(r) \subseteq Alloc(o) /\ Alloc(o) \in SUBSET Cell
          /\ \A d \in Alloc(o) : NamesIn(o, d) \subseteq Alloc(o)
      BY DEF Kept, Sound, Alloc
    <3> QED BY <3>1, ReachLeast
  <2>4. /\ v \in Cell => v \in L
        /\ \A k \in 1 .. Len(td) : \A j \in 1 .. Len(td[k].regs) :
             td[k].regs[j] \in Cell => td[k].regs[j] \in L
    BY AllReached
  <2> HIDE DEF L
  <2>5. \A d \in L : d \in Cell /\ h[d] = o[d] /\ h[d] # None
    BY <1>2, <2>2, <2>3 DEF SweptIn, L, Alloc
  <2>6. \A d \in Alloc(h) : d \in L
    BY <1>2 DEF SweptIn, Alloc, L
  <2>7. L \subseteq Alloc(h)
    BY <2>5 DEF Alloc
  <2>8. \A d \in L : NamesIn(h, d) = NamesIn(o, d) /\ CdrIn(h, d) = CdrIn(o, d)
    BY <2>5 DEF NamesIn, CdrIn
  <2>9. Sound(h, r, td, v)
    <3>1. \A c \in Alloc(h) : /\ NamesIn(h, c) \subseteq Alloc(h)
                              /\ h[c].is_pointer <=> h[c].car \in Pointer
      <4> SUFFICES ASSUME NEW c \in Alloc(h)
                   PROVE  NamesIn(h, c) \subseteq Alloc(h) /\ (h[c].is_pointer <=> h[c].car \in Pointer)
        OBVIOUS
      <4>1. c \in L /\ c \in Alloc(o) /\ h[c] = o[c]
        BY <2>3, <2>5, <2>6
      <4>2. NamesIn(h, c) \subseteq L
        BY <2>2, <2>8, <4>1 DEF L
      <4>3. o[c].is_pointer <=> o[c].car \in Pointer
        BY <4>1 DEF Kept, Sound
      <4> QED BY <2>7, <4>1, <4>2, <4>3
    <3>2. RootedIn(r) \subseteq Alloc(h)
      BY <2>2, <2>7 DEF L
    <3> QED BY <2>4, <2>7, <3>1, <3>2 DEF Sound
  <2>10. ValKept(h, r, td, v, f)
    <3>1. td = << >> => v = None
      BY DEF Kept, ValKept
    <3>2. ASSUME v \in Cell PROVE KeptCell(h, r, td, Len(td), {f}, v)
      <4>1. KeptCell(o, r, td, Len(td), {f}, v)
        BY <3>2 DEF Kept, ValKept, Quiet
      <4>2. Len(td) \in 1 .. Len(td)
        BY Numbers
      <4>3. KeptRoots(r, td, Len(td)) \in SUBSET Cell /\ KeptRoots(r, td, Len(td)) \subseteq RootedIn(r)
        BY <4>2, KeptRooted DEF KeptRoots
      <4>4. ReachIn(o, KeptRoots(r, td, Len(td))) \subseteq L
        BY <2>2, <4>3, ReachGrows DEF L
      <4>5. ReachIn(o, KeptRoots(r, td, Len(td))) \subseteq ReachIn(h, KeptRoots(r, td, Len(td)))
        BY <2>8, <4>3, <4>4, ReachGrows
      <4> QED BY <4>1, <4>5 DEF KeptCell
    <3> QED BY <3>1, <3>2 DEF ValKept
  <2>11. Ends(h, td)
    <3> SUFFICES ASSUME NEW k \in 1 .. Len(td), Making(td[k])
                 PROVE  /\ h[LastCell(td[k])] # None => h[LastCell(td[k])].cdr = None
                        /\ \A l \in 1 .. Len(td) :
                             Making(td[l]) /\ l # k => LastCell(td[l]) # LastCell(td[k])
      BY DEF Ends
    <3>1. /\ o[LastCell(td[k])] # None => o[LastCell(td[k])].cdr = None
          /\ \A l \in 1 .. Len(td) : Making(td[l]) /\ l # k => LastCell(td[l]) # LastCell(td[k])
      BY DEF Kept, Ends
    <3>2. Registers(td[k])
      BY DEF Shape, Formed
    <3>3. LastCell(td[k]) \in Cell /\ Len(td[k].regs) \in 1 .. Len(td[k].regs)
      BY <3>2 DEF Making, LastCell, Registers
    <3>4. LastCell(td[k]) \in L
      BY <2>4, <3>3 DEF LastCell
    <3> QED BY <2>5, <3>1, <3>4
  <2>12. ASSUME NEW k \in 1 .. Len(td)
         PROVE  RegKept(h, r, td, k)
    <3>1. RegKept(o, r, td, k)
      BY DEF Kept
    <3> QED BY <2>8, <3>1, RegsCarry DEF L
  <2> QED BY <2>1, <2>9, <2>10, <2>11, <2>12 DEF Kept
<1> QED BY <1>1, <1>2

\* From the heap h to o2, c became an object and no link was cut.
Allocated(h, o2, c) ==
  /\ o2 \in HeapType /\ c \in Cell /\ h[c] = None /\ o2[c] # None /\ o2[c].cdr = None
  /\ Alloc(o2) = Alloc(h) \cup {c}
  /\ \A d \in Alloc(o2) : NamesIn(o2, d) \subseteq Alloc(o2) /\ (o2[d].is_pointer <=> o2[d].car \in Pointer)
  /\ \A d \in Alloc(h) : NamesIn(h, d) \subseteq NamesIn(o2, d) /\ CdrIn(h, d) \subseteq CdrIn(o2, d)

\* A new object has no cdr, and the car that was asked for.
LEMMA FreshObject ==
  ASSUME NEW v \in Pointer \cup {Scalar}
  PROVE  /\ Fresh(v \in Pointer, v) \in Object /\ Fresh(v \in Pointer, v) # None
         /\ Fresh(v \in Pointer, v).cdr = None /\ Fresh(v \in Pointer, v).car = v
         /\ Fresh(v \in Pointer, v).is_pointer <=> v \in Pointer
<1>1. Fresh(v \in Pointer, v) \in Object
  BY DEF Fresh, Object
<1> QED BY <1>1, NoneAssumption DEF Fresh

\* A cell that was free, made an object: nothing named it.
LEMMA NewCell ==
  ASSUME NEW h \in HeapType, NEW c \in Cell, h[c] = None, NEW v \in Pointer \cup {Scalar},
         v \in Cell => v \in Alloc(h),
         \A d \in Alloc(h) : NamesIn(h, d) \subseteq Alloc(h) /\ (h[d].is_pointer <=> h[d].car \in Pointer)
  PROVE  Allocated(h, [h EXCEPT ![c] = Fresh(v \in Pointer, v)], c)
<1> DEFINE o2 == [h EXCEPT ![c] = Fresh(v \in Pointer, v)]
           x == Fresh(v \in Pointer, v)
<1>1. /\ x \in Object /\ x # None /\ x.cdr = None /\ x.car = v /\ (x.is_pointer <=> v \in Pointer)
  BY FreshObject
<1>2. o2 \in HeapType /\ o2[c] = x /\ \A d \in Cell : d # c => o2[d] = h[d]
  BY <1>1 DEF HeapType
<1> HIDE DEF o2, x
<1>3. Alloc(o2) = Alloc(h) \cup {c}
  BY <1>1, <1>2 DEF Alloc
<1>4. \A d \in Alloc(h) : d \in Cell /\ d # c /\ o2[d] = h[d]
  BY <1>2 DEF Alloc
<1>5. \A d \in Alloc(h) : NamesIn(o2, d) = NamesIn(h, d) /\ CdrIn(o2, d) = CdrIn(h, d)
  BY <1>4 DEF NamesIn, CdrIn
<1>6. NamesIn(o2, c) \subseteq Alloc(h)
  <2>1. None \notin Cell
    BY WordAssumption
  <2> QED BY <1>1, <1>2, <2>1 DEF NamesIn
<1>7. ASSUME NEW d \in Alloc(o2)
      PROVE  NamesIn(o2, d) \subseteq Alloc(o2) /\ (o2[d].is_pointer <=> o2[d].car \in Pointer)
  <2>1. CASE d = c
    BY <1>1, <1>2, <1>3, <1>6, <2>1
  <2>2. CASE d \in Alloc(h)
    BY <1>3, <1>4, <1>5, <2>2
  <2> QED BY <1>3, <2>1, <2>2
<1> QED BY <1>1, <1>2, <1>3, <1>5, <1>7 DEF Allocated, o2

\* The same with the last cell of a literal linked to it.
LEMMA NewLinkedCell ==
  ASSUME NEW h \in HeapType, NEW c \in Cell, h[c] = None, NEW v \in Pointer \cup {Scalar},
         v \in Cell => v \in Alloc(h), NEW last \in Alloc(h), h[last].cdr = None,
         \A d \in Alloc(h) : NamesIn(h, d) \subseteq Alloc(h) /\ (h[d].is_pointer <=> h[d].car \in Pointer),
         NEW o2 \in HeapType, o2[c] = Fresh(v \in Pointer, v),
         o2[last] # None, o2[last].cdr = c, o2[last].car = h[last].car,
         o2[last].is_pointer = h[last].is_pointer,
         \A d \in Cell : d # c /\ d # last => o2[d] = h[d]
  PROVE  Allocated(h, o2, c) /\ CdrIn(o2, last) = {c} /\ \A d \in Alloc(h) : d # last => o2[d] = h[d]
<1> DEFINE x == Fresh(v \in Pointer, v)
           y == o2[last]
<1>1. /\ x \in Object /\ x # None /\ x.cdr = None /\ x.car = v /\ (x.is_pointer <=> v \in Pointer)
  BY FreshObject
<1>2. last \in Cell /\ last # c /\ h[last] # None /\ h[last] \in Object
  BY DEF Alloc, HeapType
<1>3. /\ y # None /\ y.cdr = c /\ y.car = h[last].car
      /\ y.is_pointer = h[last].is_pointer
  OBVIOUS
<1>4. /\ o2 \in HeapType /\ o2[c] = x /\ o2[last] = y
      /\ \A d \in Cell : d # c /\ d # last => o2[d] = h[d]
  OBVIOUS
<1> HIDE DEF x, y
<1>5. Alloc(o2) = Alloc(h) \cup {c}
  BY <1>1, <1>2, <1>3, <1>4 DEF Alloc
<1>6. \A d \in Alloc(h) : d \in Cell /\ d # c /\ (d # last => o2[d] = h[d])
  BY <1>4 DEF Alloc
<1>7. \A d \in Alloc(h) : d # last => NamesIn(o2, d) = NamesIn(h, d) /\ CdrIn(o2, d) = CdrIn(h, d)
  BY <1>6 DEF NamesIn, CdrIn
<1>8. None \notin Cell
  BY WordAssumption
<1>9. NamesIn(o2, c) \subseteq Alloc(h)
  BY <1>1, <1>4, <1>8 DEF NamesIn
<1>10. /\ NamesIn(h, last) \subseteq NamesIn(o2, last) /\ NamesIn(o2, last) \subseteq NamesIn(h, last) \cup {c}
       /\ CdrIn(o2, last) = {c} /\ CdrIn(h, last) = {}
  BY <1>2, <1>3, <1>4, <1>8 DEF NamesIn, CdrIn
<1>11. ASSUME NEW d \in Alloc(o2)
       PROVE  NamesIn(o2, d) \subseteq Alloc(o2) /\ (o2[d].is_pointer <=> o2[d].car \in Pointer)
  <2>1. CASE d = c
    BY <1>1, <1>4, <1>5, <1>9, <2>1
  <2>2. CASE d = last
    <3>1. NamesIn(h, last) \subseteq Alloc(h) /\ (h[last].is_pointer <=> h[last].car \in Pointer)
      OBVIOUS
    <3> QED BY <1>3, <1>4, <1>5, <1>10, <2>2, <3>1
  <2>3. CASE d \in Alloc(h) /\ d # last
    <3>1. o2[d] = h[d] /\ NamesIn(o2, d) = NamesIn(h, d) /\ NamesIn(h, d) \subseteq Alloc(h)
          /\ (h[d].is_pointer <=> h[d].car \in Pointer)
      BY <1>6, <1>7, <2>3
    <3> QED BY <1>5, <3>1
  <2> QED BY <1>5, <2>1, <2>2, <2>3
<1>12. \A d \in Alloc(h) : NamesIn(h, d) \subseteq NamesIn(o2, d) /\ CdrIn(h, d) \subseteq CdrIn(o2, d)
  BY <1>7, <1>10
<1> QED BY <1>1, <1>4, <1>5, <1>6, <1>10, <1>11, <1>12 DEF Allocated

\* Roots that are variables' belong to the frame.
LEMMA OwnedKept ==
  ASSUME NEW r, NEW td, Shape(r, td), NEW l \in 1 .. Len(td), NEW a, Owns(td[l], a)
  PROVE  KeptSlot(r, td, l, BodyNo(td, l), a)
<1>1. Formed(r, td, l)
  BY DEF Shape
<1> QED BY <1>1 DEF Formed, Owns

\* One more root adds its cell to what the roots have.
LEMMA RootedWith ==
  ASSUME NEW r \in Seq(Seq(Pointer)), Len(r) >= 1, NEW v \in Pointer
  PROVE  RootedIn([r EXCEPT ![1] = Append(@, v)]) \subseteq RootedIn(r) \cup {v}
<1> DEFINE r2 == [r EXCEPT ![1] = Append(@, v)]
<1>1. DOMAIN r = 1 .. Len(r) /\ Len(r) \in Nat /\ 1 \in DOMAIN r /\ r[1] \in Seq(Pointer)
  <2>1. Len(r) \in Nat /\ DOMAIN r = 1 .. Len(r)
    BY LenProperties
  <2>2. r[1] \in Seq(Pointer)
    BY FrameTop
  <2> QED BY <2>1, <2>2
<1>2. DOMAIN r2 = DOMAIN r /\ r2[1] = Append(r[1], v) /\ \A k \in DOMAIN r : k # 1 => r2[k] = r[k]
  BY <1>1
<1>3. DOMAIN r[1] = 1 .. Len(r[1]) /\ Len(r[1]) \in Nat
  BY <1>1, LenProperties
<1>4. \A s \in DOMAIN r2[1] : r2[1][s] = v \/ (s \in DOMAIN r[1] /\ r2[1][s] = r[1][s])
  <2>1. /\ Len(r2[1]) = Len(r[1]) + 1 /\ r2[1][Len(r[1]) + 1] = v /\ r2[1] \in Seq(Pointer)
        /\ \A s \in 1 .. Len(r[1]) : r2[1][s] = r[1][s]
    BY <1>1, <1>2, AppendProperties
  <2>2. DOMAIN r2[1] = 1 .. Len(r[1]) + 1
    BY <2>1, LenProperties
  <2>3. \A s \in 1 .. Len(r[1]) + 1 : s \in 1 .. Len(r[1]) \/ s = Len(r[1]) + 1
    BY <1>3
  <2> QED BY <1>3, <2>1, <2>2, <2>3
<1> HIDE DEF r2
<1>5. ASSUME NEW k \in DOMAIN r2, NEW s \in DOMAIN r2[k], r2[k][s] \in Cell
      PROVE  r2[k][s] \in RootedIn(r) \cup {v}
  <2>1. CASE k = 1
    BY <1>1, <1>4, <1>5, <2>1 DEF RootedIn
  <2>2. CASE k # 1
    <3>1. k \in DOMAIN r /\ r2[k] = r[k]
      BY <1>2, <2>2
    <3> QED BY <1>5, <3>1 DEF RootedIn
  <2> QED BY <2>1, <2>2
<1> QED BY <1>5 DEF RootedIn, r2

-------------------------------------------------------------------------------
(* The steps that leave the heap alone.                                     *)

\* What continues up to n continues up to any m below.
LEMMA ContinuesBelow ==
  ASSUME NEW r, NEW r2, NEW td, NEW td2, NEW m, Continues(r, td, r2, td2, m),
         Len(td) \in Nat, Len(td2) \in Nat, NEW k \in 0 .. m
  PROVE  Continues(r, td, r2, td2, k)
<1>1. Carries(r, td, r2, td2, k) /\ NoNewNames(r, td, td2, k)
  BY CarriesBelow, NamesBelow DEF Continues
<1>2. m \in Nat /\ m <= Len(td) /\ m <= Len(td2) /\ \A l \in 1 .. m : td2[l].op = td[l].op /\ td2[l].slot = td[l].slot
  BY DEF Continues, SameUpTo
<1>3. k \in Nat /\ k <= Len(td) /\ k <= Len(td2) /\ \A l \in 1 .. k : l \in 1 .. m
  BY <1>2
<1> QED BY <1>1, <1>2, <1>3 DEF Continues, SameUpTo

\* Up to m the constructs stay as they are; those above it are not about to link cells.
LEMMA SameHeapKept ==
  ASSUME NEW r, NEW td, Typed(r, td), Shape(r, td), NEW r2, NEW td2, Typed(r2, td2),
         NEW m, Continues(r, td, r2, td2, m), \A k \in 1 .. m : td2[k] = td[k],
         NEW o, NEW v, NEW f, Kept(o, r, td, v, f), NEW w, NEW g,
         RootedIn(r2) \subseteq Alloc(o), w \in Cell => w \in Alloc(o),
         \A k \in m + 1 .. Len(td2) :
           /\ ~Making(td2[k]) /\ RegKept(o, r2, td2, k)
           /\ \A j \in 1 .. Len(td2[k].regs) : td2[k].regs[j] \in Cell => td2[k].regs[j] \in Alloc(o),
         ValKept(o, r2, td2, w, g)
  PROVE  Kept(o, r2, td2, w, g)
<1>1. Len(td) \in Nat /\ Len(td2) \in Nat /\ m \in Nat /\ m <= Len(td)
  BY LenProperties DEF Typed, Continues, SameUpTo
<1>2. \A k \in 1 .. Len(td2) : k \in 1 .. m \/ k \in m + 1 .. Len(td2)
  BY <1>1
<1>3. \A k \in 1 .. m : k \in 1 .. Len(td)
  BY <1>1
<1>4. ASSUME NEW k \in 1 .. m
      PROVE  RegKept(o, r2, td2, k)
  <2>1. RegKept(o, r, td, k)
    BY <1>3 DEF Kept
  <2> QED BY <2>1, RegsContinue
<1>5. Sound(o, r2, td2, w)
  <2>1. \A k \in 1 .. m : \A j \in 1 .. Len(td2[k].regs) : td2[k].regs[j] \in Cell => td2[k].regs[j] \in Alloc(o)
    BY <1>3 DEF Kept, Sound
  <2>2. \A c \in Alloc(o) : NamesIn(o, c) \subseteq Alloc(o) /\ (o[c].is_pointer <=> o[c].car \in Pointer)
    BY DEF Kept, Sound
  <2> QED BY <1>2, <2>1, <2>2 DEF Sound
<1>6. Ends(o, td2)
  <2>1. \A k \in 1 .. Len(td2) : Making(td2[k]) => k \in 1 .. Len(td) /\ td2[k] = td[k]
    BY <1>2, <1>3
  <2>2. Ends(o, td)
    BY DEF Kept
  <2> QED BY <2>1, <2>2 DEF Ends
<1> QED BY <1>2, <1>4, <1>5, <1>6 DEF Kept

\* A construct without registers has nothing to keep.
LEMMA NoRegs ==
  ASSUME NEW o, NEW r, NEW td, NEW k, td[k].regs = << >>
  PROVE  /\ ~Making(td[k]) /\ RegKept(o, r, td, k)
         /\ \A j \in 1 .. Len(td[k].regs) : td[k].regs[j] \in Cell => td[k].regs[j] \in Alloc(o)
<1>1. Len(td[k].regs) = 0
  OBVIOUS
<1>2. \A j \in 1 .. Len(td[k].regs) : FALSE
  BY <1>1
<1> QED BY <1>2 DEF Making, RegKept

\* The constructs that stay open keep their roots when the innermost is left.
LEMMA PopKeeps ==
  ASSUME NEW r, NEW td, Typed(r, td), Shape(r, td), td # << >>, td[Len(td)].op # "body"
  PROVE  LET td2 == SubSeq(td, 1, Len(td) - 1)
         IN  /\ KeptRoots(r, td, Len(td)) \subseteq KeptRoots(r, td2, Len(td2))
             /\ AuxRoots(r, td, Len(td)) \subseteq AuxRoots(r, td2, Len(td2))
<1> DEFINE td2 == SubSeq(td, 1, Len(td) - 1)
<1>1. /\ Shape(r, td2) /\ Typed(r, td2)
      /\ Len(td2) = Len(td) - 1 /\ \A i, a : NamedSlot(td2, i, a) => NamedSlot(td, i, a)
  BY PopContinues
<1> HIDE DEF td2
<1>2. BodyNo(td2, Len(td2)) = BodyNo(td, Len(td)) /\ Len(td2) \in Nat
  BY <1>1, LenProperties DEF Shape, Typed
<1>3. \A i, a : KeptSlot(r, td, Len(td), i, a) => KeptSlot(r, td2, Len(td2), i, a)
  <2>1. \A l \in Len(td2) + 1 .. Len(td2) : FALSE
    BY <1>2
  <2> QED BY <1>2, <2>1 DEF KeptSlot
<1>4. KeptRoots(r, td, Len(td)) \subseteq KeptRoots(r, td2, Len(td2))
  BY <1>2, <1>3 DEF KeptRoots
<1>5. AuxRoots(r, td, Len(td)) \subseteq AuxRoots(r, td2, Len(td2))
  BY <1>1, <1>2, <1>3 DEF AuxRoots
<1> QED BY <1>4, <1>5 DEF td2

\* A cell that stays allocated for the innermost construct does so for the one around it.
LEMMA PopCell ==
  ASSUME NEW r, NEW td, Typed(r, td), Shape(r, td), td # << >>, td[Len(td)].op # "body",
         NEW o, NEW G, NEW c, KeptCell(o, r, td, Len(td), G, c)
  PROVE  KeptCell(o, r, SubSeq(td, 1, Len(td) - 1), Len(SubSeq(td, 1, Len(td) - 1)), G, c)
<1> DEFINE td2 == SubSeq(td, 1, Len(td) - 1)
<1>1. /\ KeptRoots(r, td, Len(td)) \subseteq KeptRoots(r, td2, Len(td2))
      /\ AuxRoots(r, td, Len(td)) \subseteq AuxRoots(r, td2, Len(td2))
  BY PopKeeps
<1> HIDE DEF td2
<1>2. KeptRoots(r, td, Len(td)) \in SUBSET Cell /\ KeptRoots(r, td2, Len(td2)) \in SUBSET Cell
  BY DEF KeptRoots
<1>3. ReachIn(o, KeptRoots(r, td, Len(td))) \subseteq ReachIn(o, KeptRoots(r, td2, Len(td2)))
  BY <1>1, <1>2, ReachGrows
<1>4. KeptCell(o, r, td2, Len(td2), G, c)
  BY <1>1, <1>3 DEF KeptCell
<1> QED BY <1>4 DEF td2

\* A construct is left, its value is w.
LEMMA PopKept ==
  ASSUME NEW r, NEW td, Typed(r, td), Shape(r, td), td # << >>, td[Len(td)].op # "body",
         NEW o, NEW v, NEW f, Kept(o, r, td, v, f), NEW w, NEW g, w \in Cell => w \in Alloc(o),
         w \in Cell => g = "result" \/ KeptCell(o, r, td, Len(td), {g}, w)
  PROVE  Kept(o, r, SubSeq(td, 1, Len(td) - 1), w, g)
<1> DEFINE td2 == SubSeq(td, 1, Len(td) - 1)
           m == Len(td) - 1
<1>1. /\ Shape(r, td2) /\ Typed(r, td2) /\ Continues(r, td, r, td2, m)
      /\ Len(td2) = m /\ Len(td) >= 2 /\ \A k \in 1 .. m : td2[k] = td[k]
  BY PopContinues
<1>2. w \in Cell => g = "result" \/ KeptCell(o, r, td2, Len(td2), {g}, w)
  BY PopCell
<1>3. m \in Nat /\ m >= 1
  <2>1. Len(td) \in Nat
    BY LenProperties DEF Typed
  <2> QED BY <1>1, <2>1
<1> HIDE DEF td2, m
<1>4. td2 # << >>
  BY <1>1, <1>3
<1>5. ValKept(o, r, td2, w, g)
  BY <1>2, <1>4 DEF ValKept
<1>6. \A k \in m + 1 .. Len(td2) : FALSE
  BY <1>1, <1>3
<1>7. RootedIn(r) \subseteq Alloc(o)
  BY DEF Kept, Sound
<1>8. Kept(o, r, td2, w, g)
  BY <1>1, <1>5, <1>6, <1>7, SameHeapKept
<1> QED BY <1>8 DEF td2

\* A construct is entered, its registers hold kept cells.
LEMMA PushKept ==
  ASSUME NEW r, NEW td, Typed(r, td), Shape(r, td), td # << >>, NEW t \in Constructs,
         t.op \notin {"body", "in"}, t.op = "for" => t.slot = Len(r[1]),
         t.op = "nested" => AwaitsTail(td[Len(td)]),
         t.op = "assign" => \E l \in 1 .. Len(td) : BodyNo(td, l) = Len(r) /\ Owns(td[l], t.slot),
         Registers(t), ~Making(t), NEW o, NEW v, NEW f, Kept(o, r, td, v, f), NEW g,
         \A j \in 1 .. Len(t.regs) : t.regs[j] \in Cell =>
           t.regs[j] \in Alloc(o) /\ KeptCell(o, r, td, Len(td), t.got, t.regs[j])
  PROVE  Kept(o, r, Append(td, t), None, g)
<1> DEFINE td2 == Append(td, t)
           n == Len(td)
<1>1. /\ Typed(r, td2) /\ Shape(r, td2) /\ Continues(r, td, r, td2, n)
      /\ Len(td2) = n + 1 /\ td2[n + 1] = t /\ \A k \in 1 .. n : td2[k] = td[k]
  BY PushContinues
<1>2. n \in Nat /\ n >= 1 /\ BodyNo(td, n) = Len(r)
  BY Numbers
<1>3. None \notin Cell
  BY WordAssumption
<1> HIDE DEF td2, n
<1>4. BodyNo(td2, n + 1) = Len(r)
  BY <1>1 DEF Shape
<1>5. ASSUME NEW i, NEW a, KeptSlot(r, td, n, i, a)
      PROVE  KeptSlot(r, td2, n + 1, i, a)
  <2>1. KeptSlot(r, td2, n, i, a)
    BY <1>1, <1>5 DEF Continues, Carries
  <2>2. i \in 1 .. BodyNo(td2, n + 1)
    BY <1>2, <1>4, <1>5 DEF KeptSlot
  <2>3. \A l \in (n + 1) + 1 .. Len(td2) : FALSE
    BY <1>1, <1>2
  <2> QED BY <2>1, <2>2, <2>3 DEF KeptSlot
<1>6. KeptRoots(r, td, n) \subseteq KeptRoots(r, td2, n + 1)
  BY <1>2, <1>4, <1>5 DEF KeptRoots
<1>7. AuxRoots(r, td, n) \subseteq AuxRoots(r, td2, n + 1)
  <2>1. \A i, a : KeptSlot(r, td, n, i, a) /\ ~NamedSlot(td, i, a) => ~NamedSlot(td2, i, a)
    BY <1>1 DEF Continues, NoNewNames
  <2> QED BY <1>2, <1>4, <1>5, <2>1 DEF AuxRoots
<1>8. KeptRoots(r, td, n) \in SUBSET Cell /\ KeptRoots(r, td2, n + 1) \in SUBSET Cell
  BY DEF KeptRoots
<1>9. ReachIn(o, KeptRoots(r, td, n)) \subseteq ReachIn(o, KeptRoots(r, td2, n + 1))
  BY <1>6, <1>8, ReachGrows
<1>10. \A j \in 1 .. Len(t.regs) : t.regs[j] \in Cell => KeptCell(o, r, td2, n + 1, t.got, t.regs[j])
  BY <1>7, <1>9 DEF KeptCell, n
<1>11. RegKept(o, r, td2, n + 1)
  BY <1>1, <1>10 DEF RegKept, Making
<1>12. \A k \in n + 1 .. Len(td2) : k = n + 1
  BY <1>1, <1>2
<1>13. \A k \in n + 1 .. Len(td2) :
         /\ ~Making(td2[k]) /\ RegKept(o, r, td2, k)
         /\ \A j \in 1 .. Len(td2[k].regs) : td2[k].regs[j] \in Cell => td2[k].regs[j] \in Alloc(o)
  BY <1>1, <1>11, <1>12
<1>14. ValKept(o, r, td2, None, g)
  BY <1>3 DEF ValKept
<1>15. RootedIn(r) \subseteq Alloc(o)
  BY DEF Kept, Sound
<1>16. Kept(o, r, td2, None, g)
  BY <1>1, <1>3, <1>13, <1>14, <1>15, SameHeapKept
<1> QED BY <1>16 DEF td2

\* An expression without subexpressions gets its value, or the value is dropped.
LEMMA ValueKept ==
  ASSUME NEW r, NEW td, td # << >>, NEW o, NEW v, NEW f, Kept(o, r, td, v, f),
         NEW w, NEW g, w \in Cell => w \in Alloc(o) /\ KeptCell(o, r, td, Len(td), {g}, w)
  PROVE  Kept(o, r, td, w, g)
<1>1. Sound(o, r, td, w)
  BY DEF Kept, Sound
<1>2. ValKept(o, r, td, w, g)
  BY DEF ValKept
<1> QED BY <1>1, <1>2 DEF Kept

\* The innermost construct goes on with the registers of t, its value is used.
LEMMA ReplaceKept ==
  ASSUME NEW r, NEW td, Typed(r, td), Shape(r, td), td # << >>, NEW t \in Constructs,
         t.op = td[Len(td)].op, t.slot = td[Len(td)].slot, Registers(t), ~Making(t),
         NEW o, NEW v, NEW f, Kept(o, r, td, v, f), NEW g,
         \A j \in 1 .. Len(t.regs) : t.regs[j] \in Cell =>
           t.regs[j] \in Alloc(o)
             /\ ("result" \notin t.got => KeptCell(o, r, td, Len(td), t.got, t.regs[j]))
  PROVE  Kept(o, r, Append(SubSeq(td, 1, Len(td) - 1), t), None, g)
<1> DEFINE td2 == Append(SubSeq(td, 1, Len(td) - 1), t)
           n == Len(td)
<1>1. n \in Nat /\ n >= 1 /\ n - 1 \in 0 .. n /\ n - 1 \in Nat /\ (n - 1) + 1 = n
  BY Numbers
<1>2. r \in Seq(Seq(Pointer)) /\ Extends(r, r)
  BY DEF Typed, Extends
<1>3. /\ Typed(r, td2) /\ Shape(r, td2) /\ Continues(r, td, r, td2, n)
      /\ Len(td2) = n /\ td2[n] = t /\ \A k \in 1 .. n - 1 : td2[k] = td[k]
  BY <1>2, ReplaceContinues
<1>4. None \notin Cell
  BY WordAssumption
<1> HIDE DEF td2, n
<1>5. Continues(r, td, r, td2, n - 1)
  <2>1. Len(td) \in Nat /\ Len(td2) \in Nat
    BY <1>1, <1>3 DEF n
  <2> QED BY <1>1, <1>3, <2>1, ContinuesBelow
<1>6. /\ KeptRoots(r, td, n) \subseteq KeptRoots(r, td2, n)
      /\ AuxRoots(r, td, n) \subseteq AuxRoots(r, td2, n)
  <2>1. Len(td) \in Nat /\ Len(td2) \in Nat /\ n \in 0 .. n
    BY <1>1, <1>3 DEF n
  <2> QED BY <1>3, <2>1, RootsCarry DEF Continues
<1>7. KeptRoots(r, td, n) \in SUBSET Cell /\ KeptRoots(r, td2, n) \in SUBSET Cell
  BY DEF KeptRoots
<1>8. ReachIn(o, KeptRoots(r, td, n)) \subseteq ReachIn(o, KeptRoots(r, td2, n))
  BY <1>6, <1>7, ReachGrows
<1>9. \A j \in 1 .. Len(t.regs) : t.regs[j] \in Cell /\ "result" \notin t.got
        => KeptCell(o, r, td2, n, t.got, t.regs[j])
  BY <1>6, <1>8 DEF KeptCell, n
<1>10. RegKept(o, r, td2, n)
  BY <1>3, <1>9 DEF RegKept, Making
<1> DEFINE m == n - 1
<1>11. \A k \in m + 1 .. Len(td2) : k = n
  BY <1>1, <1>3
<1>12. Continues(r, td, r, td2, m) /\ \A k \in 1 .. m : td2[k] = td[k]
  BY <1>3, <1>5
<1> HIDE DEF m
<1>13. \A k \in m + 1 .. Len(td2) :
         /\ ~Making(td2[k]) /\ RegKept(o, r, td2, k)
         /\ \A j \in 1 .. Len(td2[k].regs) : td2[k].regs[j] \in Cell => td2[k].regs[j] \in Alloc(o)
  BY <1>3, <1>10, <1>11
<1>14. ValKept(o, r, td2, None, g)
  <2>1. td2 # << >>
    BY <1>1, <1>3
  <2> QED BY <1>4, <2>1 DEF ValKept
<1>15. RootedIn(r) \subseteq Alloc(o)
  BY DEF Kept, Sound
<1>16. Kept(o, r, td2, None, g)
  BY <1>3, <1>4, <1>13, <1>14, <1>15, <1>12, SameHeapKept
<1> QED BY <1>16 DEF td2

\* var: the variable gets its root and value.
LEMMA BindKept ==
  ASSUME NEW r, NEW td, Typed(r, td), Shape(r, td), td # << >>, td[Len(td)].op = "var",
         NEW o, NEW v \in Pointer, NEW f, Kept(o, r, td, v, f), NEW g
  PROVE  Kept(o, [r EXCEPT ![1] = Append(@, v)],
              Append(SubSeq(td, 1, Len(td) - 1), Construct("in", Len(r[1]) + 1)), None, g)
<1> DEFINE r2 == [r EXCEPT ![1] = Append(@, v)]
           t == Construct("in", Len(r[1]) + 1)
           td2 == Append(SubSeq(td, 1, Len(td) - 1), t)
           m == Len(td) - 1
<1>1. /\ Typed(r2, td2) /\ Shape(r2, td2) /\ Continues(r, td, r2, td2, m)
      /\ Len(td2) = Len(td) /\ td2[Len(td)] = t /\ \A k \in 1 .. m : td2[k] = td[k]
  BY BindContinues
<1>2. Len(td) \in Nat /\ Len(td) >= 1 /\ Len(r) >= 1 /\ r \in Seq(Seq(Pointer))
  BY Numbers DEF Typed
<1>3. RootedIn(r2) \subseteq Alloc(o)
  <2>1. RootedIn(r2) \subseteq RootedIn(r) \cup {v}
    BY <1>2, RootedWith
  <2>2. RootedIn(r) \subseteq Alloc(o) /\ (v \in Cell => v \in Alloc(o))
    BY DEF Kept, Sound
  <2>3. RootedIn(r2) \subseteq Cell
    BY DEF RootedIn
  <2> QED BY <2>1, <2>2, <2>3
<1>4. t.regs = << >>
  BY DEF Construct
<1>5. None \notin Cell
  BY WordAssumption
<1>6. \A k \in m + 1 .. Len(td2) : k = Len(td)
  BY <1>1, <1>2
<1> HIDE DEF r2, t, td2, m
<1>7. \A k \in m + 1 .. Len(td2) :
        /\ ~Making(td2[k]) /\ RegKept(o, r2, td2, k)
        /\ \A j \in 1 .. Len(td2[k].regs) : td2[k].regs[j] \in Cell => td2[k].regs[j] \in Alloc(o)
  BY <1>1, <1>4, <1>6, NoRegs
<1>8. ValKept(o, r2, td2, None, g)
  <2>1. td2 # << >>
    BY <1>1, <1>2
  <2> QED BY <1>5, <2>1 DEF ValKept
<1>9. Kept(o, r2, td2, None, g)
  BY <1>1, <1>3, <1>5, <1>7, <1>8, SameHeapKept
<1> QED BY <1>9 DEF r2, t, td2

\* A call begins: the arguments move from registers to the roots of the callee.
LEMMA InvokeKept ==
  ASSUME NEW r, NEW td, Typed(r, td), Shape(r, td), td # << >>, td[Len(td)].op = "call",
         NEW o, NEW v, NEW f, Kept(o, r, td, v, f), NEW g, NEW args \in Seq(Pointer),
         \A s \in DOMAIN args : args[s] \in Cell => args[s] \in Alloc(o)
  PROVE  Kept(o, <<args>> \o r,
              Append(Append(SubSeq(td, 1, Len(td) - 1), Construct("call", 0)), Construct("body", Len(args))),
              None, g)
<1> DEFINE r2 == <<args>> \o r
           t == Construct("call", 0)
           u == Construct("body", Len(args))
           td1 == Append(SubSeq(td, 1, Len(td) - 1), t)
           td2 == Append(td1, u)
           m == Len(td) - 1
<1>1. /\ Typed(r2, td2) /\ Shape(r2, td2) /\ Continues(r, td, r2, td2, m)
      /\ Len(td2) = Len(td) + 1 /\ td2[Len(td)] = t /\ td2[Len(td) + 1] = u
      /\ \A k \in 1 .. m : td2[k] = td[k]
  BY InvokeContinues
<1>2. Len(td) \in Nat /\ Len(td) >= 1 /\ r \in Seq(Seq(Pointer)) /\ Len(r) \in Nat
  BY Numbers DEF Typed
<1>3. RootedIn(r2) \subseteq Alloc(o)
  <2>1. <<args>> \in Seq(Seq(Pointer)) /\ Len(<<args>>) = 1 /\ <<args>>[1] = args
    OBVIOUS
  <2>2. Len(r2) = Len(r) + 1 /\ r2[1] = args /\ \A j \in 2 .. Len(r) + 1 : r2[j] = r[j - 1]
    BY <1>2, <2>1, ConcatProperties
  <2>3. DOMAIN r2 = 1 .. Len(r) + 1 /\ DOMAIN r = 1 .. Len(r)
    <3>1. r2 \in Seq(Seq(Pointer))
      BY <1>1 DEF Typed
    <3> HIDE DEF r2
    <3> QED BY <1>2, <2>2, <3>1, LenProperties
  <2> HIDE DEF r2
  <2>4. RootedIn(r) \subseteq Alloc(o)
    BY DEF Kept, Sound
  <2>5. ASSUME NEW k \in DOMAIN r2, NEW s \in DOMAIN r2[k], r2[k][s] \in Cell
        PROVE  r2[k][s] \in Alloc(o)
    <3>1. CASE k = 1
      BY <2>2, <2>5, <3>1
    <3>2. CASE k # 1
      <4>1. k \in 2 .. Len(r) + 1 /\ k - 1 \in DOMAIN r
        BY <1>2, <2>3, <3>2
      <4>2. r2[k] = r[k - 1]
        BY <2>2, <4>1
      <4> QED BY <2>4, <2>5, <4>1, <4>2 DEF RootedIn
    <3> QED BY <3>1, <3>2
  <2> QED BY <2>5 DEF RootedIn
<1>4. t.regs = << >> /\ u.regs = << >>
  BY DEF Construct
<1>5. None \notin Cell
  BY WordAssumption
<1>6. \A k \in m + 1 .. Len(td2) : k = Len(td) \/ k = Len(td) + 1
  BY <1>1, <1>2
<1> HIDE DEF r2, t, u, td1, td2, m
<1>7. \A k \in m + 1 .. Len(td2) :
        /\ ~Making(td2[k]) /\ RegKept(o, r2, td2, k)
        /\ \A j \in 1 .. Len(td2[k].regs) : td2[k].regs[j] \in Cell => td2[k].regs[j] \in Alloc(o)
  BY <1>1, <1>4, <1>6, NoRegs
<1>8. ValKept(o, r2, td2, None, g)
  <2>1. td2 # << >>
    BY <1>1, <1>2
  <2> QED BY <1>5, <2>1 DEF ValKept
<1>9. Kept(o, r2, td2, None, g)
  BY <1>1, <1>3, <1>5, <1>7, <1>8, SameHeapKept
<1> QED BY <1>9 DEF r2, t, u, td1, td2

\* A call ends, and its result is in a register only.
LEMMA ReturnKept ==
  ASSUME NEW r, NEW td, Typed(r, td), Shape(r, td), td # << >>, td[Len(td)].op = "body", Len(td) # 1,
         NEW o, NEW v, NEW f, Kept(o, r, td, v, f), NEW g, v \in Cell => g = "result"
  PROVE  Kept(o, Tail(r), SubSeq(td, 1, Len(td) - 2), v, g)
<1> DEFINE r2 == Tail(r)
           td2 == SubSeq(td, 1, Len(td) - 2)
           m == Len(td) - 2
<1>1. /\ Typed(r2, td2) /\ Shape(r2, td2) /\ Continues(r, td, r2, td2, m)
      /\ Len(td2) = m /\ \A k \in 1 .. m : td2[k] = td[k]
  BY ReturnContinues
<1>2. Len(td) \in Nat /\ Len(td) >= 1 /\ r \in Seq(Seq(Pointer)) /\ Len(r) >= 1 /\ Len(r) \in Nat
  BY Numbers DEF Typed
<1>3. RootedIn(r2) \subseteq Alloc(o)
  <2>1. r # << >>
    BY <1>2
  <2>2. r2 \in Seq(Seq(Pointer)) /\ Len(r2) = Len(r) - 1 /\ \A j \in 1 .. Len(r) - 1 : r2[j] = r[j + 1]
    BY <1>2, <2>1, HeadTailProperties
  <2>3. DOMAIN r2 = 1 .. Len(r) - 1 /\ DOMAIN r = 1 .. Len(r)
    <3> HIDE DEF r2
    <3> QED BY <1>2, <2>2, LenProperties
  <2> HIDE DEF r2
  <2>4. \A k \in DOMAIN r2 : k + 1 \in DOMAIN r /\ r2[k] = r[k + 1]
    <3>1. \A N \in Nat : \A k \in 1 .. N - 1 : k + 1 \in 1 .. N
      OBVIOUS
    <3>2. \A k \in 1 .. Len(r) - 1 : k + 1 \in 1 .. Len(r)
      BY <1>2, <3>1
    <3> QED BY <2>2, <2>3, <3>2
  <2>5. RootedIn(r) \subseteq Alloc(o)
    BY DEF Kept, Sound
  <2> QED BY <2>4, <2>5 DEF RootedIn
<1>4. td2 # << >>
  <2>1. 1 \in 1 .. Len(td) /\ Len(td) \in 1 .. Len(td) /\ Len(td) > 1
    <3> DEFINE n == Len(td)
    <3>1. n \in Nat /\ n >= 1 /\ n # 1
      BY <1>2
    <3> HIDE DEF n
    <3>2. 1 \in 1 .. n /\ n \in 1 .. n /\ n > 1
      BY <3>1
    <3> QED BY <3>2 DEF n
  <2>2. td[1].op = "body" /\ td[Len(td) - 1].op = "call"
    BY <2>1 DEF Shape, Formed
  <2>3. Len(td) - 1 # 1
    BY <2>2
  <2> HIDE DEF td2
  <2> QED BY <1>1, <1>2, <2>1, <2>3
<1>5. \A k \in m + 1 .. Len(td2) : FALSE
  <2> HIDE DEF td2
  <2> QED BY <1>1, <1>2
<1>6. v \in Cell => v \in Alloc(o)
  BY DEF Kept, Sound
<1> HIDE DEF r2, td2, m
<1>7. ValKept(o, r2, td2, v, g)
  BY <1>4 DEF ValKept
<1>8. Kept(o, r2, td2, v, g)
  BY <1>1, <1>3, <1>5, <1>6, <1>7, SameHeapKept
<1> QED BY <1>8 DEF r2, td2

\* The next iteration of a loop: the roots its body made are forgotten.
LEMMA IterateKept ==
  ASSUME NEW r, NEW td, Typed(r, td), Shape(r, td), td # << >>, td[Len(td)].op = "for",
         NEW o, NEW v, NEW f, Kept(o, r, td, v, f), NEW g
  PROVE  Kept(o, [r EXCEPT ![1] = SubSeq(@, 1, td[Len(td)].slot)], td, None, g)
<1> DEFINE n == Len(td)
           w == td[n].slot
           x == SubSeq(r[1], 1, w)
           r2 == [r EXCEPT ![1] = x]
           m == Len(td) - 1
<1>1. Typed(r2, td) /\ Shape(r2, td) /\ Continues(r, td, r2, td, m)
  BY IterateContinues
<1>2. n \in Nat /\ n >= 1 /\ r \in Seq(Seq(Pointer)) /\ Len(r) >= 1 /\ Len(r) \in Nat /\ n \in 1 .. n
  BY Numbers DEF Typed
<1>3. DOMAIN r2 = DOMAIN r /\ r2[1] = x /\ (\A k \in DOMAIN r : k # 1 => r2[k] = r[k]) /\ 1 \in DOMAIN r
  <2>1. DOMAIN r = 1 .. Len(r)
    BY <1>2, LenProperties
  <2>2. 1 \in DOMAIN r
    <3> DEFINE l == Len(r)
    <3>1. l \in Nat /\ l >= 1
      BY <1>2
    <3> HIDE DEF l
    <3>2. 1 \in 1 .. l
      BY <3>1
    <3> QED BY <2>1, <3>2 DEF l
  <2> HIDE DEF x
  <2> QED BY <2>2
<1>4. \A s \in DOMAIN x : s \in DOMAIN r[1] /\ x[s] = r[1][s]
  <2>1. r[1] \in Seq(Pointer) /\ FrameAt(r, Len(r)) = r[1]
    BY <1>2, FrameTop
  <2>2. Len(r[1]) \in Nat /\ DOMAIN r[1] = 1 .. Len(r[1])
    BY <2>1, LenProperties
  <2>3. x \in Seq(Pointer)
    <3>1. Typed(r2, td)
      BY <1>1
    <3> HIDE DEF r2
    <3>2. Len(r2) \in Nat /\ DOMAIN r2 = 1 .. Len(r2) /\ \A j \in 1 .. Len(r2) : r2[j] \in Seq(Pointer)
      BY <3>1, LenProperties, ElementOfSeq DEF Typed
    <3> QED BY <1>3, <3>2
  <2>4. w \in 0 .. Len(r[1])
    <3>1. Formed(r, td, n) /\ td[n] \in Constructs /\ BodyNo(td, n) = Len(r)
      BY <1>2, Numbers DEF Shape
    <3>2. w \in Nat
      BY <3>1 DEF Constructs
    <3> HIDE DEF w
    <3>3. \A a \in 1 .. td[n].slot : KeptSlot(r, td, n, Len(r), a)
      BY <3>1 DEF Formed
    <3>4. \A a \in 1 .. w : a \in 1 .. Len(r[1])
      BY <2>1, <2>2, <3>3 DEF KeptSlot, w
    <3>5. w = 0 \/ w \in 1 .. w
      BY <3>2
    <3> QED BY <2>2, <3>2, <3>4, <3>5
  <2> HIDE DEF w
  <2>5. Len(x) = w /\ \A a \in 1 .. w : x[a] = r[1][a]
    BY <2>1, <2>4, FirstOnes
  <2> HIDE DEF x
  <2>6. DOMAIN x = 1 .. w
    BY <2>3, <2>5, LenProperties
  <2> QED BY <2>2, <2>4, <2>5, <2>6
<1>5. RootedIn(r2) \subseteq Alloc(o)
  <2>1. RootedIn(r) \subseteq Alloc(o)
    BY DEF Kept, Sound
  <2> HIDE DEF r2, x
  <2>2. \A k \in DOMAIN r2 : \A s \in DOMAIN r2[k] : s \in DOMAIN r[k] /\ r2[k][s] = r[k][s]
    BY <1>3, <1>4
  <2> QED BY <1>3, <2>1, <2>2 DEF RootedIn
<1>6. None \notin Cell
  BY WordAssumption
<1>7. td[n].regs = << >>
  <2>1. Registers(td[n]) /\ td[n].op = "for"
    BY <1>2 DEF Shape, Formed
  <2> QED BY <2>1 DEF Registers
<1>8. \A k \in m + 1 .. Len(td) : k = n
  BY <1>2
<1> HIDE DEF r2, m
<1>9. \A k \in m + 1 .. Len(td) :
        /\ ~Making(td[k]) /\ RegKept(o, r2, td, k)
        /\ \A j \in 1 .. Len(td[k].regs) : td[k].regs[j] \in Cell => td[k].regs[j] \in Alloc(o)
  BY <1>7, <1>8, NoRegs
<1>10. ValKept(o, r2, td, None, g)
  BY <1>6 DEF ValKept
<1>11. Kept(o, r2, td, None, g)
  BY <1>1, <1>5, <1>6, <1>9, <1>10, SameHeapKept
<1> QED BY <1>11 DEF r2

\* An expression begins.
LEMMA StartKept ==
  ASSUME NEW r, NEW o, NEW v, NEW f, Kept(o, r, << >>, v, f)
  PROVE  Kept(o, << << >> >>, << Construct("body", 0) >>, v, f)
<1> DEFINE r2 == << << >> >>
           td2 == << Construct("body", 0) >>
<1>1. Len(td2) = 1 /\ td2[1].regs = << >> /\ td2 # << >>
  BY DEF Construct
<1>2. v = None /\ None \notin Cell
  BY WordAssumption DEF Kept, ValKept
<1>3. RootedIn(r2) = {}
  BY DEF RootedIn
<1> HIDE DEF r2, td2
<1>4. \A k \in 1 .. Len(td2) :
        /\ ~Making(td2[k]) /\ RegKept(o, r2, td2, k)
        /\ \A j \in 1 .. Len(td2[k].regs) : td2[k].regs[j] \in Cell => td2[k].regs[j] \in Alloc(o)
  <2>1. \A k \in 1 .. Len(td2) : k = 1
    BY <1>1
  <2> QED BY <1>1, <2>1, NoRegs
<1>5. \A c \in Alloc(o) : NamesIn(o, c) \subseteq Alloc(o) /\ (o[c].is_pointer <=> o[c].car \in Pointer)
  BY DEF Kept, Sound
<1>6. Sound(o, r2, td2, v)
  BY <1>2, <1>3, <1>4, <1>5 DEF Sound
<1>7. ValKept(o, r2, td2, v, f) /\ Ends(o, td2)
  BY <1>1, <1>2, <1>4 DEF ValKept, Ends
<1>8. Kept(o, r2, td2, v, f)
  BY <1>4, <1>6, <1>7 DEF Kept
<1> QED BY <1>8 DEF r2, td2

\* Between two top-level expressions.
LEMMA EmptyShape ==
  ASSUME NEW r, NEW td, Typed(r, td), Shape(r, td), Len(td) = 1
  PROVE  Tail(r) = << >> /\ Typed(Tail(r), << >>) /\ Shape(Tail(r), << >>)
<1>1. Len(r) = 1 /\ r \in Seq(Seq(Pointer))
  <2>1. td # << >> /\ 1 \in 1 .. Len(td)
    OBVIOUS
  <2>2. Len(r) = BodyNo(td, 1)
    BY DEF Shape
  <2>3. td[0 + 1].op = "body" /\ 0 + 1 = 1
    BY <2>1 DEF Shape, Formed
  <2>4. BodyNo(td, 1) = 1
    BY <2>3, BodyNoNone, BodyNoNext
  <2> QED BY <2>2, <2>4 DEF Typed
<1>2. Tail(r) \in Seq(Seq(Pointer)) /\ Len(Tail(r)) = 0
  <2>1. r # << >>
    BY <1>1
  <2> QED BY <1>1, <2>1, HeadTailProperties
<1> DEFINE r2 == Tail(r)
<1>3. r2 = << >>
  BY <1>2, EmptySeq
<1>4. Len(<< >>) = 0 /\ << >> \in Seq(Constructs) /\ \A k \in 1 .. 0 : FALSE
  BY EmptySeq
<1> QED BY <1>2, <1>3, <1>4, BodyNoNone DEF Typed, Shape

\* An expression ends.
LEMMA NothingOpenKept ==
  ASSUME NEW r, NEW td, Typed(r, td), Shape(r, td), Len(td) = 1,
         NEW o, NEW v, NEW f, Kept(o, r, td, v, f), NEW g
  PROVE  Kept(o, Tail(r), << >>, None, g)
<1>1. Len(<< >>) = 0 /\ \A k \in 1 .. 0 : FALSE
  BY EmptySeq
<1>2. None \notin Cell
  BY WordAssumption
<1>3. RootedIn(Tail(r)) = {}
  BY EmptyShape DEF RootedIn
<1>4. \A c \in Alloc(o) : NamesIn(o, c) \subseteq Alloc(o) /\ (o[c].is_pointer <=> o[c].car \in Pointer)
  BY DEF Kept, Sound
<1>5. Sound(o, Tail(r), << >>, None)
  BY <1>1, <1>2, <1>3, <1>4 DEF Sound
<1> QED BY <1>1, <1>2, <1>5 DEF Kept, ValKept, Ends

-------------------------------------------------------------------------------
(* The steps that make a cell.                                              *)

\* The last cell of a literal is a cell.
LEMMA LastCellIs ==
  ASSUME NEW r, NEW td, Shape(r, td), NEW k \in 1 .. Len(td), Making(td[k])
  PROVE  /\ Len(td[k].regs) \in {1, 2} /\ td[k].got = {} /\ td[k].regs[1] \in Cell
         /\ Len(td[k].regs) \in 1 .. Len(td[k].regs) /\ 1 \in 1 .. Len(td[k].regs)
         /\ LastCell(td[k]) = td[k].regs[Len(td[k].regs)] /\ LastCell(td[k]) \in Cell
<1>1. Registers(td[k])
  BY DEF Shape, Formed
<1> QED BY <1>1 DEF Making, LastCell, Registers

\* What the roots reach is allocated.
LEMMA AllocReached ==
  ASSUME NEW o, NEW r, NEW td, NEW v, Sound(o, r, td, v)
  PROVE  ReachIn(o, RootedIn(r)) \subseteq Alloc(o)
<1>1. RootedIn(r) \subseteq Alloc(o) /\ Alloc(o) \in SUBSET Cell
      /\ \A d \in Alloc(o) : NamesIn(o, d) \subseteq Alloc(o)
  BY DEF Sound, Alloc
<1> QED BY <1>1, ReachLeast

\* The innermost construct got the new cell c as its last one.
LEMMA CellKept ==
  ASSUME NEW r, NEW td, Typed(r, td), Shape(r, td), NEW r2, NEW td2, Typed(r2, td2),
         NEW m \in Nat, Len(td) = m + 1, Len(td2) = m + 1,
         Continues(r, td, r2, td2, m), \A k \in 1 .. m : td2[k] = td[k],
         NEW h, NEW v, NEW f, Kept(h, r, td, v, f), NEW o2, NEW c, Allocated(h, o2, c),
         Making(td2[m + 1]), LastCell(td2[m + 1]) = c, RegKept(o2, r2, td2, m + 1),
         \A j \in 1 .. Len(td2[m + 1].regs) : td2[m + 1].regs[j] \in Alloc(o2),
         RootedIn(r2) \subseteq Alloc(o2), NEW g,
         \A k \in 1 .. m : Making(td[k]) => o2[LastCell(td[k])] = h[LastCell(td[k])]
  PROVE  Kept(o2, r2, td2, None, g)
<1>1. \A k \in 1 .. Len(td2) : k \in 1 .. m \/ k = m + 1
  OBVIOUS
<1>2. \A k \in 1 .. m : k \in 1 .. Len(td)
  OBVIOUS
<1>3. ReachIn(h, RootedIn(r)) \subseteq Alloc(h)
  BY AllocReached DEF Kept
<1>4. ASSUME NEW k \in 1 .. m
      PROVE  RegKept(o2, r2, td2, k)
  <2>1. RegKept(h, r, td, k)
    BY <1>2 DEF Kept
  <2>2. /\ \A d \in ReachIn(h, RootedIn(r)) : CdrIn(h, d) \subseteq CdrIn(o2, d)
        /\ \A d \in ReachIn(h, RootedIn(r)) : NamesIn(h, d) \subseteq NamesIn(o2, d)
    BY <1>3 DEF Allocated
  <2> QED BY <2>1, <2>2, RegsContinue
<1>5. None \notin Cell
  BY WordAssumption
<1>6. Sound(o2, r2, td2, None)
  <2>1. \A k \in 1 .. m : \A j \in 1 .. Len(td2[k].regs) : td2[k].regs[j] \in Cell => td2[k].regs[j] \in Alloc(o2)
    BY <1>2 DEF Kept, Sound, Allocated
  <2>2. \A d \in Alloc(o2) : NamesIn(o2, d) \subseteq Alloc(o2) /\ (o2[d].is_pointer <=> o2[d].car \in Pointer)
    BY DEF Allocated
  <2> QED BY <1>1, <1>5, <2>1, <2>2 DEF Sound
<1>7. ASSUME NEW k \in 1 .. m, Making(td[k])
      PROVE  /\ LastCell(td[k]) # c
             /\ o2[LastCell(td[k])] # None => o2[LastCell(td[k])].cdr = None
             /\ \A l \in 1 .. m : Making(td[l]) /\ l # k => LastCell(td[l]) # LastCell(td[k])
  <2>1. LastCell(td[k]) \in Alloc(h)
    BY <1>2, <1>7, LastCellIs DEF Kept, Sound
  <2>2. h[LastCell(td[k])] # None /\ h[c] = None
    BY <2>1 DEF Alloc, Allocated
  <2>3. /\ h[LastCell(td[k])] # None => h[LastCell(td[k])].cdr = None
        /\ \A l \in 1 .. Len(td) : Making(td[l]) /\ l # k => LastCell(td[l]) # LastCell(td[k])
    BY <1>2, <1>7 DEF Kept, Ends
  <2>4. o2[LastCell(td[k])] = h[LastCell(td[k])]
    BY <1>7
  <2> QED BY <1>2, <2>2, <2>3, <2>4
<1>8. Ends(o2, td2)
  <2> SUFFICES ASSUME NEW k \in 1 .. Len(td2), Making(td2[k])
               PROVE  /\ o2[LastCell(td2[k])] # None => o2[LastCell(td2[k])].cdr = None
                      /\ \A l \in 1 .. Len(td2) :
                           Making(td2[l]) /\ l # k => LastCell(td2[l]) # LastCell(td2[k])
    BY DEF Ends
  <2>1. CASE k \in 1 .. m
    BY <1>1, <1>7, <2>1
  <2>2. CASE k = m + 1
    <3>1. o2[c].cdr = None
      BY DEF Allocated
    <3> QED BY <1>1, <1>7, <2>2, <3>1
  <2> QED BY <1>1, <2>1, <2>2
<1>9. ValKept(o2, r2, td2, None, g)
  <2>1. td2 # << >>
    OBVIOUS
  <2> QED BY <1>5, <2>1 DEF ValKept
<1> QED BY <1>1, <1>4, <1>6, <1>8, <1>9 DEF Kept

\* A new root of the innermost frame has no name.
LEMMA NewRootAux ==
  ASSUME NEW r, NEW td, Typed(r, td), Shape(r, td), td # << >>, NEW c \in Cell,
         NEW t \in Constructs, t.op = td[Len(td)].op, t.slot = td[Len(td)].slot, Registers(t)
  PROVE  LET r2 == [r EXCEPT ![1] = Append(@, c)]
             td2 == Append(SubSeq(td, 1, Len(td) - 1), t)
         IN  /\ Typed(r2, td2) /\ Shape(r2, td2) /\ Continues(r, td, r2, td2, Len(td))
             /\ Len(td2) = Len(td) /\ td2[Len(td)] = t /\ \A k \in 1 .. Len(td) - 1 : td2[k] = td[k]
             /\ c \in AuxRoots(r2, td2, Len(td))
<1> DEFINE n == Len(td)
           r2 == [r EXCEPT ![1] = Append(@, c)]
           td2 == Append(SubSeq(td, 1, n - 1), t)
           a == Len(r[1]) + 1
<1>1. /\ n \in Nat /\ n >= 1 /\ Len(r) \in Nat /\ Len(r) >= 1 /\ r \in Seq(Seq(Pointer))
  BY Numbers DEF Typed
<1>2. /\ r2 \in Seq(Seq(Pointer)) /\ Extends(r, r2)
      /\ Len(r[1]) \in Nat /\ DOMAIN r[1] = 1 .. Len(r[1])
      /\ a \in DOMAIN FrameAt(r2, Len(r)) /\ FrameAt(r2, Len(r))[a] = c
  <2>1. c \in Pointer
    BY DEF Pointer
  <2> QED BY <1>1, <2>1, NewRootExtends
<1> HIDE DEF r2
<1>3. /\ Typed(r2, td2) /\ Shape(r2, td2) /\ Continues(r, td, r2, td2, n)
      /\ Len(td2) = n /\ td2[n] = t /\ \A k \in 1 .. n - 1 : td2[k] = td[k]
  BY <1>2, ReplaceContinues
<1> HIDE DEF td2, n
<1>4. BodyNo(td2, n) = Len(r)
  BY <1>2, <1>3 DEF Shape, Extends
<1>5. Len(r) \in 1 .. BodyNo(td2, n)
  BY <1>1, <1>4
<1>6. KeptSlot(r2, td2, n, Len(r), a)
  <2>1. \A l \in n + 1 .. Len(td2) : FALSE
    BY <1>1, <1>3
  <2> QED BY <1>2, <1>5, <2>1 DEF KeptSlot
<1>7. ~NamedSlot(td2, Len(r), a)
  <2> SUFFICES ASSUME NEW l \in 1 .. n, BodyNo(td2, l) = Len(r), Owns(td2[l], a)
               PROVE  FALSE
    BY <1>3 DEF NamedSlot
  <2>1. l \in Nat /\ \A j \in 1 .. l : j \in 1 .. n
    BY <1>1
  <2>2. td2[l].op = td[l].op /\ td2[l].slot = td[l].slot /\ \A j \in 1 .. l : td2[j].op = td[j].op
    BY <1>3, <2>1 DEF Continues, SameUpTo
  <2>3. BodyNo(td, l) = Len(r)
    BY <2>1, <2>2, BodyNoSame
  <2>4. Owns(td[l], a) /\ l \in 1 .. Len(td)
    BY <2>2 DEF Owns, n
  <2>5. KeptSlot(r, td, l, Len(r), a)
    BY <2>3, <2>4, OwnedKept
  <2>6. FrameAt(r, Len(r)) = r[1]
    BY <1>1, FrameTop
  <2>7. a \in DOMAIN r[1]
    BY <2>5, <2>6 DEF KeptSlot
  <2> QED BY <1>2, <2>7
<1>8. c \in AuxRoots(r2, td2, n)
  BY <1>2, <1>5, <1>6, <1>7 DEF AuxRoots
<1> QED BY <1>3, <1>8 DEF r2, td2, n

\* The first cell of a literal, the cell of an outermost cons.
LEMMA FirstKept ==
  ASSUME NEW r, NEW td, Typed(r, td), Shape(r, td), td # << >>,
         NEW h \in HeapType, NEW v \in Pointer \cup {Scalar}, NEW f, Kept(h, r, td, v, f),
         NEW c \in Cell, h[c] = None, NEW g, NEW t \in Constructs, Registers(t),
         t.op = td[Len(td)].op, t.slot = td[Len(td)].slot,
         (t.op = "pair" /\ t.regs = <<c, c>>) \/ (t.op = "cons" /\ t.regs = <<c>>)
  PROVE  Kept([h EXCEPT ![c] = Fresh(v \in Pointer, v)], [r EXCEPT ![1] = Append(@, c)],
              Append(SubSeq(td, 1, Len(td) - 1), t), None, g)
<1> DEFINE r2 == [r EXCEPT ![1] = Append(@, c)]
           td2 == Append(SubSeq(td, 1, Len(td) - 1), t)
           o2 == [h EXCEPT ![c] = Fresh(v \in Pointer, v)]
           n == Len(td)
           m == n - 1
<1>1. /\ Typed(r2, td2) /\ Shape(r2, td2) /\ Continues(r, td, r2, td2, n)
      /\ Len(td2) = n /\ td2[n] = t /\ \A k \in 1 .. n - 1 : td2[k] = td[k]
      /\ c \in AuxRoots(r2, td2, n)
  BY NewRootAux
<1>2. n \in Nat /\ n >= 1 /\ Len(r) >= 1 /\ r \in Seq(Seq(Pointer))
  BY Numbers DEF Typed
<1>3. /\ v \in Cell => v \in Alloc(h)
      /\ \A d \in Alloc(h) : NamesIn(h, d) \subseteq Alloc(h) /\ (h[d].is_pointer <=> h[d].car \in Pointer)
      /\ RootedIn(r) \subseteq Alloc(h)
  BY DEF Kept, Sound
<1>4. Allocated(h, o2, c)
  BY <1>3, NewCell
<1>5. RootedIn(r2) \subseteq Alloc(h) \cup {c}
  <2>1. c \in Pointer
    BY DEF Pointer
  <2>2. RootedIn(r2) \subseteq RootedIn(r) \cup {c}
    BY <1>2, <2>1, RootedWith
  <2> QED BY <1>3, <2>2
<1>6. \A d \in Alloc(h) : o2[d] = h[d]
  BY DEF Alloc, HeapType
<1> HIDE DEF r2, td2, o2, n
<1>7. m \in Nat /\ m + 1 = n /\ m \in 0 .. n
  BY <1>2
<1>8. Len(td) \in Nat /\ Len(td2) \in Nat
  BY <1>1, <1>2 DEF n
<1>9. Continues(r, td, r2, td2, m)
  BY <1>1, <1>7, <1>8, ContinuesBelow
<1>10. \A k \in 1 .. m : td2[k] = td[k] /\ k \in 1 .. Len(td)
  BY <1>1, <1>2 DEF n
<1> HIDE DEF m
<1>11. Making(td2[m + 1]) /\ LastCell(td2[m + 1]) = c /\ \A j \in 1 .. Len(td2[m + 1].regs) : td2[m + 1].regs[j] = c
  <2>1. /\ Len(t.regs) \in 1 .. Len(t.regs) /\ t.regs # << >> /\ t.op \in {"pair", "cons"}
        /\ \A j \in 1 .. Len(t.regs) : t.regs[j] = c
    <3>1. CASE t.op = "pair" /\ t.regs = <<c, c>>
      <4>1. \A j \in 1 .. 2 : <<c, c>>[j] = c
        OBVIOUS
      <4> QED BY <3>1, <4>1
    <3>2. CASE t.op = "cons" /\ t.regs = <<c>>
      <4>1. \A j \in 1 .. 1 : <<c>>[j] = c
        OBVIOUS
      <4> QED BY <3>2, <4>1
    <3> QED BY <3>1, <3>2
  <2> QED BY <1>1, <1>7, <2>1 DEF Making, LastCell
<1>12. RegKept(o2, r2, td2, m + 1)
  <2>1. c \in RowIn(o2, c)
    BY RowClosed
  <2>2. t.op = "pair" => t.regs[1] = c /\ t.regs[2] = c
    OBVIOUS
  <2>3. td2[m + 1] = t /\ \A j \in 1 .. Len(t.regs) : t.regs[j] \in AuxRoots(r2, td2, m + 1)
    BY <1>1, <1>7, <1>11
  <2> QED BY <2>1, <2>2, <2>3 DEF RegKept, KeptCell
<1>13. \A k \in 1 .. m : Making(td[k]) => o2[LastCell(td[k])] = h[LastCell(td[k])]
  <2>1. \A k \in 1 .. m : Making(td[k]) => LastCell(td[k]) \in Alloc(h)
    BY <1>10, LastCellIs DEF Kept, Sound
  <2> QED BY <1>6, <2>1
<1>14. RootedIn(r2) \subseteq Alloc(o2) /\ c \in Alloc(o2)
  BY <1>4, <1>5 DEF Allocated
<1>15. \A j \in 1 .. Len(td2[m + 1].regs) : td2[m + 1].regs[j] \in Alloc(o2)
  BY <1>11, <1>14
<1>16. Len(td) = m + 1 /\ Len(td2) = m + 1
  BY <1>1, <1>7 DEF n
<1>17. Kept(o2, r2, td2, None, g)
  BY <1>1, <1>4, <1>7, <1>9, <1>10, <1>11, <1>12, <1>13, <1>14, <1>15, <1>16, CellKept
<1> QED BY <1>17 DEF o2, r2, td2

\* The cell of a nested cons: no root has it.
LEMMA NestedKept ==
  ASSUME NEW r, NEW td, Typed(r, td), Shape(r, td), td # << >>,
         NEW h \in HeapType, NEW v \in Pointer \cup {Scalar}, NEW f, Kept(h, r, td, v, f),
         NEW c \in Cell, h[c] = None, NEW g, NEW t \in Constructs, Registers(t),
         t.op = td[Len(td)].op, t.slot = td[Len(td)].slot, td[Len(td)].op = "nested", t.regs = <<c>>
  PROVE  Kept([h EXCEPT ![c] = Fresh(v \in Pointer, v)], r,
              Append(SubSeq(td, 1, Len(td) - 1), t), None, g)
<1> DEFINE td2 == Append(SubSeq(td, 1, Len(td) - 1), t)
           o2 == [h EXCEPT ![c] = Fresh(v \in Pointer, v)]
           n == Len(td)
           m == n - 1
<1>1. /\ Typed(r, td2) /\ Shape(r, td2) /\ Continues(r, td, r, td2, n)
      /\ Len(td2) = n /\ td2[n] = t /\ \A k \in 1 .. n - 1 : td2[k] = td[k]
  <2>1. r \in Seq(Seq(Pointer)) /\ Extends(r, r)
    BY DEF Typed, Extends
  <2> QED BY <2>1, ReplaceContinues
<1>2. n \in Nat /\ n >= 1
  BY Numbers
<1>3. /\ v \in Cell => v \in Alloc(h)
      /\ \A d \in Alloc(h) : NamesIn(h, d) \subseteq Alloc(h) /\ (h[d].is_pointer <=> h[d].car \in Pointer)
      /\ RootedIn(r) \subseteq Alloc(h)
  BY DEF Kept, Sound
<1>4. Allocated(h, o2, c)
  BY <1>3, NewCell
<1>5. \A d \in Alloc(h) : o2[d] = h[d]
  BY DEF Alloc, HeapType
<1> HIDE DEF td2, o2, n
<1>6. m \in Nat /\ m + 1 = n /\ m \in 0 .. n
  BY <1>2
<1>7. Len(td) \in Nat /\ Len(td2) \in Nat
  BY <1>1, <1>2 DEF n
<1>8. Continues(r, td, r, td2, m)
  BY <1>1, <1>6, <1>7, ContinuesBelow
<1>9. \A k \in 1 .. m : td2[k] = td[k] /\ k \in 1 .. Len(td)
  BY <1>1, <1>2 DEF n
<1> HIDE DEF m
<1>10. Making(td2[m + 1]) /\ LastCell(td2[m + 1]) = c /\ \A j \in 1 .. Len(td2[m + 1].regs) : td2[m + 1].regs[j] = c
  <2>1. t.op = "nested" /\ Len(t.regs) = 1 /\ t.regs[1] = c /\ t.regs # << >>
    BY DEF n
  <2>2. \A j \in 1 .. Len(t.regs) : t.regs[j] = c
    BY <2>1
  <2> QED BY <1>1, <1>6, <2>1, <2>2 DEF Making, LastCell
<1>11. RegKept(o2, r, td2, m + 1)
  <2>1. td2[m + 1].op = "nested"
    BY <1>1, <1>6 DEF n
  <2> QED BY <2>1 DEF RegKept
<1>12. \A k \in 1 .. m : Making(td[k]) => o2[LastCell(td[k])] = h[LastCell(td[k])]
  <2>1. \A k \in 1 .. m : Making(td[k]) => LastCell(td[k]) \in Alloc(h)
    BY <1>9, LastCellIs DEF Kept, Sound
  <2> QED BY <1>5, <2>1
<1>13. RootedIn(r) \subseteq Alloc(o2) /\ c \in Alloc(o2)
  BY <1>3, <1>4 DEF Allocated
<1>14. \A j \in 1 .. Len(td2[m + 1].regs) : td2[m + 1].regs[j] \in Alloc(o2)
  BY <1>10, <1>13
<1>15. Len(td) = m + 1 /\ Len(td2) = m + 1
  BY <1>1, <1>6 DEF n
<1>16. Kept(o2, r, td2, None, g)
  BY <1>1, <1>4, <1>6, <1>8, <1>9, <1>10, <1>11, <1>12, <1>13, <1>14, <1>15, CellKept
<1> QED BY <1>16 DEF o2, td2

\* Each other cell of a literal is linked to the last.
LEMMA NextKept ==
  ASSUME NEW r, NEW td, Typed(r, td), Shape(r, td), td # << >>,
         NEW h \in HeapType, NEW v \in Pointer \cup {Scalar}, NEW f, Kept(h, r, td, v, f),
         td[Len(td)].op = "pair", td[Len(td)].regs # << >>, h[td[Len(td)].regs[2]] # None,
         NEW c \in Cell, h[c] = None, NEW g, NEW t \in Constructs, Registers(t),
         t.op = td[Len(td)].op, t.slot = td[Len(td)].slot, t.regs = [td[Len(td)].regs EXCEPT ![2] = c]
  PROVE  Kept([h EXCEPT ![c] = Fresh(v \in Pointer, v), ![td[Len(td)].regs[2]].cdr = c], r,
              Append(SubSeq(td, 1, Len(td) - 1), t), None, g)
<1> DEFINE n == Len(td)
           first == td[n].regs[1]
           last == td[n].regs[2]
           td2 == Append(SubSeq(td, 1, Len(td) - 1), t)
           o2 == [h EXCEPT ![c] = Fresh(v \in Pointer, v), ![last].cdr = c]
           m == n - 1
<1>1. /\ Typed(r, td2) /\ Shape(r, td2) /\ Continues(r, td, r, td2, n)
      /\ Len(td2) = n /\ td2[n] = t /\ \A k \in 1 .. n - 1 : td2[k] = td[k]
  <2>1. r \in Seq(Seq(Pointer)) /\ Extends(r, r)
    BY DEF Typed, Extends
  <2> QED BY <2>1, ReplaceContinues
<1>2. n \in Nat /\ n >= 1 /\ n \in 1 .. n
  BY Numbers
<1>3. /\ v \in Cell => v \in Alloc(h)
      /\ \A d \in Alloc(h) : NamesIn(h, d) \subseteq Alloc(h) /\ (h[d].is_pointer <=> h[d].car \in Pointer)
      /\ RootedIn(r) \subseteq Alloc(h)
  BY DEF Kept, Sound
<1>4. Len(td[n].regs) = 2 /\ first \in Cell /\ last \in Cell /\ td[n].got = {} /\ Making(td[n]) /\ LastCell(td[n]) = last
  <2>1. Registers(td[n])
    BY <1>2 DEF Shape, Formed
  <2> QED BY <2>1 DEF Registers, Making, LastCell
<1>5. last \in Alloc(h) /\ first \in Alloc(h) /\ h[last].cdr = None
  <2>1. 2 \in 1 .. Len(td[n].regs) /\ 1 \in 1 .. Len(td[n].regs)
    BY <1>4
  <2>2. last \in Alloc(h) /\ first \in Alloc(h)
    BY <1>2, <1>4, <2>1 DEF Kept, Sound
  <2> QED BY <1>2, <1>4, <2>2 DEF Kept, Ends, Alloc
<1>6. Allocated(h, o2, c) /\ CdrIn(o2, last) = {c} /\ \A d \in Alloc(h) : d # last => o2[d] = h[d]
  <2> DEFINE x == Fresh(v \in Pointer, v)
             y == [h[last] EXCEPT !.cdr = c]
  <2>1. x \in Object
    BY FreshObject
  <2>2. last \in Cell /\ last # c /\ h[last] \in Object
    BY <1>5 DEF Alloc, HeapType
  <2>3. y \in Object /\ y.cdr = c /\ y.car = h[last].car /\ y.is_pointer = h[last].is_pointer
    BY <2>2 DEF Object, Pointer
  <2>4. y # None
    BY <2>3, NoneAssumption
  <2> HIDE DEF last
  <2>5. o2 \in HeapType /\ o2[c] = x /\ o2[last] = y /\ \A d \in Cell : d # c /\ d # last => o2[d] = h[d]
    <3>1. o2 = [h EXCEPT ![c] = x, ![last] = y]
      BY <2>2 DEF HeapType
    <3> HIDE DEF o2, x, y
    <3> QED BY <2>1, <2>2, <2>3, <3>1 DEF HeapType
  <2> HIDE DEF o2, y
  <2> QED BY <1>3, <1>5, <2>3, <2>4, <2>5, NewLinkedCell
<1>7. Len(t.regs) = 2 /\ t.regs[1] = first /\ t.regs[2] = c
  <2>1. td[n].regs \in Seq(Pointer \cup {Scalar})
    <3>1. td[n] \in Constructs
      BY <1>2, Numbers
    <3> QED BY <3>1 DEF Constructs
  <2>2. DOMAIN td[n].regs = 1 .. 2 /\ td[n].regs \in [1 .. 2 -> Pointer \cup {Scalar}]
    BY <1>4, <2>1, LenProperties
  <2>3. t.regs \in [1 .. 2 -> Pointer \cup {Scalar}] /\ t.regs[1] = first /\ t.regs[2] = c
    BY <2>2 DEF Pointer
  <2>4. \A N \in Nat : t.regs \in [1 .. N -> Pointer \cup {Scalar}] => Len(t.regs) = N
    BY FunctionSeq
  <2> QED BY <2>3, <2>4
<1>8. first \in AuxRoots(r, td, n) /\ last \in RowIn(h, first)
  <2>1. RegKept(h, r, td, n) /\ 1 \in 1 .. Len(td[n].regs) /\ 2 \in 1 .. Len(td[n].regs) /\ td[n].op = "pair"
    BY <1>2, <1>4 DEF Kept
  <2>2. KeptCell(h, r, td, n, {}, first)
    BY <1>4, <2>1 DEF RegKept
  <2>3. last \in RowIn(h, first)
    BY <1>4, <2>1 DEF RegKept
  <2> QED BY <2>2, <2>3 DEF KeptCell
<1> HIDE DEF td2, o2, first, last
<1>9. t.op = "pair" /\ t.regs # << >> /\ t.got = {}
  <2>1. t.op = "pair" /\ t.regs # << >>
    BY <1>7
  <2> QED BY <2>1 DEF Registers
<1>10. Len(td) \in Nat /\ Len(td2) \in Nat
  BY <1>1, <1>2
<1>11. first \in AuxRoots(r, td2, n)
  <2>1. n \in 0 .. n
    BY <1>2
  <2>2. AuxRoots(r, td, n) \subseteq AuxRoots(r, td2, n)
    BY <1>1, <1>10, <2>1, RootsCarry DEF Continues
  <2> QED BY <1>8, <2>2
<1> HIDE DEF n
<1>12. m \in Nat /\ m + 1 = n /\ m \in 0 .. n
  BY <1>2
<1>13. Continues(r, td, r, td2, m)
  BY <1>1, <1>10, <1>12, ContinuesBelow
<1>14. \A k \in 1 .. m : td2[k] = td[k] /\ k \in 1 .. Len(td) /\ k # n
  BY <1>1, <1>2 DEF n
<1> HIDE DEF m
<1>15. Making(td2[m + 1]) /\ LastCell(td2[m + 1]) = c
  BY <1>1, <1>7, <1>9, <1>12 DEF Making, LastCell
<1>16. c \in RowIn(o2, first)
  <2>1. first \in Cell
    BY <1>4
  <2>2. RowIn(h, first) \subseteq Alloc(h)
    <3>1. \A d \in Alloc(h) : CdrIn(h, d) \subseteq Alloc(h)
      <4>1. \A d : CdrIn(h, d) \subseteq NamesIn(h, d)
        BY DEF CdrIn, NamesIn
      <4> QED BY <1>3, <4>1
    <3> QED BY <1>5, <3>1, RowLeast DEF Alloc
  <2>3. RowIn(h, first) \subseteq RowIn(o2, first)
    BY <1>6, <2>1, <2>2, RowGrows DEF Allocated
  <2>4. CdrIn(o2, last) \subseteq RowIn(o2, first)
    BY <1>8, <2>1, <2>3, RowClosed
  <2> QED BY <1>6, <2>4
<1>17. RegKept(o2, r, td2, m + 1)
  <2>1. \A j \in 1 .. 2 : j = 1 \/ j = 2
    OBVIOUS
  <2> QED BY <1>1, <1>7, <1>9, <1>11, <1>12, <1>16, <2>1 DEF RegKept, KeptCell
<1>18. \A k \in 1 .. m : Making(td[k]) => o2[LastCell(td[k])] = h[LastCell(td[k])]
  <2>1. \A k \in 1 .. m : Making(td[k]) => LastCell(td[k]) \in Alloc(h)
    BY <1>14, LastCellIs DEF Kept, Sound
  <2>2. \A k \in 1 .. m : Making(td[k]) => LastCell(td[k]) # last
    <3>1. n \in 1 .. Len(td)
      BY <1>2 DEF n
    <3> QED BY <1>4, <1>14, <3>1 DEF Kept, Ends
  <2> QED BY <1>6, <2>1, <2>2
<1>19. RootedIn(r) \subseteq Alloc(o2) /\ c \in Alloc(o2) /\ first \in Alloc(o2)
  BY <1>3, <1>5, <1>6 DEF Allocated
<1>20. \A j \in 1 .. Len(td2[m + 1].regs) : td2[m + 1].regs[j] \in Alloc(o2)
  <2>1. \A j \in 1 .. 2 : j = 1 \/ j = 2
    OBVIOUS
  <2> QED BY <1>1, <1>7, <1>12, <1>19, <2>1
<1>21. Len(td) = m + 1 /\ Len(td2) = m + 1
  BY <1>1, <1>12 DEF n
<1>22. Kept(o2, r, td2, None, g)
  <2>1. m \in Nat /\ Typed(r, td2) /\ RootedIn(r) \subseteq Alloc(o2) /\ Allocated(h, o2, c)
    BY <1>1, <1>6, <1>12, <1>19
  <2>2. \A k \in 1 .. m : td2[k] = td[k]
    BY <1>14
  <2>3. \A j \in 1 .. Len(td2[m + 1].regs) : td2[m + 1].regs[j] \in Alloc(o2)
    BY <1>20
  <2> QED BY <1>13, <1>15, <1>17, <1>18, <1>21, <2>1, <2>2, <2>3, CellKept
<1> QED BY <1>22 DEF o2, td2, last, n

-------------------------------------------------------------------------------
(* The steps that link a cell, and the assignments.                         *)

\* The innermost construct is left with a change to cells or roots.
LEMMA SoundBelow ==
  ASSUME NEW td, NEW td2, NEW m \in Nat, Len(td) = m + 1, Len(td2) = m, \A k \in 1 .. m : td2[k] = td[k],
         NEW r, NEW o, NEW v, Sound(o, r, td, v), NEW r2, NEW o2, NEW w, Alloc(o2) = Alloc(o),
         \A d \in Alloc(o2) : NamesIn(o2, d) \subseteq Alloc(o2) /\ (o2[d].is_pointer <=> o2[d].car \in Pointer),
         RootedIn(r2) \subseteq Alloc(o2), w \in Cell => w \in Alloc(o2)
  PROVE  Sound(o2, r2, td2, w)
<1>1. \A k \in 1 .. m : k \in 1 .. Len(td)
  OBVIOUS
<1>2. \A k \in 1 .. m : \A j \in 1 .. Len(td2[k].regs) : td2[k].regs[j] \in Cell => td2[k].regs[j] \in Alloc(o2)
  BY <1>1 DEF Sound
<1> QED BY <1>2 DEF Sound

\* The last cells of the constructs that stay open are still the last.
LEMMA EndsBelow ==
  ASSUME NEW td, NEW td2, NEW m \in Nat, Len(td) = m + 1, Len(td2) = m, \A k \in 1 .. m : td2[k] = td[k],
         NEW o, NEW o2, Ends(o, td),
         \A k \in 1 .. m : Making(td[k]) =>
           o[LastCell(td[k])] # None /\ o2[LastCell(td[k])].cdr = o[LastCell(td[k])].cdr
  PROVE  Ends(o2, td2)
<1>1. \A k \in 1 .. m : k \in 1 .. Len(td)
  OBVIOUS
<1> QED BY <1>1 DEF Ends

\* The last cell of a literal is allocated.
LEMMA LastAllocated ==
  ASSUME NEW r, NEW td, Shape(r, td), NEW o, NEW v, Sound(o, r, td, v),
         NEW k \in 1 .. Len(td), Making(td[k])
  PROVE  LastCell(td[k]) \in Alloc(o)
<1>1. /\ Len(td[k].regs) \in 1 .. Len(td[k].regs)
      /\ LastCell(td[k]) = td[k].regs[Len(td[k].regs)] /\ LastCell(td[k]) \in Cell
  BY LastCellIs
<1> QED BY <1>1 DEF Sound

\* The last cell of a literal or a cons gets its cdr w.
LEMMA LinkKept ==
  ASSUME NEW r, NEW td, Typed(r, td), Shape(r, td), td # << >>, Making(td[Len(td)]),
         NEW o \in HeapType, NEW v, NEW f, Kept(o, r, td, v, f), NEW g,
         NEW last, last = LastCell(td[Len(td)]), o[last] # None,
         NEW w \in Pointer, w \in Cell => w \in Alloc(o)
  PROVE  /\ [o EXCEPT ![last].cdr = w] \in HeapType
         /\ Kept([o EXCEPT ![last].cdr = w], r, SubSeq(td, 1, Len(td) - 1), td[Len(td)].regs[1], g)
<1> DEFINE n == Len(td)
           p == td[n].regs[1]
           m == n - 1
           td2 == SubSeq(td, 1, n - 1)
           o2 == [o EXCEPT ![last].cdr = w]
           y == [o[last] EXCEPT !.cdr = w]
<1>1. n \in Nat /\ n >= 1 /\ n \in 1 .. n
  BY Numbers
<1>2. /\ Len(td[n].regs) \in {1, 2} /\ td[n].got = {} /\ p \in Cell /\ last \in Cell
      /\ Len(td[n].regs) \in 1 .. Len(td[n].regs) /\ 1 \in 1 .. Len(td[n].regs)
      /\ last = td[n].regs[Len(td[n].regs)]
  BY <1>1, LastCellIs
<1>3. last \in Alloc(o) /\ p \in Alloc(o) /\ o[last].cdr = None
  <2>1. last \in Alloc(o) /\ p \in Alloc(o)
    BY <1>1, <1>2 DEF Kept, Sound
  <2>2. Ends(o, td)
    BY DEF Kept
  <2>3. n \in 1 .. Len(td) /\ Making(td[n]) /\ last = LastCell(td[n])
    BY <1>1
  <2> HIDE DEF n
  <2>4. o[last].cdr = None
    BY <2>2, <2>3 DEF Ends
  <2> QED BY <2>1, <2>4
<1>4. /\ \A d \in Alloc(o) : NamesIn(o, d) \subseteq Alloc(o) /\ (o[d].is_pointer <=> o[d].car \in Pointer)
      /\ RootedIn(r) \subseteq Alloc(o)
  BY DEF Kept, Sound
<1>5. /\ y \in Object /\ y # None /\ y.cdr = w /\ y.car = o[last].car /\ y.is_pointer = o[last].is_pointer
      /\ o[last] \in Object
  <2>1. o[last] \in Object
    BY <1>2 DEF HeapType
  <2>2. y \in Object /\ y.cdr = w /\ y.car = o[last].car /\ y.is_pointer = o[last].is_pointer
    BY <2>1 DEF Object, Pointer
  <2> HIDE DEF y
  <2> QED BY <2>1, <2>2, NoneAssumption
<1>6. o2 \in HeapType /\ o2[last] = y /\ \A d \in Cell : d # last => o2[d] = o[d]
  <2>1. o2 = [o EXCEPT ![last] = y]
    BY <1>2 DEF HeapType
  <2> HIDE DEF o2, y
  <2> QED BY <1>2, <1>5, <2>1 DEF HeapType
<1>7. td[n].op # "body" /\ td[n].op \in {"pair", "cons", "nested"}
  BY DEF Making
<1>8. /\ Typed(r, td2) /\ Shape(r, td2) /\ Continues(r, td, r, td2, m)
      /\ Len(td2) = m /\ n >= 2 /\ \A k \in 1 .. m : td2[k] = td[k]
      /\ td[n].op = "nested" => AwaitsTail(td2[Len(td2)])
  BY <1>7, PopContinues
<1>9. AuxRoots(r, td, n) \subseteq AuxRoots(r, td2, Len(td2))
  BY <1>7, PopKeeps
<1>10. td[n].op # "nested" => p \in AuxRoots(r, td, n)
  <2>1. RegKept(o, r, td, n)
    BY <1>1 DEF Kept
  <2>2. 1 # 2
    OBVIOUS
  <2> QED BY <1>2, <2>1, <2>2 DEF RegKept, KeptCell
<1> HIDE DEF o2, y, td2, n, p
<1>11. m \in Nat /\ m >= 1 /\ n = m + 1 /\ \A k \in 1 .. m : k \in 1 .. Len(td) /\ k # n
  BY <1>1, <1>8 DEF n
<1>12. Alloc(o2) = Alloc(o)
  BY <1>3, <1>5, <1>6 DEF Alloc
<1>13. \A d \in Alloc(o) : d # last => o2[d] = o[d]
  BY <1>6 DEF Alloc
<1>14. None \notin Cell
  BY WordAssumption
<1>15. /\ NamesIn(o, last) \subseteq NamesIn(o2, last) /\ NamesIn(o2, last) \subseteq NamesIn(o, last) \cup {w}
       /\ CdrIn(o, last) = {}
  BY <1>3, <1>5, <1>6, <1>14 DEF NamesIn, CdrIn
<1>16. \A d \in Alloc(o) : d # last => NamesIn(o2, d) = NamesIn(o, d) /\ CdrIn(o2, d) = CdrIn(o, d)
  BY <1>13 DEF NamesIn, CdrIn
<1>17. \A d \in Alloc(o) : NamesIn(o, d) \subseteq NamesIn(o2, d) /\ CdrIn(o, d) \subseteq CdrIn(o2, d)
  BY <1>15, <1>16
<1>18. ASSUME NEW d \in Alloc(o2)
       PROVE  NamesIn(o2, d) \subseteq Alloc(o2) /\ (o2[d].is_pointer <=> o2[d].car \in Pointer)
  <2>1. CASE d = last
    <3>1. NamesIn(o2, last) \subseteq Cell
      BY DEF NamesIn
    <3>2. NamesIn(o2, last) \subseteq Alloc(o2)
      BY <1>3, <1>4, <1>12, <1>15, <3>1
    <3>3. o2[last].is_pointer <=> o2[last].car \in Pointer
      BY <1>3, <1>4, <1>5, <1>6
    <3> QED BY <2>1, <3>2, <3>3
  <2>2. CASE d # last
    BY <1>4, <1>12, <1>13, <1>16, <2>2
  <2> QED BY <2>1, <2>2
<1>19. ASSUME NEW k \in 1 .. m
       PROVE  RegKept(o2, r, td2, k)
  <2>1. RegKept(o, r, td, k)
    BY <1>11 DEF Kept
  <2>2. ReachIn(o, RootedIn(r)) \subseteq Alloc(o)
    BY AllocReached DEF Kept
  <2> HIDE DEF m
  <2> QED BY <1>8, <1>17, <2>1, <2>2, RegsContinue
<1>20. ASSUME NEW k \in 1 .. m, Making(td[k])
       PROVE  o2[LastCell(td[k])] = o[LastCell(td[k])]
  <2>1. Sound(o, r, td, v) /\ Ends(o, td) /\ k \in 1 .. Len(td) /\ k # n
    BY <1>11 DEF Kept
  <2>2. LastCell(td[k]) \in Alloc(o)
    BY <1>20, <2>1, LastAllocated
  <2>3. n \in 1 .. Len(td)
    BY <1>1 DEF n
  <2>4. LastCell(td[k]) # last
    BY <1>20, <2>1, <2>3 DEF Ends, n
  <2> QED BY <1>13, <2>4, <2>2
<1>21. ValKept(o2, r, td2, p, g)
  <2>1. td2 # << >> /\ Len(td2) = m
    BY <1>8, <1>11
  <2> QED BY <1>8, <1>9, <1>10, <2>1 DEF ValKept, KeptCell
<1> HIDE DEF m
<1>22. Sound(o2, r, td2, p) /\ Ends(o2, td2)
  <2>1. Len(td) = m + 1 /\ RootedIn(r) \subseteq Alloc(o2) /\ p \in Alloc(o2)
    BY <1>3, <1>4, <1>11, <1>12 DEF n
  <2>2. Sound(o, r, td, v) /\ Ends(o, td)
    BY DEF Kept
  <2>3. Sound(o2, r, td2, p)
    BY <1>8, <1>11, <1>12, <1>18, <2>1, <2>2, SoundBelow
  <2>4. \A k \in 1 .. m : Making(td[k]) => o[LastCell(td[k])] # None
    BY <1>11, <2>2, LastAllocated DEF Alloc
  <2>5. \A k \in 1 .. m : Making(td[k]) =>
           o[LastCell(td[k])] # None /\ o2[LastCell(td[k])].cdr = o[LastCell(td[k])].cdr
    BY <1>20, <2>4
  <2>6. m \in Nat /\ Len(td) = m + 1 /\ Len(td2) = m /\ \A k \in 1 .. m : td2[k] = td[k]
    BY <1>8, <1>11, <2>1
  <2>7. Ends(o2, td2)
    BY <2>2, <2>5, <2>6, EndsBelow
  <2> QED BY <2>3, <2>7
<1>23. Kept(o2, r, td2, p, g)
  BY <1>8, <1>19, <1>21, <1>22 DEF Kept
<1> QED BY <1>6, <1>23 DEF o2, td2, p, n

\* A field gets the word v.
LEMMA StoreKept ==
  ASSUME NEW r, NEW td, Typed(r, td), Shape(r, td), td # << >>, td[Len(td)].op = "store",
         NEW o \in HeapType, NEW v \in Pointer \cup {Scalar}, NEW f, Kept(o, r, td, v, f), NEW g,
         NEW a, a = td[Len(td)].regs[1], o[a] # None, o[a].is_pointer <=> v \in Pointer,
         \A k \in 1 .. Len(td) - 1 : "read" \notin td[k].got
  PROVE  /\ [o EXCEPT ![a].car = v] \in HeapType
         /\ Kept([o EXCEPT ![a].car = v], r, SubSeq(td, 1, Len(td) - 1), Scalar, g)
<1> DEFINE n == Len(td)
           m == n - 1
           td2 == SubSeq(td, 1, n - 1)
           o2 == [o EXCEPT ![a].car = v]
           y == [o[a] EXCEPT !.car = v]
<1>1. n \in Nat /\ n >= 1 /\ n \in 1 .. n
  BY Numbers
<1>2. a \in Cell /\ Len(td[n].regs) = 1
  <2>1. Registers(td[n])
    BY <1>1 DEF Shape, Formed
  <2> QED BY <2>1 DEF Registers
<1>3. a \in Alloc(o)
  BY <1>2 DEF Alloc
<1>4. /\ \A d \in Alloc(o) : NamesIn(o, d) \subseteq Alloc(o) /\ (o[d].is_pointer <=> o[d].car \in Pointer)
      /\ RootedIn(r) \subseteq Alloc(o) /\ (v \in Cell => v \in Alloc(o))
  BY DEF Kept, Sound
<1>5. /\ y \in Object /\ y # None /\ y.car = v /\ y.cdr = o[a].cdr /\ y.is_pointer = o[a].is_pointer
  <2>1. o[a] \in Object
    BY <1>2 DEF HeapType
  <2>2. y \in Object /\ y.car = v /\ y.cdr = o[a].cdr /\ y.is_pointer = o[a].is_pointer
    BY <2>1 DEF Object, Pointer
  <2> HIDE DEF y
  <2> QED BY <2>1, <2>2, NoneAssumption
<1>6. o2 \in HeapType /\ o2[a] = y /\ \A d \in Cell : d # a => o2[d] = o[d]
  <2>1. o2 = [o EXCEPT ![a] = y]
    BY <1>2 DEF HeapType
  <2> HIDE DEF o2, y
  <2> QED BY <1>2, <1>5, <2>1 DEF HeapType
<1>7. /\ Typed(r, td2) /\ Shape(r, td2) /\ Continues(r, td, r, td2, m)
      /\ Len(td2) = m /\ n >= 2 /\ \A k \in 1 .. m : td2[k] = td[k]
  <2>1. td[n].op # "body"
    OBVIOUS
  <2> QED BY <2>1, PopContinues
<1>8. \A k \in 1 .. m : "read" \notin td[k].got
  OBVIOUS
<1> HIDE DEF o2, y, td2, n
<1>9. m \in Nat /\ m >= 1 /\ n = m + 1 /\ \A k \in 1 .. m : k \in 1 .. Len(td)
  BY <1>1, <1>7 DEF n
<1>10. Alloc(o2) = Alloc(o)
  BY <1>3, <1>5, <1>6 DEF Alloc
<1>11. \A d \in Alloc(o) : d # a => o2[d] = o[d]
  BY <1>6 DEF Alloc
<1>12. None \notin Cell /\ Scalar \notin Cell
  BY WordAssumption
<1>13. NamesIn(o2, a) \subseteq NamesIn(o, a) \cup {v} /\ CdrIn(o2, a) = CdrIn(o, a)
  BY <1>3, <1>5, <1>6 DEF NamesIn, CdrIn, Alloc
<1>14. \A d \in Alloc(o) : d # a => NamesIn(o2, d) = NamesIn(o, d) /\ CdrIn(o2, d) = CdrIn(o, d)
  BY <1>11 DEF NamesIn, CdrIn
<1>15. ASSUME NEW d \in Alloc(o2)
       PROVE  NamesIn(o2, d) \subseteq Alloc(o2) /\ (o2[d].is_pointer <=> o2[d].car \in Pointer)
  <2>1. CASE d = a
    <3>1. NamesIn(o2, a) \subseteq Cell
      BY DEF NamesIn
    <3>2. NamesIn(o2, a) \subseteq Alloc(o2)
      BY <1>3, <1>4, <1>10, <1>13, <3>1
    <3>3. o2[a].is_pointer <=> o2[a].car \in Pointer
      BY <1>5, <1>6
    <3> QED BY <2>1, <3>2, <3>3
  <2>2. CASE d # a
    BY <1>4, <1>10, <1>11, <1>14, <2>2
  <2> QED BY <2>1, <2>2
<1>16. ASSUME NEW k \in 1 .. m
       PROVE  RegKept(o2, r, td2, k)
  <2>1. RegKept(o, r, td, k)
    BY <1>9 DEF Kept
  <2>2. ReachIn(o, RootedIn(r)) \subseteq Alloc(o)
    BY AllocReached DEF Kept
  <2>3. \A d \in Alloc(o) : CdrIn(o, d) \subseteq CdrIn(o2, d)
    BY <1>13, <1>14
  <2> HIDE DEF m
  <2> QED BY <1>7, <1>8, <2>1, <2>2, <2>3, RegsContinue
<1>17. Sound(o, r, td, v) /\ Ends(o, td)
  BY DEF Kept
<1>18. ASSUME NEW k \in 1 .. m, Making(td[k])
       PROVE  /\ o[LastCell(td[k])] # None
              /\ o2[LastCell(td[k])].cdr = o[LastCell(td[k])].cdr
  <2>1. LastCell(td[k]) \in Alloc(o)
    BY <1>9, <1>17, <1>18, LastAllocated
  <2> QED BY <1>5, <1>6, <1>11, <2>1 DEF Alloc
<1>19. ValKept(o2, r, td2, Scalar, g)
  <2>1. td2 # << >>
    BY <1>7, <1>9
  <2> QED BY <1>12, <2>1 DEF ValKept
<1> HIDE DEF m
<1>20. Sound(o2, r, td2, Scalar) /\ Ends(o2, td2)
  <2>1. Len(td) = m + 1 /\ RootedIn(r) \subseteq Alloc(o2)
    BY <1>4, <1>9, <1>10 DEF n
  <2>2. Sound(o2, r, td2, Scalar)
    BY <1>7, <1>9, <1>10, <1>12, <1>15, <1>17, <2>1, SoundBelow
  <2>3. Ends(o2, td2)
    BY <1>7, <1>9, <1>17, <1>18, <2>1, EndsBelow
  <2> QED BY <2>2, <2>3
<1>21. Kept(o2, r, td2, Scalar, g)
  BY <1>7, <1>16, <1>19, <1>20 DEF Kept
<1> QED BY <1>6, <1>21 DEF o2, td2, n

\* A root of the innermost frame gets the pointer v.
LEMMA RootOverwritten ==
  ASSUME NEW r \in Seq(Seq(Pointer)), Len(r) >= 1, NEW s \in DOMAIN r[1], NEW v \in Pointer
  PROVE  LET r2 == [r EXCEPT ![1][s] = v]
         IN  /\ r2 \in Seq(Seq(Pointer)) /\ Len(r2) = Len(r)
             /\ \A i \in 1 .. Len(r) : DOMAIN FrameAt(r2, i) = DOMAIN FrameAt(r, i)
             /\ \A i, a : ~(i = Len(r) /\ a = s) /\ i \in 1 .. Len(r) /\ a \in DOMAIN FrameAt(r, i)
                            => FrameAt(r2, i)[a] = FrameAt(r, i)[a]
             /\ RootedIn(r2) \subseteq RootedIn(r) \cup {v}
<1> DEFINE x == [r[1] EXCEPT ![s] = v]
           r2 == [r EXCEPT ![1] = x]
<1>1. r[1] \in Seq(Pointer) /\ FrameAt(r, Len(r)) = r[1] /\ Len(r) \in Nat /\ DOMAIN r = 1 .. Len(r)
  BY FrameTop, LenProperties
<1>2. Len(r[1]) \in Nat /\ DOMAIN r[1] = 1 .. Len(r[1]) /\ r[1] \in [1 .. Len(r[1]) -> Pointer]
  BY <1>1, LenProperties
<1>3. x \in [1 .. Len(r[1]) -> Pointer] /\ DOMAIN x = DOMAIN r[1] /\ x[s] = v
      /\ \A a \in DOMAIN r[1] : a # s => x[a] = r[1][a]
  BY <1>2
<1>4. x \in Seq(Pointer)
  BY <1>2, <1>3
<1> HIDE DEF x
<1>5. /\ r2 \in Seq(Seq(Pointer)) /\ Len(r2) = Len(r) /\ FrameAt(r2, Len(r)) = x
      /\ \A i \in 1 .. Len(r) - 1 : FrameAt(r2, i) = FrameAt(r, i)
  BY <1>4, FrameExcept
<1>6. \A i \in 1 .. Len(r) : i \in 1 .. Len(r) - 1 \/ i = Len(r)
  <2>1. \A l \in Nat : \A i \in 1 .. l : i \in 1 .. l - 1 \/ i = l
    OBVIOUS
  <2> QED BY <1>1, <2>1
<1>7. 1 \in DOMAIN r /\ DOMAIN r2 = DOMAIN r /\ r2[1] = x /\ \A k \in DOMAIN r : k # 1 => r2[k] = r[k]
  BY <1>1
<1>8. [r EXCEPT ![1][s] = v] = r2
  BY <1>1 DEF x
<1> HIDE DEF r2
<1>9. \A i \in 1 .. Len(r) : DOMAIN FrameAt(r2, i) = DOMAIN FrameAt(r, i)
  BY <1>1, <1>3, <1>5, <1>6
<1>10. \A i, a : ~(i = Len(r) /\ a = s) /\ i \in 1 .. Len(r) /\ a \in DOMAIN FrameAt(r, i)
                   => FrameAt(r2, i)[a] = FrameAt(r, i)[a]
  BY <1>1, <1>3, <1>5, <1>6
<1>11. RootedIn(r2) \subseteq RootedIn(r) \cup {v}
  <2> SUFFICES ASSUME NEW k \in DOMAIN r2, NEW a \in DOMAIN r2[k], r2[k][a] \in Cell
               PROVE  r2[k][a] \in RootedIn(r) \cup {v}
    BY DEF RootedIn
  <2>1. k \in DOMAIN r /\ a \in DOMAIN r[k] /\ (r2[k][a] = r[k][a] \/ r2[k][a] = v)
    BY <1>3, <1>7
  <2> QED BY <2>1 DEF RootedIn
<1> QED BY <1>5, <1>8, <1>9, <1>10, <1>11

\* An assignment replaces a root that has a name, so the aux_allocas stay.
LEMMA AssignContinues ==
  ASSUME NEW r, NEW td, Typed(r, td), Shape(r, td), td # << >>, td[Len(td)].op = "assign", NEW v \in Pointer
  PROVE  LET s == td[Len(td)].slot
             r2 == [r EXCEPT ![1][s] = v]
             td2 == SubSeq(td, 1, Len(td) - 1)
         IN  /\ Typed(r2, td2) /\ Shape(r2, td2) /\ RootedIn(r2) \subseteq RootedIn(r) \cup {v}
             /\ \A k \in 1 .. Len(td) - 1 : AuxRoots(r, td, k) \subseteq AuxRoots(r2, td2, k)
<1> DEFINE n == Len(td)
           m == n - 1
           s == td[n].slot
           r2 == [r EXCEPT ![1][s] = v]
           td2 == SubSeq(td, 1, n - 1)
<1>1. /\ n \in Nat /\ n >= 1 /\ n \in 1 .. n /\ Len(r) \in Nat /\ Len(r) >= 1 /\ BodyNo(td, n) = Len(r)
      /\ r \in Seq(Seq(Pointer))
  BY Numbers DEF Typed
<1>2. PICK l \in 1 .. n - 1 : BodyNo(td, l) = Len(r) /\ Owns(td[l], s)
  <2>1. Formed(r, td, n)
    BY <1>1 DEF Shape
  <2> QED BY <1>1, <2>1 DEF Formed
<1>3. NamedSlot(td, Len(r), s) /\ s \in DOMAIN r[1]
  <2>1. l \in 1 .. Len(td)
    BY <1>1
  <2>2. KeptSlot(r, td, l, Len(r), s)
    BY <1>2, <2>1, OwnedKept
  <2>3. FrameAt(r, Len(r)) = r[1]
    BY <1>1, FrameTop
  <2> QED BY <1>2, <2>1, <2>2, <2>3 DEF NamedSlot, KeptSlot
<1>4. /\ Typed(r, td2) /\ Shape(r, td2) /\ Continues(r, td, r, td2, m)
      /\ Len(td2) = m /\ n >= 2 /\ \A k \in 1 .. m : td2[k] = td[k]
  <2>1. td[n].op # "body"
    OBVIOUS
  <2> QED BY <2>1, PopContinues
<1> HIDE DEF s, td2, n
<1>5. /\ r2 \in Seq(Seq(Pointer)) /\ Len(r2) = Len(r)
      /\ \A i \in 1 .. Len(r) : DOMAIN FrameAt(r2, i) = DOMAIN FrameAt(r, i)
      /\ \A i, a : ~(i = Len(r) /\ a = s) /\ i \in 1 .. Len(r) /\ a \in DOMAIN FrameAt(r, i)
                     => FrameAt(r2, i)[a] = FrameAt(r, i)[a]
      /\ RootedIn(r2) \subseteq RootedIn(r) \cup {v}
  BY <1>1, <1>3, RootOverwritten
<1> HIDE DEF r2
<1>6. Typed(r2, td2) /\ Shape(r2, td2)
  BY <1>4, <1>5, SameRoots
<1>7. m \in Nat /\ Len(td) \in Nat /\ Len(td2) \in Nat
  BY <1>1, <1>4 DEF n
<1> HIDE DEF m
<1>8. ASSUME NEW k \in 1 .. m, NEW i, NEW a, KeptSlot(r, td, k, i, a), ~NamedSlot(td, i, a)
      PROVE  /\ KeptSlot(r2, td2, k, i, a) /\ ~NamedSlot(td2, i, a)
             /\ FrameAt(r2, i)[a] = FrameAt(r, i)[a]
  <2>1. k \in 0 .. m
    OBVIOUS
  <2>2. Continues(r, td, r, td2, k)
    BY <1>4, <1>7, <2>1, ContinuesBelow
  <2>3. KeptSlot(r, td2, k, i, a) /\ ~NamedSlot(td2, i, a)
    BY <1>8, <2>2 DEF Continues, Carries, NoNewNames
  <2>4. ~(i = Len(r) /\ a = s)
    BY <1>3, <1>8
  <2>5. i \in 1 .. Len(r)
    <3>1. k \in 1 .. Len(td2) /\ i \in 1 .. BodyNo(td2, k)
      BY <1>4, <2>3 DEF KeptSlot
    <3>2. BodyNo(td2, k) \in 1 .. Len(r)
      BY <1>4, <3>1, Numbers
    <3> QED BY <1>1, <3>1, <3>2
  <2>6. a \in DOMAIN FrameAt(r, i)
    BY <2>3 DEF KeptSlot
  <2>7. FrameAt(r2, i)[a] = FrameAt(r, i)[a] /\ a \in DOMAIN FrameAt(r2, i)
    BY <1>5, <2>4, <2>5, <2>6
  <2> QED BY <2>3, <2>7 DEF KeptSlot
<1>9. \A k \in 1 .. m : AuxRoots(r, td, k) \subseteq AuxRoots(r2, td2, k)
  <2> SUFFICES ASSUME NEW k \in 1 .. m, NEW c \in AuxRoots(r, td, k)
               PROVE  c \in AuxRoots(r2, td2, k)
    OBVIOUS
  <2>1. PICK i \in 1 .. BodyNo(td, k) : \E a \in DOMAIN FrameAt(r, i) :
               KeptSlot(r, td, k, i, a) /\ ~NamedSlot(td, i, a) /\ FrameAt(r, i)[a] = c
    BY DEF AuxRoots
  <2>2. PICK a \in DOMAIN FrameAt(r, i) :
               KeptSlot(r, td, k, i, a) /\ ~NamedSlot(td, i, a) /\ FrameAt(r, i)[a] = c
    BY <2>1
  <2>3. KeptSlot(r2, td2, k, i, a) /\ ~NamedSlot(td2, i, a) /\ FrameAt(r2, i)[a] = c
    BY <1>8, <2>2
  <2>4. c \in Cell
    BY DEF AuxRoots
  <2> QED BY <2>3, <2>4 DEF AuxRoots, KeptSlot
<1> QED BY <1>5, <1>6, <1>9 DEF s, r2, td2, n, m

\* An assignment loses what the variable had, which no register has then.
LEMMA AssignKept ==
  ASSUME NEW r, NEW td, Typed(r, td), Shape(r, td), td # << >>, td[Len(td)].op = "assign",
         NEW o, NEW v \in Pointer, NEW f, Kept(o, r, td, v, f), NEW g,
         \A k \in 1 .. Len(td) - 1 : "read" \notin td[k].got
  PROVE  Kept(o, [r EXCEPT ![1][td[Len(td)].slot] = v], SubSeq(td, 1, Len(td) - 1), Scalar, g)
<1> DEFINE n == Len(td)
           m == n - 1
           r2 == [r EXCEPT ![1][td[n].slot] = v]
           td2 == SubSeq(td, 1, n - 1)
<1>1. /\ Typed(r2, td2) /\ Shape(r2, td2) /\ RootedIn(r2) \subseteq RootedIn(r) \cup {v}
      /\ \A k \in 1 .. m : AuxRoots(r, td, k) \subseteq AuxRoots(r2, td2, k)
  BY AssignContinues
<1>2. Len(td2) = m /\ n >= 2 /\ \A k \in 1 .. m : td2[k] = td[k]
  <2>1. td[n].op # "body"
    OBVIOUS
  <2> QED BY <2>1, PopContinues
<1>3. n \in Nat
  BY Numbers
<1>4. \A k \in 1 .. m : "read" \notin td[k].got
  OBVIOUS
<1> HIDE DEF r2, td2, n
<1>5. m \in Nat /\ m >= 1 /\ Len(td) = m + 1 /\ \A k \in 1 .. m : k \in 1 .. Len(td)
  BY <1>2, <1>3 DEF n
<1> HIDE DEF m
<1>6. Sound(o, r, td, v) /\ Ends(o, td)
  BY DEF Kept
<1>7. ASSUME NEW k \in 1 .. m
      PROVE  RegKept(o, r2, td2, k)
  <2>1. RegKept(o, r, td, k) /\ k \in 1 .. Len(td)
    BY <1>5 DEF Kept
  <2> QED BY <1>1, <1>2, <1>4, <2>1, RegsCarry
<1>8. Scalar \notin Cell
  BY WordAssumption
<1>9. Sound(o, r2, td2, Scalar)
  <2>1. RootedIn(r2) \subseteq Alloc(o)
    <3>1. RootedIn(r2) \subseteq Cell
      BY DEF RootedIn
    <3> QED BY <1>1, <1>6, <3>1 DEF Sound
  <2>2. \A d \in Alloc(o) : NamesIn(o, d) \subseteq Alloc(o) /\ (o[d].is_pointer <=> o[d].car \in Pointer)
    BY <1>6 DEF Sound
  <2> QED BY <1>2, <1>5, <1>6, <1>8, <2>1, <2>2, SoundBelow
<1>10. Ends(o, td2)
  <2>1. \A k \in 1 .. m : Making(td[k]) => o[LastCell(td[k])] # None
    BY <1>5, <1>6, LastAllocated DEF Alloc
  <2> QED BY <1>2, <1>5, <1>6, <2>1, EndsBelow
<1>11. ValKept(o, r2, td2, Scalar, g)
  <2>1. td2 # << >>
    BY <1>2, <1>5
  <2> QED BY <1>8, <2>1 DEF ValKept
<1>12. Kept(o, r2, td2, Scalar, g)
  BY <1>2, <1>7, <1>9, <1>10, <1>11 DEF Kept
<1> QED BY <1>12 DEF r2, td2, n

-------------------------------------------------------------------------------
(* Every action keeps the invariant.                                        *)

\* The value that a construct leaves.
LEMMA Produced ==
  ASSUME NEW v \in Value, NEW origin \in Origin, Produce(v, origin)
  PROVE  val' = v /\ val' \in Value /\ from' \in Origin /\ (v \in Cell => from' = origin)
BY DEF Produce, Origin

\* The value has been used.
LEMMA NoneProduced ==
  ASSUME NoValue
  PROVE  val' = None /\ val' \in Value /\ from' \in Origin
BY DEF NoValue, Value, Origin

\* The innermost construct, and what is kept there.
LEMMA Innermost ==
  ASSUME GenCodeInv, todo # << >>
  PROVE  /\ Len(todo) \in Nat /\ Len(todo) \in 1 .. Len(todo) /\ Len(roots) \in Nat /\ Len(roots) >= 1
         /\ Top \in Constructs /\ Registers(Top) /\ BodyNo(todo, Len(todo)) = Len(roots)
         /\ FrameAt(roots, Len(roots)) = Frame /\ Frame \in Seq(Pointer)
         /\ Len(Frame) \in Nat /\ DOMAIN Frame = 1 .. Len(Frame)
<1>1. Typed(roots, todo) /\ Shape(roots, todo)
  BY DEF GenCodeInv
<1>2. /\ Len(todo) \in Nat /\ Len(todo) >= 1 /\ Len(roots) \in Nat /\ Len(roots) >= 1
      /\ BodyNo(todo, Len(todo)) = Len(roots) /\ \A k \in 1 .. Len(todo) : todo[k] \in Constructs
  BY <1>1, Numbers
<1>3. Len(todo) \in 1 .. Len(todo)
  BY <1>2
<1>4. Registers(Top)
  BY <1>1, <1>3 DEF Shape, Formed, Top
<1>5. FrameAt(roots, Len(roots)) = Frame /\ Frame \in Seq(Pointer)
  BY <1>1, <1>2, FrameTop DEF Typed, Frame
<1>6. Len(Frame) \in Nat /\ DOMAIN Frame = 1 .. Len(Frame)
  BY <1>5, LenProperties
<1> QED BY <1>2, <1>3, <1>4, <1>5, <1>6 DEF Top

\* Whatever the kept roots reach is an object, and so is what it names.
LEMMA KeptReach ==
  ASSUME GenCodeInv, todo # << >>, Lapses = {}
  PROVE  LET K == ReachIn(obj, KeptRoots(roots, todo, Len(todo)))
         IN  /\ K \subseteq Alloc(obj) /\ K \subseteq Cell
             /\ AuxRoots(roots, todo, Len(todo)) \subseteq K
             /\ KeptRoots(roots, todo, Len(todo)) \subseteq K
             /\ \A d \in K : /\ NamesIn(obj, d) \subseteq K /\ RowIn(obj, d) \subseteq K
                             /\ obj[d].car \in Cell => obj[d].car \in K
                             /\ obj[d].cdr \in Cell => obj[d].cdr \in K
<1> DEFINE R == KeptRoots(roots, todo, Len(todo))
           K == ReachIn(obj, R)
<1>1. /\ Typed(roots, todo) /\ Shape(roots, todo) /\ Kept(obj, roots, todo, val, from)
      /\ Len(todo) \in 1 .. Len(todo)
  BY Innermost DEF GenCodeInv
<1>2. AuxRoots(roots, todo, Len(todo)) \subseteq R /\ R \subseteq RootedIn(roots) /\ RootedIn(roots) \subseteq Cell
  BY <1>1, KeptRooted
<1>3. R \subseteq K /\ K \subseteq Cell /\ \A d \in K : NamesIn(obj, d) \subseteq K
  BY <1>2, ReachClosed
<1>4. K \subseteq Alloc(obj)
  <2>1. K \subseteq ReachIn(obj, RootedIn(roots))
    BY <1>2, ReachGrows
  <2>2. ReachIn(obj, RootedIn(roots)) \subseteq Alloc(obj)
    BY <1>1, AllocReached DEF Kept
  <2> QED BY <2>1, <2>2
<1>5. \A d \in K : RowIn(obj, d) \subseteq K
  BY <1>2, RowReached
<1>6. \A d \in K : /\ obj[d].car \in Cell => obj[d].car \in NamesIn(obj, d)
                   /\ obj[d].cdr \in Cell => obj[d].cdr \in NamesIn(obj, d)
  <2> SUFFICES ASSUME NEW d \in K
               PROVE  /\ obj[d].car \in Cell => obj[d].car \in NamesIn(obj, d)
                      /\ obj[d].cdr \in Cell => obj[d].cdr \in NamesIn(obj, d)
    OBVIOUS
  <2>1. d \in Alloc(obj)
    BY <1>4
  <2>2. obj[d] # None /\ (obj[d].is_pointer <=> obj[d].car \in Pointer)
    BY <1>1, <2>1 DEF Kept, Sound, Alloc
  <2> QED BY <2>2 DEF NamesIn, Pointer
<1> HIDE DEF K, R
<1>7. \A d \in K : /\ obj[d].car \in Cell => obj[d].car \in K
                   /\ obj[d].cdr \in Cell => obj[d].cdr \in K
  BY <1>3, <1>6
<1>8. AuxRoots(roots, todo, Len(todo)) \subseteq K
  BY <1>2, <1>3
<1> QED BY <1>3, <1>4, <1>5, <1>7, <1>8 DEF K, R

\* A variable in scope has a root of the innermost frame.
LEMMA NamedOwned ==
  ASSUME GenCodeInv, todo # << >>, NEW s \in Named
  PROVE  /\ \E l \in 1 .. Len(todo) : BodyNo(todo, l) = Len(roots) /\ Owns(todo[l], s)
         /\ s \in Nat /\ s \in DOMAIN Frame
         /\ Frame[s] \in Cell => Frame[s] \in KeptRoots(roots, todo, Len(todo))
<1>1. /\ Len(todo) \in Nat /\ Len(roots) \in Nat /\ Len(roots) >= 1
      /\ BodyNo(todo, Len(todo)) = Len(roots)
      /\ FrameAt(roots, Len(roots)) = Frame
      /\ Len(Frame) \in Nat /\ DOMAIN Frame = 1 .. Len(Frame)
      /\ Typed(roots, todo) /\ Shape(roots, todo)
  BY Innermost DEF GenCodeInv
<1>2. DOMAIN todo = 1 .. Len(todo)
  BY <1>1, LenProperties DEF Typed
<1>3. PICK l \in Own : s \in (IF todo[l].op = "body" THEN 1 .. todo[l].slot
                              ELSE IF todo[l].op = "in" THEN {todo[l].slot} ELSE {})
  BY DEF Named
<1>4. l \in 1 .. Len(todo) /\ \A j \in l + 1 .. Len(todo) : todo[j].op # "body"
  BY <1>2, <1>3 DEF Own
<1>5. Owns(todo[l], s)
  BY <1>3 DEF Owns
<1>6. BodyNo(todo, l) = Len(roots)
  <2>1. \A j \in 1 .. Len(todo) : j \in 1 .. l \/ j \in l + 1 .. Len(todo)
    BY <1>1, <1>4
  <2>2. \A j \in 1 .. l : j \in 1 .. Len(todo)
    BY <1>1, <1>4
  <2>3. Bodies(todo, l) = Bodies(todo, Len(todo))
    BY <1>4, <2>1, <2>2 DEF Bodies
  <2> QED BY <1>1, <2>3 DEF BodyNo
<1>7. KeptSlot(roots, todo, l, Len(roots), s)
  BY <1>1, <1>4, <1>5, <1>6, OwnedKept
<1>8. s \in DOMAIN Frame
  BY <1>1, <1>7 DEF KeptSlot
<1>9. KeptSlot(roots, todo, Len(todo), Len(roots), s)
  <2>1. \A j \in Len(todo) + 1 .. Len(todo) : FALSE
    BY <1>1
  <2>2. \A m \in Nat : m >= 1 => m \in 1 .. m
    OBVIOUS
  <2> QED BY <1>1, <1>8, <2>1, <2>2 DEF KeptSlot
<1>10. Frame[s] \in Cell => Frame[s] \in KeptRoots(roots, todo, Len(todo))
  BY <1>1, <1>8, <1>9 DEF KeptRoots, KeptSlot
<1> QED BY <1>1, <1>4, <1>5, <1>6, <1>8, <1>10

\* Start keeps the invariant.
LEMMA StartStep ==
  ASSUME GenCodeInv, Start
  PROVE  GenCodeInv'
<1>1. /\ todo = << >> /\ roots' = << << >> >> /\ todo' = << Construct("body", 0) >>
      /\ obj' = obj /\ val' = val /\ from' = from
  BY DEF Start
<1>2. Typed(roots, todo)' /\ Shape(roots, todo)'
  BY <1>1, StartShape
<1>3. Lapses = {} => Kept(obj, roots, todo, val, from)'
  BY <1>1, StartKept DEF GenCodeInv
<1> QED BY <1>1, <1>2, <1>3 DEF GenCodeInv

\* The value changes and nothing else does.
LEMMA ValueStep ==
  ASSUME GenCodeInv, todo # << >>, UNCHANGED <<obj, roots, todo>>, val' \in Value, from' \in Origin,
         val' \in Cell /\ Lapses = {} =>
           from' = "read" /\ val' \in ReachIn(obj, KeptRoots(roots, todo, Len(todo)))
  PROVE  GenCodeInv'
<1>1. Typed(roots, todo)' /\ Shape(roots, todo)'
  BY DEF GenCodeInv
<1>2. ASSUME Lapses = {}
      PROVE  Kept(obj, roots, todo, val, from)'
  <2>1. Kept(obj, roots, todo, val, from)
    BY <1>2 DEF GenCodeInv
  <2>2. val' \in Cell => val' \in Alloc(obj) /\ KeptCell(obj, roots, todo, Len(todo), {from'}, val')
    BY <1>2, KeptReach DEF KeptCell
  <2>3. Kept(obj, roots, todo, val', from')
    BY <2>1, <2>2, ValueKept
  <2> QED BY <2>3
<1>3. obj' \in HeapType
  BY DEF GenCodeInv
<1> QED BY <1>1, <1>2, <1>3 DEF GenCodeInv

\* Literal keeps the invariant.
LEMMA LiteralStep ==
  ASSUME GenCodeInv, NEW v \in {Scalar, Null}, Literal(v)
  PROVE  GenCodeInv'
<1>1. v \in Value /\ v \notin Cell /\ "literal" \in Origin
  BY WordAssumption DEF Value, Pointer, Origin
<1>2. todo # << >> /\ UNCHANGED <<obj, roots, todo>> /\ Produce(v, "literal")
  BY DEF Literal, Evaluate
<1>3. val' = v /\ val' \in Value /\ from' \in Origin
  BY <1>1, <1>2, Produced
<1> QED BY <1>1, <1>2, <1>3, ValueStep

\* Identifier keeps the invariant.
LEMMA IdentifierStep ==
  ASSUME GenCodeInv, NEW s \in Named, Identifier(s)
  PROVE  GenCodeInv'
<1>1. todo # << >> /\ UNCHANGED <<obj, roots, todo>> /\ Produce(Frame[s], "read")
  BY DEF Identifier, Evaluate
<1>2. Frame[s] \in Value /\ (Frame[s] \in Cell => Frame[s] \in KeptRoots(roots, todo, Len(todo)))
  <2>1. s \in DOMAIN Frame /\ Frame \in Seq(Pointer) /\ DOMAIN Frame = 1 .. Len(Frame)
    BY <1>1, NamedOwned, Innermost
  <2>2. Frame[s] \in Pointer
    BY <2>1, ElementOfSeq
  <2> QED BY <1>1, <2>2, NamedOwned DEF Value
<1>3. "read" \in Origin
  BY DEF Origin
<1>4. val' = Frame[s] /\ val' \in Value /\ from' \in Origin /\ (Frame[s] \in Cell => from' = "read")
  BY <1>1, <1>2, <1>3, Produced
<1>5. Lapses = {} => KeptRoots(roots, todo, Len(todo)) \subseteq ReachIn(obj, KeptRoots(roots, todo, Len(todo)))
  BY <1>1, KeptReach
<1> QED BY <1>1, <1>2, <1>4, <1>5, ValueStep

\* Discard keeps the invariant.
LEMMA DiscardStep ==
  ASSUME GenCodeInv, Discard
  PROVE  GenCodeInv'
<1>1. todo # << >> /\ UNCHANGED <<obj, roots, todo>> /\ NoValue
  BY DEF Discard, Evaluated
<1>2. val' = None /\ val' \in Value /\ from' \in Origin /\ None \notin Cell
  BY <1>1, NoneProduced, WordAssumption
<1> QED BY <1>1, <1>2, ValueStep

\* A construct is entered.
LEMMA OpenStep ==
  ASSUME GenCodeInv, NEW t \in Constructs, Open(t), t.op \notin {"body", "in"},
         t.op = "for" => t.slot = Len(roots[1]),
         t.op = "nested" => AwaitsTail(todo[Len(todo)]),
         t.op = "assign" => \E l \in 1 .. Len(todo) : BodyNo(todo, l) = Len(roots) /\ Owns(todo[l], t.slot),
         Registers(t), ~Making(t),
         Lapses = {} => \A j \in 1 .. Len(t.regs) : t.regs[j] \in Cell =>
           "read" \in t.got /\ t.regs[j] \in ReachIn(obj, KeptRoots(roots, todo, Len(todo)))
  PROVE  GenCodeInv'
<1>1. /\ todo # << >> /\ val = None /\ todo' = Append(todo, t)
      /\ UNCHANGED <<obj, roots, val, from>>
  BY DEF Open, Evaluate
<1>2. Typed(roots, todo) /\ Shape(roots, todo)
  BY DEF GenCodeInv
<1>3. Typed(roots, Append(todo, t)) /\ Shape(roots, Append(todo, t))
  BY <1>1, <1>2, PushContinues
<1>4. ASSUME Lapses = {}
      PROVE  Kept(obj, roots, Append(todo, t), None, from)
  <2>1. Kept(obj, roots, todo, val, from)
    BY <1>4 DEF GenCodeInv
  <2>2. \A j \in 1 .. Len(t.regs) : t.regs[j] \in Cell =>
           t.regs[j] \in Alloc(obj) /\ KeptCell(obj, roots, todo, Len(todo), t.got, t.regs[j])
    BY <1>1, <1>4, KeptReach DEF KeptCell
  <2> QED BY <1>1, <1>2, <2>1, <2>2, PushKept
<1> QED BY <1>1, <1>3, <1>4 DEF GenCodeInv

\* Constructs begin with empty registers.
LEMMA FreshConstruct ==
  ASSUME NEW op \in {"body", "pair", "cons", "nested", "call", "load", "var", "in", "seq", "for", "assign"},
         NEW slot \in Nat
  PROVE  LET t == Construct(op, slot)
         IN  /\ t \in Constructs /\ t.op = op /\ t.slot = slot /\ t.regs = << >> /\ Registers(t) /\ ~Making(t)
             /\ \A j \in 1 .. Len(t.regs) : FALSE
<1>1. << >> \in Seq(Pointer \cup {Scalar}) /\ Len(<< >>) = 0
  BY EmptySeq
<1> QED BY <1>1 DEF Construct, Constructs, Registers, Making

\* Enter keeps the invariant.
LEMMA EnterStep ==
  ASSUME GenCodeInv, NEW op \in {"pair", "cons", "call", "load", "var", "seq"}, Enter(op)
  PROVE  GenCodeInv'
<1> DEFINE t == Construct(op, 0)
<1>1. /\ t \in Constructs /\ t.op = op /\ t.regs = << >> /\ Registers(t) /\ ~Making(t)
      /\ \A j \in 1 .. Len(t.regs) : FALSE
  BY FreshConstruct
<1>2. Open(t)
  BY DEF Enter
<1> HIDE DEF t
<1> QED BY <1>1, <1>2, OpenStep

\* EnterNested keeps the invariant.
LEMMA EnterNestedStep ==
  ASSUME GenCodeInv, EnterNested
  PROVE  GenCodeInv'
<1> DEFINE t == Construct("nested", 0)
<1>1. /\ t \in Constructs /\ t.op = "nested" /\ t.regs = << >> /\ Registers(t) /\ ~Making(t)
      /\ \A j \in 1 .. Len(t.regs) : FALSE
  BY FreshConstruct
<1>2. Open(t) /\ AwaitsTail(todo[Len(todo)])
  BY DEF EnterNested, Tail_of_cons, AwaitsTail, Top
<1> HIDE DEF t
<1> QED BY <1>1, <1>2, OpenStep

\* EnterFor keeps the invariant.
LEMMA EnterForStep ==
  ASSUME GenCodeInv, EnterFor
  PROVE  GenCodeInv'
<1> DEFINE t == Construct("for", Len(Frame))
<1>1. Open(t) /\ todo # << >>
  BY DEF EnterFor, Evaluate
<1>2. /\ t \in Constructs /\ t.op = "for" /\ t.slot = Len(Frame) /\ t.regs = << >> /\ Registers(t) /\ ~Making(t)
      /\ \A j \in 1 .. Len(t.regs) : FALSE
  BY <1>1, Innermost, FreshConstruct
<1>3. t.slot = Len(roots[1])
  BY <1>2 DEF Frame
<1> HIDE DEF t
<1> QED BY <1>1, <1>2, <1>3, OpenStep

\* EnterAssign keeps the invariant.
LEMMA EnterAssignStep ==
  ASSUME GenCodeInv, NEW s \in Named, EnterAssign(s)
  PROVE  GenCodeInv'
<1> DEFINE t == Construct("assign", s)
<1>1. Open(t) /\ todo # << >>
  BY DEF EnterAssign, Open, Evaluate
<1>2. s \in Nat /\ \E l \in 1 .. Len(todo) : BodyNo(todo, l) = Len(roots) /\ Owns(todo[l], s)
  BY <1>1, NamedOwned
<1>3. /\ t \in Constructs /\ t.op = "assign" /\ t.slot = s /\ t.regs = << >> /\ Registers(t) /\ ~Making(t)
      /\ \A j \in 1 .. Len(t.regs) : FALSE
  BY <1>2, FreshConstruct
<1> HIDE DEF t
<1> QED BY <1>1, <1>2, <1>3, OpenStep

\* EnterStore keeps the invariant.
LEMMA EnterStoreStep ==
  ASSUME GenCodeInv, NEW s \in Named, NEW c \in Cell, EnterStore(s, c)
  PROVE  GenCodeInv'
<1> DEFINE t == [Construct("store", 0) EXCEPT !.regs = <<c>>, !.got = {"read"}]
<1>1. Open(t) /\ todo # << >> /\ c \in RowIn(obj, Frame[s])
  BY HeapOperators DEF EnterStore, Open, Evaluate
<1>2. /\ t \in Constructs /\ t.op = "store" /\ t.regs = <<c>> /\ t.got = {"read"}
  <2>1. <<c>> \in Seq(Pointer \cup {Scalar})
    BY DEF Pointer
  <2> QED BY <2>1 DEF Construct, Constructs
<1>3. Len(t.regs) = 1 /\ t.regs[1] = c
  BY <1>2
<1> HIDE DEF t
<1>4. Registers(t) /\ ~Making(t)
  BY <1>2, <1>3 DEF Registers, Making
<1>5. \A j \in 1 .. Len(t.regs) : t.regs[j] = c
  BY <1>3
<1>6. Lapses = {} => c \in ReachIn(obj, KeptRoots(roots, todo, Len(todo)))
  <2>1. Frame[s] \in Cell
    BY <1>1, RowOfNull
  <2>2. Frame[s] \in KeptRoots(roots, todo, Len(todo))
    BY <1>1, <2>1, NamedOwned
  <2> QED BY <1>1, <2>2, KeptReach
<1> QED BY <1>1, <1>2, <1>4, <1>5, <1>6, OpenStep

\* The innermost construct goes on with the registers of t.
LEMMA GoOnStep ==
  ASSUME GenCodeInv, todo # << >>, UNCHANGED <<obj, roots>>, NoValue,
         NEW t \in Constructs, todo' = WithTop(t), t.op = Top.op, t.slot = Top.slot, Registers(t), ~Making(t),
         Lapses = {} => \A j \in 1 .. Len(t.regs) : t.regs[j] \in Cell =>
           t.regs[j] \in Alloc(obj)
             /\ ("result" \notin t.got => KeptCell(obj, roots, todo, Len(todo), t.got, t.regs[j]))
  PROVE  GenCodeInv'
<1>1. Typed(roots, todo) /\ Shape(roots, todo)
  BY DEF GenCodeInv
<1>2. t.op = todo[Len(todo)].op /\ t.slot = todo[Len(todo)].slot
  BY DEF Top
<1>3. todo' = Append(SubSeq(todo, 1, Len(todo) - 1), t)
  BY DEF WithTop, Below
<1>4. roots \in Seq(Seq(Pointer)) /\ Extends(roots, roots)
  BY <1>1 DEF Typed, Extends
<1>5. Typed(roots, todo)' /\ Shape(roots, todo)'
  <2>1. /\ Typed(roots, Append(SubSeq(todo, 1, Len(todo) - 1), t))
        /\ Shape(roots, Append(SubSeq(todo, 1, Len(todo) - 1), t))
    BY <1>1, <1>2, <1>4, ReplaceContinues
  <2> QED BY <1>3, <2>1
<1>6. val' = None /\ val' \in Value /\ from' \in Origin
  BY NoneProduced
<1>7. ASSUME Lapses = {}
      PROVE  Kept(obj, roots, todo, val, from)'
  <2>1. Kept(obj, roots, todo, val, from)
    BY <1>7 DEF GenCodeInv
  <2>2. Kept(obj, roots, Append(SubSeq(todo, 1, Len(todo) - 1), t), None, from')
    BY <1>1, <1>2, <1>7, <2>1, ReplaceKept
  <2> QED BY <1>3, <1>6, <2>2
<1> QED BY <1>5, <1>6, <1>7 DEF GenCodeInv

\* What is known of the registers and the value of the innermost construct.
LEMMA InnermostKept ==
  ASSUME GenCodeInv, todo # << >>, Lapses = {}
  PROVE  /\ \A j \in 1 .. Len(Top.regs) : Top.regs[j] \in Cell => Top.regs[j] \in Alloc(obj)
         /\ val \in Cell => val \in Alloc(obj)
         /\ val \in Cell /\ ~AwaitsTail(Top) /\ from # "result" =>
              KeptCell(obj, roots, todo, Len(todo), {from}, val)
         /\ Top.op \notin {"nested", "pair"} /\ "result" \notin Top.got =>
              \A j \in 1 .. Len(Top.regs) : Top.regs[j] \in Cell =>
                KeptCell(obj, roots, todo, Len(todo), Top.got, Top.regs[j])
<1>1. Kept(obj, roots, todo, val, from) /\ Len(todo) \in 1 .. Len(todo)
  BY Innermost DEF GenCodeInv
<1>2. RegKept(obj, roots, todo, Len(todo))
  BY <1>1 DEF Kept
<1>3. Sound(obj, roots, todo, val) /\ ValKept(obj, roots, todo, val, from)
  BY <1>1 DEF Kept
<1> QED BY <1>1, <1>2, <1>3 DEF RegKept, Sound, ValKept, Top

\* A cell known to come from G may come from more.
LEMMA KeptBy ==
  ASSUME NEW o, NEW r, NEW td, NEW k, NEW G, NEW H, NEW c, G \subseteq H, KeptCell(o, r, td, k, G, c)
  PROVE  KeptCell(o, r, td, k, H, c)
BY DEF KeptCell

\* Argument keeps the invariant.
LEMMA ArgumentStep ==
  ASSUME GenCodeInv, Argument
  PROVE  GenCodeInv'
<1> DEFINE t == [Top EXCEPT !.regs = Append(@, val), !.got = IF val \in Cell THEN @ \cup {from} ELSE @]
<1>1. /\ todo # << >> /\ val # None /\ Top.op = "call" /\ UNCHANGED <<obj, roots>> /\ NoValue
      /\ todo' = WithTop(t)
  BY DEF Argument, Evaluated
<1>2. Top \in Constructs
  BY <1>1, Innermost
<1>3. Top.regs \in Seq(Pointer \cup {Scalar}) /\ Top.got \subseteq Origin /\ val \in Pointer \cup {Scalar} /\ from \in Origin
  BY <1>1, <1>2 DEF Constructs, GenCodeInv, Value, Origin
<1>4. /\ Append(Top.regs, val) \in Seq(Pointer \cup {Scalar}) /\ Len(Append(Top.regs, val)) = Len(Top.regs) + 1
      /\ Append(Top.regs, val)[Len(Top.regs) + 1] = val
      /\ \A j \in 1 .. Len(Top.regs) : Append(Top.regs, val)[j] = Top.regs[j]
  BY <1>3, AppendProperties
<1>5. /\ t \in Constructs /\ t.op = "call" /\ t.slot = Top.slot /\ t.regs = Append(Top.regs, val)
      /\ t.got = IF val \in Cell THEN Top.got \cup {from} ELSE Top.got
  BY <1>1, <1>2, <1>3, <1>4 DEF Constructs, Origin
<1> HIDE DEF t
<1>6. Registers(t) /\ ~Making(t)
  BY <1>5 DEF Registers, Making
<1>7. \A j \in 1 .. Len(t.regs) : (j \in 1 .. Len(Top.regs) /\ t.regs[j] = Top.regs[j]) \/ t.regs[j] = val
  <2>1. Len(Top.regs) \in Nat
    BY <1>3, LenProperties
  <2>2. \A l \in Nat : \A j \in 1 .. l + 1 : j \in 1 .. l \/ j = l + 1
    OBVIOUS
  <2> QED BY <1>4, <1>5, <2>1, <2>2
<1>8. ASSUME Lapses = {}, NEW j \in 1 .. Len(t.regs), t.regs[j] \in Cell
      PROVE  /\ t.regs[j] \in Alloc(obj)
             /\ "result" \notin t.got => KeptCell(obj, roots, todo, Len(todo), t.got, t.regs[j])
  <2>1. ~AwaitsTail(Top) /\ Top.op \notin {"nested", "pair"}
    BY <1>1 DEF AwaitsTail
  <2>2. CASE j \in 1 .. Len(Top.regs) /\ t.regs[j] = Top.regs[j]
    <3>1. t.regs[j] \in Alloc(obj)
      BY <1>1, <1>8, <2>2, InnermostKept
    <3>2. Top.got \subseteq t.got
      BY <1>5
    <3>3. "result" \notin Top.got => KeptCell(obj, roots, todo, Len(todo), Top.got, t.regs[j])
      BY <1>1, <1>8, <2>1, <2>2, InnermostKept
    <3> QED BY <3>1, <3>2, <3>3, KeptBy
  <2>3. CASE t.regs[j] = val
    <3>1. val \in Cell
      BY <1>8, <2>3
    <3>2. val \in Alloc(obj) /\ (from # "result" => KeptCell(obj, roots, todo, Len(todo), {from}, val))
      BY <1>1, <1>8, <2>1, <3>1, InnermostKept
    <3>3. {from} \subseteq t.got
      BY <1>5, <3>1
    <3> QED BY <2>3, <3>2, <3>3, KeptBy
  <2> QED BY <1>7, <2>2, <2>3
<1> QED BY <1>1, <1>5, <1>6, <1>8, GoOnStep

\* Projected keeps the invariant.
LEMMA ProjectedStep ==
  ASSUME GenCodeInv, Projected
  PROVE  GenCodeInv'
<1> DEFINE t == [Top EXCEPT !.regs = <<val>>, !.got = {from}]
<1>1. /\ todo # << >> /\ Top.op = "load" /\ val \in Cell /\ UNCHANGED <<obj, roots>> /\ NoValue
      /\ todo' = WithTop(t)
  BY DEF Projected, Evaluated
<1>2. Top \in Constructs /\ from \in Origin
  BY <1>1, Innermost DEF GenCodeInv
<1>3. <<val>> \in Seq(Pointer \cup {Scalar}) /\ Len(<<val>>) = 1 /\ <<val>>[1] = val
  BY <1>1 DEF Pointer
<1>4. t \in Constructs /\ t.op = "load" /\ t.slot = Top.slot /\ t.regs = <<val>> /\ t.got = {from}
  BY <1>1, <1>2, <1>3 DEF Constructs, Origin
<1> HIDE DEF t
<1>5. Registers(t) /\ ~Making(t)
  BY <1>1, <1>3, <1>4 DEF Registers, Making
<1>6. \A j \in 1 .. Len(t.regs) : t.regs[j] = val
  BY <1>3, <1>4
<1>7. ASSUME Lapses = {}
      PROVE  val \in Alloc(obj) /\ ("result" \notin t.got => KeptCell(obj, roots, todo, Len(todo), t.got, val))
  <2>1. ~AwaitsTail(Top)
    BY <1>1 DEF AwaitsTail
  <2> QED BY <1>1, <1>4, <1>7, <2>1, InnermostKept
<1> QED BY <1>1, <1>4, <1>5, <1>6, <1>7, GoOnStep

\* Deeper keeps the invariant.
LEMMA DeeperStep ==
  ASSUME GenCodeInv, NEW c \in Cell, Deeper(c)
  PROVE  GenCodeInv'
<1> DEFINE t == [Top EXCEPT !.regs = <<c>>]
           a == Top.regs[1]
<1>1. /\ todo # << >> /\ Top.op = "store" /\ UNCHANGED <<obj, roots>> /\ NoValue
      /\ obj[a] # None /\ c \in RowIn(obj, obj[a].car) /\ todo' = WithTop(t)
  BY HeapOperators DEF Deeper, Evaluated
<1>2. Top \in Constructs /\ Registers(Top)
  BY <1>1, Innermost
<1>3. <<c>> \in Seq(Pointer \cup {Scalar}) /\ Len(<<c>>) = 1 /\ <<c>>[1] = c
  BY DEF Pointer
<1>4. t \in Constructs /\ t.op = "store" /\ t.slot = Top.slot /\ t.regs = <<c>> /\ t.got = Top.got
  BY <1>1, <1>2, <1>3 DEF Constructs
<1>5. Len(Top.regs) = 1 /\ a \in Cell /\ Top.got = {"read"}
  BY <1>1, <1>2 DEF Registers
<1> HIDE DEF t, a
<1>6. Registers(t) /\ ~Making(t)
  BY <1>3, <1>4, <1>5 DEF Registers, Making
<1>7. \A j \in 1 .. Len(t.regs) : t.regs[j] = c
  BY <1>3, <1>4
<1>8. ASSUME Lapses = {}
      PROVE  c \in Alloc(obj) /\ KeptCell(obj, roots, todo, Len(todo), t.got, c)
  <2>1. KeptCell(obj, roots, todo, Len(todo), Top.got, a)
    <3>1. 1 \in 1 .. Len(Top.regs)
      BY <1>5
    <3> QED BY <1>1, <1>5, <1>8, <3>1, InnermostKept DEF a
  <2>2. a \in ReachIn(obj, KeptRoots(roots, todo, Len(todo)))
    BY <1>1, <1>8, <2>1, KeptReach DEF KeptCell
  <2>3. obj[a].car \in Cell
    BY <1>1, RowOfNull
  <2>4. obj[a].car \in ReachIn(obj, KeptRoots(roots, todo, Len(todo)))
    BY <1>1, <1>8, <2>2, <2>3, KeptReach
  <2>5. c \in ReachIn(obj, KeptRoots(roots, todo, Len(todo))) /\ c \in Alloc(obj)
    BY <1>1, <1>8, <2>4, KeptReach
  <2> QED BY <1>4, <1>5, <2>5 DEF KeptCell
<1> QED BY <1>1, <1>4, <1>6, <1>7, <1>8, GoOnStep

\* The innermost construct is left with the value w.
LEMMA LeaveStep ==
  ASSUME GenCodeInv, todo # << >>, Top.op # "body", UNCHANGED <<obj, roots>>, todo' = Below,
         val' \in Value, from' \in Origin,
         Lapses = {} /\ val' \in Cell =>
           val' \in Alloc(obj) /\ (from' = "result" \/ KeptCell(obj, roots, todo, Len(todo), {from'}, val'))
  PROVE  GenCodeInv'
<1>1. Typed(roots, todo) /\ Shape(roots, todo) /\ todo[Len(todo)].op # "body"
  BY DEF GenCodeInv, Top
<1>2. todo' = SubSeq(todo, 1, Len(todo) - 1)
  BY DEF Below
<1>3. Typed(roots, todo)' /\ Shape(roots, todo)'
  <2>1. Typed(roots, SubSeq(todo, 1, Len(todo) - 1)) /\ Shape(roots, SubSeq(todo, 1, Len(todo) - 1))
    BY <1>1, PopContinues
  <2> QED BY <1>2, <2>1
<1>4. ASSUME Lapses = {}
      PROVE  Kept(obj, roots, todo, val, from)'
  <2>1. Kept(obj, roots, todo, val, from)
    BY <1>4 DEF GenCodeInv
  <2>2. Kept(obj, roots, SubSeq(todo, 1, Len(todo) - 1), val', from')
    BY <1>1, <1>4, <2>1, PopKept
  <2> QED BY <1>2, <2>2
<1> QED BY <1>3, <1>4 DEF GenCodeInv

\* Load keeps the invariant.
LEMMA LoadStep ==
  ASSUME GenCodeInv, NEW w \in Pointer \cup {Scalar}, Load(w)
  PROVE  GenCodeInv'
<1>1. /\ todo # << >> /\ Top.op = "load" /\ val \in Cell /\ obj[val] # None
      /\ w \in {obj[val].car, obj[val].cdr} /\ todo' = Below /\ UNCHANGED <<obj, roots>>
      /\ Produce(w, IF from = "result" THEN "result" ELSE "read")
  BY DEF Load, Evaluated
<1>2. w \in Value /\ (IF from = "result" THEN "result" ELSE "read") \in Origin
  BY DEF Value, Origin
<1>3. val' = w /\ val' \in Value /\ from' \in Origin
      /\ (w \in Cell => from' = IF from = "result" THEN "result" ELSE "read")
  BY <1>1, <1>2, Produced
<1>4. ASSUME Lapses = {}, w \in Cell
      PROVE  w \in Alloc(obj) /\ (from = "result" \/ KeptCell(obj, roots, todo, Len(todo), {"read"}, w))
  <2> DEFINE K == ReachIn(obj, KeptRoots(roots, todo, Len(todo)))
  <2>1. ~AwaitsTail(Top)
    BY <1>1 DEF AwaitsTail
  <2>2. val \in Alloc(obj)
    BY <1>1, <1>4, InnermostKept
  <2>3. w \in NamesIn(obj, val)
    <3>1. obj[val].is_pointer <=> obj[val].car \in Pointer
      BY <1>4, <2>2 DEF GenCodeInv, Kept, Sound
    <3> QED BY <1>1, <1>4, <3>1 DEF NamesIn, Pointer
  <2>4. w \in Alloc(obj)
    BY <1>4, <2>2, <2>3 DEF GenCodeInv, Kept, Sound
  <2>5. ASSUME from # "result" PROVE KeptCell(obj, roots, todo, Len(todo), {"read"}, w)
    <3>1. KeptCell(obj, roots, todo, Len(todo), {from}, val)
      BY <1>1, <1>4, <2>1, <2>5, InnermostKept
    <3>2. val \in K
      BY <1>1, <1>4, <3>1, KeptReach DEF KeptCell
    <3>3. w \in K
      BY <1>1, <1>4, <2>3, <3>2, KeptReach
    <3> QED BY <3>3 DEF KeptCell
  <2> QED BY <2>4, <2>5
<1>5. Top.op # "body"
  BY <1>1
<1>6. Lapses = {} /\ val' \in Cell =>
        val' \in Alloc(obj) /\ (from' = "result" \/ KeptCell(obj, roots, todo, Len(todo), {from'}, val'))
  BY <1>3, <1>4
<1> QED BY <1>1, <1>3, <1>5, <1>6, LeaveStep

\* Projection keeps the invariant.
LEMMA ProjectionStep ==
  ASSUME GenCodeInv, NEW c \in Cell, Projection(c)
  PROVE  GenCodeInv'
<1> DEFINE a == Top.regs[1]
           g == IF "result" \in Top.got THEN "result" ELSE "read"
           w == obj[c].car
<1>1. /\ todo # << >> /\ Top.op = "load" /\ Top.regs # << >> /\ c \in RowIn(obj, a) /\ obj[c] # None
      /\ todo' = Below /\ UNCHANGED <<obj, roots>> /\ Produce(w, g)
  BY HeapOperators DEF Projection, Evaluated
<1>2. Len(Top.regs) = 1 /\ a \in Cell
  <2>1. Registers(Top)
    BY <1>1, Innermost
  <2> QED BY <1>1, <2>1 DEF Registers
<1>3. w \in Value /\ g \in Origin
  <2>1. obj[c] \in Object
    BY <1>1 DEF GenCodeInv, HeapType
  <2> QED BY <2>1 DEF Object, Value, Origin, Pointer
<1> HIDE DEF a, g, w
<1>4. val' = w /\ val' \in Value /\ from' \in Origin /\ (w \in Cell => from' = g)
  BY <1>1, <1>3, Produced
<1>5. ASSUME Lapses = {}, w \in Cell
      PROVE  w \in Alloc(obj) /\ (g = "result" \/ KeptCell(obj, roots, todo, Len(todo), {"read"}, w))
  <2> DEFINE K == ReachIn(obj, KeptRoots(roots, todo, Len(todo)))
  <2>1. 1 \in 1 .. Len(Top.regs)
    BY <1>2
  <2>2. Sound(obj, roots, todo, val)
    BY <1>5 DEF GenCodeInv, Kept
  <2>3. a \in Alloc(obj)
    BY <1>1, <1>2, <1>5, <2>1, InnermostKept DEF a
  <2>4. c \in Alloc(obj)
    BY <1>1 DEF Alloc
  <2>5. w \in NamesIn(obj, c)
    BY <1>5, <2>2, <2>4 DEF Sound, NamesIn, Pointer, Alloc, w
  <2>6. w \in Alloc(obj)
    BY <2>2, <2>4, <2>5 DEF Sound
  <2>7. ASSUME "result" \notin Top.got PROVE w \in K
    <3>1. KeptCell(obj, roots, todo, Len(todo), Top.got, a)
      BY <1>1, <1>2, <1>5, <2>1, <2>7, InnermostKept DEF a
    <3>2. a \in K
      BY <1>1, <1>5, <3>1, KeptReach DEF KeptCell
    <3>3. c \in K
      BY <1>1, <1>5, <3>2, KeptReach
    <3> QED BY <1>1, <1>5, <2>5, <3>3, KeptReach
  <2> QED BY <2>6, <2>7 DEF KeptCell, g
<1>6. Top.op # "body"
  BY <1>1
<1>7. Lapses = {} /\ val' \in Cell =>
        val' \in Alloc(obj) /\ (from' = "result" \/ KeptCell(obj, roots, todo, Len(todo), {from'}, val'))
  BY <1>4, <1>5 DEF g
<1> QED BY <1>1, <1>4, <1>6, <1>7, LeaveStep

\* Last keeps the invariant.
LEMMA LastStep ==
  ASSUME GenCodeInv, Last
  PROVE  GenCodeInv'
<1> DEFINE g == IF from = "literal" THEN "built" ELSE from
<1>1. /\ todo # << >> /\ Top.op \in {"seq", "in"} /\ todo' = Below /\ UNCHANGED <<obj, roots>>
      /\ Produce(val, g)
  BY DEF Last, Evaluated
<1>2. val \in Value /\ g \in Origin /\ from \in Origin
  BY DEF GenCodeInv, Origin
<1>3. val' = val /\ val' \in Value /\ from' \in Origin /\ (val \in Cell => from' = g)
  <2> HIDE DEF g
  <2> QED BY <1>1, <1>2, Produced
<1>4. ASSUME Lapses = {}, val \in Cell
      PROVE  val \in Alloc(obj) /\ (g = "result" \/ KeptCell(obj, roots, todo, Len(todo), {g}, val))
  <2>1. ~AwaitsTail(Top)
    BY <1>1 DEF AwaitsTail
  <2>2. val \in Alloc(obj) /\ (from # "result" => KeptCell(obj, roots, todo, Len(todo), {from}, val))
    BY <1>1, <1>4, <2>1, InnermostKept
  <2> QED BY <2>2 DEF KeptCell
<1>5. Top.op # "body"
  BY <1>1
<1> HIDE DEF g
<1>6. Lapses = {} /\ val' \in Cell =>
        val' \in Alloc(obj) /\ (from' = "result" \/ KeptCell(obj, roots, todo, Len(todo), {from'}, val'))
  BY <1>3, <1>4
<1> QED BY <1>1, <1>3, <1>5, <1>6, LeaveStep

\* LoopEnd keeps the invariant.
LEMMA LoopEndStep ==
  ASSUME GenCodeInv, Loop_end
  PROVE  GenCodeInv'
<1>1. /\ todo # << >> /\ Top.op # "body" /\ todo' = Below /\ UNCHANGED <<obj, roots>>
      /\ Produce(Scalar, "built")
  BY DEF Loop_end, Evaluated
<1>2. Scalar \in Value /\ "built" \in Origin /\ Scalar \notin Cell
  BY WordAssumption DEF Value, Origin
<1>3. val' = Scalar /\ val' \in Value /\ from' \in Origin
  BY <1>1, <1>2, Produced
<1> QED BY <1>1, <1>2, <1>3, LeaveStep

\* Initialise keeps the invariant.
LEMMA InitialiseStep ==
  ASSUME GenCodeInv, Initialise
  PROVE  GenCodeInv'
<1> DEFINE t == Construct("in", Len(Frame) + 1)
<1>1. /\ todo # << >> /\ Top.op = "var" /\ val \in Pointer /\ NoValue /\ obj' = obj
      /\ roots' = [roots EXCEPT ![1] = Append(@, val)]
      /\ todo' = Append(SubSeq(todo, 1, Len(todo) - 1), Construct("in", Len(roots[1]) + 1))
  BY DEF Initialise, Evaluated, NewRoot, WithTop, Below, Frame
<1>2. val' = None /\ val' \in Value /\ from' \in Origin
  BY <1>1, NoneProduced
<1>3. Typed(roots, todo) /\ Shape(roots, todo) /\ todo[Len(todo)].op = "var"
  BY <1>1 DEF GenCodeInv, Top
<1>4. Typed(roots, todo)' /\ Shape(roots, todo)'
  <2> DEFINE r2 == [roots EXCEPT ![1] = Append(@, val)]
             td2 == Append(SubSeq(todo, 1, Len(todo) - 1), Construct("in", Len(roots[1]) + 1))
  <2>1. Typed(r2, td2) /\ Shape(r2, td2)
    BY <1>1, <1>3, BindContinues
  <2> QED BY <1>1, <2>1
<1>5. ASSUME Lapses = {}
      PROVE  Kept(obj, roots, todo, val, from)'
  <2>1. Kept(obj, roots, todo, val, from)
    BY <1>5 DEF GenCodeInv
  <2>2. Kept(obj, [roots EXCEPT ![1] = Append(@, val)],
             Append(SubSeq(todo, 1, Len(todo) - 1), Construct("in", Len(roots[1]) + 1)), None, from')
    BY <1>1, <1>3, <2>1, BindKept
  <2> QED BY <1>1, <1>2, <2>2
<1> QED BY <1>1, <1>2, <1>4, <1>5 DEF GenCodeInv

\* Iterate keeps the invariant.
LEMMA IterateStep ==
  ASSUME GenCodeInv, Iterate
  PROVE  GenCodeInv'
<1> DEFINE r2 == [roots EXCEPT ![1] = SubSeq(@, 1, todo[Len(todo)].slot)]
<1>1. /\ todo # << >> /\ todo[Len(todo)].op = "for" /\ NoValue /\ obj' = obj /\ todo' = todo
      /\ roots' = r2
  BY DEF Iterate, Evaluated, Top
<1>2. val' = None /\ val' \in Value /\ from' \in Origin
  BY <1>1, NoneProduced
<1>3. Typed(roots, todo) /\ Shape(roots, todo)
  BY DEF GenCodeInv
<1>4. Typed(roots, todo)' /\ Shape(roots, todo)'
  <2>1. Typed(r2, todo) /\ Shape(r2, todo)
    BY <1>1, <1>3, IterateContinues
  <2> QED BY <1>1, <2>1
<1>5. ASSUME Lapses = {}
      PROVE  Kept(obj, roots, todo, val, from)'
  <2>1. Kept(obj, roots, todo, val, from)
    BY <1>5 DEF GenCodeInv
  <2>2. Kept(obj, r2, todo, None, from')
    BY <1>1, <1>3, <2>1, IterateKept
  <2> QED BY <1>1, <1>2, <2>2
<1> QED BY <1>1, <1>2, <1>4, <1>5 DEF GenCodeInv

\* Return keeps the invariant.
LEMMA ReturnStep ==
  ASSUME GenCodeInv, Return
  PROVE  GenCodeInv'
<1>1. /\ todo # << >> /\ val # None /\ todo[Len(todo)].op = "body" /\ roots' = Tail(roots) /\ obj' = obj
      /\ IF Len(todo) = 1 THEN todo' = << >> /\ NoValue
                          ELSE todo' = SubSeq(todo, 1, Len(todo) - 2) /\ Produce(val, "result")
  BY DEF Return, Evaluated, Top
<1>2. Typed(roots, todo) /\ Shape(roots, todo) /\ obj \in HeapType /\ val \in Value
  BY DEF GenCodeInv
<1>3. CASE Len(todo) = 1
  <2>1. val' = None /\ val' \in Value /\ from' \in Origin /\ todo' = << >>
    BY <1>1, <1>3, NoneProduced
  <2>2. Typed(Tail(roots), << >>) /\ Shape(Tail(roots), << >>)
    BY <1>2, <1>3, EmptyShape
  <2>3. ASSUME Lapses = {}
        PROVE  Kept(obj, Tail(roots), << >>, None, from')
    <3>1. Kept(obj, roots, todo, val, from)
      BY <2>3 DEF GenCodeInv
    <3> QED BY <1>2, <1>3, <3>1, NothingOpenKept
  <2> QED BY <1>1, <1>2, <2>1, <2>2, <2>3 DEF GenCodeInv
<1>4. CASE Len(todo) # 1
  <2> DEFINE td2 == SubSeq(todo, 1, Len(todo) - 2)
  <2>1. "result" \in Origin /\ Produce(val, "result") /\ todo' = td2
    BY <1>1, <1>4 DEF Origin
  <2>2. val' = val /\ val' \in Value /\ from' \in Origin /\ (val \in Cell => from' = "result")
    BY <1>2, <2>1, Produced
  <2>3. Typed(Tail(roots), td2) /\ Shape(Tail(roots), td2)
    BY <1>1, <1>2, <1>4, ReturnContinues
  <2>4. ASSUME Lapses = {}
        PROVE  Kept(obj, Tail(roots), td2, val, from')
    <3>1. Kept(obj, roots, todo, val, from)
      BY <2>4 DEF GenCodeInv
    <3> HIDE DEF td2
    <3>2. Kept(obj, Tail(roots), SubSeq(todo, 1, Len(todo) - 2), val, from')
      BY <1>1, <1>2, <1>4, <2>2, <3>1, ReturnKept
    <3> QED BY <3>2 DEF td2
  <2> HIDE DEF td2
  <2> QED BY <1>1, <1>2, <2>1, <2>2, <2>3, <2>4 DEF GenCodeInv
<1> QED BY <1>3, <1>4

\* Assign keeps the invariant.
LEMMA AssignStep ==
  ASSUME GenCodeInv, Assign
  PROVE  GenCodeInv'
<1> DEFINE r2 == [roots EXCEPT ![1][todo[Len(todo)].slot] = val]
           td2 == SubSeq(todo, 1, Len(todo) - 1)
<1>1. /\ todo # << >> /\ todo[Len(todo)].op = "assign" /\ val \in Pointer /\ roots' = r2 /\ todo' = td2 /\ obj' = obj
      /\ Produce(Scalar, "built") /\ (Waiting => "reassigned" \in Lapses)
  BY DEF Assign, Evaluated, Top, Below
<1>2. Typed(roots, todo) /\ Shape(roots, todo)
  BY DEF GenCodeInv
<1>3. val' = Scalar /\ val' \in Value /\ from' \in Origin
  <2>1. Scalar \in Value /\ "built" \in Origin
    BY DEF Value, Origin
  <2> QED BY <1>1, <2>1, Produced
<1>4. Typed(r2, td2) /\ Shape(r2, td2)
  BY <1>1, <1>2, AssignContinues
<1>5. ASSUME Lapses = {}
      PROVE  Kept(obj, r2, td2, Scalar, from')
  <2>1. Kept(obj, roots, todo, val, from)
    BY <1>5 DEF GenCodeInv
  <2>2. \A k \in 1 .. Len(todo) - 1 : "read" \notin todo[k].got
    BY <1>1, <1>5 DEF Waiting
  <2> QED BY <1>1, <1>2, <2>1, <2>2, AssignKept
<1> HIDE DEF r2, td2
<1> QED BY <1>1, <1>3, <1>4, <1>5 DEF GenCodeInv

\* Invoke keeps the invariant.
LEMMA InvokeStep ==
  ASSUME GenCodeInv, Invoke
  PROVE  GenCodeInv'
<1> DEFINE args == Pointers(Top.regs)
           r2 == <<args>> \o roots
           td2 == Append(Append(SubSeq(todo, 1, Len(todo) - 1), Construct("call", 0)), Construct("body", Len(args)))
<1>1. /\ todo # << >> /\ val = None /\ todo[Len(todo)].op = "call" /\ obj' = obj /\ val' = val /\ from' = from
      /\ roots' = r2 /\ todo' = td2
  BY DEF Invoke, Evaluate, Top, WithTop, Below
<1>2. Typed(roots, todo) /\ Shape(roots, todo) /\ Top \in Constructs
  BY <1>1, Innermost DEF GenCodeInv
<1>3. Top.regs \in Seq(Pointer \cup {Scalar})
  BY <1>2 DEF Constructs
<1>4. /\ DOMAIN Top.regs = 1 .. Len(Top.regs)
      /\ \A j \in 1 .. Len(Top.regs) : Top.regs[j] \in Pointer \cup {Scalar}
  BY <1>3, LenProperties, ElementOfSeq
<1> DEFINE T == {Top.regs[j] : j \in DOMAIN Top.regs} \ {Scalar}
<1>5. args \in Seq(T) /\ T \subseteq Pointer
  <2>1. args \in Seq(T)
    BY <1>3, PointersType
  <2>2. T \subseteq Pointer
    BY <1>4
  <2> QED BY <2>1, <2>2
<1>6. \A c \in T : \E j \in 1 .. Len(Top.regs) : c = Top.regs[j]
  BY <1>4
<1> HIDE DEF args, T
<1>7. args \in Seq(Pointer) /\ DOMAIN args = 1 .. Len(args) /\ \A s \in DOMAIN args : args[s] \in T
  <2>1. DOMAIN args = 1 .. Len(args)
    BY <1>5, LenProperties
  <2>2. \A s \in 1 .. Len(args) : args[s] \in T
    BY <1>5, ElementOfSeq
  <2> QED BY <1>5, <2>1, <2>2
<1>8. Typed(r2, td2) /\ Shape(r2, td2)
  BY <1>1, <1>2, <1>7, InvokeContinues
<1>9. ASSUME Lapses = {}
      PROVE  Kept(obj, r2, td2, None, from)
  <2>1. Kept(obj, roots, todo, val, from)
    BY <1>9 DEF GenCodeInv
  <2>2. \A s \in DOMAIN args : args[s] \in Cell => args[s] \in Alloc(obj)
    BY <1>1, <1>6, <1>7, <1>9, InnermostKept
  <2> QED BY <1>1, <1>2, <1>7, <2>1, <2>2, InvokeKept
<1> HIDE DEF r2, td2
<1>10. obj \in HeapType /\ val \in Value /\ from \in Origin
  BY DEF GenCodeInv
<1> QED BY <1>1, <1>8, <1>9, <1>10 DEF GenCodeInv

\* The heap stays one when a cell is made or one of its fields is stored.
LEMMA HeapChanged ==
  ASSUME NEW o \in HeapType, NEW c \in Cell
  PROVE  /\ \A x \in Object : [o EXCEPT ![c] = x] \in HeapType
         /\ \A w \in Pointer : o[c] # None => [o EXCEPT ![c].cdr = w] \in HeapType
         /\ \A w \in Pointer \cup {Scalar} : o[c] # None => [o EXCEPT ![c].car = w] \in HeapType
<1>1. o[c] # None => o[c] \in Object
  BY DEF HeapType
<1>2. \A w \in Pointer : o[c] # None => [o[c] EXCEPT !.cdr = w] \in Object
  BY <1>1 DEF Object
<1>3. \A w \in Pointer \cup {Scalar} : o[c] # None => [o[c] EXCEPT !.car = w] \in Object
  BY <1>1 DEF Object
<1>4. \A x \in Object : [o EXCEPT ![c] = x] \in HeapType
  BY DEF HeapType
<1> QED BY <1>2, <1>3, <1>4

\* The registers of a construct that makes cells hold cells.
LEMMA MakingCells ==
  ASSUME GenCodeInv, todo # << >>, Making(Top)
  PROVE  /\ Top.regs[1] \in Cell /\ LastCell(Top) \in Cell
         /\ Top.op = "pair" => LastCell(Top) = Top.regs[2]
         /\ Top.op # "pair" => LastCell(Top) = Top.regs[1]
<1>1. Registers(Top)
  BY Innermost
<1> QED BY <1>1 DEF Registers, Making, LastCell

\* Store keeps the invariant.
LEMMA StoreStep ==
  ASSUME GenCodeInv, Store
  PROVE  GenCodeInv'
<1> DEFINE a == todo[Len(todo)].regs[1]
           td2 == SubSeq(todo, 1, Len(todo) - 1)
           o2 == [obj EXCEPT ![a].car = val]
<1>1. /\ todo # << >> /\ val # None /\ todo[Len(todo)].op = "store" /\ roots' = roots /\ todo' = td2 /\ obj' = o2
      /\ obj[a] # None /\ (obj[a].is_pointer <=> val \in Pointer)
      /\ Produce(Scalar, "built") /\ (Waiting => "reassigned" \in Lapses)
  BY DEF Store, Evaluated, Top, Below
<1>2. Typed(roots, todo) /\ Shape(roots, todo) /\ obj \in HeapType /\ val \in Pointer \cup {Scalar}
  BY <1>1 DEF GenCodeInv, Value
<1>3. val' = Scalar /\ val' \in Value /\ from' \in Origin
  <2>1. Scalar \in Value /\ "built" \in Origin
    BY DEF Value, Origin
  <2> QED BY <1>1, <2>1, Produced
<1>4. Typed(roots, td2) /\ Shape(roots, td2)
  <2>1. todo[Len(todo)].op # "body"
    BY <1>1
  <2> QED BY <1>1, <1>2, <2>1, PopContinues
<1>5. a \in Cell
  <2>1. Registers(Top)
    BY <1>1, Innermost
  <2> QED BY <1>1, <2>1 DEF Registers, Top
<1> HIDE DEF a
<1>6. o2 \in HeapType
  BY <1>1, <1>2, <1>5, HeapChanged
<1>7. ASSUME Lapses = {}
      PROVE  Kept(o2, roots, td2, Scalar, from')
  <2>1. Kept(obj, roots, todo, val, from)
    BY <1>7 DEF GenCodeInv
  <2>2. \A k \in 1 .. Len(todo) - 1 : "read" \notin todo[k].got
    BY <1>1, <1>7 DEF Waiting
  <2>3. a = todo[Len(todo)].regs[1]
    BY DEF a
  <2> QED BY <1>1, <1>2, <2>1, <2>2, <2>3, StoreKept
<1> HIDE DEF o2, td2
<1> QED BY <1>1, <1>3, <1>4, <1>6, <1>7 DEF GenCodeInv

\* The last cell of a literal or a cons gets its cdr.
LEMMA LinkStep ==
  ASSUME GenCodeInv, todo # << >>, Making(Top), NEW w \in Pointer, NEW g \in Origin,
         obj[LastCell(Top)] # None, obj' = [obj EXCEPT ![LastCell(Top)].cdr = w],
         todo' = Below, roots' = roots, Produce(Top.regs[1], g),
         Lapses = {} => (w \in Cell => w \in Alloc(obj))
  PROVE  GenCodeInv'
<1> DEFINE last == LastCell(Top)
           td2 == SubSeq(todo, 1, Len(todo) - 1)
           o2 == [obj EXCEPT ![last].cdr = w]
<1>1. /\ Typed(roots, todo) /\ Shape(roots, todo) /\ obj \in HeapType /\ Making(todo[Len(todo)])
      /\ todo[Len(todo)].op # "body" /\ todo' = td2 /\ obj' = o2
  BY DEF GenCodeInv, Top, Making, Below
<1>2. last \in Cell /\ Top.regs[1] \in Value
  BY MakingCells DEF Value, Pointer
<1>3. val' = Top.regs[1] /\ val' \in Value /\ from' \in Origin
  BY <1>2, Produced
<1>4. Typed(roots, td2) /\ Shape(roots, td2)
  BY <1>1, PopContinues
<1>5. last = LastCell(todo[Len(todo)]) /\ obj[last] # None
  BY DEF Top
<1> HIDE DEF last
<1>6. o2 \in HeapType
  BY <1>1, <1>2, <1>5, HeapChanged
<1>7. ASSUME Lapses = {}
      PROVE  Kept(o2, roots, td2, todo[Len(todo)].regs[1], from')
  <2>1. Kept(obj, roots, todo, val, from)
    BY <1>7 DEF GenCodeInv
  <2> QED BY <1>1, <1>5, <1>7, <2>1, LinkKept
<1>8. todo[Len(todo)].regs[1] = Top.regs[1]
  BY DEF Top
<1> HIDE DEF o2, td2
<1> QED BY <1>1, <1>3, <1>4, <1>6, <1>7, <1>8 DEF GenCodeInv

\* PairEnd keeps the invariant.
LEMMA PairEndStep ==
  ASSUME GenCodeInv, Pair_end
  PROVE  GenCodeInv'
<1>1. /\ todo # << >> /\ Top.op = "pair" /\ Top.regs # << >> /\ obj[Top.regs[2]] # None
      /\ obj' = [obj EXCEPT ![Top.regs[2]].cdr = Null]
      /\ todo' = Below /\ roots' = roots /\ Produce(Top.regs[1], "literal")
  BY DEF Pair_end, Evaluate
<1>2. Making(Top)
  BY <1>1 DEF Making
<1>3. LastCell(Top) = Top.regs[2]
  BY <1>1, <1>2, MakingCells
<1>4. Null \in Pointer /\ Null \notin Cell /\ "literal" \in Origin
  BY WordAssumption DEF Pointer, Origin
<1> QED BY <1>1, <1>2, <1>3, <1>4, LinkStep

\* ConsEnd keeps the invariant.
LEMMA ConsEndStep ==
  ASSUME GenCodeInv, Cons_end
  PROVE  GenCodeInv'
<1>1. /\ todo # << >> /\ Top.op \in {"cons", "nested"} /\ Top.regs # << >> /\ obj[Top.regs[1]] # None
      /\ val \in Pointer /\ obj' = [obj EXCEPT ![Top.regs[1]].cdr = val]
      /\ todo' = Below /\ roots' = roots /\ Produce(Top.regs[1], "built")
  BY DEF Cons_end, Evaluated
<1>2. Making(Top)
  BY <1>1 DEF Making
<1>3. LastCell(Top) = Top.regs[1]
  BY <1>1, <1>2, MakingCells
<1>4. Lapses = {} => (val \in Cell => val \in Alloc(obj))
  BY <1>1, InnermostKept
<1>5. "built" \in Origin
  BY DEF Origin
<1> QED BY <1>1, <1>2, <1>3, <1>4, <1>5, LinkStep

\* The heap that gc_new takes a cell from keeps everything that is used.
LEMMA ReadyHeap ==
  ASSUME GenCodeInv, todo # << >>, MayCollect, ~AwaitsTail(Top), NEW h \in {obj, Swept}
  PROVE  /\ h \in HeapType
         /\ Lapses = {} => Kept(h, roots, todo, val, from)
<1>1. Typed(roots, todo) /\ Shape(roots, todo) /\ obj \in HeapType
  BY DEF GenCodeInv
<1>2. h = obj \/ h = SweptIn(obj, roots)
  BY SweptIs
<1>3. h \in HeapType
  <2>1. SweptIn(obj, roots) \in HeapType
    BY <1>1 DEF SweptIn, HeapType
  <2> QED BY <1>1, <1>2, <2>1
<1>4. ASSUME Lapses = {}
      PROVE  Kept(h, roots, todo, val, from)
  <2>1. Kept(obj, roots, todo, val, from)
    BY <1>4 DEF GenCodeInv
  <2>2. DOMAIN todo = 1 .. Len(todo)
    BY <1>1, LenProperties DEF Typed
  <2>3. Quiet(todo, val, from)
    BY <1>4, <2>2 DEF MayCollect, HoldsResult, HalfNested, Quiet
  <2>4. ~AwaitsTail(todo[Len(todo)])
    BY DEF Top
  <2> QED BY <1>1, <1>2, <2>1, <2>3, <2>4, Collected
<1> QED BY <1>3, <1>4

\* Registers with the cells of s.
LEMMA CellsHeld ==
  ASSUME GenCodeInv, todo # << >>, Top.op \in {"pair", "cons", "nested"}, NEW s \in Seq(Pointer \cup {Scalar}),
         IF Top.op = "pair" THEN Len(s) = 2 /\ s[1] \in Cell /\ s[2] \in Cell ELSE Len(s) = 1 /\ s[1] \in Cell
  PROVE  LET t == [Top EXCEPT !.regs = s]
         IN  t \in Constructs /\ t.op = Top.op /\ t.slot = Top.slot /\ t.regs = s /\ Registers(t)
<1> DEFINE t == [Top EXCEPT !.regs = s]
<1>1. Top \in Constructs /\ Registers(Top)
  BY Innermost
<1>2. t \in Constructs /\ t.op = Top.op /\ t.slot = Top.slot /\ t.regs = s /\ t.got = Top.got
  BY <1>1 DEF Constructs
<1> HIDE DEF t
<1>3. Registers(t)
  BY <1>1, <1>2 DEF Registers
<1> QED BY <1>2, <1>3 DEF t

\* The first cell of a literal or an outermost cons.
LEMMA FirstStep ==
  ASSUME GenCodeInv, todo # << >>, val # None, NEW h \in {obj, Swept}, NEW c \in Cell, GcNew(h, c), NewRoot(c),
         Top.regs = << >>, NEW s,
         (Top.op = "pair" /\ s = <<c, c>>) \/ (Top.op = "cons" /\ s = <<c>>),
         todo' = WithTop([Top EXCEPT !.regs = s])
  PROVE  GenCodeInv'
<1> DEFINE t == [Top EXCEPT !.regs = s]
           r2 == [roots EXCEPT ![1] = Append(@, c)]
           td2 == Append(SubSeq(todo, 1, Len(todo) - 1), t)
           o2 == [h EXCEPT ![c] = Fresh(val \in Pointer, val)]
<1>1. MayCollect /\ h[c] = None /\ obj' = o2 /\ NoValue /\ roots' = r2 /\ todo' = td2
  BY DEF GcNew, NewRoot, WithTop, Below
<1>2. val' = None /\ val' \in Value /\ from' \in Origin
  BY <1>1, NoneProduced
<1>3. h \in HeapType /\ (Lapses = {} => Kept(h, roots, todo, val, from))
  <2>1. ~AwaitsTail(Top)
    BY DEF AwaitsTail
  <2> QED BY <1>1, <2>1, ReadyHeap
<1>4. val \in Pointer \cup {Scalar} /\ Typed(roots, todo) /\ Shape(roots, todo)
  BY DEF GenCodeInv, Value
<1>5. t \in Constructs /\ t.op = Top.op /\ t.slot = Top.slot /\ t.regs = s /\ Registers(t)
  <2>1. <<c, c>> \in Seq(Pointer \cup {Scalar}) /\ Len(<<c, c>>) = 2 /\ <<c, c>>[1] = c /\ <<c, c>>[2] = c
    BY DEF Pointer
  <2>2. <<c>> \in Seq(Pointer \cup {Scalar}) /\ Len(<<c>>) = 1 /\ <<c>>[1] = c
    BY DEF Pointer
  <2>3. s \in Seq(Pointer \cup {Scalar}) /\ Top.op \in {"pair", "cons", "nested"}
        /\ IF Top.op = "pair" THEN Len(s) = 2 /\ s[1] \in Cell /\ s[2] \in Cell ELSE Len(s) = 1 /\ s[1] \in Cell
    BY <2>1, <2>2
  <2> QED BY <2>3, CellsHeld
<1> HIDE DEF t
<1>6. t.op = todo[Len(todo)].op /\ t.slot = todo[Len(todo)].slot
  BY <1>5 DEF Top
<1>7. Typed(r2, td2) /\ Shape(r2, td2)
  BY <1>4, <1>5, <1>6, NewRootAux
<1>8. o2 \in HeapType
  BY <1>3, <1>4, FreshObject, HeapChanged
<1>9. ASSUME Lapses = {}
      PROVE  Kept(o2, r2, td2, None, from')
  BY <1>1, <1>3, <1>4, <1>5, <1>6, <1>9, FirstKept
<1> HIDE DEF r2, td2, o2
<1> QED BY <1>1, <1>2, <1>7, <1>8, <1>9 DEF GenCodeInv

\* PairFirst keeps the invariant.
LEMMA PairFirstStep ==
  ASSUME GenCodeInv, NEW h \in {obj, Swept}, NEW c \in Cell, Pair_first(h, c)
  PROVE  GenCodeInv'
BY FirstStep DEF Pair_first, Element, Evaluated

\* ConsFirst keeps the invariant.
LEMMA ConsFirstStep ==
  ASSUME GenCodeInv, NEW h \in {obj, Swept}, NEW c \in Cell, Cons_first(h, c)
  PROVE  GenCodeInv'
BY FirstStep DEF Cons_first, Evaluated

\* ConsNested keeps the invariant.
LEMMA ConsNestedStep ==
  ASSUME GenCodeInv, NEW h \in {obj, Swept}, NEW c \in Cell, Cons_nested(h, c)
  PROVE  GenCodeInv'
<1> DEFINE t == [Top EXCEPT !.regs = <<c>>]
           td2 == Append(SubSeq(todo, 1, Len(todo) - 1), t)
           o2 == [h EXCEPT ![c] = Fresh(val \in Pointer, val)]
<1>1. /\ MayCollect /\ h[c] = None /\ obj' = o2 /\ NoValue /\ roots' = roots /\ todo' = td2
      /\ todo # << >> /\ val # None /\ Top.op = "nested" /\ Top.regs = << >>
  BY DEF Cons_nested, GcNew, WithTop, Below, Evaluated
<1>2. val' = None /\ val' \in Value /\ from' \in Origin
  BY <1>1, NoneProduced
<1>3. h \in HeapType /\ (Lapses = {} => Kept(h, roots, todo, val, from))
  <2>1. ~AwaitsTail(Top)
    BY <1>1 DEF AwaitsTail
  <2> QED BY <1>1, <2>1, ReadyHeap
<1>4. val \in Pointer \cup {Scalar} /\ Typed(roots, todo) /\ Shape(roots, todo)
  BY <1>1 DEF GenCodeInv, Value
<1>5. t \in Constructs /\ t.op = Top.op /\ t.slot = Top.slot /\ t.regs = <<c>> /\ Registers(t)
  <2>1. <<c>> \in Seq(Pointer \cup {Scalar}) /\ Len(<<c>>) = 1 /\ <<c>>[1] = c
    BY DEF Pointer
  <2> HIDE DEF t
  <2> QED BY <1>1, <2>1, CellsHeld DEF t
<1> HIDE DEF t
<1>6. t.op = todo[Len(todo)].op /\ t.slot = todo[Len(todo)].slot /\ todo[Len(todo)].op = "nested"
  BY <1>1, <1>5 DEF Top
<1>7. Typed(roots, td2) /\ Shape(roots, td2)
  <2>1. roots \in Seq(Seq(Pointer)) /\ Extends(roots, roots)
    BY <1>4 DEF Typed, Extends
  <2> QED BY <1>1, <1>4, <1>5, <1>6, <2>1, ReplaceContinues
<1>8. o2 \in HeapType
  BY <1>3, <1>4, FreshObject, HeapChanged
<1>9. ASSUME Lapses = {}
      PROVE  Kept(o2, roots, td2, None, from')
  BY <1>1, <1>3, <1>4, <1>5, <1>6, <1>9, NestedKept
<1> HIDE DEF td2, o2
<1> QED BY <1>1, <1>2, <1>7, <1>8, <1>9 DEF GenCodeInv

\* PairNext keeps the invariant.
LEMMA PairNextStep ==
  ASSUME GenCodeInv, NEW h \in {obj, Swept}, NEW c \in Cell, Pair_next(h, c)
  PROVE  GenCodeInv'
<1> DEFINE s == [Top.regs EXCEPT ![2] = c]
           t == [Top EXCEPT !.regs = s]
           td2 == Append(SubSeq(todo, 1, Len(todo) - 1), t)
           b == todo[Len(todo)].regs[2]
           o1 == [h EXCEPT ![c] = Fresh(val \in Pointer, val)]
           o2 == [h EXCEPT ![c] = Fresh(val \in Pointer, val), ![b].cdr = c]
<1>1. /\ MayCollect /\ h[c] = None /\ h[b] # None /\ obj' = o2 /\ NoValue /\ roots' = roots /\ todo' = td2
      /\ todo # << >> /\ val # None /\ Top.op = "pair" /\ Top.regs # << >>
  BY DEF Pair_next, Element, WithTop, Below, Evaluated, Top
<1>2. val' = None /\ val' \in Value /\ from' \in Origin
  BY <1>1, NoneProduced
<1>3. h \in HeapType /\ (Lapses = {} => Kept(h, roots, todo, val, from))
  <2>1. ~AwaitsTail(Top)
    BY <1>1 DEF AwaitsTail
  <2> QED BY <1>1, <2>1, ReadyHeap
<1>4. val \in Pointer \cup {Scalar} /\ Typed(roots, todo) /\ Shape(roots, todo)
  BY <1>1 DEF GenCodeInv, Value
<1>5. Top.regs \in Seq(Pointer \cup {Scalar}) /\ Len(Top.regs) = 2 /\ Top.regs[1] \in Cell /\ b = Top.regs[2] /\ b \in Cell
  <2>1. Top \in Constructs /\ Registers(Top)
    BY <1>1, Innermost
  <2> QED BY <1>1, <2>1 DEF Constructs, Registers, Top
<1>6. s \in Seq(Pointer \cup {Scalar}) /\ Len(s) = 2 /\ s[1] \in Cell /\ s[2] \in Cell
  <2>1. c \in Pointer \cup {Scalar} /\ 2 \in 1 .. Len(Top.regs)
    BY <1>5 DEF Pointer
  <2> QED BY <1>5, <2>1, ExceptSeq
<1> HIDE DEF s
<1>7. t \in Constructs /\ t.op = Top.op /\ t.slot = Top.slot /\ t.regs = s /\ Registers(t)
  BY <1>1, <1>6, CellsHeld
<1> HIDE DEF t, b
<1>8. /\ t.op = todo[Len(todo)].op /\ t.slot = todo[Len(todo)].slot /\ todo[Len(todo)].op = "pair"
      /\ todo[Len(todo)].regs # << >> /\ t.regs = [todo[Len(todo)].regs EXCEPT ![2] = c]
      /\ b = todo[Len(todo)].regs[2]
  BY <1>1, <1>7 DEF Top, s, b
<1>9. Typed(roots, td2) /\ Shape(roots, td2)
  <2>1. roots \in Seq(Seq(Pointer)) /\ Extends(roots, roots)
    BY <1>4 DEF Typed, Extends
  <2> QED BY <1>1, <1>4, <1>7, <1>8, <2>1, ReplaceContinues
<1>10. o2 \in HeapType
  <2>1. o1 \in HeapType /\ o1[b] = h[b]
    BY <1>1, <1>3, <1>4, <1>5, FreshObject, HeapChanged DEF HeapType
  <2>2. c \in Pointer
    BY DEF Pointer
  <2>3. o2 = [o1 EXCEPT ![b].cdr = c]
    OBVIOUS
  <2> HIDE DEF o1, o2
  <2> QED BY <1>1, <1>5, <2>1, <2>2, <2>3, HeapChanged
<1>11. ASSUME Lapses = {}
       PROVE  Kept(o2, roots, td2, None, from')
  BY <1>1, <1>3, <1>4, <1>7, <1>8, <1>11, NextKept
<1> HIDE DEF td2, o2
<1> QED BY <1>1, <1>2, <1>9, <1>10, <1>11 DEF GenCodeInv

-------------------------------------------------------------------------------
(* The theorems.                                                           *)

\* The invariant holds before the first expression.
LEMMA GenCodeInit ==
  ASSUME Init
  PROVE  GenCodeInv
<1>1. obj \in HeapType /\ val = None /\ from \in Origin /\ todo = << >> /\ roots = << >>
  BY DEF Init, HeapType, Origin
<1>2. Len(<< >>) = 0 /\ << >> \in Seq(Constructs) /\ << >> \in Seq(Seq(Pointer)) /\ \A k \in 1 .. 0 : FALSE
  BY EmptySeq
<1>3. Typed(roots, todo) /\ Shape(roots, todo)
  BY <1>1, <1>2, BodyNoNone DEF Typed, Shape
<1>4. Kept(obj, roots, todo, val, from)
  <2>1. Alloc(obj) = {}
    BY DEF Init, Alloc
  <2>2. RootedIn(roots) = {}
    BY <1>1 DEF RootedIn
  <2>3. None \notin Cell
    BY WordAssumption
  <2>4. Sound(obj, roots, todo, val)
    BY <1>1, <1>2, <2>1, <2>2, <2>3 DEF Sound
  <2> QED BY <1>1, <1>2, <2>3, <2>4 DEF Kept, ValKept, Ends
<1> QED BY <1>1, <1>3, <1>4 DEF GenCodeInv, Value

\* Every step keeps it.
LEMMA GenCodeStep ==
  ASSUME GenCodeInv, [Next]_vars
  PROVE  GenCodeInv'
<1>1. CASE UNCHANGED vars
  BY <1>1 DEF GenCodeInv, vars
<1>2. CASE Start \/ Literal(Scalar) \/ Literal(Null)
  BY <1>2, StartStep, LiteralStep
<1>3. CASE \E op \in {"pair", "cons", "call", "load", "var", "seq"} : Enter(op)
  BY <1>3, EnterStep
<1>4. CASE EnterNested \/ EnterFor
  BY <1>4, EnterNestedStep, EnterForStep
<1>5. CASE \E s \in Named : \/ Identifier(s) \/ EnterAssign(s)
                            \/ \E c \in Cell : EnterStore(s, c)
  BY <1>5, IdentifierStep, EnterAssignStep, EnterStoreStep
<1>6. CASE \E h \in {obj, Swept}, c \in Cell :
             Pair_first(h, c) \/ Pair_next(h, c) \/ Cons_first(h, c) \/ Cons_nested(h, c)
  BY <1>6, PairFirstStep, PairNextStep, ConsFirstStep, ConsNestedStep
<1>7. CASE \E w \in Pointer \cup {Scalar} : Load(w)
  BY <1>7, LoadStep
<1>8. CASE Projected \/ \E c \in Cell : Projection(c) \/ Deeper(c)
  BY <1>8, ProjectedStep, ProjectionStep, DeeperStep
<1>9. CASE Pair_end \/ Cons_end \/ Argument \/ Invoke \/ Return
  BY <1>9, PairEndStep, ConsEndStep, ArgumentStep, InvokeStep, ReturnStep
<1>10. CASE Initialise \/ Assign \/ Store \/ Last \/ Discard \/ Iterate \/ Loop_end
  BY <1>10, InitialiseStep, AssignStep, StoreStep, LastStep, DiscardStep, IterateStep, LoopEndStep
<1> QED BY <1>1, <1>2, <1>3, <1>4, <1>5, <1>6, <1>7, <1>8, <1>9, <1>10 DEF Next

\* The inductive invariant holds in every state.
THEOREM GenCodeInvariant == Spec => []GenCodeInv
<1>1. Init => GenCodeInv
  BY GenCodeInit
<1>2. GenCodeInv /\ [Next]_vars => GenCodeInv'
  BY GenCodeStep
<1> QED BY <1>1, <1>2, PTL DEF Spec

\* Types, and as many frames on the shadow stack as functions that are running: each
\* gc_push of a prologue has its gc_pop (codegen.rs:1104-1181).
THEOREM GenCodeTypeCorrect == Spec => []TypeOK
<1>1. ASSUME GenCodeInv PROVE TypeOK
  <2>1. /\ obj \in [Cell -> Object \cup {None}] /\ roots \in Seq(Seq(Pointer)) /\ todo \in Seq(Constructs)
        /\ val \in Pointer \cup {Scalar, None} /\ from \in {"literal", "built", "read", "result"}
    BY <1>1 DEF GenCodeInv, HeapType, Value, Origin, Typed
  <2>2. Len(roots) = BodyNo(todo, Len(todo)) /\ DOMAIN todo = 1 .. Len(todo)
    BY <1>1, <2>1, LenProperties DEF GenCodeInv, Shape
  <2>3. Len(roots) = Cardinality({k \in DOMAIN todo : todo[k].op = "body"})
    BY <2>2 DEF BodyNo, Bodies
  <2> QED BY <2>1, <2>3 DEF TypeOK, Constructs
<1> QED BY <1>1, GenCodeInvariant, PTL

\* Whatever the code has in a register or a variable, or reaches from there, is not
\* given away by a collection, as long as the program avoids the three lapses
\* (codegen_pair, codegen_cons, calls; codegen.rs:320-569, 853-894).
THEOREM NothingLostCorrect == Spec => [](Lapses = {} => NothingLost)
<1>1. ASSUME GenCodeInv, Lapses = {} PROVE NothingLost
  <2>1. Sound(obj, roots, todo, val) /\ Typed(roots, todo)
    BY <1>1 DEF GenCodeInv, Kept
  <2>2. /\ DOMAIN todo = 1 .. Len(todo)
        /\ \A k \in 1 .. Len(todo) : DOMAIN todo[k].regs = 1 .. Len(todo[k].regs)
    <3>1. DOMAIN todo = 1 .. Len(todo) /\ \A k \in 1 .. Len(todo) : todo[k] \in Constructs
      BY <2>1, LenProperties, ElementOfSeq DEF Typed
    <3>2. \A k \in 1 .. Len(todo) : todo[k].regs \in Seq(Pointer \cup {Scalar})
      BY <3>1 DEF Constructs
    <3> QED BY <3>1, <3>2, LenProperties
  <2>3. InRegisters \subseteq Alloc(obj)
    BY <2>1, <2>2 DEF InRegisters, Sound
  <2>4. Rooted \subseteq Alloc(obj)
    BY <2>1, HeapOperators DEF Sound
  <2>5. Alloc(obj) \in SUBSET Cell /\ \A d \in Alloc(obj) : NamesIn(obj, d) \subseteq Alloc(obj)
    BY <2>1 DEF Sound, Alloc
  <2>6. Reach(InRegisters \cup Rooted) \subseteq Alloc(obj)
    BY <2>3, <2>4, <2>5, HeapOperators, ReachLeast
  <2> QED BY <2>6 DEF NothingLost, Alloc
<1>2. GenCodeInv => (Lapses = {} => NothingLost)
  BY <1>1
<1> QED BY <1>2, GenCodeInvariant, PTL
===============================================================================
