-------------------------- MODULE GenCodeListProofs --------------------------
(***************************************************************************)
(* The lists that generated code shows to its parts end (GenCode!ListsEnd).  *)
(*                                                                         *)
(* A cell is there before its cdr is stored.  A cell is shown when no cell     *)
(* without a cdr is found from it by cdrs; the others belong to literals and  *)
(* conses that are being made.  No value, no variable and no car has one of   *)
(* those, and a cdr is only ever stored into a cell that has none, a cell     *)
(* that cannot be found from the new cdr: so the cdrs make no circle.         *)
(***************************************************************************)
EXTENDS GenCodeProofs

\* The cells without a cdr, and those that lead to none.
Unlinked(o) == {c \in Alloc(o) : o[c].cdr = None}
Shown(o) == {c \in Alloc(o) : RowIn(o, c) \cap Unlinked(o) = {}}

\* What the program has: the value, registers of constructs that make nothing, and what
\* variables hold.
Values(r, td, v) ==
  {c \in Cell :
     \/ c = v
     \/ \E k \in 1 .. Len(td) : ~Making(td[k]) /\ \E j \in 1 .. Len(td[k].regs) : c = td[k].regs[j]
     \/ \E k \in 1 .. Len(td) : \E a \in Nat : Owns(td[k], a) /\ c = FrameAt(r, BodyNo(td, k))[a]}

Cars(o) == Cell \cap {o[c].car : c \in Alloc(o)}

\* No cdrs go round in a circle.
NoCircle(o) == \A S \in SUBSET Alloc(o) : S # {} => \E c \in S : o[c].cdr \notin S

Lists(o, r, td, v) == Values(r, td, v) \cup Cars(o) \subseteq Shown(o) /\ NoCircle(o)

ListInv == GenCodeInv /\ (Lapses = {} => Lists(obj, roots, todo, val))

-------------------------------------------------------------------------------
(* Rows and shown cells.                                                    *)

\* Shown cells show what comes after them.
LEMMA ShownClosed ==
  ASSUME NEW o, \A d \in Alloc(o) : NamesIn(o, d) \subseteq Alloc(o), NEW c \in Shown(o)
  PROVE  /\ RowIn(o, c) \subseteq Shown(o) /\ CdrIn(o, c) \subseteq Shown(o)
         /\ c \in Alloc(o) /\ o[c].cdr # None
<1>1. c \in Cell /\ c \in Alloc(o) /\ RowIn(o, c) \cap Unlinked(o) = {}
  BY DEF Shown, Alloc
<1>2. /\ c \in RowIn(o, c) /\ RowIn(o, c) \subseteq Cell
      /\ \A d \in RowIn(o, c) : CdrIn(o, d) \subseteq RowIn(o, c)
  BY <1>1, RowClosed
<1>3. \A d : CdrIn(o, d) \subseteq NamesIn(o, d)
  BY DEF CdrIn, NamesIn
<1>4. RowIn(o, c) \subseteq Alloc(o)
  <2>1. Alloc(o) \in SUBSET Cell /\ \A d \in Alloc(o) : CdrIn(o, d) \subseteq Alloc(o)
    BY <1>3 DEF Alloc
  <2> QED BY <1>1, <2>1, RowLeast
<1>5. ASSUME NEW d \in RowIn(o, c)
      PROVE  d \in Shown(o)
  <2>1. RowIn(o, d) \subseteq RowIn(o, c)
    BY <1>2, RowLeast
  <2> QED BY <1>1, <1>4, <2>1 DEF Shown
<1>6. o[c].cdr # None
  BY <1>1, <1>2 DEF Unlinked
<1> QED BY <1>1, <1>2, <1>5, <1>6

\* A cell stays shown when nothing in its row loses its cdr or gets another.
LEMMA ShownKept ==
  ASSUME NEW o, NEW o2, NEW c \in Shown(o), c \in Alloc(o2),
         \A d \in RowIn(o, c) : CdrIn(o2, d) \subseteq CdrIn(o, d) /\ (d \in Unlinked(o2) => d \in Unlinked(o))
  PROVE  c \in Shown(o2)
<1>1. c \in Cell /\ RowIn(o, c) \cap Unlinked(o) = {}
  BY DEF Shown, Alloc
<1>2. /\ c \in RowIn(o, c) /\ RowIn(o, c) \in SUBSET Cell
      /\ \A d \in RowIn(o, c) : CdrIn(o2, d) \subseteq RowIn(o, c)
  BY <1>1, RowClosed
<1>3. RowIn(o2, c) \subseteq RowIn(o, c)
  BY <1>2, RowLeast
<1> QED BY <1>1, <1>3 DEF Shown

\* Of two cells of a row one leads to the other.
LEMMA RowLinear ==
  ASSUME NEW o,
         NEW p \in Cell, NEW d \in RowIn(o, p), NEW e \in RowIn(o, p)
  PROVE  d \in RowIn(o, e) \/ e \in RowIn(o, d)
<1> DEFINE S == {x \in Cell : d \in RowIn(o, x)} \cup RowIn(o, d)
<1>1. d \in Cell /\ \A x : CdrIn(o, x) \subseteq Cell
  BY RowClosed DEF CdrIn
<1>2. S \in SUBSET Cell /\ p \in S
  BY <1>1, RowClosed
<1>3. ASSUME NEW x \in S
      PROVE  CdrIn(o, x) \subseteq S
  <2>1. CASE x \in RowIn(o, d)
    BY <1>1, <2>1, RowClosed
  <2>2. CASE x \in Cell /\ d \in RowIn(o, x) /\ x = d
    BY <1>1, <2>2, RowClosed
  <2>3. CASE x \in Cell /\ d \in RowIn(o, x) /\ x # d
    <3> SUFFICES ASSUME NEW y \in CdrIn(o, x)
                 PROVE  d \in RowIn(o, y)
      BY <1>1
    <3> DEFINE T == {x} \cup RowIn(o, y)
    <3>1. y \in Cell /\ CdrIn(o, x) = {y}
      BY <1>1 DEF CdrIn
    <3>2. T \in SUBSET Cell /\ x \in T /\ \A z \in T : CdrIn(o, z) \subseteq T
      BY <2>3, <3>1, RowClosed
    <3>3. RowIn(o, x) \subseteq T
      <4> HIDE DEF T
      <4> QED BY <2>3, <3>2, RowLeast
    <3> QED BY <2>3, <3>3
  <2> QED BY <2>1, <2>2, <2>3
<1>4. S \in SUBSET Cell /\ p \in S /\ \A x \in S : CdrIn(o, x) \subseteq S
  BY <1>2, <1>3
<1>5. RowIn(o, p) \subseteq S
  <2> HIDE DEF S
  <2> QED BY <1>4, RowLeast
<1> QED BY <1>5

\* A cell without a cdr is a row of its own.
LEMMA RowOfUnlinked ==
  ASSUME NEW o, NEW c \in Unlinked(o)
  PROVE  RowIn(o, c) = {c}
<1>1. c \in Cell /\ CdrIn(o, c) = {}
  BY WordAssumption DEF Unlinked, Alloc, CdrIn
<1>2. RowIn(o, c) \subseteq {c}
  <2>1. c \in {c} /\ {c} \in SUBSET Cell /\ \A d \in {c} : CdrIn(o, d) \subseteq {c}
    BY <1>1
  <2> QED BY <2>1, RowLeast
<1> QED BY <1>1, <1>2, RowClosed

-------------------------------------------------------------------------------
(* What the steps do to the heap.                                           *)

Sane(o) == \A d \in Alloc(o) : NamesIn(o, d) \subseteq Alloc(o) /\ (o[d].is_pointer <=> o[d].car \in Pointer)

\* What a collection leaves is shown as before.
LEMMA ShownSwept ==
  ASSUME NEW o, NEW h, Sane(o), Sane(h), \A d \in Alloc(h) : h[d] = o[d], NoCircle(o)
  PROVE  /\ Shown(o) \cap Alloc(h) \subseteq Shown(h) /\ NoCircle(h) /\ Cars(h) \subseteq Cars(o) \cap Alloc(h)
<1>1. Alloc(h) \subseteq Alloc(o)
  BY DEF Alloc
<1>2. \A d \in Cell : CdrIn(h, d) \subseteq CdrIn(o, d) /\ (d \in Unlinked(h) => d \in Unlinked(o))
  BY <1>1 DEF CdrIn, Unlinked, Alloc
<1>3. ASSUME NEW c \in Shown(o), c \in Alloc(h)
      PROVE  c \in Shown(h)
  <2>1. RowIn(o, c) \subseteq Cell
    BY <1>3, RowClosed DEF Alloc
  <2> QED BY <1>2, <1>3, <2>1, ShownKept
<1>4. NoCircle(h)
  BY <1>1 DEF NoCircle
<1>5. ASSUME NEW c \in Alloc(h), h[c].car \in Cell
      PROVE  h[c].car \in Cars(o) \cap Alloc(h)
  <2>1. h[c].car \in NamesIn(h, c)
    BY <1>5 DEF Sane, NamesIn, Alloc, Pointer
  <2>2. h[c].car \in Alloc(h)
    BY <2>1 DEF Sane
  <2> QED BY <1>1, <1>5, <2>2 DEF Cars
<1> QED BY <1>3, <1>4, <1>5 DEF Cars

\* A new cell is shown by nothing, and shows nothing.
LEMMA ShownNew ==
  ASSUME NEW h, Sane(h), NEW c \in Cell, h[c] = None, NEW o2, o2[c] # None, o2[c].cdr = None,
         Alloc(o2) = Alloc(h) \cup {c}, \A d \in Alloc(h) : o2[d] = h[d], NoCircle(h)
  PROVE  /\ Shown(h) \subseteq Shown(o2) /\ NoCircle(o2)
         /\ Cars(o2) \subseteq Cars(h) \cup {o2[c].car}
<1>1. c \notin Alloc(h) /\ None \notin Cell
  BY WordAssumption DEF Alloc
<1>2. ASSUME NEW x \in Shown(h)
      PROVE  x \in Shown(o2)
  <2>1. RowIn(h, x) \subseteq Shown(h) /\ x \in Alloc(h)
    BY ShownClosed DEF Sane
  <2>2. \A d \in RowIn(h, x) : d \in Alloc(h)
    BY <2>1 DEF Shown
  <2>3. \A d \in RowIn(h, x) : CdrIn(o2, d) \subseteq CdrIn(h, d) /\ (d \in Unlinked(o2) => d \in Unlinked(h))
    BY <2>2 DEF CdrIn, Unlinked, Alloc
  <2> QED BY <2>1, <2>3, ShownKept
<1>3. ASSUME NEW S \in SUBSET Alloc(o2), S # {}
      PROVE  \E d \in S : o2[d].cdr \notin S
  <2>1. CASE c \in S
    <3>1. o2[c].cdr \notin S
      BY <1>1 DEF Alloc
    <3> QED BY <2>1, <3>1
  <2>2. CASE c \notin S
    <3>1. S \in SUBSET Alloc(h)
      BY <2>2
    <3>2. PICK d \in S : h[d].cdr \notin S
      BY <1>3, <3>1 DEF NoCircle
    <3> QED BY <3>1, <3>2
  <2> QED BY <2>1, <2>2
<1> QED BY <1>2, <1>3 DEF NoCircle, Cars

\* The cell last gets the cdr w, from which it was not found: w shows a list, or is the
\* cell just made, or null.
LEMMA ShownLinked ==
  ASSUME NEW o, Sane(o), NEW last \in Unlinked(o), NEW w \in Pointer, w \in Cell => last \notin RowIn(o, w),
         NEW o2, Alloc(o2) = Alloc(o), o2[last].cdr = w, o2[last].car = o[last].car,
         \A d \in Alloc(o) : d # last => o2[d] = o[d], NoCircle(o)
  PROVE  /\ Shown(o) \subseteq Shown(o2) /\ NoCircle(o2) /\ Cars(o2) = Cars(o)
         /\ Unlinked(o2) = Unlinked(o) \ {last}
         /\ \A d \in Alloc(o) : d # last => CdrIn(o2, d) = CdrIn(o, d)
         /\ CdrIn(o2, last) = Cell \cap {w}
<1>1. last \in Alloc(o) /\ last \in Cell /\ o[last] # None /\ o2[last] # None /\ w # None
  BY WordAssumption DEF Unlinked, Alloc, Pointer
<1>2. \A d \in Alloc(o) : d # last => CdrIn(o2, d) = CdrIn(o, d)
  BY DEF CdrIn
<1>3. CdrIn(o2, last) = Cell \cap {w}
  BY <1>1 DEF CdrIn
<1>4. Unlinked(o2) = Unlinked(o) \ {last}
  BY <1>1 DEF Unlinked
<1>5. ASSUME NEW x \in Shown(o)
      PROVE  x \in Shown(o2)
  <2>1. RowIn(o, x) \subseteq Shown(o) /\ x \in Alloc(o) /\ last \notin RowIn(o, x)
    BY ShownClosed DEF Sane, Shown
  <2>2. \A d \in RowIn(o, x) : d \in Alloc(o) /\ d # last
    BY <2>1 DEF Shown
  <2>3. \A d \in RowIn(o, x) : CdrIn(o2, d) \subseteq CdrIn(o, d) /\ (d \in Unlinked(o2) => d \in Unlinked(o))
    BY <1>2, <1>4, <2>2
  <2> QED BY <2>1, <2>3, ShownKept
<1>6. ASSUME NEW S \in SUBSET Alloc(o2), \A d \in S : o2[d].cdr \in S
      PROVE  S = {}
  <2>1. CASE last \notin S
    <3>1. S \in SUBSET Alloc(o) /\ \A d \in S : o[d].cdr \in S
      BY <1>6, <2>1
    <3> QED BY <3>1 DEF NoCircle
  <2>2. CASE last \in S
    <3>1. w \in S /\ w \in Cell
      BY <1>6, <2>2 DEF Alloc
    <3> DEFINE T == S \cap RowIn(o, w)
    <3>2. /\ w \in RowIn(o, w) /\ \A d \in RowIn(o, w) : CdrIn(o, d) \subseteq RowIn(o, w)
      BY <3>1, RowClosed
    <3>3. ASSUME NEW d \in T
          PROVE  o[d].cdr \in T
      <4>1. d # last /\ d \in Alloc(o)
        BY <3>1
      <4>2. o[d].cdr \in S
        BY <1>6, <4>1
      <4>3. o[d].cdr \in CdrIn(o, d)
        BY <4>1, <4>2 DEF CdrIn, Alloc
      <4> QED BY <3>2, <4>2, <4>3
    <3>4. T \in SUBSET Alloc(o) /\ T # {}
      BY <3>1, <3>2
    <3> QED BY <3>3, <3>4 DEF NoCircle
  <2> QED BY <2>1, <2>2
<1>7. NoCircle(o2)
  BY <1>6 DEF NoCircle
<1>8. Cars(o2) = Cars(o)
  <2>1. \A d \in Alloc(o) : o2[d].car = o[d].car
    OBVIOUS
  <2> QED BY <2>1 DEF Cars
<1> QED BY <1>2, <1>3, <1>4, <1>5, <1>7, <1>8

\* The end of a literal: its first cell is shown.
LEMMA LiteralShown ==
  ASSUME NEW o, Sane(o), NEW last \in Unlinked(o), NEW p \in Alloc(o), last \in RowIn(o, p),
         NEW o2, Alloc(o2) = Alloc(o), o2[last].cdr = Null, \A d \in Alloc(o) : d # last => o2[d] = o[d]
  PROVE  p \in Shown(o2)
<1>1. last \in Alloc(o) /\ p \in Cell /\ Null \notin Cell /\ Null # None
  BY WordAssumption DEF Unlinked, Alloc
<1>2. /\ RowIn(o, p) \in SUBSET Cell /\ p \in RowIn(o, p)
      /\ \A d \in RowIn(o, p) : CdrIn(o, d) \subseteq RowIn(o, p)
  BY <1>1, RowClosed
<1>3. \A d \in Cell : CdrIn(o2, d) \subseteq CdrIn(o, d)
  BY <1>1 DEF CdrIn, Alloc
<1>4. RowIn(o2, p) \subseteq RowIn(o, p)
  BY <1>2, <1>3, RowLeast
<1>5. ASSUME NEW d \in RowIn(o2, p), d \in Unlinked(o2)
      PROVE  FALSE
  <2>1. d # last /\ d \in Unlinked(o) /\ d \in RowIn(o, p)
    BY <1>1, <1>4, <1>5 DEF Unlinked
  <2>2. RowIn(o, d) = {d} /\ RowIn(o, last) = {last}
    BY <2>1, RowOfUnlinked
  <2> QED BY <1>1, <2>1, <2>2, RowLinear
<1> QED BY <1>5 DEF Shown

\* The end of a cons: its cell is shown, as its tail is.
LEMMA ConsShown ==
  ASSUME NEW o, Sane(o), NEW last \in Unlinked(o), NEW w \in Pointer, w \in Cell => w \in Shown(o),
         NEW o2, Alloc(o2) = Alloc(o), o2[last].cdr = w, \A d \in Alloc(o) : d # last => o2[d] = o[d]
  PROVE  last \in Shown(o2)
<1>1. last \in Alloc(o) /\ last \in Cell /\ w # None /\ o2[last] # None
  BY WordAssumption DEF Unlinked, Alloc, Pointer
<1> DEFINE S == {last} \cup Shown(o)
<1>2. S \in SUBSET Cell /\ last \notin Shown(o)
  <2>1. last \notin Shown(o)
    BY ShownClosed DEF Sane, Unlinked
  <2> QED BY <1>1, <2>1 DEF Shown, Alloc
<1>3. ASSUME NEW d \in S
      PROVE  CdrIn(o2, d) \subseteq S /\ d \notin Unlinked(o2)
  <2>1. CASE d = last
    BY <1>1, <2>1 DEF CdrIn, Unlinked
  <2>2. CASE d \in Shown(o)
    <3>1. CdrIn(o, d) \subseteq Shown(o) /\ d \in Alloc(o) /\ o[d].cdr # None
      BY <2>2, ShownClosed DEF Sane
    <3>2. o2[d] = o[d]
      BY <1>2, <2>2, <3>1
    <3> QED BY <3>1, <3>2 DEF CdrIn, Unlinked
  <2> QED BY <2>1, <2>2
<1>4. RowIn(o2, last) \subseteq S
  BY <1>2, <1>3, RowLeast
<1> QED BY <1>1, <1>3, <1>4 DEF Shown

\* A field gets another word: no cdr changes.
LEMMA ShownStored ==
  ASSUME NEW o, NEW o2, Alloc(o2) = Alloc(o), \A d \in Alloc(o) : o2[d].cdr = o[d].cdr,
         NEW a, NEW v, \A d \in Alloc(o) : d # a => o2[d].car = o[d].car, a \in Alloc(o) => o2[a].car = v,
         NoCircle(o)
  PROVE  Shown(o2) = Shown(o) /\ NoCircle(o2) /\ Cars(o2) \subseteq Cars(o) \cup {v}
<1>1. \A d \in Cell : CdrIn(o2, d) = CdrIn(o, d)
  BY DEF CdrIn, Alloc
<1>2. Unlinked(o2) = Unlinked(o)
  BY DEF Unlinked
<1>3. \A p : RowIn(o2, p) = RowIn(o, p)
  BY <1>1 DEF RowIn
<1>4. NoCircle(o2)
  BY DEF NoCircle
<1> QED BY <1>2, <1>3, <1>4 DEF Shown, Cars

-------------------------------------------------------------------------------
(* What the program has after a step.                                       *)

\* What the constructs beyond m have is in S.
Within(S, r, td, m) ==
  \A k \in m + 1 .. Len(td) :
    /\ ~Making(td[k]) => \A j \in 1 .. Len(td[k].regs) : td[k].regs[j] \in Cell => td[k].regs[j] \in S
    /\ \A a \in Nat : Owns(td[k], a) /\ FrameAt(r, BodyNo(td, k))[a] \in Cell
                        => FrameAt(r, BodyNo(td, k))[a] \in S

\* Constructs up to m stay, with what their variables hold; the others have shown cells.
LEMMA ValuesContinue ==
  ASSUME NEW r, NEW td, Typed(r, td), Shape(r, td), NEW r2, NEW td2, Typed(r2, td2), NEW m,
         Continues(r, td, r2, td2, m), \A k \in 1 .. m : td2[k] = td[k],
         NEW v, NEW v2, NEW S, Values(r, td, v) \subseteq S, v2 \in Cell => v2 \in S, Within(S, r2, td2, m)
  PROVE  Values(r2, td2, v2) \subseteq S
<1>1. /\ m \in Nat /\ Len(td) \in Nat /\ Len(td2) \in Nat /\ m <= Len(td) /\ m <= Len(td2)
      /\ Carries(r, td, r2, td2, m)
  BY LenProperties DEF Typed, Continues, SameUpTo
<1>2. \A k \in 1 .. m : k \in 1 .. Len(td) /\ k \in Nat
  BY <1>1
<1>3. \A k \in 1 .. Len(td2) : k \in 1 .. m \/ k \in m + 1 .. Len(td2)
  BY <1>1
<1>4. ASSUME NEW k \in 1 .. m, NEW a \in Nat, Owns(td2[k], a), FrameAt(r2, BodyNo(td2, k))[a] \in Cell
      PROVE  FrameAt(r2, BodyNo(td2, k))[a] \in S
  <2> DEFINE i == BodyNo(td, k)
  <2>1. BodyNo(td2, k) = i
    <3>1. \A l \in 1 .. k : td2[l].op = td[l].op
      BY <1>1
    <3> QED BY <1>2, <3>1, BodyNoSame
  <2>2. Owns(td[k], a)
    BY <1>4
  <2>3. KeptSlot(r, td, k, i, a)
    BY <1>2, <2>2, OwnedKept
  <2>4. KeptSlot(r, td, m, i, a)
    <3>1. BodyNo(td, k) <= BodyNo(td, m) /\ BodyNo(td, k) \in Nat /\ BodyNo(td, m) \in Nat
      BY <1>1, <1>2, BodyNoGrows, BodyNoType
    <3>2. i \in 1 .. BodyNo(td, m)
      BY <2>3, <3>1 DEF KeptSlot
    <3>3. \A l \in m + 1 .. Len(td) : l \in k + 1 .. Len(td)
      BY <1>1
    <3> QED BY <2>3, <3>2, <3>3 DEF KeptSlot
  <2>5. FrameAt(r2, i)[a] = FrameAt(r, i)[a]
    BY <1>1, <2>4 DEF Carries
  <2>6. FrameAt(r, i)[a] \in Values(r, td, v)
    BY <1>2, <1>4, <2>1, <2>2, <2>5 DEF Values
  <2> QED BY <2>1, <2>5, <2>6
<1>5. ASSUME NEW k \in 1 .. m, ~Making(td2[k]), NEW j \in 1 .. Len(td2[k].regs), td2[k].regs[j] \in Cell
      PROVE  td2[k].regs[j] \in S
  <2>1. td2[k].regs[j] \in Values(r, td, v)
    BY <1>2, <1>5 DEF Values
  <2> QED BY <2>1
<1> QED BY <1>3, <1>4, <1>5 DEF Values, Within

\* What is shown now.
LEMMA ShownNow ==
  ASSUME ListInv, Lapses = {}
  PROVE  /\ Sane(obj) /\ NoCircle(obj) /\ Typed(roots, todo) /\ Shape(roots, todo)
         /\ Values(roots, todo, val) \subseteq Shown(obj) /\ Cars(obj) \subseteq Shown(obj)
         /\ val \in Cell => val \in Shown(obj)
         /\ \A c \in Shown(obj) : /\ c \in Alloc(obj) /\ obj[c].cdr # None /\ RowIn(obj, c) \subseteq Shown(obj)
                                  /\ obj[c].car \in Cell => obj[c].car \in Shown(obj)
                                  /\ obj[c].cdr \in Cell => obj[c].cdr \in Shown(obj)
         /\ todo # << >> /\ ~Making(Top) =>
              \A j \in 1 .. Len(Top.regs) : Top.regs[j] \in Cell => Top.regs[j] \in Shown(obj)
<1>1. /\ Typed(roots, todo) /\ Shape(roots, todo) /\ Lists(obj, roots, todo, val)
      /\ Sound(obj, roots, todo, val)
  BY DEF ListInv, GenCodeInv, Kept
<1>2. Sane(obj)
  BY <1>1 DEF Sound, Sane
<1>3. Values(roots, todo, val) \subseteq Shown(obj) /\ Cars(obj) \subseteq Shown(obj) /\ NoCircle(obj)
  BY <1>1 DEF Lists
<1>4. val \in Cell => val \in Shown(obj)
  BY <1>3 DEF Values
<1>5. ASSUME NEW c \in Shown(obj)
      PROVE  /\ c \in Alloc(obj) /\ obj[c].cdr # None /\ RowIn(obj, c) \subseteq Shown(obj)
             /\ obj[c].car \in Cell => obj[c].car \in Shown(obj)
             /\ obj[c].cdr \in Cell => obj[c].cdr \in Shown(obj)
  <2>1. /\ c \in Alloc(obj) /\ obj[c].cdr # None /\ RowIn(obj, c) \subseteq Shown(obj)
        /\ CdrIn(obj, c) \subseteq Shown(obj)
    BY <1>2, ShownClosed DEF Sane
  <2>2. obj[c].car \in Cell => obj[c].car \in Cars(obj)
    BY <2>1 DEF Cars
  <2>3. obj[c].cdr \in Cell => obj[c].cdr \in CdrIn(obj, c)
    BY <2>1 DEF CdrIn, Alloc
  <2> QED BY <1>3, <2>1, <2>2, <2>3
<1>6. ASSUME todo # << >>, ~Making(Top), NEW j \in 1 .. Len(Top.regs), Top.regs[j] \in Cell
      PROVE  Top.regs[j] \in Shown(obj)
  <2>1. Len(todo) \in 1 .. Len(todo)
    BY <1>6, Innermost DEF ListInv
  <2>2. Top.regs[j] \in Values(roots, todo, val)
    BY <1>6, <2>1 DEF Values, Top
  <2> QED BY <1>3, <2>2
<1> QED BY <1>1, <1>2, <1>3, <1>4, <1>5, <1>6

\* A variable that a name finds holds a shown cell, or null.
LEMMA VariableShown ==
  ASSUME ListInv, Lapses = {}, todo # << >>, NEW s \in Named, Frame[s] \in Cell
  PROVE  Frame[s] \in Shown(obj)
<1>1. PICK l \in 1 .. Len(todo) : BodyNo(todo, l) = Len(roots) /\ Owns(todo[l], s)
  BY NamedOwned DEF ListInv
<1>2. s \in Nat /\ FrameAt(roots, Len(roots)) = Frame
  BY NamedOwned, Innermost DEF ListInv
<1>3. Frame[s] \in Values(roots, todo, val)
  BY <1>1, <1>2 DEF Values
<1> QED BY <1>3, ShownNow

\* The heap is the same, or shows what it showed.
LEMMA ListsContinue ==
  ASSUME ListInv, Lapses = {}, GenCodeInv', NEW m, Continues(roots, todo, roots', todo', m),
         \A k \in 1 .. m : todo'[k] = todo[k],
         Shown(obj) \cap Values(roots, todo, val) \subseteq Shown(obj'), NoCircle(obj'), Cars(obj') \subseteq Shown(obj'),
         val' \in Cell => val' \in Shown(obj'), Within(Shown(obj'), roots', todo', m)
  PROVE  ListInv'
<1>1. Typed(roots, todo) /\ Shape(roots, todo) /\ Values(roots, todo, val) \subseteq Shown(obj)
  BY ShownNow
<1>2. Typed(roots', todo')
  BY DEF GenCodeInv
<1>3. Values(roots, todo, val) \subseteq Shown(obj')
  BY <1>1
<1>4. Values(roots', todo', val') \subseteq Shown(obj')
  <2> DEFINE r2 == roots'
             td2 == todo'
             v2 == val'
             S == Shown(obj')
  <2>1. Typed(roots, todo) /\ Shape(roots, todo) /\ Typed(r2, td2) /\ Continues(roots, todo, r2, td2, m)
    BY <1>1, <1>2
  <2>2. Values(roots, todo, val) \subseteq S /\ (v2 \in Cell => v2 \in S) /\ Within(S, r2, td2, m)
    BY <1>3
  <2>3. \A k \in 1 .. m : td2[k] = todo[k]
    OBVIOUS
  <2> HIDE DEF r2, td2, v2, S
  <2>4. Values(r2, td2, v2) \subseteq S
    BY <2>1, <2>2, <2>3, ValuesContinue
  <2> QED BY <2>4 DEF r2, td2, v2, S
<1> QED BY <1>4 DEF ListInv, Lists

\* A step that leaves the heap alone keeps what is shown, if what it has was had.
LEMMA SameHeapLists ==
  ASSUME ListInv, Lapses = {}, GenCodeInv', obj' = obj, NEW m, Continues(roots, todo, roots', todo', m),
         \A k \in 1 .. m : todo'[k] = todo[k],
         val' \in Cell => val' \in Shown(obj), Within(Shown(obj), roots', todo', m)
  PROVE  ListInv'
<1>1. NoCircle(obj) /\ Cars(obj) \subseteq Shown(obj)
  BY ShownNow
<1> QED BY <1>1, ListsContinue

\* No construct is beyond the last.
LEMMA WithinNone ==
  ASSUME NEW S, NEW r, NEW td, NEW m \in Nat, Len(td) = m
  PROVE  Within(S, r, td, m)
BY DEF Within

\* One is: it has no variable, and shown cells in its registers.
LEMMA WithinTop ==
  ASSUME NEW S, NEW r, NEW td, NEW m \in Nat, Len(td) = m + 1, td[m + 1].op \notin {"body", "in"},
         Making(td[m + 1]) \/
           \A j \in 1 .. Len(td[m + 1].regs) : td[m + 1].regs[j] \in Cell => td[m + 1].regs[j] \in S
  PROVE  Within(S, r, td, m)
<1>1. \A k \in m + 1 .. Len(td) : k = m + 1
  OBVIOUS
<1> QED BY <1>1 DEF Within, Owns

\* The constructs continue when nothing changes.
LEMMA ContinuesSelf ==
  ASSUME NEW r, NEW td, Len(td) \in Nat
  PROVE  Continues(r, td, r, td, Len(td))
BY DEF Continues, SameUpTo, Carries, NoNewNames

\* Only the value changes.
LEMMA ValueLists ==
  ASSUME ListInv, Lapses = {}, GenCodeInv', UNCHANGED <<obj, roots, todo>>,
         val' \in Cell => val' \in Shown(obj)
  PROVE  ListInv'
<1>1. Typed(roots, todo)
  BY ShownNow
<1>2. Len(todo) \in Nat
  BY <1>1, LenProperties DEF Typed
<1> DEFINE m == Len(todo)
<1>3. Continues(roots, todo, roots, todo, m) /\ Within(Shown(obj), roots, todo, m)
  BY <1>2, ContinuesSelf, WithinNone
<1> HIDE DEF m
<1> QED BY <1>3, SameHeapLists

\* The innermost construct is left.
LEMMA LeaveLists ==
  ASSUME ListInv, Lapses = {}, GenCodeInv', todo # << >>, Top.op # "body", UNCHANGED <<obj, roots>>, todo' = Below,
         val' \in Cell => val' \in Shown(obj)
  PROVE  ListInv'
<1> DEFINE m == Len(todo) - 1
           td2 == SubSeq(todo, 1, Len(todo) - 1)
<1>1. Typed(roots, todo) /\ Shape(roots, todo) /\ todo[Len(todo)].op # "body" /\ Len(todo) \in Nat
  BY ShownNow, Innermost DEF Top, ListInv
<1>2. Continues(roots, todo, roots, td2, m) /\ Len(td2) = m /\ m \in Nat /\ \A k \in 1 .. m : td2[k] = todo[k]
  BY <1>1, PopContinues
<1>3. todo' = td2
  BY DEF Below
<1> HIDE DEF m, td2
<1>4. Within(Shown(obj), roots, td2, m)
  BY <1>2, WithinNone
<1> QED BY <1>2, <1>3, <1>4, SameHeapLists

\* A construct is entered.
LEMMA OpenLists ==
  ASSUME ListInv, Lapses = {}, GenCodeInv', NEW t \in Constructs, Open(t), t.op \notin {"body", "in"},
         t.op = "for" => t.slot = Len(roots[1]),
         t.op = "nested" => AwaitsTail(todo[Len(todo)]),
         t.op = "assign" => \E l \in 1 .. Len(todo) : BodyNo(todo, l) = Len(roots) /\ Owns(todo[l], t.slot),
         Registers(t), \A j \in 1 .. Len(t.regs) : t.regs[j] \in Cell => t.regs[j] \in Shown(obj)
  PROVE  ListInv'
<1> DEFINE m == Len(todo)
           td2 == Append(todo, t)
<1>1. Typed(roots, todo) /\ Shape(roots, todo) /\ todo # << >> /\ td2 = todo' /\ UNCHANGED <<obj, roots, val>> /\ val = None
  BY ShownNow DEF Open, Evaluate
<1>2. m \in Nat
  BY <1>1, Numbers
<1>3. /\ Continues(roots, todo, roots, td2, m) /\ Len(td2) = m + 1 /\ td2[m + 1] = t
      /\ \A k \in 1 .. m : td2[k] = todo[k]
  <2>1. Continues(roots, todo, roots, td2, m)
    BY <1>1, PushContinues
  <2>2. Len(td2) = m + 1 /\ td2[m + 1] = t /\ \A k \in 1 .. m : td2[k] = todo[k]
    <3>1. todo \in Seq(Constructs)
      BY <1>1 DEF Typed
    <3> QED BY <3>1, AppendProperties
  <2> QED BY <2>1, <2>2
<1> HIDE DEF m, td2
<1>4. Within(Shown(obj), roots, td2, m)
  BY <1>2, <1>3, WithinTop
<1>5. None \notin Cell
  BY WordAssumption
<1> QED BY <1>1, <1>3, <1>4, <1>5, SameHeapLists

\* The innermost construct goes on.
LEMMA GoOnLists ==
  ASSUME ListInv, Lapses = {}, GenCodeInv', todo # << >>, UNCHANGED <<obj, roots>>, val' = None,
         NEW t \in Constructs, todo' = WithTop(t), t.op = Top.op, t.op \notin {"body", "in"}, t.slot = Top.slot, Registers(t),
         \A j \in 1 .. Len(t.regs) : t.regs[j] \in Cell => t.regs[j] \in Shown(obj)
  PROVE  ListInv'
<1> DEFINE n == Len(todo)
           td2 == Append(SubSeq(todo, 1, Len(todo) - 1), t)
<1>1. Typed(roots, todo) /\ Shape(roots, todo) /\ n \in Nat /\ n >= 1
  BY ShownNow, Numbers
<1>2. Continues(roots, todo, roots, td2, n) /\ Len(td2) = n /\ td2[n] = t /\ \A k \in 1 .. n - 1 : td2[k] = todo[k]
  <2>1. roots \in Seq(Seq(Pointer)) /\ Extends(roots, roots)
    BY <1>1 DEF Typed, Extends
  <2> QED BY <1>1, <2>1, ReplaceContinues DEF Top
<1>3. todo' = td2
  BY DEF WithTop, Below
<1> HIDE DEF td2
<1> DEFINE m == n - 1
<1>4. m \in Nat /\ n = m + 1 /\ m \in 0 .. n
  BY <1>1
<1>5. Continues(roots, todo, roots, td2, m)
  <2>1. Len(todo) \in Nat /\ Len(td2) \in Nat
    BY <1>1, <1>2
  <2> QED BY <1>2, <1>4, <2>1, ContinuesBelow
<1>6. \A k \in 1 .. m : td2[k] = todo[k]
  BY <1>2
<1> HIDE DEF m, n
<1>7. Len(td2) = m + 1 /\ td2[m + 1] = t
  BY <1>2, <1>4
<1>8. Within(Shown(obj), roots, td2, m)
  BY <1>4, <1>7, WithinTop
<1>9. None \notin Cell
  BY WordAssumption
<1> QED BY <1>3, <1>5, <1>6, <1>8, <1>9, SameHeapLists

-------------------------------------------------------------------------------
(* The steps that leave the heap as it is.                                  *)

\* The anonymous function of a top-level expression has no variables.
LEMMA StartLists ==
  ASSUME ListInv, Lapses = {}, GenCodeInv', Start
  PROVE  ListInv'
<1> DEFINE t == Construct("body", 0)
           td2 == <<t>>
<1>1. todo = << >> /\ todo' = td2 /\ obj' = obj /\ val' = val
  BY DEF Start
<1>2. val = None
  BY <1>1 DEF ListInv, GenCodeInv, Kept, ValKept
<1>3. t.op = "body" /\ t.slot = 0 /\ t.regs = << >>
  BY DEF Construct
<1> HIDE DEF t
<1>4. Len(td2) = 1 /\ td2[1] = t
  OBVIOUS
<1> HIDE DEF td2
<1>5. \A k \in 1 .. Len(td2) : td2[k] = t
  BY <1>4
<1>6. \A a \in Nat : ~Owns(t, a)
  BY <1>3 DEF Owns
<1>7. \A j \in 1 .. Len(t.regs) : FALSE
  BY <1>3
<1>8. None \notin Cell
  BY WordAssumption
<1>9. Values(roots', td2, None) = {}
  BY <1>5, <1>6, <1>7, <1>8 DEF Values
<1>10. Lists(obj, roots', td2, None)
  BY <1>9, ShownNow DEF Lists
<1> QED BY <1>1, <1>2, <1>10 DEF ListInv

\* A number is evaluated.
LEMMA LiteralLists ==
  ASSUME ListInv, Lapses = {}, GenCodeInv', NEW v \in {Scalar, Null}, Literal(v)
  PROVE  ListInv'
<1>1. UNCHANGED <<obj, roots, todo>> /\ val' = v
  BY DEF Literal, Produce
<1>2. v \notin Cell
  BY WordAssumption
<1> QED BY <1>1, <1>2, ValueLists

\* A variable is read.
LEMMA IdentifierLists ==
  ASSUME ListInv, Lapses = {}, GenCodeInv', NEW s \in Named, Identifier(s)
  PROVE  ListInv'
<1>1. todo # << >> /\ UNCHANGED <<obj, roots, todo>> /\ val' = Frame[s]
  BY DEF Identifier, Evaluate, Produce
<1>2. Frame[s] \in Cell => Frame[s] \in Shown(obj)
  BY <1>1, VariableShown
<1> QED BY <1>1, <1>2, ValueLists

\* A value is dropped.
LEMMA DiscardLists ==
  ASSUME ListInv, Lapses = {}, GenCodeInv', Discard
  PROVE  ListInv'
<1>1. UNCHANGED <<obj, roots, todo>> /\ val' = None /\ None \notin Cell
  BY WordAssumption DEF Discard, NoValue
<1> QED BY <1>1, ValueLists

\* A literal, a call or another construct is entered.
LEMMA EnterLists ==
  ASSUME ListInv, Lapses = {}, GenCodeInv', NEW op \in {"pair", "cons", "call", "load", "var", "seq"}, Enter(op)
  PROVE  ListInv'
<1> DEFINE t == Construct(op, 0)
<1>1. /\ t \in Constructs /\ t.op = op /\ t.regs = << >> /\ Registers(t)
      /\ \A j \in 1 .. Len(t.regs) : FALSE
  BY FreshConstruct
<1>2. Open(t)
  BY DEF Enter
<1> HIDE DEF t
<1> QED BY <1>1, <1>2, OpenLists

\* A construct is entered inside another.
LEMMA EnterNestedLists ==
  ASSUME ListInv, Lapses = {}, GenCodeInv', EnterNested
  PROVE  ListInv'
<1> DEFINE t == Construct("nested", 0)
<1>1. /\ t \in Constructs /\ t.op = "nested" /\ t.regs = << >> /\ Registers(t)
      /\ \A j \in 1 .. Len(t.regs) : FALSE
  BY FreshConstruct
<1>2. Open(t) /\ AwaitsTail(todo[Len(todo)])
  BY DEF EnterNested, Tail_of_cons, AwaitsTail, Top
<1> HIDE DEF t
<1> QED BY <1>1, <1>2, OpenLists

\* A for is entered.
LEMMA EnterForLists ==
  ASSUME ListInv, Lapses = {}, GenCodeInv', EnterFor
  PROVE  ListInv'
<1> DEFINE t == Construct("for", Len(Frame))
<1>1. Open(t) /\ todo # << >>
  BY DEF EnterFor, Evaluate
<1>2. Len(Frame) \in Nat
  BY <1>1, Innermost DEF ListInv
<1>3. /\ t \in Constructs /\ t.op = "for" /\ t.slot = Len(Frame) /\ t.regs = << >> /\ Registers(t)
      /\ \A j \in 1 .. Len(t.regs) : FALSE
  BY <1>2, FreshConstruct
<1>4. t.slot = Len(roots[1])
  BY <1>3 DEF Frame
<1> HIDE DEF t
<1> QED BY <1>1, <1>3, <1>4, OpenLists

\* An assignment is entered.
LEMMA EnterAssignLists ==
  ASSUME ListInv, Lapses = {}, GenCodeInv', NEW s \in Named, EnterAssign(s)
  PROVE  ListInv'
<1> DEFINE t == Construct("assign", s)
<1>1. Open(t) /\ todo # << >>
  BY DEF EnterAssign, Open, Evaluate
<1>2. s \in Nat /\ \E l \in 1 .. Len(todo) : BodyNo(todo, l) = Len(roots) /\ Owns(todo[l], s)
  BY <1>1, NamedOwned DEF ListInv
<1>3. /\ t \in Constructs /\ t.op = "assign" /\ t.slot = s /\ t.regs = << >> /\ Registers(t)
      /\ \A j \in 1 .. Len(t.regs) : FALSE
  BY <1>2, FreshConstruct
<1> HIDE DEF t
<1> QED BY <1>1, <1>2, <1>3, OpenLists

\* The field that is stored to belongs to a cell of the list that the variable shows.
LEMMA EnterStoreLists ==
  ASSUME ListInv, Lapses = {}, GenCodeInv', NEW s \in Named, NEW c \in Cell, EnterStore(s, c)
  PROVE  ListInv'
<1> DEFINE t == [Construct("store", 0) EXCEPT !.regs = <<c>>, !.got = {"read"}]
<1>1. Open(t) /\ todo # << >> /\ c \in RowIn(obj, Frame[s])
  BY HeapOperators DEF EnterStore, Open, Evaluate
<1>2. /\ t \in Constructs /\ t.op = "store" /\ t.regs = <<c>> /\ t.got = {"read"}
  <2>1. <<c>> \in Seq(Pointer \cup {Scalar})
    BY DEF Pointer
  <2> QED BY <2>1 DEF Construct, Constructs
<1>3. Len(t.regs) = 1 /\ t.regs[1] = c
  BY <1>2
<1> HIDE DEF t
<1>4. Registers(t) /\ \A j \in 1 .. Len(t.regs) : t.regs[j] = c
  BY <1>2, <1>3 DEF Registers
<1>5. c \in Shown(obj)
  <2>1. Frame[s] \in Cell
    BY <1>1, RowOfNull
  <2>2. Frame[s] \in Shown(obj)
    BY <1>1, <2>1, VariableShown
  <2> QED BY <1>1, <2>2, ShownNow
<1> QED BY <1>1, <1>2, <1>4, <1>5, OpenLists

\* An argument of a call is evaluated.
LEMMA ArgumentLists ==
  ASSUME ListInv, Lapses = {}, GenCodeInv', Argument
  PROVE  ListInv'
<1> DEFINE t == [Top EXCEPT !.regs = Append(@, val), !.got = IF val \in Cell THEN @ \cup {from} ELSE @]
<1>1. /\ todo # << >> /\ val # None /\ Top.op = "call" /\ UNCHANGED <<obj, roots>> /\ val' = None
      /\ todo' = WithTop(t)
  BY DEF Argument, Evaluated, NoValue
<1>2. Top \in Constructs
  BY <1>1, Innermost DEF ListInv
<1>3. Top.regs \in Seq(Pointer \cup {Scalar}) /\ Top.got \subseteq Origin /\ val \in Pointer \cup {Scalar} /\ from \in Origin
  BY <1>1, <1>2 DEF Constructs, ListInv, GenCodeInv, Value, Origin
<1>4. /\ Append(Top.regs, val) \in Seq(Pointer \cup {Scalar}) /\ Len(Append(Top.regs, val)) = Len(Top.regs) + 1
      /\ Append(Top.regs, val)[Len(Top.regs) + 1] = val
      /\ \A j \in 1 .. Len(Top.regs) : Append(Top.regs, val)[j] = Top.regs[j]
  BY <1>3, AppendProperties
<1>5. /\ t \in Constructs /\ t.op = "call" /\ t.slot = Top.slot /\ t.regs = Append(Top.regs, val)
  BY <1>1, <1>2, <1>3, <1>4 DEF Constructs, Origin
<1> HIDE DEF t
<1>6. Registers(t)
  BY <1>5 DEF Registers
<1>7. \A j \in 1 .. Len(t.regs) : (j \in 1 .. Len(Top.regs) /\ t.regs[j] = Top.regs[j]) \/ t.regs[j] = val
  <2>1. Len(Top.regs) \in Nat
    BY <1>3, LenProperties
  <2>2. \A l \in Nat : \A j \in 1 .. l + 1 : j \in 1 .. l \/ j = l + 1
    OBVIOUS
  <2> QED BY <1>4, <1>5, <2>1, <2>2
<1>8. ~Making(Top)
  BY <1>1 DEF Making
<1>9. \A j \in 1 .. Len(t.regs) : t.regs[j] \in Cell => t.regs[j] \in Shown(obj)
  BY <1>1, <1>7, <1>8, ShownNow
<1> QED BY <1>1, <1>5, <1>6, <1>9, GoOnLists

\* A field of a shown cell is read.
LEMMA ProjectedLists ==
  ASSUME ListInv, Lapses = {}, GenCodeInv', Projected
  PROVE  ListInv'
<1> DEFINE t == [Top EXCEPT !.regs = <<val>>, !.got = {from}]
<1>1. /\ todo # << >> /\ Top.op = "load" /\ val \in Cell /\ UNCHANGED <<obj, roots>> /\ val' = None
      /\ todo' = WithTop(t)
  BY DEF Projected, Evaluated, NoValue
<1>2. Top \in Constructs /\ from \in Origin
  BY <1>1, Innermost DEF ListInv, GenCodeInv
<1>3. <<val>> \in Seq(Pointer \cup {Scalar}) /\ Len(<<val>>) = 1 /\ <<val>>[1] = val
  BY <1>1 DEF Pointer
<1>4. t \in Constructs /\ t.op = "load" /\ t.slot = Top.slot /\ t.regs = <<val>>
  BY <1>1, <1>2, <1>3 DEF Constructs, Origin
<1> HIDE DEF t
<1>5. Registers(t) /\ \A j \in 1 .. Len(t.regs) : t.regs[j] = val
  BY <1>1, <1>3, <1>4 DEF Registers
<1>6. val \in Shown(obj)
  BY <1>1, ShownNow
<1> QED BY <1>1, <1>4, <1>5, <1>6, GoOnLists

\* A path through fields goes one cell deeper.
LEMMA DeeperLists ==
  ASSUME ListInv, Lapses = {}, GenCodeInv', NEW c \in Cell, Deeper(c)
  PROVE  ListInv'
<1> DEFINE t == [Top EXCEPT !.regs = <<c>>]
           a == Top.regs[1]
<1>1. /\ todo # << >> /\ Top.op = "store" /\ UNCHANGED <<obj, roots>> /\ val' = None
      /\ obj[a] # None /\ c \in RowIn(obj, obj[a].car) /\ todo' = WithTop(t)
  BY HeapOperators DEF Deeper, Evaluated, NoValue
<1>2. Top \in Constructs /\ Registers(Top)
  BY <1>1, Innermost DEF ListInv
<1>3. <<c>> \in Seq(Pointer \cup {Scalar}) /\ Len(<<c>>) = 1 /\ <<c>>[1] = c
  BY DEF Pointer
<1>4. t \in Constructs /\ t.op = "store" /\ t.slot = Top.slot /\ t.regs = <<c>> /\ t.got = Top.got
  BY <1>1, <1>2, <1>3 DEF Constructs
<1>5. Len(Top.regs) = 1 /\ a \in Cell /\ Top.got = {"read"} /\ ~Making(Top) /\ 1 \in 1 .. Len(Top.regs)
  BY <1>1, <1>2 DEF Registers, Making
<1>6. a \in Shown(obj)
  BY <1>1, <1>5, ShownNow
<1> HIDE DEF t, a
<1>7. Registers(t) /\ \A j \in 1 .. Len(t.regs) : t.regs[j] = c
  BY <1>3, <1>4, <1>5 DEF Registers
<1>8. c \in Shown(obj)
  <2>1. obj[a].car \in Cell
    BY <1>1, RowOfNull
  <2>2. obj[a].car \in Shown(obj)
    BY <1>6, <2>1, ShownNow
  <2> QED BY <1>1, <2>2, ShownNow
<1>9. t.op = Top.op /\ t.op \notin {"body", "in"}
  BY <1>1, <1>4
<1> QED BY <1>1, <1>4, <1>7, <1>8, <1>9, GoOnLists

\* A car or a cdr of a shown cell is shown.
LEMMA LoadLists ==
  ASSUME ListInv, Lapses = {}, GenCodeInv', NEW w, Load(w)
  PROVE  ListInv'
<1>1. /\ todo # << >> /\ Top.op # "body" /\ val \in Cell /\ w \in {obj[val].car, obj[val].cdr}
      /\ todo' = Below /\ val' = w /\ UNCHANGED <<obj, roots>>
  BY DEF Load, Evaluated, Produce
<1>2. w \in Cell => w \in Shown(obj)
  BY <1>1, ShownNow
<1> QED BY <1>1, <1>2, LeaveLists

\* A field of a list is the value.
LEMMA ProjectionLists ==
  ASSUME ListInv, Lapses = {}, GenCodeInv', NEW c \in Cell, Projection(c)
  PROVE  ListInv'
<1> DEFINE a == Top.regs[1]
<1>1. /\ todo # << >> /\ Top.op = "load" /\ Top.regs # << >> /\ c \in RowIn(obj, a)
      /\ todo' = Below /\ UNCHANGED <<obj, roots>> /\ val' = obj[c].car
  BY HeapOperators DEF Projection, Evaluated, Produce
<1>2. Len(Top.regs) = 1 /\ a \in Cell /\ ~Making(Top) /\ 1 \in 1 .. Len(Top.regs)
  <2>1. Registers(Top)
    BY <1>1, Innermost DEF ListInv
  <2> QED BY <1>1, <2>1 DEF Registers, Making
<1>3. a \in Shown(obj)
  BY <1>1, <1>2, ShownNow
<1> HIDE DEF a
<1>4. c \in Shown(obj)
  BY <1>1, <1>3, ShownNow
<1>5. obj[c].car \in Cell => obj[c].car \in Shown(obj)
  BY <1>4, ShownNow
<1>6. Top.op # "body"
  BY <1>1
<1> QED BY <1>1, <1>5, <1>6, LeaveLists

\* The last part of a construct is its value.
LEMMA LastLists ==
  ASSUME ListInv, Lapses = {}, GenCodeInv', Last
  PROVE  ListInv'
<1>1. todo # << >> /\ Top.op # "body" /\ todo' = Below /\ UNCHANGED <<obj, roots>> /\ val' = val
  BY DEF Last, Evaluated, Produce
<1> QED BY <1>1, ShownNow, LeaveLists

\* A loop ends.
LEMMA LoopEndLists ==
  ASSUME ListInv, Lapses = {}, GenCodeInv', Loop_end
  PROVE  ListInv'
<1>1. todo # << >> /\ Top.op # "body" /\ todo' = Below /\ UNCHANGED <<obj, roots>> /\ val' = Scalar /\ Scalar \notin Cell
  BY WordAssumption DEF Loop_end, Evaluated, Produce
<1> QED BY <1>1, LeaveLists

\* The new variable of a var holds v.
LEMMA BindWithin ==
  ASSUME NEW S, NEW r, NEW td, Typed(r, td), Shape(r, td), td # << >>, td[Len(td)].op = "var",
         NEW v \in Pointer, v \in Cell => v \in S
  PROVE  LET r2 == [r EXCEPT ![1] = Append(@, v)]
             td2 == Append(SubSeq(td, 1, Len(td) - 1), Construct("in", Len(r[1]) + 1))
         IN  Within(S, r2, td2, Len(td) - 1)
<1> DEFINE n == Len(td)
           x == Append(r[1], v)
           r2 == [r EXCEPT ![1] = Append(@, v)]
           t == Construct("in", Len(r[1]) + 1)
           td2 == Append(SubSeq(td, 1, n - 1), t)
<1>1. n \in Nat /\ n >= 1 /\ Len(r) \in Nat /\ Len(r) >= 1 /\ r \in Seq(Seq(Pointer))
  BY Numbers DEF Typed
<1>2. r[1] \in Seq(Pointer)
  BY <1>1, FrameTop
<1>3. x \in Seq(Pointer) /\ x[Len(r[1]) + 1] = v
  BY <1>2, AppendProperties
<1>4. r2 = [r EXCEPT ![1] = x]
  OBVIOUS
<1>5. t.op = "in" /\ t.slot = Len(r[1]) + 1 /\ t.regs = << >>
  BY DEF Construct
<1>6. Typed(r2, td2) /\ Shape(r2, td2) /\ Len(td2) = n /\ td2[n] = t
  BY BindContinues
<1> HIDE DEF x
<1>7. FrameAt(r2, Len(r)) = x /\ Len(r2) = Len(r)
  BY <1>1, <1>3, <1>4, FrameExcept
<1> HIDE DEF r2, t, td2, n
<1>8. BodyNo(td2, n) = Len(r)
  BY <1>6, <1>7, Numbers
<1>9. \A k \in (n - 1) + 1 .. Len(td2) : k = n
  BY <1>1, <1>6
<1>10. \A j \in 1 .. Len(t.regs) : FALSE
  BY <1>5
<1>11. \A a \in Nat : Owns(t, a) => a = Len(r[1]) + 1
  BY <1>5 DEF Owns
<1>12. Within(S, r2, td2, n - 1)
  BY <1>3, <1>6, <1>7, <1>8, <1>9, <1>10, <1>11 DEF Within
<1> QED BY <1>12 DEF n, r2, td2, t

\* The parameters of the function that is called hold its arguments.
LEMMA InvokeWithin ==
  ASSUME NEW S, NEW r, NEW td, Typed(r, td), Shape(r, td), td # << >>, td[Len(td)].op = "call",
         NEW args \in Seq(Pointer), \A s \in DOMAIN args : args[s] \in Cell => args[s] \in S
  PROVE  LET r2 == <<args>> \o r
             td2 == Append(Append(SubSeq(td, 1, Len(td) - 1), Construct("call", 0)), Construct("body", Len(args)))
         IN  Within(S, r2, td2, Len(td) - 1)
<1> DEFINE n == Len(td)
           t == Construct("call", 0)
           u == Construct("body", Len(args))
           r2 == <<args>> \o r
           td2 == Append(Append(SubSeq(td, 1, Len(td) - 1), t), u)
<1>1. n \in Nat /\ n >= 1 /\ Len(r) \in Nat /\ r \in Seq(Seq(Pointer))
  BY Numbers DEF Typed
<1>2. Len(r2) = Len(r) + 1 /\ FrameAt(r2, Len(r) + 1) = args
  BY <1>1, FramePushed
<1>3. Len(args) \in Nat /\ DOMAIN args = 1 .. Len(args)
  BY LenProperties
<1>4. t.op = "call" /\ t.regs = << >> /\ u.op = "body" /\ u.slot = Len(args) /\ u.regs = << >>
  BY DEF Construct
<1>5. Typed(r2, td2) /\ Shape(r2, td2) /\ Len(td2) = n + 1 /\ td2[n] = t /\ td2[n + 1] = u
  BY InvokeContinues
<1> HIDE DEF r2, t, u, td2, n
<1>6. BodyNo(td2, n + 1) = Len(r) + 1
  BY <1>2, <1>5, Numbers
<1>7. \A k \in (n - 1) + 1 .. Len(td2) : k = n \/ k = n + 1
  BY <1>1, <1>5
<1>8. (\A j \in 1 .. Len(t.regs) : FALSE) /\ (\A j \in 1 .. Len(u.regs) : FALSE)
  BY <1>4
<1>9. \A a \in Nat : ~Owns(t, a) /\ (Owns(u, a) => a \in DOMAIN args)
  BY <1>3, <1>4 DEF Owns
<1>10. Within(S, r2, td2, n - 1)
  <2> SUFFICES ASSUME NEW k \in (n - 1) + 1 .. Len(td2)
               PROVE  /\ \A j \in 1 .. Len(td2[k].regs) : FALSE
                      /\ \A a \in Nat : Owns(td2[k], a) /\ FrameAt(r2, BodyNo(td2, k))[a] \in Cell
                                          => FrameAt(r2, BodyNo(td2, k))[a] \in S
    BY DEF Within
  <2>1. CASE k = n
    BY <1>5, <1>8, <1>9, <2>1
  <2>2. CASE k = n + 1
    BY <1>2, <1>5, <1>6, <1>8, <1>9, <2>2
  <2> QED BY <1>7, <2>1, <2>2
<1> QED BY <1>10 DEF n, r2, td2, t, u

\* Only root s of the innermost frame is another.
Overwrites(r, q, s) ==
  /\ Len(r) \in Nat /\ Len(q) = Len(r)
  /\ \A k \in 1 .. Len(r) : k # 1 => q[k] = r[k]
  /\ \A b \in DOMAIN r[1] : b # s => q[1][b] = r[1][b]

\* The other roots of the frame, and of the other frames, stay.
LEMMA OtherRootsStay ==
  ASSUME NEW r, NEW q, NEW s, Overwrites(r, q, s)
  PROVE  \A i \in 1 .. Len(r) : \A a \in DOMAIN FrameAt(r, i) :
           i # Len(r) \/ a # s => FrameAt(q, i)[a] = FrameAt(r, i)[a]
<1>1. PICK n \in Nat : n = Len(r) /\ n = Len(q)
  BY DEF Overwrites
<1> SUFFICES ASSUME NEW i \in 1 .. n, NEW a \in DOMAIN FrameAt(r, i), i # n \/ a # s
             PROVE  FrameAt(q, i)[a] = FrameAt(r, i)[a]
  BY <1>1
<1>2. PICK k \in 1 .. n : k = n + 1 - i
  OBVIOUS
<1>3. (k = 1 => i = n) /\ a \in DOMAIN r[k]
  BY <1>1, <1>2 DEF FrameAt
<1>4. q[k][a] = r[k][a]
  BY <1>1, <1>3 DEF Overwrites
<1> QED BY <1>1, <1>2, <1>4 DEF FrameAt

\* An assignment leaves what there was, or puts v in its place.
LEMMA AssignValues ==
  ASSUME NEW r, NEW td, Typed(r, td), Shape(r, td), td # << >>, td[Len(td)].op = "assign",
         NEW v \in Pointer, NEW w, w \notin Cell
  PROVE  LET r2 == [r EXCEPT ![1][td[Len(td)].slot] = v]
             td2 == SubSeq(td, 1, Len(td) - 1)
         IN  Values(r2, td2, w) \subseteq Values(r, td, v)
<1> DEFINE n == Len(td)
           s == td[Len(td)].slot
           r2 == [r EXCEPT ![1][td[Len(td)].slot] = v]
           td2 == SubSeq(td, 1, Len(td) - 1)
<1>1. n \in Nat /\ n >= 1 /\ n \in 1 .. n /\ Len(r) \in Nat /\ Len(r) >= 1 /\ r \in Seq(Seq(Pointer))
  BY Numbers DEF Typed
<1>2. Len(td2) = n - 1 /\ \A k \in 1 .. n - 1 : td2[k] = td[k]
  <2>1. td[Len(td)].op # "body"
    OBVIOUS
  <2>2. /\ Len(SubSeq(td, 1, Len(td) - 1)) = Len(td) - 1
        /\ \A k \in 1 .. Len(td) - 1 : SubSeq(td, 1, Len(td) - 1)[k] = td[k]
    BY <2>1, PopContinues
  <2> QED BY <2>2
<1>3. \A k \in 1 .. n - 1 : k \in 1 .. n /\ k \in Nat
  BY <1>1
<1>4. FrameAt(r, Len(r)) = r[1]
  BY <1>1, FrameTop
<1>5. s \in DOMAIN r[1]
  <2>1. Formed(r, td, n)
    BY <1>1 DEF Shape
  <2>2. PICK l \in 1 .. n - 1 : BodyNo(td, l) = BodyNo(td, n) /\ Owns(td[l], s)
    BY <2>1 DEF Formed
  <2>3. KeptSlot(r, td, l, BodyNo(td, l), s)
    BY <1>3, <2>2, OwnedKept
  <2> QED BY <1>4, <2>2, <2>3 DEF KeptSlot, Shape
<1>6. /\ r2 \in Seq(Seq(Pointer)) /\ Len(r2) = Len(r)
      /\ \A i \in 1 .. Len(r) : \A a \in DOMAIN FrameAt(r, i) :
           i # Len(r) \/ a # s => FrameAt(r2, i)[a] = FrameAt(r, i)[a]
  <2>1. r2 \in Seq(Seq(Pointer)) /\ Len(r2) = Len(r)
    BY <1>1, <1>5, RootOverwritten
  <2>2. Len(r) \in Nat /\ Len(r) >= 1 /\ DOMAIN r = 1 .. Len(r)
    BY <1>1, LenProperties
  <2>3. \A k \in 1 .. Len(r) : k # 1 => r2[k] = r[k]
    BY <2>2
  <2>4. \A b \in DOMAIN r[1] : b # s => r2[1][b] = r[1][b]
    BY <1>5, <2>2
  <2> HIDE DEF r2, s
  <2>5. Overwrites(r, r2, s)
    BY <2>1, <2>2, <2>3, <2>4 DEF Overwrites
  <2> QED BY <2>1, <2>5, OtherRootsStay
<1>7. FrameAt(r2, Len(r))[s] = v
  <2>1. FrameAt(r2, Len(r2)) = r2[1]
    BY <1>1, <1>6, FrameTop
  <2>2. 1 \in DOMAIN r
    BY <1>1, LenProperties
  <2>3. r2[1][s] = v
    BY <1>5, <2>2
  <2> QED BY <1>6, <2>1, <2>3
<1> HIDE DEF r2, td2, s, n
<1>8. ASSUME NEW k \in 1 .. n - 1
      PROVE  BodyNo(td2, k) = BodyNo(td, k) /\ BodyNo(td, k) \in 1 .. Len(r)
  <2>1. \A l \in 1 .. k : td2[l].op = td[l].op
    BY <1>1, <1>2, <1>3
  <2>2. k \in 1 .. Len(td)
    BY <1>3 DEF n
  <2> QED BY <1>3, <2>1, <2>2, BodyNoSame, Numbers
<1>9. ASSUME NEW c \in Cell, NEW k \in 1 .. n - 1, NEW a \in Nat, Owns(td[k], a), c = FrameAt(r2, BodyNo(td, k))[a]
      PROVE  c \in Values(r, td, v)
  <2>1. CASE BodyNo(td, k) = Len(r) /\ a = s
    BY <1>7, <1>9, <2>1 DEF Values
  <2>2. CASE ~(BodyNo(td, k) = Len(r) /\ a = s)
    <3>1. k \in 1 .. Len(td)
      BY <1>3 DEF n
    <3>2. a \in DOMAIN FrameAt(r, BodyNo(td, k))
      BY <1>9, <3>1, OwnedKept DEF KeptSlot
    <3>3. c = FrameAt(r, BodyNo(td, k))[a]
      BY <1>6, <1>8, <1>9, <2>2, <3>2
    <3> QED BY <1>9, <3>1, <3>3 DEF Values
  <2> QED BY <2>1, <2>2
<1>10. ASSUME NEW c \in Cell, NEW k \in 1 .. n - 1, ~Making(td[k]), NEW j \in 1 .. Len(td[k].regs), c = td[k].regs[j]
       PROVE  c \in Values(r, td, v)
  <2>1. k \in 1 .. Len(td)
    BY <1>3 DEF n
  <2> QED BY <1>10, <2>1 DEF Values
<1>11. ASSUME NEW c \in Values(r2, td2, w)
       PROVE  c \in Values(r, td, v)
  <2>1. c \in Cell /\ c # w
    BY DEF Values
  <2>2. CASE \E k \in 1 .. Len(td2) : ~Making(td2[k]) /\ \E j \in 1 .. Len(td2[k].regs) : c = td2[k].regs[j]
    BY <1>2, <1>10, <2>1, <2>2
  <2>3. CASE \E k \in 1 .. Len(td2) : \E a \in Nat : Owns(td2[k], a) /\ c = FrameAt(r2, BodyNo(td2, k))[a]
    BY <1>2, <1>8, <1>9, <2>1, <2>3
  <2> QED BY <2>1, <2>2, <2>3 DEF Values
<1> QED BY <1>11 DEF r2, td2

\* A var gets its first value.
LEMMA InitialiseLists ==
  ASSUME ListInv, Lapses = {}, GenCodeInv', Initialise
  PROVE  ListInv'
<1> DEFINE m == Len(todo) - 1
           r2 == [roots EXCEPT ![1] = Append(@, val)]
           td2 == Append(SubSeq(todo, 1, Len(todo) - 1), Construct("in", Len(roots[1]) + 1))
<1>1. /\ todo # << >> /\ todo[Len(todo)].op = "var" /\ val \in Pointer /\ val' = None /\ obj' = obj
      /\ roots' = r2 /\ todo' = td2
  BY DEF Initialise, Evaluated, NewRoot, WithTop, Below, Frame, Top, NoValue
<1>2. Typed(roots, todo) /\ Shape(roots, todo) /\ (val \in Cell => val \in Shown(obj)) /\ None \notin Cell
  BY ShownNow, WordAssumption
<1>3. Continues(roots, todo, r2, td2, m) /\ \A k \in 1 .. m : td2[k] = todo[k]
  BY <1>1, <1>2, BindContinues
<1>4. Within(Shown(obj), r2, td2, m)
  BY <1>1, <1>2, BindWithin
<1> HIDE DEF m, r2, td2
<1> QED BY <1>1, <1>2, <1>3, <1>4, SameHeapLists

\* A for goes round once more.
LEMMA IterateLists ==
  ASSUME ListInv, Lapses = {}, GenCodeInv', Iterate
  PROVE  ListInv'
<1> DEFINE m == Len(todo) - 1
           r2 == [roots EXCEPT ![1] = SubSeq(@, 1, todo[Len(todo)].slot)]
<1>1. /\ todo # << >> /\ todo[Len(todo)].op = "for" /\ val' = None /\ obj' = obj /\ todo' = todo
      /\ roots' = r2
  BY DEF Iterate, Evaluated, Top, NoValue
<1>2. Typed(roots, todo) /\ Shape(roots, todo) /\ None \notin Cell
  BY ShownNow, WordAssumption
<1>3. Continues(roots, todo, r2, todo, m)
  BY <1>1, <1>2, IterateContinues
<1>4. m \in Nat /\ Len(todo) = m + 1
  <2>1. Len(todo) \in Nat /\ Len(todo) >= 1
    BY <1>1, <1>2, Numbers
  <2> QED BY <2>1
<1> HIDE DEF m, r2
<1>5. todo[m + 1].regs = << >> /\ todo[m + 1].op = "for"
  <2>1. Registers(Top) /\ Top = todo[m + 1]
    BY <1>1, <1>4, Innermost DEF ListInv, Top
  <2> QED BY <1>1, <1>4, <2>1 DEF Registers
<1>6. \A j \in 1 .. Len(todo[m + 1].regs) : FALSE
  BY <1>5
<1>7. Within(Shown(obj), r2, todo, m)
  BY <1>4, <1>5, <1>6, WithinTop
<1> QED BY <1>1, <1>2, <1>3, <1>7, SameHeapLists

\* The result of a call is a value of the function that returns.
LEMMA ReturnLists ==
  ASSUME ListInv, Lapses = {}, GenCodeInv', Return
  PROVE  ListInv'
<1>1. /\ todo # << >> /\ todo[Len(todo)].op = "body" /\ roots' = Tail(roots) /\ obj' = obj
      /\ IF Len(todo) = 1 THEN todo' = << >> /\ val' = None
                          ELSE todo' = SubSeq(todo, 1, Len(todo) - 2) /\ val' = val
  BY DEF Return, Evaluated, Top, NoValue, Produce
<1>2. Typed(roots, todo) /\ Shape(roots, todo) /\ (val \in Cell => val \in Shown(obj)) /\ None \notin Cell
  BY ShownNow, WordAssumption
<1>3. CASE Len(todo) = 1
  <2>1. \A k \in 1 .. Len(<< >>) : FALSE
    OBVIOUS
  <2>2. Values(roots', << >>, None) = {}
    BY <1>2, <2>1 DEF Values
  <2>3. Lists(obj, roots', << >>, None)
    BY <2>2, ShownNow DEF Lists
  <2> QED BY <1>1, <1>3, <2>3 DEF ListInv
<1>4. CASE Len(todo) # 1
  <2> DEFINE m == Len(todo) - 2
             r2 == Tail(roots)
             td2 == SubSeq(todo, 1, Len(todo) - 2)
  <2>1. Continues(roots, todo, r2, td2, m) /\ Len(td2) = m /\ \A k \in 1 .. m : td2[k] = todo[k]
    BY <1>1, <1>2, <1>4, ReturnContinues
  <2>2. roots' = r2 /\ todo' = td2 /\ val' = val
    BY <1>1, <1>4
  <2> HIDE DEF m, r2, td2
  <2>3. m \in Nat
    BY <2>1 DEF Continues, SameUpTo
  <2>4. Within(Shown(obj), r2, td2, m)
    BY <2>1, <2>3, WithinNone
  <2> QED BY <1>1, <1>2, <2>1, <2>2, <2>4, SameHeapLists
<1> QED BY <1>3, <1>4

\* A function is called.
LEMMA InvokeLists ==
  ASSUME ListInv, Lapses = {}, GenCodeInv', Invoke
  PROVE  ListInv'
<1> DEFINE m == Len(todo) - 1
           args == Pointers(Top.regs)
           r2 == <<args>> \o roots
           td2 == Append(Append(SubSeq(todo, 1, Len(todo) - 1), Construct("call", 0)), Construct("body", Len(args)))
           T == {Top.regs[j] : j \in DOMAIN Top.regs} \ {Scalar}
<1>1. /\ todo # << >> /\ val = None /\ Top.op = "call" /\ obj' = obj /\ val' = val
      /\ roots' = r2 /\ todo' = td2
  BY DEF Invoke, Evaluate, Top, WithTop, Below
<1>2. Typed(roots, todo) /\ Shape(roots, todo) /\ Top \in Constructs /\ None \notin Cell
      /\ todo[Len(todo)].op = "call"
  BY <1>1, Innermost, WordAssumption DEF ListInv, GenCodeInv, Top
<1>3. Top.regs \in Seq(Pointer \cup {Scalar})
  BY <1>2 DEF Constructs
<1>4. /\ DOMAIN Top.regs = 1 .. Len(Top.regs)
      /\ \A j \in 1 .. Len(Top.regs) : Top.regs[j] \in Pointer \cup {Scalar}
  BY <1>3, LenProperties, ElementOfSeq
<1>5. args \in Seq(T)
  BY <1>3, PointersType
<1>6. T \subseteq Pointer /\ \A c \in T : \E j \in 1 .. Len(Top.regs) : c = Top.regs[j]
  BY <1>4
<1> HIDE DEF args, T
<1>7. args \in Seq(Pointer) /\ \A s \in DOMAIN args : args[s] \in T
  <2>1. DOMAIN args = 1 .. Len(args)
    BY <1>5, LenProperties
  <2>2. \A s \in 1 .. Len(args) : args[s] \in T
    BY <1>5, ElementOfSeq
  <2> QED BY <1>5, <1>6, <2>1, <2>2
<1>8. \A s \in DOMAIN args : args[s] \in Cell => args[s] \in Shown(obj)
  <2>1. ~Making(Top)
    BY <1>1 DEF Making
  <2>2. \A c \in T : c \in Cell => c \in Shown(obj)
    BY <1>1, <1>6, <2>1, ShownNow
  <2> QED BY <1>7, <2>2
<1>9. Continues(roots, todo, r2, td2, m) /\ \A k \in 1 .. m : td2[k] = todo[k]
  BY <1>1, <1>2, <1>7, InvokeContinues
<1>10. Within(Shown(obj), r2, td2, m)
  BY <1>1, <1>2, <1>7, <1>8, InvokeWithin
<1> HIDE DEF m, r2, td2
<1> QED BY <1>1, <1>2, <1>9, <1>10, SameHeapLists

\* A variable is assigned.
LEMMA AssignLists ==
  ASSUME ListInv, Lapses = {}, GenCodeInv', Assign
  PROVE  ListInv'
<1> DEFINE r2 == [roots EXCEPT ![1][todo[Len(todo)].slot] = val]
           td2 == SubSeq(todo, 1, Len(todo) - 1)
<1>1. /\ todo # << >> /\ todo[Len(todo)].op = "assign" /\ val \in Pointer /\ roots' = r2 /\ todo' = td2 /\ obj' = obj
      /\ val' = Scalar /\ Scalar \notin Cell
  BY WordAssumption DEF Assign, Evaluated, Top, Below, Produce
<1>2. Typed(roots, todo) /\ Shape(roots, todo)
  BY ShownNow
<1>3. Values(r2, td2, Scalar) \subseteq Values(roots, todo, val)
  BY <1>1, <1>2, AssignValues
<1> HIDE DEF r2, td2
<1>4. Lists(obj, r2, td2, Scalar)
  BY <1>3, ShownNow DEF Lists
<1> QED BY <1>1, <1>4 DEF ListInv

-------------------------------------------------------------------------------
(* The steps that store to the heap.                                        *)

\* A cdr is stored.
LEMMA CdrStored ==
  ASSUME NEW o \in HeapType, NEW a \in Cell, o[a] # None, NEW w \in Pointer,
         NEW o2, o2[a] = [o[a] EXCEPT !.cdr = w], \A d \in Cell : d # a => o2[d] = o[d]
  PROVE  /\ Alloc(o2) = Alloc(o) /\ o2[a].cdr = w /\ o2[a].car = o[a].car
         /\ \A d \in Cell : d # a => o2[d] = o[d]
<1> DEFINE y == [o[a] EXCEPT !.cdr = w]
<1>1. o[a] \in Object
  BY DEF HeapType
<1>2. y \in Object /\ y.cdr = w /\ y.car = o[a].car
  BY <1>1 DEF Object, Pointer
<1>3. o2[a] = y
  OBVIOUS
<1> HIDE DEF y
<1>4. y # None
  BY <1>2, NoneAssumption
<1>5. Alloc(o2) = Alloc(o)
  BY <1>3, <1>4 DEF Alloc
<1> QED BY <1>2, <1>3, <1>5

\* A car is stored.
LEMMA CarStored ==
  ASSUME NEW o \in HeapType, NEW a \in Cell, o[a] # None, NEW w \in Pointer \cup {Scalar},
         NEW o2, o2[a] = [o[a] EXCEPT !.car = w], \A d \in Cell : d # a => o2[d] = o[d]
  PROVE  /\ Alloc(o2) = Alloc(o) /\ o2[a].car = w /\ o2[a].cdr = o[a].cdr
         /\ \A d \in Cell : d # a => o2[d] = o[d]
<1> DEFINE y == [o[a] EXCEPT !.car = w]
<1>1. o[a] \in Object
  BY DEF HeapType
<1>2. y \in Object /\ y.car = w /\ y.cdr = o[a].cdr
  BY <1>1 DEF Object, Pointer
<1>3. o2[a] = y
  OBVIOUS
<1> HIDE DEF y
<1>4. y # None
  BY <1>2, NoneAssumption
<1>5. Alloc(o2) = Alloc(o)
  BY <1>3, <1>4 DEF Alloc
<1> QED BY <1>2, <1>3, <1>5

\* A store into a field of a shown cell, of a value that is shown.
LEMMA StoreLists ==
  ASSUME ListInv, Lapses = {}, GenCodeInv', Store
  PROVE  ListInv'
<1> DEFINE m == Len(todo) - 1
           td2 == SubSeq(todo, 1, Len(todo) - 1)
           a == Top.regs[1]
           o2 == [obj EXCEPT ![a].car = val]
<1>1. /\ todo # << >> /\ val # None /\ Top.op = "store" /\ roots' = roots /\ todo' = td2 /\ obj' = o2
      /\ obj[a] # None /\ val' = Scalar
  BY DEF Store, Evaluated, Below, Produce
<1>2. /\ Typed(roots, todo) /\ Shape(roots, todo) /\ (val \in Cell => val \in Shown(obj)) /\ NoCircle(obj)
      /\ Cars(obj) \subseteq Shown(obj)
  BY ShownNow
<1>3. obj \in HeapType /\ val \in Pointer \cup {Scalar} /\ Scalar \notin Cell /\ a \in Cell
  <2>1. Registers(Top)
    BY <1>1, Innermost DEF ListInv
  <2>2. a \in Cell
    BY <1>1, <2>1 DEF Registers
  <2> QED BY <1>1, <2>2, WordAssumption DEF ListInv, GenCodeInv, Value
<1>4. Continues(roots, todo, roots, td2, m) /\ Len(td2) = m /\ \A k \in 1 .. m : td2[k] = todo[k]
  <2>1. todo[Len(todo)].op # "body"
    BY <1>1 DEF Top
  <2> QED BY <1>1, <1>2, <2>1, PopContinues
<1> HIDE DEF m, td2, a
<1>5. Alloc(o2) = Alloc(obj) /\ o2[a].car = val /\ o2[a].cdr = obj[a].cdr /\ \A d \in Cell : d # a => o2[d] = obj[d]
  <2>1. o2[a] = [obj[a] EXCEPT !.car = val] /\ \A d \in Cell : d # a => o2[d] = obj[d]
    BY <1>3 DEF HeapType
  <2> HIDE DEF o2
  <2> QED BY <1>1, <1>3, <2>1, CarStored
<1> HIDE DEF o2
<1>6. Shown(o2) = Shown(obj) /\ NoCircle(o2) /\ Cars(o2) \subseteq Cars(obj) \cup {val}
  <2>1. \A d \in Alloc(obj) : o2[d].cdr = obj[d].cdr /\ (d # a => o2[d].car = obj[d].car)
    BY <1>5 DEF Alloc
  <2> QED BY <1>2, <1>5, <2>1, ShownStored
<1>7. Cars(o2) \subseteq Shown(o2)
  BY <1>2, <1>6 DEF Cars
<1>8. m \in Nat
  BY <1>4 DEF Continues, SameUpTo
<1>9. Within(Shown(o2), roots, td2, m)
  BY <1>4, <1>8, WithinNone
<1> QED BY <1>1, <1>3, <1>4, <1>6, <1>7, <1>9, ListsContinue

\* The last cell of a literal or a cons gets its cdr, and its first cell is shown.
LEMMA LinkLists ==
  ASSUME ListInv, Lapses = {}, GenCodeInv', todo # << >>, Making(Top), NEW w \in Pointer,
         obj[LastCell(Top)] # None, obj' = [obj EXCEPT ![LastCell(Top)].cdr = w],
         todo' = Below, roots' = roots, val' = Top.regs[1],
         w \in Cell => w \in Shown(obj), Top.op = "pair" => w = Null
  PROVE  ListInv'
<1> DEFINE m == Len(todo) - 1
           td2 == SubSeq(todo, 1, Len(todo) - 1)
           last == LastCell(Top)
           first == Top.regs[1]
           o2 == [obj EXCEPT ![last].cdr = w]
<1>1. /\ Typed(roots, todo) /\ Shape(roots, todo) /\ NoCircle(obj) /\ Cars(obj) \subseteq Shown(obj) /\ Sane(obj)
      /\ \A c \in Shown(obj) : RowIn(obj, c) \subseteq Shown(obj) /\ obj[c].cdr # None
  BY ShownNow
<1>2. /\ obj \in HeapType /\ Kept(obj, roots, todo, val, from) /\ Len(todo) \in 1 .. Len(todo)
      /\ Registers(Top) /\ Formed(roots, todo, Len(todo))
  BY <1>1, Innermost DEF ListInv, GenCodeInv, Shape
<1>3. /\ first \in Cell /\ last \in Cell
      /\ Top.op = "pair" => last = Top.regs[2] /\ Len(Top.regs) = 2
      /\ Top.op # "pair" => last = first
  BY <1>2, MakingCells DEF ListInv, Registers, Making
<1>4. Continues(roots, todo, roots, td2, m) /\ Len(td2) = m /\ \A k \in 1 .. m : td2[k] = todo[k]
  <2>1. todo[Len(todo)].op # "body"
    BY DEF Top, Making
  <2> QED BY <1>1, <2>1, PopContinues
<1>5. todo' = td2 /\ obj' = o2 /\ val' = first /\ roots' = roots
  BY DEF Below
<1>6. last \in Unlinked(obj)
  <2>1. obj[last].cdr = None
    BY <1>2 DEF Kept, Ends, Top
  <2> QED BY <1>3, <2>1 DEF Unlinked, Alloc
<1>7. first \in Alloc(obj)
  <2>1. 1 \in 1 .. Len(Top.regs)
    BY <1>2 DEF Registers, Making
  <2> QED BY <1>3, <2>1, InnermostKept DEF ListInv
<1>8. Top.op = "pair" => last \in RowIn(obj, first)
  <2>1. RegKept(obj, roots, todo, Len(todo))
    BY <1>2 DEF Kept
  <2>2. Top.op = "pair" => Top.got = {} /\ 2 \in 1 .. Len(Top.regs)
    BY <1>2, <1>3 DEF Registers
  <2> QED BY <1>3, <2>1, <2>2 DEF RegKept, Top
<1> HIDE DEF m, td2, last, first
<1>9. /\ Alloc(o2) = Alloc(obj) /\ o2[last].cdr = w /\ o2[last].car = obj[last].car
      /\ \A d \in Cell : d # last => o2[d] = obj[d]
  <2>1. obj[last] # None
    BY DEF last
  <2>2. o2[last] = [obj[last] EXCEPT !.cdr = w] /\ \A d \in Cell : d # last => o2[d] = obj[d]
    BY <1>2, <1>3 DEF HeapType
  <2> HIDE DEF o2
  <2> QED BY <1>2, <1>3, <2>1, <2>2, CdrStored
<1> HIDE DEF o2
<1>10. \A d \in Alloc(obj) : d # last => o2[d] = obj[d]
  BY <1>9 DEF Alloc
<1>11. w \in Cell => last \notin RowIn(obj, w)
  BY <1>1, <1>6 DEF Unlinked
<1>12. Shown(obj) \subseteq Shown(o2) /\ NoCircle(o2) /\ Cars(o2) = Cars(obj)
  BY <1>1, <1>6, <1>9, <1>10, <1>11, ShownLinked
<1>13. first \in Shown(o2)
  <2>1. CASE Top.op = "pair"
    BY <1>1, <1>6, <1>7, <1>8, <1>9, <1>10, <2>1, LiteralShown
  <2>2. CASE Top.op # "pair"
    BY <1>1, <1>3, <1>6, <1>9, <1>10, <2>2, ConsShown
  <2> QED BY <2>1, <2>2
<1>14. m \in Nat
  BY <1>4 DEF Continues, SameUpTo
<1>15. Within(Shown(o2), roots, td2, m)
  BY <1>4, <1>14, WithinNone
<1>16. Cars(o2) \subseteq Shown(o2)
  BY <1>1, <1>12
<1> QED BY <1>4, <1>5, <1>12, <1>13, <1>15, <1>16, ListsContinue

\* A literal ends.
LEMMA PairEndLists ==
  ASSUME ListInv, Lapses = {}, GenCodeInv', Pair_end
  PROVE  ListInv'
<1>1. /\ todo # << >> /\ Top.op = "pair" /\ Top.regs # << >> /\ obj[Top.regs[2]] # None
      /\ obj' = [obj EXCEPT ![Top.regs[2]].cdr = Null]
      /\ todo' = Below /\ roots' = roots /\ val' = Top.regs[1]
  BY DEF Pair_end, Evaluate, Produce
<1>2. Making(Top)
  BY <1>1 DEF Making
<1>3. LastCell(Top) = Top.regs[2]
  BY <1>1, <1>2, MakingCells DEF ListInv
<1>4. Null \in Pointer /\ Null \notin Cell
  BY WordAssumption DEF Pointer
<1> QED BY <1>1, <1>2, <1>3, <1>4, LinkLists

\* A cons ends.
LEMMA ConsEndLists ==
  ASSUME ListInv, Lapses = {}, GenCodeInv', Cons_end
  PROVE  ListInv'
<1>1. /\ todo # << >> /\ Top.op \in {"cons", "nested"} /\ Top.regs # << >> /\ obj[Top.regs[1]] # None
      /\ val \in Pointer /\ obj' = [obj EXCEPT ![Top.regs[1]].cdr = val]
      /\ todo' = Below /\ roots' = roots /\ val' = Top.regs[1]
  BY DEF Cons_end, Evaluated, Produce
<1>2. Making(Top)
  BY <1>1 DEF Making
<1>3. LastCell(Top) = Top.regs[1] /\ Top.op # "pair"
  BY <1>1, <1>2, MakingCells DEF ListInv
<1>4. val \in Cell => val \in Shown(obj)
  BY ShownNow
<1> QED BY <1>1, <1>2, <1>3, <1>4, LinkLists

\* A variable's cell is in a root.
LEMMA OwnedRooted ==
  ASSUME NEW r, NEW td, Typed(r, td), Shape(r, td), NEW k \in 1 .. Len(td), NEW a, Owns(td[k], a),
         FrameAt(r, BodyNo(td, k))[a] \in Cell
  PROVE  FrameAt(r, BodyNo(td, k))[a] \in RootedIn(r)
<1>1. KeptSlot(r, td, k, BodyNo(td, k), a)
  BY OwnedKept
<1>2. FrameAt(r, BodyNo(td, k))[a] \in KeptRoots(r, td, k)
  BY <1>1 DEF KeptRoots, KeptSlot
<1> QED BY <1>2, KeptRooted

\* Whatever the program has is allocated.
LEMMA ValuesAllocated ==
  ASSUME NEW o, NEW r, NEW td, NEW v, Typed(r, td), Shape(r, td), Sound(o, r, td, v)
  PROVE  Values(r, td, v) \subseteq Alloc(o)
<1>1. /\ \A k \in 1 .. Len(td) : \A j \in 1 .. Len(td[k].regs) : td[k].regs[j] \in Cell => td[k].regs[j] \in Alloc(o)
      /\ v \in Cell => v \in Alloc(o)
      /\ RootedIn(r) \subseteq Alloc(o)
  BY DEF Sound
<1>2. \A k \in 1 .. Len(td) : \A a : Owns(td[k], a) /\ FrameAt(r, BodyNo(td, k))[a] \in Cell
                                        => FrameAt(r, BodyNo(td, k))[a] \in Alloc(o)
  BY <1>1, OwnedRooted
<1> QED BY <1>1, <1>2 DEF Values

\* A heap that shows the cells of V, without circles.
Fine(o, V) == o \in HeapType /\ Sane(o) /\ NoCircle(o) /\ Cars(o) \subseteq Shown(o) /\ V \subseteq Shown(o)

\* The heap that gc_new takes a cell from shows what was shown.
LEMMA ReadyLists ==
  ASSUME ListInv, Lapses = {}, todo # << >>, MayCollect, ~AwaitsTail(Top), NEW h \in {obj, Swept}
  PROVE  /\ Fine(h, Values(roots, todo, val)) /\ Kept(h, roots, todo, val, from)
         /\ val \in Cell => val \in Values(roots, todo, val)
<1>1. h \in HeapType /\ Kept(h, roots, todo, val, from)
  BY ReadyHeap DEF ListInv
<1>2. /\ Typed(roots, todo) /\ Shape(roots, todo) /\ Sane(obj) /\ NoCircle(obj)
      /\ Values(roots, todo, val) \subseteq Shown(obj) /\ Cars(obj) \subseteq Shown(obj)
  BY ShownNow
<1>3. Sound(h, roots, todo, val)
  BY <1>1 DEF Kept
<1>4. Sane(h)
  BY <1>3 DEF Sound, Sane
<1>5. \A d \in Alloc(h) : h[d] = obj[d]
  BY DEF Swept, Alloc
<1>6. /\ Shown(obj) \cap Alloc(h) \subseteq Shown(h) /\ NoCircle(h) /\ Cars(h) \subseteq Cars(obj) \cap Alloc(h)
  BY <1>2, <1>4, <1>5, ShownSwept
<1>7. Values(roots, todo, val) \subseteq Alloc(h)
  BY <1>2, <1>3, ValuesAllocated
<1> QED BY <1>1, <1>2, <1>4, <1>6, <1>7 DEF Fine, Values

\* It still does with a new cell.
LEMMA CellAdded ==
  ASSUME NEW h, NEW V, Fine(h, V), NEW c \in Cell, h[c] = None, NEW v, v \in Cell => v \in V,
         NEW o2 \in HeapType, Sane(o2), o2[c] # None, o2[c].cdr = None, o2[c].car = v,
         Alloc(o2) = Alloc(h) \cup {c}, \A d \in Cell : d # c => o2[d] = h[d]
  PROVE  Fine(o2, V) /\ c \in Unlinked(o2) /\ c \notin Alloc(h)
<1>1. /\ Sane(h) /\ NoCircle(h) /\ Cars(h) \subseteq Shown(h) /\ V \subseteq Shown(h)
  BY DEF Fine
<1>2. c \notin Alloc(h) /\ Alloc(h) \subseteq Cell
  BY DEF Alloc
<1>3. \A d \in Alloc(h) : o2[d] = h[d]
  BY <1>2
<1>4. /\ Shown(h) \subseteq Shown(o2) /\ NoCircle(o2) /\ Cars(o2) \subseteq Cars(h) \cup {o2[c].car}
  BY <1>1, <1>3, ShownNew
<1>5. Cars(o2) \subseteq Shown(o2)
  BY <1>1, <1>4 DEF Cars
<1>6. c \in Unlinked(o2)
  BY DEF Unlinked
<1> QED BY <1>1, <1>2, <1>4, <1>5, <1>6 DEF Fine

\* gc_new makes a cell that nothing shows, and keeps what was shown.
LEMMA CellMade ==
  ASSUME NEW h, NEW V, Fine(h, V), NEW c \in Cell, h[c] = None, NEW v \in Pointer \cup {Scalar}, v \in Cell => v \in V
  PROVE  LET o2 == [h EXCEPT ![c] = Fresh(v \in Pointer, v)]
         IN  /\ Fine(o2, V) /\ c \in Unlinked(o2) /\ c \notin Alloc(h)
             /\ \A d \in Cell : d # c => o2[d] = h[d]
<1> DEFINE x == Fresh(v \in Pointer, v)
           o2 == [h EXCEPT ![c] = x]
<1>1. h \in HeapType /\ Sane(h) /\ (v \in Cell => v \in Alloc(h))
  BY DEF Fine, Shown
<1>2. Allocated(h, o2, c)
  BY <1>1, NewCell DEF Sane
<1>3. x.car = v
  BY FreshObject
<1> HIDE DEF x
<1>4. o2[c] = x /\ \A d \in Cell : d # c => o2[d] = h[d]
  BY <1>1 DEF HeapType
<1> HIDE DEF o2
<1>5. o2 \in HeapType /\ o2[c] # None /\ o2[c].cdr = None /\ Alloc(o2) = Alloc(h) \cup {c} /\ Sane(o2)
  BY <1>2 DEF Allocated, Sane
<1>6. Fine(o2, V) /\ c \in Unlinked(o2) /\ c \notin Alloc(h)
  BY <1>3, <1>4, <1>5, CellAdded
<1> QED BY <1>4, <1>6 DEF o2, x

\* A construct that makes a list goes on, in a heap that shows what is had.
LEMMA MakingLists ==
  ASSUME ListInv, Lapses = {}, GenCodeInv', todo # << >>, val' = None, Fine(obj', Values(roots, todo, val)),
         NEW t, Making(t), Continues(roots, todo, roots', todo', Len(todo)), Len(todo') = Len(todo),
         todo'[Len(todo)] = t, \A k \in 1 .. Len(todo) - 1 : todo'[k] = todo[k]
  PROVE  ListInv'
<1> DEFINE n == Len(todo)
           m == n - 1
           r2 == roots'
           td2 == todo'
           o2 == obj'
<1>1. n \in Nat /\ n >= 1 /\ Typed(roots, todo) /\ Shape(roots, todo)
  BY ShownNow, Numbers
<1>2. Continues(roots, todo, r2, td2, n) /\ Len(td2) = n /\ td2[n] = t /\ \A k \in 1 .. m : td2[k] = todo[k]
  OBVIOUS
<1>3. NoCircle(o2) /\ Cars(o2) \subseteq Shown(o2) /\ Values(roots, todo, val) \subseteq Shown(o2)
  BY DEF Fine
<1>4. m \in Nat /\ n = m + 1 /\ m \in 0 .. n
  BY <1>1
<1> HIDE DEF r2, td2, o2
<1>5. Continues(roots, todo, r2, td2, m)
  <2>1. Len(todo) \in Nat /\ Len(td2) \in Nat
    BY <1>1, <1>2
  <2> QED BY <1>2, <1>4, <2>1, ContinuesBelow
<1> HIDE DEF m, n
<1>6. Len(td2) = m + 1 /\ td2[m + 1] = t /\ t.op \notin {"body", "in"}
  BY <1>2, <1>4 DEF Making
<1>7. Within(Shown(o2), r2, td2, m)
  BY <1>4, <1>6, WithinTop
<1>8. None \notin Cell
  BY WordAssumption
<1> QED BY <1>2, <1>3, <1>5, <1>7, <1>8, ListsContinue DEF r2, td2, o2

\* A new cell, which nothing shows yet.
LEMMA NewCellLists ==
  ASSUME ListInv, Lapses = {}, todo # << >>, val # None, NEW h \in {obj, Swept}, NEW c \in Cell, GcNew(h, c),
         ~AwaitsTail(Top)
  PROVE  Fine(obj', Values(roots, todo, val)) /\ val' = None
<1> DEFINE V == Values(roots, todo, val)
           o2 == [h EXCEPT ![c] = Fresh(val \in Pointer, val)]
<1>1. MayCollect /\ h[c] = None /\ obj' = o2 /\ val' = None
  BY DEF GcNew, NoValue
<1>2. Fine(h, V) /\ (val \in Cell => val \in V)
  BY <1>1, ReadyLists
<1>3. val \in Pointer \cup {Scalar}
  BY DEF ListInv, GenCodeInv, Value
<1> HIDE DEF V
<1>4. Fine(o2, V)
  BY <1>1, <1>2, <1>3, CellMade
<1> QED BY <1>1, <1>4 DEF V

\* The first cell of a literal or an outermost cons.
LEMMA FirstLists ==
  ASSUME ListInv, Lapses = {}, GenCodeInv', todo # << >>, val # None, NEW h \in {obj, Swept}, NEW c \in Cell,
         GcNew(h, c), NewRoot(c), Top.regs = << >>, NEW s,
         (Top.op = "pair" /\ s = <<c, c>>) \/ (Top.op = "cons" /\ s = <<c>>),
         todo' = WithTop([Top EXCEPT !.regs = s])
  PROVE  ListInv'
<1> DEFINE t == [Top EXCEPT !.regs = s]
           r2 == [roots EXCEPT ![1] = Append(@, c)]
           td2 == Append(SubSeq(todo, 1, Len(todo) - 1), t)
<1>1. roots' = r2 /\ todo' = td2
  BY DEF NewRoot, WithTop, Below
<1>2. Fine(obj', Values(roots, todo, val)) /\ val' = None
  BY NewCellLists DEF AwaitsTail
<1>3. Typed(roots, todo) /\ Shape(roots, todo)
  BY ShownNow
<1>4. t \in Constructs /\ t.op = Top.op /\ t.slot = Top.slot /\ t.regs = s /\ Registers(t)
  <2>1. <<c, c>> \in Seq(Pointer \cup {Scalar}) /\ Len(<<c, c>>) = 2 /\ <<c, c>>[1] = c /\ <<c, c>>[2] = c
    BY DEF Pointer
  <2>2. <<c>> \in Seq(Pointer \cup {Scalar}) /\ Len(<<c>>) = 1 /\ <<c>>[1] = c
    BY DEF Pointer
  <2>3. s \in Seq(Pointer \cup {Scalar}) /\ Top.op \in {"pair", "cons", "nested"}
        /\ IF Top.op = "pair" THEN Len(s) = 2 /\ s[1] \in Cell /\ s[2] \in Cell ELSE Len(s) = 1 /\ s[1] \in Cell
    BY <2>1, <2>2
  <2> QED BY <2>3, CellsHeld DEF ListInv
<1> HIDE DEF t
<1>5. t.op = todo[Len(todo)].op /\ t.slot = todo[Len(todo)].slot
  BY <1>4 DEF Top
<1>6. /\ Continues(roots, todo, r2, td2, Len(todo)) /\ Len(td2) = Len(todo) /\ td2[Len(todo)] = t
      /\ \A k \in 1 .. Len(todo) - 1 : td2[k] = todo[k]
  <2>1. Continues(roots, todo, r2, td2, Len(todo))
    BY <1>3, <1>4, <1>5, NewRootAux
  <2>2. todo \in Seq(Constructs) /\ Len(todo) >= 1
    BY <1>3, Numbers DEF Typed
  <2>3. Len(td2) = Len(todo) /\ td2[Len(todo)] = t /\ \A k \in 1 .. Len(todo) - 1 : td2[k] = todo[k]
    BY <1>4, <2>2, LastReplaced
  <2> QED BY <2>1, <2>3
<1>7. Making(t)
  <2>1. Len(<<c, c>>) = 2 /\ Len(<<c>>) = 1 /\ Len(<< >>) = 0
    OBVIOUS
  <2>2. s # << >> /\ Top.op \in {"pair", "cons"}
    BY <2>1
  <2> QED BY <1>4, <2>2 DEF Making
<1> HIDE DEF r2, td2
<1> QED BY <1>1, <1>2, <1>6, <1>7, MakingLists

\* The first cell of a literal is made.
LEMMA PairFirstLists ==
  ASSUME ListInv, Lapses = {}, GenCodeInv', NEW h \in {obj, Swept}, NEW c \in Cell, Pair_first(h, c)
  PROVE  ListInv'
BY FirstLists DEF Pair_first, Element, Evaluated

\* The cell of an outermost cons is made.
LEMMA ConsFirstLists ==
  ASSUME ListInv, Lapses = {}, GenCodeInv', NEW h \in {obj, Swept}, NEW c \in Cell, Cons_first(h, c)
  PROVE  ListInv'
BY FirstLists DEF Cons_first, Evaluated

\* The cell of a cons inside a cons is made and linked to the cell before it.
LEMMA ConsNestedLists ==
  ASSUME ListInv, Lapses = {}, GenCodeInv', NEW h \in {obj, Swept}, NEW c \in Cell, Cons_nested(h, c)
  PROVE  ListInv'
<1> DEFINE t == [Top EXCEPT !.regs = <<c>>]
           td2 == Append(SubSeq(todo, 1, Len(todo) - 1), t)
<1>1. /\ GcNew(h, c) /\ roots' = roots /\ todo' = td2
      /\ todo # << >> /\ val # None /\ Top.op = "nested" /\ Top.regs = << >>
  BY DEF Cons_nested, WithTop, Below, Evaluated
<1>2. Fine(obj', Values(roots, todo, val)) /\ val' = None
  BY <1>1, NewCellLists DEF AwaitsTail
<1>3. Typed(roots, todo) /\ Shape(roots, todo)
  BY ShownNow
<1>4. t \in Constructs /\ t.op = Top.op /\ t.slot = Top.slot /\ t.regs = <<c>> /\ Registers(t)
  <2>1. <<c>> \in Seq(Pointer \cup {Scalar}) /\ Len(<<c>>) = 1 /\ <<c>>[1] = c
    BY DEF Pointer
  <2> HIDE DEF t
  <2> QED BY <1>1, <2>1, CellsHeld DEF t, ListInv
<1> HIDE DEF t
<1>5. t.op = todo[Len(todo)].op /\ t.slot = todo[Len(todo)].slot
  BY <1>4 DEF Top
<1>6. /\ Continues(roots, todo, roots, td2, Len(todo)) /\ Len(td2) = Len(todo) /\ td2[Len(todo)] = t
      /\ \A k \in 1 .. Len(todo) - 1 : td2[k] = todo[k]
  <2>1. roots \in Seq(Seq(Pointer)) /\ Extends(roots, roots)
    BY <1>3 DEF Typed, Extends
  <2> QED BY <1>1, <1>3, <1>4, <1>5, <2>1, ReplaceContinues
<1>7. Making(t)
  <2>1. <<c>> # << >>
    OBVIOUS
  <2> QED BY <1>1, <1>4, <2>1 DEF Making
<1> HIDE DEF td2
<1> QED BY <1>1, <1>2, <1>6, <1>7, MakingLists

\* The new cell is linked to the last one, from which it cannot be found.
LEMMA PairNextLists ==
  ASSUME ListInv, Lapses = {}, GenCodeInv', NEW h \in {obj, Swept}, NEW c \in Cell, Pair_next(h, c)
  PROVE  ListInv'
<1> DEFINE s == [Top.regs EXCEPT ![2] = c]
           t == [Top EXCEPT !.regs = s]
           td2 == Append(SubSeq(todo, 1, Len(todo) - 1), t)
           b == Top.regs[2]
           x == Fresh(val \in Pointer, val)
           o1 == [h EXCEPT ![c] = x]
           o2 == [h EXCEPT ![c] = x, ![b].cdr = c]
           V == Values(roots, todo, val)
<1>1. /\ MayCollect /\ h[c] = None /\ h[b] # None /\ obj' = o2 /\ val' = None /\ roots' = roots /\ todo' = td2
      /\ todo # << >> /\ val # None /\ Top.op = "pair" /\ Top.regs # << >>
  BY DEF Pair_next, Element, WithTop, Below, Evaluated, NoValue
<1>2. Fine(h, V) /\ Kept(h, roots, todo, val, from) /\ (val \in Cell => val \in V)
  BY <1>1, ReadyLists DEF AwaitsTail
<1>3. val \in Pointer \cup {Scalar} /\ Typed(roots, todo) /\ Shape(roots, todo)
  BY <1>1, ShownNow DEF ListInv, GenCodeInv, Value
<1>4. /\ Top.regs \in Seq(Pointer \cup {Scalar}) /\ Len(Top.regs) = 2 /\ Top.regs[1] \in Cell /\ b \in Cell
      /\ Len(todo) \in 1 .. Len(todo)
  <2>1. Top \in Constructs /\ Registers(Top) /\ Len(todo) \in 1 .. Len(todo)
    BY <1>1, Innermost DEF ListInv
  <2> QED BY <1>1, <2>1 DEF Constructs, Registers
<1>5. s \in Seq(Pointer \cup {Scalar}) /\ Len(s) = 2 /\ s[1] \in Cell /\ s[2] \in Cell
  <2>1. c \in Pointer \cup {Scalar} /\ 2 \in 1 .. Len(Top.regs)
    BY <1>4 DEF Pointer
  <2> QED BY <1>4, <2>1, ExceptSeq
<1> HIDE DEF s
<1>6. t \in Constructs /\ t.op = Top.op /\ t.slot = Top.slot /\ t.regs = s /\ Registers(t)
  BY <1>1, <1>5, CellsHeld DEF ListInv
<1> HIDE DEF t, V
<1>7. h[b].cdr = None
  <2>1. Making(Top) /\ LastCell(Top) = b
    BY <1>1, <1>4 DEF Making, LastCell
  <2> QED BY <1>1, <1>2, <1>4, <2>1 DEF Kept, Ends, Top
<1>8. /\ Fine(o1, V) /\ c \in Unlinked(o1) /\ c \notin Alloc(h)
      /\ \A d \in Cell : d # c => o1[d] = h[d]
  <2>1. h[c] = None /\ Fine(h, V) /\ val \in Pointer \cup {Scalar} /\ (val \in Cell => val \in V)
    BY <1>1, <1>2, <1>3
  <2> HIDE DEF b
  <2> QED BY <2>1, CellMade
<1> HIDE DEF b, x
<1>9. b # c /\ b \in Alloc(h)
  BY <1>1, <1>4 DEF Alloc
<1>10. h \in HeapType /\ o1 \in HeapType
  BY <1>2, <1>8 DEF Fine
<1>11. o2[b] = [o1[b] EXCEPT !.cdr = c] /\ \A d \in Cell : d # b => o2[d] = o1[d]
  BY <1>4, <1>9, <1>10 DEF HeapType
<1> HIDE DEF o1, o2
<1>12. b \in Unlinked(o1) /\ o1[b] # None
  BY <1>1, <1>4, <1>7, <1>8, <1>9 DEF Unlinked, Alloc
<1>13. c \in Pointer
  BY DEF Pointer
<1>14. /\ Alloc(o2) = Alloc(o1) /\ o2[b].cdr = c /\ o2[b].car = o1[b].car
       /\ \A d \in Cell : d # b => o2[d] = o1[d]
  BY <1>4, <1>10, <1>11, <1>12, <1>13, CdrStored
<1>15. \A d \in Alloc(o1) : d # b => o2[d] = o1[d]
  BY <1>14 DEF Alloc
<1>16. b \notin RowIn(o1, c)
  BY <1>8, <1>9, RowOfUnlinked
<1>17. Shown(o1) \subseteq Shown(o2) /\ NoCircle(o2) /\ Cars(o2) = Cars(o1)
  BY <1>8, <1>12, <1>13, <1>14, <1>15, <1>16, ShownLinked DEF Fine
<1>18. obj' \in HeapType /\ Sane(obj')
  BY DEF GenCodeInv, Kept, Sound, Sane
<1>19. Fine(o2, V)
  BY <1>1, <1>8, <1>17, <1>18 DEF Fine
<1>20. t.op = todo[Len(todo)].op /\ t.slot = todo[Len(todo)].slot
  BY <1>6 DEF Top
<1>21. /\ Continues(roots, todo, roots, td2, Len(todo)) /\ Len(td2) = Len(todo) /\ td2[Len(todo)] = t
       /\ \A k \in 1 .. Len(todo) - 1 : td2[k] = todo[k]
  <2>1. roots \in Seq(Seq(Pointer)) /\ Extends(roots, roots)
    BY <1>3 DEF Typed, Extends
  <2> QED BY <1>1, <1>3, <1>6, <1>20, <2>1, ReplaceContinues
<1>22. Making(t)
  <2>1. s # << >>
    BY <1>5
  <2> QED BY <1>1, <1>6, <2>1 DEF Making
<1> HIDE DEF td2
<1>23. Fine(obj', Values(roots, todo, val))
  BY <1>1, <1>19 DEF V
<1> QED BY <1>1, <1>21, <1>22, <1>23, MakingLists

-------------------------------------------------------------------------------
(* The theorem.                                                            *)

\* Nothing is shown before the first expression.
LEMMA ListInit ==
  ASSUME Init
  PROVE  ListInv
<1>1. GenCodeInv
  BY GenCodeInit
<1>2. Alloc(obj) = {}
  BY DEF Init, Alloc
<1>3. val = None /\ None \notin Cell /\ todo = << >> /\ \A k \in 1 .. Len(<< >>) : FALSE
  BY WordAssumption DEF Init
<1>4. Values(roots, todo, val) = {}
  BY <1>3 DEF Values
<1>5. Cars(obj) = {} /\ NoCircle(obj)
  BY <1>2 DEF Cars, NoCircle
<1> QED BY <1>1, <1>4, <1>5 DEF ListInv, Lists

\* Every step of a program without lapses keeps what is shown.
LEMMA ListNext ==
  ASSUME ListInv, Lapses = {}, GenCodeInv', Next
  PROVE  ListInv'
<1>1. CASE Start \/ Literal(Scalar) \/ Literal(Null)
  BY <1>1, StartLists, LiteralLists
<1>2. CASE \E op \in {"pair", "cons", "call", "load", "var", "seq"} : Enter(op)
  BY <1>2, EnterLists
<1>3. CASE EnterNested \/ EnterFor
  BY <1>3, EnterNestedLists, EnterForLists
<1>4. CASE \E s \in Named : \/ Identifier(s) \/ EnterAssign(s)
                            \/ \E c \in Cell : EnterStore(s, c)
  BY <1>4, IdentifierLists, EnterAssignLists, EnterStoreLists
<1>5. CASE \E h \in {obj, Swept}, c \in Cell :
             Pair_first(h, c) \/ Pair_next(h, c) \/ Cons_first(h, c) \/ Cons_nested(h, c)
  BY <1>5, PairFirstLists, PairNextLists, ConsFirstLists, ConsNestedLists
<1>6. CASE \E w \in Pointer \cup {Scalar} : Load(w)
  BY <1>6, LoadLists
<1>7. CASE Projected \/ \E c \in Cell : Projection(c) \/ Deeper(c)
  BY <1>7, ProjectedLists, ProjectionLists, DeeperLists
<1>8. CASE Pair_end \/ Cons_end \/ Argument \/ Invoke \/ Return
  BY <1>8, PairEndLists, ConsEndLists, ArgumentLists, InvokeLists, ReturnLists
<1>9. CASE Initialise \/ Assign \/ Store \/ Last \/ Discard \/ Iterate \/ Loop_end
  BY <1>9, InitialiseLists, AssignLists, StoreLists, LastLists, DiscardLists, IterateLists, LoopEndLists
<1> QED BY <1>1, <1>2, <1>3, <1>4, <1>5, <1>6, <1>7, <1>8, <1>9 DEF Next

\* Every step keeps the invariant.
LEMMA ListStep ==
  ASSUME ListInv, [Next]_vars
  PROVE  ListInv'
<1>1. GenCodeInv'
  BY GenCodeStep DEF ListInv
<1>2. CASE Lapses # {}
  BY <1>1, <1>2 DEF ListInv
<1>3. CASE Lapses = {} /\ Next
  BY <1>1, <1>3, ListNext
<1>4. CASE UNCHANGED vars
  BY <1>1, <1>4 DEF ListInv, vars
<1> QED BY <1>2, <1>3, <1>4

\* The invariant says that lists end.
LEMMA ListsEndNow ==
  ASSUME ListInv, Lapses = {}
  PROVE  ListsEnd
<1>1. /\ Values(roots, todo, val) \subseteq Shown(obj) /\ Shown(obj) \in SUBSET Cell /\ NoCircle(obj)
      /\ val \in Cell => val \in Shown(obj)
      /\ \A c \in Shown(obj) : /\ c \in Alloc(obj) /\ obj[c].cdr # None
                               /\ obj[c].car \in Cell => obj[c].car \in Shown(obj)
                               /\ obj[c].cdr \in Cell => obj[c].cdr \in Shown(obj)
  BY ShownNow DEF Shown, Alloc
<1>2. ASSUME NEW k \in DOMAIN todo, todo[k].op = "call", NEW j \in DOMAIN todo[k].regs, todo[k].regs[j] \in Cell
      PROVE  todo[k].regs[j] \in Shown(obj)
  <2>1. Typed(roots, todo) /\ Shape(roots, todo)
    BY ShownNow
  <2>2. k \in 1 .. Len(todo)
    BY <2>1, LenProperties DEF Typed
  <2>3. todo[k] \in Constructs
    BY <2>1, <2>2, Numbers
  <2>4. j \in 1 .. Len(todo[k].regs)
    <3>1. todo[k].regs \in Seq(Pointer \cup {Scalar})
      BY <2>3 DEF Constructs
    <3> QED BY <3>1, LenProperties
  <2>5. ~Making(todo[k])
    BY <1>2 DEF Making
  <2>6. todo[k].regs[j] \in Values(roots, todo, val)
    BY <1>2, <2>2, <2>4, <2>5 DEF Values
  <2> QED BY <1>1, <2>6
<1>3. todo # << >> => \A s \in Named : Frame[s] \in Cell => Frame[s] \in Shown(obj)
  BY VariableShown
<1>4. Visible \subseteq Shown(obj)
  BY <1>1, <1>2, <1>3 DEF Visible
<1>5. \A d \in Shown(obj) : NamesIn(obj, d) \subseteq Shown(obj)
  BY <1>1 DEF NamesIn
<1>6. Reach(Visible) \subseteq Shown(obj)
  BY <1>1, <1>4, <1>5, HeapOperators, ReachLeast
<1>7. \A c \in Reach(Visible) : obj[c].cdr # None /\ c \in Alloc(obj)
  BY <1>1, <1>6
<1>8. \A S \in SUBSET Reach(Visible) : S # {} => \E c \in S : obj[c].cdr \notin S
  <2> SUFFICES ASSUME NEW S \in SUBSET Reach(Visible), S # {}
               PROVE  \E c \in S : obj[c].cdr \notin S
    OBVIOUS
  <2>1. S \in SUBSET Alloc(obj)
    BY <1>7
  <2> QED BY <1>1, <2>1 DEF NoCircle
<1>9. \A c \in Reach(Visible) : obj[c] # None => obj[c].cdr # None
  BY <1>7
<1>10. \A S \in (SUBSET Reach(Visible)) \ {{}} : \E c \in S : obj[c] = None \/ obj[c].cdr \notin S
  BY <1>8
<1> QED BY <1>9, <1>10 DEF ListsEnd

\* No value shows a cell that is not complete, and the cdrs of every value end, as long as
\* the program avoids the three lapses: the loops of gc_proj and print_cons stop
\* (gc.c:123-130, codegen.rs:1420).
THEOREM ListsEndCorrect == Spec => [](Lapses = {} => ListsEnd)
<1>1. Init => ListInv
  BY ListInit
<1>2. ListInv /\ [Next]_vars => ListInv'
  BY ListStep
<1>3. ListInv => (Lapses = {} => ListsEnd)
  BY ListsEndNow
<1> QED BY <1>1, <1>2, <1>3, PTL DEF Spec
===============================================================================
