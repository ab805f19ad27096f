------------------------------- MODULE GcProofs -------------------------------
(***************************************************************************)
(* Proofs about the collector, for an arena of any size, a shadow stack of *)
(* any depth, frames of any size, and any program that keeps the protocol  *)
(* of Gc, lists of several cells included.                                 *)
(*                                                                         *)
(* The argument: HeapInv is inductive.  Every action preserves each of its *)
(* conjuncts, one lemma per group of actions; the theorems after it read   *)
(* the properties off it.  LiveInv, in the second part, extends it.        *)
(***************************************************************************)
EXTENDS Gc, SequenceTheorems, FiniteSetTheorems, TLAPS

\* No address is one of the words Null, Scalar, One.
LEMMA AddressNotWord ==
  ASSUME NEW p \in CarPtr \cup CdrPtr \cup HeaderPtr
  PROVE  p # Null /\ p # Scalar /\ p # One
BY WordAssumption

\* The three steps of pointer arithmetic that stay inside a cell or reach the cell
\* before it.
LEMMA BeforeType ==
  ASSUME NEW c \in Cell
  PROVE  /\ Before(<<c, "cdr">>) = <<c, "car">>
         /\ Before(<<c, "car">>) = <<c, "header">>
         /\ Before(<<c, "header">>) = <<c - 1, "cdr">>
BY DEF Before

\* setMarked(p), on the addresses mark() calls it on, keeps the shape of the heap
\* and only touches marks and null cdrs.
LEMMA SetMarkedType ==
  ASSUME TypeOK, NEW p \in CarPtr \cup HeaderPtr, ~isMarked(p), setMarked(p)
  PROVE  /\ header' \in [Cell -> [is_marked : BOOLEAN, is_pointer : BOOLEAN]]
         /\ cdr' \in [Cell -> {Null, One} \cup CarPtr \cup CdrPtr]
         /\ \A c \in Cell : header'[c].is_pointer = header[c].is_pointer
<1>1. CASE p \in CarPtr
  <2>1. PICK c \in Cell : p = <<c, "car">>
    BY <1>1 DEF CarPtr
  <2>2. extractHeader(p) = <<c, "header">>
    BY <2>1, BeforeType DEF extractHeader
  <2>3. header' = [header EXCEPT ![c].is_marked = TRUE] /\ cdr' = cdr
    BY <2>2 DEF setMarked
  <2> QED
    BY <2>3 DEF TypeOK
<1>2. CASE p \in HeaderPtr
  <2>1. PICK c \in Cell : p = <<c, "header">>
    BY <1>2 DEF HeaderPtr
  <2>2. extractHeader(p) = <<c - 1, "cdr">>
    BY <2>1, BeforeType DEF extractHeader
  <2>3. c - 1 # -1
    BY <2>2 DEF isMarked
  <2>4. c - 1 \in Cell
    BY <2>3, NumCellsAssumption DEF Cell
  <2>5. cdr' = [cdr EXCEPT ![c - 1] = One] /\ header' = header
    BY <2>2 DEF setMarked
  <2> QED
    BY <2>4, <2>5 DEF TypeOK
<1> QED
  BY <1>1, <1>2

-------------------------------------------------------------------------------
(* Links.                                                                  *)

LEMMA CellInt == Cell \subseteq Int /\ \A c \in Cell : c >= 0 /\ c > -1 /\ c < NumCells
BY NumCellsAssumption DEF Cell

\* Taking the first cell off a list: the list starts where the cell's link leads,
\* and the other links stay good.
LEMMA Unlink ==
  ASSUME NEW S \in SUBSET Cell, NEW c0 \in S, \A e \in S : e >= c0, NEW w
  PROVE  /\ LinksTo(S, c0, w) => LinksTo(S \ {c0}, -1, w)
         /\ \A c \in S \ {c0} : LinksTo(S, c, w) => LinksTo(S \ {c0}, c, w)
<1> \A e \in S : e \in Int /\ e > -1
  BY CellInt
<1>1. ASSUME LinksTo(S, c0, w) PROVE LinksTo(S \ {c0}, -1, w)
  <2>1. CASE w = Null /\ \A d \in S : d <= c0
    <3>1. S \ {c0} = {}
      BY <2>1
    <3> QED
      BY <2>1, <3>1 DEF LinksTo
  <2>2. CASE \E d \in S : w = <<d, "cdr">> /\ d > c0 /\ \A e \in S : e <= c0 \/ e >= d
    <3>1. PICK d \in S : w = <<d, "cdr">> /\ d > c0 /\ \A e \in S : e <= c0 \/ e >= d
      BY <2>2
    <3>2. d \in S \ {c0} /\ d > -1 /\ \A e \in S \ {c0} : e >= d
      BY <3>1
    <3> QED
      BY <3>1, <3>2 DEF LinksTo
  <2> QED
    BY <1>1, <2>1, <2>2 DEF LinksTo
<1>2. ASSUME NEW c \in S \ {c0}, LinksTo(S, c, w) PROVE LinksTo(S \ {c0}, c, w)
  <2>1. c > c0 /\ c \in Int
    OBVIOUS
  <2>2. CASE w = Null /\ \A d \in S : d <= c
    BY <2>2 DEF LinksTo
  <2>3. CASE \E d \in S : w = <<d, "cdr">> /\ d > c /\ \A e \in S : e <= c \/ e >= d
    <3>1. PICK d \in S : w = <<d, "cdr">> /\ d > c /\ \A e \in S : e <= c \/ e >= d
      BY <2>3
    <3>2. d \in S \ {c0}
      BY <2>1, <3>1
    <3> QED
      BY <3>1, <3>2 DEF LinksTo
  <2> QED
    BY <1>2, <2>2, <2>3 DEF LinksTo
<1> QED
  BY <1>1, <1>2

\* Adding a cell above all others: a link that led somewhere still does.
LEMMA Extend ==
  ASSUME NEW S \in SUBSET Cell, NEW n \in Cell, \A e \in S : e < n,
         NEW c \in S \cup {-1}, NEW w, LinksTo(S, c, w), w # Null
  PROVE  LinksTo(S \cup {n}, c, w)
<1> /\ \A e \in S : e \in Int
    /\ n \in Int
  BY CellInt
<1>1. PICK d \in S : w = <<d, "cdr">> /\ d > c /\ \A e \in S : e <= c \/ e >= d
  BY DEF LinksTo
<1>2. \A e \in S \cup {n} : e <= c \/ e >= d
  BY <1>1
<1> QED
  BY <1>1, <1>2 DEF LinksTo

\* The last cell of a list links to the cell added above it, or to nothing.
LEMMA LinkLast ==
  ASSUME NEW S \in SUBSET Cell, NEW n \in Cell, \A e \in S : e < n,
         NEW m \in S \cup {-1}, \A e \in S : e <= m
  PROVE  LinksTo(S \cup {n}, m, <<n, "cdr">>) /\ LinksTo(S, m, Null)
<1> /\ \A e \in S : e \in Int
    /\ n \in Int /\ n > -1
  BY CellInt
<1>1. n > m /\ \A e \in S \cup {n} : e <= m \/ e >= n
  OBVIOUS
<1> QED
  BY <1>1 DEF LinksTo

-------------------------------------------------------------------------------
(* Initially.                                                              *)

LEMMA InitHeapInv == Init => HeapInv
<1> SUFFICES ASSUME Init PROVE HeapInv
  OBVIOUS
<1>1. Free = Cell
  BY DEF Init, Free, Taken
<1>2. Cell \subseteq Int /\ 0 \in Cell /\ \A c \in Cell : c >= 0 /\ c < NumCells
  BY NumCellsAssumption DEF Cell
<1>3. TypeOK
  BY <1>2, NumCellsAssumption DEF Init, initAllocator, TypeOK, NoReq, CdrPtr
<1>4. FreeListOK
  <2>1. LinksTo(Cell, -1, f)
    BY <1>2 DEF Init, initAllocator, LinksTo
  <2>2. ASSUME NEW c \in Cell PROVE LinksTo(Cell, c, cdr[c])
    <3>1. CASE c + 1 \in Cell
      BY <3>1, <1>2 DEF Init, initAllocator, LinksTo
    <3>2. CASE c + 1 \notin Cell
      BY <3>2, <1>2, NumCellsAssumption DEF Init, initAllocator, LinksTo, Cell
    <3> QED
      BY <3>1, <3>2
  <2> QED
    BY <1>1, <2>1, <2>2 DEF FreeListOK
<1>5. MarksClear /\ CarKind /\ SweepOK
  BY WordAssumption DEF Init, initAllocator, MarksClear, CarKind, SweepOK, NoReq
<1> QED
  BY <1>3, <1>4, <1>5 DEF HeapInv

-------------------------------------------------------------------------------
(* The program.                                                            *)

\* Nothing that is loaded or stored by the program touches the free list, or breaks
\* the kind of a car.
LEMMA ClientStep == HeapInv /\ Client => HeapInv'
<1> SUFFICES ASSUME HeapInv, Client PROVE HeapInv'
  OBVIOUS
<1> USE DEF Running, heap, collector, Values
<1>1. ASSUME NEW s \in Slot, Keep(s) PROVE HeapInv'
  <2>1. TypeOK'
    <3>1. chain \in Seq([Slot -> CarPtr \cup {Null}]) /\ ret \in CarPtr \cup {Null}
      BY DEF HeapInv, TypeOK
    <3>2. chain' \in Seq([Slot -> CarPtr \cup {Null}])
      <4>1. CASE chain = << >>
        <5>1. DOMAIN chain = {} /\ chain' = chain
          BY <1>1, <4>1 DEF Keep
        <5> QED
          BY <3>1, <5>1
      <4>2. CASE chain # << >>
        BY <1>1, <3>1, <4>2 DEF Keep
      <4> QED
        BY <4>1, <4>2
    <3> QED
      BY <1>1, <3>2 DEF HeapInv, TypeOK, Keep
  <2>2. FreeListOK' /\ MarksClear' /\ CarKind' /\ SweepOK'
    BY <1>1 DEF HeapInv, Keep, FreeListOK, MarksClear, CarKind, SweepOK, Free, Taken
  <2> QED
    BY <2>1, <2>2 DEF HeapInv
<1>2. ASSUME NEW args \in [Slot -> CarPtr \cup {Null}], gc_push(args) PROVE HeapInv'
  <2>1. TypeOK'
    BY <1>2 DEF HeapInv, TypeOK, gc_push
  <2>2. FreeListOK' /\ MarksClear' /\ CarKind' /\ SweepOK'
    BY <1>2 DEF HeapInv, gc_push, FreeListOK, MarksClear, CarKind, SweepOK, Free, Taken
  <2> QED
    BY <2>1, <2>2 DEF HeapInv
<1>3. ASSUME NEW v \in CarPtr \cup {Null}, gc_pop(v) PROVE HeapInv'
  <2>1. TypeOK'
    BY <1>3 DEF HeapInv, TypeOK, gc_pop
  <2>2. FreeListOK' /\ MarksClear' /\ CarKind' /\ SweepOK'
    BY <1>3 DEF HeapInv, gc_pop, FreeListOK, MarksClear, CarKind, SweepOK, Free, Taken
  <2> QED
    BY <2>1, <2>2 DEF HeapInv
<1>4. ASSUME NEW s \in Slot, NEW v \in CarPtr \cup {Null}, Assign(s, v), chain # << >>
      PROVE  HeapInv'
  <2>1. TypeOK'
    BY <1>4 DEF HeapInv, TypeOK, Assign
  <2>2. FreeListOK' /\ MarksClear' /\ CarKind' /\ SweepOK'
    BY <1>4 DEF HeapInv, Assign, FreeListOK, MarksClear, CarKind, SweepOK, Free, Taken
  <2> QED
    BY <2>1, <2>2 DEF HeapInv
<1>5. ASSUME NEW c \in Cell, NEW v \in {Null, Scalar} \cup CarPtr,
             header[c].is_pointer => v # Scalar, StoreCar(c, v)
      PROVE  HeapInv'
  <2>1. TypeOK' /\ CarKind'
    BY <1>5 DEF HeapInv, TypeOK, CarKind, StoreCar
  <2>2. FreeListOK' /\ MarksClear' /\ SweepOK'
    BY <1>5 DEF HeapInv, StoreCar, FreeListOK, MarksClear, SweepOK, Free, Taken
  <2> QED
    BY <2>1, <2>2 DEF HeapInv
<1>6. ASSUME NEW c \in Cell, NEW v \in CarPtr \cup {Null}, StoreCdr(c, v) PROVE HeapInv'
  <2>1. TypeOK' /\ CarKind'
    BY <1>6 DEF HeapInv, TypeOK, CarKind, StoreCdr
  <2>2. Free' = Free /\ c \notin Free /\ \A d \in Free : d # c
    BY <1>6 DEF HeapInv, TypeOK, StoreCdr, Free, Taken
  <2>3. \A d \in Free : cdr'[d] = cdr[d]
    BY <1>6, <2>2 DEF HeapInv, TypeOK, StoreCdr, Free
  <2>4. FreeListOK' /\ MarksClear' /\ SweepOK'
    BY <1>6, <2>2, <2>3 DEF HeapInv, StoreCdr, FreeListOK, MarksClear, SweepOK
  <2> QED
    BY <2>1, <2>4 DEF HeapInv
<1>7. \A c \in Held : c \in Cell
  BY DEF Held, Taken
<1>8. Values \subseteq CarPtr \cup {Null} /\ \A v \in Values : v # Scalar
  BY AddressNotWord, WordAssumption
<1> QED
  BY <1>1, <1>2, <1>3, <1>4, <1>5, <1>6, <1>7, <1>8, AddressNotWord, WordAssumption DEF Client

-------------------------------------------------------------------------------
(* gc_new.                                                                 *)

\* The head of a free list is a free cell, the lowest one.
LEMMA HeadIsFree ==
  ASSUME HeapInv, pc \in {"run", "alloc"}, f # Null
  PROVE  /\ f = <<f[1], "cdr">> /\ f[1] \in Free
         /\ \A e \in Free : e >= f[1]
<1>1. LinksTo(Free, -1, f)
  BY DEF HeapInv, FreeListOK
<1>2. PICK d \in Free : f = <<d, "cdr">> /\ \A e \in Free : e <= -1 \/ e >= d
  BY <1>1 DEF LinksTo
<1> QED
  BY <1>2, NumCellsAssumption DEF Free, Cell

\* Handing out the head leaves a free list of the other free cells.
LEMMA HandOutStep ==
  ASSUME HeapInv, pc \in {"run", "alloc"}, f # Null,
         NEW b \in BOOLEAN, NEW v \in {Null, Scalar} \cup CarPtr, b => v # Scalar,
         HandOut(b, v)
  PROVE  /\ header' \in [Cell -> [is_marked : BOOLEAN, is_pointer : BOOLEAN]]
         /\ car' \in [Cell -> {Null, Scalar} \cup CarPtr]
         /\ cdr' = cdr
         /\ f' \in CdrPtr \cup {Null}
         /\ ret' \in CarPtr
         /\ use' \in [Cell -> {"free", "open", "built"}]
         /\ LinksTo(Free', -1, f')
         /\ \A c \in Free' : LinksTo(Free', c, cdr'[c])
         /\ \A c \in Cell : ~header'[c].is_marked
         /\ \A c \in Cell : header'[c].is_pointer => car'[c] # Scalar
<1> DEFINE c0 == f[1]
<1>1. c0 \in Free /\ c0 \in Cell /\ Free \subseteq Cell /\ \A e \in Free : e >= c0
  BY HeadIsFree DEF Free
<1>3. TypeOK /\ CarKind /\ \A c \in Cell : ~header[c].is_marked
  BY DEF HeapInv, MarksClear
<1>4. \A c \in Free : LinksTo(Free, c, cdr[c])
  BY DEF HeapInv, FreeListOK
<1>5. /\ header' = [header EXCEPT ![c0] = [is_marked |-> FALSE, is_pointer |-> b]]
      /\ f' = cdr[c0]
      /\ car' = [car EXCEPT ![c0] = v]
      /\ use' = [use EXCEPT ![c0] = "open"]
      /\ ret' = <<c0, "car">>
      /\ cdr' = cdr
  BY DEF HandOut
<1>6. Free' = Free \ {c0}
  BY <1>1, <1>3, <1>5 DEF Free, Taken, TypeOK
<1>7. LinksTo(Free, c0, f')
  BY <1>1, <1>4, <1>5
<1>8. LinksTo(Free', -1, f')
  BY <1>1, <1>6, <1>7, Unlink
<1>9. ASSUME NEW c \in Free' PROVE LinksTo(Free', c, cdr'[c])
  <2>1. c \in Free \ {c0} /\ LinksTo(Free, c, cdr[c])
    BY <1>4, <1>6, <1>9
  <2> QED
    BY <2>1, <1>1, <1>5, <1>6, Unlink
<1>10. f' \in CdrPtr \cup {Null}
  BY <1>1, <1>7 DEF LinksTo, CdrPtr
<1>11. /\ header' \in [Cell -> [is_marked : BOOLEAN, is_pointer : BOOLEAN]]
       /\ car' \in [Cell -> {Null, Scalar} \cup CarPtr]
       /\ ret' \in CarPtr
       /\ use' \in [Cell -> {"free", "open", "built"}]
  BY <1>1, <1>3, <1>5 DEF TypeOK, CarPtr
<1>12. \A c \in Cell : ~header'[c].is_marked /\ (header'[c].is_pointer => car'[c] # Scalar)
  BY <1>1, <1>3, <1>5 DEF TypeOK, CarKind
<1> QED
  BY <1>5, <1>8, <1>9, <1>10, <1>11, <1>12

\* gc_new from a free list that is not empty, at once or after a collection.
LEMMA NewStep ==
  ASSUME HeapInv,
         \/ \E b \in BOOLEAN, v \in {Null, Scalar} \cup CarPtr :
              (b => v # Scalar) /\ gc_new(b, v)
         \/ gc_new_retry
  PROVE  HeapInv'
<1>1. ASSUME NEW b \in BOOLEAN, NEW v \in {Null, Scalar} \cup CarPtr, b => v # Scalar,
             gc_new(b, v)
      PROVE  HeapInv'
  <2>1. pc = "run" /\ f # Null /\ HandOut(b, v) /\ UNCHANGED <<chain, pc, req, collector>>
    BY <1>1 DEF gc_new, Running
  <2>2. TypeOK'
    BY <2>1, <1>1, HandOutStep DEF HeapInv, TypeOK, collector
  <2>3. FreeListOK' /\ MarksClear' /\ CarKind' /\ SweepOK'
    BY <2>1, <1>1, HandOutStep
       DEF HeapInv, FreeListOK, MarksClear, CarKind, SweepOK, collector
  <2> QED
    BY <2>2, <2>3 DEF HeapInv
<1>2. ASSUME gc_new_retry PROVE HeapInv'
  <2>1. pc = "alloc" /\ f # Null /\ HandOut(req.is_pointer, req.car)
    BY <1>2 DEF gc_new_retry
  <2>2. pc' = "run" /\ req' = NoReq /\ UNCHANGED <<chain, collector>>
    BY <1>2 DEF gc_new_retry
  <2>3. /\ req.is_pointer \in BOOLEAN /\ req.car \in {Null, Scalar} \cup CarPtr
        /\ req.is_pointer => req.car # Scalar
    BY DEF HeapInv, TypeOK, CarKind
  <2>4. TypeOK'
    BY <2>1, <2>2, <2>3, HandOutStep DEF HeapInv, TypeOK, collector, NoReq
  <2>5. FreeListOK' /\ MarksClear' /\ CarKind' /\ SweepOK'
    BY <2>1, <2>2, <2>3, HandOutStep
       DEF HeapInv, FreeListOK, MarksClear, CarKind, SweepOK, collector, NoReq
  <2> QED
    BY <2>4, <2>5 DEF HeapInv
<1> QED
  BY <1>1, <1>2

\* gc_new on an empty free list: the collector is entered with no free cell.
LEMMA CollectStep ==
  ASSUME HeapInv, NEW b \in BOOLEAN, NEW v \in {Null, Scalar} \cup CarPtr, b => v # Scalar,
         gc_new_collect(b, v)
  PROVE  HeapInv'
<1> USE DEF gc_new_collect, Running, heap
<1>1. TypeOK'
  BY DEF HeapInv, TypeOK
<1>2. FreeListOK' /\ MarksClear' /\ CarKind' /\ SweepOK'
  BY DEF HeapInv, FreeListOK, MarksClear, CarKind, SweepOK, Free, Taken
<1> QED
  BY <1>1, <1>2 DEF HeapInv

LEMMA AllocStep == HeapInv /\ Alloc => HeapInv'
<1> SUFFICES ASSUME HeapInv, Alloc PROVE HeapInv'
  OBVIOUS
<1>1. \A v \in Values : v \in {Null, Scalar} \cup CarPtr /\ v # Scalar
  BY AddressNotWord, WordAssumption DEF Values
<1>2. PICK b \in BOOLEAN, v \in {Null, Scalar} \cup CarPtr :
        (b => v # Scalar) /\ (gc_new(b, v) \/ gc_new_collect(b, v))
  BY <1>1 DEF Alloc
<1> QED
  BY <1>2, NewStep, CollectStep

-------------------------------------------------------------------------------
(* Marking.                                                                *)

\* While the collector marks there is no free cell, so that whatever it does to
\* marks and cdrs cannot hurt the free list.
LEMMA MarkPhase ==
  ASSUME HeapInv, pc = "roots", pc' \in {"roots", "undefined"},
         UNCHANGED <<car, f, use, req>>,
         \A c \in Cell : header'[c].is_pointer = header[c].is_pointer
  PROVE  FreeListOK' /\ MarksClear' /\ CarKind' /\ SweepOK'
<1>1. f = Null /\ LinksTo(Free, -1, f)
  BY DEF HeapInv, FreeListOK, SweepOK
<1>2. Free = {}
  <2>1. \A d \in Free : d > -1 /\ d \in Int
    BY CellInt DEF Free
  <2>2. \A d \in Free : <<d, "cdr">> # Null
    BY AddressNotWord DEF Free, CdrPtr
  <2> QED
    BY <1>1, <2>1, <2>2 DEF LinksTo
<1>3. Free' = {} /\ f' = Null
  BY <1>1, <1>2 DEF Free, Taken
<1>4. FreeListOK'
  BY <1>3 DEF FreeListOK, LinksTo
<1> QED
  BY <1>3, <1>4 DEF HeapInv, MarksClear, CarKind, SweepOK

LEMMA LastAndFront ==
  ASSUME NEW R, NEW s \in Seq(R), s # << >>
  PROVE  /\ Len(s) \in Nat \ {0}
         /\ s[Len(s)] \in R
         /\ SubSeq(s, 1, Len(s) - 1) \in Seq(R)
         /\ Len(SubSeq(s, 1, Len(s) - 1)) = Len(s) - 1
         /\ \A k \in 1 .. Len(s) - 1 : SubSeq(s, 1, Len(s) - 1)[k] = s[k]
<1>1. Len(s) \in Nat /\ DOMAIN s = 1 .. Len(s)
  OBVIOUS
<1>2. Len(s) \in Nat \ {0}
  OBVIOUS
<1>3. s[Len(s)] \in R
  BY <1>2
<1> DEFINE n == Len(s) - 1
           t == SubSeq(s, 1, n)
<1>4. n \in Int /\ n >= 0 /\ \A k \in 1 .. n : s[k] \in R
  BY <1>2
<1> HIDE DEF n
<1>5. /\ t \in Seq(R)
      /\ Len(t) = IF 1 <= n THEN n - 1 + 1 ELSE 0
      /\ \A k \in 1 .. n - 1 + 1 : t[k] = s[1 + k - 1]
  BY <1>4, SubSeqProperties
<1> HIDE DEF t
<1>6. Len(t) = n /\ \A k \in 1 .. n : t[k] = s[k]
  <2>1. n - 1 + 1 = n /\ (~(1 <= n) => n = 0)
    BY <1>4
  <2>2. \A k \in 1 .. n : 1 + k - 1 = k
    BY <1>4
  <2> QED
    BY <1>5, <2>1, <2>2
<1> QED
  BY <1>2, <1>3, <1>5, <1>6 DEF n, t

\* The activations of mark() are records with the address of a car or of a header.
LEMMA ActivationType ==
  ASSUME TypeOK, stack # << >>
  PROVE  /\ Top.ptr \in CarPtr \cup HeaderPtr
         /\ Popped \in Seq([ptr : CarPtr \cup HeaderPtr, at : {"car", "cdr"}])
         /\ \A p \in CarPtr \cup HeaderPtr, a \in {"car", "cdr"} :
              Append(Popped, [ptr |-> p, at |-> a])
                \in Seq([ptr : CarPtr \cup HeaderPtr, at : {"car", "cdr"}])
<1> DEFINE R == [ptr : CarPtr \cup HeaderPtr, at : {"car", "cdr"}]
<1>1. stack \in Seq(R)
  BY DEF TypeOK
<1>2. Top \in R /\ Popped \in Seq(R)
  <2> HIDE DEF R
  <2> QED
    BY <1>1, LastAndFront DEF Top, Popped
<1>4. \A p \in CarPtr \cup HeaderPtr, a \in {"car", "cdr"} :
        [ptr |-> p, at |-> a] \in R
  OBVIOUS
<1>5. Top.ptr \in CarPtr \cup HeaderPtr
  BY <1>2
<1> HIDE DEF R
<1>6. \A r \in R : Append(Popped, r) \in Seq(R)
  BY <1>2
<1> QED
  BY <1>2, <1>4, <1>5, <1>6 DEF R

\* A step that calls mark() on p, or does not.
LEMMA VisitType ==
  ASSUME TypeOK, NEW p \in CarPtr \cup HeaderPtr, NEW b \in BOOLEAN,
         IF b /\ ~isMarked(p) THEN setMarked(p) ELSE UNCHANGED <<header, cdr>>
  PROVE  /\ header' \in [Cell -> [is_marked : BOOLEAN, is_pointer : BOOLEAN]]
         /\ cdr' \in [Cell -> {Null, One} \cup CarPtr \cup CdrPtr]
         /\ \A c \in Cell : header'[c].is_pointer = header[c].is_pointer
<1>1. CASE b /\ ~isMarked(p)
  BY <1>1, SetMarkedType
<1>2. CASE ~(b /\ ~isMarked(p))
  BY <1>2 DEF TypeOK
<1> QED
  BY <1>1, <1>2

LEMMA MarkStep ==
  ASSUME HeapInv, markFromRoots \/ NextFrame \/ mark_car \/ mark_cdr \/ mark_wild
  PROVE  HeapInv'
<1> DEFINE R == [ptr : CarPtr \cup HeaderPtr, at : {"car", "cdr"}]
<1>0. TypeOK
  BY DEF HeapInv
<1>1. ASSUME markFromRoots PROVE HeapInv'
  <2> DEFINE ref == chain[cursor[1]][cursor[2]]
  <2>1. ref \in CarPtr \cup {Null}
    <3>1. cursor[1] \in 1 .. Len(chain) /\ chain[cursor[1]] \in [Slot -> CarPtr \cup {Null}]
      BY <1>0, <1>1 DEF TypeOK, markFromRoots
    <3> QED
      BY <3>1, <1>1 DEF markFromRoots
  <2>2. /\ header' \in [Cell -> [is_marked : BOOLEAN, is_pointer : BOOLEAN]]
        /\ cdr' \in [Cell -> {Null, One} \cup CarPtr \cup CdrPtr]
        /\ \A c \in Cell : header'[c].is_pointer = header[c].is_pointer
        /\ stack' \in Seq(R)
    <3>1. CASE ref # Null /\ ~isMarked(ref)
      <4>1. ref \in CarPtr /\ setMarked(ref) /\ stack' = Append(stack, Activation(ref))
        BY <1>1, <2>1, <3>1 DEF markFromRoots
      <4>2. stack' \in Seq(R)
        BY <1>0, <4>1 DEF TypeOK, Activation
      <4> QED
        BY <1>0, <3>1, <4>1, <4>2, SetMarkedType
    <3>2. CASE ~(ref # Null /\ ~isMarked(ref))
      BY <1>0, <1>1, <3>2 DEF TypeOK, markFromRoots
    <3> QED
      BY <3>1, <3>2
  <2>3. TypeOK'
    BY <1>0, <1>1, <2>2 DEF TypeOK, markFromRoots
  <2> QED
    BY <1>1, <2>2, <2>3, MarkPhase DEF HeapInv, markFromRoots
<1>2. ASSUME NextFrame PROVE HeapInv'
  <2>1. TypeOK'
    BY <1>0, <1>2 DEF TypeOK, NextFrame, heap
  <2> QED
    BY <1>2, <2>1, MarkPhase DEF HeapInv, NextFrame, heap
<1>3. ASSUME mark_car PROVE HeapInv'
  <2> DEFINE p    == Top.ptr
             next == IF isPointer(p) THEN car[p[1]] ELSE Null
             here == Append(Popped, [ptr |-> p, at |-> "cdr"])
  <2>1. stack # << >> /\ p \in CarPtr \cup HeaderPtr /\ here \in Seq(R)
    BY <1>0, <1>3, ActivationType DEF mark_car
  <2>2. next \in CarPtr \cup {Null}
    <3>1. CASE isPointer(p)
      <4>1. PICK c \in Cell : p = <<c, "car">> /\ header[c].is_pointer
        <5>1. CASE p \in HeaderPtr
          <6>1. PICK c \in Cell : p = <<c, "header">>
            BY <5>1 DEF HeaderPtr
          <6>2. extractHeader(p) = <<c - 1, "cdr">>
            BY <6>1, BeforeType DEF extractHeader
          <6> QED
            BY <3>1, <6>2 DEF isPointer
        <5>2. CASE p \in CarPtr
          <6>1. PICK c \in Cell : p = <<c, "car">>
            BY <5>2 DEF CarPtr
          <6>2. extractHeader(p) = <<c, "header">>
            BY <6>1, BeforeType DEF extractHeader
          <6> QED
            BY <3>1, <6>1, <6>2 DEF isPointer
        <5> QED
          BY <2>1, <5>1, <5>2
      <4> QED
        BY <1>0, <3>1, <4>1 DEF HeapInv, TypeOK, CarKind
    <3> QED
      BY <3>1
  <2>3. /\ header' \in [Cell -> [is_marked : BOOLEAN, is_pointer : BOOLEAN]]
        /\ cdr' \in [Cell -> {Null, One} \cup CarPtr \cup CdrPtr]
        /\ \A c \in Cell : header'[c].is_pointer = header[c].is_pointer
        /\ stack' \in Seq(R)
    <3>1. CASE next # Null /\ ~isMarked(next)
      <4>1. next \in CarPtr /\ setMarked(next) /\ stack' = Append(here, Activation(next))
        BY <1>3, <2>2, <3>1 DEF mark_car
      <4>2. Activation(next) \in R
        BY <4>1 DEF Activation
      <4>3. stack' \in Seq(R)
        BY <2>1, <4>1, <4>2
      <4> QED
        BY <1>0, <3>1, <4>1, <4>3, SetMarkedType
    <3>2. CASE ~(next # Null /\ ~isMarked(next))
      BY <1>0, <1>3, <2>1, <3>2 DEF TypeOK, mark_car
    <3> QED
      BY <3>1, <3>2
  <2>4. TypeOK'
    BY <1>0, <1>3, <2>3 DEF TypeOK, mark_car
  <2> QED
    BY <1>3, <2>3, <2>4, MarkPhase DEF HeapInv, mark_car
<1>4. ASSUME mark_cdr PROVE HeapInv'
  <2> DEFINE next_cdr  == CdrOf(Top.ptr)
             next_cell == Before(next_cdr)
  <2>1. stack # << >> /\ Top.ptr \in CarPtr \cup HeaderPtr /\ Popped \in Seq(R)
    BY <1>0, <1>4, ActivationType DEF mark_cdr
  <2>2. next_cdr \in CarPtr \cup CdrPtr \cup {Null}
    <3>1. next_cdr \in CarPtr \cup CdrPtr \cup {Null, Scalar, One}
      BY <1>0, <2>1 DEF TypeOK, CdrOf, CarPtr, HeaderPtr
    <3> QED
      BY <1>4, <3>1 DEF mark_cdr
  <2>3. next_cdr # Null => next_cell \in CarPtr \cup HeaderPtr
    <3>1. CASE next_cdr \in CarPtr
      <4>1. PICK c \in Cell : next_cdr = <<c, "car">>
        BY <3>1 DEF CarPtr
      <4>2. next_cell = <<c, "header">>
        BY <4>1, BeforeType
      <4> QED
        BY <4>2 DEF HeaderPtr
    <3>2. CASE next_cdr \in CdrPtr
      <4>1. PICK c \in Cell : next_cdr = <<c, "cdr">>
        BY <3>2 DEF CdrPtr
      <4>2. next_cell = <<c, "car">>
        BY <4>1, BeforeType
      <4> QED
        BY <4>2 DEF CarPtr
    <3> QED
      BY <2>2, <3>1, <3>2
  <2>4. /\ header' \in [Cell -> [is_marked : BOOLEAN, is_pointer : BOOLEAN]]
        /\ cdr' \in [Cell -> {Null, One} \cup CarPtr \cup CdrPtr]
        /\ \A c \in Cell : header'[c].is_pointer = header[c].is_pointer
        /\ stack' \in Seq(R)
    <3>1. CASE next_cdr # Null /\ ~isMarked(next_cell)
      <4>1. /\ next_cell \in CarPtr \cup HeaderPtr
            /\ setMarked(next_cell)
            /\ stack' = Append(Popped, Activation(next_cell))
        BY <1>4, <2>3, <3>1 DEF mark_cdr
      <4>2. Activation(next_cell) \in R
        BY <4>1 DEF Activation
      <4>3. stack' \in Seq(R)
        BY <2>1, <4>1, <4>2
      <4> QED
        BY <1>0, <3>1, <4>1, <4>3, SetMarkedType
    <3>2. CASE ~(next_cdr # Null /\ ~isMarked(next_cell))
      BY <1>0, <1>4, <2>1, <3>2 DEF TypeOK, mark_cdr
    <3> QED
      BY <3>1, <3>2
  <2>5. TypeOK'
    BY <1>0, <1>4, <2>4 DEF TypeOK, mark_cdr
  <2> QED
    BY <1>4, <2>4, <2>5, MarkPhase DEF HeapInv, mark_cdr
<1>5. ASSUME mark_wild PROVE HeapInv'
  <2>1. TypeOK'
    BY <1>0, <1>5 DEF TypeOK, mark_wild, heap, collector
  <2> QED
    BY <1>5, <2>1, MarkPhase DEF HeapInv, mark_wild, heap
<1> QED
  BY <1>1, <1>2, <1>3, <1>4, <1>5

-------------------------------------------------------------------------------
(* Sweeping.                                                               *)

LEMMA SweepBegins == ASSUME HeapInv, sweep PROVE HeapInv'
<1>1. TypeOK'
  BY NumCellsAssumption DEF HeapInv, TypeOK, sweep
<1>2. Free = {}
  <2>1. f = Null /\ LinksTo(Free, -1, Null)
    BY DEF HeapInv, FreeListOK, SweepOK, sweep
  <2>2. \A d \in Free : d > -1 /\ d \in Int /\ <<d, "cdr">> # Null
    BY CellInt, AddressNotWord DEF Free, CdrPtr
  <2> QED
    BY <2>1, <2>2 DEF LinksTo
<1>3. Free' = {} /\ f' = Null /\ prev' = Null /\ i' = 0 /\ pc' = "sweep"
  BY <1>2 DEF Free, Taken, sweep
<1>4. \A c \in Cell : ~(c < 0)
  BY CellInt
<1>5. FreeListOK' /\ MarksClear' /\ CarKind' /\ SweepOK'
  BY <1>3, <1>4 DEF HeapInv, FreeListOK, MarksClear, CarKind, SweepOK, LinksTo, sweep
<1> QED
  BY <1>1, <1>5 DEF HeapInv

LEMMA SweepMarked == ASSUME HeapInv, sweep_marked PROVE HeapInv'
<1>1. i \in Cell /\ i + 1 \in 0 .. NumCells
  BY NumCellsAssumption DEF HeapInv, TypeOK, sweep_marked, Cell
<1>2. TypeOK'
  BY <1>1 DEF HeapInv, TypeOK, sweep_marked
<1>3. /\ \A c \in Cell : header'[c].is_pointer = header[c].is_pointer
      /\ ~header'[i].is_marked
      /\ \A c \in Cell : c # i => header'[c] = header[c]
  BY <1>1 DEF HeapInv, TypeOK, sweep_marked
<1>4. \A c \in Cell : c < i + 1 => c < i \/ c = i
  BY <1>1, CellInt
<1>5. \A c \in Free : c < i + 1
  BY <1>1, CellInt DEF HeapInv, SweepOK, sweep_marked, Free
<1>6. Free' = Free
  BY DEF Free, Taken, sweep_marked
<1>7. FreeListOK' /\ MarksClear' /\ CarKind'
  BY <1>3 DEF HeapInv, FreeListOK, MarksClear, CarKind, sweep_marked
<1>8. SweepOK'
  BY <1>3, <1>4, <1>5, <1>6 DEF HeapInv, SweepOK, sweep_marked
<1> QED
  BY <1>2, <1>7, <1>8 DEF HeapInv

\* The cell under sweep's counter joins the free list at its end.
LEMMA SweepUnmarked == ASSUME HeapInv, sweep_unmarked PROVE HeapInv'
<1>1. i \in Cell /\ i + 1 \in 0 .. NumCells /\ i \in Int
  BY NumCellsAssumption DEF HeapInv, TypeOK, sweep_unmarked, Cell
<1>2. /\ \A c \in Free : c < i
      /\ \A c \in Cell : c < i => ~header[c].is_marked
      /\ LinksTo(Free, -1, f)
      /\ prev = Null => Free = {}
      /\ prev # Null => /\ prev[1] \in Free
                        /\ \A d \in Free : d <= prev[1]
                        /\ \A d \in Free : d # prev[1] => LinksTo(Free, d, cdr[d])
  BY DEF HeapInv, SweepOK, sweep_unmarked
<1>3. Free \in SUBSET Cell /\ \A c \in Free : c \in Int /\ c > -1
  BY CellInt DEF Free
<1>4. Free' = Free \cup {i}
  BY <1>1 DEF HeapInv, TypeOK, Free, Taken, sweep_unmarked
<1>5. prev' = <<i, "cdr">> /\ prev' \in CdrPtr /\ prev' # Null
  <2>1. <<i, "cdr">> \in CdrPtr
    BY <1>1 DEF CdrPtr
  <2> QED
    BY <2>1, AddressNotWord DEF sweep_unmarked
<1>6. \A c \in Cell : c < i + 1 => c < i \/ c = i
  BY <1>1, CellInt
<1>7. \A d \in Free' : d <= i /\ d < i + 1
  BY <1>1, <1>2, <1>3, <1>4
<1>8. /\ LinksTo(Free', -1, f')
      /\ \A d \in Free : LinksTo(Free', d, cdr'[d])
      /\ f' \in CdrPtr \cup {Null}
      /\ cdr' \in [Cell -> {Null, One} \cup CarPtr \cup CdrPtr]
  <2>1. CASE f = Null
    <3>1. Free = {}
      BY <2>1, <1>2, <1>3, AddressNotWord DEF LinksTo, CdrPtr
    <3>2. f' = <<i, "cdr">> /\ cdr' = cdr
      BY <2>1 DEF sweep_unmarked
    <3>3. LinksTo(Free', -1, f')
      BY <3>1, <3>2, <1>1, <1>4, LinkLast
    <3> QED
      BY <3>1, <3>2, <3>3, <1>1 DEF HeapInv, TypeOK, CdrPtr
  <2>2. CASE f # Null
    <3>1. prev # Null
      BY <2>2, <1>2 DEF LinksTo
    <3> DEFINE m == prev[1]
    <3>2. m \in Free /\ m \in Cell /\ \A d \in Free : d <= m
      BY <3>1, <1>2, <1>3
    <3>3. f' = f /\ cdr' = [cdr EXCEPT ![m] = <<i, "cdr">>]
      BY <2>2 DEF sweep_unmarked
    <3>4. cdr \in [Cell -> {Null, One} \cup CarPtr \cup CdrPtr]
      BY DEF HeapInv, TypeOK
    <3>5. LinksTo(Free', -1, f')
      BY <2>2, <3>3, <1>1, <1>2, <1>3, <1>4, Extend
    <3>6. ASSUME NEW d \in Free PROVE LinksTo(Free', d, cdr'[d])
      <4>1. CASE d = m
        <5>1. cdr'[d] = <<i, "cdr">>
          BY <4>1, <3>2, <3>3, <3>4
        <5> QED
          BY <4>1, <5>1, <3>2, <1>1, <1>2, <1>3, <1>4, LinkLast
      <4>2. CASE d # m
        <5>1. cdr'[d] = cdr[d] /\ LinksTo(Free, d, cdr[d])
          BY <4>2, <3>1, <3>3, <3>4, <1>2, <1>3
        <5>2. d < m
          BY <4>2, <3>2, <1>3
        <5>3. cdr[d] # Null
          <6>1. ~ \A e \in Free : e <= d
            BY <5>2, <3>2, <1>3
          <6>2. \A e \in Free : <<e, "cdr">> # Null
            BY <1>3, AddressNotWord DEF CdrPtr
          <6> QED
            BY <5>1, <6>1, <6>2 DEF LinksTo
        <5> QED
          BY <5>1, <5>3, <1>1, <1>2, <1>3, <1>4, Extend
      <4> QED
        BY <4>1, <4>2
    <3>7. f \in CdrPtr \cup {Null}
      BY DEF HeapInv, TypeOK
    <3>8. cdr' \in [Cell -> {Null, One} \cup CarPtr \cup CdrPtr]
      BY <3>2, <3>3, <3>4, <1>1 DEF CdrPtr
    <3> QED
      BY <3>3, <3>5, <3>6, <3>7, <3>8
  <2> QED
    BY <2>1, <2>2
<1>9. TypeOK'
  BY <1>1, <1>5, <1>8 DEF HeapInv, TypeOK, sweep_unmarked
<1>10. FreeListOK' /\ MarksClear' /\ CarKind'
  BY DEF HeapInv, FreeListOK, MarksClear, CarKind, sweep_unmarked
<1>11. prev'[1] = i /\ i' = i + 1 /\ header' = header /\ pc' = pc /\ ~header[i].is_marked
  BY <1>5 DEF sweep_unmarked
<1>12. SweepOK'
  BY <1>2, <1>4, <1>5, <1>6, <1>7, <1>8, <1>11 DEF SweepOK, sweep_unmarked
<1> QED
  BY <1>9, <1>10, <1>12 DEF HeapInv

\* prev->cdr = NULL closes the list.
LEMMA SweepEnds == ASSUME HeapInv, sweep_end PROVE HeapInv'
<1>1. /\ \A c \in Cell : ~header[c].is_marked
      /\ LinksTo(Free, -1, f)
      /\ prev = Null => Free = {}
      /\ prev # Null => /\ prev[1] \in Free
                        /\ \A d \in Free : d <= prev[1]
                        /\ \A d \in Free : d # prev[1] => LinksTo(Free, d, cdr[d])
  BY CellInt DEF HeapInv, SweepOK, sweep_end
<1>2. Free' = Free /\ Free \in SUBSET Cell /\ \A c \in Free : c \in Int
  BY CellInt DEF Free, Taken, sweep_end
<1>3. cdr \in [Cell -> {Null, One} \cup CarPtr \cup CdrPtr]
  BY DEF HeapInv, TypeOK
<1>4. /\ \A d \in Free : LinksTo(Free, d, cdr'[d])
      /\ cdr' \in [Cell -> {Null, One} \cup CarPtr \cup CdrPtr]
  <2>1. CASE prev = Null
    BY <2>1, <1>1, <1>3 DEF sweep_end
  <2>2. CASE prev # Null
    <3> DEFINE m == prev[1]
    <3>1. m \in Free /\ m \in Cell /\ \A d \in Free : d <= m
      BY <2>2, <1>1, <1>2
    <3>2. cdr' = [cdr EXCEPT ![m] = Null]
      BY <2>2 DEF sweep_end
    <3>3. LinksTo(Free, m, Null)
      BY <3>1 DEF LinksTo
    <3>4. ASSUME NEW d \in Free PROVE LinksTo(Free, d, cdr'[d])
      <4>1. CASE d = m
        BY <4>1, <3>1, <3>2, <3>3, <1>3
      <4>2. CASE d # m
        BY <4>2, <2>2, <3>2, <1>1, <1>2, <1>3
      <4> QED
        BY <4>1, <4>2
    <3> QED
      BY <3>1, <3>2, <3>4, <1>3
  <2> QED
    BY <2>1, <2>2
<1>5. TypeOK'
  BY <1>4 DEF HeapInv, TypeOK, sweep_end, collector
<1>6. FreeListOK' /\ MarksClear' /\ CarKind' /\ SweepOK'
  BY <1>1, <1>2, <1>4
     DEF HeapInv, FreeListOK, MarksClear, CarKind, SweepOK, sweep_end
<1> QED
  BY <1>5, <1>6 DEF HeapInv

LEMMA AbortStep == ASSUME HeapInv, gc_new_abort PROVE HeapInv'
<1>1. TypeOK'
  BY DEF HeapInv, TypeOK, gc_new_abort, heap, collector
<1>2. FreeListOK' /\ MarksClear' /\ CarKind' /\ SweepOK'
  BY DEF HeapInv, FreeListOK, MarksClear, CarKind, SweepOK, gc_new_abort, heap,
         Free, Taken
<1> QED
  BY <1>1, <1>2 DEF HeapInv

LEMMA CollectorStep == HeapInv /\ Collector => HeapInv'
BY MarkStep, SweepBegins, SweepMarked, SweepUnmarked, SweepEnds, NewStep, AbortStep
   DEF Collector

-------------------------------------------------------------------------------
(* The theorems.                                                           *)

LEMMA HeapInvStep == HeapInv /\ [Next]_vars => HeapInv'
<1> SUFFICES ASSUME HeapInv, [Next]_vars PROVE HeapInv'
  OBVIOUS
<1>1. CASE Client
  BY <1>1, ClientStep
<1>2. CASE Alloc
  BY <1>2, AllocStep
<1>3. CASE Collector
  BY <1>3, CollectorStep
<1>4. CASE UNCHANGED vars
  <2>1. TypeOK'
    BY <1>4 DEF HeapInv, TypeOK, vars
  <2>2. FreeListOK' /\ MarksClear' /\ CarKind' /\ SweepOK'
    BY <1>4 DEF HeapInv, FreeListOK, MarksClear, CarKind, SweepOK, Free, Taken, vars
  <2> QED
    BY <2>1, <2>2 DEF HeapInv
<1> QED
  BY <1>1, <1>2, <1>3, <1>4 DEF Next

\* The invariant of the heap, whatever the program builds and however often it
\* exhausts the arena (gc.c:21-46, 60-74, 140-203).
THEOREM HeapInvariant == Spec => []HeapInv
<1>1. Init => HeapInv
  BY InitHeapInv
<1>2. HeapInv /\ [Next]_vars => HeapInv'
  BY HeapInvStep
<1> QED
  BY <1>1, <1>2, PTL DEF Spec

\* Every variable keeps its type: in particular mark() only ever recurses on the
\* address of a car or, through the cdr of a list, of a header (gc.c:148-166).
THEOREM TypeCorrect == Spec => []TypeOK
<1>1. HeapInv => TypeOK
  BY DEF HeapInv
<1> QED
  BY <1>1, HeapInvariant, PTL

\* The free list is exactly the cells nobody has, in address order, whenever gc_new
\* may use it (gc_new, gc.c:60-74; sweep, gc.c:168-191).
THEOREM FreeListCorrect == Spec => []FreeListOK
<1>1. HeapInv => FreeListOK
  BY DEF HeapInv
<1> QED
  BY <1>1, HeapInvariant, PTL

\* Every collection starts from clear marks (gc.c:142, 175).
THEOREM MarksClearCorrect == Spec => []MarksClear
<1>1. HeapInv => MarksClear
  BY DEF HeapInv
<1> QED
  BY <1>1, HeapInvariant, PTL

\* gc_new never returns a cell that somebody still has (gc.c:68-73).
THEOREM NoDoubleHandoutCorrect == Spec => NoDoubleHandout
<1> DEFINE Fresh == ret' \notin {ret, Null} /\ chain' = chain => use[ret'[1]] = "free"
<1>1. HeapInv /\ [Next]_vars => Fresh
  <2> SUFFICES ASSUME HeapInv, [Next]_vars, ret' \notin {ret, Null}, chain' = chain
               PROVE  use[ret'[1]] = "free"
    OBVIOUS
  <2>1. \A c \in Free : use[c] = "free"
    BY DEF Free, Taken
  <2>2. ASSUME NEW b, NEW v, HandOut(b, v), pc \in {"run", "alloc"}, f # Null
        PROVE  use[ret'[1]] = "free"
    <3>1. ret'[1] = f[1]
      BY <2>2 DEF HandOut
    <3> QED
      BY <2>1, <2>2, <3>1, HeadIsFree
  <2>3. CASE Client
    <3>1. ASSUME NEW v, gc_pop(v) PROVE FALSE
      <4>1. chain # << >> /\ chain' = Tail(chain) /\ chain \in Seq([Slot -> CarPtr \cup {Null}])
        BY <3>1 DEF gc_pop, HeapInv, TypeOK
      <4>2. Len(Tail(chain)) = Len(chain) - 1 /\ Len(chain) \in Nat
        BY <4>1
      <4>3. Len(Tail(chain)) = Len(chain)
        BY <4>1
      <4> QED
        BY <4>2, <4>3
    <3> QED
      BY <2>3, <3>1 DEF Client, Keep, gc_push, Assign, StoreCar, StoreCdr
  <2>4. CASE Alloc
    BY <2>2, <2>4 DEF Alloc, gc_new, gc_new_collect, Running
  <2>5. CASE Collector
    <3>1. CASE gc_new_retry
      BY <2>2, <3>1 DEF gc_new_retry
    <3>2. CASE ~gc_new_retry
      BY <2>5, <3>2
         DEF Collector, markFromRoots, NextFrame, mark_car, mark_cdr, mark_wild, sweep,
             sweep_marked, sweep_unmarked, sweep_end, gc_new_abort
    <3> QED
      BY <3>1, <3>2
  <2>6. CASE UNCHANGED vars
    BY <2>6 DEF vars
  <2> QED
    BY <2>3, <2>4, <2>5, <2>6 DEF Next
<1> QED
  BY <1>1, HeapInvariant, PTL DEF Spec, NoDoubleHandout

-------------------------------------------------------------------------------
(***************************************************************************)
(* The collector keeps what is in use, and mark() recurses no deeper than   *)
(* the arena has cells.                                                    *)
(*                                                                         *)
(* What is kept is proved for programs whose cells hang together by their  *)
(* cars (Linking = FALSE): once cells are linked by their cdrs it is       *)
(* false.  The argument is that of a tri-colour collector: LiveInv, which  *)
(* extends HeapInv, says what is marked, what the activations of mark()    *)
(* still have to look at, and what sweep() has behind it.                  *)
(***************************************************************************)
(* The invariant.                                                          *)

Marked == {c \in Cell : header[c].is_marked}

\* The cells that are, or after the collection in progress will still be, somebody's.
Kept ==
  IF pc = "sweep" THEN {c \in Cell : IF c < i THEN use[c] # "free" ELSE header[c].is_marked}
                  ELSE Taken

\* S has what the roots name, and what the pointer cars and the cdrs of T name.
RootsIn(S) ==
  \A k \in 1 .. Len(chain) : \A s \in Slot : chain[k][s] # Null => chain[k][s][1] \in S
CarsIn(T, S) == \A c \in T : header[c].is_pointer /\ car[c] # Null => car[c][1] \in S
CdrsIn(T, S) == \A c \in T : cdr[c] # Null => cdr[c][1] \in S
Around(S) == RootsIn(S) /\ CarsIn(S, S) /\ CdrsIn(S, S)

\* Without linking no cdr is misread: each is null or a link of the free list.
NoLinks ==
  /\ cdr \in [Cell -> {Null} \cup CdrPtr]
  /\ \A c \in Cell : use[c] = "built" => cdr[c] = Null
  /\ \A k \in 1 .. Len(stack) : stack[k].ptr \in CarPtr
  /\ pc # "undefined"

\* The call that waits for the collector can still reach its argument.
ReqRooted ==
  pc # "run" =>
    /\ ret = Null
    /\ chain # << >>
    /\ req.is_pointer /\ req.car # Null =>
         \E s \in Slot : /\ chain[1][s] # Null
                         /\ \/ chain[1][s] = req.car
                            \/ /\ header[chain[1][s][1]].is_pointer
                               /\ car[chain[1][s][1]] = req.car

\* mark() has an activation that still has to look at the car, or at the cdr, of c.
CarPending(st, c) == \E k \in 1 .. Len(st) : st[k].ptr = <<c, "car">> /\ st[k].at = "car"
CdrPending(st, c) == \E k \in 1 .. Len(st) : st[k].ptr = <<c, "car">>

\* Tri-colour: what has been visited is marked, a marked cell has marked successors or
\* is being looked at, and nothing is marked but what is reachable.
Tricolour ==
  pc = "roots" =>
    /\ \A k \in 1 .. Len(chain) : \A s \in Slot :
         (k < cursor[1] \/ (k = cursor[1] /\ s < cursor[2])) /\ chain[k][s] # Null
           => chain[k][s][1] \in Marked
    /\ \A c \in Marked :
         /\ header[c].is_pointer /\ car[c] # Null /\ ~CarPending(stack, c) => car[c][1] \in Marked
         /\ cdr[c] # Null /\ ~CdrPending(stack, c) => cdr[c][1] \in Marked
    /\ \A k \in 1 .. Len(stack) : stack[k].ptr[1] \in Marked
    /\ \A S \in SUBSET Cell : Around(S) => Marked \subseteq S

\* Whatever is kept names what is kept only, and after marking all of it is reachable.
KeptOK ==
  /\ pc # "roots" => /\ RootsIn(Kept) /\ CarsIn(Kept, Kept)
                     /\ ret # Null => ret[1] \in Kept
  /\ pc \in {"sweep", "alloc", "oom"} =>
       /\ CdrsIn(Kept, Kept)
       /\ \A S \in SUBSET Kept : Around(S) => Kept \subseteq S

LiveInv == NoLinks /\ ReqRooted /\ Tricolour /\ KeptOK

\* mark() never has two activations on one address, and all of them are marked.
StackOK ==
  /\ pc \notin {"roots", "undefined"} => stack = << >>
  /\ \A k \in 1 .. Len(stack) : isMarked(stack[k].ptr)
  /\ \A j, k \in 1 .. Len(stack) : stack[j].ptr = stack[k].ptr => j = k

-------------------------------------------------------------------------------
(* The stack of activations.                                               *)

ActivationSet == [ptr : CarPtr \cup HeaderPtr, at : {"car", "cdr"}]

\* One activation more: what Append does, index by index.
LEMMA PushShape ==
  ASSUME NEW st \in Seq(ActivationSet), NEW p \in CarPtr \cup HeaderPtr, NEW a \in {"car", "cdr"}
  PROVE  LET st2 == Append(st, [ptr |-> p, at |-> a])
         IN  /\ st2 \in Seq(ActivationSet)
             /\ Len(st2) = Len(st) + 1
             /\ \A k \in 1 .. Len(st) : st2[k] = st[k]
             /\ st2[Len(st) + 1] = [ptr |-> p, at |-> a]
<1>1. [ptr |-> p, at |-> a] \in ActivationSet
  BY DEF ActivationSet
<1> QED
  BY <1>1, AppendProperties

\* One activation less, or the innermost one moved on to its cdr.
LEMMA PopShape ==
  ASSUME TypeOK, stack # << >>
  PROVE  /\ Len(stack) \in Nat \ {0}
         /\ Top \in ActivationSet /\ Top = stack[Len(stack)]
         /\ Popped \in Seq(ActivationSet)
         /\ Len(Popped) = Len(stack) - 1
         /\ \A k \in 1 .. Len(Popped) : Popped[k] = stack[k]
<1>1. stack \in Seq(ActivationSet)
  BY DEF TypeOK, ActivationSet
<1> QED
  BY <1>1, LastAndFront DEF Top, Popped

LEMMA MoveShape ==
  ASSUME TypeOK, stack # << >>
  PROVE  LET here == Append(Popped, [ptr |-> Top.ptr, at |-> "cdr"])
         IN  /\ here \in Seq(ActivationSet)
             /\ Len(here) = Len(stack)
             /\ \A k \in 1 .. Len(stack) : here[k].ptr = stack[k].ptr
             /\ \A k \in 1 .. Len(stack) - 1 : here[k] = stack[k]
<1> DEFINE here == Append(Popped, [ptr |-> Top.ptr, at |-> "cdr"])
<1>1. Top.ptr \in CarPtr \cup HeaderPtr
  BY PopShape DEF ActivationSet
<1>2. /\ here \in Seq(ActivationSet)
      /\ Len(here) = Len(Popped) + 1
      /\ \A k \in 1 .. Len(Popped) : here[k] = Popped[k]
      /\ here[Len(Popped) + 1] = [ptr |-> Top.ptr, at |-> "cdr"]
  BY <1>1, PopShape, PushShape
<1> HIDE DEF here
<1>3. Len(Popped) + 1 = Len(stack) /\ Len(stack) \in Nat \ {0}
  BY PopShape
<1>4. here[Len(stack)].ptr = stack[Len(stack)].ptr
  BY <1>2, <1>3, PopShape
<1>5. \A k \in 1 .. Len(stack) - 1 : here[k] = stack[k]
  BY <1>2, <1>3, PopShape
<1>6. \A k \in 1 .. Len(stack) : k \in 1 .. Len(stack) - 1 \/ k = Len(stack)
  BY <1>3
<1> QED
  BY <1>2, <1>3, <1>4, <1>5, <1>6 DEF here
-------------------------------------------------------------------------------
(* The depth of the recursion.                                             *)

Pointers == CarPtr \cup HeaderPtr

\* The marks that setMarked sets stay, the word before a header included.
LEMMA SetMarkedMonotone ==
  ASSUME TypeOK, NEW p \in Pointers, ~isMarked(p), setMarked(p)
  PROVE  /\ isMarked(p)'
         /\ \A q \in Pointers : isMarked(q) => isMarked(q)'
<1> DEFINE Header(q) == extractHeader(q)
<1>1. ASSUME NEW q \in Pointers
      PROVE  \/ \E c \in Cell : q = <<c, "car">> /\ Header(q) = <<c, "header">>
             \/ \E c \in Cell : q = <<c, "header">> /\ Header(q) = <<c - 1, "cdr">>
                               /\ (c - 1 = -1 \/ c - 1 \in Cell)
  <2>1. CASE q \in CarPtr
    <3>1. PICK c \in Cell : q = <<c, "car">>
      BY <2>1 DEF CarPtr
    <3>2. Header(q) = <<c, "header">>
      BY <3>1, BeforeType DEF extractHeader
    <3> QED
      BY <3>1, <3>2
  <2>2. CASE q \in HeaderPtr
    <3>1. PICK c \in Cell : q = <<c, "header">>
      BY <2>2 DEF HeaderPtr
    <3>2. Header(q) = <<c - 1, "cdr">>
      BY <3>1, BeforeType DEF extractHeader
    <3>3. c - 1 = -1 \/ c - 1 \in Cell
      BY NumCellsAssumption DEF Cell
    <3> QED
      BY <3>1, <3>2, <3>3
  <2> QED
    BY <2>1, <2>2 DEF Pointers
<1>2. Null # One
  BY WordAssumption
<1>3. CASE \E c \in Cell : p = <<c, "car">> /\ Header(p) = <<c, "header">>
  <2>1. PICK c \in Cell : p = <<c, "car">> /\ Header(p) = <<c, "header">>
    BY <1>3
  <2>2. header' = [header EXCEPT ![c].is_marked = TRUE] /\ cdr' = cdr
    BY <2>1 DEF setMarked
  <2>3. \A d \in Cell : /\ header[d].is_marked => header'[d].is_marked
                        /\ header'[c].is_marked
    BY <2>1, <2>2 DEF TypeOK
  <2> QED
    BY <1>1, <2>1, <2>2, <2>3 DEF isMarked
<1>4. CASE \E c \in Cell : p = <<c, "header">> /\ Header(p) = <<c - 1, "cdr">>
                             /\ (c - 1 = -1 \/ c - 1 \in Cell)
  <2>1. PICK c \in Cell : p = <<c, "header">> /\ Header(p) = <<c - 1, "cdr">>
                         /\ (c - 1 = -1 \/ c - 1 \in Cell)
    BY <1>4
  <2>2. c - 1 \in Cell /\ cdr' = [cdr EXCEPT ![c - 1] = One] /\ header' = header
    BY <2>1 DEF setMarked, isMarked
  <2>3. \A d \in Cell : /\ cdr[d] # Null => cdr'[d] # Null
                        /\ cdr'[c - 1] # Null
    BY <1>2, <2>2 DEF TypeOK
  <2> QED
    BY <1>1, <2>1, <2>2, <2>3 DEF isMarked
<1> QED
  BY <1>1, <1>3, <1>4

\* mark() calls itself on an address that is not marked, or not at all.
Visit(base, p) ==
  IF p # Null /\ ~isMarked(p)
  THEN setMarked(p) /\ stack' = Append(base, Activation(p))
  ELSE stack' = base /\ UNCHANGED <<header, cdr>>

\* So an address that is on the stack does not come onto it again.
LEMMA VisitStack ==
  ASSUME TypeOK, StackOK, NEW base \in Seq(ActivationSet),
         Len(base) <= Len(stack), \A k \in 1 .. Len(base) : base[k].ptr = stack[k].ptr,
         NEW p \in Pointers \cup {Null}, Visit(base, p), pc' \in {"roots", "undefined"}
  PROVE  StackOK'
<1>1. stack \in Seq(ActivationSet)
  BY DEF TypeOK, ActivationSet
<1>2. /\ \A k \in 1 .. Len(base) : isMarked(base[k].ptr) /\ base[k].ptr \in Pointers
      /\ \A j, k \in 1 .. Len(base) : base[j].ptr = base[k].ptr => j = k
  <2>1. \A k \in 1 .. Len(base) : k \in 1 .. Len(stack) /\ stack[k] \in ActivationSet
    BY <1>1
  <2> QED
    BY <2>1 DEF StackOK, ActivationSet, Pointers
<1>3. CASE p # Null /\ ~isMarked(p)
  <2>1. p \in Pointers /\ setMarked(p) /\ stack' = Append(base, [ptr |-> p, at |-> "car"])
    BY <1>3 DEF Visit, Activation
  <2>2. /\ Len(stack') = Len(base) + 1
        /\ \A k \in 1 .. Len(base) : stack'[k] = base[k]
        /\ stack'[Len(base) + 1] = [ptr |-> p, at |-> "car"]
    BY <2>1, PushShape DEF Pointers
  <2>3. isMarked(p)' /\ \A q \in Pointers : isMarked(q) => isMarked(q)'
    BY <1>3, <2>1, SetMarkedMonotone
  <2>4. \A k \in 1 .. Len(stack') : k \in 1 .. Len(base) \/ k = Len(base) + 1
    BY <2>2
  <2>5. \A k \in 1 .. Len(stack') :
          /\ k \in 1 .. Len(base) => stack'[k].ptr = base[k].ptr /\ stack'[k].ptr # p
          /\ k = Len(base) + 1 => stack'[k].ptr = p
    BY <1>2, <1>3, <2>2
  <2>6. \A k \in 1 .. Len(base) : isMarked(base[k].ptr)'
    BY <1>2, <2>3
  <2>7. (\A k \in 1 .. Len(stack) : isMarked(stack[k].ptr))'
    BY <2>3, <2>4, <2>5, <2>6 DEF isMarked
  <2>8. (\A j, k \in 1 .. Len(stack) : stack[j].ptr = stack[k].ptr => j = k)'
    BY <1>2, <2>4, <2>5
  <2> QED
    BY <2>7, <2>8 DEF StackOK
<1>4. CASE ~(p # Null /\ ~isMarked(p))
  <2>1. stack' = base /\ header' = header /\ cdr' = cdr
    BY <1>4 DEF Visit
  <2> QED
    BY <1>2, <2>1 DEF StackOK, isMarked
<1> QED
  BY <1>3, <1>4
\* The three places where mark() is called, and on what.
Root == chain[cursor[1]][cursor[2]]
NextCar == IF isPointer(Top.ptr) THEN car[Top.ptr[1]] ELSE Null
NextCell == IF CdrOf(Top.ptr) = Null THEN Null ELSE Before(CdrOf(Top.ptr))
Moved == Append(Popped, [ptr |-> Top.ptr, at |-> "cdr"])

LEMMA RootVisit ==
  ASSUME TypeOK, markFromRoots
  PROVE  Root \in CarPtr \cup {Null} /\ Visit(stack, Root)
<1>1. cursor[1] \in 1 .. Len(chain) /\ chain[cursor[1]] \in [Slot -> CarPtr \cup {Null}]
  BY DEF TypeOK, markFromRoots
<1>2. Root \in CarPtr \cup {Null}
  BY <1>1 DEF markFromRoots, Root
<1>3. Visit(stack, Root)
  BY DEF markFromRoots, Root, Visit
<1> QED
  BY <1>2, <1>3

LEMMA CarVisit ==
  ASSUME HeapInv, mark_car
  PROVE  NextCar \in CarPtr \cup {Null} /\ Visit(Moved, NextCar)
<1>1. stack # << >> /\ Top.ptr \in CarPtr \cup HeaderPtr
  BY PopShape DEF HeapInv, mark_car, ActivationSet
<1>2. NextCar \in CarPtr \cup {Null}
  <2>1. CASE Top.ptr \in CarPtr
    <3>1. PICK c \in Cell : Top.ptr = <<c, "car">>
      BY <2>1 DEF CarPtr
    <3>2. extractHeader(Top.ptr) = <<c, "header">>
      BY <3>1, BeforeType DEF extractHeader
    <3>3. isPointer(Top.ptr) <=> header[c].is_pointer
      BY <3>2 DEF isPointer, HeapInv, TypeOK
    <3> QED
      BY <3>1, <3>3 DEF NextCar, HeapInv, TypeOK, CarKind
  <2>2. CASE Top.ptr \in HeaderPtr
    <3>1. PICK c \in Cell : Top.ptr = <<c, "header">>
      BY <2>2 DEF HeaderPtr
    <3>2. extractHeader(Top.ptr) = <<c - 1, "cdr">>
      BY <3>1, BeforeType DEF extractHeader
    <3> QED
      BY <3>2 DEF isPointer, NextCar
  <2> QED
    BY <1>1, <2>1, <2>2
<1>3. Visit(Moved, NextCar)
  BY DEF mark_car, NextCar, Moved, Visit
<1> QED
  BY <1>2, <1>3

LEMMA CdrVisit ==
  ASSUME HeapInv, mark_cdr
  PROVE  NextCell \in Pointers \cup {Null} /\ Visit(Popped, NextCell)
<1>1. stack # << >> /\ Top.ptr \in CarPtr \cup HeaderPtr
  BY PopShape DEF HeapInv, mark_cdr, ActivationSet
<1>2. CdrOf(Top.ptr) \in CarPtr \cup CdrPtr \cup {Null}
  <2>1. CdrOf(Top.ptr) \in CarPtr \cup CdrPtr \cup {Null, Scalar, One}
    BY <1>1 DEF HeapInv, TypeOK, CdrOf, CarPtr, HeaderPtr
  <2> QED
    BY <2>1 DEF mark_cdr
<1>3. CdrOf(Top.ptr) # Null => NextCell \in Pointers /\ NextCell = Before(CdrOf(Top.ptr))
  <2>1. CASE CdrOf(Top.ptr) \in CarPtr
    <3>1. PICK c \in Cell : CdrOf(Top.ptr) = <<c, "car">>
      BY <2>1 DEF CarPtr
    <3>2. Before(CdrOf(Top.ptr)) = <<c, "header">>
      BY <3>1, BeforeType
    <3> QED
      BY <3>2 DEF NextCell, Pointers, HeaderPtr
  <2>2. CASE CdrOf(Top.ptr) \in CdrPtr
    <3>1. PICK c \in Cell : CdrOf(Top.ptr) = <<c, "cdr">>
      BY <2>2 DEF CdrPtr
    <3>2. Before(CdrOf(Top.ptr)) = <<c, "car">>
      BY <3>1, BeforeType
    <3> QED
      BY <3>2 DEF NextCell, Pointers, CarPtr
  <2> QED
    BY <1>2, <2>1, <2>2
<1>4. NextCell # Null <=> CdrOf(Top.ptr) # Null
  BY <1>3, AddressNotWord DEF NextCell, Pointers
<1>5. Visit(Popped, NextCell)
  BY <1>3, <1>4 DEF mark_cdr, Visit
<1> QED
  BY <1>3, <1>4, <1>5

LEMMA StackStep == HeapInv /\ StackOK /\ [Next]_vars => StackOK'
<1> SUFFICES ASSUME HeapInv, StackOK, [Next]_vars PROVE StackOK'
  OBVIOUS
<1>0. TypeOK /\ stack \in Seq(ActivationSet) /\ Len(stack) \in Nat
  BY DEF HeapInv, TypeOK, ActivationSet
<1>1. CASE markFromRoots
  <2>1. Len(stack) <= Len(stack) /\ pc' = "roots"
    BY <1>0, <1>1 DEF markFromRoots
  <2> QED
    BY <1>0, <1>1, <2>1, RootVisit, VisitStack DEF Pointers
<1>2. CASE mark_car
  <2>1. stack # << >> /\ pc' = "roots"
    BY <1>2 DEF mark_car
  <2>2. /\ Moved \in Seq(ActivationSet) /\ Len(Moved) <= Len(stack)
        /\ \A k \in 1 .. Len(Moved) : Moved[k].ptr = stack[k].ptr
    BY <1>0, <2>1, MoveShape DEF Moved
  <2> QED
    BY <1>0, <1>2, <2>1, <2>2, CarVisit, VisitStack DEF Pointers
<1>3. CASE mark_cdr
  <2>1. stack # << >> /\ pc' = "roots"
    BY <1>3 DEF mark_cdr
  <2>2. /\ Popped \in Seq(ActivationSet) /\ Len(Popped) <= Len(stack)
        /\ \A k \in 1 .. Len(Popped) : Popped[k].ptr = stack[k].ptr
    BY <1>0, <2>1, PopShape
  <2> QED
    BY <1>0, <1>3, <2>1, <2>2, CdrVisit, VisitStack
<1>4. CASE mark_wild \/ NextFrame
  BY <1>4 DEF StackOK, mark_wild, NextFrame, heap, collector, isMarked
<1>5. CASE pc \notin {"roots", "undefined"} /\ stack' = stack
  <2>1. stack' = << >>
    BY <1>5 DEF StackOK
  <2> QED
    BY <2>1 DEF StackOK
<1>6. CASE sweep
  BY <1>6 DEF sweep, StackOK
<1>7. CASE UNCHANGED vars
  BY <1>7 DEF vars, StackOK, isMarked
<1>8. ASSUME Client \/ Alloc PROVE pc \notin {"roots", "undefined"} /\ stack' = stack
  BY <1>8 DEF Client, Alloc, Running, Keep, gc_push, gc_pop, Assign, StoreCar, StoreCdr, gc_new,
              gc_new_collect, collector
<1>9. ASSUME sweep_marked \/ sweep_unmarked \/ sweep_end \/ gc_new_retry \/ gc_new_abort
      PROVE  pc \notin {"roots", "undefined"} /\ stack' = stack
  BY <1>9 DEF sweep_marked, sweep_unmarked, sweep_end, gc_new_retry, gc_new_abort, collector
<1> QED
  BY <1>1, <1>2, <1>3, <1>4, <1>5, <1>6, <1>7, <1>8, <1>9 DEF Next, Collector
-------------------------------------------------------------------------------
(* Marking, without linking.                                               *)

\* On the address of a car, the accessors are about the header of the cell.
LEMMA CarAccess ==
  ASSUME TypeOK, NEW d \in Cell
  PROVE  /\ isMarked(<<d, "car">>) <=> d \in Marked
         /\ isPointer(<<d, "car">>) <=> header[d].is_pointer
         /\ CdrOf(<<d, "car">>) = cdr[d]
         /\ setMarked(<<d, "car">>) =>
              /\ Marked' = Marked \cup {d} /\ cdr' = cdr
              /\ \A c \in Cell : header'[c].is_pointer = header[c].is_pointer
<1>1. extractHeader(<<d, "car">>) = <<d, "header">>
  BY BeforeType DEF extractHeader
<1>2. isMarked(<<d, "car">>) <=> d \in Marked
  BY <1>1 DEF isMarked, Marked
<1>3. isPointer(<<d, "car">>) <=> header[d].is_pointer
  BY <1>1 DEF isPointer, TypeOK
<1>4. ASSUME setMarked(<<d, "car">>)
      PROVE  /\ Marked' = Marked \cup {d} /\ cdr' = cdr
             /\ \A c \in Cell : header'[c].is_pointer = header[c].is_pointer
  <2>1. header' = [header EXCEPT ![d].is_marked = TRUE] /\ cdr' = cdr
    BY <1>1, <1>4 DEF setMarked
  <2> QED
    BY <2>1 DEF Marked, TypeOK
<1> QED
  BY <1>2, <1>3, <1>4 DEF CdrOf

\* What a call of mark() on p, or none, does to the tri-colour invariant: the cell of p
\* is marked, and if that is new its car and its cdr are pending.
LEMMA VisitColour ==
  ASSUME TypeOK, LiveInv, pc = "roots",
         NEW base \in Seq(ActivationSet),
         \A k \in 1 .. Len(base) : base[k].ptr \in CarPtr /\ base[k].ptr[1] \in Marked,
         NEW p \in CarPtr \cup {Null}, Visit(base, p),
         p # Null => \A S \in SUBSET Cell : Around(S) => p[1] \in S,
         UNCHANGED <<car, f, use, chain, pc, req, ret>>
  PROVE  /\ cdr' = cdr
         /\ \A c \in Cell : header'[c].is_pointer = header[c].is_pointer
         /\ Marked' = Marked \cup (IF p = Null THEN {} ELSE {p[1]})
         /\ \A c \in Marked' \ Marked : CarPending(stack', c) /\ CdrPending(stack', c)
         /\ \A c \in Cell : /\ CarPending(base, c) => CarPending(stack', c)
                            /\ CdrPending(base, c) => CdrPending(stack', c)
         /\ \A k \in 1 .. Len(stack') : stack'[k].ptr \in CarPtr /\ stack'[k].ptr[1] \in Marked'
         /\ \A S \in SUBSET Cell : Around(S)' => Around(S) /\ Marked' \subseteq S
<1>0. Marked \subseteq Cell
  BY DEF Marked
<1>1. CASE p # Null /\ ~isMarked(p)
  <2>1. PICK d \in Cell : p = <<d, "car">>
    BY <1>1 DEF CarPtr
  <2>2. setMarked(p) /\ stack' = Append(base, [ptr |-> p, at |-> "car"])
    BY <1>1 DEF Visit, Activation
  <2>3. /\ Marked' = Marked \cup {d} /\ cdr' = cdr
        /\ \A c \in Cell : header'[c].is_pointer = header[c].is_pointer
    BY <2>1, <2>2, CarAccess
  <2>4. /\ Len(stack') = Len(base) + 1 /\ Len(base) \in Nat
        /\ \A k \in 1 .. Len(base) : stack'[k] = base[k]
        /\ stack'[Len(base) + 1] = [ptr |-> p, at |-> "car"]
    BY <1>1, <2>2, PushShape
  <2>5. \A k \in 1 .. Len(stack') : k \in 1 .. Len(base) \/ k = Len(base) + 1
    BY <2>4
  <2>6. CarPending(stack', d) /\ CdrPending(stack', d)
    BY <2>1, <2>4 DEF CarPending, CdrPending
  <2>7. \A c \in Cell : /\ CarPending(base, c) => CarPending(stack', c)
                        /\ CdrPending(base, c) => CdrPending(stack', c)
    BY <2>4 DEF CarPending, CdrPending
  <2>8. \A k \in 1 .. Len(stack') : stack'[k].ptr \in CarPtr /\ stack'[k].ptr[1] \in Marked'
    BY <1>1, <2>1, <2>3, <2>4, <2>5
  <2>9. ASSUME NEW S \in SUBSET Cell, Around(S)' PROVE Around(S) /\ Marked' \subseteq S
    <3>1. Around(S)
      BY <2>3, <2>9 DEF Around, RootsIn, CarsIn, CdrsIn
    <3> QED
      BY <1>1, <2>1, <2>3, <3>1 DEF LiveInv, Tricolour
  <2> QED
    BY <1>1, <2>1, <2>3, <2>6, <2>7, <2>8, <2>9
<1>2. CASE ~(p # Null /\ ~isMarked(p))
  <2>1. stack' = base /\ header' = header /\ cdr' = cdr
    BY <1>2 DEF Visit
  <2>2. Marked' = Marked
    BY <2>1 DEF Marked
  <2>3. p # Null => p[1] \in Marked
    BY <1>2, CarAccess DEF CarPtr
  <2>4. ASSUME NEW S \in SUBSET Cell, Around(S)' PROVE Around(S) /\ Marked' \subseteq S
    <3>1. Around(S)
      BY <2>1, <2>4 DEF Around, RootsIn, CarsIn, CdrsIn
    <3> QED
      BY <2>2, <3>1 DEF LiveInv, Tricolour
  <2> QED
    BY <2>1, <2>2, <2>3, <2>4
<1> QED
  BY <1>1, <1>2
\* What marking leaves alone.
LEMMA MarkRest ==
  ASSUME TypeOK, LiveInv, pc = "roots",
         UNCHANGED <<car, use, cdr, chain, pc, req, ret>>,
         \A c \in Cell : header'[c].is_pointer = header[c].is_pointer,
         \A k \in 1 .. Len(stack') : stack'[k].ptr \in CarPtr
  PROVE  NoLinks' /\ ReqRooted' /\ KeptOK'
<1>1. NoLinks' /\ KeptOK'
  BY DEF LiveInv, NoLinks, KeptOK
<1>2. \A s \in Slot : chain # << >> /\ chain[1][s] # Null => chain[1][s][1] \in Cell
  BY DEF TypeOK, CarPtr
<1>3. ReqRooted'
  BY <1>2 DEF LiveInv, ReqRooted
<1> QED
  BY <1>1, <1>3

LEMMA MarkLive ==
  ASSUME HeapInv, LiveInv, markFromRoots \/ NextFrame \/ mark_car \/ mark_cdr \/ mark_wild
  PROVE  LiveInv'
<1>0. /\ TypeOK /\ pc = "roots" /\ Marked \subseteq Cell
      /\ stack \in Seq(ActivationSet) /\ Len(stack) \in Nat
  BY DEF HeapInv, TypeOK, ActivationSet, Marked, markFromRoots, NextFrame, mark_car, mark_cdr,
         mark_wild
<1>1. \A k \in 1 .. Len(stack) : stack[k].ptr \in CarPtr /\ stack[k].ptr[1] \in Marked
  BY <1>0 DEF LiveInv, NoLinks, Tricolour
<1>2. ASSUME stack # << >>
      PROVE  \E c \in Marked : /\ Top.ptr = <<c, "car">> /\ c \in Cell
                               /\ stack[Len(stack)] = Top /\ Len(stack) \in 1 .. Len(stack)
  <2>1. Len(stack) \in 1 .. Len(stack) /\ stack[Len(stack)] = Top
    BY <1>0, <1>2, PopShape
  <2> QED
    BY <1>0, <1>1, <2>1 DEF CarPtr
<1>3. CASE markFromRoots
  <2>1. Root \in CarPtr \cup {Null} /\ Visit(stack, Root)
    BY <1>0, <1>3, RootVisit
  <2>2. /\ UNCHANGED <<car, f, use, chain, pc, req, ret>> /\ cursor' = <<cursor[1], cursor[2] + 1>>
        /\ cursor[1] \in 1 .. Len(chain) /\ cursor[2] \in Slot
    BY <1>0, <1>3 DEF markFromRoots, TypeOK
  <2>3. Root # Null => \A S \in SUBSET Cell : Around(S) => Root[1] \in S
    BY <2>2 DEF Around, RootsIn, Root
  <2>4. /\ cdr' = cdr
        /\ \A c \in Cell : header'[c].is_pointer = header[c].is_pointer
        /\ Marked' = Marked \cup (IF Root = Null THEN {} ELSE {Root[1]})
        /\ \A c \in Marked' \ Marked : CarPending(stack', c) /\ CdrPending(stack', c)
        /\ \A c \in Cell : /\ CarPending(stack, c) => CarPending(stack', c)
                           /\ CdrPending(stack, c) => CdrPending(stack', c)
        /\ \A k \in 1 .. Len(stack') : stack'[k].ptr \in CarPtr /\ stack'[k].ptr[1] \in Marked'
        /\ \A S \in SUBSET Cell : Around(S)' => Around(S) /\ Marked' \subseteq S
    BY <1>0, <1>1, <2>1, <2>2, <2>3, VisitColour
  <2>5. ASSUME NEW k \in 1 .. Len(chain), NEW s \in Slot, chain[k][s] # Null,
               k < cursor'[1] \/ (k = cursor'[1] /\ s < cursor'[2])
        PROVE  chain[k][s][1] \in Marked'
    <3>1. CASE k = cursor[1] /\ s = cursor[2]
      BY <2>4, <2>5, <3>1 DEF Root
    <3>2. CASE ~(k = cursor[1] /\ s = cursor[2])
      <4>1. k < cursor[1] \/ (k = cursor[1] /\ s < cursor[2])
        BY <2>2, <2>5, <3>2 DEF Slot
      <4> QED
        BY <1>0, <2>4, <2>5, <4>1 DEF LiveInv, Tricolour
    <3> QED
      BY <3>1, <3>2
  <2>6. Tricolour'
    <3>1. \A c \in Marked' :
            /\ header'[c].is_pointer /\ car'[c] # Null /\ ~CarPending(stack', c) => car'[c][1] \in Marked'
            /\ cdr'[c] # Null /\ ~CdrPending(stack', c) => cdr'[c][1] \in Marked'
      BY <1>0, <2>2, <2>4 DEF LiveInv, Tricolour
    <3> QED
      BY <2>2, <2>4, <2>5, <3>1 DEF Tricolour
  <2>7. NoLinks' /\ ReqRooted' /\ KeptOK'
    BY <1>0, <2>2, <2>4, MarkRest
  <2> QED
    BY <2>6, <2>7 DEF LiveInv
<1>4. CASE NextFrame
  <2>1. /\ UNCHANGED <<header, car, cdr, use, chain, pc, req, ret, stack>>
        /\ cursor' = <<cursor[1] + 1, 1>> /\ cursor[1] \in Nat /\ cursor[2] \in Nat \ {0}
        /\ cursor[2] \notin Slot
    BY <1>0, <1>4 DEF NextFrame, TypeOK, heap
  <2>2. \A s \in Slot : s < cursor[2] /\ ~(s < 1)
    BY <2>1, BoundsAssumption DEF Slot
  <2>3. Tricolour'
    <3>1. Marked' = Marked
      BY <2>1 DEF Marked
    <3>2. \A S \in SUBSET Cell : Around(S)' => Around(S)
      BY <2>1 DEF Around, RootsIn, CarsIn, CdrsIn
    <3>3. \A k \in 1 .. Len(chain) : \A s \in Slot :
            (k < cursor'[1] \/ (k = cursor'[1] /\ s < cursor'[2]))
              => k < cursor[1] \/ (k = cursor[1] /\ s < cursor[2])
      BY <2>1, <2>2
    <3> QED
      BY <1>0, <2>1, <3>1, <3>2, <3>3 DEF LiveInv, Tricolour
  <2>4. NoLinks' /\ ReqRooted' /\ KeptOK'
    BY <1>0, <1>1, <2>1, MarkRest
  <2> QED
    BY <2>3, <2>4 DEF LiveInv
<1>5. CASE mark_car
  <2>1. NextCar \in CarPtr \cup {Null} /\ Visit(Moved, NextCar)
    BY <1>5, CarVisit
  <2>2. UNCHANGED <<car, f, use, chain, pc, req, ret, cursor>> /\ stack # << >>
    BY <1>5 DEF mark_car
  <2>3. PICK c0 \in Marked : /\ Top.ptr = <<c0, "car">> /\ c0 \in Cell
                             /\ stack[Len(stack)] = Top /\ Len(stack) \in 1 .. Len(stack)
    BY <1>2, <2>2
  <2>4. NextCar = IF header[c0].is_pointer THEN car[c0] ELSE Null
    BY <1>0, <2>3, CarAccess DEF NextCar
  <2>5. ASSUME NextCar # Null, NEW S \in SUBSET Cell, Around(S) PROVE NextCar[1] \in S
    <3>1. c0 \in S
      BY <1>0, <2>3, <2>5 DEF LiveInv, Tricolour
    <3> QED
      BY <2>4, <2>5, <3>1 DEF Around, CarsIn
  <2>6. /\ Moved \in Seq(ActivationSet) /\ Len(Moved) = Len(stack)
        /\ \A k \in 1 .. Len(stack) : Moved[k].ptr = stack[k].ptr
        /\ \A k \in 1 .. Len(stack) - 1 : Moved[k] = stack[k]
    BY <1>0, <2>2, MoveShape DEF Moved
  <2>7. /\ cdr' = cdr
        /\ \A c \in Cell : header'[c].is_pointer = header[c].is_pointer
        /\ Marked' = Marked \cup (IF NextCar = Null THEN {} ELSE {NextCar[1]})
        /\ \A c \in Marked' \ Marked : CarPending(stack', c) /\ CdrPending(stack', c)
        /\ \A c \in Cell : /\ CarPending(Moved, c) => CarPending(stack', c)
                           /\ CdrPending(Moved, c) => CdrPending(stack', c)
        /\ \A k \in 1 .. Len(stack') : stack'[k].ptr \in CarPtr /\ stack'[k].ptr[1] \in Marked'
        /\ \A S \in SUBSET Cell : Around(S)' => Around(S) /\ Marked' \subseteq S
    <3>1. \A k \in 1 .. Len(Moved) : Moved[k].ptr \in CarPtr /\ Moved[k].ptr[1] \in Marked
      BY <1>1, <2>6
    <3> QED
      BY <1>0, <2>1, <2>2, <2>5, <2>6, <3>1, VisitColour
  <2>8. \A c \in Cell : /\ CarPending(stack, c) /\ c # c0 => CarPending(stack', c)
                        /\ CdrPending(stack, c) => CdrPending(stack', c)
    <3>1. ASSUME NEW c \in Cell, CarPending(stack, c), c # c0 PROVE CarPending(Moved, c)
      <4>1. PICK k \in 1 .. Len(stack) : stack[k].ptr = <<c, "car">> /\ stack[k].at = "car"
        BY <3>1 DEF CarPending
      <4>2. k # Len(stack)
        BY <2>3, <3>1, <4>1
      <4> QED
        BY <1>0, <2>6, <4>1, <4>2 DEF CarPending
    <3>2. \A c \in Cell : CdrPending(stack, c) => CdrPending(Moved, c)
      BY <2>6 DEF CdrPending
    <3>3. \A c \in Cell : /\ CarPending(Moved, c) => CarPending(stack', c)
                          /\ CdrPending(Moved, c) => CdrPending(stack', c)
      BY <2>7
    <3> QED
      BY <3>1, <3>2, <3>3, Zenon
  <2>9. ASSUME NEW c \in Marked', header'[c].is_pointer, car'[c] # Null, ~CarPending(stack', c)
        PROVE  car'[c][1] \in Marked'
    <3>1. c \in Marked /\ c \in Cell /\ header[c].is_pointer /\ car'[c] = car[c]
      BY <1>0, <2>2, <2>7, <2>9
    <3>2. CASE c = c0
      BY <2>4, <2>7, <2>9, <3>1, <3>2
    <3>3. CASE c # c0
      BY <1>0, <2>7, <2>8, <2>9, <3>1, <3>3 DEF LiveInv, Tricolour
    <3> QED
      BY <3>2, <3>3
  <2>10. \A c \in Marked' : cdr'[c] # Null /\ ~CdrPending(stack', c) => cdr'[c][1] \in Marked'
    BY <1>0, <2>7, <2>8 DEF LiveInv, Tricolour
  <2>11. Tricolour'
    BY <1>0, <2>2, <2>7, <2>9, <2>10 DEF LiveInv, Tricolour
  <2>12. NoLinks' /\ ReqRooted' /\ KeptOK'
    BY <1>0, <2>2, <2>7, MarkRest
  <2> QED
    BY <2>11, <2>12 DEF LiveInv
<1>6. CASE mark_cdr
  <2>1. Visit(Popped, NextCell)
    BY <1>6, CdrVisit
  <2>2. UNCHANGED <<car, f, use, chain, pc, req, ret, cursor>> /\ stack # << >> /\ Top.at = "cdr"
    BY <1>6 DEF mark_cdr
  <2>3. PICK c0 \in Marked : /\ Top.ptr = <<c0, "car">> /\ c0 \in Cell
                             /\ stack[Len(stack)] = Top /\ Len(stack) \in 1 .. Len(stack)
    BY <1>2, <2>2
  <2>4. cdr[c0] # Null => NextCell \in CarPtr /\ NextCell[1] = cdr[c0][1]
    <3>1. CdrOf(Top.ptr) = cdr[c0]
      BY <1>0, <2>3, CarAccess
    <3>2. ASSUME cdr[c0] # Null PROVE NextCell \in CarPtr /\ NextCell[1] = cdr[c0][1]
      <4>1. PICK d \in Cell : cdr[c0] = <<d, "cdr">>
        BY <2>3, <3>2 DEF LiveInv, NoLinks, CdrPtr
      <4>2. NextCell = <<d, "car">>
        BY <3>1, <3>2, <4>1, BeforeType DEF NextCell
      <4> QED
        BY <4>1, <4>2 DEF CarPtr
    <3> QED
      BY <3>2
  <2>5. cdr[c0] = Null => NextCell = Null
    BY <1>0, <2>3, CarAccess DEF NextCell
  <2>6. NextCell \in CarPtr \cup {Null} /\ (NextCell # Null <=> cdr[c0] # Null)
    BY <2>4, <2>5, AddressNotWord
  <2>7. ASSUME NextCell # Null, NEW S \in SUBSET Cell, Around(S) PROVE NextCell[1] \in S
    <3>1. c0 \in S
      BY <1>0, <2>3, <2>7 DEF LiveInv, Tricolour
    <3> QED
      BY <2>4, <2>6, <2>7, <3>1 DEF Around, CdrsIn
  <2>8. /\ Popped \in Seq(ActivationSet) /\ Len(Popped) = Len(stack) - 1
        /\ \A k \in 1 .. Len(Popped) : Popped[k] = stack[k]
    BY <1>0, <2>2, PopShape
  <2>9. /\ cdr' = cdr
        /\ \A c \in Cell : header'[c].is_pointer = header[c].is_pointer
        /\ Marked' = Marked \cup (IF NextCell = Null THEN {} ELSE {NextCell[1]})
        /\ \A c \in Marked' \ Marked : CarPending(stack', c) /\ CdrPending(stack', c)
        /\ \A c \in Cell : /\ CarPending(Popped, c) => CarPending(stack', c)
                           /\ CdrPending(Popped, c) => CdrPending(stack', c)
        /\ \A k \in 1 .. Len(stack') : stack'[k].ptr \in CarPtr /\ stack'[k].ptr[1] \in Marked'
        /\ \A S \in SUBSET Cell : Around(S)' => Around(S) /\ Marked' \subseteq S
    <3>1. \A k \in 1 .. Len(Popped) : Popped[k].ptr \in CarPtr /\ Popped[k].ptr[1] \in Marked
      BY <1>0, <1>1, <2>8
    <3> QED
      BY <1>0, <2>1, <2>2, <2>6, <2>7, <2>8, <3>1, VisitColour
  <2>10. \A c \in Cell : /\ CarPending(stack, c) => CarPending(stack', c)
                         /\ CdrPending(stack, c) /\ c # c0 => CdrPending(stack', c)
    <3>1. \A k \in 1 .. Len(stack) : k \in 1 .. Len(Popped) \/ k = Len(stack)
      BY <1>0, <2>8
    <3>2. \A c \in Cell : CarPending(stack, c) => CarPending(Popped, c)
      BY <2>2, <2>3, <2>8, <3>1 DEF CarPending
    <3>3. \A c \in Cell : CdrPending(stack, c) /\ c # c0 => CdrPending(Popped, c)
      BY <2>3, <2>8, <3>1 DEF CdrPending
    <3>4. \A c \in Cell : /\ CarPending(Popped, c) => CarPending(stack', c)
                          /\ CdrPending(Popped, c) => CdrPending(stack', c)
      BY <2>9
    <3> QED
      BY <3>2, <3>3, <3>4, Zenon
  <2>11. ASSUME NEW c \in Marked', cdr'[c] # Null, ~CdrPending(stack', c)
         PROVE  cdr'[c][1] \in Marked'
    <3>1. c \in Marked /\ c \in Cell /\ cdr'[c] = cdr[c]
      BY <1>0, <2>9, <2>11
    <3>2. CASE c = c0
      BY <2>4, <2>6, <2>9, <2>11, <3>1, <3>2
    <3>3. CASE c # c0
      BY <1>0, <2>9, <2>10, <2>11, <3>1, <3>3 DEF LiveInv, Tricolour
    <3> QED
      BY <3>2, <3>3
  <2>12. \A c \in Marked' : header'[c].is_pointer /\ car'[c] # Null /\ ~CarPending(stack', c)
                             => car'[c][1] \in Marked'
    BY <1>0, <2>2, <2>9, <2>10 DEF LiveInv, Tricolour
  <2>13. Tricolour'
    BY <1>0, <2>2, <2>9, <2>11, <2>12 DEF LiveInv, Tricolour
  <2>14. NoLinks' /\ ReqRooted' /\ KeptOK'
    BY <1>0, <2>2, <2>9, MarkRest
  <2> QED
    BY <2>13, <2>14 DEF LiveInv
<1>7. CASE mark_wild
  <2>1. PICK c0 \in Cell : CdrOf(Top.ptr) = cdr[c0]
    BY <1>0, <1>2, <1>7, CarAccess DEF mark_wild
  <2>2. cdr[c0] \notin {Scalar, One}
    BY <2>1, AddressNotWord, WordAssumption DEF LiveInv, NoLinks
  <2> QED
    BY <1>7, <2>1, <2>2 DEF mark_wild
<1> QED
  BY <1>3, <1>4, <1>5, <1>6, <1>7

-------------------------------------------------------------------------------
(* Sweeping, without linking.                                              *)

\* A step outside marking that leaves alone what is kept keeps the invariant.
LEMMA KeptSame ==
  ASSUME TypeOK, LiveInv, pc \in {"sweep", "alloc"}, pc' \in {"sweep", "alloc", "oom"},
         Kept' = Kept, UNCHANGED <<car, chain, req, ret, stack>>,
         \A c \in Cell : header'[c].is_pointer = header[c].is_pointer,
         \A c \in Kept : cdr'[c] = cdr[c],
         cdr' \in [Cell -> {Null} \cup CdrPtr],
         \A c \in Cell : use'[c] = "built" => cdr'[c] = Null
  PROVE  LiveInv'
<1>0. Kept \subseteq Cell
  BY DEF Kept, Taken
<1>1. NoLinks'
  BY DEF LiveInv, NoLinks
<1>2. \A s \in Slot : chain # << >> /\ chain[1][s] # Null => chain[1][s][1] \in Cell
  BY DEF TypeOK, CarPtr
<1>3. ReqRooted'
  BY <1>2 DEF LiveInv, ReqRooted
<1>4. Tricolour'
  BY DEF Tricolour
<1>5. \A S \in SUBSET Kept : /\ RootsIn(S)' <=> RootsIn(S)
                             /\ CarsIn(S, S)' <=> CarsIn(S, S)
                             /\ CdrsIn(S, S)' <=> CdrsIn(S, S)
  BY <1>0 DEF RootsIn, CarsIn, CdrsIn
<1>6. RootsIn(Kept)' /\ CarsIn(Kept, Kept)' /\ CdrsIn(Kept, Kept)'
  BY <1>0 DEF LiveInv, KeptOK, RootsIn, CarsIn, CdrsIn
<1>7. \A S \in SUBSET Kept' : Around(S)' => Kept' \subseteq S
  BY <1>5 DEF LiveInv, KeptOK, Around
<1>8. KeptOK'
  BY <1>3, <1>6, <1>7 DEF ReqRooted, KeptOK
<1> QED
  BY <1>1, <1>3, <1>4, <1>8 DEF LiveInv

\* Marking has ended: what is marked is what is reachable.
LEMMA SweepLive == ASSUME HeapInv, LiveInv, sweep PROVE LiveInv'
<1>1. /\ TypeOK /\ pc = "roots" /\ stack = << >> /\ cursor[1] > Len(chain)
      /\ pc' = "sweep" /\ i' = 0
      /\ UNCHANGED <<header, car, cdr, use, chain, req, ret, stack>>
  BY DEF HeapInv, sweep
<1>2. Kept' = Marked
  <2>1. \A c \in Cell : ~(c < 0)
    BY CellInt
  <2> QED
    BY <1>1, <2>1 DEF Kept, Marked
<1>3. NoLinks' /\ ReqRooted' /\ Tricolour'
  BY <1>1 DEF LiveInv, NoLinks, ReqRooted, Tricolour
<1>4. RootsIn(Marked)
  <2>1. \A k \in 1 .. Len(chain) : k < cursor[1]
    BY <1>1 DEF TypeOK
  <2> QED
    BY <1>1, <2>1 DEF LiveInv, Tricolour, RootsIn
<1>5. CarsIn(Marked, Marked) /\ CdrsIn(Marked, Marked)
  <2>1. \A c : ~CarPending(stack, c) /\ ~CdrPending(stack, c)
    BY <1>1 DEF CarPending, CdrPending
  <2> QED
    BY <1>1, <2>1 DEF LiveInv, Tricolour, CarsIn, CdrsIn
<1>6. \A S \in SUBSET Marked : Around(S) => Marked \subseteq S
  BY <1>1 DEF LiveInv, Tricolour, Marked
<1>7. \A S : /\ RootsIn(S)' <=> RootsIn(S)
             /\ CarsIn(S, S)' <=> CarsIn(S, S)
             /\ CdrsIn(S, S)' <=> CdrsIn(S, S)
  BY <1>1 DEF RootsIn, CarsIn, CdrsIn
<1>8. RootsIn(Kept)' /\ CarsIn(Kept, Kept)' /\ CdrsIn(Kept, Kept)'
  BY <1>1, <1>2, <1>4, <1>5 DEF RootsIn, CarsIn, CdrsIn
<1>9. \A S \in SUBSET Kept' : Around(S)' => Kept' \subseteq S
  BY <1>2, <1>6, <1>7 DEF Around
<1>10. KeptOK'
  BY <1>1, <1>3, <1>8, <1>9 DEF KeptOK, ReqRooted
<1> QED
  BY <1>3, <1>10 DEF LiveInv

\* The cell whose cdr sweep writes is on the free list, below the counter.
LEMMA PrevIsFree ==
  ASSUME HeapInv, pc = "sweep"
  PROVE  /\ f # Null => prev # Null
         /\ prev # Null => prev[1] \in Free /\ prev[1] \in Cell /\ prev[1] < i
         /\ prev # Null => prev[1] \notin Kept
         /\ \A c \in Free : c < i
<1>1. \A c \in Free : c < i /\ c \in Cell
  BY DEF HeapInv, SweepOK, Free
<1>2. f # Null => prev # Null
  BY DEF HeapInv, SweepOK, LinksTo
<1>3. prev # Null => prev[1] \in Free
  BY DEF HeapInv, SweepOK
<1>4. \A c \in Free : c \notin Kept
  BY <1>1 DEF Kept, Free, Taken
<1> QED
  BY <1>1, <1>2, <1>3, <1>4

LEMMA SweepRest ==
  ASSUME HeapInv, LiveInv, sweep_marked \/ sweep_unmarked \/ sweep_end \/ gc_new_abort
  PROVE  LiveInv'
<1>0. TypeOK
  BY DEF HeapInv
<1>1. cdr \in [Cell -> {Null} \cup CdrPtr] /\ \A c \in Cell : use[c] = "built" => cdr[c] = Null
  BY DEF LiveInv, NoLinks
<1>2. CASE sweep_marked
  <2>1. /\ pc = "sweep" /\ pc' = "sweep" /\ i \in Cell /\ i' = i + 1 /\ header[i].is_marked
        /\ header' = [header EXCEPT ![i].is_marked = FALSE]
        /\ UNCHANGED <<car, cdr, f, use, chain, req, ret, stack>>
    BY <1>0, <1>2, NumCellsAssumption DEF sweep_marked, TypeOK, Cell
  <2>2. use[i] # "free"
    <3>1. i \notin Free
      BY <2>1, PrevIsFree, CellInt
    <3> QED
      BY <2>1, <3>1 DEF Free, Taken
  <2>3. \A c \in Cell : /\ header'[c].is_pointer = header[c].is_pointer
                        /\ c # i => header'[c] = header[c]
                        /\ c < i + 1 <=> c < i \/ c = i
    BY <1>0, <2>1, CellInt DEF TypeOK
  <2>4. Kept' = Kept
    BY <2>1, <2>2, <2>3, CellInt DEF Kept
  <2> QED
    BY <1>0, <1>1, <2>1, <2>3, <2>4, KeptSame
<1>3. CASE sweep_unmarked
  <2>1. /\ pc = "sweep" /\ pc' = "sweep" /\ i \in Cell /\ i' = i + 1 /\ ~header[i].is_marked
        /\ use' = [use EXCEPT ![i] = "free"]
        /\ UNCHANGED <<header, car, chain, req, ret, stack>>
        /\ cdr' = cdr \/ (f # Null /\ cdr' = [cdr EXCEPT ![prev[1]] = <<i, "cdr">>])
    BY <1>0, <1>3, NumCellsAssumption DEF sweep_unmarked, TypeOK, Cell
  <2>2. \A c \in Cell : c < i + 1 <=> c < i \/ c = i
    BY <2>1, CellInt
  <2>3. Kept' = Kept
    <3>1. ASSUME NEW c \in Cell
          PROVE  (IF c < i + 1 THEN use'[c] # "free" ELSE header[c].is_marked)
                 <=> (IF c < i THEN use[c] # "free" ELSE header[c].is_marked)
      <4>1. CASE c = i
        BY <1>0, <2>1, <4>1 DEF TypeOK, Cell
      <4>2. CASE c # i
        BY <1>0, <2>1, <2>2, <4>2 DEF TypeOK
      <4> QED
        BY <4>1, <4>2
    <3> QED
      BY <2>1, <3>1 DEF Kept
  <2>4. /\ cdr' \in [Cell -> {Null} \cup CdrPtr]
        /\ \A c \in Kept : cdr'[c] = cdr[c]
        /\ \A c \in Cell : use[c] # "free" => cdr'[c] = cdr[c]
    <3>1. \A c \in Kept : c \in Cell
      BY DEF Kept, Taken
    <3>2. f # Null => prev[1] \in Cell /\ prev[1] \notin Kept /\ use[prev[1]] = "free"
      BY <2>1, PrevIsFree DEF Free, Taken
    <3> QED
      BY <1>1, <2>1, <3>1, <3>2 DEF CdrPtr
  <2>5. \A c \in Cell : use'[c] = "built" => use[c] = "built"
    BY <1>0, <2>1 DEF TypeOK
  <2> QED
    BY <1>0, <1>1, <2>1, <2>3, <2>4, <2>5, KeptSame
<1>4. CASE sweep_end
  <2>1. /\ pc = "sweep" /\ pc' = "alloc" /\ i = NumCells
        /\ UNCHANGED <<header, car, f, use, chain, req, ret, stack>>
        /\ cdr' = cdr \/ (prev # Null /\ cdr' = [cdr EXCEPT ![prev[1]] = Null])
    BY <1>4 DEF sweep_end, collector
  <2>2. Kept' = Kept
    BY <2>1, CellInt DEF Kept, Taken
  <2>3. /\ cdr' \in [Cell -> {Null} \cup CdrPtr]
        /\ \A c \in Kept : cdr'[c] = cdr[c]
        /\ \A c \in Cell : use'[c] = "built" => cdr'[c] = Null
    <3>1. \A c \in Kept : c \in Cell
      BY DEF Kept, Taken
    <3>2. prev # Null => prev[1] \in Cell /\ prev[1] \notin Kept
      BY <2>1, PrevIsFree
    <3> QED
      BY <1>1, <2>1, <3>1, <3>2
  <2> QED
    BY <1>0, <2>1, <2>2, <2>3, KeptSame
<1>5. CASE gc_new_abort
  <2>1. /\ pc = "alloc" /\ pc' = "oom"
        /\ UNCHANGED <<header, car, cdr, use, chain, req, ret, stack>>
    BY <1>5 DEF gc_new_abort, heap, collector
  <2>2. Kept' = Kept
    BY <2>1 DEF Kept, Taken
  <2> QED
    BY <1>0, <1>1, <2>1, <2>2, KeptSame
<1> QED
  BY <1>2, <1>3, <1>4, <1>5

-------------------------------------------------------------------------------
(* The program, without linking.                                           *)

\* What the program can load is in use, and its frame leads to it.
LEMMA ValuesTaken ==
  ASSUME HeapInv, LiveInv, pc = "run", chain # << >>, NEW v \in Values, v # Null
  PROVE  /\ v \in CarPtr /\ v[1] \in Taken
         /\ \E s \in Slot : /\ chain[1][s] # Null
                            /\ \/ chain[1][s] = v
                               \/ /\ header[chain[1][s][1]].is_pointer
                                  /\ car[chain[1][s][1]] = v
<1>1. /\ chain \in Seq([Slot -> CarPtr \cup {Null}]) /\ Head(chain) = chain[1]
      /\ 1 \in 1 .. Len(chain)
  BY DEF HeapInv, TypeOK
<1>2. /\ \A s \in Slot : chain[1][s] # Null => chain[1][s][1] \in Taken
      /\ \A c \in Taken : header[c].is_pointer /\ car[c] # Null => car[c][1] \in Taken
      /\ \A c \in Cell : use[c] = "built" => cdr[c] = Null
  BY <1>1 DEF LiveInv, NoLinks, KeptOK, Kept, RootsIn, CarsIn
<1>3. v \in CarPtr
  BY DEF Values
<1>4. CASE v \in InSlot
  <2>1. PICK s \in Slot : v = chain[1][s]
    BY <1>1, <1>4 DEF InSlot
  <2> QED
    BY <1>2, <1>3, <2>1
<1>5. CASE \E c \in Held : header[c].is_pointer /\ v = car[c]
  <2>1. PICK c \in Held : header[c].is_pointer /\ v = car[c]
    BY <1>5
  <2>2. PICK s \in Slot : <<c, "car">> = chain[1][s]
    BY <1>1 DEF Held, InSlot
  <2>3. c \in Taken /\ chain[1][s] # Null /\ chain[1][s][1] = c
    BY <2>2, AddressNotWord DEF Held, Taken, CarPtr
  <2>4. v[1] \in Taken
    BY <1>2, <2>1, <2>3
  <2> QED
    BY <1>3, <2>1, <2>3, <2>4
<1>6. CASE \E c \in Held : use[c] = "built" /\ v = cdr[c]
  BY <1>2, <1>6 DEF Held, Taken
<1> QED
  BY <1>4, <1>5, <1>6 DEF Values, Loadable

\* While the program runs only its frames, and the cells it holds, have to be looked at.
LEMMA RunKept ==
  ASSUME pc = "run", pc' = "run", NoLinks', RootsIn(Taken)', CarsIn(Taken, Taken)', ret' # Null => ret'[1] \in Taken'
  PROVE  LiveInv'
BY DEF LiveInv, ReqRooted, Tricolour, KeptOK, Kept, RootsIn, CarsIn, Around

LEMMA ClientLive ==
  ASSUME HeapInv, LiveInv, ~Linking, Client
  PROVE  LiveInv'
<1> USE DEF Running, heap, collector
<1>0. TypeOK /\ chain \in Seq([Slot -> CarPtr \cup {Null}])
  BY DEF HeapInv, TypeOK
<1>1. pc = "run" /\ pc' = "run"
  BY DEF Client, Keep, gc_push, gc_pop, Assign, StoreCar, StoreCdr
<1>2. /\ RootsIn(Taken) /\ CarsIn(Taken, Taken) /\ NoLinks
      /\ ret # Null => ret[1] \in Taken
  BY <1>1 DEF LiveInv, KeptOK, Kept
<1>3. ASSUME chain # << >>, NEW v \in Values, v # Null PROVE v[1] \in Taken
  BY <1>1, <1>3, ValuesTaken
<1>4. ASSUME UNCHANGED <<heap, stack>>, RootsIn(Taken)', ret' # Null => ret'[1] \in Taken
      PROVE  LiveInv'
  <2>1. Taken' = Taken /\ NoLinks' /\ CarsIn(Taken, Taken)'
    BY <1>1, <1>2, <1>4 DEF Taken, NoLinks, CarsIn
  <2> QED
    BY <1>1, <1>4, <2>1, RunKept
<1>5. ASSUME NEW s \in Slot, Keep(s) PROVE LiveInv'
  <2>1. CASE chain = << >>
    <3>1. chain' = chain
      BY <1>5, <2>1 DEF Keep
    <3> QED
      BY <1>2, <1>4, <1>5, <3>1 DEF Keep, RootsIn, Taken
  <2>2. CASE chain # << >>
    <3>1. /\ Len(chain') = Len(chain) /\ chain'[1] = [chain[1] EXCEPT ![s] = ret]
          /\ \A k \in 1 .. Len(chain) : k # 1 => chain'[k] = chain[k]
          /\ chain[1] \in [Slot -> CarPtr \cup {Null}] /\ ret # Null
      BY <1>0, <1>5, <2>2 DEF Keep
    <3> QED
      BY <1>2, <1>4, <1>5, <3>1 DEF Keep, RootsIn, Taken
  <2> QED
    BY <2>1, <2>2
<1>6. ASSUME NEW args \in [Slot -> IF chain = << >> THEN {Null} ELSE Values], gc_push(args)
      PROVE  LiveInv'
  <2>1. \A s \in Slot : args[s] # Null => args[s][1] \in Taken
    BY <1>3, <1>6
  <2>2. chain' = <<args>> \o chain
    BY <1>6 DEF gc_push
  <2>3. /\ Len(chain') = Len(chain) + 1 /\ Len(chain) \in Nat
        /\ chain'[1] = args
        /\ \A k \in 2 .. Len(chain) + 1 : chain'[k] = chain[k - 1]
    BY <1>0, <2>2
  <2>4. RootsIn(Taken)'
    <3>1. \A k \in 1 .. Len(chain) + 1 : k = 1 \/ (k \in 2 .. Len(chain) + 1 /\ k - 1 \in 1 .. Len(chain))
      BY <2>3
    <3> QED
      BY <1>2, <1>6, <2>1, <2>3, <3>1 DEF RootsIn, gc_push, Taken
  <2> QED
    BY <1>2, <1>4, <1>6, <2>4 DEF gc_push
<1>7. ASSUME chain # << >>, NEW v \in Values, gc_pop(v) PROVE LiveInv'
  <2>1. /\ Len(chain') = Len(chain) - 1 /\ Len(chain) \in Nat \ {0}
        /\ \A k \in 1 .. Len(chain) - 1 : chain'[k] = chain[k + 1] /\ k + 1 \in 1 .. Len(chain)
    BY <1>0, <1>7 DEF gc_pop
  <2>2. RootsIn(Taken)'
    BY <1>2, <1>7, <2>1 DEF RootsIn, gc_pop, Taken
  <2>3. ret' # Null => ret'[1] \in Taken
    BY <1>3, <1>7 DEF gc_pop
  <2> QED
    BY <1>4, <1>7, <2>2, <2>3 DEF gc_pop
<1>8. ASSUME chain # << >>, NEW s \in Slot, NEW v \in Values, Assign(s, v) PROVE LiveInv'
  <2>1. /\ Len(chain') = Len(chain) /\ chain'[1] = [chain[1] EXCEPT ![s] = v]
        /\ \A k \in 1 .. Len(chain) : k # 1 => chain'[k] = chain[k]
        /\ chain[1] \in [Slot -> CarPtr \cup {Null}]
    BY <1>0, <1>8 DEF Assign
  <2>2. RootsIn(Taken)'
    BY <1>2, <1>3, <1>8, <2>1 DEF RootsIn, Assign, Taken
  <2> QED
    BY <1>2, <1>4, <1>8, <2>2 DEF Assign
<1>9. ASSUME NEW c \in Held, NEW v, header[c].is_pointer /\ v # Null => v[1] \in Taken,
             StoreCar(c, v)
      PROVE  LiveInv'
  <2>1. /\ car' = [car EXCEPT ![c] = v]
        /\ UNCHANGED <<header, cdr, f, use, chain, pc, req, ret, stack>>
    BY <1>9 DEF StoreCar
  <2>2. Taken' = Taken /\ RootsIn(Taken)' /\ NoLinks' /\ (ret' # Null => ret'[1] \in Taken')
    BY <1>2, <2>1 DEF Taken, RootsIn, NoLinks
  <2>3. CarsIn(Taken, Taken)'
    <3>1. \A d \in Taken : d \in Cell
      BY DEF Taken
    <3>2. car \in [Cell -> {Null, Scalar} \cup CarPtr]
      BY <1>0 DEF TypeOK
    <3> QED
      BY <1>2, <1>9, <2>1, <2>2, <3>1, <3>2 DEF CarsIn
  <2> QED
    BY <1>1, <2>2, <2>3, RunKept
<1>10. ASSUME NEW c \in Held, StoreCdr(c, Null) PROVE LiveInv'
  <2>1. /\ cdr' = [cdr EXCEPT ![c] = Null] /\ use' = [use EXCEPT ![c] = "built"]
        /\ use[c] = "open" /\ c \in Cell
        /\ UNCHANGED <<header, car, f, chain, pc, req, ret, stack>>
    BY <1>10 DEF StoreCdr, Held, Taken
  <2>2. Taken' = Taken
    BY <1>0, <2>1 DEF Taken, TypeOK
  <2>3. NoLinks'
    BY <1>0, <1>2, <2>1 DEF NoLinks, TypeOK
  <2>4. RootsIn(Taken)' /\ CarsIn(Taken, Taken)' /\ (ret' # Null => ret'[1] \in Taken')
    BY <1>2, <2>1, <2>2 DEF RootsIn, CarsIn
  <2> QED
    BY <1>1, <2>3, <2>4, RunKept
<1> QED
  BY <1>3, <1>5, <1>6, <1>7, <1>8, <1>9, <1>10 DEF Client

\* gc_new, from a free list that is not empty: the argument stored is in use.
LEMMA HandOutLive ==
  ASSUME HeapInv, LiveInv, pc \in {"run", "alloc"}, f # Null, pc' = "run", UNCHANGED <<chain, stack>>,
         NEW b \in BOOLEAN, NEW v, b /\ v # Null => v[1] \in Taken,
         HandOut(b, v)
  PROVE  LiveInv'
<1> DEFINE c0 == f[1]
<1>1. /\ header' = [header EXCEPT ![c0] = [is_marked |-> FALSE, is_pointer |-> b]]
      /\ car' = [car EXCEPT ![c0] = v]
      /\ use' = [use EXCEPT ![c0] = "open"]
      /\ ret' = <<c0, "car">>
      /\ cdr' = cdr
  BY DEF HandOut
<1>2. c0 \in Cell /\ c0 \notin Taken
  BY HeadIsFree DEF Free
<1>3. /\ header \in [Cell -> [is_marked : BOOLEAN, is_pointer : BOOLEAN]]
      /\ car \in [Cell -> {Null, Scalar} \cup CarPtr]
      /\ use \in [Cell -> {"free", "open", "built"}]
  BY DEF HeapInv, TypeOK
<1> HIDE DEF c0
<1>4. Taken' = Taken \cup {c0}
  BY <1>1, <1>2, <1>3 DEF Taken
<1>5. RootsIn(Taken) /\ CarsIn(Taken, Taken) /\ NoLinks
  BY DEF LiveInv, KeptOK, Kept
<1>6. NoLinks'
  BY <1>1, <1>2, <1>3, <1>5 DEF NoLinks
<1>7. RootsIn(Taken)'
  BY <1>4, <1>5 DEF RootsIn
<1>8. CarsIn(Taken, Taken)'
  <2>1. ASSUME NEW c \in Taken PROVE header'[c] = header[c] /\ car'[c] = car[c]
    BY <1>1, <1>2, <1>3 DEF Taken
  <2>2. header'[c0].is_pointer = b /\ car'[c0] = v
    BY <1>1, <1>2, <1>3
  <2> QED
    BY <1>4, <1>5, <2>1, <2>2 DEF CarsIn
<1>9. ret' # Null => ret'[1] \in Taken'
  BY <1>1, <1>4
<1> QED
  BY <1>6, <1>7, <1>8, <1>9 DEF LiveInv, ReqRooted, Tricolour, KeptOK, Kept

LEMMA AllocLive ==
  ASSUME HeapInv, StackOK, LiveInv, Alloc \/ gc_new_retry
  PROVE  LiveInv'
<1>1. Null # Scalar
  BY WordAssumption
<1>2. CASE gc_new_retry
  <2>1. /\ pc = "alloc" /\ pc' = "run" /\ f # Null /\ HandOut(req.is_pointer, req.car)
        /\ UNCHANGED <<chain, stack>>
    BY <1>2 DEF gc_new_retry, collector
  <2>2. req.is_pointer \in BOOLEAN
    BY DEF HeapInv, TypeOK
  <2>3. ASSUME req.is_pointer, req.car # Null PROVE req.car[1] \in Taken
    <3>1. /\ RootsIn(Taken) /\ CarsIn(Taken, Taken) /\ 1 \in 1 .. Len(chain)
      BY <2>1 DEF LiveInv, KeptOK, Kept, ReqRooted, HeapInv, TypeOK
    <3>2. PICK s \in Slot : /\ chain[1][s] # Null
                            /\ \/ chain[1][s] = req.car
                               \/ /\ header[chain[1][s][1]].is_pointer
                                  /\ car[chain[1][s][1]] = req.car
      BY <2>1, <2>3 DEF LiveInv, ReqRooted
    <3> QED
      BY <2>3, <3>1, <3>2 DEF RootsIn, CarsIn
  <2> QED
    BY <2>1, <2>2, <2>3, HandOutLive
<1>3. CASE Alloc
  <2>1. PICK b \in BOOLEAN, v \in Values \cup {Null, Scalar} :
          (b => v \in Values) /\ (gc_new(b, v) \/ gc_new_collect(b, v))
    BY <1>3 DEF Alloc
  <2>2. pc = "run" /\ ret = Null /\ chain # << >>
    BY <1>3, <2>1 DEF Alloc, gc_new, gc_new_collect, Running
  <2>3. ASSUME b, v # Null
        PROVE  /\ v[1] \in Taken
               /\ \E s \in Slot : /\ chain[1][s] # Null
                                  /\ \/ chain[1][s] = v
                                     \/ /\ header[chain[1][s][1]].is_pointer
                                        /\ car[chain[1][s][1]] = v
    BY <2>1, <2>2, <2>3, ValuesTaken
  <2>4. CASE gc_new(b, v)
    <3>1. f # Null /\ pc' = "run" /\ HandOut(b, v) /\ UNCHANGED <<chain, stack>>
      BY <2>2, <2>4 DEF gc_new, collector
    <3> QED
      BY <2>1, <2>2, <2>3, <3>1, HandOutLive
  <2>5. CASE gc_new_collect(b, v)
    <3>1. /\ req' = [is_pointer |-> b, car |-> v] /\ pc' = "roots" /\ cursor' = <<1, 1>>
          /\ UNCHANGED <<header, car, cdr, f, use, chain, ret, stack>>
      BY <2>5 DEF gc_new_collect, heap
    <3>2. Marked = {} /\ Marked' = Marked /\ stack = << >>
      BY <2>2, <3>1 DEF HeapInv, MarksClear, Marked, StackOK
    <3>3. NoLinks' /\ ReqRooted'
      BY <2>2, <2>3, <3>1 DEF LiveInv, NoLinks, ReqRooted
    <3>4. Tricolour'
      <4>1. \A k \in 1 .. Len(chain) : \A s \in Slot : ~(k < 1) /\ ~(s < 1)
        BY DEF Slot
      <4> QED
        BY <3>1, <3>2, <4>1 DEF Tricolour
    <3>5. KeptOK'
      BY <3>1 DEF KeptOK
    <3> QED
      BY <3>3, <3>4, <3>5 DEF LiveInv
  <2> QED
    BY <2>1, <2>4, <2>5
<1> QED
  BY <1>2, <1>3

LEMMA LiveStep ==
  ASSUME HeapInv, StackOK, LiveInv, ~Linking, [Next]_vars
  PROVE  LiveInv'
<1>1. CASE UNCHANGED vars
  BY <1>1 DEF vars, LiveInv, NoLinks, ReqRooted, Tricolour, KeptOK, Kept, Taken, Marked, RootsIn,
              CarsIn, CdrsIn, Around, CarPending, CdrPending
<1> QED
  BY <1>1, ClientLive, AllocLive, MarkLive, SweepLive, SweepRest DEF Next, Collector

LEMMA InitLive == Init => StackOK /\ LiveInv
<1> SUFFICES ASSUME Init PROVE StackOK /\ LiveInv
  OBVIOUS
<1>1. StackOK
  BY DEF Init, StackOK
<1>2. NoLinks
  BY DEF Init, initAllocator, NoLinks, CdrPtr
<1>3. Taken = {} /\ chain = << >> /\ ret = Null
  BY DEF Init, Taken
<1> QED
  BY <1>1, <1>2, <1>3 DEF Init, LiveInv, ReqRooted, Tricolour, KeptOK, Kept, RootsIn, CarsIn

-------------------------------------------------------------------------------
(* The theorems.                                                           *)

\* mark() is on the C stack at most once for each address (gc.c:148-166).
THEOREM StackInvariant == Spec => []StackOK
<1>1. Init => StackOK
  BY InitLive
<1>2. HeapInv /\ StackOK /\ [Next]_vars => StackOK'
  BY StackStep
<1> QED
  BY <1>1, <1>2, HeapInvariant, PTL DEF Spec

\* The invariant of a collection, for programs that link no list: what is marked, what is
\* still to be looked at, and what is in use (gc.c:135-203).
THEOREM LiveInvariant == Spec => [](~Linking => LiveInv)
<1>1. Init => (~Linking => LiveInv)
  BY InitLive
<1>2. HeapInv /\ StackOK /\ (~Linking => LiveInv) /\ [Next]_vars => (~Linking => LiveInv)'
  BY LiveStep
<1> QED
  BY <1>1, <1>2, HeapInvariant, StackInvariant, PTL DEF Spec

\* "A function to recursively mark live objects" (gc.h:46): when visitGCRoots is done,
\* what the roots and the marked cells name is marked (mark, gc.c:148-166).
THEOREM LiveMarkedCorrect == Spec => [](~Linking => LiveMarked)
<1>1. HeapInv /\ LiveInv => LiveMarked
  <2> SUFFICES ASSUME HeapInv, LiveInv, pc = "sweep", i = 0 PROVE LiveMarked
    BY DEF LiveMarked
  <2>1. Kept = Marked
    <3>1. \A c \in Cell : ~(c < 0)
      BY CellInt
    <3> QED
      BY <3>1 DEF Kept, Marked
  <2>2. RootsIn(Marked) /\ CarsIn(Marked, Marked)
    BY <2>1 DEF LiveInv, KeptOK
  <2>3. \A c \in Cell : use[c] = "built" => cdr[c] \notin CarPtr
    BY AddressNotWord DEF LiveInv, NoLinks
  <2> QED
    BY <2>2, <2>3 DEF LiveMarked, RootsIn, CarsIn, Marked
<1> QED
  BY <1>1, HeapInvariant, LiveInvariant, PTL

\* collect() reclaims no cell that the program, or a cell in use, still names
\* (gc.c:135-191).
THEOREM NoDanglingCorrect == Spec => [](~Linking => NoDangling)
<1>1. HeapInv /\ LiveInv => NoDangling
  <2> SUFFICES ASSUME HeapInv, LiveInv, pc \in {"run", "alloc", "oom"} PROVE NoDangling
    BY DEF NoDangling
  <2>1. RootsIn(Taken) /\ CarsIn(Taken, Taken)
    BY DEF LiveInv, KeptOK, Kept
  <2>2. \A c \in Taken : use[c] = "built" => cdr[c] \notin CarPtr
    BY AddressNotWord DEF LiveInv, NoLinks, Taken
  <2> QED
    BY <2>1, <2>2 DEF NoDangling, RootsIn, CarsIn
<1> QED
  BY <1>1, HeapInvariant, LiveInvariant, PTL

\* gc_new gives up only after it has found the free list empty again (gc.c:66-68).
LEMMA AbortOnEmpty == Spec => [](pc = "oom" => f = Null)
<1>1. Init => (pc = "oom" => f = Null)
  BY DEF Init
<1>2. (pc = "oom" => f = Null) /\ [Next]_vars => (pc = "oom" => f = Null)'
  <2> SUFFICES ASSUME pc = "oom" => f = Null, [Next]_vars, pc' = "oom" PROVE f' = Null
    OBVIOUS
  <2>1. CASE Client \/ Alloc
    BY <2>1 DEF Client, Alloc, Running, Keep, gc_push, gc_pop, Assign, StoreCar, StoreCdr, gc_new,
                gc_new_collect
  <2>2. CASE Collector
    BY <2>2 DEF Collector, markFromRoots, NextFrame, mark_car, mark_cdr, mark_wild, sweep,
                sweep_marked, sweep_unmarked, sweep_end, gc_new_retry, gc_new_abort, heap
  <2>3. CASE UNCHANGED vars
    BY <2>3 DEF vars
  <2> QED
    BY <2>1, <2>2, <2>3 DEF Next
<1> QED
  BY <1>1, <1>2, PTL DEF Spec

\* abort() is called only when every cell of the arena is in use, or named by the link
\* that an unfinished cell still holds (gc.c:66-68).
THEOREM OomMeansFullCorrect == Spec => [](~Linking => OomMeansFull)
<1>1. HeapInv /\ LiveInv /\ (pc = "oom" => f = Null) => OomMeansFull
  <2> SUFFICES ASSUME HeapInv, LiveInv, pc = "oom", f = Null PROVE OomMeansFull
    BY DEF OomMeansFull
  <2>1. Free = {}
    <3>1. LinksTo(Free, -1, Null)
      BY DEF HeapInv, FreeListOK
    <3>2. \A d \in Free : d > -1 /\ d \in Int /\ <<d, "cdr">> # Null
      BY CellInt, AddressNotWord DEF Free, CdrPtr
    <3> QED
      BY <3>1, <3>2 DEF LinksTo
  <2>2. Kept = Cell
    BY <2>1 DEF Kept, Free, Taken
  <2>3. \A S \in SUBSET Cell : Around(S) => Cell \subseteq S
    BY <2>2 DEF LiveInv, KeptOK
  <2> QED
    BY <2>3 DEF OomMeansFull, Around, RootsIn, CarsIn, CdrsIn
<1> QED
  BY <1>1, HeapInvariant, LiveInvariant, AbortOnEmpty, PTL

\* A sequence that never repeats one of n numbers is no longer than n.
LEMMA NoLonger ==
  ASSUME NEW len \in Nat, NEW n \in Nat, NEW g \in [1 .. len -> 0 .. n - 1],
         \A j, k \in 1 .. len : g[j] = g[k] => j = k
  PROVE  len <= n
<1>1. IsFiniteSet(1 .. len) /\ Cardinality(1 .. len) = len
  BY FS_Interval
<1>2. IsFiniteSet(0 .. n - 1) /\ Cardinality(0 .. n - 1) = n
  BY FS_Interval
<1>3. ASSUME n < len
      PROVE  \E x, y \in 1 .. len : x # y /\ g[x] = g[y]
  BY <1>1, <1>2, <1>3, FS_PigeonHole
<1> QED
  BY <1>3

\* The recursion of mark() is never deeper than there are addresses to recurse on: those
\* of the cars, and, once a list is linked, those of the headers (gc.c:148-166).
THEOREM DepthBoundCorrect == Spec => []DepthBound
<1>1. HeapInv /\ StackOK /\ (~Linking => LiveInv) => DepthBound
  <2> SUFFICES ASSUME HeapInv, StackOK, ~Linking => LiveInv PROVE DepthBound
    OBVIOUS
  <2>1. stack \in Seq(ActivationSet) /\ Len(stack) \in Nat /\ NumCells \in Nat
    BY NumCellsAssumption DEF HeapInv, TypeOK, ActivationSet
  <2> DEFINE num(p) == IF p[2] = "car" THEN p[1] ELSE NumCells + p[1]
             g == [k \in 1 .. Len(stack) |-> num(stack[k].ptr)]
  <2>2. ASSUME NEW k \in 1 .. Len(stack)
        PROVE  \E c \in Cell : \/ stack[k].ptr = <<c, "car">> /\ g[k] = c
                               \/ stack[k].ptr = <<c, "header">> /\ g[k] = NumCells + c
    <3>1. stack[k].ptr \in CarPtr \/ stack[k].ptr \in HeaderPtr
      <4>1. stack[k] \in ActivationSet
        BY <2>1, <2>2
      <4> QED
        BY <4>1 DEF ActivationSet
    <3>2. g[k] = num(stack[k].ptr)
      BY <2>2
    <3> HIDE DEF g
    <3>3. CASE stack[k].ptr \in CarPtr
      BY <3>2, <3>3, NumCellsAssumption DEF CarPtr, Cell
    <3>4. CASE stack[k].ptr \in HeaderPtr
      <4>1. PICK c \in Cell : stack[k].ptr = <<c, "header">>
        BY <3>4 DEF HeaderPtr
      <4>2. g[k] = NumCells + c
        BY <3>2, <4>1
      <4> QED
        BY <4>1, <4>2
    <3> QED
      BY <3>1, <3>3, <3>4
  <2>3. \A c \in Cell : c \in 0 .. NumCells - 1 /\ c \in Int
    BY DEF Cell
  <2> HIDE DEF g
  <2>4. ASSUME NEW j \in 1 .. Len(stack), NEW k \in 1 .. Len(stack), g[j] = g[k]
        PROVE  stack[j].ptr = stack[k].ptr
    <3>1. PICK b \in Cell : \/ stack[j].ptr = <<b, "car">> /\ g[j] = b
                            \/ stack[j].ptr = <<b, "header">> /\ g[j] = NumCells + b
      BY <2>2
    <3>2. PICK c \in Cell : \/ stack[k].ptr = <<c, "car">> /\ g[k] = c
                            \/ stack[k].ptr = <<c, "header">> /\ g[k] = NumCells + c
      BY <2>2
    <3>3. b # NumCells + c /\ c # NumCells + b /\ (NumCells + b = NumCells + c => b = c)
      BY <2>1, <2>3
    <3> QED
      BY <2>4, <3>1, <3>2, <3>3
  <2>5. \A j, k \in 1 .. Len(stack) : g[j] = g[k] => j = k
    BY <2>4 DEF StackOK
  <2>6. DOMAIN g = 1 .. Len(stack) /\ g = [k \in 1 .. Len(stack) |-> g[k]]
    BY DEF g
  <2>7. CASE Linking
    <3>1. \A k \in 1 .. Len(stack) : g[k] \in 0 .. (2 * NumCells) - 1
      BY <2>1, <2>2, <2>3
    <3>2. g \in [1 .. Len(stack) -> 0 .. (2 * NumCells) - 1]
      BY <2>6, <3>1
    <3>3. 2 * NumCells \in Nat
      BY <2>1
    <3>4. Len(stack) <= 2 * NumCells
      BY <2>1, <2>5, <3>2, <3>3, NoLonger
    <3> QED
      BY <2>7, <3>4 DEF DepthBound
  <2>8. CASE ~Linking
    <3>1. \A k \in 1 .. Len(stack) : g[k] \in 0 .. NumCells - 1
      BY <2>2, <2>3, <2>8 DEF LiveInv, NoLinks, CarPtr
    <3>2. g \in [1 .. Len(stack) -> 0 .. NumCells - 1]
      BY <2>6, <3>1
    <3>3. Len(stack) <= NumCells
      BY <2>1, <2>5, <3>2, NoLonger
    <3> QED
      BY <2>8, <3>3 DEF DepthBound
  <2> QED
    BY <2>7, <2>8, BoundsAssumption
<1> QED
  BY <1>1, HeapInvariant, StackInvariant, LiveInvariant, PTL
===============================================================================
