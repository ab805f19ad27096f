----------------------------- MODULE ScopesProofs -----------------------------
(***************************************************************************)
(* Proofs about names inside a function body, for any set of names, blocks *)
(* nested to any depth and any number of variables.                        *)
(*                                                                         *)
(* The argument: the generator's flat map, with the bindings it keeps to   *)
(* put back, describes at every moment the checker's stack of scopes.      *)
(* Mapped says so of the map for the whole stack, and of each kept binding *)
(* for the scopes below its block; the theorems follow at the access.      *)
(***************************************************************************)
EXTENDS Scopes, SequenceTheorems, WellFoundedInduction, TLAPS

-------------------------------------------------------------------------------
(* The invariant.                                                          *)

Vars(k) == blocks[k].vars
Bound(n, k) == symbol_table[k][n] # None

\* Each block has its scope, in the order in which the walk enters them.
Shape ==
  /\ blocks[1].kind = "program"
  /\ \A k \in 1 .. Depth :
       blocks[k].kind \in (IF k >= 3 THEN {"var", "for", "branch"}
                           ELSE IF k = 2 THEN {"prototype", "function"} ELSE {"program"})

\* A binding is a function of the line, or the declaration of a variable of its block, for
\* which the generator has made an alloca unless it is never assigned.
Declared ==
  \A k \in 1 .. Depth, n \in Name : Bound(n, k) =>
    LET b == symbol_table[k][n]
    IN  /\ b.id \in 0 .. Len(alloca)
        /\ k >= 2 => b.id # 0
        /\ b.id # 0 => /\ \E j \in DOMAIN Vars(k) : /\ Vars(k)[j].name = n /\ Vars(k)[j].id = b.id
                                                   /\ Vars(k)[j].t = alloca[b.id]
                       /\ b.type # None => alloca[b.id] # None

Valued == \A k \in 1 .. Depth : \A j \in DOMAIN Vars(k) : Vars(k)[j].val => Vars(k)[j].t # None

\* HeldBy, of any blocks and constructs met.
Held(bs, met, n, w, k) ==
  \E h \in 2 .. k : \E j \in DOMAIN bs[h].vars :
    /\ bs[h].vars[j].id = w
    /\ bs[h].vars[j].name = n \/ (h = 2 /\ "renamed" \in met)

\* Every variable of a block is bound in its scope.
Entered == \A k \in 2 .. Depth : \A j \in DOMAIN Vars(k) : Bound(Vars(k)[j].name, k)

\* Without a name declared twice in a block, a binding that the block keeps for later is
\* the alloca of a variable of a block below.
Kept ==
  "duplicate" \notin quirks =>
    \A k \in 3 .. Depth : \A j \in DOMAIN Vars(k) :
      Vars(k)[j].old # None => Held(blocks, quirks, Vars(k)[j].name, Vars(k)[j].old, k - 1)

\* w is what the generator should map n to if the first k of the scopes were the only ones.
MapsTo(table, made, k, n, w) ==
  \/ w = None /\ \A j \in 1 .. k : table[j][n] = None
  \/ \E j \in 1 .. k :
       /\ table[j][n] # None /\ \A h \in j + 1 .. k : table[h][n] = None
       /\ w = LET id == table[j][n].id
              IN  IF id = 0 THEN None ELSE IF made[id] = None THEN None ELSE id

Mapped ==
  {"duplicate", "unassigned", "renamed"} \cap quirks = {} =>
    /\ \A n \in Name : MapsTo(symbol_table, alloca, Depth, n, map[n])
    /\ \A k \in 3 .. Depth : \A j \in DOMAIN Vars(k) :
         MapsTo(symbol_table, alloca, k - 1, Vars(k)[j].name, Vars(k)[j].old)

\* Without an annotation that the first assignment contradicts, and without a declaration
\* that gave a parameter another type, an alloca has the type the checker gives its variable.
Typed ==
  {"annotation", "redeclared"} \cap quirks = {} =>
    \A k \in 1 .. Depth, n \in Name :
      Bound(n, k) /\ symbol_table[k][n].id # 0 /\ symbol_table[k][n].type # None
        => alloca[symbol_table[k][n].id] = symbol_table[k][n].type

ScopesInv ==
  /\ TypeOK /\ Shape /\ Declared /\ Entered /\ Valued /\ Kept /\ Mapped /\ Typed
  /\ NoLeakedName /\ SameVariable /\ RootedPointers

-------------------------------------------------------------------------------
(* Scopes as sequences.                                                    *)

Before == {p \in Nat \X Nat : p[1] < p[2]}

LEMMA BeforeIsWellFounded == IsWellFoundedOn(Before, Nat)
BY NatLessThanWellFounded DEF OpToRel, Before

LEMMA LeastNumber ==
  ASSUME NEW T, T \subseteq Nat, T # {}
  PROVE  \E m \in T : \A k \in T : m <= k
<1>1. PICK m \in T : \A k \in T : <<k, m>> \notin Before
  BY BeforeIsWellFounded, WFMin
<1>2. \A k \in T : ~(k < m)
  BY <1>1 DEF Before
<1> QED BY <1>2

\* A non-empty set of positions has a last one.
LEMMA LastPosition ==
  ASSUME NEW N \in Nat, NEW J \in SUBSET (1 .. N), J # {}
  PROVE  \E j \in J : \A k \in J : k <= j
<1> DEFINE After == {m \in Nat : N - m \in J}
<1>1. PICK i \in J : TRUE
  OBVIOUS
<1>2. N - i \in After
  <2>1. i \in 1 .. N
    OBVIOUS
  <2>2. N - i \in Nat /\ N - (N - i) = i
    BY <2>1
  <2> QED BY <2>2
<1>3. PICK m \in After : \A k \in After : m <= k
  BY <1>2, LeastNumber
<1>4. \A k \in J : k <= N - m
  <2> SUFFICES ASSUME NEW k \in J PROVE k <= N - m
    OBVIOUS
  <2>1. k \in 1 .. N
    OBVIOUS
  <2>2. N - k \in Nat /\ N - (N - k) = k
    BY <2>1
  <2>3. m <= N - k
    BY <1>3, <2>2
  <2> QED BY <2>1, <2>3, m \in Nat
<1> QED BY <1>4

\* A visible name has an innermost scope that binds it.
LEMMA Innermost ==
  ASSUME Depth \in Nat, NEW n, Visible(n)
  PROVE  /\ ScopeOf(n) \in 1 .. Depth /\ Has(n, ScopeOf(n))
         /\ \A j \in ScopeOf(n) + 1 .. Depth : ~Has(n, j)
<1> DEFINE J == {k \in 1 .. Depth : Has(n, k)}
<1>1. PICK k \in J : \A h \in J : h <= k
  BY LastPosition DEF Visible
<1>2. k \in 1 .. Depth /\ Has(n, k) /\ \A j \in k + 1 .. Depth : ~Has(n, j)
  BY <1>1
<1> QED BY <1>2 DEF ScopeOf

\* What the type invariant says of the scopes and blocks one by one.
LEMMA Typing ==
  ASSUME TypeOK
  PROVE  /\ Depth \in Nat /\ Depth >= 2 /\ DOMAIN symbol_table = 1 .. Depth
         /\ DOMAIN blocks = 1 .. Depth /\ Len(alloca) \in Nat
         /\ \A k \in 1 .. Depth : symbol_table[k] \in [Name -> Binding \cup {None}]
         /\ \A k \in 1 .. Depth :
              blocks[k] \in [kind : {"program", "prototype", "function", "var", "for", "branch"},
                             vars : Seq(Variable)]
         /\ \A k \in 1 .. Depth : DOMAIN Vars(k) = 1 .. Len(Vars(k)) /\ Len(Vars(k)) \in Nat
         /\ \A k \in 1 .. Depth : \A j \in DOMAIN Vars(k) : Vars(k)[j] \in Variable
         /\ \A i \in 1 .. Len(alloca) : alloca[i] \in Type \cup {None}
<1>1. /\ Depth \in Nat /\ Depth >= 2 /\ DOMAIN symbol_table = 1 .. Depth
      /\ DOMAIN blocks = 1 .. Depth /\ Len(alloca) \in Nat
  BY DEF TypeOK, Depth
<1>2. \A k \in 1 .. Depth : symbol_table[k] \in [Name -> Binding \cup {None}]
  BY DEF TypeOK, Depth
<1>3. \A k \in 1 .. Depth :
        blocks[k] \in [kind : {"program", "prototype", "function", "var", "for", "branch"},
                       vars : Seq(Variable)]
  BY <1>1, ElementOfSeq DEF TypeOK, Depth
<1>4. \A k \in 1 .. Depth : Vars(k) \in Seq(Variable)
  BY <1>3 DEF Vars
<1>5. \A k \in 1 .. Depth : DOMAIN Vars(k) = 1 .. Len(Vars(k)) /\ Len(Vars(k)) \in Nat
  BY <1>4
<1>6. \A k \in 1 .. Depth : \A j \in DOMAIN Vars(k) : Vars(k)[j] \in Variable
  BY <1>4
<1>7. \A i \in 1 .. Len(alloca) : alloca[i] \in Type \cup {None}
  BY DEF TypeOK
<1> QED BY <1>1, <1>2, <1>3, <1>5, <1>6, <1>7

\* A binding or a record kept of one is never None.
LEMMA NoneIsNothing ==
  /\ None \notin Binding /\ None \notin 0 .. MaxAlloca /\ None \notin Type
  /\ None \notin [meant : 0 .. MaxAlloca, used : 1 .. MaxAlloca \cup {None}, type : Type]
BY NoneAssumption, BoundsAssumption DEF Binding

-------------------------------------------------------------------------------
(* What the actions do, one scope and one variable at a time.               *)

\* A binding: it replaces that of its name in the innermost scope, and its variable is
\* the last of the block; nothing else moves.
BindSteps(n, key, type, t, val) ==
  /\ Depth' = Depth /\ Len(alloca') = NextId /\ NextId <= MaxAlloca
  /\ \A k \in 1 .. Depth, m \in Name :
       symbol_table'[k][m] = IF k = Depth /\ m = n THEN [id |-> NextId, type |-> type]
                                                  ELSE symbol_table[k][m]
  /\ \A i \in 1 .. Len(alloca) : alloca'[i] = alloca[i]
  /\ alloca'[NextId] = t
  /\ \A k \in 1 .. Depth : blocks'[k].kind = blocks[k].kind
  /\ \A k \in 1 .. Depth - 1 : blocks'[k].vars = Vars(k)
  /\ DOMAIN blocks'[Depth].vars = 1 .. Len(Vars(Depth)) + 1
  /\ \A j \in DOMAIN Vars(Depth) : blocks'[Depth].vars[j] = Vars(Depth)[j]
  /\ blocks'[Depth].vars[Len(Vars(Depth)) + 1] =
       [name |-> n, t |-> t, val |-> val, id |-> NextId,
        old |-> IF t = None THEN None ELSE map[n]]
  /\ \A m \in Name : map'[m] = IF m = key /\ t # None THEN NextId ELSE map[m]
  /\ access' = None

LEMMA BindEffect ==
  ASSUME TypeOK, NEW n \in Name, NEW key, NEW type \in Type \cup {None}, NEW t \in Type \cup {None},
         NEW val \in BOOLEAN, Bind(n, key, type, t, val)
  PROVE  BindSteps(n, key, type, t, val)
<1> USE Typing
<1>1. Depth' = Depth
  BY DEF Bind, Depth, TypeOK
<1>2. \A k \in 1 .. Depth, m \in Name :
        symbol_table'[k][m] = IF k = Depth /\ m = n THEN [id |-> NextId, type |-> type]
                                                   ELSE symbol_table[k][m]
  BY DEF Bind
<1>3. /\ Len(alloca') = NextId /\ NextId <= MaxAlloca
      /\ \A i \in 1 .. Len(alloca) : alloca'[i] = alloca[i]
      /\ alloca'[NextId] = t
  BY BoundsAssumption DEF Bind, NextId, TypeOK
<1>4. /\ \A k \in 1 .. Depth : blocks'[k].kind = blocks[k].kind
      /\ \A k \in 1 .. Depth - 1 : blocks'[k].vars = Vars(k)
      /\ blocks'[Depth].vars = Append(Vars(Depth),
           [name |-> n, t |-> t, val |-> val, id |-> NextId,
            old |-> IF t = None THEN None ELSE map[n]])
  BY DEF Bind, Vars
<1>5. /\ DOMAIN blocks'[Depth].vars = 1 .. Len(Vars(Depth)) + 1
      /\ \A j \in DOMAIN Vars(Depth) : blocks'[Depth].vars[j] = Vars(Depth)[j]
      /\ blocks'[Depth].vars[Len(Vars(Depth)) + 1] =
           [name |-> n, t |-> t, val |-> val, id |-> NextId,
            old |-> IF t = None THEN None ELSE map[n]]
  <2>1. Vars(Depth) \in Seq(Variable)
    BY DEF Vars
  <2> QED BY <1>4, <2>1
<1>6. (\A m \in Name : map'[m] = IF m = key /\ t # None THEN NextId ELSE map[m]) /\ access' = None
  BY DEF Bind, TypeOK
<1> QED BY <1>1, <1>2, <1>3, <1>4, <1>5, <1>6 DEF BindSteps

LEMMA BlockUpdate ==
  ASSUME NEW K, NEW V, NEW b \in [kind : K, vars : V], NEW vs \in V
  PROVE  [b EXCEPT !.vars = vs] \in [kind : K, vars : V]
OBVIOUS

LEMMA BindType ==
  ASSUME TypeOK, NEW n \in Name, NEW key, NEW type \in Type \cup {None}, NEW t \in Type \cup {None},
         NEW val \in BOOLEAN, Bind(n, key, type, t, val),
         quirks' \subseteq Quirk
  PROVE  TypeOK'
<1> USE Typing
<1>1. NextId \in 1 .. MaxAlloca /\ NextId \in 0 .. MaxAlloca
  BY BoundsAssumption DEF Bind, NextId, TypeOK
<1>2. [id |-> NextId, type |-> type] \in Binding
  BY <1>1 DEF Binding
<1>3. symbol_table' \in Seq([Name -> Binding \cup {None}]) /\ Len(symbol_table') = Depth
  BY <1>2 DEF Bind, TypeOK, Depth
<1>4. [name |-> n, t |-> t, val |-> val, id |-> NextId,
       old |-> IF t = None THEN None ELSE map[n]] \in Variable
  BY <1>1 DEF Variable, TypeOK
<1>5. /\ blocks' \in Seq([kind : {"program", "prototype", "function", "var", "for", "branch"},
                         vars : Seq(Variable)])
      /\ Len(blocks') = Depth
  <2> DEFINE v == [name |-> n, t |-> t, val |-> val, id |-> NextId,
                   old |-> IF t = None THEN None ELSE map[n]]
  <2>1. blocks' = [blocks EXCEPT ![Depth].vars = Append(@, v)]
    BY DEF Bind
  <2>2. v \in Variable
    BY <1>4
  <2> HIDE DEF v
  <2>3. Append(blocks[Depth].vars, v) \in Seq(Variable)
    BY <2>2 DEF Vars
  <2>4. [blocks[Depth] EXCEPT !.vars = Append(@, v)] \in
          [kind : {"program", "prototype", "function", "var", "for", "branch"}, vars : Seq(Variable)]
    <3>1. blocks[Depth] \in
            [kind : {"program", "prototype", "function", "var", "for", "branch"}, vars : Seq(Variable)]
      OBVIOUS
    <3> QED BY <2>3, <3>1, BlockUpdate
  <2>5. blocks' = [blocks EXCEPT ![Depth] = [blocks[Depth] EXCEPT !.vars = Append(@, v)]]
    BY <2>1
  <2> QED BY <2>4, <2>5, ExceptSeq DEF TypeOK, Depth
<1>6. map' \in [Name -> 1 .. MaxAlloca \cup {None}]
  BY <1>1 DEF Bind, TypeOK
<1>7. alloca' \in Seq(Type \cup {None}) /\ Len(alloca') <= MaxAlloca
  BY <1>1 DEF Bind, TypeOK, NextId
<1> QED BY <1>3, <1>5, <1>6, <1>7 DEF TypeOK, Bind, Depth

LEMMA SameMapping ==
  ASSUME NEW k, NEW n, NEW w, NEW table, NEW table2, NEW made, NEW made2,
         MapsTo(table, made, k, n, w),
         \A j \in 1 .. k : table[j][n] = None <=> table2[j][n] = None,
         \A j \in 1 .. k : table[j][n] # None =>
           /\ table2[j][n].id = table[j][n].id
           /\ table[j][n].id # 0 => made2[table[j][n].id] = made[table[j][n].id]
  PROVE  MapsTo(table2, made2, k, n, w)
BY DEF MapsTo

\* A scope that does not bind the name says nothing of it.
LEMMA MappingBelow ==
  ASSUME NEW k \in Nat \ {0}, NEW n, NEW w, NEW table, NEW made, table[k][n] = None
  PROVE  MapsTo(table, made, k, n, w) <=> MapsTo(table, made, k - 1, n, w)
BY DEF MapsTo

\* What is held by an open block stays so while blocks keep their variables.
LEMMA StillHeld ==
  ASSUME NEW bs, NEW bs2, NEW met, NEW met2, NEW n, NEW w,
         NEW k \in Nat, NEW k2 \in Nat, k <= k2, Held(bs, met, n, w, k),
         \A h \in 2 .. k : \A j \in DOMAIN bs[h].vars :
           j \in DOMAIN bs2[h].vars /\ bs2[h].vars[j] = bs[h].vars[j],
         met \subseteq met2
  PROVE  Held(bs2, met2, n, w, k2)
<1>1. PICK h \in 2 .. k : \E j \in DOMAIN bs[h].vars :
        bs[h].vars[j].id = w /\ (bs[h].vars[j].name = n \/ (h = 2 /\ "renamed" \in met))
  BY DEF Held
<1>2. PICK j \in DOMAIN bs[h].vars :
        bs[h].vars[j].id = w /\ (bs[h].vars[j].name = n \/ (h = 2 /\ "renamed" \in met))
  BY <1>1
<1>3. h \in 2 .. k2 /\ j \in DOMAIN bs2[h].vars /\ bs2[h].vars[j] = bs[h].vars[j]
  OBVIOUS
<1> QED BY <1>2, <1>3 DEF Held

-------------------------------------------------------------------------------
(* Declarations and parameters.                                             *)

LEMMA BindKeeps ==
  ASSUME ScopesInv,
         NEW n \in Name, NEW key, NEW type \in Type \cup {None}, NEW t \in Type \cup {None},
         NEW val \in BOOLEAN, Bind(n, key, type, t, val),
         val => t # None, type # None => t # None,
         type # None /\ "redeclared" \notin quirks' => type = t,
         key # n => Depth = 2 /\ "renamed" \in quirks',
         quirks \subseteq quirks',
         quirks' \subseteq Quirk,
         Depth >= 3 /\ "duplicate" \notin quirks' => ~Bound(n, Depth),
         t = None /\ "unassigned" \notin quirks' => ~Visible(n)
  PROVE  ScopesInv'
<1> DEFINE last == Len(Vars(Depth)) + 1
<1>1. BindSteps(n, key, type, t, val) /\ TypeOK'
  BY BindEffect, BindType DEF ScopesInv
<1>2. /\ Depth \in Nat /\ Depth >= 2 /\ Len(alloca) \in Nat /\ NextId = Len(alloca) + 1
      /\ \A k \in 1 .. Depth : DOMAIN Vars(k) = 1 .. Len(Vars(k)) /\ Len(Vars(k)) \in Nat
  BY Typing DEF ScopesInv, NextId
<1>3. \A k \in 1 .. Depth : \A j \in DOMAIN Vars(k) :
        j \in DOMAIN blocks'[k].vars /\ blocks'[k].vars[j] = Vars(k)[j]
  <2>1. \A k \in 1 .. Depth - 1 : blocks'[k].vars = Vars(k)
    BY <1>1 DEF BindSteps
  <2>2. \A j \in DOMAIN Vars(Depth) :
          j \in DOMAIN blocks'[Depth].vars /\ blocks'[Depth].vars[j] = Vars(Depth)[j]
    BY <1>1, <1>2 DEF BindSteps
  <2>3. \A k \in 1 .. Depth : k \in 1 .. Depth - 1 \/ k = Depth
    BY <1>2
  <2> QED BY <2>1, <2>2, <2>3
<1>4. \A k \in 1 .. Depth : \A j \in DOMAIN blocks'[k].vars :
        \/ j \in DOMAIN Vars(k)
        \/ k = Depth /\ j = last
  <2>1. \A k \in 1 .. Depth - 1 : blocks'[k].vars = Vars(k)
    BY <1>1 DEF BindSteps
  <2>2. \A j \in DOMAIN blocks'[Depth].vars : j \in DOMAIN Vars(Depth) \/ j = last
    <3>1. /\ DOMAIN blocks'[Depth].vars = 1 .. last /\ DOMAIN Vars(Depth) = 1 .. last - 1
          /\ last \in Nat
      BY <1>1, <1>2 DEF BindSteps
    <3> QED BY <3>1
  <2>3. \A k \in 1 .. Depth : k \in 1 .. Depth - 1 \/ k = Depth
    BY <1>2
  <2> QED BY <2>1, <2>2, <2>3
<1>5. \A k \in 1 .. Depth, m \in Name : symbol_table'[k][m] # None <=> Bound(m, k) \/ (k = Depth /\ m = n)
  <2>1. [id |-> NextId, type |-> type] # None
    BY <1>2, NoneAssumption
  <2> SUFFICES ASSUME NEW k \in 1 .. Depth, NEW m \in Name
               PROVE  symbol_table'[k][m] # None <=> Bound(m, k) \/ (k = Depth /\ m = n)
    OBVIOUS
  <2>2. symbol_table'[k][m] = IF k = Depth /\ m = n THEN [id |-> NextId, type |-> type]
                                                   ELSE symbol_table[k][m]
    BY <1>1 DEF BindSteps
  <2>3. CASE k = Depth /\ m = n
    BY <2>1, <2>2, <2>3
  <2>4. CASE ~(k = Depth /\ m = n)
    BY <2>2, <2>4 DEF Bound
  <2> QED BY <2>3, <2>4
<1>6. Shape'
  <2>1. Depth' = Depth /\ \A k \in 1 .. Depth : blocks'[k].kind = blocks[k].kind
    BY <1>1 DEF BindSteps
  <2>2. 1 \in 1 .. Depth
    BY <1>2
  <2> QED BY <2>1, <2>2 DEF Shape, ScopesInv
<1>7. Declared'
  <2> SUFFICES ASSUME NEW k \in 1 .. Depth, NEW m \in Name, symbol_table'[k][m] # None
               PROVE  LET b == symbol_table'[k][m]
                      IN  /\ b.id \in 0 .. Len(alloca')
                          /\ k >= 2 => b.id # 0
                          /\ b.id # 0 => /\ \E j \in DOMAIN blocks'[k].vars :
                                              /\ blocks'[k].vars[j].name = m
                                              /\ blocks'[k].vars[j].id = b.id
                                              /\ blocks'[k].vars[j].t = alloca'[b.id]
                                         /\ b.type # None => alloca'[b.id] # None
    BY <1>1 DEF Declared, Bound, Vars, BindSteps
  <2>1. CASE k = Depth /\ m = n
    <3>1. symbol_table'[k][m] = [id |-> NextId, type |-> type]
      BY <1>1, <2>1 DEF BindSteps
    <3>2. /\ last \in DOMAIN blocks'[k].vars /\ blocks'[k].vars[last].name = m
          /\ blocks'[k].vars[last].id = NextId /\ blocks'[k].vars[last].t = t
      BY <1>1, <1>2, <2>1 DEF BindSteps
    <3> QED BY <1>1, <1>2, <3>1, <3>2 DEF BindSteps
  <2>2. CASE ~(k = Depth /\ m = n)
    <3>1. symbol_table'[k][m] = symbol_table[k][m] /\ Bound(m, k)
      BY <1>1, <2>2 DEF BindSteps, Bound
    <3>2. LET b == symbol_table[k][m]
          IN  /\ b.id \in 0 .. Len(alloca)
              /\ k >= 2 => b.id # 0
              /\ b.id # 0 => /\ \E j \in DOMAIN Vars(k) : /\ Vars(k)[j].name = m /\ Vars(k)[j].id = b.id
                                                         /\ Vars(k)[j].t = alloca[b.id]
                             /\ b.type # None => alloca[b.id] # None
      BY <3>1 DEF ScopesInv, Declared
    <3> DEFINE id == symbol_table[k][m].id
    <3>3. id # 0 => id \in 1 .. Len(alloca) /\ alloca'[id] = alloca[id]
      BY <1>1, <1>2, <3>2 DEF BindSteps
    <3>4. id # 0 => \E j \in DOMAIN blocks'[k].vars :
                      /\ blocks'[k].vars[j].name = m /\ blocks'[k].vars[j].id = id
                      /\ blocks'[k].vars[j].t = alloca'[id]
      <4>1. ASSUME id # 0
            PROVE  \E j \in DOMAIN Vars(k) : /\ Vars(k)[j].name = m /\ Vars(k)[j].id = id
                                             /\ Vars(k)[j].t = alloca[id]
        BY <3>2, <4>1
      <4> QED BY <1>3, <3>3, <4>1
    <3>5. id \in 0 .. Len(alloca') /\ (k >= 2 => id # 0)
      BY <1>1, <1>2, <3>2 DEF BindSteps
    <3>6. id # 0 /\ symbol_table[k][m].type # None => alloca'[id] # None
      BY <3>2, <3>3
    <3> QED BY <3>1, <3>4, <3>5, <3>6
  <2> QED BY <2>1, <2>2
<1>8. Valued'
  <2> SUFFICES ASSUME NEW k \in 1 .. Depth, NEW j \in DOMAIN blocks'[k].vars, blocks'[k].vars[j].val
               PROVE  blocks'[k].vars[j].t # None
    BY <1>1 DEF Valued, Vars, BindSteps
  <2> QED BY <1>1, <1>3, <1>4 DEF BindSteps, ScopesInv, Valued
<1>9. Kept'
  <2> SUFFICES ASSUME "duplicate" \notin quirks', NEW k \in 3 .. Depth,
                      NEW j \in DOMAIN blocks'[k].vars, blocks'[k].vars[j].old # None
               PROVE  Held(blocks', quirks', blocks'[k].vars[j].name, blocks'[k].vars[j].old, k - 1)
    BY <1>1 DEF Kept, Vars, Held, BindSteps
  <2>1. k \in 1 .. Depth /\ k - 1 \in Nat /\ \A h \in 2 .. k - 1 : h \in 1 .. Depth
    BY <1>2
  <2>4. \A h \in 2 .. k - 1 : \A i \in DOMAIN blocks[h].vars :
          i \in DOMAIN blocks'[h].vars /\ blocks'[h].vars[i] = blocks[h].vars[i]
    BY <1>3, <2>1 DEF Vars
  <2>2. CASE j \in DOMAIN Vars(k)
    <3>1. blocks'[k].vars[j] = Vars(k)[j]
      BY <1>3, <2>1, <2>2
    <3>2. Held(blocks, quirks, Vars(k)[j].name, Vars(k)[j].old, k - 1)
      BY <2>2, <3>1 DEF ScopesInv, Kept
    <3> QED BY <2>1, <2>4, <3>1, <3>2, StillHeld
  <2>3. CASE k = Depth /\ j = last
    <3>1. \A i \in DOMAIN Vars(k) : Vars(k)[i].name # n
      BY <1>2, <2>3 DEF ScopesInv, Entered
    <3>2. blocks'[k].vars[j].name = n /\ blocks'[k].vars[j].old = map[n] /\ map[n] # None
      BY <1>1, <2>3 DEF BindSteps
    <3>3. Held(blocks, quirks, n, map[n], k)
      BY <2>3, <3>2 DEF ScopesInv, NoLeakedName, HeldBy, Held
    <3>4. Held(blocks, quirks, n, map[n], k - 1)
      BY <2>1, <3>1, <3>3 DEF Held, Vars
    <3> QED BY <2>1, <2>4, <3>2, <3>4, StillHeld
  <2> QED BY <1>4, <2>1, <2>2, <2>3
<1>10. Mapped'
  <2> SUFFICES ASSUME {"duplicate", "unassigned", "renamed"} \cap quirks' = {}
               PROVE  /\ \A m \in Name : MapsTo(symbol_table', alloca', Depth, m, map'[m])
                      /\ \A k \in 3 .. Depth : \A j \in DOMAIN blocks'[k].vars :
                           MapsTo(symbol_table', alloca', k - 1, blocks'[k].vars[j].name,
                                  blocks'[k].vars[j].old)
    BY <1>1 DEF Mapped, Vars, BindSteps
  <2>1. /\ \A m \in Name : MapsTo(symbol_table, alloca, Depth, m, map[m])
        /\ \A k \in 3 .. Depth : \A j \in DOMAIN Vars(k) :
             MapsTo(symbol_table, alloca, k - 1, Vars(k)[j].name, Vars(k)[j].old)
    BY DEF ScopesInv, Mapped
  <2>2. ASSUME NEW k \in 1 .. Depth, NEW m \in Name, NEW w, k < Depth \/ m # n,
               MapsTo(symbol_table, alloca, k, m, w)
        PROVE  MapsTo(symbol_table', alloca', k, m, w)
    <3>1. \A j \in 1 .. k : symbol_table'[j][m] = symbol_table[j][m]
      BY <1>1, <1>2, <2>2 DEF BindSteps
    <3>2. \A j \in 1 .. k : symbol_table[j][m] # None => symbol_table[j][m].id \in 0 .. Len(alloca)
      BY <1>2 DEF ScopesInv, Declared, Bound
    <3>3. \A j \in 1 .. k : symbol_table[j][m] # None /\ symbol_table[j][m].id # 0 =>
            alloca'[symbol_table[j][m].id] = alloca[symbol_table[j][m].id]
      BY <1>1, <1>2, <3>2 DEF BindSteps
    <3> QED BY <2>2, <3>1, <3>3, SameMapping
  <2>5. key = n
    OBVIOUS
  <2>3. ASSUME NEW m \in Name
        PROVE  MapsTo(symbol_table', alloca', Depth, m, map'[m])
    <3>1. CASE m # n
      BY <1>1, <1>2, <2>1, <2>2, <2>5, <3>1 DEF BindSteps
    <3>2. CASE m = n
      <4>1. symbol_table'[Depth][n].id = NextId /\ symbol_table'[Depth][n] # None
        BY <1>1, <1>2, <1>5 DEF BindSteps
      <4>2. alloca'[NextId] = t /\ map'[n] = IF t = None THEN map[n] ELSE NextId
        BY <1>1, <2>5 DEF BindSteps
      <4>3. ASSUME t = None PROVE map[n] = None
        BY <2>1, <4>3 DEF MapsTo, Visible, Has
      <4> QED BY <1>2, <3>2, <4>1, <4>2, <4>3 DEF MapsTo
    <3> QED BY <3>1, <3>2
  <2>4. ASSUME NEW k \in 3 .. Depth, NEW j \in DOMAIN blocks'[k].vars
        PROVE  MapsTo(symbol_table', alloca', k - 1, blocks'[k].vars[j].name, blocks'[k].vars[j].old)
    <3>1. CASE j \in DOMAIN Vars(k)
      <4>1. blocks'[k].vars[j] = Vars(k)[j] /\ Vars(k)[j].name \in Name
        BY <1>3, <3>1, Typing DEF ScopesInv, Variable
      <4> QED BY <1>2, <2>1, <2>2, <3>1, <4>1
    <3>2. CASE k = Depth /\ j = last
      <4>1. /\ blocks'[k].vars[j].name = n
            /\ blocks'[k].vars[j].old = IF t = None THEN None ELSE map[n]
        BY <1>1, <3>2 DEF BindSteps
      <4>2. ~Bound(n, Depth)
        BY <3>2
      <4>3. t = None => \A h \in 1 .. Depth : symbol_table[h][n] = None
        BY DEF Visible, Has
      <4>4. MapsTo(symbol_table, alloca, Depth - 1, n, map[n])
        BY <1>2, <2>1, <4>2, MappingBelow DEF Bound
      <4>5. t = None => MapsTo(symbol_table, alloca, Depth - 1, n, None)
        BY <1>2, <4>3 DEF MapsTo
      <4>6. MapsTo(symbol_table, alloca, Depth - 1, n, blocks'[k].vars[j].old)
        BY <4>1, <4>4, <4>5
      <4>7. Depth - 1 \in 1 .. Depth /\ Depth - 1 < Depth
        BY <1>2
      <4>8. MapsTo(symbol_table', alloca', Depth - 1, n, blocks'[k].vars[j].old)
        BY <2>2, <4>6, <4>7
      <4> QED BY <3>2, <4>1, <4>8
    <3> QED BY <1>4, <3>1, <3>2
  <2> QED BY <2>3, <2>4
<1>11. Typed'
  <2> SUFFICES ASSUME {"annotation", "redeclared"} \cap quirks' = {}, NEW k \in 1 .. Depth, NEW m \in Name,
                      symbol_table'[k][m] # None, symbol_table'[k][m].id # 0,
                      symbol_table'[k][m].type # None
               PROVE  alloca'[symbol_table'[k][m].id] = symbol_table'[k][m].type
    BY <1>1 DEF Typed, Bound, BindSteps
  <2>1. CASE k = Depth /\ m = n
    BY <1>1, <2>1 DEF BindSteps
  <2>2. CASE ~(k = Depth /\ m = n)
    <3>1. symbol_table'[k][m] = symbol_table[k][m] /\ Bound(m, k)
      BY <1>1, <2>2 DEF BindSteps, Bound
    <3>2. symbol_table[k][m].id \in 1 .. Len(alloca)
      BY <1>2, <3>1 DEF ScopesInv, Declared
    <3>3. alloca[symbol_table[k][m].id] = symbol_table[k][m].type
      BY <3>1 DEF ScopesInv, Typed
    <3> QED BY <1>1, <3>1, <3>2, <3>3 DEF BindSteps
  <2> QED BY <2>1, <2>2
<1>12. NoLeakedName'
  <2> SUFFICES ASSUME "duplicate" \notin quirks', NEW m \in Name, map'[m] # None
               PROVE  Held(blocks', quirks', m, map'[m], Depth)
    BY <1>1 DEF NoLeakedName, HeldBy, BindSteps, Held
  <2>1. CASE m = key /\ t # None
    <3>1. map'[m] = NextId
      BY <1>1, <2>1 DEF BindSteps
    <3>2. /\ Depth \in 2 .. Depth /\ last \in DOMAIN blocks'[Depth].vars
          /\ blocks'[Depth].vars[last].id = NextId /\ blocks'[Depth].vars[last].name = n
      BY <1>1, <1>2 DEF BindSteps
    <3> QED BY <1>1, <2>1, <3>1, <3>2 DEF Held, BindSteps
  <2>2. CASE ~(m = key /\ t # None)
    <3>1. map'[m] = map[m] /\ map[m] # None
      BY <1>1, <2>2 DEF BindSteps
    <3>2. Held(blocks, quirks, m, map[m], Depth)
      BY <3>1 DEF ScopesInv, NoLeakedName, HeldBy, Held
    <3>3. \A h \in 2 .. Depth : \A i \in DOMAIN blocks[h].vars :
            i \in DOMAIN blocks'[h].vars /\ blocks'[h].vars[i] = blocks[h].vars[i]
      <4>1. \A h \in 2 .. Depth : h \in 1 .. Depth
        BY <1>2
      <4> QED BY <1>3, <4>1 DEF Vars
    <3>4. Depth' = Depth /\ Depth <= Depth
      BY <1>1, <1>2 DEF BindSteps
    <3> QED BY <1>2, <3>1, <3>2, <3>3, <3>4, StillHeld
  <2> QED BY <2>1, <2>2
<1>13. Entered'
  <2> SUFFICES ASSUME NEW k \in 2 .. Depth, NEW j \in DOMAIN blocks'[k].vars
               PROVE  symbol_table'[k][blocks'[k].vars[j].name] # None
    BY <1>1 DEF Entered, Vars, Bound, BindSteps
  <2>1. k \in 1 .. Depth /\ TypeOK
    BY <1>2 DEF ScopesInv
  <2>2. CASE j \in DOMAIN Vars(k)
    <3>1. blocks'[k].vars[j] = Vars(k)[j] /\ Vars(k)[j].name \in Name
      BY <1>3, <2>1, <2>2, Typing DEF Variable
    <3>2. Bound(Vars(k)[j].name, k)
      BY <2>2 DEF ScopesInv, Entered
    <3> QED BY <1>5, <2>1, <3>1, <3>2
  <2>3. CASE k = Depth /\ j = last
    <3>1. blocks'[k].vars[j].name = n
      BY <1>1, <2>3 DEF BindSteps
    <3> QED BY <1>5, <2>1, <2>3, <3>1
  <2> QED BY <1>4, <2>1, <2>2, <2>3
<1>14. SameVariable' /\ RootedPointers'
  BY <1>1 DEF BindSteps, SameVariable, RootedPointers
<1> QED BY <1>1, <1>6, <1>7, <1>8, <1>9, <1>10, <1>11, <1>12, <1>13, <1>14 DEF ScopesInv

-------------------------------------------------------------------------------
(* Accesses.                                                                *)

LEMMA Resolved ==
  ASSUME TypeOK, NEW n \in Name, Visible(n)
  PROVE  /\ ScopeOf(n) \in 1 .. Depth /\ Bound(n, ScopeOf(n))
         /\ \A j \in ScopeOf(n) + 1 .. Depth : symbol_table[j][n] = None
         /\ Lookup(n) = symbol_table[ScopeOf(n)][n] /\ Lookup(n) \in Binding
<1>1. /\ ScopeOf(n) \in 1 .. Depth /\ Has(n, ScopeOf(n))
      /\ \A j \in ScopeOf(n) + 1 .. Depth : ~Has(n, j)
  BY Typing, Innermost
<1>2. \A j \in ScopeOf(n) + 1 .. Depth : j \in 1 .. Depth
  BY <1>1, Typing
<1>3. symbol_table[ScopeOf(n)][n] \in Binding \cup {None}
  BY <1>1, Typing
<1> QED BY <1>1, <1>2, <1>3 DEF Has, Bound, Lookup

\* What the declaration of a visible name is, in the generator.
LEMMA DeclaredAlloca ==
  ASSUME ScopesInv, NEW n \in Name, Visible(n), Lookup(n).id # 0
  PROVE  /\ Lookup(n).id \in 1 .. Len(alloca)
         /\ Lookup(n).type # None => alloca[Lookup(n).id] # None
         /\ \E j \in DOMAIN Vars(ScopeOf(n)) :
              /\ Vars(ScopeOf(n))[j].id = Lookup(n).id
              /\ Vars(ScopeOf(n))[j].t = alloca[Lookup(n).id]
<1>1. TypeOK
  BY DEF ScopesInv
<1>2. ScopeOf(n) \in 1 .. Depth /\ Bound(n, ScopeOf(n)) /\ Lookup(n) = symbol_table[ScopeOf(n)][n]
  BY <1>1, Resolved
<1>3. Len(alloca) \in Nat
  BY <1>1, Typing
<1> QED BY <1>2, <1>3 DEF ScopesInv, Declared

\* The generator's map has the alloca of the declaration that the checker finds.
LEMMA SameAlloca ==
  ASSUME ScopesInv, NEW n \in Name, Visible(n), {"duplicate", "unassigned", "renamed"} \cap quirks = {},
         Lookup(n).id # 0, alloca[Lookup(n).id] # None
  PROVE  map[n] = Lookup(n).id
<1> DEFINE k == ScopeOf(n)
<1>1. TypeOK /\ Depth \in Nat
  BY Typing DEF ScopesInv
<1>2. /\ k \in 1 .. Depth /\ symbol_table[k][n] # None
      /\ \A j \in k + 1 .. Depth : symbol_table[j][n] = None
      /\ Lookup(n) = symbol_table[k][n]
  BY <1>1, Resolved DEF Bound
<1>3. MapsTo(symbol_table, alloca, Depth, n, map[n])
  BY DEF ScopesInv, Mapped
<1>4. PICK j \in 1 .. Depth :
        /\ symbol_table[j][n] # None /\ \A h \in j + 1 .. Depth : symbol_table[h][n] = None
        /\ map[n] = LET id == symbol_table[j][n].id
                    IN  IF id = 0 THEN None ELSE IF alloca[id] = None THEN None ELSE id
  BY <1>2, <1>3 DEF MapsTo
<1>5. j = k
  <2>1. ~(j < k)
    BY <1>1, <1>2, <1>4
  <2>2. ~(k < j)
    BY <1>1, <1>2, <1>4
  <2> QED BY <1>2, <2>1, <2>2
<1> QED BY <1>2, <1>4, <1>5

LEMMA IdentifierKeeps ==
  ASSUME ScopesInv, NEW n \in Name, Identifier(n)
  PROVE  ScopesInv'
<1>1. TypeOK /\ Visible(n) /\ Lookup(n) \in Binding /\ Lookup(n).type \in Type
  BY Resolved DEF ScopesInv, Identifier, Binding
<1>2. /\ UNCHANGED <<symbol_table, blocks, map, alloca>>
      /\ access' = [meant |-> Lookup(n).id, used |-> map[n], type |-> Lookup(n).type]
      /\ quirks' = quirks \cup FunctionName(n)
  BY DEF Identifier, Access
<1>3. access' \in [meant : 0 .. MaxAlloca, used : 1 .. MaxAlloca \cup {None}, type : Type]
  BY <1>1, <1>2 DEF TypeOK, Binding
<1>4. quirks \subseteq quirks' /\ quirks' \subseteq Quirk
  BY <1>1, <1>2 DEF TypeOK, FunctionName, Quirk
<1>5. TypeOK'
  BY <1>1, <1>2, <1>3, <1>4 DEF TypeOK
<1>6. Shape' /\ Declared' /\ Entered' /\ Valued'
  BY <1>2 DEF ScopesInv, Shape, Declared, Entered, Valued, Vars, Bound, Depth
<1>7. Kept' /\ Mapped'
  BY <1>2, <1>4 DEF ScopesInv, Kept, Mapped, Held, Vars, Bound, Depth
<1>8. Typed' /\ NoLeakedName'
  BY <1>2, <1>4 DEF ScopesInv, Typed, NoLeakedName, HeldBy, Bound, Depth, Held
<1>9. Lookup(n).type # None
  BY DEF Identifier
<1>10. ASSUME quirks' \subseteq {"annotation", "redeclared"}
       PROVE  Lookup(n).id # 0 /\ map[n] = Lookup(n).id
  <2>1. {"duplicate", "unassigned", "renamed"} \cap quirks = {} /\ Lookup(n).id # 0
    BY <1>2, <1>10 DEF FunctionName
  <2> QED BY <1>1, <1>9, <2>1, DeclaredAlloca, SameAlloca
<1>11. SameVariable'
  BY <1>2, <1>10 DEF SameVariable
<1>12. RootedPointers'
  <2> SUFFICES ASSUME quirks' = {}
               PROVE  alloca[map[n]] = Lookup(n).type
    BY <1>2 DEF RootedPointers
  <2>1. ScopeOf(n) \in 1 .. Depth /\ Bound(n, ScopeOf(n)) /\ Lookup(n) = symbol_table[ScopeOf(n)][n]
    BY <1>1, Resolved
  <2> QED BY <1>4, <1>9, <1>10, <2>1 DEF ScopesInv, Typed
<1> QED BY <1>5, <1>6, <1>7, <1>8, <1>11, <1>12 DEF ScopesInv

LEMMA AssignEffect ==
  ASSUME ScopesInv, NEW n \in Name, NEW t \in Type, Assign(n, t)
  PROVE  /\ TypeOK' /\ Depth' = Depth
         /\ \A k \in 1 .. Depth, m \in Name :
              symbol_table'[k][m] = IF k = ScopeOf(n) /\ m = n
                                      THEN [id |-> symbol_table[k][m].id, type |-> t]
                                      ELSE symbol_table[k][m]
         /\ UNCHANGED <<blocks, map, alloca>>
         /\ access' = [meant |-> Lookup(n).id, used |-> map[n], type |-> t]
         /\ quirks' = quirks \cup FunctionName(n)
                             \cup (IF Lookup(n).type = None /\ alloca[Lookup(n).id] # t
                                   THEN {"annotation"} ELSE {})
<1> DEFINE k == ScopeOf(n)
<1>1. TypeOK /\ Visible(n) /\ k \in 1 .. Depth /\ Lookup(n) \in Binding /\ Lookup(n) = symbol_table[k][n]
  BY Resolved DEF ScopesInv, Assign
<1>2. /\ symbol_table' = [symbol_table EXCEPT ![k][n].type = t]
      /\ UNCHANGED <<blocks, map, alloca>>
      /\ access' = [meant |-> Lookup(n).id, used |-> map[n], type |-> t]
      /\ quirks' = quirks \cup FunctionName(n)
                          \cup (IF Lookup(n).type = None /\ alloca[Lookup(n).id] # t
                                THEN {"annotation"} ELSE {})
  BY DEF Assign, Access
<1>3. /\ [symbol_table[k][n] EXCEPT !.type = t] = [id |-> symbol_table[k][n].id, type |-> t]
      /\ [symbol_table[k][n] EXCEPT !.type = t] \in Binding
  BY <1>1 DEF Binding
<1> HIDE DEF k
<1>4. symbol_table' = [symbol_table EXCEPT ![k] = [symbol_table[k] EXCEPT
                         ![n] = [symbol_table[k][n] EXCEPT !.type = t]]]
  BY <1>2
<1>5. [symbol_table[k] EXCEPT ![n] = [symbol_table[k][n] EXCEPT !.type = t]]
        \in [Name -> Binding \cup {None}]
  <2>1. symbol_table[k] \in [Name -> Binding \cup {None}]
    BY <1>1, Typing
  <2> QED BY <1>3, <2>1
<1>6. symbol_table' \in Seq([Name -> Binding \cup {None}]) /\ Len(symbol_table') = Len(symbol_table)
  BY <1>1, <1>4, <1>5, ExceptSeq DEF TypeOK, Depth
<1>7. \A h \in 1 .. Depth, m \in Name :
        symbol_table'[h][m] = IF h = k /\ m = n THEN [id |-> symbol_table[h][m].id, type |-> t]
                                                ELSE symbol_table[h][m]
  BY <1>1, <1>3, <1>4, Typing
<1>8. access' \in [meant : 0 .. MaxAlloca, used : 1 .. MaxAlloca \cup {None}, type : Type]
  BY <1>1, <1>2 DEF TypeOK, Binding
<1>9. quirks' \subseteq Quirk
  BY <1>1, <1>2 DEF TypeOK, FunctionName, Quirk
<1>10. TypeOK'
  BY <1>1, <1>2, <1>6, <1>8, <1>9 DEF TypeOK
<1> QED BY <1>2, <1>6, <1>7, <1>10 DEF k, Depth

\* The alloca of a variable that is assigned was made, and with the type of the value if
\* no annotation said otherwise.
LEMMA AssignedAlloca ==
  ASSUME ScopesInv, NEW n \in Name, NEW t \in Type, Assign(n, t), Lookup(n).id # 0
  PROVE  alloca[Lookup(n).id] # None
<1>1. PICK j \in DOMAIN Vars(ScopeOf(n)) :
        Vars(ScopeOf(n))[j].id = Lookup(n).id /\ Vars(ScopeOf(n))[j].t = alloca[Lookup(n).id]
  BY DeclaredAlloca DEF Assign
<1>2. ScopeOf(n) \in 1 .. Depth
  BY Resolved DEF ScopesInv, Assign
<1>3. CASE Vars(ScopeOf(n))[j].val
  BY <1>1, <1>2, <1>3 DEF ScopesInv, Valued
<1>4. CASE ~Vars(ScopeOf(n))[j].val
  <2>1. Vars(ScopeOf(n))[j].t = t
    BY <1>1, <1>4 DEF Assign, Guessed, Vars
  <2> QED BY <1>1, <2>1, NoneIsNothing
<1> QED BY <1>3, <1>4

LEMMA AssignKeeps ==
  ASSUME ScopesInv, NEW n \in Name, NEW t \in Type, Assign(n, t)
  PROVE  ScopesInv'
<1> DEFINE k == ScopeOf(n)
<1>1. /\ TypeOK' /\ Depth' = Depth
      /\ \A h \in 1 .. Depth, m \in Name :
           symbol_table'[h][m] = IF h = k /\ m = n THEN [id |-> symbol_table[h][m].id, type |-> t]
                                                   ELSE symbol_table[h][m]
      /\ UNCHANGED <<blocks, map, alloca>>
      /\ access' = [meant |-> Lookup(n).id, used |-> map[n], type |-> t]
      /\ quirks' = quirks \cup FunctionName(n)
                          \cup (IF Lookup(n).type = None /\ alloca[Lookup(n).id] # t
                                THEN {"annotation"} ELSE {})
  BY AssignEffect
<1>2. /\ Visible(n) /\ k \in 1 .. Depth /\ Bound(n, k) /\ Lookup(n) = symbol_table[k][n]
      /\ Lookup(n).type \in {None, t} /\ Depth \in Nat
  BY Resolved, Typing DEF Assign, ScopesInv
<1> HIDE DEF k
<1>3. \A h \in 1 .. Depth, m \in Name :
        /\ symbol_table'[h][m] = None <=> symbol_table[h][m] = None
        /\ symbol_table'[h][m] # None => symbol_table'[h][m].id = symbol_table[h][m].id
  <2>1. [id |-> symbol_table[k][n].id, type |-> t] # None
    <3>1. symbol_table[k][n] \in Binding
      BY <1>2, Resolved DEF Assign, ScopesInv
    <3>2. [id |-> symbol_table[k][n].id, type |-> t] \in Binding
      BY <3>1 DEF Binding
    <3> QED BY <3>2, NoneIsNothing
  <2> SUFFICES ASSUME NEW h \in 1 .. Depth, NEW m \in Name
               PROVE  /\ symbol_table'[h][m] = None <=> symbol_table[h][m] = None
                      /\ symbol_table'[h][m] # None => symbol_table'[h][m].id = symbol_table[h][m].id
    OBVIOUS
  <2>2. CASE h = k /\ m = n
    <3>1. symbol_table'[h][m] = [id |-> symbol_table[k][n].id, type |-> t]
      BY <1>1, <1>2, <2>2
    <3>2. symbol_table[h][m] # None
      BY <1>2, <2>2 DEF Bound
    <3> QED BY <2>1, <2>2, <3>1, <3>2
  <2>3. CASE ~(h = k /\ m = n)
    BY <1>1, <2>3
  <2> QED BY <2>2, <2>3
<1>4. Shape' /\ Valued'
  BY <1>1 DEF ScopesInv, Shape, Valued, Vars
<1>5. Lookup(n).id # 0 => alloca[Lookup(n).id] # None
  BY AssignedAlloca
<1>6. Declared'
  <2> SUFFICES ASSUME NEW h \in 1 .. Depth, NEW m \in Name, symbol_table'[h][m] # None
               PROVE  LET b == symbol_table'[h][m]
                      IN  /\ b.id \in 0 .. Len(alloca)
                          /\ h >= 2 => b.id # 0
                          /\ b.id # 0 => /\ \E j \in DOMAIN Vars(h) : /\ Vars(h)[j].name = m
                                                                     /\ Vars(h)[j].id = b.id
                                                                     /\ Vars(h)[j].t = alloca[b.id]
                                         /\ b.type # None => alloca[b.id] # None
    BY <1>1 DEF Declared, Bound, Vars
  <2>1. Bound(m, h) /\ symbol_table'[h][m].id = symbol_table[h][m].id
    BY <1>3 DEF Bound
  <2>2. LET b == symbol_table[h][m]
        IN  /\ b.id \in 0 .. Len(alloca)
            /\ h >= 2 => b.id # 0
            /\ b.id # 0 => /\ \E j \in DOMAIN Vars(h) : /\ Vars(h)[j].name = m /\ Vars(h)[j].id = b.id
                                                       /\ Vars(h)[j].t = alloca[b.id]
                           /\ b.type # None => alloca[b.id] # None
    BY <2>1 DEF ScopesInv, Declared
  <2>3. symbol_table'[h][m].id # 0 /\ symbol_table'[h][m].type # None
          => alloca[symbol_table'[h][m].id] # None
    <3>1. CASE h = k /\ m = n
      BY <1>2, <1>5, <2>1, <3>1
    <3>2. CASE ~(h = k /\ m = n)
      BY <1>1, <2>2, <3>2
    <3> QED BY <3>1, <3>2
  <2> QED BY <2>1, <2>2, <2>3
<1>7. quirks \subseteq quirks'
  BY <1>1
<1>8. Entered' /\ Kept'
  <2>1. Entered'
    <3> SUFFICES ASSUME NEW h \in 2 .. Depth, NEW j \in DOMAIN Vars(h)
                 PROVE  symbol_table'[h][Vars(h)[j].name] # None
      BY <1>1 DEF Entered, Vars, Bound
    <3>1. TypeOK /\ h \in 1 .. Depth
      BY <1>2 DEF ScopesInv
    <3>2. Vars(h)[j].name \in Name /\ Bound(Vars(h)[j].name, h)
      BY <3>1, Typing DEF Variable, ScopesInv, Entered
    <3> QED BY <1>3, <3>1, <3>2 DEF Bound
  <2>2. Kept'
    BY <1>1, <1>7 DEF Kept, ScopesInv, Held, Vars
  <2> QED BY <2>1, <2>2
<1>9. Mapped'
  <2> SUFFICES ASSUME {"duplicate", "unassigned", "renamed"} \cap quirks' = {}
               PROVE  /\ \A m \in Name : MapsTo(symbol_table', alloca, Depth, m, map[m])
                      /\ \A h \in 3 .. Depth : \A j \in DOMAIN Vars(h) :
                           MapsTo(symbol_table', alloca, h - 1, Vars(h)[j].name, Vars(h)[j].old)
    BY <1>1 DEF Mapped, Vars
  <2>1. /\ \A m \in Name : MapsTo(symbol_table, alloca, Depth, m, map[m])
        /\ \A h \in 3 .. Depth : \A j \in DOMAIN Vars(h) :
             MapsTo(symbol_table, alloca, h - 1, Vars(h)[j].name, Vars(h)[j].old)
    BY <1>7 DEF ScopesInv, Mapped
  <2>2. ASSUME NEW h \in 1 .. Depth, NEW m \in Name, NEW w, MapsTo(symbol_table, alloca, h, m, w)
        PROVE  MapsTo(symbol_table', alloca, h, m, w)
    <3>1. \A j \in 1 .. h :
            /\ symbol_table[j][m] = None <=> symbol_table'[j][m] = None
            /\ symbol_table[j][m] # None => symbol_table'[j][m].id = symbol_table[j][m].id
      BY <1>2, <1>3
    <3> QED BY <2>2, <3>1, SameMapping
  <2>3. ASSUME NEW h \in 3 .. Depth, NEW j \in DOMAIN Vars(h)
        PROVE  MapsTo(symbol_table', alloca, h - 1, Vars(h)[j].name, Vars(h)[j].old)
    <3>1. TypeOK /\ h \in 1 .. Depth /\ h - 1 \in 1 .. Depth
      BY <1>2 DEF ScopesInv
    <3>2. Vars(h)[j].name \in Name
      BY <3>1, Typing DEF Variable
    <3> QED BY <2>1, <2>2, <3>1, <3>2
  <2>4. Depth \in 1 .. Depth
    BY <1>2
  <2> QED BY <2>1, <2>2, <2>3, <2>4
<1>10. ASSUME {"annotation", "redeclared"} \cap quirks' = {}, Lookup(n).id # 0
       PROVE  alloca[Lookup(n).id] = t
  <2>1. CASE Lookup(n).type = None
    BY <1>1, <1>10, <2>1
  <2>2. CASE Lookup(n).type = t
    <3>1. t # None
      BY NoneIsNothing
    <3> QED BY <1>2, <1>7, <1>10, <2>2, <3>1 DEF ScopesInv, Typed
  <2> QED BY <1>2, <2>1, <2>2
<1>11. Typed'
  <2> SUFFICES ASSUME {"annotation", "redeclared"} \cap quirks' = {}, NEW h \in 1 .. Depth, NEW m \in Name,
                      symbol_table'[h][m] # None, symbol_table'[h][m].id # 0,
                      symbol_table'[h][m].type # None
               PROVE  alloca[symbol_table'[h][m].id] = symbol_table'[h][m].type
    BY <1>1 DEF Typed, Bound
  <2>1. CASE h = k /\ m = n
    <3>1. symbol_table'[h][m] = [id |-> Lookup(n).id, type |-> t]
      BY <1>1, <1>2, <2>1
    <3> QED BY <1>10, <3>1
  <2>2. CASE ~(h = k /\ m = n)
    <3>1. symbol_table'[h][m] = symbol_table[h][m]
      BY <1>1, <2>2
    <3> QED BY <1>7, <3>1 DEF ScopesInv, Typed, Bound
  <2> QED BY <2>1, <2>2
<1>12. NoLeakedName'
  BY <1>1, <1>7 DEF NoLeakedName, ScopesInv, HeldBy, Held
<1>13. ASSUME quirks' \subseteq {"annotation", "redeclared"}
       PROVE  Lookup(n).id # 0 /\ map[n] = Lookup(n).id
  <2>1. {"duplicate", "unassigned", "renamed"} \cap quirks = {} /\ Lookup(n).id # 0
    BY <1>1, <1>13 DEF FunctionName
  <2> QED BY <1>2, <1>5, <2>1, SameAlloca
<1>14. SameVariable' /\ RootedPointers'
  BY <1>1, <1>10, <1>13 DEF SameVariable, RootedPointers
<1> QED BY <1>1, <1>4, <1>6, <1>8, <1>9, <1>11, <1>12, <1>14 DEF ScopesInv

-------------------------------------------------------------------------------
(* Entering and leaving a block.                                            *)

LEMMA BodyKeeps ==
  ASSUME ScopesInv, Body
  PROVE  ScopesInv'
<1>1. TypeOK /\ Depth \in Nat /\ Depth >= 2 /\ DOMAIN blocks = 1 .. Depth
  BY Typing DEF ScopesInv
<1>2. /\ blocks' = [blocks EXCEPT ![Depth].kind = "function"]
      /\ UNCHANGED <<symbol_table, map, alloca, access, quirks>> /\ Depth' = Depth
      /\ blocks[Depth].kind = "prototype"
  BY DEF Body, Block, Depth
<1>3. Depth = 2
  BY <1>1, <1>2 DEF ScopesInv, Shape
<1>4. blocks'[Depth] = [kind |-> "function", vars |-> Vars(Depth)]
  <2>1. blocks[Depth] \in [kind : {"program", "prototype", "function", "var", "for", "branch"},
                           vars : Seq(Variable)]
    BY <1>1, Typing
  <2> QED BY <1>1, <1>2, <2>1 DEF Vars
<1>5. \A k \in 1 .. Depth : blocks'[k].vars = Vars(k) /\ (k # Depth => blocks'[k] = blocks[k])
  BY <1>1, <1>2, <1>4 DEF Vars
<1>6. TypeOK'
  <2>1. /\ blocks' \in Seq([kind : {"program", "prototype", "function", "var", "for", "branch"},
                           vars : Seq(Variable)])
        /\ Len(blocks') = Len(blocks)
    <3>1. [kind |-> "function", vars |-> Vars(Depth)]
             \in [kind : {"program", "prototype", "function", "var", "for", "branch"},
                  vars : Seq(Variable)]
      BY <1>1, Typing DEF Vars
    <3>2. blocks' = [blocks EXCEPT ![Depth] = [kind |-> "function", vars |-> Vars(Depth)]]
      BY <1>1, <1>2, <1>4
    <3> QED BY <1>1, <3>1, <3>2, ExceptSeq DEF TypeOK
  <2> QED BY <1>1, <1>2, <2>1 DEF TypeOK
<1>7. Shape'
  BY <1>2, <1>3, <1>4, <1>5 DEF Shape, ScopesInv
<1>8. Declared' /\ Entered' /\ Valued' /\ Kept' /\ Mapped'
  <2>1. Declared' /\ Entered' /\ Valued' /\ Mapped'
    BY <1>2, <1>3, <1>5 DEF Declared, Entered, Valued, Mapped, ScopesInv, Vars, Bound
  <2>2. Kept'
    BY <1>2, <1>3 DEF Kept
  <2> QED BY <2>1, <2>2
<1>9. Typed' /\ NoLeakedName' /\ SameVariable' /\ RootedPointers'
  <2>1. Typed' /\ SameVariable' /\ RootedPointers'
    BY <1>2 DEF Typed, SameVariable, RootedPointers, ScopesInv, Bound
  <2>2. NoLeakedName'
    <3> SUFFICES ASSUME "duplicate" \notin quirks, NEW n \in Name, map[n] # None
                 PROVE  Held(blocks', quirks', n, map[n], Depth)
      BY <1>2 DEF NoLeakedName, HeldBy, Held
    <3>1. Held(blocks, quirks, n, map[n], Depth)
      BY DEF ScopesInv, NoLeakedName, HeldBy, Held
    <3>2. \A h \in 2 .. Depth : \A i \in DOMAIN blocks[h].vars :
            i \in DOMAIN blocks'[h].vars /\ blocks'[h].vars[i] = blocks[h].vars[i]
      <4>1. \A h \in 2 .. Depth : h \in 1 .. Depth
        BY <1>1
      <4> QED BY <1>5, <4>1 DEF Vars
    <3>3. Depth <= Depth /\ quirks \subseteq quirks'
      BY <1>1, <1>2
    <3> QED BY <1>1, <3>1, <3>2, <3>3, StillHeld
  <2> QED BY <2>1, <2>2
<1> QED BY <1>6, <1>7, <1>8, <1>9 DEF ScopesInv

LEMMA EnterKeeps ==
  ASSUME ScopesInv, NEW kind \in {"var", "for", "branch"}, Enter(kind)
  PROVE  ScopesInv'
<1>1. TypeOK /\ Depth \in Nat /\ Depth >= 2
  BY Typing DEF ScopesInv
<1>2. /\ symbol_table' = Append(symbol_table, NoScope)
      /\ blocks' = Append(blocks, [kind |-> kind, vars |-> << >>])
      /\ access' = None /\ UNCHANGED <<map, alloca, quirks>>
  BY DEF Enter
<1>3. /\ symbol_table' \in Seq([Name -> Binding \cup {None}]) /\ Depth' = Depth + 1
      /\ \A k \in 1 .. Depth : symbol_table'[k] = symbol_table[k]
      /\ symbol_table'[Depth + 1] = NoScope
  <2>1. NoScope \in [Name -> Binding \cup {None}]
    BY DEF NoScope
  <2> QED BY <1>1, <1>2, <2>1, AppendProperties DEF TypeOK, Depth
<1>4. /\ blocks' \in Seq([kind : {"program", "prototype", "function", "var", "for", "branch"},
                         vars : Seq(Variable)])
      /\ Len(blocks') = Depth + 1
      /\ \A k \in 1 .. Depth : blocks'[k] = blocks[k]
      /\ blocks'[Depth + 1] = [kind |-> kind, vars |-> << >>]
  <2>1. [kind |-> kind, vars |-> << >>] \in
          [kind : {"program", "prototype", "function", "var", "for", "branch"}, vars : Seq(Variable)]
    BY EmptySeq
  <2> QED BY <1>1, <1>2, <2>1, AppendProperties DEF TypeOK, Depth
<1>5. TypeOK'
  BY <1>1, <1>2, <1>3, <1>4 DEF TypeOK, Depth
<1>6. \A n \in Name : symbol_table'[Depth + 1][n] = None
  BY <1>3 DEF NoScope
<1>7. DOMAIN blocks'[Depth + 1].vars = {}
  BY <1>4
<1>8. \A k \in 1 .. Depth + 1 : k \in 1 .. Depth \/ k = Depth + 1
  BY <1>1
<1>9. Shape'
  <2>1. \A k \in 1 .. Depth + 1 : blocks'[k].kind \in
           (IF k >= 3 THEN {"var", "for", "branch"}
            ELSE IF k = 2 THEN {"prototype", "function"} ELSE {"program"})
    <3> SUFFICES ASSUME NEW k \in 1 .. Depth + 1
                 PROVE  blocks'[k].kind \in (IF k >= 3 THEN {"var", "for", "branch"}
                                             ELSE IF k = 2 THEN {"prototype", "function"}
                                             ELSE {"program"})
      OBVIOUS
    <3>1. CASE k \in 1 .. Depth
      BY <1>4, <3>1 DEF Shape, ScopesInv
    <3>2. CASE k = Depth + 1
      BY <1>1, <1>4, <3>2
    <3> QED BY <1>8, <3>1, <3>2
  <2> QED BY <1>1, <1>3, <1>4, <2>1 DEF Shape, ScopesInv
<1>10. Declared'
  <2> SUFFICES ASSUME NEW k \in 1 .. Depth + 1, NEW n \in Name, symbol_table'[k][n] # None
               PROVE  LET b == symbol_table'[k][n]
                      IN  /\ b.id \in 0 .. Len(alloca)
                          /\ k >= 2 => b.id # 0
                          /\ b.id # 0 => /\ \E j \in DOMAIN blocks'[k].vars :
                                              /\ blocks'[k].vars[j].name = n
                                              /\ blocks'[k].vars[j].id = b.id
                                              /\ blocks'[k].vars[j].t = alloca[b.id]
                                         /\ b.type # None => alloca[b.id] # None
    <3>1. Depth' = Depth + 1 /\ alloca' = alloca
      BY <1>2, <1>3
    <3> QED BY <3>1 DEF Declared, Bound, Vars
  <2>1. k \in 1 .. Depth
    BY <1>6, <1>8
  <2>2. symbol_table'[k] = symbol_table[k] /\ blocks'[k] = blocks[k]
    BY <1>3, <1>4, <2>1
  <2> QED BY <2>1, <2>2 DEF Declared, ScopesInv, Bound, Vars
<1>11. Valued'
  <2> SUFFICES ASSUME NEW k \in 1 .. Depth + 1, NEW j \in DOMAIN blocks'[k].vars, blocks'[k].vars[j].val
               PROVE  blocks'[k].vars[j].t # None
    BY <1>3 DEF Valued, Vars
  <2> QED BY <1>4, <1>7, <1>8 DEF Valued, ScopesInv, Vars
<1>12. Entered' /\ Kept'
  <2>1. Entered'
    <3> SUFFICES ASSUME NEW k \in 2 .. Depth + 1, NEW j \in DOMAIN blocks'[k].vars
                 PROVE  symbol_table'[k][blocks'[k].vars[j].name] # None
      BY <1>3 DEF Entered, Vars, Bound
    <3>1. k \in 1 .. Depth /\ k \in 2 .. Depth
      BY <1>1, <1>7, <1>8
    <3>2. symbol_table'[k] = symbol_table[k] /\ blocks'[k] = blocks[k]
      BY <1>3, <1>4, <3>1
    <3> QED BY <3>1, <3>2 DEF Entered, ScopesInv, Vars, Bound
  <2>2. Kept'
    <3> SUFFICES ASSUME "duplicate" \notin quirks, NEW k \in 3 .. Depth + 1,
                        NEW j \in DOMAIN blocks'[k].vars, blocks'[k].vars[j].old # None
                 PROVE  Held(blocks', quirks, blocks'[k].vars[j].name, blocks'[k].vars[j].old, k - 1)
      BY <1>2, <1>3 DEF Kept, Vars
    <3>1. k \in 3 .. Depth
      BY <1>1, <1>7
    <3>2. blocks'[k] = blocks[k] /\ k - 1 \in Nat /\ \A h \in 2 .. k - 1 : blocks'[h] = blocks[h]
      BY <1>1, <1>4, <3>1
    <3>3. Held(blocks, quirks, blocks[k].vars[j].name, blocks[k].vars[j].old, k - 1)
      BY <3>1, <3>2 DEF Kept, ScopesInv, Vars
    <3> QED BY <3>2, <3>3, StillHeld
  <2> QED BY <2>1, <2>2
<1>13. Mapped'
  <2> SUFFICES ASSUME {"duplicate", "unassigned", "renamed"} \cap quirks = {}
               PROVE  /\ \A n \in Name : MapsTo(symbol_table', alloca, Depth + 1, n, map[n])
                      /\ \A k \in 3 .. Depth : \A j \in DOMAIN Vars(k) :
                           MapsTo(symbol_table', alloca, k - 1, Vars(k)[j].name, Vars(k)[j].old)
    <3>1. \A k \in 3 .. Depth + 1 : k \in 3 .. Depth \/ k = Depth + 1
      BY <1>1
    <3>2. \A k \in 3 .. Depth : blocks'[k] = blocks[k]
      BY <1>1, <1>4
    <3>3. Depth' = Depth + 1 /\ UNCHANGED <<map, alloca, quirks>>
      BY <1>2, <1>3
    <3>4. (Depth + 1) - 1 = Depth
      BY <1>1
    <3> QED BY <1>7, <3>1, <3>2, <3>3 DEF Mapped, Vars
  <2>1. /\ \A n \in Name : MapsTo(symbol_table, alloca, Depth, n, map[n])
        /\ \A k \in 3 .. Depth : \A j \in DOMAIN Vars(k) :
             MapsTo(symbol_table, alloca, k - 1, Vars(k)[j].name, Vars(k)[j].old)
    BY DEF ScopesInv, Mapped
  <2>2. ASSUME NEW k \in 1 .. Depth, NEW n, NEW w, MapsTo(symbol_table, alloca, k, n, w)
        PROVE  MapsTo(symbol_table', alloca, k, n, w)
    BY <1>1, <1>3, <2>2, SameMapping
  <2>3. ASSUME NEW n \in Name
        PROVE  MapsTo(symbol_table', alloca, Depth + 1, n, map[n])
    <3>1. MapsTo(symbol_table', alloca, Depth, n, map[n])
      BY <1>1, <2>1, <2>2
    <3> QED BY <1>1, <1>6, <3>1, MappingBelow
  <2>4. \A k \in 3 .. Depth : k - 1 \in 1 .. Depth
    BY <1>1
  <2> QED BY <2>1, <2>2, <2>3, <2>4
<1>14. Typed'
  <2> SUFFICES ASSUME {"annotation", "redeclared"} \cap quirks = {}, NEW k \in 1 .. Depth + 1, NEW n \in Name,
                      symbol_table'[k][n] # None, symbol_table'[k][n].id # 0,
                      symbol_table'[k][n].type # None
               PROVE  alloca[symbol_table'[k][n].id] = symbol_table'[k][n].type
    BY <1>2, <1>3 DEF Typed, Bound
  <2>1. k \in 1 .. Depth
    BY <1>6, <1>8
  <2> QED BY <1>3, <2>1 DEF Typed, ScopesInv, Bound
<1>15. NoLeakedName'
  <2> SUFFICES ASSUME "duplicate" \notin quirks, NEW n \in Name, map[n] # None
               PROVE  Held(blocks', quirks, n, map[n], Depth + 1)
    <3>1. Depth' = Depth + 1 /\ map' = map /\ quirks' = quirks
      BY <1>2, <1>3
    <3> QED BY <3>1 DEF NoLeakedName, HeldBy, Held
  <2>1. Held(blocks, quirks, n, map[n], Depth)
    BY DEF ScopesInv, NoLeakedName, HeldBy, Held
  <2>2. \A h \in 2 .. Depth : blocks'[h] = blocks[h]
    BY <1>1, <1>4
  <2> QED BY <1>1, <2>1, <2>2, StillHeld
<1>16. SameVariable' /\ RootedPointers'
  BY <1>2 DEF SameVariable, RootedPointers
<1> QED BY <1>5, <1>9, <1>10, <1>11, <1>12, <1>13, <1>14, <1>15, <1>16 DEF ScopesInv

\* What a name is mapped to once the block is left: what it was, if the block has no
\* variable of that name, and what one of these variables kept, if it has.
LEMMA RestoredIs ==
  ASSUME TypeOK, NEW n \in Name
  PROVE  \/ /\ \A j \in DOMAIN Vars(Depth) : Vars(Depth)[j].name # n
            /\ Restored(Vars(Depth))[n] = map[n]
         \/ \E j \in DOMAIN Vars(Depth) :
              Vars(Depth)[j].name = n /\ Restored(Vars(Depth))[n] = Vars(Depth)[j].old
<1> DEFINE vs == Vars(Depth)
           J == {j \in DOMAIN vs : vs[j].name = n}
           last == CHOOSE j \in J : \A k \in J : k <= j
<1>1. DOMAIN vs = 1 .. Len(vs) /\ Len(vs) \in Nat
  <2>1. Depth \in 1 .. Depth
    BY Typing
  <2> QED BY <2>1, Typing
<1>2. Restored(vs)[n] = IF J = {} THEN map[n] ELSE vs[last].old
  BY DEF Restored
<1>3. CASE J = {}
  BY <1>2, <1>3
<1>4. CASE J # {}
  <2>1. \E j \in J : \A k \in J : k <= j
    <3>1. J \in SUBSET (1 .. Len(vs))
      BY <1>1
    <3> HIDE DEF J
    <3> QED BY <1>1, <1>4, <3>1, LastPosition
  <2>2. last \in J
    BY <2>1
  <2> QED BY <1>2, <1>4, <2>2
<1> QED BY <1>3, <1>4

LEMMA AllButTheLast ==
  ASSUME NEW S, NEW s \in Seq(S), Len(s) > 2
  PROVE  /\ SubSeq(s, 1, Len(s) - 1) \in Seq(S)
         /\ Len(SubSeq(s, 1, Len(s) - 1)) = Len(s) - 1
         /\ \A k \in 1 .. Len(s) - 1 : SubSeq(s, 1, Len(s) - 1)[k] = s[k]
<1>1. Len(s) \in Nat /\ \A k \in 1 .. Len(s) - 1 : s[k] \in S
  OBVIOUS
<1> QED BY <1>1, SubSeqProperties

LEMMA LeaveKeeps ==
  ASSUME ScopesInv, Leave
  PROVE  ScopesInv'
<1>1. TypeOK /\ Depth \in Nat /\ Depth > 2 /\ Depth = Len(blocks)
  BY Typing DEF ScopesInv, Leave, TypeOK, Depth
<1>2. /\ symbol_table' = SubSeq(symbol_table, 1, Depth - 1)
      /\ blocks' = SubSeq(blocks, 1, Depth - 1)
      /\ map' = Restored(Vars(Depth)) /\ access' = None /\ UNCHANGED <<alloca, quirks>>
  BY DEF Leave, Block, Vars
<1>3. /\ symbol_table' \in Seq([Name -> Binding \cup {None}]) /\ Depth' = Depth - 1
      /\ \A k \in 1 .. Depth - 1 : symbol_table'[k] = symbol_table[k]
  BY <1>1, <1>2, AllButTheLast DEF TypeOK, Depth
<1>4. /\ blocks' \in Seq([kind : {"program", "prototype", "function", "var", "for", "branch"},
                         vars : Seq(Variable)])
      /\ Len(blocks') = Depth - 1
      /\ \A k \in 1 .. Depth - 1 : blocks'[k] = blocks[k]
  BY <1>1, <1>2, AllButTheLast DEF TypeOK
<1>5. \A n \in Name :
        \/ (\A j \in DOMAIN Vars(Depth) : Vars(Depth)[j].name # n) /\ map'[n] = map[n]
        \/ \E j \in DOMAIN Vars(Depth) : Vars(Depth)[j].name = n /\ map'[n] = Vars(Depth)[j].old
  BY <1>1, <1>2, RestoredIs
<1>6. Depth \in 1 .. Depth /\ Depth \in 3 .. Depth /\ \A k \in 1 .. Depth - 1 : k \in 1 .. Depth
  BY <1>1
<1>7. TypeOK'
  <2>1. \A n \in Name : map'[n] \in 1 .. MaxAlloca \cup {None}
    <3>1. \A j \in DOMAIN Vars(Depth) : Vars(Depth)[j].old \in 1 .. MaxAlloca \cup {None}
      BY <1>1, <1>6, Typing DEF Variable
    <3>2. map \in [Name -> 1 .. MaxAlloca \cup {None}]
      BY <1>1 DEF TypeOK
    <3>3. \A n \in Name : map[n] \in 1 .. MaxAlloca \cup {None}
      BY <3>2, Zenon
    <3> QED BY <1>5, <3>1, <3>3, Zenon
  <2>2. map' \in [Name -> 1 .. MaxAlloca \cup {None}]
    BY <1>2, <2>1 DEF Restored
  <2> QED BY <1>1, <1>2, <1>3, <1>4, <2>2 DEF TypeOK, Depth
<1>8. Shape'
  <2>1. 1 \in 1 .. Depth - 1
    BY <1>1
  <2> QED BY <1>3, <1>4, <1>6, <2>1 DEF Shape, ScopesInv
<1>9. Declared'
  <2> SUFFICES ASSUME NEW k \in 1 .. Depth - 1, NEW n \in Name, symbol_table'[k][n] # None
               PROVE  LET b == symbol_table'[k][n]
                      IN  /\ b.id \in 0 .. Len(alloca)
                          /\ k >= 2 => b.id # 0
                          /\ b.id # 0 => /\ \E j \in DOMAIN blocks'[k].vars :
                                              /\ blocks'[k].vars[j].name = n
                                              /\ blocks'[k].vars[j].id = b.id
                                              /\ blocks'[k].vars[j].t = alloca[b.id]
                                         /\ b.type # None => alloca[b.id] # None
    BY <1>2, <1>3 DEF Declared, Bound, Vars
  <2>1. symbol_table'[k] = symbol_table[k] /\ blocks'[k] = blocks[k]
    BY <1>3, <1>4
  <2> QED BY <1>6, <2>1 DEF Declared, ScopesInv, Bound, Vars
<1>10. Valued'
  <2> SUFFICES ASSUME NEW k \in 1 .. Depth - 1, NEW j \in DOMAIN blocks'[k].vars, blocks'[k].vars[j].val
               PROVE  blocks'[k].vars[j].t # None
    BY <1>3 DEF Valued, Vars
  <2> QED BY <1>4, <1>6 DEF Valued, ScopesInv, Vars
<1>16. \A k \in 1 .. Depth - 1 : blocks'[k] = blocks[k] /\ symbol_table'[k] = symbol_table[k]
  BY <1>3, <1>4
<1>17. ASSUME NEW k \in 1 .. Depth - 1, NEW n, NEW w, Held(blocks, quirks, n, w, k)
       PROVE  Held(blocks', quirks', n, w, k)
  <2>1. \A h \in 2 .. k : blocks'[h] = blocks[h]
    <3>1. \A h \in 2 .. k : h \in 1 .. Depth - 1
      BY <1>1
    <3> QED BY <1>16, <3>1
  <2> QED BY <1>2, <1>17, <2>1 DEF Held
<1>11. Entered' /\ Kept'
  <2>1. Entered'
    <3> SUFFICES ASSUME NEW k \in 2 .. Depth - 1, NEW j \in DOMAIN blocks'[k].vars
                 PROVE  symbol_table'[k][blocks'[k].vars[j].name] # None
      BY <1>3 DEF Entered, Vars, Bound
    <3>1. k \in 1 .. Depth - 1 /\ k \in 2 .. Depth
      BY <1>1
    <3> QED BY <1>16, <3>1 DEF Entered, ScopesInv, Vars, Bound
  <2>2. Kept'
    <3> SUFFICES ASSUME "duplicate" \notin quirks, NEW k \in 3 .. Depth - 1,
                        NEW j \in DOMAIN blocks'[k].vars, blocks'[k].vars[j].old # None
                 PROVE  Held(blocks', quirks', blocks'[k].vars[j].name, blocks'[k].vars[j].old, k - 1)
      BY <1>2, <1>3 DEF Kept, Vars, Held
    <3>1. k \in 3 .. Depth /\ k \in 1 .. Depth - 1 /\ k - 1 \in 1 .. Depth - 1
      BY <1>1
    <3>2. Held(blocks, quirks, blocks[k].vars[j].name, blocks[k].vars[j].old, k - 1)
      BY <1>16, <3>1 DEF Kept, ScopesInv, Vars
    <3> QED BY <1>16, <1>17, <3>1, <3>2
  <2> QED BY <2>1, <2>2
<1>12. Mapped'
  <2> SUFFICES ASSUME {"duplicate", "unassigned", "renamed"} \cap quirks = {}
               PROVE  /\ \A n \in Name : MapsTo(symbol_table', alloca, Depth - 1, n, map'[n])
                      /\ \A k \in 3 .. Depth - 1 : \A j \in DOMAIN Vars(k) :
                           MapsTo(symbol_table', alloca, k - 1, Vars(k)[j].name, Vars(k)[j].old)
    <3>1. \A k \in 3 .. Depth - 1 : blocks'[k].vars = Vars(k)
      <4>1. \A k \in 3 .. Depth - 1 : k \in 1 .. Depth - 1
        BY <1>1
      <4> QED BY <1>4, <4>1 DEF Vars
    <3> QED BY <1>2, <1>3, <3>1 DEF Mapped, Vars
  <2>1. /\ \A n \in Name : MapsTo(symbol_table, alloca, Depth, n, map[n])
        /\ \A k \in 3 .. Depth : \A j \in DOMAIN Vars(k) :
             MapsTo(symbol_table, alloca, k - 1, Vars(k)[j].name, Vars(k)[j].old)
    BY DEF ScopesInv, Mapped
  <2>2. ASSUME NEW k \in 1 .. Depth - 1, NEW n, NEW w, MapsTo(symbol_table, alloca, k, n, w)
        PROVE  MapsTo(symbol_table', alloca, k, n, w)
    <3>1. \A j \in 1 .. k : symbol_table'[j] = symbol_table[j]
      BY <1>1, <1>3
    <3> QED BY <2>2, <3>1, SameMapping
  <2>5. \A n \in Name : symbol_table[Depth][n] # None
                         => \E j \in DOMAIN Vars(Depth) : Vars(Depth)[j].name = n
    <3>1. Depth >= 2 /\ Declared
      BY <1>1 DEF ScopesInv
    <3> QED BY <1>6, <3>1 DEF Declared, Bound
  <2>3. ASSUME NEW n \in Name
        PROVE  MapsTo(symbol_table, alloca, Depth - 1, n, map'[n])
    <3>1. CASE (\A j \in DOMAIN Vars(Depth) : Vars(Depth)[j].name # n) /\ map'[n] = map[n]
      <4>1. symbol_table[Depth][n] = None
        BY <2>5, <3>1, Zenon
      <4> QED BY <1>1, <2>1, <3>1, <4>1, MappingBelow
    <3>2. CASE \E j \in DOMAIN Vars(Depth) : Vars(Depth)[j].name = n /\ map'[n] = Vars(Depth)[j].old
      <4>1. PICK j \in DOMAIN Vars(Depth) : Vars(Depth)[j].name = n /\ map'[n] = Vars(Depth)[j].old
        BY <3>2
      <4> QED BY <1>6, <2>1, <4>1
    <3> QED BY <1>5, <3>1, <3>2
  <2>4. Depth - 1 \in 1 .. Depth - 1 /\ \A k \in 3 .. Depth - 1 : k - 1 \in 1 .. Depth - 1 /\ k \in 3 .. Depth
    BY <1>1
  <2> QED BY <2>1, <2>2, <2>3, <2>4
<1>13. Typed'
  BY <1>2, <1>3, <1>6 DEF Typed, ScopesInv, Bound
<1>14. NoLeakedName'
  <2> SUFFICES ASSUME "duplicate" \notin quirks, NEW n \in Name, map'[n] # None
               PROVE  Held(blocks', quirks', n, map'[n], Depth - 1)
    BY <1>2, <1>3 DEF NoLeakedName, HeldBy, Held
  <2>1. CASE (\A j \in DOMAIN Vars(Depth) : Vars(Depth)[j].name # n) /\ map'[n] = map[n]
    <3>1. Held(blocks, quirks, n, map'[n], Depth)
      BY <2>1 DEF ScopesInv, NoLeakedName, HeldBy, Held
    <3>2. Held(blocks, quirks, n, map'[n], Depth - 1)
      BY <1>1, <2>1, <3>1 DEF Held, Vars
    <3> QED BY <1>1, <1>17, <3>2
  <2>2. CASE \E j \in DOMAIN Vars(Depth) : Vars(Depth)[j].name = n /\ map'[n] = Vars(Depth)[j].old
    <3>1. Held(blocks, quirks, n, map'[n], Depth - 1)
      BY <1>6, <2>2 DEF ScopesInv, Kept
    <3> QED BY <1>1, <1>17, <3>1
  <2> QED BY <1>5, <2>1, <2>2
<1>15. SameVariable' /\ RootedPointers'
  BY <1>2 DEF SameVariable, RootedPointers
<1> QED BY <1>7, <1>8, <1>9, <1>10, <1>11, <1>12, <1>13, <1>14, <1>15 DEF ScopesInv

-------------------------------------------------------------------------------
(* The theorems.                                                            *)

\* No variable is in scope twice unless it is declared twice: a declaration that is not
\* one of the quirks enters a scope that does not bind its name.
LEMMA FreshName ==
  ASSUME ScopesInv, NEW n \in Name, "duplicate" \notin quirks \cup Duplicate(n)
  PROVE  ~Bound(n, Depth)
BY DEF Duplicate, Bound

LEMMA DeclarationKeeps ==
  ASSUME ScopesInv, NEW n \in Name
  PROVE  /\ \A t \in Type : DeclareWithValue(n, t) \/ DeclareAnnotated(n, t) => ScopesInv'
         /\ \A t \in Type \cup {None} : DeclareBare(n, t) => ScopesInv'
<1>1. quirks \subseteq Quirk
  BY DEF ScopesInv, TypeOK
<1>2. ASSUME NEW t \in Type, DeclareWithValue(n, t)
      PROVE  ScopesInv'
  <2>1. Bind(n, n, t, t, TRUE) /\ quirks' = quirks \cup Duplicate(n)
    BY <1>2 DEF DeclareWithValue
  <2>2. Depth >= 3 /\ "duplicate" \notin quirks' => ~Bound(n, Depth)
    BY <2>1, FreshName
  <2> QED BY <1>1, <2>1, <2>2, BindKeeps, NoneIsNothing DEF Duplicate, Quirk
<1>3. ASSUME NEW t \in Type, DeclareAnnotated(n, t)
      PROVE  ScopesInv'
  <2>1. Bind(n, n, None, t, TRUE) /\ quirks' = quirks \cup Duplicate(n)
    BY <1>3 DEF DeclareAnnotated
  <2>2. Depth >= 3 /\ "duplicate" \notin quirks' => ~Bound(n, Depth)
    BY <2>1, FreshName
  <2> QED BY <1>1, <2>1, <2>2, BindKeeps, NoneIsNothing DEF Duplicate, Quirk
<1>4. ASSUME NEW t \in Type \cup {None}, DeclareBare(n, t)
      PROVE  ScopesInv'
  <2>1. /\ Bind(n, n, None, t, FALSE)
        /\ quirks' = quirks \cup Duplicate(n)
                            \cup (IF t = None /\ Visible(n) THEN {"unassigned"} ELSE {})
    BY <1>4 DEF DeclareBare
  <2>2. Depth >= 3 /\ "duplicate" \notin quirks' => ~Bound(n, Depth)
    BY <2>1, FreshName
  <2>3. t = None /\ "unassigned" \notin quirks' => ~Visible(n)
    BY <2>1
  <2>4. quirks \subseteq quirks' /\ quirks' \subseteq Quirk
    BY <1>1, <2>1 DEF Duplicate, Quirk
  <2> QED BY <2>1, <2>2, <2>3, <2>4, BindKeeps
<1> QED BY <1>2, <1>3, <1>4

LEMMA OnlyVariableKeeps ==
  ASSUME ScopesInv, NEW n \in Name
  PROVE  /\ \A key \in Name \cup {None}, type \in Type, t \in Type : Parameter(n, key, type, t) => ScopesInv'
         /\ LoopVariable(n) => ScopesInv'
<1>1. quirks \subseteq Quirk /\ TypeOK
  BY DEF ScopesInv, TypeOK
<1>2. Depth \in 1 .. Depth /\ Depth \in Nat
  BY <1>1, Typing
<1>3. ASSUME NEW key \in Name \cup {None}, NEW type \in Type, NEW t \in Type,
             Parameter(n, key, type, t)
      PROVE  ScopesInv'
  <2>1. /\ Bind(n, key, type, t, TRUE) /\ blocks[Depth].kind = "prototype"
        /\ quirks' = quirks \cup (IF key = n THEN {} ELSE {"renamed"})
                            \cup (IF type = t THEN {} ELSE {"redeclared"})
    BY <1>3 DEF Parameter, Block
  <2>2. Depth = 2
    BY <1>2, <2>1 DEF ScopesInv, Shape
  <2>3. quirks \subseteq quirks' /\ quirks' \subseteq Quirk
    BY <1>1, <2>1 DEF Quirk
  <2>4. (key # n => "renamed" \in quirks') /\ ("redeclared" \notin quirks' => type = t)
    BY <2>1
  <2>5. t # None
    BY NoneIsNothing
  <2>6. ~(Depth >= 3)
    BY <2>2
  <2> QED BY <2>1, <2>2, <2>3, <2>4, <2>5, <2>6, BindKeeps
<1>4. ASSUME LoopVariable(n)
      PROVE  ScopesInv'
  <2>1. /\ Bind(n, n, "scalar", "scalar", TRUE) /\ quirks' = quirks /\ Vars(Depth) = << >>
        /\ "scalar" \in Type
    BY <1>4 DEF LoopVariable, Block, Vars, Type
  <2>2. Depth >= 3 => ~Bound(n, Depth)
    BY <1>2, <2>1 DEF ScopesInv, Declared
  <2> QED BY <1>1, <2>1, <2>2, BindKeeps, NoneIsNothing
<1> QED BY <1>3, <1>4

LEMMA InitScopesInv == Init => ScopesInv
<1> SUFFICES ASSUME Init
             PROVE  ScopesInv
  OBVIOUS
<1>1. /\ Depth = 2 /\ Len(blocks) = 2 /\ alloca = << >> /\ access = None /\ quirks = {}
      /\ blocks[1] = [kind |-> "program", vars |-> << >>]
      /\ blocks[2] = [kind |-> "prototype", vars |-> << >>]
      /\ symbol_table[1] = [n \in Name |-> IF n \in Function THEN [id |-> 0, type |-> "scalar"]
                                                             ELSE None]
      /\ symbol_table[2] = [n \in Name |-> None] /\ map = [n \in Name |-> None]
  BY DEF Init, NoScope, Depth
<1>2. [id |-> 0, type |-> "scalar"] \in Binding /\ [id |-> 0, type |-> "scalar"] # None
  BY NoneIsNothing, BoundsAssumption DEF Binding, Type
<1>3. TypeOK
  <2>1. symbol_table \in Seq([Name -> Binding \cup {None}]) /\ Len(symbol_table) = 2
    BY <1>2 DEF Init, NoScope
  <2>2. blocks \in Seq([kind : {"program", "prototype", "function", "var", "for", "branch"},
                        vars : Seq(Variable)])
    <3>1. << >> \in Seq(Variable)
      BY EmptySeq
    <3> QED BY <3>1 DEF Init
  <2> QED BY <1>1, <2>1, <2>2, BoundsAssumption DEF TypeOK
<1>4. \A k \in 1 .. Depth : k = 1 \/ k = 2
  BY <1>1
<1>5. \A k \in 1 .. Depth : DOMAIN Vars(k) = {}
  BY <1>1, <1>4 DEF Vars
<1>6. Shape
  BY <1>1, <1>4 DEF Shape
<1>7. \A k \in 1 .. Depth, n \in Name :
        symbol_table[k][n] # None => k = 1 /\ symbol_table[k][n] = [id |-> 0, type |-> "scalar"]
  BY <1>1, <1>4
<1>8. Declared
  BY <1>1, <1>7 DEF Declared, Bound
<1>9. Valued /\ Entered /\ Kept
  BY <1>1, <1>5 DEF Valued, Entered, Kept
<1>10. Mapped
  <2> SUFFICES ASSUME NEW n \in Name
               PROVE  MapsTo(symbol_table, alloca, Depth, n, None)
    BY <1>1 DEF Mapped
  <2>1. symbol_table[2][n] = None
    BY <1>1
  <2>2. CASE symbol_table[1][n] = None
    BY <1>1, <1>4, <2>1, <2>2 DEF MapsTo
  <2>3. CASE symbol_table[1][n] # None
    <3>1. symbol_table[1][n].id = 0 /\ \A h \in 2 .. 2 : symbol_table[h][n] = None
      BY <1>1, <1>7, <2>1, <2>3
    <3> QED BY <1>1, <2>3, <3>1 DEF MapsTo
  <2> QED BY <2>2, <2>3
<1>11. Typed
  BY <1>7 DEF Typed, Bound
<1>12. NoLeakedName /\ SameVariable /\ RootedPointers
  BY <1>1 DEF NoLeakedName, SameVariable, RootedPointers, HeldBy, Held
<1> QED BY <1>3, <1>6, <1>8, <1>9, <1>10, <1>11, <1>12 DEF ScopesInv

LEMMA NextScopesInv == ScopesInv /\ [Next]_vars => ScopesInv'
<1> SUFFICES ASSUME ScopesInv, [Next]_vars
             PROVE  ScopesInv'
  OBVIOUS
<1>1. ASSUME NEW kind \in {"var", "for", "branch"}, Enter(kind) PROVE ScopesInv'
  BY <1>1, EnterKeeps
<1>2. ASSUME NEW n \in Name, NEW key \in Name \cup {None}, NEW type \in Type, NEW t \in Type,
             Parameter(n, key, type, t)
      PROVE  ScopesInv'
  BY <1>2, OnlyVariableKeeps
<1>3. ASSUME NEW n \in Name, NEW t \in Type, DeclareWithValue(n, t) \/ DeclareAnnotated(n, t)
      PROVE  ScopesInv'
  BY <1>3, DeclarationKeeps
<1>4. ASSUME NEW n \in Name, NEW t \in Type, Assign(n, t) PROVE ScopesInv'
  BY <1>4, AssignKeeps
<1>5. ASSUME NEW n \in Name, NEW t \in Type \cup {None}, DeclareBare(n, t) PROVE ScopesInv'
  BY <1>5, DeclarationKeeps
<1>6. ASSUME NEW n \in Name, LoopVariable(n) PROVE ScopesInv'
  BY <1>6, OnlyVariableKeeps
<1>7. ASSUME NEW n \in Name, Identifier(n) PROVE ScopesInv'
  BY <1>7, IdentifierKeeps
<1>8. CASE Body
  BY <1>8, BodyKeeps
<1>9. CASE Leave
  BY <1>9, LeaveKeeps
<1>10. CASE UNCHANGED vars
  <2>1. UNCHANGED <<symbol_table, blocks, map, alloca, access, quirks>>
    BY <1>10 DEF vars
  <2>2. TypeOK'
    BY <2>1 DEF ScopesInv, TypeOK
  <2>3. Shape' /\ Declared' /\ Entered' /\ Valued' /\ Kept' /\ Mapped' /\ Typed'
    BY <2>1 DEF ScopesInv, Shape, Declared, Entered, Valued, Kept, Mapped, Typed, Held, Vars,
                Bound, Depth
  <2>4. NoLeakedName' /\ SameVariable' /\ RootedPointers'
    BY <2>1 DEF ScopesInv, NoLeakedName, SameVariable, RootedPointers, HeldBy, Held, Depth
  <2> QED BY <2>2, <2>3, <2>4 DEF ScopesInv
<1> QED BY <1>1, <1>2, <1>3, <1>4, <1>5, <1>6, <1>7, <1>8, <1>9, <1>10 DEF Next

\* In every state of every walk the generator's map and the bindings it keeps belong to
\* blocks still open (Kept, NoLeakedName), and, without the constructs that Mapped names,
\* describe the checker's scopes.
THEOREM ScopesInvariant == Spec => []ScopesInv
BY InitScopesInv, NextScopesInv, PTL DEF Spec

\* The types of the two passes' environments.
THEOREM ScopesTypeCorrect == Spec => []TypeOK
<1>1. ScopesInv => TypeOK
  BY DEF ScopesInv
<1> QED BY <1>1, ScopesInvariant, PTL

\* Outside its block no name stays mapped to a variable, if no var declares a name twice:
\* the loop over a block's variables gives every name back (codegen.rs:701-707,
\* 1037-1041).  A parameter under a name that LLVM made up does not disturb it.
THEOREM NoLeakedNameCorrect == Spec => []NoLeakedName
<1>1. ScopesInv => NoLeakedName
  BY DEF ScopesInv
<1> QED BY <1>1, ScopesInvariant, PTL

\* Each access compiles to the alloca of the declaration that the checker resolved the
\* name to, for bodies nested to any depth and without the four constructs that the
\* passes resolve differently: a name declared twice in one var, a shadowing variable never
\* assigned, a function's name as a variable, a parameter that LLVM renamed.
THEOREM SameVariableCorrect == Spec => []SameVariable
<1>1. ScopesInv => SameVariable
  BY DEF ScopesInv
<1> QED BY <1>1, ScopesInvariant, PTL

\* What the checker takes for a heap pointer is read from a root of the collector, and
\* what it takes for a scalar is not, in bodies without any of the constructs in Quirk
\* (codegen.rs:150-165, 659-661).
THEOREM RootedPointersCorrect == Spec => []RootedPointers
<1>1. ScopesInv => RootedPointers
  BY DEF ScopesInv
<1> QED BY <1>1, ScopesInvariant, PTL
===============================================================================
