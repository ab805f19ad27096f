----------------------------- MODULE ParserProofs -----------------------------
(***************************************************************************)
(* The parser builds the trees that the precedences ask for, of everything   *)
(* it has read (Parser!TreesRight, Parser!WholeExpression).                  *)
(*                                                                         *)
(* What an item of todo does when its turn comes depends on the expressions   *)
(* that are complete by then, so the invariant says of every item how many of *)
(* those that are complete now it will find left alone, where in the line     *)
(* what it belongs to begins, and which items can be inside of which.        *)
(***************************************************************************)
EXTENDS Parser, SequenceTheorems, TLAPS

\* The precedence of a token in a table p, and how tightly an expression with such an
\* operator at its root holds together.
Prec(p, c) == IF c \in DOMAIN p THEN p[c] ELSE -1
Firm(p, c) == IF c = "" THEN 128 ELSE Prec(p, c)

\* What makes one expression, and what waits for its right operand with the left one ready.
Operands == {"unary", "post", "close"}
Halves == {"operand", "build"}

\* Item x, to which g expressions are left alone, and which begins at place b; a is the
\* place of the token.
Item(x, o, a, p, g, b) ==
  /\ x \in Items /\ g \in 0 .. Len(o) /\ b \in 1 .. a
  /\ \A i \in 1 .. Len(o) : i > g => o[i].first >= b
  /\ x.what \in Halves => /\ g >= 1 /\ b = o[g].first
                          /\ x.op \in DOMAIN p /\ Firm(p, o[g].op) >= Prec(p, x.op)
  /\ x.what = "operand" => x.n = Prec(p, x.op)
  /\ x.what = "rhs" => x.n \in 0 .. 101
  /\ x.what = "close" => b = x.n /\ x.n < a /\ \A i \in 1 .. g : o[i].last < x.n
  /\ x.what = "evaluated" => g = 0 /\ b = x.n
  /\ x.what = "operator" => x.op \in {"unary", "binary"}
  /\ x.what = "precedence" => x.op \in Ascii
  /\ x.what = "args" => x.n < a

\* Item z inside of item x.
Link(z, g, b, x, h, c, o, p) ==
  /\ h <= g /\ c <= b
  /\ z.what \in Halves => x.what = "rhs"
  /\ z.what = "precedence" => x = Expect("(")
  /\ x.what \notin {"unary", "prototype", "operator", "precedence"}
  /\ x.what = "rhs" => \/ z.what \in Operands /\ g = h /\ b = c
                       \/ z.what \in Halves /\ g = h + 1 /\ b = c /\ x.n <= Prec(p, z.op)
  /\ x.what = "operand" => z.what \in Operands /\ g = h /\ b = o[h].last + 2
  /\ x.what = "build" => /\ z.what = "rhs" /\ z.n = Prec(p, x.op) + 1
                         /\ g = h /\ b = o[h].last + 2
  /\ x.what = "post" => z.what = "close" /\ g = h /\ b = c
  /\ x.what = "evaluated" => z.what = "rhs" /\ z.n = 0 /\ g = h /\ b = c

\* The innermost item, which is the next to be done; t is the token.
Top(x, o, t, a, p, g, b) ==
  /\ x.what \in {"unary", "expr"} => g = Len(o) /\ b = a
  /\ x.what \in {"post", "rhs", "operand", "build"} =>
       Len(o) = g + 1 /\ o[g + 1].last = a - 1
  /\ x.what \in {"post", "rhs"} => b = o[g + 1].first
  /\ x.what \in {"post", "operand"} => o[g + 1].op = ""
  /\ x.what = "rhs" => Firm(p, o[g + 1].op) >= x.n /\ Firm(p, o[g + 1].op) >= Prec(p, t)
  /\ x.what = "build" => Firm(p, o[g + 1].op) > Prec(p, x.op) /\ Prec(p, t) <= Prec(p, x.op)
  /\ x.what \in Halves => o[g + 1].first = o[g].last + 2
  /\ x.what = "evaluated" => /\ Len(o) = 1 /\ o[1].first = x.n /\ o[1].last = a - 1
                             /\ Prec(p, t) = -1
  /\ x.what \in {"prototype", "operator", "precedence"} => o = << >>

\* The expressions, in the order in which they stand in the line.
InOrder(o, a) ==
  /\ \A i \in 1 .. Len(o) : o[i].first <= o[i].last /\ o[i].last < a
  /\ \A i, k \in 1 .. Len(o) : i < k => o[i].last < o[k].first

\* Where the calls end: the declaration.
Ends == {"declared", "evaluated"}

\* From the innermost item outwards there are fewer.
Falling(f, n) == \A j, k \in 1 .. n : j <= k => f[k] <= f[j]

\* The stack td, with the number of expressions and the place of each item.
Witnessed(td, o, a, p, g, b) ==
  /\ \A k \in 1 .. Len(td) : Item(td[k], o, a, p, g[k], b[k])
  /\ \A k \in 1 .. Len(td) - 1 : Link(td[k], g[k], b[k], td[k + 1], g[k + 1], b[k + 1], o, p)
  /\ Falling(g, Len(td)) /\ Falling(b, Len(td))
  /\ td[Len(td)].what \in Ends

\* The stack td, the innermost item of which has h and c.
Formed(td, o, a, p, h, c) ==
  /\ td \in Seq(Items) /\ td # << >>
  /\ \E g, b \in [Nat -> Nat] : Witnessed(td, o, a, p, g, b) /\ g[1] = h /\ b[1] = c

-------------------------------------------------------------------------------
(* Stacks.                                                                 *)

\* Sequences, one after the other.
LEMMA Joined ==
  ASSUME NEW S, NEW s \in Seq(S), NEW t \in Seq(S)
  PROVE  /\ s \o t \in Seq(S) /\ Len(s \o t) = Len(s) + Len(t)
         /\ Len(s) \in Nat /\ Len(t) \in Nat
         /\ \A k \in 1 .. Len(s) : (s \o t)[k] = s[k]
         /\ \A k \in 1 .. Len(t) : (s \o t)[Len(s) + k] = t[k]
<1>1. /\ s \o t \in Seq(S) /\ Len(s \o t) = Len(s) + Len(t) /\ Len(s) \in Nat /\ Len(t) \in Nat
      /\ \A k \in 1 .. Len(s) + Len(t) : (s \o t)[k] = IF k <= Len(s) THEN s[k] ELSE t[k - Len(s)]
  BY ConcatProperties, LenProperties
<1>2. ASSUME NEW m \in Nat, NEW n \in Nat
      PROVE  /\ \A k \in 1 .. m : k \in 1 .. m + n /\ k <= m
             /\ \A k \in 1 .. n : m + k \in 1 .. m + n /\ ~(m + k <= m) /\ m + k - m = k
  OBVIOUS
<1> QED BY <1>1, <1>2

\* The same of items.
LEMMA Joined_items ==
  \A s, t \in Seq(Items) :
    /\ s \o t \in Seq(Items) /\ Len(s \o t) = Len(s) + Len(t)
    /\ Len(s) \in Nat /\ Len(t) \in Nat
    /\ \A k \in 1 .. Len(s) : (s \o t)[k] = s[k]
    /\ \A k \in 1 .. Len(t) : (s \o t)[Len(s) + k] = t[k]
<1> TAKE s, t \in Seq(Items)
<1> QED BY Joined

\* The first item, and the rest.
LEMMA Parts ==
  ASSUME NEW S, NEW s \in Seq(S), s # << >>
  PROVE  /\ Head(s) = s[1] /\ s[1] \in S /\ Tail(s) \in Seq(S)
         /\ Len(s) \in Nat /\ Len(s) >= 1 /\ Len(Tail(s)) = Len(s) - 1
         /\ \A k \in 1 .. Len(s) - 1 : Tail(s)[k] = s[k + 1]
         /\ Tail(s) # << >> <=> Len(s) >= 2
<1>1. Len(s) \in Nat /\ Len(s) # 0
  BY EmptySeq, SeqEqual, LenProperties
<1>2. Head(s) = s[1] /\ s[1] \in S
  BY <1>1, ElementOfSeq
<1>3. /\ Tail(s) \in Seq(S) /\ Len(Tail(s)) = Len(s) - 1
      /\ \A k \in 1 .. Len(Tail(s)) : Tail(s)[k] = s[k + 1]
  BY HeadTailProperties
<1>4. Tail(s) # << >> <=> Len(Tail(s)) # 0
  BY <1>3, EmptySeq, SeqEqual
<1> QED BY <1>1, <1>2, <1>3, <1>4

\* The places of two sequences, one after the other.
LEMMA Places_joined ==
  ASSUME NEW m \in Nat, NEW n \in Nat
  PROVE  /\ \A k \in 1 .. m + n : k \in 1 .. m \/ \E j \in 1 .. n : k = m + j
         /\ \A k \in 1 .. m + n - 1 : k \in 1 .. m - 1 \/ k = m \/ \E j \in 1 .. n - 1 : k = m + j
         /\ \A k \in 1 .. m - 1 : k \in 1 .. m /\ k + 1 \in 1 .. m
         /\ \A j \in 1 .. n - 1 : j \in 1 .. n /\ j + 1 \in 1 .. n /\ m + (j + 1) = (m + j) + 1
<1>1. \A k \in 1 .. m + n : k \in 1 .. m \/ \E j \in 1 .. n : k = m + j
  <2> SUFFICES ASSUME NEW k \in 1 .. m + n, k \notin 1 .. m
               PROVE  \E j \in 1 .. n : k = m + j
    OBVIOUS
  <2>1. k - m \in 1 .. n /\ k = m + (k - m)
    OBVIOUS
  <2> QED BY <2>1
<1>2. \A k \in 1 .. m + n - 1 : k \in 1 .. m - 1 \/ k = m \/ \E j \in 1 .. n - 1 : k = m + j
  <2> SUFFICES ASSUME NEW k \in 1 .. m + n - 1, k \notin 1 .. m - 1, k # m
               PROVE  \E j \in 1 .. n - 1 : k = m + j
    OBVIOUS
  <2>1. k - m \in 1 .. n - 1 /\ k = m + (k - m)
    OBVIOUS
  <2> QED BY <2>1
<1> QED BY <1>1, <1>2

\* The value v for m places, and then what f says.
LEMMA Prefixed ==
  \A m, n \in Nat : \A f \in [Nat -> Nat], v \in Nat :
    \E f2 \in [Nat -> Nat] : /\ \A k \in 1 .. m : f2[k] = v
                            /\ \A k \in 1 .. n : f2[m + k] = f[k]
<1> TAKE m, n \in Nat
<1> TAKE f \in [Nat -> Nat], v \in Nat
<1> DEFINE f2 == [k \in Nat |-> IF k <= m THEN v ELSE f[k - m]]
<1>1. f2 \in [Nat -> Nat]
  OBVIOUS
<1>2. \A k \in 1 .. m : f2[k] = v
  OBVIOUS
<1>3. ASSUME NEW k \in 1 .. n
      PROVE  f2[m + k] = f[k]
  <2>1. m + k \in Nat /\ ~(m + k <= m) /\ (m + k) - m = k
    OBVIOUS
  <2> QED BY <2>1
<1> QED BY <1>1, <1>2, <1>3

LEMMA Falls ==
  ASSUME NEW m \in Nat, NEW n \in Nat, NEW f \in [Nat -> Nat], NEW f2 \in [Nat -> Nat],
         NEW v \in Nat,
         \A k \in 1 .. m : f2[k] = v,
         \A k \in 1 .. n : f2[m + k] = f[k],
         Falling(f, n), f[1] <= v
  PROVE  Falling(f2, m + n)
<1> SUFFICES ASSUME NEW j \in 1 .. m + n, NEW k \in 1 .. m + n, j <= k
             PROVE  f2[k] <= f2[j]
  BY DEF Falling
<1>1. \A i \in 1 .. m + n : i \in 1 .. m \/ \E i1 \in 1 .. n : i = m + i1
  BY Places_joined
<1>2. CASE k \in 1 .. m
  <2>1. j \in 1 .. m
    BY <1>2
  <2> QED BY <1>2, <2>1
<1>3. ASSUME NEW k1 \in 1 .. n, k = m + k1
      PROVE  f2[k] <= f2[j]
  <2>1. CASE j \in 1 .. m
    <3>1. 1 \in 1 .. n /\ 1 <= k1 /\ k1 \in Nat
      OBVIOUS
    <3>2. f[k1] <= f[1]
      BY <3>1 DEF Falling
    <3>3. f2[k] = f[k1] /\ f2[j] = v /\ f[k1] \in Nat /\ f[1] \in Nat
      BY <1>3, <2>1, <3>1
    <3> QED BY <3>2, <3>3
  <2>2. ASSUME NEW j1 \in 1 .. n, j = m + j1
        PROVE  f2[k] <= f2[j]
    <3>1. j1 <= k1
      BY <1>3, <2>2
    <3>2. f[k1] <= f[j1]
      BY <3>1 DEF Falling
    <3> QED BY <1>3, <2>2, <3>2
  <2> QED BY <1>1, <2>1, <2>2
<1> QED BY <1>1, <1>2, <1>3

\* Items that share g and b go on a stack.
LEMMA Grown ==
  ASSUME NEW o, NEW a, NEW p, NEW rest, NEW h, NEW c, Formed(rest, o, a, p, h, c),
         NEW s \in Seq(Items), s # << >>, NEW g \in Nat, NEW b \in Nat,
         \A k \in 1 .. Len(s) : Item(s[k], o, a, p, g, b),
         \A k \in 1 .. Len(s) - 1 : Link(s[k], g, b, s[k + 1], g, b, o, p),
         Link(s[Len(s)], g, b, rest[1], h, c, o, p)
  PROVE  Formed(s \o rest, o, a, p, g, b)
<1> DEFINE m == Len(s)
           n == Len(rest)
           t == s \o rest
<1>1. rest \in Seq(Items) /\ rest # << >>
  BY DEF Formed
<1>2. PICK g1, b1 \in [Nat -> Nat] : Witnessed(rest, o, a, p, g1, b1) /\ g1[1] = h /\ b1[1] = c
  BY DEF Formed
<1>3. /\ t \in Seq(Items) /\ Len(t) = m + n /\ m \in Nat /\ n \in Nat
      /\ \A k \in 1 .. m : t[k] = s[k]
      /\ \A k \in 1 .. n : t[m + k] = rest[k]
  <2>1. s \in Seq(Items) /\ rest \in Seq(Items)
    BY <1>1
  <2> HIDE DEF t
  <2>2. /\ s \o rest \in Seq(Items) /\ Len(s \o rest) = Len(s) + Len(rest)
        /\ Len(s) \in Nat /\ Len(rest) \in Nat
        /\ \A k \in 1 .. Len(s) : (s \o rest)[k] = s[k]
        /\ \A k \in 1 .. Len(rest) : (s \o rest)[Len(s) + k] = rest[k]
    BY <2>1, Joined_items, Zenon
  <2> QED BY <2>2, Zenon DEF m, n, t
<1>4. m >= 1 /\ n >= 1
  BY <1>1, Parts
<1> HIDE DEF m, n, t
<1>5. \A f \in [Nat -> Nat], v \in Nat :
        \E f2 \in [Nat -> Nat] : /\ \A k \in 1 .. m : f2[k] = v
                                /\ \A k \in 1 .. n : f2[m + k] = f[k]
  <2>1. m \in Nat /\ n \in Nat
    BY <1>3
  <2> QED BY <2>1, Prefixed, ZenonT(60)
<1>6. PICK g2 \in [Nat -> Nat] : /\ \A k \in 1 .. m : g2[k] = g
                                /\ \A k \in 1 .. n : g2[m + k] = g1[k]
  BY <1>5
<1>7. PICK b2 \in [Nat -> Nat] : /\ \A k \in 1 .. m : b2[k] = b
                                /\ \A k \in 1 .. n : b2[m + k] = b1[k]
  BY <1>5
<1>8. /\ \A k \in 1 .. m + n : k \in 1 .. m \/ \E j \in 1 .. n : k = m + j
      /\ \A k \in 1 .. m + n - 1 : k \in 1 .. m - 1 \/ k = m \/ \E j \in 1 .. n - 1 : k = m + j
      /\ \A k \in 1 .. m - 1 : k \in 1 .. m /\ k + 1 \in 1 .. m
      /\ \A j \in 1 .. n - 1 : j \in 1 .. n /\ j + 1 \in 1 .. n /\ m + (j + 1) = (m + j) + 1
  BY <1>3, Places_joined
<1>9. \A k \in 1 .. Len(t) : Item(t[k], o, a, p, g2[k], b2[k])
  <2>1. \A j \in 1 .. m : Item(t[j], o, a, p, g2[j], b2[j])
    BY <1>3, <1>6, <1>7 DEF m
  <2>2. \A j \in 1 .. n : Item(t[m + j], o, a, p, g2[m + j], b2[m + j])
    BY <1>2, <1>3, <1>6, <1>7 DEF n, Witnessed
  <2> QED BY <1>3, <1>8, <2>1, <2>2
<1>10. \A k \in 1 .. Len(t) - 1 : Link(t[k], g2[k], b2[k], t[k + 1], g2[k + 1], b2[k + 1], o, p)
  <2>1. \A k \in 1 .. m - 1 : Link(t[k], g2[k], b2[k], t[k + 1], g2[k + 1], b2[k + 1], o, p)
    <3>2. \A k \in 1 .. m - 1 : Link(s[k], g, b, s[k + 1], g, b, o, p)
      BY DEF m
    <3> QED BY <1>3, <1>6, <1>7, <1>8, <3>2
  <2>2. Link(t[m], g2[m], b2[m], t[m + 1], g2[m + 1], b2[m + 1], o, p)
    <3>1. m \in 1 .. m /\ 1 \in 1 .. n
      BY <1>3, <1>4
    <3>2. t[m] = s[m] /\ g2[m] = g /\ b2[m] = b /\ t[m + 1] = rest[1] /\ g2[m + 1] = h /\ b2[m + 1] = c
      BY <1>2, <1>3, <1>6, <1>7, <3>1
    <3> QED BY <3>2 DEF m
  <2>3. ASSUME NEW j \in 1 .. n - 1
        PROVE  Link(t[m + j], g2[m + j], b2[m + j], t[(m + j) + 1], g2[(m + j) + 1], b2[(m + j) + 1], o, p)
    <3>1. j \in 1 .. n /\ j + 1 \in 1 .. n /\ m + (j + 1) = (m + j) + 1
      BY <1>8
    <3>2. Link(rest[j], g1[j], b1[j], rest[j + 1], g1[j + 1], b1[j + 1], o, p)
      BY <1>2 DEF Witnessed, n
    <3>3. /\ t[m + j] = rest[j] /\ g2[m + j] = g1[j] /\ b2[m + j] = b1[j]
          /\ t[m + (j + 1)] = rest[j + 1] /\ g2[m + (j + 1)] = g1[j + 1] /\ b2[m + (j + 1)] = b1[j + 1]
      BY <1>3, <1>6, <1>7, <3>1
    <3> QED BY <3>1, <3>2, <3>3
  <2>4. ASSUME NEW k \in 1 .. Len(t) - 1
        PROVE  Link(t[k], g2[k], b2[k], t[k + 1], g2[k + 1], b2[k + 1], o, p)
    <3>1. k \in 1 .. m - 1 \/ k = m \/ \E j \in 1 .. n - 1 : k = m + j
      <4>1. k \in 1 .. m + n - 1
        BY <1>3
      <4> QED BY <1>8, <4>1, Zenon
    <3>2. CASE k \in 1 .. m - 1
      BY <2>1, <3>2
    <3>3. CASE k = m
      BY <2>2, <3>3
    <3>4. ASSUME NEW j \in 1 .. n - 1, k = m + j
          PROVE  Link(t[k], g2[k], b2[k], t[k + 1], g2[k + 1], b2[k + 1], o, p)
      BY <2>3, <3>4
    <3> QED BY <3>1, <3>2, <3>3, <3>4
  <2> QED BY <2>4
<1>11. t[Len(t)].what \in Ends
  <2>1. n \in 1 .. n
    BY <1>3, <1>4
  <2>2. t[m + n] = rest[n]
    BY <1>3, <2>1
  <2> QED BY <1>2, <1>3, <2>2 DEF Witnessed, n
<1>12. t # << >> /\ g2[1] = g /\ b2[1] = b
  <2>1. 1 \in 1 .. m /\ Len(t) # 0
    BY <1>3, <1>4
  <2> QED BY <1>6, <1>7, <2>1, EmptySeq
<1>13. Falling(g2, m + n) /\ Falling(b2, m + n)
  <2>1. Falling(g1, n) /\ Falling(b1, n)
    BY <1>2 DEF Witnessed, n
  <2>2. g1[1] <= g /\ b1[1] <= b
    BY <1>2 DEF Link
  <2>3. m \in Nat /\ n \in Nat
    BY <1>3
  <2>4. \A f, f2 \in [Nat -> Nat], v \in Nat :
          /\ \A k \in 1 .. m : f2[k] = v
          /\ \A k \in 1 .. n : f2[m + k] = f[k]
          /\ Falling(f, n) /\ f[1] <= v
          => Falling(f2, m + n)
    BY <2>3, Falls, Zenon
  <2> QED BY <1>6, <1>7, <2>1, <2>2, <2>4, Zenon
<1>14. Witnessed(t, o, a, p, g2, b2)
  BY <1>3, <1>9, <1>10, <1>11, <1>13 DEF Witnessed
<1> QED BY <1>3, <1>6, <1>7, <1>12, <1>14 DEF Formed, t

\* The innermost item.
LEMMA Innermost ==
  ASSUME NEW o, NEW a, NEW p, NEW td, NEW g, NEW b, Formed(td, o, a, p, g, b)
  PROVE  /\ td \in Seq(Items) /\ td # << >> /\ Head(td) = td[1]
         /\ Item(td[1], o, a, p, g, b) /\ td[1] \in Items
         /\ g \in Nat /\ b \in Nat
<1>1. PICK g1, b1 \in [Nat -> Nat] : Witnessed(td, o, a, p, g1, b1) /\ g1[1] = g /\ b1[1] = b
  BY DEF Formed
<1>2. /\ td \in Seq(Items) /\ td # << >> /\ Head(td) = td[1] /\ td[1] \in Items
      /\ Len(td) \in Nat /\ Len(td) >= 1
  BY Parts DEF Formed
<1>3. 1 \in 1 .. Len(td)
  BY <1>2
<1>4. Item(td[1], o, a, p, g, b)
  BY <1>1, <1>3 DEF Witnessed
<1> QED BY <1>1, <1>2, <1>4

\* The innermost item is done: what it is inside of comes next.
LEMMA Popped ==
  ASSUME NEW o, NEW a, NEW p, NEW td, NEW g, NEW b, Formed(td, o, a, p, g, b),
         td[1].what \notin Ends
  PROVE  \E h, c \in Nat : /\ Formed(Tail(td), o, a, p, h, c)
                           /\ Link(td[1], g, b, Tail(td)[1], h, c, o, p)
<1> DEFINE n == Len(td) - 1
           r == Tail(td)
<1>1. PICK g1, b1 \in [Nat -> Nat] : Witnessed(td, o, a, p, g1, b1) /\ g1[1] = g /\ b1[1] = b
  BY DEF Formed
<1>2. td \in Seq(Items) /\ td # << >> /\ Len(td) \in Nat /\ Len(td) >= 1
  BY Parts DEF Formed
<1>3. Len(td) >= 2
  <2>1. td[Len(td)].what \in Ends
    BY <1>1 DEF Witnessed
  <2>2. Len(td) # 1
    BY <2>1, Zenon
  <2>3. \A i \in Nat : i >= 1 /\ i # 1 => i >= 2
    OBVIOUS
  <2> QED BY <1>2, <2>2, <2>3, Zenon
<1>4. /\ r \in Seq(Items) /\ r # << >> /\ Len(r) = n /\ n \in Nat /\ n >= 1 /\ Len(td) = n + 1
      /\ \A k \in 1 .. n : r[k] = td[k + 1]
  <2>1. /\ r \in Seq(Items) /\ Len(r) = Len(td) - 1 /\ r # << >>
        /\ \A k \in 1 .. Len(td) - 1 : r[k] = td[k + 1]
    BY <1>2, <1>3, Parts
  <2>2. Len(td) - 1 \in Nat /\ Len(td) - 1 >= 1 /\ Len(td) = (Len(td) - 1) + 1
    BY <1>2, <1>3
  <2> QED BY <2>1, <2>2
<1> HIDE DEF n, r
<1> DEFINE g2 == [k \in Nat |-> g1[k + 1]]
           b2 == [k \in Nat |-> b1[k + 1]]
<1>5. /\ g2 \in [Nat -> Nat] /\ b2 \in [Nat -> Nat]
      /\ \A k \in Nat : g2[k] = g1[k + 1] /\ b2[k] = b1[k + 1]
  BY <1>1
<1> HIDE DEF g2, b2
<1>6. \A k \in 1 .. n : k \in Nat /\ k + 1 \in 1 .. n + 1
  BY <1>4
<1>7. \A k \in 1 .. n - 1 : k \in 1 .. n /\ k + 1 \in 1 .. n
  BY <1>4
<1>8. \A k \in 1 .. n : Item(r[k], o, a, p, g2[k], b2[k])
  BY <1>1, <1>4, <1>5, <1>6 DEF Witnessed
<1>9. ASSUME NEW k \in 1 .. n - 1
      PROVE  Link(r[k], g2[k], b2[k], r[k + 1], g2[k + 1], b2[k + 1], o, p)
  <2>1. k \in 1 .. n /\ k + 1 \in 1 .. n /\ k \in Nat /\ k + 1 \in Nat /\ k + 1 \in 1 .. (n + 1) - 1
    BY <1>4
  <2>2. Link(td[k + 1], g1[k + 1], b1[k + 1], td[(k + 1) + 1], g1[(k + 1) + 1], b1[(k + 1) + 1], o, p)
    BY <1>1, <1>4, <2>1 DEF Witnessed
  <2>3. r[k] = td[k + 1] /\ r[k + 1] = td[(k + 1) + 1]
    BY <1>4, <2>1
  <2>4. /\ g2[k] = g1[k + 1] /\ b2[k] = b1[k + 1]
        /\ g2[k + 1] = g1[(k + 1) + 1] /\ b2[k + 1] = b1[(k + 1) + 1]
    BY <1>5, <2>1
  <2> QED BY <2>2, <2>3, <2>4
<1>10. Falling(g2, n) /\ Falling(b2, n)
  <2>1. Falling(g1, n + 1) /\ Falling(b1, n + 1)
    BY <1>1, <1>4 DEF Witnessed
  <2>2. ASSUME NEW j \in 1 .. n, NEW k \in 1 .. n, j <= k
        PROVE  g2[k] <= g2[j] /\ b2[k] <= b2[j]
    <3>1. j + 1 \in 1 .. n + 1 /\ k + 1 \in 1 .. n + 1 /\ j + 1 <= k + 1 /\ j \in Nat /\ k \in Nat
      BY <1>4, <2>2
    <3>2. g1[k + 1] <= g1[j + 1] /\ b1[k + 1] <= b1[j + 1]
      BY <2>1, <3>1 DEF Falling
    <3> QED BY <1>5, <3>1, <3>2
  <2> QED BY <2>2 DEF Falling
<1>11. r[n].what \in Ends
  <2>1. n \in 1 .. n
    BY <1>4
  <2>2. r[n] = td[Len(td)]
    BY <1>4, <2>1
  <2> QED BY <1>1, <2>2 DEF Witnessed
<1>12. Witnessed(r, o, a, p, g2, b2)
  BY <1>4, <1>8, <1>9, <1>10, <1>11 DEF Witnessed
<1>13. Link(td[1], g1[1], b1[1], td[2], g1[2], b1[2], o, p)
  <2>1. 1 \in 1 .. Len(td) - 1
    BY <1>4
  <2> QED BY <1>1, <2>1 DEF Witnessed
<1>14. r[1] = td[2] /\ g2[1] = g1[2] /\ b2[1] = b1[2] /\ g2[1] \in Nat /\ b2[1] \in Nat
  <2>1. 1 \in 1 .. n
    BY <1>4
  <2> QED BY <1>4, <1>5, <2>1
<1>15. Formed(r, o, a, p, g2[1], b2[1])
  BY <1>4, <1>5, <1>12 DEF Formed
<1>16. Link(td[1], g, b, r[1], g2[1], b2[1], o, p)
  BY <1>1, <1>13, <1>14
<1> QED BY <1>14, <1>15, <1>16 DEF r

\* One item is pushed.
LEMMA Pushed ==
  ASSUME NEW o, NEW a, NEW p, NEW rest, NEW h, NEW c, Formed(rest, o, a, p, h, c),
         NEW x \in Items, NEW g \in Nat, NEW b \in Nat,
         Item(x, o, a, p, g, b), Link(x, g, b, rest[1], h, c, o, p)
  PROVE  Formed(<<x>> \o rest, o, a, p, g, b) /\ (<<x>> \o rest)[1] = x
<1> DEFINE s == <<x>>
<1>1. s \in Seq(Items) /\ s # << >> /\ Len(s) = 1 /\ s[1] = x
  OBVIOUS
<1>2. rest \in Seq(Items)
  BY Innermost
<1> HIDE DEF s
<1>3. \A k \in 1 .. Len(s) : Item(s[k], o, a, p, g, b)
  <2>1. \A k \in 1 .. 1 : k = 1
    OBVIOUS
  <2> QED BY <1>1, <2>1
<1>4. 1 .. Len(s) - 1 = {}
  BY <1>1
<1>5. Formed(s \o rest, o, a, p, g, b)
  BY <1>1, <1>3, <1>4, Grown
<1>6. (s \o rest)[1] = x
  <2>1. 1 \in 1 .. Len(s)
    BY <1>1
  <2> QED BY <1>1, <1>2, <2>1, Joined
<1> QED BY <1>5, <1>6 DEF s

-------------------------------------------------------------------------------
(* What is read does not disturb the calls that wait.                       *)

\* The stack td, ready to go on.
Stacked(td, o, t, a, p) ==
  td # << >> => \E g, b \in Nat : Formed(td, o, a, p, g, b) /\ Top(td[1], o, t, a, p, g, b)

\* The expressions, all of them.
Exprs(o) == o \in Seq(Trees)

LEMMA Numbers ==
  /\ Places \subseteq Nat \ {0} /\ MaxCost \in Nat
  /\ \A o : Exprs(o) => /\ Len(o) \in Nat /\ DOMAIN o = 1 .. Len(o)
                        /\ \A i \in 1 .. Len(o) : /\ o[i] \in Trees
                                                  /\ o[i].first \in Places /\ o[i].last \in Places
<1>1. Places \subseteq Nat \ {0} /\ MaxCost \in Nat
  BY BoundsAssumption DEF Places
<1>2. ASSUME NEW o, Exprs(o)
      PROVE  /\ Len(o) \in Nat /\ DOMAIN o = 1 .. Len(o)
             /\ \A i \in 1 .. Len(o) : o[i] \in Trees
  <2>1. o \in Seq(Trees)
    BY <1>2 DEF Exprs
  <2> QED BY <2>1, LenProperties, ElementOfSeq
<1>3. \A e \in Trees : e.first \in Places /\ e.last \in Places
  BY DEF Trees
<1> QED BY <1>1, <1>2, <1>3

\* Other expressions in the place of those after the first h, none before place c.
LEMMA ItemKept ==
  ASSUME NEW o, Exprs(o), NEW o2, Exprs(o2), NEW a \in Nat, NEW a2 \in Nat, a <= a2,
         NEW p, NEW x, NEW g, NEW b, Item(x, o, a, p, g, b),
         NEW h \in Nat, NEW c \in Nat, g <= h, b <= c, h <= Len(o), h <= Len(o2),
         \A i \in 1 .. h : o2[i] = o[i],
         \A i \in 1 .. Len(o2) : i > h => o2[i].first >= c
  PROVE  Item(x, o2, a2, p, g, b)
<1>1. /\ Len(o) \in Nat /\ Len(o2) \in Nat
      /\ \A i \in 1 .. Len(o) : o[i].first \in Nat
      /\ \A i \in 1 .. Len(o2) : o2[i].first \in Nat
  BY Numbers
<1>2. x \in Items /\ g \in 0 .. Len(o) /\ b \in 1 .. a
  BY DEF Item
<1>3. g \in 0 .. Len(o2) /\ b \in 1 .. a2
  BY <1>1, <1>2
<1>4. ASSUME NEW i \in 1 .. Len(o2), i > g
      PROVE  o2[i].first >= b
  <2>1. CASE i <= h
    <3>1. i \in 1 .. h /\ i \in 1 .. Len(o)
      BY <1>1, <2>1
    <3>2. o[i].first >= b
      BY <1>4, <3>1 DEF Item
    <3> QED BY <3>1, <3>2
  <2>2. CASE i > h
    <3>1. o2[i].first >= c
      BY <2>2
    <3> QED BY <1>1, <1>2, <3>1
  <2> QED BY <1>1, <2>1, <2>2
<1>5. x.what \in Halves => /\ g >= 1 /\ b = o2[g].first
                           /\ x.op \in DOMAIN p /\ Firm(p, o2[g].op) >= Prec(p, x.op)
  <2> SUFFICES ASSUME x.what \in Halves
               PROVE  /\ g >= 1 /\ b = o2[g].first
                      /\ x.op \in DOMAIN p /\ Firm(p, o2[g].op) >= Prec(p, x.op)
    OBVIOUS
  <2>1. /\ g >= 1 /\ b = o[g].first
        /\ x.op \in DOMAIN p /\ Firm(p, o[g].op) >= Prec(p, x.op)
    BY DEF Item
  <2>2. g \in 1 .. h
    BY <1>1, <1>2, <2>1
  <2>3. o2[g] = o[g]
    BY <2>2
  <2> QED BY <2>1, <2>3
<1>6. x.what = "close" => b = x.n /\ x.n < a2 /\ \A i \in 1 .. g : o2[i].last < x.n
  <2> SUFFICES ASSUME x.what = "close"
               PROVE  b = x.n /\ x.n < a2 /\ \A i \in 1 .. g : o2[i].last < x.n
    OBVIOUS
  <2>1. b = x.n /\ x.n < a /\ \A i \in 1 .. g : o[i].last < x.n
    BY DEF Item
  <2>2. \A i \in 1 .. g : i \in 1 .. h
    BY <1>1, <1>2
  <2>3. x.n < a2
    BY <1>2, <2>1
  <2> QED BY <2>1, <2>2, <2>3
<1>7. x.what = "args" => x.n < a2
  <2>1. x.n \in 0 .. 101 \cup Places
    BY <1>2 DEF Items
  <2>2. x.n \in Int
    <3>1. \A v \in 0 .. 101 \cup Places : v \in Int
      BY BoundsAssumption DEF Places
    <3> QED BY <2>1, <3>1, Zenon
  <2>3. x.what = "args" => x.n < a
    BY DEF Item
  <2> QED BY <2>2, <2>3
<1>8. /\ x.what = "operand" => x.n = Prec(p, x.op)
      /\ x.what = "rhs" => x.n \in 0 .. 101
      /\ x.what = "evaluated" => g = 0 /\ b = x.n
      /\ x.what = "operator" => x.op \in {"unary", "binary"}
      /\ x.what = "precedence" => x.op \in Ascii
  BY DEF Item
<1> QED BY <1>2, <1>3, <1>4, <1>5, <1>6, <1>7, <1>8 DEF Item

LEMMA LinkKept ==
  ASSUME NEW o, NEW o2, NEW p, NEW z, NEW g, NEW b, NEW x, NEW h1 \in Nat, NEW c1,
         Link(z, g, b, x, h1, c1, o, p), x.what \in Halves => h1 >= 1,
         NEW h \in Nat, h1 <= h, \A i \in 1 .. h : o2[i] = o[i]
  PROVE  Link(z, g, b, x, h1, c1, o2, p)
<1>1. x.what \in Halves => o2[h1] = o[h1]
  OBVIOUS
<1> QED BY <1>1 DEF Link, Halves

LEMMA Kept ==
  ASSUME NEW o, Exprs(o), NEW o2, Exprs(o2), NEW a \in Nat, NEW a2 \in Nat, a <= a2,
         NEW p, NEW td, NEW h, NEW c, Formed(td, o, a, p, h, c), h <= Len(o2),
         \A i \in 1 .. h : o2[i] = o[i],
         \A i \in 1 .. Len(o2) : i > h => o2[i].first >= c
  PROVE  Formed(td, o2, a2, p, h, c)
<1>1. PICK g, b \in [Nat -> Nat] : Witnessed(td, o, a, p, g, b) /\ g[1] = h /\ b[1] = c
  BY DEF Formed
<1>2. /\ td \in Seq(Items) /\ td # << >> /\ h \in Nat /\ c \in Nat
      /\ Item(td[1], o, a, p, h, c)
  BY Innermost
<1>3. h <= Len(o)
  BY <1>2, Numbers DEF Item
<1> DEFINE n == Len(td)
<1>4. n \in Nat /\ n >= 1
  BY <1>2, Parts
<1>5. /\ \A k \in 1 .. n : Item(td[k], o, a, p, g[k], b[k])
      /\ \A k \in 1 .. n - 1 : Link(td[k], g[k], b[k], td[k + 1], g[k + 1], b[k + 1], o, p)
      /\ Falling(g, n) /\ Falling(b, n)
      /\ td[n].what \in Ends
  BY <1>1 DEF Witnessed
<1> HIDE DEF n
<1>6. ASSUME NEW k \in 1 .. n
      PROVE  g[k] \in Nat /\ b[k] \in Nat /\ g[k] <= h /\ b[k] <= c
  <2>1. 1 \in 1 .. n /\ 1 <= k /\ k \in Nat
    BY <1>4
  <2> QED BY <1>1, <1>5, <2>1 DEF Falling
<1>7. ASSUME NEW k \in 1 .. n
      PROVE  Item(td[k], o2, a2, p, g[k], b[k])
  <2>1. Item(td[k], o, a, p, g[k], b[k]) /\ g[k] <= h /\ b[k] <= c
    BY <1>5, <1>6
  <2> QED BY <1>2, <1>3, <2>1, ItemKept
<1>8. ASSUME NEW k \in 1 .. n - 1
      PROVE  Link(td[k], g[k], b[k], td[k + 1], g[k + 1], b[k + 1], o2, p)
  <2>1. k + 1 \in 1 .. n
    BY <1>4
  <2>2. Link(td[k], g[k], b[k], td[k + 1], g[k + 1], b[k + 1], o, p)
    BY <1>5
  <2>3. td[k + 1].what \in Halves => g[k + 1] >= 1
    BY <1>5, <2>1 DEF Item
  <2>4. g[k + 1] \in Nat /\ g[k + 1] <= h
    BY <1>6, <2>1
  <2> QED BY <1>2, <2>2, <2>3, <2>4, LinkKept
<1>9. Witnessed(td, o2, a2, p, g, b)
  BY <1>5, <1>7, <1>8 DEF Witnessed, n
<1> QED BY <1>1, <1>2, <1>9 DEF Formed

\* Another token.
LEMMA Later ==
  ASSUME NEW o, Exprs(o), NEW a \in Nat, NEW a2 \in Nat, a <= a2,
         NEW p, NEW td, NEW h, NEW c, Formed(td, o, a, p, h, c)
  PROVE  Formed(td, o, a2, p, h, c)
<1>1. Item(td[1], o, a, p, h, c) /\ h \in Nat
  BY Innermost
<1>2. h <= Len(o) /\ \A i \in 1 .. Len(o) : i > h => o[i].first >= c
  BY <1>1, Numbers DEF Item
<1> QED BY <1>2, Kept

\* Other precedences, where no operator waits for its right operand.
LEMMA Repriced ==
  ASSUME NEW a \in Nat, NEW p, NEW p2, NEW td, NEW h, NEW c, Formed(td, << >>, a, p, h, c)
  PROVE  Formed(td, << >>, a, p2, h, c)
<1>1. PICK g, b \in [Nat -> Nat] : Witnessed(td, << >>, a, p, g, b) /\ g[1] = h /\ b[1] = c
  BY DEF Formed
<1>2. ASSUME NEW x, NEW h1 \in Nat, NEW c1, Item(x, << >>, a, p, h1, c1)
      PROVE  x.what \notin Halves /\ Item(x, << >>, a, p2, h1, c1)
  <2>1. h1 = 0
    BY <1>2, EmptySeq DEF Item
  <2>2. x.what \in Halves => h1 >= 1
    BY <1>2, Zenon DEF Item
  <2>3. ~(0 >= 1)
    OBVIOUS
  <2>4. x.what \notin Halves
    BY <2>1, <2>2, <2>3, Zenon
  <2> QED BY <1>2, <2>4 DEF Item, Halves
<1>3. ASSUME NEW z, NEW g1, NEW b1, NEW x, NEW h1, NEW c1, Link(z, g1, b1, x, h1, c1, << >>, p),
             z.what \notin Halves, x.what \notin Halves
      PROVE  Link(z, g1, b1, x, h1, c1, << >>, p2)
  BY <1>3 DEF Link, Halves
<1>4. \A k \in 1 .. Len(td) - 1 : k \in 1 .. Len(td) /\ k + 1 \in 1 .. Len(td)
  <2>1. Len(td) \in Nat
    BY LenProperties DEF Formed
  <2> QED BY <2>1
<1>5. \A k \in 1 .. Len(td) : td[k].what \notin Halves /\ Item(td[k], << >>, a, p2, g[k], b[k])
  <2>1. \A k \in 1 .. Len(td) : g[k] \in Nat
    BY <1>1
  <2> QED BY <1>1, <1>2, <2>1 DEF Witnessed
<1>6. \A k \in 1 .. Len(td) - 1 : Link(td[k], g[k], b[k], td[k + 1], g[k + 1], b[k + 1], << >>, p2)
  BY <1>1, <1>3, <1>4, <1>5 DEF Witnessed
<1>7. Witnessed(td, << >>, a, p2, g, b)
  BY <1>1, <1>5, <1>6 DEF Witnessed
<1> QED BY <1>1, <1>7 DEF Formed

-------------------------------------------------------------------------------
(* Items that wait for nothing in particular.                               *)

\* Inside of these only certain items can be.
Special == {"unary", "prototype", "operator", "precedence", "rhs", "operand", "build", "post", "evaluated"}

\* Items that are not about expressions that are complete.
Quiet(x, a) == x \in Items /\ x.what \notin Special \cup {"close"} /\ (x.what = "args" => x.n < a)

LEMMA Prefix ==
  ASSUME NEW S, NEW x \in S, NEW s \in Seq(S)
  PROVE  /\ <<x>> \o s \in Seq(S) /\ Len(<<x>> \o s) = Len(s) + 1 /\ Len(s) \in Nat
         /\ (<<x>> \o s)[1] = x
         /\ \A k \in 1 .. Len(s) : (<<x>> \o s)[k + 1] = s[k]
<1> DEFINE u == <<x>>
<1>1. u \in Seq(S) /\ Len(u) = 1 /\ u[1] = x
  OBVIOUS
<1> HIDE DEF u
<1>2. /\ u \o s \in Seq(S) /\ Len(u \o s) = Len(u) + Len(s) /\ Len(s) \in Nat
      /\ \A k \in 1 .. Len(u) : (u \o s)[k] = u[k]
      /\ \A k \in 1 .. Len(s) : (u \o s)[Len(u) + k] = s[k]
  <2>1. u \in Seq(S)
    BY <1>1
  <2> QED BY <2>1, Joined
<1>3. 1 \in 1 .. 1 /\ \A k \in Nat : 1 + k = k + 1
  OBVIOUS
<1>4. (u \o s)[1] = x /\ Len(u \o s) = Len(s) + 1
  BY <1>1, <1>2, <1>3
<1>5. \A k \in 1 .. Len(s) : (u \o s)[k + 1] = s[k]
  <2>1. \A k \in 1 .. Len(s) : 1 + k = k + 1
    BY <1>2
  <2> QED BY <1>1, <1>2, <2>1
<1> QED BY <1>2, <1>4, <1>5 DEF u

\* Tuples in front of a sequence, taken apart.
LEMMA Pair ==
  ASSUME NEW S, NEW r \in Seq(S), NEW x \in S, NEW y \in S
  PROVE  <<x, y>> \o r = <<x>> \o (<<y>> \o r)
<1>1. <<x>> \o <<y>> = <<x, y>>
  <2> DEFINE v == <<y>>
             w == <<x, y>>
  <2>1. /\ v \in Seq(S) /\ w \in Seq(S) /\ Len(v) = 1 /\ Len(w) = 2
        /\ v[1] = y /\ w[1] = x /\ w[2] = y
    OBVIOUS
  <2> HIDE DEF v, w
  <2>2. /\ <<x>> \o v \in Seq(S) /\ Len(<<x>> \o v) = Len(v) + 1 /\ (<<x>> \o v)[1] = x
        /\ \A k \in 1 .. Len(v) : (<<x>> \o v)[k + 1] = v[k]
    <3>1. v \in Seq(S)
      BY <2>1
    <3> QED BY <3>1, Prefix
  <2>3. 1 \in 1 .. 1 /\ 1 + 1 = 2 /\ \A k \in 1 .. 2 : k = 1 \/ k = 2
    OBVIOUS
  <2>4. Len(<<x>> \o v) = 2 /\ (<<x>> \o v)[2] = y
    BY <2>1, <2>2, <2>3, Zenon
  <2>5. \A k \in 1 .. 2 : (<<x>> \o v)[k] = w[k]
    BY <2>1, <2>2, <2>3, <2>4, Zenon
  <2>6. <<x>> \o v = w
    BY <2>1, <2>2, <2>4, <2>5, SeqEqual
  <2> QED BY <2>6 DEF v, w
<1>2. <<x>> \in Seq(S) /\ <<y>> \in Seq(S)
  OBVIOUS
<1>3. \A s, u \in Seq(S) : (s \o u) \o r = s \o (u \o r)
  BY ConcatAssociative
<1> QED BY <1>1, <1>2, <1>3

LEMMA Triple ==
  ASSUME NEW S, NEW r \in Seq(S), NEW x \in S, NEW y \in S, NEW z \in S
  PROVE  <<x, y, z>> \o r = <<x>> \o (<<y, z>> \o r)
<1>1. <<x>> \o <<y, z>> = <<x, y, z>>
  <2> DEFINE v == <<y, z>>
             w == <<x, y, z>>
  <2>1. /\ v \in Seq(S) /\ w \in Seq(S) /\ Len(v) = 2 /\ Len(w) = 3
        /\ v[1] = y /\ v[2] = z /\ w[1] = x /\ w[2] = y /\ w[3] = z
    OBVIOUS
  <2> HIDE DEF v, w
  <2>2. /\ <<x>> \o v \in Seq(S) /\ Len(<<x>> \o v) = Len(v) + 1 /\ (<<x>> \o v)[1] = x
        /\ \A k \in 1 .. Len(v) : (<<x>> \o v)[k + 1] = v[k]
    <3>1. v \in Seq(S)
      BY <2>1
    <3> QED BY <3>1, Prefix
  <2>3. /\ 1 \in 1 .. 2 /\ 2 \in 1 .. 2 /\ 1 + 1 = 2 /\ 2 + 1 = 3
        /\ \A k \in 1 .. 3 : k = 1 \/ k = 2 \/ k = 3
    OBVIOUS
  <2>4. Len(<<x>> \o v) = 3 /\ (<<x>> \o v)[2] = y /\ (<<x>> \o v)[3] = z
    BY <2>1, <2>2, <2>3
  <2>5. \A k \in 1 .. 3 : (<<x>> \o v)[k] = w[k]
    BY <2>1, <2>2, <2>3, <2>4, Zenon
  <2>6. <<x>> \o v = w
    BY <2>1, <2>2, <2>4, <2>5, SeqEqual
  <2> QED BY <2>6 DEF v, w
<1>2. <<x>> \in Seq(S) /\ <<y, z>> \in Seq(S)
  OBVIOUS
<1>3. \A s, u \in Seq(S) : (s \o u) \o r = s \o (u \o r)
  BY ConcatAssociative
<1> QED BY <1>1, <1>2, <1>3

\* The same of items.
LEMMA Triples ==
  \A r \in Seq(Items), x, y, z \in Items : <<x, y, z>> \o r = <<x>> \o (<<y, z>> \o r)
<1> TAKE r \in Seq(Items), x, y, z \in Items
<1> QED BY Triple, SMTT(60)

LEMMA Quadruple ==
  ASSUME NEW S, NEW r \in Seq(S), NEW x \in S, NEW y \in S, NEW z \in S, NEW w \in S
  PROVE  <<x, y, z, w>> \o r = <<x, y>> \o (<<z, w>> \o r)
<1>1. <<x, y>> \o <<z, w>> = <<x, y, z, w>>
  <2> DEFINE s == <<x, y>>
             v == <<z, w>>
             u == <<x, y, z, w>>
  <2>1. /\ s \in Seq(S) /\ v \in Seq(S) /\ u \in Seq(S) /\ Len(s) = 2 /\ Len(v) = 2 /\ Len(u) = 4
        /\ s[1] = x /\ s[2] = y /\ v[1] = z /\ v[2] = w /\ u[1] = x /\ u[2] = y /\ u[3] = z /\ u[4] = w
    OBVIOUS
  <2> HIDE DEF s, v, u
  <2>2. /\ s \o v \in Seq(S) /\ Len(s \o v) = Len(s) + Len(v)
        /\ \A k \in 1 .. Len(s) : (s \o v)[k] = s[k]
        /\ \A k \in 1 .. Len(v) : (s \o v)[Len(s) + k] = v[k]
    <3>1. s \in Seq(S) /\ v \in Seq(S)
      BY <2>1
    <3> QED BY <3>1, Joined
  <2>3. /\ 1 \in 1 .. 2 /\ 2 \in 1 .. 2 /\ 2 + 1 = 3 /\ 2 + 2 = 4
        /\ \A k \in 1 .. 4 : k = 1 \/ k = 2 \/ k = 3 \/ k = 4
    OBVIOUS
  <2>4. /\ Len(s \o v) = 4
        /\ (s \o v)[1] = x /\ (s \o v)[2] = y /\ (s \o v)[3] = z /\ (s \o v)[4] = w
    BY <2>1, <2>2, <2>3
  <2>5. \A k \in 1 .. 4 : (s \o v)[k] = u[k]
    BY <2>1, <2>3, <2>4, Zenon
  <2>6. s \o v = u
    BY <2>1, <2>2, <2>4, <2>5, SeqEqual
  <2> QED BY <2>6 DEF s, v, u
<1>2. <<x, y>> \in Seq(S) /\ <<z, w>> \in Seq(S)
  OBVIOUS
<1>3. \A s, u \in Seq(S) : (s \o u) \o r = s \o (u \o r)
  BY ConcatAssociative
<1> QED BY <1>1, <1>2, <1>3

LEMMA Rejoined ==
  ASSUME NEW S, NEW r \in Seq(S), r # << >>
  PROVE  <<r[1]>> \o Tail(r) = r
<1>1. /\ r[1] \in S /\ Tail(r) \in Seq(S) /\ Len(r) \in Nat /\ Len(Tail(r)) = Len(r) - 1
      /\ \A k \in 1 .. Len(r) - 1 : Tail(r)[k] = r[k + 1]
  BY Parts
<1> DEFINE u == <<r[1]>> \o Tail(r)
<1>2. /\ u \in Seq(S) /\ Len(u) = Len(Tail(r)) + 1 /\ u[1] = r[1]
      /\ \A k \in 1 .. Len(Tail(r)) : u[k + 1] = Tail(r)[k]
  BY <1>1, Prefix
<1> HIDE DEF u
<1>3. Len(u) = Len(r)
  BY <1>1, <1>2
<1>4. ASSUME NEW k \in 1 .. Len(r)
      PROVE  u[k] = r[k]
  <2>1. CASE k = 1
    BY <1>2, <2>1
  <2>2. CASE k # 1
    <3>1. k - 1 \in 1 .. Len(r) - 1 /\ (k - 1) + 1 = k
      BY <1>1, <2>2
    <3> QED BY <1>1, <1>2, <3>1
  <2> QED BY <2>1, <2>2
<1> QED BY <1>2, <1>3, <1>4, SeqEqual DEF u

\* What such an item is inside of, and what can be inside of that.
LEMMA Outer ==
  ASSUME NEW z, NEW g, NEW b, NEW x, NEW h, NEW c, NEW o, NEW p, Link(z, g, b, x, h, c, o, p),
         z.what \notin Operands \cup Halves \cup {"rhs"}
  PROVE  x.what \notin Special /\ h <= g /\ c <= b
BY DEF Link, Special, Operands, Halves

LEMMA Inner ==
  ASSUME NEW z, NEW g, NEW b, NEW x, NEW h, NEW c, NEW o, NEW p, h <= g, c <= b,
         x.what \notin Special, z.what \notin Halves, z.what = "precedence" => x = Expect("(")
  PROVE  Link(z, g, b, x, h, c, o, p)
BY DEF Link, Special, Halves

\* The item that comes next starts afresh.
LEMMA Settled ==
  ASSUME NEW o, Exprs(o), NEW t, NEW a \in Nat, a >= 1, NEW p, NEW td, NEW h, NEW c,
         Formed(td, o, a, p, h, c), td[1].what \notin Special
  PROVE  Stacked(td, o, t, a, p)
<1>1. /\ td \in Seq(Items) /\ td # << >> /\ h \in Nat /\ c \in Nat /\ td[1] \in Items
      /\ Item(td[1], o, a, p, h, c)
  BY Innermost
<1>2. CASE td[1].what # "expr"
  <2>1. Top(td[1], o, t, a, p, h, c)
    BY <1>2 DEF Top, Special, Halves
  <2> QED BY <1>1, <2>1 DEF Stacked
<1>3. CASE td[1].what = "expr"
  <2> DEFINE x == td[1]
             r == Tail(td)
             n == Len(o)
  <2>1. PICK h1, c1 \in Nat : Formed(r, o, a, p, h1, c1) /\ Link(x, h, c, r[1], h1, c1, o, p)
    BY <1>3, Popped DEF Ends
  <2>2. r[1].what \notin Special /\ h1 <= h /\ c1 <= c
    BY <1>3, <2>1, Outer DEF Operands, Halves
  <2>3. n \in Nat /\ h \in 0 .. n /\ c \in 1 .. a
    BY <1>1, Numbers DEF Item
  <2>4. Link(x, n, a, r[1], h1, c1, o, p)
    <3>1. h1 <= n /\ c1 <= a
      BY <2>2, <2>3
    <3> QED BY <1>3, <2>2, <3>1, Inner DEF Halves
  <2>5. Item(x, o, a, p, n, a)
    <3>1. n \in 0 .. n /\ a \in 1 .. a /\ \A i \in 1 .. n : ~(i > n)
      BY <2>3
    <3> QED BY <1>1, <1>3, <3>1 DEF Item, Halves
  <2>6. Formed(<<x>> \o r, o, a, p, n, a)
    BY <1>1, <2>1, <2>3, <2>4, <2>5, Pushed
  <2>7. <<x>> \o r = td
    BY <1>1, Rejoined
  <2>8. Top(x, o, t, a, p, n, a)
    BY <1>3 DEF Top, Halves
  <2> QED BY <2>3, <2>6, <2>7, <2>8 DEF Stacked
<1> QED BY <1>2, <1>3

\* Such items go on the stack.
LEMMA Quietly ==
  ASSUME NEW o, Exprs(o), NEW t, NEW a \in Nat, a >= 1, NEW p, NEW rest, NEW h, NEW c,
         Formed(rest, o, a, p, h, c), rest[1].what \notin Special,
         NEW s \in Seq(Items), \A k \in 1 .. Len(s) : Quiet(s[k], a)
  PROVE  /\ Stacked(s \o rest, o, t, a, p)
         /\ s \o rest # << >>
         /\ s # << >> => (s \o rest)[1] = s[1]
<1>1. /\ rest \in Seq(Items) /\ rest # << >> /\ h \in Nat /\ c \in Nat
      /\ Item(rest[1], o, a, p, h, c)
  BY Innermost
<1>2. CASE s = << >>
  <2>1. s \o rest = rest
    BY <1>1, <1>2, ConcatEmptySeq
  <2> QED BY <1>1, <1>2, <2>1, Settled
<1>3. CASE s # << >>
  <2>1. Len(s) \in Nat /\ Len(s) >= 1
    BY <1>3, Parts
  <2>2. \A k \in 1 .. Len(s) - 1 : k \in 1 .. Len(s) /\ k + 1 \in 1 .. Len(s)
    BY <2>1
  <2>3. 1 \in 1 .. Len(s) /\ Len(s) \in 1 .. Len(s)
    BY <2>1
  <2>4. ASSUME NEW x, Quiet(x, a)
        PROVE  Item(x, o, a, p, h, c)
    BY <1>1, <2>4 DEF Item, Quiet, Special, Halves
  <2>5. ASSUME NEW z, Quiet(z, a), NEW x, x.what \notin Special
        PROVE  Link(z, h, c, x, h, c, o, p)
    <3>1. z.what \notin Halves /\ z.what # "precedence"
      BY <2>5 DEF Quiet, Special, Halves
    <3> QED BY <1>1, <2>5, <3>1, Inner
  <2>6. \A k \in 1 .. Len(s) : Item(s[k], o, a, p, h, c)
    BY <2>4
  <2>7. \A k \in 1 .. Len(s) : s[k].what \notin Special
    BY DEF Quiet
  <2>8. \A k \in 1 .. Len(s) - 1 : Link(s[k], h, c, s[k + 1], h, c, o, p)
    BY <2>2, <2>5, <2>7
  <2>9. Link(s[Len(s)], h, c, rest[1], h, c, o, p)
    BY <2>3, <2>5
  <2>10. Formed(s \o rest, o, a, p, h, c)
    BY <1>1, <1>3, <2>6, <2>8, <2>9, Grown
  <2>11. (s \o rest)[1] = s[1]
    BY <1>1, <2>3, Joined
  <2>12. s \o rest # << >>
    BY <2>10, Innermost
  <2> QED BY <2>3, <2>7, <2>10, <2>11, <2>12, Settled
<1> QED BY <1>2, <1>3

\* What such an item is inside of, when it is done.
LEMMA Under ==
  ASSUME NEW o, Exprs(o), NEW t, NEW a \in Nat, NEW p, NEW td,
         Stacked(td, o, t, a, p), td # << >>,
         td[1].what \notin Operands \cup Halves \cup Ends \cup {"rhs"},
         NEW a2 \in Nat, a <= a2
  PROVE  /\ \E h, c \in Nat : Formed(Tail(td), o, a2, p, h, c)
         /\ Tail(td)[1].what \notin Special
<1>1. PICK g, b \in Nat : Formed(td, o, a, p, g, b)
  BY DEF Stacked
<1>2. PICK h, c \in Nat : Formed(Tail(td), o, a, p, h, c) /\ Link(td[1], g, b, Tail(td)[1], h, c, o, p)
  BY <1>1, Popped
<1>3. Tail(td)[1].what \notin Special
  BY <1>2, Outer
<1>4. \A r : Formed(r, o, a, p, h, c) => Formed(r, o, a2, p, h, c)
  BY Later
<1>5. Formed(Tail(td), o, a2, p, h, c)
  BY <1>2, <1>4
<1> QED BY <1>3, <1>5

\* They take the place of such an item.
LEMMA Replaced ==
  ASSUME NEW o, Exprs(o), NEW t, NEW a \in Nat, NEW p, NEW td,
         Stacked(td, o, t, a, p), td # << >>,
         td[1].what \notin Operands \cup Halves \cup Ends \cup {"rhs"},
         NEW t2, NEW a2 \in Nat, a2 >= 1, a <= a2,
         NEW s \in Seq(Items), \A k \in 1 .. Len(s) : Quiet(s[k], a2)
  PROVE  /\ Stacked(s \o Tail(td), o, t2, a2, p)
         /\ s \o Tail(td) # << >>
         /\ s # << >> => (s \o Tail(td))[1] = s[1]
<1>1. Tail(td)[1].what \notin Special /\ \E h, c \in Nat : Formed(Tail(td), o, a2, p, h, c)
  BY Under
<1>2. PICK h, c \in Nat : Formed(Tail(td), o, a2, p, h, c)
  BY <1>1
<1>3. ASSUME NEW r, Formed(r, o, a2, p, h, c), r[1].what \notin Special
      PROVE  /\ Stacked(s \o r, o, t2, a2, p)
             /\ s \o r # << >>
             /\ s # << >> => (s \o r)[1] = s[1]
  BY <1>3, Quietly
<1> QED BY <1>1, <1>2, <1>3

\* What only a prototype brings, when no expression is complete.
LEMMA Heading ==
  ASSUME NEW t, NEW a \in Nat, a >= 1, NEW p, NEW rest, NEW h, NEW c,
         Formed(rest, << >>, a, p, h, c), rest[1].what \notin Special, NEW x \in Items,
         \/ x.what = "prototype"
         \/ x.what = "operator" /\ x.op \in {"unary", "binary"}
         \/ x.what = "precedence" /\ x.op \in Ascii /\ rest[1] = Expect("(")
  PROVE  Stacked(<<x>> \o rest, << >>, t, a, p) /\ (<<x>> \o rest)[1] = x
<1>1. h \in Nat /\ c \in Nat /\ Item(rest[1], << >>, a, p, h, c)
  BY Innermost
<1>2. Item(x, << >>, a, p, h, c)
  BY <1>1 DEF Item, Halves
<1>3. Link(x, h, c, rest[1], h, c, << >>, p)
  <2>1. x.what \notin Halves
    BY DEF Halves
  <2> QED BY <1>1, <2>1, Inner
<1>4. Formed(<<x>> \o rest, << >>, a, p, h, c) /\ (<<x>> \o rest)[1] = x
  BY <1>1, <1>2, <1>3, Pushed
<1>5. Top(x, << >>, t, a, p, h, c)
  BY DEF Top, Halves
<1> QED BY <1>1, <1>4, <1>5 DEF Stacked

\* The outermost item.
LEMMA Bottom ==
  ASSUME NEW a \in Nat, NEW p, NEW b \in 1 .. a, NEW x \in Items, x.what \in Ends,
         x.what = "evaluated" => x.n = b
  PROVE  Formed(<<x>>, << >>, a, p, 0, b) /\ <<x>>[1] = x
<1> DEFINE s == <<x>>
<1>1. s \in Seq(Items) /\ s # << >> /\ Len(s) = 1 /\ s[1] = x
  OBVIOUS
<1> HIDE DEF s
<1> DEFINE gs == [k \in Nat |-> 0]
           bs == [k \in Nat |-> b]
<1>2. gs \in [Nat -> Nat] /\ bs \in [Nat -> Nat] /\ \A k \in Nat : gs[k] = 0 /\ bs[k] = b
  OBVIOUS
<1> HIDE DEF gs, bs
<1>3. Item(x, << >>, a, p, 0, b)
  <2>1. Len(<< >>) = 0 /\ 1 .. 0 = {} /\ 0 \in 0 .. 0
    BY EmptySeq
  <2> QED BY <2>1 DEF Item, Halves, Ends
<1>4. (\A k \in 1 .. Len(s) : k = 1 /\ k \in Nat) /\ 1 .. Len(s) - 1 = {} /\ 1 \in Nat
  BY <1>1
<1>5. Falling(gs, Len(s)) /\ Falling(bs, Len(s))
  BY <1>2, <1>4 DEF Falling
<1>6. Witnessed(s, << >>, a, p, gs, bs)
  <2>1. \A k \in 1 .. Len(s) : Item(s[k], << >>, a, p, gs[k], bs[k])
    BY <1>1, <1>2, <1>3, <1>4
  <2>2. s[Len(s)].what \in Ends
    BY <1>1
  <2> QED BY <1>4, <1>5, <2>1, <2>2 DEF Witnessed
<1>7. gs[1] = 0 /\ bs[1] = b
  BY <1>2, <1>4
<1> QED BY <1>1, <1>2, <1>6, <1>7 DEF Formed, s

-------------------------------------------------------------------------------
(* Expressions.                                                            *)

\* A table of precedences.
Table(p) == DOMAIN p \subseteq Ascii /\ \A c \in DOMAIN p : p[c] \in 1 .. 100

LEMMA Precedences ==
  ASSUME NEW p, Table(p), NEW c
  PROVE  /\ Prec(p, c) \in Int /\ Prec(p, c) <= 100 /\ Firm(p, c) \in Int
         /\ Prec(p, c) >= 0 => c \in DOMAIN p
         /\ Prec(p, c) < 0 => Prec(p, c) = -1
         /\ c \in DOMAIN p => /\ Prec(p, c) \in 1 .. 100 /\ Firm(p, c) = Prec(p, c)
                              /\ c \in Ascii /\ c # ""
<1>1. "" \notin Ascii
  BY TokenAssumption DEF Ascii
<1>2. Firm(p, c) = Prec(p, c) \/ Firm(p, c) = 128
  BY DEF Firm
<1>3. CASE c \in DOMAIN p
  <2>1. c \in Ascii /\ Prec(p, c) \in 1 .. 100
    BY <1>3 DEF Table, Prec
  <2>2. c # ""
    BY <1>1, <2>1
  <2>3. Firm(p, c) = Prec(p, c)
    BY <2>2 DEF Firm
  <2>4. Prec(p, c) \in Int /\ Prec(p, c) <= 100 /\ ~(Prec(p, c) < 0)
    BY <2>1
  <2> QED BY <1>3, <2>1, <2>2, <2>3, <2>4, Zenon
<1>4. CASE c \notin DOMAIN p
  <2>1. Prec(p, c) = -1
    BY <1>4 DEF Prec
  <2>2. Prec(p, c) \in Int /\ Prec(p, c) <= 100 /\ ~(Prec(p, c) >= 0) /\ Firm(p, c) \in Int
    BY <1>2, <2>1
  <2> QED BY <1>4, <2>1, <2>2, Zenon
<1> QED BY <1>3, <1>4

LEMMA Arithmetic ==
  /\ \A i \in 0 .. 101 : 128 >= i
  /\ \A i \in Int : i <= 100 => 128 >= i
  /\ \A i \in Nat : i >= 1 => i \in 1 .. i
OBVIOUS

LEMMA Orders ==
  /\ \A i \in Nat : i <= i
  /\ \A i \in 0 .. 101 : i \in Int
  /\ \A i, j \in Nat : i <= j => i <= j + 1 /\ \A k \in 1 .. i : k \in 1 .. j
  /\ \A j \in Nat : \A i \in 1 .. j + 1 : i \in 1 .. j \/ i = j + 1
  /\ \A j \in Nat : \A i \in 0 .. j : \A k \in 1 .. i : k \in 1 .. j
OBVIOUS

\* Expression g + 1 is the last one, and goes from place b to the last token.
Complete(o, a, g, b) == Len(o) = g + 1 /\ o[g + 1].first = b /\ o[g + 1].last = a - 1

\* It is an operand; and the others have stayed.
Whole(o, a, g, b) == Complete(o, a, g, b) /\ o[g + 1].op = ""
Same(o, o2, g) == \A i \in 1 .. g : o2[i] = o[i]

\* An operand is complete.
LEMMA Operand_done ==
  ASSUME NEW o, NEW o2, Exprs(o2), NEW t, NEW a \in Nat, a >= 1, NEW p, Table(p),
         NEW r, NEW h, NEW c, Formed(r, o2, a, p, h, c),
         NEW z, z.what \in {"post", "close"}, NEW g \in Nat, NEW b \in Nat,
         Link(z, g, b, r[1], h, c, o, p),
         Whole(o2, a, g, b), Same(o, o2, g)
  PROVE  Stacked(r, o2, t, a, p)
<1> DEFINE x == r[1]
<1>0. Complete(o2, a, g, b) /\ o2[g + 1].op = "" /\ \A i \in 1 .. g : o2[i] = o[i]
  BY DEF Whole, Same
<1>1. h \in Nat /\ c \in Nat /\ Item(x, o2, a, p, h, c)
  BY Innermost
<1>2. z.what \notin {"unary", "rhs", "precedence"} \cup Halves /\ z.what \in Operands
  BY DEF Halves, Operands
<1>3. Firm(p, o2[g + 1].op) = 128 /\ Prec(p, t) \in Int /\ Prec(p, t) <= 100
  BY <1>0, Precedences DEF Firm
<1> HIDE DEF x
<1>4. CASE x.what = "rhs"
  <2>1. g = h /\ b = c
    BY <1>2, <1>4 DEF Link, x
  <2>2. x.n \in 0 .. 101
    BY <1>1, <1>4 DEF Item
  <2>3. 128 >= x.n /\ 128 >= Prec(p, t)
    <3>1. 128 >= x.n
      BY <2>2, Arithmetic, Zenon
    <3>2. Prec(p, t) \in Int /\ Prec(p, t) <= 100
      BY <1>3
    <3>3. 128 >= Prec(p, t)
      BY <3>2, Arithmetic, Zenon
    <3> QED BY <3>1, <3>3
  <2>4. Firm(p, o2[h + 1].op) >= x.n /\ Firm(p, o2[h + 1].op) >= Prec(p, t)
    BY <1>3, <2>1, <2>3
  <2>5. Top(x, o2, t, a, p, h, c)
    BY <1>0, <1>4, <2>1, <2>4 DEF Top, Halves, Complete
  <2> QED BY <1>1, <2>5 DEF Stacked, x
<1>5. CASE x.what = "operand"
  <2>1. g = h /\ b = o[h].last + 2
    BY <1>5 DEF Link, x
  <2>2. o2[h] = o[h]
    <3>1. h >= 1
      BY <1>1, <1>5 DEF Item, Halves
    <3>2. h \in 1 .. g
      BY <1>1, <2>1, <3>1, Arithmetic, Zenon
    <3> QED BY <1>0, <3>2
  <2>3. Top(x, o2, t, a, p, h, c)
    BY <1>0, <1>5, <2>1, <2>2 DEF Top, Halves, Complete
  <2> QED BY <1>1, <2>3 DEF Stacked, x
<1>6. CASE x.what = "post"
  <2>1. g = h /\ b = c
    BY <1>6 DEF Link, x
  <2>2. Top(x, o2, t, a, p, h, c)
    BY <1>0, <1>6, <2>1 DEF Top, Halves, Complete
  <2> QED BY <1>1, <2>2 DEF Stacked, x
<1>7. CASE x.what \notin {"rhs", "operand", "post"}
  <2>1. x.what \notin Special
    BY <1>2, <1>7 DEF Link, Special, x
  <2> QED BY <2>1, Settled DEF x
<1> QED BY <1>4, <1>5, <1>6, <1>7

\* No operator follows that belongs to the call.
LEMMA Rhs_done ==
  ASSUME NEW o, Exprs(o), NEW t, NEW a \in Nat, a >= 1, NEW p, Table(p),
         NEW r, NEW h, NEW c, Formed(r, o, a, p, h, c),
         NEW z, z.what = "rhs", NEW g \in Nat, NEW b \in Nat,
         Item(z, o, a, p, g, b), Link(z, g, b, r[1], h, c, o, p), Top(z, o, t, a, p, g, b),
         Prec(p, t) < z.n
  PROVE  Stacked(r, o, t, a, p)
<1> DEFINE x == r[1]
           f == Firm(p, o[g + 1].op)
<1>1. h \in Nat /\ c \in Nat /\ Item(x, o, a, p, h, c)
  BY Innermost
<1>2. Complete(o, a, g, b)
  BY DEF Top, Complete
<1>3. f >= z.n /\ z.n \in 0 .. 101
  BY DEF Top, Item
<1>4. f \in Int /\ Prec(p, t) \in Int /\ (Prec(p, t) < 0 => Prec(p, t) = -1)
  BY Precedences
<1> HIDE DEF x, f
<1>5. CASE x.what = "build"
  <2> DEFINE m == Prec(p, x.op)
  <2>1. g = h /\ b = o[h].last + 2 /\ z.n = m + 1
    BY <1>5 DEF Link, x
  <2>2. m \in Int
    BY Precedences
  <2> HIDE DEF m
  <2>3. f > m /\ Prec(p, t) <= m
    BY <1>3, <1>4, <2>1, <2>2
  <2>4. Top(x, o, t, a, p, h, c)
    BY <1>2, <1>5, <2>1, <2>3 DEF Top, Halves, Complete, m, f
  <2> QED BY <1>1, <2>4 DEF Stacked, x
<1>6. CASE x.what = "evaluated"
  <2>1. g = h /\ b = c /\ z.n = 0 /\ h = 0 /\ c = x.n
    BY <1>1, <1>6 DEF Link, Item, x
  <2>2. Prec(p, t) = -1
    BY <1>4, <2>1
  <2>3. Len(o) = 1 /\ o[1].first = x.n /\ o[1].last = a - 1
    <3>1. g + 1 = 1 /\ b = x.n
      BY <2>1
    <3> QED BY <1>2, <3>1 DEF Complete
  <2>4. Top(x, o, t, a, p, h, c)
    BY <1>6, <2>2, <2>3 DEF Top, Halves
  <2> QED BY <1>1, <2>4 DEF Stacked, x
<1>7. CASE x.what \notin {"build", "evaluated"}
  <2>1. x.what \notin Special
    BY <1>7 DEF Link, Special, Operands, Halves, x
  <2> QED BY <2>1, Settled DEF x
<1> QED BY <1>5, <1>6, <1>7

\* The things to do, as items.
LEMMA Things ==
  /\ \A c \in Calls : Do(c) \in Items /\ Do(c).what = c /\ Do(c).op = "" /\ Do(c).n = 0
  /\ \A d \in About : /\ Binary(d) \in Items /\ Binary(d).what = "build" /\ Binary(d).op = d
  /\ \A d \in About, n \in 0 .. 101 :
       /\ Operand(d, n) \in Items /\ Operand(d, n).what = "operand"
       /\ Operand(d, n).op = d /\ Operand(d, n).n = n
  /\ \A n \in 0 .. 101 : Rhs(n) \in Items /\ Rhs(n).what = "rhs" /\ Rhs(n).n = n
  /\ \A n \in Places : Close(n) \in Items /\ Close(n).what = "close" /\ Close(n).n = n
<1>1. \A c \in Calls, d \in About, n \in 0 .. 101 \cup Places :
        /\ [what |-> c, op |-> d, n |-> n] \in Items
        /\ [what |-> c, op |-> d, n |-> n].what = c
        /\ [what |-> c, op |-> d, n |-> n].op = d
        /\ [what |-> c, op |-> d, n |-> n].n = n
  BY DEF Items
<1>2. /\ 0 \in 0 .. 101 \cup Places /\ "" \in About
      /\ "build" \in Calls /\ "operand" \in Calls /\ "rhs" \in Calls /\ "close" \in Calls
  BY DEF Calls, About
<1>3. \A c \in Calls : Do(c) \in Items /\ Do(c).what = c /\ Do(c).op = "" /\ Do(c).n = 0
  BY <1>1, <1>2 DEF Do
<1>4. \A d \in About : /\ Binary(d) \in Items /\ Binary(d).what = "build" /\ Binary(d).op = d
  BY <1>1, <1>2 DEF Binary
<1>7. \A d \in About, n \in 0 .. 101 :
        /\ Operand(d, n) \in Items /\ Operand(d, n).what = "operand"
        /\ Operand(d, n).op = d /\ Operand(d, n).n = n
  BY <1>1, <1>2 DEF Binary, Operand
<1>5. \A n \in 0 .. 101 : Rhs(n) \in Items /\ Rhs(n).what = "rhs" /\ Rhs(n).n = n
  BY <1>1, <1>2 DEF Rhs
<1>6. \A n \in Places : Close(n) \in Items /\ Close(n).what = "close" /\ Close(n).n = n
  BY <1>1, <1>2 DEF Close
<1> QED BY <1>3, <1>4, <1>5, <1>6, <1>7, Zenon

\* The last two expressions.
LEMMA Last_two ==
  ASSUME NEW o, Exprs(o), NEW a \in Nat, InOrder(o, a), NEW g \in Nat, Len(o) = g + 1
  PROVE  /\ g + 1 \in 1 .. Len(o) /\ o[g + 1] \in Trees
         /\ o[g + 1].first \in Places /\ o[g + 1].last \in Places
         /\ o[g + 1].first <= o[g + 1].last /\ o[g + 1].last < a
         /\ \A i \in 1 .. g : i \in 1 .. Len(o) /\ o[i] \in Trees /\ o[i].last < o[g + 1].first
         /\ g >= 1 => /\ g \in 1 .. Len(o) /\ o[g] \in Trees
                      /\ o[g].first \in Places /\ o[g].last \in Places
                      /\ o[g].first <= o[g].last /\ o[g].last < o[g + 1].first
<1>1. /\ g + 1 \in 1 .. Len(o)
      /\ \A i \in 1 .. g : i \in 1 .. Len(o) /\ i < g + 1
      /\ g >= 1 => g \in 1 .. g
  OBVIOUS
<1>2. \A i \in 1 .. Len(o) : /\ o[i] \in Trees /\ o[i].first \in Places /\ o[i].last \in Places
                             /\ o[i].first <= o[i].last /\ o[i].last < a
  BY Numbers DEF InOrder
<1>3. \A i \in 1 .. g : o[i].last < o[g + 1].first
  BY <1>1 DEF InOrder
<1> QED BY <1>1, <1>2, <1>3

\* An operator that belongs to the call is taken.
LEMMA Operator_taken ==
  ASSUME NEW o, Exprs(o), NEW t, NEW a \in Nat, a >= 1, NEW p, Table(p),
         NEW td, NEW g \in Nat, NEW b \in Nat, Formed(td, o, a, p, g, b), td[1].what = "rhs",
         Top(td[1], o, t, a, p, g, b), Prec(p, t) >= td[1].n, NEW t2
  PROVE  Stacked(<<Do("unary"), Operand(t, Prec(p, t)), td[1]>> \o Tail(td), o, t2, a + 1, p)
<1> DEFINE x == td[1]
           u == Do("unary")
           n == Prec(p, t)
           y == Operand(t, n)
           v == <<y>> \o td
           w == <<u>> \o v
<1>1. /\ td \in Seq(Items) /\ td # << >> /\ x \in Items /\ Item(x, o, a, p, g, b)
  BY Innermost
<1>2. Complete(o, a, g, b) /\ Firm(p, o[g + 1].op) >= Prec(p, t)
  BY DEF Top, Complete
<1>3. x.n \in 0 .. 101 /\ b \in 1 .. a
  BY <1>1 DEF Item
<1>4. t \in DOMAIN p /\ Prec(p, t) \in 0 .. 101 /\ t \in About
  <2>1. Prec(p, t) >= 0
    <3>1. Prec(p, t) \in Int
      BY Precedences
    <3> QED BY <1>3, <3>1
  <2>2. t \in DOMAIN p /\ Prec(p, t) \in 1 .. 100 /\ t \in Ascii
    BY <2>1, Precedences
  <2>3. \A i \in 1 .. 100 : i \in 0 .. 101
    OBVIOUS
  <2> QED BY <2>2, <2>3, TokenAssumption DEF Ascii, About
<1>5. u \in Items /\ u.what = "unary" /\ y \in Items /\ y.what = "operand" /\ y.op = t /\ y.n = n
  <2>1. u \in Items /\ u.what = "unary"
    <3>1. "unary" \in Calls
      BY DEF Calls
    <3> QED BY <3>1, Things, Zenon
  <2>2. y \in Items /\ y.what = "operand" /\ y.op = t /\ y.n = n
    <3>1. t \in About /\ n \in 0 .. 101
      BY <1>4
    <3> HIDE DEF n
    <3>2. \A k \in About, m \in 0 .. 101 :
            /\ Operand(k, m) \in Items /\ Operand(k, m).what = "operand"
            /\ Operand(k, m).op = k /\ Operand(k, m).n = m
      BY Things
    <3>3. ASSUME NEW d \in About, NEW m \in 0 .. 101
          PROVE  /\ Operand(d, m) \in Items /\ Operand(d, m).what = "operand"
                 /\ Operand(d, m).op = d /\ Operand(d, m).n = m
      BY <3>2, Zenon
    <3> QED BY <3>1, <3>3
  <2> QED BY <2>1, <2>2
<1> HIDE DEF x, u, y
<1>6. Formed(td, o, a + 1, p, g, b) /\ a + 1 \in Nat
  <2>1. a + 1 \in Nat /\ a <= a + 1
    OBVIOUS
  <2> QED BY <2>1, Later
<1>7. Item(y, o, a + 1, p, g + 1, b)
  <2>1. g + 1 \in 0 .. Len(o) /\ b \in 1 .. a + 1 /\ g + 1 >= 1 /\ \A i \in 1 .. Len(o) : ~(i > g + 1)
    BY <1>2, <1>3 DEF Complete
  <2> QED BY <1>2, <1>4, <1>5, <2>1 DEF Item, Halves, Complete
<1>8. Link(y, g + 1, b, td[1], g, b, o, p)
  <2>1. g <= g + 1 /\ b <= b /\ td[1].n <= Prec(p, y.op)
    BY <1>5
  <2> QED BY <1>5, <2>1 DEF Link, Halves, Operands
<1>9. Formed(v, o, a + 1, p, g + 1, b) /\ v[1] = y
  BY <1>5, <1>6, <1>7, <1>8, Pushed
<1> HIDE DEF v
<1>10. Item(u, o, a + 1, p, g + 1, a + 1)
  <2>1. g + 1 \in 0 .. Len(o) /\ a + 1 \in 1 .. a + 1 /\ \A i \in 1 .. Len(o) : ~(i > g + 1)
    BY <1>2 DEF Complete
  <2> QED BY <1>5, <2>1 DEF Item, Halves
<1>11. Link(u, g + 1, a + 1, v[1], g + 1, b, o, p)
  <2>1. b <= a + 1 /\ a + 1 = o[g + 1].last + 2
    BY <1>2, <1>3 DEF Complete
  <2> QED BY <1>5, <1>9, <2>1 DEF Link, Halves, Operands
<1>12. g + 1 \in Nat /\ a + 1 \in Nat
  OBVIOUS
<1>13. Formed(w, o, a + 1, p, g + 1, a + 1) /\ w[1] = u
  BY <1>5, <1>9, <1>10, <1>11, <1>12, Pushed
<1>14. Top(u, o, t2, a + 1, p, g + 1, a + 1)
  BY <1>2, <1>5 DEF Top, Halves, Complete
<1>15. <<u, y, x>> \o Tail(td) = w
  <2>1. Tail(td) \in Seq(Items)
    BY <1>1, Parts
  <2>5. u \in Items /\ y \in Items /\ x \in Items
    BY <1>1, <1>5
  <2>2. <<u, y, x>> \o Tail(td) = <<u>> \o (<<y, x>> \o Tail(td))
    BY <2>1, <2>5, Triples, ZenonT(60)
  <2>3. <<y, x>> \o Tail(td) = <<y>> \o (<<x>> \o Tail(td))
    BY <2>1, <2>5, Pair
  <2>4. <<x>> \o Tail(td) = td
    BY <1>1, Rejoined DEF x
  <2> QED BY <2>2, <2>3, <2>4 DEF v
<1> HIDE DEF w
<1>16. Stacked(<<u, y, x>> \o Tail(td), o, t2, a + 1, p)
  BY <1>12, <1>13, <1>14, <1>15 DEF Stacked
<1> QED BY <1>16 DEF u, y, x

\* After the right operand either the call for what binds tighter comes first, or the
\* expression is built.
LEMMA Operand_left ==
  ASSUME NEW o, Exprs(o), NEW t, NEW a \in Nat, a >= 1, NEW p, Table(p), InOrder(o, a),
         NEW td, NEW g \in Nat, NEW b \in Nat, Formed(td, o, a, p, g, b), td[1].what = "operand",
         Top(td[1], o, t, a, p, g, b)
  PROVE  /\ td[1].n < Prec(p, t) =>
              Stacked(<<Rhs(td[1].n + 1), Binary(td[1].op)>> \o Tail(td), o, t, a, p)
         /\ ~(td[1].n < Prec(p, t)) => Stacked(<<Binary(td[1].op)>> \o Tail(td), o, t, a, p)
<1> DEFINE x == td[1]
           r == Tail(td)
           y == Binary(x.op)
           v == <<y>> \o r
           m == Prec(p, x.op)
           q == Prec(p, t)
           e == o[g + 1]
           d == o[g]
<1>1. /\ td \in Seq(Items) /\ td # << >> /\ x \in Items /\ Item(x, o, a, p, g, b)
  BY Innermost
<1>2. PICK h, c \in Nat : Formed(r, o, a, p, h, c) /\ Link(x, g, b, r[1], h, c, o, p)
  BY Popped DEF Ends
<1>3. Len(o) = g + 1 /\ e.last = a - 1 /\ e.op = "" /\ e.first = d.last + 2
  BY DEF Top, Halves
<1>4. g >= 1 /\ b = d.first /\ x.op \in DOMAIN p /\ Firm(p, d.op) >= m /\ x.n = m
  BY <1>1 DEF Item, Halves
<1>5. /\ m \in 1 .. 100 /\ q \in Int /\ q <= 100 /\ x.op \in About
      /\ Firm(p, e.op) = 128
  <2>1. x.op \in About
    BY <1>1 DEF Items
  <2> QED BY <1>3, <1>4, <2>1, Precedences DEF Firm
<1>6. /\ e.first \in Places /\ e.last \in Places /\ e.first <= e.last /\ e.last < a
      /\ d.first \in Places /\ d.first < e.first
  <2>1. /\ e.first \in Places /\ e.last \in Places /\ e.first <= e.last /\ e.last < a
        /\ d.first \in Places /\ d.last \in Places /\ d.first <= d.last /\ d.last < e.first
    BY <1>3, <1>4, Last_two
  <2>2. \A i \in Places : i \in Nat
    BY Numbers
  <2> HIDE DEF d, e
  <2>3. \A i, j, k, l \in Nat : i <= j /\ j < k => i < k
    OBVIOUS
  <2> QED BY <2>1, <2>2, <2>3
<1>7. y \in Items /\ y.what = "build" /\ y.op = x.op
  BY <1>5, Things
<1> HIDE DEF x, r, y
<1>8. Item(y, o, a, p, g, b)
  BY <1>1, <1>4, <1>7 DEF Item, Halves
<1>9. Link(y, g, b, r[1], h, c, o, p)
  BY <1>1, <1>2, <1>7 DEF Link, Halves, Operands, x
<1>10. Formed(v, o, a, p, g, b) /\ v[1] = y
  BY <1>2, <1>7, <1>8, <1>9, Pushed
<1> HIDE DEF v, m, q, e, d
<1>11. ASSUME ~(x.n < q)
       PROVE  Stacked(v, o, t, a, p)
  <2>1. Firm(p, e.op) > m /\ q <= m
    BY <1>4, <1>5, <1>11
  <2>2. Top(y, o, t, a, p, g, b)
    BY <1>3, <1>7, <2>1 DEF Top, Halves, m, q, e, d
  <2> QED BY <1>10, <2>2 DEF Stacked
<1>12. ASSUME x.n < q
       PROVE  Stacked(<<Rhs(x.n + 1), y>> \o r, o, t, a, p)
  <2> DEFINE z == Rhs(x.n + 1)
             c2 == e.first
             w == <<z>> \o v
  <2>1. m + 1 \in 0 .. 101
    BY <1>5
  <2>2. z \in Items /\ z.what = "rhs" /\ z.n = m + 1 /\ x.n + 1 = m + 1
    BY <1>4, <2>1, Things
  <2> HIDE DEF z, w
  <2>3. c2 \in Nat /\ c2 \in 1 .. a /\ b <= c2 /\ c2 = d.last + 2 /\ \A i \in 1 .. Len(o) : i > g => i = g + 1
    <3>1. \A i \in Places : i \in Nat /\ i >= 1
      BY Numbers
    <3>2. \A i, j, k \in Nat : i >= 1 /\ i <= j /\ j < k => i \in 1 .. k
      OBVIOUS
    <3>3. \A i, j \in Nat : i < j => i <= j
      OBVIOUS
    <3>4. b = d.first /\ e.first \in Places /\ d.first \in Places /\ e.last \in Places /\ d.first < e.first
          /\ e.first <= e.last /\ e.last < a
      BY <1>4, <1>6
    <3>5. c2 \in Nat /\ c2 \in 1 .. a /\ b <= c2
      BY <3>1, <3>2, <3>3, <3>4
    <3>6. Len(o) = g + 1 /\ c2 = d.last + 2
      BY <1>3
    <3>7. \A i \in 1 .. g + 1 : i > g => i = g + 1
      OBVIOUS
    <3> QED BY <3>5, <3>6, <3>7
  <2>4. Item(z, o, a, p, g, c2)
    <3>1. g \in 0 .. Len(o)
      <4>1. g \in 0 .. g + 1
        OBVIOUS
      <4> QED BY <1>3, <4>1, Zenon
    <3>2. \A i \in 1 .. Len(o) : i > g => o[i].first >= c2
      <4>1. c2 >= c2
        BY <2>3
      <4> HIDE DEF c2
      <4>2. o[g + 1].first = c2
        BY DEF c2, e
      <4> QED BY <2>3, <4>1, <4>2, Zenon
    <3>3. z.what # "close" /\ z.what # "evaluated" /\ z.what \notin Halves /\ z.what # "operand"
          /\ z.what # "operator" /\ z.what # "precedence" /\ z.what # "args" /\ z.n \in 0 .. 101
      BY <2>1, <2>2 DEF Halves
    <3> HIDE DEF c2
    <3> QED BY <2>2, <2>3, <3>1, <3>2, <3>3, Zenon DEF Item
  <2>5. Link(z, g, c2, v[1], g, b, o, p)
    BY <1>7, <1>10, <2>2, <2>3 DEF Link, Halves, d, m
  <2>6. Formed(w, o, a, p, g, c2) /\ w[1] = z
    BY <1>10, <2>2, <2>3, <2>4, <2>5, Pushed DEF w
  <2>7. Firm(p, e.op) >= m + 1 /\ Firm(p, e.op) >= q
    BY <1>5
  <2>8. Top(z, o, t, a, p, g, c2)
    BY <1>3, <2>2, <2>7 DEF Top, Halves, q, e
  <2>9. w = <<z, y>> \o r
    BY <1>1, <1>7, <2>2, Pair, Parts DEF v, w, r
  <2> QED BY <2>3, <2>6, <2>8, <2>9 DEF Stacked, z
<1> QED BY <1>11, <1>12 DEF x, y, v, r, q

\* The operator with its two operands is one expression.
LEMMA Build_done ==
  ASSUME NEW o, Exprs(o), NEW o2, Exprs(o2), NEW t, NEW a \in Nat, a >= 1, NEW p, Table(p),
         NEW td, NEW g \in Nat, NEW b \in Nat, Formed(td, o, a, p, g, b), td[1].what = "build",
         Top(td[1], o, t, a, p, g, b),
         Len(o2) = g, \A i \in 1 .. g - 1 : o2[i] = o[i],
         o2[g].op = td[1].op, o2[g].first = o[g].first, o2[g].last = o[g + 1].last
  PROVE  Stacked(Tail(td), o2, t, a, p)
<1> DEFINE x == td[1]
           r == Tail(td)
           m == Prec(p, x.op)
           q == Prec(p, t)
<1>1. Item(x, o, a, p, g, b)
  BY Innermost
<1>2. PICK h, c \in Nat : Formed(r, o, a, p, h, c) /\ Link(x, g, b, r[1], h, c, o, p)
  BY Popped DEF Ends
<1>3. b = o[g].first /\ x.op \in DOMAIN p
  BY <1>1 DEF Item, Halves
<1>4. o[g + 1].last = a - 1 /\ q <= m
  BY DEF Top
<1>5. r[1].what = "rhs" /\ g = h + 1 /\ b = c /\ r[1].n <= m
  BY <1>2 DEF Link, Halves, Operands
<1>6. Firm(p, x.op) = m /\ m \in Int /\ q \in Int
  BY <1>3, Precedences
<1> HIDE DEF x, r, m, q
<1>7. /\ h <= Len(o2) /\ Len(o2) = h + 1 /\ \A i \in 1 .. h : i \in 1 .. g - 1
      /\ \A i \in 1 .. Len(o2) : i > h => i = g
  <2>1. h <= h + 1 /\ (\A i \in 1 .. h : i \in 1 .. (h + 1) - 1) /\ \A i \in 1 .. h + 1 : i > h => i = h + 1
    OBVIOUS
  <2> QED BY <1>5, <2>1
<1>8. o2[g].first = c /\ c >= c
  BY <1>3, <1>5
<1>9. Formed(r, o2, a, p, h, c)
  <2>1. \A i \in 1 .. h : o2[i] = o[i]
    BY <1>7
  <2>2. \A i \in 1 .. Len(o2) : i > h => o2[i].first >= c
    BY <1>7, <1>8
  <2>3. a <= a
    OBVIOUS
  <2> QED BY <1>2, <1>7, <2>1, <2>2, <2>3, Kept
<1>10. Firm(p, o2[g].op) = m /\ m >= q /\ m >= r[1].n
  <2>1. r[1].n \in Int
    <3>1. Item(r[1], o2, a, p, h, c)
      BY <1>9, Innermost
    <3>2. r[1].n \in 0 .. 101
      BY <1>5, <3>1 DEF Item
    <3> QED BY <3>2, Orders, Zenon
  <2> QED BY <1>4, <1>5, <1>6, <2>1 DEF x
<1>11. Top(r[1], o2, t, a, p, h, c)
  BY <1>4, <1>5, <1>7, <1>8, <1>10 DEF Top, Halves, q
<1> QED BY <1>9, <1>11 DEF Stacked, r

\* What was read since the place that the item names is one expression.
LEMMA Close_done ==
  ASSUME NEW o, Exprs(o), NEW o2, Exprs(o2), NEW t, NEW a \in Nat, a >= 1, NEW p, Table(p),
         NEW td, NEW g \in Nat, NEW b \in Nat, Formed(td, o, a, p, g, b), td[1].what = "close",
         Whole(o2, a, g, td[1].n), Same(o, o2, g)
  PROVE  Stacked(Tail(td), o2, t, a, p)
<1> DEFINE x == td[1]
           r == Tail(td)
<1>1. Item(x, o, a, p, g, b) /\ b \in Nat
  BY Innermost
<1>2. PICK h, c \in Nat : Formed(r, o, a, p, h, c) /\ Link(x, g, b, r[1], h, c, o, p)
  BY Popped DEF Ends
<1>3. b = x.n /\ g \in 0 .. Len(o)
  BY <1>1 DEF Item
<1>4. h <= g /\ c <= b
  BY <1>2 DEF Link
<1>5. \A i \in 1 .. Len(o) : i > h => o[i].first >= c
  <2>1. Item(r[1], o, a, p, h, c)
    BY <1>2, Innermost
  <2> QED BY <2>1 DEF Item
<1> HIDE DEF x, r
<1>0. \A i \in 1 .. g : o2[i] = o[i]
  BY DEF Same
<1>6. Len(o2) = g + 1 /\ o2[g + 1].first = b
  BY <1>3 DEF Whole, Complete, x
<1>7. /\ h <= Len(o2) /\ \A i \in 1 .. h : i \in 1 .. g
      /\ \A i \in 1 .. Len(o2) : i \in 1 .. g \/ i = g + 1
      /\ \A i \in 1 .. g : i \in 1 .. Len(o)
  <2>1. /\ h <= g + 1 /\ \A i \in 1 .. h : i \in 1 .. g
        /\ \A i \in 1 .. g + 1 : i \in 1 .. g \/ i = g + 1
    BY <1>4, Orders, Zenon
  <2>2. Len(o) \in Nat
    BY Numbers
  <2>3. \A i \in 1 .. g : i \in 1 .. Len(o)
    BY <1>3, <2>2, Orders, Zenon
  <2> QED BY <1>6, <2>1, <2>3
<1>8. Formed(r, o2, a, p, h, c)
  <2>1. \A i \in 1 .. h : o2[i] = o[i]
    BY <1>0, <1>7
  <2>2. \A i \in 1 .. Len(o2) : i > h => o2[i].first >= c
    BY <1>0, <1>4, <1>5, <1>6, <1>7
  <2>3. a <= a
    BY Orders, Zenon
  <2> QED BY <1>2, <1>7, <2>1, <2>2, <2>3, Kept
<1>9. Whole(o2, a, g, b) /\ x.what \in {"post", "close"}
  BY <1>3 DEF x
<1>10. Stacked(r, o2, t, a, p)
  BY <1>1, <1>2, <1>8, <1>9, Operand_done
<1> QED BY <1>10 DEF r

\* Neither a field nor an index follows.
LEMMA Post_done ==
  ASSUME NEW o, Exprs(o), NEW t, NEW a \in Nat, a >= 1, NEW p, Table(p),
         NEW td, NEW g \in Nat, NEW b \in Nat, Formed(td, o, a, p, g, b), td[1].what = "post",
         Top(td[1], o, t, a, p, g, b)
  PROVE  Stacked(Tail(td), o, t, a, p)
<1> DEFINE x == td[1]
           r == Tail(td)
<1>1. PICK h, c \in Nat : Formed(r, o, a, p, h, c) /\ Link(x, g, b, r[1], h, c, o, p)
  BY Popped DEF Ends
<1>2. Whole(o, a, g, b) /\ Same(o, o, g) /\ x.what \in {"post", "close"}
  BY DEF Top, Complete, Whole, Same
<1> HIDE DEF x, r
<1>3. Stacked(r, o, t, a, p)
  BY <1>1, <1>2, Operand_done
<1> QED BY <1>3 DEF r

\* One operand inside of what another one was inside of.
LEMMA Operand_for ==
  ASSUME NEW z, NEW y, NEW g, NEW b, NEW x, NEW h, NEW c, NEW o, NEW p, Link(z, g, b, x, h, c, o, p),
         z.what \in {"unary", "post"}, y.what \in Operands
  PROVE  Link(y, g, b, x, h, c, o, p)
BY DEF Link, Operands, Halves

\* A primary expression, or more of one: the items s, and then it is closed.
LEMMA Primary_begun ==
  ASSUME NEW o, Exprs(o), NEW t, NEW a \in Places, NEW p, InOrder(o, a),
         NEW td, NEW g \in Nat, NEW b \in Nat, Formed(td, o, a, p, g, b),
         td[1].what \in {"unary", "post"}, Top(td[1], o, t, a, p, g, b),
         NEW t2, NEW s \in Seq(Items), \A k \in 1 .. Len(s) : Quiet(s[k], a + 1)
  PROVE  Stacked(s \o (<<Close(b), Do("post")>> \o Tail(td)), o, t2, a + 1, p)
<1> DEFINE x == td[1]
           r == Tail(td)
           y == Close(b)
           z == Do("post")
           v == <<z>> \o r
           w == <<y>> \o v
<1>1. /\ td \in Seq(Items) /\ td # << >> /\ Item(x, o, a, p, g, b)
  BY Innermost
<1>2. PICK h, c \in Nat : Formed(r, o, a, p, h, c) /\ Link(x, g, b, r[1], h, c, o, p)
  BY Popped DEF Ends
<1>3. a \in Nat /\ a >= 1 /\ a + 1 \in Nat /\ a <= a + 1 /\ a + 1 >= 1
  <2>1. a \in Nat \ {0}
    BY Numbers
  <2> QED BY <2>1
<1>4. b \in Places /\ b \in 1 .. a + 1 /\ b < a + 1
  <2>1. b \in 1 .. a
    BY <1>1 DEF Item
  <2> QED BY <1>3, <2>1, Numbers DEF Places
<1>5. y \in Items /\ y.what = "close" /\ y.n = b /\ z \in Items /\ z.what = "post"
  <2>1. y \in Items /\ y.what = "close" /\ y.n = b
    BY <1>4, Things
  <2>2. "post" \in Calls
    BY DEF Calls
  <2>3. z \in Items /\ z.what = "post"
    BY <2>2, Things, Zenon
  <2> QED BY <2>1, <2>3
<1> HIDE DEF x, r, y, z
<1>6. \A i \in 1 .. g : o[i].last < b
  <2>1. CASE x.what = "unary"
    <3>1. g = Len(o) /\ b = a
      BY <2>1 DEF Top, x
    <3> QED BY <3>1 DEF InOrder
  <2>2. CASE x.what = "post"
    <3>1. Len(o) = g + 1 /\ b = o[g + 1].first
      BY <2>2 DEF Top, x
    <3> QED BY <1>3, <3>1, Last_two
  <2> QED BY <2>1, <2>2 DEF x
<1>7. Formed(r, o, a + 1, p, h, c)
  BY <1>2, <1>3, Later
<1>8. g \in 0 .. Len(o) /\ \A i \in 1 .. Len(o) : i > g => o[i].first >= b
  BY <1>1 DEF Item
<1>9. Item(z, o, a + 1, p, g, b)
  BY <1>4, <1>5, <1>8 DEF Item, Halves
<1>10. Link(z, g, b, r[1], h, c, o, p)
  <2>1. z.what \in Operands /\ x.what \in {"unary", "post"}
    BY <1>5 DEF Operands, x
  <2> QED BY <1>2, <2>1, Operand_for
<1>11. Formed(v, o, a + 1, p, g, b) /\ v[1] = z
  BY <1>5, <1>7, <1>9, <1>10, Pushed
<1> HIDE DEF v
<1>12. Item(y, o, a + 1, p, g, b)
  BY <1>4, <1>5, <1>6, <1>8 DEF Item, Halves
<1>13. Link(y, g, b, v[1], g, b, o, p)
  <2>1. g <= g /\ b <= b
    OBVIOUS
  <2> QED BY <1>5, <1>11, <2>1 DEF Link, Halves
<1>14. Formed(w, o, a + 1, p, g, b) /\ w[1] = y
  BY <1>5, <1>11, <1>12, <1>13, Pushed
<1>15. <<y, z>> \o r = w
  <2>1. r \in Seq(Items)
    BY <1>7, Innermost
  <2> QED BY <1>5, <2>1, Pair DEF v
<1> HIDE DEF w
<1>16. w[1].what \notin Special
  BY <1>5, <1>14 DEF Special
<1>17. Stacked(s \o w, o, t2, a + 1, p)
  BY <1>3, <1>14, <1>16, Quietly
<1> QED BY <1>15, <1>17 DEF r, y, z

\* A unary operator.
LEMMA Unary_begun ==
  ASSUME NEW o, Exprs(o), NEW t, NEW a \in Places, NEW p, InOrder(o, a),
         NEW td, NEW g \in Nat, NEW b \in Nat, Formed(td, o, a, p, g, b),
         td[1].what = "unary", Top(td[1], o, t, a, p, g, b), NEW t2
  PROVE  Stacked(<<Do("unary"), Close(a)>> \o Tail(td), o, t2, a + 1, p)
<1> DEFINE x == td[1]
           r == Tail(td)
           y == Close(a)
           u == Do("unary")
           v == <<y>> \o r
           w == <<u>> \o v
<1>1. Item(x, o, a, p, g, b)
  BY Innermost
<1>2. PICK h, c \in Nat : Formed(r, o, a, p, h, c) /\ Link(x, g, b, r[1], h, c, o, p)
  BY Popped DEF Ends
<1>3. a \in Nat /\ a >= 1 /\ a + 1 \in Nat /\ a <= a + 1 /\ a < a + 1 /\ a \in 1 .. a + 1 /\ a + 1 \in 1 .. a + 1
  <2>1. a \in Nat \ {0}
    BY Numbers
  <2> QED BY <2>1
<1>4. g = Len(o) /\ b = a
  BY DEF Top
<1>5. y \in Items /\ y.what = "close" /\ y.n = a /\ u \in Items /\ u.what = "unary"
  <2>1. y \in Items /\ y.what = "close" /\ y.n = a
    BY Things
  <2>2. "unary" \in Calls
    BY DEF Calls
  <2>3. u \in Items /\ u.what = "unary"
    BY <2>2, Things, Zenon
  <2> QED BY <2>1, <2>3
<1> HIDE DEF x, r, y, u
<1>6. \A i \in 1 .. g : o[i].last < a
  BY <1>4 DEF InOrder
<1>7. Formed(r, o, a + 1, p, h, c)
  BY <1>2, <1>3, Later
<1>8. g \in 0 .. Len(o) /\ \A i \in 1 .. Len(o) : ~(i > g)
  <2>1. \A n \in Nat : n \in 0 .. n /\ \A i \in 1 .. n : ~(i > n)
    OBVIOUS
  <2> QED BY <1>4, <2>1, Zenon
<1>9. Item(y, o, a + 1, p, g, a)
  BY <1>3, <1>5, <1>6, <1>8 DEF Item, Halves
<1>10. Link(y, g, a, r[1], h, c, o, p)
  <2>1. y.what \in Operands /\ x.what \in {"unary", "post"}
    BY <1>5 DEF Operands, x
  <2> QED BY <1>2, <1>4, <2>1, Operand_for
<1>11. Formed(v, o, a + 1, p, g, a) /\ v[1] = y
  BY <1>3, <1>5, <1>7, <1>9, <1>10, Pushed
<1> HIDE DEF v
<1>12. Item(u, o, a + 1, p, g, a + 1)
  BY <1>3, <1>5, <1>8 DEF Item, Halves
<1>13. Link(u, g, a + 1, v[1], g, a, o, p)
  <2>1. g <= g
    OBVIOUS
  <2> QED BY <1>3, <1>5, <1>11, <2>1 DEF Link, Halves
<1>14. Formed(w, o, a + 1, p, g, a + 1) /\ w[1] = u
  BY <1>3, <1>5, <1>11, <1>12, <1>13, Pushed
<1>15. <<u, y>> \o r = w
  <2>1. r \in Seq(Items)
    BY <1>7, Innermost
  <2> QED BY <1>5, <2>1, Pair DEF v
<1> HIDE DEF w
<1>16. Top(u, o, t2, a + 1, p, g, a + 1)
  BY <1>4, <1>5 DEF Top, Halves
<1>17. Stacked(w, o, t2, a + 1, p)
  BY <1>3, <1>14, <1>16 DEF Stacked
<1> QED BY <1>15, <1>17 DEF r, y, u

\* An expression.
LEMMA Expr_begun ==
  ASSUME NEW o, Exprs(o), NEW t, NEW a \in Nat, a >= 1, NEW p,
         NEW r, NEW h, NEW c, Formed(r, o, a, p, h, c),
         \/ r[1].what \notin Special
         \/ r[1].what = "evaluated" /\ h = Len(o) /\ c = a
  PROVE  Stacked(<<Do("unary"), Rhs(0)>> \o r, o, t, a, p)
<1> DEFINE g == Len(o)
           y == Rhs(0)
           u == Do("unary")
           v == <<y>> \o r
           w == <<u>> \o v
<1>1. r \in Seq(Items) /\ Item(r[1], o, a, p, h, c) /\ h \in Nat /\ c \in Nat
  BY Innermost
<1>2. y \in Items /\ y.what = "rhs" /\ y.n = 0 /\ 0 \in 0 .. 101 /\ u \in Items /\ u.what = "unary"
  <2>1. 0 \in 0 .. 101
    OBVIOUS
  <2>2. y \in Items /\ y.what = "rhs" /\ y.n = 0
    BY <2>1, Things
  <2>3. "unary" \in Calls
    BY DEF Calls
  <2>4. u \in Items /\ u.what = "unary"
    BY <2>3, Things, Zenon
  <2> QED BY <2>1, <2>2, <2>4
<1> HIDE DEF g, y, u
<1>3. /\ g \in Nat /\ g \in 0 .. Len(o) /\ (\A i \in 1 .. Len(o) : ~(i > g)) /\ a \in 1 .. a
      /\ g <= g /\ a <= a
  <2>1. Len(o) \in Nat
    BY Numbers
  <2>2. \A n \in Nat : n \in 0 .. n /\ n <= n /\ \A i \in 1 .. n : ~(i > n)
    OBVIOUS
  <2>3. a \in 1 .. a /\ a <= a
    OBVIOUS
  <2> QED BY <2>1, <2>2, <2>3, Zenon DEF g
<1>4. Item(y, o, a, p, g, a) /\ Item(u, o, a, p, g, a)
  BY <1>2, <1>3 DEF Item, Halves
<1>5. h <= g /\ c <= a
  <2>1. h \in 0 .. Len(o) /\ c \in 1 .. a
    BY <1>1 DEF Item
  <2>2. \A n \in Nat : \A i \in 0 .. n : i <= n
    OBVIOUS
  <2>3. c <= a
    BY <2>1
  <2> QED BY <1>3, <2>1, <2>2, <2>3, Zenon DEF g
<1>6. Link(y, g, a, r[1], h, c, o, p)
  <2>1. CASE r[1].what \notin Special
    <3>1. y.what \notin Halves /\ y.what # "precedence"
      BY <1>2 DEF Halves
    <3> QED BY <1>5, <2>1, <3>1, Inner
  <2>2. CASE r[1].what = "evaluated" /\ h = g /\ c = a
    BY <1>2, <1>3, <2>2 DEF Link, Halves
  <2> QED BY <2>1, <2>2 DEF g
<1>7. Formed(v, o, a, p, g, a) /\ v[1] = y
  BY <1>2, <1>3, <1>4, <1>6, Pushed
<1> HIDE DEF v
<1>8. Link(u, g, a, v[1], g, a, o, p)
  BY <1>2, <1>3, <1>7 DEF Link, Halves, Operands
<1>9. Formed(w, o, a, p, g, a) /\ w[1] = u
  BY <1>2, <1>3, <1>4, <1>7, <1>8, Pushed
<1>10. <<u, y>> \o r = w
  BY <1>1, <1>2, Pair DEF v
<1> HIDE DEF w
<1>11. Top(u, o, t, a, p, g, a)
  BY <1>2 DEF Top, Halves, g
<1>12. Stacked(w, o, t, a, p)
  BY <1>3, <1>9, <1>11 DEF Stacked
<1> QED BY <1>10, <1>12 DEF u, y

-------------------------------------------------------------------------------
(* The invariant.                                                          *)

\* The token t at place a of the line, which costs c up to there.
Reading(t, a, c) ==
  /\ t \in Token \cup {Eof} /\ a \in Places /\ c \in 0 .. MaxCost
  /\ a <= IF t = Eof THEN c + 1 ELSE c

\* Parser!TreesRight.
Right(o, p) ==
  \A k \in 1 .. Len(o) :
    o[k].op # "" => /\ Firm(p, o[k].left) >= Firm(p, o[k].op)
                    /\ Firm(p, o[k].right) > Firm(p, o[k].op)

\* An operator is about to get its precedence.
Pending(td) ==
  td # << >> /\ (td[1].what = "precedence" \/ (td[1].what = "operator" /\ td[1].op = "binary"))

\* There are never more of them than d can count.
Counted(td, t, d) ==
  /\ t = "binary" /\ d = MaxDefinitions => td # << >> /\ td[1] = Expect("(")
  /\ Pending(td) => d # MaxDefinitions

ParserInv ==
  /\ phase \in {"prompt", "parsing", "panic"} /\ errors \in BOOLEAN
  /\ definitions \in 0 .. MaxDefinitions
  /\ Reading(tok, at, cost)
  /\ Table(binop_precedence)
  /\ Exprs(out) /\ InOrder(out, at) /\ Right(out, binop_precedence)
  /\ todo \in Seq(Items)
  /\ todo = << >> => out = << >>
  /\ phase = "prompt" => todo = << >>
  /\ Counted(todo, tok, definitions)
  /\ Stacked(todo, out, tok, at, binop_precedence)

\* One more token, or the same one still.
Moved ==
  /\ Reading(tok', at', cost') /\ at <= at'
  /\ tok # Eof /\ at' # at => at' = at + 1
  /\ tok' = "binary" => definitions # MaxDefinitions

LEMMA Read_on ==
  ASSUME Reading(tok, at, cost), definitions \in 0 .. MaxDefinitions,
         NEW S, S \in SUBSET Line \/ S = (Line \ Ascii) \cup Definable,
         NEW extra \in {0, Odd}, consume(S, extra)
  PROVE  Moved /\ (tok # Eof => at' = at + 1)
<1>1. /\ Eof \notin Token /\ Eof # "binary" /\ "binary" \notin Ascii
      /\ Line \subseteq Token /\ Ascii \subseteq Token /\ Definable \subseteq Ascii
      /\ "binary" \in Line => definitions # MaxDefinitions
  BY TokenAssumption, BoundsAssumption DEF Eof, Ascii, Keyword, Line
<1>2. S \subseteq Token /\ ("binary" \in S => definitions # MaxDefinitions)
  BY <1>1
<1>3. /\ at \in Nat /\ at >= 1 /\ at <= MaxCost + 1 /\ cost \in 0 .. MaxCost
      /\ at <= IF tok = Eof THEN cost + 1 ELSE cost
      /\ MaxCost \in Nat /\ Odd \in Nat
      /\ \A i : i \in Places <=> i \in 1 .. MaxCost + 1
  BY BoundsAssumption DEF Reading, Places
<1>4. CASE tok = Eof
  <2>1. tok' = tok /\ at' = at /\ cost' = cost
    BY <1>4 DEF consume
  <2> QED BY <1>1, <1>3, <1>4, <2>1 DEF Moved, Reading
<1>5. CASE tok # Eof
  <2> DEFINE spent == Spent(extra)
  <2>1. Look(S, spent) /\ at' = at + 1
    BY <1>5 DEF consume
  <2>2. spent \in 0 .. MaxCost /\ at <= spent
    <3>1. extra \in Nat
      BY <1>3
    <3> QED BY <1>3, <1>5, <3>1 DEF Spent
  <2> HIDE DEF spent
  <2>3. PICK t \in {Eof} \cup {u \in S : spent + Cost[u] <= MaxCost} :
          tok' = t /\ cost' = IF t = Eof THEN spent ELSE spent + Cost[t]
    BY <2>1 DEF Look
  <2>4. CASE t = Eof
    BY <1>1, <1>3, <2>1, <2>2, <2>3, <2>4 DEF Moved, Reading
  <2>5. CASE t # Eof
    <3>1. t \in S /\ t \in Token /\ spent + Cost[t] <= MaxCost /\ cost' = spent + Cost[t] /\ tok' = t
      BY <1>2, <2>3, <2>5
    <3>2. Cost[t] \in Nat \ {0}
      BY <3>1, BoundsAssumption
    <3>3. /\ cost' \in 0 .. MaxCost /\ at' <= cost' /\ at' \in 1 .. MaxCost + 1
          /\ at <= at'
      BY <1>3, <2>1, <2>2, <3>1, <3>2
    <3> QED BY <1>2, <1>3, <2>1, <2>5, <3>1, <3>3 DEF Moved, Reading
  <2> QED BY <2>4, <2>5
<1> QED BY <1>4, <1>5

LEMMA Taken ==
  ASSUME ParserInv, NEW s, Take(s)
  PROVE  /\ Moved /\ (tok # Eof => at' = at + 1) /\ todo' = s \o Tail(todo)
         /\ UNCHANGED <<phase, out, errors, binop_precedence, definitions>>
<1>1. Reading(tok, at, cost) /\ definitions \in 0 .. MaxDefinitions
  BY DEF ParserInv
<1>2. /\ \/ consume(Line, 0)
         \/ consume(Line, Odd)
         \/ consume((Line \ Ascii) \cup Definable, 0)
      /\ todo' = s \o Tail(todo)
      /\ UNCHANGED <<phase, out, errors, binop_precedence, definitions>>
  BY Zenon DEF Take, consume_token
<1>3. Line \in SUBSET Line /\ 0 \in {0, Odd} /\ Odd \in {0, Odd}
  OBVIOUS
<1>4. Moved /\ (tok # Eof => at' = at + 1)
  BY <1>1, <1>2, <1>3, Read_on
<1> QED BY <1>2, <1>4

LEMMA Stayed ==
  ASSUME ParserInv, NEW s, Leave(s), todo # << >>, todo[1].what # "token"
  PROVE  /\ Moved /\ tok' = tok /\ at' = at /\ todo' = s \o Tail(todo)
         /\ UNCHANGED <<phase, out, errors, binop_precedence, definitions>>
<1>1. /\ todo' = s \o Tail(todo) /\ tok' = tok /\ at' = at /\ cost' = cost
      /\ UNCHANGED <<phase, out, errors, binop_precedence, definitions>>
  BY DEF Leave
<1>2. Reading(tok, at, cost) /\ Counted(todo, tok, definitions)
  BY DEF ParserInv
<1>3. Expect("(").what = "token"
  BY DEF Expect
<1>4. tok = "binary" => definitions # MaxDefinitions
  BY <1>2, <1>3 DEF Counted
<1>5. at <= at
  BY <1>2, Numbers DEF Reading
<1>6. Reading(tok', at', cost')
  BY <1>1, <1>2
<1> QED BY <1>1, <1>4, <1>5, <1>6 DEF Moved

\* The calls are given up.
LEMMA Given_up ==
  ASSUME ParserInv, phase # "prompt", phase' = phase, errors' \in BOOLEAN,
         todo' = << >>, out' = << >>, Moved, UNCHANGED <<binop_precedence, definitions>>
  PROVE  ParserInv'
<1>1. Exprs(<< >>) /\ InOrder(<< >>, at') /\ Right(<< >>, binop_precedence)
  <2>1. << >> \in Seq(Trees) /\ Len(<< >>) = 0 /\ 1 .. 0 = {}
    BY EmptySeq
  <2> QED BY <2>1 DEF Exprs, InOrder, Right
<1>2. << >> \in Seq(Items)
  BY EmptySeq
<1>3. Counted(<< >>, tok', definitions)
  BY DEF Counted, Pending, Moved
<1>4. Stacked(<< >>, << >>, tok', at', binop_precedence)
  BY DEF Stacked
<1> QED BY <1>1, <1>2, <1>3, <1>4 DEF ParserInv, Moved

LEMMA Failed ==
  ASSUME ParserInv, phase = "parsing", Error
  PROVE  ParserInv'
<1>1. Reading(tok, at, cost) /\ definitions \in 0 .. MaxDefinitions
  BY DEF ParserInv
<1>2. Line \in SUBSET Line /\ Odd \in {0, Odd} /\ consume(Line, Odd)
  BY DEF Error
<1>3. Moved
  BY <1>1, <1>2, Read_on
<1> QED BY <1>3, Given_up DEF Error

\* The next item is none that only a prototype brings.
LEMMA Heads ==
  ASSUME NEW o, NEW t, NEW a, NEW p, NEW td, Stacked(td, o, t, a, p), td # << >>,
         td[1].what \notin Ends, NEW s \in Seq(Items),
         s # << >> => s[1].what \notin {"operator", "precedence"}
  PROVE  s \o Tail(td) \in Seq(Items) /\ s \o Tail(td) # << >> /\ ~Pending(s \o Tail(td))
<1> DEFINE r == Tail(td)
           w == s \o r
<1>1. PICK g, b \in Nat : Formed(td, o, a, p, g, b)
  BY DEF Stacked
<1>2. PICK h, c \in Nat : Formed(r, o, a, p, h, c) /\ Link(td[1], g, b, r[1], h, c, o, p)
  BY <1>1, Popped
<1>3. r[1].what \notin {"operator", "precedence"}
  BY <1>2 DEF Link
<1>4. r \in Seq(Items) /\ r # << >>
  BY <1>2, Innermost
<1> HIDE DEF r
<1>5. CASE s = << >>
  <2>1. w = r
    BY <1>4, <1>5, ConcatEmptySeq
  <2> QED BY <1>3, <1>4, <2>1 DEF Pending, r
<1>6. CASE s # << >>
  <2>1. /\ w \in Seq(Items) /\ Len(w) = Len(s) + Len(r) /\ Len(s) \in Nat /\ Len(r) \in Nat
        /\ \A k \in 1 .. Len(s) : w[k] = s[k]
    BY <1>4, Joined
  <2>2. Len(s) >= 1
    BY <1>6, Parts
  <2> HIDE DEF w
  <2>3. w[1] = s[1] /\ Len(w) # 0
    BY <2>1, <2>2
  <2>4. w # << >>
    BY <2>3, EmptySeq
  <2> QED BY <1>6, <2>1, <2>3, <2>4 DEF Pending, w, r
<1> QED BY <1>5, <1>6

LEMMA Goes_on ==
  ASSUME ParserInv, phase = "parsing", todo # << >>, todo[1].what \notin Ends,
         NEW s \in Seq(Items), todo' = s \o Tail(todo),
         s # << >> => s[1].what \notin {"operator", "precedence"},
         Stacked(s \o Tail(todo), out', tok', at', binop_precedence), Moved,
         Exprs(out'), InOrder(out', at'), Right(out', binop_precedence),
         UNCHANGED <<phase, errors, binop_precedence, definitions>>
  PROVE  ParserInv'
<1>1. Stacked(todo, out, tok, at, binop_precedence)
  BY DEF ParserInv
<1>2. todo' \in Seq(Items) /\ todo' # << >> /\ ~Pending(todo')
  BY <1>1, Heads
<1>3. Counted(todo', tok', definitions)
  BY <1>2 DEF Counted, Moved
<1> QED BY <1>2, <1>3 DEF ParserInv, Moved

\* The order does not depend on how far the line has been read since.
LEMMA Farther ==
  ASSUME NEW o, Exprs(o), NEW a \in Nat, NEW a2 \in Nat, a <= a2, InOrder(o, a)
  PROVE  InOrder(o, a2)
<1>1. \A i \in 1 .. Len(o) : o[i].last \in Nat
  BY Numbers
<1>2. \A i \in 1 .. Len(o) : o[i].last < a2
  <2>1. \A i \in 1 .. Len(o) : o[i].last < a
    BY DEF InOrder
  <2> QED BY <1>1, <2>1
<1> QED BY <1>2 DEF InOrder

\* The numbers of a state.
LEMMA Here ==
  ASSUME ParserInv
  PROVE  /\ at \in Places /\ at \in Nat /\ at >= 1
         /\ definitions \in 0 .. MaxDefinitions
         /\ Exprs(out) /\ InOrder(out, at) /\ Right(out, binop_precedence)
         /\ Table(binop_precedence) /\ todo \in Seq(Items)
         /\ Stacked(todo, out, tok, at, binop_precedence)
<1>1. at \in Places
  BY DEF ParserInv, Reading
<1>2. at \in Nat /\ at >= 1
  BY <1>1, BoundsAssumption DEF Places
<1> QED BY <1>1, <1>2 DEF ParserInv

LEMMA There ==
  ASSUME ParserInv, Moved
  PROVE  at' \in Places /\ at' \in Nat /\ at' >= 1 /\ at <= at' /\ InOrder(out, at')
<1>1. at' \in Places /\ at <= at'
  BY DEF Moved, Reading
<1>2. at' \in Nat /\ at' >= 1
  BY <1>1, BoundsAssumption DEF Places
<1>3. InOrder(out, at')
  BY <1>1, <1>2, Here, Farther
<1> QED BY <1>1, <1>2, <1>3

\* The items s, none of which is about expressions that are complete, take the place of
\* such an item.
Calm(s, a) == s \in Seq(Items) /\ \A k \in 1 .. Len(s) : Quiet(s[k], a)

LEMMA Plain_stack ==
  ASSUME ParserInv, todo # << >>,
         todo[1].what \notin Operands \cup Halves \cup Ends \cup {"rhs"},
         NEW s, Calm(s, at'), Moved
  PROVE  /\ Stacked(s \o Tail(todo), out, tok', at', binop_precedence)
         /\ s \o Tail(todo) # << >>
         /\ s # << >> => (s \o Tail(todo))[1] = s[1]
<1>1. s \in Seq(Items) /\ \A k \in 1 .. Len(s) : Quiet(s[k], at')
  BY DEF Calm
<1> QED BY <1>1, Here, There, Replaced

LEMMA Plain ==
  ASSUME ParserInv, phase = "parsing", todo # << >>,
         todo[1].what \notin Operands \cup Halves \cup Ends \cup {"rhs"},
         NEW s, Calm(s, at'), Moved, todo' = s \o Tail(todo),
         UNCHANGED <<phase, out, errors, binop_precedence, definitions>>
  PROVE  ParserInv'
<1>1. s \in Seq(Items) /\ \A k \in 1 .. Len(s) : Quiet(s[k], at')
  BY DEF Calm
<1>2. Stacked(s \o Tail(todo), out, tok', at', binop_precedence)
  BY Plain_stack
<1>3. s # << >> => s[1].what \notin {"operator", "precedence"}
  <2>1. ASSUME s # << >>
        PROVE  1 \in 1 .. Len(s)
    <3>1. Len(s) \in Nat /\ Len(s) >= 1
      BY <1>1, <2>1, Parts
    <3> QED BY <3>1
  <2> QED BY <1>1, <2>1 DEF Quiet, Special
<1>4. todo[1].what \notin Ends
  OBVIOUS
<1>5. Exprs(out') /\ InOrder(out', at') /\ Right(out', binop_precedence)
  BY Here, There
<1> QED BY <1>1, <1>2, <1>3, <1>4, <1>5, Goes_on

\* Which items these are.
LEMMA Quiet_things ==
  ASSUME NEW a
  PROVE  /\ \A c \in Calls \ (Special \cup {"close", "args"}) :
              /\ Quiet(Do(c), a)
              /\ \A d \in About : Quiet(Maybe(d, c), a) /\ Quiet(Rest(c, d), a)
         /\ \A d \in About : Quiet(Expect(d), a)
         /\ \A d \in About, n \in Places \cup {0} : n < a => Quiet(Args(d, n), a)
<1>1. \A c \in Calls, d \in About, n \in 0 .. 101 \cup Places :
        /\ [what |-> c, op |-> d, n |-> n] \in Items
        /\ [what |-> c, op |-> d, n |-> n].what = c
        /\ [what |-> c, op |-> d, n |-> n].n = n
  BY DEF Items
<1>2. /\ 0 \in 0 .. 101 \cup Places /\ "" \in About
      /\ "token" \in Calls /\ "args" \in Calls
      /\ "token" \notin Special \cup {"close", "args"} /\ "args" \notin Special \cup {"close"}
  BY DEF Calls, About, Special
<1>3. ASSUME NEW c \in Calls \ (Special \cup {"close", "args"})
      PROVE  /\ Quiet(Do(c), a)
             /\ \A d \in About : Quiet(Maybe(d, c), a) /\ Quiet(Rest(c, d), a)
  BY <1>1, <1>2 DEF Quiet, Do, Maybe, Rest
<1>4. \A d \in About : Quiet(Expect(d), a)
  BY <1>1, <1>2 DEF Quiet, Expect
<1>5. \A d \in About, n \in Places \cup {0} : n < a => Quiet(Args(d, n), a)
  BY <1>1, <1>2 DEF Quiet, Args
<1> QED BY <1>3, <1>4, <1>5

LEMMA Calm_few ==
  ASSUME NEW a
  PROVE  /\ Calm(<< >>, a)
         /\ \A x : Quiet(x, a) => Calm(<<x>>, a) /\ <<x>> # << >>
         /\ \A x, y : Quiet(x, a) /\ Quiet(y, a) => Calm(<<x, y>>, a)
         /\ \A x, y, z : Quiet(x, a) /\ Quiet(y, a) /\ Quiet(z, a) => Calm(<<x, y, z>>, a)
<1>1. \A x : Quiet(x, a) => x \in Items
  BY DEF Quiet
<1>2. Calm(<< >>, a)
  <2>1. << >> \in Seq(Items) /\ Len(<< >>) = 0 /\ 1 .. 0 = {}
    BY EmptySeq
  <2> QED BY <2>1 DEF Calm
<1>3. ASSUME NEW x, Quiet(x, a)
      PROVE  Calm(<<x>>, a) /\ <<x>> # << >>
  <2>1. <<x>> \in Seq(Items) /\ Len(<<x>>) = 1 /\ <<x>>[1] = x /\ <<x>> # << >>
    BY <1>1, <1>3
  <2>2. \A k \in 1 .. 1 : k = 1
    OBVIOUS
  <2> QED BY <1>3, <2>1, <2>2 DEF Calm
<1>4. ASSUME NEW x, NEW y, Quiet(x, a), Quiet(y, a)
      PROVE  Calm(<<x, y>>, a)
  <2>1. /\ <<x, y>> \in Seq(Items) /\ Len(<<x, y>>) = 2 /\ <<x, y>>[1] = x /\ <<x, y>>[2] = y
    BY <1>1, <1>4
  <2>2. \A k \in 1 .. 2 : k = 1 \/ k = 2
    OBVIOUS
  <2> QED BY <1>4, <2>1, <2>2 DEF Calm
<1>5. ASSUME NEW x, NEW y, NEW z, Quiet(x, a), Quiet(y, a), Quiet(z, a)
      PROVE  Calm(<<x, y, z>>, a)
  <2>1. /\ <<x, y, z>> \in Seq(Items) /\ Len(<<x, y, z>>) = 3
        /\ <<x, y, z>>[1] = x /\ <<x, y, z>>[2] = y /\ <<x, y, z>>[3] = z
    BY <1>1, <1>5
  <2>2. \A k \in 1 .. 3 : k = 1 \/ k = 2 \/ k = 3
    OBVIOUS
  <2> QED BY <1>5, <2>1, <2>2 DEF Calm
<1> QED BY <1>2, <1>3, <1>4, <1>5

LEMMA Calm_five ==
  ASSUME NEW a, NEW x1, NEW x2, NEW x3, NEW x4, NEW x5,
         Quiet(x1, a), Quiet(x2, a), Quiet(x3, a), Quiet(x4, a), Quiet(x5, a)
  PROVE  Calm(<<x1, x2, x3, x4, x5>>, a)
<1> DEFINE s == <<x1, x2, x3, x4, x5>>
<1>1. x1 \in Items /\ x2 \in Items /\ x3 \in Items /\ x4 \in Items /\ x5 \in Items
  BY DEF Quiet
<1>2. s \in Seq(Items) /\ Len(s) = 5 /\ s[1] = x1 /\ s[2] = x2 /\ s[3] = x3 /\ s[4] = x4 /\ s[5] = x5
  BY <1>1
<1>3. \A k \in 1 .. 5 : k = 1 \/ k = 2 \/ k = 3 \/ k = 4 \/ k = 5
  OBVIOUS
<1> QED BY <1>2, <1>3 DEF Calm

LEMMA Calm_eight ==
  ASSUME NEW a, NEW x1, NEW x2, NEW x3, NEW x4, NEW x5, NEW x6, NEW x7, NEW x8,
         Quiet(x1, a), Quiet(x2, a), Quiet(x3, a), Quiet(x4, a),
         Quiet(x5, a), Quiet(x6, a), Quiet(x7, a), Quiet(x8, a)
  PROVE  Calm(<<x1, x2, x3, x4, x5, x6, x7, x8>>, a)
<1> DEFINE s == <<x1, x2, x3, x4, x5, x6, x7, x8>>
<1>1. /\ x1 \in Items /\ x2 \in Items /\ x3 \in Items /\ x4 \in Items
      /\ x5 \in Items /\ x6 \in Items /\ x7 \in Items /\ x8 \in Items
  BY DEF Quiet
<1>2. /\ s \in Seq(Items) /\ Len(s) = 8
      /\ s[1] = x1 /\ s[2] = x2 /\ s[3] = x3 /\ s[4] = x4
      /\ s[5] = x5 /\ s[6] = x6 /\ s[7] = x7 /\ s[8] = x8
  BY <1>1
<1>3. \A k \in 1 .. 8 : k = 1 \/ k = 2 \/ k = 3 \/ k = 4 \/ k = 5 \/ k = 6 \/ k = 7 \/ k = 8
  OBVIOUS
<1> QED BY <1>2, <1>3 DEF Calm

-------------------------------------------------------------------------------
(* The steps that are about no expression.                                  *)

\* It is the turn of the innermost item.
LEMMA Ready ==
  ASSUME ParserInv, NEW w, Next_to_do(w)
  PROVE  /\ phase = "parsing" /\ todo # << >> /\ Head(todo) = todo[1]
         /\ todo[1].what = w /\ todo[1] \in Items /\ todo[1].op \in About
         /\ Tail(todo) \in Seq(Items)
<1>1. todo \in Seq(Items) /\ todo # << >> /\ phase = "parsing" /\ Head(todo).what = w
  BY DEF ParserInv, Next_to_do
<1>2. Head(todo) = todo[1] /\ todo[1] \in Items /\ Tail(todo) \in Seq(Items)
  BY <1>1, Parts
<1>3. todo[1].op \in About
  BY <1>2 DEF Items
<1> QED BY <1>1, <1>2, <1>3

LEMMA Take_plain ==
  ASSUME ParserInv, NEW w, Next_to_do(w), w \notin Operands \cup Halves \cup Ends \cup {"rhs"},
         NEW s, Take(s), Calm(s, at')
  PROVE  ParserInv'
<1>1. phase = "parsing" /\ todo # << >> /\ todo[1].what = w
  BY Ready
<1>2. /\ Moved /\ todo' = s \o Tail(todo)
      /\ UNCHANGED <<phase, out, errors, binop_precedence, definitions>>
  BY Taken
<1> QED BY <1>1, <1>2, Plain

LEMMA Leave_plain ==
  ASSUME ParserInv, NEW w, Next_to_do(w), w \notin Operands \cup Halves \cup Ends \cup {"rhs", "token"},
         NEW s, Leave(s), Calm(s, at')
  PROVE  ParserInv'
<1>1. phase = "parsing" /\ todo # << >> /\ todo[1].what = w /\ todo[1].what # "token"
  BY Ready
<1>2. /\ Moved /\ todo' = s \o Tail(todo)
      /\ UNCHANGED <<phase, out, errors, binop_precedence, definitions>>
  BY <1>1, Stayed
<1> QED BY <1>1, <1>2, Plain

LEMMA Fails ==
  ASSUME ParserInv, NEW w, Next_to_do(w), Error
  PROVE  ParserInv'
BY Ready, Failed

LEMMA Panics ==
  ASSUME ParserInv, NEW w, Next_to_do(w), Panic
  PROVE  ParserInv'
<1>1. todo # << >>
  BY Ready
<1> QED BY <1>1 DEF ParserInv, Panic

\* What there can be to do that is about no expression, and the tokens it is about.
LEMMA Words ==
  /\ {"expr", "field", "call", "list", "more", "var", "block", "blocks", "type?", "expr?", "var?",
      "type", "tuple type", "types", "result", "invalid signature", "token", "args"}
       \cap (Operands \cup Halves \cup Ends \cup {"rhs"}) = {}
  /\ {"expr", "field", "call", "list", "more", "var", "block", "blocks", "type?", "expr?", "var?",
      "type", "tuple type", "types", "result", "invalid signature"}
       \subseteq Calls \ (Special \cup {"close", "args"})
  /\ {"", "then", "else", "in", "(", ")", "]", ",", ":", "=", ">", "unary", "binary", Identifier}
       \subseteq About
  /\ Token \subseteq About
<1>1. /\ {"expr", "field", "call", "list", "more", "var", "block", "blocks", "type?", "expr?", "var?",
          "type", "tuple type", "types", "result", "invalid signature", "token", "args"}
           \cap (Operands \cup Halves \cup Ends \cup {"rhs"}) = {}
  BY DEF Operands, Halves, Ends
<1>2. {"expr", "field", "call", "list", "more", "var", "block", "blocks", "type?", "expr?", "var?",
       "type", "tuple type", "types", "result", "invalid signature"}
        \subseteq Calls \ (Special \cup {"close", "args"})
  BY DEF Calls, Special
<1>3. /\ {"", "then", "else", "in", "(", ")", "]", ",", ":", "=", ">", "unary", "binary", Identifier}
           \subseteq About
      /\ Token \subseteq About
  BY TokenAssumption DEF About, Keyword
<1> QED BY <1>1, <1>2, <1>3

\* The items, by name.
LEMMA Named ==
  ASSUME NEW a
  PROVE  /\ Quiet(Do("expr"), a) /\ Quiet(Do("field"), a) /\ Quiet(Do("var"), a)
         /\ Quiet(Do("block"), a) /\ Quiet(Do("blocks"), a)
         /\ Quiet(Do("type"), a) /\ Quiet(Do("tuple type"), a) /\ Quiet(Do("types"), a)
         /\ Quiet(Do("result"), a) /\ Quiet(Do("invalid signature"), a)
         /\ Quiet(Maybe("(", "call"), a) /\ Quiet(Maybe(",", "expr?"), a)
         /\ Quiet(Maybe(":", "type?"), a) /\ Quiet(Maybe("=", "expr?"), a) /\ Quiet(Maybe(",", "var?"), a)
         /\ \A d \in About : /\ Quiet(Expect(d), a)
                             /\ Quiet(Rest("list", d), a) /\ Quiet(Rest("more", d), a)
<1>1. /\ \A c \in Calls \ (Special \cup {"close", "args"}) :
           /\ Quiet(Do(c), a)
           /\ \A d \in About : Quiet(Maybe(d, c), a) /\ Quiet(Rest(c, d), a)
      /\ \A d \in About : Quiet(Expect(d), a)
  BY Quiet_things
<1>2. \A c \in {"expr", "field", "call", "list", "more", "var", "block", "blocks", "type?", "expr?",
                "var?", "type", "tuple type", "types", "result", "invalid signature"} :
        c \in Calls \ (Special \cup {"close", "args"})
  BY Words
<1>3. "(" \in About /\ "," \in About /\ ":" \in About /\ "=" \in About
  BY Words
<1> QED BY <1>1, <1>2, <1>3

LEMMA Field_step ==
  ASSUME ParserInv, parse_field_number
  PROVE  ParserInv'
<1>1. Next_to_do("field") /\ "field" \notin Operands \cup Halves \cup Ends \cup {"rhs"}
  BY Words DEF parse_field_number
<1>2. Error \/ Take(<< >>) \/ Panic
  BY DEF parse_field_number
<1> QED BY <1>1, <1>2, Take_plain, Fails, Panics, Calm_few

LEMMA Identifier_step ==
  ASSUME ParserInv, parse_identifier
  PROVE  ParserInv'
<1>1. Next_to_do("call") /\ "call" \notin Operands \cup Halves \cup Ends \cup {"rhs", "token"}
  BY Words DEF parse_identifier
<1>2. Take(<<Rest("list", ")")>>) \/ Leave(<< >>)
  BY DEF parse_identifier
<1>3. Calm(<<Rest("list", ")")>>, at') /\ Calm(<< >>, at')
  <2>1. ")" \in About
    BY Words
  <2> QED BY <2>1, Named, Calm_few
<1> QED BY <1>1, <1>2, <1>3, Take_plain, Leave_plain

LEMMA List_step ==
  ASSUME ParserInv, parse_list
  PROVE  ParserInv'
<1> DEFINE x == todo[1]
<1>1. CASE Next_to_do("list")
  <2>1. x.op \in About /\ Head(todo) = x /\ x.what = "list"
    BY <1>1, Ready
  <2>2. "list" \notin Operands \cup Halves \cup Ends \cup {"rhs", "token"}
    BY Words
  <2>3. Error \/ Take(<< >>) \/ Leave(<<Do("expr"), Rest("more", x.op)>>)
    BY <1>1, <2>1 DEF parse_list, Next_to_do
  <2>4. Calm(<< >>, at') /\ Calm(<<Do("expr"), Rest("more", x.op)>>, at')
    BY <2>1, Named, Calm_few
  <2> QED BY <1>1, <2>2, <2>3, <2>4, Take_plain, Leave_plain, Fails
<1>2. CASE Next_to_do("more")
  <2>1. x \in Items /\ Head(todo) = x /\ x.what = "more"
    BY <1>2, Ready
  <2>2. "more" \notin Operands \cup Halves \cup Ends \cup {"rhs", "token"}
    BY Words
  <2>3. Error \/ Take(<< >>) \/ Take(<<Do("expr"), x>>)
    BY <1>2, <2>1 DEF parse_list, Next_to_do
  <2>4. Quiet(x, at')
    BY <2>1 DEF Quiet, Special
  <2>5. Calm(<< >>, at') /\ Calm(<<Do("expr"), x>>, at')
    BY <2>4, Named, Calm_few
  <2> QED BY <1>2, <2>2, <2>3, <2>5, Take_plain, Fails
<1> QED BY <1>1, <1>2 DEF parse_list

LEMMA Var_step ==
  ASSUME ParserInv, parse_var
  PROVE  ParserInv'
<1>1. CASE Next_to_do("var")
  <2>1. "var" \notin Operands \cup Halves \cup Ends \cup {"rhs"}
    BY Words
  <2>2. Error \/ Take(<<Maybe(":", "type?"), Maybe("=", "expr?"), Maybe(",", "var?")>>)
    BY <1>1 DEF parse_var, Next_to_do
  <2>3. Calm(<<Maybe(":", "type?"), Maybe("=", "expr?"), Maybe(",", "var?")>>, at')
    BY Named, Calm_few
  <2> QED BY <1>1, <2>1, <2>2, <2>3, Take_plain, Fails
<1>2. ASSUME NEW what \in {"type?", "expr?", "var?"}, Next_to_do(what),
             IF tok # Head(todo).op THEN Leave(<< >>)
             ELSE Take(CASE what = "type?" -> <<Do("type")>>
                         [] what = "expr?" -> <<Do("expr")>>
                         [] what = "var?" -> <<Do("var")>>)
      PROVE  ParserInv'
  <2>1. what \notin Operands \cup Halves \cup Ends \cup {"rhs", "token"}
    BY Words
  <2>2. Leave(<< >>) \/ Take(<<Do("type")>>) \/ Take(<<Do("expr")>>) \/ Take(<<Do("var")>>)
    BY <1>2
  <2>3. Calm(<< >>, at') /\ Calm(<<Do("type")>>, at') /\ Calm(<<Do("expr")>>, at') /\ Calm(<<Do("var")>>, at')
    BY Named, Calm_few
  <2> QED BY <1>2, <2>1, <2>2, <2>3, Take_plain, Leave_plain
<1> QED BY <1>1, <1>2 DEF parse_var

LEMMA Block_step ==
  ASSUME ParserInv, parse_block
  PROVE  ParserInv'
<1>1. "block" \notin Operands \cup Halves \cup Ends \cup {"rhs", "token"}
      /\ "blocks" \notin Operands \cup Halves \cup Ends \cup {"rhs", "token"}
  BY Words
<1>2. Calm(<< >>, at') /\ Calm(<<Do("expr"), Do("blocks")>>, at') /\ Calm(<<Do("block")>>, at')
  BY Named, Calm_few
<1>3. CASE Next_to_do("block")
  <2>1. Leave(<< >>) \/ Leave(<<Do("expr"), Do("blocks")>>)
    BY <1>3 DEF parse_block, Next_to_do
  <2> QED BY <1>1, <1>2, <1>3, <2>1, Leave_plain
<1>4. CASE Next_to_do("blocks")
  <2>1. Take(<<Do("block")>>) \/ Leave(<< >>)
    BY <1>4 DEF parse_block, Next_to_do
  <2> QED BY <1>1, <1>2, <1>4, <2>1, Take_plain, Leave_plain
<1> QED BY <1>3, <1>4 DEF parse_block

LEMMA Expected_step ==
  ASSUME ParserInv, Expected
  PROVE  ParserInv'
<1>1. Next_to_do("token") /\ "token" \notin Operands \cup Halves \cup Ends \cup {"rhs"}
  BY Words DEF Expected
<1>2. Take(<< >>) \/ Error
  BY DEF Expected
<1> QED BY <1>1, <1>2, Take_plain, Fails, Calm_few

LEMMA Type_step ==
  ASSUME ParserInv, parse_type \/ parse_tuple_type
  PROVE  ParserInv'
<1>1. \A w \in {"type", "tuple type", "types"} : w \notin Operands \cup Halves \cup Ends \cup {"rhs", "token"}
  BY Words
<1>2. /\ Calm(<< >>, at') /\ Calm(<<Do("tuple type")>>, at')
      /\ Calm(<<Do("type"), Expect("]")>>, at') /\ Calm(<<Do("type"), Do("types")>>, at')
  <2>1. "]" \in About
    BY Words
  <2> QED BY <2>1, Named, Calm_few
<1>3. CASE Next_to_do("type")
  <2>1. Take(<< >>) \/ Take(<<Do("tuple type")>>) \/ Take(<<Do("type"), Expect("]")>>) \/ Error
    BY <1>3 DEF parse_type, parse_tuple_type, Next_to_do
  <2> QED BY <1>1, <1>2, <1>3, <2>1, Take_plain, Fails
<1>4. CASE Next_to_do("tuple type")
  <2>1. Take(<< >>) \/ Leave(<<Do("type"), Do("types")>>)
    BY <1>4 DEF parse_type, parse_tuple_type, Next_to_do
  <2> QED BY <1>1, <1>2, <1>4, <2>1, Take_plain, Leave_plain
<1>5. CASE Next_to_do("types")
  <2>1. Take(<< >>) \/ Take(<<Do("type"), Do("types")>>) \/ Error
    BY <1>5 DEF parse_type, parse_tuple_type, Next_to_do
  <2> QED BY <1>1, <1>2, <1>5, <2>1, Take_plain, Fails
<1> QED BY <1>3, <1>4, <1>5 DEF parse_type, parse_tuple_type

LEMMA Result_step ==
  ASSUME ParserInv, Result
  PROVE  ParserInv'
<1>1. CASE Next_to_do("result")
  <2>1. "result" \notin Operands \cup Halves \cup Ends \cup {"rhs", "token"}
    BY Words
  <2>2. Take(<<Expect(">"), Do("type")>>) \/ Leave(<< >>)
    BY <1>1 DEF Result, Next_to_do
  <2>3. Calm(<< >>, at') /\ Calm(<<Expect(">"), Do("type")>>, at')
    <3>1. ">" \in About
      BY Words
    <3> QED BY <3>1, Named, Calm_few
  <2> QED BY <1>1, <2>1, <2>2, <2>3, Take_plain, Leave_plain
<1>2. CASE Next_to_do("invalid signature") /\ Error
  BY <1>2, Fails
<1> QED BY <1>1, <1>2 DEF Result

LEMMA Arguments_step ==
  ASSUME ParserInv, Arguments
  PROVE  ParserInv'
<1> DEFINE x == todo[1]
           s == <<Expect(":"), Do("type"), Args(x.op, x.n + 1)>>
<1>1. Next_to_do("args") /\ "args" \notin Operands \cup Halves \cup Ends \cup {"rhs"}
  BY Words DEF Arguments
<1>2. /\ Head(todo) = x /\ x.what = "args" /\ x.op \in About /\ x \in Items /\ todo # << >>
  BY <1>1, Ready
<1>3. \/ tok = Identifier /\ Take(s)
      \/ Take(<<Do("invalid signature")>>) \/ Take(<<Do("result")>>) \/ Error
  BY <1>2 DEF Arguments
<1>4. Calm(<<Do("invalid signature")>>, at') /\ Calm(<<Do("result")>>, at')
  BY Named, Calm_few
<1>5. ASSUME tok = Identifier, Take(s)
      PROVE  Calm(s, at')
  <2>1. at \in Nat /\ at' = at + 1 /\ at' \in Places
    <3>1. tok # Eof
      BY <1>5, TokenAssumption
    <3> QED BY <1>5, <3>1, Taken, Here, There
  <2>2. x.n < at /\ x.n \in 0 .. 101 \cup Places
    <3>1. Stacked(todo, out, tok, at, binop_precedence)
      BY Here
    <3>2. PICK g, b \in Nat : Formed(todo, out, at, binop_precedence, g, b)
      BY <1>2, <3>1 DEF Stacked
    <3>3. Item(x, out, at, binop_precedence, g, b)
      BY <3>2, Innermost
    <3>4. x.n \in 0 .. 101 \cup Places
      BY <1>2 DEF Items
    <3> QED BY <1>2, <3>3, <3>4 DEF Item
  <2>3. \A i \in 0 .. 101 \cup Places : i < at => i + 1 \in Places \cup {0} /\ i + 1 < at'
    BY <2>1, BoundsAssumption DEF Places
  <2>4. x.n + 1 \in Places \cup {0} /\ x.n + 1 < at'
    BY <2>2, <2>3, Zenon
  <2>5. Quiet(Args(x.op, x.n + 1), at')
    <3> DEFINE n == x.n + 1
    <3>1. n \in Places \cup {0} /\ n < at'
      BY <2>4
    <3> HIDE DEF n
    <3>2. Quiet(Args(x.op, n), at')
      BY <1>2, <3>1, Quiet_things
    <3> QED BY <3>2 DEF n
  <2>6. Quiet(Expect(":"), at') /\ Quiet(Do("type"), at')
    <3>1. ":" \in About
      BY Words
    <3> QED BY <3>1, Named
  <2> QED BY <2>5, <2>6, Calm_few
<1> HIDE DEF s, x
<1> QED BY <1>1, <1>3, <1>4, <1>5, Take_plain, Fails

-------------------------------------------------------------------------------
(* Prototypes.                                                             *)

\* While an item that only a prototype brings comes next, no expression is complete.
LEMMA Before ==
  ASSUME ParserInv, NEW w, Next_to_do(w), w \in {"prototype", "operator", "precedence"}
  PROVE  /\ out = << >>
         /\ w = "operator" => todo[1].op \in {"unary", "binary"}
         /\ w = "precedence" => todo[1].op \in Ascii
                                /\ Tail(todo) # << >> /\ Tail(todo)[1] = Expect("(")
<1>1. todo # << >> /\ todo[1].what = w /\ Stacked(todo, out, tok, at, binop_precedence)
  BY Ready, Here
<1>2. PICK g, b \in Nat : /\ Formed(todo, out, at, binop_precedence, g, b)
                          /\ Top(todo[1], out, tok, at, binop_precedence, g, b)
  BY <1>1 DEF Stacked
<1>3. out = << >>
  BY <1>1, <1>2 DEF Top
<1>4. Item(todo[1], out, at, binop_precedence, g, b)
  BY <1>2, Innermost
<1>5. /\ w = "operator" => todo[1].op \in {"unary", "binary"}
      /\ w = "precedence" => todo[1].op \in Ascii
  BY <1>1, <1>4 DEF Item
<1>6. ASSUME w = "precedence"
      PROVE  Tail(todo) # << >> /\ Tail(todo)[1] = Expect("(")
  <2>1. PICK h, c \in Nat : /\ Formed(Tail(todo), out, at, binop_precedence, h, c)
                            /\ Link(todo[1], g, b, Tail(todo)[1], h, c, out, binop_precedence)
    BY <1>1, <1>2, Popped DEF Ends
  <2>2. Tail(todo) # << >>
    BY <2>1, Innermost
  <2> QED BY <1>1, <1>6, <2>1, <2>2 DEF Link
<1> QED BY <1>3, <1>5, <1>6

\* Such an item.
LEMMA Headed ==
  ASSUME NEW c \in Calls, NEW d \in About
  PROVE  /\ [Do(c) EXCEPT !.op = d] \in Items
         /\ [Do(c) EXCEPT !.op = d].what = c /\ [Do(c) EXCEPT !.op = d].op = d
<1>1. 0 \in 0 .. 101 \cup Places /\ "" \in About
  <2>1. 0 \in 0 .. 101 \cup Places
    OBVIOUS
  <2> QED BY <2>1, Words
<1>2. Do(c) \in [what : Calls, op : About, n : 0 .. 101 \cup Places] /\ Do(c).what = c
  BY <1>1 DEF Do
<1> HIDE DEF Do
<1> QED BY <1>2 DEF Items

\* The item x in the place of such an item.
LEMMA Heading_next ==
  ASSUME ParserInv, NEW w, Next_to_do(w), w \in {"prototype", "operator"},
         NEW x \in Items, NEW s, Calm(s, at'),
         \/ x.what = "operator" /\ x.op \in {"unary", "binary"}
         \/ x.what = "precedence" /\ x.op \in Ascii /\ s # << >> /\ s[1] = Expect("("),
         x.what = "precedence" \/ x.op = "binary" => definitions # MaxDefinitions,
         Moved, todo' = <<x>> \o (s \o Tail(todo)),
         UNCHANGED <<phase, out, errors, binop_precedence, definitions>>
  PROVE  ParserInv'
<1> DEFINE r == s \o Tail(todo)
<1>1. /\ phase = "parsing" /\ todo # << >> /\ todo[1].what = w
      /\ Exprs(out) /\ Stacked(todo, out, tok, at, binop_precedence)
      /\ at \in Nat /\ at' \in Nat /\ at' >= 1 /\ at <= at' /\ InOrder(out, at')
      /\ Right(out, binop_precedence) /\ out = << >> /\ out' = out
  BY Ready, Here, There, Before
<1>2. todo[1].what \notin Operands \cup Halves \cup Ends \cup {"rhs"}
  BY <1>1 DEF Operands, Halves, Ends
<1>3. s \in Seq(Items) /\ \A k \in 1 .. Len(s) : Quiet(s[k], at')
  BY DEF Calm
<1> HIDE DEF r
<1>4. /\ Stacked(r, out, tok', at', binop_precedence) /\ r # << >>
      /\ s # << >> => r[1] = s[1]
  BY <1>1, <1>2, Plain_stack DEF r
<1>5. Tail(todo)[1].what \notin Special
  BY <1>1, <1>2, Under
<1>6. r[1].what \notin Special
  <2>1. CASE s = << >>
    <3>1. Tail(todo) \in Seq(Items)
      BY Ready
    <3>2. r = Tail(todo)
      BY <2>1, <3>1, ConcatEmptySeq DEF r
    <3> QED BY <1>5, <3>2
  <2>2. CASE s # << >>
    <3>1. Len(s) \in Nat /\ Len(s) >= 1
      BY <1>3, <2>2, Parts
    <3>2. Quiet(s[1], at')
      BY <1>3, <3>1
    <3> QED BY <1>4, <2>2, <3>2 DEF Quiet
  <2> QED BY <2>1, <2>2
<1>7. PICK h, c \in Nat : Formed(r, out, at', binop_precedence, h, c)
  BY <1>4 DEF Stacked
<1>8. r \in Seq(Items)
  BY <1>7, Innermost
<1>9. Stacked(<<x>> \o r, out, tok', at', binop_precedence) /\ (<<x>> \o r)[1] = x
  <2>1. Formed(r, << >>, at', binop_precedence, h, c)
    BY <1>1, <1>7
  <2>2. \/ x.what = "prototype"
        \/ x.what = "operator" /\ x.op \in {"unary", "binary"}
        \/ x.what = "precedence" /\ x.op \in Ascii /\ r[1] = Expect("(")
    BY <1>4
  <2>3. Stacked(<<x>> \o r, << >>, tok', at', binop_precedence) /\ (<<x>> \o r)[1] = x
    BY <1>1, <1>6, <2>1, <2>2, Heading
  <2> QED BY <1>1, <2>3
<1>10. <<x>> \o r \in Seq(Items) /\ <<x>> \o r # << >>
  <2>1. <<x>> \o r \in Seq(Items) /\ Len(<<x>> \o r) = Len(r) + 1 /\ Len(r) \in Nat
    BY <1>8, Prefix
  <2> DEFINE w2 == <<x>> \o r
  <2>2. w2 \in Seq(Items) /\ Len(w2) # 0
    BY <2>1
  <2> HIDE DEF w2
  <2>3. w2 # << >>
    BY <2>2, EmptySeq
  <2> QED BY <2>1, <2>3 DEF w2
<1>11. todo' = <<x>> \o r
  BY DEF r
<1>12. Counted(todo', tok', definitions)
  BY <1>9, <1>11 DEF Counted, Moved, Pending
<1>13. Exprs(out')
  BY <1>1
<1> QED BY <1>1, <1>9, <1>10, <1>11, <1>12, <1>13 DEF ParserInv, Moved

LEMMA Prototype_step ==
  ASSUME ParserInv, parse_prototype
  PROVE  ParserInv'
<1> DEFINE x == [Do("operator") EXCEPT !.op = tok]
<1>1. Next_to_do("prototype") /\ "prototype" \notin Operands \cup Halves \cup Ends \cup {"rhs"}
  BY DEF parse_prototype, Operands, Halves, Ends
<1>2. \/ Take(<<Expect("("), Args("", 0)>>)
      \/ tok \in {"unary", "binary"} /\ Take(<<x>>)
      \/ Error
  BY DEF parse_prototype
<1>3. ASSUME Take(<<Expect("("), Args("", 0)>>)
      PROVE  ParserInv'
  <2>1. at' \in Nat /\ at' >= 1
    BY <1>3, Taken, There
  <2>2. Quiet(Args("", 0), at') /\ Quiet(Expect("("), at')
    <3>1. 0 \in Places \cup {0} /\ 0 < at'
      BY <2>1
    <3>2. "" \in About /\ "(" \in About
      BY Words
    <3> QED BY <3>1, <3>2, Quiet_things
  <2>3. Calm(<<Expect("("), Args("", 0)>>, at')
    BY <2>2, Calm_few
  <2> QED BY <1>1, <1>3, <2>3, Take_plain
<1>4. ASSUME tok \in {"unary", "binary"}, Take(<<x>>)
      PROVE  ParserInv'
  <2>1. x \in Items /\ x.what = "operator" /\ x.op = tok
    <3>1. tok \in About
      BY <1>4, Words
    <3>2. "operator" \in Calls /\ 0 \in 0 .. 101 \cup Places
      BY DEF Calls
    <3> QED BY <3>1, <3>2, Headed
  <2>2. x.what = "precedence" \/ x.op = "binary" => definitions # MaxDefinitions
    <3>1. Counted(todo, tok, definitions) /\ todo[1].what = "prototype"
      BY <1>1, Ready DEF ParserInv
    <3>2. Expect("(").what = "token"
      BY DEF Expect
    <3> QED BY <2>1, <3>1, <3>2 DEF Counted
  <2>3. /\ Moved /\ todo' = <<x>> \o Tail(todo)
        /\ UNCHANGED <<phase, out, errors, binop_precedence, definitions>>
    BY <1>4, Taken
  <2>4. Calm(<< >>, at') /\ << >> \o Tail(todo) = Tail(todo)
    <3>1. Tail(todo) \in Seq(Items)
      BY <1>1, Ready
    <3> QED BY <3>1, Calm_few, ConcatEmptySeq
  <2> HIDE DEF x
  <2> QED BY <1>1, <1>4, <2>1, <2>2, <2>3, <2>4, Heading_next
<1> HIDE DEF x
<1> QED BY <1>1, <1>2, <1>3, <1>4, Fails

LEMMA Operator_step ==
  ASSUME ParserInv, Operator
  PROVE  ParserInv'
<1> DEFINE kind == todo[1].op
           x == [Do("precedence") EXCEPT !.op = tok]
           s == <<Expect("("), Args(kind, 0)>>
<1>1. Next_to_do("operator") /\ "operator" \notin Operands \cup Halves \cup Ends \cup {"rhs"}
  BY DEF Operator, Operands, Halves, Ends
<1>2. /\ Head(todo) = todo[1] /\ todo[1].what = "operator" /\ todo # << >>
      /\ kind \in {"unary", "binary"} /\ Tail(todo) \in Seq(Items)
  BY <1>1, Ready, Before
<1>3. \/ kind = "unary" /\ Take(s)
      \/ kind = "binary" /\ tok \in Ascii /\ Take(<<x, Expect("("), Args(kind, 0)>>)
      \/ Error
  <2>1. Head(todo).op = kind /\ ~("unary" = "binary")
    BY <1>2
  <2>2. tok \notin Ascii => Error
    BY <1>2 DEF Operator
  <2>3. ASSUME tok \in Ascii, Head(todo).op = "unary"
        PROVE  Take(<<Expect("("), Args(Head(todo).op, 0)>>)
    BY <2>3, Zenon DEF Operator
  <2>4. ASSUME tok \in Ascii, Head(todo).op = "binary"
        PROVE  Take(<<x, Expect("("), Args(Head(todo).op, 0)>>)
    BY <2>1, <2>4, Zenon DEF Operator
  <2> QED BY <1>2, <2>1, <2>2, <2>3, <2>4
<1>4. ASSUME Moved
      PROVE  Quiet(Args(kind, 0), at') /\ Quiet(Expect("("), at') /\ Calm(s, at')
  <2>1. at' \in Nat /\ at' >= 1
    BY <1>4, There
  <2>2. Quiet(Args(kind, 0), at') /\ Quiet(Expect("("), at')
    <3>1. 0 \in Places \cup {0} /\ 0 < at'
      BY <2>1
    <3>2. kind \in About /\ "(" \in About
      BY <1>2, Words
    <3> QED BY <3>1, <3>2, Quiet_things
  <2> QED BY <2>2, Calm_few
<1>5. ASSUME Take(s)
      PROVE  ParserInv'
  <2>1. Calm(s, at')
    BY <1>4, <1>5, Taken
  <2> HIDE DEF s
  <2> QED BY <1>1, <1>5, <2>1, Take_plain
<1>6. ASSUME kind = "binary", tok \in Ascii, Take(<<x, Expect("("), Args(kind, 0)>>)
      PROVE  ParserInv'
  <2>1. x \in Items /\ x.what = "precedence" /\ x.op = tok
    <3>1. tok \in About
      BY <1>6, Words DEF Ascii
    <3>2. "precedence" \in Calls /\ 0 \in 0 .. 101 \cup Places
      BY DEF Calls
    <3> QED BY <3>1, <3>2, Headed
  <2>2. definitions # MaxDefinitions
    <3>1. Counted(todo, tok, definitions)
      BY DEF ParserInv
    <3> QED BY <1>2, <1>6, <3>1 DEF Counted, Pending
  <2>3. /\ Moved /\ todo' = <<x, Expect("("), Args(kind, 0)>> \o Tail(todo)
        /\ UNCHANGED <<phase, out, errors, binop_precedence, definitions>>
    BY <1>6, Taken
  <2>4. Quiet(Args(kind, 0), at') /\ Quiet(Expect("("), at') /\ Calm(s, at')
    BY <1>4, <2>3
  <2>5. s # << >> /\ s[1] = Expect("(")
    OBVIOUS
  <2> HIDE DEF x
  <2>6. <<x, Expect("("), Args(kind, 0)>> \o Tail(todo) = <<x>> \o (s \o Tail(todo))
    <3> DEFINE y == Expect("(")
               z == Args(kind, 0)
               r == Tail(todo)
    <3>1. y \in Items /\ z \in Items /\ x \in Items /\ r \in Seq(Items)
      BY <1>2, <2>1, <2>4 DEF Quiet
    <3> HIDE DEF y, z, r
    <3>2. <<x, y, z>> \o r = <<x>> \o (<<y, z>> \o r)
      BY <3>1, Triples, ZenonT(60)
    <3> QED BY <3>2 DEF y, z, r
  <2> HIDE DEF s
  <2>7. todo' = <<x>> \o (s \o Tail(todo))
    BY <2>3, <2>6
  <2> QED BY <1>1, <1>6, <2>1, <2>2, <2>3, <2>4, <2>5, <2>7, Heading_next
<1> HIDE DEF x, s, kind
<1> QED BY <1>1, <1>3, <1>5, <1>6, Fails

\* The operator gets its precedence.
LEMMA Inserted ==
  ASSUME ParserInv, Next_to_do("precedence"), NEW prec \in 1 .. 100, Insert(todo[1].op, prec), Moved
  PROVE  ParserInv'
<1> DEFINE c == todo[1].op
           p == binop_precedence
           r == Tail(todo)
<1>1. /\ phase = "parsing" /\ todo # << >> /\ todo[1].what = "precedence" /\ r \in Seq(Items)
      /\ Stacked(todo, out, tok, at, p) /\ Exprs(out) /\ Table(p)
      /\ at \in Nat /\ at' \in Nat /\ at' >= 1 /\ at <= at' /\ definitions \in 0 .. MaxDefinitions
      /\ out = << >> /\ c \in Ascii /\ r # << >> /\ r[1] = Expect("(")
  BY Ready, Here, There, Before
<1>2. /\ p' = [d \in DOMAIN p \cup {c} |-> IF d = c THEN prec ELSE p[d]]
      /\ definitions' = definitions + 1 /\ todo' = r /\ UNCHANGED <<phase, out, errors>>
  BY DEF Insert
<1>3. Table(p')
  BY <1>1, <1>2 DEF Table
<1>4. definitions' \in 0 .. MaxDefinitions
  <2>1. Counted(todo, tok, definitions)
    BY DEF ParserInv
  <2>2. definitions # MaxDefinitions
    BY <1>1, <2>1 DEF Counted, Pending
  <2> QED BY <1>1, <1>2, <2>2, BoundsAssumption
<1>5. todo[1].what \notin Operands \cup Halves \cup Ends \cup {"rhs"}
  BY <1>1 DEF Operands, Halves, Ends
<1>6. (\E h, d \in Nat : Formed(r, out, at', p, h, d)) /\ r[1].what \notin Special
  BY <1>1, <1>5, Under
<1> HIDE DEF c, p, r
<1>7. PICK h, d \in Nat : Formed(r, << >>, at', p, h, d)
  BY <1>1, <1>6
<1>8. Formed(r, << >>, at', p', h, d)
  BY <1>1, <1>7, Repriced
<1>9. Stacked(r, << >>, tok', at', p')
  <2>1. Exprs(<< >>)
    BY <1>1
  <2> QED BY <1>1, <1>6, <1>8, <2>1, Settled
<1>10. Counted(r, tok', definitions')
  <2>1. ~Pending(r)
    BY <1>6 DEF Pending, Special
  <2> QED BY <1>1, <2>1 DEF Counted
<1>11. Right(<< >>, p')
  <2>1. Len(<< >>) = 0 /\ 1 .. 0 = {}
    BY EmptySeq
  <2> QED BY <2>1 DEF Right
<1>12. InOrder(out, at')
  BY There
<1> QED BY <1>1, <1>2, <1>3, <1>4, <1>9, <1>10, <1>11, <1>12 DEF ParserInv, Moved, p

LEMMA Precedence_step ==
  ASSUME ParserInv, Precedence
  PROVE  ParserInv'
<1> DEFINE c == todo[1].op
<1>1. Next_to_do("precedence")
  BY DEF Precedence
<1>2. Head(todo) = todo[1] /\ todo[1].what = "precedence" /\ todo # << >>
  BY <1>1, Ready
<1>3. \/ \E prec \in 1 .. 100 : Insert(c, prec) /\ consume_token
      \/ Insert(c, 30) /\ UNCHANGED <<tok, at, cost>>
      \/ Error
      \/ Panic
  BY <1>2 DEF Precedence
<1>4. Reading(tok, at, cost) /\ definitions \in 0 .. MaxDefinitions /\ Counted(todo, tok, definitions)
  BY DEF ParserInv
<1>5. Moved \/ ~(consume_token \/ UNCHANGED <<tok, at, cost>>)
  <2>1. CASE consume_token
    <3>1. Line \in SUBSET Line /\ 0 \in {0, Odd} /\ consume(Line, 0)
      BY <2>1 DEF consume_token
    <3> QED BY <1>4, <3>1, Read_on
  <2>2. CASE UNCHANGED <<tok, at, cost>>
    <3>1. definitions # MaxDefinitions
      BY <1>2, <1>4 DEF Counted, Pending
    <3>2. at <= at
      BY Here
    <3>3. Reading(tok', at', cost')
      BY <1>4, <2>2
    <3> QED BY <2>2, <3>1, <3>2, <3>3 DEF Moved
  <2> QED BY <2>1, <2>2
<1>6. 30 \in 1 .. 100
  OBVIOUS
<1> QED BY <1>1, <1>3, <1>5, <1>6, Inserted, Fails, Panics

-------------------------------------------------------------------------------
(* The line.                                                               *)

LEMMA Read_step ==
  ASSUME ParserInv, Read
  PROVE  ParserInv'
<1>1. /\ todo = << >> /\ out = << >> /\ phase' = "parsing" /\ errors' \in BOOLEAN
      /\ Look(Line, 0) /\ at' = 1
      /\ UNCHANGED <<todo, out, binop_precedence, definitions>>
  BY DEF Read, ParserInv
<1>2. /\ Eof \notin Token /\ Eof # "binary" /\ Line \subseteq Token
      /\ "binary" \in Line => definitions # MaxDefinitions
  BY TokenAssumption DEF Eof, Line
<1>3. MaxCost \in Nat /\ 1 \in Places /\ 0 \in 0 .. MaxCost
  BY BoundsAssumption DEF Places
<1>4. PICK t \in {Eof} \cup {u \in Line : 0 + Cost[u] <= MaxCost} :
        tok' = t /\ cost' = IF t = Eof THEN 0 ELSE 0 + Cost[t]
  BY <1>1 DEF Look
<1>5. Reading(tok', at', cost') /\ (tok' = "binary" => definitions # MaxDefinitions)
  <2>1. CASE t = Eof
    BY <1>1, <1>2, <1>3, <1>4, <2>1 DEF Reading
  <2>2. CASE t # Eof
    <3>1. t \in Line /\ t \in Token /\ 0 + Cost[t] <= MaxCost /\ cost' = 0 + Cost[t] /\ tok' = t
      BY <1>2, <1>4, <2>2
    <3>2. Cost[t] \in Nat \ {0}
      BY <3>1, BoundsAssumption
    <3>3. cost' \in 0 .. MaxCost /\ 1 <= cost'
      BY <1>3, <3>1, <3>2
    <3> QED BY <1>1, <1>2, <1>3, <2>2, <3>1, <3>3 DEF Reading
  <2> QED BY <2>1, <2>2
<1>6. InOrder(out, at')
  <2>1. Len(out) = 0 /\ 1 .. 0 = {}
    BY <1>1, EmptySeq
  <2> QED BY <2>1 DEF InOrder
<1>7. Counted(todo', tok', definitions)
  BY <1>1, <1>5 DEF Counted, Pending
<1>8. Stacked(todo', out', tok', at', binop_precedence')
  BY <1>1 DEF Stacked
<1> QED BY <1>1, <1>5, <1>6, <1>7, <1>8 DEF ParserInv

\* A declaration is handed on.
LEMMA Push_step ==
  ASSUME ParserInv, Push_declaration
  PROVE  ParserInv'
<1>1. PICK w \in {"declared", "evaluated"} : Next_to_do(w)
  BY DEF Push_declaration
<1>2. phase = "parsing" /\ todo # << >> /\ todo[1].what = w
  BY <1>1, Ready
<1>3. /\ todo' = << >> /\ out' = << >> /\ cost' = Spent(Odd)
      /\ UNCHANGED <<phase, tok, at, errors, binop_precedence, definitions>>
  BY DEF Push_declaration
<1>4. Reading(tok, at, cost) /\ Counted(todo, tok, definitions) /\ errors \in BOOLEAN
  BY DEF ParserInv
<1>5. tok = "binary" => definitions # MaxDefinitions
  <2>1. Expect("(").what = "token"
    BY DEF Expect
  <2> QED BY <1>2, <1>4, <2>1 DEF Counted
<1>6. Reading(tok', at', cost')
  <2>1. cost \in 0 .. MaxCost /\ MaxCost \in Nat /\ Odd \in Nat /\ at \in Nat
    BY <1>4, BoundsAssumption, Here DEF Reading
  <2>2. cost' \in 0 .. MaxCost /\ cost <= cost'
    BY <1>3, <2>1 DEF Spent
  <2> QED BY <1>3, <1>4, <2>1, <2>2 DEF Reading
<1>7. Moved
  <2>1. at <= at
    BY Here
  <2> QED BY <1>3, <1>5, <1>6, <2>1 DEF Moved
<1> QED BY <1>2, <1>3, <1>4, <1>7, Given_up

LEMMA End_step ==
  ASSUME ParserInv, End_of_line
  PROVE  ParserInv'
<1>1. /\ todo = << >> /\ out = << >> /\ tok = Eof /\ phase' = "prompt" /\ errors' = FALSE
      /\ at' = 1 /\ cost' = 0
      /\ UNCHANGED <<tok, todo, out, binop_precedence, definitions>>
  BY DEF End_of_line, ParserInv
<1>2. Reading(tok', at', cost')
  <2>1. 1 \in Places /\ 0 \in 0 .. MaxCost /\ 1 <= 0 + 1
    BY BoundsAssumption DEF Places
  <2> QED BY <1>1, <2>1 DEF Reading
<1>3. InOrder(out, at')
  <2>1. Len(out) = 0 /\ 1 .. 0 = {}
    BY <1>1, EmptySeq
  <2> QED BY <2>1 DEF InOrder
<1>4. Counted(todo', tok', definitions)
  <2>1. Eof # "binary"
    BY DEF Eof
  <2> QED BY <1>1, <2>1 DEF Counted, Pending
<1>5. Stacked(todo', out', tok', at', binop_precedence')
  BY <1>1 DEF Stacked
<1> QED BY <1>1, <1>2, <1>3, <1>4, <1>5 DEF ParserInv

\* What a declaration is made of, as one stack.
LEMMA Few ==
  ASSUME NEW S, NEW x \in S, NEW y \in S, NEW z \in S
  PROVE  /\ <<x, y>> = <<x>> \o <<y>>
         /\ <<x, y, z>> = <<x>> \o <<y, z>>
<1>1. << >> \in Seq(S)
  BY EmptySeq
<1>2. \A s \in Seq(S) : s \o << >> = s
  BY ConcatEmptySeq
<1>3. <<y>> \in Seq(S) /\ <<x, y>> \in Seq(S) /\ <<y, z>> \in Seq(S) /\ <<x, y, z>> \in Seq(S)
  OBVIOUS
<1>4. <<x, y>> \o << >> = <<x>> \o (<<y>> \o << >>)
  BY <1>1, Pair
<1>5. <<x, y, z>> \o << >> = <<x>> \o (<<y, z>> \o << >>)
  BY <1>1, Triple
<1> QED BY <1>2, <1>3, <1>4, <1>5

LEMMA Declaration_step ==
  ASSUME ParserInv, Declaration
  PROVE  ParserInv'
<1> DEFINE p == binop_precedence
           d == Do("declared")
           e == [Do("evaluated") EXCEPT !.n = at]
           h == Do("prototype")
           k == Do("block")
<1>1. /\ phase = "parsing" /\ todo = << >> /\ tok # Eof /\ out = << >>
      /\ IF tok \in {"def", "extern"} THEN consume_token ELSE UNCHANGED <<tok, at, cost>>
      /\ todo' = CASE tok = "def" -> <<h, k, d>>
                   [] tok = "extern" -> <<h, d>>
                   [] OTHER -> Expr \o <<e>>
      /\ UNCHANGED <<phase, out, errors, binop_precedence, definitions>>
  BY DEF Declaration, ParserInv
<1>2. /\ Reading(tok, at, cost) /\ Counted(todo, tok, definitions) /\ at \in Places
      /\ at \in Nat /\ at >= 1 /\ definitions \in 0 .. MaxDefinitions
  BY Here DEF ParserInv
<1>3. Moved
  <2>1. CASE tok \in {"def", "extern"}
    <3>1. Line \in SUBSET Line /\ 0 \in {0, Odd} /\ consume(Line, 0)
      BY <1>1, <2>1 DEF consume_token
    <3> QED BY <1>2, <3>1, Read_on
  <2>2. CASE tok \notin {"def", "extern"}
    <3>1. UNCHANGED <<tok, at, cost>>
      BY <1>1, <2>2
    <3>2. tok = "binary" => definitions # MaxDefinitions
      BY <1>1, <1>2 DEF Counted
    <3>3. Reading(tok', at', cost') /\ at <= at
      BY <1>2, <3>1
    <3> QED BY <3>1, <3>2, <3>3 DEF Moved
  <2> QED BY <2>1, <2>2
<1>4. at' \in Places /\ at' \in Nat /\ at' >= 1 /\ at <= at' /\ InOrder(out, at')
  BY <1>3, There
<1>5. /\ d \in Items /\ d.what = "declared" /\ h \in Items /\ h.what = "prototype"
      /\ k \in Items /\ k.what = "block"
  <2>1. "declared" \in Calls /\ "prototype" \in Calls /\ "block" \in Calls
    BY DEF Calls
  <2> QED BY <2>1, Things, Zenon
<1>6. e \in Items /\ e.what = "evaluated" /\ e.n = at
  <2>1. 0 \in 0 .. 101 \cup Places
    OBVIOUS
  <2>2. "evaluated" \in Calls
    BY DEF Calls
  <2>3. Do("evaluated") \in [what : Calls, op : About, n : 0 .. 101 \cup Places]
        /\ Do("evaluated").what = "evaluated"
    BY <2>2, Things, Zenon DEF Items
  <2> DEFINE x == Do("evaluated")
  <2>4. x \in [what : Calls, op : About, n : 0 .. 101 \cup Places] /\ x.what = "evaluated"
    BY <2>3
  <2>5. at \in 0 .. 101 \cup Places
    BY <1>2
  <2> HIDE DEF x
  <2>6. /\ [x EXCEPT !.n = at] \in [what : Calls, op : About, n : 0 .. 101 \cup Places]
        /\ [x EXCEPT !.n = at].what = "evaluated" /\ [x EXCEPT !.n = at].n = at
    BY <2>4, <2>5
  <2> QED BY <2>6 DEF Items, x
<1> HIDE DEF d, e, h, k
<1>7. Exprs(<< >>)
  BY <1>1, Here
\* What comes out of it.
<1>8. ASSUME NEW w, todo' = w, w \in Seq(Items), w # << >>, ~Pending(w), Stacked(w, << >>, tok', at', p)
      PROVE  ParserInv'
  <2>1. Counted(todo', tok', definitions)
    BY <1>3, <1>8 DEF Counted, Moved
  <2>2. Exprs(out') /\ Right(out', binop_precedence)
    BY <1>1, Here
  <2> QED BY <1>1, <1>3, <1>4, <1>8, <2>1, <2>2 DEF ParserInv, Moved
<1>9. ASSUME NEW r, NEW i \in Nat, NEW j \in Nat, Formed(r, << >>, at', p, i, j), r[1].what \notin Special,
             todo' = <<h>> \o r
      PROVE  ParserInv'
  <2>1. Stacked(<<h>> \o r, << >>, tok', at', p) /\ (<<h>> \o r)[1] = h
    BY <1>4, <1>5, <1>9, Heading
  <2>2. r \in Seq(Items)
    BY <1>9, Innermost
  <2>3. <<h>> \o r \in Seq(Items) /\ <<h>> \o r # << >>
    <3> DEFINE w == <<h>> \o r
    <3>1. w \in Seq(Items) /\ Len(w) = Len(r) + 1 /\ Len(r) \in Nat
      BY <1>5, <2>2, Prefix
    <3> HIDE DEF w
    <3>2. Len(w) # 0
      BY <3>1
    <3>3. w # << >>
      BY <3>2, EmptySeq
    <3> QED BY <3>1, <3>3 DEF w
  <2>4. ~Pending(<<h>> \o r)
    BY <1>5, <2>1 DEF Pending
  <2> DEFINE w == <<h>> \o r
  <2>5. todo' = w /\ w \in Seq(Items) /\ w # << >> /\ ~Pending(w) /\ Stacked(w, << >>, tok', at', p)
    BY <1>9, <2>1, <2>3, <2>4
  <2> HIDE DEF w
  <2> QED BY <1>8, <2>5
<1>10. Formed(<<d>>, << >>, at', p, 0, at') /\ <<d>>[1] = d
  <2>1. at' \in 1 .. at' /\ d.what \in Ends /\ d.what # "evaluated"
    BY <1>4, <1>5 DEF Ends
  <2> QED BY <1>4, <1>5, <2>1, Bottom
<1>11. 0 \in Nat /\ at' \in Nat
  BY <1>4
<1>12. CASE tok = "def"
  <2>1. Item(k, << >>, at', p, 0, at')
    <3>1. Item(d, << >>, at', p, 0, at')
      BY <1>10, Innermost
    <3> QED BY <1>5, <3>1 DEF Item, Halves
  <2>2. Link(k, 0, at', d, 0, at', << >>, p)
    <3>1. d.what \notin Special /\ k.what \notin Halves /\ k.what # "precedence"
      BY <1>5 DEF Special, Halves
    <3>2. 0 <= 0 /\ at' <= at'
      BY <1>4
    <3> QED BY <3>1, <3>2, Inner
  <2>3. Formed(<<k>> \o <<d>>, << >>, at', p, 0, at') /\ (<<k>> \o <<d>>)[1] = k
    BY <1>5, <1>10, <1>11, <2>1, <2>2, Pushed
  <2>4. <<h, k, d>> = <<h>> \o (<<k>> \o <<d>>)
    <3>1. <<k, d>> = <<k>> \o <<d>>
      BY <1>5, Few
    <3>2. <<h, k, d>> = <<h>> \o <<k, d>>
      BY <1>5, Few
    <3> QED BY <3>1, <3>2
  <2>5. todo' = <<h, k, d>>
    BY <1>1, <1>12
  <2> DEFINE r == <<k>> \o <<d>>
  <2>6. Formed(r, << >>, at', p, 0, at') /\ r[1].what \notin Special /\ todo' = <<h>> \o r
    BY <1>5, <2>3, <2>4, <2>5 DEF Special
  <2> HIDE DEF r
  <2> QED BY <1>9, <1>11, <2>6
<1>13. CASE tok = "extern"
  <2>1. todo' = <<h, d>> /\ <<h, d>> = <<h>> \o <<d>>
    <3>1. todo' = <<h, d>>
      BY <1>1, <1>13
    <3>2. <<h, d>> = <<h>> \o <<d>>
      BY <1>5, Few
    <3> QED BY <3>1, <3>2
  <2> DEFINE r == <<d>>
  <2>2. Formed(r, << >>, at', p, 0, at') /\ r[1].what \notin Special /\ todo' = <<h>> \o r
    BY <1>5, <1>10, <2>1 DEF Special
  <2> HIDE DEF r
  <2> QED BY <1>9, <1>11, <2>2
<1>14. CASE tok \notin {"def", "extern"}
  <2> DEFINE r == <<e>>
             u == Do("unary")
             y == Rhs(0)
             w == <<u, y>> \o r
  <2>1. tok' = tok /\ at' = at /\ todo' = w
    BY <1>1, <1>14 DEF Expr
  <2>2. Formed(r, << >>, at', p, 0, at') /\ r[1] = e
    <3>1. at' \in 1 .. at' /\ e.what \in Ends /\ e.n = at'
      BY <1>4, <1>6, <2>1 DEF Ends
    <3> QED BY <1>4, <1>6, <3>1, Bottom
  <2>3. r \in Seq(Items)
    BY <2>2, Innermost
  <2> HIDE DEF r
  <2>4. Stacked(w, << >>, tok', at', p)
    <3>1. Len(<< >>) = 0
      BY EmptySeq
    <3> QED BY <1>4, <1>6, <1>7, <2>2, <3>1, Expr_begun
  <2>5. u \in Items /\ u.what = "unary" /\ y \in Items
    <3>1. "unary" \in Calls
      BY DEF Calls
    <3>2. u \in Items /\ u.what = "unary"
      BY <3>1, Things, Zenon
    <3>3. 0 \in 0 .. 101
      OBVIOUS
    <3> QED BY <3>2, <3>3, Things
  <2> HIDE DEF u, y
  <2>6. w \in Seq(Items) /\ w # << >> /\ w[1] = u
    <3> DEFINE s == <<u, y>>
    <3>1. s \in Seq(Items) /\ Len(s) = 2 /\ s[1] = u
      BY <2>5
    <3> HIDE DEF s
    <3>2. /\ s \o r \in Seq(Items) /\ Len(s \o r) = Len(s) + Len(r) /\ Len(r) \in Nat
          /\ \A i \in 1 .. Len(s) : (s \o r)[i] = s[i]
      BY <2>3, <3>1, Joined_items, Zenon
    <3> DEFINE v == s \o r
    <3>3. v \in Seq(Items) /\ Len(v) = 2 + Len(r) /\ Len(r) \in Nat /\ v[1] = u
      BY <3>1, <3>2
    <3> HIDE DEF v
    <3>4. Len(v) # 0
      BY <3>3
    <3>5. v # << >>
      BY <3>4, EmptySeq
    <3> QED BY <3>3, <3>5 DEF v, s
  <2>7. ~Pending(w)
    BY <2>5, <2>6 DEF Pending
  <2> HIDE DEF w
  <2> QED BY <1>8, <2>1, <2>4, <2>6, <2>7
<1> QED BY <1>12, <1>13, <1>14

-------------------------------------------------------------------------------
(* The steps that are about expressions.                                    *)

LEMMA At_top ==
  ASSUME ParserInv, NEW w, Next_to_do(w)
  PROVE  \E g, b \in Nat : /\ Formed(todo, out, at, binop_precedence, g, b)
                           /\ Top(todo[1], out, tok, at, binop_precedence, g, b)
BY Ready, Here DEF Stacked

LEMMA Stays ==
  ASSUME ParserInv, NEW w, Next_to_do(w), w # "token", UNCHANGED <<tok, at, cost>>
  PROVE  Moved
<1>1. Reading(tok, at, cost) /\ Counted(todo, tok, definitions) /\ todo[1].what = w
  BY Ready DEF ParserInv
<1>2. Expect("(").what = "token"
  BY DEF Expect
<1>3. tok = "binary" => definitions # MaxDefinitions
  BY <1>1, <1>2 DEF Counted
<1>4. Reading(tok', at', cost') /\ at <= at'
  BY <1>1, Here
<1> QED BY <1>3, <1>4 DEF Moved

\* A token was there to be taken.
LEMMA Advanced ==
  ASSUME ParserInv, tok # Eof, NEW s, Take(s)
  PROVE  /\ Moved /\ at' = at + 1 /\ todo' = s \o Tail(todo)
         /\ UNCHANGED <<phase, out, errors, binop_precedence, definitions>>
         /\ Exprs(out') /\ InOrder(out', at') /\ Right(out', binop_precedence)
<1>1. /\ Moved /\ at' = at + 1 /\ todo' = s \o Tail(todo)
      /\ UNCHANGED <<phase, out, errors, binop_precedence, definitions>>
  BY Taken
<1> QED BY <1>1, Here, There

\* The first two things of an expression.
LEMMA Both ==
  ASSUME NEW x \in Items, x.what \notin {"operator", "precedence"}, NEW y \in Items
  PROVE  /\ <<x, y>> \in Seq(Items)
         /\ <<x, y>> # << >> => <<x, y>>[1].what \notin {"operator", "precedence"}
OBVIOUS

LEMMA Begun ==
  /\ Do("unary") \in Items /\ Do("unary").what = "unary"
  /\ Do("post") \in Items /\ Do("post").what = "post"
  /\ Rhs(0) \in Items
<1>1. "unary" \in Calls /\ "post" \in Calls
  BY DEF Calls
<1>2. /\ Do("unary") \in Items /\ Do("unary").what = "unary"
      /\ Do("post") \in Items /\ Do("post").what = "post"
  BY <1>1, Things, Zenon
<1>3. 0 \in 0 .. 101
  OBVIOUS
<1> QED BY <1>2, <1>3, Things

LEMMA Expr_step ==
  ASSUME ParserInv, parse_expr
  PROVE  ParserInv'
<1> DEFINE u == Do("unary")
           y == Rhs(0)
<1>1. Next_to_do("expr") /\ Leave(<<u, y>>)
  BY DEF parse_expr, Expr
<1>2. phase = "parsing" /\ todo # << >> /\ todo[1].what = "expr"
  BY <1>1, Ready
<1>3. /\ Moved /\ tok' = tok /\ at' = at /\ todo' = <<u, y>> \o Tail(todo)
      /\ UNCHANGED <<phase, out, errors, binop_precedence, definitions>>
  BY <1>1, <1>2, Stayed
<1>4. todo[1].what \notin Operands \cup Halves \cup Ends \cup {"rhs"}
  BY <1>2 DEF Operands, Halves, Ends
<1>5. /\ at \in Nat /\ at >= 1 /\ Exprs(out) /\ Stacked(todo, out, tok, at, binop_precedence) /\ at <= at
      /\ InOrder(out, at) /\ Right(out, binop_precedence)
  BY Here
<1>6. (\E h, c \in Nat : Formed(Tail(todo), out, at, binop_precedence, h, c)) /\ Tail(todo)[1].what \notin Special
  BY <1>2, <1>4, <1>5, Under
<1>7. PICK h, c \in Nat : Formed(Tail(todo), out, at, binop_precedence, h, c)
  BY <1>6
<1>8. Stacked(<<u, y>> \o Tail(todo), out, tok, at, binop_precedence)
  BY <1>5, <1>6, <1>7, Expr_begun
<1>9. u \in Items /\ u.what \notin {"operator", "precedence"} /\ y \in Items
  BY Begun
<1> HIDE DEF u, y
<1>10. <<u, y>> \in Seq(Items) /\ (<<u, y>> # << >> => <<u, y>>[1].what \notin {"operator", "precedence"})
  BY <1>9, Both
<1> DEFINE s == <<u, y>>
<1>11. /\ s \in Seq(Items) /\ (s # << >> => s[1].what \notin {"operator", "precedence"})
       /\ todo' = s \o Tail(todo) /\ Stacked(s \o Tail(todo), out', tok', at', binop_precedence)
  BY <1>3, <1>8, <1>10
<1>12. todo[1].what \notin Ends /\ Exprs(out') /\ InOrder(out', at') /\ Right(out', binop_precedence)
  BY <1>3, <1>4, <1>5
<1> HIDE DEF s
<1> QED BY <1>2, <1>3, <1>11, <1>12, Goes_on

LEMMA Unary_step ==
  ASSUME ParserInv, parse_unary
  PROVE  ParserInv'
<1> DEFINE u == Do("unary")
           y == Close(at)
           s == <<u, y>>
<1>1. Next_to_do("unary") /\ tok \in Ascii /\ Take(s)
  BY DEF parse_unary
<1>2. phase = "parsing" /\ todo # << >> /\ todo[1].what = "unary" /\ todo[1].what \notin Ends
  BY <1>1, Ready DEF Ends
<1>3. tok # Eof
  BY <1>1, TokenAssumption DEF Ascii
<1>4. /\ at \in Places /\ Exprs(out) /\ InOrder(out, at)
  BY Here
<1>5. PICK g, b \in Nat : /\ Formed(todo, out, at, binop_precedence, g, b)
                          /\ Top(todo[1], out, tok, at, binop_precedence, g, b)
  BY <1>1, At_top
<1>6. Stacked(s \o Tail(todo), out, tok', at + 1, binop_precedence)
  BY <1>2, <1>4, <1>5, Unary_begun
<1>7. u \in Items /\ u.what \notin {"operator", "precedence"} /\ y \in Items
  BY <1>4, Begun, Things
<1> HIDE DEF u, y
<1>8. s \in Seq(Items) /\ (s # << >> => s[1].what \notin {"operator", "precedence"})
  BY <1>7, Both
<1> HIDE DEF s
<1>9. /\ Moved /\ at' = at + 1 /\ todo' = s \o Tail(todo)
      /\ UNCHANGED <<phase, out, errors, binop_precedence, definitions>>
      /\ Exprs(out') /\ InOrder(out', at') /\ Right(out', binop_precedence)
  BY <1>1, <1>3, Advanced
<1>10. Stacked(s \o Tail(todo), out', tok', at', binop_precedence)
  BY <1>6, <1>9
<1> QED BY <1>2, <1>8, <1>9, <1>10, Goes_on

\* A primary expression, or more of one: the items s, and then it is closed.
LEMMA Primary_next ==
  ASSUME ParserInv, NEW w \in {"unary", "post"}, Next_to_do(w), tok # Eof,
         NEW g \in Nat, NEW b \in Nat, Formed(todo, out, at, binop_precedence, g, b),
         Top(todo[1], out, tok, at, binop_precedence, g, b),
         NEW s, Calm(s, at'), Take(s \o <<Close(b), Do("post")>>)
  PROVE  ParserInv'
<1> DEFINE y == Close(b)
           z == Do("post")
           v == <<y, z>>
           w2 == s \o v
           r == Tail(todo)
<1>1. /\ phase = "parsing" /\ todo # << >> /\ todo[1].what \in {"unary", "post"}
      /\ todo[1].what \notin Ends /\ r \in Seq(Items)
  BY Ready DEF Ends
<1>2. at \in Places /\ at \in Nat /\ Exprs(out) /\ InOrder(out, at)
  BY Here
<1>3. b \in Places
  <2>1. Item(todo[1], out, at, binop_precedence, g, b)
    BY Innermost
  <2>2. b \in 1 .. at
    BY <2>1 DEF Item
  <2> QED BY <1>2, <2>2, BoundsAssumption DEF Places
<1>4. y \in Items /\ y.what = "close" /\ z \in Items
  BY <1>3, Begun, Things
<1>5. /\ Moved /\ at' = at + 1 /\ todo' = w2 \o r
      /\ UNCHANGED <<phase, out, errors, binop_precedence, definitions>>
      /\ Exprs(out') /\ InOrder(out', at') /\ Right(out', binop_precedence)
  BY Advanced
<1>6. s \in Seq(Items) /\ \A k \in 1 .. Len(s) : Quiet(s[k], at + 1)
  BY <1>5 DEF Calm
<1>7. Stacked(s \o (v \o r), out, tok', at + 1, binop_precedence)
  BY <1>1, <1>2, <1>6, Primary_begun
<1> HIDE DEF y, z
<1>8. v \in Seq(Items) /\ v # << >> /\ v[1] = y
  BY <1>4
<1> HIDE DEF v
<1>9. w2 \o r = s \o (v \o r) /\ w2 \in Seq(Items)
  <2>1. s \in Seq(Items) /\ v \in Seq(Items) /\ r \in Seq(Items)
    BY <1>1, <1>6, <1>8
  <2> HIDE DEF r
  <2>2. (s \o v) \o r = s \o (v \o r)
    BY <2>1, ConcatAssociative
  <2>3. s \o v \in Seq(Items)
    BY <2>1, ConcatProperties
  <2> QED BY <2>2, <2>3
<1>10. w2[1].what \notin {"operator", "precedence"}
  <2>1. CASE s = << >>
    <3>1. w2 = v
      BY <1>8, <2>1, ConcatEmptySeq
    <3> QED BY <1>4, <1>8, <3>1
  <2>2. CASE s # << >>
    <3>1. Len(s) \in Nat /\ Len(s) >= 1
      BY <1>6, <2>2, Parts
    <3>2. \A k \in 1 .. Len(s) : w2[k] = s[k]
      BY <1>6, <1>8, Joined
    <3> HIDE DEF w2
    <3>3. w2[1] = s[1] /\ Quiet(s[1], at + 1)
      BY <1>6, <3>1, <3>2
    <3> QED BY <3>3 DEF Quiet, Special
  <2> QED BY <2>1, <2>2
<1> HIDE DEF w2
<1>11. Stacked(w2 \o r, out', tok', at', binop_precedence)
  BY <1>5, <1>7, <1>9
<1> QED BY <1>1, <1>5, <1>9, <1>10, <1>11, Goes_on DEF r

\* What comes after the first token of a primary expression is about none that is complete.
LEMMA Rest_calm ==
  ASSUME tok \in Number \cup {Identifier, "(", "[", "if", "for", "var"}, NEW a
  PROVE  Calm(Rest_of_primary, a)
<1>1. /\ "(" \in About /\ ")" \in About /\ "]" \in About /\ "," \in About /\ "=" \in About
      /\ "then" \in About /\ "else" \in About /\ "in" \in About /\ Identifier \in About
  BY Words
<1>2. Calm(parse_number, a)
  BY Calm_few DEF parse_number
<1>3. Calm(<<Maybe("(", "call")>>, a)
  BY Named, Calm_few
<1>4. Calm(parse_paren, a) /\ Calm(parse_square_brackets, a)
  BY <1>1, Named, Calm_few DEF parse_paren, parse_square_brackets
<1>5. Calm(parse_if, a)
  <2>1. Quiet(Do("expr"), a) /\ Quiet(Do("block"), a) /\ Quiet(Expect("then"), a) /\ Quiet(Expect("else"), a)
    BY <1>1, Named
  <2> QED BY <2>1, Calm_five DEF parse_if
<1>6. Calm(parse_for, a)
  <2>1. /\ Quiet(Expect(Identifier), a) /\ Quiet(Expect("="), a) /\ Quiet(Do("expr"), a)
        /\ Quiet(Expect(","), a) /\ Quiet(Maybe(",", "expr?"), a) /\ Quiet(Expect("in"), a)
        /\ Quiet(Do("block"), a)
    BY <1>1, Named
  <2> QED BY <2>1, Calm_eight DEF parse_for
<1>7. Calm(<<Do("var"), Expect("in"), Do("block")>>, a)
  BY <1>1, Named, Calm_few
<1>8. \/ Rest_of_primary = parse_number \/ Rest_of_primary = <<Maybe("(", "call")>>
      \/ Rest_of_primary = parse_paren \/ Rest_of_primary = parse_square_brackets
      \/ Rest_of_primary = parse_if \/ Rest_of_primary = parse_for
      \/ Rest_of_primary = <<Do("var"), Expect("in"), Do("block")>>
  BY DEF Rest_of_primary
<1> QED BY <1>2, <1>3, <1>4, <1>5, <1>6, <1>7, <1>8

LEMMA Primary_step ==
  ASSUME ParserInv, parse_primary
  PROVE  ParserInv'
<1>1. Next_to_do("unary")
  BY DEF parse_primary
<1>2. \/ /\ tok \in Number \cup {Identifier, "(", "[", "if", "for", "var"}
         /\ Take(Rest_of_primary \o <<Close(at), Do("post")>>)
      \/ Error
  BY DEF parse_primary
<1>3. ASSUME tok \in Number \cup {Identifier, "(", "[", "if", "for", "var"},
             Take(Rest_of_primary \o <<Close(at), Do("post")>>)
      PROVE  ParserInv'
  <2>1. tok # Eof
    <3>1. DOMAIN Value = {"0", "5", "50"}
      BY DEF Value
    <3> QED BY <1>3, <3>1 DEF Number, Identifier, Eof
  <2>2. PICK g, b \in Nat : /\ Formed(todo, out, at, binop_precedence, g, b)
                            /\ Top(todo[1], out, tok, at, binop_precedence, g, b)
    BY <1>1, At_top
  <2>3. b = at
    BY <1>1, <2>2, Ready DEF Top
  <2>4. Calm(Rest_of_primary, at')
    BY <1>3, Rest_calm
  <2>5. "unary" \in {"unary", "post"}
    OBVIOUS
  <2> DEFINE s == Rest_of_primary
  <2>6. Calm(s, at') /\ Take(s \o <<Close(b), Do("post")>>)
    BY <1>3, <2>3, <2>4
  <2> HIDE DEF s
  <2> QED BY <1>1, <2>1, <2>2, <2>5, <2>6, Primary_next
<1> QED BY <1>1, <1>2, <1>3, Fails

LEMMA Post_step ==
  ASSUME ParserInv, parse_post_primary
  PROVE  ParserInv'
<1> DEFINE f == Last(out).first
           y == Close(f)
           z == Do("post")
           v == <<y, z>>
<1>1. Next_to_do("post")
  BY DEF parse_post_primary
<1>2. \/ tok = "." /\ Take(<<Do("field"), y, z>>)
      \/ tok = "[" /\ Take(<<Do("expr"), Expect("]"), y, z>>)
      \/ Leave(<< >>)
  BY DEF parse_post_primary
<1>3. /\ phase = "parsing" /\ todo # << >> /\ todo[1].what = "post" /\ todo[1].what \notin Ends
      /\ todo[1].what # "token" /\ Tail(todo) \in Seq(Items)
  BY <1>1, Ready DEF Ends
<1>4. PICK g, b \in Nat : /\ Formed(todo, out, at, binop_precedence, g, b)
                          /\ Top(todo[1], out, tok, at, binop_precedence, g, b)
  BY <1>1, At_top
<1>5. f = b
  <2>1. Len(out) = g + 1 /\ b = out[g + 1].first
    BY <1>3, <1>4 DEF Top
  <2> QED BY <2>1 DEF Last
<1>6. y \in Items /\ z \in Items
  <2>1. b \in Places
    <3>1. Item(todo[1], out, at, binop_precedence, g, b)
      BY <1>4, Innermost
    <3>2. b \in 1 .. at
      BY <3>1 DEF Item
    <3> QED BY <3>2, Here, BoundsAssumption DEF Places
  <2>2. f \in Places
    BY <1>5, <2>1
  <2> HIDE DEF f
  <2> QED BY <2>2, Begun, Things
<1>7. y = Close(b) /\ z = Do("post")
  BY <1>5
<1> HIDE DEF f, y, z
<1>8. v \in Seq(Items)
  BY <1>6
<1>9. ASSUME NEW s, Calm(s, at'), Take(s \o v), tok # Eof
      PROVE  ParserInv'
  <2>1. Take(s \o <<Close(b), Do("post")>>)
    BY <1>7, <1>9
  <2>2. "post" \in {"unary", "post"}
    OBVIOUS
  <2> QED BY <1>1, <1>4, <1>9, <2>1, <2>2, Primary_next
<1>10. CASE tok = "." /\ Take(<<Do("field"), y, z>>)
  <2> DEFINE x == Do("field")
             s == <<x>>
  <2>1. Quiet(x, at') /\ x \in Items
    BY Named DEF Quiet
  <2>2. Calm(s, at')
    BY <2>1, Calm_few
  <2> HIDE DEF x
  <2>3. <<x, y, z>> = s \o v
    BY <1>6, <2>1, Few
  <2>4. tok # Eof /\ Take(s \o v)
    BY <1>10, <2>3 DEF Eof, x
  <2> HIDE DEF s
  <2> QED BY <1>9, <2>2, <2>4
<1>11. CASE tok = "[" /\ Take(<<Do("expr"), Expect("]"), y, z>>)
  <2> DEFINE x == Do("expr")
             k == Expect("]")
             s == <<x, k>>
  <2>1. Quiet(x, at') /\ x \in Items /\ Quiet(k, at') /\ k \in Items
    <3>1. "]" \in About
      BY Words
    <3> QED BY <3>1, Named DEF Quiet
  <2>2. Calm(s, at')
    BY <2>1, Calm_few
  <2> HIDE DEF x, k
  <2>3. <<x, k, y, z>> = s \o v
    <3>1. << >> \in Seq(Items)
      BY EmptySeq
    <3>2. <<x, k, y, z>> \o << >> = <<x, k>> \o (<<y, z>> \o << >>)
      BY <1>6, <2>1, <3>1, Quadruple
    <3>3. <<x, k, y, z>> \in Seq(Items) /\ <<y, z>> \in Seq(Items)
      BY <1>6, <2>1
    <3> QED BY <3>2, <3>3, ConcatEmptySeq
  <2>4. tok # Eof /\ Take(s \o v)
    BY <1>11, <2>3 DEF Eof, x, k
  <2> HIDE DEF s
  <2> QED BY <1>9, <2>2, <2>4
<1>12. CASE Leave(<< >>)
  <2> DEFINE s == << >>
  <2>1. /\ Moved /\ tok' = tok /\ at' = at /\ todo' = s \o Tail(todo)
        /\ UNCHANGED <<phase, out, errors, binop_precedence, definitions>>
    BY <1>3, <1>12, Stayed
  <2>2. /\ at \in Nat /\ at >= 1 /\ Exprs(out) /\ Table(binop_precedence)
        /\ InOrder(out, at) /\ Right(out, binop_precedence)
    BY Here
  <2>3. Stacked(Tail(todo), out, tok, at, binop_precedence)
    BY <1>3, <1>4, <2>2, Post_done
  <2>4. s \in Seq(Items) /\ s \o Tail(todo) = Tail(todo)
    BY <1>3, ConcatEmptySeq, EmptySeq
  <2>5. s # << >> => s[1].what \notin {"operator", "precedence"}
    OBVIOUS
  <2> HIDE DEF s
  <2>6. Stacked(s \o Tail(todo), out', tok', at', binop_precedence)
    BY <2>1, <2>3, <2>4
  <2>7. Exprs(out') /\ InOrder(out', at') /\ Right(out', binop_precedence)
    BY <2>1, <2>2
  <2> QED BY <1>3, <2>1, <2>4, <2>5, <2>6, <2>7, Goes_on
<1> QED BY <1>2, <1>10, <1>11, <1>12

\* The expression e in the place of those after the first k.
LEMMA Exchanged ==
  ASSUME NEW o, Exprs(o), NEW k \in 0 .. Len(o), NEW e \in Trees
  PROVE  /\ Exprs(Append(SubSeq(o, 1, k), e)) /\ Len(Append(SubSeq(o, 1, k), e)) = k + 1
         /\ \A i \in 1 .. k : Append(SubSeq(o, 1, k), e)[i] = o[i]
         /\ Append(SubSeq(o, 1, k), e)[k + 1] = e
<1> DEFINE s == SubSeq(o, 1, k)
<1>1. o \in Seq(Trees) /\ Len(o) \in Nat
  BY Numbers DEF Exprs
<1>2. s \in Seq(Trees) /\ Len(s) = k /\ \A i \in 1 .. k : s[i] = o[i]
  BY <1>1
<1> HIDE DEF s
<1>3. /\ Append(s, e) \in Seq(Trees) /\ Len(Append(s, e)) = k + 1
      /\ \A i \in 1 .. k : Append(s, e)[i] = s[i]
      /\ Append(s, e)[k + 1] = e
  BY <1>2
<1> QED BY <1>2, <1>3 DEF Exprs, s

\* The same of every sequence of expressions.
LEMMA Exchanged_all ==
  \A o : Exprs(o) =>
    \A k \in 0 .. Len(o), e \in Trees :
      /\ Exprs(Append(SubSeq(o, 1, k), e)) /\ Len(Append(SubSeq(o, 1, k), e)) = k + 1
      /\ \A i \in 1 .. k : Append(SubSeq(o, 1, k), e)[i] = o[i]
      /\ Append(SubSeq(o, 1, k), e)[k + 1] = e
<1> TAKE o
<1> HAVE Exprs(o)
<1> TAKE k \in 0 .. Len(o), e \in Trees
<1> QED BY Exchanged

LEMMA Prefix_places ==
  ASSUME NEW n \in Nat, NEW k \in 0 .. n
  PROVE  /\ \A i \in 1 .. k : i \in 1 .. n /\ i \in 1 .. k + 1
         /\ \A i \in 1 .. k + 1 : i \in 1 .. k \/ i = k + 1
         /\ \A i, j \in 1 .. k + 1 : i < j => i \in 1 .. k
OBVIOUS

\* They are in order, and right.
LEMMA Exchanged_right ==
  ASSUME NEW o, Exprs(o), NEW a \in Nat, InOrder(o, a), NEW p, Right(o, p),
         NEW o2, NEW k \in 0 .. Len(o), Len(o2) = k + 1, \A i \in 1 .. k : o2[i] = o[i],
         NEW e \in Trees, o2[k + 1] = e, e.first <= e.last, e.last < a,
         \A i \in 1 .. k : o[i].last < e.first,
         e.op # "" => Firm(p, e.left) >= Firm(p, e.op) /\ Firm(p, e.right) > Firm(p, e.op)
  PROVE  InOrder(o2, a) /\ Right(o2, p)
<1>1. Len(o) \in Nat
  BY Numbers
<1>2. /\ \A i \in 1 .. k : i \in 1 .. Len(o) /\ i \in 1 .. k + 1
      /\ \A i \in 1 .. k + 1 : i \in 1 .. k \/ i = k + 1
      /\ \A i, j \in 1 .. k + 1 : i < j => i \in 1 .. k
  BY <1>1, Prefix_places
<1>3. /\ \A i \in 1 .. Len(o) : o[i].first <= o[i].last /\ o[i].last < a
      /\ \A i, j \in 1 .. Len(o) : i < j => o[i].last < o[j].first
  BY DEF InOrder
<1>4. \A i \in 1 .. Len(o2) : o2[i].first <= o2[i].last /\ o2[i].last < a
  BY <1>2, <1>3
<1>5. ASSUME NEW i \in 1 .. Len(o2), NEW j \in 1 .. Len(o2), i < j
      PROVE  o2[i].last < o2[j].first
  <2>1. i \in 1 .. k /\ o2[i] = o[i] /\ (j \in 1 .. k \/ j = k + 1)
    BY <1>2, <1>5
  <2>2. CASE j \in 1 .. k
    <3>1. o[i].last < o[j].first /\ o2[j] = o[j]
      BY <1>2, <1>3, <1>5, <2>1, <2>2
    <3> QED BY <2>1, <3>1
  <2>3. CASE j = k + 1
    <3>1. o2[j] = e
      BY <2>3
    <3> QED BY <2>1, <3>1
  <2> QED BY <2>1, <2>2, <2>3
<1>6. Right(o2, p)
  BY <1>2 DEF Right
<1> QED BY <1>4, <1>5, <1>6 DEF InOrder

\* close can always be taken when its turn comes: what was read before place n is a prefix
\* of out.
LEMMA Close_place ==
  ASSUME ParserInv, Next_to_do("close")
  PROVE  \E k \in 0 .. Len(out) : \A i \in DOMAIN out : out[i].first < Head(todo).n <=> i <= k
<1> DEFINE n == Head(todo).n
<1>1. todo[1] = Head(todo) /\ todo[1].what = "close"
  BY Ready
<1>2. PICK g, b \in Nat : Formed(todo, out, at, binop_precedence, g, b)
  BY At_top
<1>3. Item(todo[1], out, at, binop_precedence, g, b)
  BY <1>2, Innermost
<1>4. /\ b = n /\ b \in 1 .. at /\ g \in 0 .. Len(out)
      /\ \A i \in 1 .. g : out[i].last < n
      /\ \A i \in 1 .. Len(out) : i > g => out[i].first >= n
  BY <1>1, <1>3 DEF Item
<1> HIDE DEF n
<1>5. Exprs(out) /\ InOrder(out, at) /\ at \in Nat
  BY Here
<1>6. /\ Len(out) \in Nat /\ DOMAIN out = 1 .. Len(out) /\ n \in Nat
      /\ \A i \in 1 .. Len(out) : /\ out[i].first \in Nat /\ out[i].last \in Nat
                                  /\ out[i].first <= out[i].last
  <2>1. n \in Nat
    BY <1>4, <1>5
  <2> QED BY <1>5, <2>1, Numbers DEF Exprs, InOrder
<1>7. ASSUME NEW i \in 1 .. Len(out)
      PROVE  out[i].first < n <=> i <= g
  <2>1. CASE i <= g
    <3>1. i \in 1 .. g
      BY <1>4, <2>1
    <3> QED BY <1>4, <1>6, <2>1, <3>1
  <2>2. CASE ~(i <= g)
    <3>1. i > g
      BY <1>4, <2>2
    <3> QED BY <1>4, <1>6, <2>2, <3>1
  <2> QED BY <2>1, <2>2
<1>8. \A i \in DOMAIN out : out[i].first < n <=> i <= g
  BY <1>6, <1>7
<1> QED BY <1>4, <1>8 DEF n

LEMMA Close_step ==
  ASSUME ParserInv, close
  PROVE  ParserInv'
<1> DEFINE n == todo[1].n
           e == Primary(n, at - 1)
           p == binop_precedence
<1>1. Next_to_do("close")
  BY DEF close
<1>2. /\ phase = "parsing" /\ todo # << >> /\ todo[1].what = "close" /\ todo[1].what \notin Ends
      /\ Head(todo) = todo[1] /\ Tail(todo) \in Seq(Items)
  BY <1>1, Ready DEF Ends
<1>3. PICK k \in 0 .. Len(out) :
        /\ \A i \in DOMAIN out : out[i].first < n <=> i <= k
        /\ out' = Append(SubSeq(out, 1, k), e)
  BY <1>2 DEF close
<1>4. /\ todo' = Tail(todo)
      /\ UNCHANGED <<phase, tok, at, cost, errors, binop_precedence, definitions>>
  BY DEF close
<1>5. /\ at \in Places /\ at \in Nat /\ at >= 1 /\ Exprs(out) /\ InOrder(out, at) /\ Right(out, p) /\ Table(p)
  BY Here
<1>6. Moved
  <2>1. UNCHANGED <<tok, at, cost>>
    BY <1>4
  <2> QED BY <1>1, <2>1, Stays
<1>7. PICK g, b \in Nat : Formed(todo, out, at, p, g, b)
  BY <1>1, At_top
<1>8. /\ b = n /\ b < at /\ b \in 1 .. at /\ g \in 0 .. Len(out)
      /\ \A i \in 1 .. g : out[i].last < n
      /\ \A i \in 1 .. Len(out) : i > g => out[i].first >= n
  <2>1. Item(todo[1], out, at, p, g, b)
    BY <1>7, Innermost
  <2> QED BY <1>2, <2>1 DEF Item
<1> HIDE DEF n
<1>9. Len(out) \in Nat /\ DOMAIN out = 1 .. Len(out) /\ n \in Nat
      /\ \A i \in 1 .. Len(out) : /\ out[i].first \in Nat /\ out[i].last \in Nat
                                  /\ out[i].first <= out[i].last
  <2>1. n \in Nat
    BY <1>8
  <2> QED BY <1>5, <2>1, Numbers DEF InOrder
<1>10. k = g
  <2>1. ASSUME k < g
        PROVE  FALSE
    <3>1. g \in 1 .. g /\ g \in 1 .. Len(out) /\ ~(g <= k)
      BY <1>8, <1>9, <2>1
    <3>2. out[g].last < n /\ out[g].first <= out[g].last
      BY <1>8, <1>9, <3>1
    <3>3. ~(out[g].first < n)
      BY <1>3, <1>9, <3>1
    <3> QED BY <1>9, <3>1, <3>2, <3>3
  <2>2. ASSUME k > g
        PROVE  FALSE
    <3>1. k \in 1 .. Len(out) /\ k <= k
      BY <1>8, <1>9, <2>2
    <3>2. out[k].first >= n
      BY <1>8, <2>2, <3>1
    <3>3. out[k].first < n
      BY <1>3, <1>9, <3>1
    <3> QED BY <1>9, <3>1, <3>2, <3>3
  <2> QED BY <1>8, <1>9, <2>1, <2>2
<1>11. e \in Trees /\ e.op = "" /\ e.first = n /\ e.last = at - 1
  <2>1. n \in Places /\ at - 1 \in Places
    BY <1>5, <1>8, BoundsAssumption DEF Places
  <2> QED BY <2>1 DEF Primary, Trees
<1>12. e.first <= e.last /\ e.last < at /\ \A i \in 1 .. g : out[i].last < e.first
  <2>1. n \in Nat /\ n < at
    BY <1>8, <1>9
  <2>2. \A i, j \in Nat : i < j => i <= j - 1 /\ j - 1 < j
    OBVIOUS
  <2>3. n <= at - 1 /\ at - 1 < at
    BY <1>5, <2>1, <2>2
  <2>4. \A i \in 1 .. g : out[i].last < n
    BY <1>8
  <2> HIDE DEF e
  <2> QED BY <1>11, <2>3, <2>4, Zenon
<1> HIDE DEF e
<1> DEFINE o2 == Append(SubSeq(out, 1, g), e)
<1>13. /\ Exprs(o2) /\ Len(o2) = g + 1 /\ (\A i \in 1 .. g : o2[i] = out[i]) /\ o2[g + 1] = e
  <2>1. Exprs(out) /\ g \in 0 .. Len(out) /\ e \in Trees
    BY <1>5, <1>8, <1>11
  <2> QED BY <2>1, Exchanged_all, Zenon
<1>14. out' = o2
  BY <1>3, <1>10
<1> HIDE DEF o2
<1>15. InOrder(o2, at) /\ Right(o2, p)
  BY <1>5, <1>8, <1>11, <1>12, <1>13, Exchanged_right
<1>16. Stacked(Tail(todo), o2, tok, at, p)
  <2>1. Whole(o2, at, g, n) /\ Same(out, o2, g)
    BY <1>11, <1>13 DEF Whole, Complete, Same
  <2> QED BY <1>2, <1>5, <1>7, <1>13, <2>1, Close_done DEF n
<1> DEFINE s == << >>
<1>17. s \in Seq(Items) /\ s \o Tail(todo) = Tail(todo) /\ (s # << >> => s[1].what \notin {"operator", "precedence"})
  BY <1>2, ConcatEmptySeq, EmptySeq
<1> HIDE DEF s
<1>18. todo' = s \o Tail(todo) /\ Stacked(s \o Tail(todo), out', tok', at', binop_precedence)
  BY <1>4, <1>14, <1>16, <1>17
<1>19. Exprs(out') /\ InOrder(out', at') /\ Right(out', binop_precedence)
  BY <1>4, <1>13, <1>14, <1>15
<1> QED BY <1>2, <1>4, <1>6, <1>17, <1>18, <1>19, Goes_on

LEMMA Build_step ==
  ASSUME ParserInv, Build
  PROVE  ParserInv'
<1> DEFINE x == todo[1]
           m == Len(out)
           rhs == out[m]
           lhs == out[m - 1]
           e == [op |-> x.op, left |-> lhs.op, right |-> rhs.op, first |-> lhs.first, last |-> rhs.last]
           p == binop_precedence
<1>1. Next_to_do("build")
  BY DEF Build
<1>2. /\ phase = "parsing" /\ todo # << >> /\ x.what = "build" /\ x.what \notin Ends
      /\ Head(todo) = x /\ Tail(todo) \in Seq(Items)
  BY <1>1, Ready DEF Ends
<1>3. /\ out' = Append(SubSeq(out, 1, m - 2), e)
      /\ todo' = Tail(todo)
      /\ UNCHANGED <<phase, tok, at, cost, errors, binop_precedence, definitions>>
  BY <1>2 DEF Build, Last
<1>4. /\ at \in Places /\ at \in Nat /\ at >= 1 /\ Exprs(out) /\ InOrder(out, at) /\ Right(out, p) /\ Table(p)
  BY Here
<1>5. Moved
  <2>1. UNCHANGED <<tok, at, cost>>
    BY <1>3
  <2> QED BY <1>1, <2>1, Stays
<1>6. PICK g, b \in Nat : Formed(todo, out, at, p, g, b) /\ Top(x, out, tok, at, p, g, b)
  BY <1>1, At_top
<1>7. /\ g >= 1 /\ x.op \in DOMAIN p /\ Firm(p, out[g].op) >= Prec(p, x.op)
  <2>1. Item(x, out, at, p, g, b)
    BY <1>6, Innermost
  <2> QED BY <1>2, <2>1 DEF Item, Halves
<1>8. m = g + 1 /\ Firm(p, out[g + 1].op) > Prec(p, x.op)
  BY <1>2, <1>6 DEF Top
<1>9. Firm(p, x.op) = Prec(p, x.op) /\ x.op \in Ascii
  BY <1>4, <1>7, Precedences
<1>10. /\ m - 1 = g /\ m - 2 = g - 1 /\ g - 1 \in 0 .. m /\ (g - 1) + 1 = g /\ g - 1 \in Nat
       /\ \A i \in 1 .. g - 1 : i \in 1 .. g /\ i < g
  BY <1>7, <1>8
<1>11. rhs = out[g + 1] /\ lhs = out[g]
  BY <1>8, <1>10
<1>12. /\ rhs \in Trees /\ lhs \in Trees /\ rhs.first \in Places /\ rhs.last \in Places
       /\ lhs.first \in Places /\ lhs.last \in Places
       /\ rhs.first <= rhs.last /\ rhs.last < at
       /\ lhs.first <= lhs.last /\ lhs.last < rhs.first
       /\ g \in 1 .. Len(out)
  <2>1. Len(out) = g + 1
    BY <1>8
  <2>2. /\ out[g + 1] \in Trees /\ out[g] \in Trees
        /\ out[g + 1].first \in Places /\ out[g + 1].last \in Places
        /\ out[g].first \in Places /\ out[g].last \in Places
        /\ out[g + 1].first <= out[g + 1].last /\ out[g + 1].last < at
        /\ out[g].first <= out[g].last /\ out[g].last < out[g + 1].first
        /\ g \in 1 .. Len(out)
    BY <1>4, <1>7, <2>1, Last_two
  <2> QED BY <1>11, <2>2
<1> HIDE DEF x, m, rhs, lhs
<1>13. /\ e \in Trees /\ e.op = x.op /\ e.left = lhs.op /\ e.right = rhs.op
       /\ e.first = lhs.first /\ e.last = rhs.last
  BY <1>9, <1>12 DEF Trees
<1> HIDE DEF e
<1>14. e.first <= e.last /\ e.last < at
  <2>1. \A i \in Places : i \in Nat
    BY Numbers
  <2>2. \A i, j, k, l \in Nat : i <= j /\ j < k /\ k <= l => i <= l
    OBVIOUS
  <2> QED BY <1>12, <1>13, <2>1, <2>2
<1>15. \A i \in 1 .. g - 1 : out[i].last < e.first
  <2>1. \A i, j \in 1 .. Len(out) : i < j => out[i].last < out[j].first
    BY <1>4 DEF InOrder
  <2>2. \A i \in 1 .. g - 1 : i \in 1 .. Len(out) /\ i < g
    BY <1>8, <1>10 DEF m
  <2>3. e.first = out[g].first
    BY <1>11, <1>13
  <2> QED BY <1>12, <2>1, <2>2, <2>3
<1> DEFINE k == g - 1
           o2 == Append(SubSeq(out, 1, k), e)
<1>16. k \in 0 .. Len(out) /\ k + 1 = g /\ m - 2 = k
  BY <1>10 DEF m
<1> HIDE DEF k
<1>17. Exprs(o2) /\ Len(o2) = g /\ (\A i \in 1 .. k : o2[i] = out[i]) /\ o2[g] = e
  <2>1. Exprs(o2) /\ Len(o2) = k + 1 /\ (\A i \in 1 .. k : o2[i] = out[i]) /\ o2[k + 1] = e
    BY <1>4, <1>13, <1>16, Exchanged
  <2> QED BY <1>16, <2>1
<1>18. out' = o2
  BY <1>3, <1>16 DEF e
<1> HIDE DEF o2
<1>19. InOrder(o2, at) /\ Right(o2, p)
  <2>1. Firm(p, e.left) >= Firm(p, e.op) /\ Firm(p, e.right) > Firm(p, e.op)
    BY <1>7, <1>8, <1>9, <1>11, <1>13
  <2>2. Len(o2) = k + 1 /\ o2[k + 1] = e /\ \A i \in 1 .. k : out[i].last < e.first
    BY <1>15, <1>16, <1>17 DEF k
  <2> QED BY <1>4, <1>13, <1>14, <1>16, <1>17, <2>1, <2>2, Exchanged_right
<1>20. Stacked(Tail(todo), o2, tok, at, p)
  <2>1. o2[g].op = todo[1].op /\ o2[g].first = out[g].first /\ o2[g].last = out[g + 1].last
    BY <1>11, <1>13, <1>17 DEF x
  <2>2. \A i \in 1 .. g - 1 : o2[i] = out[i]
    BY <1>17 DEF k
  <2> QED BY <1>2, <1>4, <1>6, <1>17, <2>1, <2>2, Build_done DEF x
<1> DEFINE s == << >>
<1>21. s \in Seq(Items) /\ s \o Tail(todo) = Tail(todo) /\ (s # << >> => s[1].what \notin {"operator", "precedence"})
  BY <1>2, ConcatEmptySeq, EmptySeq
<1> HIDE DEF s
<1>22. todo' = s \o Tail(todo) /\ Stacked(s \o Tail(todo), out', tok', at', binop_precedence)
  BY <1>3, <1>18, <1>20, <1>21
<1>23. Exprs(out') /\ InOrder(out', at') /\ Right(out', binop_precedence)
  BY <1>3, <1>17, <1>18, <1>19
<1>24. todo[1].what \notin Ends
  BY <1>2 DEF x
<1> QED BY <1>2, <1>3, <1>5, <1>21, <1>22, <1>23, <1>24, Goes_on

\* The items s in the place of the innermost one, while the expressions stay.
LEMMA Left_as ==
  ASSUME ParserInv, NEW w, Next_to_do(w), w \notin Ends \cup {"token"}, NEW s, Leave(s), s \in Seq(Items),
         s # << >> => s[1].what \notin {"operator", "precedence"},
         Stacked(s \o Tail(todo), out, tok, at, binop_precedence)
  PROVE  ParserInv'
<1>1. /\ phase = "parsing" /\ todo # << >> /\ todo[1].what \notin Ends /\ todo[1].what # "token"
  BY Ready
<1>2. /\ Moved /\ tok' = tok /\ at' = at /\ todo' = s \o Tail(todo)
      /\ UNCHANGED <<phase, out, errors, binop_precedence, definitions>>
  BY <1>1, Stayed
<1>3. Exprs(out') /\ InOrder(out', at') /\ Right(out', binop_precedence)
  BY <1>2, Here
<1>4. Stacked(s \o Tail(todo), out', tok', at', binop_precedence)
  BY <1>2
<1> QED BY <1>1, <1>2, <1>3, <1>4, Goes_on

LEMMA Rhs_step ==
  ASSUME ParserInv, parse_bin_op_rhs, Next_to_do("rhs")
  PROVE  ParserInv'
<1> DEFINE x == todo[1]
           p == binop_precedence
           q == Prec(p, tok)
           u == Do("unary")
           y == Operand(tok, q)
           s == <<u, y, x>>
<1>1. /\ phase = "parsing" /\ todo # << >> /\ x.what = "rhs" /\ x.what \notin Ends
      /\ Head(todo) = x /\ Tail(todo) \in Seq(Items) /\ x \in Items
  BY Ready DEF Ends
<1>2. q = get_token_precedence(tok)
  BY DEF Prec, get_token_precedence
<1>3. IF q < x.n THEN Leave(<< >>) ELSE Take(s)
  BY <1>1, <1>2 DEF parse_bin_op_rhs, Next_to_do
<1>4. /\ at \in Nat /\ at >= 1 /\ Exprs(out) /\ Table(p)
  BY Here
<1>5. PICK g, b \in Nat : Formed(todo, out, at, p, g, b) /\ Top(x, out, tok, at, p, g, b)
  BY At_top
<1>6. Item(x, out, at, p, g, b)
  BY <1>5, Innermost
<1>7. x.n \in 0 .. 101 /\ q \in Int
  BY <1>1, <1>4, <1>6, Precedences DEF Item
<1>8. CASE q < x.n
  <2>1. PICK h, c \in Nat : /\ Formed(Tail(todo), out, at, p, h, c)
                            /\ Link(x, g, b, Tail(todo)[1], h, c, out, p)
    BY <1>1, <1>5, Popped
  <2>2. Stacked(Tail(todo), out, tok, at, p)
    BY <1>1, <1>4, <1>5, <1>6, <1>8, <2>1, Rhs_done
  <2> DEFINE n == << >>
  <2>3. n \in Seq(Items) /\ n \o Tail(todo) = Tail(todo) /\ (n # << >> => n[1].what \notin {"operator", "precedence"})
    BY <1>1, ConcatEmptySeq, EmptySeq
  <2>4. Leave(n)
    BY <1>3, <1>8
  <2>5. "rhs" \notin Ends \cup {"token"}
    BY DEF Ends
  <2> HIDE DEF n
  <2>6. Stacked(n \o Tail(todo), out, tok, at, binop_precedence)
    BY <2>2, <2>3
  <2> QED BY <2>3, <2>4, <2>5, <2>6, Left_as
<1>9. CASE ~(q < x.n)
  <2>1. q >= x.n /\ q >= 0
    BY <1>7, <1>9
  <2>2. Stacked(s \o Tail(todo), out, tok', at + 1, p)
    BY <1>1, <1>4, <1>5, <2>1, Operator_taken
  <2>3. tok # Eof /\ tok \in About /\ q \in 0 .. 101
    <3>1. tok \in DOMAIN p
      BY <1>4, <2>1, Precedences
    <3>2. tok \in Ascii /\ q \in 1 .. 100
      BY <1>4, <3>1, Precedences
    <3>3. \A i \in 1 .. 100 : i \in 0 .. 101
      OBVIOUS
    <3> QED BY <3>2, <3>3, TokenAssumption, Words DEF Ascii
  <2> HIDE DEF x, q
  <2>4. u \in Items /\ u.what = "unary" /\ y \in Items
    BY <2>3, Begun, Things
  <2> HIDE DEF u, y
  <2>5. s \in Seq(Items) /\ (s # << >> => s[1].what \notin {"operator", "precedence"})
    BY <1>1, <2>4
  <2>6. Take(s)
    BY <1>3, <1>9
  <2> HIDE DEF s
  <2>7. /\ Moved /\ at' = at + 1 /\ todo' = s \o Tail(todo)
        /\ UNCHANGED <<phase, out, errors, binop_precedence, definitions>>
        /\ Exprs(out') /\ InOrder(out', at') /\ Right(out', binop_precedence)
    BY <2>3, <2>6, Advanced
  <2>8. Stacked(s \o Tail(todo), out', tok', at', binop_precedence)
    BY <2>2, <2>7
  <2>9. todo[1].what \notin Ends
    BY <1>1 DEF x
  <2> QED BY <1>1, <2>5, <2>7, <2>8, <2>9, Goes_on
<1> QED BY <1>8, <1>9

LEMMA Operand_step ==
  ASSUME ParserInv, parse_bin_op_rhs, Next_to_do("operand")
  PROVE  ParserInv'
<1> DEFINE x == todo[1]
           p == binop_precedence
           q == Prec(p, tok)
           y == Binary(x.op)
           z == Rhs(x.n + 1)
<1>1. /\ phase = "parsing" /\ todo # << >> /\ x.what = "operand"
      /\ Head(todo) = x /\ Tail(todo) \in Seq(Items) /\ x \in Items /\ x.op \in About
  BY Ready
<1>2. q = get_token_precedence(tok)
  BY DEF Prec, get_token_precedence
<1>3. IF x.n < q THEN Leave(<<z, y>>) ELSE Leave(<<y>>)
  BY <1>1, <1>2 DEF parse_bin_op_rhs, Next_to_do
<1>4. /\ at \in Nat /\ at >= 1 /\ Exprs(out) /\ Table(p) /\ InOrder(out, at)
  BY Here
<1>5. PICK g, b \in Nat : Formed(todo, out, at, p, g, b) /\ Top(x, out, tok, at, p, g, b)
  BY At_top
<1>6. /\ x.n < q => Stacked(<<z, y>> \o Tail(todo), out, tok, at, p)
      /\ ~(x.n < q) => Stacked(<<y>> \o Tail(todo), out, tok, at, p)
  BY <1>1, <1>4, <1>5, Operand_left
<1>7. x.n \in 1 .. 100
  <2>1. Item(x, out, at, p, g, b)
    BY <1>5, Innermost
  <2>2. x.n = Prec(p, x.op) /\ x.op \in DOMAIN p
    BY <1>1, <2>1 DEF Item, Halves
  <2> QED BY <1>4, <2>2, Precedences
<1>8. /\ y \in Items /\ y.what = "build" /\ z \in Items /\ z.what = "rhs"
  <2>1. x.n + 1 \in 0 .. 101
    BY <1>7
  <2>2. z \in Items /\ z.what = "rhs"
    BY <2>1, Things
  <2> QED BY <1>1, <2>2, Things
<1> HIDE DEF x, q, y, z
<1>9. "operand" \notin Ends \cup {"token"}
  BY DEF Ends
<1>10. ASSUME NEW s, Leave(s), Stacked(s \o Tail(todo), out, tok, at, p), s \in Seq(Items),
              s # << >> => s[1].what \notin {"operator", "precedence"}
       PROVE  ParserInv'
  BY <1>9, <1>10, Left_as
<1>11. CASE x.n < q
  <2> DEFINE s == <<z, y>>
  <2>1. s \in Seq(Items) /\ (s # << >> => s[1].what \notin {"operator", "precedence"})
    BY <1>8
  <2>2. Leave(s) /\ Stacked(s \o Tail(todo), out, tok, at, p)
    BY <1>3, <1>6, <1>11
  <2> HIDE DEF s
  <2> QED BY <1>10, <2>1, <2>2
<1>12. CASE ~(x.n < q)
  <2> DEFINE s == <<y>>
  <2>1. s \in Seq(Items) /\ (s # << >> => s[1].what \notin {"operator", "precedence"})
    BY <1>8
  <2>2. Leave(s) /\ Stacked(s \o Tail(todo), out, tok, at, p)
    BY <1>3, <1>6, <1>12
  <2> HIDE DEF s
  <2> QED BY <1>10, <2>1, <2>2
<1> QED BY <1>11, <1>12

-------------------------------------------------------------------------------
(* Whatever is typed, and whichever operators a session defines.             *)

LEMMA ParserInit == Init => ParserInv
<1> SUFFICES ASSUME Init
             PROVE  ParserInv
  OBVIOUS
<1>1. /\ phase = "prompt" /\ tok = Eof /\ at = 1 /\ cost = 0 /\ todo = << >> /\ out = << >>
      /\ errors = FALSE /\ binop_precedence = Builtin /\ definitions = 0
  BY DEF Init
<1>2. Reading(tok, at, cost) /\ definitions \in 0 .. MaxDefinitions
  BY <1>1, BoundsAssumption DEF Reading, Places
<1>3. Table(Builtin)
  <2>1. DOMAIN Builtin = Ascii \cap {"=", "<", "+", "-", "*"}
    BY DEF Builtin
  <2>2. \A c \in DOMAIN Builtin : Builtin[c] \in 1 .. 100
    <3> SUFFICES ASSUME NEW c \in DOMAIN Builtin
                 PROVE  Builtin[c] \in 1 .. 100
      OBVIOUS
    <3>1. c \in Ascii \cap {"=", "<", "+", "-", "*"}
      BY <2>1
    <3>2. Builtin[c] = CASE c = "=" -> 2 [] c = "<" -> 10 [] c \in {"+", "-"} -> 20 [] c = "*" -> 40
      BY <3>1 DEF Builtin
    <3>3. Builtin[c] = 2 \/ Builtin[c] = 10 \/ Builtin[c] = 20 \/ Builtin[c] = 40
      BY <3>1, <3>2
    <3> QED BY <3>3
  <2> QED BY <2>1, <2>2 DEF Table
<1>4. /\ Exprs(<< >>) /\ InOrder(<< >>, at) /\ Right(<< >>, binop_precedence) /\ << >> \in Seq(Items)
  <2>1. << >> \in Seq(Trees) /\ << >> \in Seq(Items) /\ Len(<< >>) = 0 /\ 1 .. 0 = {}
    BY EmptySeq
  <2> QED BY <2>1 DEF Exprs, InOrder, Right
<1>5. Counted(<< >>, tok, definitions)
  <2>1. Eof # "binary"
    BY DEF Eof
  <2> QED BY <1>1, <2>1 DEF Counted, Pending
<1>6. Stacked(<< >>, out, tok, at, binop_precedence)
  BY DEF Stacked
<1> QED BY <1>1, <1>2, <1>3, <1>4, <1>5, <1>6 DEF ParserInv

LEMMA ParserStep == ParserInv /\ [Next]_vars => ParserInv'
<1> SUFFICES ASSUME ParserInv, [Next]_vars
             PROVE  ParserInv'
  OBVIOUS
<1>1. CASE Read
  BY <1>1, Read_step
<1>2. CASE parse_expr
  BY <1>2, Expr_step
<1>3. CASE parse_unary
  BY <1>3, Unary_step
<1>4. CASE parse_primary
  BY <1>4, Primary_step
<1>5. CASE parse_post_primary
  BY <1>5, Post_step
<1>6. CASE parse_field_number
  BY <1>6, Field_step
<1>7. CASE parse_identifier
  BY <1>7, Identifier_step
<1>8. CASE parse_list
  BY <1>8, List_step
<1>9. CASE parse_var
  BY <1>9, Var_step
<1>10. CASE parse_block
  BY <1>10, Block_step
<1>11. CASE Expected
  BY <1>11, Expected_step
<1>12. CASE close
  BY <1>12, Close_step
<1>13. CASE parse_bin_op_rhs
  <2>1. Next_to_do("rhs") \/ Next_to_do("operand")
    BY <1>13 DEF parse_bin_op_rhs
  <2> QED BY <1>13, <2>1, Rhs_step, Operand_step
<1>14. CASE Build
  BY <1>14, Build_step
<1>15. CASE parse_type \/ parse_tuple_type
  BY <1>15, Type_step
<1>16. CASE parse_prototype
  BY <1>16, Prototype_step
<1>17. CASE Operator
  BY <1>17, Operator_step
<1>18. CASE Precedence
  BY <1>18, Precedence_step
<1>19. CASE Arguments
  BY <1>19, Arguments_step
<1>20. CASE Result
  BY <1>20, Result_step
<1>21. CASE Declaration
  BY <1>21, Declaration_step
<1>22. CASE Push_declaration
  BY <1>22, Push_step
<1>23. CASE End_of_line
  BY <1>23, End_step
<1>24. CASE UNCHANGED vars
  BY <1>24 DEF vars, ParserInv
<1> QED BY <1>1, <1>2, <1>3, <1>4, <1>5, <1>6, <1>7, <1>8, <1>9, <1>10, <1>11, <1>12, <1>13,
           <1>14, <1>15, <1>16, <1>17, <1>18, <1>19, <1>20, <1>21, <1>22, <1>23, <1>24, Zenon DEF Next, parse

\* Whatever is typed, every call that is active finds the expressions that it needs, and
\* only those, when its turn comes (core.rs:194-257, 454-625).
THEOREM ParserInvariant == Spec => []ParserInv
<1>1. Init => ParserInv
  BY ParserInit
<1>2. ParserInv /\ [Next]_vars => ParserInv'
  BY ParserStep
<1> QED BY <1>1, <1>2, PTL DEF Spec

\* The types, for lines, operators and bounds of any size: a precedence is never anything
\* but 1 to 100, and no call is about a place outside of the line (core.rs:513-547).
THEOREM ParserTypeCorrect == Spec => []TypeOK
<1>1. ParserInv => TypeOK
  BY DEF ParserInv, TypeOK, Reading, Table, Exprs
<1> QED BY <1>1, ParserInvariant, PTL

\* The tree of every expression is the one that the precedences ask for, however many
\* operators a session defines, with whatever precedences, and however deep the line
\* (core.rs:194-225).
THEOREM TreesRightCorrect == Spec => []TreesRight
<1>1. ParserInv => TreesRight
  <2> SUFFICES ASSUME ParserInv
               PROVE  TreesRight
    OBVIOUS
  <2>1. Right(out, binop_precedence) /\ DOMAIN out = 1 .. Len(out)
    BY Here, Numbers
  <2>2. \A c : Strength(c) = Firm(binop_precedence, c)
    BY DEF Strength, Firm, get_token_precedence, Prec
  <2> QED BY <2>1, <2>2 DEF TreesRight, Right
<1> QED BY <1>1, ParserInvariant, PTL

\* Nothing of a line gets lost or changes places, whatever the line: the operands of an
\* operator are next to it, and a top-level expression is handed on only when it is all
\* that was read since the declaration began (core.rs:194-225, 612-625).
THEOREM WholeExpressionCorrect == Spec => []WholeExpression
<1>1. ParserInv => WholeExpression
  <2> SUFFICES ASSUME ParserInv
               PROVE  WholeExpression
    OBVIOUS
  <2>1. ASSUME Next_to_do("build")
        PROVE  out[Len(out) - 1].last + 2 = Last(out).first
    <3>1. todo[1].what = "build"
      BY <2>1, Ready
    <3>2. PICK g, b \in Nat : Top(todo[1], out, tok, at, binop_precedence, g, b)
      BY <2>1, At_top
    <3>3. Len(out) = g + 1 /\ out[g + 1].first = out[g].last + 2
      BY <3>1, <3>2 DEF Top, Halves
    <3>4. (g + 1) - 1 = g
      OBVIOUS
    <3> QED BY <3>3, <3>4 DEF Last
  <2>2. ASSUME Next_to_do("evaluated")
        PROVE  /\ Len(out) = 1
               /\ out[1].first = Head(todo).n /\ out[1].last = at - 1
               /\ get_token_precedence(tok) = -1
    <3>1. todo[1].what = "evaluated" /\ Head(todo) = todo[1]
      BY <2>2, Ready
    <3>2. PICK g, b \in Nat : Top(todo[1], out, tok, at, binop_precedence, g, b)
      BY <2>2, At_top
    <3>3. get_token_precedence(tok) = Prec(binop_precedence, tok)
      BY DEF get_token_precedence, Prec
    <3> QED BY <3>1, <3>2, <3>3 DEF Top
  <2> QED BY <2>1, <2>2 DEF WholeExpression
<1> QED BY <1>1, ParserInvariant, PTL
===============================================================================
