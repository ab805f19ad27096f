----------------------------- MODULE GcImplProofs -----------------------------
(***************************************************************************)
(* Proof that gc.c implements the abstract heap, for an arena of any size  *)
(* and for programs that link no lists: each step of Gc is, under the      *)
(* mapping of GcImpl, a step of AbsHeap or none at all.                    *)
(***************************************************************************)
EXTENDS GcImpl, GcProofs

-------------------------------------------------------------------------------
(* What the mapping makes of words, cells and frames.                      *)

\* A pointer is mapped to its cell, and to nothing else; other words stay what they are.
LEMMA AbsWord ==
  /\ \A w \in CarPtr : Abs(w) = w[1] /\ Abs(w) \in Cell /\ w = <<Abs(w), "car">>
  /\ Abs(Null) = Null /\ Abs(Scalar) = Scalar
  /\ Null \notin Cell /\ Scalar \notin Cell /\ None \notin Cell /\ None # Null /\ None # Scalar
  /\ Null # Scalar
<1>1. Null \notin CarPtr /\ Scalar \notin CarPtr /\ Null # Scalar
  BY WordAssumption
<1>2. \A w \in CarPtr : w[1] \in Cell /\ w = <<w[1], "car">>
  BY DEF CarPtr
<1> QED
  BY <1>1, <1>2, NoneAssumption DEF Abs

\* The object in a cell, and its absence.
Object(u, b, w) == IF u = "free" THEN None
                   ELSE [is_pointer |-> b, car |-> Abs(w), cdr |-> IF u = "built" THEN Null ELSE None]

LEMMA AbsObjShape ==
  ASSUME TypeOK, NoLinks
  PROVE  /\ AbsObj = [c \in Cell |-> Object(use[c], header[c].is_pointer, car[c])]
         /\ \A c \in Cell : AbsObj[c] = None <=> c \notin Taken
<1>1. AbsObj = [c \in Cell |-> Object(use[c], header[c].is_pointer, car[c])]
  BY AbsWord DEF AbsObj, Object, NoLinks
<1>2. ASSUME NEW c \in Cell, use[c] # "free"
      PROVE  Object(use[c], header[c].is_pointer, car[c]) # None
  <2>1. header[c].is_pointer \in BOOLEAN /\ car[c] \in {Null, Scalar} \cup CarPtr
    BY DEF TypeOK
  <2>2. Abs(car[c]) \in Cell \cup {Null, Scalar}
    BY <2>1, AbsWord
  <2>3. Object(use[c], header[c].is_pointer, car[c]) \in
          [is_pointer : BOOLEAN, car : Cell \cup {Null, Scalar}, cdr : Cell \cup {Null, None}]
    BY <1>2, <2>1, <2>2 DEF Object
  <2> QED
    BY <2>3, NoneAssumption
<1> QED
  BY <1>1, <1>2 DEF Taken, Object

\* The frames keep their number and their slots.
Frame == [Slot -> CarPtr \cup {Null}]
AbsFrame(fr) == [s \in Slot |-> Abs(fr[s])]

LEMMA AbsFrameType ==
  ASSUME NEW fr \in Frame
  PROVE  /\ AbsFrame(fr) \in [Slot -> Cell \cup {Null}]
         /\ \A s \in Slot : AbsFrame(fr)[s] = Abs(fr[s])
BY AbsWord DEF Frame, AbsFrame

AbsChain(ch) == [k \in DOMAIN ch |-> [s \in Slot |-> Abs(ch[k][s])]]

LEMMA AbsRootsShape ==
  ASSUME NEW ch \in Seq(Frame)
  PROVE  /\ AbsChain(ch) \in Seq([Slot -> Cell \cup {Null}])
         /\ Len(AbsChain(ch)) = Len(ch) /\ Len(ch) \in Nat
         /\ DOMAIN AbsChain(ch) = 1 .. Len(ch)
         /\ \A k \in 1 .. Len(ch) : /\ AbsChain(ch)[k] = AbsFrame(ch[k])
                                    /\ ch[k] \in Frame
                                    /\ AbsChain(ch)[k] \in [Slot -> Cell \cup {Null}]
                                    /\ \A s \in Slot : AbsChain(ch)[k][s] = Abs(ch[k][s])
         /\ AbsChain(ch) = << >> <=> ch = << >>
<1>1. Len(ch) \in Nat /\ DOMAIN ch = 1 .. Len(ch) /\ \A k \in 1 .. Len(ch) : ch[k] \in Frame
  BY LenProperties, ElementOfSeq
<1>2. AbsChain(ch) = [k \in 1 .. Len(ch) |-> AbsFrame(ch[k])]
  BY <1>1 DEF AbsChain, AbsFrame
<1>3. \A k \in 1 .. Len(ch) : AbsFrame(ch[k]) \in [Slot -> Cell \cup {Null}]
  BY <1>1, AbsFrameType
<1> HIDE DEF AbsChain
<1>4. AbsChain(ch) \in Seq([Slot -> Cell \cup {Null}])
  BY <1>1, <1>2, <1>3
<1>5. Len(AbsChain(ch)) = Len(ch) /\ DOMAIN AbsChain(ch) = 1 .. Len(ch)
  BY <1>1, <1>2, <1>4
<1>6. AbsChain(ch) = << >> <=> ch = << >>
  BY <1>4, <1>5, EmptySeq
<1> QED
  BY <1>1, <1>2, <1>3, <1>4, <1>5, <1>6, AbsFrameType

LEMMA AbsRootsIs ==
  ASSUME TypeOK
  PROVE  /\ chain \in Seq(Frame) /\ AbsRoots = AbsChain(chain)
         /\ chain # << >> => /\ Head(AbsRoots) = AbsFrame(Head(chain)) /\ Head(chain) = chain[1]
                             /\ Head(chain) \in Frame /\ 1 \in 1 .. Len(chain)
<1>1. chain \in Seq(Frame) /\ AbsRoots = AbsChain(chain)
  BY DEF TypeOK, Frame, AbsRoots, AbsChain
<1>2. ASSUME chain # << >>
      PROVE  1 \in 1 .. Len(chain) /\ Head(chain) = chain[1]
  BY <1>1, <1>2
<1>3. ASSUME chain # << >>
      PROVE  Head(AbsRoots) = AbsFrame(Head(chain)) /\ Head(chain) \in Frame
  <2>1. AbsRoots \in Seq([Slot -> Cell \cup {Null}]) /\ AbsRoots # << >>
    BY <1>1, <1>3, AbsRootsShape
  <2>2. Head(AbsRoots) = AbsRoots[1]
    BY <2>1
  <2> QED
    BY <1>1, <1>2, <1>3, <2>2, AbsRootsShape
<1> QED
  BY <1>1, <1>2, <1>3

-------------------------------------------------------------------------------
(* What the program has, and what it can load.                             *)

LEMMA HeldMap ==
  ASSUME TypeOK, NoLinks, chain # << >>, NEW c \in Held
  PROVE  /\ c \in H!Held /\ c \in Cell /\ use[c] # "free"
         /\ AbsObj[c].is_pointer = header[c].is_pointer
         /\ AbsObj[c].car = Abs(car[c])
         /\ AbsObj[c].cdr = IF use[c] = "built" THEN Null ELSE None
<1>1. c \in Cell /\ use[c] # "free" /\ \E s \in Slot : <<c, "car">> = Head(chain)[s]
  BY DEF Held, Taken, InSlot
<1>2. PICK s \in Slot : <<c, "car">> = Head(chain)[s]
  BY <1>1
<1>3. Head(AbsRoots)[s] = c
  <2>1. Head(AbsRoots) = AbsFrame(Head(chain)) /\ Head(chain) \in Frame
    BY AbsRootsIs
  <2>2. Head(AbsRoots)[s] = Abs(<<c, "car">>)
    BY <1>2, <2>1, AbsFrameType
  <2>3. <<c, "car">> \in CarPtr
    BY <1>1 DEF CarPtr
  <2> QED
    BY <2>2, <2>3, AbsWord
<1>4. AbsObj[c] # None
  BY <1>1, AbsObjShape DEF Taken
<1>5. c \in H!Held
  BY <1>1, <1>3, <1>4 DEF H!Held, H!InSlot
<1>6. AbsObj[c] = [is_pointer |-> header[c].is_pointer, car |-> Abs(car[c]),
                   cdr |-> IF use[c] = "built" THEN Null ELSE None]
  BY <1>1, AbsObjShape DEF Object
<1> QED
  BY <1>1, <1>5, <1>6

\* The values of the abstract heap, one source at a time.
LEMMA InHeapValues ==
  ASSUME NEW w \in Cell \cup {Null},
         \/ \E s \in Slot : w = Head(AbsRoots)[s]
         \/ \E d \in H!Held : w = AbsObj[d].car
  PROVE  w \in H!Values
<1>1. w \in H!Pointer
  BY DEF H!Pointer
<1>2. CASE \E s \in Slot : w = Head(AbsRoots)[s]
  <2>1. w \in H!InSlot
    BY <1>2 DEF H!InSlot
  <2> QED
    BY <1>1, <2>1 DEF H!Values
<1>3. CASE \E d \in H!Held : w = AbsObj[d].car
  <2>1. w \in {AbsObj[d].car : d \in H!Held}
    BY <1>3
  <2> QED
    BY <1>1, <2>1 DEF H!Values
<1> QED
  BY <1>2, <1>3

LEMMA ValuesMap ==
  ASSUME TypeOK, NoLinks, chain # << >>, NEW v \in Values
  PROVE  /\ v \in CarPtr \cup {Null}
         /\ Abs(v) \in H!Values /\ Abs(v) \in Cell \cup {Null} /\ (Abs(v) = Null <=> v = Null)
<1>1. v \in CarPtr \cup {Null}
  BY DEF Values
<1>2. Abs(v) \in Cell \cup {Null} /\ (Abs(v) = Null <=> v = Null)
  BY <1>1, AbsWord
<1>3. CASE v = Null
  BY <1>3, AbsWord DEF H!Values
<1>4. CASE v \in InSlot
  <2>1. PICK s \in Slot : v = Head(chain)[s]
    BY <1>4 DEF InSlot
  <2>2. Abs(v) = Head(AbsRoots)[s]
    BY <2>1, AbsRootsIs, AbsFrameType
  <2> QED
    BY <1>1, <1>2, <2>2, InHeapValues
<1>5. CASE \E c \in Held : v = car[c]
  <2>1. PICK c \in Held : v = car[c]
    BY <1>5
  <2>2. c \in H!Held /\ AbsObj[c].car = Abs(v)
    BY <2>1, HeldMap
  <2> QED
    BY <1>1, <1>2, <2>2, InHeapValues
<1>6. CASE \E c \in Held : use[c] = "built" /\ v = cdr[c]
  <2>1. v = Null
    BY <1>6 DEF NoLinks, Held, Taken
  <2> QED
    BY <1>3, <2>1
<1>7. v = Null \/ v \in InSlot \/ (\E c \in Held : v = car[c])
        \/ (\E c \in Held : use[c] = "built" /\ v = cdr[c])
  BY DEF Values, Loadable
<1> QED
  BY <1>1, <1>2, <1>3, <1>4, <1>5, <1>6, <1>7

-------------------------------------------------------------------------------
(* Steps that the program does not notice.                                 *)

LEMMA SameObj ==
  ASSUME TypeOK, NoLinks, TypeOK', NoLinks', UNCHANGED <<car, use>>,
         \A c \in Cell : header'[c].is_pointer = header[c].is_pointer
  PROVE  AbsObj' = AbsObj
<1>1. AbsObj = [c \in Cell |-> Object(use[c], header[c].is_pointer, car[c])]
  BY AbsObjShape
<1>2. AbsObj' = [c \in Cell |-> Object(use'[c], header'[c].is_pointer, car'[c])]
  BY AbsWord DEF AbsObj, Object, NoLinks
<1> QED
  BY <1>1, <1>2

LEMMA Unnoticed ==
  ASSUME TypeOK, NoLinks, TypeOK', NoLinks', UNCHANGED <<car, use, chain, req, ret>>,
         \A c \in Cell : header'[c].is_pointer = header[c].is_pointer,
         pc = "run" <=> pc' = "run"
  PROVE  UNCHANGED H!vars
<1>1. AbsObj' = AbsObj
  BY SameObj
<1>2. AbsRoots' = AbsRoots /\ AbsCall' = AbsCall /\ AbsRet' = AbsRet
  BY DEF AbsRoots, AbsCall, AbsRet
<1> QED
  BY <1>1, <1>2 DEF H!vars

\* Marking, and every step of sweep but the one that frees an object.
LEMMA CollectorUnnoticed ==
  ASSUME HeapInv, LiveInv, HeapInv', LiveInv',
         \/ markFromRoots \/ NextFrame \/ mark_car \/ mark_cdr \/ mark_wild
         \/ sweep \/ sweep_marked \/ sweep_end \/ gc_new_abort
  PROVE  UNCHANGED H!vars
<1>1. TypeOK /\ TypeOK' /\ NoLinks /\ NoLinks'
  BY DEF HeapInv, LiveInv
<1>2. ASSUME NEW x, header' = [header EXCEPT ![x].is_marked = TRUE], NEW c \in Cell
      PROVE  header'[c].is_pointer = header[c].is_pointer
  <2>1. header \in [Cell -> [is_marked : BOOLEAN, is_pointer : BOOLEAN]]
    BY <1>1 DEF TypeOK
  <2>2. CASE x = c
    BY <1>2, <2>1, <2>2
  <2>3. CASE x # c
    BY <1>2, <2>1, <2>3
  <2> QED
    BY <2>2, <2>3
<1>3. ASSUME NEW p, setMarked(p)
      PROVE  \A c \in Cell : header'[c].is_pointer = header[c].is_pointer
  <2>1. header' = header \/ \E x : header' = [header EXCEPT ![x].is_marked = TRUE]
    BY <1>3 DEF setMarked
  <2> QED
    BY <1>2, <2>1
<1>4. CASE markFromRoots \/ NextFrame \/ mark_car \/ mark_cdr
  <2>1. /\ UNCHANGED <<car, use, chain, req, ret>> /\ pc # "run" /\ pc' # "run"
        /\ header' = header \/ \E p : setMarked(p)
    BY <1>4 DEF markFromRoots, NextFrame, mark_car, mark_cdr, heap
  <2> QED
    BY <1>1, <1>3, <2>1, Unnoticed
<1>5. CASE mark_wild \/ sweep \/ sweep_end \/ gc_new_abort
  <2>1. UNCHANGED <<header, car, use, chain, req, ret>> /\ pc # "run" /\ pc' # "run"
    BY <1>5 DEF mark_wild, sweep, sweep_end, gc_new_abort, heap, collector
  <2> QED
    BY <1>1, <2>1, Unnoticed
<1>6. CASE sweep_marked
  <2>1. /\ UNCHANGED <<car, use, chain, req, ret>> /\ pc # "run" /\ pc' # "run"
        /\ header' = [header EXCEPT ![i].is_marked = FALSE]
    BY <1>6 DEF sweep_marked
  <2>2. \A c \in Cell : header'[c].is_pointer = header[c].is_pointer
    BY <1>1, <2>1 DEF TypeOK
  <2> QED
    BY <1>1, <2>1, <2>2, Unnoticed
<1> QED
  BY <1>4, <1>5, <1>6

-------------------------------------------------------------------------------
(* Frames.                                                                 *)

LEMMA ChainStore ==
  ASSUME NEW ch \in Seq(Frame), NEW s \in Slot, NEW w \in CarPtr \cup {Null}
  PROVE  AbsChain([ch EXCEPT ![1][s] = w]) = [AbsChain(ch) EXCEPT ![1][s] = Abs(w)]
<1> DEFINE new == [ch EXCEPT ![1][s] = w]
           abs == [AbsChain(ch) EXCEPT ![1][s] = Abs(w)]
<1>1. DOMAIN new = DOMAIN ch
  OBVIOUS
<1>2. AbsChain(new) = [k \in DOMAIN ch |-> AbsFrame(new[k])]
  BY <1>1 DEF AbsChain, AbsFrame
<1>3. abs = [k \in DOMAIN ch |-> IF k = 1 THEN [AbsChain(ch)[1] EXCEPT ![s] = Abs(w)] ELSE AbsChain(ch)[k]]
  BY DEF AbsChain
<1>4. ASSUME NEW k \in DOMAIN ch
      PROVE  AbsFrame(new[k]) = IF k = 1 THEN [AbsChain(ch)[1] EXCEPT ![s] = Abs(w)] ELSE AbsChain(ch)[k]
  <2>1. CASE k = 1
    <3>1. ch[1] \in Frame /\ AbsChain(ch)[1] = AbsFrame(ch[1])
      BY <1>4, <2>1, AbsRootsShape, LenProperties
    <3>2. new[1] = [ch[1] EXCEPT ![s] = w]
      BY <1>4, <2>1
    <3>3. AbsFrame(new[1]) = [AbsFrame(ch[1]) EXCEPT ![s] = Abs(w)]
      BY <3>1, <3>2 DEF AbsFrame, Frame
    <3> QED
      BY <2>1, <3>1, <3>3
  <2>2. CASE k # 1
    BY <1>4, <2>2 DEF AbsChain, AbsFrame
  <2> QED
    BY <2>1, <2>2
<1> QED
  BY <1>2, <1>3, <1>4

LEMMA ChainPush ==
  ASSUME NEW ch \in Seq(Frame), NEW args \in Frame
  PROVE  AbsChain(<<args>> \o ch) = <<AbsFrame(args)>> \o AbsChain(ch)
<1> DEFINE T == [Slot -> Cell \cup {Null}]
           new == <<args>> \o ch
           abs == <<AbsFrame(args)>> \o AbsChain(ch)
<1>1. <<args>> \in Seq(Frame) /\ Len(<<args>>) = 1 /\ <<args>>[1] = args
  OBVIOUS
<1>2. /\ new \in Seq(Frame) /\ Len(new) = Len(ch) + 1
      /\ \A k \in 1 .. Len(ch) + 1 : new[k] = IF k = 1 THEN args ELSE ch[k - 1]
      /\ Len(ch) \in Nat
  BY <1>1
<1>3. AbsFrame(args) \in T /\ AbsChain(ch) \in Seq(T) /\ Len(AbsChain(ch)) = Len(ch)
  BY AbsFrameType, AbsRootsShape
<1>4. /\ abs \in Seq(T) /\ Len(abs) = Len(ch) + 1
      /\ \A k \in 1 .. Len(ch) + 1 : abs[k] = IF k = 1 THEN AbsFrame(args) ELSE AbsChain(ch)[k - 1]
  <2> HIDE DEF T
  <2>1. <<AbsFrame(args)>> \in Seq(T) /\ Len(<<AbsFrame(args)>>) = 1
    BY <1>3
  <2> QED
    BY <1>2, <1>3, <2>1
<1>5. /\ AbsChain(new) \in Seq(T) /\ Len(AbsChain(new)) = Len(ch) + 1
      /\ \A k \in 1 .. Len(ch) + 1 : AbsChain(new)[k] = AbsFrame(new[k])
  BY <1>2, AbsRootsShape
<1>6. \A k \in 1 .. Len(ch) : AbsChain(ch)[k] = AbsFrame(ch[k])
  BY AbsRootsShape
<1> HIDE DEF new, abs, T
<1>7. ASSUME NEW k \in 1 .. Len(ch) + 1 PROVE AbsChain(new)[k] = abs[k]
  <2>1. CASE k = 1
    BY <1>2, <1>4, <1>5, <2>1
  <2>2. CASE k # 1
    <3>1. k - 1 \in 1 .. Len(ch)
      BY <1>2, <2>2
    <3> QED
      BY <1>2, <1>4, <1>5, <1>6, <2>2, <3>1
  <2> QED
    BY <2>1, <2>2
<1>8. AbsChain(new) = abs
  BY <1>4, <1>5, <1>7, SeqEqual
<1> QED
  BY <1>8 DEF new, abs

LEMMA ChainPop ==
  ASSUME NEW ch \in Seq(Frame), ch # << >>
  PROVE  AbsChain(Tail(ch)) = Tail(AbsChain(ch))
<1> DEFINE T == [Slot -> Cell \cup {Null}]
           new == Tail(ch)
           abs == Tail(AbsChain(ch))
<1>1. /\ new \in Seq(Frame) /\ Len(new) = Len(ch) - 1 /\ Len(ch) \in Nat \ {0}
      /\ \A k \in 1 .. Len(new) : new[k] = ch[k + 1]
  BY HeadTailProperties, EmptySeq
<1>2. AbsChain(ch) \in Seq(T) /\ Len(AbsChain(ch)) = Len(ch) /\ AbsChain(ch) # << >>
  BY AbsRootsShape
<1>3. /\ abs \in Seq(T) /\ Len(abs) = Len(ch) - 1
      /\ \A k \in 1 .. Len(abs) : abs[k] = AbsChain(ch)[k + 1]
  <2> HIDE DEF T
  <2> QED
    BY <1>2, HeadTailProperties
<1>4. /\ AbsChain(new) \in Seq(T) /\ Len(AbsChain(new)) = Len(new)
      /\ \A k \in 1 .. Len(new) : AbsChain(new)[k] = AbsFrame(new[k])
  BY <1>1, AbsRootsShape
<1>5. \A k \in 1 .. Len(ch) : AbsChain(ch)[k] = AbsFrame(ch[k])
  BY AbsRootsShape
<1> HIDE DEF new, abs, T
<1>6. ASSUME NEW k \in 1 .. Len(new) PROVE AbsChain(new)[k] = abs[k]
  <2>1. k \in 1 .. Len(abs) /\ k + 1 \in 1 .. Len(ch)
    BY <1>1, <1>3
  <2> QED
    BY <1>1, <1>3, <1>4, <1>5, <2>1
<1>7. AbsChain(new) = abs
  BY <1>1, <1>3, <1>4, <1>6, SeqEqual
<1> QED
  BY <1>7 DEF new, abs

-------------------------------------------------------------------------------
(* The steps of the program.                                               *)

LEMMA AbsRunning ==
  ASSUME TypeOK
  PROVE  /\ AbsCall = None <=> pc = "run"
         /\ ret = Null => AbsRet = None
         /\ ret # Null => AbsRet = Abs(ret) /\ AbsRet \in Cell /\ AbsRet # None
         /\ Running => H!Running
<1>1. req.is_pointer \in BOOLEAN /\ Abs(req.car) \in Cell \cup {Null, Scalar}
  BY AbsWord DEF TypeOK
<1>2. AbsCall = None <=> pc = "run"
  BY <1>1, NoneAssumption DEF AbsCall
<1>3. ret # Null => AbsRet = Abs(ret) /\ AbsRet \in Cell /\ AbsRet # None
  BY AbsWord DEF TypeOK, AbsRet
<1>4. ret = Null => AbsRet = None
  BY DEF AbsRet
<1> QED
  BY <1>2, <1>3, <1>4 DEF Running, H!Running

LEMMA KeepMap ==
  ASSUME HeapInv, LiveInv, HeapInv', LiveInv', NEW s \in Slot, Keep(s)
  PROVE  H!Keep(s)
<1>1. /\ pc = "run" /\ pc' = "run" /\ ret # Null /\ ret' = Null
      /\ chain' = [chain EXCEPT ![1][s] = ret]
      /\ UNCHANGED <<header, car, use>>
  BY DEF Keep, heap
<1>2. TypeOK /\ TypeOK' /\ NoLinks /\ NoLinks' /\ ret \in CarPtr \cup {Null}
  BY DEF HeapInv, TypeOK, LiveInv
<1>3. AbsObj' = AbsObj
  BY <1>1, <1>2, SameObj
<1>4. chain \in Seq(Frame) /\ AbsRoots = AbsChain(chain) /\ AbsRoots' = AbsChain(chain')
  BY <1>2, AbsRootsIs DEF AbsRoots, AbsChain
<1>5. AbsRoots' = [AbsRoots EXCEPT ![1][s] = Abs(ret)]
  <2>1. \A w \in CarPtr \cup {Null} :
          AbsChain([chain EXCEPT ![1][s] = w]) = [AbsChain(chain) EXCEPT ![1][s] = Abs(w)]
    BY <1>4, ChainStore
  <2>2. AbsChain([chain EXCEPT ![1][s] = ret]) = [AbsChain(chain) EXCEPT ![1][s] = Abs(ret)]
    BY <1>2, <2>1
  <2> QED
    BY <1>1, <1>4, <2>2
<1>6. AbsCall = None /\ AbsCall' = None /\ AbsRet = Abs(ret) /\ AbsRet # None /\ AbsRet' = None
  BY <1>1, <1>2, AbsRunning DEF AbsCall, AbsRet
<1> QED
  BY <1>3, <1>5, <1>6 DEF H!Keep

LEMMA PushMap ==
  ASSUME HeapInv, LiveInv, HeapInv', LiveInv',
         NEW args \in [Slot -> IF chain = << >> THEN {Null} ELSE Values], gc_push(args)
  PROVE  \E a \in [Slot -> IF AbsRoots = << >> THEN {Null} ELSE H!Values] : H!Push(a)
<1>1. /\ pc = "run" /\ pc' = "run" /\ Running
      /\ chain' = <<args>> \o chain
      /\ UNCHANGED <<header, car, use, ret>>
  BY DEF gc_push, heap, Running
<1>2. TypeOK /\ TypeOK' /\ NoLinks /\ NoLinks'
  BY DEF HeapInv, LiveInv
<1>3. AbsObj' = AbsObj
  BY <1>1, <1>2, SameObj
<1>4. /\ chain \in Seq(Frame) /\ AbsRoots = AbsChain(chain) /\ AbsRoots' = AbsChain(chain')
      /\ AbsRoots = << >> <=> chain = << >>
  BY <1>2, AbsRootsIs, AbsRootsShape DEF AbsRoots, AbsChain
<1>5. args \in Frame
  BY DEF Frame, Values
<1>6. AbsRoots' = <<AbsFrame(args)>> \o AbsRoots
  BY <1>1, <1>4, <1>5, ChainPush
<1>7. AbsFrame(args) \in [Slot -> IF AbsRoots = << >> THEN {Null} ELSE H!Values]
  <2>1. ASSUME NEW s \in Slot PROVE Abs(args[s]) \in IF AbsRoots = << >> THEN {Null} ELSE H!Values
    <3>1. CASE chain = << >>
      BY <1>4, <3>1, AbsWord
    <3>2. CASE chain # << >>
      <4>1. args[s] \in Values
        BY <3>2
      <4> QED
        BY <1>2, <1>4, <3>2, <4>1, ValuesMap
    <3> QED
      BY <3>1, <3>2
  <2> QED
    BY <2>1 DEF AbsFrame
<1>8. H!Running /\ AbsCall' = AbsCall /\ AbsRet' = AbsRet
  BY <1>1, <1>2, AbsRunning DEF AbsCall, AbsRet
<1>9. H!Push(AbsFrame(args))
  BY <1>3, <1>6, <1>8 DEF H!Push
<1> QED
  BY <1>7, <1>9

LEMMA PopMap ==
  ASSUME HeapInv, LiveInv, HeapInv', LiveInv', chain # << >>, NEW v \in Values, gc_pop(v)
  PROVE  AbsRoots # << >> /\ Abs(v) \in H!Values /\ H!Pop(Abs(v))
<1>1. /\ pc = "run" /\ pc' = "run" /\ Running /\ chain' = Tail(chain)
      /\ ret' = IF Len(chain) = 1 THEN Null ELSE v
      /\ UNCHANGED <<header, car, use>>
  BY DEF gc_pop, heap, Running
<1>2. TypeOK /\ TypeOK' /\ NoLinks /\ NoLinks'
  BY DEF HeapInv, LiveInv
<1>3. AbsObj' = AbsObj
  BY <1>1, <1>2, SameObj
<1>4. /\ chain \in Seq(Frame) /\ AbsRoots = AbsChain(chain) /\ AbsRoots' = AbsChain(chain')
      /\ AbsRoots # << >> /\ Len(AbsRoots) = Len(chain)
  BY <1>2, AbsRootsIs, AbsRootsShape DEF AbsRoots, AbsChain
<1>5. AbsRoots' = Tail(AbsRoots)
  BY <1>1, <1>4, ChainPop
<1>6. Abs(v) \in H!Values /\ (Abs(v) = Null <=> v = Null)
  BY <1>2, ValuesMap
<1>7. AbsRet' = IF Abs(v) = Null \/ Len(AbsRoots) = 1 THEN None ELSE Abs(v)
  BY <1>1, <1>4, <1>6 DEF AbsRet
<1>8. H!Running /\ AbsCall' = AbsCall
  BY <1>1, <1>2, AbsRunning DEF AbsCall
<1> QED
  BY <1>3, <1>4, <1>5, <1>6, <1>7, <1>8 DEF H!Pop

LEMMA AssignMap ==
  ASSUME HeapInv, LiveInv, HeapInv', LiveInv', chain # << >>, NEW s \in Slot, NEW v \in Values,
         Assign(s, v)
  PROVE  AbsRoots # << >> /\ Abs(v) \in H!Values /\ H!Assign(s, Abs(v))
<1>1. /\ pc = "run" /\ pc' = "run" /\ Running /\ chain' = [chain EXCEPT ![1][s] = v]
      /\ UNCHANGED <<header, car, use, ret>>
  BY DEF Assign, heap, Running
<1>2. TypeOK /\ TypeOK' /\ NoLinks /\ NoLinks'
  BY DEF HeapInv, LiveInv
<1>3. AbsObj' = AbsObj
  BY <1>1, <1>2, SameObj
<1>4. /\ chain \in Seq(Frame) /\ AbsRoots = AbsChain(chain) /\ AbsRoots' = AbsChain(chain')
      /\ AbsRoots # << >>
  BY <1>2, AbsRootsIs, AbsRootsShape DEF AbsRoots, AbsChain
<1>5. v \in CarPtr \cup {Null} /\ Abs(v) \in H!Values
  BY <1>2, ValuesMap
<1>6. AbsRoots' = [AbsRoots EXCEPT ![1][s] = Abs(v)]
  <2>1. AbsChain([chain EXCEPT ![1][s] = v]) = [AbsChain(chain) EXCEPT ![1][s] = Abs(v)]
    BY <1>4, <1>5, ChainStore
  <2> QED
    BY <1>1, <1>4, <2>1
<1>7. H!Running /\ AbsCall' = AbsCall /\ AbsRet' = AbsRet
  BY <1>1, <1>2, AbsRunning DEF AbsCall, AbsRet
<1> QED
  BY <1>3, <1>4, <1>5, <1>6, <1>7 DEF H!Assign

\* A store to the car of a cell the program has.
LEMMA StoreCarMap ==
  ASSUME HeapInv, LiveInv, HeapInv', LiveInv', chain # << >>, NEW c \in Held, NEW v, StoreCar(c, v)
  PROVE  /\ AbsRoots # << >> /\ c \in H!Held /\ AbsObj[c].is_pointer = header[c].is_pointer
         /\ H!StoreCar(c, Abs(v))
<1>1. /\ pc = "run" /\ pc' = "run" /\ Running /\ car' = [car EXCEPT ![c] = v]
      /\ UNCHANGED <<header, use, chain, ret>>
  BY DEF StoreCar, Running
<1>2. TypeOK /\ TypeOK' /\ NoLinks /\ NoLinks'
  BY DEF HeapInv, LiveInv
<1>3. c \in H!Held /\ c \in Cell /\ use[c] # "free" /\ AbsObj[c].is_pointer = header[c].is_pointer
  BY <1>2, HeldMap
<1>4. AbsObj' = [AbsObj EXCEPT ![c].car = Abs(v)]
  <2>1. AbsObj = [d \in Cell |-> Object(use[d], header[d].is_pointer, car[d])]
    BY <1>2, AbsObjShape
  <2>2. AbsObj' = [d \in Cell |-> Object(use[d], header[d].is_pointer, car'[d])]
    BY <1>1, <1>2, AbsWord DEF AbsObj, Object, NoLinks
  <2>3. ASSUME NEW d \in Cell
        PROVE  Object(use[d], header[d].is_pointer, car'[d]) = [AbsObj EXCEPT ![c].car = Abs(v)][d]
    <3>1. CASE d = c
      <4>1. car'[c] = v
        BY <1>1, <1>2, <1>3 DEF TypeOK
      <4>2. AbsObj[c] = Object(use[c], header[c].is_pointer, car[c])
        BY <1>3, <2>1
      <4>3. [AbsObj EXCEPT ![c].car = Abs(v)][c] = [AbsObj[c] EXCEPT !.car = Abs(v)]
        BY <1>3, <2>1
      <4>4. [Object(use[c], header[c].is_pointer, car[c]) EXCEPT !.car = Abs(v)]
              = Object(use[c], header[c].is_pointer, v)
        BY <1>3 DEF Object
      <4> QED
        BY <3>1, <4>1, <4>2, <4>3, <4>4
    <3>2. CASE d # c
      <4>1. car'[d] = car[d]
        BY <1>1, <1>2, <3>2 DEF TypeOK
      <4> QED
        BY <2>1, <3>2, <4>1
    <3> QED
      BY <3>1, <3>2
  <2> QED
    BY <2>1, <2>2, <2>3
<1>5. AbsRoots # << >> /\ AbsRoots' = AbsRoots
  BY <1>1, <1>2, AbsRootsIs, AbsRootsShape DEF AbsRoots
<1>6. H!Running /\ AbsCall' = AbsCall /\ AbsRet' = AbsRet
  BY <1>1, <1>2, AbsRunning DEF AbsCall, AbsRet
<1> QED
  BY <1>3, <1>4, <1>5, <1>6 DEF H!StoreCar

\* The store that completes a cell.
LEMMA StoreCdrMap ==
  ASSUME HeapInv, LiveInv, HeapInv', LiveInv', chain # << >>, NEW c \in Held, StoreCdr(c, Null)
  PROVE  AbsRoots # << >> /\ c \in H!Held /\ H!StoreCdr(c, Null)
<1>1. /\ pc = "run" /\ pc' = "run" /\ Running /\ use[c] = "open"
      /\ use' = [use EXCEPT ![c] = "built"]
      /\ UNCHANGED <<header, car, chain, ret>>
  BY DEF StoreCdr, Running
<1>2. TypeOK /\ TypeOK' /\ NoLinks /\ NoLinks'
  BY DEF HeapInv, LiveInv
<1>3. c \in H!Held /\ c \in Cell /\ AbsObj[c].cdr = None
  BY <1>1, <1>2, HeldMap
<1>4. AbsObj' = [AbsObj EXCEPT ![c].cdr = Null]
  <2>1. AbsObj = [d \in Cell |-> Object(use[d], header[d].is_pointer, car[d])]
    BY <1>2, AbsObjShape
  <2>2. AbsObj' = [d \in Cell |-> Object(use'[d], header[d].is_pointer, car[d])]
    BY <1>1, <1>2, AbsWord DEF AbsObj, Object, NoLinks
  <2>3. ASSUME NEW d \in Cell
        PROVE  Object(use'[d], header[d].is_pointer, car[d]) = [AbsObj EXCEPT ![c].cdr = Null][d]
    <3>1. CASE d = c
      <4>1. use'[c] = "built"
        BY <1>1, <1>2, <1>3 DEF TypeOK
      <4>2. AbsObj[c] = Object("open", header[c].is_pointer, car[c])
        BY <1>1, <1>3, <2>1
      <4>3. [AbsObj EXCEPT ![c].cdr = Null][c] = [AbsObj[c] EXCEPT !.cdr = Null]
        BY <1>3, <2>1
      <4>4. [Object("open", header[c].is_pointer, car[c]) EXCEPT !.cdr = Null]
              = Object("built", header[c].is_pointer, car[c])
        BY DEF Object
      <4> QED
        BY <3>1, <4>1, <4>2, <4>3, <4>4
    <3>2. CASE d # c
      <4>1. use'[d] = use[d]
        BY <1>1, <1>2, <3>2 DEF TypeOK
      <4> QED
        BY <2>1, <3>2, <4>1
    <3> QED
      BY <3>1, <3>2
  <2> QED
    BY <2>1, <2>2, <2>3
<1>5. AbsRoots # << >> /\ AbsRoots' = AbsRoots
  BY <1>1, <1>2, AbsRootsIs, AbsRootsShape DEF AbsRoots
<1>6. H!Running /\ AbsCall' = AbsCall /\ AbsRet' = AbsRet
  BY <1>1, <1>2, AbsRunning DEF AbsCall, AbsRet
<1> QED
  BY <1>3, <1>4, <1>5, <1>6 DEF H!StoreCdr

-------------------------------------------------------------------------------
(* gc_new and the collector.                                               *)

\* What gc_new makes of the cell at the head of the free list.
LEMMA HandOutMap ==
  ASSUME HeapInv, LiveInv, HeapInv', LiveInv', pc \in {"run", "alloc"}, f # Null,
         UNCHANGED chain, NEW b \in BOOLEAN, NEW v, HandOut(b, v)
  PROVE  /\ f[1] \in Cell /\ AbsObj[f[1]] = None
         /\ AbsObj' = [AbsObj EXCEPT ![f[1]] = H!Fresh(b, Abs(v))]
         /\ AbsRet' = f[1] /\ AbsRoots' = AbsRoots
<1> DEFINE c0 == f[1]
<1>1. /\ header' = [header EXCEPT ![c0] = [is_marked |-> FALSE, is_pointer |-> b]]
      /\ car' = [car EXCEPT ![c0] = v]
      /\ use' = [use EXCEPT ![c0] = "open"]
      /\ ret' = <<c0, "car">>
  BY DEF HandOut
<1>2. TypeOK /\ TypeOK' /\ NoLinks /\ NoLinks'
  BY DEF HeapInv, LiveInv
<1>3. c0 \in Cell /\ c0 \notin Taken
  BY HeadIsFree DEF Free
<1> HIDE DEF c0
<1>4. AbsObj[c0] = None
  BY <1>2, <1>3, AbsObjShape
<1>5. AbsRet' = c0
  <2>1. <<c0, "car">> \in CarPtr /\ <<c0, "car">> # Null /\ Abs(<<c0, "car">>) = c0
    BY <1>3, AddressNotWord, AbsWord DEF CarPtr
  <2> QED
    BY <1>1, <2>1 DEF AbsRet
<1>6. AbsObj' = [AbsObj EXCEPT ![c0] = H!Fresh(b, Abs(v))]
  <2>1. AbsObj = [d \in Cell |-> Object(use[d], header[d].is_pointer, car[d])]
    BY <1>2, AbsObjShape
  <2>2. AbsObj' = [d \in Cell |-> Object(use'[d], header'[d].is_pointer, car'[d])]
    BY <1>2, AbsWord DEF AbsObj, Object, NoLinks
  <2>3. ASSUME NEW d \in Cell
        PROVE  Object(use'[d], header'[d].is_pointer, car'[d])
                 = [AbsObj EXCEPT ![c0] = H!Fresh(b, Abs(v))][d]
    <3>1. CASE d = c0
      <4>1. use'[d] = "open" /\ header'[d].is_pointer = b /\ car'[d] = v
        BY <1>1, <1>2, <1>3, <3>1 DEF TypeOK
      <4>2. Object("open", b, v) = H!Fresh(b, Abs(v))
        BY DEF Object, H!Fresh
      <4> QED
        BY <2>1, <3>1, <4>1, <4>2
    <3>2. CASE d # c0
      <4>1. use'[d] = use[d] /\ header'[d] = header[d] /\ car'[d] = car[d]
        BY <1>1, <1>2, <1>3, <3>2 DEF TypeOK
      <4> QED
        BY <2>1, <3>2, <4>1
    <3> QED
      BY <3>1, <3>2
  <2> QED
    BY <2>1, <2>2, <2>3
<1> QED
  BY <1>3, <1>4, <1>5, <1>6 DEF c0, AbsRoots

LEMMA NewMap ==
  ASSUME HeapInv, LiveInv, HeapInv', LiveInv', NEW b \in BOOLEAN, NEW v, gc_new(b, v)
  PROVE  \E c \in Cell : H!New(c, b, Abs(v))
<1>1. Running /\ f # Null /\ HandOut(b, v) /\ pc = "run" /\ pc' = "run" /\ UNCHANGED chain
  BY DEF gc_new, Running
<1>2. H!Running /\ AbsCall' = AbsCall
  BY <1>1, AbsRunning DEF HeapInv, AbsCall
<1>3. H!New(f[1], b, Abs(v)) /\ f[1] \in Cell
  BY <1>1, <1>2, HandOutMap DEF H!New
<1> QED
  BY <1>3

LEMMA WaitMap ==
  ASSUME HeapInv, LiveInv, HeapInv', LiveInv', NEW b \in BOOLEAN, NEW v, gc_new_collect(b, v)
  PROVE  H!Wait(b, Abs(v))
<1>1. /\ Running /\ pc' = "roots" /\ req' = [is_pointer |-> b, car |-> v]
      /\ UNCHANGED <<header, car, use, chain, ret>>
  BY DEF gc_new_collect, heap
<1>2. TypeOK /\ TypeOK' /\ NoLinks /\ NoLinks'
  BY DEF HeapInv, LiveInv
<1>3. AbsObj' = AbsObj
  BY <1>1, <1>2, SameObj
<1>4. /\ AbsCall' = [is_pointer |-> b, car |-> Abs(v)]
      /\ AbsRoots' = AbsRoots /\ AbsRet' = AbsRet /\ H!Running
  BY <1>1, <1>2, AbsRunning DEF AbsCall, AbsRoots, AbsRet
<1> QED
  BY <1>3, <1>4 DEF H!Wait

LEMMA ReturnMap ==
  ASSUME HeapInv, LiveInv, HeapInv', LiveInv', gc_new_retry
  PROVE  \E c \in Cell : H!Return(c)
<1>1. /\ pc = "alloc" /\ f # Null /\ HandOut(req.is_pointer, req.car)
      /\ pc' = "run" /\ UNCHANGED chain
  BY DEF gc_new_retry
<1>2. req.is_pointer \in BOOLEAN /\ TypeOK
  BY DEF HeapInv, TypeOK
<1>3. /\ f[1] \in Cell /\ AbsObj[f[1]] = None
      /\ AbsObj' = [AbsObj EXCEPT ![f[1]] = H!Fresh(req.is_pointer, Abs(req.car))]
      /\ AbsRet' = f[1] /\ AbsRoots' = AbsRoots
  BY <1>1, <1>2, HandOutMap
<1>4. /\ AbsCall # None /\ AbsCall' = None
      /\ AbsCall.is_pointer = req.is_pointer /\ AbsCall.car = Abs(req.car)
  BY <1>1, <1>2, AbsRunning DEF AbsCall
<1>5. H!Return(f[1])
  BY <1>3, <1>4 DEF H!Return
<1> QED
  BY <1>3, <1>5

\* What the cells in use name is in use: the object in a cell below sweep's counter, or
\* marked, leads to none that is neither.
LEMMA KeptClosed ==
  ASSUME HeapInv, LiveInv, pc = "sweep"
  PROVE  H!Rooted \subseteq Kept /\ H!Closed(Kept) /\ Kept \in SUBSET Cell
<1>1. TypeOK /\ NoLinks /\ RootsIn(Kept) /\ CarsIn(Kept, Kept)
  BY DEF HeapInv, LiveInv, KeptOK
<1>2. Kept \in SUBSET Cell
  BY DEF Kept, Taken
<1>3. /\ AbsRoots = AbsChain(chain) /\ DOMAIN AbsRoots = 1 .. Len(chain)
      /\ \A k \in 1 .. Len(chain) : /\ DOMAIN AbsRoots[k] = Slot
                                    /\ \A s \in Slot : AbsRoots[k][s] = Abs(chain[k][s])
                                    /\ chain[k] \in Frame
  BY <1>1, AbsRootsIs, AbsRootsShape
<1>4. ASSUME NEW c \in H!Rooted PROVE c \in Kept
  <2>1. c \in Cell /\ \E k \in DOMAIN AbsRoots : c \in {AbsRoots[k][s] : s \in DOMAIN AbsRoots[k]}
    BY DEF H!Rooted
  <2>2. PICK k \in DOMAIN AbsRoots : c \in {AbsRoots[k][s] : s \in DOMAIN AbsRoots[k]}
    BY <2>1
  <2>3. PICK s \in DOMAIN AbsRoots[k] : c = AbsRoots[k][s] /\ c \in Cell
    BY <2>1, <2>2
  <2>4. k \in 1 .. Len(chain) /\ s \in Slot /\ c = Abs(chain[k][s]) /\ chain[k][s] \in CarPtr \cup {Null}
    BY <1>3, <2>3 DEF Frame
  <2>5. chain[k][s] \in CarPtr /\ c = chain[k][s][1] /\ chain[k][s] # Null
    BY <2>3, <2>4, AbsWord, WordAssumption
  <2> QED
    BY <1>1, <2>4, <2>5 DEF RootsIn
<1>5. ASSUME NEW c \in Kept, NEW d \in H!Names(c) PROVE d \in Kept
  <2>1. c \in Cell /\ d \in Cell /\ AbsObj[c] # None
    BY <1>2, <1>5 DEF H!Names
  <2>2. use[c] # "free" /\ AbsObj[c] = Object(use[c], header[c].is_pointer, car[c])
    BY <1>1, <2>1, AbsObjShape DEF Taken
  <2>3. /\ AbsObj[c].is_pointer = header[c].is_pointer /\ AbsObj[c].car = Abs(car[c])
        /\ AbsObj[c].cdr \in {Null, None}
    BY <2>2 DEF Object
  <2>4. d \in {AbsObj[c].cdr} \cup IF AbsObj[c].is_pointer THEN {AbsObj[c].car} ELSE {}
    BY <1>5, <2>1 DEF H!Names
  <2>5. header[c].is_pointer /\ d = Abs(car[c])
    BY <2>1, <2>3, <2>4, AbsWord DEF TypeOK
  <2>6. car[c] \in {Null, Scalar} \cup CarPtr
    BY <1>1, <2>1 DEF TypeOK
  <2>7. car[c] \in CarPtr /\ d = car[c][1] /\ car[c] # Null
    BY <2>1, <2>5, <2>6, AbsWord, WordAssumption
  <2> QED
    BY <1>1, <1>5, <2>5, <2>7 DEF CarsIn
<1> QED
  BY <1>2, <1>4, <1>5 DEF H!Closed

LEMMA ReclaimMap ==
  ASSUME HeapInv, LiveInv, HeapInv', LiveInv', sweep_unmarked
  PROVE  \E c \in Cell : H!Reclaim(c)
<1>1. /\ pc = "sweep" /\ pc' = "sweep" /\ ~header[i].is_marked
      /\ use' = [use EXCEPT ![i] = "free"]
      /\ UNCHANGED <<header, car, chain, req, ret>>
  BY DEF sweep_unmarked
<1>2. TypeOK /\ TypeOK' /\ NoLinks /\ NoLinks'
  BY DEF HeapInv, LiveInv
<1>3. i \in Cell /\ ~(i < i)
  BY <1>2, NumCellsAssumption DEF sweep_unmarked, TypeOK, Cell
<1>4. i \notin Free /\ i \notin Kept
  BY <1>1, <1>3, PrevIsFree DEF Kept
<1>5. AbsObj[i] # None
  BY <1>2, <1>3, <1>4, AbsObjShape DEF Free
<1>6. i \notin H!Reach(H!Rooted)
  <2>1. Kept \in SUBSET Cell /\ H!Rooted \subseteq Kept /\ H!Closed(Kept)
    BY <1>1, KeptClosed
  <2> QED
    BY <1>4, <2>1 DEF H!Reach
<1>7. AbsObj' = [AbsObj EXCEPT ![i] = None]
  <2>1. AbsObj = [d \in Cell |-> Object(use[d], header[d].is_pointer, car[d])]
    BY <1>2, AbsObjShape
  <2>2. AbsObj' = [d \in Cell |-> Object(use'[d], header[d].is_pointer, car[d])]
    BY <1>1, <1>2, AbsWord DEF AbsObj, Object, NoLinks
  <2>3. ASSUME NEW d \in Cell
        PROVE  Object(use'[d], header[d].is_pointer, car[d]) = [AbsObj EXCEPT ![i] = None][d]
    <3>1. CASE d = i
      BY <1>1, <1>2, <2>1, <3>1 DEF TypeOK, Object
    <3>2. CASE d # i
      <4>1. use'[d] = use[d]
        BY <1>1, <1>2, <3>2 DEF TypeOK
      <4> QED
        BY <2>1, <3>2, <4>1
    <3> QED
      BY <3>1, <3>2
  <2> QED
    BY <2>1, <2>2, <2>3
<1>8. /\ AbsCall # None /\ AbsCall' = AbsCall
      /\ AbsRoots' = AbsRoots /\ AbsRet' = AbsRet
  BY <1>1, <1>2, AbsRunning DEF AbsCall, AbsRoots, AbsRet
<1>9. H!Reclaim(i)
  BY <1>5, <1>6, <1>7, <1>8 DEF H!Reclaim, H!Garbage
<1> QED
  BY <1>3, <1>9

-------------------------------------------------------------------------------
(* The refinement.                                                         *)

LEMMA ClientMap ==
  ASSUME HeapInv, LiveInv, HeapInv', LiveInv', ~Linking, Client
  PROVE  H!Program
<1>0. TypeOK /\ NoLinks
  BY DEF HeapInv, LiveInv
<1>1. ASSUME NEW s \in Slot, Keep(s) PROVE H!Program
  BY <1>1, KeepMap DEF H!Program
<1>2. ASSUME NEW args \in [Slot -> IF chain = << >> THEN {Null} ELSE Values], gc_push(args)
      PROVE  H!Program
  BY <1>2, PushMap DEF H!Program
<1>3. ASSUME chain # << >>, NEW v \in Values, gc_pop(v) PROVE H!Program
  BY <1>3, PopMap DEF H!Program
<1>4. ASSUME chain # << >>, NEW s \in Slot, NEW v \in Values, Assign(s, v) PROVE H!Program
  BY <1>4, AssignMap DEF H!Program
<1>5. ASSUME chain # << >>, NEW c \in Held, header[c].is_pointer, NEW v \in Values, StoreCar(c, v)
      PROVE  H!Program
  <2>1. AbsRoots # << >> /\ c \in H!Held /\ AbsObj[c].is_pointer /\ H!StoreCar(c, Abs(v))
    BY <1>5, StoreCarMap
  <2>2. Abs(v) \in H!Values
    BY <1>0, <1>5, ValuesMap
  <2> QED
    BY <2>1, <2>2 DEF H!Program
<1>6. ASSUME chain # << >>, NEW c \in Held, ~header[c].is_pointer, NEW v \in {Null, Scalar},
             StoreCar(c, v)
      PROVE  H!Program
  <2>1. AbsRoots # << >> /\ c \in H!Held /\ ~AbsObj[c].is_pointer /\ H!StoreCar(c, Abs(v))
    BY <1>6, StoreCarMap
  <2>2. Abs(v) = v
    BY AbsWord
  <2> QED
    BY <2>1, <2>2 DEF H!Program
<1>7. ASSUME chain # << >>, NEW c \in Held, StoreCdr(c, Null) PROVE H!Program
  <2>1. AbsRoots # << >> /\ c \in H!Held /\ H!StoreCdr(c, Null)
    BY <1>7, StoreCdrMap
  <2>2. Null \in H!Values
    BY DEF H!Values
  <2> QED
    BY <2>1, <2>2 DEF H!Program
<1> QED
  BY <1>1, <1>2, <1>3, <1>4, <1>5, <1>6, <1>7 DEF Client

LEMMA AllocMap ==
  ASSUME HeapInv, LiveInv, HeapInv', LiveInv', Alloc
  PROVE  H!Alloc
<1>1. TypeOK /\ NoLinks /\ chain # << >>
  BY DEF HeapInv, LiveInv, Alloc
<1>2. AbsRoots # << >>
  BY <1>1, AbsRootsIs, AbsRootsShape
<1>3. ASSUME NEW v \in Values, gc_new(TRUE, v) \/ gc_new_collect(TRUE, v) PROVE H!Alloc
  <2>1. Abs(v) \in H!Values
    BY <1>1, ValuesMap
  <2>2. H!Wait(TRUE, Abs(v)) \/ \E c \in Cell : H!New(c, TRUE, Abs(v))
    BY <1>3, NewMap, WaitMap
  <2> QED
    BY <1>2, <2>1, <2>2 DEF H!Alloc
<1>4. ASSUME NEW v \in {Null, Scalar}, gc_new(FALSE, v) \/ gc_new_collect(FALSE, v) PROVE H!Alloc
  <2>1. Abs(v) = v
    BY AbsWord
  <2>2. H!Wait(FALSE, Abs(v)) \/ \E c \in Cell : H!New(c, FALSE, Abs(v))
    BY <1>4, NewMap, WaitMap
  <2> QED
    BY <1>2, <2>1, <2>2 DEF H!Alloc
<1> QED
  BY <1>3, <1>4 DEF Alloc

LEMMA InitMap == Init => H!Init
<1> SUFFICES ASSUME Init PROVE H!Init
  OBVIOUS
<1>1. AbsObj = [c \in Cell |-> None]
  BY DEF Init, AbsObj
<1>2. AbsRoots = << >>
  <2>1. << >> \in Seq(Frame)
    OBVIOUS
  <2>2. AbsRoots = AbsChain(<< >>)
    BY DEF Init, AbsRoots, AbsChain
  <2> QED
    BY <2>1, <2>2, AbsRootsShape
<1>3. AbsCall = None /\ AbsRet = None
  BY DEF Init, AbsCall, AbsRet
<1> QED
  BY <1>1, <1>2, <1>3 DEF H!Init

LEMMA StepMap ==
  ASSUME HeapInv, LiveInv, HeapInv', LiveInv', ~Linking, [Next]_vars
  PROVE  [H!Next]_(H!vars)
<1>1. CASE Client
  BY <1>1, ClientMap DEF H!Next
<1>2. CASE Alloc
  BY <1>2, AllocMap DEF H!Next
<1>3. CASE gc_new_retry
  BY <1>3, ReturnMap DEF H!Next
<1>4. CASE sweep_unmarked
  BY <1>4, ReclaimMap DEF H!Next
<1>5. CASE Collector /\ ~gc_new_retry /\ ~sweep_unmarked
  BY <1>5, CollectorUnnoticed DEF Collector
<1>6. CASE UNCHANGED vars
  BY <1>6 DEF vars, H!vars, AbsObj, AbsRoots, AbsCall, AbsRet
<1> QED
  BY <1>1, <1>2, <1>3, <1>4, <1>5, <1>6 DEF Next

\* gc.c implements the abstract heap for every program that links no list (Linking is a
\* constant: to say that it is false always is to say that it is false): no step of mark
\* or sweep is noticed but the freeing of an object that no root reaches, and gc_new
\* returns a free cell (gc.c:60-191).
THEOREM Refinement == Spec /\ [](~Linking) => ImplementsAbsHeap
<1>1. Init => H!Init
  BY InitMap
<1>2. ASSUME HeapInv, LiveInv, HeapInv', LiveInv', ~Linking, [Next]_vars
      PROVE  [H!Next]_(H!vars)
  BY <1>2, StepMap
<1> QED
  BY <1>1, <1>2, HeapInvariant, LiveInvariant, PTL DEF Spec, ImplementsAbsHeap, H!Spec
===============================================================================
