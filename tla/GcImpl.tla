-------------------------------- MODULE GcImpl --------------------------------
(***************************************************************************)
(* gc.c implements the abstract heap, for programs whose cells hang together *)
(* by their cars (Linking = FALSE).  Abstractly a cell is an object from the  *)
(* moment gc_new returns it to the moment sweep() puts it on the free list;   *)
(* headers, marks, free-list links and the progress of the collector are      *)
(* hidden.                                                                  *)
(***************************************************************************)
EXTENDS Gc

CONSTANT None  \* no object, no value

\* A word that is no address is no cell number, and None is none of the values that the
\* abstract heap tells it from: it stands for nothing in gc.c.
ASSUME NoneAssumption ==
  /\ {Null, Scalar, None} \cap Cell = {} /\ None \notin {Null, Scalar}
  /\ None \notin [is_pointer : BOOLEAN, car : Cell \cup {Null, Scalar}]
  /\ None \notin [is_pointer : BOOLEAN, car : Cell \cup {Null, Scalar}, cdr : Cell \cup {Null, None}]

\* A pointer to a cell is the address of its car.
Abs(w) == IF w \in CarPtr THEN w[1] ELSE w

AbsObj ==
  [c \in Cell |->
     IF use[c] = "free" THEN None
     ELSE [is_pointer |-> header[c].is_pointer,
           car |-> Abs(car[c]),
           cdr |-> IF use[c] = "built" THEN Abs(cdr[c]) ELSE None]]

AbsRoots == [k \in DOMAIN chain |-> [s \in Slot |-> Abs(chain[k][s])]]

AbsCall ==
  IF pc = "run" THEN None ELSE [is_pointer |-> req.is_pointer, car |-> Abs(req.car)]

AbsRet == IF ret = Null THEN None ELSE Abs(ret)

H == INSTANCE AbsHeap WITH obj <- AbsObj, roots <- AbsRoots, call <- AbsCall, ret <- AbsRet

\* Every step of gc.c is one of the abstract heap or invisible to the program: no
\* step of mark or sweep but that which puts an unreachable cell on the free list can
\* be noticed, whatever was reachable when collect() began stays as it was until
\* gc_new returns, and what gc_new returns was free (gc.c:60-191).
ImplementsAbsHeap == H!Spec
===============================================================================
