--------------------------------- MODULE Heap ---------------------------------
(***************************************************************************)
(* What the collector of runtime/src/gc.c promises, without its words: a    *)
(* heap of cells, each free or an object, and a shadow stack of frames.     *)
(* gc_new hands out a free cell; before that it may collect, and then cells *)
(* that no root reaches become free, but no others.                         *)
(***************************************************************************)
EXTENDS Integers, Sequences

CONSTANTS
  Cell,    \* the cells of the arena; a cell is also the pointer to it
  Null,    \* the null pointer
  Scalar,  \* any word that is no pointer
  None     \* no object, no value

ASSUME WordAssumption ==
  /\ Null # Scalar /\ Null # None /\ Scalar # None
  /\ {Null, Scalar, None} \cap Cell = {}

VARIABLES
  obj,    \* the object in each cell, None in a free one
  roots   \* llvm_gc_root_chain, innermost frame first: the contents of its roots

Pointer == Cell \cup {Null}

\* The cdr is None until the program has stored one.
Object == [is_pointer : BOOLEAN, car : Pointer \cup {Scalar}, cdr : Pointer \cup {None}]

\* The cells that the object in c names.
Names(c) ==
  IF obj[c] = None THEN {}
  ELSE Cell \cap ({obj[c].cdr} \cup IF obj[c].is_pointer THEN {obj[c].car} ELSE {})

Closed(S) == \A c \in S : Names(c) \subseteq S

\* The cells reached from those in R: every closed set around R has them.
Reach(R) == {c \in Cell : \A S \in SUBSET Cell : R \subseteq S /\ Closed(S) => c \in S}

Rooted == Cell \cap UNION {{roots[k][s] : s \in DOMAIN roots[k]} : k \in DOMAIN roots}

\* What collect() may free.
Garbage(c) == obj[c] # None /\ c \notin Reach(Rooted)

\* A new object, with the car that the caller stores at once.
Fresh(is_pointer, v) == [is_pointer |-> is_pointer, car |-> v, cdr |-> None]
===============================================================================
