------------------------------- MODULE AbsHeap --------------------------------
(***************************************************************************)
(* The heap with any program that keeps what it needs in the roots of its   *)
(* innermost frame: the specification that Gc implements.                   *)
(***************************************************************************)
EXTENDS Heap

CONSTANT Slot  \* the root slots of a frame

VARIABLES
  call,  \* the gc_new that is waiting for the collector: its arguments and the word
         \* its caller will store into the car; None when there is none
  ret    \* the pointer a call has just returned, None when it is stored

vars == <<obj, roots, call, ret>>

Init ==
  /\ obj = [c \in Cell |-> None]
  /\ roots = << >>
  /\ call = None /\ ret = None

Running == call = None /\ ret = None

InSlot == {Head(roots)[s] : s \in Slot}
Held == {c \in Cell : c \in InSlot /\ obj[c] # None}

\* What the innermost frame can load in one step.
Values == {Null} \cup (Pointer \cap (InSlot \cup {obj[c].cdr : c \in Held}
                                           \cup {obj[c].car : c \in Held}))

-------------------------------------------------------------------------------
\* gc_new, without a collection.
New(c, is_pointer, v) ==
  /\ Running
  /\ obj[c] = None
  /\ obj' = [obj EXCEPT ![c] = Fresh(is_pointer, v)]
  /\ ret' = c
  /\ UNCHANGED <<roots, call>>

\* gc_new, with one: it frees garbage cell by cell, not necessarily all of it.
Wait(is_pointer, v) ==
  /\ Running
  /\ call' = [is_pointer |-> is_pointer, car |-> v]
  /\ UNCHANGED <<obj, roots, ret>>

Reclaim(c) ==
  /\ call # None
  /\ Garbage(c)
  /\ obj' = [obj EXCEPT ![c] = None]
  /\ UNCHANGED <<roots, call, ret>>

Return(c) ==
  /\ call # None
  /\ obj[c] = None
  /\ obj' = [obj EXCEPT ![c] = Fresh(call.is_pointer, call.car)]
  /\ call' = None
  /\ ret' = c
  /\ UNCHANGED roots

-------------------------------------------------------------------------------
\* The program.
Keep(s) ==
  /\ call = None /\ ret # None
  /\ roots' = [roots EXCEPT ![1][s] = ret]
  /\ ret' = None
  /\ UNCHANGED <<obj, call>>

Push(args) ==
  /\ Running
  /\ roots' = <<args>> \o roots
  /\ UNCHANGED <<obj, call, ret>>

Pop(v) ==
  /\ Running
  /\ roots' = Tail(roots)
  /\ ret' = IF v = Null \/ Len(roots) = 1 THEN None ELSE v
  /\ UNCHANGED <<obj, call>>

Assign(s, v) ==
  /\ Running
  /\ roots' = [roots EXCEPT ![1][s] = v]
  /\ UNCHANGED <<obj, call, ret>>

StoreCar(c, v) ==
  /\ Running
  /\ obj' = [obj EXCEPT ![c].car = v]
  /\ UNCHANGED <<roots, call, ret>>

StoreCdr(c, v) ==
  /\ Running
  /\ obj[c].cdr = None
  /\ obj' = [obj EXCEPT ![c].cdr = v]
  /\ UNCHANGED <<roots, call, ret>>

-------------------------------------------------------------------------------
Program ==
  \/ \E s \in Slot : Keep(s)
  \/ \E args \in [Slot -> IF roots = << >> THEN {Null} ELSE Values] : Push(args)
  \/ roots # << >> /\ \E v \in Values :
       \/ Pop(v)
       \/ \E s \in Slot : Assign(s, v)
       \/ \E c \in Held : obj[c].is_pointer /\ StoreCar(c, v)
       \/ \E c \in Held : StoreCdr(c, v)
  \/ roots # << >> /\ \E c \in Held, v \in {Null, Scalar} : ~obj[c].is_pointer /\ StoreCar(c, v)

Alloc ==
  /\ roots # << >>
  /\ \/ \E v \in Values : Wait(TRUE, v) \/ \E c \in Cell : New(c, TRUE, v)
     \/ \E v \in {Null, Scalar} : Wait(FALSE, v) \/ \E c \in Cell : New(c, FALSE, v)

Next ==
  \/ Program \/ Alloc
  \/ \E c \in Cell : Reclaim(c) \/ Return(c)

Spec == Init /\ [][Next]_vars
===============================================================================
