---------------------------------- MODULE Gc ----------------------------------
(***************************************************************************)
(* The run-time heap of runtime/src/gc.c: an arena of fixed-size cells, a  *)
(* free list threaded through the cells, and a stop-the-world mark-sweep   *)
(* collector started by gc_new when the free list is empty.                *)
(*                                                                         *)
(* A cell is three machine words: a header (is_marked, is_pointer, car_t), *)
(* a car and a cdr.  The address of a word is <<cell, field>>, and the     *)
(* pointer arithmetic of gc.c is kept: generated code holds the address of *)
(* a car (gc_new returns object + 1), the free list holds addresses of     *)
(* cdrs (allocator->f, prev->cdr = curr), and a step of eight bytes from a *)
(* header reaches the cdr of the cell before it.                           *)
(*                                                                         *)
(* The client is any compiled program that keeps each value it needs in a  *)
(* root slot of its shadow-stack frame, and writes to a cell only while it *)
(* has it.                                                                 *)
(***************************************************************************)
EXTENDS Integers, Sequences

CONSTANTS
  NumCells,    \* NUM_OF_CELLS
  MaxFrames,   \* bound: frames on the shadow stack at any time
  NumRoots,    \* num_roots, the root slots of a frame
  Linking,     \* does the program build lists of more than one cell?
  Null,        \* the null word, which is also the integer 0
  Scalar,      \* any word that is neither zero nor an address
  One          \* the word 0x1, which setMarked can leave in a null cdr

Cell == 0 .. NumCells - 1
Slot == 1 .. NumRoots
CarPtr == Cell \X {"car"}
CdrPtr == Cell \X {"cdr"}
HeaderPtr == Cell \X {"header"}

ASSUME NumCellsAssumption == NumCells \in Nat \ {0}
ASSUME BoundsAssumption == MaxFrames \in Nat /\ NumRoots \in Nat /\ Linking \in BOOLEAN
ASSUME WordAssumption ==
  /\ Null # Scalar /\ Null # One /\ Scalar # One
  /\ {Null, Scalar, One} \cap (CarPtr \cup CdrPtr \cup HeaderPtr) = {}

VARIABLES
  header,   \* the Object of each cell; car_t only selects how print_cons prints
  car,      \* the word at value pointer + 0
  cdr,      \* the word at value pointer + 8
  f,        \* allocator->f
  chain,    \* llvm_gc_root_chain, innermost frame first: the contents of its roots
  pc,       \* who runs: the program, a phase of the collector, or nobody any more
  req,      \* the gc_new call waiting for the collector: its arguments and the
            \* word its caller stores into the new car as soon as it returns
  ret,      \* the pointer a call has just returned, not yet stored by the caller
  stack,    \* the activations of mark(), outermost first
  cursor,   \* visitGCRoots: the frame and the root slot to visit next
  i,        \* sweep: the loop counter
  prev,     \* sweep: prev
  use       \* history: who has each cell ("open" until its cdr is first stored)

heap == <<header, car, cdr, f, use>>
collector == <<stack, cursor, i, prev>>
vars == <<header, car, cdr, f, chain, pc, req, ret, stack, cursor, i, prev, use>>

Taken == {c \in Cell : use[c] # "free"}
NoReq == [is_pointer |-> FALSE, car |-> Null]

-------------------------------------------------------------------------------
(* Pointer arithmetic and the accessors of gc.c.                           *)

\* p - 8 bytes.  <<-1, "cdr">> is the word malloc keeps before the arena.
Before(p) ==
  CASE p[2] = "cdr"    -> <<p[1], "car">>
    [] p[2] = "car"    -> <<p[1], "header">>
    [] p[2] = "header" -> <<p[1] - 1, "cdr">>

extractHeader(p) == Before(p)

\* The low 16 bits of the word at the header address of p.  They are zero in a
\* null word only: cell addresses are taken to have a non-zero low half, and the
\* word before the arena is the size malloc recorded.
isMarked(p) ==
  LET h == extractHeader(p)
  IN  IF h[2] = "header" THEN header[h[1]].is_marked
                         ELSE h[1] = -1 \/ cdr[h[1]] # Null

\* The next 16 bits.  mark() reads them after setMarked, which leaves 0x1 in a
\* null word.
isPointer(p) ==
  LET h == extractHeader(p)
  IN  h[2] = "header" /\ header[h[1]].is_pointer

setMarked(p) ==
  LET h == extractHeader(p)
  IN  IF h[2] = "header"
      THEN header' = [header EXCEPT ![h[1]].is_marked = TRUE] /\ UNCHANGED cdr
      ELSE cdr' = [cdr EXCEPT ![h[1]] = One] /\ UNCHANGED header

\* The word at p + 8 bytes, for the two fields mark() is called on.
CdrOf(p) == IF p[2] = "car" THEN cdr[p[1]] ELSE car[p[1]]

-------------------------------------------------------------------------------
\* initAllocator: every cell unmarked and on the free list, in address order.
initAllocator ==
  /\ header = [c \in Cell |-> [is_marked |-> FALSE, is_pointer |-> FALSE]]
  /\ car = [c \in Cell |-> Null]
  /\ cdr = [c \in Cell |-> IF c + 1 \in Cell THEN <<c + 1, "cdr">> ELSE Null]
  /\ f = <<0, "cdr">>

Init ==
  /\ initAllocator
  /\ use = [c \in Cell |-> "free"]
  /\ chain = << >>
  /\ pc = "run" /\ req = NoReq /\ ret = Null
  /\ stack = << >> /\ cursor = <<1, 1>> /\ i = 0 /\ prev = Null

-------------------------------------------------------------------------------
(* The program.  It runs between calls of gc_new, and stores what a call   *)
(* returned before it does anything else.                                  *)

Running == pc = "run" /\ ret = Null

InSlot == {Head(chain)[s] : s \in Slot}
Held == {c \in Taken : <<c, "car">> \in InSlot}

\* What the innermost frame can load: its slots, the pointer cars of the cells
\* they name (gc_car, gc_proj) and the cdrs of finished ones (gc_cdr).
Loadable ==
  {Null} \cup InSlot
         \cup {car[c] : c \in {d \in Held : header[d].is_pointer}}
         \cup {cdr[c] : c \in {d \in Held : use[d] = "built"}}

Values == Loadable \cap (CarPtr \cup {Null})

\* The store that follows a call: into a variable or an aux_alloca.
Keep(s) ==
  /\ pc = "run" /\ ret # Null
  /\ chain' = [chain EXCEPT ![1][s] = ret]
  /\ ret' = Null
  /\ UNCHANGED <<heap, pc, req, collector>>

\* Prologue of a function: gc_push of a frame whose slots hold the arguments;
\* llvm.gcroot nulls the others.
gc_push(args) ==
  /\ Running
  /\ Len(chain) < MaxFrames
  /\ chain' = <<args>> \o chain
  /\ UNCHANGED <<heap, pc, req, ret, collector>>

\* Epilogue: gc_pop, then return of a value computed before it.
gc_pop(v) ==
  /\ Running
  /\ chain # << >>
  /\ chain' = Tail(chain)
  /\ ret' = IF Len(chain) = 1 THEN Null ELSE v
  /\ UNCHANGED <<heap, pc, req, collector>>

Assign(s, v) ==
  /\ Running
  /\ chain' = [chain EXCEPT ![1][s] = v]
  /\ UNCHANGED <<heap, pc, req, ret, collector>>

\* x[n] = v: the new word is of the same kind as the old one.
StoreCar(c, v) ==
  /\ Running
  /\ car' = [car EXCEPT ![c] = v]
  /\ UNCHANGED <<header, cdr, f, use, chain, pc, req, ret, collector>>

\* The store of the cdr that completes a cell.
StoreCdr(c, v) ==
  /\ Running
  /\ use[c] = "open"
  /\ cdr' = [cdr EXCEPT ![c] = v]
  /\ use' = [use EXCEPT ![c] = "built"]
  /\ UNCHANGED <<header, car, f, chain, pc, req, ret, collector>>

-------------------------------------------------------------------------------
(* gc_new.                                                                 *)

\* Fault: the cell stays on the free list.
HandOut_NoUnlink(is_pointer, v) ==
  LET c == f[1]
  IN  /\ header' = [header EXCEPT ![c] = [is_marked |-> FALSE, is_pointer |-> is_pointer]]
      /\ car' = [car EXCEPT ![c] = v]
      /\ use' = [use EXCEPT ![c] = "open"]
      /\ ret' = <<c, "car">>
      /\ UNCHANGED <<cdr, f>>

\* The cell at the front of the free list, its header written, its cdr left as
\* the free list left it, and the caller's store into its car.
HandOut(is_pointer, v) ==
  LET c == f[1]
  IN  /\ header' = [header EXCEPT ![c] = [is_marked |-> FALSE, is_pointer |-> is_pointer]]
      /\ f' = cdr[c]
      /\ car' = [car EXCEPT ![c] = v]
      /\ use' = [use EXCEPT ![c] = "open"]
      /\ ret' = <<c, "car">>
      /\ UNCHANGED cdr

gc_new(is_pointer, v) ==
  /\ Running
  /\ f # Null
  /\ HandOut(is_pointer, v)
  /\ UNCHANGED <<chain, pc, req, collector>>

gc_new_collect(is_pointer, v) ==
  /\ Running
  /\ f = Null
  /\ req' = [is_pointer |-> is_pointer, car |-> v]
  /\ pc' = "roots"
  /\ cursor' = <<1, 1>>
  /\ UNCHANGED <<heap, chain, ret, stack, i, prev>>

gc_new_retry ==
  /\ pc = "alloc"
  /\ f # Null
  /\ HandOut(req.is_pointer, req.car)
  /\ pc' = "run" /\ req' = NoReq
  /\ UNCHANGED <<chain, collector>>

\* Fault: the free list is not looked at again after the collection.
gc_new_abort_AtOnce ==
  /\ pc = "alloc"
  /\ pc' = "oom"
  /\ UNCHANGED <<heap, chain, req, ret, collector>>

\* "Out of memory!": abort()
gc_new_abort ==
  /\ pc = "alloc"
  /\ f = Null
  /\ pc' = "oom"
  /\ UNCHANGED <<heap, chain, req, ret, collector>>

-------------------------------------------------------------------------------
(* collect(): visitGCRoots(markFromRoots), then sweep().  mark() recurses, *)
(* so its activations are kept on a stack: "car" before it has looked at   *)
(* the car of its argument, "cdr" before it has looked at the cdr.         *)

Activation(p) == [ptr |-> p, at |-> "car"]
Top == stack[Len(stack)]
Popped == SubSeq(stack, 1, Len(stack) - 1)

\* markFromRoots on the root under the cursor.
markFromRoots ==
  /\ pc = "roots" /\ stack = << >>
  /\ cursor[1] <= Len(chain) /\ cursor[2] \in Slot
  /\ LET ref == chain[cursor[1]][cursor[2]]
     IN  IF ref # Null /\ ~isMarked(ref)
         THEN setMarked(ref) /\ stack' = Append(stack, Activation(ref))
         ELSE UNCHANGED <<header, cdr, stack>>
  /\ cursor' = <<cursor[1], cursor[2] + 1>>
  /\ UNCHANGED <<car, f, use, chain, pc, req, ret, i, prev>>

\* Fault: the loop does not advance to r->next.
NextFrame_Stuck ==
  /\ pc = "roots" /\ stack = << >>
  /\ cursor[1] <= Len(chain) /\ cursor[2] \notin Slot
  /\ cursor' = <<cursor[1], 1>>
  /\ UNCHANGED <<heap, chain, pc, req, ret, stack, i, prev>>

\* Fault: only the innermost frame is visited.
NextFrame_Skip ==
  /\ pc = "roots" /\ stack = << >>
  /\ cursor[1] <= Len(chain) /\ cursor[2] \notin Slot
  /\ cursor' = <<Len(chain) + 1, 1>>
  /\ UNCHANGED <<heap, chain, pc, req, ret, stack, i, prev>>

\* for r = r->next
NextFrame ==
  /\ pc = "roots" /\ stack = << >>
  /\ cursor[1] <= Len(chain) /\ cursor[2] \notin Slot
  /\ cursor' = <<cursor[1] + 1, 1>>
  /\ UNCHANGED <<heap, chain, pc, req, ret, stack, i, prev>>

\* Fault: the car is not looked at.
mark_car_Ignored ==
  /\ pc = "roots" /\ stack # << >> /\ Top.at = "car"
  /\ stack' = Append(Popped, [ptr |-> Top.ptr, at |-> "cdr"])
  /\ UNCHANGED <<heap, chain, pc, req, ret, cursor, i, prev>>

\* Fault: mark(car) without setMarked(car).
mark_car_Unset ==
  /\ pc = "roots" /\ stack # << >> /\ Top.at = "car"
  /\ LET p    == Top.ptr
         next == IF isPointer(p) THEN car[p[1]] ELSE Null
         here == Append(Popped, [ptr |-> p, at |-> "cdr"])
     IN  stack' = IF next # Null /\ ~isMarked(next) THEN Append(here, Activation(next)) ELSE here
  /\ UNCHANGED <<heap, chain, pc, req, ret, cursor, i, prev>>

mark_car ==
  /\ pc = "roots" /\ stack # << >> /\ Top.at = "car"
  /\ LET p    == Top.ptr
         next == IF isPointer(p) THEN car[p[1]] ELSE Null
         here == Append(Popped, [ptr |-> p, at |-> "cdr"])
     IN  IF next # Null /\ ~isMarked(next)
         THEN setMarked(next) /\ stack' = Append(here, Activation(next))
         ELSE stack' = here /\ UNCHANGED <<header, cdr>>
  /\ UNCHANGED <<car, f, use, chain, pc, req, ret, cursor, i, prev>>

\* The cell named by a cdr is sought eight bytes below the address the cdr holds:
\* right for a link of the free list, one word too low for a link of a list.
mark_cdr ==
  /\ pc = "roots" /\ stack # << >> /\ Top.at = "cdr"
  /\ LET next_cdr  == CdrOf(Top.ptr)
         next_cell == Before(next_cdr)
     IN  /\ next_cdr \notin {Scalar, One}
         /\ IF next_cdr # Null /\ ~isMarked(next_cell)
            THEN setMarked(next_cell) /\ stack' = Append(Popped, Activation(next_cell))
            ELSE stack' = Popped /\ UNCHANGED <<header, cdr>>
  /\ UNCHANGED <<car, f, use, chain, pc, req, ret, cursor, i, prev>>

\* A cdr that is not an address is dereferenced: undefined behaviour, in practice
\* a fault on an unmapped page.
mark_wild ==
  /\ pc = "roots" /\ stack # << >> /\ Top.at = "cdr"
  /\ CdrOf(Top.ptr) \in {Scalar, One}
  /\ pc' = "undefined"
  /\ UNCHANGED <<heap, chain, req, ret, collector>>

sweep ==
  /\ pc = "roots" /\ stack = << >> /\ cursor[1] > Len(chain)
  /\ pc' = "sweep"
  /\ f' = Null /\ prev' = Null /\ i' = 0
  /\ UNCHANGED <<header, car, cdr, use, chain, req, ret, stack, cursor>>

\* Fault: the mark stays for the next collection.
sweep_marked_Keep ==
  /\ pc = "sweep" /\ i < NumCells
  /\ header[i].is_marked
  /\ i' = i + 1
  /\ UNCHANGED <<heap, chain, pc, req, ret, stack, cursor, prev>>

sweep_marked ==
  /\ pc = "sweep" /\ i < NumCells
  /\ header[i].is_marked
  /\ header' = [header EXCEPT ![i].is_marked = FALSE]
  /\ i' = i + 1
  /\ UNCHANGED <<car, cdr, f, use, chain, pc, req, ret, stack, cursor, prev>>

\* Fault: prev is not moved on, so that each free cell is linked to the first.
sweep_unmarked_NoPrev ==
  /\ pc = "sweep" /\ i < NumCells
  /\ ~header[i].is_marked
  /\ LET curr == <<i, "cdr">>
     IN  IF f = Null
         THEN f' = curr /\ prev' = curr /\ UNCHANGED cdr
         ELSE cdr' = [cdr EXCEPT ![prev[1]] = curr] /\ UNCHANGED <<f, prev>>
  /\ use' = [use EXCEPT ![i] = "free"]
  /\ i' = i + 1
  /\ UNCHANGED <<header, car, chain, pc, req, ret, stack, cursor>>

\* Fault: the list is threaded through the cars, as if ptr + 8 were its node.
sweep_unmarked_Car ==
  /\ pc = "sweep" /\ i < NumCells
  /\ ~header[i].is_marked
  /\ LET curr == <<i, "car">>
     IN  /\ IF f = Null
            THEN f' = curr /\ UNCHANGED cdr
            ELSE cdr' = [cdr EXCEPT ![prev[1]] = curr] /\ UNCHANGED f
         /\ prev' = curr
  /\ use' = [use EXCEPT ![i] = "free"]
  /\ i' = i + 1
  /\ UNCHANGED <<header, car, chain, pc, req, ret, stack, cursor>>

sweep_unmarked ==
  /\ pc = "sweep" /\ i < NumCells
  /\ ~header[i].is_marked
  /\ LET curr == <<i, "cdr">>
     IN  /\ IF f = Null
            THEN f' = curr /\ UNCHANGED cdr
            ELSE cdr' = [cdr EXCEPT ![prev[1]] = curr] /\ UNCHANGED f
         /\ prev' = curr
  /\ use' = [use EXCEPT ![i] = "free"]
  /\ i' = i + 1
  /\ UNCHANGED <<header, car, chain, pc, req, ret, stack, cursor>>

sweep_end ==
  /\ pc = "sweep" /\ i = NumCells
  /\ cdr' = IF prev = Null THEN cdr ELSE [cdr EXCEPT ![prev[1]] = Null]
  /\ pc' = "alloc"
  /\ UNCHANGED <<header, car, f, use, chain, req, ret, collector>>

-------------------------------------------------------------------------------
Client ==
  \/ \E s \in Slot : Keep(s)
  \/ \E args \in [Slot -> IF chain = << >> THEN {Null} ELSE Values] : gc_push(args)
  \/ chain # << >> /\ \/ \E v \in Values : gc_pop(v)
                      \/ \E s \in Slot, v \in Values : Assign(s, v)
                      \/ \E c \in Held : \/ header[c].is_pointer /\ \E v \in Values : StoreCar(c, v)
                                         \/ ~header[c].is_pointer /\ \E v \in {Null, Scalar} : StoreCar(c, v)
                      \/ \E c \in Held : \E v \in (IF Linking THEN Values ELSE {Null}) : StoreCdr(c, v)

Alloc ==
  /\ chain # << >>
  /\ \/ \E v \in Values : gc_new(TRUE, v) \/ gc_new_collect(TRUE, v)
     \/ \E v \in {Null, Scalar} : gc_new(FALSE, v) \/ gc_new_collect(FALSE, v)

Collector ==
  \/ markFromRoots \/ NextFrame \/ mark_car \/ mark_cdr \/ mark_wild
  \/ sweep \/ sweep_marked \/ sweep_unmarked \/ sweep_end
  \/ gc_new_retry \/ gc_new_abort

Next == Client \/ Alloc \/ Collector

Spec == Init /\ [][Next]_vars

\* The collector is a call that runs on the program's own thread: once entered
\* nothing else runs, and it is not suspended.
FairSpec == Spec /\ WF_vars(Collector)

-------------------------------------------------------------------------------
(* Correctness.                                                            *)

Word == {Null, Scalar, One} \cup CarPtr \cup CdrPtr

TypeOK ==
  /\ header \in [Cell -> [is_marked : BOOLEAN, is_pointer : BOOLEAN]]
  /\ car \in [Cell -> {Null, Scalar} \cup CarPtr]
  /\ cdr \in [Cell -> {Null, One} \cup CarPtr \cup CdrPtr]
  /\ f \in CdrPtr \cup {Null}
  /\ chain \in Seq([Slot -> CarPtr \cup {Null}])
  /\ pc \in {"run", "roots", "sweep", "alloc", "oom", "undefined"}
  /\ req \in [is_pointer : BOOLEAN, car : {Null, Scalar} \cup CarPtr]
  /\ ret \in CarPtr \cup {Null}
  /\ stack \in Seq([ptr : CarPtr \cup HeaderPtr, at : {"car", "cdr"}])
  /\ cursor \in (Nat \ {0}) \X (Nat \ {0})
  /\ i \in 0 .. NumCells
  /\ prev \in CdrPtr \cup {Null}
  /\ use \in [Cell -> {"free", "open", "built"}]

\* The word that leads from cell c (-1: from allocator->f) to the next cell of S
\* in address order.
LinksTo(S, c, w) ==
  \/ w = Null /\ \A d \in S : d <= c
  \/ \E d \in S : /\ w = <<d, "cdr">> /\ d > c
                  /\ \A e \in S : e <= c \/ e >= d

Free == Cell \ Taken

\* The free list, whenever gc_new may use it, is a null-terminated list of cdr
\* addresses that visits every cell nobody has, and no other, once each, in
\* address order: whatever the collector did to marks and cdrs, and however often
\* it ran (gc_new, gc.c:60-74; sweep, gc.c:168-191).
FreeListOK ==
  pc \in {"run", "roots", "alloc", "oom"} =>
    /\ LinksTo(Free, -1, f)
    /\ \A c \in Free : LinksTo(Free, c, cdr[c])

\* Each collection starts from clear marks: a mark left behind by sweep would hide
\* a cell's contents from the next mark phase (gc.c:142, 175).
MarksClear ==
  pc \in {"run", "alloc"} => \A c \in Cell : ~header[c].is_marked

\* The words the collector trusts without a check are what it takes them for: the
\* car of a pointer cell is no scalar (gc.c:150-153), and neither is the one the
\* caller waiting for a collection is about to store.
CarKind ==
  /\ \A c \in Cell : header[c].is_pointer => car[c] # Scalar
  /\ req.is_pointer => req.car # Scalar

\* The collector in progress: mark() runs on an exhausted free list, and sweep()
\* has behind it a free list that is complete but for the cdr of prev, and no marks
\* (gc.c:168-191).
SweepOK ==
  /\ pc = "roots" => f = Null
  /\ pc = "sweep" =>
       /\ \A c \in Free : c < i
       /\ \A c \in Cell : c < i => ~header[c].is_marked
       /\ LinksTo(Free, -1, f)
       /\ prev = Null => Free = {}
       /\ prev # Null => /\ prev[1] \in Free
                         /\ \A d \in Free : d <= prev[1]
                         /\ \A d \in Free : d # prev[1] => LinksTo(Free, d, cdr[d])

\* The inductive invariant behind the properties of the free list and of the marks.
HeapInv == TypeOK /\ FreeListOK /\ MarksClear /\ CarKind /\ SweepOK

\* gc_new never returns a cell that somebody still has (gc.c:68-73).  A call
\* that returns a pointer and leaves the shadow stack alone is gc_new's.
NoDoubleHandout ==
  [][ret' \notin {ret, Null} /\ chain' = chain => use[ret'[1]] = "free"]_vars

\* What the program or another cell it can reach still names is never on the free
\* list: collect() reclaims no cell that is in use (gc.c:135-191).
NoDangling ==
  pc \in {"run", "alloc", "oom"} =>
    /\ \A k \in 1 .. Len(chain) : \A s \in Slot : chain[k][s] # Null => chain[k][s][1] \in Taken
    /\ \A c \in Taken : header[c].is_pointer /\ car[c] # Null => car[c][1] \in Taken
    /\ \A c \in Taken : use[c] = "built" /\ cdr[c] \in CarPtr => cdr[c][1] \in Taken

\* abort() is the last resort: when it is called, the collection that has just run
\* found every cell of the arena in use by the program, or named by the free-list
\* link an unfinished cell still holds.
OomMeansFull ==
  pc = "oom" =>
    \A S \in SUBSET Cell :
      (/\ \A k \in 1 .. Len(chain) : \A s \in Slot : chain[k][s] # Null => chain[k][s][1] \in S
       /\ \A c \in S : /\ header[c].is_pointer /\ car[c] # Null => car[c][1] \in S
                       /\ cdr[c] # Null => cdr[c][1] \in S)
      => S = Cell

\* "A function to recursively mark live objects" (gc.h:46): when visitGCRoots is
\* done, every root is marked, and so is every cell that a marked cell names by a
\* pointer car or by a cdr the program stored (mark, gc.c:148-166).
LiveMarked ==
  pc = "sweep" /\ i = 0 =>
    /\ \A k \in 1 .. Len(chain) : \A s \in Slot :
         chain[k][s] # Null => header[chain[k][s][1]].is_marked
    /\ \A c \in Cell : header[c].is_marked =>
         /\ header[c].is_pointer /\ car[c] # Null => header[car[c][1]].is_marked
         /\ use[c] = "built" /\ cdr[c] \in CarPtr => header[cdr[c][1]].is_marked

\* mark() recurses on the C stack.  It marks before it recurses, so the recursion is
\* never deeper than the arena has cells, or, where cdrs of lists send it to the
\* addresses of headers, twice that (gc.c:151-163).
DepthBound == Len(stack) <= IF Linking THEN 2 * NumCells ELSE NumCells

\* A collection ends, and gc_new returns or aborts, on any heap, also on a cyclic
\* one, unless mark() faults first (gc.c:148-166).
CollectionEnds ==
  pc \in {"roots", "sweep", "alloc"} ~> pc \in {"run", "oom", "undefined"}
===============================================================================
