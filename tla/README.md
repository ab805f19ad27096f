# A TLA+ model of the Kaleidoscope compiler and its run-time

This directory specifies the parts of the compiler in which state outlives a
function call, or two pieces of code must agree on it, and checks them: with TLC
on small instances, and with TLAPS, where it says so below, for every instance.
Paths are relative to `src/`.

## The system

The program is a single-threaded read-eval-print loop (`compiler/src/main.rs`).
A line of input is lexed and parsed, type checked as a whole, and then each of its
declarations is translated to LLVM IR, handed to the ORC JIT and, if it is an
expression, run. Running code calls a C library (`runtime/src/gc.c`) for its heap.

| component | state | operations | talks to |
|---|---|---|---|
| lexer (`lexer/`) | the rest of the input | next token | parser |
| parser (`parser/core.rs`) | tokens, errors, `binop_precedence` (kept between lines) | one per construct; error recovery per declaration | lexer |
| type checker (`semantics/type_checking.rs`) | `symbol_table` (a stack of scopes), `prototype_table`; both kept between lines | `type_check` on each kind of node | annotates the tree for the generator |
| generator (`llvm/codegen.rs`) | `module`, `map`, `function_protos`, `function_prologue_info` | `codegen` on each kind of node | LLVM |
| JIT driver (`llvm/codegen.rs` 1212-1417) | the symbols of the main JITDylib | `compile`, `run` | LLVM ORC, generated code |
| heap (`runtime/src/gc.c`) | arena, free list, shadow stack | `gc_new`, `gc_push`, `gc_pop`, `collect`, accessors | generated code |
| library (`runtime/src/core.rs`), `print_cons` | none | output | |

What is hard here:

- **The collector.** It rebuilds the free list in place while stale links, links of
  finished lists and links of half-built cells lie in the same words; an error
  shows only after another collection, in unrelated data.
- **Two passes, two environments.** The checker keeps a stack of scopes, the
  generator one flat map that it patches at the end of each block. They agree, or a
  variable compiles to the wrong memory.
- **Errors between stages.** Nothing is rolled back. What a failed line leaves in
  four tables decides what the next lines mean.
- **Rooting.** Values that live only in registers while a call collects.
- **Two readings of one tree.** The checker goes by types, the generator by LLVM types
  and by the form of the text; at run time only loads, stores and tags are left.
- **A grammar that changes.** A line can give any character a precedence, for all the
  lines after it, whether or not it is otherwise correct.

There is no concurrency, no persistence and no messages; there are no hazards of
those kinds. `PROJECT.json` lists the hazards with their lines. A hazard without
properties is one that the code does not avoid, or that is not modelled: its note says
which properties exclude it and what happens there.

Correctness, per component:

- heap: never reclaim what is in use, never hand out a cell twice, give up only
  when the arena is full, end each collection;
- names: each access goes to the variable the checker resolved, no name outlives
  its block, pointers live in roots;
- parser: the trees are those the precedences ask for, nothing of a line is lost, every
  line ends;
- types: what the checker accepts is generated, and computes values of the types given;
- session: the tables agree, calls match the code they run, the expression slot is
  freed, working functions keep working, malformed code never runs.

## The modules

| module | what | runs |
|---|---|---|
| `Gc` | the heap of `gc.c` and any program that keeps its protocol | through `MCGc` |
| `GcProofs` | theorems about `Gc`: free list, marks, sweep; what a collection keeps, the depth of its recursion | TLAPS |
| `Heap`, `AbsHeap` | the heap as objects and roots; the same with any program: the specification of `gc.c` | through `GcImpl` |
| `GcImpl` | the refinement mapping from `Gc` to `AbsHeap` | through `MCGc` |
| `GcImplProofs` | the refinement, step by step | TLAPS |
| `GenCode` | the evaluations, allocations and stores of generated code, on `Heap` | through `MCGenCode` |
| `GenCodeProofs` | theorems about `GenCode`: rooting | TLAPS |
| `GenCodeListProofs` | theorem about `GenCode`: lists end | TLAPS |
| `Scopes` | the checker's scopes and the generator's map over one function body | through `MCScopes` |
| `ScopesProofs` | theorems about `Scopes` | TLAPS |
| `Parser` | the parser over a session, token by token | through `MCParser` |
| `ParserProofs` | theorems about `Parser` | TLAPS |
| `Types` | typing, generation and evaluation of one expression, construct by construct | through `MCPrinting`; `MCTypes` |
| `TypesProofs` | theorems about `Types` | TLAPS |
| `Printing` | what is printed of an expression of `Types` | through `MCPrinting` |
| `Session` | the loop of `main.rs`, prototypes, modules, JIT symbols | through `MCSession` |
| `SessionProofs` | theorems about `Session` | TLAPS |

Operators whose comment begins with *Fault* are bugs that could be made in this
code. No specification uses them: they are there to show that each property would
notice (`mutants` in `PROJECT.json`).

### Gc

A cell is three words: header, `car`, `cdr`. The address of a word is the pair
`<<cell, field>>`, and the pointer arithmetic of `gc.c` is kept, because it is what
the correctness hangs on: generated code holds addresses of cars, the free list
addresses of cdrs, and `mark()` steps back eight bytes from whatever it finds in a
cdr. `isMarked` and `setMarked` act on the word they really reach.

- Variables: the three words of each cell, `allocator->f`, the contents of the
  shadow stack, and the local state of the collector, which is a call: `mark()`'s
  activations are a stack, `visitGCRoots` a cursor, `sweep()` the loop counter and
  `prev`. `use` is history: which cells are free, unfinished or finished.
- Actions: `gc_push`, `gc_pop`, the stores of generated code (`Keep`, `Assign`,
  `StoreCar`, `StoreCdr`), `gc_new` in its two outcomes, and one action per step of
  the collector. `HandOut` includes the store of the caller into the new car: no
  code runs in between.
- The client is *any* program that keeps the values it needs in root slots; whether
  the generated code is such a program is the question of
  `GenCode`. `Linking` says whether it stores non-null cdrs.
- `Scalar` stands for all words that are neither null nor an address. The model
  takes it that the low half of an address is not zero (`isMarked` reads 16 bits).
  A cdr that is not an address is dereferenced only after `setMarked` has turned a
  null cdr into 1: undefined behaviour, `mark_wild`.

### Heap, AbsHeap, GcImpl

`Heap` is what a user of `gc.c` may assume: a cell is free (`None`) or holds an
object, and the shadow stack holds pointers to cells. What no root reaches is
garbage. `AbsHeap` adds the program of `Gc`, and a `gc_new` that takes a free cell
at once (`New`) or waits while garbage, and nothing else, becomes free cell by cell
(`Wait`, `Reclaim`, `Return`). There are no headers, marks, links or addresses.
`GcImpl` maps `Gc` to it: a cell is an object from the moment `gc_new` returns it
until `sweep` links it into the free list, and every other step of the collector is
a stutter. `ImplementsAbsHeap` says that `Gc` is a heap, for programs without
linking; with linking it is not, as `gc_cdr` shows.

### GenCode

The program that `Gc` leaves open. One top-level expression after another is
evaluated; it is chosen as evaluation goes on, so that a behavior covers every
expression within the bounds.

- `todo` is the stack of the constructs that have been entered and not left, across
  calls of functions, each with the registers it keeps while a subexpression is
  evaluated. `val` is the value just evaluated. `from` says where a pointer comes
  from, which is what decides whether something else still refers to it.
- The roots are those the generator makes: `create_entry_block_alloca` of a
  variable or parameter of pointer type, and the `aux_alloca` of a literal. Frames
  come with the prologue and go with the epilogue.
- The actions that take a cell (`Pair_first`, `Pair_next`, `Cons_first`,
  `Cons_nested`) are `gc_new`, with or without a collection, and the stores the
  generator emits right behind it. A collection frees all garbage, the worst case
  for the program.
- For the heap, the condition of an `if`, the operands of an operator and a variable
  of scalar type are expressions whose value is dropped: sequences stand for them. A
  loop runs its body again on the same allocas; at the start of an iteration the
  model forgets the roots of the last one, which is the worst case.
- An element of a literal that is of pointer type is a literal itself: on any other
  expression `type_to_int` panics. The tail of a cons is taken to be a pointer; the
  checker also accepts `unit` there, which is listed as a hazard.

Three habits are not protected by the generated code, and `Lapses` says which of
them the program has: it lets a call's result wait in a register over an allocation
(`result`); it allocates inside the tail of a cons that is the tail of a cons
(`nested`: only the outermost has a root); it assigns to a variable or a field while
a pointer read from one waits in a register (`reassigned`). The run has none of
them, and for each of them alone TLC finds a state in which `NothingLost` is false:
a call's result held as argument while the next argument allocates; a third
`cons` in a row; and an argument read from a variable that the next argument assigns
(which takes four open constructs). They are entered as hazards with their lines.

### Scopes

A behavior walks over one function body that the checker accepts, and moves both
environments at once. `symbol_table` is the checker's, `map` the generator's,
`blocks` what the generator remembers of each open block, `alloca` the type of each
alloca. Types are `scalar` or `pointer`, which decides whether an alloca is a root.

The generator runs second and knows the type the checker found for a variable at
the end of its block, so a declaration without value and annotation guesses that
type and `Leave` demands that the guess was right.

Parameters are the one kind of variable that the generator does not map by the name
in the source. It gives the name to LLVM and maps the one that it reads back, and LLVM
keeps the names of a function's values apart: where the name is held already, by an
earlier parameter of the same name, which the parser accepts, or by a value of the
function as an `extern` or a call declared it before, LLVM makes up another. In
`Parameter(n, key, type, t)` the checker binds `n`, the last of several, and the generator
maps `key`: `n`, unless a parameter has it, or any name not mapped yet, which may be one
that the body uses, or one that no program uses (`None`). So of two parameters `x` the
checker means the last and the map leads to the first. In the same way the alloca has the
type `t` of the LLVM function's parameter, which an earlier declaration in the module may
have given another type than the definition.

`quirks` records the six constructs that the passes read differently: a name declared
twice in one `var` (`"duplicate"`), a shadowing variable that is never assigned
(`"unassigned"`), a first assignment that contradicts the annotation (`"annotation"`), a
function's name used as a variable (`"function"`), a parameter that LLVM renamed
(`"renamed"`), and one whose type is not the LLVM function's (`"redeclared"`). All six are
in the model and in the run; with each of them some access goes wrong in the code, too.
`SameVariable` excludes the four that change what a name leads to, `RootedPointers` all,
and `NoLeakedName` only the first. Loops over pointers, on which the generator panics, are
left out.

### Parser

The calls that are active are unfolded into `todo`, what they still have to do,
innermost first; each action is what one function does between two of its calls, and an
`Err` empties `todo`. `out` holds the complete expressions that are waiting for their
operator: the operator at the root, those of the operands, and the places of the line
they cover. An expression between brackets, under a unary operator or inside `if`, `for`
or `var` counts as primary, as nothing can reach into it: `close` puts one primary in the
place of all that was read since its first token. (It is stated with the number of
expressions that were there before; `ParserProofs!Close_place` proves that there is always
such a number.)

A line is chosen token by token, as the parser looks at it, so any sequence of tokens is
a line: `Read` and `Look`. `"type"` stands for `double` and `int`, `"x"` for all names. The lexer makes a
token of every input (`UnknownChar` is never constructed), so that a peek cannot fail
but at the end of the line; `binop_precedence` outlives the line and is changed as soon
as an operator's prototype has been read (`Precedence`). The panics (`Panic`) are
`unwrap` and `unimplemented!` on a field number, and `into_int` on a precedence with a dot.

### Types, Printing

The expression is built from its parts, innermost first. `stack` holds the parts that
wait for their construct, and for each of them what each stage knows of it: its form as
text, the checker's type, and the value that the generated code computes. An action is
one construct: it takes its parts from the stack, and either the checker rejects
(`rejected`), checker or generator panics or the generator gives an error
(`panicked`, `failed`), the program aborts (`aborted`: null, index out of bounds), or
the whole takes the place of the parts. A load yields what was stored if the LLVM type is
the same, and something that is no value otherwise.

A value is a double, an integer, a bit, or a pointer to a list of cells, each with the
header the generator gave it. Results of calls and operators, and the values of
identifiers, are any that `Known` has of their type; the condition of an `if` and the
number of turns of a loop are left open. `flow` is the last value that went where a type
is declared for it: a variable, a field, a parameter, a result.

That a value is of a type is a *claim*, `[t |-> type, v |-> value]`. `Holds` is what it
says of the value itself, `Parts` are the claims that follow for the cars of its cells.
`ValuesFit` follows the cars five levels down, as deep as any value of the model-checked
instance goes; `TypesProofs` shows it for any depth. `Known` is a set of claims that is
closed under `Parts`: what other code stores and returns is assumed to be what this code
is shown to store and return.

`Printing` adds the print-out of a whole expression (`shown`), which only has the tags to
go by. It leaves the variables of `Types` alone, so that the behaviors of `PrintSpec`,
which the run is about, are behaviors of `Types!Spec`, which the theorems are about.

`Lapses` says which of eleven things a program may do. The run has none of them; for each
of them alone TLC finds a violation:

| lapse | what | violated |
|---|---|---|
| `nil` | a list where the type is that of `[]`: `if c then [] else [1]`, `[[], [1], [1.0]]` | `ValuesFit` |
| `unit tail` | `cons(1, x = 2)`: a bit is stored where the next cell should be | `ValuesFit` |
| `unit element` | `[x = 1]`: a unit gets the tag of a number | `PrintedRight` |
| `bits` | `[1.5]`, `[0 - 1]` are printed as unsigned words | `PrintedRight` |
| `pointer element` | `[l]` with `l` a list: `unreachable!()` (codegen.rs:90) | `Generated` |
| `pointer operand` | `[1] + [2]`, `[1] < [2]`, user operators on lists | `Generated` |
| `operator result` | a user operator on doubles that returns an integer | `Generated` |
| `pointer loop` | `for l = [1], ...`: `unimplemented!()` (codegen.rs:1007) | `Generated` |
| `tuple index` | `t[i]` with `i` not a literal: `unwrap` (type_checking.rs:552) | `Generated` |
| `no variable` | `1 = 2`, and `a = b = c`, as `=` groups to the left: `unreachable!()` (type_checking.rs:327) | `Generated` |
| `temporary` | `g()[0][0] = 1`: `unreachable!()` (codegen.rs:60) | `Generated` |

(`temporary` takes seven constructs, one more than the run has.)

### Session

One action per stage and outcome for the declaration at hand: `Check`,
`Check_error`, five outcomes of the generator, two of `add_module`, three of `run`.
A declaration is its name, its signature and what its body does (nothing special,
an error for the checker, an error for the generator, a call). Lines are chosen
freely and sessions are of any length. `failed` and `redeclared` are history: the
kinds of errors met, by what they may leave behind, and the declarations that
override a signature without an error.

LLVM is external: a symbol is defined at most once in a dylib until its tracker is
removed; what cannot be linked fails for good; compiling a function without
terminators is undefined behaviour; a symbol found in a library becomes one of the
dylib's. A line that does not parse changes none of the modelled state.

## The runs

| run | shows | bounds |
|---|---|---|
| `gc_cells` | `TypeOK`, `FreeListOK`, `MarksClear`, `LiveMarked`, `NoDangling`, `OomMeansFull`, `NoDoubleHandout` for programs whose cells hang together by cars | 3 cells, 2 frames of 1 root |
| `gc_links` | `HeapInv`, `DepthBound`, `CollectionEnds`, lists of several cells included | 2 cells, 2 frames of 1 root |
| `gc_cdr` | **violation**: `LiveMarked` fails once cells are linked by cdrs | 2 cells, 1 frame of 2 roots |
| `gc_refines` | `ImplementsAbsHeap`, for programs without linking | 2 cells, 2 frames of 1 root |
| `gencode` | `TypeOK`, `NothingLost`, `ListsEnd`, for expressions without the three lapses | 3 cells, 2 frames of 2 roots, 3 open constructs besides function bodies, calls of 1 argument |
| `scopes` | `SameVariable`, `NoLeakedName`, `RootedPointers` | 2 names, one also a function; 3 variables; 2 nested blocks in the function |
| `parser` | `TreesRight`, `WholeExpression`, `LineEnds` | 27 tokens; lines of up to 7 of them, or fewer of the costlier ones (`MCParser`); one operator defined in a session, `>` |
| `types` | `ValuesFit`, `Generated`, `PrintedRight`, without the eleven lapses | 6 constructs, 4 waiting at a time; integers -1 to 2; 2 identifiers, 7 functions and operators |
| `types_unreachable` | **violation**: `Unreachable` fails for an element that is a pointer | 4 constructs |
| `session_lines` | `TablesAgree`, `CallsAgree`, `CodeAgrees`, `AnonRemoved`, `WellFormedCode` | 1 function, 3 signatures, 2 declarations a line, one failed check |
| `session_names` | the same for calls between functions, and `LinkedStays` | 2 functions, one in a library, 2 signatures, 1 declaration a line |
| `session_redefinition` | **violation**: `RedefinitionRefused` | 1 function, 3 signatures |

The bounds are on the size of the heap, the body or the line, never on the length
of a behavior: every run explores all of its reachable states. Three cells are the
fewest with a free list that has a middle, a live cell between free ones and a
chain of two; with two frames the root loop has to go on to the caller. Two names
and three variables are enough to shadow, to leave and to shadow again. Two
declarations are enough for a failure to skip one.

In `gencode`, three cells are a finished list of two and the cell in the making, or
a cell held, a cell in the making and a cell that another collection gives away.
One argument is enough, as it waits in a register while the next one, or the
expression that would be it, is evaluated. The cells are interchangeable, hence the
symmetry. The view leaves out the contents of garbage: it is not visible to the
program, and any `gc_new` may free it, so that two states that differ in it only
have the same successors up to garbage; the properties speak of reachable cells
only, and `TypeOK` of all cells as they are written.

A line of `parser` has room for four operands and the three operators between them, the
least that shows a right operand that goes on and a loop that goes on after it; for a
`for`, an `if`, a prototype with an argument, or the definition of an operator and its
precedence; and after that for whatever else still fits: each unary operator, error and
end of a declaration uses up the room of two or three tokens (`Odd`), or lines that are
nothing but errors would be most of them. The properties were also found to hold with two
definitions, of `)`, `=`, `;` and `-`. In `types`, six constructs are a loop with a step
over computed values, a list of lists of which an element is projected, or a literal in a
literal that is printed; types nest as deeply as constructs do.

Deadlock is not checked: a program may abort (`gc_new`), fault, or, in `Scopes`, end;
the parser may panic; an expression of `Types` may be complete, or use up its bound.

Fairness: `gc_links` has `WF_vars(Collector)` and `parser` has `WF_vars(parse)`.
`collect()` and `parse_program()` are ordinary calls on the program's only thread, so
that each, once entered, is what runs. No fairness is assumed of the program that is
run, nor of the user.

### What the violations show

- `gc_cdr`. `mark()` (`gc.c:159`) expects in every cdr the address of a cdr, as the
  free list has them; generated code stores the address of a car
  (`codegen.rs:456`, `567`). So a cell that is reached only through a cdr is not
  marked, and is swept while the program has it; and the word before the cell, the
  cdr of its neighbour, is taken for a header and may be overwritten with 1.
- `session_redefinition`. "Function cannot be redefnied" (`codegen.rs:1121`) is
  tested against the current module only, after the prototype has been replaced.
  A redefinition on a later line fails, but the new signature stays with the old
  code.
- `types_unreachable`. The element of a literal that is a pointer but no literal reaches
  the `unreachable!()` of `type_to_int`: a list of lists cannot be made of variables, and
  trying ends the session.

## The proofs

All theorems are about `Spec` of their module, for all values of its constants. The
constants are assumed to be what they stand for (there is a cell, null and addresses are
distinct words, `None` is no record of a table, a top-level expression has no user's
name), and the bounds to be numbers; nothing is assumed about their size, except that a
line has room for a declaration.

### The heap: `GcProofs`

With or without linking:

- `HeapInvariant`: `[]HeapInv`, the inductive invariant;
- `TypeCorrect`, `FreeListCorrect`, `MarksClearCorrect`: its consequences;
- `NoDoubleHandoutCorrect`: `gc_new` never returns a cell that somebody has.

`FreeListOK` and `MarksClear` are not inductive: while `sweep` runs, the list is
unfinished and the marks are cleared only behind the counter. `SweepOK` says what
the loop has established so far: the cells behind `i` are unmarked, and the free
ones among them form a list complete but for the cdr of `prev`. `CarKind` is needed
because the collector trusts the header when it takes a car for an address. The
argument is one lemma for each group of actions; the list lemmas (`Unlink`,
`Extend`, `LinkLast`) say what taking the first cell, adding a cell beyond the
last, and linking the last cell do to a list in address order. That `mark()`
writes through misread pointers is covered: it can only turn a null cdr into 1,
and only while the free list is empty.

### What a collection keeps: `GcProofs`

- `LiveInvariant`, and from it `LiveMarkedCorrect`, `NoDanglingCorrect`, `OomMeansFullCorrect`, all under
  `~Linking`;
- `DepthBoundCorrect`, with and without linking.

`~Linking` is no convenience: with linked lists the first two are false (`gc_cdr`).
`LiveInv` is the tri-colour invariant for a marker that is recursive: a
cell that is marked but has an unmarked successor is on the stack of `mark()`, at a
point where it has still to look at that field, and a root that is not marked is not
yet behind the cursor of `visitGCRoots`. Once the stack is empty and the cursor at the
end, nothing marked names anything unmarked. While `sweep` runs the same is said of the
cells ahead of the counter and the cells in use behind it. For the depth, `StackOK`
says that no address is on the stack twice and that what is on it is marked, so
that its length is bounded by the number of addresses (`FS_PigeonHole`): those of cars,
and, after a misread cdr, those of headers.

### The refinement: `GcImplProofs`

`Refinement`: `Spec /\ [](~Linking) => ImplementsAbsHeap`. The initial states map to
initial states and each action to a step of `AbsHeap` or to a stutter. A step of `sweep`
that links a cell is `Reclaim`; that the cell is garbage follows from
`LiveInv`: the cells not reclaimed are a set that holds what the roots refer to and
is closed under cars. The whole of marking is a stutter, as the mapping does not
look at headers, and `gc_new` without a collection is `New`.

### Rooting: `GenCodeProofs`

`GenCodeInvariant`, and from it `GenCodeTypeCorrect` and `NothingLostCorrect`:
`[](Lapses = {} => NothingLost)`, for any arena, and expressions, calls and frames of
any depth. Without the hypothesis it is false, for each lapse alone, as said above. That
nothing in use is free is not inductive: the next `gc_new` frees what the roots do not
reach, so the invariant says of each register which root keeps its cell, and that the root
stays what it is for as long as the register is in use.

- `Shape` relates the constructs in `todo` to the frames: construct k belongs to function
  `BodyNo(k)`, a root that it relies on exists, and no loop inside of it forgets the root
  (`KeptSlot`). Frames are counted from the outermost, so that a call or a return renumbers
  nothing.
- `Kept` says of a pointer read from a variable or a cell that it is reached from such
  roots; of the first cell of a literal that it is in a root without a name
  (`AuxRoots`), which an assignment cannot change; of its last cell, that it is in the row of
  the first, and has no cdr yet, so that linking it cuts nothing (`Ends`). Nothing is said of a
  call's result or the cell of a nested cons; that they are not there when `gc_new` is
  called is what the lapses are about (`Quiet`).
- `Collected`: if the registers are quiet, all of them are reached from the roots, so a
  collection keeps the invariant. `CellKept`, `LinkKept`, `StoreKept` and `AssignKept` do
  the same for a new cell, a link, and the two kinds of assignment; the lemmas named after
  `Continues` say for each change of the stacks what constructs further out still have.

TLC has checked `GenCodeInv` on the instance of `gencode`.

### Lists: `GenCodeListProofs`

`ListsEndCorrect`: `[](Lapses = {} => ListsEnd)`, from `ListInv`, which adds `Lists` to
`GenCodeInv`. A literal or a cons makes its next cell before it stores the cdr of the last
one, so there are cells without a cdr, and cells that lead to one (the first of the literal).
`Shown` are the others. `Lists` says that the value, the registers of all constructs but
those that are making a list, the variables, and the cars of all cells have only shown
cells; and that no set of cells leads back to itself (`NoCircle`).

- That variables have shown cells is said of the variables that a construct owns, not of all
  roots: the roots without a name hold the literals in the making.
- A step that leaves the heap alone only has to say where its values were before
  (`SameHeapLists`). The heap changes in four ways: a field gets another car
  (`ShownStored`), a cell without a cdr gets one (`ShownLinked`), there is a new cell
  (`ShownNew`), or a collection takes some away (`ShownSwept`).
- A cdr is stored into a cell that has none, and never into one that is found from the new
  cdr. The new cdr is a cell just made, or null, or the tail of a cons: a value, hence
  shown, hence not leading to a cell without a cdr. So no circle is closed. That the
  last cell of a literal has no cdr and is found from the first is in `GenCodeInv` (`Ends`,
  `RegKept`); that with its null all cells of the literal are shown follows from
  `RowLinear`, as of two cells of a row one leads to the other.

TLC has checked `ListInv` on the same instance.

### Names: `ScopesProofs`

`ScopesInvariant`, and from it `ScopesTypeCorrect`, `NoLeakedNameCorrect`,
`SameVariableCorrect`, `RootedPointersCorrect`. The properties speak of the innermost
binding, and the flat map has only that; what makes them inductive is that the bindings
*below* it are somewhere too. `Mapped` says of each name where: the map has the
innermost of its declarations that have been generated, and each open block keeps, for
the names it took, the one that was innermost outside of it. `Leave` then
restores for every name what `Mapped` asks for one block less. `Mapped` is stated without
the constructs that change what a name leads to; `Kept`, which holds with a renamed
parameter as well, says only that what a block keeps is the alloca of a variable of a block
below it, which is what `NoLeakedName` needs. `Declared`, `Entered` and `Valued`
say that scopes and blocks have the same variables, in the order in which they were
made, and which of them have been generated. That
a visible name has an innermost scope follows from `WFMin` of the library, as the order of
the natural numbers is well founded.

### Sessions: `SessionProofs`

`SessionInvariant`, and from it `SessionTypeCorrect`, `TablesAgreeCorrect`,
`CallsAgreeCorrect`, `CodeAgreesCorrect`, `AnonRemovedCorrect`, `WellFormedCodeCorrect`;
and `LinkedStaysCorrect`, a property of steps. The checker has been over the
whole line when the generator starts on it, so that in the middle of a line the tables differ.
`Tracked` says by what: the checker's table is the generator's as it will be after the
declarations in between, the last one for each name counting (`Sees`), and each call
still to be generated was checked against what `Sees` gives at that place of the line
(`CallSeen`). Two lemmas move it along: the checker adds a declaration at the end
(`SeesNext`), the generator takes one away at the front (`SeesGenerated`). The
invariants of the module (`OneBody`, `ModuleAgrees`, `AnonPasses`) say what a
declaration that failed may have left there. For `LinkedStays`, `Links` is shown to be
the least closed set, hence transitive, and to shrink only if something in it
changes; whatever a step changes in the JIT was missing, or unlinkable, before.

### Trees: `ParserProofs`

`ParserInvariant`, and from it `ParserTypeCorrect`, `TreesRightCorrect` and
`WholeExpressionCorrect`: for any operators that a session defines, with any precedences,
for lines of any length and any nesting. The properties look at what is complete; they
are not inductive, as an operator is put together with operands that were completed long
before, under calls that had still to do something with them. So the invariant speaks of
`todo`:

- `Item` says of a call what it leaves alone: the first `g` of the expressions in `out`, and
  all that is before place `b` of the line. A `rhs` begins where its left operand does, a
  `build` has its left operand as the last of the `g`, and the operator between is in the table.
- `Link` says which calls can be active in which, and how their `g` and `b` are related. It is
  the recursion of `parse_bin_op_rhs` as a relation between neighbours: an operand
  or a `build` is inside of a `rhs` that is content with its operator's precedence; in a
  `build` there is a `rhs` for operators that hold tighter.
- `Top` says of the innermost call that `out` has what it needs, up to the token before
  this one, and that the expression just completed holds together at least as tightly as
  the next token and the call ask for.
- `Stacked` puts these together: there are numbers `g` and `b`, falling from the innermost
  call outwards, for which all this is so.
- `InOrder` and `Right` are about `out`: the expressions follow each other in the line, and
  each is as `TreesRight` says. `Counted` is about the definition of an operator, which may
  change the table while `out` is empty only: precedences of trees that exist do not change.

Each action takes the innermost call away and may put others in its place; `Pushed`,
`Grown` and the lemmas named after them say what has to be shown of the new ones and their
neighbours for the whole to be `Stacked` again. TLC has checked the same `Item`, `Link`,
`Top` and `InOrder` on the instance of `parser`, with the numbers computed from inside out.

### Types: `TypesProofs`

`TypesInvariant`, and from it `TypesTypeCorrect`, `ValuesFitCorrect` and
`GeneratedCorrect`: for expressions of any size, values and types nested to any depth, any
identifiers, and any functions and operators whose types can be written.

- A list is of a type if its cars are, and theirs, and so on. Instead of a recursive
  definition the invariant has a set `R` of claims that is `Closed`: each of them holds, and
  what follows for its cars is in `R` too. All that the stack has, and `flow`, is claimed by
  `R`. So whoever builds a value adds one claim, whose parts are there already
  (`List_claim`, `Tuple_claim`), and whoever takes a car or an element finds the claim for
  it (`Of_list`, `Of_tuple`). No values are compared and there is no induction over them.
- `Goes` is about assignments, arguments, branches and results, where checker and generator
  must agree without looking at each other: what `compare_types` lets through is of the type
  itself, or is the empty list where a list is expected, and the null pointer is a list of
  any type. It needs that the other direction, a list where the empty one is expected, does
  not occur: the lapse `nil`.
- `Loads`: the LLVM type of a value is the one that `get_type` gives for its type, so that
  what is loaded is what was stored. From it follows that two operands of one type are both
  doubles or both integers (`Arithmetic_step`).

The theorems are stated under the lapses they need the absence of, which are not the
same: values fit their types if `nil` and `unit tail` do not occur (`Mistyping`), whatever
else does; that no stage fails needs that the seven of `Failing` do not occur
either. Under `unit element` and `bits` all of them hold. Without these hypotheses they
are false, as the table above says.

The assumptions: the bounds are numbers; `Known` is closed under cars; the types of
prototypes are such as can be written, where that of the empty list cannot; a unary
operator has one parameter and a binary one two, as `parse_prototype` sees to.

### Only model-checked

- `PrintedRight`. What is printed, and what should be, are recursive in the list and in its
  type (`print_cons`, `Display`); that they are equal is by induction over data, for which
  the prover has no rule that can be instantiated. They are RECURSIVE operators, with
  which it cannot work either, and therefore in a module of their own.
- `CollectionEnds` and `LineEnds`: liveness under fairness is not for TLAPS as used here.

## Not modelled

- How characters make tokens, the wording of messages and the library functions: no
  state. (An integer literal beyond i64 panics in the lexer.)
- In `Types`: variables whose type changes (`Scopes` has them), sharing of cells
  (`GenCode` has it), wrong numbers of arguments, user functions named `cons` or `car`,
  overflow of integers.
- `set_cdr` (never called) and a second call of `initAllocator`.
- What a program finds under names that a failed check left on the symbol table.
- LLVM itself, beyond the facts listed above; end of input.

## Plan

All safety properties of the runs but `PrintedRight` are proved. What could come next is
modelling: the variables of `Types` are those of `Scopes`, and one machine for both would
show what happens to a variable whose type is narrowed inside a loop
(type_checking.rs:336), a hazard that no property covers.
