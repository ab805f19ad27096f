-------------------------------- MODULE Scopes --------------------------------
(***************************************************************************)
(* Names inside one function body.  Two passes walk the body in the same   *)
(* order and keep an environment each:                                     *)
(*   - the type checker a stack of scopes, SymbolTable.symbol_table, popped *)
(*     at the end of each block (semantics/type_checking.rs);               *)
(*   - the code generator a single flat map from names to allocas,          *)
(*     CodeGenBuilder.map, and in each block the bindings to put back       *)
(*     (llvm/codegen.rs).                                                   *)
(*                                                                         *)
(* A behavior is such a walk over a body the type checker accepts; the two  *)
(* environments move together.  The generator runs second, and knows of     *)
(* each variable the type the checker found for it by the end of its block  *)
(* (VarInfo.t): the walk guesses it where the variable is declared, and can *)
(* only leave the block if the guess was right.                             *)
(***************************************************************************)
EXTENDS Integers, Sequences

CONSTANTS
  Name,      \* identifiers
  Function,  \* those of the functions declared on the same line
  MaxDepth,  \* bound: blocks open at a time
  MaxAlloca, \* bound: variables and parameters of the body
  None       \* Option::None

\* A value is a word that is an address of the heap, or one that is not: the
\* difference that decides whether an alloca is a root of the collector.
Type == {"scalar", "pointer"}

\* None is no number, no name, no type, and none of the records below.
ASSUME NoneAssumption ==
  /\ None \notin Nat /\ None \notin Name /\ None \notin Type
  /\ None \notin [id : Nat, type : Type \cup {None}]
  /\ None \notin [meant : Nat, used : Nat \cup {None}, type : Type]
ASSUME FunctionAssumption == Function \subseteq Name
ASSUME BoundsAssumption == MaxDepth \in Nat /\ MaxAlloca \in Nat

VARIABLES
  symbol_table,  \* the checker's scopes, innermost last: what each name is bound to
  blocks,        \* the open blocks, one for each scope: their variables so far
  map,           \* the generator's map: the alloca of each name
  alloca,        \* the type each alloca was created with, in order of creation
  access,        \* the access just made to a variable: what each pass took it for
  quirks         \* history: the constructs met that the two passes read differently

\* "duplicate": a name declared twice in one var; "unassigned": a variable that shadows
\* another and is never assigned; "annotation": a first assignment that contradicts it;
\* "function": a function's name used as a variable; "renamed": a parameter that LLVM did
\* not let have its name; "redeclared": a parameter whose type is not that of the LLVM
\* function.
Quirk == {"duplicate", "unassigned", "annotation", "function", "renamed", "redeclared"}

vars == <<symbol_table, blocks, map, alloca, access, quirks>>

\* A binding of the checker: its type (None: declared without a value, not yet
\* assigned), and, to tell bindings apart, the number of its declaration, 0 for a
\* function: the checker enters function names beside variables, the generator's
\* map has none.
Depth == Len(symbol_table)
Scope == symbol_table[Depth]
Block == blocks[Depth]
NoScope == [n \in Name |-> None]

\* SymbolTable::get: the innermost scope that has the name.
Has(n, k) == k \in 1 .. Depth /\ symbol_table[k][n] # None
Visible(n) == \E k \in 1 .. Depth : Has(n, k)
ScopeOf(n) == CHOOSE k \in 1 .. Depth : Has(n, k) /\ \A j \in k + 1 .. Depth : ~Has(n, j)
Lookup(n) == symbol_table[ScopeOf(n)][n]

\* The declarations of the body are numbered as the generator's allocas are, whether
\* or not the generator makes one.
NextId == Len(alloca) + 1

\* Program's scope with its functions, and the scope of the function's parameters.
Init ==
  /\ symbol_table = << [n \in Name |-> IF n \in Function THEN [id |-> 0, type |-> "scalar"]
                                                        ELSE None], NoScope >>
  /\ blocks = << [kind |-> "program", vars |-> << >>], [kind |-> "prototype", vars |-> << >>] >>
  /\ map = [n \in Name |-> None]
  /\ alloca = << >>
  /\ access = None
  /\ quirks = {}

-------------------------------------------------------------------------------
(* Entering a block.                                                       *)

Enter(kind) ==
  /\ Depth < MaxDepth /\ Block.kind # "prototype"
  /\ symbol_table' = Append(symbol_table, NoScope)
  /\ blocks' = Append(blocks, [kind |-> kind, vars |-> << >>])
  /\ access' = None
  /\ UNCHANGED <<map, alloca, quirks>>

\* A binding enters the checker's innermost scope, and its declaration the block.
\* With a type t the generator makes an alloca of that type, maps key to it and keeps
\* what the name was mapped to before; with none it skips the variable.
Bind(n, key, type, t, val) ==
  /\ Len(alloca) < MaxAlloca
  /\ symbol_table' = [symbol_table EXCEPT ![Depth][n] = [id |-> NextId, type |-> type]]
  /\ alloca' = Append(alloca, t)
  /\ blocks' = [blocks EXCEPT ![Depth].vars =
                  Append(@, [name |-> n, t |-> t, val |-> val, id |-> NextId,
                             old |-> IF t = None THEN None ELSE map[n]])]
  /\ map' = [m \in Name |-> IF m = key /\ t # None THEN NextId ELSE map[m]]
  /\ access' = None

\* The parameters of the function, before anything else in it.  The checker binds n to
\* its type.  The generator works on the LLVM function, which the module may have from an
\* extern or a call with another prototype: the alloca has the type t of that function's
\* parameter, and is mapped under key, the name LLVM gives the parameter when asked for n.
\* No two values of a function have one name.  Where n is held, by an earlier parameter n
\* or by a value of the function as it was declared, LLVM makes up another name, which may
\* be one of Name or one that the program does not use (None).
Parameter(n, key, type, t) ==
  /\ Block.kind = "prototype"
  /\ key \in Name => map[key] = None
  /\ Bind(n, key, type, t, TRUE)
  /\ quirks' = quirks \cup (IF key = n THEN {} ELSE {"renamed"})
                      \cup (IF type = t THEN {} ELSE {"redeclared"})

Body ==
  /\ Block.kind = "prototype"
  /\ blocks' = [blocks EXCEPT ![Depth].kind = "function"]
  /\ UNCHANGED <<symbol_table, map, alloca, access, quirks>>

Duplicate(n) == IF symbol_table[Depth][n] # None THEN {"duplicate"} ELSE {}

\* var n = e, and var n : t = e, which must agree with e.
DeclareWithValue(n, t) ==
  /\ Block.kind = "var"
  /\ Bind(n, n, t, t, TRUE)
  /\ quirks' = quirks \cup Duplicate(n)

\* var n : t.  The checker leaves it without a type until it is assigned.
DeclareAnnotated(n, t) ==
  /\ Block.kind = "var"
  /\ Bind(n, n, None, t, TRUE)
  /\ quirks' = quirks \cup Duplicate(n)

\* var n.  t is what the end of the block will find, None if nothing is assigned.
DeclareBare(n, t) ==
  /\ Block.kind = "var"
  /\ Bind(n, n, None, t, FALSE)
  /\ quirks' = quirks \cup Duplicate(n)
                      \cup (IF t = None /\ Visible(n) THEN {"unassigned"} ELSE {})

\* for n = e: the only variable of its block.  The generator panics on a loop over
\* anything but a number.
LoopVariable(n) ==
  /\ Block.kind = "for" /\ Block.vars = << >>
  /\ Bind(n, n, "scalar", "scalar", TRUE)
  /\ UNCHANGED quirks

-------------------------------------------------------------------------------
(* Accesses.  Of an assignment the generator evaluates the target first, the *)
(* checker the value: the target's binding is the same either way, because    *)
(* the value closes every block it opens.                                     *)

Access(n, type) ==
  access' = [meant |-> Lookup(n).id, used |-> map[n], type |-> type]

FunctionName(n) == IF Lookup(n).id = 0 THEN {"function"} ELSE {}

\* The checker rejects a name that is not visible, or has no type yet.
Identifier(n) ==
  /\ Block.kind # "prototype"
  /\ Visible(n) /\ Lookup(n).type # None
  /\ Access(n, Lookup(n).type)
  /\ quirks' = quirks \cup FunctionName(n)
  /\ UNCHANGED <<symbol_table, blocks, map, alloca>>

\* The guess made for a bare declaration, if that is what n is.
Guessed(n, t) ==
  \A j \in DOMAIN blocks[ScopeOf(n)].vars :
    LET v == blocks[ScopeOf(n)].vars[j]
    IN  v.id = Lookup(n).id /\ ~v.val => v.t = t

\* Fault: the type is not compared with that of the variable.
Assign_Unchecked(n, t) ==
  /\ Block.kind # "prototype"
  /\ Visible(n) /\ Guessed(n, t)
  /\ symbol_table' = [symbol_table EXCEPT ![ScopeOf(n)][n].type = t]
  /\ quirks' = quirks \cup FunctionName(n)
  /\ Access(n, t)
  /\ UNCHANGED <<blocks, map, alloca>>

\* n = e, with e of type t: the first assignment fixes the type, whatever the
\* declaration's annotation says.
Assign(n, t) ==
  /\ Block.kind # "prototype"
  /\ Visible(n) /\ Guessed(n, t)
  /\ Lookup(n).type \in {None, t}
  /\ symbol_table' = [symbol_table EXCEPT ![ScopeOf(n)][n].type = t]
  /\ quirks' = quirks \cup FunctionName(n)
                      \cup (IF Lookup(n).type = None /\ alloca[Lookup(n).id] # t
                            THEN {"annotation"} ELSE {})
  /\ Access(n, t)
  /\ UNCHANGED <<blocks, map, alloca>>

-------------------------------------------------------------------------------
(* Leaving a block.                                                        *)

\* Fault: the names of the block stay mapped to its variables.
Restored_Not(vs) == map

\* Fault: the old binding is put back, but one that did not exist is not removed.
Restored_Partly(vs) ==
  [n \in Name |->
     LET J == {j \in DOMAIN vs : vs[j].name = n /\ vs[j].old # None}
     IN  IF J = {} THEN map[n] ELSE vs[CHOOSE j \in J : \A k \in J : k <= j].old]

\* The generator goes through the variables in order, puts back what the name was
\* mapped to before, or removes it: the last entry for a name decides.
Restored(vs) ==
  [n \in Name |->
     LET J == {j \in DOMAIN vs : vs[j].name = n}
     IN  IF J = {} THEN map[n] ELSE vs[CHOOSE j \in J : \A k \in J : k <= j].old]

\* Every variable without value or annotation gets the type its name ends up with.
TypesFound ==
  \A j \in DOMAIN Block.vars :
    Block.vars[j].val \/ Block.vars[j].t = Scope[Block.vars[j].name].type

\* Fault: the checker keeps the scope of a block it has left.
Leave_NoPop ==
  /\ Depth > 2
  /\ Block.kind # "branch" => Block.vars # << >>
  /\ TypesFound
  /\ blocks' = SubSeq(blocks, 1, Depth - 1)
  /\ map' = Restored(Block.vars)
  /\ access' = None
  /\ UNCHANGED <<symbol_table, alloca, quirks>>

Leave ==
  /\ Depth > 2
  /\ Block.kind # "branch" => Block.vars # << >>
  /\ TypesFound
  /\ symbol_table' = SubSeq(symbol_table, 1, Depth - 1)
  /\ blocks' = SubSeq(blocks, 1, Depth - 1)
  /\ map' = Restored(Block.vars)
  /\ access' = None
  /\ UNCHANGED <<alloca, quirks>>

-------------------------------------------------------------------------------
Next ==
  \/ \E kind \in {"var", "for", "branch"} : Enter(kind)
  \/ \E n \in Name, t \in Type :
       \/ \E key \in Name \cup {None}, type \in Type : Parameter(n, key, type, t)
       \/ DeclareWithValue(n, t) \/ DeclareAnnotated(n, t) \/ Assign(n, t)
  \/ \E n \in Name, t \in Type \cup {None} : DeclareBare(n, t)
  \/ \E n \in Name : LoopVariable(n) \/ Identifier(n)
  \/ Body \/ Leave

Spec == Init /\ [][Next]_vars

-------------------------------------------------------------------------------
(* Correctness.                                                            *)

Binding == [id : 0 .. MaxAlloca, type : Type \cup {None}]
Variable == [name : Name, t : Type \cup {None}, val : BOOLEAN, id : 1 .. MaxAlloca,
             old : 1 .. MaxAlloca \cup {None}]

TypeOK ==
  /\ symbol_table \in Seq([Name -> Binding \cup {None}])
  /\ blocks \in Seq([kind : {"program", "prototype", "function", "var", "for", "branch"},
                     vars : Seq(Variable)])
  /\ Len(symbol_table) = Len(blocks) /\ Len(blocks) >= 2
  /\ map \in [Name -> 1 .. MaxAlloca \cup {None}]
  /\ alloca \in Seq(Type \cup {None}) /\ Len(alloca) <= MaxAlloca
  /\ access \in {None} \cup [meant : 0 .. MaxAlloca, used : 1 .. MaxAlloca \cup {None}, type : Type]
  /\ quirks \subseteq Quirk

\* Each access compiles to the alloca of the very declaration the checker resolved
\* the name to: one flat map with saved bindings is as good as a stack of scopes, in
\* any body without a name declared twice in one var, without a shadowing variable
\* that is never assigned, without a function's name used as a variable, and of a function
\* whose parameters keep their names in LLVM, so that none of them is repeated
\* (codegen.rs:670-709, 957-1044, 1140-1152 against type_checking.rs:217-233, 244-288,
\* 447-474).
SameVariable ==
  access # None /\ quirks \subseteq {"annotation", "redeclared"} => access.meant = access.used

\* w is the alloca of a variable of one of the first k blocks: of one named n, or, if
\* LLVM renamed a parameter, of any parameter.
HeldBy(n, w, k) ==
  \E h \in 2 .. k : \E j \in DOMAIN blocks[h].vars :
    /\ blocks[h].vars[j].id = w
    /\ blocks[h].vars[j].name = n \/ (h = 2 /\ "renamed" \in quirks)

\* A block gives back every name it took: whatever the generator's map has is the alloca
\* of a variable of a block still open, a parameter that LLVM renamed included, in any
\* body without a name declared twice in one var (codegen.rs:701-707, 1037-1041).
NoLeakedName ==
  "duplicate" \notin quirks => \A n \in Name : map[n] # None => HeldBy(n, map[n], Depth)

\* A variable the checker takes for a heap pointer lives in an alloca created with a
\* pointer type, that is, in a root of the collector, and a scalar does not, in any body
\* without the constructs that SameVariable excludes, without an annotation that the
\* first assignment contradicts, and of a function that its module has not declared
\* before with other types (codegen.rs:150-165, 659-661, 1140-1152).
RootedPointers ==
  access # None /\ quirks = {} => alloca[access.used] = access.type
===============================================================================
