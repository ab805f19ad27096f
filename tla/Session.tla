------------------------------- MODULE Session -------------------------------
(***************************************************************************)
(* The read-eval-print loop of main.rs and the tables that survive a line: *)
(* the type checker's prototypes and scopes, the generator's prototypes    *)
(* and current module, and the symbols of the JIT.  A line is checked as a *)
(* whole, then its declarations are generated and compiled one after the   *)
(* other.  Any stage can fail, and nothing done before is undone: the next *)
(* line starts from whatever the stages have left.                         *)
(*                                                                         *)
(* Of a declaration only what the tables depend on is kept: its name, its  *)
(* signature, and what its body does.  A line that does not parse changes  *)
(* none of this state, and the names here are not those of built-ins.      *)
(* LLVM and its ORC JIT are external, and modelled as this code uses them. *)
(***************************************************************************)
EXTENDS Integers, Sequences

CONSTANTS
  Name,      \* functions a program declares
  Runtime,   \* those of them that libruntime.so or libgc.so exports
  Anon,      \* "__anon_expr", the function a top-level expression becomes
  Sig,       \* signatures, with their
  Arity,     \*   number of arguments
  MaxDecls,  \* bound: declarations on a line
  MaxDepth,  \* bound: scopes on the symbol table
  None

Symbol == Name \cup {Anon}

ASSUME NameAssumption == Runtime \subseteq Name /\ Anon \notin Name
ASSUME SigAssumption == Arity \in [Sig -> Nat] /\ None \notin Sig
ASSUME BoundsAssumption == MaxDecls \in Nat \ {0} /\ MaxDepth \in Nat

\* None is none of the records below.
ASSUME NoneAssumption ==
  /\ None \notin [args : Sig, callee : Sig \cup {None}]
  /\ None \notin [sig : Sig \cup {None}, body : {"none", "code", "broken"}, calls : SUBSET Name]
  /\ None \notin [sig : Sig \cup {None}, calls : SUBSET Name, state : {"added", "broken", "failed"}]

\* What the body of a function does: nothing that matters here, an error that the
\* type checker finds or one that only the generator does, a call.
Call == [does : {"call"}, name : Name, sig : Sig]
Body == {[does |-> "plain"], [does |-> "illtyped"], [does |-> "ungenerable"]} \cup Call

Extern == [kind : {"extern"}, name : Name, sig : Sig]
Def    == [kind : {"function"}, name : Name, sig : Sig, body : Body]
TopExpr   == [kind : {"function"}, name : {Anon}, sig : {None}, body : Body]
Decl   == Extern \cup Def \cup TopExpr

VARIABLES
  prototype_table,  \* SymbolTable.prototype_table
  symbol_table,     \* SymbolTable.symbol_table: how many scopes it has
  function_protos,  \* CodeGenBuilder.function_protos
  module,           \* CodeGenBuilder.module: its functions, declared or defined
  dylib,            \* the symbols of the main JITDylib
  pc,               \* the stage of the pipeline, "read" at the prompt
  ast,              \* the declarations of the line
  k,                \* the declaration the stage is at
  call,             \* the call just generated: arguments and callee as compiled
  failed,           \* history: the kinds of errors met, by what they may leave behind
  redeclared        \* history: the ways a name was given another signature

tables == <<prototype_table, function_protos, symbol_table>>
vars == <<prototype_table, symbol_table, function_protos, module, dylib, pc, ast, k, call,
          failed, redeclared>>

D == ast[k]
SigArity(s) == IF s = None THEN 0 ELSE Arity[s]
EmptyModule == [n \in Symbol |-> None]

Init ==
  /\ prototype_table = [n \in Name |-> None]
  /\ function_protos = [n \in Name |-> None]
  /\ symbol_table = 0
  /\ module = EmptyModule /\ dylib = [n \in Symbol |-> None]
  /\ pc = "read" /\ ast = << >> /\ k = 1
  /\ call = None /\ failed = {} /\ redeclared = {}

\* The error goes up to main, which prints it and reads the next line.  The rest of
\* this line has been checked, and is not generated.
Fail(kind) ==
  /\ failed' = failed \cup {kind} \cup (IF k < Len(ast) THEN {"tables"} ELSE {})
  /\ pc' = "read" /\ ast' = << >> /\ k' = 1

\* On to the next declaration of the line: at stage s, or, after the last, to s2.
NextDecl(s, s2) ==
  /\ IF k < Len(ast) THEN pc' = s /\ k' = k + 1 /\ ast' = ast
                     ELSE pc' = s2 /\ k' = 1 /\ ast' = IF s2 = "read" THEN << >> ELSE ast
  /\ UNCHANGED failed

-------------------------------------------------------------------------------
(* read_line and parse_program, then type_check of the program.            *)

Read ==
  /\ pc = "read"
  /\ symbol_table + 3 <= MaxDepth
  /\ \E n \in 1 .. MaxDecls : ast' \in [1 .. n -> Decl]
  /\ pc' = "check" /\ k' = 1
  /\ symbol_table' = symbol_table + 1
  /\ UNCHANGED <<prototype_table, function_protos, module, dylib, call, failed, redeclared>>

\* A name enters the table before the body is looked at, so that it can recurse.
Declared == IF D.name = Anon THEN prototype_table
                             ELSE [prototype_table EXCEPT ![D.name] = D.sig]

\* Fault: the types of the arguments are not compared.
WellTyped_AnyArgs ==
  D.kind = "function" =>
    /\ D.body.does # "illtyped"
    /\ D.body.does = "call" => /\ Declared[D.body.name] # None
                               /\ SigArity(Declared[D.body.name]) = SigArity(D.body.sig)

WellTyped ==
  D.kind = "function" =>
    /\ D.body.does # "illtyped"
    /\ D.body.does = "call" => Declared[D.body.name] = D.body.sig

\* Fault: each declaration pops the scope of the program.
Check_PopEach ==
  /\ pc = "check" /\ WellTyped
  /\ prototype_table' = Declared
  /\ symbol_table' = symbol_table - 1
  /\ NextDecl("check", "generate")
  /\ UNCHANGED <<function_protos, module, dylib, call, redeclared>>

Check ==
  /\ pc = "check" /\ WellTyped
  /\ prototype_table' = Declared
  /\ symbol_table' = IF k = Len(ast) THEN symbol_table - 1 ELSE symbol_table
  /\ NextDecl("check", "generate")
  /\ UNCHANGED <<function_protos, module, dylib, call, redeclared>>

\* `?` leaves the program's scope, the function's, and any its body has open.
Check_error ==
  /\ pc = "check" /\ ~WellTyped
  /\ prototype_table' = Declared
  /\ \E open \in 0 .. 1 : symbol_table' = symbol_table + 1 + open
  /\ Fail("tables")
  /\ UNCHANGED <<function_protos, module, dylib, call, redeclared>>

-------------------------------------------------------------------------------
(* DeclKind::codegen.                                                      *)

Declaration(s) == [sig |-> s, body |-> "none", calls |-> {}]

\* get_function: in m, or else declared there after function_protos.
GetFunction(m, protos, n) ==
  IF m[n] # None THEN m[n] ELSE IF protos[n] # None THEN Declaration(protos[n]) ELSE None

\* The signatures that a declaration of n by s overrides without an error.
OverCode(n, s) ==
  IF dylib[n] # None /\ dylib[n].sig \notin {None, s} THEN {"extern over code"} ELSE {}
OverExtern(n, s) ==
  IF module[n] # None /\ module[n].sig # s THEN {"function over extern"} ELSE {}

\* Fault: the prototype is not kept.
Generate_extern_Forgotten ==
  /\ pc = "generate" /\ D.kind = "extern" /\ module[D.name] = None
  /\ module' = [module EXCEPT ![D.name] = Declaration(D.sig)]
  /\ redeclared' = redeclared \cup OverCode(D.name, D.sig)
  /\ NextDecl("generate", "read")
  /\ UNCHANGED <<tables, dylib, call>>

\* An extern, with its compile step, which leaves the module where it is.
Generate_extern ==
  /\ pc = "generate" /\ D.kind = "extern" /\ module[D.name] = None
  /\ module' = [module EXCEPT ![D.name] = Declaration(D.sig)]
  /\ function_protos' = [function_protos EXCEPT ![D.name] = D.sig]
  /\ redeclared' = redeclared \cup OverCode(D.name, D.sig)
  /\ NextDecl("generate", "read")
  /\ UNCHANGED <<prototype_table, symbol_table, dylib, call>>

\* "Function cannot have multiple declarations"
Generate_extern_error ==
  /\ pc = "generate" /\ D.kind = "extern" /\ module[D.name] # None
  /\ Fail("tables")
  /\ UNCHANGED <<tables, module, dylib, call, redeclared>>

\* Fault: the prototype of a function is not kept.
Protos_Dropped == function_protos

\* A function: its prototype is kept before anything is looked at.
Protos == IF D.name = Anon THEN function_protos
                           ELSE [function_protos EXCEPT ![D.name] = D.sig]
Fn == IF module[D.name] # None THEN module[D.name] ELSE Declaration(D.sig)

\* The module in which its body is generated.
Begun == [module EXCEPT ![D.name] = [Fn EXCEPT !.body = "code"]]
Callee == GetFunction(Begun, Protos, D.body.name)
WithCallee == IF D.body.does = "call" /\ Callee # None
              THEN [Begun EXCEPT ![D.body.name] = Callee] ELSE Begun

Fresh == D.kind = "function" /\ Fn.body = "none"
ArityOk == SigArity(Fn.sig) = SigArity(D.sig)

Generable ==
  /\ D.body.does # "ungenerable"
  /\ D.body.does = "call" => Callee # None /\ SigArity(Callee.sig) = Arity[D.body.sig]

Generate_function ==
  /\ pc = "generate" /\ Fresh /\ ArityOk /\ Generable
  /\ function_protos' = Protos
  /\ LET calls == IF D.body.does = "call" THEN {D.body.name} ELSE {}
     IN  /\ module' = [WithCallee EXCEPT ![D.name].calls = calls]
         /\ call' = IF calls = {} THEN None ELSE [args |-> D.body.sig, callee |-> Callee.sig]
  /\ redeclared' = redeclared \cup OverExtern(D.name, D.sig)
  /\ pc' = "compile"
  /\ UNCHANGED <<prototype_table, symbol_table, dylib, ast, k, failed>>

\* Fault: the function stays in the module, without a return.
Generate_body_error_Undeleted ==
  /\ pc = "generate" /\ Fresh /\ ArityOk /\ ~Generable
  /\ function_protos' = Protos
  /\ module' = [WithCallee EXCEPT ![D.name].body = "broken"]
  /\ Fail("code")
  /\ UNCHANGED <<prototype_table, symbol_table, dylib, call, redeclared>>

\* The body fails, and the function is deleted, but not what it has declared.
Generate_body_error ==
  /\ pc = "generate" /\ Fresh /\ ArityOk /\ ~Generable
  /\ function_protos' = Protos
  /\ module' = [WithCallee EXCEPT ![D.name] = None]
  /\ Fail("code")
  /\ UNCHANGED <<prototype_table, symbol_table, dylib, call, redeclared>>

\* "Incorrect # arguments passed": the function declared before has another arity.
\* It is left in the module with three empty blocks.
Generate_arity_error ==
  /\ pc = "generate" /\ Fresh /\ ~ArityOk
  /\ function_protos' = Protos
  /\ module' = [module EXCEPT ![D.name].body = "broken"]
  /\ Fail("arity")
  /\ UNCHANGED <<prototype_table, symbol_table, dylib, call, redeclared>>

\* "Function cannot be redefnied"
Generate_redefinition_error ==
  /\ pc = "generate" /\ D.kind = "function" /\ Fn.body # "none"
  /\ function_protos' = Protos
  /\ Fail("arity")
  /\ UNCHANGED <<prototype_table, symbol_table, module, dylib, call, redeclared>>

-------------------------------------------------------------------------------
(* JitCompiler::compile and run.                                           *)

Defined == {n \in Symbol : module[n] # None /\ module[n].body # "none"}
Duplicates == {n \in Defined : dylib[n] # None}
Broken == \E n \in Defined : module[n].body = "broken"

\* The module goes to the JIT, and a new one takes its place.  Nothing is compiled
\* to machine code before a symbol is looked up.
Compile ==
  /\ pc = "compile" /\ Duplicates = {}
  /\ module' = EmptyModule
  /\ dylib' = [n \in Symbol |->
                 IF n \notin Defined THEN dylib[n]
                 ELSE [sig |-> module[n].sig, calls |-> module[n].calls,
                       state |-> IF Broken THEN "broken" ELSE "added"]]
  /\ IF D.name = Anon THEN pc' = "run" /\ UNCHANGED <<ast, k, failed>>
                      ELSE NextDecl("generate", "read")
  /\ call' = None
  /\ UNCHANGED <<tables, redeclared>>

\* The JIT accepts no second definition of a symbol; the module is lost.
Compile_error ==
  /\ pc = "compile" /\ Duplicates # {}
  /\ module' = EmptyModule
  /\ Fail("code")
  /\ call' = None
  /\ UNCHANGED <<tables, dylib, redeclared>>

\* What a lookup of n has to link: n, and what its code calls.
Calls(n) == IF dylib[n] = None THEN {} ELSE dylib[n].calls
Links(n) ==
  {m \in Symbol : \A S \in SUBSET Symbol :
                    n \in S /\ (\A s \in S : Calls(s) \subseteq S) => m \in S}

Missing(n) == \/ dylib[n] = None /\ n \notin Runtime
              \/ dylib[n] # None /\ dylib[n].state = "failed"
Unlinkable(n) == \E m \in Links(n) : Missing(m)
Linkable == ~Unlinkable(Anon) /\ \A n \in Links(Anon) : dylib[n] # None => dylib[n].state # "broken"

\* Fault: jit.remove(rt) is forgotten.
Run_Kept ==
  /\ pc = "run" /\ Linkable
  /\ NextDecl("generate", "read")
  /\ UNCHANGED <<tables, module, dylib, call, redeclared>>

\* Fault: the expression was added with the default tracker, which has all functions.
Run_DefaultTracker ==
  /\ pc = "run" /\ Linkable
  /\ dylib' = EmptyModule
  /\ NextDecl("generate", "read")
  /\ UNCHANGED <<tables, module, call, redeclared>>

\* The expression runs and returns, and its module is removed.  A symbol found in a
\* library is a symbol of the JIT from then on.
Run ==
  /\ pc = "run" /\ Linkable
  /\ dylib' = [n \in Symbol |->
                 IF n = Anon THEN None
                 ELSE IF n \in Links(Anon) /\ dylib[n] = None
                      THEN [sig |-> None, calls |-> {}, state |-> "added"]
                      ELSE dylib[n]]
  /\ NextDecl("generate", "read")
  /\ UNCHANGED <<tables, module, call, redeclared>>

\* The lookup fails, and so does for ever what it could not link.  The expression
\* is not removed.
Run_error ==
  /\ pc = "run" /\ Unlinkable(Anon)
  /\ dylib' = [n \in Symbol |->
                 IF n \in Links(Anon) /\ dylib[n] # None /\ Unlinkable(n)
                 THEN [dylib[n] EXCEPT !.state = "failed"] ELSE dylib[n]]
  /\ Fail("link")
  /\ UNCHANGED <<tables, module, call, redeclared>>

\* The JIT compiles a function without terminators: undefined behaviour.
Run_broken ==
  /\ pc = "run"
  /\ \E n \in Links(Anon) : dylib[n] # None /\ dylib[n].state = "broken"
  /\ pc' = "undefined"
  /\ UNCHANGED <<tables, module, dylib, ast, k, call, failed, redeclared>>

-------------------------------------------------------------------------------
Next ==
  \/ Read \/ Check \/ Check_error
  \/ Generate_extern \/ Generate_extern_error
  \/ Generate_function \/ Generate_body_error \/ Generate_arity_error
  \/ Generate_redefinition_error
  \/ Compile \/ Compile_error
  \/ Run \/ Run_error \/ Run_broken

Spec == Init /\ [][Next]_vars

-------------------------------------------------------------------------------
(* Correctness.                                                            *)

OrNone(S) == S \cup {None}

TypeOK ==
  /\ prototype_table \in [Name -> OrNone(Sig)]
  /\ function_protos \in [Name -> OrNone(Sig)]
  /\ symbol_table \in 0 .. MaxDepth
  /\ module \in [Symbol -> OrNone([sig : OrNone(Sig), body : {"none", "code", "broken"},
                                   calls : SUBSET Name])]
  /\ dylib \in [Symbol -> OrNone([sig : OrNone(Sig), calls : SUBSET Name,
                                  state : {"added", "broken", "failed"}])]
  /\ pc \in {"read", "check", "generate", "compile", "run", "undefined"}
  /\ ast \in Seq(Decl) /\ Len(ast) <= MaxDecls
  /\ k \in 1 .. MaxDecls
  /\ call \in OrNone([args : Sig, callee : OrNone(Sig)])
  /\ failed \subseteq {"tables", "arity", "code", "link"}
  /\ redeclared \subseteq {"extern over code", "function over extern"}

Prompt == pc = "read"

\* The errors after which a name the checker has entered may be missing from the
\* generator's tables, or something half made may be left.
Unsettling == {"tables", "arity"}

\* At the prompt the checker and the generator know the same functions by the same
\* signatures, no scope is left, and no half-made function waits in the module: also
\* after lines whose last declaration had a body that could not be generated, was a
\* duplicate for the JIT, or could not be linked (main.rs:34-46).
TablesAgree ==
  Prompt /\ failed \cap Unsettling = {} =>
    /\ prototype_table = function_protos
    /\ symbol_table = 0
    /\ \A n \in Symbol : module[n] # None => module[n].body = "none"

\* A call is compiled with the arguments the checker has seen and the callee expects,
\* in a session of any length, if no function was defined otherwise than the extern
\* just before it (codegen.rs:857-873 against type_checking.rs:419-437).
CallsAgree ==
  call # None /\ failed \cap Unsettling = {} /\ "function over extern" \notin redeclared =>
    call.args = call.callee

\* What the next line will be compiled against is the code there is, if no function
\* was redefined, or declared extern with another signature, after it got code
\* (codegen.rs:1110-1116, 1332-1336).
CodeAgrees ==
  Prompt /\ failed \subseteq {"link"} /\ redeclared = {} =>
    \A n \in Name : dylib[n] # None => dylib[n].sig \in {None, function_protos[n]}

\* __anon_expr is free again for the next expression, unless an expression could not
\* be linked (codegen.rs:1354-1358, 1413).
AnonRemoved ==
  Prompt /\ "link" \notin failed => dylib[Anon] = None

\* A function that can run can run ever after, and is the same: no later line, wrong
\* or right, takes away or replaces its code or that of a function it calls
\* (codegen.rs:1340-1371, 1413).
Linked(n) == \A m \in Links(n) : dylib[m] # None /\ dylib[m].state = "added"

LinkedStays ==
  [][\A n \in Name : Linked(n) => Linked(n)' /\ dylib'[n] = dylib[n]]_dylib

\* Nothing malformed reaches the JIT, whatever else went wrong, unless a function was
\* given another number of arguments than the extern before it (codegen.rs:1134-1139,
\* 1169-1175).
WellFormedCode ==
  "arity" \notin failed => pc # "undefined"

\* "Function cannot be redefnied" (codegen.rs:1121): a function that has code keeps
\* the signature it was compiled with, unless an extern declares another.
RedefinitionRefused ==
  Prompt /\ failed \subseteq {"code"} /\ redeclared = {} =>
    \A n \in Name : dylib[n] # None => dylib[n].sig \in {None, function_protos[n]}
===============================================================================
