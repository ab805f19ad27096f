---------------------------- MODULE SessionProofs ----------------------------
(***************************************************************************)
(* Proofs about the session: for any functions, signatures and libraries,  *)
(* lines of any length and sessions of any length.                         *)
(*                                                                         *)
(* The argument: the type checker has been over the whole line when the    *)
(* generator starts on it, so the two tables agree not in every state but  *)
(* up to the declarations the generator has still to come to.  Tracked     *)
(* says so of each stage; what a call is compiled against follows from it  *)
(* at the declaration with the call.                                       *)
(***************************************************************************)
EXTENDS Session, SequenceTheorems, TLAPS

-------------------------------------------------------------------------------
(* The invariant.                                                          *)

Settled == failed \cap Unsettling = {}

\* Where the stages are in the line, and the scopes that the checker has opened for it.
Staged ==
  /\ pc # "read" => k \in 1 .. Len(ast)
  /\ pc = "check" => 1 <= symbol_table /\ symbol_table + 2 <= MaxDepth
  /\ pc = "compile" => D.name \in Defined
  /\ pc = "run" => D.name = Anon
  /\ pc \in {"compile", "run"} /\ D.name # Anon => function_protos[D.name] = D.sig

\* s is the signature of n once the declarations of the line from a to b are added to
\* protos: that of the last of them with the name.
Sees(line, protos, a, b, n, s) ==
  \/ \E i \in a .. b : /\ line[i].name = n /\ s = line[i].sig
                       /\ \A h \in i + 1 .. b : line[h].name # n
  \/ /\ s = protos[n]
     /\ \A i \in a .. b : line[i].name # n

\* The call in declaration j agrees with what the checker had seen when it came to it.
CallSeen(line, protos, a, j) ==
  line[j].kind = "function" /\ line[j].body.does = "call" =>
    Sees(line, protos, a, j, line[j].body.name, line[j].body.sig)

\* The checker's table is the generator's with the declarations between them.
Tracked ==
  Settled =>
    /\ pc = "read" => symbol_table = 0 /\ prototype_table = function_protos
    /\ pc = "check" => /\ symbol_table = 1
                       /\ \A n \in Name : Sees(ast, function_protos, 1, k - 1, n, prototype_table[n])
                       /\ \A j \in 1 .. k - 1 : CallSeen(ast, function_protos, 1, j)
    /\ pc \in {"generate", "compile", "run"} =>
         /\ symbol_table = 0
         /\ \A n \in Name : Sees(ast, function_protos, k, Len(ast), n, prototype_table[n])
         /\ \A j \in k .. Len(ast) : CallSeen(ast, function_protos, k, j)

\* Only the function that is about to be compiled has a body in the module, and none is
\* half made, unless a function was given another number of arguments than its extern.
OneBody ==
  "arity" \notin failed =>
    /\ \A n \in Symbol : module[n] # None =>
         \/ module[n].body = "none"
         \/ pc = "compile" /\ n = D.name /\ module[n].body = "code"
    /\ \A n \in Symbol : dylib[n] # None => dylib[n].state # "broken"

\* The expression is in the module only to be compiled and in the JIT only to run.
AnonPasses ==
  /\ module[Anon] # None => pc = "compile" /\ D.name = Anon
  /\ "link" \notin failed /\ dylib[Anon] # None => pc \in {"run", "undefined"}

\* What the module declares has the signature the generator knows.
ModuleAgrees ==
  "arity" \notin failed /\ "function over extern" \notin redeclared =>
    \A n \in Name : module[n] # None => module[n].sig = function_protos[n]

\* So has what was compiled, but for the function that the JIT is about to refuse.
CodeKnown ==
  failed \subseteq {"link"} /\ redeclared = {} =>
    \A n \in Name : dylib[n] # None =>
      \/ dylib[n].sig \in {None, function_protos[n]}
      \/ pc = "compile" /\ n = D.name

SessionInv ==
  /\ TypeOK /\ Staged /\ Tracked /\ OneBody /\ AnonPasses /\ ModuleAgrees /\ CodeKnown
  /\ CallsAgree /\ WellFormedCode

-------------------------------------------------------------------------------
(* Declarations, and what a line declares.                                  *)

LEMMA DeclTyping ==
  ASSUME NEW d \in Decl
  PROVE  /\ d.name \in Symbol /\ d.kind \in {"extern", "function"}
         /\ d.name # Anon => d.name \in Name /\ d.sig \in Sig
         /\ d.name = Anon => d.kind = "function" /\ d.sig = None
         /\ d.kind = "function" /\ d.body.does = "call" => d.body.name \in Name /\ d.body.sig \in Sig
<1>1. CASE d \in Extern
  BY <1>1, NameAssumption DEF Extern, Symbol
<1>2. CASE d \in Def
  BY <1>2, NameAssumption DEF Def, Symbol, Body, Call
<1>3. CASE d \in TopExpr
  BY <1>3 DEF TopExpr, Symbol, Body, Call
<1> QED BY <1>1, <1>2, <1>3 DEF Decl

\* One declaration more, seen by the checker.
LEMMA SeesNext ==
  ASSUME NEW line, NEW protos, NEW a \in Int, NEW b \in Int, a <= b, NEW n, NEW s,
         line[b].name # n => Sees(line, protos, a, b - 1, n, s),
         line[b].name = n => s = line[b].sig
  PROVE  Sees(line, protos, a, b, n, s)
<1>1. CASE line[b].name = n
  <2>1. b \in a .. b /\ \A h \in b + 1 .. b : line[h].name # n
    OBVIOUS
  <2> QED BY <1>1, <2>1 DEF Sees
<1>2. CASE line[b].name # n
  <2>1. \A i \in a .. b : i \in a .. b - 1 \/ i = b
    OBVIOUS
  <2>2. CASE \E i \in a .. b - 1 : /\ line[i].name = n /\ s = line[i].sig
                                   /\ \A h \in i + 1 .. b - 1 : line[h].name # n
    <3>1. PICK i \in a .. b - 1 : /\ line[i].name = n /\ s = line[i].sig
                                  /\ \A h \in i + 1 .. b - 1 : line[h].name # n
      BY <2>2
    <3>2. i \in a .. b /\ \A h \in i + 1 .. b : h \in i + 1 .. b - 1 \/ h = b
      BY <3>1
    <3> QED BY <1>2, <3>1, <3>2 DEF Sees
  <2>3. CASE s = protos[n] /\ \A i \in a .. b - 1 : line[i].name # n
    BY <1>2, <2>1, <2>3 DEF Sees
  <2> QED BY <1>2, <2>2, <2>3 DEF Sees
<1> QED BY <1>1, <1>2

\* The first declaration goes into the generator's table, and may then be left out.
LEMMA SeesGenerated ==
  ASSUME NEW line, NEW protos, NEW protos2, NEW a \in Int, NEW b \in Int, a <= b, NEW n, NEW s,
         Sees(line, protos, a, b, n, s),
         protos2[n] = IF line[a].name = n THEN line[a].sig ELSE protos[n]
  PROVE  Sees(line, protos2, a, b, n, s) /\ Sees(line, protos2, a + 1, b, n, s)
<1>1. \A i \in a .. b : i = a \/ i \in a + 1 .. b
  OBVIOUS
<1>2. \A i \in a + 1 .. b : i \in a .. b
  OBVIOUS
<1>3. CASE \E i \in a .. b : /\ line[i].name = n /\ s = line[i].sig
                             /\ \A h \in i + 1 .. b : line[h].name # n
  BY <1>1, <1>3 DEF Sees
<1>4. CASE s = protos[n] /\ \A i \in a .. b : line[i].name # n
  <2>1. a \in a .. b
    OBVIOUS
  <2> QED BY <1>2, <1>4, <2>1 DEF Sees
<1> QED BY <1>3, <1>4 DEF Sees

-------------------------------------------------------------------------------
(* From one declaration or line to the next.                                *)

Entry == [sig : Sig \cup {None}, body : {"none", "code", "broken"}, calls : SUBSET Name]
Code == [sig : Sig \cup {None}, calls : SUBSET Name, state : {"added", "broken", "failed"}]

TablesTyped ==
  /\ prototype_table \in [Name -> Sig \cup {None}] /\ function_protos \in [Name -> Sig \cup {None}]
  /\ module \in [Symbol -> Entry \cup {None}] /\ dylib \in [Symbol -> Code \cup {None}]
  /\ call \in [args : Sig, callee : Sig \cup {None}] \cup {None}
  /\ redeclared \subseteq {"extern over code", "function over extern"}

LineTyped ==
  /\ ast \in Seq(Decl) /\ Len(ast) <= MaxDecls /\ k \in 1 .. MaxDecls
  /\ failed \subseteq {"tables", "arity", "code", "link"}
  /\ pc \in {"read", "check", "generate", "compile", "run", "undefined"}

LEMMA TypeParts == TypeOK <=> TablesTyped /\ LineTyped /\ symbol_table \in 0 .. MaxDepth
BY DEF TypeOK, OrNone, TablesTyped, LineTyped, Entry, Code

LEMMA LineTyping ==
  ASSUME TypeOK, Staged, pc # "read"
  PROVE  /\ Len(ast) \in Nat /\ k \in Nat /\ 1 <= k /\ k <= Len(ast) /\ D \in Decl
         /\ \A j \in 1 .. Len(ast) : ast[j] \in Decl
BY TypeParts DEF LineTyped, Staged, D

LEMMA FailEffect ==
  ASSUME TypeOK, NEW kind \in {"tables", "arity", "code", "link"}, Fail(kind)
  PROVE  /\ failed \subseteq failed' /\ kind \in failed' /\ failed' \subseteq failed \cup {kind, "tables"}
         /\ k < Len(ast) => "tables" \in failed'
         /\ pc' = "read" /\ k' = 1 /\ ast' = << >>
         /\ ast' \in Seq(Decl) /\ Len(ast') <= MaxDecls /\ k' \in 1 .. MaxDecls
         /\ failed' \subseteq {"tables", "arity", "code", "link"}
BY TypeParts, BoundsAssumption, EmptySeq DEF Fail, LineTyped

LEMMA NextDeclEffect ==
  ASSUME TypeOK, Staged, pc # "read", NEW s, NEW s2, NextDecl(s, s2)
  PROVE  /\ failed' = failed /\ failed' \subseteq {"tables", "arity", "code", "link"}
         /\ \/ /\ k < Len(ast) /\ pc' = s /\ k' = k + 1 /\ ast' = ast /\ k' \in 1 .. Len(ast)
            \/ /\ k = Len(ast) /\ pc' = s2 /\ k' = 1
               /\ ast' = IF s2 = "read" THEN << >> ELSE ast
         /\ ast' \in Seq(Decl) /\ Len(ast') <= MaxDecls /\ k' \in 1 .. MaxDecls
<1>1. Len(ast) \in Nat /\ k \in Nat /\ 1 <= k /\ k <= Len(ast)
  BY LineTyping
<1>2. CASE k < Len(ast)
  <2>1. pc' = s /\ k' = k + 1 /\ ast' = ast /\ failed' = failed
    BY <1>2 DEF NextDecl
  <2>2. LineTyped /\ MaxDecls \in Nat
    BY TypeParts, BoundsAssumption
  <2>3. k' \in 1 .. Len(ast) /\ k' \in 1 .. MaxDecls
    BY <1>1, <1>2, <2>1, <2>2 DEF LineTyped
  <2> QED BY <1>2, <2>1, <2>2, <2>3 DEF LineTyped
<1>3. CASE ~(k < Len(ast))
  <2>1. pc' = s2 /\ k' = 1 /\ ast' = (IF s2 = "read" THEN << >> ELSE ast) /\ failed' = failed
    BY <1>3 DEF NextDecl
  <2>2. LineTyped /\ MaxDecls \in Nat \ {0}
    BY TypeParts, BoundsAssumption
  <2>3. << >> \in Seq(Decl) /\ Len(<< >>) = 0
    BY EmptySeq
  <2>4. ast' \in Seq(Decl) /\ Len(ast') <= MaxDecls /\ k' \in 1 .. MaxDecls
    BY <2>1, <2>2, <2>3 DEF LineTyped
  <2>5. k = Len(ast)
    BY <1>1, <1>3
  <2> QED BY <2>1, <2>2, <2>4, <2>5 DEF LineTyped
<1> QED BY <1>2, <1>3

-------------------------------------------------------------------------------
(* Types.                                                                   *)

LEMMA NoneIsNothing == None \notin Entry /\ None \notin Code /\ None \notin Sig
BY NoneAssumption, SigAssumption DEF Entry, Code

\* The module while a function is generated in it.
LEMMA GenerateTyping ==
  ASSUME TypeOK, Staged, pc # "read", D.kind = "function"
  PROVE  /\ Protos \in [Name -> Sig \cup {None}]
         /\ \A n \in Name : Protos[n] = IF n = D.name THEN D.sig ELSE function_protos[n]
         /\ Fn \in Entry /\ Begun \in [Symbol -> Entry \cup {None}]
         /\ Begun[D.name] = [Fn EXCEPT !.body = "code"] /\ Begun[D.name] \in Entry
         /\ \A n \in Symbol : n # D.name => Begun[n] = module[n]
         /\ WithCallee \in [Symbol -> Entry \cup {None}]
         /\ \A n \in Symbol : \/ WithCallee[n] = Begun[n]
                              \/ /\ D.body.does = "call" /\ n = D.body.name /\ n # D.name
                                 /\ module[n] = None /\ WithCallee[n] = Declaration(Protos[n])
                                 /\ Protos[n] # None
         /\ D.body.does = "call" /\ Callee # None => Callee \in Entry
         /\ D.body.does = "call" /\ Callee # None =>
              Callee.sig = IF Begun[D.body.name] # None THEN Begun[D.body.name].sig
                                                        ELSE Protos[D.body.name]
<1>1. D \in Decl /\ TablesTyped
  BY LineTyping, TypeParts
<1>2. /\ D.name \in Symbol /\ (D.name # Anon => D.name \in Name /\ D.sig \in Sig)
      /\ D.sig \in Sig \cup {None} /\ (D.name = Anon => D.sig = None)
      /\ D.body.does = "call" => D.body.name \in Name
  BY <1>1, DeclTyping
<1>3. Anon \notin Name /\ Name \subseteq Symbol
  BY NameAssumption DEF Symbol
<1>4. /\ Protos \in [Name -> Sig \cup {None}]
      /\ \A n \in Name : Protos[n] = IF n = D.name THEN D.sig ELSE function_protos[n]
  BY <1>1, <1>2, <1>3 DEF Protos, TablesTyped
<1>5. \A s \in Sig \cup {None} : Declaration(s) \in Entry /\ Declaration(s).sig = s
  BY DEF Declaration, Entry
<1>6. Fn \in Entry
  BY <1>1, <1>2, <1>5 DEF Fn, TablesTyped
<1>7. [Fn EXCEPT !.body = "code"] \in Entry
  BY <1>6 DEF Entry
<1>8. /\ Begun \in [Symbol -> Entry \cup {None}] /\ Begun[D.name] = [Fn EXCEPT !.body = "code"]
      /\ \A n \in Symbol : n # D.name => Begun[n] = module[n]
  BY <1>1, <1>2, <1>7 DEF Begun, TablesTyped
<1>9. ASSUME D.body.does = "call", Callee # None
      PROVE  /\ Callee \in Entry
             /\ Callee.sig = IF Begun[D.body.name] # None THEN Begun[D.body.name].sig
                                                          ELSE Protos[D.body.name]
             /\ \/ Callee = Begun[D.body.name]
                \/ /\ Begun[D.body.name] = None /\ Protos[D.body.name] # None
                   /\ Callee = Declaration(Protos[D.body.name])
  <2>1. D.body.name \in Name /\ D.body.name \in Symbol
    BY <1>2, <1>3, <1>9
  <2> HIDE DEF Begun, Protos, D
  <2>2. CASE Begun[D.body.name] # None
    BY <1>8, <1>9, <2>1, <2>2 DEF Callee, GetFunction
  <2>3. CASE Begun[D.body.name] = None
    BY <1>4, <1>5, <1>9, <2>1, <2>3 DEF Callee, GetFunction
  <2> QED BY <2>2, <2>3
<1>10. \A n \in Symbol : WithCallee[n] = IF D.body.does = "call" /\ Callee # None /\ n = D.body.name
                                         THEN Callee ELSE Begun[n]
  BY <1>8 DEF WithCallee
<1>11. WithCallee \in [Symbol -> Entry \cup {None}]
  BY <1>8, <1>9 DEF WithCallee
<1>12. Begun[D.name] # None
  BY <1>7, <1>8, NoneIsNothing
<1>13. ASSUME NEW n \in Symbol, WithCallee[n] # Begun[n]
       PROVE  /\ D.body.does = "call" /\ n = D.body.name /\ n # D.name
              /\ module[n] = None /\ WithCallee[n] = Declaration(Protos[n]) /\ Protos[n] # None
  <2>1. D.body.does = "call" /\ Callee # None /\ n = D.body.name /\ WithCallee[n] = Callee
    BY <1>10, <1>13
  <2>2. Begun[n] = None /\ Protos[n] # None /\ Callee = Declaration(Protos[n])
    BY <1>9, <1>13, <2>1
  <2> QED BY <1>8, <1>12, <2>1, <2>2
<1> QED BY <1>4, <1>6, <1>7, <1>8, <1>9, <1>11, <1>13

\* The module once a function is generated in it: the function, with its body; what it
\* calls, declared as the generator knows it; and what was there.
LEMMA FunctionModule ==
  ASSUME TypeOK, Staged, Generate_function
  PROVE  /\ module'[D.name] \in Entry /\ module'[D.name].sig = Fn.sig
         /\ module'[D.name].body = "code"
         /\ \A n \in Symbol : n # D.name =>
              \/ module'[n] = module[n]
              \/ /\ module[n] = None /\ n \in Name /\ Protos[n] # None
                 /\ module'[n] = Declaration(Protos[n])
<1>1. pc # "read" /\ D.kind = "function" /\ D \in Decl
  BY LineTyping DEF Generate_function, Fresh
<1> DEFINE calls == IF D.body.does = "call" THEN {D.body.name} ELSE {}
<1>2. module' = [WithCallee EXCEPT ![D.name].calls = calls]
  BY DEF Generate_function
<1>3. D.name \in Symbol /\ (D.body.does = "call" => D.body.name \in Name)
  BY <1>1, DeclTyping
<1> HIDE DEF calls
<1>4. /\ WithCallee \in [Symbol -> Entry \cup {None}] /\ Fn \in Entry
      /\ WithCallee[D.name] = [Fn EXCEPT !.body = "code"]
      /\ \A n \in Symbol : n # D.name =>
           \/ WithCallee[n] = module[n]
           \/ /\ D.body.does = "call" /\ n = D.body.name /\ module[n] = None
              /\ WithCallee[n] = Declaration(Protos[n]) /\ Protos[n] # None
  BY <1>1, <1>3, GenerateTyping
<1>5. module'[D.name] = [[Fn EXCEPT !.body = "code"] EXCEPT !.calls = calls]
  BY <1>2, <1>3, <1>4
<1>6. calls \in SUBSET Name
  BY <1>3 DEF calls
<1>7. /\ module'[D.name] \in Entry /\ module'[D.name].sig = Fn.sig
      /\ module'[D.name].body = "code"
  BY <1>4, <1>5, <1>6 DEF Entry
<1>8. \A n \in Symbol : n # D.name => module'[n] = WithCallee[n]
  BY <1>2, <1>4
<1> QED BY <1>3, <1>4, <1>7, <1>8

LEMMA NextTypes ==
  ASSUME TypeOK, Staged, Next
  PROVE  TypeOK'
<1>1. TablesTyped /\ LineTyped /\ symbol_table \in 0 .. MaxDepth
  BY TypeParts
<1>2. SUFFICES TablesTyped' /\ LineTyped' /\ symbol_table' \in 0 .. MaxDepth
  BY DEF TypeOK, OrNone, TablesTyped, LineTyped, Entry, Code
<1>3. MaxDepth \in Nat /\ MaxDecls \in Nat \ {0}
  BY BoundsAssumption
<1>4. ASSUME pc # "read"
      PROVE  /\ D \in Decl /\ D.name \in Symbol /\ (D.name # Anon => D.name \in Name /\ D.sig \in Sig)
             /\ D.kind = "extern" => D.name \in Name /\ D.sig \in Sig
             /\ D.kind = "function" /\ D.body.does = "call" => D.body.name \in Name /\ D.body.sig \in Sig
  BY <1>4, LineTyping, DeclTyping
<1>5. CASE Read
  <2>1. UNCHANGED <<prototype_table, function_protos, module, dylib, call, failed, redeclared>>
    BY <1>5 DEF Read
  <2>2. PICK n \in 1 .. MaxDecls : ast' \in [1 .. n -> Decl]
    BY <1>5 DEF Read
  <2>3. ast' \in Seq(Decl) /\ Len(ast') = n
    BY <1>3, <2>2
  <2>4. symbol_table' \in 0 .. MaxDepth /\ k' = 1 /\ pc' = "check"
    BY <1>1, <1>3, <1>5 DEF Read
  <2>5. TablesTyped'
    BY <1>1, <2>1 DEF TablesTyped
  <2>6. Len(ast') <= MaxDecls /\ k' \in 1 .. MaxDecls
    BY <1>3, <2>3, <2>4
  <2>7. LineTyped'
    BY <1>1, <2>1, <2>3, <2>4, <2>6 DEF LineTyped
  <2> QED BY <2>4, <2>5, <2>7
<1>6. ASSUME pc = "check" PROVE Declared \in [Name -> Sig \cup {None}]
  BY <1>1, <1>4, <1>6 DEF Declared, TablesTyped
<1>7. CASE Check
  <2>1. /\ pc = "check" /\ prototype_table' = Declared /\ NextDecl("check", "generate")
        /\ symbol_table' = IF k = Len(ast) THEN symbol_table - 1 ELSE symbol_table
        /\ UNCHANGED <<function_protos, module, dylib, call, redeclared>>
    BY <1>7 DEF Check
  <2>2. LineTyped'
    BY <2>1, NextDeclEffect DEF LineTyped
  <2>3. symbol_table' \in 0 .. MaxDepth
    BY <1>1, <1>3, <2>1 DEF Staged
  <2> QED BY <1>1, <1>6, <2>1, <2>2, <2>3 DEF TablesTyped
<1>8. CASE Check_error
  <2>1. /\ pc = "check" /\ prototype_table' = Declared /\ Fail("tables")
        /\ \E open \in 0 .. 1 : symbol_table' = symbol_table + 1 + open
        /\ UNCHANGED <<function_protos, module, dylib, call, redeclared>>
    BY <1>8 DEF Check_error
  <2>2. LineTyped'
    BY <2>1, FailEffect DEF LineTyped
  <2>3. symbol_table' \in 0 .. MaxDepth
    BY <1>1, <1>3, <2>1 DEF Staged
  <2> QED BY <1>1, <1>6, <2>1, <2>2, <2>3 DEF TablesTyped
<1>9. CASE Generate_extern
  <2>1. /\ pc = "generate" /\ D.kind = "extern" /\ module' = [module EXCEPT ![D.name] = Declaration(D.sig)]
        /\ function_protos' = [function_protos EXCEPT ![D.name] = D.sig]
        /\ redeclared' = redeclared \cup OverCode(D.name, D.sig)
        /\ NextDecl("generate", "read")
        /\ UNCHANGED <<prototype_table, symbol_table, dylib, call>>
    BY <1>9 DEF Generate_extern
  <2>2. LineTyped'
    BY <2>1, NextDeclEffect DEF LineTyped
  <2>3. Declaration(D.sig) \in Entry /\ D.name \in Symbol
    BY <1>4, <2>1 DEF Declaration, Entry
  <2>4. module' \in [Symbol -> Entry \cup {None}]
    BY <1>1, <2>1, <2>3 DEF TablesTyped
  <2>5. function_protos' \in [Name -> Sig \cup {None}]
    BY <1>1, <1>4, <2>1 DEF TablesTyped
  <2>6. redeclared' \subseteq {"extern over code", "function over extern"}
    BY <1>1, <2>1 DEF TablesTyped, OverCode
  <2> QED BY <1>1, <2>1, <2>2, <2>4, <2>5, <2>6 DEF TablesTyped
<1>10. CASE Generate_extern_error
  <2>1. /\ pc = "generate" /\ Fail("tables") /\ UNCHANGED <<tables, module, dylib, call, redeclared>>
    BY <1>10 DEF Generate_extern_error
  <2>2. LineTyped'
    BY <2>1, FailEffect DEF LineTyped
  <2> QED BY <1>1, <2>1, <2>2 DEF TablesTyped, tables
<1>11. CASE Generate_function
  <2>1. /\ pc = "generate" /\ D.kind = "function" /\ Generable /\ function_protos' = Protos
        /\ redeclared' = redeclared \cup OverExtern(D.name, D.sig)
        /\ pc' = "compile"
        /\ UNCHANGED <<prototype_table, symbol_table, dylib, ast, k, failed>>
    BY <1>11 DEF Generate_function, Fresh
  <2> DEFINE calls == IF D.body.does = "call" THEN {D.body.name} ELSE {}
  <2>2. /\ module' = [WithCallee EXCEPT ![D.name].calls = calls]
        /\ call' = IF calls = {} THEN None ELSE [args |-> D.body.sig, callee |-> Callee.sig]
    BY <1>11 DEF Generate_function
  <2>3. calls \in SUBSET Name /\ D.name \in Symbol
    BY <1>4, <2>1
  <2>4. WithCallee \in [Symbol -> Entry \cup {None}] /\ WithCallee[D.name] = Begun[D.name] /\ Begun[D.name] \in Entry
    BY <2>1, <2>3, GenerateTyping
  <2>5. [WithCallee[D.name] EXCEPT !.calls = calls] \in Entry
    <3> HIDE DEF calls
    <3> QED BY <2>3, <2>4 DEF Entry
  <2>6. module' \in [Symbol -> Entry \cup {None}]
    <3>1. module' = [WithCallee EXCEPT ![D.name] = [WithCallee[D.name] EXCEPT !.calls = calls]]
      BY <2>2
    <3> HIDE DEF calls
    <3> QED BY <2>4, <2>5, <3>1
  <2>7. call' \in [args : Sig, callee : Sig \cup {None}] \cup {None}
    <3>1. CASE calls = {}
      BY <2>2, <3>1
    <3>2. CASE D.body.does = "call"
      <4>1. Callee # None /\ D.body.sig \in Sig
        BY <1>4, <2>1, <3>2 DEF Generable
      <4>2. Callee \in Entry
        BY <2>1, <3>2, <4>1, GenerateTyping
      <4>3. Callee.sig \in Sig \cup {None}
        BY <4>2 DEF Entry
      <4> QED BY <2>2, <3>2, <4>1, <4>3
    <3> QED BY <3>1, <3>2
  <2>8. Protos \in [Name -> Sig \cup {None}]
    BY <2>1, GenerateTyping
  <2>9. redeclared' \subseteq {"extern over code", "function over extern"}
    BY <1>1, <2>1 DEF TablesTyped, OverExtern
  <2>10. TablesTyped'
    BY <1>1, <2>1, <2>6, <2>7, <2>8, <2>9 DEF TablesTyped
  <2> QED BY <1>1, <2>1, <2>10 DEF LineTyped
<1>12. CASE Generate_body_error
  <2>1. /\ pc = "generate" /\ D.kind = "function" /\ function_protos' = Protos
        /\ module' = [WithCallee EXCEPT ![D.name] = None] /\ Fail("code")
        /\ UNCHANGED <<prototype_table, symbol_table, dylib, call, redeclared>>
    BY <1>12 DEF Generate_body_error, Fresh
  <2>2. LineTyped'
    BY <2>1, FailEffect DEF LineTyped
  <2>3. WithCallee \in [Symbol -> Entry \cup {None}] /\ Protos \in [Name -> Sig \cup {None}]
    BY <2>1, GenerateTyping
  <2>4. module' \in [Symbol -> Entry \cup {None}]
    BY <2>1, <2>3
  <2> QED BY <1>1, <2>1, <2>2, <2>3, <2>4 DEF TablesTyped
<1>13. CASE Generate_arity_error
  <2>1. /\ pc = "generate" /\ D.kind = "function" /\ function_protos' = Protos
        /\ module' = [module EXCEPT ![D.name].body = "broken"] /\ Fail("arity")
        /\ UNCHANGED <<prototype_table, symbol_table, dylib, call, redeclared>>
    BY <1>13 DEF Generate_arity_error, Fresh
  <2>2. LineTyped'
    BY <2>1, FailEffect DEF LineTyped
  <2>3. Protos \in [Name -> Sig \cup {None}] /\ D.name \in Symbol
    BY <1>4, <2>1, GenerateTyping
  <2>4. module[D.name] # None
    <3>1. SUFFICES ASSUME module[D.name] = None PROVE ArityOk
      BY <1>13 DEF Generate_arity_error
    <3> QED BY <3>1 DEF ArityOk, Fn, Declaration
  <2>5. module[D.name] \in Entry
    BY <1>1, <2>3, <2>4 DEF TablesTyped
  <2>6. [module[D.name] EXCEPT !.body = "broken"] \in Entry
    BY <2>5 DEF Entry
  <2>7. module' \in [Symbol -> Entry \cup {None}]
    BY <1>1, <2>1, <2>3, <2>6 DEF TablesTyped
  <2> QED BY <1>1, <2>1, <2>2, <2>3, <2>7 DEF TablesTyped
<1>14. CASE Generate_redefinition_error
  <2>1. /\ pc = "generate" /\ D.kind = "function" /\ function_protos' = Protos /\ Fail("arity")
        /\ UNCHANGED <<prototype_table, symbol_table, module, dylib, call, redeclared>>
    BY <1>14 DEF Generate_redefinition_error
  <2>2. LineTyped'
    BY <2>1, FailEffect DEF LineTyped
  <2>3. Protos \in [Name -> Sig \cup {None}]
    BY <2>1, GenerateTyping
  <2> QED BY <1>1, <2>1, <2>2, <2>3 DEF TablesTyped
<1>15. EmptyModule \in [Symbol -> Entry \cup {None}] /\ None \in [args : Sig, callee : Sig \cup {None}] \cup {None}
  BY DEF EmptyModule
<1>16. CASE Compile
  <2>1. /\ pc = "compile" /\ module' = EmptyModule /\ call' = None /\ UNCHANGED <<tables, redeclared>>
        /\ dylib' = [n \in Symbol |->
                       IF n \notin Defined THEN dylib[n]
                       ELSE [sig |-> module[n].sig, calls |-> module[n].calls,
                             state |-> IF Broken THEN "broken" ELSE "added"]]
    BY <1>16 DEF Compile
  <2>2. LineTyped'
    <3>1. CASE pc' = "run" /\ UNCHANGED <<ast, k, failed>>
      BY <1>1, <3>1 DEF LineTyped
    <3>2. CASE NextDecl("generate", "read")
      BY <2>1, <3>2, NextDeclEffect DEF LineTyped
    <3> QED BY <1>16, <3>1, <3>2 DEF Compile
  <2>3. ASSUME NEW n \in Symbol
        PROVE  (IF n \notin Defined THEN dylib[n]
                ELSE [sig |-> module[n].sig, calls |-> module[n].calls,
                      state |-> IF Broken THEN "broken" ELSE "added"]) \in Code \cup {None}
    <3>1. CASE n \notin Defined
      BY <1>1, <3>1 DEF TablesTyped
    <3>2. CASE n \in Defined
      <4>1. module[n] \in Entry
        BY <1>1, <3>2 DEF TablesTyped, Defined
      <4> QED BY <3>2, <4>1 DEF Entry, Code
    <3> QED BY <3>1, <3>2
  <2>4. dylib' \in [Symbol -> Code \cup {None}]
    BY <2>1, <2>3
  <2> QED BY <1>1, <1>15, <2>1, <2>2, <2>4 DEF TablesTyped, tables
<1>17. CASE Compile_error
  <2>1. /\ pc = "compile" /\ module' = EmptyModule /\ call' = None /\ Fail("code")
        /\ UNCHANGED <<tables, dylib, redeclared>>
    BY <1>17 DEF Compile_error
  <2>2. LineTyped'
    BY <2>1, FailEffect DEF LineTyped
  <2> QED BY <1>1, <1>15, <2>1, <2>2 DEF TablesTyped, tables
<1>18. CASE Run
  <2>1. /\ pc = "run" /\ NextDecl("generate", "read") /\ UNCHANGED <<tables, module, call, redeclared>>
        /\ dylib' = [n \in Symbol |->
                       IF n = Anon THEN None
                       ELSE IF n \in Links(Anon) /\ dylib[n] = None
                            THEN [sig |-> None, calls |-> {}, state |-> "added"]
                            ELSE dylib[n]]
    BY <1>18 DEF Run
  <2>2. LineTyped'
    BY <2>1, NextDeclEffect DEF LineTyped
  <2>3. [sig |-> None, calls |-> {}, state |-> "added"] \in Code
    BY DEF Code
  <2>4. dylib' \in [Symbol -> Code \cup {None}]
    BY <1>1, <2>1, <2>3 DEF TablesTyped
  <2> QED BY <1>1, <2>1, <2>2, <2>4 DEF TablesTyped, tables
<1>19. CASE Run_error
  <2>1. /\ pc = "run" /\ Fail("link") /\ UNCHANGED <<tables, module, call, redeclared>>
        /\ dylib' = [n \in Symbol |->
                       IF n \in Links(Anon) /\ dylib[n] # None /\ Unlinkable(n)
                       THEN [dylib[n] EXCEPT !.state = "failed"] ELSE dylib[n]]
    BY <1>19 DEF Run_error
  <2>2. LineTyped'
    BY <2>1, FailEffect DEF LineTyped
  <2>3. \A n \in Symbol : dylib[n] # None => [dylib[n] EXCEPT !.state = "failed"] \in Code
    BY <1>1 DEF TablesTyped, Code
  <2>4. dylib' \in [Symbol -> Code \cup {None}]
    BY <1>1, <2>1, <2>3 DEF TablesTyped
  <2> QED BY <1>1, <2>1, <2>2, <2>4 DEF TablesTyped, tables
<1>20. CASE Run_broken
  <2>1. pc' = "undefined" /\ UNCHANGED <<tables, module, dylib, ast, k, call, failed, redeclared>>
    BY <1>20 DEF Run_broken
  <2> QED BY <1>1, <2>1 DEF TablesTyped, LineTyped, tables
<1> QED BY <1>5, <1>7, <1>8, <1>9, <1>10, <1>11, <1>12, <1>13, <1>14, <1>16, <1>17, <1>18, <1>19, <1>20
        DEF Next

\* The stages go through the line one declaration at a time, and the function whose module
\* is compiled is in the generator's table.
LEMMA NextStaged ==
  ASSUME TypeOK, Staged, Next
  PROVE  Staged'
<1>1. LineTyped /\ symbol_table \in 0 .. MaxDepth /\ MaxDepth \in Nat
  BY TypeParts, BoundsAssumption
<1>2. ASSUME pc # "read"
      PROVE  Len(ast) \in Nat /\ k \in Nat /\ 1 <= k /\ k <= Len(ast) /\ D \in Decl
  BY <1>2, LineTyping
<1>3. ASSUME pc' = "read" PROVE Staged'
  BY <1>3 DEF Staged
<1>4. ASSUME pc # "read", NextDecl("generate", "read") PROVE Staged'
  <2>1. pc' = "read" \/ (pc' = "generate" /\ k' \in 1 .. Len(ast) /\ ast' = ast)
    BY <1>4, NextDeclEffect
  <2> QED BY <1>3, <2>1 DEF Staged
<1>5. ASSUME NEW kind, Fail(kind) PROVE Staged'
  BY <1>3, <1>5 DEF Fail
<1>6. CASE Read
  <2>1. pc' = "check" /\ k' = 1 /\ symbol_table' = symbol_table + 1 /\ symbol_table + 3 <= MaxDepth
    BY <1>6 DEF Read
  <2>2. PICK n \in 1 .. MaxDecls : ast' \in [1 .. n -> Decl]
    BY <1>6 DEF Read
  <2>3. Len(ast') = n /\ n \in Nat /\ 1 <= n
    BY <2>2, BoundsAssumption
  <2>4. k' \in 1 .. Len(ast')
    BY <2>1, <2>3
  <2>5. 1 <= symbol_table' /\ symbol_table' + 2 <= MaxDepth
    BY <1>1, <2>1
  <2> QED BY <2>1, <2>4, <2>5 DEF Staged
<1>7. CASE Check
  <2>1. /\ pc = "check" /\ NextDecl("check", "generate")
        /\ symbol_table' = IF k = Len(ast) THEN symbol_table - 1 ELSE symbol_table
    BY <1>7 DEF Check
  <2>2. CASE k < Len(ast) /\ pc' = "check" /\ k' = k + 1 /\ ast' = ast /\ k' \in 1 .. Len(ast)
    <3>1. symbol_table' = symbol_table
      BY <1>2, <2>1, <2>2
    <3> QED BY <2>1, <2>2, <3>1 DEF Staged
  <2>3. CASE k = Len(ast) /\ pc' = "generate" /\ k' = 1 /\ ast' = ast
    <3>1. k' \in 1 .. Len(ast')
      BY <1>2, <2>1, <2>3
    <3> QED BY <2>3, <3>1 DEF Staged
  <2> QED BY <2>1, <2>2, <2>3, NextDeclEffect
<1>8. CASE Generate_function
  <2>1. /\ pc = "generate" /\ D.kind = "function" /\ function_protos' = Protos
        /\ pc' = "compile" /\ UNCHANGED <<ast, k>>
    BY <1>8 DEF Generate_function, Fresh
  <2>2. D' = D /\ k' \in 1 .. Len(ast')
    BY <1>2, <2>1 DEF D
  <2>3. D.name # Anon => Protos[D.name] = D.sig
    BY <1>2, <2>1, DeclTyping, GenerateTyping
  <2>4. D.name \in Symbol /\ module'[D.name] # None /\ module'[D.name].body = "code"
    BY <1>2, <1>8, <2>1, FunctionModule, DeclTyping, NoneIsNothing
  <2>5. D.name' \in Defined'
    BY <2>2, <2>4 DEF Defined
  <2> QED BY <2>1, <2>2, <2>3, <2>5 DEF Staged
<1>9. CASE Compile
  <2>1. pc = "compile" /\ UNCHANGED tables
    BY <1>9 DEF Compile
  <2>2. CASE D.name = Anon
    <3>1. pc' = "run" /\ UNCHANGED <<ast, k, failed>>
      BY <1>9, <2>2 DEF Compile
    <3>2. D' = D /\ k' \in 1 .. Len(ast')
      BY <1>2, <2>1, <3>1 DEF D
    <3> QED BY <2>2, <3>1, <3>2 DEF Staged
  <2>3. CASE D.name # Anon
    BY <1>4, <1>9, <2>1, <2>3 DEF Compile
  <2> QED BY <2>2, <2>3
<1>10. CASE Run_broken
  <2>1. pc = "run" /\ pc' = "undefined" /\ UNCHANGED <<ast, k>>
    BY <1>10 DEF Run_broken
  <2> QED BY <1>2, <2>1 DEF Staged
<1>11. CASE Generate_extern \/ Run
  BY <1>4, <1>11 DEF Generate_extern, Run
<1>12. CASE \/ Check_error \/ Generate_extern_error \/ Generate_body_error \/ Generate_arity_error
            \/ Generate_redefinition_error \/ Compile_error \/ Run_error
  BY <1>5, <1>12 DEF Check_error, Generate_extern_error, Generate_body_error, Generate_arity_error,
                     Generate_redefinition_error, Compile_error, Run_error
<1> QED BY <1>6, <1>7, <1>8, <1>9, <1>10, <1>11, <1>12 DEF Next

-------------------------------------------------------------------------------
(* The two tables.                                                          *)

\* Once the generator's table has the declaration, the others are still as the checker
\* saw them, and so they are from the next on.
LEMMA TrackedGenerated ==
  ASSUME TypeOK, Staged, Tracked, Settled, pc \in {"generate", "compile", "run"},
         NEW protos,
         \A n \in Name : protos[n] = IF D.name = n THEN D.sig ELSE function_protos[n]
  PROVE  /\ \A n \in Name : /\ Sees(ast, protos, k, Len(ast), n, prototype_table[n])
                            /\ Sees(ast, protos, k + 1, Len(ast), n, prototype_table[n])
         /\ \A j \in k .. Len(ast) : CallSeen(ast, protos, k, j)
         /\ \A j \in k + 1 .. Len(ast) : CallSeen(ast, protos, k + 1, j)
<1>1. /\ Len(ast) \in Nat /\ k \in Nat /\ 1 <= k /\ k <= Len(ast)
      /\ \A j \in 1 .. Len(ast) : ast[j] \in Decl
  BY LineTyping
<1>2. /\ \A n \in Name : Sees(ast, function_protos, k, Len(ast), n, prototype_table[n])
      /\ \A j \in k .. Len(ast) : CallSeen(ast, function_protos, k, j)
  BY DEF Tracked
<1>3. ASSUME NEW n \in Name, NEW s, NEW b \in k .. Len(ast), Sees(ast, function_protos, k, b, n, s)
      PROVE  Sees(ast, protos, k, b, n, s) /\ Sees(ast, protos, k + 1, b, n, s)
  <2>1. protos[n] = IF ast[k].name = n THEN ast[k].sig ELSE function_protos[n]
    BY DEF D
  <2> QED BY <1>1, <1>3, <2>1, SeesGenerated
<1>4. ASSUME NEW j \in k .. Len(ast)
      PROVE  CallSeen(ast, protos, k, j) /\ CallSeen(ast, protos, k + 1, j)
  <2>1. ast[j] \in Decl
    BY <1>1
  <2>2. ast[j].kind = "function" /\ ast[j].body.does = "call" => ast[j].body.name \in Name
    BY <2>1, DeclTyping
  <2> QED BY <1>2, <1>3, <2>2 DEF CallSeen
<1>5. Len(ast) \in k .. Len(ast) /\ \A j \in k + 1 .. Len(ast) : j \in k .. Len(ast)
  BY <1>1
<1> QED BY <1>2, <1>3, <1>4, <1>5

LEMMA TrackedNext ==
  ASSUME TypeOK, TypeOK', Staged, Tracked, Settled, pc \in {"generate", "compile", "run"},
         \A n \in Name : function_protos'[n] = IF D.name = n THEN D.sig ELSE function_protos[n],
         UNCHANGED <<prototype_table, symbol_table>>,
         \/ k < Len(ast) /\ pc' = "generate" /\ k' = k + 1 /\ ast' = ast
         \/ k = Len(ast) /\ pc' = "read"
  PROVE  Tracked'
<1>1. /\ \A n \in Name : Sees(ast, function_protos', k + 1, Len(ast), n, prototype_table[n])
      /\ \A j \in k + 1 .. Len(ast) : CallSeen(ast, function_protos', k + 1, j)
  BY TrackedGenerated
<1>2. symbol_table = 0
  BY DEF Tracked
<1>3. CASE k < Len(ast) /\ pc' = "generate" /\ k' = k + 1 /\ ast' = ast
  BY <1>1, <1>2, <1>3 DEF Tracked
<1>4. CASE k = Len(ast) /\ pc' = "read"
  <2>1. \A i \in k + 1 .. Len(ast) : FALSE
    BY <1>4, LineTyping
  <2>2. \A n \in Name : prototype_table[n] = function_protos'[n]
    BY <1>1, <2>1 DEF Sees
  <2>3. prototype_table' = function_protos'
    <3>1. /\ prototype_table \in [Name -> Sig \cup {None}]
          /\ function_protos' \in [Name -> Sig \cup {None}]
      BY DEF TypeOK, OrNone
    <3> QED BY <2>2, <3>1
  <2> QED BY <1>2, <1>4, <2>3 DEF Tracked
<1> QED BY <1>3, <1>4

LEMMA NextTracked ==
  ASSUME TypeOK, TypeOK', Staged, Tracked, Next
  PROVE  Tracked'
<1>1. SUFFICES ASSUME Settled' PROVE Tracked'
  BY DEF Tracked
<1>2. ASSUME pc # "read"
      PROVE  /\ Len(ast) \in Nat /\ k \in Nat /\ 1 <= k /\ k <= Len(ast) /\ D \in Decl
             /\ \A j \in 1 .. Len(ast) : ast[j] \in Decl
  BY <1>2, LineTyping
<1>3. Anon \notin Name
  BY NameAssumption
<1>4. ASSUME NEW kind \in {"tables", "arity", "code", "link"}, Fail(kind), pc # "read"
      PROVE  Settled /\ k = Len(ast) /\ pc' = "read" /\ kind \notin Unsettling
  <2>1. failed \subseteq failed' /\ kind \in failed' /\ pc' = "read" /\ (k < Len(ast) => "tables" \in failed')
    BY <1>4, FailEffect
  <2>2. ~(k < Len(ast))
    BY <1>1, <2>1 DEF Settled, Unsettling
  <2>3. k = Len(ast)
    BY <1>2, <1>4, <2>2
  <2>4. Settled /\ kind \notin Unsettling
    BY <1>1, <2>1 DEF Settled
  <2> QED BY <2>1, <2>3, <2>4
<1>5. ASSUME NextDecl("generate", "read"), pc # "read"
      PROVE  /\ Settled
             /\ \/ k < Len(ast) /\ pc' = "generate" /\ k' = k + 1 /\ ast' = ast
                \/ k = Len(ast) /\ pc' = "read"
  BY <1>1, <1>5, NextDeclEffect DEF Settled
<1>6. ASSUME pc \in {"compile", "run"}
      PROVE  \A n \in Name : function_protos[n] = IF D.name = n THEN D.sig ELSE function_protos[n]
  BY <1>3, <1>6 DEF Staged
<1>7. ASSUME pc = "generate", D.kind = "function"
      PROVE  \A n \in Name : Protos[n] = IF D.name = n THEN D.sig ELSE function_protos[n]
  BY <1>7, GenerateTyping
<1>8. CASE Read
  <2>1. /\ pc = "read" /\ pc' = "check" /\ k' = 1 /\ symbol_table' = symbol_table + 1
        /\ UNCHANGED <<prototype_table, function_protos, failed>>
    BY <1>8 DEF Read
  <2>2. symbol_table = 0 /\ prototype_table = function_protos
    BY <1>1, <2>1 DEF Tracked, Settled
  <2>3. \A i \in 1 .. k' - 1 : FALSE
    BY <2>1
  <2>4. \A n \in Name : Sees(ast', function_protos', 1, k' - 1, n, prototype_table'[n])
    BY <2>1, <2>2, <2>3 DEF Sees
  <2> QED BY <2>1, <2>2, <2>3, <2>4 DEF Tracked
<1>9. CASE Check
  <2>1. /\ pc = "check" /\ WellTyped /\ prototype_table' = Declared /\ NextDecl("check", "generate")
        /\ symbol_table' = IF k = Len(ast) THEN symbol_table - 1 ELSE symbol_table
        /\ UNCHANGED function_protos
    BY <1>9 DEF Check
  <2>2. /\ failed' = failed
        /\ \/ k < Len(ast) /\ pc' = "check" /\ k' = k + 1 /\ ast' = ast
           \/ k = Len(ast) /\ pc' = "generate" /\ k' = 1 /\ ast' = ast
    BY <2>1, NextDeclEffect
  <2>3. /\ symbol_table = 1 /\ \A n \in Name : Sees(ast, function_protos, 1, k - 1, n, prototype_table[n])
        /\ \A j \in 1 .. k - 1 : CallSeen(ast, function_protos, 1, j)
    BY <1>1, <2>1, <2>2 DEF Tracked, Settled
  <2>4. \A n \in Name : Declared[n] = IF ast[k].name = n THEN ast[k].sig ELSE prototype_table[n]
    <3>1. prototype_table \in [Name -> Sig \cup {None}]
      BY DEF TypeOK, OrNone
    <3>2. D.name # Anon => D.name \in Name
      BY <1>2, <2>1, DeclTyping
    <3> QED BY <1>3, <3>1, <3>2 DEF Declared, D
  <2>5. \A n \in Name : Sees(ast, function_protos, 1, k, n, Declared[n])
    <3> SUFFICES ASSUME NEW n \in Name
                 PROVE  Sees(ast, function_protos, 1, k, n, Declared[n])
      OBVIOUS
    <3>1. ast[k].name # n => Sees(ast, function_protos, 1, k - 1, n, Declared[n])
      BY <2>3, <2>4
    <3>2. ast[k].name = n => Declared[n] = ast[k].sig
      BY <2>4
    <3>3. k \in Int /\ 1 <= k
      BY <1>2, <2>1
    <3> QED BY <3>1, <3>2, <3>3, SeesNext
  <2>6. CallSeen(ast, function_protos, 1, k)
    <3> SUFFICES ASSUME D.kind = "function", D.body.does = "call"
                 PROVE  Sees(ast, function_protos, 1, k, D.body.name, D.body.sig)
      BY DEF CallSeen, D
    <3>1. Declared[D.body.name] = D.body.sig
      BY <2>1 DEF WellTyped
    <3>2. D.body.name \in Name
      BY <1>2, <2>1, DeclTyping
    <3> QED BY <2>5, <3>1, <3>2
  <2>7. \A j \in 1 .. k : CallSeen(ast, function_protos, 1, j)
    <3>1. \A j \in 1 .. k : j \in 1 .. k - 1 \/ j = k
      BY <1>2, <2>1
    <3> QED BY <2>3, <2>6, <3>1
  <2>8. CASE k < Len(ast) /\ pc' = "check" /\ k' = k + 1 /\ ast' = ast
    <3>1. k' - 1 = k /\ symbol_table' = 1
      BY <1>2, <2>1, <2>3, <2>8
    <3> QED BY <2>1, <2>5, <2>7, <2>8, <3>1 DEF Tracked
  <2>9. CASE k = Len(ast) /\ pc' = "generate" /\ k' = 1 /\ ast' = ast
    <3>1. symbol_table' = 0
      BY <2>1, <2>3, <2>9
    <3> QED BY <2>1, <2>5, <2>7, <2>9, <3>1 DEF Tracked
  <2> QED BY <2>2, <2>8, <2>9
<1>10. CASE Generate_extern
  <2>1. /\ pc = "generate" /\ D.kind = "extern" /\ NextDecl("generate", "read")
        /\ function_protos' = [function_protos EXCEPT ![D.name] = D.sig]
        /\ UNCHANGED <<prototype_table, symbol_table>>
    BY <1>10 DEF Generate_extern
  <2>2. function_protos \in [Name -> Sig \cup {None}]
    BY DEF TypeOK, OrNone
  <2>3. \A n \in Name : function_protos'[n] = IF D.name = n THEN D.sig ELSE function_protos[n]
    BY <2>1, <2>2
  <2> QED BY <1>5, <2>1, <2>3, TrackedNext
<1>11. CASE Generate_function
  <2>1. /\ pc = "generate" /\ D.kind = "function" /\ function_protos' = Protos /\ pc' = "compile"
        /\ UNCHANGED <<prototype_table, symbol_table, ast, k, failed>>
    BY <1>11 DEF Generate_function, Fresh
  <2>2. Settled
    BY <1>1, <2>1 DEF Settled
  <2>3. /\ \A n \in Name : Sees(ast, Protos, k, Len(ast), n, prototype_table[n])
        /\ \A j \in k .. Len(ast) : CallSeen(ast, Protos, k, j)
    BY <1>7, <2>1, <2>2, TrackedGenerated
  <2>4. symbol_table = 0
    BY <2>1, <2>2 DEF Tracked
  <2> QED BY <2>1, <2>3, <2>4 DEF Tracked
<1>12. CASE Generate_body_error
  <2>1. /\ pc = "generate" /\ D.kind = "function" /\ function_protos' = Protos /\ Fail("code")
        /\ UNCHANGED <<prototype_table, symbol_table>>
    BY <1>12 DEF Generate_body_error, Fresh
  <2>2. Settled /\ k = Len(ast) /\ pc' = "read"
    BY <1>4, <2>1
  <2> QED BY <1>7, <2>1, <2>2, TrackedNext
<1>13. CASE Compile
  <2>1. pc = "compile" /\ UNCHANGED <<prototype_table, symbol_table, function_protos>>
    BY <1>13 DEF Compile, tables
  <2>2. CASE pc' = "run" /\ UNCHANGED <<ast, k, failed>>
    <3>1. Settled
      BY <1>1, <2>2 DEF Settled
    <3> QED BY <2>1, <2>2, <3>1 DEF Tracked
  <2>3. CASE NextDecl("generate", "read")
    BY <1>5, <1>6, <2>1, <2>3, TrackedNext
  <2> QED BY <1>13, <2>2, <2>3 DEF Compile
<1>14. CASE Compile_error
  <2>1. /\ pc = "compile" /\ UNCHANGED <<prototype_table, symbol_table, function_protos>>
        /\ Fail("code")
    BY <1>14 DEF Compile_error, tables
  <2> QED BY <1>4, <1>6, <2>1, TrackedNext
<1>15. CASE Run
  <2>1. /\ pc = "run" /\ UNCHANGED <<prototype_table, symbol_table, function_protos>>
        /\ NextDecl("generate", "read")
    BY <1>15 DEF Run, tables
  <2> QED BY <1>5, <1>6, <2>1, TrackedNext
<1>16. CASE Run_error
  <2>1. /\ pc = "run" /\ UNCHANGED <<prototype_table, symbol_table, function_protos>>
        /\ Fail("link")
    BY <1>16 DEF Run_error, tables
  <2> QED BY <1>4, <1>6, <2>1, TrackedNext
<1>17. CASE Run_broken
  BY <1>17 DEF Run_broken, Tracked
<1>18. CASE \/ Check_error \/ Generate_extern_error \/ Generate_arity_error
            \/ Generate_redefinition_error
  BY <1>4, <1>18 DEF Check_error, Generate_extern_error, Generate_arity_error,
                     Generate_redefinition_error, Unsettling
<1> QED BY <1>8, <1>9, <1>10, <1>11, <1>12, <1>13, <1>14, <1>15, <1>16, <1>17, <1>18 DEF Next

-------------------------------------------------------------------------------
(* The module and the JIT.                                                  *)

\* What went wrong, and what was declared twice, is not forgotten.
LEMMA HistoryGrows ==
  ASSUME TypeOK, Staged, Next
  PROVE  failed \subseteq failed' /\ redeclared \subseteq redeclared'
<1>1. ASSUME NEW kind, Fail(kind) PROVE failed \subseteq failed'
  BY <1>1 DEF Fail
<1>2. ASSUME NEW s, NEW s2, NextDecl(s, s2) PROVE failed \subseteq failed'
  BY <1>2 DEF NextDecl
<1>3. CASE Read \/ Check \/ Check_error
  BY <1>1, <1>2, <1>3 DEF Read, Check, Check_error
<1>4. CASE Generate_extern \/ Generate_extern_error \/ Generate_function
  BY <1>1, <1>2, <1>4 DEF Generate_extern, Generate_extern_error, Generate_function
<1>5. CASE Generate_body_error \/ Generate_arity_error \/ Generate_redefinition_error
  BY <1>1, <1>5 DEF Generate_body_error, Generate_arity_error, Generate_redefinition_error
<1>6. CASE Compile \/ Compile_error \/ Run \/ Run_error \/ Run_broken
  BY <1>1, <1>2, <1>6 DEF Compile, Compile_error, Run, Run_error, Run_broken
<1> QED BY <1>3, <1>4, <1>5, <1>6 DEF Next

\* When its body fails the function is gone, and what it calls has stayed.
LEMMA DeletedModule ==
  ASSUME TypeOK, Staged, Generate_body_error
  PROVE  /\ module'[D.name] = None
         /\ \A n \in Symbol : n # D.name =>
              \/ module'[n] = module[n]
              \/ /\ module[n] = None /\ n \in Name /\ Protos[n] # None
                 /\ module'[n] = Declaration(Protos[n])
<1>1. pc # "read" /\ D.kind = "function" /\ D \in Decl
  BY LineTyping DEF Generate_body_error, Fresh
<1>2. module' = [WithCallee EXCEPT ![D.name] = None]
  BY DEF Generate_body_error
<1>3. D.name \in Symbol /\ (D.body.does = "call" => D.body.name \in Name)
  BY <1>1, DeclTyping
<1>4. /\ WithCallee \in [Symbol -> Entry \cup {None}]
      /\ \A n \in Symbol : n # D.name =>
           \/ WithCallee[n] = module[n]
           \/ /\ D.body.does = "call" /\ n = D.body.name /\ module[n] = None
              /\ WithCallee[n] = Declaration(Protos[n]) /\ Protos[n] # None
  BY <1>1, <1>3, GenerateTyping
<1>5. module'[D.name] = None /\ \A n \in Symbol : n # D.name => module'[n] = WithCallee[n]
  BY <1>2, <1>3, <1>4
<1> QED BY <1>3, <1>4, <1>5

\* Which steps touch the module, which the JIT, and which neither.
LEMMA Untouched ==
  ASSUME \/ Read \/ Check \/ Check_error \/ Generate_extern_error \/ Generate_redefinition_error
         \/ Run_broken
  PROVE  UNCHANGED <<module, dylib>>
BY DEF Read, Check, Check_error, Generate_extern_error, Generate_redefinition_error, Run_broken

LEMMA EmptyIsEmpty == \A n \in Symbol : EmptyModule[n] = None
BY DEF EmptyModule

LEMMA DeclarationIs ==
  ASSUME NEW s
  PROVE  Declaration(s).body = "none" /\ Declaration(s).sig = s /\ Declaration(s).calls = {}
BY DEF Declaration

\* What Compile leaves in the JIT, and what a run does.
LEMMA CompiledCode ==
  ASSUME TypeOK, Compile, NEW n \in Symbol
  PROVE  \/ dylib'[n] = dylib[n]
         \/ /\ n \in Defined /\ dylib[n] = None /\ dylib'[n] # None
            /\ dylib'[n].sig = module[n].sig
            /\ dylib'[n].state = IF Broken THEN "broken" ELSE "added"
<1>1. dylib'[n] = IF n \notin Defined THEN dylib[n]
                  ELSE [sig |-> module[n].sig, calls |-> module[n].calls,
                        state |-> IF Broken THEN "broken" ELSE "added"]
  BY DEF Compile
<1>2. n \in Defined => dylib[n] = None /\ module[n] \in Entry
  BY TypeParts DEF Compile, Duplicates, Defined, TablesTyped
<1>3. n \in Defined => [sig |-> module[n].sig, calls |-> module[n].calls,
                        state |-> IF Broken THEN "broken" ELSE "added"] # None
  BY <1>2, NoneIsNothing DEF Entry, Code
<1> QED BY <1>1, <1>2, <1>3

LEMMA RunCode ==
  ASSUME TypeOK, Run \/ Run_error, NEW n \in Symbol, dylib'[n] # None
  PROVE  /\ Run => n # Anon
         /\ \/ dylib'[n] = dylib[n]
            \/ dylib[n] = None /\ dylib'[n].sig = None /\ dylib'[n].state = "added" /\ Run
            \/ /\ dylib[n] # None /\ dylib'[n].sig = dylib[n].sig /\ dylib'[n].state = "failed"
               /\ Run_error
<1>1. CASE Run
  BY <1>1 DEF Run
<1>2. CASE Run_error
  <2>1. dylib'[n] = IF n \in Links(Anon) /\ dylib[n] # None /\ Unlinkable(n)
                    THEN [dylib[n] EXCEPT !.state = "failed"] ELSE dylib[n]
    BY <1>2 DEF Run_error
  <2>2. dylib[n] # None => dylib[n] \in Code
    BY TypeParts DEF TablesTyped
  <2>3. dylib[n] # None => /\ [dylib[n] EXCEPT !.state = "failed"].sig = dylib[n].sig
                           /\ [dylib[n] EXCEPT !.state = "failed"].state = "failed"
    BY <2>2 DEF Code
  <2>4. ~Run
    BY <1>2 DEF Run_error, Run, Linkable
  <2> QED BY <1>2, <2>1, <2>3, <2>4
<1> QED BY <1>1, <1>2

LEMMA NextOneBody ==
  ASSUME TypeOK, Staged, OneBody, Next
  PROVE  OneBody' /\ WellFormedCode'
<1>1. failed \subseteq failed'
  BY HistoryGrows
<1>2. SUFFICES ASSUME "arity" \notin failed'
               PROVE  /\ \A n \in Symbol : module'[n] # None =>
                           \/ module'[n].body = "none"
                           \/ pc' = "compile" /\ n = D.name' /\ module'[n].body = "code"
                      /\ \A n \in Symbol : dylib'[n] # None => dylib'[n].state # "broken"
                      /\ pc' # "undefined"
  BY DEF OneBody, WellFormedCode
<1>3. /\ \A n \in Symbol : module[n] # None =>
           \/ module[n].body = "none"
           \/ pc = "compile" /\ n = D.name /\ module[n].body = "code"
      /\ \A n \in Symbol : dylib[n] # None => dylib[n].state # "broken"
  BY <1>1, <1>2 DEF OneBody
<1>4. ASSUME NEW kind, Fail(kind) PROVE pc' # "undefined" /\ kind \in failed'
  BY <1>4 DEF Fail
<1>5. ASSUME NEW s, NEW s2, NextDecl(s, s2), s # "undefined", s2 # "undefined" PROVE pc' # "undefined"
  BY <1>5 DEF NextDecl
<1>6. CASE Read \/ Check \/ Check_error
  <2>1. UNCHANGED <<module, dylib>> /\ pc # "compile"
    BY <1>6, Untouched DEF Read, Check, Check_error
  <2>2. pc' # "undefined"
    BY <1>4, <1>5, <1>6 DEF Read, Check, Check_error
  <2> QED BY <1>3, <2>1, <2>2
<1>7. CASE Generate_extern_error
  <2>1. UNCHANGED <<module, dylib>> /\ pc # "compile" /\ pc' # "undefined"
    BY <1>4, <1>7, Untouched DEF Generate_extern_error
  <2> QED BY <1>3, <2>1
<1>8. CASE Generate_extern
  <2>1. /\ \A n \in Symbol : module'[n] = module[n] \/ module'[n] = Declaration(D.sig)
        /\ UNCHANGED dylib /\ pc' # "undefined" /\ pc # "compile"
    BY <1>5, <1>8, TypeParts DEF Generate_extern, TablesTyped
  <2> QED BY <1>3, <2>1, DeclarationIs
<1>9. CASE Generate_function
  <2>1. UNCHANGED <<dylib, ast, k>> /\ pc = "generate" /\ pc' = "compile" /\ D' = D
    BY <1>9 DEF Generate_function, D
  <2>2. module'[D.name].body = "code"
    BY <1>9, FunctionModule
  <2>3. \A n \in Symbol : n # D.name => module'[n] = module[n] \/ module'[n] = Declaration(Protos[n])
    BY <1>9, FunctionModule
  <2> QED BY <1>3, <2>1, <2>2, <2>3, DeclarationIs
<1>10. CASE Generate_body_error
  <2>1. UNCHANGED dylib /\ pc = "generate" /\ pc' # "undefined"
    BY <1>4, <1>10 DEF Generate_body_error
  <2>2. \A n \in Symbol : \/ module'[n] = module[n] \/ module'[n] = Declaration(Protos[n])
                          \/ module'[n] = None
    BY <1>10, DeletedModule
  <2> QED BY <1>3, <2>1, <2>2, DeclarationIs
<1>11. CASE Generate_arity_error \/ Generate_redefinition_error
  BY <1>2, <1>4, <1>11 DEF Generate_arity_error, Generate_redefinition_error
<1>12. CASE Compile
  <2>1. ~Broken
    BY <1>3 DEF Broken, Defined
  <2>2. \A n \in Symbol : module'[n] = None
    BY <1>12, EmptyIsEmpty DEF Compile
  <2>3. \A n \in Symbol : dylib'[n] # None => dylib'[n].state # "broken"
    BY <1>3, <1>12, <2>1, CompiledCode
  <2>4. pc' # "undefined"
    BY <1>5, <1>12 DEF Compile
  <2> QED BY <2>2, <2>3, <2>4
<1>13. CASE Compile_error
  BY <1>3, <1>4, <1>13, EmptyIsEmpty DEF Compile_error
<1>14. CASE Run \/ Run_error
  <2>1. UNCHANGED module /\ pc # "compile" /\ pc' # "undefined"
    BY <1>4, <1>5, <1>14 DEF Run, Run_error
  <2>2. \A n \in Symbol : dylib'[n] # None => dylib'[n].state # "broken"
    BY <1>3, <1>14, RunCode
  <2> QED BY <1>3, <2>1, <2>2
<1>15. ~Run_broken
  <2>1. Links(Anon) \subseteq Symbol
    BY DEF Links
  <2> QED BY <1>3, <2>1 DEF Run_broken
<1> QED BY <1>6, <1>7, <1>8, <1>9, <1>10, <1>11, <1>12, <1>13, <1>14, <1>15 DEF Next

LEMMA NextAnonPasses ==
  ASSUME TypeOK, Staged, AnonPasses, Next
  PROVE  AnonPasses'
<1>1. failed \subseteq failed' /\ Anon \in Symbol /\ Anon \notin Name
  BY HistoryGrows, NameAssumption DEF Symbol
<1>2. SUFFICES /\ module'[Anon] # None => pc' = "compile" /\ D.name' = Anon
               /\ "link" \notin failed' /\ dylib'[Anon] # None => pc' \in {"run", "undefined"}
  BY DEF AnonPasses
<1>3. /\ module[Anon] # None => pc = "compile" /\ D.name = Anon
      /\ "link" \notin failed' /\ dylib[Anon] # None => pc \in {"run", "undefined"}
  BY <1>1 DEF AnonPasses
<1>4. CASE Read \/ Check \/ Check_error \/ Generate_extern_error \/ Generate_redefinition_error
  <2>1. UNCHANGED <<module, dylib>> /\ pc \notin {"compile", "run", "undefined"}
    BY <1>4, Untouched DEF Read, Check, Check_error, Generate_extern_error, Generate_redefinition_error
  <2> QED BY <1>3, <2>1
<1>5. CASE Generate_extern
  <2>1. D.name # Anon /\ pc = "generate"
    BY <1>5, LineTyping, DeclTyping DEF Generate_extern
  <2>2. module'[Anon] = module[Anon] /\ UNCHANGED dylib
    BY <1>1, <1>5, <2>1, TypeParts DEF Generate_extern, TablesTyped
  <2> QED BY <1>3, <2>1, <2>2
<1>6. CASE Generate_function
  <2>1. UNCHANGED dylib /\ pc = "generate" /\ pc' = "compile" /\ D' = D
    BY <1>6 DEF Generate_function, D
  <2>2. D.name # Anon => module'[Anon] = module[Anon]
    BY <1>1, <1>6, FunctionModule
  <2> QED BY <1>3, <2>1, <2>2
<1>7. CASE Generate_body_error
  <2>1. UNCHANGED dylib /\ pc = "generate"
    BY <1>7 DEF Generate_body_error
  <2>2. module'[Anon] = None \/ module'[Anon] = module[Anon]
    BY <1>1, <1>7, DeletedModule
  <2> QED BY <1>3, <2>1, <2>2
<1>8. CASE Generate_arity_error
  <2>1. pc = "generate" /\ ~ArityOk /\ module' = [module EXCEPT ![D.name].body = "broken"] /\ UNCHANGED dylib
    BY <1>8 DEF Generate_arity_error
  <2>2. module[D.name] # None
    BY <2>1 DEF ArityOk, Fn, Declaration
  <2>3. module'[Anon] = module[Anon]
    BY <1>1, <1>3, <2>1, <2>2, TypeParts DEF TablesTyped
  <2> QED BY <1>3, <2>1, <2>3
<1>9. CASE Compile
  <2>1. module'[Anon] = None /\ pc = "compile"
    BY <1>1, <1>9, EmptyIsEmpty DEF Compile
  <2>2. D.name = Anon => pc' = "run"
    BY <1>9 DEF Compile
  <2>3. D.name # Anon => dylib'[Anon] = dylib[Anon]
    BY <1>1, <1>3, <1>9, CompiledCode DEF Defined
  <2> QED BY <1>3, <2>1, <2>2, <2>3
<1>10. CASE Compile_error
  <2>1. module'[Anon] = None /\ pc = "compile" /\ UNCHANGED dylib
    BY <1>1, <1>10, EmptyIsEmpty DEF Compile_error
  <2> QED BY <1>3, <2>1
<1>11. CASE Run
  <2>1. dylib'[Anon] = None /\ UNCHANGED module /\ pc = "run"
    BY <1>1, <1>11 DEF Run
  <2> QED BY <1>3, <2>1
<1>12. CASE Run_error
  <2>1. UNCHANGED module /\ "link" \in failed' /\ pc = "run"
    BY <1>12 DEF Run_error, Fail
  <2> QED BY <1>3, <2>1
<1>13. CASE Run_broken
  <2>1. UNCHANGED <<module, dylib>> /\ pc = "run" /\ pc' = "undefined"
    BY <1>13 DEF Run_broken
  <2> QED BY <1>3, <2>1
<1> QED BY <1>4, <1>5, <1>6, <1>7, <1>8, <1>9, <1>10, <1>11, <1>12, <1>13 DEF Next

LEMMA NextModuleAgrees ==
  ASSUME TypeOK, Staged, ModuleAgrees, Next
  PROVE  ModuleAgrees'
<1>1. failed \subseteq failed' /\ redeclared \subseteq redeclared'
  BY HistoryGrows
<1>2. SUFFICES ASSUME "arity" \notin failed', "function over extern" \notin redeclared'
               PROVE  \A n \in Name : module'[n] # None => module'[n].sig = function_protos'[n]
  BY DEF ModuleAgrees
<1>3. \A n \in Name : module[n] # None => module[n].sig = function_protos[n]
  BY <1>1, <1>2 DEF ModuleAgrees
<1>4. Name \subseteq Symbol
  BY DEF Symbol
<1>5. CASE Read \/ Check \/ Check_error \/ Generate_extern_error \/ Run \/ Run_error \/ Run_broken
  <2>1. UNCHANGED <<module, function_protos>>
    BY <1>5 DEF Read, Check, Check_error, Generate_extern_error, Run, Run_error, Run_broken, tables
  <2> QED BY <1>3, <2>1
<1>6. CASE Generate_extern
  <2>1. /\ module' = [module EXCEPT ![D.name] = Declaration(D.sig)]
        /\ function_protos' = [function_protos EXCEPT ![D.name] = D.sig]
    BY <1>6 DEF Generate_extern
  <2>2. \A n \in Name : \/ module'[n] = module[n] /\ function_protos'[n] = function_protos[n]
                        \/ module'[n] = Declaration(D.sig) /\ function_protos'[n] = D.sig
    BY <1>4, <2>1, TypeParts DEF TablesTyped
  <2> QED BY <1>3, <2>2, DeclarationIs
<1>7. ASSUME pc = "generate", D.kind = "function", function_protos' = Protos,
             NEW n \in Name, n # D.name,
             \/ module'[n] = module[n]
             \/ module'[n] = Declaration(Protos[n])
      PROVE  module'[n] # None => module'[n].sig = function_protos'[n]
  <2>1. Protos[n] = function_protos[n]
    BY <1>7, GenerateTyping
  <2> QED BY <1>3, <1>7, <2>1, DeclarationIs
<1>8. CASE Generate_function
  <2>1. /\ pc = "generate" /\ D.kind = "function" /\ function_protos' = Protos
        /\ redeclared' = redeclared \cup OverExtern(D.name, D.sig)
    BY <1>8 DEF Generate_function, Fresh
  <2>2. module'[D.name].sig = Fn.sig
    BY <1>8, FunctionModule
  <2>3. Fn.sig = D.sig
    BY <1>2, <2>1, DeclarationIs DEF Fn, OverExtern
  <2>4. D.name \in Name => Protos[D.name] = D.sig
    BY <2>1, GenerateTyping
  <2> QED BY <1>4, <1>7, <1>8, <2>1, <2>2, <2>3, <2>4, FunctionModule
<1>9. CASE Generate_body_error
  <2>1. pc = "generate" /\ D.kind = "function" /\ function_protos' = Protos
    BY <1>9 DEF Generate_body_error, Fresh
  <2> QED BY <1>4, <1>7, <1>9, <2>1, DeletedModule
<1>10. CASE Generate_arity_error \/ Generate_redefinition_error
  BY <1>2, <1>10 DEF Generate_arity_error, Generate_redefinition_error, Fail
<1>11. CASE Compile \/ Compile_error
  <2>1. module' = EmptyModule
    BY <1>11 DEF Compile, Compile_error
  <2> QED BY <1>4, <2>1, EmptyIsEmpty
<1> QED BY <1>5, <1>6, <1>8, <1>9, <1>10, <1>11 DEF Next

LEMMA NextCodeKnown ==
  ASSUME TypeOK, Staged, OneBody, ModuleAgrees, CodeKnown, Next
  PROVE  CodeKnown'
<1>1. failed \subseteq failed' /\ redeclared \subseteq redeclared'
  BY HistoryGrows
<1>2. SUFFICES ASSUME failed' \subseteq {"link"}, redeclared' = {}
               PROVE  \A n \in Name : dylib'[n] # None =>
                        \/ dylib'[n].sig \in {None, function_protos'[n]}
                        \/ pc' = "compile" /\ n = D.name'
  BY DEF CodeKnown
<1>3. \A n \in Name : dylib[n] # None =>
        dylib[n].sig \in {None, function_protos[n]} \/ (pc = "compile" /\ n = D.name)
  BY <1>1, <1>2 DEF CodeKnown
<1>4. Name \subseteq Symbol
  BY DEF Symbol
<1>5. CASE Read \/ Check \/ Check_error \/ Generate_extern_error \/ Run_broken
  <2>1. UNCHANGED <<dylib, function_protos>> /\ pc # "compile"
    BY <1>5 DEF Read, Check, Check_error, Generate_extern_error, Run_broken, tables
  <2> QED BY <1>3, <2>1
<1>6. CASE Generate_extern
  <2>1. /\ function_protos' = [function_protos EXCEPT ![D.name] = D.sig]
        /\ redeclared' = redeclared \cup OverCode(D.name, D.sig)
        /\ UNCHANGED dylib /\ pc = "generate"
    BY <1>6 DEF Generate_extern
  <2>2. dylib[D.name] # None => dylib[D.name].sig \in {None, D.sig}
    BY <1>2, <2>1 DEF OverCode
  <2>3. \A n \in Name : function_protos'[n] = IF n = D.name THEN D.sig ELSE function_protos[n]
    BY <2>1, TypeParts DEF TablesTyped
  <2> QED BY <1>3, <2>1, <2>2, <2>3
<1>7. CASE Generate_function
  <2>1. /\ pc = "generate" /\ D.kind = "function" /\ function_protos' = Protos /\ pc' = "compile"
        /\ UNCHANGED dylib /\ D' = D
    BY <1>7 DEF Generate_function, Fresh, D
  <2>2. \A n \in Name : n # D.name => Protos[n] = function_protos[n]
    BY <2>1, GenerateTyping
  <2> QED BY <1>3, <2>1, <2>2
<1>8. CASE \/ Generate_body_error \/ Generate_arity_error \/ Generate_redefinition_error \/ Compile_error
  <2>1. ASSUME NEW kind, Fail(kind) PROVE kind \in failed'
    BY <2>1 DEF Fail
  <2>2. "code" \in failed' \/ "arity" \in failed'
    BY <1>8, <2>1 DEF Generate_body_error, Generate_arity_error, Generate_redefinition_error,
                      Compile_error
  <2> QED BY <1>2, <2>2
<1>9. CASE Compile
  <2>1. UNCHANGED function_protos /\ pc = "compile" /\ Duplicates = {} /\ D.name \in Defined
    BY <1>9 DEF Compile, tables, Staged
  <2>2. \A n \in Defined : n = D.name
    BY <1>1, <1>2 DEF OneBody, Defined
  <2>3. D.name \in Name => module[D.name].sig = function_protos[D.name]
    BY <1>1, <1>2, <2>1 DEF ModuleAgrees, Defined
  <2>4. dylib[D.name] = None
    BY <2>1 DEF Duplicates
  <2> SUFFICES ASSUME NEW n \in Name, dylib'[n] # None
               PROVE  dylib'[n].sig \in {None, function_protos'[n]}
    OBVIOUS
  <2>5. CASE dylib'[n] = dylib[n]
    BY <1>3, <2>1, <2>4, <2>5
  <2>6. CASE n \in Defined /\ dylib'[n].sig = module[n].sig
    BY <2>1, <2>2, <2>3, <2>6
  <2> QED BY <1>4, <1>9, <2>5, <2>6, CompiledCode
<1>10. CASE Run \/ Run_error
  <2>1. UNCHANGED function_protos /\ pc # "compile"
    BY <1>10 DEF Run, Run_error, tables
  <2> SUFFICES ASSUME NEW n \in Name, dylib'[n] # None
               PROVE  dylib'[n].sig \in {None, function_protos'[n]}
    OBVIOUS
  <2> QED BY <1>3, <1>4, <1>10, <2>1, RunCode
<1> QED BY <1>5, <1>6, <1>7, <1>8, <1>9, <1>10 DEF Next

LEMMA IntervalAt ==
  ASSUME NEW a \in Nat, NEW b \in Nat, 1 <= b, b <= a
  PROVE  b \in 1 .. a /\ b \in b .. a /\ b \in b .. b /\ \A i \in b .. b : i = b
OBVIOUS

\* The declaration that the generator is at, as the first of what is left of the line.
LEMMA AtDeclaration ==
  ASSUME TypeOK, Staged, pc # "read"
  PROVE  k \in 1 .. Len(ast) /\ k \in k .. Len(ast) /\ k \in k .. k /\ \A i \in k .. k : i = k
BY LineTyping, IntervalAt

LEMMA NextCallsAgree ==
  ASSUME TypeOK, Staged, Tracked, ModuleAgrees, CallsAgree, Next
  PROVE  CallsAgree'
<1>1. failed \subseteq failed' /\ redeclared \subseteq redeclared'
  BY HistoryGrows
<1>2. CASE ~Generate_function
  <2>1. call' \in {None, call}
    BY <1>2 DEF Next, Read, Check, Check_error, Generate_extern, Generate_extern_error,
                Generate_body_error, Generate_arity_error, Generate_redefinition_error,
                Compile, Compile_error, Run, Run_error, Run_broken
  <2> QED BY <1>1, <2>1 DEF CallsAgree
<1>3. CASE Generate_function
  <2> SUFFICES ASSUME call' # None, failed' \cap Unsettling = {}, "function over extern" \notin redeclared'
               PROVE  call'.args = call'.callee
    BY DEF CallsAgree
  <2>1. /\ pc = "generate" /\ D.kind = "function" /\ Generable
        /\ redeclared' = redeclared \cup OverExtern(D.name, D.sig)
    BY <1>3 DEF Generate_function, Fresh
  <2>2. D.body.does = "call" /\ call' = [args |-> D.body.sig, callee |-> Callee.sig]
    BY <1>3 DEF Generate_function
  <2> DEFINE n == D.body.name
  <2>3. Callee # None /\ n \in Name /\ n \in Symbol /\ k \in 1 .. Len(ast) /\ Len(ast) \in Nat
    <3>1. Callee # None
      BY <2>1, <2>2 DEF Generable
    <3>2. D \in Decl /\ Len(ast) \in Nat /\ k \in Nat /\ 1 <= k /\ k <= Len(ast)
      BY <2>1, LineTyping
    <3>3. k \in 1 .. Len(ast)
      BY <2>1, AtDeclaration
    <3>4. n \in Name
      BY <2>1, <2>2, <3>2, DeclTyping
    <3> QED BY <3>1, <3>2, <3>3, <3>4 DEF Symbol
  <2>4. Settled /\ "arity" \notin failed /\ "function over extern" \notin redeclared
    BY <1>1 DEF Settled, Unsettling
  <2>5. D.body.sig = Protos[n]
    <3>1. CallSeen(ast, function_protos, k, k)
      <4>1. k \in k .. Len(ast)
        BY <2>1, AtDeclaration
      <4>2. \A j \in k .. Len(ast) : CallSeen(ast, function_protos, k, j)
        BY <2>1, <2>4 DEF Tracked
      <4> QED BY <4>1, <4>2
    <3>2. Sees(ast, function_protos, k, k, n, D.body.sig)
      BY <2>1, <2>2, <3>1 DEF CallSeen, D
    <3>3. k \in k .. k /\ \A i \in k .. k : i = k
      BY <2>1, AtDeclaration
    <3>4. D.body.sig = IF D.name = n THEN D.sig ELSE function_protos[n]
      BY <3>2, <3>3 DEF Sees, D
    <3> QED BY <2>1, <2>3, <3>4, GenerateTyping
  <2>6. Begun[n] # None => Begun[n].sig = Protos[n]
    <3>1. CASE n = D.name
      <4>1. Fn.sig = D.sig
        BY <2>1, DeclarationIs DEF Fn, OverExtern
      <4>2. Begun[n] = [Fn EXCEPT !.body = "code"] /\ Fn \in Entry /\ Protos[n] = D.sig
        BY <2>1, <2>3, <3>1, GenerateTyping
      <4> QED BY <4>1, <4>2 DEF Entry
    <3>2. CASE n # D.name
      <4>1. Begun[n] = module[n] /\ Protos[n] = function_protos[n]
        BY <2>1, <2>3, <3>2, GenerateTyping
      <4> QED BY <2>3, <2>4, <4>1 DEF ModuleAgrees
    <3> QED BY <3>1, <3>2
  <2>7. Callee.sig = Protos[n]
    BY <2>1, <2>2, <2>3, <2>6, GenerateTyping
  <2> QED BY <2>2, <2>5, <2>7
<1> QED BY <1>2, <1>3

-------------------------------------------------------------------------------
(* The invariant holds.                                                     *)

LEMMA InitSessionInv == Init => SessionInv
<1> SUFFICES ASSUME Init PROVE SessionInv
  OBVIOUS
<1>1. ast = << >> /\ k = 1 /\ ast \in Seq(Decl) /\ Len(ast) = 0
  BY EmptySeq DEF Init
<1>2. LineTyped
  BY <1>1, BoundsAssumption DEF Init, LineTyped
<1>3. TablesTyped
  BY DEF Init, TablesTyped, EmptyModule
<1>4. symbol_table \in 0 .. MaxDepth
  BY BoundsAssumption DEF Init
<1>5. TypeOK
  BY <1>2, <1>3, <1>4, TypeParts
<1>6. Staged /\ Tracked /\ CallsAgree /\ WellFormedCode
  BY DEF Init, Staged, Tracked, CallsAgree, WellFormedCode
<1>7. /\ \A n \in Symbol : module[n] = None /\ dylib[n] = None
      /\ Anon \in Symbol /\ Name \subseteq Symbol
  BY DEF Init, EmptyModule, Symbol
<1>8. OneBody /\ AnonPasses /\ ModuleAgrees /\ CodeKnown
  BY <1>7 DEF OneBody, AnonPasses, ModuleAgrees, CodeKnown
<1> QED BY <1>5, <1>6, <1>8 DEF SessionInv

LEMMA NextSessionInv == SessionInv /\ [Next]_vars => SessionInv'
<1>1. ASSUME SessionInv, Next PROVE SessionInv'
  <2>1. TypeOK' /\ Staged' /\ Tracked'
    BY <1>1, NextTypes, NextStaged, NextTracked DEF SessionInv
  <2>2. OneBody' /\ WellFormedCode' /\ AnonPasses'
    BY <1>1, NextOneBody, NextAnonPasses DEF SessionInv
  <2>3. ModuleAgrees' /\ CodeKnown' /\ CallsAgree'
    BY <1>1, NextModuleAgrees, NextCodeKnown, NextCallsAgree DEF SessionInv
  <2> QED BY <2>1, <2>2, <2>3 DEF SessionInv
<1>2. ASSUME SessionInv, UNCHANGED vars PROVE SessionInv'
  <2>1. TypeOK' /\ Staged' /\ Tracked'
    BY <1>2 DEF SessionInv, vars, TypeOK, Staged, Tracked, Settled, D, Defined
  <2>2. OneBody' /\ AnonPasses' /\ ModuleAgrees' /\ CodeKnown' /\ CallsAgree' /\ WellFormedCode'
    BY <1>2 DEF SessionInv, vars, OneBody, AnonPasses, ModuleAgrees, CodeKnown, CallsAgree,
                WellFormedCode, D
  <2> QED BY <2>1, <2>2 DEF SessionInv
<1> QED BY <1>1, <1>2

\* The tables are related as SessionInv says in every state of every session.
THEOREM SessionInvariant == Spec => []SessionInv
BY InitSessionInv, NextSessionInv, PTL DEF Spec

\* The tables, the module and the JIT hold what their types say, and the checker never
\* pops a scope that it has not opened, whatever the lines and however they fail.
THEOREM SessionTypeCorrect == Spec => []TypeOK
<1>1. SessionInv => TypeOK
  BY DEF SessionInv
<1> QED BY <1>1, SessionInvariant, PTL

\* The checker and the generator agree at the prompt, after any number of lines of any
\* length, as long as no error of those that main.rs:34-46 leaves unrepaired was met.
THEOREM TablesAgreeCorrect == Spec => []TablesAgree
<1>1. SessionInv => TablesAgree
  <2> SUFFICES ASSUME SessionInv, pc = "read", Settled PROVE
                 /\ prototype_table = function_protos /\ symbol_table = 0
                 /\ \A n \in Symbol : module[n] # None => module[n].body = "none"
    BY DEF TablesAgree, Prompt, Settled
  <2>1. "arity" \notin failed
    BY DEF Settled, Unsettling
  <2> QED BY <2>1 DEF SessionInv, Tracked, OneBody
<1> QED BY <1>1, SessionInvariant, PTL

\* The arguments of a compiled call are those that the checker has compared with the
\* signature of the callee, whichever line declared it and whatever followed it.
THEOREM CallsAgreeCorrect == Spec => []CallsAgree
<1>1. SessionInv => CallsAgree
  BY DEF SessionInv
<1> QED BY <1>1, SessionInvariant, PTL

\* The prototypes describe the code in the JIT, when nothing but linking has failed and
\* nothing was declared a second time with another signature.
THEOREM CodeAgreesCorrect == Spec => []CodeAgrees
<1>1. SessionInv => CodeAgrees
  BY DEF SessionInv, CodeKnown, CodeAgrees, Prompt
<1> QED BY <1>1, SessionInvariant, PTL

\* Every expression that could be linked is out of the JIT when the next line is read.
THEOREM AnonRemovedCorrect == Spec => []AnonRemoved
<1>1. SessionInv => AnonRemoved
  BY DEF SessionInv, AnonPasses, AnonRemoved, Prompt
<1> QED BY <1>1, SessionInvariant, PTL

\* No function without terminators is ever compiled to machine code, but after a function
\* with another number of arguments than its extern.
THEOREM WellFormedCodeCorrect == Spec => []WellFormedCode
<1>1. SessionInv => WellFormedCode
  BY DEF SessionInv
<1> QED BY <1>1, SessionInvariant, PTL

-------------------------------------------------------------------------------
(* What can run.                                                            *)

\* Calls and Links, of the symbols in table.
CallsIn(table, n) == IF table[n] = None THEN {} ELSE table[n].calls
LinksIn(table, n) ==
  {m \in Symbol : \A S \in SUBSET Symbol :
                    n \in S /\ (\A s \in S : CallsIn(table, s) \subseteq S) => m \in S}

LEMMA LinksAre ==
  ASSUME NEW n
  PROVE  Links(n) = LinksIn(dylib, n) /\ Links(n)' = LinksIn(dylib', n)
BY DEF Links, LinksIn, Calls, CallsIn

\* Links is the least set that holds n and is closed under Calls.
LEMMA LinksClosed ==
  ASSUME NEW table, NEW n \in Symbol, \A m \in Symbol : CallsIn(table, m) \subseteq Name
  PROVE  /\ LinksIn(table, n) \subseteq Symbol /\ n \in LinksIn(table, n)
         /\ \A m \in LinksIn(table, n) : CallsIn(table, m) \subseteq LinksIn(table, n)
<1>1. Name \subseteq Symbol
  BY DEF Symbol
<1> QED BY <1>1 DEF LinksIn

LEMMA LinksLeast ==
  ASSUME NEW table, NEW n, NEW S \in SUBSET Symbol, n \in S,
         \A s \in S : CallsIn(table, s) \subseteq S
  PROVE  LinksIn(table, n) \subseteq S
BY DEF LinksIn

\* What a function needs to run is named by the program, needs no more than the function
\* does, and stays the same as long as none of it changes.
LEMMA LinksNamed ==
  ASSUME NEW table, NEW n \in Name, \A m \in Symbol : CallsIn(table, m) \subseteq Name
  PROVE  LinksIn(table, n) \subseteq Name
<1>1. Name \in SUBSET Symbol /\ \A s \in Name : CallsIn(table, s) \subseteq Name
  BY DEF Symbol
<1> QED BY <1>1, LinksLeast

LEMMA LinksTransitive ==
  ASSUME NEW table, NEW n \in Symbol, \A m \in Symbol : CallsIn(table, m) \subseteq Name,
         NEW m \in LinksIn(table, n)
  PROVE  LinksIn(table, m) \subseteq LinksIn(table, n)
<1>1. /\ LinksIn(table, n) \in SUBSET Symbol
      /\ \A s \in LinksIn(table, n) : CallsIn(table, s) \subseteq LinksIn(table, n)
  BY LinksClosed
<1> QED BY <1>1, LinksLeast

LEMMA LinksKept ==
  ASSUME NEW table, NEW table2, NEW n \in Symbol,
         \A m \in Symbol : CallsIn(table, m) \subseteq Name,
         \A m \in LinksIn(table, n) : table2[m] = table[m]
  PROVE  LinksIn(table2, n) \subseteq LinksIn(table, n)
<1>1. /\ LinksIn(table, n) \in SUBSET Symbol /\ n \in LinksIn(table, n)
      /\ \A s \in LinksIn(table, n) : CallsIn(table, s) \subseteq LinksIn(table, n)
  BY LinksClosed
<1>2. \A s \in LinksIn(table, n) : CallsIn(table2, s) = CallsIn(table, s)
  BY DEF CallsIn
<1> QED BY <1>1, <1>2, LinksLeast

LEMMA CallsNamed == TypeOK => \A m \in Symbol : CallsIn(dylib, m) \subseteq Name
BY TypeParts DEF TablesTyped, Code, CallsIn

\* No step touches the code of a function that can run, nor what it calls.
LEMMA LinkedKept ==
  ASSUME TypeOK, Next, NEW n \in Name, Linked(n), NEW m \in Links(n)
  PROVE  dylib'[m] = dylib[m]
<1>1. /\ n \in Symbol /\ m \in Name /\ m \in Symbol /\ m # Anon
      /\ \A x \in Links(m) : x \in Links(n)
  <2>1. n \in Symbol /\ Name \subseteq Symbol /\ Anon \notin Name
    BY NameAssumption DEF Symbol
  <2> QED BY <2>1, CallsNamed, LinksAre, LinksNamed, LinksTransitive
<1>2. \A x \in Links(n) : dylib[x] # None /\ dylib[x].state = "added"
  BY DEF Linked
<1>3. CASE Compile
  BY <1>1, <1>2, <1>3, CompiledCode
<1>4. CASE Run
  BY <1>1, <1>2, <1>4 DEF Run
<1>5. CASE Run_error
  <2>1. ~Unlinkable(m)
    BY <1>1, <1>2 DEF Unlinkable, Missing
  <2> QED BY <1>1, <1>5, <2>1 DEF Run_error
<1>6. CASE UNCHANGED dylib
  BY <1>6
<1>7. Compile \/ Run \/ Run_error \/ UNCHANGED dylib
  BY DEF Next, Read, Check, Check_error, Generate_extern, Generate_extern_error, Generate_function,
         Generate_body_error, Generate_arity_error, Generate_redefinition_error, Compile_error,
         Run_broken
<1> QED BY <1>3, <1>4, <1>5, <1>6, <1>7

\* A function that can run can run ever after with the same code: no line takes it away,
\* replaces it, or leaves it calling something that does not link.
THEOREM LinkedStaysCorrect == Spec => LinkedStays
<1> DEFINE Stay == \A n \in Name : Linked(n) => Linked(n)' /\ dylib'[n] = dylib[n]
<1>1. ASSUME TypeOK, Next PROVE Stay
  <2> SUFFICES ASSUME NEW n \in Name, Linked(n) PROVE Linked(n)' /\ dylib'[n] = dylib[n]
    OBVIOUS
  <2>1. \A m \in Links(n) : dylib'[m] = dylib[m]
    BY <1>1, LinkedKept
  <2>2. n \in Symbol /\ \A m \in Symbol : CallsIn(dylib, m) \subseteq Name
    BY <1>1, CallsNamed DEF Symbol
  <2>3. n \in Links(n) /\ Links(n)' \subseteq Links(n)
    BY <2>1, <2>2, LinksAre, LinksClosed, LinksKept
  <2>4. \A m \in Links(n)' : dylib'[m] # None /\ dylib'[m].state = "added"
    BY <2>1, <2>3 DEF Linked
  <2> QED BY <2>1, <2>3, <2>4 DEF Linked
<1>2. TypeOK /\ [Next]_vars => [Stay]_dylib
  BY <1>1 DEF vars
<1>3. Spec => [][Stay]_dylib
  BY <1>2, SessionTypeCorrect, PTL DEF Spec
<1> QED BY <1>3 DEF LinkedStays
===============================================================================
