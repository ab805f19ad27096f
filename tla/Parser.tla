-------------------------------- MODULE Parser --------------------------------
(***************************************************************************)
(* The parser (compiler/src/parser/core.rs) over a session: recursive        *)
(* descent, precedence climbing for binary operators, user-defined operators *)
(* whose precedence is known from the moment their prototype is read, and    *)
(* error recovery.                                                          *)
(*                                                                         *)
(* The calls that are active are unfolded into todo, what they still have to *)
(* do.  A line is any sequence of tokens, chosen token by token.             *)
(***************************************************************************)
EXTENDS Integers, Sequences

CONSTANTS
  Token,          \* the tokens lines are made of, as strings; Identifier is one of them
  Cost,           \* bound: a line is as long as the costs of its tokens,
  Odd,            \*   and Odd for every unary operator, error and end of a declaration,
  MaxCost,        \*   together allow
  MaxDefinitions, \* bound: operators given a precedence in a session
  Definable       \* bound: which they are

Identifier == "x"
Keyword == {"def", "extern", "if", "then", "else", "for", "in", "unary", "binary", "var", "type"}

\* The numbers: integers, and what the lexer makes of digits before a dot.
Value == [d \in {"0", "5", "50"} |-> CASE d = "0" -> 0 [] d = "5" -> 5 [] d = "50" -> 50]
Number == DOMAIN Value \cup {"1.5", "1."}

\* TokenKind::Op(c) with an ASCII c; "#" stands for the others.
Ascii == Token \ (Keyword \cup Number \cup {Identifier, "#"})

Eof == "end of line"

ASSUME TokenAssumption == Identifier \in Token /\ {Eof, ""} \cap Token = {}
ASSUME BoundsAssumption ==
  /\ Cost \in [Token -> Nat \ {0}]
  /\ MaxCost \in Nat /\ Odd \in Nat /\ MaxDefinitions \in Nat
  /\ Definable \subseteq Ascii

VARIABLES
  phase,   \* "prompt", "parsing", or "panic", the end of the program
  tok,     \* what peek_token sees
  at,      \* its place in the line
  cost,    \* of the line up to tok
  todo,    \* what the active calls still have to do, innermost first
  out,     \* the expressions of the declaration that are complete and not yet part of another
  errors,  \* self.errors is not empty
  binop_precedence,
  definitions  \* history: operators given a precedence

vars == <<phase, tok, at, cost, todo, out, errors, binop_precedence, definitions>>

\* main.rs:63-67.
Builtin ==
  [c \in Ascii \cap {"=", "<", "+", "-", "*"} |->
     CASE c = "=" -> 2 [] c = "<" -> 10 [] c \in {"+", "-"} -> 20 [] c = "*" -> 40]

Init ==
  /\ phase = "prompt"
  /\ tok = Eof /\ at = 1 /\ cost = 0
  /\ todo = << >> /\ out = << >>
  /\ errors = FALSE
  /\ binop_precedence = Builtin
  /\ definitions = 0

get_token_precedence(t) == IF t \in DOMAIN binop_precedence THEN binop_precedence[t] ELSE -1

-------------------------------------------------------------------------------
(* Things to do.                                                           *)

Do(what) == [what |-> what, op |-> "", n |-> 0]

\* The token t must be next.
Expect(t) == [what |-> "token", op |-> t, n |-> 0]

\* If the token t is next, what may begin with it.
Maybe(t, what) == [what |-> what, op |-> t, n |-> 0]

\* parse_bin_op_rhs(n, lhs), and what parse_expr calls.
Rhs(n) == [what |-> "rhs", op |-> "", n |-> n]
Expr == <<Do("unary"), Rhs(0)>>

\* What has been read since place n is one primary expression.
Close(n) == [what |-> "close", op |-> "", n |-> n]

\* The rest of a list that ends with the token t.
Rest(what, t) == [what |-> what, op |-> t, n |-> 0]

\* A right operand, after the operator c of precedence n.
Operand(c, n) == [what |-> "operand", op |-> c, n |-> n]
Binary(c) == [what |-> "build", op |-> c, n |-> 0]

\* The arguments of a prototype, n so far; c is "unary", "binary" or a name.
Args(c, n) == [what |-> "args", op |-> c, n |-> n]

Next_to_do(what) == phase = "parsing" /\ todo # << >> /\ Head(todo).what = what

-------------------------------------------------------------------------------
(* consume_token, and the three ways a step can go.                         *)

Line == Token \ IF definitions = MaxDefinitions THEN {"binary"} ELSE {}

\* The next token, one of those in S if the line goes on.
Look(S, spent) ==
  \E t \in {Eof} \cup {u \in S : spent + Cost[u] <= MaxCost} :
    tok' = t /\ cost' = IF t = Eof THEN spent ELSE spent + Cost[t]

Spent(extra) == IF cost + extra > MaxCost THEN MaxCost ELSE cost + extra

consume(S, extra) ==
  IF tok = Eof THEN UNCHANGED <<tok, at, cost>> ELSE Look(S, Spent(extra)) /\ at' = at + 1

consume_token == consume(Line, 0)

\* The token is taken; what follows is to be done before the rest.
Take(items) ==
  /\ CASE tok = "binary" -> consume((Line \ Ascii) \cup Definable, 0)
       [] Next_to_do("unary") /\ tok \in Ascii \ {"(", "["} -> consume(Line, Odd)
       [] OTHER -> consume_token
  /\ todo' = items \o Tail(todo)
  /\ UNCHANGED <<phase, out, errors, binop_precedence, definitions>>

\* The token stays.
Leave(items) ==
  /\ todo' = items \o Tail(todo)
  /\ UNCHANGED <<phase, tok, at, cost, out, errors, binop_precedence, definitions>>

\* Fault: the token at which the error was found is not skipped.
Error_NoSkip ==
  /\ todo' = << >> /\ out' = << >>
  /\ errors' = TRUE
  /\ UNCHANGED <<phase, tok, at, cost, binop_precedence, definitions>>

\* An Err goes through all callers to error_recovery, which drops one token.
Error ==
  /\ todo' = << >> /\ out' = << >>
  /\ errors' = TRUE
  /\ consume(Line, Odd)
  /\ UNCHANGED <<phase, binop_precedence, definitions>>

\* unwrap, unimplemented and panic end the program.
Panic ==
  /\ phase' = "panic"
  /\ UNCHANGED <<tok, at, cost, todo, out, errors, binop_precedence, definitions>>

-------------------------------------------------------------------------------
(* Expressions.                                                            *)

\* A complete expression: the operator at its root if that is binary, the operators of
\* its operands, and the places of the line it covers.
Primary(first, last) == [op |-> "", left |-> "", right |-> "", first |-> first, last |-> last]

Last(s) == s[Len(s)]

parse_expr == Next_to_do("expr") /\ Leave(Expr)

\* Any ASCII operator but three is a unary one, closing brackets and commas' like too.
parse_unary ==
  /\ Next_to_do("unary")
  /\ tok \in Ascii \ {"(", ",", "["}
  /\ Take(<<Do("unary"), Close(at)>>)

\* What comes after the first token.
parse_number == << >>
parse_paren == <<Rest("list", ")")>>
parse_square_brackets == <<Rest("list", "]")>>
parse_if == <<Do("expr"), Expect("then"), Do("block"), Expect("else"), Do("block")>>
parse_for ==
  <<Expect(Identifier), Expect("="), Do("expr"), Expect(","), Do("expr"),
    Maybe(",", "expr?"), Expect("in"), Do("block")>>

Rest_of_primary ==
  CASE tok \in Number -> parse_number
    [] tok = Identifier -> <<Maybe("(", "call")>>
    [] tok = "(" -> parse_paren
    [] tok = "[" -> parse_square_brackets
    [] tok = "if" -> parse_if
    [] tok = "for" -> parse_for
    [] tok = "var" -> <<Do("var"), Expect("in"), Do("block")>>

parse_primary ==
  /\ Next_to_do("unary")
  /\ tok \notin Ascii \ {"(", ",", "["}
  /\ IF tok \in Number \cup {Identifier, "(", "[", "if", "for", "var"}
       THEN Take(Rest_of_primary \o <<Close(at), Do("post")>>)
       ELSE Error

\* A field number or an index makes a new primary that begins where the last one did.
parse_post_primary ==
  /\ Next_to_do("post")
  /\ CASE tok = "." -> Take(<<Do("field"), Close(Last(out).first), Do("post")>>)
       [] tok = "[" -> Take(<<Do("expr"), Expect("]"), Close(Last(out).first), Do("post")>>)
       [] OTHER -> Leave(<< >>)

\* A number with one dot is two fields, both of which must be there; anything else that
\* is no number is unimplemented.
parse_field_number ==
  /\ Next_to_do("field")
  /\ CASE tok = Eof -> Error
       [] tok \in Number \ {"1."} -> Take(<< >>)
       [] OTHER -> Panic

\* A name, or a call.
parse_identifier ==
  /\ Next_to_do("call")
  /\ IF tok = "(" THEN Take(<<Rest("list", ")")>>) ELSE Leave(<< >>)

\* Arguments, tuples, lists: expressions between brackets, with commas between them.
parse_list ==
  \/ /\ Next_to_do("list")
     /\ CASE tok = Eof -> Error
          [] tok = Head(todo).op -> Take(<< >>)
          [] OTHER -> Leave(<<Do("expr"), Rest("more", Head(todo).op)>>)
  \/ /\ Next_to_do("more")
     /\ CASE tok = "," -> Take(<<Do("expr"), Head(todo)>>)
          [] tok = Head(todo).op -> Take(<< >>)
          [] OTHER -> Error

parse_var ==
  \/ /\ Next_to_do("var")
     /\ IF tok = Identifier
          THEN Take(<<Maybe(":", "type?"), Maybe("=", "expr?"), Maybe(",", "var?")>>)
          ELSE Error
  \/ \E what \in {"type?", "expr?", "var?"} :
       /\ Next_to_do(what)
       /\ IF tok # Head(todo).op THEN Leave(<< >>)
          ELSE Take(CASE what = "type?" -> <<Do("type")>>
                      [] what = "expr?" -> <<Do("expr")>>
                      [] what = "var?" -> <<Do("var")>>)

\* Expressions with semicolons between them, possibly none at the end of the line.
parse_block ==
  \/ /\ Next_to_do("block")
     /\ IF tok = Eof THEN Leave(<< >>) ELSE Leave(<<Do("expr"), Do("blocks")>>)
  \/ /\ Next_to_do("blocks")
     /\ IF tok = ";" THEN Take(<<Do("block")>>) ELSE Leave(<< >>)

Expected ==
  /\ Next_to_do("token")
  /\ IF tok = Head(todo).op THEN Take(<< >>) ELSE Error

\* A primary is complete: one expression takes the place of all that was read from place n
\* on; of what was read before everything stays.
close ==
  /\ Next_to_do("close")
  /\ LET n == Head(todo).n
     IN  \E k \in 0 .. Len(out) :
           /\ \A i \in DOMAIN out : out[i].first < n <=> i <= k
           /\ out' = Append(SubSeq(out, 1, k), Primary(n, at - 1))
  /\ todo' = Tail(todo)
  /\ UNCHANGED <<phase, tok, at, cost, errors, binop_precedence, definitions>>

\* Fault: an operator of the same precedence goes to the right operand.
parse_bin_op_rhs_Right ==
  \/ /\ Next_to_do("rhs")
     /\ LET tok_prec == get_token_precedence(tok)
        IN  IF tok_prec < Head(todo).n THEN Leave(<< >>)
            ELSE Take(<<Do("unary"), Operand(tok, tok_prec), Head(todo)>>)
  \/ /\ Next_to_do("operand")
     /\ LET tok_prec == Head(todo).n
        IN  IF tok_prec <= get_token_precedence(tok)
              THEN Leave(<<Rhs(tok_prec), Binary(Head(todo).op)>>)
              ELSE Leave(<<Binary(Head(todo).op)>>)

\* Operators of at least the precedence given, from left to right; to the right operand
\* go those of a higher one.
parse_bin_op_rhs ==
  \/ /\ Next_to_do("rhs")
     /\ LET tok_prec == get_token_precedence(tok)
        IN  IF tok_prec < Head(todo).n THEN Leave(<< >>)
            ELSE Take(<<Do("unary"), Operand(tok, tok_prec), Head(todo)>>)
  \/ /\ Next_to_do("operand")
     /\ LET tok_prec == Head(todo).n
        IN  IF tok_prec < get_token_precedence(tok)
              THEN Leave(<<Rhs(tok_prec + 1), Binary(Head(todo).op)>>)
              ELSE Leave(<<Binary(Head(todo).op)>>)

\* Fault: the operand read last becomes the left one.
Build_Swapped ==
  /\ Next_to_do("build")
  /\ LET lhs == Last(out)
         rhs == out[Len(out) - 1]
     IN  out' = Append(SubSeq(out, 1, Len(out) - 2),
                       [op |-> Head(todo).op, left |-> lhs.op, right |-> rhs.op,
                        first |-> lhs.first, last |-> rhs.last])
  /\ todo' = Tail(todo)
  /\ UNCHANGED <<phase, tok, at, cost, errors, binop_precedence, definitions>>

\* lhs = Binary(bin_op, lhs, rhs).
Build ==
  /\ Next_to_do("build")
  /\ LET rhs == Last(out)
         lhs == out[Len(out) - 1]
     IN  out' = Append(SubSeq(out, 1, Len(out) - 2),
                       [op |-> Head(todo).op, left |-> lhs.op, right |-> rhs.op,
                        first |-> lhs.first, last |-> rhs.last])
  /\ todo' = Tail(todo)
  /\ UNCHANGED <<phase, tok, at, cost, errors, binop_precedence, definitions>>

-------------------------------------------------------------------------------
(* Types and prototypes.                                                   *)

parse_type ==
  \/ /\ Next_to_do("type")
     /\ CASE tok = "type" -> Take(<< >>)
          [] tok = "(" -> Take(<<Do("tuple type")>>)
          [] tok = "[" -> Take(<<Do("type"), Expect("]")>>)
          [] OTHER -> Error
  \/ /\ Next_to_do("tuple type")
     /\ IF tok = ")" THEN Take(<< >>) ELSE Leave(<<Do("type"), Do("types")>>)

parse_tuple_type ==
  /\ Next_to_do("types")
  /\ CASE tok = "," -> Take(<<Do("type"), Do("types")>>)
       [] tok = ")" -> Take(<< >>)
       [] OTHER -> Error

parse_prototype ==
  /\ Next_to_do("prototype")
  /\ CASE tok = Identifier -> Take(<<Expect("("), Args("", 0)>>)
       [] tok \in {"unary", "binary"} -> Take(<<[Do("operator") EXCEPT !.op = tok]>>)
       [] OTHER -> Error

Operator ==
  /\ Next_to_do("operator")
  /\ LET kind == Head(todo).op
     IN  IF tok \notin Ascii THEN Error
         ELSE CASE kind = "unary" -> Take(<<Expect("("), Args(kind, 0)>>)
                [] kind = "binary" -> Take(<<[Do("precedence") EXCEPT !.op = tok],
                                             Expect("("), Args(kind, 0)>>)

Insert(c, prec) ==
  /\ binop_precedence' =
       [d \in DOMAIN binop_precedence \cup {c} |-> IF d = c THEN prec ELSE binop_precedence[d]]
  /\ definitions' = definitions + 1
  /\ todo' = Tail(todo)
  /\ UNCHANGED <<phase, out, errors>>

\* Fault: the precedence is not checked before it is known.
Precedence_Unchecked ==
  /\ Next_to_do("precedence")
  /\ CASE tok = Eof -> Error
       [] tok \in DOMAIN Value -> Insert(Head(todo).op, Value[tok]) /\ consume_token
       [] tok \in Number \ DOMAIN Value -> Panic
       [] OTHER -> Insert(Head(todo).op, 30) /\ UNCHANGED <<tok, at, cost>>

\* The precedence of the operator is known from here on, whatever becomes of the line.
Precedence ==
  /\ Next_to_do("precedence")
  /\ CASE tok = Eof -> Error
       [] tok \in DOMAIN Value -> IF Value[tok] \in 1 .. 100
                                    THEN Insert(Head(todo).op, Value[tok]) /\ consume_token
                                    ELSE Error
       [] tok \in Number \ DOMAIN Value -> Panic
       [] OTHER -> Insert(Head(todo).op, 30) /\ UNCHANGED <<tok, at, cost>>

Arity(kind) == CASE kind = "unary" -> 1 [] kind = "binary" -> 2

Arguments ==
  /\ Next_to_do("args")
  /\ LET args == Head(todo)
     IN  CASE tok = Identifier -> Take(<<Expect(":"), Do("type"), Args(args.op, args.n + 1)>>)
           [] tok = ")" -> Take(<<IF args.op # "" /\ args.n # Arity(args.op)
                                    THEN Do("invalid signature") ELSE Do("result")>>)
           [] OTHER -> Error

Result ==
  \/ /\ Next_to_do("result")
     /\ IF tok = "-" THEN Take(<<Expect(">"), Do("type")>>) ELSE Leave(<< >>)
  \/ Next_to_do("invalid signature") /\ Error

-------------------------------------------------------------------------------
(* The line.                                                               *)

\* Any line is typed.
Read ==
  /\ phase = "prompt"
  /\ phase' = "parsing"
  /\ Look(Line, 0)
  /\ at' = 1
  /\ errors' = FALSE
  /\ UNCHANGED <<todo, out, binop_precedence, definitions>>

\* The next declaration: parse_def, parse_extern, parse_top_level_expr.
Declaration ==
  /\ phase = "parsing" /\ todo = << >> /\ tok # Eof
  /\ IF tok \in {"def", "extern"} THEN consume_token ELSE UNCHANGED <<tok, at, cost>>
  /\ todo' = CASE tok = "def" -> <<Do("prototype"), Do("block"), Do("declared")>>
               [] tok = "extern" -> <<Do("prototype"), Do("declared")>>
               [] OTHER -> Expr \o <<[Do("evaluated") EXCEPT !.n = at]>>
  /\ UNCHANGED <<phase, out, errors, binop_precedence, definitions>>

Push_declaration ==
  /\ Next_to_do("declared") \/ Next_to_do("evaluated")
  /\ todo' = << >> /\ out' = << >>
  /\ cost' = Spent(Odd)
  /\ UNCHANGED <<phase, tok, at, errors, binop_precedence, definitions>>

\* The program goes to the type checker, or the errors are printed.
End_of_line ==
  /\ phase = "parsing" /\ todo = << >> /\ tok = Eof
  /\ phase' = "prompt"
  /\ at' = 1 /\ errors' = FALSE
  /\ cost' = 0
  /\ UNCHANGED <<tok, todo, out, binop_precedence, definitions>>

parse ==
  \/ parse_expr \/ parse_unary \/ parse_primary \/ parse_post_primary \/ parse_field_number
  \/ parse_identifier \/ parse_list \/ parse_var \/ parse_block \/ Expected \/ close \/ parse_bin_op_rhs \/ Build
  \/ parse_type \/ parse_tuple_type \/ parse_prototype \/ Operator \/ Precedence \/ Arguments \/ Result
  \/ Declaration \/ Push_declaration \/ End_of_line

Next == Read \/ parse

\* The parser runs until it returns.
Spec == Init /\ [][Next]_vars /\ WF_vars(parse)

-------------------------------------------------------------------------------
(* Correctness.                                                            *)

Places == 1 .. MaxCost + 1

\* What there can be to do, and the tokens it can be about.
Calls == {"expr", "unary", "post", "field", "call", "list", "more", "var", "block", "blocks",
          "rhs", "operand", "build", "close", "token", "type?", "expr?", "var?",
          "type", "tuple type", "types", "prototype", "operator", "precedence", "args",
          "result", "invalid signature", "declared", "evaluated"}
About == Token \cup Keyword \cup {"", "(", ")", "]", ",", ":", "=", ">"}

Items == [what : Calls, op : About, n : 0 .. 101 \cup Places]
Trees == [op : Ascii \cup {""}, left : Ascii \cup {""}, right : Ascii \cup {""},
          first : Places, last : Places]

TypeOK ==
  /\ phase \in {"prompt", "parsing", "panic"}
  /\ tok \in Token \cup {Eof} /\ at \in Places /\ cost \in 0 .. MaxCost
  /\ todo \in Seq(Items) /\ out \in Seq(Trees)
  /\ errors \in BOOLEAN
  /\ DOMAIN binop_precedence \subseteq Ascii
  /\ \A c \in DOMAIN binop_precedence : binop_precedence[c] \in 1 .. 100
  /\ definitions \in 0 .. MaxDefinitions

\* How tightly an expression holds together, by the operator at its root.
Strength(c) == IF c = "" THEN 128 ELSE get_token_precedence(c)

\* The tree of every expression is the one that the precedences ask for, whichever
\* operators a session has defined: operators of the same precedence group to the
\* left, and nothing weaker is inside something stronger but between brackets
\* (core.rs:194-225).
TreesRight ==
  \A k \in DOMAIN out :
    out[k].op # "" => /\ Strength(out[k].left) >= Strength(out[k].op)
                      /\ Strength(out[k].right) > Strength(out[k].op)

\* Nothing of a line gets lost or changes places: the operands of an operator are what
\* stands on its two sides, and the expression that is handed on is all that was read
\* since the declaration began, up to where no operator follows.
WholeExpression ==
  /\ Next_to_do("build") => out[Len(out) - 1].last + 2 = Last(out).first
  /\ Next_to_do("evaluated") =>
       /\ Len(out) = 1
       /\ out[1].first = Head(todo).n /\ out[1].last = at - 1
       /\ get_token_precedence(tok) = -1

\* Whatever is typed, the parser comes back: each attempt at a declaration, and each
\* recovery from an error, gets further in the line (core.rs:35-54, 454-465).
LineEnds == phase = "parsing" ~> phase # "parsing"
===============================================================================
