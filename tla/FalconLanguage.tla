--------------------------- MODULE FalconLanguage ---------------------------
(***************************************************************************)
(* The language front of Falcon: the parser (script/src/parser.cpp) and    *)
(* the compiler (script/src/compiler.cpp), on tokens and trees.            *)
(*                                                                         *)
(* A string is a sequence of pieces, an integer is within 32 bits.  Text   *)
(* becomes tokens in lexer.cpp, which is left out, and so is the constant  *)
(* pool: an instruction carries its constant.                              *)
(***************************************************************************)
EXTENDS Integers, Sequences, FiniteSets

Token(kind, x) == [kind |-> kind, x |-> x]
Symbol(s) == Token("symbol", s)

Number(n) == [t |-> "integer", n |-> n, s |-> << >>]
Text(s) == [t |-> "string", n |-> 0, s |-> s]
DefaultOf(type) == IF type = "string" THEN Text(<< >>) ELSE Number(0)

\* Trees.
Lit(v) == [k |-> "literal", value |-> v]
Var(x) == [k |-> "variable", name |-> x]
Cast(to, e) == [k |-> "cast", to |-> to, of |-> e]
Bin(op, a, b) == [k |-> "binary", op |-> op, a |-> a, b |-> b]
Call(f, args) == [k |-> "call", name |-> f, args |-> args]

Decl(type, x, init) == [k |-> "declaration", type |-> type, name |-> x, init |-> init]
NoInit == [k |-> "none"]
Assign(x, e) == [k |-> "assignment", name |-> x, value |-> e]
Expr(e) == [k |-> "expression", value |-> e]
Block(body) == [k |-> "block", body |-> body]
While(c, body) == [k |-> "while", cond |-> c, body |-> body]
If(c, then, else) == [k |-> "if", cond |-> c, then |-> then, else |-> else]

-----------------------------------------------------------------------------
(***************************************************************************)
(* Parser.  A result is a tree and the position after it, or a failure.    *)
(***************************************************************************)
Binding == [s \in {"==", "<", ">", "+", "-", "*"} |->
              CASE s = "==" -> 1 [] s \in {"<", ">"} -> 2 [] s \in {"+", "-"} -> 3 [] s = "*" -> 4]
Types == {"integer", "string"}

Parsed(tree, next) == [ok |-> TRUE, tree |-> tree, next |-> next]
Failed == [ok |-> FALSE, tree |-> NoInit, next |-> 0]

\* peek, which stays at the End token.
Peek(ts, i) == IF i <= Len(ts) THEN ts[i] ELSE Token("end", "")
IsSymbol(ts, i, s) == Peek(ts, i).kind = "symbol" /\ Peek(ts, i).x = s
IsType(ts, i) == Peek(ts, i).kind = "type"

\* expect: p, if the symbol s follows it.
Then(ts, p, s) == IF p.ok /\ IsSymbol(ts, p.next, s) THEN [p EXCEPT !.next = @ + 1] ELSE Failed
\* The tree made of p's.
Made(p, Make(_)) == IF p.ok THEN Parsed(Make(p.tree), p.next) ELSE Failed

RECURSIVE ParseExpr(_, _, _), ParseTail(_, _, _), ParseUnary(_, _), ParseArgs(_, _, _)
RECURSIVE MoreArgs(_, _, _), Continued(_, _, _)

ParsePrimary(ts, i) ==
    LET t == Peek(ts, i) IN
    CASE t.kind \in {"int", "str"} -> Parsed(Lit(IF t.kind = "int" THEN Number(t.x) ELSE Text(t.x)), i + 1)
      [] t.kind = "name" /\ IsSymbol(ts, i + 1, "(") ->
            Made(ParseArgs(ts, i + 2, << >>), LAMBDA args : Call(t.x, args))
      [] t.kind = "name" -> Parsed(Var(t.x), i + 1)
      [] IsSymbol(ts, i, "(") -> Then(ts, ParseExpr(ts, i + 1, 0), ")")
      [] OTHER -> Failed

\* The arguments that follow those in args, and the closing parenthesis.
ParseArgs(ts, i, args) ==
    IF args = << >> /\ IsSymbol(ts, i, ")") THEN Parsed(args, i + 1)
    ELSE MoreArgs(ts, ParseExpr(ts, i, 0), args)

MoreArgs(ts, p, args) ==
    IF ~p.ok THEN Failed
    ELSE IF IsSymbol(ts, p.next, ",") THEN ParseArgs(ts, p.next + 1, Append(args, p.tree))
    ELSE Then(ts, Parsed(Append(args, p.tree), p.next), ")")

\* '(' type ')' is a cast, any other '(' a group.
ParseUnary(ts, i) ==
    IF IsSymbol(ts, i, "(") /\ IsType(ts, i + 1) /\ IsSymbol(ts, i + 2, ")")
    THEN Made(ParseUnary(ts, i + 3), LAMBDA e : Cast(Peek(ts, i + 1).x, e))
    ELSE ParsePrimary(ts, i)

\* Operators that bind at least as tightly as min, to the left.
ParseTail(ts, left, min) ==
    LET t == Peek(ts, left.next) IN
    IF t.kind # "symbol" \/ t.x \notin DOMAIN Binding \/ Binding[t.x] < min THEN left
    ELSE Continued(ts, Made(ParseExpr(ts, left.next + 1, Binding[t.x] + 1),
                         LAMBDA e : Bin(t.x, left.tree, e)), min)

Continued(ts, left, min) == IF left.ok THEN ParseTail(ts, left, min) ELSE Failed

ParseExpr(ts, i, min) == Continued(ts, ParseUnary(ts, i), min)

RECURSIVE ParseStatement(_, _), ParseStatements(_, _, _), MoreStatements(_, _, _)

\* The statements up to the closing brace.
ParseStatements(ts, i, done) ==
    IF IsSymbol(ts, i, "}") THEN Parsed(done, i + 1)
    ELSE MoreStatements(ts, ParseStatement(ts, i), done)

MoreStatements(ts, p, done) ==
    IF p.ok THEN ParseStatements(ts, p.next, Append(done, p.tree)) ELSE Failed

ParseBlock(ts, i) == IF IsSymbol(ts, i, "{") THEN ParseStatements(ts, i + 1, << >>) ELSE Failed

ParseDecl(ts, i) ==
    LET type == Peek(ts, i).x
        name == Peek(ts, i + 1) IN
    IF name.kind # "name" THEN Failed
    ELSE IF IsSymbol(ts, i + 2, "=")
    THEN Made(Then(ts, ParseExpr(ts, i + 3, 0), ";"), LAMBDA e : Decl(type, name.x, e))
    ELSE Then(ts, Parsed(Decl(type, name.x, NoInit), i + 2), ";")

Parenthesised(ts, i) ==
    IF IsSymbol(ts, i, "(") THEN Then(ts, ParseExpr(ts, i + 1, 0), ")") ELSE Failed

\* The block after the condition, and that after the else.
ConditionAndBody(ts, cond) ==
    IF cond.ok THEN Made(ParseBlock(ts, cond.next), LAMBDA body : <<cond.tree, body>>) ELSE Failed
Alternative(ts, p) ==
    IF p.ok /\ IsSymbol(ts, p.next, "else")
    THEN Made(ParseBlock(ts, p.next + 1), LAMBDA else : If(p.tree[1], p.tree[2], else))
    ELSE Made(p, LAMBDA tree : If(tree[1], tree[2], << >>))

ParseStatement(ts, i) ==
    IF IsType(ts, i) THEN ParseDecl(ts, i)
    ELSE IF IsSymbol(ts, i, "while")
    THEN Made(ConditionAndBody(ts, Parenthesised(ts, i + 1)), LAMBDA tree : While(tree[1], tree[2]))
    ELSE IF IsSymbol(ts, i, "{") THEN Made(ParseBlock(ts, i), Block)
    ELSE IF IsSymbol(ts, i, "if") THEN Alternative(ts, ConditionAndBody(ts, Parenthesised(ts, i + 1)))
    ELSE IF Peek(ts, i).kind = "name" /\ IsSymbol(ts, i + 1, "=")
    THEN Made(Then(ts, ParseExpr(ts, i + 2, 0), ";"), LAMBDA e : Assign(Peek(ts, i).x, e))
    ELSE Made(Then(ts, ParseExpr(ts, i, 0), ";"), Expr)

-----------------------------------------------------------------------------
(***************************************************************************)
(* Compiler.  c holds the code so far, the locals of the handler and the   *)
(* static type of the last expression; ok is FALSE after an error.         *)
(***************************************************************************)
HostParams == [f \in {"llOwnerSay", "llSay"} |->
                 IF f = "llSay" THEN <<"integer", "string">> ELSE <<"string">>]

Emit(c, op, a) == [c EXCEPT !.code = Append(@, [op |-> op, a |-> a, v |-> Number(0)])]
EmitConst(c, v) == [c EXCEPT !.code = Append(@, [op |-> "PushConst", a |-> 0, v |-> v])]
Typed(c, type) == [c EXCEPT !.type = type]
Require(c, condition) == [c EXCEPT !.ok = @ /\ condition]
CodeEnd(c) == Len(c.code) + 1
\* Mutant: off by one.
PatchBefore(c, at) == [c EXCEPT !.code[at].a = CodeEnd(c) - 1]

Patch(c, at) == [c EXCEPT !.code[at].a = CodeEnd(c)]

\* A name is a local of the handler, wherever it was declared, or a global.
Access(c, globals, name, load) ==
    IF name \in DOMAIN c.locals
    THEN Typed(Emit(c, IF load THEN "LoadLocal" ELSE "StoreLocal", c.locals[name].slot), c.locals[name].t)
    ELSE IF name \in DOMAIN globals
    THEN Typed(Emit(c, IF load THEN "LoadGlobal" ELSE "StoreGlobal", globals[name].slot), globals[name].t)
    ELSE Require(c, FALSE)

TypeOfName(c, globals, name) ==
    IF name \in DOMAIN c.locals THEN c.locals[name].t
    ELSE IF name \in DOMAIN globals THEN globals[name].t ELSE "none"

BinaryOps == [s \in DOMAIN Binding |->
    CASE s = "==" -> "EqualInt" [] s = "<" -> "LessInt" [] s = ">" -> "GreaterInt"
      [] s = "+" -> "AddInt" [] s = "-" -> "SubInt" [] s = "*" -> "MulInt"]

RECURSIVE CompileExpr(_, _, _), CompileArgs(_, _, _, _, _)

Expect(c, type) == Require(c, c.type = type)

CompileArgs(c, g, args, params, i) ==
    IF i > Len(args) THEN c
    ELSE CompileArgs(Expect(CompileExpr(c, g, args[i]), params[i]), g, args, params, i + 1)

CompileCast(c, to) ==
    IF to = "integer" THEN Expect(c, "integer")
    ELSE IF c.type = "integer" THEN Typed(Emit(c, "CastIntToStr", 0), "string")
    ELSE Expect(c, "string")

\* The operator after both operands; left is the type of the first.
CompileOperator(c, left, op) ==
    IF op = "+" /\ left = "string" /\ c.type = "string" THEN Emit(c, "ConcatStr", 0)
    ELSE Typed(Emit(Require(Expect(c, "integer"), left = "integer"), BinaryOps[op], 0), "integer")

CompileRight(c, g, e) == CompileOperator(CompileExpr(c, g, e.b), c.type, e.op)

CompileExpr(c, g, e) ==
    CASE e.k = "literal" -> Typed(EmitConst(c, e.value), e.value.t)
      [] e.k = "variable" -> Access(c, g, e.name, TRUE)
      [] e.k = "cast" -> CompileCast(CompileExpr(c, g, e.of), e.to)
      [] e.k = "binary" -> CompileRight(CompileExpr(c, g, e.a), g, e)
      [] e.k = "call" ->
            IF e.name \notin DOMAIN HostParams \/ Len(e.args) # Len(HostParams[e.name])
            THEN Require(c, FALSE)
            ELSE Typed(Emit(CompileArgs(c, g, e.args, HostParams[e.name], 1), e.name, Len(e.args)), "void")

RECURSIVE CompileBlock(_, _, _, _)

\* A declaration takes the next slot before its initialiser is compiled, and
\* is visible from there to the end of the handler.
Declare(c, s, slot) ==
    [Emit(Require(Expect(c, s.type), s.name \notin DOMAIN c.locals), "StoreLocal", slot)
       EXCEPT !.locals = [x \in DOMAIN @ \cup {s.name} |->
                            IF x = s.name THEN [slot |-> slot, t |-> s.type] ELSE @[x]],
              !.count = @ + 1]
CompileDecl(c, g, s) ==
    Declare(IF s.init = NoInit THEN Typed(EmitConst(c, DefaultOf(s.type)), s.type)
            ELSE CompileExpr(c, g, s.init), s, c.count)

\* Code that is skipped when the condition, at the end of c, is zero.
Guarded(c, g, body) == CompileBlock(Emit(Expect(c, "integer"), "JumpIfZero", 0), g, body, 1)

CompileLoop(c, g, s, top) == Patch(Emit(Guarded(c, g, s.body), "Jump", top), CodeEnd(c))

Otherwise(then, g, s, skip) ==
    IF s.else = << >> THEN Patch(then, skip)
    ELSE Patch(CompileBlock(Patch(Emit(then, "Jump", 0), skip), g, s.else, 1), CodeEnd(then))
CompileIf(c, g, s) == Otherwise(Guarded(c, g, s.then), g, s, CodeEnd(c))

Discarded(c) == IF c.type = "void" THEN c ELSE Emit(c, "Pop", 0)

CompileStatement(c, g, s) ==
    CASE s.k = "declaration" -> CompileDecl(c, g, s)
      [] s.k = "assignment" ->
            Access(Expect(CompileExpr(c, g, s.value), TypeOfName(c, g, s.name)), g, s.name, FALSE)
      [] s.k = "expression" -> Discarded(CompileExpr(c, g, s.value))
      [] s.k = "block" -> CompileBlock(c, g, s.body, 1)
      [] s.k = "while" -> CompileLoop(CompileExpr(c, g, s.cond), g, s, CodeEnd(c))
      [] s.k = "if" -> CompileIf(CompileExpr(c, g, s.cond), g, s)

CompileBlock(c, g, body, i) ==
    IF i > Len(body) THEN c ELSE CompileBlock(CompileStatement(c, g, body[i]), g, body, i + 1)

\* compile_event: a handler with its integer parameters in the first slots,
\* after the code that is there.
CompileEvent(code, g, params, body) ==
    LET start == [code |-> code, count |-> Len(params), ok |-> TRUE, type |-> "void",
                  locals |-> [x \in {params[i] : i \in 1..Len(params)} |->
                                [slot |-> (CHOOSE i \in 1..Len(params) : params[i] = x) - 1,
                                 t |-> "integer"]]] IN
    Emit(CompileBlock(start, g, body, 1), "Halt", 0)
=============================================================================
