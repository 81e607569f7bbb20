---------------------------- MODULE FalconMachine ----------------------------
(***************************************************************************)
(* The explicit-stack machine of script/src/vm.cpp, running what           *)
(* FalconLanguage parses and compiles, event after event, and what a       *)
(* script means without tokens, code, slots and stack (Meaning...).        *)
(*                                                                         *)
(* A slice ends between any two instructions, and everything the machine   *)
(* knows is in these variables: yielding is not a step of its own.         *)
(***************************************************************************)
EXTENDS FalconLanguage, SequencesExt

CONSTANTS
    Handler,         \* the statement lists to be checked as bodies of touch_start
    TouchedValues,   \* values of its parameter
    MaxScriptEvents  \* events dispatched to one script

ASSUME MachineAssumption == MaxScriptEvents \in Nat

VARIABLES
    body,      \* the handler, as a tree
    compiled,  \* what the compiler made of state_entry and of it
    ip,        \* ip_
    operands,  \* stack_
    locals,    \* locals_
    globals,   \* globals_
    status,    \* finished_, and whether the script faulted
    events,    \* the parameters of the events so far
    said       \* what the script told the host

machineVars == <<body, compiled, ip, operands, locals, globals, status, events, said>>

\* integer g; string h;
Globals == [x \in {"g", "h"} |-> IF x = "g" THEN [slot |-> 0, t |-> "integer"]
                                 ELSE [slot |-> 1, t |-> "string"]]
GlobalDefaults == <<Number(0), Text(<< >>)>>
Parameters == <<"n">>

EntryBody == <<Expr(Call("llOwnerSay", <<Lit(Text(<<"hello">>))>>))>>

-----------------------------------------------------------------------------
(***************************************************************************)
(* Source text: the tokens of a tree, with the fewest parentheses.         *)
(***************************************************************************)
RECURSIVE ExprTokens(_, _), StatementTokens(_)

Parens(ts) == <<Symbol("(")>> \o ts \o <<Symbol(")")>>

ExprTokens(e, min) ==
    CASE e.k = "literal" -> <<IF e.value.t = "integer" THEN Token("int", e.value.n)
                              ELSE Token("str", e.value.s)>>
      [] e.k = "variable" -> <<Token("name", e.name)>>
      [] e.k = "cast" -> Parens(<<Token("type", e.to)>>) \o ExprTokens(e.of, 9)
      [] e.k = "call" -> <<Token("name", e.name)>> \o
            Parens(FlattenSeq([i \in 1..Len(e.args) |->
                      (IF i = 1 THEN << >> ELSE <<Symbol(",")>>) \o ExprTokens(e.args[i], 0)]))
      [] e.k = "binary" ->
            LET ts == ExprTokens(e.a, Binding[e.op]) \o <<Symbol(e.op)>> \o ExprTokens(e.b, Binding[e.op] + 1) IN
            IF Binding[e.op] < min THEN Parens(ts) ELSE ts

StatementsTokens(list) == FlattenSeq([i \in 1..Len(list) |-> StatementTokens(list[i])])
Braced(list) == <<Symbol("{")>> \o StatementsTokens(list) \o <<Symbol("}")>>

StatementTokens(s) ==
    CASE s.k = "declaration" -> <<Token("type", s.type), Token("name", s.name)>> \o
            (IF s.init = NoInit THEN << >> ELSE <<Symbol("=")>> \o ExprTokens(s.init, 0)) \o <<Symbol(";")>>
      [] s.k = "assignment" ->
            <<Token("name", s.name), Symbol("=")>> \o ExprTokens(s.value, 0) \o <<Symbol(";")>>
      [] s.k = "expression" -> ExprTokens(s.value, 0) \o <<Symbol(";")>>
      [] s.k = "block" -> Braced(s.body)
      [] s.k = "while" -> <<Symbol("while")>> \o Parens(ExprTokens(s.cond, 0)) \o Braced(s.body)
      [] s.k = "if" -> <<Symbol("if")>> \o Parens(ExprTokens(s.cond, 0)) \o Braced(s.then) \o
            (IF s.else = << >> THEN << >> ELSE <<Symbol("else")>> \o Braced(s.else))

-----------------------------------------------------------------------------
(***************************************************************************)
(* The machine.                                                            *)
(***************************************************************************)
Linked(c, parsed, start) ==
    [ok |-> parsed /\ c.ok, code |-> c.code, start |-> start, slots |-> c.count]
CompileHandler(entry, parsed) ==
    Linked(CompileEvent(entry.code, Globals, Parameters, parsed.tree), parsed.ok, Len(entry.code) + 1)
Program(list) ==
    CompileHandler(CompileEvent(<< >>, Globals, << >>, EntryBody), ParseBlock(Braced(list), 1))

MachineInit ==
    /\ body \in Handler
    /\ compiled = Program(body)
    /\ ip = 1
    /\ operands = << >> /\ locals = << >>
    /\ globals = GlobalDefaults
    /\ status = "finished"
    /\ events = << >> /\ said = << >>

\* dispatch: parameters in the first locals, the others integer zeros.
Dispatch(n) ==
    /\ compiled.ok
    /\ status = "finished"
    /\ Len(events) < MaxScriptEvents
    /\ events' = Append(events, n)
    /\ locals' = [i \in 1..compiled.slots |-> IF i = 1 THEN Number(n) ELSE Number(0)]
    /\ operands' = << >>
    /\ ip' = compiled.start
    /\ status' = "running"
    /\ UNCHANGED <<body, compiled, globals, said>>

Top(k) == operands[Len(operands) - k]      \* the k-th value below the top
Below(k) == SubSeq(operands, 1, Len(operands) - k)
Has(k, type) == Len(operands) >= k /\ \A i \in 0..(k - 1) : Top(i).t = type

Arithmetic(op, a, b) ==
    CASE op = "AddInt" -> a + b [] op = "SubInt" -> a - b [] op = "MulInt" -> a * b
      [] op = "LessInt" -> IF a < b THEN 1 ELSE 0
      [] op = "GreaterInt" -> IF a > b THEN 1 ELSE 0
      [] op = "EqualInt" -> IF a = b THEN 1 ELSE 0

Fault == status' = "faulted" /\ UNCHANGED <<ip, operands, locals, globals, said>>
PushValue(v, k) == operands' = Append(Below(k), v) /\ UNCHANGED <<locals, globals, said, status>>

\* step: one instruction.
Instruction ==
    LET i == compiled.code[ip] IN
    /\ status = "running"
    /\ UNCHANGED <<body, compiled, events>>
    /\ \/ i.op = "PushConst" /\ ip' = ip + 1 /\ PushValue(i.v, 0)
       \/ i.op = "LoadLocal" /\ ip' = ip + 1 /\ PushValue(locals[i.a + 1], 0)
       \/ i.op = "LoadGlobal" /\ ip' = ip + 1 /\ PushValue(globals[i.a + 1], 0)
       \/ /\ i.op \in {"StoreLocal", "StoreGlobal", "Pop", "JumpIfZero"}
          /\ operands = << >>
          /\ Fault
       \/ /\ i.op = "StoreLocal" /\ operands # << >>
          /\ locals' = [locals EXCEPT ![i.a + 1] = Top(0)]
          /\ operands' = Below(1) /\ ip' = ip + 1 /\ UNCHANGED <<globals, said, status>>
       \/ /\ i.op = "StoreGlobal" /\ operands # << >>
          /\ globals' = [globals EXCEPT ![i.a + 1] = Top(0)]
          /\ operands' = Below(1) /\ ip' = ip + 1 /\ UNCHANGED <<locals, said, status>>
       \/ /\ i.op \in DOMAIN [o \in {BinaryOps[s] : s \in DOMAIN BinaryOps} |-> o]
          /\ IF Has(2, "integer")
             THEN ip' = ip + 1 /\ PushValue(Number(Arithmetic(i.op, Top(1).n, Top(0).n)), 2)
             ELSE Fault
       \/ /\ i.op = "ConcatStr"
          /\ IF Has(2, "string") THEN ip' = ip + 1 /\ PushValue(Text(Top(1).s \o Top(0).s), 2) ELSE Fault
       \/ /\ i.op = "CastIntToStr"
          /\ IF Has(1, "integer") THEN ip' = ip + 1 /\ PushValue(Text(<<ToString(Top(0).n)>>), 1) ELSE Fault
       \/ /\ i.op = "Pop" /\ operands # << >>
          /\ operands' = Below(1) /\ ip' = ip + 1 /\ UNCHANGED <<locals, globals, said, status>>
       \/ i.op = "Jump" /\ ip' = i.a /\ UNCHANGED <<operands, locals, globals, said, status>>
       \/ /\ i.op = "JumpIfZero" /\ operands # << >>
          /\ IF Top(0).t = "integer"
             THEN /\ ip' = IF Top(0).n = 0 THEN i.a ELSE ip + 1
                  /\ operands' = Below(1) /\ UNCHANGED <<locals, globals, said, status>>
             ELSE Fault
       \/ /\ i.op \in DOMAIN HostParams      \* CallHost; a wrong type says nothing
          /\ IF Len(operands) < i.a THEN Fault
             ELSE LET args == SubSeq(operands, Len(operands) - i.a + 1, Len(operands)) IN
                  /\ said' = IF \A k \in 1..i.a : args[k].t = HostParams[i.op][k]
                             THEN Append(said, <<i.op, args>>) ELSE said
                  /\ operands' = Below(i.a) /\ ip' = ip + 1 /\ UNCHANGED <<locals, globals, status>>
       \/ /\ i.op = "Halt"
          /\ status' = "finished" /\ ip' = ip + 1 /\ UNCHANGED <<operands, locals, globals, said>>

MachineNext == (\E n \in TouchedValues : Dispatch(n)) \/ Instruction

MachineSpec == MachineInit /\ [][MachineNext]_machineVars

-----------------------------------------------------------------------------
(***************************************************************************)
(* The meaning of a handler: m holds the names in scope and what was said. *)
(***************************************************************************)
RECURSIVE MeaningExpr(_, _), MeaningBlock(_, _, _)

Truth(condition) == Number(IF condition THEN 1 ELSE 0)
Combined(op, a, b) ==
    IF a.t = "string" THEN Text(a.s \o b.s)
    ELSE CASE op = "+" -> Number(a.n + b.n) [] op = "-" -> Number(a.n - b.n) [] op = "*" -> Number(a.n * b.n)
           [] op = "<" -> Truth(a.n < b.n) [] op = ">" -> Truth(a.n > b.n) [] op = "==" -> Truth(a.n = b.n)
Converted(to, v) == IF to = v.t THEN v ELSE Text(<<ToString(v.n)>>)

MeaningExpr(m, e) ==
    CASE e.k = "literal" -> e.value
      [] e.k = "variable" -> IF e.name \in DOMAIN m.locals THEN m.locals[e.name] ELSE m.globals[e.name]
      [] e.k = "cast" -> Converted(e.to, MeaningExpr(m, e.of))
      [] e.k = "binary" -> Combined(e.op, MeaningExpr(m, e.a), MeaningExpr(m, e.b))

WithLocal(m, x, v) ==
    [m EXCEPT !.locals = [y \in DOMAIN @ \cup {x} |-> IF y = x THEN v ELSE @[y]]]
WithName(m, x, v) ==
    IF x \in DOMAIN m.locals THEN WithLocal(m, x, v) ELSE [m EXCEPT !.globals[x] = v]

MeaningStatement(m, s) ==
    CASE s.k = "declaration" ->
            WithLocal(m, s.name, IF s.init = NoInit THEN DefaultOf(s.type) ELSE MeaningExpr(m, s.init))
      [] s.k = "assignment" -> WithName(m, s.name, MeaningExpr(m, s.value))
      [] s.k = "expression" ->
            IF s.value.k # "call" THEN m
            ELSE [m EXCEPT !.said = Append(@, <<s.value.name, [i \in 1..Len(s.value.args) |->
                                                 MeaningExpr(m, s.value.args[i])]>>)]
      [] s.k = "block" -> MeaningBlock(m, s.body, 1)
      [] s.k = "while" ->
            IF MeaningExpr(m, s.cond).n = 0 THEN m
            ELSE MeaningBlock(MeaningBlock(m, s.body, 1), <<s>>, 1)
      [] s.k = "if" ->
            MeaningBlock(m, IF MeaningExpr(m, s.cond).n = 0 THEN s.else ELSE s.then, 1)

MeaningBlock(m, list, i) ==
    IF i > Len(list) THEN m ELSE MeaningBlock(MeaningStatement(m, list[i]), list, i + 1)

\* What a script has in its globals and has said after some events.
Meaning(list, ns) ==
    FoldLeft(LAMBDA m, n : MeaningBlock([m EXCEPT !.locals = [x \in {"n"} |-> Number(n)]], list, 1),
             [locals |-> [x \in {} |-> Number(0)], said |-> << >>,
              globals |-> [x \in {"g", "h"} |-> GlobalDefaults[Globals[x].slot + 1]]], ns)

\* A declaration that may be skipped: its name is in scope all the same.
DeclaresInBranch(list) ==
    \E i \in 1..Len(list) :
        list[i].k \in {"if", "while"} /\
        \E j \in DOMAIN (IF list[i].k = "if" THEN list[i].then \o list[i].else ELSE list[i].body) :
            (IF list[i].k = "if" THEN list[i].then \o list[i].else ELSE list[i].body)[j].k = "declaration"

-----------------------------------------------------------------------------
(***************************************************************************)
(* Properties.                                                             *)
(***************************************************************************)

\* The parser inverts printing: precedence, associativity, casts, else.
ParsedAsWritten == ParseBlock(Braced(body), 1) = Parsed(body, Len(Braced(body)) + 1)

\* Values are tagged, slots are those of the handler.
IsValue(v) == v.t \in Types /\ v.n \in Int
MachineTypeOK ==
    /\ status \in {"running", "finished", "faulted"}
    /\ events \in BoundedSeq(TouchedValues, MaxScriptEvents)
    /\ ip \in Nat /\ (events # << >> => Len(locals) = compiled.slots)
    /\ \A bank \in {operands, locals, globals} : \A i \in DOMAIN bank : IsValue(bank[i])

\* When the events are handled, the script has said and keeps in its globals
\* what it means, and nothing is left on the stack.
RunsAsMeant ==
    status = "finished" /\ events # << >> /\ ~DeclaresInBranch(body) =>
        LET m == Meaning(body, events) IN
        /\ said = m.said
        /\ \A x \in DOMAIN Globals : globals[Globals[x].slot + 1] = m.globals[x]
        /\ operands = << >>

\* What compiles does not fault, and stays in its own handler's code.
CompiledNeverFaults ==
    /\ ~DeclaresInBranch(body) => status # "faulted"
    /\ status = "running" => ip \in compiled.start..Len(compiled.code)

\* Does not hold: a value has its static type; a local never holds a value of
\* another type when it is read.
TypesKept == status # "faulted"
=============================================================================
