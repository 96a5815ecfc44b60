------------------------------ MODULE Frontend ------------------------------
(***************************************************************************)
(* A run of the compiler as its driver sees it: main (main.cpp), the       *)
(* semantic actions of the parser (frontend/c_parser.y) on the context and *)
(* its symbol tables, the scanner's errors (frontend/c_lexer.l), and the   *)
(* creation of IR functions (frontend/ast.cpp, ir/builder.cpp).            *)
(*                                                                         *)
(* A semantic action of the parser is one action here, enabled where the   *)
(* grammar allows it; which statements follow each other is otherwise up   *)
(* to the source text.  An expression is abstracted to its type, except    *)
(* for the names it looks up and the functions it calls, which are actions *)
(* of their own.                                                           *)
(***************************************************************************)
EXTENDS SymbolTable, FiniteSets

CONSTANTS
  Main,      \* the identifier "main"
  MaxNest,   \* bound: nesting of blocks, the function's own included
  MaxCalls   \* bound: distinct calls in the program

ASSUME MainAssumption == Main \in Names
ASSUME BoundsAssumption == MaxNest \in Nat /\ MaxCalls \in Nat

VARIABLES
  global,    \* the global symbol table
  scopes,    \* Context::_symTableStack
  nest,      \* the constructs around the current position, innermost last
  current,   \* Context::_currentFunction, while its body is parsed
  order,     \* Program::_functions
  calls,     \* the Call and CallStatement nodes: [caller, callee, wanted]
  nulls,     \* functions that use the result of print as an operand
  resolved,  \* the variable the latest lookup has found
  pc,        \* how far main has got
  exitCode, yyin, output, status,
  created,   \* how many of order have been generated
  unlinked   \* CallInstructions that have no ir::Function

parserVars == <<global, scopes, nest, current, order, calls, nulls>>
driverVars == <<exitCode, yyin, output, status, created, unlinked>>
vars == <<parserVars, resolved, pc, driverVars>>

NoFunction == <<>>
Nowhere == <<>>

\* Values of status other than the exit codes 0 to 5.
Alive == -1
Crashed == -2

Init ==
  /\ global = NoGlobals /\ scopes = <<>> /\ nest = <<>> /\ current = NoFunction
  /\ order = <<>> /\ calls = {} /\ nulls = {} /\ resolved = Nowhere
  /\ pc = "start" /\ exitCode = 0 /\ yyin = "null" /\ output = "untouched"
  /\ status = Alive /\ created = 0 /\ unlinked = {}

-----------------------------------------------------------------------------
(* The driver, before the parser *)

Running(at) == status = Alive /\ pc = at

\* finalize: an open source file is closed, yylex_destroy forgets it.
Finalize(code) == exitCode' = code /\ yyin' = "null"

Exit(code) == status' = code
Crash == status' = Crashed /\ UNCHANGED <<exitCode, yyin, pc>>

\* Wrong number of arguments, or a source file that cannot be opened.
RefuseToStart ==
  /\ Running("start") /\ pc' = "done" /\ Finalize(5) /\ Exit(5)
  /\ UNCHANGED <<parserVars, resolved, output, created, unlinked>>

OpenSource ==
  /\ Running("start") /\ pc' = "parse" /\ yyin' = "open"
  /\ UNCHANGED <<parserVars, resolved, exitCode, output, status, created, unlinked>>

-----------------------------------------------------------------------------
(* The parser *)

\* Where no other token can follow, the parser waits for none before it reduces;
\* elsewhere the end of the text, too, makes it reduce what is complete: the head of
\* a function, an operand, a declaration, the parts of a for.
Parsing == Running("parse")
Reducing == Parsing \/ Running("eof")
InBody == Parsing /\ nest # <<>>
ReducingBody == Reducing /\ nest # <<>>

\* finalize(3) and YYERROR: yyparse gives up, there is no error token to recover at.
Reject ==
  /\ Finalize(3) /\ pc' = "failed"
  /\ UNCHANGED <<parserVars, resolved, output, status, created, unlinked>>

Proceed == UNCHANGED <<resolved, pc, driverVars>>

\* func_decl
DeclareFunction(f, type) ==
  /\ Parsing /\ nest = <<>>
  /\ \/ /\ CanAddFunction(global, f, type, FALSE)
        /\ global' = AddFunction(global, f, type, FALSE)
        /\ Proceed /\ UNCHANGED <<scopes, nest, current, order, calls, nulls>>
     \/ ~CanAddFunction(global, f, type, FALSE) /\ Reject

DistinctNames(xs) == \A i, j \in DOMAIN xs : xs[i] = xs[j] => i = j

ParameterTable(f, xs) ==
  [x \in Names |-> IF \E i \in DOMAIN xs : xs[i] = x
                   THEN f.params[CHOOSE i \in DOMAIN xs : xs[i] = x] ELSE NoVariable]

\* func_impl up to its left brace: a table with the parameters, named xs, and the
\* function, which counts as defined from here on.
BeginFunction(f, type, xs) ==
  LET legal == DistinctNames(xs) /\ CanAddFunction(global, f, type, TRUE)
  IN
  /\ Reducing /\ nest = <<>>
  /\ \/ /\ legal
        /\ scopes' = Append(scopes, ParameterTable(f, xs))
        /\ global' = AddFunction(global, f, type, TRUE)
        /\ current' = f /\ nest' = <<"function">>
        /\ Proceed /\ UNCHANGED <<order, calls, nulls>>
     \/ ~legal /\ Reject

\* func_impl completed, and its addition to the program by the rule for body.
EndFunction ==
  /\ InBody /\ nest = <<"function">>
  /\ order' = Append(order, current) /\ current' = NoFunction
  /\ scopes' = PopSymbolTable(scopes) /\ nest' = <<>>
  /\ Proceed /\ UNCHANGED <<global, calls, nulls>>

\* if, while and for after their heads: the condition is of type cond.
OpenBlock(kind, cond) ==
  /\ InBody /\ Len(nest) < MaxNest
  /\ \/ /\ cond = "int"
        /\ scopes' = NewSymbolTable(scopes) /\ nest' = Append(nest, kind)
        /\ Proceed /\ UNCHANGED <<global, current, order, calls, nulls>>
     \/ cond # "int" /\ Reject

\* Mutant of ReplaceTop: the table of the first branch stays.
KeepTop(ss) == ss

\* popSymbolTable and newSymbolTable, between the branches of an if.
ReplaceTop(ss) == NewSymbolTable(PopSymbolTable(ss))

StartElse ==
  /\ InBody /\ nest[Len(nest)] = "if"
  /\ scopes' = ReplaceTop(scopes) /\ nest' = [nest EXCEPT ![Len(nest)] = "else"]
  /\ Proceed /\ UNCHANGED <<global, current, order, calls, nulls>>

CloseBlock ==
  /\ InBody /\ nest[Len(nest)] \in {"else", "while", "for"}
  /\ scopes' = PopSymbolTable(scopes) /\ nest' = SubSeq(nest, 1, Len(nest) - 1)
  /\ Proceed /\ UNCHANGED <<global, current, order, calls, nulls>>

\* decl_id_list: x of the given type, initialised with a value of type init.
DeclareVariable(x, type, init) ==
  LET legal == /\ ~IsFunctionName(global, scopes, x) /\ CanAddVariable(scopes, x)
               /\ init = type
  IN
  /\ ReducingBody
  /\ \/ /\ legal /\ scopes' = AddVariable(scopes, x, type)
        /\ Proceed /\ UNCHANGED <<global, nest, current, order, calls, nulls>>
     \/ ~legal /\ Reject

\* What a use of the name x refers to.
Lookup(x) ==
  IF IsVariable(scopes, x)
  THEN LET l == FindVariable(scopes, x) IN <<x, l, scopes[l][x]>>
  ELSE Nowhere

Found(x) == resolved' = Lookup(x) /\ UNCHANGED <<parserVars, pc, driverVars>>

\* expr : ID
UseVariable(x) ==
  /\ ReducingBody
  /\ (IsVariable(scopes, x) /\ Found(x)) \/ (~IsVariable(scopes, x) /\ Reject)

\* assign_stmt, for_init and for_iter: a value of the given type.
Assign(x, type) ==
  LET legal == IsVariable(scopes, x) /\ Lookup(x)[3] = type
  IN  ReducingBody /\ ((legal /\ Found(x)) \/ (~legal /\ Reject))

\* return_stmt, with the type of its expression or none.
Return(type) ==
  /\ InBody
  /\ \/ global.type[current] = type /\ Proceed /\ UNCHANGED parserVars
     \/ global.type[current] # type /\ Reject

\* call_stmt and the call expression.  Only the exact parameter types match.
CallFunction(f, wanted) ==
  LET call == [caller |-> current, callee |-> f, wanted |-> wanted]
  IN
  /\ InBody
  /\ \/ /\ global.type[f] # Undeclared
        /\ Cardinality(calls \cup {call}) <= MaxCalls
        /\ calls' = calls \cup {call}
        /\ Proceed /\ UNCHANGED <<global, scopes, nest, current, order, nulls>>
     \/ global.type[f] = Undeclared /\ Reject

\* A call with an argument of type void: the mangler returns nullptr as a string.
CallWithVoidArgument ==
  InBody /\ Crash /\ UNCHANGED <<parserVars, resolved, output, created, unlinked>>

\* print as an operand of a comparison, or as an argument of another print.
UsePrintResult ==
  /\ InBody /\ nulls' = nulls \cup {current}
  /\ Proceed /\ UNCHANGED <<global, scopes, nest, current, order, calls>>

\* Any other expression that breaks a typing rule.
Mistyped == SomeMistyped(ExprTypes)

MistypedExpression == ReducingBody /\ Mistyped /\ Reject

\* The scanner meets text that is no token; the parser is told the text has ended.
LexicalError ==
  /\ Parsing /\ Finalize(1) /\ pc' = "eof"
  /\ UNCHANGED <<parserVars, resolved, output, status, created, unlinked>>

EndOfInput ==
  /\ Parsing /\ pc' = "eof"
  /\ UNCHANGED <<parserVars, resolved, driverVars>>

\* yyerror: the next token fits nowhere.
SyntaxError ==
  /\ Reducing /\ pc' = "failed" /\ UNCHANGED <<parserVars, resolved, driverVars>>

Accept ==
  /\ Running("eof") /\ nest = <<>>
  /\ pc' = "checks" /\ UNCHANGED <<parserVars, resolved, driverVars>>

-----------------------------------------------------------------------------
(* The driver, after the parser *)

\* result != 0
ParserFailed ==
  LET code == IF exitCode = 0 THEN 2 ELSE exitCode
  IN
  /\ Running("failed") /\ pc' = "done" /\ Finalize(code) /\ Exit(code)
  /\ UNCHANGED <<parserVars, resolved, output, created, unlinked>>

MainIsRight ==
  \E f \in Functions : global.links[Main] = <<f>> /\ global.type[f] = "int" /\ f.params = <<>>

\* Mutant of ProgramIsComplete: undefined functions are let through.
ProgramHasMain == MainIsRight

\* The checks between parsing and generation.
ProgramIsComplete ==
  /\ \A f \in Functions : global.type[f] # Undeclared => f \in global.defined
  /\ MainIsRight

CheckProgram ==
  /\ Running("checks")
  /\ \/ /\ ProgramIsComplete /\ pc' = "generate"
        /\ UNCHANGED <<parserVars, resolved, driverVars>>
     \/ /\ ~ProgramIsComplete /\ pc' = "done" /\ Finalize(3) /\ Exit(3)
        /\ UNCHANGED <<parserVars, resolved, output, created, unlinked>>

\* Mutant of GenerateFunction: the function is created after its body.
GenerateBodyFirst ==
  LET f == order[created + 1]
      known == {order[i] : i \in 1 .. created}
      missing == {c \in calls : c.caller = f /\ c.callee \notin known}
      broken == f \in nulls \/ \E c \in missing : c.wanted
  IN
  /\ Running("generate") /\ created < Len(order)
  /\ UNCHANGED <<parserVars, resolved, output>>
  /\ \/ /\ ~broken /\ created' = created + 1 /\ unlinked' = unlinked \cup missing
        /\ UNCHANGED <<pc, exitCode, yyin, status>>
     \/ broken /\ Crash /\ UNCHANGED <<created, unlinked>>

\* Function::generateIr: the IR function is created before its body, in which
\* getFunction finds those created so far.  A result is typed by its function.
GenerateFunction ==
  LET f == order[created + 1]
      known == {order[i] : i \in 1 .. created + 1}
      missing == {c \in calls : c.caller = f /\ c.callee \notin known}
      broken == f \in nulls \/ \E c \in missing : c.wanted
  IN
  /\ Running("generate") /\ created < Len(order)
  /\ UNCHANGED <<parserVars, resolved, output>>
  /\ \/ /\ ~broken /\ created' = created + 1 /\ unlinked' = unlinked \cup missing
        /\ UNCHANGED <<pc, exitCode, yyin, status>>
     \/ broken /\ Crash /\ UNCHANGED <<created, unlinked>>

\* The output file is truncated before anything is translated.  Nobody asks whether
\* it could be opened.
OpenOutput ==
  /\ Running("generate") /\ created = Len(order)
  /\ pc' = "translate" /\ output' \in {"truncated", "untouched"}
  /\ UNCHANGED <<parserVars, resolved, exitCode, yyin, status, created, unlinked>>

\* translateIR asks every call for the name of its function.
Translate ==
  /\ Running("translate")
  /\ UNCHANGED <<parserVars, resolved, output, created, unlinked>>
  /\ \/ unlinked = {} /\ pc' = "emit" /\ UNCHANGED <<exitCode, yyin, status>>
     \/ unlinked # {} /\ Crash

\* getTargetCode: the code is written, or does not fit into memory.  Nobody asks
\* whether the file is open, or whether all of the code has reached it.
Emit ==
  /\ Running("emit")
  /\ UNCHANGED <<parserVars, resolved, created, unlinked>>
  /\ \/ /\ pc' = "close" /\ UNCHANGED <<exitCode, yyin, status>>
        /\ output' \in IF output = "untouched" THEN {"untouched"} ELSE {"partial", "written"}
     \/ pc' = "done" /\ Finalize(4) /\ Exit(4) /\ UNCHANGED output

\* Mutant of CloseSource: the file is closed only if it is open.
CloseIfOpen ==
  /\ Running("close") /\ pc' = "done" /\ yyin' = "null" /\ Exit(0)
  /\ UNCHANGED <<parserVars, resolved, exitCode, output, created, unlinked>>

\* The final fclose(yyin), which crashes when finalize has come first.
CloseSource ==
  /\ Running("close")
  /\ UNCHANGED <<parserVars, resolved, output, created, unlinked>>
  /\ \/ yyin = "open" /\ pc' = "done" /\ yyin' = "null" /\ Exit(0) /\ UNCHANGED exitCode
     \/ yyin = "null" /\ Crash

-----------------------------------------------------------------------------
ParameterNames(f) == [DOMAIN f.params -> Names]

Next ==
  \/ RefuseToStart \/ OpenSource
  \/ \E f \in Functions, type \in ExprTypes :
       \/ DeclareFunction(f, type)
       \/ \E xs \in ParameterNames(f) : BeginFunction(f, type, xs)
  \/ EndFunction
  \/ \E kind \in {"if", "while", "for"}, cond \in ExprTypes : OpenBlock(kind, cond)
  \/ StartElse \/ CloseBlock
  \/ \E x \in Names, type \in Types, init \in ExprTypes : DeclareVariable(x, type, init)
  \/ \E x \in Names : UseVariable(x)
  \/ \E x \in Names, type \in ExprTypes : Assign(x, type)
  \/ \E type \in ExprTypes : Return(type)
  \/ \E f \in Functions, wanted \in BOOLEAN : CallFunction(f, wanted)
  \/ CallWithVoidArgument \/ UsePrintResult \/ MistypedExpression
  \/ LexicalError \/ EndOfInput \/ SyntaxError \/ Accept
  \/ ParserFailed \/ CheckProgram \/ GenerateFunction \/ OpenOutput
  \/ Translate \/ Emit \/ CloseSource

Spec == Init /\ [][Next]_vars

-----------------------------------------------------------------------------
(* Properties *)

ElementsOf(s) == {s[i] : i \in DOMAIN s}

\* Types of all variables; one table per enclosing construct while parsing.
TypeOK ==
  /\ global \in Globals /\ scopes \in Tables /\ Len(scopes) = Len(nest)
  /\ nest \in Seq({"function", "if", "else", "while", "for"})
  /\ current \in Functions \cup {NoFunction} /\ order \in Seq(Functions)
  /\ calls \subseteq [caller : Functions, callee : Functions, wanted : BOOLEAN]
  /\ nulls \subseteq Functions
  /\ pc \in {"start", "parse", "eof", "failed", "checks", "generate", "translate",
             "emit", "close", "done"}
  /\ exitCode \in 0 .. 5 /\ yyin \in {"null", "open"}
  /\ output \in {"untouched", "truncated", "partial", "written"}
  /\ status \in (0 .. 5) \cup {Alive, Crashed}
  /\ created \in 0 .. Len(order) /\ unlinked \subseteq calls

\* The link of a name lists, each once, exactly the defined functions of that name,
\* whether or not a declaration came first (addFunction): main relies on it.
LinksMatchDefinitions ==
  \A x \in Names :
    /\ ElementsOf(global.links[x]) = {f \in global.defined : f.name = x}
    /\ DistinctNames(global.links[x])

\* Every defined function, and no other, is generated once: it is in the program,
\* or its body is being parsed (func_impl, Program::addFunction).
BodiesMatchDefinitions ==
  /\ DistinctNames(order)
  /\ ElementsOf(order) = global.defined \ {current}
  /\ current # NoFunction <=> nest # <<>>
  /\ current # NoFunction => current \in global.defined

\* Nothing said of a function is taken back: calls that were accepted with its
\* type stay right (addFunction).
SignaturesStable ==
  [][/\ \A f \in Functions : global.type[f] # Undeclared => global'.type[f] = global.type[f]
     /\ global.defined \subseteq global'.defined]_vars

\* Code is generated only for programs that define whatever they call or declare
\* and have one function main, an int main(void) (the checks of main.cpp:80-127).
AcceptedIsComplete ==
  pc \in {"generate", "translate", "emit", "close"} =>
    /\ \A c \in calls : c.caller \in ElementsOf(order) /\ c.callee \in ElementsOf(order)
    /\ {f \in ElementsOf(order) : f.name = Main} = {[name |-> Main, params |-> <<>>]}
    /\ global.type[[name |-> Main, params |-> <<>>]] = "int"

\* A program that gets past the parser and calls only what has been defined before,
\* or the calling function itself, is never the cause of a crash (createCall, JAL),
\* if no scanner error and no use of the result of print came before.
WellFormedProgramsCompile ==
  pc \in {"checks", "generate", "translate", "emit", "close", "done"} =>
    \/ \E c \in calls, i, j \in DOMAIN order :
         c.caller = order[i] /\ c.callee = order[j] /\ i < j
    \/ exitCode = 1 \/ nulls # {}
    \/ status # Crashed

\* The exit code against the output file: a rejected program leaves the file alone,
\* one that is too large leaves no code in it, code 0 is kept for programs without an
\* error whose calls have all been linked, and only these (or a text with a scanner
\* error, which the parser has survived) get as far as the file.  Code 0 does not mean
\* that the code has been written: main never asks.
ErrorsWriteNothing ==
  /\ status \in {1, 2, 3, 5} => output = "untouched"
  /\ status = 4 => output \in {"untouched", "truncated"}
  /\ status = 0 => exitCode = 0 /\ unlinked = {}
  /\ output # "untouched" => exitCode \in {0, 1, 4}

\* What the local tables hold, as <<name, level, type>>.
LocalVariables ==
  {v \in Names \X (1 .. Len(scopes)) \X Types : scopes[v[2]][v[1]] = v[3]}

\* Names refer to the variables the language says they refer to.
Scopes == INSTANCE LexicalScope WITH
  blocks <- nest, Kinds <- {"function", "if", "else", "while", "for"},
  variables <- LocalVariables
ImplementsScoping == Scopes!Spec

-----------------------------------------------------------------------------
(* What comments, tests and the documentation say, and the code does not do *)

\* "it also forbids definition of variable with the same name as function"
\* (doc/dokumentace.tex:132; "We cannot shadow functions", c_parser.y:338).
FunctionsNotShadowed ==
  \A f \in Functions : global.type[f] # Undeclared =>
    \A l \in 1 .. Len(scopes) : scopes[l][f.name] = NoVariable

\* After "Check if there is no undefined but declared function" (main.cpp:80) every
\* function that is called exists: a call before the definition compiles too.
ForwardCallsCompile ==
  status = Crashed /\ pc \in {"generate", "translate"} => nulls # {}

\* "error_code=`echo "$test_file" | sed -r "s%^err([1-9]).*%\1%g"`" (testing/
\* build_tests.sh:94): a text with a lexical error ends the compiler with code 1.
LexicalErrorsDecide == exitCode = 1 => status \in {Alive, 1}

\* "This never happens" (frontend/name_mangler.cpp:30).
ManglerSeesNoVoid == pc = "parse" => status # Crashed
=============================================================================
