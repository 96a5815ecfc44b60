-------------------------- MODULE Frontend_proofs --------------------------
(***************************************************************************)
(* What is true of every run of the compiler, for any names, functions and *)
(* types, and any number of calls and nested blocks.                       *)
(***************************************************************************)
EXTENDS Frontend, SequenceTheorems, WellFoundedInduction, TLAPS

USE DEF ExprTypes, Void, Undeclared, NoVariable, Alive, Crashed

LEMMA FunctionFacts ==
  ASSUME NEW f \in Functions
  PROVE  f # NoFunction /\ f.name \in Names /\ f.params \in Seq(Types)
  BY FunctionsAssumption DEF NoFunction

\* Lists without repetition.
LEMMA EmptyFacts == ElementsOf(<<>>) = {} /\ DistinctNames(<<>>)
  BY DEF ElementsOf, DistinctNames

LEMMA AppendFacts ==
  ASSUME NEW S, NEW s \in Seq(S), NEW e \in S
  PROVE  /\ ElementsOf(Append(s, e)) = ElementsOf(s) \cup {e}
         /\ DistinctNames(s) /\ e \notin ElementsOf(s) => DistinctNames(Append(s, e))
  BY DEF ElementsOf, DistinctNames

-----------------------------------------------------------------------------
(***************************************************************************)
(* What the parser has built.  A function that is defined has been         *)
(* declared, and calls are of declared functions in defined ones: this is  *)
(* what the checks after parsing rely on.                                  *)
(***************************************************************************)
Kinds == {"function", "if", "else", "while", "for"}
Calls == [caller : Functions, callee : Functions, wanted : BOOLEAN]

ParserTypes ==
  /\ global \in Globals /\ scopes \in Tables /\ Len(scopes) = Len(nest)
  /\ nest \in Seq(Kinds)
  /\ current \in Functions \cup {NoFunction} /\ order \in Seq(Functions)
  /\ calls \subseteq Calls /\ nulls \subseteq Functions

DefinedAreDeclared == \A f \in global.defined : global.type[f] # Undeclared

CallsAreKnown ==
  \A c \in calls : c.caller \in global.defined /\ global.type[c.callee] # Undeclared

\* The outermost construct is the function, and no other is one.
FunctionOutermost == \A i \in DOMAIN nest : nest[i] = "function" <=> i = 1

ParserInv ==
  /\ ParserTypes /\ FunctionOutermost /\ LinksMatchDefinitions /\ BodiesMatchDefinitions
  /\ DefinedAreDeclared /\ CallsAreKnown

LEMMA InitParser == Init => ParserInv
<1> SUFFICES ASSUME Init PROVE ParserInv
  OBVIOUS
<1>1. ParserTypes
  BY DEF Init, ParserTypes, NoGlobals, Globals, Tables, NoFunction, Kinds
<1>2. LinksMatchDefinitions
  <2>1. global.defined = {} /\ \A x \in Names : global.links[x] = <<>>
    BY DEF Init, NoGlobals
  <2> QED
    BY <2>1, EmptyFacts DEF LinksMatchDefinitions
<1>3. BodiesMatchDefinitions
  BY EmptyFacts DEF Init, NoGlobals, BodiesMatchDefinitions, NoFunction
<1> QED
  BY <1>1, <1>2, <1>3 DEF Init, NoGlobals, ParserInv, DefinedAreDeclared, CallsAreKnown, FunctionOutermost

\* Nothing here depends on anything but the parser's variables.
LEMMA ParserFrame == ParserInv /\ UNCHANGED parserVars => ParserInv'
  BY DEF ParserInv, parserVars, ParserTypes, LinksMatchDefinitions,
         BodiesMatchDefinitions, DefinedAreDeclared, CallsAreKnown, FunctionOutermost

\* Actions that change blocks and tables only.
LEMMA BlocksFrame ==
  ASSUME ParserInv, UNCHANGED <<global, current, order, calls, nulls>>,
         scopes' \in Tables, nest' \in Seq(Kinds), Len(scopes') = Len(nest'),
         nest = <<>> <=> nest' = <<>>, FunctionOutermost'
  PROVE  ParserInv'
  BY DEF ParserInv, ParserTypes, LinksMatchDefinitions,
         BodiesMatchDefinitions, DefinedAreDeclared, CallsAreKnown, FunctionOutermost

-----------------------------------------------------------------------------
(* Declarations and definitions of functions *)

\* addFunction keeps the links, whichever of declaration and definition comes first.
LEMMA AddFunctionInv ==
  ASSUME ParserInv, NEW f \in Functions, NEW type \in ExprTypes, NEW d \in BOOLEAN,
         CanAddFunction(global, f, type, d), global' = AddFunction(global, f, type, d),
         calls' = calls
  PROVE  /\ global' \in Globals /\ LinksMatchDefinitions'
         /\ DefinedAreDeclared' /\ CallsAreKnown'
         /\ global'.defined = IF d THEN global.defined \cup {f} ELSE global.defined
         /\ d => f \notin global.defined
<1> USE FunctionFacts DEF ParserInv, ParserTypes
<1>1. global \in Globals
  OBVIOUS
<1>2. /\ global.type \in [Functions -> ExprTypes \cup {Undeclared}]
      /\ global.defined \subseteq Functions /\ global.links \in [Names -> Seq(Functions)]
  BY <1>1 DEF Globals
<1>3. /\ global' \in Globals
      /\ global'.type = [global.type EXCEPT ![f] = type]
      /\ d => global'.defined = global.defined \cup {f}
      /\ ~d => global'.defined = global.defined
      /\ d => global'.links = [global.links EXCEPT ![f.name] = Append(@, f)]
      /\ ~d => global'.links = global.links
  <2>1. /\ [global.type EXCEPT ![f] = type] \in [Functions -> ExprTypes \cup {Undeclared}]
        /\ [global.links EXCEPT ![f.name] = Append(@, f)] \in [Names -> Seq(Functions)]
    BY <1>2
  <2> QED
    BY <1>2, <2>1 DEF AddFunction, Globals
<1>4. d => f \notin global.defined
  BY DEF CanAddFunction, DefinedAreDeclared
<1>5. type # Undeclared
  BY TypesAssumption
<1>6. DefinedAreDeclared' /\ CallsAreKnown'
  BY <1>2, <1>3, <1>5 DEF DefinedAreDeclared, CallsAreKnown, Calls
<1>7. LinksMatchDefinitions'
  <2> SUFFICES ASSUME NEW x \in Names
               PROVE  /\ ElementsOf(global'.links[x]) = {g \in global'.defined : g.name = x}
                      /\ DistinctNames(global'.links[x])
    BY DEF LinksMatchDefinitions
  <2>1. /\ ElementsOf(global.links[x]) = {g \in global.defined : g.name = x}
        /\ DistinctNames(global.links[x]) /\ global.links[x] \in Seq(Functions)
    BY <1>2 DEF LinksMatchDefinitions
  <2>2. CASE d /\ x = f.name
    <3>1. global'.links[x] = Append(global.links[x], f)
      BY <1>2, <1>3, <2>2
    <3>2. f \notin ElementsOf(global.links[x])
      BY <1>4, <2>1, <2>2
    <3>3. {g \in global'.defined : g.name = x} = {g \in global.defined : g.name = x} \cup {f}
      BY <1>3, <2>2
    <3>4. /\ ElementsOf(global'.links[x]) = ElementsOf(global.links[x]) \cup {f}
          /\ DistinctNames(global'.links[x])
      BY <2>1, <3>1, <3>2, AppendFacts
    <3> QED
      BY <2>1, <3>3, <3>4
  <2>3. CASE ~(d /\ x = f.name)
    <3>1. global'.links[x] = global.links[x]
      BY <1>2, <1>3, <2>3
    <3>2. {g \in global'.defined : g.name = x} = {g \in global.defined : g.name = x}
      BY <1>3, <2>3
    <3> QED
      BY <2>1, <3>1, <3>2
  <2> QED
    BY <2>2, <2>3
<1> QED
  BY <1>3, <1>4, <1>6, <1>7

LEMMA DeclareFunctionInv ==
  ASSUME ParserInv, NEW f \in Functions, NEW type \in ExprTypes, DeclareFunction(f, type)
  PROVE  ParserInv'
<1>1. CASE UNCHANGED parserVars
  BY <1>1, ParserFrame
<1>2. CASE /\ CanAddFunction(global, f, type, FALSE)
           /\ global' = AddFunction(global, f, type, FALSE)
           /\ UNCHANGED <<scopes, nest, current, order, calls, nulls>>
  <2>1. /\ global' \in Globals /\ LinksMatchDefinitions' /\ DefinedAreDeclared'
        /\ CallsAreKnown' /\ global'.defined = global.defined
    BY <1>2, AddFunctionInv
  <2>2. ParserTypes' /\ BodiesMatchDefinitions' /\ FunctionOutermost'
    BY <1>2, <2>1 DEF ParserInv, ParserTypes, BodiesMatchDefinitions, FunctionOutermost
  <2> QED
    BY <2>1, <2>2 DEF ParserInv
<1> QED
  BY <1>1, <1>2 DEF DeclareFunction, Reject

LEMMA ParameterTableTyped ==
  ASSUME NEW f \in Functions, NEW xs \in ParameterNames(f)
  PROVE  ParameterTable(f, xs) \in Table
<1> SUFFICES ASSUME NEW x \in Names, \E i \in DOMAIN xs : xs[i] = x
             PROVE  f.params[CHOOSE i \in DOMAIN xs : xs[i] = x] \in Types
  BY DEF ParameterTable, Table
<1>1. DOMAIN xs = DOMAIN f.params
  BY DEF ParameterNames
<1>2. (CHOOSE i \in DOMAIN xs : xs[i] = x) \in DOMAIN f.params
  BY <1>1
<1> QED
  BY <1>2, FunctionFacts

LEMMA BeginFunctionInv ==
  ASSUME ParserInv, NEW f \in Functions, NEW type \in ExprTypes, NEW xs \in ParameterNames(f),
         BeginFunction(f, type, xs)
  PROVE  ParserInv'
<1>1. CASE UNCHANGED parserVars
  BY <1>1, ParserFrame
<1>2. CASE /\ nest = <<>> /\ CanAddFunction(global, f, type, TRUE)
           /\ scopes' = Append(scopes, ParameterTable(f, xs))
           /\ global' = AddFunction(global, f, type, TRUE)
           /\ current' = f /\ nest' = <<"function">>
           /\ UNCHANGED <<order, calls, nulls>>
  <2>1. /\ global' \in Globals /\ LinksMatchDefinitions' /\ DefinedAreDeclared'
        /\ CallsAreKnown' /\ global'.defined = global.defined \cup {f}
        /\ f \notin global.defined
    BY <1>2, AddFunctionInv
  <2>2. ParserTypes'
    <3>1. scopes \in Seq(Table) /\ Len(scopes) = 0
      BY <1>2 DEF ParserInv, ParserTypes, Tables
    <3>2. scopes' \in Seq(Table) /\ Len(scopes') = 1
      BY <1>2, <3>1, ParameterTableTyped
    <3>3. nest' \in Seq(Kinds) /\ Len(nest') = 1
      BY <1>2 DEF Kinds
    <3> QED
      BY <1>2, <2>1, <3>2, <3>3 DEF ParserInv, ParserTypes, Tables
  <2>3. BodiesMatchDefinitions'
    <3>1. current = NoFunction
      BY <1>2 DEF ParserInv, BodiesMatchDefinitions
    <3>2. ElementsOf(order) = global.defined
      BY <3>1, FunctionFacts DEF ParserInv, ParserTypes, BodiesMatchDefinitions, Globals
    <3> QED
      BY <1>2, <2>1, <3>2, FunctionFacts DEF ParserInv, BodiesMatchDefinitions
  <2>4. FunctionOutermost'
    BY <1>2 DEF FunctionOutermost
  <2> QED
    BY <2>1, <2>2, <2>3, <2>4 DEF ParserInv
<1> QED
  BY <1>1, <1>2 DEF BeginFunction, Reject

LEMMA EndFunctionInv == ParserInv /\ EndFunction => ParserInv'
<1> SUFFICES ASSUME ParserInv, EndFunction PROVE ParserInv'
  OBVIOUS
<1>1. /\ current \in global.defined /\ current \in Functions /\ nest = <<"function">>
      /\ current \notin ElementsOf(order)
  BY DEF EndFunction, InBody, ParserInv, ParserTypes, BodiesMatchDefinitions
<1>2. /\ ElementsOf(order') = ElementsOf(order) \cup {current}
      /\ DistinctNames(order') /\ order' \in Seq(Functions)
  BY <1>1, AppendFacts DEF EndFunction, ParserInv, ParserTypes, BodiesMatchDefinitions
<1>3. BodiesMatchDefinitions'
  <2>1. ElementsOf(order') = global.defined
    BY <1>1, <1>2 DEF ParserInv, BodiesMatchDefinitions
  <2>2. NoFunction \notin global.defined
    BY FunctionFacts DEF ParserInv, ParserTypes, Globals
  <2> QED
    BY <1>2, <2>1, <2>2 DEF EndFunction, BodiesMatchDefinitions
<1>4. ParserTypes'
  <2>1. scopes \in Seq(Table) /\ Len(scopes) = 1
    BY <1>1 DEF ParserInv, ParserTypes, Tables
  <2>2. scopes' \in Seq(Table) /\ Len(scopes') = 0
    BY <2>1 DEF EndFunction, PopSymbolTable
  <2> QED
    BY <1>2, <2>2 DEF EndFunction, ParserInv, ParserTypes, Tables
<1> QED
  BY <1>3, <1>4 DEF EndFunction, ParserInv, LinksMatchDefinitions, DefinedAreDeclared,
                    CallsAreKnown, FunctionOutermost

-----------------------------------------------------------------------------
(* The other actions of the parser, and all steps *)

LEMMA BlocksInv ==
  ASSUME ParserInv,
         \/ \E kind \in {"if", "while", "for"}, cond \in ExprTypes : OpenBlock(kind, cond)
         \/ StartElse \/ CloseBlock
         \/ \E x \in Names, type \in Types, init \in ExprTypes : DeclareVariable(x, type, init)
  PROVE  ParserInv'
<1>0. scopes \in Seq(Table) /\ nest \in Seq(Kinds) /\ Len(scopes) = Len(nest)
  BY DEF ParserInv, ParserTypes, Tables
<1>e. EmptyTable \in Table
  BY DEF EmptyTable, Table
<1>1. ASSUME NEW kind \in {"if", "while", "for"}, NEW cond \in ExprTypes, OpenBlock(kind, cond)
      PROVE  ParserInv'
  <2>1. CASE UNCHANGED parserVars
    BY <2>1, ParserFrame
  <2>2. CASE /\ nest # <<>>
             /\ scopes' = NewSymbolTable(scopes) /\ nest' = Append(nest, kind)
             /\ UNCHANGED <<global, current, order, calls, nulls>>
    <3>1. /\ scopes' \in Seq(Table) /\ Len(scopes') = Len(scopes) + 1
          /\ nest' \in Seq(Kinds) /\ Len(nest') = Len(nest) + 1 /\ nest' # <<>>
      BY <1>0, <1>e, <2>2 DEF NewSymbolTable, Kinds
    <3>2. FunctionOutermost'
      BY <1>0, <2>2 DEF FunctionOutermost, ParserInv
    <3> QED
      BY <1>0, <2>2, <3>1, <3>2, BlocksFrame DEF Tables
  <2> QED
    BY <1>1, <2>1, <2>2 DEF OpenBlock, InBody, Reject
<1>2. ASSUME StartElse PROVE ParserInv'
  <2>1. Len(nest) > 0 /\ nest[Len(nest)] = "if"
    BY <1>0, <1>2 DEF StartElse, InBody
  <2>2. scopes' \in Seq(Table) /\ Len(scopes') = Len(scopes)
    <3>1. PopSymbolTable(scopes) \in Seq(Table) /\ Len(PopSymbolTable(scopes)) = Len(scopes) - 1
      BY <1>0, <2>1 DEF PopSymbolTable
    <3> QED
      BY <1>2, <1>e, <3>1 DEF StartElse, ReplaceTop, NewSymbolTable
  <2>3. nest' \in Seq(Kinds) /\ Len(nest') = Len(nest)
    BY <1>0, <1>2, <2>1 DEF StartElse, Kinds
  <2>4. FunctionOutermost'
    BY <1>0, <1>2, <2>1 DEF StartElse, FunctionOutermost, ParserInv
  <2> QED
    BY <1>0, <1>2, <2>1, <2>2, <2>3, <2>4, BlocksFrame DEF StartElse, Tables
<1>3. ASSUME CloseBlock PROVE ParserInv'
  <2>1. Len(nest) > 1 /\ nest[Len(nest)] \in {"else", "while", "for"}
    BY <1>0, <1>3 DEF CloseBlock, InBody, FunctionOutermost, ParserInv
  <2>2. /\ scopes' \in Seq(Table) /\ Len(scopes') = Len(scopes) - 1
        /\ nest' \in Seq(Kinds) /\ Len(nest') = Len(nest) - 1
    BY <1>0, <1>3, <2>1 DEF CloseBlock, PopSymbolTable
  <2>3. FunctionOutermost'
    BY <1>0, <1>3, <2>1 DEF CloseBlock, FunctionOutermost, ParserInv
  <2>4. nest # <<>> /\ nest' # <<>> /\ Len(scopes') = Len(nest')
    BY <1>0, <2>1, <2>2
  <2>5. UNCHANGED <<global, current, order, calls, nulls>>
    BY <1>3 DEF CloseBlock
  <2> QED
    BY <2>2, <2>3, <2>4, <2>5, BlocksFrame DEF Tables
<1>4. ASSUME NEW x \in Names, NEW type \in Types, NEW init \in ExprTypes,
             DeclareVariable(x, type, init)
      PROVE  ParserInv'
  <2>1. CASE UNCHANGED parserVars
    BY <2>1, ParserFrame
  <2>2. CASE /\ nest # <<>> /\ scopes' = AddVariable(scopes, x, type)
             /\ UNCHANGED <<global, nest, current, order, calls, nulls>>
    <3>1. scopes' \in Seq(Table) /\ Len(scopes') = Len(scopes)
      BY <1>0, <2>2 DEF AddVariable, Table
    <3>2. FunctionOutermost'
      BY <2>2 DEF FunctionOutermost, ParserInv
    <3> QED
      BY <1>0, <2>2, <3>1, <3>2, BlocksFrame DEF Tables
  <2> QED
    BY <1>4, <2>1, <2>2 DEF DeclareVariable, ReducingBody, Reject
<1> QED
  BY <1>1, <1>2, <1>3, <1>4

LEMMA CallsInv ==
  ASSUME ParserInv,
         \/ \E f \in Functions, wanted \in BOOLEAN : CallFunction(f, wanted)
         \/ UsePrintResult
  PROVE  ParserInv'
<1>1. ASSUME nest # <<>> PROVE current \in Functions /\ current \in global.defined
  BY <1>1 DEF ParserInv, ParserTypes, BodiesMatchDefinitions
<1>2. ASSUME NEW f \in Functions, NEW wanted \in BOOLEAN, CallFunction(f, wanted)
      PROVE  ParserInv'
  <2>1. CASE UNCHANGED parserVars
    BY <2>1, ParserFrame
  <2>2. CASE /\ nest # <<>> /\ global.type[f] # Undeclared
             /\ calls' = calls \cup
                           {[caller |-> current, callee |-> f, wanted |-> wanted]}
             /\ UNCHANGED <<global, scopes, nest, current, order, nulls>>
    <3>1. ParserTypes' /\ CallsAreKnown'
      BY <1>1, <2>2 DEF ParserInv, ParserTypes, CallsAreKnown, Calls
    <3> QED
      BY <2>2, <3>1 DEF ParserInv, LinksMatchDefinitions, BodiesMatchDefinitions,
                        DefinedAreDeclared, FunctionOutermost
  <2> QED
    BY <1>2, <2>1, <2>2 DEF CallFunction, InBody, Reject
<1>3. ASSUME UsePrintResult PROVE ParserInv'
  <2>1. nulls' \subseteq Functions
    BY <1>1, <1>3 DEF UsePrintResult, InBody, ParserInv, ParserTypes
  <2> QED
    BY <1>3, <2>1 DEF UsePrintResult, ParserInv, ParserTypes, LinksMatchDefinitions,
      BodiesMatchDefinitions, DefinedAreDeclared, CallsAreKnown, FunctionOutermost
<1> QED
  BY <1>2, <1>3

\* The steps of which the parser's variables know nothing.
OtherSteps ==
  \/ RefuseToStart \/ OpenSource
  \/ \E x \in Names : UseVariable(x)
  \/ \E x \in Names, type \in ExprTypes : Assign(x, type)
  \/ \E type \in ExprTypes : Return(type)
  \/ CallWithVoidArgument \/ MistypedExpression
  \/ LexicalError \/ EndOfInput \/ SyntaxError \/ Accept
  \/ ParserFailed \/ CheckProgram \/ GenerateFunction \/ OpenOutput
  \/ Translate \/ Emit \/ CloseSource

LEMMA OtherStepsKeepProgram == OtherSteps => UNCHANGED parserVars
  BY DEF OtherSteps, RefuseToStart, OpenSource, UseVariable, Assign, Found, Reject, Return,
     CallWithVoidArgument, MistypedExpression, LexicalError, EndOfInput, SyntaxError, Accept,
     ParserFailed, CheckProgram, GenerateFunction, OpenOutput, Translate, Emit, CloseSource

LEMMA ParserStep == ParserInv /\ [Next]_vars => ParserInv'
<1> SUFFICES ASSUME ParserInv, [Next]_vars PROVE ParserInv'
  OBVIOUS
<1>1. CASE UNCHANGED vars
  BY <1>1, ParserFrame DEF vars
<1>2. CASE OtherSteps
  BY <1>2, OtherStepsKeepProgram, ParserFrame
<1>3. ASSUME NEW f \in Functions, NEW type \in ExprTypes,
             \/ DeclareFunction(f, type)
             \/ \E xs \in ParameterNames(f) : BeginFunction(f, type, xs)
      PROVE  ParserInv'
  BY <1>3, DeclareFunctionInv, BeginFunctionInv
<1>4. CASE EndFunction
  BY <1>4, EndFunctionInv
<1>5. CASE \/ \E kind \in {"if", "while", "for"}, cond \in ExprTypes : OpenBlock(kind, cond)
           \/ StartElse \/ CloseBlock
           \/ \E x \in Names, type \in Types, init \in ExprTypes :
                DeclareVariable(x, type, init)
  BY <1>5, BlocksInv
<1>6. CASE \/ \E f \in Functions, wanted \in BOOLEAN : CallFunction(f, wanted)
           \/ UsePrintResult
  BY <1>6, CallsInv
<1> QED
  BY <1>1, <1>2, <1>3, <1>4, <1>5, <1>6 DEF Next, OtherSteps

-----------------------------------------------------------------------------
(***************************************************************************)
(* The driver.  As long as main has not returned, its exit code is nonzero *)
(* only after an error of the scanner, or where parsing has failed; the    *)
(* source file has been closed exactly then.                               *)
(***************************************************************************)
AfterParsing == {"checks", "generate", "translate", "emit", "close"}
Generating == {"generate", "translate", "emit", "close"}

DriverTypes ==
  /\ pc \in {"start", "parse", "eof", "failed", "done"} \cup AfterParsing
  /\ exitCode \in 0 .. 5 /\ yyin \in {"null", "open"}
  /\ output \in {"untouched", "truncated", "partial", "written"}
  /\ status \in (0 .. 5) \cup {Alive, Crashed}

SourceFile ==
  /\ pc \in {"start", "parse"} => exitCode = 0
  /\ pc = "parse" => yyin = "open"
  /\ pc \in {"eof"} \cup AfterParsing => exitCode \in {0, 1} /\ (exitCode = 0 <=> yyin = "open")
  /\ pc = "failed" => exitCode \in {0, 1, 3}

OutputFile ==
  /\ pc \in {"start", "parse", "eof", "failed", "checks", "generate"} => output = "untouched"
  /\ pc \in {"translate", "emit"} => output \in {"untouched", "truncated"}

ExitStatus ==
  /\ status \in 0 .. 5 => pc = "done" /\ status = exitCode
  /\ pc = "done" => \/ status = 0
                    \/ status = 4 /\ output \in {"untouched", "truncated"}
                    \/ status \in {1, 2, 3, 5} /\ output = "untouched"
  /\ status = Crashed => pc \in {"parse", "generate", "translate", "close"}
  /\ status = Crashed /\ pc = "close" => exitCode = 1

DriverInv == DriverTypes /\ SourceFile /\ OutputFile /\ ExitStatus

LEMMA InitDriver == Init => DriverInv
  BY DEF Init, DriverInv, DriverTypes, SourceFile, OutputFile, ExitStatus, AfterParsing

\* An error in a semantic action.
LEMMA RejectDriver ==
  ASSUME DriverInv, Reducing, Reject PROVE DriverInv'
<1>1. /\ pc \in {"parse", "eof"} /\ status = Alive /\ output = "untouched"
  BY DEF Reducing, Parsing, Running, DriverInv, OutputFile
<1>2. /\ pc' = "failed" /\ exitCode' = 3 /\ yyin' = "null" /\ UNCHANGED <<output, status>>
  BY DEF Reject, Finalize
<1> QED
  BY <1>1, <1>2 DEF DriverInv, DriverTypes, SourceFile, OutputFile, ExitStatus, AfterParsing

LEMMA ProceedDriver ==
  ASSUME DriverInv, UNCHANGED <<pc, exitCode, yyin, output, status>> PROVE DriverInv'
  BY DEF DriverInv, DriverTypes, SourceFile, OutputFile, ExitStatus, AfterParsing

\* Semantic actions: those that continue, and those that give up.
SemanticActions ==
  \/ \E f \in Functions, type \in ExprTypes :
       \/ DeclareFunction(f, type)
       \/ \E xs \in ParameterNames(f) : BeginFunction(f, type, xs)
  \/ EndFunction
  \/ \E kind \in {"if", "while", "for"}, cond \in ExprTypes : OpenBlock(kind, cond)
  \/ StartElse \/ CloseBlock
  \/ \E x \in Names, type \in Types, init \in ExprTypes : DeclareVariable(x, type, init)
  \/ \E x \in Names : UseVariable(x)
  \/ \E x \in Names, type \in ExprTypes : Assign(x, type)
  \/ \E type \in ExprTypes : Return(type)
  \/ \E f \in Functions, wanted \in BOOLEAN : CallFunction(f, wanted)
  \/ UsePrintResult \/ MistypedExpression

LEMMA SemanticActionsEnd ==
  SemanticActions => /\ Reducing
                     /\ UNCHANGED <<pc, driverVars>> \/ Reject
<1> USE DEF Reducing, ReducingBody, InBody, Proceed, Found
<1> SUFFICES ASSUME SemanticActions PROVE Reducing /\ (UNCHANGED <<pc, driverVars>> \/ Reject)
  OBVIOUS
<1>1. ASSUME NEW f \in Functions, NEW type \in ExprTypes,
             \/ DeclareFunction(f, type)
             \/ \E xs \in ParameterNames(f) : BeginFunction(f, type, xs)
      PROVE  Reducing /\ (UNCHANGED <<pc, driverVars>> \/ Reject)
  BY <1>1 DEF DeclareFunction, BeginFunction
<1>2. CASE EndFunction \/ StartElse \/ CloseBlock \/ UsePrintResult
  BY <1>2 DEF EndFunction, StartElse, CloseBlock, UsePrintResult
<1>3. ASSUME \/ \E kind \in {"if", "while", "for"}, cond \in ExprTypes : OpenBlock(kind, cond)
             \/ \E x \in Names, type \in Types, init \in ExprTypes :
                  DeclareVariable(x, type, init)
             \/ \E f \in Functions, wanted \in BOOLEAN : CallFunction(f, wanted)
      PROVE  Reducing /\ (UNCHANGED <<pc, driverVars>> \/ Reject)
  BY <1>3 DEF OpenBlock, DeclareVariable, CallFunction
<1>4. ASSUME \/ \E x \in Names : UseVariable(x)
             \/ \E x \in Names, type \in ExprTypes : Assign(x, type)
             \/ \E type \in ExprTypes : Return(type)
             \/ MistypedExpression
      PROVE  Reducing /\ (UNCHANGED <<pc, driverVars>> \/ Reject)
  BY <1>4 DEF UseVariable, Assign, Return, MistypedExpression
<1> QED
  BY <1>1, <1>2, <1>3, <1>4 DEF SemanticActions

\* The other steps of the parser and the driver.
DriverActions ==
  \/ RefuseToStart \/ OpenSource \/ CallWithVoidArgument
  \/ LexicalError \/ EndOfInput \/ SyntaxError \/ Accept
  \/ ParserFailed \/ CheckProgram \/ GenerateFunction \/ OpenOutput
  \/ Translate \/ Emit \/ CloseSource

LEMMA NextSplit == Next => SemanticActions \/ DriverActions
  BY DEF Next, SemanticActions, DriverActions

LEMMA DriverStep == DriverInv /\ [Next]_vars => DriverInv'
<1> SUFFICES ASSUME DriverInv, [Next]_vars PROVE DriverInv'
  OBVIOUS
<1> USE DEF Running, Finalize, Exit, Crash, AfterParsing
<1>1. CASE UNCHANGED vars
  BY <1>1, ProceedDriver DEF vars, driverVars
<1>2. CASE SemanticActions
  BY <1>2, SemanticActionsEnd, RejectDriver, ProceedDriver DEF driverVars
<1>3. CASE RefuseToStart \/ OpenSource \/ CallWithVoidArgument
  BY <1>3 DEF RefuseToStart, OpenSource, CallWithVoidArgument, InBody, Parsing,
     DriverInv, DriverTypes, SourceFile, OutputFile, ExitStatus
<1>4. CASE LexicalError \/ EndOfInput \/ SyntaxError \/ Accept
  BY <1>4 DEF LexicalError, EndOfInput, SyntaxError, Accept, Reducing, Parsing, driverVars,
     DriverInv, DriverTypes, SourceFile, OutputFile, ExitStatus
<1>5. CASE ParserFailed
  BY <1>5 DEF ParserFailed, DriverInv, DriverTypes, SourceFile, OutputFile, ExitStatus
<1>6. CASE CheckProgram
  BY <1>6 DEF CheckProgram, driverVars,
     DriverInv, DriverTypes, SourceFile, OutputFile, ExitStatus
<1>7. CASE GenerateFunction
  BY <1>7 DEF GenerateFunction, DriverInv, DriverTypes, SourceFile, OutputFile, ExitStatus
<1>8. CASE OpenOutput \/ Translate
  BY <1>8 DEF OpenOutput, Translate, DriverInv, DriverTypes, SourceFile, OutputFile, ExitStatus
<1>9. CASE Emit \/ CloseSource
  BY <1>9 DEF Emit, CloseSource, DriverInv, DriverTypes, SourceFile, OutputFile, ExitStatus
<1> QED
  BY <1>1, <1>2, <1>3, <1>4, <1>5, <1>6, <1>7, <1>8, <1>9, NextSplit DEF DriverActions

-----------------------------------------------------------------------------
(***************************************************************************)
(* Generation.  A function's body is generated when it and what is before  *)
(* it in order exist; what it does not find comes later.                   *)
(***************************************************************************)
CalledBefore(c) ==
  \E i, j \in DOMAIN order : c.caller = order[i] /\ c.callee = order[j] /\ i < j

GenerationInv ==
  /\ created \in 0 .. Len(order) /\ unlinked \subseteq calls
  /\ pc \in AfterParsing => nest = <<>>
  /\ pc \in Generating => ProgramIsComplete
  /\ pc \in {"start", "parse", "eof", "failed", "checks"} => created = 0 /\ unlinked = {}
  /\ \A c \in unlinked : CalledBefore(c)
  /\ status = Crashed /\ pc \in Generating \ {"close"} =>
       nulls # {} \/ \E c \in calls : CalledBefore(c)

LEMMA InitGeneration == Init => GenerationInv
  BY DEF Init, GenerationInv, AfterParsing, Generating

\* Once all is said, what is called is in order.
LEMMA CompleteOrder ==
  ASSUME ParserInv, nest = <<>>, ProgramIsComplete, NEW c \in calls
  PROVE  c.caller \in ElementsOf(order) /\ c.callee \in ElementsOf(order)
<1>1. ElementsOf(order) = global.defined
  BY FunctionFacts DEF ParserInv, ParserTypes, BodiesMatchDefinitions, Globals
<1>2. c.caller \in global.defined /\ c.callee \in Functions /\ global.type[c.callee] # Undeclared
  BY DEF ParserInv, ParserTypes, CallsAreKnown, Calls
<1> QED
  BY <1>1, <1>2 DEF ProgramIsComplete

LEMMA MissingComesLater ==
  ASSUME ParserInv, nest = <<>>, ProgramIsComplete, created \in 0 .. Len(order),
         created < Len(order), NEW c \in calls, c.caller = order[created + 1],
         c.callee \notin {order[i] : i \in 1 .. created + 1}
  PROVE  CalledBefore(c)
<1>1. PICK j \in DOMAIN order : c.callee = order[j]
  BY CompleteOrder DEF ElementsOf
<1>2. order \in Seq(Functions)
  BY DEF ParserInv, ParserTypes
<1>3. created + 1 \in DOMAIN order /\ created + 1 < j
  BY <1>1, <1>2
<1> QED
  BY <1>1, <1>3 DEF CalledBefore

LEMMA GenerationFrame ==
  ASSUME GenerationInv, UNCHANGED <<parserVars, created, unlinked>>,
         pc' \in AfterParsing => pc \in AfterParsing \/ nest = <<>>,
         pc' \in Generating => pc \in Generating \/ ProgramIsComplete,
         pc' \in {"start", "parse", "eof", "failed", "checks"} =>
           pc \in {"start", "parse", "eof", "failed", "checks"},
         status' = Crashed /\ pc' \in Generating \ {"close"} =>
           nulls # {} \/ \E c \in calls : CalledBefore(c)
  PROVE  GenerationInv'
  BY DEF GenerationInv, parserVars, CalledBefore, ProgramIsComplete, MainIsRight

LEMMA GenerateFunctionInv == ParserInv /\ GenerationInv /\ GenerateFunction => GenerationInv'
<1> SUFFICES ASSUME ParserInv, GenerationInv, GenerateFunction PROVE GenerationInv'
  OBVIOUS
<1> DEFINE f == order[created + 1]
           missing == {c \in calls : c.caller = f
                                     /\ c.callee \notin {order[i] : i \in 1 .. created + 1}}
<1>1. /\ pc = "generate" /\ status = Alive /\ created < Len(order) /\ UNCHANGED parserVars
      /\ nest = <<>> /\ ProgramIsComplete /\ created \in 0 .. Len(order)
  BY DEF GenerateFunction, Running, GenerationInv, AfterParsing, Generating
<1>2. \A c \in missing : c \in calls /\ CalledBefore(c)
  BY <1>1, MissingComesLater
<1>3. CASE /\ created' = created + 1 /\ unlinked' = unlinked \cup missing
           /\ UNCHANGED <<pc, exitCode, yyin, status>>
  <2>1. created' \in 0 .. Len(order) /\ unlinked' \subseteq calls
    BY <1>1, <1>3 DEF GenerationInv
  <2>2. \A c \in unlinked' : CalledBefore(c)
    BY <1>2, <1>3 DEF GenerationInv
  <2> QED
    BY <1>1, <1>3, <2>1, <2>2
    DEF GenerationInv, parserVars, CalledBefore, ProgramIsComplete, MainIsRight
<1>4. CASE /\ f \in nulls \/ \E c \in missing : c.wanted
           /\ Crash /\ UNCHANGED <<created, unlinked>>
  <2>1. nulls # {} \/ \E c \in calls : CalledBefore(c)
    BY <1>2, <1>4
  <2> QED
    BY <1>1, <1>4, <2>1, GenerationFrame DEF Crash
<1> QED
  BY <1>3, <1>4 DEF GenerateFunction

LEMMA GenerationStep == ParserInv /\ GenerationInv /\ [Next]_vars => GenerationInv'
<1> SUFFICES ASSUME ParserInv, GenerationInv, [Next]_vars PROVE GenerationInv'
  OBVIOUS
<1> USE DEF Running, Exit, Crash, AfterParsing, Generating
<1>1. CASE UNCHANGED vars
  BY <1>1, GenerationFrame DEF vars, driverVars, GenerationInv
<1>2. CASE SemanticActions
  <2>1. Reducing /\ (UNCHANGED <<pc, driverVars>> \/ Reject)
    BY <1>2, SemanticActionsEnd
  <2>2. pc \in {"parse", "eof"} /\ created = 0 /\ unlinked = {}
    BY <2>1 DEF Reducing, Parsing, GenerationInv
  <2>3. UNCHANGED <<created, unlinked>> /\ pc' \in {"parse", "eof", "failed"}
    BY <2>1, <2>2 DEF driverVars, Reject
  <2>4. Len(order') \in Nat
    BY ParserStep DEF ParserInv, ParserTypes
  <2> QED
    BY <2>2, <2>3, <2>4 DEF GenerationInv
<1>3. CASE RefuseToStart \/ OpenSource \/ CallWithVoidArgument
  BY <1>3, GenerationFrame DEF RefuseToStart, OpenSource, CallWithVoidArgument, InBody, Parsing
<1>4. CASE LexicalError \/ EndOfInput \/ SyntaxError \/ Accept
  BY <1>4, GenerationFrame
  DEF LexicalError, EndOfInput, SyntaxError, Accept, Reducing, Parsing, driverVars
<1>5. CASE ParserFailed \/ CheckProgram
  BY <1>5, GenerationFrame DEF ParserFailed, CheckProgram, driverVars
<1>6. CASE GenerateFunction
  BY <1>6, GenerateFunctionInv
<1>7. CASE Translate
  <2>1. CASE UNCHANGED status
    BY <1>7, <2>1, GenerationFrame DEF Translate
  <2>2. CASE unlinked # {}
    <3>1. \E c \in calls : CalledBefore(c)
      BY <2>2 DEF GenerationInv
    <3> QED
      BY <1>7, <3>1, GenerationFrame DEF Translate
  <2> QED
    BY <1>7, <2>1, <2>2 DEF Translate
<1>8. CASE OpenOutput \/ Emit \/ CloseSource
  BY <1>8, GenerationFrame DEF OpenOutput, Emit, CloseSource
<1> QED
  BY <1>1, <1>2, <1>3, <1>4, <1>5, <1>6, <1>7, <1>8, NextSplit DEF DriverActions

-----------------------------------------------------------------------------
(***************************************************************************)
(* Translation asks every call for its function: it is over only when all  *)
(* calls are linked, and so is everything that comes after it.             *)
(***************************************************************************)
Translated == pc \in {"emit", "close"} \/ status = 0
LinkedInv == Translated => unlinked = {}

LEMMA LinkedStep == DriverInv /\ LinkedInv /\ [Next]_vars => LinkedInv'
<1> SUFFICES ASSUME DriverInv, LinkedInv, [Next]_vars, Translated' PROVE unlinked' = {}
  BY DEF LinkedInv
<1> USE DEF Running, Exit, Crash, Finalize, Translated
<1>1. CASE UNCHANGED vars
  BY <1>1 DEF vars, driverVars, LinkedInv
<1>2. CASE SemanticActions
  BY <1>2, SemanticActionsEnd DEF Reducing, Parsing, Reject, driverVars
<1>3. CASE RefuseToStart \/ OpenSource \/ CallWithVoidArgument
  BY <1>3 DEF RefuseToStart, OpenSource, CallWithVoidArgument, InBody, Parsing
<1>4. CASE LexicalError \/ EndOfInput \/ SyntaxError \/ Accept
  BY <1>4 DEF LexicalError, EndOfInput, SyntaxError, Accept, Reducing, Parsing, driverVars
<1>5. CASE ParserFailed
  BY <1>5 DEF ParserFailed, DriverInv, SourceFile
<1>6. CASE CheckProgram \/ GenerateFunction \/ OpenOutput
  BY <1>6 DEF CheckProgram, GenerateFunction, OpenOutput, driverVars
<1>7. CASE Translate \/ Emit \/ CloseSource
  BY <1>7 DEF Translate, Emit, CloseSource, LinkedInv
<1> QED
  BY <1>1, <1>2, <1>3, <1>4, <1>5, <1>6, <1>7, NextSplit DEF DriverActions

-----------------------------------------------------------------------------
(* The inductive invariant and what follows from it *)

IInv == ParserInv /\ DriverInv /\ GenerationInv /\ LinkedInv

\* In every reachable state the tables, the program that is being built, main's
\* progress and the generated functions fit together.
THEOREM Invariance == Spec => []IInv
<1>1. Init => IInv
  <2>1. Init => LinkedInv
    BY DEF Init, LinkedInv
  <2> QED
    BY <2>1, InitParser, InitDriver, InitGeneration DEF IInv
<1>2. IInv /\ [Next]_vars => IInv'
  BY ParserStep, DriverStep, GenerationStep, LinkedStep DEF IInv
<1> QED
  BY <1>1, <1>2, PTL DEF Spec

\* Every variable of the compiler's run keeps its type, and there is one table for
\* every open block (Context::_symTableStack).
THEOREM TypeCorrect == Spec => []TypeOK
<1>1. IInv => TypeOK
  BY DEF IInv, ParserInv, ParserTypes, Kinds, Calls, DriverInv, DriverTypes, AfterParsing,
         GenerationInv, TypeOK
<1> QED
  BY <1>1, Invariance, PTL

\* However declarations, definitions and overloads are mixed, the mangling link of a
\* name lists the defined functions of that name (SymbolTable::addFunction).
THEOREM LinksAreRight == Spec => []LinksMatchDefinitions
<1>1. IInv => LinksMatchDefinitions
  BY DEF IInv, ParserInv
<1> QED
  BY <1>1, Invariance, PTL

\* Every defined function has one body in the program or in the parser, no other
\* function has (func_impl, Program::addFunction).
THEOREM BodiesAreRight == Spec => []BodiesMatchDefinitions
<1>1. IInv => BodiesMatchDefinitions
  BY DEF IInv, ParserInv
<1> QED
  BY <1>1, Invariance, PTL

\* No program is translated that calls or declares what it does not define, or whose
\* main is not the one int main(void) (main.cpp:80-127).
THEOREM AcceptedProgramsAreComplete == Spec => []AcceptedIsComplete
<1> SUFFICES IInv => AcceptedIsComplete
  BY Invariance, PTL
<1> SUFFICES ASSUME IInv, pc \in Generating
             PROVE  /\ \A c \in calls : c.caller \in ElementsOf(order)
                                        /\ c.callee \in ElementsOf(order)
                    /\ {f \in ElementsOf(order) : f.name = Main}
                         = {[name |-> Main, params |-> <<>>]}
                    /\ global.type[[name |-> Main, params |-> <<>>]] = "int"
  BY DEF AcceptedIsComplete, Generating
<1>1. ParserInv /\ nest = <<>> /\ ProgramIsComplete
  BY DEF IInv, GenerationInv, AfterParsing, Generating
<1>2. PICK f \in Functions : global.links[Main] = <<f>> /\ global.type[f] = "int" /\ f.params = <<>>
  BY <1>1 DEF ProgramIsComplete, MainIsRight
<1>3. ElementsOf(global.links[Main]) = {f}
  BY <1>2 DEF ElementsOf
<1>4. {g \in global.defined : g.name = Main} = {f}
  BY <1>1, <1>3, MainAssumption DEF ParserInv, LinksMatchDefinitions
<1>5. f = [name |-> Main, params |-> <<>>]
  <2>1. f.name = Main
    BY <1>4
  <2>2. f \in [name : Names, params : Seq(Types)]
    BY FunctionsAssumption
  <2> QED
    BY <1>2, <2>1, <2>2
<1>6. ElementsOf(order) = global.defined
  BY <1>1, FunctionFacts DEF ParserInv, ParserTypes, BodiesMatchDefinitions, Globals
<1> QED
  BY <1>1, <1>2, <1>4, <1>5, <1>6, CompleteOrder

\* The compiler crashes on no program that gets past the parser and calls only what has
\* been defined before, or itself, but for the two known causes (createCall, JAL).
THEOREM WellFormedAreCompiled == Spec => []WellFormedProgramsCompile
<1>1. IInv => WellFormedProgramsCompile
  BY DEF IInv, DriverInv, ExitStatus, GenerationInv, Generating, CalledBefore,
         WellFormedProgramsCompile
<1> QED
  BY <1>1, Invariance, PTL

\* A rejected program leaves the output file alone, one that is too large leaves no code
\* in it, and exit code 0 is kept for programs without an error whose calls have all been
\* linked, whatever happens to the output file (main.cpp).
THEOREM StatusIsRight == Spec => []ErrorsWriteNothing
<1>1. IInv => ErrorsWriteNothing
  BY DEF IInv, DriverInv, DriverTypes, SourceFile, OutputFile, ExitStatus, AfterParsing,
         LinkedInv, Translated, ErrorsWriteNothing
<1> QED
  BY <1>1, Invariance, PTL

\* A later declaration or definition never changes what has been said of a function:
\* calls that were accepted stay right (SymbolTable::addFunction).
THEOREM SignaturesAreStable == Spec => SignaturesStable
<1>1. ASSUME IInv, [Next]_vars
      PROVE  /\ \A g \in Functions : global.type[g] # Undeclared => global'.type[g] = global.type[g]
             /\ global.defined \subseteq global'.defined
  <2>1. CASE global' = global
    BY <2>1
  <2>2. ASSUME NEW f \in Functions, NEW type \in ExprTypes,
               \/ CanAddFunction(global, f, type, FALSE)
                  /\ global' = AddFunction(global, f, type, FALSE)
               \/ CanAddFunction(global, f, type, TRUE)
                  /\ global' = AddFunction(global, f, type, TRUE)
        PROVE  /\ \A g \in Functions :
                    global.type[g] # Undeclared => global'.type[g] = global.type[g]
               /\ global.defined \subseteq global'.defined
    <3>1. global.type \in [Functions -> ExprTypes \cup {Undeclared}]
      BY <1>1 DEF IInv, ParserInv, ParserTypes, Globals
    <3> QED
      BY <2>2, <3>1 DEF AddFunction, CanAddFunction
  <2>3. \/ global' = global
        \/ \E f \in Functions, type \in ExprTypes :
             \/ CanAddFunction(global, f, type, FALSE)
                /\ global' = AddFunction(global, f, type, FALSE)
             \/ CanAddFunction(global, f, type, TRUE)
                /\ global' = AddFunction(global, f, type, TRUE)
    <3>1. CASE UNCHANGED parserVars
      BY <3>1 DEF parserVars
    <3>2. ASSUME NEW f \in Functions, NEW type \in ExprTypes,
                 \/ DeclareFunction(f, type)
                 \/ \E xs \in ParameterNames(f) : BeginFunction(f, type, xs)
          PROVE  \/ UNCHANGED parserVars
                 \/ CanAddFunction(global, f, type, FALSE)
                    /\ global' = AddFunction(global, f, type, FALSE)
                 \/ CanAddFunction(global, f, type, TRUE)
                    /\ global' = AddFunction(global, f, type, TRUE)
      <4>1. CASE DeclareFunction(f, type)
        BY <4>1, Zenon DEF DeclareFunction, Reject
      <4>2. ASSUME NEW xs \in ParameterNames(f), BeginFunction(f, type, xs)
            PROVE  \/ UNCHANGED parserVars
                   \/ CanAddFunction(global, f, type, TRUE)
                      /\ global' = AddFunction(global, f, type, TRUE)
        BY <4>2, Zenon DEF BeginFunction, Reject
      <4> QED
        BY <3>2, <4>1, <4>2
    <3>3. CASE \/ EndFunction \/ StartElse \/ CloseBlock \/ UsePrintResult
               \/ \E kind \in {"if", "while", "for"}, cond \in ExprTypes : OpenBlock(kind, cond)
               \/ \E x \in Names, type \in Types, init \in ExprTypes :
                    DeclareVariable(x, type, init)
               \/ \E f \in Functions, wanted \in BOOLEAN : CallFunction(f, wanted)
      BY <3>3 DEF EndFunction, StartElse, CloseBlock, UsePrintResult, OpenBlock,
         DeclareVariable, CallFunction, Reject, parserVars
    <3>4. CASE OtherSteps
      BY <3>1, <3>4, OtherStepsKeepProgram
    <3>5. CASE UNCHANGED vars
      BY <3>5 DEF vars, parserVars
    <3> QED
      BY <1>1, <3>1, <3>2, <3>3, <3>4, <3>5 DEF Next, OtherSteps
  <2> QED
    BY <2>1, <2>2, <2>3
<1>2. IInv /\ [Next]_vars =>
        [/\ \A f \in Functions :
              global.type[f] # Undeclared => global'.type[f] = global.type[f]
         /\ global.defined \subseteq global'.defined]_vars
  BY <1>1
<1> QED
  BY <1>2, Invariance, PTL DEF Spec, SignaturesStable
-----------------------------------------------------------------------------
(***************************************************************************)
(* The symbol tables are the block structure of the language: every step   *)
(* of the parser on its stack of tables is a step of LexicalScope.         *)
(***************************************************************************)
VariablesOf(ss) == {v \in Names \X (1 .. Len(ss)) \X Types : ss[v[2]][v[1]] = v[3]}

\* A name is in a table just if there is such a variable.
LEMMA VariableFacts ==
  ASSUME NEW ss \in Seq(Table)
  PROVE  /\ \A x \in Names, l \in 1 .. Len(ss) :
              ss[l][x] # NoVariable => <<x, l, ss[l][x]>> \in VariablesOf(ss)
         /\ \A v \in VariablesOf(ss) :
              /\ v[1] \in Names /\ v[2] \in 1 .. Len(ss) /\ v[3] \in Types
              /\ v = <<v[1], v[2], v[3]>> /\ ss[v[2]][v[1]] = v[3] /\ v[3] # NoVariable
<1>1. \A x \in Names, l \in 1 .. Len(ss) : ss[l][x] \in Types \cup {NoVariable}
  BY DEF Table
<1>2. NoVariable \notin Types
  BY TypesAssumption
<1> QED
  BY <1>1, <1>2 DEF VariablesOf

\* newSymbolTable, for a function with its parameters in it.
LEMMA PushFacts ==
  ASSUME NEW ss \in Seq(Table), NEW t \in Table
  PROVE  VariablesOf(Append(ss, t))
           = VariablesOf(ss) \cup {v \in Names \X {Len(ss) + 1} \X Types : t[v[1]] = v[3]}
<1>1. /\ Len(Append(ss, t)) = Len(ss) + 1 /\ Append(ss, t)[Len(ss) + 1] = t
      /\ \A l \in 1 .. Len(ss) : Append(ss, t)[l] = ss[l]
  OBVIOUS
<1>2. Len(ss) \in Nat
  OBVIOUS
<1> QED
  BY <1>1, <1>2 DEF VariablesOf

LEMMA PushEmptyFacts ==
  ASSUME NEW ss \in Seq(Table)
  PROVE  EmptyTable \in Table /\ VariablesOf(NewSymbolTable(ss)) = VariablesOf(ss)
<1>1. EmptyTable \in Table /\ \A x \in Names : EmptyTable[x] \notin Types
  BY TypesAssumption DEF EmptyTable, Table
<1>2. VariablesOf(NewSymbolTable(ss))
        = VariablesOf(ss) \cup {v \in Names \X {Len(ss) + 1} \X Types : EmptyTable[v[1]] = v[3]}
  BY <1>1, PushFacts DEF NewSymbolTable
<1> QED
  BY <1>1, <1>2

\* popSymbolTable
LEMMA PopFacts ==
  ASSUME NEW ss \in Seq(Table), ss # <<>>
  PROVE  /\ PopSymbolTable(ss) \in Seq(Table) /\ Len(PopSymbolTable(ss)) = Len(ss) - 1
         /\ VariablesOf(PopSymbolTable(ss)) = {v \in VariablesOf(ss) : v[2] < Len(ss)}
<1>1. /\ PopSymbolTable(ss) \in Seq(Table) /\ Len(PopSymbolTable(ss)) = Len(ss) - 1
      /\ Len(ss) \in Nat
      /\ \A l \in 1 .. Len(ss) - 1 : PopSymbolTable(ss)[l] = ss[l]
  <2> DEFINE n == Len(ss) - 1
  <2>1. n \in Nat /\ Len(ss) = n + 1
    OBVIOUS
  <2>4. PopSymbolTable(ss) = SubSeq(ss, 1, n)
    BY DEF PopSymbolTable
  <2>5. \A i \in 1 .. n : ss[i] \in Table
    BY <2>1
  <2> HIDE DEF n
  <2>2. SubSeq(ss, 1, n) \in Seq(Table) /\ Len(SubSeq(ss, 1, n)) = n
    <3>1. /\ SubSeq(ss, 1, n) \in Seq(Table)
          /\ Len(SubSeq(ss, 1, n)) = IF 1 <= n THEN n - 1 + 1 ELSE 0
      BY <2>1, <2>5, SubSeqProperties
    <3> QED
      BY <2>1, <3>1
  <2>3. \A l \in 1 .. n : SubSeq(ss, 1, n)[l] = ss[l]
    BY <2>1
  <2> QED
    BY <2>1, <2>2, <2>3, <2>4
<1>2. ASSUME NEW v \in Names \X (1 .. Len(ss)) \X Types
      PROVE  v \in VariablesOf(PopSymbolTable(ss)) <=> v \in VariablesOf(ss) /\ v[2] < Len(ss)
  <2>1. v[2] < Len(ss) <=> v[2] \in 1 .. Len(ss) - 1
    BY <1>1
  <2>2. v \in VariablesOf(ss) <=> ss[v[2]][v[1]] = v[3]
    BY DEF VariablesOf
  <2>3. v \in VariablesOf(PopSymbolTable(ss))
          <=> v[2] \in 1 .. Len(ss) - 1 /\ PopSymbolTable(ss)[v[2]][v[1]] = v[3]
    BY <1>1 DEF VariablesOf
  <2> QED
    BY <1>1, <2>1, <2>2, <2>3
<1>3. VariablesOf(PopSymbolTable(ss)) \subseteq Names \X (1 .. Len(ss)) \X Types
  BY <1>1 DEF VariablesOf
<1>4. VariablesOf(ss) \subseteq Names \X (1 .. Len(ss)) \X Types
  BY DEF VariablesOf
<1> QED
  BY <1>1, <1>2, <1>3, <1>4

\* addVariable
LEMMA AddFacts ==
  ASSUME NEW ss \in Seq(Table), ss # <<>>, NEW x \in Names, NEW type \in Types,
         CanAddVariable(ss, x)
  PROVE  VariablesOf(AddVariable(ss, x, type)) = VariablesOf(ss) \cup {<<x, Len(ss), type>>}
<1> DEFINE new == AddVariable(ss, x, type)
<1>1. /\ Len(new) = Len(ss) /\ Len(ss) \in Nat /\ Len(ss) \in 1 .. Len(ss)
      /\ \A l \in 1 .. Len(ss), y \in Names :
           new[l][y] = IF l = Len(ss) /\ y = x THEN type ELSE ss[l][y]
  BY DEF AddVariable, Table
<1>2. ss[Len(ss)][x] \notin Types
  BY TypesAssumption DEF CanAddVariable
<1> HIDE DEF new
<1>3. ASSUME NEW v \in Names \X (1 .. Len(ss)) \X Types
      PROVE  v \in VariablesOf(new) <=> v \in VariablesOf(ss) \/ v = <<x, Len(ss), type>>
  <2>1. v \in VariablesOf(ss) <=> ss[v[2]][v[1]] = v[3]
    BY DEF VariablesOf
  <2>2. v \in VariablesOf(new) <=> new[v[2]][v[1]] = v[3]
    BY <1>1 DEF VariablesOf
  <2>3. CASE v[2] = Len(ss) /\ v[1] = x
    BY <1>1, <1>2, <2>1, <2>2, <2>3
  <2>4. CASE ~(v[2] = Len(ss) /\ v[1] = x)
    <3>1. v[2] \in 1 .. Len(ss) /\ v[1] \in Names
      OBVIOUS
    <3> QED
      BY <1>1, <2>1, <2>2, <2>4, <3>1
  <2> QED
    BY <2>3, <2>4
<1>4. VariablesOf(new) \subseteq Names \X (1 .. Len(ss)) \X Types
  BY <1>1 DEF VariablesOf
<1>5. VariablesOf(ss) \subseteq Names \X (1 .. Len(ss)) \X Types
  BY DEF VariablesOf
<1>6. <<x, Len(ss), type>> \in Names \X (1 .. Len(ss)) \X Types
  BY <1>1
<1> QED
  BY <1>3, <1>4, <1>5, <1>6 DEF new

LEMMA LocalFacts ==
  /\ LocalVariables = VariablesOf(scopes) /\ LocalVariables' = VariablesOf(scopes')
  BY DEF LocalVariables, VariablesOf

-----------------------------------------------------------------------------
(* The actions of LexicalScope *)

LEMMA TablesTyped ==
  ASSUME ParserInv
  PROVE  scopes \in Seq(Table) /\ nest \in Seq(Kinds) /\ Len(nest) = Len(scopes)
         /\ Len(nest) \in Nat
  BY DEF ParserInv, ParserTypes, Tables

LEMMA OpenRefines ==
  ASSUME ParserInv, NEW kind \in Kinds, NEW t \in Table, nest' = Append(nest, kind),
         scopes' = Append(scopes, t), UNCHANGED resolved
  PROVE  Scopes!Open(kind)
<1>1. LocalVariables'
        = LocalVariables \cup {v \in Names \X {Len(nest) + 1} \X Types : t[v[1]] = v[3]}
  BY TablesTyped, PushFacts, LocalFacts
<1>2. Scopes!Parameters
        \subseteq {v \in Names \X {Len(nest) + 1} \X Types : t[v[1]] = v[3]}
  BY <1>1 DEF Scopes!Parameters
<1>3. Scopes!Parameters \subseteq Names \X {Len(nest) + 1} \X Types
  BY <1>2
<1>4. ASSUME NEW d \in Scopes!Parameters, NEW e \in Scopes!Parameters, d[1] = e[1]
      PROVE  d = e
  <2>1. d = <<d[1], Len(nest) + 1, d[3]>> /\ e = <<e[1], Len(nest) + 1, e[3]>>
    BY <1>3
  <2>2. d[3] = t[d[1]] /\ e[3] = t[e[1]]
    BY <1>2
  <2> QED
    BY <1>4, <2>1, <2>2
<1> QED
  BY <1>1, <1>3, <1>4 DEF Scopes!Open, Scopes!depth

\* What remains when the innermost table is gone.
LEMMA InnerFacts ==
  ASSUME ParserInv, nest # <<>>
  PROVE  /\ scopes # <<>> /\ Len(nest) > 0
         /\ VariablesOf(PopSymbolTable(scopes)) = Scopes!InnerGone
<1>1. scopes # <<>> /\ Len(nest) > 0
  BY TablesTyped
<1>2. VariablesOf(PopSymbolTable(scopes)) = {v \in VariablesOf(scopes) : v[2] < Len(nest)}
  BY <1>1, TablesTyped, PopFacts
<1>3. Scopes!InnerGone = {v \in VariablesOf(scopes) : v[2] < Len(nest)}
  BY LocalFacts DEF Scopes!InnerGone, Scopes!depth
<1> QED
  BY <1>1, <1>2, <1>3

LEMMA CloseRefines ==
  ASSUME ParserInv, nest # <<>>, nest' = SubSeq(nest, 1, Len(nest) - 1),
         scopes' = PopSymbolTable(scopes), UNCHANGED resolved
  PROVE  Scopes!Close
  BY InnerFacts, LocalFacts DEF Scopes!Close, Scopes!depth

LEMMA SwitchRefines ==
  ASSUME ParserInv, StartElse
  PROVE  Scopes!Switch("else")
<1>1. nest # <<>>
  BY DEF StartElse, InBody
<1>2. PopSymbolTable(scopes) \in Seq(Table)
  BY <1>1, InnerFacts, TablesTyped, PopFacts
<1>3. VariablesOf(scopes') = VariablesOf(PopSymbolTable(scopes))
  BY <1>2, PushEmptyFacts DEF StartElse, ReplaceTop
<1> QED
  BY <1>1, <1>3, InnerFacts, LocalFacts DEF StartElse, Proceed, Scopes!Switch, Scopes!depth

LEMMA DeclareRefines ==
  ASSUME ParserInv, nest # <<>>, NEW x \in Names, NEW type \in Types,
         CanAddVariable(scopes, x), scopes' = AddVariable(scopes, x, type),
         UNCHANGED <<nest, resolved>>
  PROVE  Scopes!Declare(x, type)
<1>1. scopes \in Seq(Table) /\ scopes # <<>> /\ Len(nest) > 0 /\ Len(nest) = Len(scopes)
  BY InnerFacts, TablesTyped
<1>2. LocalVariables' = LocalVariables \cup {<<x, Len(nest), type>>}
  BY <1>1, AddFacts, LocalFacts
<1>3. ASSUME NEW v \in LocalVariables, v[1] = x PROVE v[2] # Len(nest)
  BY <1>1, <1>3, VariableFacts, LocalFacts DEF CanAddVariable
<1> QED
  BY <1>1, <1>2, <1>3 DEF Scopes!Declare, Scopes!depth

\* findSymbol returns the innermost declaration.
LEMMA FindFacts ==
  ASSUME NEW S, S \subseteq Nat, S # {}, NEW n \in Nat, \A l \in S : l <= n
  PROVE  LET m == CHOOSE l \in S : \A k \in S : k <= l IN m \in S /\ \A k \in S : k <= m
<1> DEFINE D == {n - l : l \in S}
<1>1. D \subseteq Nat /\ D # {}
  <2>1. \A l \in S : n - l \in Nat
    OBVIOUS
  <2> QED
    BY <2>1
<1>2. PICK k \in D : \A j \in D : <<j, k>> \notin OpToRel(<, Nat)
  <2> HIDE DEF D
  <2> QED
    BY <1>1, WFMin, NatLessThanWellFounded, Zenon
<1>3. \A j \in D : ~(j < k)
  <2> HIDE DEF D
  <2> QED
    BY <1>1, <1>2, Zenon DEF OpToRel
<1>4. PICK m \in S : k = n - m
  BY <1>2
<1>5. \A l \in S : ~(n - l < n - m)
  BY <1>3, <1>4
<1>6. \A l \in S : l <= m
  BY <1>5
<1> QED
  BY <1>6

LEMMA LookupRefines ==
  ASSUME ParserInv, NEW x \in Names, resolved' = Lookup(x), UNCHANGED <<scopes, nest>>
  PROVE  Scopes!Resolve(x)
<1>1. scopes \in Seq(Table) /\ Len(scopes) \in Nat
  BY TablesTyped
<1>2. (\E v \in LocalVariables : v[1] = x) <=> IsVariable(scopes, x)
  <2>1. ASSUME NEW v \in LocalVariables, v[1] = x PROVE IsVariable(scopes, x)
    BY <1>1, <2>1, VariableFacts, LocalFacts DEF IsVariable, Levels
  <2>2. ASSUME IsVariable(scopes, x) PROVE \E v \in LocalVariables : v[1] = x
    <3>1. PICK l \in 1 .. Len(scopes) : scopes[l][x] # NoVariable
      BY <2>2 DEF IsVariable, Levels
    <3>2. <<x, l, scopes[l][x]>> \in LocalVariables
      BY <1>1, <3>1, VariableFacts, LocalFacts
    <3> QED
      BY <3>2
  <2> QED
    BY <2>1, <2>2
<1>3. ASSUME IsVariable(scopes, x) PROVE Scopes!Visible(resolved', x)
  <2> DEFINE l == FindVariable(scopes, x)
  <2>1. l \in Levels(scopes, x) /\ \A m \in Levels(scopes, x) : m <= l
    <3>1. /\ Levels(scopes, x) \subseteq Nat /\ Levels(scopes, x) # {}
          /\ \A m \in Levels(scopes, x) : m <= Len(scopes)
      BY <1>1, <1>3 DEF Levels, IsVariable
    <3> QED
      BY <1>1, <3>1, FindFacts DEF FindVariable
  <2>2. resolved' = <<x, l, scopes[l][x]>>
    BY <1>3 DEF Lookup
  <2> HIDE DEF l
  <2>3. resolved' \in VariablesOf(scopes)
    BY <1>1, <2>1, <2>2, VariableFacts DEF Levels
  <2>4. ASSUME NEW v \in VariablesOf(scopes), v[1] = x PROVE v[2] <= l
    BY <1>1, <2>1, <2>4, VariableFacts DEF Levels
  <2> QED
    BY <2>2, <2>3, <2>4, LocalFacts DEF Scopes!Visible
<1>4. ASSUME ~IsVariable(scopes, x) PROVE resolved' = Scopes!Nowhere
  BY <1>4 DEF Lookup, Nowhere, Scopes!Nowhere
<1> QED
  BY <1>2, <1>3, <1>4, LocalFacts DEF Scopes!Resolve

-----------------------------------------------------------------------------
(* Every step *)

LEMMA ScopingInit == Init => Scopes!Init
<1> SUFFICES ASSUME Init PROVE LocalVariables = {}
  BY DEF Init, Scopes!Init, Nowhere, Scopes!Nowhere
<1>1. 1 .. Len(scopes) = {}
  BY DEF Init
<1> QED
  BY <1>1 DEF LocalVariables

LEMMA ScopingStutter ==
  ASSUME UNCHANGED <<scopes, nest, resolved>>
  PROVE  [Scopes!Next]_Scopes!vars
  BY LocalFacts DEF Scopes!vars

LEMMA BeginRefines ==
  ASSUME ParserInv, NEW f \in Functions, NEW type \in ExprTypes, NEW xs \in ParameterNames(f),
         BeginFunction(f, type, xs)
  PROVE  [Scopes!Next]_Scopes!vars
<1>1. CASE UNCHANGED <<scopes, nest, resolved>>
  BY <1>1, ScopingStutter
<1>2. CASE /\ nest = <<>> /\ scopes' = Append(scopes, ParameterTable(f, xs))
           /\ nest' = <<"function">> /\ UNCHANGED resolved
  <2>1. nest' = Append(nest, "function") /\ "function" \in Kinds
    BY <1>2 DEF Kinds
  <2>2. Scopes!Open("function")
    BY <1>2, <2>1, ParameterTableTyped, OpenRefines
  <2> QED
    BY <2>2 DEF Scopes!Next
<1> QED
  BY <1>1, <1>2 DEF BeginFunction, Reject, Proceed, parserVars

LEMMA BlockRefines ==
  ASSUME ParserInv,
         \/ EndFunction \/ StartElse \/ CloseBlock
         \/ \E kind \in {"if", "while", "for"}, cond \in ExprTypes : OpenBlock(kind, cond)
  PROVE  [Scopes!Next]_Scopes!vars
<1>1. CASE EndFunction
  <2>1. nest # <<>> /\ nest' = SubSeq(nest, 1, Len(nest) - 1)
    BY <1>1 DEF EndFunction
  <2>2. Scopes!Close
    BY <1>1, <2>1, CloseRefines DEF EndFunction, Proceed
  <2> QED
    BY <2>2 DEF Scopes!Next
<1>2. CASE StartElse
  BY <1>2, SwitchRefines DEF Scopes!Next
<1>3. CASE CloseBlock
  <2>1. Scopes!Close
    BY <1>3, CloseRefines DEF CloseBlock, InBody, Proceed
  <2> QED
    BY <2>1 DEF Scopes!Next
<1>4. ASSUME NEW kind \in {"if", "while", "for"}, NEW cond \in ExprTypes, OpenBlock(kind, cond)
      PROVE  [Scopes!Next]_Scopes!vars
  <2>1. CASE UNCHANGED <<scopes, nest, resolved>>
    BY <2>1, ScopingStutter
  <2>2. CASE /\ scopes' = NewSymbolTable(scopes) /\ nest' = Append(nest, kind)
             /\ UNCHANGED resolved
    <3>1. Scopes!Open(kind)
      BY <2>2, TablesTyped, PushEmptyFacts, OpenRefines DEF NewSymbolTable, Kinds
    <3> QED
      BY <3>1 DEF Scopes!Next
  <2> QED
    BY <1>4, <2>1, <2>2 DEF OpenBlock, Reject, Proceed, parserVars
<1> QED
  BY <1>1, <1>2, <1>3, <1>4

LEMMA NameRefines ==
  ASSUME ParserInv,
         \/ \E x \in Names, type \in Types, init \in ExprTypes : DeclareVariable(x, type, init)
         \/ \E x \in Names : UseVariable(x)
         \/ \E x \in Names, type \in ExprTypes : Assign(x, type)
  PROVE  [Scopes!Next]_Scopes!vars
<1>1. ASSUME NEW x \in Names, NEW type \in Types, NEW init \in ExprTypes,
             DeclareVariable(x, type, init)
      PROVE  [Scopes!Next]_Scopes!vars
  <2>1. CASE UNCHANGED <<scopes, nest, resolved>>
    BY <2>1, ScopingStutter
  <2>2. CASE /\ CanAddVariable(scopes, x) /\ scopes' = AddVariable(scopes, x, type)
             /\ UNCHANGED <<nest, resolved>>
    <3>1. nest # <<>>
      BY <1>1 DEF DeclareVariable, ReducingBody
    <3>2. Scopes!Declare(x, type)
      BY <2>2, <3>1, DeclareRefines
    <3> QED
      BY <3>2 DEF Scopes!Next
  <2> QED
    BY <1>1, <2>1, <2>2 DEF DeclareVariable, Reject, Proceed, parserVars
<1>2. ASSUME NEW x \in Names, Found(x) PROVE [Scopes!Next]_Scopes!vars
  <2>1. Scopes!Resolve(x)
    BY <1>2, LookupRefines DEF Found, parserVars
  <2> QED
    BY <2>1 DEF Scopes!Next
<1>3. ASSUME Reject PROVE [Scopes!Next]_Scopes!vars
  BY <1>3, ScopingStutter DEF Reject, parserVars
<1> QED
  BY <1>1, <1>2, <1>3 DEF UseVariable, Assign

\* All the other actions touch neither tables nor blocks.
LEMMA OtherRefines ==
  ASSUME \/ RefuseToStart \/ OpenSource
         \/ \E f \in Functions, type \in ExprTypes : DeclareFunction(f, type)
         \/ \E type \in ExprTypes : Return(type)
         \/ \E f \in Functions, wanted \in BOOLEAN : CallFunction(f, wanted)
         \/ CallWithVoidArgument \/ UsePrintResult \/ MistypedExpression
         \/ LexicalError \/ EndOfInput \/ SyntaxError \/ Accept
         \/ ParserFailed \/ CheckProgram \/ GenerateFunction \/ OpenOutput
         \/ Translate \/ Emit \/ CloseSource
  PROVE  [Scopes!Next]_Scopes!vars
<1>1. UNCHANGED <<scopes, nest, resolved>>
  BY DEF RefuseToStart, OpenSource, DeclareFunction, Return, CallFunction,
         CallWithVoidArgument, UsePrintResult, MistypedExpression, LexicalError, EndOfInput,
         SyntaxError, Accept, ParserFailed, CheckProgram, GenerateFunction, OpenOutput,
         Translate, Emit, CloseSource, Reject, Proceed, parserVars
<1> QED
  BY <1>1, ScopingStutter

LEMMA ScopingStep == ParserInv /\ [Next]_vars => [Scopes!Next]_Scopes!vars
<1> SUFFICES ASSUME ParserInv, [Next]_vars PROVE [Scopes!Next]_Scopes!vars
  OBVIOUS
<1>1. CASE UNCHANGED vars
  BY <1>1, ScopingStutter DEF vars, parserVars
<1>2. CASE Next
  BY <1>2, BeginRefines, BlockRefines, NameRefines, OtherRefines, Zenon DEF Next
<1> QED
  BY <1>1, <1>2

\* The symbol tables implement the block structure of the language, for any names,
\* types and depth: a name refers to the innermost visible declaration, and one block
\* declares it once (newSymbolTable, popSymbolTable, addVariable, findSymbol).
THEOREM ScopingIsLexical == Spec => ImplementsScoping
<1>1. IInv /\ [Next]_vars => [Scopes!Next]_Scopes!vars
  BY ScopingStep DEF IInv
<1> QED
  BY <1>1, ScopingInit, Invariance, PTL DEF Spec, ImplementsScoping, Scopes!Spec
=============================================================================
