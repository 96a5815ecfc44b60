---------------------------- MODULE SymbolTable ----------------------------
(***************************************************************************)
(* Symbol tables (frontend/symbol_table.cpp), the stack of them that the   *)
(* parsing context keeps (frontend/context.cpp), and the typing rules that *)
(* the semantic actions of frontend/c_parser.y apply to expressions.       *)
(*                                                                         *)
(* A function symbol is found under its mangled name.  The mangler writes  *)
(* the name, the number of the parameters and a letter per type, with a    *)
(* character no identifier contains around them, so a mangled name stands  *)
(* for exactly one name and list of parameter types: it is that pair here. *)
(***************************************************************************)
EXTENDS Integers, Sequences

CONSTANTS
  Names,      \* identifiers
  Types,      \* the data types of variables in use
  Functions   \* the mangled names in use: [name, params] records

Void == "void"
NoVariable == "none"
Undeclared == "undeclared"
ExprTypes == Types \cup {Void}

ASSUME TypesAssumption == "int" \in Types /\ Types \subseteq {"int", "char", "string"}
ASSUME FunctionsAssumption == Functions \subseteq [name : Names, params : Seq(Types)]

Table == [Names -> Types \cup {NoVariable}]
Tables == Seq(Table)

\* The global table: the return type of every declared function, the defined
\* ones, and per name the mangling link, empty when there is no such symbol.
Globals == [type : [Functions -> ExprTypes \cup {Undeclared}],
            defined : SUBSET Functions, links : [Names -> Seq(Functions)]]

NoGlobals == [type |-> [f \in Functions |-> Undeclared], defined |-> {},
              links |-> [x \in Names |-> <<>>]]

\* Mutant of CanAddFunction: whether the function is defined is not tested.
CanAlwaysDefine(g, f, type, definition) ==
  g.type[f] = Undeclared \/ (definition /\ g.type[f] = type)

\* Mutant of CanAddFunction: the return types are not compared.
CanRetype(g, f, type, definition) ==
  g.type[f] = Undeclared \/ (definition /\ f \notin g.defined)

\* What addFunction requires.  A declaration must be the first thing said of the
\* function; a definition may follow a declaration of the same return type.  That
\* the parameters agree with those declared follows from the mangled name.
CanAddFunction(g, f, type, definition) ==
  \/ g.type[f] = Undeclared
  \/ definition /\ f \notin g.defined /\ g.type[f] = type

\* Mutant of AddFunction: a declaration enters the link as well.
LinkDeclarations(g, f, type, definition) ==
  [g EXCEPT !.type[f] = type,
            !.defined = IF definition THEN g.defined \cup {f} ELSE g.defined,
            !.links[f.name] = Append(@, f)]

\* addFunction: only a definition enters the mangling link of the plain name.
AddFunction(g, f, type, definition) ==
  [type |-> [g.type EXCEPT ![f] = type],
   defined |-> IF definition THEN g.defined \cup {f} ELSE g.defined,
   links |-> IF definition THEN [g.links EXCEPT ![f.name] = Append(@, f)] ELSE g.links]

-----------------------------------------------------------------------------
(* The stack of local tables, innermost last *)

EmptyTable == [x \in Names |-> NoVariable]

NewSymbolTable(scopes) == Append(scopes, EmptyTable)

\* Mutant of PopSymbolTable: nothing is popped.
PopNothing(scopes) == scopes

PopSymbolTable(scopes) ==
  IF scopes = <<>> THEN scopes ELSE SubSeq(scopes, 1, Len(scopes) - 1)

\* addVariable looks at the innermost table only.
CanAddVariable(scopes, x) == scopes[Len(scopes)][x] = NoVariable

AddVariable(scopes, x, type) == [scopes EXCEPT ![Len(scopes)][x] = type]

Levels(scopes, x) == {l \in 1 .. Len(scopes) : scopes[l][x] # NoVariable}

\* Mutant of FindVariable: the stack is searched from its outer end.
FindOutermost(scopes, x) ==
  CHOOSE l \in Levels(scopes, x) : \A m \in Levels(scopes, x) : l <= m

\* Context::findSymbol, when some local table has the name: the innermost does.
FindVariable(scopes, x) ==
  CHOOSE l \in Levels(scopes, x) : \A m \in Levels(scopes, x) : m <= l

IsVariable(scopes, x) == Levels(scopes, x) # {}

\* Context::findSymbol returns a mangling link: no local table has the name.
IsFunctionName(g, scopes, x) == ~IsVariable(scopes, x) /\ g.links[x] # <<>>

-----------------------------------------------------------------------------
(* Typing of expressions *)

IntOperators == {"PLUS", "MINUS", "MULTIPLY", "DIVIDE", "MODULO", "AND", "OR"}
SameTypeOperators == {"LESS", "LESS_EQUAL", "GREATER", "GREATER_EQUAL",
                      "EQUAL", "NOT_EQUAL", "BIT_AND", "BIT_OR"}

\* A binary operator accepts operands of types l and r; its result is an int.
Accepts(op, l, r) == l = r /\ (op \in IntOperators => l = "int")

\* NOT, BIT_NOT and the unary signs accept and return int.
UnaryAccepts(t) == t = "int"

\* A cast from a type to itself, or one of three conversions.
CastAccepts(from, to) ==
  from = to \/ <<from, to>> \in {<<"char", "int">>, <<"char", "string">>, <<"int", "char">>}

\* Parameter types and result of the built-in functions other than print, which
\* takes one argument or more of whatever types.
Builtins ==
  [read_char |-> <<<<>>, "char">>, read_int |-> <<<<>>, "int">>,
   read_string |-> <<<<>>, "string">>, get_at |-> <<<<"string", "int">>, "char">>,
   set_at |-> <<<<"string", "int", "char">>, "string">>,
   strcat |-> <<<<"string", "string">>, "string">>]

BuiltinAccepts(b, args) == IF b = "print" THEN args # <<>> ELSE args = Builtins[b][1]

\* Some expression over operands of the types T is rejected.
SomeMistyped(T) ==
  \/ \E op \in IntOperators \cup SameTypeOperators, l, r \in T : ~Accepts(op, l, r)
  \/ \E t \in T : ~UnaryAccepts(t)
  \/ \E t \in T, to \in Types : ~CastAccepts(t, to)
  \/ \E b \in DOMAIN Builtins \cup {"print"}, t \in T :
       \E args \in {<<>>, <<t>>} : ~BuiltinAccepts(b, args)
=============================================================================
