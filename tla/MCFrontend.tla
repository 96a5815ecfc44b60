----------------------------- MODULE MCFrontend -----------------------------
(* Small instances of Frontend for TLC. *)
EXTENDS Frontend

F(x, ps) == [name |-> x, params |-> ps]

\* Two overloads of main and another function; a function with a parameter.
Overloads == {F("main", <<>>), F("main", <<"int">>), F("f", <<>>)}
OneFunction == {F("f", <<"int">>)}

\* The view TLC identifies states by.  What the latest lookup has found is checked
\* when it is found; loops and else branches are closed alike; once the parser has
\* given up only the driver goes on.
Shape == [i \in DOMAIN nest |-> nest[i] = "if"]
Program == <<global, scopes, Shape, current, order, calls, nulls>>
Future == <<IF pc \in {"failed", "done"} THEN <<>> ELSE Program, pc, driverVars>>
=============================================================================
