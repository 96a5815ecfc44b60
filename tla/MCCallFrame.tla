---------------------------- MODULE MCCallFrame ----------------------------
(* Small instances of CallFrame for TLC. *)
EXTENDS CallFrame

Site(caller, callee, arguments, dest) ==
  [caller |-> caller, callee |-> callee, args |-> arguments, dest |-> dest]

\* f gets a string by register, a word and a string by the stack, and calls itself;
\* g gets a word and overwrites a register that it has not recorded.
SomeParams == [main |-> 0, f |-> 3, g |-> 1]
SomeKinds == [main |-> <<"string", "word">>, f |-> <<"string", "word", "string", "word">>,
              g |-> <<"word">>]
SomeReturns == [main |-> "word", f |-> "string", g |-> "word"]
SomeUses == [main |-> <<"s0", "s2">>, f |-> <<"s1", "s0">>, g |-> <<"s0">>]
SomeScratch == [main |-> {}, f |-> {}, g |-> {"s2"}]
SomeSites == << Site("main", "f", <<1, 2, 1>>, 1), Site("f", "f", <<3, 2, 1>>, 3),
                Site("main", "f", <<1, 2, 1>>, 0), Site("main", "g", <<2>>, 2),
                Site("f", "g", <<2>>, 4) >>
EmptyString == <<0>>
=============================================================================
