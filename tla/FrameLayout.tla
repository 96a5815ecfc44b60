---------------------------- MODULE FrameLayout ----------------------------
(***************************************************************************)
(* The program that has been compiled and the layout of its memory: the    *)
(* string constants at the start (TranslateTable), the cells of a frame    *)
(* (FunctionContext::addVar and getInstructions).                          *)
(***************************************************************************)
EXTENDS Integers, Sequences

CONSTANTS
  Functions, Main,
  Sites,        \* the calls in the text: [caller, callee, args, dest], dest 0 for none
  Params,       \* how many of a function's variables are parameters
  Kinds,        \* "word" or "string", of the parameters, then of the local variables
  Returns,      \* and of the result
  SavedRegisters, \* the callee-saved registers of the processor
  Uses,         \* those in a function's calleeSavedSet, in order
  ParamRegisters, \* how many parameters are passed in registers
  Words, Chars, \* values of words, and of characters: not 0, which ends a string
  Data,         \* the string constants, at the start of the memory
  Pointers,     \* where they start
  MemorySize    \* bound: the stack never meets the heap (guards sp > gp), which nothing detects

Base == Len(Data)    \* DATABEGIN
Clobbered == Len(Sites) + 1   \* the return address inside another routine

\* main has no parameters (main.cpp:124); functions save their own registers, each once
\* (calleeSavedSet is a set).
ASSUME FunctionsAssumption ==
  /\ Main \in Functions /\ Params \in [Functions -> Nat] /\ Params[Main] = 0
  /\ Kinds \in [Functions -> Seq({"word", "string"})] /\ Returns \in [Functions -> {"word", "string"}]
  /\ DOMAIN Uses = Functions
  /\ \A f \in Functions :
       /\ Params[f] <= Len(Kinds[f]) /\ Uses[f] \in Seq(SavedRegisters)
       /\ \A m, n \in DOMAIN Uses[f] : Uses[f][m] = Uses[f][n] => m = n

\* Calls are typed (c_parser.y); only defined functions are called (main.cpp:80).
ASSUME SitesAssumption ==
  /\ Sites \in Seq([caller : Functions, callee : Functions, args : Seq(Nat), dest : Nat])
  /\ \A s \in DOMAIN Sites :
       LET kinds == Kinds[Sites[s].caller]
       IN  /\ Len(Sites[s].args) = Params[Sites[s].callee]
           /\ \A n \in DOMAIN Sites[s].args :
                /\ Sites[s].args[n] \in DOMAIN kinds
                /\ kinds[Sites[s].args[n]] = Kinds[Sites[s].callee][n]
           /\ Sites[s].dest # 0 =>
                /\ Sites[s].dest \in DOMAIN kinds
                /\ kinds[Sites[s].dest] = Returns[Sites[s].callee]

\* String constants end with a 0 (TranslateTable).
ASSUME MemoryAssumption ==
  /\ Data \in Seq(Int) /\ (Data # <<>> => Data[Len(Data)] = 0)
  /\ Pointers \subseteq 0 .. Len(Data) - 1
  /\ Words \subseteq Int /\ Chars \subseteq Int \ {0}
  /\ {ParamRegisters, MemorySize} \subseteq Nat /\ Len(Data) <= MemorySize

Variables(f, kind) == {i \in DOMAIN Kinds[f] : Kinds[f][i] = kind}
Recorded(f) == {Uses[f][n] : n \in DOMAIN Uses[f]}

-----------------------------------------------------------------------------
(* The frame of a function: positions are counted in words from fp *)

InRegisters(f) == IF Params[f] <= ParamRegisters THEN Params[f] ELSE ParamRegisters
Slots(f) == InRegisters(f) + Len(Kinds[f]) - Params[f]

\* addVar: parameters that came in registers and local variables below the frame
\* pointer, other parameters above the saved frame pointer and return address.
Cell(f, i, frame) ==
  IF i <= InRegisters(f) THEN frame - i
  ELSE IF i <= Params[f] THEN frame + 1 + (i - ParamRegisters)
  ELSE frame - (InRegisters(f) + i - Params[f])

\* Mutant of SaveCell: the first one where the last variable is.
SaveCellOnVariable(f, n, frame) == frame - (Slots(f) + n - 1)

\* getInstructions: the n-th register saved.
SaveCell(f, n, frame) == frame - (Slots(f) + n)

\* Room for the global pointer and for the arguments that go by the stack.
RequiredSize(f) == 1 + Params[f] - InRegisters(f)

-----------------------------------------------------------------------------
(* Strings, and where in the code of a visit the program is *)

\* The string that starts at p.
StringAt(memory, p) ==
  LET n == CHOOSE n \in 0 .. MemorySize - p :
             /\ p + n = MemorySize \/ memory[p + n] = 0
             /\ \A k \in 0 .. n - 1 : memory[p + k] # 0
  IN  [k \in 1 .. n |-> memory[p + k - 1]]

InitialMemory == [c \in 0 .. MemorySize - 1 |-> IF c < Base THEN Data[c + 1] ELSE 0]
Lines == {StringAt(InitialMemory, p) : p \in Pointers}

IsString(f, i) == i # 0 /\ Kinds[f][i] = "string"

Idle == [step |-> "body", dest |-> 0, at |-> 0, x |-> 0, c |-> 0]
State(step, dest, at, x, c) == [step |-> step, dest |-> dest, at |-> at, x |-> x, c |-> c]

\* What follows the copy of a string.
Then(step) == CASE step = "first" -> "join" [] step = "set" -> "place"
                [] step = "second" -> "finish" [] step = "receive" -> "received"
=============================================================================
