------------------------------ MODULE CodeSize ------------------------------
(***************************************************************************)
(* How the compiler counts what it emits (updateInstrSize, addInstrSize,   *)
(* getInstructions, ConstStringData) and when it refuses a program that    *)
(* does not fit into memory (getTargetCode), beside the size that the      *)
(* assembler gives the same code.  Sizes are in bytes.                     *)
(***************************************************************************)
EXTENDS Integers, FiniteSetsExt

CONSTANTS
  Functions,      \* in the program
  StringValues,   \* its ConstantValue<string> objects
  Text,           \* the string of each of them
  Length,         \* of each string
  CalleeSaved,    \* registers
  MaxParams,      \* bound: parameters that are passed in registers
  Limit,          \* (1024 - 64) * 1024 in the code
  MaxInstructions \* bound: instructions of the whole program

VARIABLES
  table,          \* ConstStringData::table, a label's number for a value
  datasize,
  instrSize,      \* of every FunctionContext so far
  calleeSavedSet,
  active,         \* activeFunction
  status,         \* "translating", then what getTargetCode does: "accepted" or "refused"
  emitted         \* history: what the assembler makes of the instructions so far

vars == <<table, datasize, instrSize, calleeSavedSet, active, status, emitted>>

Pseudo == {"la", "li", "mul", "div"}
Mnemonics == Pseudo \cup {"move", "lw"}

\* A pseudo-instruction becomes two instructions.
Assembled(m) == IF m \in Pseudo THEN 8 ELSE 4

\* transform writes to the begin of an empty string, whose size remains 0.
Lower(m) == ""
CountedSize(m) == IF Lower(m) \in Pseudo THEN 8 ELSE 4

Init ==
  /\ table = <<>> /\ datasize = 0
  /\ instrSize = <<>> /\ calleeSavedSet = <<>> /\ active = "none"
  /\ status = "translating" /\ emitted = 0

-----------------------------------------------------------------------------
Extended(f, x, v) == [y \in DOMAIN f \cup {x} |-> IF y = x THEN v ELSE f[y]]

\* visit(Function): the first n parameters are stored from their registers.
Begin(f, n) ==
  /\ status = "translating" /\ f \notin DOMAIN instrSize
  /\ active' = f
  /\ instrSize' = Extended(instrSize, f, 4 * n) /\ emitted' = emitted + 4 * n
  /\ calleeSavedSet' = Extended(calleeSavedSet, f, {})
  /\ UNCHANGED <<table, datasize, status>>

Instruction(m) ==
  /\ status = "translating" /\ active # "none" /\ emitted < 8 * MaxInstructions
  /\ instrSize' = [instrSize EXCEPT ![active] = @ + CountedSize(m)]
  /\ emitted' = emitted + Assembled(m)

Emit(m) ==
  /\ m # "la" /\ Instruction(m)
  /\ UNCHANGED <<table, datasize, calleeSavedSet, active, status>>

\* The address of a string constant, by getLabel: by value, and added if it is new.
LoadString(val) ==
  /\ Instruction("la")
  /\ IF \E v \in DOMAIN table : Text[v] = Text[val]
     THEN UNCHANGED <<table, datasize>>
     ELSE /\ table' = Extended(table, val, Cardinality(DOMAIN table))
          /\ datasize' = datasize + Length[Text[val]] + 1
  /\ UNCHANGED <<calleeSavedSet, active, status>>

\* A value is mapped to register reg; saving and restoring it is counted at the end.
TestCalleeSaved(reg) ==
  /\ status = "translating" /\ active # "none" /\ reg \notin calleeSavedSet[active]
  /\ calleeSavedSet' = [calleeSavedSet EXCEPT ![active] = @ \cup {reg}]
  /\ UNCHANGED <<table, datasize, instrSize, active, status, emitted>>

\* Start code, copy routine and comparison routine, each li and la at its real size.
Routines == 7 * 4 + 8 * 4 + 12 * 4

\* getInstructions: prologue, two stack adjustments, saves and restores, epilogue.
FrameCode(f) == 16 + 4 + 4 + 8 * Cardinality(calleeSavedSet[f]) + 20

CodeSize ==
  Routines + datasize
    + MapThenSumSet(LAMBDA f : instrSize[f] + FrameCode(f), DOMAIN instrSize)

GetTargetCode ==
  /\ status = "translating" /\ DOMAIN instrSize = Functions
  /\ status' = IF Limit < CodeSize THEN "refused" ELSE "accepted"
  /\ UNCHANGED <<table, datasize, instrSize, calleeSavedSet, active, emitted>>

Next ==
  \/ \E f \in Functions, n \in 0 .. MaxParams : Begin(f, n)
  \/ \E m \in Mnemonics : Emit(m)
  \/ \E val \in StringValues : LoadString(val)
  \/ \E reg \in CalleeSaved : TestCalleeSaved(reg)
  \/ GetTargetCode

Spec == Init /\ [][Next]_vars

-----------------------------------------------------------------------------
(* Properties *)

\* Every program that getTargetCode does not refuse fits, with its string constants,
\* below the stack: "Generated assemly does not fit into 1MB" (main.cpp:143) is said
\* whenever it does not.
AcceptedProgramsFit ==
  status = "accepted" =>
    Routines + datasize + emitted
      + MapThenSumSet(FrameCode, DOMAIN calleeSavedSet) <= Limit
=============================================================================
