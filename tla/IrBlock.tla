------------------------------- MODULE IrBlock -------------------------------
(***************************************************************************)
(* What the intermediate code means, and so what the emitted code has to   *)
(* deliver: a function is a sequence of blocks of instructions; an         *)
(* instruction reads the current values of its operands and produces the   *)
(* value of its result; variables live from block to block, temporaries    *)
(* are produced once, used at most once, and die with their block.         *)
(***************************************************************************)
CONSTANTS Named, Temp, Const, ZeroConst

VARIABLES
  defined,   \* variables that have been assigned a value
  live,      \* temporaries produced in this block and not yet used
  operands,  \* the operands the intermediate code names in this step
  read       \* the values the machine reads for them

vars == <<defined, live, operands, read>>

Readable == defined \cup live \cup Const \cup {ZeroConst}
ToVariable(d) == {d} \cap Named
ToTemporary(d) == {d} \cap Temp

Init == defined \subseteq Named /\ live = {} /\ operands = <<>> /\ read = <<>>

\* The operands have values, and those values are what is read.
ReadOperands ==
  /\ \A i \in DOMAIN operands' : operands'[i] \in Readable
  /\ read' = operands'

Used == {operands'[i] : i \in DOMAIN operands'}

\* An instruction with a result: a variable or a temporary gets a new value.
Produce(d) ==
  /\ ReadOperands
  /\ live' = (live \ Used) \cup ToTemporary(d)
  /\ defined' = defined \cup ToVariable(d)

\* An instruction, or a part of one, without a result.
Consume == ReadOperands /\ live' = live \ Used /\ UNCHANGED defined

\* Temporaries may be dropped unread, one by one or at the end of the block.
Drop == operands' = <<>> /\ read' = <<>> /\ live' \subseteq live /\ UNCHANGED defined

\* Entering a function gives values to its parameters.
Enter == /\ operands' = <<>> /\ read' = <<>> /\ UNCHANGED live
         /\ defined = {} /\ defined' \subseteq Named

Next == (\E d \in Named \cup Temp : Produce(d)) \/ Consume \/ Drop \/ Enter

Spec == Init /\ [][Next]_vars
=============================================================================
