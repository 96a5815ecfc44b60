---------------------------- MODULE BasicBlocks ----------------------------
(***************************************************************************)
(* The intermediate code of one function and what the builder does to it:  *)
(* ir/instruction.h, ir/basic_block.cpp, ir/function.cpp, ir/builder.cpp.  *)
(*                                                                         *)
(* A block is named by its position in the sequence bs of all blocks       *)
(* created; the order of the emitted code is another sequence, layout.     *)
(* The sets of defined and used variables are left out: only the printer   *)
(* reads them.                                                             *)
(***************************************************************************)
EXTENDS Integers, Sequences

CONSTANTS
  Operands,   \* variables and literals
  Operations, \* operators, casts and functions called for their value
  Arity,      \* how many operands an operation takes
  One,        \* the condition of a for that has none
  Default     \* what a function, or a declaration, gets if nothing is said

Terminators == {"jump", "condjump", "return"}
OtherInstructions == {"call", "assign", "declare"}

ASSUME OperationsAssumption ==
  /\ Arity \in [Operations -> Nat]
  /\ Operations \cap (Terminators \cup OtherInstructions) = {}
  /\ Operations \cap (Operands \cup {One, Default}) = {}

\* Values: variables and literals, or the n-th temporary created.
Variable(v) == [kind |-> "operand", name |-> v]
Temporary(n) == [kind |-> "temporary", name |-> n]
IsTemporary(v) == v.kind = "temporary"
Temporaries == [kind : {"temporary"}, name : Nat]
Values == [kind : {"operand"}, name : Operands \cup {One, Default}] \cup Temporaries

\* Instructions.  A field that a class has not got is empty; at is the place in the
\* source that asked for the instruction, None for mere jumps and declarations.
None == <<>>
Instruction(op, args, result, targets, at) ==
  [op |-> op, args |-> args, result |-> result, targets |-> targets, at |-> at]

Operation(op, args, t, at) == Instruction(op, args, {t}, <<>>, at)
Call(args, at) == Instruction("call", args, {}, <<>>, at)
Assign(v, at) == Instruction("assign", <<v>>, {}, <<>>, at)
Declaration == Instruction("declare", <<>>, {}, <<>>, None)
Jump(b) == Instruction("jump", <<>>, {}, <<b>>, None)
CondJump(v, b, c, at) == Instruction("condjump", <<v>>, {}, <<b, c>>, at)
Return(args, at) == Instruction("return", args, {}, <<>>, at)


-----------------------------------------------------------------------------
(* Blocks *)

Instructions ==
  [op : Operations \cup Terminators \cup OtherInstructions, args : Seq(Values),
   result : SUBSET Temporaries, targets : Seq(Nat), at : {None} \cup (Nat \X Nat)]

Block == [code : Seq(Instructions), succ : SUBSET Nat, pred : SUBSET Nat]

NewBlock == [code |-> <<>>, succ |-> {}, pred |-> {}]

\* getTerminalInstruction is of one of the given classes.
EndsIn(block, ops) ==
  block.code # <<>> /\ block.code[Len(block.code)].op \in ops

AddInstruction(bs, b, instr) == [bs EXCEPT ![b].code = Append(@, instr)]

\* Mutant of AddEdge: the predecessor is not told.
AddSuccessor(bs, b, c) == [bs EXCEPT ![b].succ = @ \cup {c}]

AddEdge(bs, b, c) ==
  [i \in DOMAIN bs |->
     [bs[i] EXCEPT !.succ = IF i = b THEN @ \cup {c} ELSE @,
                   !.pred = IF i = c THEN @ \cup {b} ELSE @]]

CreateJump(bs, b, c) == AddInstruction(AddEdge(bs, b, c), b, Jump(c))

CreateConditionalJump(bs, b, v, c, d, at) ==
  AddInstruction(AddEdge(AddEdge(bs, b, c), b, d), b, CondJump(v, c, d, at))

-----------------------------------------------------------------------------
(* Functions: the entry block is created first, the terminal block second *)

Entry == 1
Terminal == 2

\* createReturn: an edge to the terminal block, but for the return in that block.
CreateReturn(bs, b, args, at) ==
  AddInstruction(IF b = Terminal THEN bs ELSE AddEdge(bs, b, Terminal),
                 b, Return(args, at))

\* Mutant of AddBasicBlock: after the terminal block.
AddAtTheEnd(layout, b) == Append(layout, b)

\* Function::addBasicBlock: the terminal block stays last.
AddBasicBlock(layout, b) ==
  SubSeq(layout, 1, Len(layout) - 1) \o <<b, layout[Len(layout)]>>

\* Mutant of CreateBlocks: no block for the end.
CreateTwoBlocks(bs) == bs \o <<NewBlock, NewBlock>>

\* Three new blocks for an if, a while or a for.
CreateBlocks(bs) == bs \o <<NewBlock, NewBlock, NewBlock>>
=============================================================================
