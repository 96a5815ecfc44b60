---------------------------- MODULE IrGeneration ----------------------------
(***************************************************************************)
(* The intermediate code of a function body (frontend/ast.cpp), and a call *)
(* of the function that this code, or the machine code with the same       *)
(* blocks in the same order, then executes.                                *)
(*                                                                         *)
(* The generate methods visit the tree in a fixed order.  Each action is   *)
(* the part of a visit between two calls of generate methods, and the tree *)
(* is the nondeterminism: what is visited is added to text.  The local     *)
(* variables of the visits in progress are in opened, one record for every *)
(* enclosing StatementBlock, and in values.                                *)
(***************************************************************************)
EXTENDS BasicBlocks

CONSTANTS
  MaxStatements,  \* bound: statements and parts of heads, without else and end
  MaxOperations,  \* bound: operations in the whole function
  MaxPending      \* bound: values generated and not yet used

ASSUME BoundsAssumption ==
  MaxStatements \in Nat /\ MaxOperations \in Nat /\ MaxPending \in Nat

VARIABLES
  text,     \* the nodes visited so far: [kind, expr]
  doing,    \* the node whose expression is being generated
  values,   \* the values of the operands visited and not yet used
  blocks, layout,
  active,   \* the builder's active block
  opened,   \* the visits in progress
  temps,    \* temporaries created
  running,  \* the code is complete and has been called
  at,       \* the instruction to execute next: block and position in it
  env,      \* the terms that the temporaries of the statement stand for
  last, beat \* see SourceProgram

tree == <<text, doing, values, opened>>
code == <<blocks, layout, active, temps>>
machine == <<running, at, env, last, beat>>
vars == <<tree, code, machine>>

Simple == {"assign", "declare", "call", "return"}
Loops == {"while", "for"}
Constructs == {"if"} \cup Loops
Idle == "nothing"
Begin == [node |-> 0, step |-> 1, holds |-> TRUE, value |-> <<>>]

\* What visit of a StatementBlock keeps: the statement it belongs to, the blocks
\* that statement has created, and endBlock.
Visit(kind, first, endBlock) == [kind |-> kind, first |-> first, endBlock |-> endBlock]
Innermost == opened[Len(opened)]

\* createFunction, and the default return of Function::generateIr.
Init ==
  /\ text = <<>> /\ doing = Idle /\ values = <<>> /\ temps = 0
  /\ blocks = CreateReturn(<<NewBlock, NewBlock>>, Terminal,
                           <<Variable(Default)>>, <<0, 0>>)
  /\ layout = <<Entry, Terminal>> /\ active = Entry
  /\ opened = <<Visit("function", Entry, Entry)>>
  /\ running = FALSE /\ at = <<Entry, 1>> /\ env = <<>> /\ last = Begin /\ beat = FALSE

-----------------------------------------------------------------------------
(* Expressions *)

Statements == Len(SelectSeq(text, LAMBDA n : n.kind \notin {"else", "end"}))
Room == Statements < MaxStatements

Between == ~running /\ doing = Idle /\ opened # <<>>
InExpression == ~running /\ doing # Idle

AddNode(kind, expr) == text' = Append(text, [kind |-> kind, expr |-> expr])
AddToken(o) == text' = [text EXCEPT ![Len(text)].expr = Append(@, o)]
Here == Len(text)
NextToken == Len(text[Here].expr) + 1

\* generateIrValue of literals and variables: no instruction.
VisitOperand(o) ==
  /\ InExpression /\ Len(values) < MaxPending
  /\ AddToken(o) /\ values' = Append(values, Variable(o))
  /\ UNCHANGED <<doing, opened, code, machine>>

\* generateIrValue of operators, casts and calls, after that of the operands.
Arguments(n) == SubSeq(values, Len(values) - n + 1, Len(values))

VisitOperation(o) ==
  /\ InExpression /\ temps < MaxOperations /\ Arity[o] <= Len(values)
  /\ AddToken(o)
  /\ blocks' = AddInstruction(blocks, active,
       Operation(o, Arguments(Arity[o]), Temporary(temps + 1), <<Here, NextToken>>))
  /\ values' = Append(SubSeq(values, 1, Len(values) - Arity[o]), Temporary(temps + 1))
  /\ temps' = temps + 1
  /\ UNCHANGED <<doing, opened, layout, active, machine>>

-----------------------------------------------------------------------------
(* Statements that create no blocks *)

\* The value of the expression has been generated and is used.
Complete(kind) == InExpression /\ doing = kind /\ doing' = Idle /\ values' = <<>>

Begins(kind) ==
  /\ Between /\ Room /\ Innermost.kind # "iterated"
  /\ AddNode(kind, <<>>) /\ doing' = kind /\ UNCHANGED values

StartSimple(kind) ==
  /\ kind \in Simple \ {"declare"} /\ Begins(kind)
  /\ UNCHANGED <<opened, code, machine>>

\* Declaration::generateIr declares before it generates the initialisation.
StartDeclaration ==
  /\ Begins("declare") /\ blocks' = AddInstruction(blocks, active, Declaration)
  /\ UNCHANGED <<opened, layout, active, temps, machine>>

EndAssign(kind) ==
  /\ kind \in {"assign", "declare"} /\ Complete(kind) /\ Len(values) = 1
  /\ blocks' = AddInstruction(blocks, active, Assign(values[1], <<Here, 0>>))
  /\ UNCHANGED <<text, opened, layout, active, temps, machine>>

\* A declaration without initialisation.
EndDeclaration ==
  /\ Complete("declare") /\ text[Here].expr = <<>>
  /\ AddToken(Default)
  /\ blocks' = AddInstruction(blocks, active, Assign(Variable(Default), <<Here, 0>>))
  /\ UNCHANGED <<opened, layout, active, temps, machine>>

EndCall ==
  /\ Complete("call")
  /\ blocks' = AddInstruction(blocks, active, Call(values, <<Here, 0>>))
  /\ UNCHANGED <<text, opened, layout, active, temps, machine>>

EndReturn ==
  /\ Complete("return") /\ Len(values) <= 1
  /\ blocks' = CreateReturn(blocks, active, values, <<Here, 0>>)
  /\ UNCHANGED <<text, opened, layout, active, temps, machine>>

-----------------------------------------------------------------------------
(* If *)

Enter(visit) == opened' = Append(opened, visit)
LayOut(b) == layout' = AddBasicBlock(layout, b) /\ active' = b

StartIf == Begins("if") /\ UNCHANGED <<opened, code, machine>>

\* Mutant of OpenIf: the first branch becomes active before the jump is created.
OpenIfEarly ==
  LET n == Len(blocks) + 1
  IN
  /\ Complete("if") /\ Len(values) = 1
  /\ blocks' = CreateConditionalJump(CreateBlocks(blocks), n, values[1],
                                     n, n + 1, <<Here, 0>>)
  /\ LayOut(n) /\ Enter(Visit("if", n, n))
  /\ UNCHANGED <<text, temps, machine>>

\* The condition has been generated: three blocks, for the branches and the join.
OpenIf ==
  LET n == Len(blocks) + 1
  IN
  /\ Complete("if") /\ Len(values) = 1
  /\ blocks' = CreateConditionalJump(CreateBlocks(blocks), active, values[1],
                                     n, n + 1, <<Here, 0>>)
  /\ LayOut(n) /\ Enter(Visit("if", n, n))
  /\ UNCHANGED <<text, temps, machine>>

\* The end of a branch, in the block its last statement has left active.
CloseBranch(bs, b, join) ==
  IF EndsIn(bs[b], {"return"}) THEN bs ELSE CreateJump(bs, b, join)

OpenElse ==
  LET v == Innermost
  IN
  /\ Between /\ v.kind = "if"
  /\ AddNode("else", <<>>)
  /\ blocks' = CloseBranch(blocks, v.endBlock, v.first + 2)
  /\ LayOut(v.first + 1)
  /\ opened' = [opened EXCEPT ![Len(opened)] = Visit("else", v.first, v.first + 1)]
  /\ UNCHANGED <<doing, values, temps, machine>>

\* Mutant of Leave: the block that the statement returned is ignored.
LeaveUntold(b) == opened' = SubSeq(opened, 1, Len(opened) - 1)

\* Back in the enclosing StatementBlock: the block the statement returned is active,
\* and the last so far.
Leave(b) ==
  opened' = [SubSeq(opened, 1, Len(opened) - 1) EXCEPT ![Len(opened) - 1].endBlock = b]

CloseIf ==
  LET v == Innermost
  IN
  /\ Between /\ v.kind = "else"
  /\ AddNode("end", <<>>)
  /\ blocks' = CloseBranch(blocks, v.endBlock, v.first + 2)
  /\ LayOut(v.first + 2) /\ Leave(v.first + 2)
  /\ UNCHANGED <<doing, values, temps, machine>>

-----------------------------------------------------------------------------
(* Loops: the blocks are condition, body and end *)

\* A while, or a for whose initialisation has been generated.
StartLoop(kind) ==
  LET n == Len(blocks) + 1
  IN
  /\ kind \in Loops /\ Begins(kind)
  /\ blocks' = CreateJump(CreateBlocks(blocks), active, n)
  /\ LayOut(n)
  /\ UNCHANGED <<opened, temps, machine>>

\* The condition has been generated in the condition block, which is active.
OpenBody(kind, v) ==
  /\ Complete(kind)
  /\ blocks' = CreateConditionalJump(blocks, active, v, active + 1, active + 2, <<Here, 0>>)
  /\ LayOut(active + 1) /\ Enter(Visit(kind, active, active + 1))
  /\ UNCHANGED <<temps, machine>>

OpenLoop(kind) ==
  kind \in Loops /\ Len(values) = 1 /\ OpenBody(kind, values[1]) /\ UNCHANGED text

\* A for without condition.
OpenEndlessLoop ==
  doing = "for" /\ text[Here].expr = <<>> /\ AddToken(One) /\ OpenBody("for", Variable(One))

\* The iteration of a for, an assignment or an expression, in the body's last block.
StartIteration(kind) ==
  /\ Between /\ Room /\ Innermost.kind = "for" /\ kind \in {"assign", "discard"}
  /\ AddNode(kind, <<>>) /\ doing' = kind
  /\ active' = Innermost.endBlock
  /\ opened' = [opened EXCEPT ![Len(opened)].kind = "iterated"]
  /\ UNCHANGED <<values, blocks, layout, temps, machine>>

EndDiscard ==
  /\ Complete("discard") /\ Len(values) = 1
  /\ UNCHANGED <<text, opened, code, machine>>

\* Mutant of CloseLoop: back to the body, past the condition.
CloseLoopOnBody ==
  LET v == Innermost
  IN
  /\ Between /\ v.kind \in Loops \cup {"iterated"}
  /\ AddNode("end", <<>>)
  /\ blocks' = CreateJump(blocks, v.endBlock, v.first + 1)
  /\ LayOut(v.first + 2) /\ Leave(v.first + 2)
  /\ UNCHANGED <<doing, values, temps, machine>>

CloseLoop ==
  LET v == Innermost
  IN
  /\ Between /\ v.kind \in Loops \cup {"iterated"}
  /\ AddNode("end", <<>>)
  /\ blocks' = CreateJump(blocks, v.endBlock, v.first)
  /\ LayOut(v.first + 2) /\ Leave(v.first + 2)
  /\ UNCHANGED <<doing, values, temps, machine>>

-----------------------------------------------------------------------------
\* Mutant of Open: only blocks without any instruction.
OpenIfEmpty == {b \in {layout[i] : i \in DOMAIN layout} \ {Terminal} : blocks[b].code = <<>>}

\* The end of Function::generateIr: blocks that end in no terminator jump to the
\* terminal block.  The function can be called.
Open == {b \in {layout[i] : i \in DOMAIN layout} \ {Terminal} : ~EndsIn(blocks[b], Terminators)}

EndFunction ==
  /\ Between /\ Innermost.kind = "function"
  /\ opened' = <<>> /\ running' = TRUE
  /\ blocks' = [b \in DOMAIN blocks |->
       IF b \in Open THEN CreateJump(blocks, b, Terminal)[b]
       ELSE IF b = Terminal THEN [blocks[b] EXCEPT !.pred = @ \cup Open] ELSE blocks[b]]
  /\ UNCHANGED <<text, doing, values, layout, active, temps, at, env, last, beat>>

-----------------------------------------------------------------------------
(* Execution *)

Returned == <<0, 0>>
Current == blocks[at[1]].code[at[2]]

\* The code of a block is followed by that of the next one.
Successor(b, k) ==
  IF k < Len(blocks[b].code) THEN <<b, k + 1>>
  ELSE <<layout[1 + CHOOSE i \in DOMAIN layout : layout[i] = b], 1>>

Term(v) == IF IsTemporary(v) THEN env[v.name] ELSE <<v.name>>

\* The terms of the operands, in order.
Terms(args) ==
  LET upTo[n \in 0 .. Len(args)] == IF n = 0 THEN <<>> ELSE upTo[n - 1] \o Term(args[n])
  IN  upTo[Len(args)]

Goto(instr, holds) ==
  CASE instr.op = "return" -> Returned
    [] instr.op = "jump" -> <<instr.targets[1], 1>>
    [] instr.op = "condjump" -> <<instr.targets[IF holds THEN 1 ELSE 2], 1>>
    [] OTHER -> Successor(at[1], at[2])

Outcomes(instr) ==
  IF instr.op = "condjump" /\ instr.args # <<Variable(One)>> THEN BOOLEAN ELSE {TRUE}

\* A jump to a block that is not part of the code cannot be translated.
CanGo(to) == to = Returned \/ \E i \in DOMAIN layout : layout[i] = to[1]

Observe(instr, holds) ==
  IF instr.at = None THEN UNCHANGED <<last, beat>>
  ELSE /\ last' = [node |-> instr.at[1], step |-> instr.at[2], holds |-> holds,
                   value |-> IF instr.op \in Operations THEN <<instr.op>>
                             ELSE Terms(instr.args)]
       /\ beat' = ~beat

Bind(instr) ==
  env' = IF instr.op \in Operations
         THEN LET results == {v.name : v \in instr.result}
              IN  [t \in DOMAIN env \cup results |->
                     IF t \in results THEN Terms(instr.args) \o <<instr.op>> ELSE env[t]]
         ELSE <<>>

Execute ==
  /\ running /\ at # Returned /\ at[2] \in DOMAIN blocks[at[1]].code
  /\ \E holds \in Outcomes(Current) :
       /\ CanGo(Goto(Current, holds))
       /\ at' = Goto(Current, holds) /\ Observe(Current, holds)
  /\ Bind(Current)
  /\ UNCHANGED <<tree, code, running>>

-----------------------------------------------------------------------------
Next ==
  \/ \E o \in Operands : VisitOperand(o)
  \/ \E o \in Operations : VisitOperation(o)
  \/ \E kind \in Simple : StartSimple(kind) \/ EndAssign(kind)
  \/ StartDeclaration \/ EndDeclaration \/ EndCall \/ EndReturn
  \/ StartIf \/ OpenIf \/ OpenElse \/ CloseIf
  \/ \E kind \in Loops : StartLoop(kind) \/ OpenLoop(kind)
  \/ OpenEndlessLoop
  \/ \E kind \in {"assign", "discard"} : StartIteration(kind)
  \/ EndDiscard \/ CloseLoop
  \/ EndFunction \/ Execute

\* The processor executes one instruction after the other.
Spec == Init /\ [][Next]_vars /\ WF_vars(Execute)

-----------------------------------------------------------------------------
(* Properties *)

LaidOut == {layout[i] : i \in DOMAIN layout}

\* Types of all variables.
TypeOK ==
  /\ text \in Seq([kind : Simple \cup Constructs \cup {"else", "end", "discard"},
                   expr : Seq(Operands \cup Operations \cup {One, Default})])
  /\ doing \in Simple \cup Constructs \cup {"discard", Idle}
  /\ values \in Seq(Values) /\ temps \in Nat
  /\ blocks \in Seq(Block) /\ Terminal \in DOMAIN blocks
  /\ layout \in Seq(DOMAIN blocks) /\ active \in DOMAIN blocks
  /\ opened \in Seq([kind : Constructs \cup {"function", "else", "iterated"},
                     first : DOMAIN blocks, endBlock : DOMAIN blocks])
  /\ running \in BOOLEAN /\ at \in Nat \X Nat /\ beat \in BOOLEAN

\* Where an instruction of block b can lead, a return by way of the terminal block.
Leads(b, instr) ==
  {instr.targets[k] : k \in DOMAIN instr.targets}
  \cup {c \in {Terminal} : instr.op = "return" /\ b # Terminal}

\* The graph is that of the jumps: the successors of a block are where its
\* instructions lead, and the predecessors are the successors reversed (createJump,
\* createConditionalJump, createReturn, and the loop at the end of generateIr).
EdgesMatchJumps ==
  \A b \in DOMAIN blocks :
    /\ blocks[b].succ = UNION {Leads(b, blocks[b].code[k]) : k \in DOMAIN blocks[b].code}
    /\ \A c \in DOMAIN blocks : c \in blocks[b].succ <=> b \in blocks[c].pred

\* Every block created has its place in the code, exactly one, so that every jump has
\* a label to go to; the entry comes first and the terminal block last.
EveryBlockIsEmitted ==
  /\ \A i, j \in DOMAIN layout : layout[i] = layout[j] => i = j
  /\ Len(layout) >= 2 /\ layout[1] = Entry /\ layout[Len(layout)] = Terminal
  /\ running => LaidOut = DOMAIN blocks

\* Control never runs from the end of a block into the one that happens to be next.
NoFallThrough == running => \A b \in LaidOut : EndsIn(blocks[b], Terminators)

\* What the register allocator requires: a temporary is the result of one
\* instruction and an operand of at most one, which follows it in the same block.
Code(b) == blocks[b].code
Args(b, k) == blocks[b].code[k].args
Results(b, k) == blocks[b].code[k].result

ProducedOnce(t, b, k) ==
  \A c \in DOMAIN blocks : \A l \in DOMAIN Code(c) : t \in Results(c, l) => c = b /\ l = k

UsedOnce(t, b, k, n) ==
  \A c \in DOMAIN blocks : \A l \in DOMAIN Code(c) : \A m \in DOMAIN Args(c, l) :
    Args(c, l)[m] = t => c = b /\ l = k /\ m = n

TemporariesStayInBlock ==
  \A b \in DOMAIN blocks : \A k \in DOMAIN Code(b) :
    /\ \A t \in Results(b, k) : ProducedOnce(t, b, k)
    /\ \A n \in DOMAIN Args(b, k) : IsTemporary(Args(b, k)[n]) =>
         /\ \E l \in 1 .. k - 1 : Args(b, k)[n] \in Results(b, l)
         /\ UsedOnce(Args(b, k)[n], b, k, n)

\* A call of the function does what its text says, one thing after the other
\* (generateIrBlocks of If, While and For: which block comes next, and where code
\* after a nested statement goes).
Source == INSTANCE SourceProgram
ImplementsSource == Source!Spec

\* No call is ever lost in jumps or stops before a return (all of the above, with
\* for and while after a return, empty branches and bodies).
CallsProceed == Source!Proceeds
=============================================================================
