---------------------------- MODULE AsmGenerator ----------------------------
(***************************************************************************)
(* Register allocation of one function: the visitor methods of             *)
(* backend/asmgenerator.cpp, each of which takes one IR instruction,       *)
(* obtains registers from the block context and emits machine code.        *)
(*                                                                         *)
(* A visit method is one action.  Its only loops, over the arguments of a  *)
(* call or a print and over the register table before a call, are unrolled *)
(* into steps whose order phase and next force.  The IR is any sequence of *)
(* instructions the front end can generate: temporaries are results of one *)
(* instruction and operands of at most one later one of the same block     *)
(* (frontend/ast.cpp), variables are declared before they are assigned and *)
(* assigned before they are read.                                          *)
(***************************************************************************)
EXTENDS BlockContext

CONSTANTS
  Params,        \* the function's parameters, a sequence of variables
  NumParamRegs,  \* how many of them arrive in registers (4 on MIPS)
  MaxBlocks      \* bound: basic blocks translated

ASSUME ParamsAssumption ==
  /\ Params \in Seq(Named)
  /\ \A i, j \in 1 .. Len(Params) : Params[i] = Params[j] => i = j
  /\ NumParamRegs \in Nat /\ NumParamRegs <= MaxCell /\ Len(Params) < MaxCell

ASSUME BlocksAssumption == MaxBlocks \in Nat

VARIABLES
  st,        \* the allocation state of BlockContext
  phase,     \* where the visitor is
  next,      \* registerTable position of saveVarsAndClear
  blocks,    \* blocks translated so far
  instr,     \* instructions translated in this block
  declared,  \* variables whose declaration has been visited
  defined, live, operands, read   \* see IrBlock

vars == <<st, phase, next, blocks, instr, declared, defined, live, operands, read>>
irVars == <<declared, defined, live, operands, read>>

Phases == {"function", "blocks", "body", "jumped", "returned",
           "arguments", "clear", "print"}

ParamSet == {Params[i] : i \in 1 .. Len(Params)}

\* FunctionContext::addVar(var, paramPos), with positions counted from 1: the
\* first parameters are stored to the next free cells, the others stay where the
\* caller put them, from 8($fp) on.
ParamCell(p) ==
  IF p <= NumParamRegs THEN p ELSE -(1 + (p - NumParamRegs))

InRegister(p) == p <= NumParamRegs

\* The stack at the first instruction of the function body: the prologue has
\* saved the return address and the caller's frame pointer.
CallerFrame ==
  [c \in Cells |->
     CASE c = 0 -> FramePtr
       [] c = -1 -> ReturnAddr
       [] \E p \in 1 .. Len(Params) : ~InRegister(p) /\ ParamCell(p) = c ->
            Params[CHOOSE p \in 1 .. Len(Params) : ~InRegister(p) /\ ParamCell(p) = c]
       [] OTHER -> Junk]

\* The constructors of FunctionContext and BlockContext: empty tables.
CallerState ==
  [val |-> [r \in Regs |-> NoVal], saved |-> [r \in Regs |-> FALSE],
   lru |-> [r \in Regs |-> 0], slot |-> [v \in Named |-> NoSlot],
   spill |-> [c \in 1 .. MaxCell |-> NotSpill], sc |-> 1,
   callee |-> {}, scratch |-> {},
   reg |-> [r \in 0 .. NumRegs |-> IF r = 0 THEN ZeroConst ELSE Junk],
   mem |-> CallerFrame]

Init ==
  /\ st = CallerState
  /\ phase = "function" /\ next = 1 /\ blocks = 0 /\ instr = 0
  /\ declared = {} /\ defined = {} /\ live = {} /\ operands = <<>> /\ read = <<>>

-----------------------------------------------------------------------------
Readable == defined \cup live \cup Const \cup {ZeroConst}

\* A temporary that no table still mentions can stand for a newly created one.
Fresh(t) == /\ t \in Temp \ live
            /\ \A r \in Regs : st.val[r] # t
            /\ \A c \in 1 .. MaxCell : st.spill[c] # t

\* Bound: the frame has room for the cells one instruction can take, at most one
\* for each of the four registers it may have to free.
Room == st.sc + 4 <= MaxCell + 1

InBody == phase \in {"body", "returned"} /\ instr < MaxInstr /\ Room

Reads(args, values) == operands' = args /\ read' = values

\* The instruction's visit method returns and visit(BasicBlock) ages the table.
Finish(s, to) ==
  /\ st' = UpdateLRU(s)
  /\ instr' = instr + 1 /\ phase' = to
  /\ UNCHANGED <<next, blocks>>

Consumed(args) == live' = live \ args /\ UNCHANGED <<declared, defined>>

Produced(args, d) ==
  /\ live' = (live \ args) \cup ({d} \cap Temp)
  /\ defined' = defined \cup ({d} \cap Named)
  /\ UNCHANGED declared

DistinctTemps(a, b) == a = b => a \notin Temp

-----------------------------------------------------------------------------
\* visit(Function): parameters get their cells, the register ones are stored.
VisitFunction ==
  LET inRegs == {p \in 1 .. Len(Params) : InRegister(p)}
  IN
  /\ phase = "function"
  /\ st' = [st EXCEPT
       !.slot = [v \in Named |->
          IF v \in ParamSet
          THEN ParamCell(CHOOSE p \in 1 .. Len(Params) : Params[p] = v) ELSE NoSlot],
       !.sc = 1 + (IF Len(Params) <= NumParamRegs THEN Len(Params) ELSE NumParamRegs),
       !.mem = [c \in Cells |-> IF c \in inRegs THEN Params[c] ELSE st.mem[c]]]
  /\ phase' = "blocks"
  /\ declared' = ParamSet /\ defined' = ParamSet
  /\ Reads(<<>>, <<>>)
  /\ UNCHANGED <<next, blocks, instr, live>>

\* visit(BasicBlock), before and after its loop over the instructions.
EnterBlock ==
  /\ phase = "blocks" /\ blocks < MaxBlocks
  /\ st' = FreshBlock(st)
  /\ phase' = "body" /\ blocks' = blocks + 1 /\ instr' = 0
  /\ UNCHANGED <<next, irVars>>

LeaveBlock ==
  /\ phase \in {"jumped", "returned"}
  /\ st' = CleanSpillTable(st)
  /\ phase' = "blocks"
  /\ live' = {} /\ Reads(<<>>, <<>>)
  /\ UNCHANGED <<next, blocks, instr, declared, defined>>

\* visit(DeclarationInstruction): a register, with whatever it contains.
VisitDeclaration(x) ==
  /\ InBody /\ x \notin declared
  /\ declared' = declared \cup {x}
  /\ Finish(GetRegister(AddVar(st, x), x, FALSE).st, "body")
  /\ Reads(<<>>, <<>>) /\ UNCHANGED <<defined, live>>

\* One operand, one result.  The Emit operators are what the visit methods do once
\* they have their registers: g is what the last getRegister has left, for d, and
\* i, j, k are the registers of the operands.  With early, the result register is
\* written before the operands are read.
EmitOne(g, i, o, d, early) ==
  LET u == MarkUsed(MarkChanged(g.st, g.reg), o)
      e == IF early THEN Clobber(u, {g.reg}) ELSE u
  IN
  /\ Finish(Define(u, g.reg, d), "body")
  /\ Reads(<<o>>, <<e.reg[i]>>)
  /\ Produced({o}, d)

OneOperand(o, d, early) ==
  LET a == GetRegister(st, o, TRUE)
      b == GetRegister(a.st, d, FALSE)
  IN  InBody /\ EmitOne(b, a.reg, o, d, early)

\* visit(AssignInstruction): MOVE.
VisitAssign(x, o) ==
  x \in declared /\ o \in Readable /\ OneOperand(o, x, FALSE)

\* visit of Not, BitwiseNot, Neg and of the typecasts between char and int.
VisitUnary(o, d) == Fresh(d) /\ o \in Readable /\ OneOperand(o, d, FALSE)

\* The typecast from char to string: the result points at the new string before
\* the operand is stored into it.
VisitTypecastToString(o, d) == Fresh(d) /\ o \in Readable /\ OneOperand(o, d, TRUE)

\* Two operands, one result.
EmitTwo(g, i, j, o1, o2, d, early) ==
  LET u == MarkUsed(MarkUsed(MarkChanged(g.st, g.reg), o1), o2)
      e == IF early THEN Clobber(u, {g.reg}) ELSE u
  IN
  /\ Finish(Define(u, g.reg, d), "body")
  /\ Reads(<<o1, o2>>, <<e.reg[i], e.reg[j]>>)
  /\ Produced({o1, o2}, d)

TwoOperands(o1, o2, d, early) ==
  LET a == GetRegister(st, o1, TRUE)
      b == GetRegister(a.st, o2, TRUE)
      c == GetRegister(b.st, d, FALSE)
  IN
  /\ InBody /\ Fresh(d) /\ DistinctTemps(o1, o2)
  /\ EmitTwo(c, a.reg, b.reg, o1, o2, d, early)

\* visit of the arithmetic, bitwise and < > == != instructions, and get_at.
VisitBinary(o1, o2, d) == TwoOperands(o1, o2, d, FALSE)

\* strcat: the result register is set first, then each operand is copied.
VisitStrcat(o1, o2, d) == TwoOperands(o1, o2, d, TRUE)

\* visit of And, Or, LessEqual and GreaterEqual, which need a scratch register t;
\* both it and the result r are written before the last operand is read.
EmitWithScratch(t, r, i, j, o1, o2, d) ==
  LET u == MarkUsed(MarkUsed(MarkChanged(t.st, r), o1), o2)
      e == Clobber(u, {r, t.reg})
  IN
  /\ Finish(Define(Clobber(u, {t.reg}), r, d), "body")
  /\ Reads(<<o1, o2>>, <<e.reg[i], e.reg[j]>>)
  /\ Produced({o1, o2}, d)

VisitWithScratch(o1, o2, d) ==
  LET a == GetRegister(st, o1, TRUE)
      b == GetRegister(a.st, o2, TRUE)
      c == GetRegister(b.st, d, FALSE)
  IN
  /\ InBody /\ Fresh(d) /\ DistinctTemps(o1, o2)
  /\ EmitWithScratch(GetFreeRegister(c.st), c.reg, a.reg, b.reg, o1, o2, d)

\* set_at: the string is copied to the result before the other two are read.
EmitSetAt(g, i, j, k, o1, o2, o3, d) ==
  LET u == MarkUsed(MarkUsed(MarkUsed(MarkChanged(g.st, g.reg), o1), o2), o3)
      e == Clobber(u, {g.reg})
  IN
  /\ Finish(Define(u, g.reg, d), "body")
  /\ Reads(<<o1, o2, o3>>, <<e.reg[i], e.reg[j], e.reg[k]>>)
  /\ Produced({o1, o2, o3}, d)

VisitSetAt(o1, o2, o3, d) ==
  LET a == GetRegister(st, o1, TRUE)
      b == GetRegister(a.st, o2, TRUE)
      c == GetRegister(b.st, o3, TRUE)
      g == GetRegister(c.st, d, FALSE)
  IN
  /\ InBody /\ Fresh(d)
  /\ DistinctTemps(o1, o2) /\ DistinctTemps(o1, o3) /\ DistinctTemps(o2, o3)
  /\ EmitSetAt(g, a.reg, b.reg, c.reg, o1, o2, o3, d)

\* get_at, strcat and set_at whose result nobody wants: the operands are dropped
\* (for the first two o3 is a constant, for which markUsed does nothing).
VisitDiscarded(o1, o2, o3) ==
  /\ InBody
  /\ Finish(MarkUsed(MarkUsed(MarkUsed(st, o1), o2), o3), "body")
  /\ live' = live \ {o1, o2, o3}
  /\ Reads(<<>>, <<>>) /\ UNCHANGED <<declared, defined>>

\* read_char, read_int and read_string, with and without a result.
VisitRead(d) ==
  LET g == GetRegister(st, d, FALSE)
  IN
  /\ InBody /\ Fresh(d)
  /\ Finish(Define(MarkChanged(g.st, g.reg), g.reg, d), "body")
  /\ Reads(<<>>, <<>>) /\ Produced({}, d)

VisitReadDropped ==
  /\ InBody /\ Finish(st, "body")
  /\ Reads(<<>>, <<>>) /\ UNCHANGED <<declared, defined, live>>

-----------------------------------------------------------------------------
\* One turn of the argument loop of a call or of a print.
UseOperand(o) ==
  LET a == GetRegister(st, o, TRUE)
      u == MarkUsed(a.st, o)
  IN
  /\ Room /\ o \in Readable
  /\ st' = u
  /\ Reads(<<o>>, <<a.st.reg[a.reg]>>) /\ Consumed({o})
  /\ UNCHANGED <<phase, next, blocks, instr>>

\* visit(CallInstruction): arguments, then saveVarsAndClear, then the jump.
StartCall ==
  /\ InBody /\ phase' = "arguments"
  /\ UNCHANGED <<st, next, blocks, instr, irVars>>

PassArgument(o) == phase = "arguments" /\ UseOperand(o)

StartClear ==
  /\ phase = "arguments" /\ phase' = "clear" /\ next' = 1
  /\ UNCHANGED <<st, blocks, instr, irVars>>

\* saveVarsAndClear, one table entry; only caller-saved ones are cleared.
ClearEntry ==
  /\ phase = "clear" /\ next \in Regs /\ Room
  /\ st' = IF next \in CallerSaved THEN SaveAndClear(st, next) ELSE st
  /\ next' = next + 1
  /\ Reads(<<>>, <<>>)
  /\ UNCHANGED <<phase, blocks, instr, declared, defined, live>>

\* After JAL: the callee has kept the callee-saved registers, no others.
ReturnFromCall(d) ==
  LET s == Clobber(st, CallerSaved)
      g == GetRegister(s, d, FALSE)
  IN
  /\ phase = "clear" /\ next = NumRegs + 1 /\ Room /\ Fresh(d)
  /\ Finish(Define(MarkChanged(g.st, g.reg), g.reg, d), "body")
  /\ Reads(<<>>, <<>>) /\ Produced({}, d)

ReturnFromVoidCall ==
  /\ phase = "clear" /\ next = NumRegs + 1
  /\ Finish(Clobber(st, CallerSaved), "body")
  /\ Reads(<<>>, <<>>) /\ UNCHANGED <<declared, defined, live>>

\* visit(BuiltinCallInstruction) of print, and builtin_print.
StartPrint ==
  /\ InBody /\ phase' = "print"
  /\ UNCHANGED <<st, next, blocks, instr, irVars>>

PrintItem(o) == phase = "print" /\ UseOperand(o)

EndPrint ==
  /\ phase = "print" /\ Finish(st, "body")
  /\ Reads(<<>>, <<>>) /\ UNCHANGED <<declared, defined, live>>

-----------------------------------------------------------------------------
\* visit(JumpInstruction)
VisitJump ==
  /\ InBody /\ Finish(SaveUnsavedVariables(st), "jumped")
  /\ Reads(<<>>, <<>>) /\ UNCHANGED <<declared, defined, live>>

\* Variables are saved, then the operand is fetched, which may evict again.
SaveAndUse(o, to) ==
  LET a == GetRegister(SaveUnsavedVariables(st), o, TRUE)
  IN
  /\ InBody /\ o \in Readable
  /\ Finish(MarkUsed(a.st, o), to)
  /\ Reads(<<o>>, <<a.st.reg[a.reg]>>) /\ Consumed({o})

\* visit(CondJumpInstruction)
VisitCondJump(o) == SaveAndUse(o, "jumped")

\* visit(ReturnInstruction); dead code of the block may follow it.
VisitReturn(o) == SaveAndUse(o, "returned")

VisitReturnVoid ==
  /\ InBody /\ Finish(SaveUnsavedVariables(st), "returned")
  /\ Reads(<<>>, <<>>) /\ UNCHANGED <<declared, defined, live>>

-----------------------------------------------------------------------------
Next ==
  \/ VisitFunction \/ EnterBlock \/ LeaveBlock
  \/ \E x \in Named : VisitDeclaration(x)
  \/ \E x \in Named, o \in Readable : VisitAssign(x, o)
  \/ \E o \in Readable, d \in Temp : VisitUnary(o, d) \/ VisitTypecastToString(o, d)
  \/ \E o1, o2 \in Readable, d \in Temp :
       VisitBinary(o1, o2, d) \/ VisitStrcat(o1, o2, d) \/ VisitWithScratch(o1, o2, d)
  \/ \E o1, o2, o3 \in Readable : \E d \in Temp : VisitSetAt(o1, o2, o3, d)
  \/ \E o1, o2, o3 \in Readable : VisitDiscarded(o1, o2, o3)
  \/ (\E d \in Temp : VisitRead(d)) \/ VisitReadDropped
  \/ StartCall \/ (\E o \in Readable : PassArgument(o)) \/ StartClear \/ ClearEntry
  \/ (\E d \in Temp : ReturnFromCall(d)) \/ ReturnFromVoidCall
  \/ StartPrint \/ (\E o \in Readable : PrintItem(o)) \/ EndPrint
  \/ VisitJump \/ (\E o \in Readable : VisitCondJump(o))
  \/ (\E o \in Readable : VisitReturn(o)) \/ VisitReturnVoid

Spec == Init /\ [][Next]_vars

-----------------------------------------------------------------------------
(* Properties *)

\* Types of all variables.
TypeOK ==
  /\ st \in AllocState /\ phase \in Phases /\ next \in 1 .. NumRegs + 1
  /\ blocks \in 0 .. MaxBlocks /\ instr \in 0 .. MaxInstr
  /\ declared \subseteq Named /\ defined \subseteq declared /\ live \subseteq Temp

\* v's present value can still be fetched: from the register it is mapped to, or
\* else from its own cell or spill item.
Kept(v) ==
  IF Holding(st, v) # {} THEN \A r \in Holding(st, v) : st.reg[r] = v
  ELSE IF v \in Named THEN st.slot[v] # NoSlot /\ st.mem[st.slot[v]] = v
  ELSE \E c \in 1 .. MaxCell : st.spill[c] = v /\ st.mem[c] = v

\* No sequence of instructions, evictions, spills and calls loses a value that
\* the program may still read (getRegister, removeVictim, saveVarsAndClear).
NothingLost == \A v \in defined \cup live : Kept(v)

\* Between blocks every variable is in its cell, so the code of the next block,
\* entered from wherever, may start with an empty register table.
VariablesHomeBetweenBlocks ==
  phase = "blocks" =>
    \A v \in defined : st.slot[v] # NoSlot /\ st.mem[st.slot[v]] = v

\* Variables, spilled temporaries and the frame link never share a cell of the
\* stack frame (addVar, getSpillTableFreePos and stackCounter).
FrameDisjoint ==
  /\ st.mem[0] = FramePtr /\ st.mem[-1] = ReturnAddr
  /\ \A v, w \in Named : st.slot[v] # NoSlot /\ st.slot[v] = st.slot[w] => v = w
  /\ \A v \in Named : st.slot[v] \in 1 .. MaxCell =>
       st.slot[v] < st.sc /\ st.spill[st.slot[v]] = NotSpill
  /\ \A c \in 1 .. MaxCell : st.spill[c] # NotSpill => c < st.sc

\* A callee-saved register that ever holds a value is one the prologue saves and
\* the epilogue restores (testCalleeSaved, FunctionContext::getInstructions).
ValueRegistersPreserved ==
  \A r \in CalleeSaved : st.val[r] # NoVal => r \in st.callee

\* "set of registers a function has to preserve" (functioncontext.h:70): every
\* callee-saved register the emitted code writes is in calleeSavedSet.
ScratchRegistersPreserved == st.scratch \cap CalleeSaved \subseteq st.callee

\* Code emitted earlier addresses cells that translation never reassigns: a
\* variable keeps its cell, a spill item stays one, the frame only grows.
FrameStable ==
  [][/\ \A v \in Named : st.slot[v] # NoSlot => st'.slot[v] = st.slot[v]
     /\ \A c \in 1 .. MaxCell : st.spill[c] # NotSpill => st'.spill[c] # NotSpill
     /\ st.sc <= st'.sc /\ st.callee \subseteq st'.callee]_vars

\* The emitted code reads, for every operand of every instruction, the value the
\* operand has in the intermediate code.
IR == INSTANCE IrBlock
ImplementsIR == IR!Spec
=============================================================================
