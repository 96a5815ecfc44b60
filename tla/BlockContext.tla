---------------------------- MODULE BlockContext ----------------------------
(***************************************************************************)
(* The register table of one basic block (backend/blockcontext.cpp), the   *)
(* stack-slot tables of the function around it (backend/functioncontext.   *)
(* cpp), and the registers and stack cells of the MIPS machine that will   *)
(* run the emitted code.                                                   *)
(*                                                                         *)
(* The code of a block is a straight line, so translation and execution    *)
(* advance together: an operator below is one method of the C++ classes,   *)
(* applied to a record that holds both the translator's tables and what    *)
(* the loads, stores and moves emitted so far have put in the machine.     *)
(* Machine data is symbolic.  A register or cell "contains v" when it      *)
(* holds the value that v has now in the source program; it contains Junk  *)
(* when it holds anything else.                                            *)
(*                                                                         *)
(* An allocation state s has the fields                                    *)
(*   val, saved, lru  registerTable of the block: the mapped value (NoVal  *)
(*                    for nullptr), its dirty bit and its age              *)
(*   slot             varToStackTable: the cell of a variable (NoSlot: no  *)
(*                    entry yet)                                           *)
(*   spill            spillTable: per cell, the temporary spilled there,   *)
(*                    NoVal for a free spill item, NotSpill for a cell     *)
(*                    that is no spill item                                *)
(*   sc               stackCounter, counted in words                       *)
(*   callee           calleeSavedSet                                       *)
(*   scratch          ghost: registers handed out by getFreeRegister       *)
(*   reg, mem         the machine: registers ($0 is register 0), and cells *)
(*                    of the stack frame; cell c lives at -4*c($fp)        *)
(***************************************************************************)
EXTENDS Integers, Sequences

CONSTANTS
  NumRegs,     \* number of evaluation registers
  NumCaller,   \* how many of them are caller saved; these come first
  Named,       \* ir::NamedValue: parameters and local variables
  Temp,        \* ir::TemporaryValue
  Const,       \* ir::ConstantValue other than zero, compared by value
  ZeroConst,   \* the constants 0 and '\0', kept in register $0
  NoVal, NotSpill, Junk, FramePtr, ReturnAddr,
  MaxCell,     \* bound: deepest cell of a modelled frame
  MaxInstr     \* bound: instructions per block, hence the age of an entry

Regs == 1 .. NumRegs
CallerSaved == 1 .. NumCaller
CalleeSaved == (NumCaller + 1) .. NumRegs
Values == Named \cup Temp \cup Const
Cells == (-MaxCell) .. MaxCell
NoSlot == 0
Content == Values \cup {ZeroConst, Junk, FramePtr, ReturnAddr}

\* Four registers suffice for the widest instruction (set_at); the code has 18.
ASSUME RegistersAssumption ==
  NumRegs \in Nat /\ NumRegs >= 4 /\ NumCaller \in 0 .. NumRegs

ASSUME BoundsAssumption == MaxCell \in Nat \ {0} /\ MaxInstr \in Nat

ASSUME ValuesAssumption ==
  /\ Named \cap Temp = {} /\ Named \cap Const = {} /\ Temp \cap Const = {}
  /\ {ZeroConst, NoVal, NotSpill, Junk, FramePtr, ReturnAddr} \cap Values = {}
  /\ ZeroConst \notin {NoVal, NotSpill, Junk, FramePtr, ReturnAddr}
  /\ NoVal # NotSpill /\ Junk \notin {FramePtr, ReturnAddr}

AllocState ==
  [val : [Regs -> Values \cup {NoVal}], saved : [Regs -> BOOLEAN],
   lru : [Regs -> 0 .. MaxInstr], slot : [Named -> Cells],
   spill : [1 .. MaxCell -> Temp \cup {NoVal, NotSpill}], sc : Nat,
   callee : SUBSET Regs, scratch : SUBSET Regs,
   reg : [0 .. NumRegs -> Content], mem : [Cells -> Content]]

\* The first element a search over an index-ordered table finds.
First(S) == CHOOSE x \in S : \A y \in S : x <= y

-----------------------------------------------------------------------------
(* FunctionContext: stack slots of variables, spill items, callee-saved set *)

\* Mutant of AddVar: the counter is not advanced.
AddVarInPlace(s, v) == IF s.slot[v] # NoSlot THEN s ELSE [s EXCEPT !.slot[v] = s.sc]

\* addVar: a variable gets the next cell unless it already has one.
AddVar(s, v) ==
  IF s.slot[v] # NoSlot THEN s
  ELSE [s EXCEPT !.slot[v] = s.sc, !.sc = s.sc + 1]

\* The "sw" of a variable at its getVarOffset, from register r.
StoreVar(s, r, v) ==
  LET a == AddVar(s, v) IN [a EXCEPT !.mem[a.slot[v]] = a.reg[r]]

\* getSpillTableFreePos: items are only ever appended, at the stack counter of
\* the moment, so the first free item is the free one with the least cell.
SpillCell(s) ==
  LET free == {c \in 1 .. MaxCell : s.spill[c] = NoVal}
  IN  IF free = {} THEN s.sc ELSE First(free)

\* spillTemp and the "sw" every caller emits after it.
SpillTemp(s, r, t) ==
  LET c == SpillCell(s)
  IN  [s EXCEPT !.spill[c] = t, !.sc = IF c = s.sc THEN s.sc + 1 ELSE s.sc,
                !.mem[c] = s.reg[r]]

\* unspillTemp and the "lw" of getRegister, which emits it if the search hits.
UnspillTemp(s, r, t) ==
  LET hits == {c \in 1 .. MaxCell : s.spill[c] = t}
  IN  IF hits = {} THEN s
      ELSE [s EXCEPT !.spill[First(hits)] = NoVal, !.reg[r] = s.mem[First(hits)]]

\* Mutant of CleanSpillTable: the items themselves are dropped, not their contents.
DropSpillTable(s) == [s EXCEPT !.spill = [c \in 1 .. MaxCell |-> NotSpill]]

\* cleanspillTable: every spill item becomes free.
CleanSpillTable(s) ==
  [s EXCEPT !.spill = [c \in 1 .. MaxCell |->
                         IF s.spill[c] = NotSpill THEN NotSpill ELSE NoVal]]

\* Mutant of TestCalleeSaved: the wrong register set is searched.
TestCallerSaved(s, r) ==
  IF r \in CallerSaved THEN [s EXCEPT !.callee = s.callee \cup {r}] ELSE s

\* testCalleeSaved: what the prologue will have to save.
TestCalleeSaved(s, r) ==
  IF r \in CalleeSaved THEN [s EXCEPT !.callee = s.callee \cup {r}] ELSE s

-----------------------------------------------------------------------------
(* BlockContext: the register table *)

\* Mutant of FreshBlock: the table of the previous block is taken over.
InheritTable(s) ==
  [s EXCEPT !.reg = [r \in 0 .. NumRegs |-> IF r = 0 THEN ZeroConst ELSE Junk]]

\* The constructor: an empty table.  Nothing is known about the machine's
\* evaluation registers when a block is entered.
FreshBlock(s) ==
  [s EXCEPT !.val = [r \in Regs |-> NoVal], !.saved = [r \in Regs |-> FALSE],
            !.lru = [r \in Regs |-> 0],
            !.reg = [r \in 0 .. NumRegs |-> IF r = 0 THEN ZeroConst ELSE Junk]]

FreeItems(s) == {r \in Regs : s.val[r] = NoVal}

\* The scan of removeVictim keeps the first of the oldest entries.
Victim(s) == First({r \in Regs : \A q \in Regs : s.lru[q] <= s.lru[r]})

Unmap(s, r) == [s EXCEPT !.val[r] = NoVal]

\* Mutant of Evict: a changed variable is not stored.
EvictWithoutStore(s, r) ==
  Unmap(IF s.val[r] \in Temp THEN SpillTemp(s, r, s.val[r]) ELSE s, r)

\* What leaving register r costs: a constant is dropped, a variable is stored
\* if its cell is stale, a temporary always moves to a spill item.
Evict(s, r) ==
  LET v == s.val[r]
      kept == IF v \in Temp THEN SpillTemp(s, r, v)
              ELSE IF v \in Named /\ ~s.saved[r] THEN StoreVar(s, r, v)
              ELSE s
  IN  Unmap(kept, r)

RemoveVictim(s) == Evict(s, Victim(s))

\* getFreeTableItem: the state in which the first free item is used.
WithFreeItem(s) == IF FreeItems(s) # {} THEN s ELSE RemoveVictim(s)

\* Constants are matched by value, other values by identity.
Holding(s, v) == {r \in Regs : s.val[r] = v}

\* Mutant of SaveAndClear: the entry stays mapped over the call.
SaveWithoutClearing(s, r) ==
  IF s.val[r] \in Named /\ ~s.saved[r]
  THEN [StoreVar(s, r, s.val[r]) EXCEPT !.saved[r] = TRUE] ELSE s

\* saveVarsAndClear, at one entry of the table.
SaveAndClear(s, r) ==
  IF s.val[r] = NoVal THEN s
  ELSE [Evict(s, r) EXCEPT !.saved[r] = s.saved[r] \/ s.val[r] \in Named]

\* The tail of getRegister: li / la / lw into the newly mapped register.
Load(s, r, v, load) ==
  IF v \in Const THEN [s EXCEPT !.reg[r] = v]
  ELSE IF v \in Named
       THEN LET a == [AddVar(s, v) EXCEPT !.saved[r] = TRUE]
            IN  IF load THEN [a EXCEPT !.reg[r] = a.mem[a.slot[v]]] ELSE a
       ELSE IF load THEN UnspillTemp(s, r, v) ELSE s

\* A free table item is mapped to v.
MapItem(s, r, v, load) ==
  LET m == [s EXCEPT !.val[r] = v, !.lru[r] = 0, !.saved[r] = FALSE]
  IN  [st |-> Load(TestCalleeSaved(m, r), r, v, load), reg |-> r]

\* getRegister: the register of v, allocated and loaded if need be.
GetRegister(s, v, load) ==
  IF v = ZeroConst THEN [st |-> s, reg |-> 0]
  ELSE IF Holding(s, v) # {}
       THEN LET r == First(Holding(s, v))
            IN  [st |-> [s EXCEPT !.lru[r] = 0], reg |-> r]
       ELSE LET f == WithFreeItem(s) IN MapItem(f, First(FreeItems(f)), v, load)

\* getFreeRegister: a register that stays unmapped; testCalleeSaved is not
\* called for it.
HandOut(s, r) == [st |-> [s EXCEPT !.scratch = s.scratch \cup {r}], reg |-> r]

GetFreeRegister(s) == LET f == WithFreeItem(s) IN HandOut(f, First(FreeItems(f)))

MarkChanged(s, r) == [s EXCEPT !.saved[r] = FALSE]

\* markUsed: a temporary is used once, its register is free afterwards.
MarkUsed(s, v) ==
  IF v \in Temp /\ Holding(s, v) # {} THEN Unmap(s, First(Holding(s, v))) ELSE s

\* Mutant of UpdateLRU: a value that was just used is aged twice.
UpdateLRUTwice(s) ==
  [s EXCEPT !.lru = [r \in Regs |-> s.lru[r] + (IF s.lru[r] = 0 THEN 2 ELSE 1)]]

\* updateLRU
UpdateLRU(s) == [s EXCEPT !.lru = [r \in Regs |-> s.lru[r] + 1]]

\* saveUnsavedVariables: every variable whose cell is stale is stored.  The loop
\* is order independent because each mapped variable has a cell of its own.
Unsaved(s) == {r \in Regs : s.val[r] \in Named /\ ~s.saved[r]}

\* Mutant of SaveUnsavedVariables: the loop ends at the first free entry.
SaveUntilFree(s) ==
  LET U == {r \in Unsaved(s) : \A q \in FreeItems(s) : r < q}
  IN  [s EXCEPT !.saved = [r \in Regs |-> s.saved[r] \/ r \in U],
                !.mem = [c \in Cells |->
                           IF \E r \in U : s.slot[s.val[r]] = c
                           THEN s.reg[CHOOSE r \in U : s.slot[s.val[r]] = c]
                           ELSE s.mem[c]]]

SaveUnsavedVariables(s) ==
  [s EXCEPT !.saved = [r \in Regs |-> s.saved[r] \/ r \in Unsaved(s)],
            !.mem = [c \in Cells |->
                       IF \E r \in Unsaved(s) : s.slot[s.val[r]] = c
                       THEN s.reg[CHOOSE r \in Unsaved(s) : s.slot[s.val[r]] = c]
                       ELSE s.mem[c]]]

-----------------------------------------------------------------------------
(* The machine *)

\* An emitted instruction computes the new value of d into register r; whatever
\* else contained d is out of date from now on.
Define(s, r, d) ==
  [s EXCEPT !.reg = [q \in 0 .. NumRegs |->
                       IF q = r THEN d ELSE IF s.reg[q] = d THEN Junk ELSE s.reg[q]],
            !.mem = [c \in Cells |-> IF s.mem[c] = d THEN Junk ELSE s.mem[c]]]

\* An emitted instruction, or a callee, overwrites the registers R.
Clobber(s, R) ==
  [s EXCEPT !.reg = [q \in 0 .. NumRegs |-> IF q \in R THEN Junk ELSE s.reg[q]]]
=============================================================================
