------------------------ MODULE AsmGenerator_proofs ------------------------
(***************************************************************************)
(* The register allocator keeps every value, for every function: any       *)
(* number of registers (at least four), variables, temporaries, constants, *)
(* blocks and instructions.                                                *)
(*                                                                         *)
(* The inductive invariant adds to the checked ones what makes them        *)
(* survive the next step: a sound allocation state (Sound), ages that stay *)
(* behind the instruction count, no entry marked as touched when an        *)
(* instruction starts, and what each phase may rely on.                    *)
(***************************************************************************)
EXTENDS AsmGenerator, BlockContext_proofs

\* Whatever has been declared has a cell.
DeclaredSound == \A v \in declared : st.slot[v] # NoSlot

\* Entries are no older than the block, and an instruction finds none touched.
AgeSound ==
  /\ \A r \in Regs : st.lru[r] <= instr
  /\ phase \in {"body", "jumped", "returned"} => Touched(st) = {}
  /\ phase \in {"arguments", "clear", "print"} => instr < MaxInstr

\* What a phase may rely on.
PhaseSound ==
  /\ phase = "function" => /\ st = CallerState /\ declared = {} /\ defined = {} /\ live = {}
  /\ phase \in {"blocks", "jumped", "returned"} => \A v \in defined : Home(st, v)
  /\ phase = "blocks" => live = {}
  /\ phase = "clear" => \A r \in CallerSaved : r < next => st.val[r] = NoVal

IInv ==
  /\ TypeOK /\ Sound(st, defined, live)
  /\ DeclaredSound /\ AgeSound /\ PhaseSound
  /\ read = operands

\* What every step is shown to do: keep the invariant, only extend the frame, and
\* read from the machine the operands the intermediate code names.
Preserving == IInv' /\ Extends(st, st') /\ read' = operands'

-----------------------------------------------------------------------------
(* The invariant implies the checked properties. *)

\* The inductive invariant contains the type invariant and implies that no value is
\* lost, that frames are laid out disjointly and that value registers are restored.
LEMMA IInvImplies ==
  ASSUME IInv
  PROVE  TypeOK /\ NothingLost /\ VariablesHomeBetweenBlocks /\ FrameDisjoint
         /\ ValueRegistersPreserved
<1> USE BoundsAssumption, ValuesAssumption DEF Values
<1>0. /\ st \in AllocState /\ FrameSound(st) /\ TableSound(st)
      /\ ContentSound(st, defined, live) /\ defined \subseteq Named /\ live \subseteq Temp
  BY DEF IInv, Sound
<1>1. NothingLost
  <2> SUFFICES ASSUME NEW v \in defined \cup live PROVE Kept(v)
    BY DEF NothingLost
  <2>1. CASE Holding(st, v) # {}
    BY <1>0, <2>1 DEF Kept, Holding, ContentSound
  <2>2. CASE Holding(st, v) = {}
    <3>1. \A r \in Regs : st.val[r] # v
      BY <2>2 DEF Holding
    <3>2. CASE v \in Named
      BY <1>0, <2>2, <3>1, <3>2 DEF Kept, ContentSound
    <3>3. CASE v \notin Named
      <4>1. PICK c \in 1 .. MaxCell : st.spill[c] = v
        BY <1>0, <3>1, <3>3 DEF ContentSound
      <4>2. st.mem[c] = v
        BY <1>0, <3>3, <4>1 DEF ContentSound
      <4> QED
        BY <2>2, <3>3, <4>1, <4>2 DEF Kept
    <3> QED
      BY <3>2, <3>3
  <2> QED
    BY <2>1, <2>2
<1>2. VariablesHomeBetweenBlocks
  BY DEF IInv, PhaseSound, VariablesHomeBetweenBlocks, Home
<1>3. FrameDisjoint
  BY <1>0 DEF FrameDisjoint, FrameSound, NoSlot
<1>4. ValueRegistersPreserved
  BY <1>0 DEF ValueRegistersPreserved, TableSound
<1> QED
  BY <1>1, <1>2, <1>3, <1>4 DEF IInv

-----------------------------------------------------------------------------
(* One instruction of a block *)

\* No entry is as old as the bound when an instruction remains to be translated.
LEMMA AgeBound ==
  ASSUME IInv, instr < MaxInstr
  PROVE  st \in AllocState /\ \A q \in Regs : st.lru[q] < MaxInstr
<1>1. st \in AllocState
  BY DEF IInv, TypeOK
<1>2. \A q \in Regs : st.lru[q] \in Nat /\ st.lru[q] <= instr
  BY <1>1, BoundsAssumption DEF IInv, AgeSound, AllocState
<1>3. instr \in Nat /\ MaxInstr \in Nat
  BY BoundsAssumption DEF IInv, TypeOK
<1> QED
  BY <1>1, <1>2, <1>3

\* The state an instruction finds.
LEMMA BodyReady ==
  ASSUME IInv, InBody
  PROVE  Ready(st, defined, live) /\ st \in AllocState /\ instr < MaxInstr
BY DEF IInv, TypeOK, AgeSound, InBody, Room, Ready

\* The state it leaves.
LEMMA FinishInv ==
  ASSUME IInv, NEW s, NEW to \in {"body", "jumped", "returned"}, instr < MaxInstr,
         Finish(s, to), Finished(st, UpdateLRU(s), defined', live'),
         declared' \subseteq Named, defined' \subseteq declared',
         \A v \in declared' : UpdateLRU(s).slot[v] # NoSlot,
         to # "body" => \A v \in defined' : Home(UpdateLRU(s), v),
         read' = operands'
  PROVE  Preserving
<1> USE BoundsAssumption
<1>1. /\ st' = UpdateLRU(s) /\ instr' = instr + 1 /\ phase' = to
      /\ next' = next /\ blocks' = blocks
  BY DEF Finish
<1>2. /\ Sound(st', defined', live') /\ Extends(st, st') /\ Touched(st') = {}
      /\ \A q \in Regs : st'.lru[q] <= st.lru[q] + 1
  BY <1>1 DEF Finished
<1>3. st' \in AllocState /\ defined' \subseteq Named /\ live' \subseteq Temp
  BY <1>2 DEF Sound
<1>4. instr \in 0 .. MaxInstr /\ instr' \in 0 .. MaxInstr
  BY <1>1 DEF IInv, TypeOK
<1>5. TypeOK'
  BY <1>1, <1>3, <1>4 DEF IInv, TypeOK, Phases
<1>6. \A q \in Regs : st'.lru[q] <= instr'
  <2>1. \A q \in Regs : st.lru[q] \in Nat /\ st'.lru[q] \in Nat /\ st.lru[q] <= instr
    BY <1>3 DEF IInv, TypeOK, AgeSound, AllocState
  <2> QED
    BY <1>1, <1>2, <1>4, <2>1
<1>7. AgeSound'
  BY <1>1, <1>2, <1>6 DEF AgeSound
<1>8. PhaseSound'
  BY <1>1 DEF PhaseSound
<1>9. DeclaredSound'
  BY <1>1 DEF DeclaredSound
<1> QED
  BY <1>2, <1>5, <1>7, <1>8, <1>9 DEF IInv, Preserving

\* An instruction with a result, from the moment its result is due.
LEMMA ResultInv ==
  ASSUME IInv, instr < MaxInstr, NEW s, NEW r, NEW d, NEW L, Pending(st, s, defined, L, r, d),
         Finish(Define(s, r, d), "body"),
         d \in Named => d \in declared,
         live' = L \cup ({d} \cap Temp), defined' = defined \cup ({d} \cap Named),
         declared' = declared, read' = operands'
  PROVE  Preserving
<1> DEFINE u == UpdateLRU(Define(s, r, d))
<1>1. Finished(st, u, defined', live')
  BY AgeBound, PendingEnd
<1>2. \A v \in declared' : u.slot[v] # NoSlot
  BY <1>1 DEF Finished, Extends, IInv, DeclaredSound, TypeOK
<1>3. declared' \subseteq Named /\ defined' \subseteq declared'
  BY DEF IInv, TypeOK
<1> HIDE DEF u
<1> QED
  BY <1>1, <1>2, <1>3, FinishInv DEF u

\* An operand's register is not the one of a result with a different identity.
LEMMA OperandKept ==
  ASSUME NEW s, NEW i, NEW o, NEW r \in Regs, Carries(s, i, o), s.val[r] # o
  PROVE  i # r
BY RegistersAssumption DEF Carries, Regs

\* visit of an instruction with one operand and one result.
LEMMA OneOperandInv ==
  ASSUME IInv, NEW o \in Readable, NEW d, NEW early \in BOOLEAN, OneOperand(o, d, early),
         \/ d \in declared
         \/ d \in Temp /\ Fresh(d),
         early => d \in Temp
  PROVE  Preserving
<1> DEFINE a == GetRegister(st, o, TRUE)
           b == GetRegister(a.st, d, FALSE)
           c == MarkChanged(b.st, b.reg)
           u == MarkUsed(c, o)
           e == IF early THEN Clobber(u, {b.reg}) ELSE u
<1> USE ValuesAssumption DEF Values
<1>1. /\ InBody /\ Finish(Define(u, b.reg, d), "body")
      /\ operands' = <<o>> /\ read' = <<e.reg[a.reg]>>
      /\ live' = (live \ {o}) \cup ({d} \cap Temp)
      /\ defined' = defined \cup ({d} \cap Named) /\ declared' = declared
  BY DEF OneOperand, EmitOne, Reads, Produced
<1>2. Ready(st, defined, live) /\ st \in AllocState /\ instr < MaxInstr
  BY <1>1, BodyReady
<1>3. After1(st, a.st, defined, live, a.reg, o)
  BY <1>2, FetchOne DEF Readable
<1> HIDE DEF a
<1>4. /\ Reached(st, a.st, defined, live, 1, {a.reg})
      /\ Carries(a.st, a.reg, o)
      /\ \/ d \in Named /\ st.slot[d] # NoSlot
         \/ d \in Temp /\ Absent(a.st, d)
  BY <1>3 DEF After1, KeepsAbsent, Fresh, Absent, IInv, TypeOK, DeclaredSound
<1>5. /\ Pending(st, c, defined, live, b.reg, d)
      /\ c.reg = b.st.reg /\ c.val = b.st.val
      /\ \A i, x : Carries(a.st, i, x) => Carries(b.st, i, x)
  <2>1. a.st \in AllocState /\ Touched(a.st) \subseteq {a.reg, a.reg, a.reg}
    BY <1>4 DEF Reached, Sound
  <2>2. SomeUntouched(a.st) /\ 1 \in 0 .. 3
    BY <2>1, UntouchedExists
  <2> QED
    BY <1>2, <1>4, <2>2, ResultRegister, ZenonT(30)
<1> HIDE DEF b, c
<1>6. o # d \/ o \notin Temp
  BY DEF Readable, Fresh, IInv, TypeOK
<1>7. Pending(st, u, defined, live \ {o}, b.reg, d) /\ u.reg = c.reg
  BY <1>2, <1>5, <1>6, PendingUsed
<1>8. e.reg[a.reg] = o
  <2>1. Carries(b.st, a.reg, o)
    BY <1>4, <1>5
  <2>2. u.reg[a.reg] = o
    BY <1>5, <1>7, <2>1 DEF Carries
  <2>3. CASE early
    <3>1. o # d /\ b.reg \in Regs /\ b.st.val[b.reg] = d
      BY <1>5, <1>6, <2>3 DEF Pending
    <3>2. a.reg # b.reg /\ a.reg \in 0 .. NumRegs
      BY <2>1, <3>1, OperandKept DEF Carries
    <3> HIDE DEF u
    <3>3. Clobber(u, {b.reg}).reg[a.reg] = u.reg[a.reg]
      BY <1>7, <3>2 DEF Clobber, Pending, Sound, AllocState
    <3> QED
      BY <2>2, <2>3, <3>3
  <2> QED
    BY <2>2, <2>3
<1> HIDE DEF u, e
<1>9. d \in Named => d \in declared
  BY <1>4
<1> QED
  BY <1>1, <1>7, <1>8, <1>9, <1>2, ResultInv

\* The operands that a temporary result cannot be mistaken for.
LEMMA FreshIsNoOperand ==
  ASSUME IInv, NEW d, d \in Temp, Fresh(d), NEW o \in Readable
  PROVE  o # d
BY ValuesAssumption DEF Values, Readable, Fresh, IInv, TypeOK

\* visit of an instruction with two operands and one result.
LEMMA TwoOperandsInv ==
  ASSUME IInv, NEW o1 \in Readable, NEW o2 \in Readable, NEW d \in Temp,
         NEW early \in BOOLEAN, TwoOperands(o1, o2, d, early)
  PROVE  Preserving
<1> DEFINE a == GetRegister(st, o1, TRUE)
           b == GetRegister(a.st, o2, TRUE)
           c == GetRegister(b.st, d, FALSE)
           m == MarkChanged(c.st, c.reg)
           v == MarkUsed(m, o1)
           u == MarkUsed(v, o2)
           e == IF early THEN Clobber(u, {c.reg}) ELSE u
<1> USE ValuesAssumption DEF Values
<1>1. /\ InBody /\ Fresh(d) /\ Finish(Define(u, c.reg, d), "body")
      /\ operands' = <<o1, o2>> /\ read' = <<e.reg[a.reg], e.reg[b.reg]>>
      /\ live' = (live \ {o1, o2}) \cup ({d} \cap Temp)
      /\ defined' = defined \cup ({d} \cap Named) /\ declared' = declared
  BY DEF TwoOperands, EmitTwo, Reads, Produced
<1>2. Ready(st, defined, live) /\ st \in AllocState /\ instr < MaxInstr
  BY <1>1, BodyReady
<1>3. After1(st, a.st, defined, live, a.reg, o1)
  BY <1>2, FetchOne DEF Readable
<1> HIDE DEF a
<1>4. After2(st, b.st, defined, live, a.reg, o1, b.reg, o2)
  BY <1>2, <1>3, FetchTwo DEF Readable
<1> HIDE DEF b
<1>5. /\ Reached(st, b.st, defined, live, 2, {a.reg, b.reg})
      /\ Carries(b.st, a.reg, o1) /\ Carries(b.st, b.reg, o2)
      /\ d \in Temp /\ Absent(b.st, d)
  BY <1>1, <1>4 DEF After2, KeepsAbsent, Fresh, Absent
<1>6. /\ Pending(st, m, defined, live, c.reg, d)
      /\ m.reg = c.st.reg /\ m.val = c.st.val
      /\ \A i, x : Carries(b.st, i, x) => Carries(c.st, i, x)
  <2>1. b.st \in AllocState /\ Touched(b.st) \subseteq {a.reg, b.reg, b.reg}
    BY <1>5 DEF Reached, Sound
  <2>2. SomeUntouched(b.st) /\ 2 \in 0 .. 3
    BY <2>1, UntouchedExists, SMTT(30)
  <2> QED
    BY <1>2, <1>5, <2>2, ResultRegister, ZenonT(30)
<1> HIDE DEF c, m
<1>7. o1 # d /\ o2 # d
  BY <1>1, FreshIsNoOperand
<1>8. Pending(st, v, defined, live \ {o1}, c.reg, d) /\ v.reg = m.reg
  BY <1>2, <1>6, <1>7, PendingUsed
<1> HIDE DEF v
<1>9. Pending(st, u, defined, (live \ {o1}) \ {o2}, c.reg, d) /\ u.reg = v.reg
  BY <1>2, <1>7, <1>8, PendingUsed
<1>10. Pending(st, u, defined, live \ {o1, o2}, c.reg, d)
  <2>1. (live \ {o1}) \ {o2} = live \ {o1, o2}
    OBVIOUS
  <2> QED
    BY <1>9, <2>1
<1> HIDE DEF u
<1>11. e.reg[a.reg] = o1 /\ e.reg[b.reg] = o2
  <2>1. Carries(c.st, a.reg, o1) /\ Carries(c.st, b.reg, o2)
    BY <1>5, <1>6
  <2>2. u.reg[a.reg] = o1 /\ u.reg[b.reg] = o2
    BY <1>6, <1>8, <1>9, <2>1 DEF Carries
  <2>3. c.reg \in Regs /\ c.st.val[c.reg] = d
    BY <1>6 DEF Pending
  <2>4. /\ a.reg # c.reg /\ a.reg \in 0 .. NumRegs
        /\ b.reg # c.reg /\ b.reg \in 0 .. NumRegs
    BY <1>7, <2>1, <2>3, OperandKept DEF Carries
  <2>5. /\ Clobber(u, {c.reg}).reg[a.reg] = u.reg[a.reg]
        /\ Clobber(u, {c.reg}).reg[b.reg] = u.reg[b.reg]
    BY <1>9, <2>4 DEF Clobber, Pending, Sound, AllocState
  <2> QED
    BY <2>2, <2>5
<1> HIDE DEF e
<1> QED
  BY <1>1, <1>10, <1>11, <1>2, ResultInv

\* visit of And, Or, LessEqual and GreaterEqual.
LEMMA VisitWithScratchInv ==
  ASSUME IInv, NEW o1 \in Readable, NEW o2 \in Readable, NEW d \in Temp,
         VisitWithScratch(o1, o2, d)
  PROVE  Preserving
<1> DEFINE a == GetRegister(st, o1, TRUE)
           b == GetRegister(a.st, o2, TRUE)
           c == GetRegister(b.st, d, FALSE)
           t == GetFreeRegister(c.st)
           m == MarkChanged(t.st, c.reg)
           v == MarkUsed(m, o1)
           u == MarkUsed(v, o2)
           e == Clobber(u, {c.reg, t.reg})
           w == Clobber(u, {t.reg})
<1> USE ValuesAssumption DEF Values
<1>1. /\ InBody /\ Fresh(d) /\ Finish(Define(w, c.reg, d), "body")
      /\ operands' = <<o1, o2>> /\ read' = <<e.reg[a.reg], e.reg[b.reg]>>
      /\ live' = (live \ {o1, o2}) \cup ({d} \cap Temp)
      /\ defined' = defined \cup ({d} \cap Named) /\ declared' = declared
  BY DEF VisitWithScratch, EmitWithScratch, Reads, Produced
<1>2. Ready(st, defined, live) /\ st \in AllocState /\ instr < MaxInstr
  BY <1>1, BodyReady
<1>3. After1(st, a.st, defined, live, a.reg, o1)
  BY <1>2, FetchOne DEF Readable
<1> HIDE DEF a
<1>4. After2(st, b.st, defined, live, a.reg, o1, b.reg, o2)
  BY <1>2, <1>3, FetchTwo DEF Readable
<1> HIDE DEF b
<1>5. /\ Reached(st, b.st, defined, live, 2, {a.reg, b.reg})
      /\ Carries(b.st, a.reg, o1) /\ Carries(b.st, b.reg, o2)
      /\ d \in Temp /\ Absent(b.st, d)
  BY <1>1, <1>4 DEF After2, KeepsAbsent, Fresh, Absent
<1>6. /\ Pending(st, MarkChanged(c.st, c.reg), defined, live, c.reg, d)
      /\ Reached(st, c.st, defined \ {d}, live, 3, {a.reg, b.reg, c.reg})
      /\ MarkChanged(c.st, c.reg).val = c.st.val /\ c.reg \in Touched(c.st)
      /\ \A i, x : Carries(b.st, i, x) => Carries(c.st, i, x)
  <2>1. b.st \in AllocState /\ Touched(b.st) \subseteq {a.reg, b.reg, b.reg}
    BY <1>5 DEF Reached, Sound
  <2>2. SomeUntouched(b.st) /\ 2 \in 0 .. 3
    BY <2>1, UntouchedExists
  <2>3. /\ Pending(st, MarkChanged(c.st, c.reg), defined, live, c.reg, d)
        /\ Reached(st, c.st, defined \ {d}, live, 2 + 1, {a.reg, b.reg} \cup {c.reg})
        /\ MarkChanged(c.st, c.reg).val = c.st.val /\ c.reg \in Touched(c.st)
        /\ \A i, x : Carries(b.st, i, x) => Carries(c.st, i, x)
    BY <1>2, <1>5, <2>2, ResultRegister
  <2> HIDE DEF c
  <2>4. {a.reg, b.reg} \cup {c.reg} = {a.reg, b.reg, c.reg} /\ 2 + 1 = 3
    OBVIOUS
  <2> QED
    BY <2>3, <2>4
<1> HIDE DEF c
<1>7. Carries(c.st, a.reg, o1) /\ Carries(c.st, b.reg, o2)
  BY <1>5, <1>6
<1>8. /\ d \notin live /\ defined \subseteq Named /\ d \in Named \cup Temp
      /\ c.reg \in Regs /\ c.st.val[c.reg] = d
  BY <1>6 DEF Pending
<1>9. /\ Sound(t.st, defined \ {d}, live) /\ Extends(st, t.st)
      /\ t.reg \in Regs /\ t.st.val[t.reg] = NoVal
      /\ \A q \in Regs : t.st.lru[q] <= st.lru[q]
      /\ \A q \in Touched(c.st) : t.st.val[q] = c.st.val[q]
      /\ \A i, x : x \in Values \cup {ZeroConst} /\ Carries(c.st, i, x)
                     => Carries(t.st, i, x)
  <2>1. c.st \in AllocState /\ Touched(c.st) \subseteq {a.reg, b.reg, c.reg}
    BY <1>6 DEF Reached, Sound
  <2>2. SomeUntouched(c.st)
    BY ONLY <2>1, UntouchedExists
  <2>3. st.sc + 4 <= MaxCell + 1
    BY <1>2 DEF Ready
  <2>4. 3 \in 0 .. 3
    OBVIOUS
  <2> HIDE DEF t, Values
  <2> QED
    BY <1>2, <1>6, <2>2, <2>3, <2>4, Scratch DEF t
<1> HIDE DEF t
<1>10. t.st.val[c.reg] = d
  BY <1>6, <1>8, <1>9
<1>11. /\ Pending(st, m, defined, live, c.reg, d)
       /\ m.reg = t.st.reg /\ m.val = t.st.val
  <2>1. Pending(st, m, defined, live, c.reg, d)
    BY <1>2, <1>8, <1>9, <1>10, PendingStart
  <2>2. m.reg = t.st.reg /\ m.val = t.st.val
    BY <1>8, <1>9, MarkChangedSound
  <2> QED
    BY <2>1, <2>2
<1> HIDE DEF m
<1>12. o1 # d /\ o2 # d
  BY <1>1, FreshIsNoOperand
<1>13. /\ Pending(st, v, defined, live \ {o1}, c.reg, d) /\ v.reg = m.reg
       /\ v.val[t.reg] = NoVal
  <2>1. m.val[t.reg] = NoVal
    BY <1>9, <1>11
  <2>2. Pending(st, v, defined, live \ {o1}, c.reg, d) /\ v.reg = m.reg
    BY <1>2, <1>11, <1>12, PendingUsed
  <2>3. v.val[t.reg] = NoVal
    BY <1>9, <1>11, <2>1, FreeStaysFree DEF Pending, Sound
  <2> QED
    BY <2>2, <2>3
<1> HIDE DEF v
<1>14. /\ Pending(st, u, defined, (live \ {o1}) \ {o2}, c.reg, d) /\ u.reg = v.reg
       /\ u.val[t.reg] = NoVal
  <2>1. Pending(st, u, defined, (live \ {o1}) \ {o2}, c.reg, d) /\ u.reg = v.reg
    BY <1>2, <1>12, <1>13, PendingUsed
  <2>2. u.val[t.reg] = NoVal
    BY <1>9, <1>13, FreeStaysFree DEF Pending, Sound
  <2> QED
    BY <2>1, <2>2
<1>15. Pending(st, u, defined, live \ {o1, o2}, c.reg, d)
  <2>1. (live \ {o1}) \ {o2} = live \ {o1, o2}
    OBVIOUS
  <2> QED
    BY <1>14, <2>1
<1> HIDE DEF u
<1>16. Pending(st, w, defined, live \ {o1, o2}, c.reg, d)
  BY <1>2, <1>9, <1>14, <1>15, PendingClobber
<1>17. e.reg[a.reg] = o1 /\ e.reg[b.reg] = o2
  <2>1. o1 \in Values \cup {ZeroConst} /\ o2 \in Values \cup {ZeroConst}
    BY DEF Readable, IInv, TypeOK
  <2>2. Carries(t.st, a.reg, o1) /\ Carries(t.st, b.reg, o2)
    BY <1>7, <1>9, <2>1
  <2>3. u.reg[a.reg] = o1 /\ u.reg[b.reg] = o2
    BY <1>11, <1>13, <1>14, <2>2 DEF Carries
  <2>4. t.st.val[t.reg] # o1 /\ t.st.val[t.reg] # o2
    BY <1>9, <2>1
  <2>5. /\ a.reg # c.reg /\ a.reg # t.reg /\ a.reg \in 0 .. NumRegs
        /\ b.reg # c.reg /\ b.reg # t.reg /\ b.reg \in 0 .. NumRegs
    BY <1>8, <1>9, <1>10, <1>12, <2>2, <2>4, OperandKept DEF Carries
  <2>6. e.reg[a.reg] = u.reg[a.reg] /\ e.reg[b.reg] = u.reg[b.reg]
    BY <1>14, <2>5 DEF Clobber, Pending, Sound, AllocState
  <2> QED
    BY <2>3, <2>6
<1> HIDE DEF e, w
<1> QED
  BY <1>1, <1>16, <1>17, <1>2, ResultInv

\* visit of set_at: three operands and a result written before they are all read.
LEMMA VisitSetAtInv ==
  ASSUME IInv, NEW o1 \in Readable, NEW o2 \in Readable, NEW o3 \in Readable,
         NEW d \in Temp, VisitSetAt(o1, o2, o3, d)
  PROVE  Preserving
<1> DEFINE a == GetRegister(st, o1, TRUE)
           b == GetRegister(a.st, o2, TRUE)
           c == GetRegister(b.st, o3, TRUE)
           g == GetRegister(c.st, d, FALSE)
           m == MarkChanged(g.st, g.reg)
           v == MarkUsed(m, o1)
           w == MarkUsed(v, o2)
           u == MarkUsed(w, o3)
           e == Clobber(u, {g.reg})
<1> USE ValuesAssumption DEF Values
<1>1. /\ InBody /\ Fresh(d) /\ Finish(Define(u, g.reg, d), "body")
      /\ operands' = <<o1, o2, o3>>
      /\ read' = <<e.reg[a.reg], e.reg[b.reg], e.reg[c.reg]>>
      /\ live' = (live \ {o1, o2, o3}) \cup ({d} \cap Temp)
      /\ defined' = defined \cup ({d} \cap Named) /\ declared' = declared
  BY DEF VisitSetAt, EmitSetAt, Reads, Produced
<1>2. Ready(st, defined, live) /\ st \in AllocState /\ instr < MaxInstr
  BY <1>1, BodyReady
<1>3. After1(st, a.st, defined, live, a.reg, o1)
  BY <1>2, FetchOne DEF Readable
<1> HIDE DEF a
<1>4. After2(st, b.st, defined, live, a.reg, o1, b.reg, o2)
  BY <1>2, <1>3, FetchTwo DEF Readable
<1> HIDE DEF b
<1>5. After3(st, c.st, defined, live, a.reg, o1, b.reg, o2, c.reg, o3)
  BY <1>2, <1>4, FetchThree DEF Readable
<1> HIDE DEF c
<1>6. /\ Reached(st, c.st, defined, live, 3, {a.reg, b.reg, c.reg})
      /\ Carries(c.st, a.reg, o1) /\ Carries(c.st, b.reg, o2) /\ Carries(c.st, c.reg, o3)
      /\ d \in Temp /\ Absent(c.st, d)
  BY <1>1, <1>5 DEF After3, KeepsAbsent, Fresh, Absent
<1>7. /\ Pending(st, m, defined, live, g.reg, d)
      /\ m.reg = g.st.reg /\ m.val = g.st.val
      /\ \A i, x : Carries(c.st, i, x) => Carries(g.st, i, x)
  <2>1. c.st \in AllocState /\ Touched(c.st) \subseteq {a.reg, b.reg, c.reg}
    BY <1>6 DEF Reached, Sound
  <2>2. SomeUntouched(c.st)
    BY ONLY <2>1, UntouchedExists
  <2>3. 3 \in 0 .. 3
    OBVIOUS
  <2> QED
    BY <1>2, <1>6, <2>2, <2>3, ResultRegister, ZenonT(30)
<1> HIDE DEF g, m
<1>8. o1 # d /\ o2 # d /\ o3 # d
  BY <1>1, FreshIsNoOperand
<1>9. Pending(st, v, defined, live \ {o1}, g.reg, d) /\ v.reg = m.reg
  BY <1>2, <1>7, <1>8, PendingUsed
<1> HIDE DEF v
<1>10. Pending(st, w, defined, (live \ {o1}) \ {o2}, g.reg, d) /\ w.reg = v.reg
  BY <1>2, <1>8, <1>9, PendingUsed
<1> HIDE DEF w
<1>11. Pending(st, u, defined, ((live \ {o1}) \ {o2}) \ {o3}, g.reg, d) /\ u.reg = w.reg
  BY <1>2, <1>8, <1>10, PendingUsed
<1>12. Pending(st, u, defined, live \ {o1, o2, o3}, g.reg, d)
  <2>1. ((live \ {o1}) \ {o2}) \ {o3} = live \ {o1, o2, o3}
    OBVIOUS
  <2> QED
    BY <1>11, <2>1
<1> HIDE DEF u
<1>13. e.reg[a.reg] = o1 /\ e.reg[b.reg] = o2 /\ e.reg[c.reg] = o3
  <2>1. Carries(g.st, a.reg, o1) /\ Carries(g.st, b.reg, o2) /\ Carries(g.st, c.reg, o3)
    BY <1>6, <1>7
  <2>2. u.reg[a.reg] = o1 /\ u.reg[b.reg] = o2 /\ u.reg[c.reg] = o3
    BY <1>7, <1>9, <1>10, <1>11, <2>1 DEF Carries
  <2>3. g.reg \in Regs /\ g.st.val[g.reg] = d
    BY <1>7 DEF Pending
  <2>4. /\ a.reg # g.reg /\ a.reg \in 0 .. NumRegs
        /\ b.reg # g.reg /\ b.reg \in 0 .. NumRegs
        /\ c.reg # g.reg /\ c.reg \in 0 .. NumRegs
    BY <1>8, <2>1, <2>3, OperandKept DEF Carries
  <2>5. /\ e.reg[a.reg] = u.reg[a.reg] /\ e.reg[b.reg] = u.reg[b.reg]
        /\ e.reg[c.reg] = u.reg[c.reg]
    BY <1>11, <2>4 DEF Clobber, Pending, Sound, AllocState
  <2> QED
    BY <2>2, <2>5
<1> HIDE DEF e
<1> QED
  BY <1>1, <1>12, <1>13, <1>2, ResultInv

-----------------------------------------------------------------------------
(* Instructions with a result and no operand, and those without a result *)

\* An instruction without a result, from the moment its operands have been used.
LEMMA NoResultInv ==
  ASSUME IInv, NEW s, NEW to \in {"body", "jumped", "returned"}, instr < MaxInstr,
         Finish(s, to), Sound(s, defined, live'), Extends(st, s),
         \A q \in Regs : s.lru[q] <= st.lru[q],
         to # "body" => \A v \in defined : Home(s, v),
         declared' = declared, defined' = defined, read' = operands'
  PROVE  Preserving
<1>1. /\ Finished(st, UpdateLRU(s), defined, live')
      /\ \A v \in defined : Home(s, v) => Home(UpdateLRU(s), v)
  BY AgeBound, FinishSound
<1>2. \A v \in declared' : UpdateLRU(s).slot[v] # NoSlot
  BY <1>1 DEF Finished, Extends, IInv, DeclaredSound, TypeOK
<1>3. declared' \subseteq Named /\ defined' \subseteq declared'
  BY DEF IInv, TypeOK
<1> QED
  BY <1>1, <1>2, <1>3, FinishInv

\* read_char, read_int and read_string whose result is wanted.
LEMMA VisitReadInv ==
  ASSUME IInv, NEW d \in Temp, VisitRead(d)
  PROVE  Preserving
<1> DEFINE g == GetRegister(st, d, FALSE)
           m == MarkChanged(g.st, g.reg)
<1>1. /\ InBody /\ Fresh(d) /\ Finish(Define(m, g.reg, d), "body")
      /\ operands' = <<>> /\ read' = <<>>
      /\ live' = (live \ {}) \cup ({d} \cap Temp)
      /\ defined' = defined \cup ({d} \cap Named) /\ declared' = declared
  BY DEF VisitRead, Reads, Produced
<1>2. /\ Ready(st, defined, live) /\ st \in AllocState /\ instr < MaxInstr
      /\ st.sc <= MaxCell /\ Extends(st, st)
  BY <1>1, BodyReady, BoundsAssumption DEF Ready, AllocState, Extends
<1>3. Pending(st, m, defined, live, g.reg, d)
  BY <1>1, <1>2, GetResult DEF Ready, Fresh, Absent
<1>4. d \in Named => d \in declared
  BY ValuesAssumption
<1> HIDE DEF g, m
<1> QED
  BY <1>1, <1>2, <1>3, <1>4, ResultInv

\* The same, when it is not.
LEMMA VisitReadDroppedInv ==
  ASSUME IInv, VisitReadDropped
  PROVE  Preserving
<1>1. /\ InBody /\ Finish(st, "body") /\ live' = live
      /\ operands' = <<>> /\ read' = <<>> /\ declared' = declared /\ defined' = defined
  BY DEF VisitReadDropped, Reads
<1>2. Sound(st, defined, live) /\ instr < MaxInstr /\ st \in AllocState
  BY <1>1, BodyReady DEF IInv
<1>3. Extends(st, st) /\ \A q \in Regs : st.lru[q] <= st.lru[q]
  BY <1>2, BoundsAssumption DEF Extends, AllocState
<1> QED
  BY <1>1, <1>2, <1>3, NoResultInv

\* get_at, strcat and set_at without a result only mark their operands used.
LEMMA VisitDiscardedInv ==
  ASSUME IInv, NEW o1, NEW o2, NEW o3, VisitDiscarded(o1, o2, o3)
  PROVE  Preserving
<1> DEFINE a == MarkUsed(st, o1)
           b == MarkUsed(a, o2)
           c == MarkUsed(b, o3)
<1>1. /\ InBody /\ Finish(c, "body") /\ live' = live \ {o1, o2, o3}
      /\ operands' = <<>> /\ read' = <<>> /\ declared' = declared /\ defined' = defined
  BY DEF VisitDiscarded, Reads
<1>2. Sound(st, defined, live) /\ instr < MaxInstr /\ st \in AllocState
  BY <1>1, BodyReady DEF IInv
<1>3. Sound(a, defined, live \ {o1}) /\ Extends(st, a) /\ a.lru = st.lru
  BY <1>2, MarkUsedSound
<1> HIDE DEF a
<1>4. Sound(b, defined, (live \ {o1}) \ {o2}) /\ Extends(a, b) /\ b.lru = a.lru
  BY <1>3, MarkUsedSound
<1> HIDE DEF b
<1>5. Sound(c, defined, ((live \ {o1}) \ {o2}) \ {o3}) /\ Extends(b, c) /\ c.lru = b.lru
  BY <1>4, MarkUsedSound
<1> HIDE DEF c
<1>6. a \in AllocState /\ b \in AllocState /\ c \in AllocState
  BY <1>3, <1>4, <1>5 DEF Sound
<1>7. Extends(st, c)
  BY <1>2, <1>3, <1>4, <1>5, <1>6, ExtendsTrans
<1>8. ((live \ {o1}) \ {o2}) \ {o3} = live \ {o1, o2, o3}
  OBVIOUS
<1>9. \A q \in Regs : c.lru[q] <= st.lru[q]
  BY <1>2, <1>3, <1>4, <1>5, BoundsAssumption DEF AllocState
<1> QED
  BY <1>1, <1>2, <1>5, <1>7, <1>8, <1>9, NoResultInv

\* visit(DeclarationInstruction).
LEMMA VisitDeclarationInv ==
  ASSUME IInv, NEW x \in Named, VisitDeclaration(x)
  PROVE  Preserving
<1> DEFINE a == AddVar(st, x)
           g == GetRegister(a, x, FALSE)
<1>1. /\ InBody /\ Finish(g.st, "body") /\ live' = live /\ x \notin declared
      /\ operands' = <<>> /\ read' = <<>> /\ declared' = declared \cup {x}
      /\ defined' = defined
  BY DEF VisitDeclaration, Reads
<1>2. /\ Sound(st, defined, live) /\ instr < MaxInstr /\ st \in AllocState
      /\ st.sc + 4 <= MaxCell + 1 /\ Touched(st) = {} /\ st.sc <= MaxCell
  BY <1>1, BodyReady, BoundsAssumption DEF IInv, Ready, AllocState
<1>3. /\ Sound(a, defined, live) /\ Extends(st, a) /\ a.sc <= st.sc + 1
      /\ a.slot[x] # NoSlot /\ a.val = st.val /\ a.lru = st.lru
  BY <1>2, AddVarSound
<1> HIDE DEF a
<1>4. a \in AllocState /\ a.sc <= MaxCell
  BY <1>2, <1>3, BoundsAssumption DEF Sound, AllocState
<1>5. /\ Sound(g.st, defined \ {x}, live) /\ Extends(a, g.st)
      /\ \A q \in Regs : g.st.lru[q] <= a.lru[q]
  <2>1. PICK load \in BOOLEAN : load = FALSE
    OBVIOUS
  <2> DEFINE h == GetRegister(a, x, load)
  <2>2. /\ x \in Values \cup {ZeroConst} /\ (x \in Named => a.slot[x] # NoSlot)
        /\ (load => x \in defined \cup live \cup Const \cup {ZeroConst})
        /\ (~load => x \in Named \/ (x \in Temp /\ Absent(a, x)))
    BY <1>3, <2>1 DEF Values
  <2>3. Got(a, defined, IF load THEN defined ELSE defined \ {x}, live, x, load, h)
    BY <1>3, <1>4, <2>2, GetRegisterSound
  <2> HIDE DEF h
  <2>4. /\ Sound(h.st, defined \ {x}, live) /\ Extends(a, h.st)
        /\ \A q \in Regs : h.st.lru[q] <= a.lru[q]
    BY <2>1, <2>3 DEF Got
  <2> QED
    BY <2>1, <2>4 DEF h
<1> HIDE DEF g
<1>6. g.st \in AllocState /\ Extends(st, g.st) /\ \A q \in Regs : g.st.lru[q] <= st.lru[q]
  <2>1. g.st \in AllocState
    BY <1>5 DEF Sound
  <2> QED
    BY <1>2, <1>3, <1>4, <1>5, <2>1, ExtendsTrans
<1>7. defined \ {x} = defined /\ declared' \subseteq Named /\ defined' \subseteq declared'
  BY <1>1 DEF IInv, TypeOK
<1>8. Finished(st, UpdateLRU(g.st), defined', live')
  BY <1>1, <1>2, <1>5, <1>6, <1>7, AgeBound, FinishSound
<1>9. \A v \in declared' : UpdateLRU(g.st).slot[v] # NoSlot
  <2>1. \A v \in declared : UpdateLRU(g.st).slot[v] # NoSlot
    BY <1>8 DEF Finished, Extends, IInv, DeclaredSound, TypeOK
  <2>2. UpdateLRU(g.st).slot[x] # NoSlot
    BY <1>3, <1>5, <1>6 DEF UpdateLRU, AllocState, Extends
  <2> QED
    BY <1>1, <2>1, <2>2
<1> QED
  BY <1>1, <1>2, <1>7, <1>8, <1>9, FinishInv

-----------------------------------------------------------------------------
(* Calls and prints *)

\* A step inside a call or a print leaves the visitor there.
LEMMA InsideInv ==
  ASSUME IInv, phase' \in {"arguments", "clear", "print"}, instr < MaxInstr, instr' = instr,
         blocks' = blocks, next' \in 1 .. NumRegs + 1,
         Sound(st', defined, live'), Extends(st, st'),
         \A q \in Regs : st'.lru[q] <= st.lru[q],
         phase' = "clear" => \A r \in CallerSaved : r < next' => st'.val[r] = NoVal,
         declared' = declared, defined' = defined, read' = operands'
  PROVE  Preserving
<1>1. st' \in AllocState /\ live' \subseteq Temp
  BY DEF Sound
<1>2. TypeOK'
  BY <1>1 DEF IInv, TypeOK, Phases
<1>3. \A q \in Regs : st'.lru[q] <= instr'
  <2>1. \A q \in Regs : st'.lru[q] \in Nat /\ st.lru[q] \in Nat /\ st.lru[q] <= instr
    BY <1>1, BoundsAssumption DEF IInv, TypeOK, AgeSound, AllocState
  <2>2. instr \in Nat
    BY BoundsAssumption DEF IInv, TypeOK
  <2> QED
    BY <2>1, <2>2
<1>4. AgeSound'
  BY <1>3 DEF AgeSound
<1>5. PhaseSound'
  BY DEF PhaseSound
<1>6. DeclaredSound'
  BY DEF DeclaredSound, Extends, IInv, TypeOK
<1> QED
  BY <1>2, <1>4, <1>5, <1>6 DEF IInv, Preserving

\* One argument or one printed value.
LEMMA UseOperandInv ==
  ASSUME IInv, phase \in {"arguments", "print"}, NEW o, UseOperand(o)
  PROVE  Preserving
<1> DEFINE a == GetRegister(st, o, TRUE)
           u == MarkUsed(a.st, o)
<1>1. /\ Room /\ o \in Readable /\ st' = u /\ operands' = <<o>>
      /\ read' = <<a.st.reg[a.reg]>> /\ live' = live \ {o}
      /\ declared' = declared /\ defined' = defined
      /\ phase' = phase /\ next' = next /\ blocks' = blocks /\ instr' = instr
  BY DEF UseOperand, Reads, Consumed
<1>2. /\ Sound(st, defined, live) /\ st \in AllocState /\ instr < MaxInstr
      /\ st.sc <= MaxCell
  BY <1>1, BoundsAssumption DEF IInv, TypeOK, AgeSound, Room, AllocState
<1>3. /\ Sound(a.st, defined, live) /\ Extends(st, a.st) /\ a.st.reg[a.reg] = o
      /\ \A q \in Regs : a.st.lru[q] <= st.lru[q]
  BY <1>1, <1>2, GetOperand DEF Readable
<1> HIDE DEF a
<1>4. Sound(u, defined, live \ {o}) /\ Extends(a.st, u) /\ u.lru = a.st.lru
  BY <1>3, MarkUsedSound
<1> HIDE DEF u
<1>5. Extends(st, u)
  BY <1>2, <1>3, <1>4, ExtendsTrans DEF Sound
<1>6. \A q \in Regs : st'.lru[q] <= st.lru[q]
  BY <1>1, <1>3, <1>4
<1>7. phase' \in {"arguments", "clear", "print"} /\ phase' # "clear"
  BY <1>1
<1>8. next' \in 1 .. NumRegs + 1 /\ read' = operands'
  BY <1>1, <1>3 DEF IInv, TypeOK
<1> QED
  BY <1>1, <1>2, <1>4, <1>5, <1>6, <1>7, <1>8, InsideInv

\* The visitor enters a call, goes on to clear the table, or enters a print.
LEMMA StartInv ==
  ASSUME IInv, StartCall \/ StartClear \/ StartPrint
  PROVE  Preserving
<1>1. /\ phase' \in {"arguments", "clear", "print"} /\ instr < MaxInstr
      /\ instr' = instr /\ blocks' = blocks /\ st' = st
      /\ declared' = declared /\ defined' = defined /\ live' = live
      /\ operands' = operands /\ read' = read
  BY DEF StartCall, StartClear, StartPrint, InBody, irVars, IInv, AgeSound
<1>2. next' \in 1 .. NumRegs + 1 /\ (phase' = "clear" => next' = 1)
  BY RegistersAssumption DEF StartCall, StartClear, StartPrint, IInv, TypeOK
<1>3. Sound(st', defined, live') /\ st \in AllocState
  BY <1>1 DEF IInv, TypeOK
<1>4. Extends(st, st') /\ \A q \in Regs : st'.lru[q] <= st.lru[q]
  BY <1>1, <1>3, BoundsAssumption DEF Extends, AllocState
<1>5. phase' = "clear" => \A r \in CallerSaved : r < next' => st'.val[r] = NoVal
  BY <1>2, RegistersAssumption DEF CallerSaved
<1>6. read' = operands'
  BY <1>1 DEF IInv
<1> QED
  BY <1>1, <1>2, <1>3, <1>4, <1>5, <1>6, InsideInv

\* saveVarsAndClear, one entry.
LEMMA ClearEntryInv ==
  ASSUME IInv, ClearEntry
  PROVE  Preserving
<1> DEFINE u == SaveAndClear(st, next)
<1>1. /\ phase = "clear" /\ next \in Regs /\ Room
      /\ st' = IF next \in CallerSaved THEN u ELSE st
      /\ next' = next + 1 /\ operands' = <<>> /\ read' = <<>>
      /\ phase' = phase /\ blocks' = blocks /\ instr' = instr
      /\ declared' = declared /\ defined' = defined /\ live' = live
  BY DEF ClearEntry, Reads
<1>2. /\ Sound(st, defined, live) /\ st \in AllocState /\ instr < MaxInstr
      /\ st.sc <= MaxCell /\ next' \in 1 .. NumRegs + 1
      /\ \A r \in CallerSaved : r < next => st.val[r] = NoVal
  <2>1. Sound(st, defined, live) /\ st \in AllocState /\ instr < MaxInstr
    BY <1>1 DEF IInv, TypeOK, AgeSound
  <2>2. st.sc <= MaxCell
    BY <1>1, <2>1, BoundsAssumption DEF Room, AllocState
  <2>3. next' \in 1 .. NumRegs + 1
    BY <1>1, RegistersAssumption DEF Regs
  <2>4. \A r \in CallerSaved : r < next => st.val[r] = NoVal
    BY <1>1 DEF IInv, PhaseSound
  <2> QED
    BY <2>1, <2>2, <2>3, <2>4
<1>3. \A r \in CallerSaved : r \in Regs /\ r \in Int /\ next \in Int
  BY <1>1, RegistersAssumption DEF CallerSaved, Regs
<1>4. /\ Sound(st', defined, live) /\ Extends(st, st') /\ st'.lru = st.lru
      /\ \A r \in CallerSaved : r < next + 1 => st'.val[r] = NoVal
  <2>1. CASE next \in CallerSaved
    <3>1. /\ Sound(u, defined, live) /\ Extends(st, u) /\ u.lru = st.lru
          /\ u.val[next] = NoVal
          /\ \A q \in Regs : q # next => u.val[q] = st.val[q]
      BY <1>1, <1>2, SaveAndClearSound
    <3> HIDE DEF u
    <3> QED
      BY <1>1, <1>2, <1>3, <2>1, <3>1
  <2>2. CASE next \notin CallerSaved
    <3>1. st' = st /\ Extends(st, st)
      BY <1>1, <1>2, <2>2 DEF Extends, AllocState
    <3> QED
      BY <1>2, <1>3, <2>2, <3>1
  <2> QED
    BY <2>1, <2>2
<1> HIDE DEF u
<1>5. \A q \in Regs : st'.lru[q] <= st.lru[q]
  BY <1>2, <1>4, BoundsAssumption DEF AllocState
<1>6. phase' \in {"arguments", "clear", "print"} /\ read' = operands'
  BY <1>1
<1> QED
  BY <1>1, <1>2, <1>4, <1>5, <1>6, InsideInv

\* After the call no caller-saved register is mapped, so what the callee did to
\* them does not matter.
LEMMA ClobberedByCallee ==
  ASSUME IInv, phase = "clear", next = NumRegs + 1
  PROVE  LET s == Clobber(st, CallerSaved)
         IN  /\ Sound(s, defined, live) /\ Extends(st, s) /\ s.lru = st.lru
             /\ s.val = st.val /\ s.spill = st.spill /\ s.sc = st.sc
<1>1. \A r \in CallerSaved : r \in Regs /\ st.val[r] = NoVal
  BY RegistersAssumption DEF IInv, PhaseSound, CallerSaved, Regs
<1>2. CallerSaved \in SUBSET Regs /\ Sound(st, defined, live)
  BY <1>1 DEF IInv
<1> QED
  BY <1>1, <1>2, ClobberSound

\* The end of a call whose result is wanted.
LEMMA ReturnFromCallInv ==
  ASSUME IInv, NEW d \in Temp, ReturnFromCall(d)
  PROVE  Preserving
<1> DEFINE s == Clobber(st, CallerSaved)
           g == GetRegister(s, d, FALSE)
           m == MarkChanged(g.st, g.reg)
<1>1. /\ phase = "clear" /\ next = NumRegs + 1 /\ Room /\ Fresh(d)
      /\ Finish(Define(m, g.reg, d), "body")
      /\ operands' = <<>> /\ read' = <<>>
      /\ live' = (live \ {}) \cup ({d} \cap Temp)
      /\ defined' = defined \cup ({d} \cap Named) /\ declared' = declared
  BY DEF ReturnFromCall, Reads, Produced
<1>2. st \in AllocState /\ instr < MaxInstr /\ st.sc <= MaxCell
  BY <1>1, BoundsAssumption DEF IInv, TypeOK, AgeSound, Room, AllocState
<1>3. /\ Sound(s, defined, live) /\ Extends(st, s) /\ s.lru = st.lru
      /\ s.val = st.val /\ s.spill = st.spill /\ s.sc = st.sc
  BY <1>1, ClobberedByCallee
<1> HIDE DEF s
<1>4. Absent(s, d) /\ s.sc <= MaxCell
  BY <1>1, <1>2, <1>3 DEF Fresh, Absent
<1>5. Pending(st, m, defined, live, g.reg, d)
  BY <1>2, <1>3, <1>4, GetResult
<1>6. d \in Named => d \in declared
  BY ValuesAssumption
<1> HIDE DEF g, m
<1> QED
  BY <1>1, <1>2, <1>5, <1>6, ResultInv

\* The end of a call without one.
LEMMA ReturnFromVoidCallInv ==
  ASSUME IInv, ReturnFromVoidCall
  PROVE  Preserving
<1> DEFINE s == Clobber(st, CallerSaved)
<1>1. /\ phase = "clear" /\ next = NumRegs + 1 /\ Finish(s, "body") /\ live' = live
      /\ operands' = <<>> /\ read' = <<>> /\ declared' = declared /\ defined' = defined
  BY DEF ReturnFromVoidCall, Reads
<1>2. Sound(s, defined, live) /\ Extends(st, s) /\ s.lru = st.lru
  BY <1>1, ClobberedByCallee
<1>3. instr < MaxInstr /\ st \in AllocState
  BY <1>1 DEF IInv, TypeOK, AgeSound
<1> HIDE DEF s
<1>4. \A q \in Regs : s.lru[q] <= st.lru[q]
  BY <1>2, <1>3, BoundsAssumption DEF AllocState
<1> QED
  BY <1>1, <1>2, <1>3, <1>4, NoResultInv

\* The end of a print.
LEMMA EndPrintInv ==
  ASSUME IInv, EndPrint
  PROVE  Preserving
<1>1. /\ phase = "print" /\ Finish(st, "body") /\ live' = live
      /\ operands' = <<>> /\ read' = <<>> /\ declared' = declared /\ defined' = defined
  BY DEF EndPrint, Reads
<1>2. instr < MaxInstr /\ st \in AllocState /\ Sound(st, defined, live)
  BY <1>1 DEF IInv, TypeOK, AgeSound
<1>3. Extends(st, st) /\ \A q \in Regs : st.lru[q] <= st.lru[q]
  BY <1>2, BoundsAssumption DEF Extends, AllocState
<1> QED
  BY <1>1, <1>2, <1>3, NoResultInv

-----------------------------------------------------------------------------
(* Jumps, returns and block boundaries *)

\* visit of Jump and of Return without a value.
LEMMA VisitJumpInv ==
  ASSUME IInv, VisitJump \/ VisitReturnVoid
  PROVE  Preserving
<1> DEFINE s == SaveUnsavedVariables(st)
<1>1. PICK to \in {"jumped", "returned"} : Finish(s, to)
  BY DEF VisitJump, VisitReturnVoid
<1>2. /\ InBody /\ live' = live /\ operands' = <<>> /\ read' = <<>>
      /\ declared' = declared /\ defined' = defined
  BY DEF VisitJump, VisitReturnVoid, Reads
<1>3. instr < MaxInstr /\ st \in AllocState /\ Sound(st, defined, live)
  BY <1>2, BodyReady DEF IInv
<1>4. /\ Sound(s, defined, live) /\ Extends(st, s) /\ s.lru = st.lru
      /\ \A v \in defined : Home(s, v)
  BY <1>3, SaveUnsavedSound
<1> HIDE DEF s
<1>5. \A q \in Regs : s.lru[q] <= st.lru[q]
  BY <1>3, <1>4, BoundsAssumption DEF AllocState
<1> QED
  BY <1>1, <1>2, <1>3, <1>4, <1>5, NoResultInv

\* visit of CondJump and of Return with a value.
LEMMA SaveAndUseInv ==
  ASSUME IInv, NEW o, NEW to \in {"jumped", "returned"}, SaveAndUse(o, to)
  PROVE  Preserving
<1> DEFINE s == SaveUnsavedVariables(st)
           a == GetRegister(s, o, TRUE)
           u == MarkUsed(a.st, o)
<1>1. /\ InBody /\ o \in Readable /\ Finish(u, to) /\ operands' = <<o>>
      /\ read' = <<a.st.reg[a.reg]>> /\ live' = live \ {o}
      /\ declared' = declared /\ defined' = defined
  BY DEF SaveAndUse, Reads, Consumed
<1>2. /\ instr < MaxInstr /\ st \in AllocState /\ Sound(st, defined, live)
      /\ st.sc <= MaxCell
  BY <1>1, BodyReady, BoundsAssumption DEF IInv, Ready, AllocState
<1>3. /\ Sound(s, defined, live) /\ Extends(st, s) /\ s.lru = st.lru /\ s.sc = st.sc
      /\ \A v \in defined : Home(s, v)
  BY <1>2, SaveUnsavedSound
<1> HIDE DEF s
<1>4. s.sc <= MaxCell
  BY <1>2, <1>3
<1>5. /\ Sound(a.st, defined, live) /\ Extends(s, a.st) /\ a.st.reg[a.reg] = o
      /\ \A q \in Regs : a.st.lru[q] <= s.lru[q]
      /\ \A v \in defined : Home(a.st, v)
  BY <1>1, <1>3, <1>4, GetOperand DEF Readable
<1> HIDE DEF a
<1>6. /\ Sound(u, defined, live \ {o}) /\ Extends(a.st, u) /\ u.lru = a.st.lru
      /\ u.slot = a.st.slot /\ u.mem = a.st.mem
  BY <1>5, MarkUsedSound
<1> HIDE DEF u
<1>h. \A v \in defined : Home(u, v)
  BY <1>5, <1>6 DEF Home
<1>7. Extends(st, u)
  <2>1. s \in AllocState /\ a.st \in AllocState /\ u \in AllocState
    BY <1>3, <1>5, <1>6 DEF Sound
  <2> QED
    BY <1>2, <1>3, <1>5, <1>6, <2>1, ExtendsTrans
<1>8. \A q \in Regs : u.lru[q] <= st.lru[q]
  BY <1>3, <1>5, <1>6
<1>9. read' = operands'
  BY <1>1, <1>5
<1> QED
  BY <1>1, <1>2, <1>6, <1>h, <1>7, <1>8, <1>9, NoResultInv

\* The start of a block.
LEMMA EnterBlockInv ==
  ASSUME IInv, EnterBlock
  PROVE  Preserving
<1>1. /\ phase = "blocks" /\ blocks < MaxBlocks /\ st' = FreshBlock(st)
      /\ phase' = "body" /\ blocks' = blocks + 1 /\ instr' = 0 /\ next' = next
      /\ declared' = declared /\ defined' = defined /\ live' = live
      /\ operands' = operands /\ read' = read
  BY DEF EnterBlock, irVars
<1>2. /\ Sound(st, defined, {}) /\ live = {} /\ \A v \in defined : Home(st, v)
  BY <1>1 DEF IInv, PhaseSound
<1>3. /\ Sound(st', defined, {}) /\ Extends(st, st') /\ Touched(st') = {}
      /\ st'.slot = st.slot /\ \A q \in Regs : st'.lru[q] = 0
  BY <1>1, <1>2, FreshBlockSound
<1>4. TypeOK'
  <2>1. blocks' \in 0 .. MaxBlocks /\ instr' \in 0 .. MaxInstr
    BY <1>1, BoundsAssumption, BlocksAssumption DEF IInv, TypeOK
  <2> QED
    BY <1>1, <1>3, <2>1 DEF IInv, TypeOK, Phases, Sound
<1>5. AgeSound' /\ PhaseSound' /\ DeclaredSound'
  BY <1>1, <1>3 DEF AgeSound, PhaseSound, IInv, DeclaredSound
<1> QED
  BY <1>1, <1>2, <1>3, <1>4, <1>5 DEF IInv, Preserving

\* The end of a block.
LEMMA LeaveBlockInv ==
  ASSUME IInv, LeaveBlock
  PROVE  Preserving
<1>1. /\ phase \in {"jumped", "returned"} /\ st' = CleanSpillTable(st)
      /\ phase' = "blocks" /\ live' = {} /\ operands' = <<>> /\ read' = <<>>
      /\ next' = next /\ blocks' = blocks /\ instr' = instr
      /\ declared' = declared /\ defined' = defined
  BY DEF LeaveBlock, Reads
<1>2. Sound(st, defined, live) /\ \A v \in defined : Home(st, v)
  BY <1>1 DEF IInv, PhaseSound
<1>3. /\ Sound(st', defined, {}) /\ Extends(st, st')
      /\ st'.slot = st.slot /\ st'.mem = st.mem /\ st'.lru = st.lru
  BY <1>1, <1>2, CleanSpillSound
<1>4. TypeOK'
  BY <1>1, <1>3 DEF IInv, TypeOK, Phases, Sound
<1>5. AgeSound' /\ PhaseSound' /\ DeclaredSound'
  BY <1>1, <1>2, <1>3 DEF AgeSound, PhaseSound, IInv, DeclaredSound, Home
<1> QED
  BY <1>1, <1>3, <1>4, <1>5 DEF IInv, Preserving

-----------------------------------------------------------------------------
(* The parameters, and the start *)

\* Each parameter has a cell of its own, outside the frame link: a register one in
\* the frame, a stack one in the caller's frame.
LEMMA ParamCells ==
  /\ \A p \in 1 .. Len(Params) :
       /\ Params[p] \in Named
       /\ ParamCell(p) \in Cells
       /\ IF InRegister(p) THEN ParamCell(p) = p /\ p \in 1 .. MaxCell
                           ELSE ParamCell(p) <= -2
  /\ \A p, q \in 1 .. Len(Params) : ParamCell(p) = ParamCell(q) => p = q
<1>1. /\ Len(Params) \in Nat /\ \A p \in 1 .. Len(Params) : Params[p] \in Named
      /\ NumParamRegs \in Nat /\ MaxCell \in Nat
      /\ NumParamRegs <= MaxCell /\ Len(Params) < MaxCell
  BY ParamsAssumption, BoundsAssumption
<1>2. \A p \in 1 .. Len(Params) :
        /\ ParamCell(p) \in Cells
        /\ IF InRegister(p) THEN ParamCell(p) = p /\ p \in 1 .. MaxCell
                            ELSE ParamCell(p) <= -2
  BY <1>1 DEF ParamCell, InRegister, Cells
<1>3. \A p, q \in 1 .. Len(Params) : ParamCell(p) = ParamCell(q) => p = q
  BY <1>1 DEF ParamCell
<1> QED
  BY <1>1, <1>2, <1>3

\* The stack the function finds.
LEMMA CallerFrameHolds ==
  /\ CallerFrame \in [Cells -> Content]
  /\ CallerFrame[0] = FramePtr /\ CallerFrame[-1] = ReturnAddr
  /\ \A p \in 1 .. Len(Params) : ~InRegister(p) => CallerFrame[ParamCell(p)] = Params[p]
<1> DEFINE At(c) == \E p \in 1 .. Len(Params) : ~InRegister(p) /\ ParamCell(p) = c
           Who(c) == CHOOSE p \in 1 .. Len(Params) : ~InRegister(p) /\ ParamCell(p) = c
<1>1. ~At(0) /\ ~At(-1)
  BY ParamCells
<1>2. \A c \in Cells : At(c) =>
        Who(c) \in 1 .. Len(Params) /\ ~InRegister(Who(c)) /\ ParamCell(Who(c)) = c
  OBVIOUS
<1>3. \A c \in Cells :
        CallerFrame[c] = IF c = 0 THEN FramePtr ELSE IF c = -1 THEN ReturnAddr
                         ELSE IF At(c) THEN Params[Who(c)] ELSE Junk
  <2> SUFFICES ASSUME NEW c \in Cells
               PROVE CallerFrame[c] = IF c = 0 THEN FramePtr
                                      ELSE IF c = -1 THEN ReturnAddr
                                      ELSE IF At(c) THEN Params[Who(c)] ELSE Junk
    OBVIOUS
  <2>1. CallerFrame[c] = CASE c = 0 -> FramePtr [] c = -1 -> ReturnAddr
                           [] At(c) -> Params[Who(c)] [] OTHER -> Junk
    BY DEF CallerFrame
  <2> HIDE DEF At, Who
  <2> QED
    BY <1>1, <2>1
<1>4. 0 \in Cells /\ -1 \in Cells
  BY BoundsAssumption DEF Cells
<1>5. CallerFrame \in [Cells -> Content]
  <2>1. \A c \in Cells : CallerFrame[c] \in Content
    <3>1. \A c \in Cells : At(c) => Params[Who(c)] \in Named
      BY <1>2, ParamCells
    <3> HIDE DEF At, Who
    <3> QED
      BY <1>3, <3>1 DEF Content, Values
  <2>2. CallerFrame = [c \in Cells |-> CallerFrame[c]]
    BY DEF CallerFrame
  <2> QED
    BY <2>1, <2>2
<1>6. ASSUME NEW p \in 1 .. Len(Params), ~InRegister(p)
      PROVE  CallerFrame[ParamCell(p)] = Params[p]
  <2>1. ParamCell(p) \in Cells /\ At(ParamCell(p)) /\ ParamCell(p) <= -2
    BY <1>6, ParamCells
  <2>2. Who(ParamCell(p)) = p
    BY <1>2, <2>1, ParamCells
  <2>3. ParamCell(p) \in Int /\ ParamCell(p) # 0 /\ ParamCell(p) # -1
    BY <2>1 DEF Cells
  <2> HIDE DEF At, Who
  <2> QED
    BY <1>3, <2>1, <2>2, <2>3
<1> QED
  BY <1>3, <1>4, <1>5, <1>6

\* The tables are empty.
LEMMA CallerFields ==
  /\ CallerState.mem = CallerFrame /\ CallerState.sc = 1
  /\ \A v \in Named : CallerState.slot[v] = NoSlot
  /\ \A c \in 1 .. MaxCell : CallerState.spill[c] = NotSpill
  /\ \A r \in Regs : CallerState.val[r] = NoVal
  /\ CallerState.reg[0] = ZeroConst
BY RegistersAssumption, BoundsAssumption DEF CallerState

\* The tables are empty and the frame link is in place.
LEMMA CallerStateSound == Sound(CallerState, {}, {})
<1> USE RegistersAssumption, BoundsAssumption, ValuesAssumption
<1>1. CallerState \in AllocState
  <2>1. CallerFrame \in [Cells -> Content]
    BY CallerFrameHolds
  <2>2. NoSlot \in Cells
    BY DEF NoSlot, Cells
  <2>3. [r \in 0 .. NumRegs |-> IF r = 0 THEN ZeroConst ELSE Junk]
          \in [0 .. NumRegs -> Content]
    BY DEF Content
  <2> HIDE DEF Regs
  <2> QED
    BY <2>1, <2>2, <2>3 DEF CallerState, AllocState
<1>v. NotSpill \notin Temp /\ NoVal \notin Values
  BY DEF Values
<1>2. FrameSound(CallerState)
  BY CallerFields, <1>v, CallerFrameHolds DEF FrameSound
<1>3. TableSound(CallerState)
  BY CallerFields, <1>v DEF TableSound, Values, CalleeSaved, Regs
<1>4. ContentSound(CallerState, {}, {})
  <2>1. \A r \in Regs : CallerState.val[r] \notin {} \cup {} \cup Const
    BY CallerFields, <1>v DEF Values
  <2> QED
    BY CallerFields, <2>1 DEF ContentSound
<1> QED
  BY <1>1, <1>2, <1>3, <1>4 DEF Sound

\* The invariant holds initially.
LEMMA InitInv ==
  ASSUME Init
  PROVE  IInv
<1> USE RegistersAssumption, BoundsAssumption, BlocksAssumption
<1>1. Sound(st, {}, {})
  BY CallerStateSound DEF Init
<1>2. TypeOK
  BY <1>1 DEF Init, TypeOK, Phases, Sound
<1>3. DeclaredSound /\ PhaseSound /\ AgeSound
  BY DEF Init, DeclaredSound, PhaseSound, AgeSound, CallerState, Touched
<1> QED
  BY <1>1, <1>2, <1>3 DEF Init, IInv

\* visit(Function): the parameters are at home when the first block starts.
LEMMA VisitFunctionInv ==
  ASSUME IInv, VisitFunction
  PROVE  Preserving
<1> DEFINE N == 1 .. Len(Params)
           P(v) == CHOOSE p \in N : Params[p] = v
<1> USE BoundsAssumption, ValuesAssumption
<1>1. /\ phase = "function" /\ phase' = "blocks" /\ next' = next /\ blocks' = blocks
      /\ instr' = instr /\ live' = live /\ declared' = ParamSet /\ defined' = ParamSet
      /\ operands' = <<>> /\ read' = <<>>
  BY DEF VisitFunction, Reads
<1>2. /\ st = CallerState /\ live = {} /\ instr \in 0 .. MaxInstr
      /\ Sound(st, {}, {}) /\ st \in AllocState
  BY <1>1 DEF IInv, PhaseSound, TypeOK
<1>c. /\ st.mem = CallerFrame /\ st.sc = 1
      /\ \A v \in Named : st.slot[v] = NoSlot
      /\ \A c \in 1 .. MaxCell : st.spill[c] = NotSpill
      /\ \A r \in Regs : st.val[r] = NoVal
  BY <1>2, CallerFields
<1>v. NotSpill \notin Temp /\ NoVal \notin Values
  BY DEF Values
<1>3. /\ Len(Params) \in Nat /\ NumParamRegs \in Nat /\ NumParamRegs <= MaxCell
      /\ MaxCell \in Nat
      /\ \A p, q \in N : Params[p] = Params[q] => p = q
      /\ ParamSet \subseteq Named
  BY ParamsAssumption, ParamCells DEF ParamSet
<1>4. \A v \in ParamSet : P(v) \in N /\ Params[P(v)] = v
  BY DEF ParamSet
<1>5. \A p \in N : Params[p] \in ParamSet /\ P(Params[p]) = p
  BY <1>3, <1>4 DEF ParamSet
<1>6. /\ st'.val = st.val /\ st'.saved = st.saved /\ st'.lru = st.lru
      /\ st'.spill = st.spill /\ st'.callee = st.callee /\ st'.scratch = st.scratch
      /\ st'.reg = st.reg
      /\ st'.sc = 1 + (IF Len(Params) <= NumParamRegs THEN Len(Params) ELSE NumParamRegs)
      /\ st'.slot = [v \in Named |-> IF v \in ParamSet THEN ParamCell(P(v)) ELSE NoSlot]
      /\ st'.mem = [c \in Cells |-> IF c \in {p \in N : InRegister(p)} THEN Params[c]
                                    ELSE st.mem[c]]
      /\ st' = [st EXCEPT !.slot = st'.slot, !.sc = st'.sc, !.mem = st'.mem]
  BY <1>2 DEF VisitFunction, AllocState
<1> HIDE DEF P, N
<1>7. \A v \in ParamSet :
        /\ st'.slot[v] = ParamCell(P(v)) /\ st'.slot[v] \in Cells
        /\ IF InRegister(P(v)) THEN st'.slot[v] \in 1 .. st'.sc - 1 /\ st'.slot[v] = P(v)
                               ELSE st'.slot[v] <= -2
  <2> SUFFICES ASSUME NEW v \in ParamSet
               PROVE /\ st'.slot[v] = ParamCell(P(v)) /\ st'.slot[v] \in Cells
                     /\ IF InRegister(P(v))
                        THEN st'.slot[v] \in 1 .. st'.sc - 1 /\ st'.slot[v] = P(v)
                        ELSE st'.slot[v] <= -2
    OBVIOUS
  <2>1. st'.slot[v] = ParamCell(P(v)) /\ P(v) \in 1 .. Len(Params)
    BY <1>3, <1>4, <1>6 DEF N
  <2>2. st'.slot[v] \in Cells /\ IF InRegister(P(v)) THEN st'.slot[v] = P(v)
                                                     ELSE st'.slot[v] <= -2
    BY <2>1, ParamCells
  <2>3. InRegister(P(v)) => P(v) \in 1 .. st'.sc - 1
    BY <1>3, <1>6, <2>1 DEF InRegister
  <2> QED
    BY <2>1, <2>2, <2>3
<1>8. \A v \in Named \ ParamSet : st'.slot[v] = NoSlot
  BY <1>6
<1>9. \A v \in ParamSet : st'.mem[st'.slot[v]] = v
  <2> SUFFICES ASSUME NEW v \in ParamSet PROVE st'.mem[st'.slot[v]] = v
    OBVIOUS
  <2>1. CASE InRegister(P(v))
    BY <1>4, <1>6, <1>7, <2>1
  <2>2. CASE ~InRegister(P(v))
    <3>1. st'.slot[v] \notin N /\ st'.slot[v] \in Cells /\ st'.slot[v] = ParamCell(P(v))
      BY <1>7, <2>2 DEF N, Cells
    <3>2. st'.mem[st'.slot[v]] = CallerFrame[ParamCell(P(v))]
      BY <1>c, <1>6, <3>1
    <3>3. P(v) \in 1 .. Len(Params)
      BY <1>4 DEF N
    <3> QED
      BY <1>4, <2>2, <3>2, <3>3, CallerFrameHolds
  <2> QED
    BY <2>1, <2>2
<1>10. st' \in AllocState
  <2>1. st'.slot \in [Named -> Cells]
    <3>1. \A v \in Named : st'.slot[v] \in Cells
      BY <1>7, <1>8 DEF NoSlot, Cells
    <3> QED
      BY <1>6, <3>1
  <2>2. st'.sc \in Nat
    BY <1>3, <1>6
  <2>3. st'.mem \in [Cells -> Content]
    <3>1. \A c \in Cells : c \in N => Params[c] \in Content
      BY <1>3, <1>5 DEF Content, Values
    <3> QED
      BY <1>2, <1>6, <3>1 DEF AllocState
  <2> QED
    BY <1>2, <1>6, <2>1, <2>2, <2>3 DEF AllocState
<1>11. FrameSound(st')
  <2>1. /\ \A c \in 1 .. MaxCell : st'.spill[c] = NotSpill
        /\ NotSpill \notin Temp
    BY <1>c, <1>v, <1>6
  <2>2. st'.sc \in 1 .. MaxCell + 1
    BY <1>3, <1>6
  <2>3. st'.mem[0] = FramePtr /\ st'.mem[-1] = ReturnAddr
    <3>1. 0 \in Cells /\ -1 \in Cells /\ 0 \notin N /\ -1 \notin N
      BY DEF Cells, N
    <3> QED
      BY <1>2, <1>6, <3>1 DEF Sound, FrameSound
  <2>4. \A v \in Named : \/ st'.slot[v] = NoSlot \/ st'.slot[v] <= -2
                         \/ st'.slot[v] \in 1 .. st'.sc - 1 /\ st'.spill[st'.slot[v]] = NotSpill
    BY <1>3, <1>7, <1>8, <2>1, <2>2
  <2>5. ASSUME NEW v \in Named, NEW w \in Named,
               st'.slot[v] # NoSlot, st'.slot[v] = st'.slot[w]
        PROVE  v = w
    <3>1. v \in ParamSet /\ w \in ParamSet
      BY <1>8, <2>5
    <3>2. P(v) = P(w)
      BY <1>4, <1>7, <2>5, <3>1, ParamCells DEF N
    <3> QED
      BY <1>4, <3>1, <3>2
  <2> QED
    BY <2>1, <2>2, <2>3, <2>4, <2>5 DEF FrameSound
<1>12. TableSound(st')
  BY <1>c, <1>v, <1>6, RegistersAssumption DEF TableSound, Values, CalleeSaved, Regs
<1>13. \A v \in ParamSet : Home(st', v)
  BY <1>7, <1>9 DEF Home, NoSlot
<1>14. ContentSound(st', ParamSet, {})
  <2>1. \A r \in Regs : st'.val[r] = NoVal /\ NoVal \notin Values
    BY <1>c, <1>v, <1>6
  <2>2. \A r \in Regs : st'.val[r] \notin ParamSet \cup Const
    BY <1>3, <2>1 DEF Values
  <2>3. st'.reg[0] = ZeroConst
    BY <1>2, <1>6 DEF Sound, ContentSound
  <2> QED
    BY <1>13, <2>2, <2>3 DEF ContentSound, Home
<1>15. Sound(st', ParamSet, {})
  BY <1>3, <1>10, <1>11, <1>12, <1>14 DEF Sound
<1>16. Extends(st, st')
  BY <1>c, <1>3, <1>6 DEF Extends
<1>17. TypeOK'
  BY <1>1, <1>3, <1>10 DEF IInv, TypeOK, Phases
<1>18. AgeSound' /\ PhaseSound' /\ DeclaredSound'
  <2>1. AgeSound'
    BY <1>1, <1>6 DEF AgeSound, IInv
  <2>2. PhaseSound'
    BY <1>1, <1>2, <1>13 DEF PhaseSound
  <2>3. DeclaredSound'
    BY <1>1, <1>13 DEF DeclaredSound, Home
  <2> QED
    BY <2>1, <2>2, <2>3
<1> QED
  BY <1>1, <1>2, <1>15, <1>16, <1>17, <1>18 DEF IInv, Preserving

-----------------------------------------------------------------------------
(* Every step *)

\* One step per action.
LEMMA StepInv ==
  ASSUME IInv, Next
  PROVE  Preserving
<1>a. defined \subseteq declared /\ TRUE \in BOOLEAN /\ FALSE \in BOOLEAN
  BY DEF IInv, TypeOK
<1>1. CASE VisitFunction
  BY <1>1, VisitFunctionInv
<1>2. CASE EnterBlock
  BY <1>2, EnterBlockInv
<1>3. CASE LeaveBlock
  BY <1>3, LeaveBlockInv
<1>4. CASE \E x \in Named : VisitDeclaration(x)
  BY <1>4, VisitDeclarationInv
<1>5. CASE \E x \in Named, o \in Readable : VisitAssign(x, o)
  <2>1. PICK x \in Named, o \in Readable : x \in declared /\ OneOperand(o, x, FALSE)
    BY <1>5 DEF VisitAssign
  <2>2. PICK early \in BOOLEAN : early = FALSE
    OBVIOUS
  <2>3. OneOperand(o, x, early) /\ ~early
    BY <2>1, <2>2
  <2> QED
    BY <2>1, <2>3, OneOperandInv
<1>6. CASE \E o \in Readable, d \in Temp : VisitUnary(o, d) \/ VisitTypecastToString(o, d)
  <2>1. PICK o \in Readable, d \in Temp, early \in BOOLEAN :
          Fresh(d) /\ OneOperand(o, d, early)
    BY <1>6 DEF VisitUnary, VisitTypecastToString
  <2> QED
    BY <2>1, OneOperandInv
<1>7. CASE \E o1, o2 \in Readable, d \in Temp :
             VisitBinary(o1, o2, d) \/ VisitStrcat(o1, o2, d) \/ VisitWithScratch(o1, o2, d)
  <2>1. PICK o1 \in Readable, o2 \in Readable, d \in Temp :
          VisitBinary(o1, o2, d) \/ VisitStrcat(o1, o2, d) \/ VisitWithScratch(o1, o2, d)
    BY <1>7
  <2>2. CASE VisitBinary(o1, o2, d) \/ VisitStrcat(o1, o2, d)
    <3>1. PICK early \in BOOLEAN : TwoOperands(o1, o2, d, early)
      BY <2>2 DEF VisitBinary, VisitStrcat
    <3> QED
      BY <3>1, TwoOperandsInv
  <2>3. CASE VisitWithScratch(o1, o2, d)
    BY <2>3, VisitWithScratchInv
  <2> QED
    BY <2>1, <2>2, <2>3
<1>8. CASE \E o1, o2, o3 \in Readable : \E d \in Temp : VisitSetAt(o1, o2, o3, d)
  BY <1>8, VisitSetAtInv
<1>9. CASE \E o1, o2, o3 \in Readable : VisitDiscarded(o1, o2, o3)
  BY <1>9, VisitDiscardedInv
<1>10. CASE (\E d \in Temp : VisitRead(d)) \/ VisitReadDropped
  BY <1>10, VisitReadInv, VisitReadDroppedInv
<1>11. CASE StartCall \/ StartClear \/ StartPrint
  BY <1>11, StartInv
<1>12. CASE \E o \in Readable : PassArgument(o) \/ PrintItem(o)
  BY <1>12, UseOperandInv DEF PassArgument, PrintItem
<1>13. CASE ClearEntry
  BY <1>13, ClearEntryInv
<1>14. CASE (\E d \in Temp : ReturnFromCall(d)) \/ ReturnFromVoidCall
  BY <1>14, ReturnFromCallInv, ReturnFromVoidCallInv
<1>15. CASE EndPrint
  BY <1>15, EndPrintInv
<1>16. CASE VisitJump \/ VisitReturnVoid
  BY <1>16, VisitJumpInv
<1>17. CASE \E o \in Readable : VisitCondJump(o) \/ VisitReturn(o)
  <2>1. PICK o \in Readable, to \in {"jumped", "returned"} : SaveAndUse(o, to)
    BY <1>17 DEF VisitCondJump, VisitReturn
  <2> QED
    BY <2>1, SaveAndUseInv
<1> HIDE DEF Readable
<1> QED
  BY <1>1, <1>2, <1>3, <1>4, <1>5, <1>6, <1>7, <1>8, <1>9, <1>10, <1>11, <1>12, <1>13,
     <1>14, <1>15, <1>16, <1>17 DEF Next

\* Steps that leave all variables as they are.
LEMMA StutterInv ==
  ASSUME IInv, UNCHANGED vars
  PROVE  IInv' /\ Extends(st, st')
<1>1. /\ st' = st /\ phase' = phase /\ next' = next /\ blocks' = blocks
      /\ instr' = instr /\ declared' = declared /\ defined' = defined
      /\ live' = live /\ operands' = operands /\ read' = read
  BY DEF vars
<1>2. IInv'
  BY <1>1 DEF IInv, TypeOK, DeclaredSound, AgeSound, PhaseSound
<1>3. st \in AllocState
  BY DEF IInv, TypeOK
<1> QED
  BY <1>1, <1>2, <1>3 DEF Extends, AllocState

\* The inductive invariant holds in every reachable state.
THEOREM Invariance == Spec => []IInv
<1>1. Init => IInv
  BY InitInv
<1>2. IInv /\ [Next]_vars => IInv'
  BY StepInv, StutterInv DEF Preserving
<1> QED
  BY <1>1, <1>2, PTL DEF Spec

\* Types, for every value of the constants.
THEOREM TypeCorrect == Spec => []TypeOK
  BY Invariance, IInvImplies, PTL

\* No sequence of instructions, evictions, spills and calls, in a function of any
\* size, makes the translator lose a value that the program may still read.
THEOREM NothingIsLost == Spec => []NothingLost
  BY Invariance, IInvImplies, PTL

\* A block may be entered from any other: variables are in their cells.
THEOREM VariablesAreHome == Spec => []VariablesHomeBetweenBlocks
  BY Invariance, IInvImplies, PTL

\* Variables, spilled temporaries and the frame link have cells of their own.
THEOREM FramesAreDisjoint == Spec => []FrameDisjoint
  BY Invariance, IInvImplies, PTL

\* Callee-saved registers that hold values are saved and restored.
THEOREM ValueRegistersArePreserved == Spec => []ValueRegistersPreserved
  BY Invariance, IInvImplies, PTL

\* What emitted code addresses is never reassigned.
THEOREM FramesAreStable == Spec => FrameStable
<1>1. IInv /\ [Next]_vars =>
        [/\ \A v \in Named : st.slot[v] # NoSlot => st'.slot[v] = st.slot[v]
         /\ \A c \in 1 .. MaxCell : st.spill[c] # NotSpill => st'.spill[c] # NotSpill
         /\ st.sc <= st'.sc /\ st.callee \subseteq st'.callee]_vars
  BY StepInv DEF Preserving, Extends
<1> QED
  BY <1>1, Invariance, PTL DEF Spec, FrameStable

-----------------------------------------------------------------------------
(* The emitted code delivers what the intermediate code means. *)

\* An instruction whose operands are args, and whose result, if any, is d.
Instruction(args, d) ==
  /\ \A i \in DOMAIN operands' : operands'[i] \in Readable
  /\ {operands'[i] : i \in DOMAIN operands'} = args
  /\ live' = (live \ args) \cup ({d} \cap Temp)
  /\ defined' = defined \cup ({d} \cap Named)

\* It is one step of the abstract specification.
LEMMA InstructionRefines ==
  ASSUME NEW args, NEW d, Instruction(args, d), read' = operands'
  PROVE  IR!Next
<1>1. IR!ReadOperands
  BY DEF Instruction, IR!ReadOperands, IR!Readable, Readable
<1>2. IR!Used = args
  BY DEF Instruction, IR!Used
<1>3. CASE d \in Named \cup Temp
  <2>1. IR!Produce(d)
    BY <1>1, <1>2 DEF Instruction, IR!Produce, IR!ToTemporary, IR!ToVariable
  <2> QED
    BY <1>3, <2>1 DEF IR!Next
<1>4. CASE d \notin Named \cup Temp
  <2>1. {d} \cap Temp = {} /\ {d} \cap Named = {}
    BY <1>4
  <2>2. IR!Consume
    BY <1>1, <1>2, <2>1 DEF Instruction, IR!Consume
  <2> QED
    BY <2>2 DEF IR!Next
<1> QED
  BY <1>3, <1>4

\* An instruction without operands that may drop temporaries.
LEMMA DropRefines ==
  ASSUME operands' = <<>>, read' = operands', live' \subseteq live, defined' = defined
  PROVE  IR!Next
BY DEF IR!Next, IR!Drop

\* The arguments of instructions with one, two and three operands.
LEMMA Operands ==
  /\ \A o1 \in Readable : operands' = <<o1>> =>
       /\ \A i \in DOMAIN operands' : operands'[i] \in Readable
       /\ {operands'[i] : i \in DOMAIN operands'} = {o1}
  /\ \A o1, o2 \in Readable : operands' = <<o1, o2>> =>
       /\ \A i \in DOMAIN operands' : operands'[i] \in Readable
       /\ {operands'[i] : i \in DOMAIN operands'} = {o1, o2}
  /\ \A o1, o2, o3 \in Readable : operands' = <<o1, o2, o3>> =>
       /\ \A i \in DOMAIN operands' : operands'[i] \in Readable
       /\ {operands'[i] : i \in DOMAIN operands'} = {o1, o2, o3}
  /\ operands' = <<>> =>
       /\ \A i \in DOMAIN operands' : operands'[i] \in Readable
       /\ {operands'[i] : i \in DOMAIN operands'} = {}
<1> HIDE DEF Readable
<1>1. ASSUME NEW o1 \in Readable, operands' = <<o1>>
      PROVE  /\ \A i \in DOMAIN operands' : operands'[i] \in Readable
             /\ {operands'[i] : i \in DOMAIN operands'} = {o1}
  <2>1. DOMAIN operands' = {1} /\ operands'[1] = o1
    BY <1>1
  <2> QED
    BY <2>1
<1>2. ASSUME NEW o1 \in Readable, NEW o2 \in Readable, operands' = <<o1, o2>>
      PROVE  /\ \A i \in DOMAIN operands' : operands'[i] \in Readable
             /\ {operands'[i] : i \in DOMAIN operands'} = {o1, o2}
  <2>1. DOMAIN operands' = {1, 2} /\ operands'[1] = o1 /\ operands'[2] = o2
    BY <1>2
  <2> QED
    BY <2>1
<1>3. ASSUME NEW o1 \in Readable, NEW o2 \in Readable, NEW o3 \in Readable,
             operands' = <<o1, o2, o3>>
      PROVE  /\ \A i \in DOMAIN operands' : operands'[i] \in Readable
             /\ {operands'[i] : i \in DOMAIN operands'} = {o1, o2, o3}
  <2>1. /\ DOMAIN operands' = {1, 2, 3}
        /\ operands'[1] = o1 /\ operands'[2] = o2 /\ operands'[3] = o3
    BY <1>3
  <2> QED
    BY <2>1
<1>4. ASSUME operands' = <<>>
      PROVE  /\ \A i \in DOMAIN operands' : operands'[i] \in Readable
             /\ {operands'[i] : i \in DOMAIN operands'} = {}
  <2>1. DOMAIN operands' = {}
    BY <1>4
  <2> QED
    BY <2>1
<1> QED
  BY <1>1, <1>2, <1>3, <1>4

\* Every step is a step of the abstract specification or none.
LEMMA StepRefines ==
  ASSUME Next, read' = operands', defined = {} \/ phase # "function",
         defined \subseteq Named, live \subseteq Temp
  PROVE  IR!Next \/ UNCHANGED IR!vars
<1> USE DEF Reads, Consumed, Produced
<1>1. CASE VisitFunction
  <2>1. /\ operands' = <<>> /\ read' = <<>> /\ live' = live /\ defined = {}
        /\ defined' = ParamSet /\ ParamSet \subseteq Named
    BY <1>1, ParamCells DEF VisitFunction, ParamSet
  <2> QED
    BY <2>1 DEF IR!Next, IR!Enter
<1>2. CASE EnterBlock \/ StartCall \/ StartClear \/ StartPrint
  BY <1>2 DEF EnterBlock, StartCall, StartClear, StartPrint, irVars, IR!vars
<1>3. CASE \/ LeaveBlock \/ (\E x \in Named : VisitDeclaration(x))
           \/ (\E o1, o2, o3 \in Readable : VisitDiscarded(o1, o2, o3))
           \/ VisitReadDropped \/ ClearEntry \/ ReturnFromVoidCall \/ EndPrint
           \/ VisitJump \/ VisitReturnVoid
  <2>1. operands' = <<>> /\ live' \subseteq live /\ defined' = defined
    BY <1>3 DEF LeaveBlock, VisitDeclaration, VisitDiscarded, VisitReadDropped, ClearEntry,
                ReturnFromVoidCall, EndPrint, VisitJump, VisitReturnVoid
  <2> QED
    BY <2>1, DropRefines
<1>4. CASE \/ \E x \in Named, o \in Readable : VisitAssign(x, o)
           \/ \E o \in Readable, d \in Temp :
                VisitUnary(o, d) \/ VisitTypecastToString(o, d)
  <2>1. PICK o \in Readable, d \in Named \cup Temp : Instruction({o}, d)
    BY <1>4, Operands, ZenonT(30)
       DEF VisitAssign, VisitUnary, VisitTypecastToString, OneOperand, EmitOne, Instruction
  <2> QED
    BY <2>1, InstructionRefines
<1>5. CASE \E o1, o2 \in Readable, d \in Temp :
             VisitBinary(o1, o2, d) \/ VisitStrcat(o1, o2, d) \/ VisitWithScratch(o1, o2, d)
  <2>0. PICK o1 \in Readable, o2 \in Readable, d \in Temp :
          VisitBinary(o1, o2, d) \/ VisitStrcat(o1, o2, d) \/ VisitWithScratch(o1, o2, d)
    BY <1>5
  <2>1. /\ operands' = <<o1, o2>>
        /\ live' = (live \ {o1, o2}) \cup ({d} \cap Temp)
        /\ defined' = defined \cup ({d} \cap Named)
    BY <2>0, Zenon DEF VisitBinary, VisitStrcat, VisitWithScratch, TwoOperands, EmitTwo,
                       EmitWithScratch
  <2>2. /\ \A i \in DOMAIN operands' : operands'[i] \in Readable
        /\ {operands'[i] : i \in DOMAIN operands'} = {o1, o2}
    BY <2>1, Operands
  <2>3. Instruction({o1, o2}, d)
    BY <2>1, <2>2 DEF Instruction
  <2> QED
    BY <2>3, InstructionRefines
<1>6. CASE \E o1, o2, o3 \in Readable : \E d \in Temp : VisitSetAt(o1, o2, o3, d)
  <2>0. PICK o1 \in Readable, o2 \in Readable, o3 \in Readable, d \in Temp :
          VisitSetAt(o1, o2, o3, d)
    BY <1>6
  <2>1. /\ operands' = <<o1, o2, o3>>
        /\ live' = (live \ {o1, o2, o3}) \cup ({d} \cap Temp)
        /\ defined' = defined \cup ({d} \cap Named)
    BY <2>0, Zenon DEF VisitSetAt, EmitSetAt
  <2>2. /\ \A i \in DOMAIN operands' : operands'[i] \in Readable
        /\ {operands'[i] : i \in DOMAIN operands'} = {o1, o2, o3}
    BY <2>1, Operands
  <2>3. Instruction({o1, o2, o3}, d)
    BY <2>1, <2>2 DEF Instruction
  <2> QED
    BY <2>3, InstructionRefines
<1>7. CASE (\E d \in Temp : VisitRead(d)) \/ (\E d \in Temp : ReturnFromCall(d))
  <2>1. PICK d \in Temp : Instruction({}, d)
    BY <1>7, Operands DEF VisitRead, ReturnFromCall, Instruction
  <2> QED
    BY <2>1, InstructionRefines
<1>8. CASE \E o \in Readable :
             PassArgument(o) \/ PrintItem(o) \/ VisitCondJump(o) \/ VisitReturn(o)
  <2>1. PICK o \in Readable : operands' = <<o>> /\ live' = live \ {o} /\ defined' = defined
    BY <1>8 DEF PassArgument, PrintItem, VisitCondJump, VisitReturn, UseOperand, SaveAndUse
  <2>2. NoVal \notin Temp /\ NoVal \notin Named
    BY ValuesAssumption DEF Values
  <2>3. Instruction({o}, NoVal)
    BY <2>1, <2>2, Operands DEF Instruction
  <2> QED
    BY <2>3, InstructionRefines
<1> HIDE DEF Reads, Consumed, Produced
<1> QED
  BY <1>1, <1>2, <1>3, <1>4, <1>5, <1>6, <1>7, <1>8 DEF Next

\* Register allocation implements the intermediate code: whatever an instruction
\* names is what the machine reads, through any evictions, spills and calls.
THEOREM Refinement == Spec => ImplementsIR
<1>1. Init => IR!Init
  BY DEF Init, IR!Init
<1>2. IInv /\ [Next]_vars => [IR!Next]_IR!vars
  <2>1. ASSUME IInv, Next PROVE IR!Next \/ UNCHANGED IR!vars
    <3>1. /\ read' = operands' /\ defined \subseteq Named /\ live \subseteq Temp
          /\ defined = {} \/ phase # "function"
      BY <2>1, StepInv DEF Preserving, IInv, TypeOK, PhaseSound
    <3> QED
      BY <2>1, <3>1, StepRefines
  <2>2. ASSUME UNCHANGED vars PROVE UNCHANGED IR!vars
    BY <2>2 DEF vars, IR!vars
  <2> QED
    BY <2>1, <2>2
<1> QED
  BY <1>1, <1>2, Invariance, PTL DEF Spec, ImplementsIR, IR!Spec
=============================================================================
