------------------------ MODULE BlockContext_proofs ------------------------
(***************************************************************************)
(* What the operators of BlockContext preserve, for every number of        *)
(* registers, every set of values and every frame.                         *)
(***************************************************************************)
EXTENDS BlockContext, WellFoundedInduction, TLAPS

\* A search over an index-ordered table that can hit, hits.
LEMMA FirstExists ==
  ASSUME NEW S \in SUBSET Nat, S # {}
  PROVE  First(S) \in S /\ \A y \in S : First(S) <= y
<1>1. PICK x \in S : \A y \in S : <<y, x>> \notin OpToRel(<, Nat)
  BY WFMin, NatLessThanWellFounded, Zenon
<1>2. \A y \in S : ~(y < x)
  BY <1>1, Zenon DEF OpToRel
<1>3. \A y \in S : x <= y
  BY <1>2
<1> QED
  BY <1>3 DEF First

\* The scan of removeVictim ends at some entry, and no entry is older.
LEMMA VictimIsOldest ==
  ASSUME NEW s \in AllocState
  PROVE  Victim(s) \in Regs /\ \A q \in Regs : s.lru[q] <= s.lru[Victim(s)]
<1> DEFINE Youth(r) == MaxInstr - s.lru[r]
           S == {Youth(r) : r \in Regs}
           Oldest == {r \in Regs : \A q \in Regs : s.lru[q] <= s.lru[r]}
<1> USE RegistersAssumption, BoundsAssumption
<1>1. \A r \in Regs : s.lru[r] \in 0 .. MaxInstr
  BY DEF AllocState
<1>2. S \in SUBSET Nat /\ S # {}
  <2>1. 1 \in Regs
    BY DEF Regs
  <2> QED
    BY <1>1, <2>1
<1>3. PICK r \in Regs : \A q \in Regs : Youth(r) <= Youth(q)
  <2>1. First(S) \in S /\ \A y \in S : First(S) <= y
    <3> HIDE DEF S
    <3> QED
      BY <1>2, FirstExists
  <2> QED
    BY <2>1
<1>4. r \in Oldest
  BY <1>1, <1>3
<1>5. Oldest \in SUBSET Nat /\ Oldest # {}
  BY <1>4 DEF Regs
<1>6. First(Oldest) \in Oldest
  <2> HIDE DEF Oldest
  <2> QED
    BY <1>5, FirstExists
<1> QED
  BY <1>6 DEF Victim

-----------------------------------------------------------------------------
(***************************************************************************)
(* The strengthening.  D are the variables and L the temporaries whose     *)
(* present values have to be found again; anything else may contain Junk.  *)
(***************************************************************************)

\* Cells: the frame link is intact, variables have cells of their own, spill items
\* lie below the stack counter and hold different temporaries.
FrameSound(s) ==
  /\ s.mem[0] = FramePtr /\ s.mem[-1] = ReturnAddr
  /\ s.sc \in 1 .. MaxCell + 1
  /\ \A v \in Named : \/ s.slot[v] = NoSlot
                      \/ s.slot[v] <= -2
                      \/ s.slot[v] \in 1 .. s.sc - 1 /\ s.spill[s.slot[v]] = NotSpill
  /\ \A v, w \in Named : s.slot[v] # NoSlot /\ s.slot[v] = s.slot[w] => v = w
  /\ \A c \in 1 .. MaxCell : s.spill[c] # NotSpill => c < s.sc
  /\ \A c, d \in 1 .. MaxCell : s.spill[c] \in Temp /\ s.spill[c] = s.spill[d] => c = d

\* Registers: no value is mapped twice, a mapped variable has a cell, a mapped
\* temporary is in no spill item, a mapped callee-saved register will be restored.
TableSound(s) ==
  /\ \A r, q \in Regs : s.val[r] # NoVal /\ s.val[r] = s.val[q] => r = q
  /\ \A r \in Regs : s.val[r] \in Named => s.slot[s.val[r]] # NoSlot
  /\ \A r \in Regs, c \in 1 .. MaxCell : s.val[r] \in Temp => s.spill[c] # s.val[r]
  /\ \A r \in CalleeSaved : s.val[r] # NoVal => r \in s.callee

\* Contents: what the tables say is where they say it is.
ContentSound(s, D, L) ==
  /\ s.reg[0] = ZeroConst
  /\ \A r \in Regs : s.val[r] \in D \cup L \cup Const => s.reg[r] = s.val[r]
  /\ \A r \in Regs : s.val[r] \in D /\ s.saved[r] => s.mem[s.slot[s.val[r]]] = s.val[r]
  /\ \A v \in D : /\ s.slot[v] # NoSlot
                  /\ (\A r \in Regs : s.val[r] # v) => s.mem[s.slot[v]] = v
  /\ \A t \in L : (\A r \in Regs : s.val[r] # t) => \E c \in 1 .. MaxCell : s.spill[c] = t
  /\ \A c \in 1 .. MaxCell : s.spill[c] \in L => s.mem[c] = s.spill[c]

Sound(s, D, L) ==
  /\ s \in AllocState /\ D \subseteq Named /\ L \subseteq Temp
  /\ FrameSound(s) /\ TableSound(s) /\ ContentSound(s, D, L)

\* The cell of variable v is up to date.
Home(s, v) == s.slot[v] # NoSlot /\ s.mem[s.slot[v]] = v

\* A temporary that no table mentions.
Absent(s, t) == /\ \A r \in Regs : s.val[r] # t
                /\ \A c \in 1 .. MaxCell : s.spill[c] # t

\* Fewer values to find again: fewer obligations.
LEMMA SoundWeaken ==
  ASSUME NEW s, NEW D, NEW L, NEW D2 \in SUBSET D, NEW L2 \in SUBSET L, Sound(s, D, L)
  PROVE  Sound(s, D2, L2)
  BY DEF Sound, ContentSound

-----------------------------------------------------------------------------
(* Leaving a register *)

\* The cell a temporary is spilled to is in use for nothing else.
LEMMA SpillCellFree ==
  ASSUME NEW s, s \in AllocState, FrameSound(s), s.sc <= MaxCell
  PROVE  /\ SpillCell(s) \in 1 .. s.sc
         /\ s.spill[SpillCell(s)] \notin Temp
         /\ \A v \in Named : s.slot[v] # SpillCell(s)
<1> DEFINE free == {c \in 1 .. MaxCell : s.spill[c] = NoVal}
<1> USE BoundsAssumption, ValuesAssumption
<1>1. CASE free = {}
  <2>1. SpillCell(s) = s.sc
    BY <1>1 DEF SpillCell
  <2>2. s.sc \in 1 .. MaxCell
    BY DEF FrameSound
  <2>3. s.spill[s.sc] = NotSpill
    BY <2>2 DEF FrameSound
  <2> QED
    BY <2>1, <2>2, <2>3 DEF FrameSound, NoSlot, Values
<1>2. CASE free # {}
  <2>1. SpillCell(s) \in free
    <3>1. SpillCell(s) = First(free)
      BY <1>2 DEF SpillCell
    <3>2. free \in SUBSET Nat
      OBVIOUS
    <3> HIDE DEF free
    <3> QED
      BY <1>2, <3>1, <3>2, FirstExists
  <2>2. SpillCell(s) < s.sc
    BY <2>1 DEF FrameSound
  <2> QED
    BY <2>1, <2>2 DEF FrameSound, NoSlot, Values
<1> QED
  BY <1>1, <1>2

\* The part of the state a step of the allocator may only extend.
Extends(s, e) ==
  /\ \A v \in Named : s.slot[v] # NoSlot => e.slot[v] = s.slot[v]
  /\ \A c \in 1 .. MaxCell : s.spill[c] # NotSpill => e.spill[c] # NotSpill
  /\ s.sc <= e.sc /\ s.callee \subseteq e.callee

\* Freeing a register keeps every value, and touches no other register.
LEMMA EvictSound ==
  ASSUME NEW s, NEW D, NEW L, Sound(s, D, L), s.sc <= MaxCell,
         NEW r \in Regs, s.val[r] # NoVal
  PROVE  LET e == Evict(s, r)
         IN  /\ Sound(e, D, L) /\ Extends(s, e) /\ e.sc <= s.sc + 1
             /\ e.val = [s.val EXCEPT ![r] = NoVal]
             /\ e.reg = s.reg /\ e.lru = s.lru /\ e.slot = s.slot
             /\ \A x \in D : Home(s, x) => Home(e, x)
             /\ \A t \in Temp : Absent(s, t) => Absent(e, t)
<1> DEFINE e == Evict(s, r)
           v == s.val[r]
           c == SpillCell(s)
<1> USE BoundsAssumption, ValuesAssumption DEF NoSlot, Values
<1>0. /\ s \in AllocState /\ FrameSound(s) /\ TableSound(s) /\ ContentSound(s, D, L)
      /\ D \subseteq Named /\ L \subseteq Temp /\ v \in Values
  BY DEF Sound, AllocState
<1>1. CASE v \in Temp
  <2> HIDE DEF e
  <2>1. /\ c \in 1 .. s.sc /\ c \in 1 .. MaxCell /\ c \in Cells
        /\ s.spill[c] \notin Temp /\ \A w \in Named : s.slot[w] # c
    <3>1. c \in 1 .. s.sc /\ s.spill[c] \notin Temp /\ \A w \in Named : s.slot[w] # c
      BY <1>0, SpillCellFree
    <3>2. s.sc \in 1 .. MaxCell
      BY <1>0 DEF FrameSound
    <3> QED
      BY <3>1, <3>2 DEF Cells
  <2>2. e = [s EXCEPT !.spill[c] = v, !.sc = IF c = s.sc THEN s.sc + 1 ELSE s.sc,
                      !.mem[c] = s.reg[r], !.val[r] = NoVal]
    BY <1>1 DEF Evict, SpillTemp, Unmap, e
  <2>3. /\ e.val = [s.val EXCEPT ![r] = NoVal] /\ e.saved = s.saved /\ e.lru = s.lru
        /\ e.slot = s.slot /\ e.callee = s.callee /\ e.scratch = s.scratch
        /\ e.reg = s.reg /\ e.spill = [s.spill EXCEPT ![c] = v]
        /\ e.sc = IF c = s.sc THEN s.sc + 1 ELSE s.sc
        /\ e.mem = [s.mem EXCEPT ![c] = s.reg[r]]
    BY <1>0, <2>2 DEF AllocState
  <2> HIDE DEF c
  <2>4. e \in AllocState
    <3>1. e.val \in [Regs -> Values \cup {NoVal}] /\ e.spill \in [1 .. MaxCell -> Temp \cup {NoVal, NotSpill}]
      BY <1>0, <1>1, <2>1, <2>3 DEF AllocState
    <3>2. e.sc \in Nat /\ e.mem \in [Cells -> Content]
      BY <1>0, <1>1, <2>1, <2>3, RegistersAssumption DEF AllocState, Regs
    <3> QED
      BY <1>0, <2>2, <2>3, <3>1, <3>2 DEF AllocState
  <2>5. FrameSound(e)
    BY <1>0, <1>1, <2>1, <2>3, SMTT(30) DEF FrameSound, AllocState, Cells, TableSound
  <2>6. TableSound(e)
    BY <1>0, <1>1, <2>1, <2>3 DEF TableSound, AllocState
  <2>7. ContentSound(e, D, L)
    <3> USE <1>0, <1>1, <2>1, <2>3
    <3>1. e.reg[0] = ZeroConst
      BY DEF ContentSound
    <3>2. \A q \in Regs : e.val[q] \in D \cup L \cup Const => e.reg[q] = e.val[q]
      BY DEF ContentSound, AllocState
    <3>3. \A q \in Regs : e.val[q] \in D /\ e.saved[q]
                         => e.mem[e.slot[e.val[q]]] = e.val[q]
      BY DEF ContentSound, AllocState
    <3>4. \A w \in D : /\ e.slot[w] # NoSlot
                       /\ (\A q \in Regs : e.val[q] # w) => e.mem[e.slot[w]] = w
      BY DEF ContentSound, AllocState
    <3>5. ASSUME NEW t \in L, \A q \in Regs : e.val[q] # t
          PROVE  \E d \in 1 .. MaxCell : e.spill[d] = t
      <4>1. CASE t = v
        BY <4>1 DEF AllocState
      <4>2. CASE t # v
        <5>1. PICK d \in 1 .. MaxCell : s.spill[d] = t
          BY <3>5, <4>2 DEF ContentSound, AllocState
        <5> QED
          BY <5>1 DEF AllocState
      <4> QED
        BY <4>1, <4>2
    <3>6. \A d \in 1 .. MaxCell : e.spill[d] \in L => e.mem[d] = e.spill[d]
      BY DEF ContentSound, AllocState, Cells
    <3> QED
      BY <3>1, <3>2, <3>3, <3>4, <3>5, <3>6 DEF ContentSound
  <2>8. \A x \in D : Home(s, x) => Home(e, x)
    BY <1>0, <2>1, <2>3 DEF Home, AllocState
  <2>9. Extends(s, e) /\ e.sc <= s.sc + 1
    BY <1>0, <1>1, <2>1, <2>3 DEF Extends, AllocState
  <2>10. \A t \in Temp : Absent(s, t) => Absent(e, t)
    BY <1>0, <1>1, <2>1, <2>3 DEF Absent, AllocState
  <2> QED
    BY <1>0, <2>3, <2>4, <2>5, <2>6, <2>7, <2>8, <2>9, <2>10 DEF Sound, e
<1>2. CASE v \in Named /\ ~s.saved[r]
  <2> DEFINE h == s.slot[v]
  <2> HIDE DEF e
  <2>1. /\ h # NoSlot /\ h \in Cells /\ h # -1
        /\ \A w \in Named : s.slot[w] = h => w = v
        /\ \A d \in 1 .. MaxCell : s.spill[d] \in Temp => d # h
    <3>1. h # NoSlot /\ h \in Cells
      BY <1>0, <1>2 DEF TableSound, AllocState
    <3> QED
      BY <1>0, <1>2, <3>1 DEF FrameSound
  <2>2. e = [s EXCEPT !.mem[h] = s.reg[r], !.val[r] = NoVal]
    BY <1>2, <2>1 DEF Evict, StoreVar, AddVar, Unmap, e
  <2>3. /\ e.val = [s.val EXCEPT ![r] = NoVal] /\ e.saved = s.saved /\ e.lru = s.lru
        /\ e.slot = s.slot /\ e.callee = s.callee /\ e.scratch = s.scratch
        /\ e.reg = s.reg /\ e.spill = s.spill /\ e.sc = s.sc
        /\ e.mem = [s.mem EXCEPT ![h] = s.reg[r]]
    BY <1>0, <2>2 DEF AllocState
  <2> HIDE DEF h
  <2>4. e \in AllocState
    <3>1. s.reg[r] \in Content
      BY <1>0, RegistersAssumption DEF AllocState, Regs
    <3>2. e.val \in [Regs -> Values \cup {NoVal}]
      BY <1>0, <2>3 DEF AllocState
    <3>3. e.mem \in [Cells -> Content]
      BY <1>0, <2>3, <3>1 DEF AllocState
    <3> QED
      BY <1>0, <2>2, <2>3, <3>2, <3>3 DEF AllocState
  <2>5. FrameSound(e)
    BY <1>0, <2>1, <2>3 DEF FrameSound, AllocState, Cells
  <2>6. TableSound(e)
    BY <1>0, <1>2, <2>3 DEF TableSound, AllocState
  <2>7. ContentSound(e, D, L)
    <3> USE <1>0, <1>2, <2>1, <2>3
    <3>1. \A q \in Regs : e.val[q] \in D \cup L \cup Const => e.reg[q] = e.val[q]
      BY DEF ContentSound, AllocState
    <3>2. ASSUME NEW q \in Regs, e.val[q] \in D, e.saved[q]
          PROVE  e.mem[e.slot[e.val[q]]] = e.val[q]
      <4>1. q # r /\ e.val[q] = s.val[q]
        BY <3>2 DEF AllocState
      <4>2. s.slot[s.val[q]] # h
        BY <3>2, <4>1 DEF TableSound
      <4>3. s.mem[s.slot[s.val[q]]] = s.val[q]
        BY <3>2, <4>1 DEF ContentSound
      <4> QED
        BY <4>1, <4>2, <4>3 DEF AllocState
    <3>3. ASSUME NEW w \in D
          PROVE  /\ e.slot[w] # NoSlot
                 /\ (\A q \in Regs : e.val[q] # w) => e.mem[e.slot[w]] = w
      <4>1. CASE w = v
        BY <4>1 DEF ContentSound, AllocState, h
      <4>2. CASE w # v
        BY <4>2 DEF ContentSound, AllocState, h
      <4> QED
        BY <4>1, <4>2
    <3>4. ASSUME NEW t \in L, \A q \in Regs : e.val[q] # t
          PROVE  \E d \in 1 .. MaxCell : e.spill[d] = t
      <4>1. \A q \in Regs : s.val[q] # t
        BY <3>4 DEF AllocState
      <4> QED
        BY <4>1 DEF ContentSound
    <3>5. \A d \in 1 .. MaxCell : e.spill[d] \in L => e.mem[d] = e.spill[d]
      BY DEF ContentSound, AllocState, Cells
    <3> QED
      BY <3>1, <3>2, <3>3, <3>4, <3>5 DEF ContentSound
  <2>8. \A x \in D : Home(s, x) => Home(e, x)
    <3>1. ASSUME NEW x \in D, Home(s, x) PROVE Home(e, x)
      <4>1. x \in Named /\ s.slot[x] \in Cells /\ s.slot[x] # NoSlot /\ s.mem[s.slot[x]] = x
        BY <1>0, <3>1 DEF Home, AllocState
      <4>2. CASE s.slot[x] = h
        <5>1. x = v /\ s.reg[r] = x
          BY <1>0, <2>1, <4>1, <4>2 DEF ContentSound
        <5> QED
          BY <1>0, <2>3, <4>1, <4>2, <5>1 DEF Home, AllocState
      <4>3. CASE s.slot[x] # h
        BY <1>0, <2>3, <4>1, <4>3 DEF Home, AllocState
      <4> QED
        BY <4>2, <4>3
    <3> QED
      BY <3>1
  <2>9. Extends(s, e) /\ e.sc <= s.sc + 1
    BY <1>0, <2>3 DEF Extends, AllocState
  <2>10. \A t \in Temp : Absent(s, t) => Absent(e, t)
    BY <1>0, <2>3 DEF Absent, AllocState
  <2> QED
    BY <1>0, <2>3, <2>4, <2>5, <2>6, <2>7, <2>8, <2>9, <2>10 DEF Sound, e
<1>3. CASE v \notin Temp /\ ~(v \in Named /\ ~s.saved[r])
  <2> HIDE DEF e
  <2>1. e = [s EXCEPT !.val[r] = NoVal]
    BY <1>3 DEF Evict, Unmap, e
  <2>2. /\ e.val = [s.val EXCEPT ![r] = NoVal] /\ e.saved = s.saved /\ e.lru = s.lru
        /\ e.slot = s.slot /\ e.callee = s.callee /\ e.scratch = s.scratch
        /\ e.reg = s.reg /\ e.spill = s.spill /\ e.sc = s.sc /\ e.mem = s.mem
    BY <1>0, <2>1 DEF AllocState
  <2>3. e \in AllocState
    BY <1>0, <2>1, <2>2 DEF AllocState
  <2>4. FrameSound(e)
    BY <1>0, <2>2 DEF FrameSound
  <2>5. TableSound(e)
    BY <1>0, <2>2 DEF TableSound, AllocState
  <2>6. ContentSound(e, D, L)
    <3> USE <1>0, <1>3, <2>2
    <3>1. \A q \in Regs : e.val[q] # NoVal => q # r /\ e.val[q] = s.val[q]
      BY DEF AllocState
    <3>2. \A w \in D \cup L : (\A q \in Regs : e.val[q] # w) =>
             (w = v /\ w \in D /\ s.saved[r]) \/ (\A q \in Regs : s.val[q] # w)
      BY DEF AllocState
    <3> QED
      BY <3>1, <3>2 DEF ContentSound
  <2> QED
    BY <1>0, <2>2, <2>3, <2>4, <2>5, <2>6 DEF Sound, Extends, Absent, Home, e, AllocState
<1> QED
  BY <1>0, <1>1, <1>2, <1>3

\* Not every register has been touched by the instruction being translated.
SomeUntouched(s) == \E p \in Regs : s.val[p] = NoVal \/ s.lru[p] > 0

Touched(s) == {q \in Regs : s.val[q] # NoVal /\ s.lru[q] = 0}

\* getFreeTableItem finds a free register, and takes none that the instruction
\* being translated has touched as long as there is another.
LEMMA WithFreeItemSound ==
  ASSUME NEW s, NEW D, NEW L, Sound(s, D, L), s.sc <= MaxCell
  PROVE  LET f == WithFreeItem(s)
         IN  /\ Sound(f, D, L) /\ Extends(s, f) /\ f.sc <= s.sc + 1
             /\ First(FreeItems(f)) \in Regs /\ f.val[First(FreeItems(f))] = NoVal
             /\ f.reg = s.reg /\ f.lru = s.lru /\ f.slot = s.slot
             /\ \A x \in D : Home(s, x) => Home(f, x)
             /\ \A q \in Regs : f.val[q] # NoVal => f.val[q] = s.val[q]
             /\ SomeUntouched(s) => \A q \in Touched(s) : f.val[q] = s.val[q]
             /\ \A t \in Temp : Absent(s, t) => Absent(f, t)
<1> DEFINE f == WithFreeItem(s)
           r == Victim(s)
<1>0. s \in AllocState /\ FrameSound(s)
  BY DEF Sound
<1>1. ASSUME FreeItems(f) # {}
      PROVE  First(FreeItems(f)) \in Regs /\ f.val[First(FreeItems(f))] = NoVal
  <2>1. FreeItems(f) \in SUBSET Nat
    BY DEF FreeItems, Regs
  <2>2. First(FreeItems(f)) \in FreeItems(f)
    BY <1>1, <2>1, FirstExists
  <2> QED
    BY <2>2 DEF FreeItems
<1>2. CASE FreeItems(s) # {}
  <2>1. f = s
    BY <1>2 DEF WithFreeItem
  <2> QED
    BY <1>0, <1>1, <1>2, <2>1 DEF Extends, FrameSound, AllocState, Touched
<1>3. CASE FreeItems(s) = {}
  <2>1. r \in Regs /\ \A q \in Regs : s.lru[q] <= s.lru[r]
    BY <1>0, VictimIsOldest
  <2>2. s.val[r] # NoVal
    BY <1>3, <2>1 DEF FreeItems
  <2>3. f = Evict(s, r)
    BY <1>3 DEF WithFreeItem, RemoveVictim
  <2> HIDE DEF f, r
  <2>4. /\ Sound(f, D, L) /\ Extends(s, f) /\ f.sc <= s.sc + 1
        /\ f.val = [s.val EXCEPT ![r] = NoVal]
        /\ f.reg = s.reg /\ f.lru = s.lru /\ f.slot = s.slot
        /\ \A x \in D : Home(s, x) => Home(f, x)
        /\ \A t \in Temp : Absent(s, t) => Absent(f, t)
    BY <2>1, <2>2, <2>3, EvictSound
  <2>5. FreeItems(f) # {}
    BY <1>0, <2>1, <2>4 DEF FreeItems, AllocState
  <2>6. SomeUntouched(s) => r \notin Touched(s)
    BY <1>0, <1>3, <2>1 DEF SomeUntouched, Touched, FreeItems, AllocState
  <2>7. \A q \in Regs : q # r => f.val[q] = s.val[q]
    BY <1>0, <2>4 DEF AllocState
  <2>8. f.val[r] = NoVal
    BY <1>0, <2>1, <2>4 DEF AllocState
  <2>9. \A q \in Touched(s) : q \in Regs
    BY DEF Touched
  <2> QED
    BY <1>1, <2>4, <2>5, <2>6, <2>7, <2>8, <2>9 DEF f
<1> QED
  BY <1>2, <1>3

-----------------------------------------------------------------------------
(* Entering a register *)

\* Mapping a value to a free register keeps the tables sound if the register then
\* contains the value, or if nobody counts on it.
LEMMA MapSound ==
  ASSUME NEW f, NEW g, NEW D, NEW L, Sound(f, D, L), g \in AllocState,
         NEW r \in Regs, f.val[r] = NoVal,
         NEW v \in Values, \A q \in Regs : f.val[q] # v,
         v \in Named => f.slot[v] # NoSlot,
         v \in D \cup L \cup Const => g.reg[r] = v,
         g.val = [f.val EXCEPT ![r] = v],
         \A q \in 0 .. NumRegs : q # r => g.reg[q] = f.reg[q],
         \A q \in Regs : q # r => g.saved[q] = f.saved[q],
         g.slot = f.slot, g.sc = f.sc, g.mem = f.mem,
         g.spill = [c \in 1 .. MaxCell |-> IF f.spill[c] = v THEN NoVal ELSE f.spill[c]],
         g.callee = IF r \in CalleeSaved THEN f.callee \cup {r} ELSE f.callee
  PROVE  Sound(g, D, L) /\ Extends(f, g)
<1> USE BoundsAssumption, ValuesAssumption, RegistersAssumption DEF NoSlot, Values
<1>0. /\ f \in AllocState /\ FrameSound(f) /\ TableSound(f) /\ ContentSound(f, D, L)
      /\ D \subseteq Named /\ L \subseteq Temp
  BY DEF Sound
<1>1. /\ g.val[r] = v
      /\ \A q \in Regs : q # r => /\ g.val[q] = f.val[q] /\ g.reg[q] = f.reg[q]
                                 /\ g.saved[q] = f.saved[q]
      /\ g.reg[0] = f.reg[0]
  BY <1>0 DEF AllocState, Regs
<1>2. FrameSound(g)
  BY <1>0 DEF FrameSound, AllocState
<1>3. TableSound(g)
  <2>1. \A q, p \in Regs : g.val[q] # NoVal /\ g.val[q] = g.val[p] => q = p
    BY <1>0, <1>1 DEF TableSound
  <2>2. \A q \in Regs : g.val[q] \in Named => g.slot[g.val[q]] # NoSlot
    BY <1>0, <1>1 DEF TableSound
  <2>3. \A q \in Regs, c \in 1 .. MaxCell : g.val[q] \in Temp => g.spill[c] # g.val[q]
    BY <1>0, <1>1 DEF TableSound
  <2>4. \A q \in CalleeSaved : q \in Regs
    BY DEF CalleeSaved, Regs
  <2>5. \A q \in CalleeSaved : g.val[q] # NoVal => q \in g.callee
    BY <1>0, <1>1, <2>4 DEF TableSound
  <2> QED
    BY <2>1, <2>2, <2>3, <2>5 DEF TableSound
<1>4. ContentSound(g, D, L)
  <2> USE <1>0, <1>1
  <2>1. \A q \in Regs : g.val[q] \in D \cup L \cup Const => g.reg[q] = g.val[q]
    BY DEF ContentSound
  <2>2. \A q \in Regs : g.val[q] \in D /\ g.saved[q] => g.mem[g.slot[g.val[q]]] = g.val[q]
    BY DEF ContentSound
  <2>3. \A x \in D : /\ g.slot[x] # NoSlot
                    /\ (\A q \in Regs : g.val[q] # x) => g.mem[g.slot[x]] = x
    BY DEF ContentSound
  <2>4. ASSUME NEW t \in L, \A q \in Regs : g.val[q] # t
        PROVE  \E c \in 1 .. MaxCell : g.spill[c] = t
    <3>1. \A q \in Regs : f.val[q] # t
      BY <2>4
    <3>2. PICK c \in 1 .. MaxCell : f.spill[c] = t
      BY <3>1 DEF ContentSound
    <3> QED
      BY <2>4, <3>2
  <2>5. \A c \in 1 .. MaxCell : g.spill[c] \in L => g.mem[c] = g.spill[c]
    BY DEF ContentSound
  <2> QED
    BY <2>1, <2>2, <2>3, <2>4, <2>5 DEF ContentSound
<1> QED
  BY <1>0, <1>2, <1>3, <1>4 DEF Sound, Extends, FrameSound

\* What getRegister returns for v from s, D and E being the variables whose values
\* can be found before and after.  The register contains the value asked for, and
\* the registers handed out before in the same instruction keep theirs.
Got(s, D, E, L, v, load, g) ==
  /\ Sound(g.st, E, L)
  /\ Extends(s, g.st) /\ g.st.sc <= s.sc + 1
  /\ g.reg \in 0 .. NumRegs
  /\ v # ZeroConst => g.reg \in Regs /\ g.st.val[g.reg] = v
  /\ load => g.st.reg[g.reg] = v
  /\ \A q \in 0 .. NumRegs : q # g.reg => g.st.reg[q] = s.reg[q]
  /\ Touched(g.st) \subseteq Touched(s) \cup {g.reg}
  /\ g.reg \in Regs => g.reg \in Touched(g.st)
  /\ SomeUntouched(s) =>
       \A q \in Touched(s) : /\ g.st.val[q] = s.val[q] /\ q \in Touched(g.st)
                            /\ g.st.reg[q] = s.reg[q]
  /\ \A q \in Regs : g.st.lru[q] <= s.lru[q]
  /\ g.st.slot = s.slot /\ \A x \in D : Home(s, x) => Home(g.st, x)
  /\ \A t \in Temp : t # v /\ Absent(s, t) => Absent(g.st, t)

\* getRegister, with and without a load, from any sound state with a cell to spare.
LEMMA GetRegisterSound ==
  ASSUME NEW s, NEW D, NEW L, Sound(s, D, L), s.sc <= MaxCell,
         NEW v \in Values \cup {ZeroConst}, NEW load \in BOOLEAN,
         v \in Named => s.slot[v] # NoSlot,
         load => v \in D \cup L \cup Const \cup {ZeroConst},
         ~load => v \in Named \/ (v \in Temp /\ Absent(s, v))
  PROVE  Got(s, D, IF load THEN D ELSE D \ {v}, L, v, load, GetRegister(s, v, load))
<1> DEFINE g == GetRegister(s, v, load)
           f == WithFreeItem(s)
           r == First(FreeItems(f))
           D1 == IF load THEN D ELSE D \ {v}
<1> USE BoundsAssumption, ValuesAssumption, RegistersAssumption DEF NoSlot
<1>0. /\ s \in AllocState /\ FrameSound(s) /\ TableSound(s) /\ ContentSound(s, D, L)
      /\ D \subseteq Named /\ L \subseteq Temp
  BY DEF Sound
<1>1. Sound(s, D1, L)
  BY <1>0, SoundWeaken
<1>2. CASE v = ZeroConst
  <2>1. g = [st |-> s, reg |-> 0]
    BY <1>2 DEF GetRegister
  <2>2. load
    BY <1>2 DEF Values
  <2> QED
    BY <1>0, <1>1, <1>2, <2>1, <2>2
    DEF Got, Extends, FrameSound, ContentSound, Regs, AllocState, Touched, Home
<1>3. CASE v # ZeroConst /\ Holding(s, v) # {}
  <2> DEFINE h == First(Holding(s, v))
  <2>1. h \in Regs /\ s.val[h] = v
    <3>1. Holding(s, v) \in SUBSET Nat
      BY DEF Holding, Regs
    <3>2. h \in Holding(s, v)
      BY <1>3, <3>1, FirstExists
    <3> QED
      BY <3>2 DEF Holding
  <2>2. g = [st |-> [s EXCEPT !.lru[h] = 0], reg |-> h]
    BY <1>3 DEF GetRegister
  <2> HIDE DEF g, h
  <2>3. /\ g.reg = h /\ g.st = [s EXCEPT !.lru[h] = 0]
        /\ g.st.val = s.val /\ g.st.saved = s.saved /\ g.st.lru = [s.lru EXCEPT ![h] = 0]
        /\ g.st.slot = s.slot /\ g.st.callee = s.callee /\ g.st.scratch = s.scratch
        /\ g.st.reg = s.reg /\ g.st.spill = s.spill /\ g.st.sc = s.sc /\ g.st.mem = s.mem
    BY <1>0, <2>2 DEF AllocState
  <2>4. g.st \in AllocState
    <3>1. g.st.lru \in [Regs -> 0 .. MaxInstr]
      BY <1>0, <2>1, <2>3 DEF AllocState
    <3> QED
      BY <1>0, <2>3, <3>1 DEF AllocState
  <2>5. Sound(g.st, D1, L)
    BY <1>1, <2>3, <2>4 DEF Sound, FrameSound, TableSound, ContentSound
  <2>6. load => s.reg[h] = v
    BY <1>0, <1>3, <2>1 DEF ContentSound
  <2>7. \A q \in Regs : q # h => g.st.lru[q] = s.lru[q]
    BY <1>0, <2>1, <2>3 DEF AllocState
  <2>8. g.st.lru[h] = 0 /\ s.lru[h] \in Nat
    BY <1>0, <2>1, <2>3 DEF AllocState
  <2>9. h \in 0 .. NumRegs
    BY <2>1 DEF Regs
  <2>10. v # NoVal /\ \A q \in Regs : s.lru[q] \in Nat
    BY <1>0, <1>3 DEF AllocState
  <2> QED
    BY <1>0, <1>3, <2>1, <2>3, <2>5, <2>6, <2>7, <2>8, <2>9, <2>10
    DEF Got, Extends, FrameSound, Touched, Absent, Home, g
<1>4. CASE v # ZeroConst /\ Holding(s, v) = {}
  <2> DEFINE m == TestCalleeSaved([f EXCEPT !.val[r] = v, !.lru[r] = 0,
                                            !.saved[r] = FALSE], r)
             hits == {c \in 1 .. MaxCell : f.spill[c] = v}
             w == CASE v \in Const -> v
                    [] v \in Named -> IF load THEN f.mem[f.slot[v]] ELSE f.reg[r]
                    [] v \in Temp -> IF load /\ hits # {} THEN f.mem[First(hits)] ELSE f.reg[r]
             n == Load(m, r, v, load)
  <2>1. g = [st |-> n, reg |-> r]
    BY <1>4 DEF GetRegister, MapItem
  <2>2. \A q \in Regs : s.val[q] # v
    BY <1>4 DEF Holding
  <2>3. /\ Sound(f, D1, L) /\ Sound(f, D, L) /\ Extends(s, f) /\ f.sc <= s.sc + 1
        /\ r \in Regs /\ f.val[r] = NoVal
        /\ f.reg = s.reg /\ f.lru = s.lru /\ f.slot = s.slot
        /\ \A x \in D : Home(s, x) => Home(f, x)
        /\ \A q \in Regs : f.val[q] # NoVal => f.val[q] = s.val[q]
        /\ SomeUntouched(s) => \A q \in Touched(s) : f.val[q] = s.val[q]
        /\ \A t \in Temp : Absent(s, t) => Absent(f, t)
    BY <1>1, WithFreeItemSound
  <2>4. v \in Values /\ v # NoVal
    BY <1>4 DEF Values
  <2>5. \A q \in Regs : f.val[q] # v
    BY <2>2, <2>3, <2>4
  <2>6. v \in Named => f.slot[v] # NoSlot
    BY <2>3 DEF Extends
  <2> HIDE DEF g, f, r
  <2>7. f \in AllocState
    BY <2>3 DEF Sound
  <2>8. /\ m.val = [f.val EXCEPT ![r] = v] /\ m.lru = [f.lru EXCEPT ![r] = 0]
        /\ m.saved = [f.saved EXCEPT ![r] = FALSE] /\ m.slot = f.slot /\ m.sc = f.sc
        /\ m.callee = IF r \in CalleeSaved THEN f.callee \cup {r} ELSE f.callee
        /\ m.scratch = f.scratch /\ m.reg = f.reg /\ m.mem = f.mem /\ m.spill = f.spill
    BY <2>7 DEF TestCalleeSaved, AllocState
  <2>9. m \in AllocState
    <3>1. m = [f EXCEPT !.val[r] = v, !.lru[r] = 0, !.saved[r] = FALSE,
                        !.callee = IF r \in CalleeSaved THEN f.callee \cup {r} ELSE f.callee]
      BY <2>7 DEF TestCalleeSaved, AllocState
    <3>2. /\ m.val \in [Regs -> Values \cup {NoVal}] /\ m.saved \in [Regs -> BOOLEAN]
          /\ m.lru \in [Regs -> 0 .. MaxInstr] /\ m.callee \in SUBSET Regs
      <4> HIDE DEF m
      <4>1. m.val \in [Regs -> Values \cup {NoVal}]
        BY <2>3, <2>4, <2>7, <2>8 DEF AllocState
      <4>2. m.saved \in [Regs -> BOOLEAN]
        BY <2>3, <2>7, <2>8 DEF AllocState
      <4>3. m.lru \in [Regs -> 0 .. MaxInstr]
        BY <2>3, <2>7, <2>8 DEF AllocState
      <4>4. m.callee \in SUBSET Regs
        BY <2>3, <2>7, <2>8 DEF AllocState
      <4> QED
        BY <4>1, <4>2, <4>3, <4>4
    <3> QED
      BY <2>7, <2>8, <3>1, <3>2 DEF AllocState
  <2> HIDE DEF m
  <2>10. /\ n \in AllocState
         /\ n.val = [f.val EXCEPT ![r] = v] /\ n.lru = [f.lru EXCEPT ![r] = 0]
         /\ n.saved = [f.saved EXCEPT ![r] = (v \in Named)]
         /\ n.slot = f.slot /\ n.sc = f.sc /\ n.mem = f.mem
         /\ n.spill = [c \in 1 .. MaxCell |-> IF f.spill[c] = v THEN NoVal ELSE f.spill[c]]
         /\ n.callee = IF r \in CalleeSaved THEN f.callee \cup {r} ELSE f.callee
         /\ n.reg = [f.reg EXCEPT ![r] = w]
    <3>0. r \in 0 .. NumRegs
      BY <2>3 DEF Regs
    <3>1. CASE v \in Const
      <4>1. n = [m EXCEPT !.reg[r] = w] /\ w = v
        BY <3>1 DEF Load
      <4> HIDE DEF n, w
      <4>2. v \notin Named /\ \A c \in 1 .. MaxCell : f.spill[c] # v
        BY <2>7, <3>1 DEF AllocState, Values
      <4>3. f.spill = [c \in 1 .. MaxCell |-> IF f.spill[c] = v THEN NoVal ELSE f.spill[c]]
        BY <2>7, <4>2 DEF AllocState
      <4>4. [m.reg EXCEPT ![r] = w] \in [0 .. NumRegs -> Content]
        BY <2>4, <2>9, <3>0, <4>1 DEF AllocState, Content
      <4>5. (v \in Named) = FALSE
        BY <4>2
      <4>6. m.saved = [f.saved EXCEPT ![r] = (v \in Named)]
        BY <2>8, <4>5
      <4> QED
        BY <2>8, <2>9, <4>1, <4>3, <4>4, <4>6 DEF AllocState
    <3>2. CASE v \in Named
      <4>1. AddVar(m, v) = m
        BY <2>6, <2>8, <3>2 DEF AddVar
      <4>2. v \notin Const
        BY <3>2
      <4>3. n = [m EXCEPT !.saved[r] = TRUE, !.reg[r] = w]
        <5>1. CASE load
          BY <2>8, <2>9, <3>2, <4>1, <4>2, <5>1 DEF Load, AllocState
        <5>2. CASE ~load
          <6>1. n = [m EXCEPT !.saved[r] = TRUE]
            BY <3>2, <4>1, <4>2, <5>2 DEF Load
          <6>2. w = m.reg[r]
            BY <2>8, <3>2, <4>2, <5>2
          <6> HIDE DEF n, w
          <6> QED
            BY <2>9, <3>0, <6>1, <6>2 DEF AllocState
        <5> QED
          BY <5>1, <5>2
      <4>4. w \in Content
        BY <2>3, <2>7, <3>0, <3>2, <4>2 DEF AllocState
      <4> HIDE DEF n, w
      <4>5. \A c \in 1 .. MaxCell : f.spill[c] # v
        BY <2>7, <3>2 DEF AllocState, Values
      <4>6. f.spill = [c \in 1 .. MaxCell |-> IF f.spill[c] = v THEN NoVal ELSE f.spill[c]]
        BY <2>7, <4>5 DEF AllocState
      <4>7. [m.reg EXCEPT ![r] = w] \in [0 .. NumRegs -> Content]
        BY <2>9, <3>0, <4>4 DEF AllocState
      <4>8. [m.saved EXCEPT ![r] = TRUE] = [f.saved EXCEPT ![r] = (v \in Named)]
        BY <2>7, <2>8, <3>2 DEF AllocState
      <4>9. [m.saved EXCEPT ![r] = TRUE] \in [Regs -> BOOLEAN]
        BY <2>9 DEF AllocState
      <4> QED
        BY <2>8, <2>9, <4>3, <4>6, <4>7, <4>8, <4>9 DEF AllocState
    <3>3. CASE v \in Temp
      <4>1. v \notin Const /\ v \notin Named
        BY <3>3
      <4>2. hits = {c \in 1 .. MaxCell : m.spill[c] = v} /\ hits \in SUBSET Nat
        BY <2>8
      <4>3. [m.saved EXCEPT ![r] = FALSE] = [f.saved EXCEPT ![r] = (v \in Named)]
            /\ m.saved = [f.saved EXCEPT ![r] = (v \in Named)]
        <5>1. (v \in Named) = FALSE
          BY <4>1
        <5>2. m.saved = [f.saved EXCEPT ![r] = (v \in Named)]
          BY <2>8, <5>1
        <5>3. [m.saved EXCEPT ![r] = FALSE] = m.saved
          BY <2>3, <2>7, <2>8 DEF AllocState
        <5> QED
          BY <5>2, <5>3
      <4>4. CASE load /\ hits # {}
        <5> DEFINE h == First(hits)
        <5>1. n = [m EXCEPT !.spill[h] = NoVal, !.reg[r] = m.mem[h]]
          BY <4>1, <4>2, <4>4 DEF Load, UnspillTemp
        <5>2. w = m.mem[h]
          BY <2>8, <3>3, <4>1, <4>4
        <5>3. h \in hits
          <6> HIDE DEF hits
          <6> QED
            BY <4>2, <4>4, FirstExists
        <5>4. h \in 1 .. MaxCell /\ f.spill[h] = v
          BY <5>3
        <5> HIDE DEF n, w, h, hits
        <5>5. \A c \in 1 .. MaxCell : f.spill[c] = v => c = h
          BY <2>3, <3>3, <5>4 DEF Sound, FrameSound
        <5>6. [m.spill EXCEPT ![h] = NoVal]
               = [c \in 1 .. MaxCell |-> IF f.spill[c] = v THEN NoVal ELSE f.spill[c]]
          BY <2>7, <2>8, <5>4, <5>5 DEF AllocState
        <5>7. [m.spill EXCEPT ![h] = NoVal] \in [1 .. MaxCell -> Temp \cup {NoVal, NotSpill}]
          BY <2>9 DEF AllocState
        <5>8. [m.reg EXCEPT ![r] = w] \in [0 .. NumRegs -> Content]
          <6>1. w \in Content
            BY <2>9, <5>2, <5>4 DEF AllocState, Cells
          <6> QED
            BY <2>9, <3>0, <6>1 DEF AllocState
        <5> QED
          BY <2>8, <2>9, <4>3, <5>1, <5>2, <5>6, <5>7, <5>8 DEF AllocState
      <4>5. CASE ~(load /\ hits # {})
        <5>1. n = m
          BY <4>1, <4>2, <4>5 DEF Load, UnspillTemp
        <5>2. w = f.reg[r]
          BY <3>3, <4>1, <4>5
        <5>3. \A c \in 1 .. MaxCell : f.spill[c] # v
          BY <2>3, <3>3, <4>1, <4>5 DEF Absent
        <5> HIDE DEF n, w
        <5>4. f.spill = [c \in 1 .. MaxCell |-> IF f.spill[c] = v THEN NoVal ELSE f.spill[c]]
          BY <2>7, <5>3 DEF AllocState
        <5>5. f.reg = [f.reg EXCEPT ![r] = w]
          BY <2>7, <3>0, <5>2 DEF AllocState
        <5> QED
          BY <2>8, <2>9, <4>3, <5>1, <5>4, <5>5
      <4> QED
        BY <4>4, <4>5
    <3> QED
      BY <2>4, <3>1, <3>2, <3>3 DEF Values
  <2>11. load => w = v
    <3> SUFFICES ASSUME load PROVE w = v
      OBVIOUS
    <3>1. ContentSound(f, D, L)
      BY <2>3 DEF Sound
    <3>2. CASE v \in Const
      BY <3>2
    <3>3. CASE v \in Named
      <4>1. v \in D
        BY <1>0, <1>4, <3>3 DEF Values
      <4>2. f.mem[f.slot[v]] = v
        BY <2>5, <3>1, <4>1 DEF ContentSound
      <4> QED
        BY <3>3, <4>2
    <3>4. CASE v \in Temp
      <4>1. v \in L
        BY <1>0, <1>4, <3>4 DEF Values
      <4>2. hits # {}
        BY <2>5, <3>1, <4>1 DEF ContentSound
      <4>3. First(hits) \in hits
        <5>1. hits \in SUBSET Nat
          OBVIOUS
        <5> HIDE DEF hits
        <5> QED
          BY <4>2, <5>1, FirstExists
      <4>4. f.mem[First(hits)] = v
        BY <3>1, <4>1, <4>3 DEF ContentSound
      <4> QED
        BY <3>4, <4>2, <4>4
    <3> QED
      BY <2>4, <3>2, <3>3, <3>4 DEF Values
  <2>12. v \in D1 \cup L \cup Const => w = v
    <3>1. ~load /\ v \in Temp => v \notin L
      BY <1>0, <2>2 DEF ContentSound, Absent
    <3>2. ~load => v \notin D1 \cup L \cup Const
      BY <1>0, <3>1
    <3> QED
      BY <2>11, <3>2
  <2> HIDE DEF n, w, D1
  <2>13. /\ n.val[r] = v /\ n.lru[r] = 0 /\ n.reg[r] = w
         /\ \A q \in Regs : q # r => /\ n.val[q] = f.val[q] /\ n.lru[q] = f.lru[q]
                                 /\ n.saved[q] = f.saved[q]
         /\ \A q \in 0 .. NumRegs : q # r => n.reg[q] = f.reg[q]
    BY <2>3, <2>7, <2>10, SMTT(30) DEF AllocState, Regs
  <2>14. Sound(n, D1, L) /\ Extends(f, n)
    <3> HIDE DEF NoSlot
    <3>1. /\ Sound(f, D1, L) /\ n \in AllocState /\ r \in Regs /\ f.val[r] = NoVal
          /\ v \in Values /\ (\A q \in Regs : f.val[q] # v)
          /\ (v \in Named => f.slot[v] # NoSlot)
      BY <2>3, <2>4, <2>5, <2>6, <2>10
    <3>2. /\ (v \in D1 \cup L \cup Const => n.reg[r] = v)
          /\ n.val = [f.val EXCEPT ![r] = v]
          /\ \A q \in 0 .. NumRegs : q # r => n.reg[q] = f.reg[q]
      BY <2>10, <2>12, <2>13
    <3>3. /\ \A q \in Regs : q # r => n.saved[q] = f.saved[q]
          /\ n.slot = f.slot /\ n.sc = f.sc /\ n.mem = f.mem
      BY <2>10, <2>13
    <3>4. n.spill = [c \in 1 .. MaxCell |-> IF f.spill[c] = v THEN NoVal ELSE f.spill[c]]
      BY <2>10
    <3>5. n.callee = IF r \in CalleeSaved THEN f.callee \cup {r} ELSE f.callee
      BY <2>10
    <3> HIDE DEF hits
    <3> QED
      BY ONLY <3>1, <3>2, <3>3, <3>4, <3>5, MapSound
  <2>15. r \in 0 .. NumRegs /\ \A q \in Regs : q \in 0 .. NumRegs
    BY <2>3 DEF Regs
  <2>16. \A q \in Regs : s.lru[q] \in Nat
    BY <1>0 DEF AllocState
  <2>17. Extends(s, n) /\ n.sc <= s.sc + 1
    BY <1>0, <2>3, <2>7, <2>10, <2>14 DEF Extends, AllocState
  <2>18. Touched(n) \subseteq Touched(s) \cup {r} /\ r \in Touched(n)
    BY <2>3, <2>4, <2>13 DEF Touched
  <2>19. SomeUntouched(s) =>
           \A q \in Touched(s) : /\ n.val[q] = s.val[q] /\ q \in Touched(n)
                                /\ n.reg[q] = s.reg[q]
    BY <2>3, <2>13, <2>15 DEF Touched
  <2>20. \A t \in Temp : t # v /\ Absent(s, t) => Absent(n, t)
    BY <2>3, <2>10, <2>13, ValuesAssumption DEF Absent, Values
  <2>21. \A q \in Regs : n.lru[q] <= s.lru[q]
    BY <2>3, <2>13, <2>16
  <2>22. \A q \in 0 .. NumRegs : q # r => n.reg[q] = s.reg[q]
    BY <2>3, <2>13
  <2>23. n.slot = s.slot /\ \A x \in D : Home(s, x) => Home(n, x)
    BY <2>3, <2>10 DEF Home
  <2> QED
    BY <2>1, <2>3, <2>11, <2>13, <2>14, <2>15, <2>17, <2>18, <2>19, <2>20, <2>21, <2>22,
       <2>23
    DEF Got, g, D1
<1> QED
  BY <1>2, <1>3, <1>4

\* getFreeRegister, likewise: the register it hands out is mapped to nothing.
LEMMA GetFreeRegisterSound ==
  ASSUME NEW s, NEW D, NEW L, Sound(s, D, L), s.sc <= MaxCell
  PROVE  LET g == GetFreeRegister(s)
         IN  /\ Sound(g.st, D, L) /\ Extends(s, g.st) /\ g.st.sc <= s.sc + 1
             /\ g.reg \in Regs /\ g.st.val[g.reg] = NoVal
             /\ g.st.reg = s.reg /\ g.st.lru = s.lru
             /\ SomeUntouched(s) => \A q \in Touched(s) : g.st.val[q] = s.val[q]
             /\ \A t \in Temp : Absent(s, t) => Absent(g.st, t)
<1> DEFINE f == WithFreeItem(s)
           r == First(FreeItems(f))
           n == [f EXCEPT !.scratch = f.scratch \cup {r}]
<1>1. GetFreeRegister(s) = [st |-> n, reg |-> r]
  BY DEF GetFreeRegister, HandOut
<1>2. /\ Sound(f, D, L) /\ Extends(s, f) /\ f.sc <= s.sc + 1
      /\ r \in Regs /\ f.val[r] = NoVal /\ f.reg = s.reg /\ f.lru = s.lru
      /\ SomeUntouched(s) => \A q \in Touched(s) : f.val[q] = s.val[q]
      /\ \A t \in Temp : Absent(s, t) => Absent(f, t)
  BY WithFreeItemSound
<1> HIDE DEF f, r
<1>3. f \in AllocState
  BY <1>2 DEF Sound
<1>4. /\ n \in AllocState
      /\ n.val = f.val /\ n.saved = f.saved /\ n.lru = f.lru /\ n.slot = f.slot
      /\ n.spill = f.spill /\ n.sc = f.sc /\ n.callee = f.callee
      /\ n.reg = f.reg /\ n.mem = f.mem
  BY <1>2, <1>3 DEF AllocState
<1> HIDE DEF n
<1>5. Sound(n, D, L)
  BY <1>2, <1>4 DEF Sound, FrameSound, TableSound, ContentSound
<1> QED
  BY <1>1, <1>2, <1>4, <1>5 DEF Extends, Absent

-----------------------------------------------------------------------------
(* Small steps on the tables *)

\* markUsed: once the temporary is used, nobody has to find it any more.
LEMMA MarkUsedSound ==
  ASSUME NEW s, NEW D, NEW L, Sound(s, D, L), NEW v
  PROVE  LET u == MarkUsed(s, v)
         IN  /\ Sound(u, D, L \ {v}) /\ Extends(s, u) /\ u.sc = s.sc
             /\ u.slot = s.slot /\ u.mem = s.mem /\ u.saved = s.saved
             /\ u.reg = s.reg /\ u.lru = s.lru
             /\ \A q \in Regs : s.val[q] # v \/ v \notin Temp => u.val[q] = s.val[q]
             /\ \A q \in Regs : s.val[q] = NoVal => u.val[q] = NoVal
<1> USE BoundsAssumption, ValuesAssumption
<1>0. s \in AllocState /\ FrameSound(s) /\ TableSound(s) /\ ContentSound(s, D, L)
      /\ D \subseteq Named /\ L \subseteq Temp
  BY DEF Sound
<1>1. CASE ~(v \in Temp /\ Holding(s, v) # {})
  <2>1. MarkUsed(s, v) = s
    BY <1>1 DEF MarkUsed
  <2>2. Sound(s, D, L \ {v})
    BY SoundWeaken
  <2> QED
    BY <1>0, <2>1, <2>2 DEF Extends, FrameSound
<1>2. CASE v \in Temp /\ Holding(s, v) # {}
  <2> DEFINE r == First(Holding(s, v))
             u == [s EXCEPT !.val[r] = NoVal]
  <2>1. r \in Regs /\ s.val[r] = v
    <3>1. Holding(s, v) \in SUBSET Nat
      BY DEF Holding, Regs
    <3>2. r \in Holding(s, v)
      BY <1>2, <3>1, FirstExists
    <3> QED
      BY <3>2 DEF Holding
  <2>2. MarkUsed(s, v) = u
    BY <1>2 DEF MarkUsed, Unmap
  <2> HIDE DEF r
  <2>3. /\ u.val = [s.val EXCEPT ![r] = NoVal] /\ u.saved = s.saved /\ u.lru = s.lru
        /\ u.slot = s.slot /\ u.spill = s.spill /\ u.sc = s.sc /\ u.callee = s.callee
        /\ u.scratch = s.scratch /\ u.reg = s.reg /\ u.mem = s.mem
    BY <1>0 DEF AllocState
  <2>4. u \in AllocState
    BY <1>0, <2>1 DEF AllocState
  <2> HIDE DEF u
  <2>5. FrameSound(u)
    BY <1>0, <2>3 DEF FrameSound
  <2>6. \A q \in Regs : q # r => u.val[q] = s.val[q]
    BY <1>0, <2>3 DEF AllocState
  <2>7. u.val[r] = NoVal
    BY <1>0, <2>1, <2>3 DEF AllocState
  <2>8. TableSound(u)
    BY <1>0, <2>3, <2>6, <2>7 DEF TableSound, Values
  <2>9. ContentSound(u, D, L \ {v})
    BY <1>0, <1>2, <2>1, <2>3, <2>6, <2>7 DEF ContentSound, Values
  <2>10. Sound(u, D, L \ {v})
    BY <1>0, <2>4, <2>5, <2>8, <2>9 DEF Sound
  <2>11. Extends(s, u)
    BY <1>0, <2>3 DEF Extends, FrameSound
  <2>12. /\ \A q \in Regs : s.val[q] # v \/ v \notin Temp => u.val[q] = s.val[q]
         /\ \A q \in Regs : s.val[q] = NoVal => u.val[q] = NoVal
    BY <1>2, <2>1, <2>6, <2>7
  <2> QED
    BY <2>2, <2>3, <2>10, <2>11, <2>12
<1> QED
  BY <1>1, <1>2

\* markUsed leaves a free register free.
LEMMA FreeStaysFree ==
  ASSUME NEW s \in AllocState, NEW v, NEW r \in Regs, s.val[r] = NoVal
  PROVE  MarkUsed(s, v).val[r] = NoVal
BY DEF MarkUsed, Unmap, AllocState

\* markChanged: the cell of the register's value is stale.
LEMMA MarkChangedSound ==
  ASSUME NEW s, NEW D, NEW L, Sound(s, D, L), NEW r \in Regs
  PROVE  LET u == MarkChanged(s, r)
         IN  /\ Sound(u, D, L) /\ Extends(s, u) /\ ~u.saved[r]
             /\ u.sc = s.sc /\ u.slot = s.slot /\ u.spill = s.spill
             /\ u.mem = s.mem /\ u.val = s.val /\ u.reg = s.reg /\ u.lru = s.lru
<1> DEFINE u == [s EXCEPT !.saved[r] = FALSE]
<1>0. s \in AllocState /\ FrameSound(s) /\ TableSound(s) /\ ContentSound(s, D, L)
      /\ D \subseteq Named /\ L \subseteq Temp
  BY DEF Sound
<1>1. MarkChanged(s, r) = u
  BY DEF MarkChanged
<1>2. /\ u.val = s.val /\ u.saved = [s.saved EXCEPT ![r] = FALSE] /\ u.lru = s.lru
      /\ u.slot = s.slot /\ u.spill = s.spill /\ u.sc = s.sc /\ u.callee = s.callee
      /\ u.scratch = s.scratch /\ u.reg = s.reg /\ u.mem = s.mem
  BY <1>0 DEF AllocState
<1>3. u \in AllocState
  BY <1>0 DEF AllocState
<1> HIDE DEF u
<1>4. ~u.saved[r] /\ \A q \in Regs : u.saved[q] => s.saved[q]
  BY <1>0, <1>2 DEF AllocState
<1>5. Sound(u, D, L)
  BY <1>0, <1>2, <1>3, <1>4 DEF Sound, FrameSound, TableSound, ContentSound
<1> QED
  BY <1>0, <1>1, <1>2, <1>4, <1>5 DEF Extends, FrameSound

\* updateLRU: entries get one instruction older, and none counts as touched.
LEMMA UpdateLRUSound ==
  ASSUME NEW s, NEW D, NEW L, Sound(s, D, L), \A q \in Regs : s.lru[q] < MaxInstr
  PROVE  LET u == UpdateLRU(s)
         IN  /\ Sound(u, D, L) /\ Extends(s, u) /\ Touched(u) = {}
             /\ u.sc = s.sc /\ u.slot = s.slot /\ u.spill = s.spill
             /\ u.mem = s.mem /\ u.val = s.val /\ u.reg = s.reg
             /\ \A q \in Regs : u.lru[q] = s.lru[q] + 1
<1> DEFINE u == UpdateLRU(s)
<1>0. s \in AllocState /\ FrameSound(s) /\ TableSound(s) /\ ContentSound(s, D, L)
      /\ D \subseteq Named /\ L \subseteq Temp
  BY DEF Sound
<1>1. /\ u.val = s.val /\ u.saved = s.saved /\ u.lru = [r \in Regs |-> s.lru[r] + 1]
      /\ u.slot = s.slot /\ u.spill = s.spill /\ u.sc = s.sc /\ u.callee = s.callee
      /\ u.scratch = s.scratch /\ u.reg = s.reg /\ u.mem = s.mem
  BY <1>0 DEF AllocState, UpdateLRU
<1>2. u \in AllocState
  <2>1. \A q \in Regs : s.lru[q] + 1 \in 0 .. MaxInstr
    BY <1>0, BoundsAssumption DEF AllocState
  <2> QED
    BY <1>0, <2>1 DEF AllocState, UpdateLRU
<1> HIDE DEF u
<1>3. Sound(u, D, L)
  BY <1>0, <1>1, <1>2 DEF Sound, FrameSound, TableSound, ContentSound
<1>4. \A q \in Regs : u.lru[q] = s.lru[q] + 1 /\ u.lru[q] # 0
  BY <1>0, <1>1 DEF AllocState
<1> QED
  BY <1>0, <1>1, <1>3, <1>4 DEF Extends, FrameSound, Touched, u

\* Overwriting registers that hold no value loses nothing.
LEMMA ClobberSound ==
  ASSUME NEW s, NEW D, NEW L, Sound(s, D, L),
         NEW R \in SUBSET Regs, \A r \in R : s.val[r] = NoVal
  PROVE  LET u == Clobber(s, R)
         IN  /\ Sound(u, D, L) /\ Extends(s, u)
             /\ u.sc = s.sc /\ u.slot = s.slot /\ u.spill = s.spill /\ u.saved = s.saved
             /\ u.mem = s.mem /\ u.val = s.val /\ u.lru = s.lru
<1> DEFINE u == Clobber(s, R)
<1> USE ValuesAssumption, RegistersAssumption DEF Values, Regs
<1>0. s \in AllocState /\ FrameSound(s) /\ TableSound(s) /\ ContentSound(s, D, L)
      /\ D \subseteq Named /\ L \subseteq Temp
  BY DEF Sound
<1>1. /\ u.val = s.val /\ u.saved = s.saved /\ u.lru = s.lru
      /\ u.slot = s.slot /\ u.spill = s.spill /\ u.sc = s.sc /\ u.callee = s.callee
      /\ u.scratch = s.scratch /\ u.mem = s.mem
      /\ u.reg = [q \in 0 .. NumRegs |-> IF q \in R THEN Junk ELSE s.reg[q]]
  BY <1>0 DEF AllocState, Clobber
<1>2. u \in AllocState
  <2>1. u.reg \in [0 .. NumRegs -> Content]
    BY <1>0, <1>1 DEF AllocState, Content
  <2> QED
    BY <1>0, <1>1, <2>1 DEF AllocState, Clobber
<1> HIDE DEF u
<1>3. ContentSound(u, D, L)
  <2>1. u.reg[0] = s.reg[0]
    BY <1>0, <1>1
  <2>2. \A q \in Regs : s.val[q] # NoVal => u.reg[q] = s.reg[q]
    BY <1>0, <1>1
  <2>3. \A q \in Regs : s.val[q] \in D \cup L \cup Const => u.reg[q] = s.val[q]
    BY <1>0, <2>2 DEF ContentSound
  <2>4. /\ u.val = s.val /\ u.saved = s.saved /\ u.slot = s.slot
        /\ u.spill = s.spill /\ u.mem = s.mem
    BY <1>1
  <2>5. \A q \in Regs : u.val[q] \in D \cup L \cup Const => u.reg[q] = u.val[q]
    BY <2>3, <2>4
  <2> QED
    BY ONLY <1>0, <2>1, <2>4, <2>5 DEF ContentSound
<1>4. Sound(u, D, L)
  BY <1>0, <1>1, <1>2, <1>3 DEF Sound, FrameSound, TableSound
<1> QED
  BY <1>0, <1>1, <1>4 DEF Extends, FrameSound, u

\* The new value of d can be found again after s became u.
Arrived(s, u, D, L, d) ==
  /\ Sound(u, D \cup ({d} \cap Named), L \cup ({d} \cap Temp)) /\ Extends(s, u)
  /\ u.sc = s.sc /\ u.slot = s.slot /\ u.lru = s.lru

\* The result of an instruction arrives in its register: from now on the new value
\* of d is one that can be found again, and no old value of d is taken for it.
LEMMA DefineSound ==
  ASSUME NEW s, NEW D, NEW L, NEW d \in Named \cup Temp, D \subseteq Named, d \notin L,
         Sound(s, D \ {d}, L), NEW r \in Regs, s.val[r] = d, ~s.saved[r]
  PROVE  Arrived(s, Define(s, r, d), D, L, d)
<1> DEFINE u == Define(s, r, d)
           D2 == D \cup ({d} \cap Named)
           L2 == L \cup ({d} \cap Temp)
<1> USE ValuesAssumption, RegistersAssumption, BoundsAssumption DEF Values
<1>0. s \in AllocState /\ FrameSound(s) /\ TableSound(s) /\ ContentSound(s, D \ {d}, L)
      /\ L \subseteq Temp
  BY DEF Sound
<1>1. /\ u.val = s.val /\ u.saved = s.saved /\ u.lru = s.lru
      /\ u.slot = s.slot /\ u.spill = s.spill /\ u.sc = s.sc /\ u.callee = s.callee
      /\ u.scratch = s.scratch
      /\ u.reg = [q \in 0 .. NumRegs |->
                    IF q = r THEN d ELSE IF s.reg[q] = d THEN Junk ELSE s.reg[q]]
      /\ u.mem = [c \in Cells |-> IF s.mem[c] = d THEN Junk ELSE s.mem[c]]
  BY <1>0 DEF AllocState, Define
<1>2. u \in AllocState
  <2>1. u.reg \in [0 .. NumRegs -> Content] /\ u.mem \in [Cells -> Content]
    BY <1>0, <1>1 DEF AllocState, Content
  <2> QED
    BY <1>0, <1>1, <2>1 DEF AllocState, Define
<1> HIDE DEF u
<1>3. FrameSound(u)
  <2>1. u.mem[0] = FramePtr /\ u.mem[-1] = ReturnAddr
    BY <1>0, <1>1 DEF FrameSound, Cells
  <2> QED
    BY <1>0, <1>1, <2>1 DEF FrameSound
<1>4. TableSound(u)
  BY <1>0, <1>1 DEF TableSound
<1>5. ContentSound(u, D2, L2)
  <2>1. u.reg[0] = ZeroConst
    BY <1>0, <1>1 DEF ContentSound, Regs
  <2>2. \A q \in Regs : u.val[q] \in D2 \cup L2 \cup Const => u.reg[q] = u.val[q]
    BY <1>0, <1>1 DEF ContentSound, TableSound, Regs
  <2>3. ASSUME NEW q \in Regs, u.val[q] \in D2, u.saved[q]
        PROVE  u.mem[u.slot[u.val[q]]] = u.val[q]
    <3>1. q # r /\ s.val[q] # d /\ s.val[q] \in D \ {d}
      BY <1>0, <1>1, <2>3 DEF TableSound
    <3> QED
      BY <1>0, <1>1, <2>3, <3>1 DEF ContentSound, AllocState
  <2>4. ASSUME NEW v \in D2
        PROVE  /\ u.slot[v] # NoSlot
               /\ (\A q \in Regs : u.val[q] # v) => u.mem[u.slot[v]] = v
    <3>1. CASE v = d
      BY <1>0, <1>1, <2>4, <3>1 DEF TableSound
    <3>2. CASE v # d
      BY <1>0, <1>1, <2>4, <3>2 DEF ContentSound, AllocState
    <3> QED
      BY <3>1, <3>2
  <2>5. ASSUME NEW t \in L2, \A q \in Regs : u.val[q] # t
        PROVE  \E c \in 1 .. MaxCell : u.spill[c] = t
    BY <1>0, <1>1, <2>5 DEF ContentSound
  <2>6. \A c \in 1 .. MaxCell : u.spill[c] \in L2 => u.mem[c] = u.spill[c]
    BY <1>0, <1>1 DEF ContentSound, TableSound, Cells
  <2> QED
    BY <2>1, <2>2, <2>3, <2>4, <2>5, <2>6 DEF ContentSound
<1>6. D2 \subseteq Named /\ L2 \subseteq Temp
  BY <1>0
<1> HIDE DEF D2, L2
<1>7. Sound(u, D2, L2)
  BY <1>2, <1>3, <1>4, <1>5, <1>6 DEF Sound
<1> QED
  BY <1>0, <1>1, <1>7 DEF Arrived, Extends, FrameSound, u, D2, L2

\* addVar: the variable has a cell.
LEMMA AddVarSound ==
  ASSUME NEW s, NEW D, NEW L, Sound(s, D, L), s.sc <= MaxCell, NEW x \in Named
  PROVE  LET a == AddVar(s, x)
         IN  /\ Sound(a, D, L) /\ Extends(s, a) /\ a.sc <= s.sc + 1
             /\ a.slot[x] # NoSlot /\ a.val = s.val /\ a.lru = s.lru
<1> USE ValuesAssumption, BoundsAssumption DEF NoSlot
<1>0. s \in AllocState /\ FrameSound(s) /\ TableSound(s) /\ ContentSound(s, D, L)
      /\ D \subseteq Named /\ L \subseteq Temp
  BY DEF Sound
<1>1. CASE s.slot[x] # NoSlot
  BY <1>0, <1>1 DEF AddVar, Extends, FrameSound
<1>2. CASE s.slot[x] = NoSlot
  <2> DEFINE a == [s EXCEPT !.slot[x] = s.sc, !.sc = s.sc + 1]
  <2>1. AddVar(s, x) = a
    BY <1>2 DEF AddVar
  <2>2. s.sc \in 1 .. MaxCell /\ s.sc \in Cells /\ s.spill[s.sc] = NotSpill
    BY <1>0 DEF FrameSound, Cells
  <2>3. /\ a.val = s.val /\ a.saved = s.saved /\ a.lru = s.lru
        /\ a.slot = [s.slot EXCEPT ![x] = s.sc] /\ a.spill = s.spill /\ a.sc = s.sc + 1
        /\ a.callee = s.callee /\ a.scratch = s.scratch /\ a.reg = s.reg /\ a.mem = s.mem
    BY <1>0 DEF AllocState
  <2>4. a \in AllocState
    <3>1. a.slot \in [Named -> Cells] /\ a.sc \in Nat
      BY <1>0, <2>2, <2>3 DEF AllocState
    <3> QED
      BY <1>0, <2>3, <3>1 DEF AllocState
  <2> HIDE DEF a
  <2>5. a.slot[x] = s.sc /\ \A v \in Named : v # x => a.slot[v] = s.slot[v]
    BY <1>0, <2>3 DEF AllocState
  <2>6. FrameSound(a)
    BY <1>0, <2>2, <2>3, <2>5 DEF FrameSound, AllocState
  <2>7. TableSound(a)
    BY <1>0, <1>2, <2>2, <2>3, <2>5 DEF TableSound
  <2>8. ContentSound(a, D, L)
    BY <1>0, <1>2, <2>3, <2>5 DEF ContentSound
  <2> QED
    BY <1>0, <1>2, <2>1, <2>2, <2>3, <2>4, <2>5, <2>6, <2>7, <2>8
    DEF Sound, Extends
<1> QED
  BY <1>1, <1>2

\* saveVarsAndClear, at one entry: the register is free and nothing is lost.
LEMMA SaveAndClearSound ==
  ASSUME NEW s, NEW D, NEW L, Sound(s, D, L), s.sc <= MaxCell, NEW r \in Regs
  PROVE  LET u == SaveAndClear(s, r)
         IN  /\ Sound(u, D, L) /\ Extends(s, u) /\ u.lru = s.lru /\ u.val[r] = NoVal
             /\ \A q \in Regs : q # r => u.val[q] = s.val[q]
<1> USE ValuesAssumption, BoundsAssumption DEF Values
<1>0. s \in AllocState
  BY DEF Sound
<1>1. CASE s.val[r] = NoVal
  BY <1>0, <1>1 DEF SaveAndClear, Extends, AllocState
<1>2. CASE s.val[r] # NoVal
  <2> DEFINE e == Evict(s, r)
             b == s.saved[r] \/ s.val[r] \in Named
             u == [e EXCEPT !.saved[r] = b]
  <2>1. SaveAndClear(s, r) = u
    BY <1>2 DEF SaveAndClear
  <2>2. b \in BOOLEAN
    BY <1>0 DEF AllocState
  <2>3. /\ Sound(e, D, L) /\ Extends(s, e) /\ e.lru = s.lru
        /\ e.val = [s.val EXCEPT ![r] = NoVal]
    BY <1>2, EvictSound
  <2> HIDE DEF e, b
  <2>4. /\ e \in AllocState /\ FrameSound(e) /\ TableSound(e) /\ ContentSound(e, D, L)
        /\ D \subseteq Named /\ L \subseteq Temp
    BY <2>3 DEF Sound
  <2>5. e.val[r] = NoVal /\ \A q \in Regs : q # r => e.val[q] = s.val[q]
    BY <1>0, <2>3 DEF AllocState
  <2>6. /\ u.val = e.val /\ u.saved = [e.saved EXCEPT ![r] = b] /\ u.lru = e.lru
        /\ u.slot = e.slot /\ u.spill = e.spill /\ u.sc = e.sc /\ u.callee = e.callee
        /\ u.scratch = e.scratch /\ u.reg = e.reg /\ u.mem = e.mem
    BY <2>4 DEF AllocState
  <2>7. u \in AllocState
    BY <2>2, <2>4 DEF AllocState
  <2> HIDE DEF u
  <2>8. \A q \in Regs : e.val[q] \in D => u.saved[q] = e.saved[q]
    BY <2>4, <2>5, <2>6 DEF AllocState
  <2>9. Sound(u, D, L)
    BY <2>4, <2>6, <2>7, <2>8 DEF Sound, FrameSound, TableSound, ContentSound
  <2>10. Extends(s, u)
    BY <2>3, <2>6 DEF Extends
  <2> QED
    BY <2>1, <2>3, <2>5, <2>6, <2>9, <2>10
<1> QED
  BY <1>1, <1>2

\* saveUnsavedVariables: afterwards every variable is in its cell.
LEMMA SaveUnsavedSound ==
  ASSUME NEW s, NEW D, NEW L, Sound(s, D, L)
  PROVE  LET u == SaveUnsavedVariables(s)
         IN  /\ Sound(u, D, L) /\ Extends(s, u) /\ \A v \in D : Home(u, v)
             /\ u.sc = s.sc /\ u.slot = s.slot /\ u.val = s.val /\ u.lru = s.lru
             /\ u.reg = s.reg
<1> DEFINE u == SaveUnsavedVariables(s)
           U == Unsaved(s)
           At(c) == CHOOSE r \in U : s.slot[s.val[r]] = c
<1> USE ValuesAssumption, BoundsAssumption, RegistersAssumption DEF Values
<1>0. s \in AllocState /\ FrameSound(s) /\ TableSound(s) /\ ContentSound(s, D, L)
      /\ D \subseteq Named /\ L \subseteq Temp
  BY DEF Sound
<1>1. /\ u.val = s.val /\ u.lru = s.lru
      /\ u.saved = [r \in Regs |-> s.saved[r] \/ r \in U]
      /\ u.slot = s.slot /\ u.spill = s.spill /\ u.sc = s.sc /\ u.callee = s.callee
      /\ u.scratch = s.scratch /\ u.reg = s.reg
      /\ u.mem = [c \in Cells |-> IF \E r \in U : s.slot[s.val[r]] = c
                                  THEN s.reg[At(c)] ELSE s.mem[c]]
  BY <1>0 DEF AllocState, SaveUnsavedVariables
<1>2. \A r \in U : /\ r \in Regs /\ s.val[r] \in Named /\ ~s.saved[r]
                   /\ s.slot[s.val[r]] # NoSlot
  BY <1>0 DEF Unsaved, TableSound
<1>3. \A q, r \in U : s.slot[s.val[q]] = s.slot[s.val[r]] => q = r
  BY <1>0, <1>2 DEF FrameSound, TableSound
<1>4. ASSUME NEW c \in Cells PROVE u.mem[c] \in Content
  <2>1. CASE \E r \in U : s.slot[s.val[r]] = c
    <3>1. At(c) \in Regs
      BY <1>2, <2>1
    <3>2. s.reg[At(c)] \in Content
      BY <1>0, <3>1 DEF AllocState, Regs
    <3> QED
      BY <1>1, <2>1, <3>2
  <2>2. CASE ~\E r \in U : s.slot[s.val[r]] = c
    BY <1>0, <1>1, <2>2 DEF AllocState
  <2> QED
    BY <2>1, <2>2
<1>5. \A r \in U : u.mem[s.slot[s.val[r]]] = s.reg[r]
  <2> SUFFICES ASSUME NEW r \in U PROVE u.mem[s.slot[s.val[r]]] = s.reg[r]
    OBVIOUS
  <2> DEFINE c == s.slot[s.val[r]]
  <2>1. c \in Cells
    BY <1>0, <1>2 DEF AllocState
  <2>2. At(c) = r
    BY <1>3
  <2> HIDE DEF At
  <2> QED
    BY <1>1, <2>1, <2>2
<1>6. \A c \in Cells : (\A r \in U : s.slot[s.val[r]] # c) => u.mem[c] = s.mem[c]
  BY <1>1
<1>7. u \in AllocState
  <2>1. u.saved \in [Regs -> BOOLEAN] /\ u.mem \in [Cells -> Content]
    BY <1>0, <1>1, <1>4 DEF AllocState
  <2> QED
    BY <1>0, <1>1, <2>1 DEF AllocState, SaveUnsavedVariables
<1>8. /\ u.val = s.val /\ u.slot = s.slot /\ u.spill = s.spill /\ u.sc = s.sc
      /\ u.callee = s.callee /\ u.reg = s.reg /\ u.lru = s.lru
      /\ \A r \in Regs : u.saved[r] <=> s.saved[r] \/ r \in U
  BY <1>0, <1>1 DEF AllocState
<1> HIDE DEF u, U
<1>9. FrameSound(u)
  <2>1. u.mem[0] = FramePtr /\ u.mem[-1] = ReturnAddr
    <3>1. \A r \in U : s.slot[s.val[r]] # 0 /\ s.slot[s.val[r]] # -1
      BY <1>0, <1>2 DEF FrameSound, NoSlot
    <3> QED
      BY <1>0, <1>6, <3>1 DEF FrameSound, Cells
  <2> QED
    BY <1>0, <1>8, <2>1 DEF FrameSound
<1>10. TableSound(u)
  BY <1>0, <1>8 DEF TableSound
<1>11. ASSUME NEW v \in D PROVE Home(u, v)
  <2>1. v \in Named /\ s.slot[v] # NoSlot /\ s.slot[v] \in Cells
    BY <1>0 DEF ContentSound, AllocState
  <2>2. CASE \E r \in Regs : s.val[r] = v
    <3>1. PICK r \in Regs : s.val[r] = v
      BY <2>2
    <3>2. CASE r \in U
      BY <1>0, <1>5, <1>8, <2>1, <3>1, <3>2 DEF Home, ContentSound
    <3>3. CASE r \notin U
      <4>1. s.saved[r]
        BY <2>1, <3>1, <3>3 DEF Unsaved, U
      <4>2. s.mem[s.slot[v]] = v
        BY <1>0, <3>1, <4>1 DEF ContentSound
      <4>3. \A q \in U : s.slot[s.val[q]] # s.slot[v]
        BY <1>0, <1>2, <2>1, <3>1, <3>3 DEF FrameSound, TableSound
      <4> QED
        BY <1>6, <1>8, <2>1, <4>2, <4>3 DEF Home
    <3> QED
      BY <3>2, <3>3
  <2>3. CASE ~\E r \in Regs : s.val[r] = v
    <3>1. \A q \in U : s.slot[s.val[q]] # s.slot[v]
      BY <1>0, <1>2, <2>1, <2>3 DEF FrameSound
    <3>2. s.mem[s.slot[v]] = v
      BY <1>0, <2>3 DEF ContentSound
    <3> QED
      BY <1>6, <1>8, <2>1, <3>1, <3>2 DEF Home
  <2> QED
    BY <2>2, <2>3
<1>12. ContentSound(u, D, L)
  <2>1. \A c \in 1 .. MaxCell : u.spill[c] \in L => u.mem[c] = u.spill[c]
    <3> SUFFICES ASSUME NEW c \in 1 .. MaxCell, s.spill[c] \in L
                 PROVE  u.mem[c] = s.spill[c]
      BY <1>8
    <3>1. \A q \in U : s.slot[s.val[q]] # c
      BY <1>0, <1>2 DEF FrameSound, NoSlot
    <3>2. c \in Cells
      BY DEF Cells
    <3> QED
      BY <1>0, <1>6, <3>1, <3>2 DEF ContentSound
  <2>2. \A r \in Regs : u.val[r] \in D /\ u.saved[r] => u.mem[u.slot[u.val[r]]] = u.val[r]
    BY <1>11 DEF Home
  <2>3. \A v \in D : /\ u.slot[v] # NoSlot
                     /\ (\A r \in Regs : u.val[r] # v) => u.mem[u.slot[v]] = v
    BY <1>11 DEF Home
  <2> QED
    BY <1>0, <1>8, <2>1, <2>2, <2>3 DEF ContentSound
<1>13. Sound(u, D, L)
  BY <1>0, <1>7, <1>9, <1>10, <1>12 DEF Sound
<1> QED
  BY <1>0, <1>8, <1>11, <1>13 DEF Extends, FrameSound, u

\* The constructor of BlockContext may forget the registers: variables are home.
LEMMA FreshBlockSound ==
  ASSUME NEW s, NEW D, Sound(s, D, {}), \A v \in D : Home(s, v)
  PROVE  LET u == FreshBlock(s)
         IN  /\ Sound(u, D, {}) /\ Extends(s, u) /\ Touched(u) = {} /\ u.slot = s.slot
             /\ \A q \in Regs : u.lru[q] = 0
<1> DEFINE u == FreshBlock(s)
<1> USE ValuesAssumption, BoundsAssumption DEF Values
<1>0. s \in AllocState /\ FrameSound(s) /\ D \subseteq Named
  BY DEF Sound
<1>1. /\ u.val = [r \in Regs |-> NoVal] /\ u.saved = [r \in Regs |-> FALSE]
      /\ u.lru = [r \in Regs |-> 0]
      /\ u.slot = s.slot /\ u.spill = s.spill /\ u.sc = s.sc /\ u.callee = s.callee
      /\ u.scratch = s.scratch /\ u.mem = s.mem
      /\ u.reg = [r \in 0 .. NumRegs |-> IF r = 0 THEN ZeroConst ELSE Junk]
  BY <1>0 DEF AllocState, FreshBlock
<1>2. u \in AllocState
  <2>1. /\ u.val \in [Regs -> Values \cup {NoVal}] /\ u.saved \in [Regs -> BOOLEAN]
        /\ u.lru \in [Regs -> 0 .. MaxInstr] /\ u.reg \in [0 .. NumRegs -> Content]
    BY <1>1 DEF Content
  <2> QED
    BY <1>0, <1>1, <2>1 DEF AllocState, FreshBlock
<1> HIDE DEF u
<1>3. \A q \in Regs : u.val[q] = NoVal /\ u.lru[q] = 0
  BY <1>1
<1>4. u.reg[0] = ZeroConst
  BY <1>1, RegistersAssumption
<1>5. TableSound(u)
  <2>1. \A r \in CalleeSaved : r \in Regs
    BY RegistersAssumption DEF CalleeSaved, Regs
  <2> QED
    BY <1>3, <2>1 DEF TableSound
<1>6. ContentSound(u, D, {})
  BY <1>0, <1>1, <1>3, <1>4 DEF ContentSound, Home
<1>7. Sound(u, D, {})
  BY <1>0, <1>1, <1>2, <1>5, <1>6 DEF Sound, FrameSound
<1> QED
  BY <1>0, <1>1, <1>3, <1>7 DEF Extends, FrameSound, Touched, u

\* cleanspillTable: at the end of the block no temporary is needed any more.
LEMMA CleanSpillSound ==
  ASSUME NEW s, NEW D, NEW L, Sound(s, D, L)
  PROVE  LET u == CleanSpillTable(s)
         IN  /\ Sound(u, D, {}) /\ Extends(s, u) /\ u.slot = s.slot /\ u.mem = s.mem
             /\ u.lru = s.lru /\ u.val = s.val
<1> DEFINE u == CleanSpillTable(s)
<1> USE ValuesAssumption, BoundsAssumption DEF Values
<1>0. s \in AllocState /\ FrameSound(s) /\ TableSound(s) /\ ContentSound(s, D, L)
      /\ D \subseteq Named
  BY DEF Sound
<1>1. /\ u.val = s.val /\ u.saved = s.saved /\ u.lru = s.lru
      /\ u.slot = s.slot /\ u.sc = s.sc /\ u.callee = s.callee
      /\ u.scratch = s.scratch /\ u.reg = s.reg /\ u.mem = s.mem
      /\ u.spill = [c \in 1 .. MaxCell |->
                      IF s.spill[c] = NotSpill THEN NotSpill ELSE NoVal]
  BY <1>0 DEF AllocState, CleanSpillTable
<1>2. u \in AllocState
  BY <1>0, <1>1 DEF AllocState, CleanSpillTable
<1> HIDE DEF u
<1>3. /\ \A c \in 1 .. MaxCell : u.spill[c] = NotSpill <=> s.spill[c] = NotSpill
      /\ \A c \in 1 .. MaxCell : u.spill[c] \notin Temp
  BY <1>1
<1>4. FrameSound(u)
  <2>1. \A c \in 1 .. s.sc - 1 : c \in 1 .. MaxCell
    BY <1>0 DEF FrameSound
  <2> QED
    BY <1>0, <1>1, <1>3, <2>1 DEF FrameSound
<1>5. TableSound(u)
  BY <1>0, <1>1, <1>3 DEF TableSound
<1>6. ContentSound(u, D, {})
  BY <1>0, <1>1 DEF ContentSound
<1>7. Sound(u, D, {})
  BY <1>0, <1>2, <1>4, <1>5, <1>6 DEF Sound
<1> QED
  BY <1>0, <1>1, <1>3, <1>7 DEF Extends, FrameSound, u

-----------------------------------------------------------------------------
(***************************************************************************)
(* One instruction.  From the state s0 in which it starts, k allocations   *)
(* lead to s; T are the registers they have handed out.                    *)
(***************************************************************************)
Reached(s0, s, D, L, k, T) ==
  /\ Sound(s, D, L) /\ Extends(s0, s) /\ s.sc <= s0.sc + k /\ Touched(s) \subseteq T
  /\ \A q \in Regs : s.lru[q] <= s0.lru[q]
  /\ \A v \in D : Home(s0, v) => Home(s, v)

\* Register q was handed out for operand v and still contains it.
Carries(s, q, v) ==
  /\ q \in 0 .. NumRegs /\ s.reg[q] = v
  /\ IF v = ZeroConst THEN q = 0 ELSE q \in Touched(s) /\ s.val[q] = v

\* Four registers are more than the three that can be in use when another is needed.
LEMMA UntouchedExists ==
  ASSUME NEW s \in AllocState, NEW p, NEW q, NEW r, Touched(s) \subseteq {p, q, r}
  PROVE  SomeUntouched(s)
<1>1. 1 \in Regs /\ 2 \in Regs /\ 3 \in Regs /\ 4 \in Regs
  BY RegistersAssumption DEF Regs
<1>2. PICK x \in Regs : x # p /\ x # q /\ x # r
  BY <1>1
<1>3. x \notin Touched(s)
  BY <1>2
<1>4. s.lru[x] \in Nat
  BY BoundsAssumption DEF AllocState
<1> QED
  BY <1>3, <1>4 DEF Touched, SomeUntouched

\* Nothing has been allocated yet.
LEMMA ReachedStart ==
  ASSUME NEW s, NEW D, NEW L, Sound(s, D, L), Touched(s) = {}
  PROVE  Reached(s, s, D, L, 0, {})
<1>1. s \in AllocState /\ s.sc \in Nat
  BY DEF Sound, AllocState
<1>2. \A q \in Regs : s.lru[q] \in Nat
  BY <1>1, BoundsAssumption DEF AllocState
<1> QED
  BY <1>1, <1>2 DEF Reached, Extends

\* Fetching an operand, with the operands fetched before it.
LEMMA Fetch ==
  ASSUME NEW s0, NEW s, NEW D, NEW L, NEW k \in 0 .. 3, NEW T, Reached(s0, s, D, L, k, T),
         s0 \in AllocState, s0.sc + 4 <= MaxCell + 1, SomeUntouched(s),
         NEW v \in D \cup L \cup Const \cup {ZeroConst}
  PROVE  LET g == GetRegister(s, v, TRUE)
         IN  /\ Reached(s0, g.st, D, L, k + 1, T \cup {g.reg})
             /\ Carries(g.st, g.reg, v)
             /\ \A q, x : Carries(s, q, x) => Carries(g.st, q, x)
             /\ \A t \in Temp : Absent(s, t) => Absent(g.st, t)
<1> DEFINE g == GetRegister(s, v, TRUE)
<1> USE ValuesAssumption, RegistersAssumption DEF Values
<1>0. /\ Sound(s, D, L) /\ D \subseteq Named /\ L \subseteq Temp /\ Extends(s0, s)
      /\ s.sc <= s0.sc + k /\ s.sc \in Nat /\ s \in AllocState /\ s0.sc \in Nat
  BY DEF Reached, Sound, AllocState
<1>1. s.sc <= MaxCell /\ MaxCell \in Nat
  BY <1>0, BoundsAssumption
<1>2. v \in Values \cup {ZeroConst} /\ (v \in Named => s.slot[v] # NoSlot)
  BY <1>0 DEF Sound, ContentSound
<1>3. /\ Sound(g.st, D, L) /\ Extends(s, g.st) /\ g.st.sc <= s.sc + 1
      /\ g.reg \in 0 .. NumRegs
      /\ v # ZeroConst => g.reg \in Regs /\ g.st.val[g.reg] = v
      /\ g.st.reg[g.reg] = v
      /\ \A q \in 0 .. NumRegs : q # g.reg => g.st.reg[q] = s.reg[q]
      /\ Touched(g.st) \subseteq Touched(s) \cup {g.reg}
      /\ g.reg \in Regs => g.reg \in Touched(g.st)
      /\ \A q \in Touched(s) : /\ g.st.val[q] = s.val[q] /\ q \in Touched(g.st)
                               /\ g.st.reg[q] = s.reg[q]
      /\ \A q \in Regs : g.st.lru[q] <= s.lru[q]
      /\ g.st.slot = s.slot /\ \A x \in D : Home(s, x) => Home(g.st, x)
      /\ \A t \in Temp : t # v /\ Absent(s, t) => Absent(g.st, t)
  <2>0. PICK load \in BOOLEAN : load = TRUE
    OBVIOUS
  <2> DEFINE h == GetRegister(s, v, load)
  <2>1. load /\ g = h
    BY <2>0
  <2> HIDE DEF g
  <2>2. Got(s, D, IF load THEN D ELSE D \ {v}, L, v, load, h)
    <3>1. /\ Sound(s, D, L) /\ s.sc <= MaxCell /\ v \in Values \cup {ZeroConst}
          /\ (v \in Named => s.slot[v] # NoSlot)
          /\ (load => v \in D \cup L \cup Const \cup {ZeroConst})
          /\ (~load => v \in Named \/ (v \in Temp /\ Absent(s, v)))
      BY <1>0, <1>1, <1>2, <2>1
    <3> QED
      BY <3>1, GetRegisterSound
  <2> HIDE DEF h
  <2> QED
    BY <2>1, <2>2 DEF Got
<1>4. v = ZeroConst => g.reg = 0
  BY DEF GetRegister, MapItem
<1> HIDE DEF g
<1>5. \A t \in Temp : Absent(s, t) => Absent(g.st, t)
  <2>1. \A t \in Temp : Absent(s, t) => t # v
    BY <1>0 DEF Sound, ContentSound, Absent
  <2> QED
    BY <1>3, <2>1
<1>6. g.st.reg[0] = ZeroConst /\ s.reg[0] = ZeroConst
  BY <1>0, <1>3 DEF Sound, ContentSound
<1>7. \A q, x : Carries(s, q, x) => Carries(g.st, q, x)
  BY <1>3, <1>6 DEF Carries
<1>8. Carries(g.st, g.reg, v)
  BY <1>3, <1>4 DEF Carries
<1>9. g.st.sc <= s0.sc + (k + 1)
  <2>1. g.st.sc \in Nat
    BY <1>3 DEF Sound, AllocState
  <2> QED
    BY <1>0, <1>3, <2>1
<1>10. \A q \in Regs : g.st.lru[q] <= s0.lru[q]
  <2>1. \A q \in Regs : /\ g.st.lru[q] \in Nat /\ s.lru[q] \in Nat
                         /\ s0.lru[q] \in Nat /\ s.lru[q] <= s0.lru[q]
    BY <1>0, <1>3, BoundsAssumption DEF Sound, AllocState, Reached
  <2>2. \A q \in Regs : g.st.lru[q] <= s.lru[q]
    BY <1>3
  <2> QED
    BY <2>1, <2>2
<1>11. Touched(g.st) \subseteq T \cup {g.reg} /\ \A x \in D : Home(s0, x) => Home(g.st, x)
  BY <1>3 DEF Reached
<1>12. Extends(s0, g.st)
  <2>1. /\ Extends(s, g.st) /\ g.st.sc \in Nat
    BY <1>3 DEF Sound, AllocState
  <2> QED
    BY <1>0, <2>1 DEF Extends
<1>13. Reached(s0, g.st, D, L, k + 1, T \cup {g.reg})
  BY <1>3, <1>5, <1>9, <1>10, <1>11, <1>12 DEF Reached
<1> QED
  BY <1>5, <1>7, <1>8, <1>13 DEF g

\* Obtaining the register of the result; its old value need not be found any more.
LEMMA Target ==
  ASSUME NEW s0, NEW s, NEW D, NEW L, NEW k \in 0 .. 3, NEW T, Reached(s0, s, D, L, k, T),
         s0 \in AllocState, s0.sc + 4 <= MaxCell + 1, SomeUntouched(s),
         NEW d, \/ d \in Named /\ s0.slot[d] # NoSlot
                \/ d \in Temp /\ Absent(s, d)
  PROVE  LET g == GetRegister(s, d, FALSE)
         IN  /\ Reached(s0, g.st, D \ {d}, L, k + 1, T \cup {g.reg})
             /\ g.reg \in Touched(g.st) /\ g.st.val[g.reg] = d /\ d \notin L
             /\ g.reg \in Regs
             /\ \A q, x : Carries(s, q, x) => Carries(g.st, q, x)
<1> DEFINE g == GetRegister(s, d, FALSE)
           E == D \ {d}
<1> USE ValuesAssumption, RegistersAssumption DEF Values
<1>0. /\ Sound(s, D, L) /\ D \subseteq Named /\ L \subseteq Temp /\ Extends(s0, s)
      /\ s.sc <= s0.sc + k /\ s.sc \in Nat /\ s \in AllocState /\ s0.sc \in Nat
  BY DEF Reached, Sound, AllocState
<1>1. s.sc <= MaxCell /\ MaxCell \in Nat
  BY <1>0, BoundsAssumption
<1>2. /\ d \in Values /\ d # ZeroConst /\ d \notin L
      /\ d \in Named => s.slot[d] # NoSlot
      /\ d \in Temp => Absent(s, d)
  <2>1. CASE d \in Named /\ s0.slot[d] # NoSlot
    BY <1>0, <2>1 DEF Extends
  <2>2. CASE d \in Temp /\ Absent(s, d)
    BY <1>0, <2>2 DEF Sound, ContentSound, Absent
  <2> QED
    BY <2>1, <2>2
<1>3. Got(s, D, E, L, d, FALSE, g)
  <2>0. PICK load \in BOOLEAN : load = FALSE
    OBVIOUS
  <2> DEFINE h == GetRegister(s, d, load)
  <2>1. ~load /\ g = h
    BY <2>0
  <2> HIDE DEF g, E
  <2>2. Got(s, D, IF load THEN D ELSE D \ {d}, L, d, load, h)
    <3>1. /\ Sound(s, D, L) /\ s.sc <= MaxCell /\ d \in Values \cup {ZeroConst}
          /\ (d \in Named => s.slot[d] # NoSlot)
          /\ (load => d \in D \cup L \cup Const \cup {ZeroConst})
          /\ (~load => d \in Named \/ (d \in Temp /\ Absent(s, d)))
      BY <1>0, <1>1, <1>2, <2>1
    <3> HIDE DEF Values
    <3> QED
      BY <3>1, GetRegisterSound
  <2> HIDE DEF h
  <2> QED
    BY <2>0, <2>1, <2>2 DEF Got, E
<1> HIDE DEF g, E
<1>4. /\ Sound(g.st, E, L) /\ Extends(s, g.st) /\ g.st.sc <= s.sc + 1
      /\ g.reg \in Regs /\ g.reg \in Touched(g.st) /\ g.st.val[g.reg] = d
      /\ \A q \in 0 .. NumRegs : q # g.reg => g.st.reg[q] = s.reg[q]
      /\ Touched(g.st) \subseteq Touched(s) \cup {g.reg}
      /\ \A q \in Touched(s) : /\ g.st.val[q] = s.val[q] /\ q \in Touched(g.st)
                               /\ g.st.reg[q] = s.reg[q]
      /\ \A q \in Regs : g.st.lru[q] <= s.lru[q]
      /\ g.st.slot = s.slot /\ \A x \in D : Home(s, x) => Home(g.st, x)
      /\ \A t \in Temp : t # d /\ Absent(s, t) => Absent(g.st, t)
  BY <1>2, <1>3 DEF Got
<1>5. g.st.reg[0] = ZeroConst /\ s.reg[0] = ZeroConst
  BY <1>0, <1>4 DEF Sound, ContentSound
<1>6. \A q, x : Carries(s, q, x) => Carries(g.st, q, x)
  BY <1>4, <1>5 DEF Carries
<1>7. g.st.sc <= s0.sc + (k + 1) /\ Extends(s0, g.st)
  <2>1. g.st.sc \in Nat
    BY <1>4 DEF Sound, AllocState
  <2> QED
    BY <1>0, <1>4, <2>1 DEF Extends
<1>8. \A q \in Regs : g.st.lru[q] <= s0.lru[q]
  <2>1. \A q \in Regs : /\ g.st.lru[q] \in Nat /\ s.lru[q] \in Nat
                         /\ s0.lru[q] \in Nat /\ s.lru[q] <= s0.lru[q]
    BY <1>0, <1>4, BoundsAssumption DEF Sound, AllocState, Reached
  <2>2. \A q \in Regs : g.st.lru[q] <= s.lru[q]
    BY <1>4
  <2> QED
    BY <2>1, <2>2
<1>9. Touched(g.st) \subseteq T \cup {g.reg} /\ \A x \in E : Home(s0, x) => Home(g.st, x)
  BY <1>4 DEF Reached, E
<1>10. Reached(s0, g.st, E, L, k + 1, T \cup {g.reg})
  BY <1>4, <1>7, <1>8, <1>9 DEF Reached
<1> QED
  BY <1>2, <1>4, <1>6, <1>10 DEF g, E

\* Obtaining a scratch register, with registers in use.
LEMMA Scratch ==
  ASSUME NEW s0, NEW s, NEW D, NEW L, NEW k \in 0 .. 3, NEW T, Reached(s0, s, D, L, k, T),
         s0 \in AllocState, s0.sc + 4 <= MaxCell + 1, SomeUntouched(s)
  PROVE  LET g == GetFreeRegister(s)
         IN  /\ Sound(g.st, D, L) /\ Extends(s0, g.st)
             /\ g.reg \in Regs /\ g.st.val[g.reg] = NoVal
             /\ \A q \in Regs : g.st.lru[q] <= s0.lru[q]
             /\ \A q \in Touched(s) : g.st.val[q] = s.val[q]
             /\ \A q, x : x \in Values \cup {ZeroConst} /\ Carries(s, q, x)
                            => Carries(g.st, q, x)
<1> DEFINE g == GetFreeRegister(s)
<1> USE ValuesAssumption, BoundsAssumption DEF Values
<1>0. /\ Sound(s, D, L) /\ Extends(s0, s) /\ s.sc <= s0.sc + k
      /\ s.sc \in Nat /\ s0.sc \in Nat /\ s.sc <= MaxCell
  BY DEF Reached, Sound, AllocState
<1>1. /\ Sound(g.st, D, L) /\ Extends(s, g.st) /\ g.st.sc <= s.sc + 1
      /\ g.reg \in Regs /\ g.st.val[g.reg] = NoVal
      /\ g.st.reg = s.reg /\ g.st.lru = s.lru
      /\ \A q \in Touched(s) : g.st.val[q] = s.val[q]
  BY <1>0, GetFreeRegisterSound
<1> HIDE DEF g
<1>2. Extends(s0, g.st)
  <2>1. g.st.sc \in Nat
    BY <1>1 DEF Sound, AllocState
  <2> QED
    BY <1>0, <1>1, <2>1 DEF Extends
<1>3. \A q \in Regs : g.st.lru[q] <= s0.lru[q]
  BY <1>1 DEF Reached
<1>4. \A q, x : x \in Values \cup {ZeroConst} /\ Carries(s, q, x) => Carries(g.st, q, x)
  BY <1>1 DEF Carries, Touched
<1> QED
  BY <1>1, <1>2, <1>3, <1>4 DEF g

\* The instruction has its registers; its result is about to arrive in r.
Pending(s0, s, D, L, r, d) ==
  /\ D \subseteq Named /\ d \in Named \cup Temp /\ d \notin L
  /\ Sound(s, D \ {d}, L) /\ Extends(s0, s) /\ \A q \in Regs : s.lru[q] <= s0.lru[q]
  /\ r \in Regs /\ s.val[r] = d /\ ~s.saved[r]

\* The result register is marked changed: its cell is stale from now on.
LEMMA PendingStart ==
  ASSUME NEW s0, NEW s, NEW D, NEW L, NEW r, NEW d, s0 \in AllocState,
         D \subseteq Named, d \in Named \cup Temp, d \notin L,
         Sound(s, D \ {d}, L), Extends(s0, s), \A q \in Regs : s.lru[q] <= s0.lru[q],
         r \in Regs, s.val[r] = d
  PROVE  /\ Pending(s0, MarkChanged(s, r), D, L, r, d)
         /\ MarkChanged(s, r).reg = s.reg /\ MarkChanged(s, r).val = s.val
<1> DEFINE u == MarkChanged(s, r)
<1>1. /\ Sound(u, D \ {d}, L) /\ Extends(s, u) /\ ~u.saved[r]
      /\ u.val = s.val /\ u.lru = s.lru /\ u.reg = s.reg
  BY MarkChangedSound
<1> HIDE DEF u
<1>2. Extends(s0, u)
  <2>1. u.sc \in Nat /\ s.sc \in Nat /\ s0.sc \in Nat
    BY <1>1 DEF Sound, AllocState
  <2> QED
    BY <1>1, <2>1 DEF Extends
<1> QED
  BY <1>1, <1>2 DEF Pending, u

\* An operand is marked used; the result register is not affected.
LEMMA PendingUsed ==
  ASSUME NEW s0, NEW s, NEW D, NEW L, NEW r, NEW d, NEW o, s0 \in AllocState,
         Pending(s0, s, D, L, r, d), o # d \/ o \notin Temp
  PROVE  LET u == MarkUsed(s, o)
         IN  Pending(s0, u, D, L \ {o}, r, d) /\ u.reg = s.reg
<1> DEFINE u == MarkUsed(s, o)
<1>1. /\ Sound(u, D \ {d}, L \ {o}) /\ Extends(s, u) /\ u.saved = s.saved
      /\ u.reg = s.reg /\ u.lru = s.lru
      /\ \A q \in Regs : s.val[q] # o \/ o \notin Temp => u.val[q] = s.val[q]
      /\ \A q \in Regs : s.val[q] = NoVal => u.val[q] = NoVal
  BY MarkUsedSound DEF Pending
<1> HIDE DEF u
<1>2. Extends(s0, u)
  <2>1. u.sc \in Nat /\ s.sc \in Nat /\ s0.sc \in Nat
    BY <1>1 DEF Sound, AllocState, Pending
  <2> QED
    BY <1>1, <2>1 DEF Extends, Pending
<1> QED
  BY <1>1, <1>2 DEF Pending, u

\* A scratch register is written.
LEMMA PendingClobber ==
  ASSUME NEW s0, NEW s, NEW D, NEW L, NEW r, NEW d, s0 \in AllocState,
         Pending(s0, s, D, L, r, d), NEW t \in Regs, s.val[t] = NoVal
  PROVE  Pending(s0, Clobber(s, {t}), D, L, r, d)
<1> DEFINE u == Clobber(s, {t})
<1>1. /\ Sound(u, D \ {d}, L) /\ Extends(s, u) /\ u.saved = s.saved
      /\ u.val = s.val /\ u.lru = s.lru
  <2>1. Sound(s, D \ {d}, L) /\ {t} \in SUBSET Regs /\ \A q \in {t} : s.val[q] = NoVal
    BY DEF Pending
  <2> QED
    BY <2>1, ClobberSound
<1> HIDE DEF u
<1>2. Extends(s0, u)
  <2>1. u.sc \in Nat /\ s.sc \in Nat /\ s0.sc \in Nat
    BY <1>1 DEF Sound, AllocState, Pending
  <2> QED
    BY <1>1, <2>1 DEF Extends, Pending
<1> QED
  BY <1>1, <1>2 DEF Pending, u

\* The state an instruction leaves behind, relative to the one it started in.
Finished(s0, s, D, L) ==
  /\ Sound(s, D, L) /\ Extends(s0, s) /\ Touched(s) = {}
  /\ \A q \in Regs : s.lru[q] <= s0.lru[q] + 1

\* The result arrives, and the instruction is over.
LEMMA PendingEnd ==
  ASSUME NEW s0, NEW s, NEW D, NEW L, NEW r, NEW d, s0 \in AllocState,
         Pending(s0, s, D, L, r, d), \A q \in Regs : s0.lru[q] < MaxInstr
  PROVE  Finished(s0, UpdateLRU(Define(s, r, d)),
                  D \cup ({d} \cap Named), L \cup ({d} \cap Temp))
<1> DEFINE e == Define(s, r, d)
           u == UpdateLRU(e)
           D2 == D \cup ({d} \cap Named)
           L2 == L \cup ({d} \cap Temp)
<1>1. Sound(e, D2, L2) /\ Extends(s, e) /\ e.lru = s.lru
  <2>1. /\ d \in Named \cup Temp /\ D \subseteq Named /\ d \notin L
        /\ Sound(s, D \ {d}, L) /\ r \in Regs /\ s.val[r] = d /\ ~s.saved[r]
    BY DEF Pending
  <2>2. Arrived(s, e, D, L, d)
    BY <2>1, DefineSound
  <2> QED
    BY <2>2 DEF Arrived
<1> HIDE DEF e, D2, L2
<1>2. \A q \in Regs : s.lru[q] \in Nat /\ s0.lru[q] \in Nat /\ s.lru[q] <= s0.lru[q]
  BY BoundsAssumption DEF Sound, AllocState, Pending
<1>3. \A q \in Regs : e.lru[q] < MaxInstr
  BY <1>1, <1>2, BoundsAssumption
<1>4. /\ Sound(u, D2, L2) /\ Extends(e, u) /\ Touched(u) = {}
      /\ \A q \in Regs : u.lru[q] = e.lru[q] + 1
  BY <1>1, <1>3, UpdateLRUSound
<1> HIDE DEF u
<1>5. Extends(s0, u)
  <2>1. u.sc \in Nat /\ e.sc \in Nat /\ s.sc \in Nat /\ s0.sc \in Nat
    BY <1>1, <1>4 DEF Sound, AllocState, Pending
  <2> QED
    BY <1>1, <1>4, <2>1 DEF Extends, Pending
<1>6. \A q \in Regs : u.lru[q] <= s0.lru[q] + 1
  BY <1>1, <1>2, <1>4
<1> QED
  BY <1>4, <1>5, <1>6 DEF Finished, u, e, D2, L2

\* An instruction without a result is over.
LEMMA FinishSound ==
  ASSUME NEW s0, NEW s, NEW D, NEW L, s0 \in AllocState, Sound(s, D, L), Extends(s0, s),
         \A q \in Regs : s.lru[q] <= s0.lru[q], \A q \in Regs : s0.lru[q] < MaxInstr
  PROVE  /\ Finished(s0, UpdateLRU(s), D, L)
         /\ \A v \in D : Home(s, v) => Home(UpdateLRU(s), v)
<1> DEFINE u == UpdateLRU(s)
<1>1. \A q \in Regs : s.lru[q] \in Nat /\ s0.lru[q] \in Nat /\ s.lru[q] <= s0.lru[q]
  BY BoundsAssumption DEF Sound, AllocState
<1>2. \A q \in Regs : s.lru[q] < MaxInstr
  BY <1>1, BoundsAssumption
<1>3. /\ Sound(u, D, L) /\ Extends(s, u) /\ Touched(u) = {}
      /\ u.slot = s.slot /\ u.mem = s.mem
      /\ \A q \in Regs : u.lru[q] = s.lru[q] + 1
  BY <1>2, UpdateLRUSound
<1> HIDE DEF u
<1>4. Extends(s0, u)
  <2>1. u.sc \in Nat /\ s.sc \in Nat /\ s0.sc \in Nat
    BY <1>3 DEF Sound, AllocState
  <2> QED
    BY <1>3, <2>1 DEF Extends
<1>5. \A q \in Regs : u.lru[q] <= s0.lru[q] + 1
  BY <1>1, <1>3
<1> QED
  BY <1>3, <1>4, <1>5 DEF Finished, Home, u

-----------------------------------------------------------------------------
(* Up to three operands, then a result *)

\* An instruction may start: nothing is touched, and the frame has room.
Ready(s, D, L) ==
  s \in AllocState /\ Sound(s, D, L) /\ Touched(s) = {} /\ s.sc + 4 <= MaxCell + 1

KeepsAbsent(s0, s) == \A t \in Temp : Absent(s0, t) => Absent(s, t)

After1(s0, s, D, L, r1, o1) ==
  /\ Reached(s0, s, D, L, 1, {r1}) /\ KeepsAbsent(s0, s)
  /\ Carries(s, r1, o1)

After2(s0, s, D, L, r1, o1, r2, o2) ==
  /\ Reached(s0, s, D, L, 2, {r1, r2}) /\ KeepsAbsent(s0, s)
  /\ Carries(s, r1, o1) /\ Carries(s, r2, o2)

After3(s0, s, D, L, r1, o1, r2, o2, r3, o3) ==
  /\ Reached(s0, s, D, L, 3, {r1, r2, r3}) /\ KeepsAbsent(s0, s)
  /\ Carries(s, r1, o1) /\ Carries(s, r2, o2) /\ Carries(s, r3, o3)

\* The first operand is in its register.
LEMMA FetchOne ==
  ASSUME NEW s, NEW D, NEW L, Ready(s, D, L),
         NEW o1 \in D \cup L \cup Const \cup {ZeroConst}
  PROVE  LET a == GetRegister(s, o1, TRUE) IN After1(s, a.st, D, L, a.reg, o1)
<1> DEFINE a == GetRegister(s, o1, TRUE)
<1>1. Reached(s, s, D, L, 0, {}) /\ s \in AllocState /\ s.sc + 4 <= MaxCell + 1
  BY ReachedStart DEF Ready
<1>2. SomeUntouched(s)
  BY <1>1, UntouchedExists DEF Ready
<1>3. /\ Reached(s, a.st, D, L, 0 + 1, {} \cup {a.reg}) /\ Carries(a.st, a.reg, o1)
      /\ \A t \in Temp : Absent(s, t) => Absent(a.st, t)
  <2>1. 0 \in 0 .. 3
    OBVIOUS
  <2> QED
    BY <1>1, <1>2, <2>1, Fetch
<1> HIDE DEF a
<1>4. {} \cup {a.reg} = {a.reg} /\ 0 + 1 = 1
  OBVIOUS
<1> QED
  BY <1>3, <1>4 DEF After1, KeepsAbsent, a

\* The second operand is in its register, and the first still is.
LEMMA FetchTwo ==
  ASSUME NEW s0, NEW s, NEW D, NEW L, NEW r1, NEW o1, Ready(s0, D, L),
         After1(s0, s, D, L, r1, o1), NEW o2 \in D \cup L \cup Const \cup {ZeroConst}
  PROVE  LET a == GetRegister(s, o2, TRUE)
         IN  After2(s0, a.st, D, L, r1, o1, a.reg, o2)
<1> DEFINE a == GetRegister(s, o2, TRUE)
<1>1. /\ Reached(s0, s, D, L, 1, {r1}) /\ s0 \in AllocState /\ s0.sc + 4 <= MaxCell + 1
      /\ s \in AllocState /\ Touched(s) \subseteq {r1, r1, r1}
  BY DEF After1, Ready, Reached, Sound
<1>2. SomeUntouched(s)
  BY <1>1, UntouchedExists
<1>3. /\ Reached(s0, a.st, D, L, 1 + 1, {r1} \cup {a.reg}) /\ Carries(a.st, a.reg, o2)
      /\ \A q, x : Carries(s, q, x) => Carries(a.st, q, x)
      /\ \A t \in Temp : Absent(s, t) => Absent(a.st, t)
  <2>1. 1 \in 0 .. 3
    OBVIOUS
  <2> QED
    BY <1>1, <1>2, <2>1, Fetch
<1> HIDE DEF a
<1>4. {r1} \cup {a.reg} = {r1, a.reg} /\ 1 + 1 = 2
  OBVIOUS
<1> QED
  BY <1>3, <1>4 DEF After1, After2, KeepsAbsent, a

\* The third operand is in its register, and the others still are.
LEMMA FetchThree ==
  ASSUME NEW s0, NEW s, NEW D, NEW L, NEW r1, NEW o1, NEW r2, NEW o2, Ready(s0, D, L),
         After2(s0, s, D, L, r1, o1, r2, o2), NEW o3 \in D \cup L \cup Const \cup {ZeroConst}
  PROVE  LET a == GetRegister(s, o3, TRUE)
         IN  After3(s0, a.st, D, L, r1, o1, r2, o2, a.reg, o3)
<1> DEFINE a == GetRegister(s, o3, TRUE)
<1>1. /\ Reached(s0, s, D, L, 2, {r1, r2}) /\ s0 \in AllocState
      /\ s0.sc + 4 <= MaxCell + 1
      /\ s \in AllocState /\ Touched(s) \subseteq {r1, r2, r2}
  BY DEF After2, Ready, Reached, Sound
<1>2. SomeUntouched(s)
  BY <1>1, UntouchedExists
<1>3. /\ Reached(s0, a.st, D, L, 2 + 1, {r1, r2} \cup {a.reg}) /\ Carries(a.st, a.reg, o3)
      /\ \A q, x : Carries(s, q, x) => Carries(a.st, q, x)
      /\ \A t \in Temp : Absent(s, t) => Absent(a.st, t)
  <2>1. 2 \in 0 .. 3
    OBVIOUS
  <2> QED
    BY <1>1, <1>2, <2>1, Fetch
<1> HIDE DEF a
<1>4. {r1, r2} \cup {a.reg} = {r1, r2, a.reg} /\ 2 + 1 = 3
  OBVIOUS
<1> QED
  BY <1>3, <1>4 DEF After2, After3, KeepsAbsent, a

\* The result has a register, marked changed, and every operand fetched before it
\* is still in its own.
LEMMA ResultRegister ==
  ASSUME NEW s0, NEW s, NEW D, NEW L, NEW k \in 0 .. 3, NEW T, SomeUntouched(s),
         Ready(s0, D, L), Reached(s0, s, D, L, k, T),
         NEW d, \/ d \in Named /\ s0.slot[d] # NoSlot
                \/ d \in Temp /\ Absent(s, d)
  PROVE  LET g == GetRegister(s, d, FALSE)
             u == MarkChanged(g.st, g.reg)
         IN  /\ Pending(s0, u, D, L, g.reg, d)
             /\ Reached(s0, g.st, D \ {d}, L, k + 1, T \cup {g.reg})
             /\ u.reg = g.st.reg /\ u.val = g.st.val /\ g.reg \in Touched(g.st)
             /\ \A i, x : Carries(s, i, x) => Carries(g.st, i, x)
<1> DEFINE g == GetRegister(s, d, FALSE)
<1>1. /\ s0 \in AllocState /\ s0.sc + 4 <= MaxCell + 1 /\ D \subseteq Named
  BY DEF Ready, Reached, Sound
<1>3. /\ Reached(s0, g.st, D \ {d}, L, k + 1, T \cup {g.reg})
      /\ g.reg \in Touched(g.st) /\ g.st.val[g.reg] = d /\ d \notin L /\ g.reg \in Regs
      /\ \A i, x : Carries(s, i, x) => Carries(g.st, i, x)
  BY <1>1, Target, ZenonT(30)
<1> HIDE DEF g
<1>4. /\ Sound(g.st, D \ {d}, L) /\ Extends(s0, g.st)
      /\ \A i \in Regs : g.st.lru[i] <= s0.lru[i]
  BY <1>3 DEF Reached
<1>5. d \in Named \cup Temp
  OBVIOUS
<1>6. Pending(s0, MarkChanged(g.st, g.reg), D, L, g.reg, d)
  BY <1>1, <1>3, <1>4, <1>5, PendingStart
<1>7. MarkChanged(g.st, g.reg).reg = g.st.reg /\ MarkChanged(g.st, g.reg).val = g.st.val
  BY <1>3, <1>4, MarkChangedSound
<1> QED
  BY <1>3, <1>6, <1>7 DEF g

-----------------------------------------------------------------------------
(* One register at a time, whatever has been touched before *)

\* An operand is fetched; the others need not be kept.
LEMMA GetOperand ==
  ASSUME NEW s, NEW D, NEW L, Sound(s, D, L), s.sc <= MaxCell,
         NEW o \in D \cup L \cup Const \cup {ZeroConst}
  PROVE  LET g == GetRegister(s, o, TRUE)
         IN  /\ Sound(g.st, D, L) /\ Extends(s, g.st) /\ g.st.reg[g.reg] = o
             /\ \A q \in Regs : g.st.lru[q] <= s.lru[q]
             /\ \A x \in D : Home(s, x) => Home(g.st, x)
<1>1. PICK load \in BOOLEAN : load = TRUE
  OBVIOUS
<1> DEFINE g == GetRegister(s, o, load)
<1>2. /\ o \in Values \cup {ZeroConst} /\ (o \in Named => s.slot[o] # NoSlot)
      /\ (load => o \in D \cup L \cup Const \cup {ZeroConst})
      /\ (~load => o \in Named \/ (o \in Temp /\ Absent(s, o)))
  BY <1>1, ValuesAssumption DEF Sound, ContentSound, Values
<1>3. Got(s, D, IF load THEN D ELSE D \ {o}, L, o, load, g)
  BY <1>2, GetRegisterSound
<1> HIDE DEF g
<1>4. /\ Sound(g.st, D, L) /\ Extends(s, g.st) /\ g.st.reg[g.reg] = o
      /\ \A q \in Regs : g.st.lru[q] <= s.lru[q]
      /\ \A x \in D : Home(s, x) => Home(g.st, x)
  BY <1>1, <1>3 DEF Got
<1> QED
  BY <1>1, <1>4 DEF g

\* A register for a result is found and marked changed.
LEMMA GetResult ==
  ASSUME NEW s0, NEW s, NEW D, NEW L, NEW d \in Temp, s0 \in AllocState,
         Sound(s, D, L), Extends(s0, s), s.lru = s0.lru, s.sc <= MaxCell, Absent(s, d)
  PROVE  LET g == GetRegister(s, d, FALSE)
         IN  Pending(s0, MarkChanged(g.st, g.reg), D, L, g.reg, d)
<1>1. PICK load \in BOOLEAN : load = FALSE
  OBVIOUS
<1> DEFINE g == GetRegister(s, d, load)
<1>0. s \in AllocState /\ D \subseteq Named
  BY DEF Sound
<1>2. /\ d \in Values \cup {ZeroConst} /\ (d \in Named => s.slot[d] # NoSlot)
      /\ (load => d \in D \cup L \cup Const \cup {ZeroConst})
      /\ (~load => d \in Named \/ (d \in Temp /\ Absent(s, d)))
  BY <1>1, ValuesAssumption DEF Values
<1>3. Got(s, D, IF load THEN D ELSE D \ {d}, L, d, load, g)
  BY <1>2, GetRegisterSound
<1> HIDE DEF g
<1>4. /\ Sound(g.st, D \ {d}, L) /\ Extends(s, g.st)
      /\ g.reg \in Regs /\ g.st.val[g.reg] = d
      /\ \A q \in Regs : g.st.lru[q] <= s.lru[q]
  BY <1>1, <1>3, ValuesAssumption DEF Got, Values
<1>5. d \notin L /\ d \in Named \cup Temp
  BY DEF Sound, ContentSound, Absent
<1>6. Extends(s0, g.st)
  <2>1. g.st.sc \in Nat /\ s.sc \in Nat /\ s0.sc \in Nat
    BY <1>4 DEF Sound, AllocState
  <2> QED
    BY <1>4, <2>1 DEF Extends
<1>7. \A q \in Regs : g.st.lru[q] <= s0.lru[q]
  BY <1>4
<1>8. Pending(s0, MarkChanged(g.st, g.reg), D, L, g.reg, d)
  BY <1>0, <1>4, <1>5, <1>6, <1>7, PendingStart
<1> QED
  BY <1>1, <1>8 DEF g

\* Extending twice is extending.
LEMMA ExtendsTrans ==
  ASSUME NEW s \in AllocState, NEW e \in AllocState, NEW u \in AllocState,
         Extends(s, e), Extends(e, u)
  PROVE  Extends(s, u)
BY DEF Extends, AllocState
=============================================================================
