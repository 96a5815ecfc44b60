-------------------------- MODULE CallFrame_proofs --------------------------
(***************************************************************************)
(* The emitted program implements Activations.  With the variables that    *)
(* are in registers put back into their cells (Stored) it is the program   *)
(* of HomeFrame, of which HomeFrameRefinement_proofs shows this: what is   *)
(* left is that a register holds its variable until it is stored, through  *)
(* all the calls that save the register, until a scratch register is one   *)
(* of a caller's.                                                          *)
(***************************************************************************)
EXTENDS CallFrame, SequenceTheorems, TLAPS

\* What has been proved of the program with all variables in their cells.
P == INSTANCE HomeFrameRefinement_proofs WITH mem <- Stored

\* It is about the same compiled program.
LEMMA Assumptions == P!FunctionsAssumption /\ P!SitesAssumption /\ P!MemoryAssumption
BY FunctionsAssumption, SitesAssumption, MemoryAssumption
   DEF P!FunctionsAssumption, P!SitesAssumption, P!MemoryAssumption

\* And about the same memory layout.
LEMMA SameLayout ==
  /\ \A f : P!InRegisters(f) = InRegisters(f) /\ P!Slots(f) = Slots(f)
  /\ \A f : P!RequiredSize(f) = RequiredSize(f)
  /\ \A f, i, frame : P!Cell(f, i, frame) = Cell(f, i, frame)
  /\ \A f, n, frame : P!SaveCell(f, n, frame) = SaveCell(f, n, frame)
  /\ \A f, kind : P!Variables(f, kind) = Variables(f, kind)
  /\ P!Base = Base /\ P!Clobbered = Clobbered /\ P!Idle = Idle
<1>1. \A f : P!InRegisters(f) = InRegisters(f)
  BY DEF P!InRegisters, InRegisters
<1>2. \A f : P!Slots(f) = Slots(f) /\ P!RequiredSize(f) = RequiredSize(f)
  BY <1>1 DEF P!Slots, Slots, P!RequiredSize, RequiredSize
<1>3. \A f, i, frame : P!Cell(f, i, frame) = Cell(f, i, frame)
  BY <1>1 DEF P!Cell, Cell
<1>4. \A f, n, frame : P!SaveCell(f, n, frame) = SaveCell(f, n, frame)
  BY <1>2 DEF P!SaveCell, SaveCell
<1>5. \A f, kind : P!Variables(f, kind) = Variables(f, kind)
  BY DEF P!Variables, Variables
<1>6. P!Base = Base /\ P!Clobbered = Clobbered /\ P!Idle = Idle
  BY DEF P!Base, Base, P!Clobbered, Clobbered, P!Idle, Idle
<1> QED
  BY <1>1, <1>2, <1>3, <1>4, <1>5, <1>6

\* Strings are the same.
LEMMA SameStrings ==
  /\ \A m, p : P!StringAt(m, p) = StringAt(m, p)
  /\ P!Lines = Lines /\ P!InitialMemory = InitialMemory
<1>1. \A m, p : P!StringAt(m, p) = StringAt(m, p)
  BY DEF P!StringAt, StringAt
<1>2. P!InitialMemory = InitialMemory
  BY SameLayout DEF P!InitialMemory, InitialMemory
<1> QED
  BY <1>1, <1>2 DEF P!Lines, Lines

-----------------------------------------------------------------------------
(***************************************************************************)
(* The frames on the stack                                                 *)
(***************************************************************************)

\* Where a variable's cell is in a frame.
LEMMA CellFacts ==
  \A f \in Functions, frame \in Int : \A i \in 1 .. Len(Kinds[f]) :
    /\ Cell(f, i, frame) \in Int /\ P!Bottom(f, frame) <= Cell(f, i, frame)
    /\ Cell(f, i, frame) < P!Top(f, frame) - 1
    /\ Cell(f, i, frame) # frame /\ Cell(f, i, frame) # frame + 1
<1>1. \A f \in Functions, frame \in Int : \A i \in 1 .. Len(Kinds[f]) :
        /\ P!Cell(f, i, frame) \in Int /\ P!Bottom(f, frame) <= P!Cell(f, i, frame)
        /\ P!Cell(f, i, frame) < P!Top(f, frame) - 1
        /\ P!Cell(f, i, frame) # frame /\ P!Cell(f, i, frame) # frame + 1
  BY Assumptions, P!CellPlace
<1> QED
  BY <1>1, SameLayout

\* Each variable has one of its own.
LEMMA CellsDiffer ==
  \A f \in Functions, frame \in Int : \A i, j \in 1 .. Len(Kinds[f]) :
    Cell(f, i, frame) = Cell(f, j, frame) => i = j
<1>1. \A f \in Functions, frame \in Int : \A i, j \in 1 .. Len(Kinds[f]) :
        P!Cell(f, i, frame) = P!Cell(f, j, frame) => i = j
  BY Assumptions, P!CellsDiffer
<1> QED
  BY <1>1, SameLayout

\* Registers are saved below the variables.
LEMMA SaveCellFacts ==
  \A f \in Functions, frame \in Int : \A n \in DOMAIN Uses[f] :
    /\ SaveCell(f, n, frame) \in Int /\ P!Bottom(f, frame) <= SaveCell(f, n, frame)
    /\ SaveCell(f, n, frame) < frame
    /\ \A i \in 1 .. Len(Kinds[f]) : SaveCell(f, n, frame) < Cell(f, i, frame)
    /\ \A l \in DOMAIN Uses[f] : SaveCell(f, l, frame) = SaveCell(f, n, frame) => l = n
<1>1. \A f \in Functions, frame \in Int : \A n \in DOMAIN Uses[f] :
        /\ P!SaveCell(f, n, frame) \in Int /\ P!Bottom(f, frame) <= P!SaveCell(f, n, frame)
        /\ P!SaveCell(f, n, frame) < frame
        /\ \A i \in 1 .. Len(Kinds[f]) : P!SaveCell(f, n, frame) < P!Cell(f, i, frame)
        /\ \A l \in DOMAIN Uses[f] : P!SaveCell(f, l, frame) = P!SaveCell(f, n, frame) => l = n
  BY Assumptions, P!SaveCellPlace
<1> QED
  BY <1>1, SameLayout

\* The extent of a frame.
LEMMA ExtentFacts ==
  \A f \in Functions, frame \in Int :
    /\ P!Bottom(f, frame) \in Int /\ P!Bottom(f, frame) <= frame
    /\ P!Top(f, frame) \in Int /\ frame + 3 <= P!Top(f, frame)
BY Assumptions, P!FrameFacts

Low(fr, k) == P!Bottom(fr[k].f, fr[k].frame)
High(fr, k) == P!Top(fr[k].f, fr[k].frame)
Spot(fr, k, i) == Cell(fr[k].f, i, fr[k].frame)
SaveSpot(fr, k, n) == SaveCell(fr[k].f, n, fr[k].frame)
Size(fr, k) == Len(Kinds[fr[k].f])

\* They lie below each other.
Layout(fr) ==
  /\ Len(fr) \in Nat /\ DOMAIN fr = 1 .. Len(fr)
  /\ \A k \in 1 .. Len(fr) :
       /\ fr[k].f \in Functions /\ fr[k].frame \in Int
       /\ 0 <= Low(fr, k) /\ High(fr, k) <= MemorySize + 1
       /\ \A l \in 1 .. Len(fr) : k < l => High(fr, l) <= Low(fr, k)

\* Variables are in registers that their function saves, in each at most one.
Registers(fr) ==
  \A k \in 1 .. Len(fr) :
    /\ \A i \in DOMAIN fr[k].reg : i \in 1 .. Size(fr, k) /\ fr[k].reg[i] \in Recorded(fr[k].f)
    /\ \A i, j \in DOMAIN fr[k].reg : fr[k].reg[i] = fr[k].reg[j] => i = j

\* Where a variable's cell is.
LEMMA SpotFacts ==
  ASSUME NEW fr, Layout(fr), NEW k \in 1 .. Len(fr), NEW i \in 1 .. Size(fr, k)
  PROVE  /\ Spot(fr, k, i) \in 0 .. MemorySize - 1 /\ Low(fr, k) <= Spot(fr, k, i)
         /\ Spot(fr, k, i) < High(fr, k) - 1
         /\ Spot(fr, k, i) # fr[k].frame /\ Spot(fr, k, i) # fr[k].frame + 1
<1>1. fr[k].f \in Functions /\ fr[k].frame \in Int /\ i \in 1 .. Len(Kinds[fr[k].f])
  BY DEF Layout, Size
<1>2. /\ Spot(fr, k, i) \in Int /\ Low(fr, k) <= Spot(fr, k, i)
      /\ Spot(fr, k, i) < High(fr, k) - 1
      /\ Spot(fr, k, i) # fr[k].frame /\ Spot(fr, k, i) # fr[k].frame + 1
  BY <1>1, CellFacts DEF Spot, Low, High
<1>3. Low(fr, k) \in Int /\ High(fr, k) \in Int
  BY <1>1, ExtentFacts DEF Low, High
<1>4. 0 <= Low(fr, k) /\ High(fr, k) <= MemorySize + 1 /\ MemorySize \in Nat
  BY MemoryAssumption DEF Layout
<1> QED
  BY <1>2, <1>3, <1>4

\* The extent of a frame.
LEMMA FramePlace ==
  ASSUME NEW fr, Layout(fr), NEW k \in 1 .. Len(fr)
  PROVE  /\ Low(fr, k) \in Int /\ High(fr, k) \in Int /\ Low(fr, k) <= fr[k].frame
         /\ fr[k].frame + 3 <= High(fr, k) /\ fr[k].frame \in Int /\ fr[k].f \in Functions
<1>1. fr[k].f \in Functions /\ fr[k].frame \in Int
  BY DEF Layout
<1> QED
  BY <1>1, ExtentFacts DEF Low, High

\* Where a register is saved.
LEMMA SaveSpotFacts ==
  ASSUME NEW fr, Layout(fr), NEW k \in 1 .. Len(fr), NEW n \in DOMAIN Uses[fr[k].f]
  PROVE  /\ SaveSpot(fr, k, n) \in 0 .. MemorySize - 1 /\ Low(fr, k) <= SaveSpot(fr, k, n)
         /\ SaveSpot(fr, k, n) < fr[k].frame
         /\ \A i \in 1 .. Size(fr, k) : SaveSpot(fr, k, n) # Spot(fr, k, i)
<1>1. fr[k].f \in Functions /\ fr[k].frame \in Int
  BY DEF Layout
<1>2. /\ SaveSpot(fr, k, n) \in Int /\ Low(fr, k) <= SaveSpot(fr, k, n)
      /\ SaveSpot(fr, k, n) < fr[k].frame
      /\ \A i \in 1 .. Size(fr, k) : SaveSpot(fr, k, n) < Spot(fr, k, i)
  BY <1>1, SaveCellFacts DEF SaveSpot, Spot, Low, Size
<1>3. \A i \in 1 .. Size(fr, k) : Spot(fr, k, i) \in Int
  BY <1>1, CellFacts DEF Spot, Size
<1>4. /\ Low(fr, k) \in Int /\ High(fr, k) \in Int /\ fr[k].frame + 3 <= High(fr, k)
      /\ 0 <= Low(fr, k) /\ High(fr, k) <= MemorySize + 1 /\ MemorySize \in Nat
  BY FramePlace, MemoryAssumption DEF Layout
<1> QED
  BY <1>1, <1>2, <1>3, <1>4

\* Every variable of every call has its own cell.
LEMMA SpotsDiffer ==
  ASSUME NEW fr, Layout(fr), NEW k \in 1 .. Len(fr), NEW i \in 1 .. Size(fr, k),
         NEW l \in 1 .. Len(fr), NEW j \in 1 .. Size(fr, l), Spot(fr, k, i) = Spot(fr, l, j)
  PROVE  k = l /\ i = j
<1>1. /\ Low(fr, k) <= Spot(fr, k, i) /\ Spot(fr, k, i) < High(fr, k)
      /\ Low(fr, l) <= Spot(fr, l, j) /\ Spot(fr, l, j) < High(fr, l)
      /\ {Spot(fr, k, i), Low(fr, k), High(fr, k), Low(fr, l), High(fr, l)} \subseteq Int
  BY SpotFacts, FramePlace
<1>2. /\ k < l => High(fr, l) <= Low(fr, k)
      /\ l < k => High(fr, k) <= Low(fr, l)
  BY DEF Layout
<1>3. k = l
  <2>1. ~ (k < l) /\ ~ (l < k)
    BY <1>1, <1>2
  <2> QED
    BY <2>1 DEF Layout
<1>4. fr[k].f \in Functions /\ fr[k].frame \in Int
  BY DEF Layout
<1>5. /\ i \in 1 .. Len(Kinds[fr[k].f]) /\ j \in 1 .. Len(Kinds[fr[k].f])
      /\ Cell(fr[k].f, i, fr[k].frame) = Cell(fr[k].f, j, fr[k].frame)
  BY <1>3 DEF Size, Spot
<1> QED
  BY <1>3, <1>4, <1>5, CellsDiffer

\* No register is saved in a variable's cell.
LEMMA SavesDiffer ==
  ASSUME NEW fr, Layout(fr), NEW k \in 1 .. Len(fr), NEW i \in 1 .. Size(fr, k),
         NEW l \in 1 .. Len(fr), NEW n \in DOMAIN Uses[fr[l].f]
  PROVE  Spot(fr, k, i) # SaveSpot(fr, l, n)
<1>1. /\ Low(fr, k) <= Spot(fr, k, i) /\ Spot(fr, k, i) < High(fr, k)
      /\ {Spot(fr, k, i), Low(fr, k), High(fr, k), Low(fr, l), High(fr, l)} \subseteq Int
      /\ fr[l].frame + 3 <= High(fr, l) /\ fr[l].frame \in Int
  BY SpotFacts, FramePlace
<1>2. /\ Low(fr, l) <= SaveSpot(fr, l, n) /\ SaveSpot(fr, l, n) < fr[l].frame
      /\ SaveSpot(fr, l, n) \in Int
      /\ \A j \in 1 .. Size(fr, l) : SaveSpot(fr, l, n) # Spot(fr, l, j)
  BY SaveSpotFacts
<1>3. k < l => High(fr, l) <= Low(fr, k)
  BY DEF Layout
<1>4. l < k => High(fr, k) <= Low(fr, l)
  BY DEF Layout
<1>5. k < l \/ l < k \/ k = l
  BY DEF Layout
<1> QED
  BY <1>1, <1>2, <1>3, <1>4, <1>5

-----------------------------------------------------------------------------
(***************************************************************************)
(* Where the variables in registers are                                    *)
(***************************************************************************)

\* No function from call k + 1 to call j saves register r.
Untouched(fr, k, j, r) == \A l \in k + 1 .. j : r \notin Recorded(fr[l].f)

\* Register r of call k, in its place or where a later call has saved it, holds w.
Found(m, sv, fr, k, r, w) ==
  \/ Untouched(fr, k, Len(fr), r) /\ w = sv[r]
  \/ \E j \in k + 1 .. Len(fr) : \E n \in DOMAIN Uses[fr[j].f] :
       /\ Uses[fr[j].f][n] = r /\ Untouched(fr, k, j - 1, r)
       /\ w = m[SaveSpot(fr, j, n)]

\* In memory S the variables that are in registers are in their cells.
IsStored(S, m, sv, fr) ==
  /\ S = [c \in DOMAIN m |-> S[c]]
  /\ \A k \in 1 .. Len(fr) : \A i \in DOMAIN fr[k].reg :
       Found(m, sv, fr, k, fr[k].reg[i], S[Spot(fr, k, i)])
  /\ \A c \in DOMAIN m :
       (\A k \in 1 .. Len(fr) : \A i \in DOMAIN fr[k].reg : Spot(fr, k, i) # c) => S[c] = m[c]

Memories == [0 .. MemorySize - 1 -> Int]

\* A function saves a register once.
LEMMA SavedOnce ==
  \A f \in Functions : \A m, n \in DOMAIN Uses[f] : Uses[f][m] = Uses[f][n] => m = n
BY FunctionsAssumption

\* A register is found in one place.
LEMMA FoundOnce ==
  ASSUME NEW m, NEW sv, NEW fr, Layout(fr), NEW k \in 1 .. Len(fr), NEW r,
         NEW v, NEW w, Found(m, sv, fr, k, r, v), Found(m, sv, fr, k, r, w)
  PROVE  v = w
<1>1. Len(fr) \in Nat
  BY DEF Layout
<1>2. ASSUME NEW j \in k + 1 .. Len(fr), NEW n \in DOMAIN Uses[fr[j].f], Uses[fr[j].f][n] = r
      PROVE  r \in Recorded(fr[j].f) /\ ~ Untouched(fr, k, Len(fr), r)
  BY <1>2 DEF Recorded, Untouched
<1>3. CASE Untouched(fr, k, Len(fr), r)
  BY <1>2, <1>3 DEF Found
<1>4. CASE ~ Untouched(fr, k, Len(fr), r)
  <2>1. PICK j \in k + 1 .. Len(fr) : \E n \in DOMAIN Uses[fr[j].f] :
          Uses[fr[j].f][n] = r /\ Untouched(fr, k, j - 1, r) /\ v = m[SaveSpot(fr, j, n)]
    BY <1>4 DEF Found
  <2>2. PICK n \in DOMAIN Uses[fr[j].f] :
          Uses[fr[j].f][n] = r /\ Untouched(fr, k, j - 1, r) /\ v = m[SaveSpot(fr, j, n)]
    BY <2>1
  <2>3. PICK l \in k + 1 .. Len(fr) : \E o \in DOMAIN Uses[fr[l].f] :
          Uses[fr[l].f][o] = r /\ Untouched(fr, k, l - 1, r) /\ w = m[SaveSpot(fr, l, o)]
    BY <1>4 DEF Found
  <2>4. PICK o \in DOMAIN Uses[fr[l].f] :
          Uses[fr[l].f][o] = r /\ Untouched(fr, k, l - 1, r) /\ w = m[SaveSpot(fr, l, o)]
    BY <2>3
  <2>5. ~ (j < l)
    <3>1. j < l => j \in k + 1 .. l - 1
      BY <1>1
    <3> QED
      BY <1>2, <2>2, <2>4, <3>1 DEF Untouched
  <2>6. ~ (l < j)
    <3>1. l < j => l \in k + 1 .. j - 1
      BY <1>1
    <3> QED
      BY <1>2, <2>2, <2>4, <3>1 DEF Untouched
  <2>7. j = l
    BY <1>1, <2>5, <2>6
  <2>8. j \in 1 .. Len(fr)
    BY <1>1
  <2>9. fr[j].f \in Functions
    BY <2>8 DEF Layout
  <2>10. n = o
    BY <2>2, <2>4, <2>7, <2>9, SavedOnce
  <2> QED
    BY <2>2, <2>4, <2>7, <2>10
<1> QED
  BY <1>3, <1>4

\* So there is one memory with the variables in their cells.
LEMMA StoredOnce ==
  ASSUME NEW m, NEW sv, NEW fr, Layout(fr), Registers(fr), NEW S, NEW T,
         IsStored(S, m, sv, fr), IsStored(T, m, sv, fr)
  PROVE  S = T
<1>1. ASSUME NEW c \in DOMAIN m
      PROVE  S[c] = T[c]
  <2>1. CASE \A k \in 1 .. Len(fr) : \A i \in DOMAIN fr[k].reg : Spot(fr, k, i) # c
    BY <2>1 DEF IsStored
  <2>2. CASE \E k \in 1 .. Len(fr) : \E i \in DOMAIN fr[k].reg : Spot(fr, k, i) = c
    <3>1. PICK k \in 1 .. Len(fr) : \E i \in DOMAIN fr[k].reg : Spot(fr, k, i) = c
      BY <2>2
    <3>2. PICK i \in DOMAIN fr[k].reg : Spot(fr, k, i) = c
      BY <3>1
    <3>3. /\ Found(m, sv, fr, k, fr[k].reg[i], S[c])
          /\ Found(m, sv, fr, k, fr[k].reg[i], T[c])
      BY <3>2 DEF IsStored
    <3> QED
      BY <3>3, FoundOnce
  <2> QED
    BY <2>1, <2>2
<1>2. S = [c \in DOMAIN m |-> S[c]] /\ T = [c \in DOMAIN m |-> T[c]]
  BY DEF IsStored
<1> QED
  BY <1>1, <1>2

\* Register tells where a register of a call is.
LEMMA RegisterIs ==
  ASSUME Layout(frames), NEW k \in 1 .. Len(frames), NEW r
  PROVE  Found(mem, saved, frames, k, r, Register(k, r))
<1> DEFINE savers == {j \in k + 1 .. Len(frames) : r \in Recorded(frames[j].f)}
           j == CHOOSE j \in savers : \A l \in savers : j <= l
           n == CHOOSE n \in DOMAIN Uses[frames[j].f] : Uses[frames[j].f][n] = r
<1>1. Len(frames) \in Nat
  BY DEF Layout
<1>2. CASE savers = {}
  <2>1. Untouched(frames, k, Len(frames), r)
    BY <1>2 DEF Untouched
  <2>2. Register(k, r) = saved[r]
    BY <1>2 DEF Register
  <2> QED
    BY <2>1, <2>2 DEF Found
<1>3. CASE savers # {}
  <2>1. savers \in SUBSET Nat
    BY <1>1
  <2>2. j \in savers /\ \A l \in savers : j <= l
    <3>1. \E x \in savers : \A y \in savers : x <= y
      BY <1>3, <2>1, Assumptions, P!SmallestNat
    <3> QED
      BY <3>1
  <2>3. Register(k, r) = mem[SaveCell(frames[j].f, n, frames[j].frame)]
    BY <1>3 DEF Register
  <2>4. j \in k + 1 .. Len(frames) /\ r \in Recorded(frames[j].f)
    BY <2>2
  <2>5. Untouched(frames, k, j - 1, r)
    <3>1. ASSUME NEW l \in k + 1 .. j - 1, r \in Recorded(frames[l].f)
          PROVE  FALSE
      <4>1. l \in savers /\ ~ (j <= l)
        BY <1>1, <2>4, <3>1
      <4> QED
        BY <2>2, <4>1
    <3> QED
      BY <3>1 DEF Untouched
  <2>6. n \in DOMAIN Uses[frames[j].f] /\ Uses[frames[j].f][n] = r
    BY <2>4 DEF Recorded
  <2> HIDE DEF n, j, savers
  <2> QED
    BY <2>3, <2>4, <2>5, <2>6 DEF Found, SaveSpot
<1> QED
  BY <1>2, <1>3

\* Stored is that memory.
LEMMA StoredIs ==
  Layout(frames) /\ Registers(frames) /\ mem \in Memories =>
    IsStored(Stored, mem, saved, frames)
<1> SUFFICES ASSUME Layout(frames), Registers(frames), mem \in Memories
             PROVE  IsStored(Stored, mem, saved, frames)
  OBVIOUS
<1>1. DOMAIN frames = 1 .. Len(frames) /\ DOMAIN mem = 0 .. MemorySize - 1
  BY DEF Layout, Memories
<1>2. ASSUME NEW x
      PROVE  x \in Away <=> \E k \in 1 .. Len(frames) : \E i \in DOMAIN frames[k].reg : x = <<k, i>>
  BY <1>1 DEF Away
<1>3. ASSUME NEW k \in 1 .. Len(frames), NEW i \in DOMAIN frames[k].reg
      PROVE  /\ Spot(frames, k, i) \in DOMAIN mem
             /\ Found(mem, saved, frames, k, frames[k].reg[i], Stored[Spot(frames, k, i)])
  <2>1. i \in 1 .. Size(frames, k)
    BY DEF Registers
  <2>2. Spot(frames, k, i) \in DOMAIN mem
    BY <1>1, <2>1, SpotFacts
  <2>3. <<k, i>> \in Away /\ CellOf(<<k, i>>) = Spot(frames, k, i)
    BY <1>2 DEF CellOf, Spot
  <2>4. PICK c : c = Spot(frames, k, i)
    OBVIOUS
  <2>5. PICK v : v = CHOOSE x \in Away : CellOf(x) = c
    OBVIOUS
  <2>6. v \in Away /\ CellOf(v) = c
    BY <2>3, <2>4, <2>5
  <2>7. PICK l \in 1 .. Len(frames) : \E j \in DOMAIN frames[l].reg : v = <<l, j>>
    BY <1>2, <2>6
  <2>8. PICK j \in DOMAIN frames[l].reg : v = <<l, j>>
    BY <2>7
  <2>9. Spot(frames, l, j) = c /\ j \in 1 .. Size(frames, l)
    BY <2>6, <2>8 DEF CellOf, Spot, Registers
  <2>10. l = k /\ j = i
    BY <2>1, <2>4, <2>9, SpotsDiffer
  <2>11. Stored[c] = Register(v[1], frames[v[1]].reg[v[2]])
    BY <2>2, <2>3, <2>4, <2>5 DEF Stored
  <2>12. Stored[c] = Register(k, frames[k].reg[i])
    BY <2>8, <2>10, <2>11
  <2> QED
    BY <2>2, <2>4, <2>12, RegisterIs
<1>4. ASSUME NEW c \in DOMAIN mem,
             \A k \in 1 .. Len(frames) : \A i \in DOMAIN frames[k].reg : Spot(frames, k, i) # c
      PROVE  Stored[c] = mem[c]
  <2>1. ASSUME NEW v \in Away, CellOf(v) = c
        PROVE  FALSE
    <3>1. PICK k \in 1 .. Len(frames) : \E i \in DOMAIN frames[k].reg : v = <<k, i>>
      BY <1>2
    <3>2. PICK i \in DOMAIN frames[k].reg : v = <<k, i>>
      BY <3>1
    <3> QED
      BY <1>4, <2>1, <3>2 DEF CellOf, Spot
  <2> QED
    BY <2>1 DEF Stored
<1>5. Stored = [c \in DOMAIN mem |-> Stored[c]]
  BY DEF Stored
<1> QED
  BY <1>3, <1>4, <1>5 DEF IsStored

\* The same after a step: what is in the cells then is Stored.
LEMMA StoredIsNext ==
  \A S : /\ Layout(frames') /\ Registers(frames') /\ mem' \in Memories
         /\ IsStored(S, mem', saved', frames')
         => Stored' = S
<1>1. Layout(frames) /\ Registers(frames) /\ mem \in Memories =>
        IsStored(Stored, mem, saved, frames)
  BY StoredIs
<1>2. (Layout(frames) /\ Registers(frames) /\ mem \in Memories =>
        IsStored(Stored, mem, saved, frames))'
  BY <1>1, PTL
<1>3. Layout(frames') /\ Registers(frames') /\ mem' \in Memories =>
        IsStored(Stored', mem', saved', frames')
  BY <1>2
<1> QED
  BY <1>3, StoredOnce


-----------------------------------------------------------------------------
(***************************************************************************)
(* The variables in registers after a step                                 *)
(***************************************************************************)

\* The same calls; only the last one has mapped its variables anew.
Alike(fr, fr2) ==
  /\ Len(fr2) = Len(fr) /\ DOMAIN fr2 = DOMAIN fr
  /\ \A k \in 1 .. Len(fr) : fr2[k].f = fr[k].f /\ fr2[k].frame = fr[k].frame
  /\ \A k \in 1 .. Len(fr) - 1 : fr2[k].reg = fr[k].reg

\* Their layout is the same.
LEMMA AlikeFacts ==
  ASSUME NEW fr, NEW fr2, Layout(fr), Alike(fr, fr2)
  PROVE  /\ Layout(fr2) /\ Len(fr) \in Nat /\ Len(fr2) = Len(fr)
         /\ \A k \in 1 .. Len(fr) : Low(fr2, k) = Low(fr, k) /\ Size(fr2, k) = Size(fr, k)
         /\ \A k \in 1 .. Len(fr) : \A i : Spot(fr2, k, i) = Spot(fr, k, i)
         /\ \A k \in 1 .. Len(fr) : \A n : SaveSpot(fr2, k, n) = SaveSpot(fr, k, n)
         /\ \A k \in Nat, j \in Int : \A r : j <= Len(fr) =>
              (Untouched(fr2, k, j, r) <=> Untouched(fr, k, j, r))
<1>1. \A k \in 1 .. Len(fr) : /\ Low(fr2, k) = Low(fr, k) /\ High(fr2, k) = High(fr, k)
                              /\ Size(fr2, k) = Size(fr, k)
  BY DEF Alike, Low, High, Size
<1>2. Len(fr) \in Nat /\ Len(fr2) = Len(fr)
  BY DEF Alike, Layout
<1>3. Layout(fr2)
  BY <1>1, <1>2 DEF Layout, Alike
<1>4. \A k \in 1 .. Len(fr) : \A i : Spot(fr2, k, i) = Spot(fr, k, i)
  BY DEF Alike, Spot
<1>5. \A k \in 1 .. Len(fr) : \A n : SaveSpot(fr2, k, n) = SaveSpot(fr, k, n)
  BY DEF Alike, SaveSpot
<1>6. ASSUME NEW k \in Nat, NEW j \in Int, NEW r, j <= Len(fr)
      PROVE  Untouched(fr2, k, j, r) <=> Untouched(fr, k, j, r)
  <2>1. \A l \in k + 1 .. j : l \in 1 .. Len(fr)
    BY <1>2, <1>6
  <2>2. \A l \in k + 1 .. j : fr2[l].f = fr[l].f
    BY <2>1 DEF Alike
  <2> QED
    BY <2>2 DEF Untouched
<1> QED
  BY <1>1, <1>2, <1>3, <1>4, <1>5, <1>6

\* A register that is found stays where it is if neither it nor what has been saved changes.
LEMMA FoundStays ==
  ASSUME NEW fr, NEW fr2, Layout(fr), Alike(fr, fr2),
         NEW m, NEW m2, NEW sv, NEW sv2, NEW k \in 1 .. Len(fr), NEW r, NEW w,
         Found(m, sv, fr, k, r, w), Untouched(fr, k, Len(fr), r) => sv2[r] = sv[r],
         \A j \in k + 1 .. Len(fr) : \A n \in DOMAIN Uses[fr[j].f] :
           m2[SaveSpot(fr, j, n)] = m[SaveSpot(fr, j, n)]
  PROVE  Found(m2, sv2, fr2, k, r, w)
<1>1. Len(fr) \in Nat /\ Len(fr2) = Len(fr) /\ k \in Nat
  BY AlikeFacts
<1>2. CASE Untouched(fr, k, Len(fr), r) /\ w = sv[r]
  <2>1. Untouched(fr2, k, Len(fr), r)
    BY <1>1, <1>2, AlikeFacts
  <2> QED
    BY <1>1, <1>2, <2>1 DEF Found
<1>3. CASE \E j \in k + 1 .. Len(fr) : \E n \in DOMAIN Uses[fr[j].f] :
             /\ Uses[fr[j].f][n] = r /\ Untouched(fr, k, j - 1, r)
             /\ w = m[SaveSpot(fr, j, n)]
  <2>1. PICK j \in k + 1 .. Len(fr) : \E n \in DOMAIN Uses[fr[j].f] :
          /\ Uses[fr[j].f][n] = r /\ Untouched(fr, k, j - 1, r)
          /\ w = m[SaveSpot(fr, j, n)]
    BY <1>3
  <2>2. PICK n \in DOMAIN Uses[fr[j].f] :
          /\ Uses[fr[j].f][n] = r /\ Untouched(fr, k, j - 1, r)
          /\ w = m[SaveSpot(fr, j, n)]
    BY <2>1
  <2>3. j \in 1 .. Len(fr) /\ j - 1 <= Len(fr)
    BY <1>1
  <2>4. fr2[j].f = fr[j].f
    BY <2>3 DEF Alike
  <2>5. Untouched(fr2, k, j - 1, r)
    BY <1>1, <2>2, <2>3, AlikeFacts
  <2>6. w = m2[SaveSpot(fr2, j, n)]
    BY <2>2, <2>3, AlikeFacts
  <2> QED
    BY <1>1, <2>2, <2>4, <2>5, <2>6 DEF Found
<1> QED
  BY <1>2, <1>3 DEF Found

\* The last call gives the variables of I new values, in registers or in their cells, and
\* writes below its frame; whoever has a variable in a register of its caller's keeps it.
Rewritten(m, m2, sv, sv2, fr, fr2, S, T, I) ==
  LET d == Len(fr)
  IN  /\ DOMAIN m2 = DOMAIN m /\ T = [c \in DOMAIN m |-> T[c]]
      /\ I \in SUBSET (1 .. Size(fr, d))
      /\ \A c \in DOMAIN m : c >= Low(fr, d) /\ (\A i \in I : Spot(fr, d, i) # c) =>
           m2[c] = m[c] /\ T[c] = S[c]
      /\ \A c \in DOMAIN m : c < Low(fr, d) => T[c] = m2[c]
      /\ \A i \in I :
           T[Spot(fr, d, i)] = IF i \in DOMAIN fr2[d].reg THEN sv2[fr2[d].reg[i]]
                               ELSE m2[Spot(fr, d, i)]
      /\ \A i \in 1 .. Size(fr, d) : i \notin I =>
           /\ i \in DOMAIN fr2[d].reg <=> i \in DOMAIN fr[d].reg
           /\ i \in DOMAIN fr[d].reg =>
                fr2[d].reg[i] = fr[d].reg[i] /\ sv2[fr[d].reg[i]] = sv[fr[d].reg[i]]
      /\ \A k \in 1 .. d - 1 : \A i \in DOMAIN fr[k].reg :
           Untouched(fr, k, d, fr[k].reg[i]) => sv2[fr[k].reg[i]] = sv[fr[k].reg[i]]

\* Then T has the variables in their cells.
LEMMA Restored ==
  ASSUME NEW fr, NEW fr2, Layout(fr), Registers(fr), Registers(fr2), Alike(fr, fr2), Len(fr) > 0,
         NEW m \in Memories, NEW m2, NEW sv, NEW sv2, NEW S, NEW T, NEW I,
         IsStored(S, m, sv, fr), Rewritten(m, m2, sv, sv2, fr, fr2, S, T, I)
  PROVE  IsStored(T, m2, sv2, fr2)
<1> DEFINE d == Len(fr)
<1>1. /\ d \in Nat /\ Len(fr2) = d /\ d \in 1 .. d /\ Low(fr, d) \in Int
      /\ DOMAIN m = 0 .. MemorySize - 1 /\ DOMAIN m2 = DOMAIN m
  BY AlikeFacts, FramePlace DEF Memories, Rewritten
<1>2. ASSUME NEW k \in 1 .. d - 1
      PROVE  /\ k \in 1 .. d /\ Low(fr, d) <= Low(fr, k) /\ Low(fr, k) \in Int
             /\ fr2[k].reg = fr[k].reg
  <2>1. k \in 1 .. d /\ k < d
    BY <1>1
  <2>2. High(fr, d) <= Low(fr, k)
    BY <1>1, <2>1 DEF Layout
  <2>3. Low(fr, d) <= fr[d].frame /\ fr[d].frame + 3 <= High(fr, d) /\ High(fr, d) \in Int
        /\ fr[d].frame \in Int /\ Low(fr, k) \in Int
    BY <1>1, <2>1, FramePlace
  <2> QED
    BY <1>1, <2>1, <2>2, <2>3 DEF Alike
<1>3. ASSUME NEW k \in 1 .. d, NEW n \in DOMAIN Uses[fr[k].f]
      PROVE  m2[SaveSpot(fr, k, n)] = m[SaveSpot(fr, k, n)]
  <2>1. SaveSpot(fr, k, n) \in DOMAIN m /\ Low(fr, k) <= SaveSpot(fr, k, n)
    BY <1>1, SaveSpotFacts
  <2>2. Low(fr, d) <= Low(fr, k) /\ Low(fr, k) \in Int /\ SaveSpot(fr, k, n) \in Int
    <3>1. k = d \/ k \in 1 .. d - 1
      BY <1>1
    <3> QED
      BY <1>1, <1>2, <2>1, <3>1
  <2>3. \A i \in I : Spot(fr, d, i) # SaveSpot(fr, k, n)
    BY <1>1, SavesDiffer DEF Rewritten
  <2>4. SaveSpot(fr, k, n) >= Low(fr, d)
    BY <1>1, <2>1, <2>2
  <2> QED
    BY <2>1, <2>3, <2>4 DEF Rewritten
<1>4. ASSUME NEW k \in 1 .. d - 1, NEW i \in DOMAIN fr2[k].reg
      PROVE  Found(m2, sv2, fr2, k, fr2[k].reg[i], T[Spot(fr2, k, i)])
  <2>1. k \in 1 .. d /\ i \in DOMAIN fr[k].reg /\ fr2[k].reg[i] = fr[k].reg[i]
    BY <1>2
  <2>2. i \in 1 .. Size(fr, k)
    BY <2>1 DEF Registers
  <2>3. Found(m, sv, fr, k, fr[k].reg[i], S[Spot(fr, k, i)])
    BY <2>1 DEF IsStored
  <2>4. Untouched(fr, k, d, fr[k].reg[i]) => sv2[fr[k].reg[i]] = sv[fr[k].reg[i]]
    BY <2>1 DEF Rewritten
  <2>5. \A j \in k + 1 .. Len(fr) : \A n \in DOMAIN Uses[fr[j].f] :
          m2[SaveSpot(fr, j, n)] = m[SaveSpot(fr, j, n)]
    <3>1. \A j \in k + 1 .. d : j \in 1 .. d
      BY <1>1, <2>1
    <3> QED
      BY <1>3, <3>1
  <2>6. Found(m2, sv2, fr2, k, fr[k].reg[i], S[Spot(fr, k, i)])
    <3>1. PICK r, w : r = fr[k].reg[i] /\ w = S[Spot(fr, k, i)]
      OBVIOUS
    <3>2. Found(m, sv, fr, k, r, w) /\ (Untouched(fr, k, Len(fr), r) => sv2[r] = sv[r])
      BY <2>3, <2>4, <3>1
    <3>3. Found(m2, sv2, fr2, k, r, w)
      BY <2>1, <2>5, <3>2, FoundStays
    <3> QED
      BY <3>1, <3>3
  <2>7. T[Spot(fr, k, i)] = S[Spot(fr, k, i)]
    <3>1. \A j \in I : Spot(fr, d, j) # Spot(fr, k, i)
      <4>1. ASSUME NEW j \in I, Spot(fr, d, j) = Spot(fr, k, i)
            PROVE  FALSE
        <5>1. j \in 1 .. Size(fr, d)
          BY DEF Rewritten
        <5>2. d = k
          BY <1>1, <2>1, <2>2, <4>1, <5>1, SpotsDiffer
        <5> QED
          BY <1>1, <5>2
      <4> QED
        BY <4>1
    <3>2. Spot(fr, k, i) \in DOMAIN m /\ Spot(fr, k, i) \in Int /\ Low(fr, k) <= Spot(fr, k, i)
      BY <1>1, <2>1, <2>2, SpotFacts
    <3>3. Spot(fr, k, i) >= Low(fr, d)
      BY <1>1, <1>2, <3>2
    <3> QED
      BY <3>1, <3>2, <3>3 DEF Rewritten
  <2>8. Spot(fr2, k, i) = Spot(fr, k, i)
    BY <2>1, AlikeFacts
  <2> QED
    BY <2>1, <2>6, <2>7, <2>8
<1>5. ASSUME NEW i \in DOMAIN fr2[d].reg
      PROVE  Found(m2, sv2, fr2, d, fr2[d].reg[i], T[Spot(fr2, d, i)])
  <2>1. i \in 1 .. Size(fr, d) /\ Spot(fr2, d, i) = Spot(fr, d, i)
    BY <1>1, AlikeFacts DEF Registers
  <2>2. \A r : Untouched(fr, d, d, r) /\ Untouched(fr2, d, d, r)
    BY <1>1 DEF Untouched
  <2>3. T[Spot(fr, d, i)] = sv2[fr2[d].reg[i]]
    <3>1. CASE i \in I
      BY <3>1 DEF Rewritten
    <3>2. CASE i \notin I
      <4>1. /\ i \in DOMAIN fr[d].reg /\ fr2[d].reg[i] = fr[d].reg[i]
            /\ sv2[fr[d].reg[i]] = sv[fr[d].reg[i]]
        BY <2>1, <3>2 DEF Rewritten
      <4>2. Found(m, sv, fr, d, fr[d].reg[i], S[Spot(fr, d, i)])
        BY <1>1, <4>1 DEF IsStored
      <4>3. ~ \E j \in d + 1 .. d : TRUE
        BY <1>1
      <4>4. S[Spot(fr, d, i)] = sv[fr[d].reg[i]]
        BY <4>2, <4>3 DEF Found
      <4>5. Spot(fr, d, i) \in DOMAIN m /\ Spot(fr, d, i) >= Low(fr, d)
        BY <1>1, <2>1, SpotFacts
      <4>6. \A j \in I : Spot(fr, d, j) # Spot(fr, d, i)
        BY <1>1, <2>1, <3>2, SpotsDiffer DEF Rewritten
      <4>7. T[Spot(fr, d, i)] = S[Spot(fr, d, i)]
        BY <4>5, <4>6 DEF Rewritten
      <4> QED
        BY <4>1, <4>4, <4>7
    <3> QED
      BY <3>1, <3>2
  <2> QED
    BY <1>1, <2>1, <2>2, <2>3 DEF Found
<1>6. ASSUME NEW c \in DOMAIN m2,
             \A k \in 1 .. d : \A i \in DOMAIN fr2[k].reg : Spot(fr2, k, i) # c
      PROVE  T[c] = m2[c]
  <2>1. c \in DOMAIN m /\ c \in Int
    BY <1>1
  <2>2. CASE c < Low(fr, d)
    BY <2>1, <2>2 DEF Rewritten
  <2>3. CASE \E i \in I : Spot(fr, d, i) = c
    <3>1. PICK i \in I : Spot(fr, d, i) = c
      BY <2>3
    <3>2. Spot(fr2, d, i) = c
      BY <1>1, <3>1, AlikeFacts
    <3>3. i \notin DOMAIN fr2[d].reg
      BY <1>1, <1>6, <3>2
    <3> QED
      BY <3>1, <3>3 DEF Rewritten
  <2>4. CASE c >= Low(fr, d) /\ \A i \in I : Spot(fr, d, i) # c
    <3>1. m2[c] = m[c] /\ T[c] = S[c]
      BY <2>1, <2>4 DEF Rewritten
    <3>2. ASSUME NEW k \in 1 .. d, NEW i \in DOMAIN fr[k].reg, Spot(fr, k, i) = c
          PROVE  FALSE
      <4>1. Spot(fr2, k, i) = c
        BY <3>2, AlikeFacts
      <4>2. k = d \/ k \in 1 .. d - 1
        BY <1>1
      <4>3. i \in 1 .. Size(fr, k)
        BY <3>2 DEF Registers
      <4>4. i \in DOMAIN fr2[k].reg
        <5>1. CASE k = d
          <6>1. i \notin I
            BY <2>4, <3>2, <5>1
          <6> QED
            BY <4>3, <5>1, <6>1 DEF Rewritten
        <5>2. CASE k \in 1 .. d - 1
          BY <1>2, <5>2
        <5> QED
          BY <4>2, <5>1, <5>2
      <4> QED
        BY <1>6, <4>1, <4>4
    <3>3. S[c] = m[c]
      BY <2>1, <3>2 DEF IsStored
    <3> QED
      BY <3>1, <3>3
  <2> QED
    BY <1>1, <2>1, <2>2, <2>3, <2>4
<1>7. T = [c \in DOMAIN m2 |-> T[c]]
  BY <1>1 DEF Rewritten
<1>8. \A k \in 1 .. d : k = d \/ k \in 1 .. d - 1
  BY <1>1
<1>9. \A k \in 1 .. d : \A i \in DOMAIN fr2[k].reg :
        Found(m2, sv2, fr2, k, fr2[k].reg[i], T[Spot(fr2, k, i)])
  BY <1>4, <1>5, <1>8
<1>10. \A c \in DOMAIN m2 :
         (\A k \in 1 .. d : \A i \in DOMAIN fr2[k].reg : Spot(fr2, k, i) # c) => T[c] = m2[c]
  BY <1>6
<1> HIDE DEF d
<1> QED
  BY <1>1, <1>7, <1>9, <1>10 DEF IsStored

\* One call more.
Extends(fr, fr2, f, frame) ==
  /\ Len(fr2) = Len(fr) + 1 /\ DOMAIN fr2 = 1 .. Len(fr) + 1
  /\ \A k \in 1 .. Len(fr) : fr2[k] = fr[k]
  /\ fr2[Len(fr) + 1].f = f /\ fr2[Len(fr) + 1].frame = frame
  /\ DOMAIN fr2[Len(fr) + 1].reg = {}

\* Its frame is below the others.
LEMMA ExtendedLayout ==
  ASSUME NEW fr, NEW fr2, Layout(fr), Registers(fr), NEW f \in Functions, NEW frame \in Int,
         Extends(fr, fr2, f, frame), 0 <= P!Bottom(f, frame), P!Top(f, frame) <= MemorySize + 1,
         Len(fr) > 0 => P!Top(f, frame) <= Low(fr, Len(fr))
  PROVE  Layout(fr2) /\ Registers(fr2)
<1>1. PICK d \in Nat : d = Len(fr)
  BY DEF Layout
<1>2. /\ Len(fr2) = d + 1 /\ DOMAIN fr2 = 1 .. d + 1
      /\ \A k \in 1 .. d : fr2[k] = fr[k]
      /\ fr2[d + 1].f = f /\ fr2[d + 1].frame = frame /\ DOMAIN fr2[d + 1].reg = {}
  BY <1>1 DEF Extends
<1>3. \A k \in 1 .. d : Low(fr2, k) = Low(fr, k) /\ High(fr2, k) = High(fr, k)
                        /\ Size(fr2, k) = Size(fr, k)
  BY <1>2 DEF Low, High, Size
<1>4. Low(fr2, d + 1) = P!Bottom(f, frame) /\ High(fr2, d + 1) = P!Top(f, frame)
  BY <1>2 DEF Low, High
<1>5. \A k \in 1 .. d + 1 : k \in 1 .. d \/ k = d + 1
  BY <1>1
<1>6. ASSUME NEW k \in 1 .. d + 1
      PROVE  /\ fr2[k].f \in Functions /\ fr2[k].frame \in Int
             /\ 0 <= Low(fr2, k) /\ High(fr2, k) <= MemorySize + 1
  <2>1. CASE k \in 1 .. d
    BY <1>1, <1>2, <1>3, <2>1 DEF Layout
  <2>2. CASE k = d + 1
    BY <1>2, <1>4, <2>2
  <2> QED
    BY <1>5, <2>1, <2>2
<1>7. ASSUME NEW k \in 1 .. d + 1, NEW l \in 1 .. d + 1, k < l
      PROVE  High(fr2, l) <= Low(fr2, k)
  <2>1. k \in 1 .. d
    BY <1>1, <1>7
  <2>2. CASE l \in 1 .. d
    BY <1>1, <1>3, <1>7, <2>1, <2>2 DEF Layout
  <2>3. CASE l = d + 1
    <3>1. P!Top(f, frame) <= Low(fr, d)
      BY <1>1, <2>1
    <3>2. d \in 1 .. d
      BY <1>1, <2>1
    <3>3. Low(fr, d) <= Low(fr, k)
      <4>1. k < d => High(fr, d) <= Low(fr, k)
        BY <1>1, <2>1, <3>2 DEF Layout
      <4>2. /\ Low(fr, d) \in Int /\ High(fr, d) \in Int /\ Low(fr, d) <= fr[d].frame
            /\ fr[d].frame + 3 <= High(fr, d) /\ fr[d].frame \in Int /\ Low(fr, k) \in Int
        BY <1>1, <2>1, <3>2, FramePlace
      <4>3. k < d \/ k = d
        BY <1>1, <2>1
      <4> QED
        BY <4>1, <4>2, <4>3
    <3>4. P!Top(f, frame) \in Int /\ Low(fr, d) \in Int /\ Low(fr, k) \in Int
      BY <1>1, <2>1, <3>2, FramePlace, ExtentFacts
    <3>5. Low(fr2, k) = Low(fr, k)
      BY <1>3, <2>1
    <3> QED
      BY <1>4, <2>3, <3>1, <3>3, <3>4, <3>5
  <2> QED
    BY <1>5, <2>2, <2>3
<1>8. Layout(fr2)
  BY <1>1, <1>2, <1>6, <1>7 DEF Layout
<1>9. ASSUME NEW k \in 1 .. d + 1
      PROVE  /\ \A i \in DOMAIN fr2[k].reg :
                  i \in 1 .. Size(fr2, k) /\ fr2[k].reg[i] \in Recorded(fr2[k].f)
             /\ \A i, j \in DOMAIN fr2[k].reg : fr2[k].reg[i] = fr2[k].reg[j] => i = j
  <2>1. CASE k \in 1 .. d
    BY <1>1, <1>2, <1>3, <2>1 DEF Registers
  <2>2. CASE k = d + 1
    BY <1>2, <2>2
  <2> QED
    BY <1>5, <2>1, <2>2
<1>10. Registers(fr2)
  BY <1>2, <1>9 DEF Registers
<1> QED
  BY <1>8, <1>10

\* The prologue saves the registers that the function will use.
LEMMA Entered ==
  ASSUME NEW fr, NEW fr2, Layout(fr), Registers(fr), NEW f \in Functions, NEW frame \in Int,
         Extends(fr, fr2, f, frame), Layout(fr2),
         NEW m \in Memories, NEW m2, NEW sv, NEW S, NEW T, NEW cells, IsStored(S, m, sv, fr),
         m2 = [c \in DOMAIN m |-> IF c \in DOMAIN cells THEN cells[c] ELSE m[c]],
         T = [c \in DOMAIN m |-> IF c \in DOMAIN cells THEN cells[c] ELSE S[c]],
         \A c \in DOMAIN cells : Len(fr) > 0 => c \in Int /\ c < Low(fr, Len(fr)),
         \A n \in DOMAIN Uses[f] :
           SaveCell(f, n, frame) \in DOMAIN cells /\ cells[SaveCell(f, n, frame)] = sv[Uses[f][n]]
  PROVE  IsStored(T, m2, sv, fr2)
<1>1. PICK d \in Nat : d = Len(fr)
  BY DEF Layout
<1>2. /\ Len(fr2) = d + 1 /\ DOMAIN fr2 = 1 .. d + 1
      /\ \A k \in 1 .. d : fr2[k] = fr[k]
      /\ fr2[d + 1].f = f /\ fr2[d + 1].frame = frame /\ DOMAIN fr2[d + 1].reg = {}
  BY <1>1 DEF Extends
<1>3. \A k \in 1 .. d + 1 : k \in 1 .. d \/ k = d + 1
  BY <1>1
<1>4. /\ DOMAIN m = 0 .. MemorySize - 1 /\ DOMAIN m2 = DOMAIN m /\ DOMAIN T = DOMAIN m
      /\ T = [c \in DOMAIN m2 |-> T[c]]
  BY DEF Memories
<1>5. ASSUME NEW k \in 1 .. d
      PROVE  d \in 1 .. d /\ Low(fr, k) \in Int /\ Low(fr, d) \in Int /\ Low(fr, d) <= Low(fr, k)
  <2>1. d \in 1 .. d
    BY <1>1
  <2>2. k < d => High(fr, d) <= Low(fr, k)
    BY <1>1, <2>1 DEF Layout
  <2>3. /\ Low(fr, d) \in Int /\ High(fr, d) \in Int /\ Low(fr, d) <= fr[d].frame
        /\ fr[d].frame + 3 <= High(fr, d) /\ fr[d].frame \in Int /\ Low(fr, k) \in Int
    BY <1>1, <2>1, FramePlace
  <2>4. k < d \/ k = d
    BY <1>1
  <2> QED
    BY <2>1, <2>2, <2>3, <2>4
<1>6. ASSUME NEW k \in 1 .. d, NEW c \in DOMAIN m, Low(fr, k) <= c
      PROVE  m2[c] = m[c] /\ T[c] = S[c]
  <2>1. c \notin DOMAIN cells
    BY <1>1, <1>4, <1>5, <1>6
  <2> QED
    BY <2>1
<1>7. ASSUME NEW k \in 1 .. d, NEW i \in DOMAIN fr[k].reg
      PROVE  Found(m2, sv, fr2, k, fr[k].reg[i], T[Spot(fr, k, i)])
  <2>1. PICK r, w : r = fr[k].reg[i] /\ w = S[Spot(fr, k, i)]
    OBVIOUS
  <2>2. Found(m, sv, fr, k, r, w)
    BY <1>1, <2>1 DEF IsStored
  <2>3. i \in 1 .. Size(fr, k)
    BY <1>1 DEF Registers
  <2>4. Spot(fr, k, i) \in DOMAIN m /\ Low(fr, k) <= Spot(fr, k, i)
    BY <1>1, <1>4, <2>3, SpotFacts
  <2>5. T[Spot(fr, k, i)] = w
    BY <1>6, <2>1, <2>4
  <2>6. \A l \in k + 1 .. d : l \in 1 .. d /\ fr2[l] = fr[l]
    BY <1>1, <1>2
  <2>7. ASSUME NEW j \in Int, j <= d, Untouched(fr, k, j, r)
        PROVE  Untouched(fr2, k, j, r)
    <3>1. \A l \in k + 1 .. j : l \in k + 1 .. d
      BY <1>1, <2>7
    <3> QED
      BY <2>6, <2>7, <3>1 DEF Untouched
  <2>8. CASE Untouched(fr, k, d, r) /\ w = sv[r] /\ r \in Recorded(f)
    <3>1. PICK n \in DOMAIN Uses[f] : Uses[f][n] = r
      BY <2>8 DEF Recorded
    <3>2. Untouched(fr2, k, d, r)
      BY <1>1, <2>7, <2>8
    <3>3. SaveSpot(fr2, d + 1, n) = SaveCell(f, n, frame)
      BY <1>2 DEF SaveSpot
    <3>4. SaveSpot(fr2, d + 1, n) \in 0 .. MemorySize - 1
      <4>1. d + 1 \in 1 .. Len(fr2) /\ n \in DOMAIN Uses[fr2[d + 1].f]
        BY <1>1, <1>2
      <4> QED
        BY <4>1, SaveSpotFacts
    <3>5. m2[SaveSpot(fr2, d + 1, n)] = sv[r]
      BY <1>4, <3>1, <3>3, <3>4
    <3>6. d + 1 \in k + 1 .. d + 1 /\ (d + 1) - 1 = d
      BY <1>1
    <3>7. Found(m2, sv, fr2, k, r, w)
      BY <1>1, <1>2, <2>8, <3>1, <3>2, <3>5, <3>6 DEF Found
    <3> QED
      BY <2>1, <2>5, <3>7
  <2>9. CASE Untouched(fr, k, d, r) /\ w = sv[r] /\ r \notin Recorded(f)
    <3>1. Untouched(fr2, k, d, r)
      BY <1>1, <2>7, <2>9
    <3>2. \A l \in k + 1 .. d + 1 : l \in k + 1 .. d \/ l = d + 1
      BY <1>1
    <3>3. Untouched(fr2, k, d + 1, r)
      BY <1>2, <2>9, <3>1, <3>2 DEF Untouched
    <3>4. Found(m2, sv, fr2, k, r, w)
      BY <1>2, <2>9, <3>3 DEF Found
    <3> QED
      BY <2>1, <2>5, <3>4
  <2>10. CASE \E j \in k + 1 .. d : \E n \in DOMAIN Uses[fr[j].f] :
                /\ Uses[fr[j].f][n] = r /\ Untouched(fr, k, j - 1, r)
                /\ w = m[SaveSpot(fr, j, n)]
    <3>1. PICK j \in k + 1 .. d : \E n \in DOMAIN Uses[fr[j].f] :
            /\ Uses[fr[j].f][n] = r /\ Untouched(fr, k, j - 1, r)
            /\ w = m[SaveSpot(fr, j, n)]
      BY <2>10
    <3>2. PICK n \in DOMAIN Uses[fr[j].f] :
            /\ Uses[fr[j].f][n] = r /\ Untouched(fr, k, j - 1, r)
            /\ w = m[SaveSpot(fr, j, n)]
      BY <3>1
    <3>3. j \in 1 .. d /\ fr2[j] = fr[j]
      BY <2>6
    <3>4. SaveSpot(fr, j, n) \in DOMAIN m /\ Low(fr, j) <= SaveSpot(fr, j, n)
      BY <1>1, <1>4, <3>3, SaveSpotFacts
    <3>5. m2[SaveSpot(fr, j, n)] = w
      BY <1>6, <3>2, <3>3, <3>4
    <3>6. SaveSpot(fr2, j, n) = SaveSpot(fr, j, n)
      BY <3>3 DEF SaveSpot
    <3>7. Untouched(fr2, k, j - 1, r)
      <4>1. j - 1 \in Int /\ j - 1 <= d
        BY <1>1
      <4> QED
        BY <2>7, <3>2, <4>1
    <3>8. j \in k + 1 .. d + 1
      BY <1>1
    <3>9. Found(m2, sv, fr2, k, r, w)
      BY <1>2, <3>2, <3>3, <3>5, <3>6, <3>7, <3>8 DEF Found
    <3> QED
      BY <2>1, <2>5, <3>9
  <2> QED
    BY <1>1, <2>2, <2>8, <2>9, <2>10 DEF Found
<1>8. ASSUME NEW k \in 1 .. d + 1, NEW i \in DOMAIN fr2[k].reg
      PROVE  Found(m2, sv, fr2, k, fr2[k].reg[i], T[Spot(fr2, k, i)])
  <2>1. k \in 1 .. d /\ fr2[k] = fr[k]
    BY <1>2, <1>3
  <2>2. Spot(fr2, k, i) = Spot(fr, k, i)
    BY <2>1 DEF Spot
  <2> QED
    BY <1>7, <2>1, <2>2
<1>9. ASSUME NEW c \in DOMAIN m2,
             \A k \in 1 .. d + 1 : \A i \in DOMAIN fr2[k].reg : Spot(fr2, k, i) # c
      PROVE  T[c] = m2[c]
  <2>1. \A k \in 1 .. d : k \in 1 .. d + 1 /\ fr2[k] = fr[k]
    BY <1>1, <1>2
  <2>2. \A k \in 1 .. d : \A i \in DOMAIN fr[k].reg : Spot(fr, k, i) # c
    BY <1>9, <2>1 DEF Spot
  <2>3. S[c] = m[c]
    BY <1>1, <1>4, <2>2 DEF IsStored
  <2> QED
    BY <1>4, <2>3
<1>10. \A k \in 1 .. Len(fr2) : \A i \in DOMAIN fr2[k].reg :
         Found(m2, sv, fr2, k, fr2[k].reg[i], T[Spot(fr2, k, i)])
  BY <1>2, <1>8
<1>11. \A c \in DOMAIN m2 :
         (\A k \in 1 .. Len(fr2) : \A i \in DOMAIN fr2[k].reg : Spot(fr2, k, i) # c) => T[c] = m2[c]
  BY <1>2, <1>9
<1>12. T = [c \in DOMAIN m2 |-> T[c]]
  BY <1>4
<1> QED
  BY <1>10, <1>11, <1>12 DEF IsStored

\* One call less.
Shortened(fr, fr2) ==
  /\ Len(fr2) = Len(fr) - 1 /\ DOMAIN fr2 = 1 .. Len(fr) - 1
  /\ \A k \in 1 .. Len(fr) - 1 : fr2[k] = fr[k]

\* The other frames are where they were.
LEMMA ShortenedLayout ==
  ASSUME NEW fr, NEW fr2, Layout(fr), Registers(fr), Shortened(fr, fr2), Len(fr) > 0
  PROVE  Layout(fr2) /\ Registers(fr2)
<1>1. PICK d \in Nat : d = Len(fr) - 1
  <2>1. Len(fr) \in Nat
    BY DEF Layout
  <2>2. Len(fr) - 1 \in Nat
    BY <2>1
  <2> QED
    BY <2>2
<1>2. Len(fr) = d + 1 /\ Len(fr2) = d /\ DOMAIN fr2 = 1 .. d /\ \A k \in 1 .. d : fr2[k] = fr[k]
  BY <1>1 DEF Shortened, Layout
<1>3. \A k \in 1 .. d : k \in 1 .. d + 1
  BY <1>1
<1>4. \A k \in 1 .. d : Low(fr2, k) = Low(fr, k) /\ High(fr2, k) = High(fr, k)
                        /\ Size(fr2, k) = Size(fr, k)
  BY <1>2 DEF Low, High, Size
<1>5. Layout(fr2)
  BY <1>1, <1>2, <1>3, <1>4 DEF Layout
<1>6. Registers(fr2)
  BY <1>2, <1>3, <1>4 DEF Registers
<1> QED
  BY <1>5, <1>6

\* The epilogue restores them, after the function's variables have been stored.
LEMMA Left ==
  ASSUME NEW fr, NEW fr2, Layout(fr), Registers(fr), Shortened(fr, fr2), Len(fr) > 0,
         NEW m \in Memories, NEW m2, NEW sv, NEW sv2, NEW S, IsStored(S, m, sv, fr),
         DOMAIN m2 = DOMAIN m,
         \A i \in DOMAIN fr[Len(fr)].reg :
           m2[Spot(fr, Len(fr), i)] = sv[fr[Len(fr)].reg[i]],
         \A c \in DOMAIN m :
           (\A i \in DOMAIN fr[Len(fr)].reg : Spot(fr, Len(fr), i) # c) => m2[c] = m[c],
         \A n \in DOMAIN Uses[fr[Len(fr)].f] :
           sv2[Uses[fr[Len(fr)].f][n]] = m2[SaveSpot(fr, Len(fr), n)],
         \A r \in SavedRegisters : r \notin Recorded(fr[Len(fr)].f) => sv2[r] = sv[r]
  PROVE  IsStored(S, m2, sv2, fr2)
<1>1. PICK d \in Nat : d = Len(fr) - 1
  <2>1. Len(fr) \in Nat
    BY DEF Layout
  <2>2. Len(fr) - 1 \in Nat
    BY <2>1
  <2> QED
    BY <2>2
<1>2. Len(fr) = d + 1 /\ Len(fr2) = d /\ DOMAIN fr2 = 1 .. d /\ \A k \in 1 .. d : fr2[k] = fr[k]
  BY <1>1 DEF Shortened, Layout
<1>3. /\ \A k \in 1 .. d : k \in 1 .. d + 1
      /\ \A k \in 1 .. d + 1 : k \in 1 .. d \/ k = d + 1
      /\ d + 1 \in 1 .. d + 1
  BY <1>1
<1>4. /\ DOMAIN m = 0 .. MemorySize - 1 /\ DOMAIN S = DOMAIN m
      /\ S = [c \in DOMAIN m2 |-> S[c]]
  BY DEF Memories, IsStored
<1>5. ASSUME NEW k \in 1 .. d + 1, NEW n \in DOMAIN Uses[fr[k].f]
      PROVE  m2[SaveSpot(fr, k, n)] = m[SaveSpot(fr, k, n)]
  <2>1. SaveSpot(fr, k, n) \in DOMAIN m
    BY <1>2, <1>4, SaveSpotFacts
  <2>2. ASSUME NEW i \in DOMAIN fr[d + 1].reg, Spot(fr, d + 1, i) = SaveSpot(fr, k, n)
        PROVE  FALSE
    <3>1. i \in 1 .. Size(fr, d + 1)
      BY <1>2, <1>3 DEF Registers
    <3> QED
      BY <1>2, <1>3, <2>2, <3>1, SavesDiffer
  <2> QED
    BY <1>2, <2>1, <2>2
<1>6. ASSUME NEW k \in 1 .. d, NEW i \in DOMAIN fr[k].reg
      PROVE  Found(m2, sv2, fr2, k, fr[k].reg[i], S[Spot(fr, k, i)])
  <2>1. PICK r, w : r = fr[k].reg[i] /\ w = S[Spot(fr, k, i)]
    OBVIOUS
  <2>2. Found(m, sv, fr, k, r, w)
    BY <1>2, <1>3, <2>1 DEF IsStored
  <2>3. r \in SavedRegisters
    <3>1. fr[k].f \in Functions /\ r \in Recorded(fr[k].f)
      BY <1>2, <1>3, <2>1 DEF Layout, Registers
    <3>2. Uses[fr[k].f] \in Seq(SavedRegisters)
      BY <3>1, FunctionsAssumption
    <3> QED
      BY <3>1, <3>2 DEF Recorded
  <2>4. \A l \in k + 1 .. d : l \in 1 .. d /\ fr2[l] = fr[l]
    BY <1>1, <1>2
  <2>5. ASSUME NEW j \in Int, j <= d, Untouched(fr, k, j, r)
        PROVE  Untouched(fr2, k, j, r)
    <3>1. \A l \in k + 1 .. j : l \in k + 1 .. d
      BY <1>1, <2>5
    <3> QED
      BY <2>4, <2>5, <3>1 DEF Untouched
  <2>6. CASE Untouched(fr, k, d + 1, r) /\ w = sv[r]
    <3>1. d + 1 \in k + 1 .. d + 1 /\ \A l \in k + 1 .. d : l \in k + 1 .. d + 1
      BY <1>1
    <3>2. r \notin Recorded(fr[d + 1].f) /\ Untouched(fr, k, d, r)
      BY <2>6, <3>1 DEF Untouched
    <3>3. sv2[r] = w
      BY <1>2, <2>3, <2>6, <3>2
    <3>4. Untouched(fr2, k, d, r)
      BY <1>1, <2>5, <3>2
    <3>5. Found(m2, sv2, fr2, k, r, w)
      BY <1>2, <3>3, <3>4 DEF Found
    <3> QED
      BY <2>1, <3>5
  <2>7. CASE \E j \in k + 1 .. d + 1 : \E n \in DOMAIN Uses[fr[j].f] :
               /\ Uses[fr[j].f][n] = r /\ Untouched(fr, k, j - 1, r)
               /\ w = m[SaveSpot(fr, j, n)]
    <3>1. PICK j \in k + 1 .. d + 1 : \E n \in DOMAIN Uses[fr[j].f] :
            /\ Uses[fr[j].f][n] = r /\ Untouched(fr, k, j - 1, r)
            /\ w = m[SaveSpot(fr, j, n)]
      BY <2>7
    <3>2. PICK n \in DOMAIN Uses[fr[j].f] :
            /\ Uses[fr[j].f][n] = r /\ Untouched(fr, k, j - 1, r)
            /\ w = m[SaveSpot(fr, j, n)]
      BY <3>1
    <3>3. j \in 1 .. d + 1 /\ j - 1 \in Int /\ j - 1 <= d
      BY <1>1
    <3>4. Untouched(fr2, k, j - 1, r)
      BY <2>5, <3>2, <3>3
    <3>5. m2[SaveSpot(fr, j, n)] = w
      BY <1>5, <3>2, <3>3
    <3>6. CASE j = d + 1
      <4>1. sv2[r] = w
        BY <1>2, <3>2, <3>5, <3>6
      <4>2. Untouched(fr2, k, d, r)
        BY <1>1, <3>4, <3>6
      <4>3. Found(m2, sv2, fr2, k, r, w)
        BY <1>2, <4>1, <4>2 DEF Found
      <4> QED
        BY <2>1, <4>3
    <3>7. CASE j # d + 1
      <4>1. j \in k + 1 .. d
        BY <1>1, <3>7
      <4>2. fr2[j] = fr[j]
        BY <2>4, <4>1
      <4>3. SaveSpot(fr2, j, n) = SaveSpot(fr, j, n)
        BY <4>2 DEF SaveSpot
      <4>4. Found(m2, sv2, fr2, k, r, w)
        BY <1>2, <3>2, <3>4, <3>5, <4>1, <4>2, <4>3 DEF Found
      <4> QED
        BY <2>1, <4>4
    <3> QED
      BY <3>6, <3>7
  <2> QED
    BY <1>2, <2>2, <2>6, <2>7 DEF Found
<1>7. ASSUME NEW k \in 1 .. d, NEW i \in DOMAIN fr2[k].reg
      PROVE  Found(m2, sv2, fr2, k, fr2[k].reg[i], S[Spot(fr2, k, i)])
  <2>1. fr2[k] = fr[k]
    BY <1>2
  <2>2. Spot(fr2, k, i) = Spot(fr, k, i)
    BY <2>1 DEF Spot
  <2> QED
    BY <1>6, <2>1, <2>2
<1>8. ASSUME NEW c \in DOMAIN m2,
             \A k \in 1 .. d : \A i \in DOMAIN fr2[k].reg : Spot(fr2, k, i) # c
      PROVE  S[c] = m2[c]
  <2>1. CASE \E i \in DOMAIN fr[d + 1].reg : Spot(fr, d + 1, i) = c
    <3>1. PICK i \in DOMAIN fr[d + 1].reg : Spot(fr, d + 1, i) = c
      BY <2>1
    <3>2. Found(m, sv, fr, d + 1, fr[d + 1].reg[i], S[c])
      BY <1>2, <1>3, <3>1 DEF IsStored
    <3>3. ~ \E j \in (d + 1) + 1 .. d + 1 : TRUE
      BY <1>1
    <3>4. S[c] = sv[fr[d + 1].reg[i]]
      BY <1>2, <3>2, <3>3 DEF Found
    <3> QED
      BY <1>2, <3>1, <3>4
  <2>2. CASE \A i \in DOMAIN fr[d + 1].reg : Spot(fr, d + 1, i) # c
    <3>1. ASSUME NEW k \in 1 .. d + 1, NEW i \in DOMAIN fr[k].reg, Spot(fr, k, i) = c
          PROVE  FALSE
      <4>1. CASE k = d + 1
        BY <2>2, <3>1, <4>1
      <4>2. CASE k \in 1 .. d
        <5>1. fr2[k] = fr[k]
          BY <1>2, <4>2
        <5> QED
          BY <1>8, <3>1, <4>2, <5>1 DEF Spot
      <4> QED
        BY <1>3, <4>1, <4>2
    <3>2. S[c] = m[c]
      BY <1>2, <3>1 DEF IsStored
    <3> QED
      BY <1>2, <2>2, <3>2
  <2> QED
    BY <2>1, <2>2
<1>9. \A k \in 1 .. Len(fr2) : \A i \in DOMAIN fr2[k].reg :
         Found(m2, sv2, fr2, k, fr2[k].reg[i], S[Spot(fr2, k, i)])
  BY <1>2, <1>7
<1>10. \A c \in DOMAIN m2 :
         (\A k \in 1 .. Len(fr2) : \A i \in DOMAIN fr2[k].reg : Spot(fr2, k, i) # c) => S[c] = m2[c]
  BY <1>2, <1>8
<1> QED
  BY <1>4, <1>9, <1>10 DEF IsStored

-----------------------------------------------------------------------------
(***************************************************************************)
(* What is always true                                                     *)
(***************************************************************************)

\* A sequence of records.
Typed(fr) ==
  /\ \E S : fr \in Seq(S)
  /\ \A k \in 1 .. Len(fr) : DOMAIN fr[k] = {"f", "frame", "reg", "owed"}

\* The saved frame pointers and return addresses tell the calls apart.
Chained(m, fr) ==
  \A k \in 1 .. Len(fr) - 1 :
    m[fr[k + 1].frame] = fr[k].frame /\ Sites[m[fr[k + 1].frame + 1]].caller = fr[k].f

\* Whatever register of a caller's no call has saved since, is known to be owed.
Owing(fr) ==
  \A l \in 1 .. Len(fr) : \A k \in 1 .. l - 1 : \A i \in DOMAIN fr[k].reg :
    Untouched(fr, k, l, fr[k].reg[i]) => fr[k].reg[i] \in fr[l].owed

\* The last frame is the one the frame pointer points to.
Topmost ==
  /\ Len(frames) = Len(scope)
  /\ Len(frames) > 0 => frames[Len(frames)].frame = fp /\ frames[Len(frames)].f = P!Current

\* What frames says of the stack.
Known ==
  /\ Layout(frames) /\ Registers(frames) /\ Typed(frames) /\ Owing(frames)
  /\ Chained(mem, frames) /\ Topmost

\* Until a register of a caller's is spoilt.
KInv == TypeOK /\ (Spoilt => StackBalanced) /\ (~Spoilt => P!JInv /\ Known)

\* The frames below the last one.
LEMMA LowestIs ==
  ASSUME NEW fr, Layout(fr), NEW k \in 1 .. Len(fr)
  PROVE  Low(fr, Len(fr)) <= Low(fr, k) /\ Len(fr) \in 1 .. Len(fr) /\ Low(fr, Len(fr)) \in Int
<1>1. Len(fr) \in Nat /\ Len(fr) \in 1 .. Len(fr) /\ (k < Len(fr) \/ k = Len(fr))
  <2>1. Len(fr) \in Nat
    BY DEF Layout
  <2> QED
    BY <2>1
<1>2. k < Len(fr) => High(fr, Len(fr)) <= Low(fr, k)
  BY <1>1 DEF Layout
<1>3. /\ Low(fr, Len(fr)) \in Int /\ High(fr, Len(fr)) \in Int
      /\ Low(fr, Len(fr)) <= fr[Len(fr)].frame /\ fr[Len(fr)].frame + 3 <= High(fr, Len(fr))
      /\ fr[Len(fr)].frame \in Int /\ Low(fr, k) \in Int
  BY <1>1, FramePlace
<1> QED
  BY <1>1, <1>2, <1>3

\* Where links are.
LEMMA LinkFacts ==
  ASSUME NEW fr, Layout(fr), NEW l \in 1 .. Len(fr)
  PROVE  /\ fr[l].frame \in 0 .. MemorySize - 1 /\ fr[l].frame + 1 \in 0 .. MemorySize - 1
         /\ Low(fr, l) <= fr[l].frame /\ Low(fr, l) \in Int
<1>1. /\ Low(fr, l) \in Int /\ High(fr, l) \in Int
      /\ fr[l].frame + 3 <= High(fr, l) /\ fr[l].frame \in Int /\ Low(fr, l) <= fr[l].frame
  BY FramePlace
<1>2. 0 <= Low(fr, l) /\ High(fr, l) <= MemorySize + 1 /\ MemorySize \in Nat
  BY MemoryAssumption DEF Layout
<1> QED
  BY <1>1, <1>2

\* Links are not where variables are.
LEMMA LinkPlace ==
  ASSUME NEW fr, Layout(fr), NEW k \in 1 .. Len(fr), NEW i \in 1 .. Size(fr, k),
         NEW l \in 1 .. Len(fr)
  PROVE  Spot(fr, k, i) # fr[l].frame /\ Spot(fr, k, i) # fr[l].frame + 1
<1>1. PICK c, lk, hk, ll, hl, x :
        /\ c = Spot(fr, k, i) /\ lk = Low(fr, k) /\ hk = High(fr, k)
        /\ ll = Low(fr, l) /\ hl = High(fr, l) /\ x = fr[l].frame
  OBVIOUS
<1>2. /\ lk <= c /\ c < hk /\ c \in Int /\ lk \in Int /\ hk \in Int /\ ll \in Int /\ hl \in Int
      /\ x + 3 <= hl /\ x \in Int /\ ll <= x
  BY <1>1, SpotFacts, FramePlace
<1>3. CASE k < l
  <2>1. hl <= lk
    BY <1>1, <1>3 DEF Layout
  <2>2. c # x /\ c # x + 1
    BY <1>2, <2>1
  <2> QED
    BY <1>1, <2>2
<1>4. CASE l < k
  <2>1. hk <= ll
    BY <1>1, <1>4 DEF Layout
  <2>2. c # x /\ c # x + 1
    BY <1>2, <2>1
  <2> QED
    BY <1>1, <2>2
<1>5. CASE k = l
  BY <1>5, SpotFacts
<1>6. k < l \/ l < k \/ k = l
  BY DEF Layout
<1> QED
  BY <1>3, <1>4, <1>5, <1>6

\* Nor is anything else below the frames, or the heap.
LEMMA StoredBelow ==
  ASSUME Layout(frames), Registers(frames), mem \in Memories, Len(frames) > 0
  PROVE  /\ \A c \in 0 .. MemorySize - 1 : c < Low(frames, Len(frames)) => Stored[c] = mem[c]
         /\ \A l \in 1 .. Len(frames) :
              /\ Stored[frames[l].frame] = mem[frames[l].frame]
              /\ Stored[frames[l].frame + 1] = mem[frames[l].frame + 1]
<1>1. IsStored(Stored, mem, saved, frames) /\ DOMAIN mem = 0 .. MemorySize - 1
  BY StoredIs DEF Memories
<1>2. ASSUME NEW c \in 0 .. MemorySize - 1, c < Low(frames, Len(frames))
      PROVE  Stored[c] = mem[c]
  <2>1. ASSUME NEW k \in 1 .. Len(frames), NEW i \in DOMAIN frames[k].reg,
               Spot(frames, k, i) = c
        PROVE  FALSE
    <3>1. i \in 1 .. Size(frames, k)
      BY DEF Registers
    <3>2. Low(frames, k) <= c /\ Low(frames, k) \in Int
      BY <2>1, <3>1, SpotFacts, FramePlace
    <3> QED
      BY <1>2, <3>2, LowestIs
  <2> QED
    BY <1>1, <2>1 DEF IsStored
<1>3. ASSUME NEW l \in 1 .. Len(frames), NEW c, c = frames[l].frame \/ c = frames[l].frame + 1
      PROVE  Stored[c] = mem[c]
  <2>1. c \in 0 .. MemorySize - 1
    BY <1>3, LinkFacts
  <2>2. \A k \in 1 .. Len(frames) : \A i \in DOMAIN frames[k].reg : Spot(frames, k, i) # c
    BY <1>3, LinkPlace DEF Registers
  <2> QED
    BY <1>1, <2>1, <2>2 DEF IsStored
<1> QED
  BY <1>2, <1>3

\* getRegister finds the variable's value, wherever it is.
LEMMA ValueIs ==
  ASSUME Layout(frames), Registers(frames), mem \in Memories, Len(frames) > 0,
         frames[Len(frames)].frame = fp, frames[Len(frames)].f = here
  PROVE  \A i \in 1 .. Len(Kinds[here]) : Value(i) = Stored[Cell(here, i, fp)]
<1> SUFFICES ASSUME NEW i \in 1 .. Len(Kinds[here])
             PROVE  Value(i) = Stored[Cell(here, i, fp)]
  OBVIOUS
<1>1. PICK d : d = Len(frames)
  OBVIOUS
<1>2. d \in Nat /\ d \in 1 .. d
  BY <1>1 DEF Layout
<1>3. /\ IsStored(Stored, mem, saved, frames) /\ DOMAIN mem = 0 .. MemorySize - 1
      /\ Size(frames, d) = Len(Kinds[here]) /\ Spot(frames, d, i) = Cell(here, i, fp)
      /\ Top = frames[d] /\ Held = DOMAIN frames[d].reg
  BY <1>1, StoredIs DEF Memories, Size, Spot, Top, Held
<1>4. CASE i \in Held
  <2>1. Found(mem, saved, frames, d, frames[d].reg[i], Stored[Spot(frames, d, i)])
    BY <1>1, <1>2, <1>3, <1>4 DEF IsStored
  <2>2. ~ \E j \in d + 1 .. d : TRUE
    BY <1>2
  <2>3. Stored[Spot(frames, d, i)] = saved[frames[d].reg[i]]
    BY <1>1, <2>1, <2>2 DEF Found
  <2> QED
    BY <1>3, <1>4, <2>3 DEF Value
<1>5. CASE i \notin Held
  <2>1. Spot(frames, d, i) \in DOMAIN mem
    BY <1>1, <1>2, <1>3, SpotFacts
  <2>2. ASSUME NEW k \in 1 .. d, NEW j \in DOMAIN frames[k].reg,
               Spot(frames, k, j) = Spot(frames, d, i)
        PROVE  FALSE
    <3>1. j \in 1 .. Size(frames, k)
      BY <1>1 DEF Registers
    <3>2. k = d /\ j = i
      BY <1>1, <1>2, <1>3, <2>2, <3>1, SpotsDiffer
    <3> QED
      BY <1>3, <1>5, <3>2
  <2>3. Stored[Spot(frames, d, i)] = mem[Spot(frames, d, i)]
    BY <1>1, <1>3, <2>1, <2>2 DEF IsStored
  <2> QED
    BY <1>3, <1>5, <2>3 DEF Value
<1> QED
  BY <1>4, <1>5

\* Calls are from functions to functions, with variables of the right kind.
LEMMA SiteIs ==
  \A s \in DOMAIN Sites :
    /\ s \in Nat \ {0} /\ Sites[s].caller \in Functions /\ Sites[s].callee \in Functions
    /\ Sites[s].args \in Seq(Nat) /\ DOMAIN Sites[s].args = 1 .. Params[Sites[s].callee]
    /\ \A n \in 1 .. Params[Sites[s].callee] :
         /\ Sites[s].args[n] \in DOMAIN Kinds[Sites[s].caller]
         /\ Kinds[Sites[s].caller][Sites[s].args[n]] = Kinds[Sites[s].callee][n]
    /\ Sites[s].dest \in Nat
    /\ Sites[s].dest # 0 => /\ Sites[s].dest \in DOMAIN Kinds[Sites[s].caller]
                            /\ Kinds[Sites[s].caller][Sites[s].dest] = Returns[Sites[s].callee]
BY Assumptions, P!SiteFacts

\* What a call needs on the stack.
LEMMA RequiredIs ==
  ASSUME NEW f \in Functions
  PROVE  /\ RequiredSize(f) \in Nat /\ RequiredSize(f) > 0 /\ InRegisters(f) \in Nat
         /\ Params[f] \in Nat /\ InRegisters(f) <= Params[f]
         /\ RequiredSize(f) = 1 + Params[f] - InRegisters(f)
<1>1. Params[f] \in Nat /\ ParamRegisters \in Nat
  BY FunctionsAssumption, MemoryAssumption
<1> QED
  BY <1>1 DEF RequiredSize, InRegisters

\* While a function runs or is called back.
Inside == doing.step \in {"body", "returned"} \cup P!CopySteps

\* Its frame is the last one.
LEMMA Within ==
  ASSUME TypeOK, P!JInv, Known, Inside
  PROVE  /\ Len(frames) \in Nat /\ Len(frames) > 0 /\ Len(frames) \in 1 .. Len(frames)
         /\ frames[Len(frames)].frame = fp /\ frames[Len(frames)].f = here
         /\ Top = frames[Len(frames)] /\ Held = DOMAIN frames[Len(frames)].reg
         /\ here \in Functions /\ fp \in Int /\ gp \in Int /\ sp \in Int
         /\ mem \in Memories /\ Stored \in Memories /\ saved \in [SavedRegisters -> Int]
         /\ DOMAIN Kinds[here] = 1 .. Len(Kinds[here]) /\ Len(Kinds[here]) \in Nat
         /\ Size(frames, Len(frames)) = Len(Kinds[here])
         /\ \A i : Spot(frames, Len(frames), i) = Cell(here, i, fp)
         /\ Low(frames, Len(frames)) = P!Bottom(here, fp)
         /\ Low(frames, Len(frames)) \in Int
         /\ doing.step # "returned" => sp = Low(frames, Len(frames))
         /\ doing.step = "returned" =>
              /\ ra \in DOMAIN Sites /\ Sites[ra].caller = here
              /\ sp + RequiredSize(Sites[ra].callee) = Low(frames, Len(frames))
<1>1. PICK d : d = Len(frames)
  OBVIOUS
<1>2. P!IInv /\ P!TypeOK
  BY DEF P!JInv, P!IInv
<1>3. \E x, F, G, H : P!At(x, F, G, H)
  BY <1>2 DEF P!IInv, P!At
<1>4. PICK x, F, G, H : P!At(x, F, G, H)
  BY <1>3
<1>5. /\ x = Len(scope) /\ P!Position(x, F, G, H) /\ d = x /\ d \in Nat
  BY <1>1, <1>4 DEF P!At, P!Depth, Known, Topmost, Layout
<1>6. /\ doing.step = "body" => P!Running(d, F, G)
      /\ doing.step \in P!CopySteps => P!Running(d, F, G)
      /\ doing.step = "returned" => P!Returning(d, F, G, H)
  BY <1>5 DEF P!Position, P!Copying
<1>7. /\ d > 0 /\ fp = F[d] /\ here = G[d]
      /\ doing.step # "returned" => sp = P!Bottom(here, fp)
      /\ doing.step = "returned" =>
           /\ ra \in DOMAIN Sites /\ Sites[ra].caller = here
           /\ sp = P!Bottom(here, fp) - P!RequiredSize(Sites[ra].callee)
  BY <1>6 DEF Inside, P!Running, P!Returning
<1>8. here \in Functions /\ fp \in Int /\ gp \in Int /\ sp \in Int
      /\ mem \in Memories /\ Stored \in Memories /\ saved \in [SavedRegisters -> Int]
  BY <1>2 DEF TypeOK, P!TypeOK, Memories
<1>9. P!Current = here
  BY DEF Inside, P!Current, P!CopySteps
<1>10. frames[d].frame = fp /\ frames[d].f = here /\ d \in 1 .. d
  BY <1>1, <1>5, <1>7, <1>9 DEF Known, Topmost
<1>11. DOMAIN Kinds[here] = 1 .. Len(Kinds[here]) /\ Len(Kinds[here]) \in Nat
  <2>1. Kinds[here] \in Seq({"word", "string"})
    BY <1>8, FunctionsAssumption
  <2> QED
    BY <2>1
<1>12. P!Bottom(here, fp) \in Int
  BY <1>8, ExtentFacts
<1>13. doing.step = "returned" => sp + RequiredSize(Sites[ra].callee) = P!Bottom(here, fp)
  <2>1. SUFFICES ASSUME doing.step = "returned"
                 PROVE  sp + RequiredSize(Sites[ra].callee) = P!Bottom(here, fp)
    OBVIOUS
  <2>2. Sites[ra].callee \in Functions
    BY <1>7, <2>1, SiteIs
  <2>3. RequiredSize(Sites[ra].callee) \in Int
    BY <2>2, RequiredIs
  <2>4. sp = P!Bottom(here, fp) - RequiredSize(Sites[ra].callee)
    BY <1>7, <2>1, SameLayout
  <2> QED
    BY <1>12, <2>3, <2>4
<1>14. /\ Size(frames, d) = Len(Kinds[here])
       /\ \A i : Spot(frames, d, i) = Cell(here, i, fp)
       /\ Low(frames, d) = P!Bottom(here, fp)
       /\ Top = frames[d] /\ Held = DOMAIN frames[d].reg
  BY <1>1, <1>10 DEF Size, Spot, Low, Top, Held
<1> QED
  BY <1>1, <1>5, <1>7, <1>8, <1>10, <1>11, <1>12, <1>13, <1>14

\* Frames stay known while the links on the stack stay.
LEMMA KnownStays ==
  ASSUME Known, Len(frames) > 0, Alike(frames, frames'), Registers(frames'), Typed(frames'),
         Owing(frames'), fp' = fp, P!Current' = P!Current, Len(scope') = Len(scope),
         \A c \in 0 .. MemorySize - 1 :
           /\ c >= Low(frames, Len(frames))
           /\ \A i \in 1 .. Size(frames, Len(frames)) : Spot(frames, Len(frames), i) # c
           => mem'[c] = mem[c]
  PROVE  Known'
<1>1. PICK d : d = Len(frames)
  OBVIOUS
<1>2. /\ d \in Nat /\ d \in 1 .. d /\ Len(frames') = d
      /\ \A k \in 1 .. d : frames'[k].f = frames[k].f /\ frames'[k].frame = frames[k].frame
  BY <1>1 DEF Known, Layout, Alike
<1>3. Layout(frames')
  BY AlikeFacts DEF Known
<1>4. ASSUME NEW k \in 1 .. d, NEW c, c = frames[k].frame \/ c = frames[k].frame + 1
      PROVE  mem'[c] = mem[c]
  <2>1. Layout(frames)
    BY DEF Known
  <2>2. /\ c \in 0 .. MemorySize - 1 /\ Low(frames, k) <= frames[k].frame
        /\ Low(frames, k) \in Int /\ frames[k].frame \in Int
    BY <1>1, <1>4, <2>1, LinkFacts
  <2>3. Low(frames, d) <= Low(frames, k) /\ Low(frames, d) \in Int
    BY <1>1, <2>1, LowestIs
  <2>4. c >= Low(frames, d)
    BY <1>4, <2>2, <2>3
  <2>5. \A i \in 1 .. Size(frames, d) : Spot(frames, d, i) # c
    BY <1>1, <1>2, <1>4, <2>1, LinkPlace
  <2> QED
    BY <1>1, <2>2, <2>4, <2>5
<1>5. Chained(mem', frames')
  <2>1. \A k \in 1 .. d - 1 : k \in 1 .. d /\ k + 1 \in 1 .. d
    BY <1>2
  <2>2. ASSUME NEW k \in 1 .. d - 1
        PROVE  /\ mem'[frames'[k + 1].frame] = frames'[k].frame
               /\ Sites[mem'[frames'[k + 1].frame + 1]].caller = frames'[k].f
    <3>1. /\ mem[frames[k + 1].frame] = frames[k].frame
          /\ Sites[mem[frames[k + 1].frame + 1]].caller = frames[k].f
      BY <1>1 DEF Known, Chained
    <3>2. /\ frames'[k + 1].frame = frames[k + 1].frame
          /\ frames'[k].frame = frames[k].frame /\ frames'[k].f = frames[k].f
      BY <1>2, <2>1
    <3>3. k + 1 \in 1 .. d
      BY <2>1
    <3>4. /\ mem'[frames[k + 1].frame] = mem[frames[k + 1].frame]
          /\ mem'[frames[k + 1].frame + 1] = mem[frames[k + 1].frame + 1]
      BY <1>4, <3>3
    <3> QED
      BY <3>1, <3>2, <3>4
  <2> QED
    BY <1>2, <2>2 DEF Chained
<1>6. Topmost'
  BY <1>1, <1>2 DEF Known, Topmost
<1> QED
  BY <1>3, <1>5, <1>6 DEF Known

\* What a step in a function leaves in the cells, if it maps no variable anew.
LEMMA Unmoved ==
  ASSUME TypeOK, P!JInv, Known, Inside, frames' = frames, mem' \in Memories, fp' = fp,
         P!Current' = P!Current, Len(scope') = Len(scope), NEW T, NEW I,
         Rewritten(mem, mem', saved, saved', frames, frames, Stored, T, I)
  PROVE  Stored' = T /\ Known'
<1>1. /\ Layout(frames) /\ Registers(frames) /\ Typed(frames) /\ Owing(frames)
      /\ mem \in Memories /\ Len(frames) > 0
  BY Within DEF Known
<1>2. Alike(frames, frames)
  BY DEF Alike
<1>3. IsStored(Stored, mem, saved, frames)
  BY <1>1, StoredIs
<1>4. IsStored(T, mem', saved', frames)
  BY <1>1, <1>2, <1>3, Restored
<1>5. Layout(frames') /\ Registers(frames') /\ IsStored(T, mem', saved', frames')
  BY <1>1, <1>4
<1>6. Stored' = T
  BY <1>5, StoredIsNext
<1>7. I \subseteq 1 .. Size(frames, Len(frames)) /\ DOMAIN mem = 0 .. MemorySize - 1
  BY <1>1 DEF Rewritten, Memories
<1>8. \A c \in 0 .. MemorySize - 1 :
        /\ c >= Low(frames, Len(frames))
        /\ \A i \in 1 .. Size(frames, Len(frames)) : Spot(frames, Len(frames), i) # c
        => mem'[c] = mem[c]
  <2>1. \A c \in DOMAIN mem :
          c >= Low(frames, Len(frames)) /\ (\A i \in I : Spot(frames, Len(frames), i) # c)
            => mem'[c] = mem[c]
    BY DEF Rewritten
  <2> QED
    BY <1>7, <2>1
<1>9. Alike(frames, frames') /\ Registers(frames') /\ Typed(frames') /\ Owing(frames')
  BY <1>1, <1>2
<1>10. Known'
  BY <1>1, <1>8, <1>9, KnownStays
<1> QED
  BY <1>6, <1>10

\* Variables are in callee-saved registers.
LEMMA RegisterFacts ==
  ASSUME NEW fr, Layout(fr), Registers(fr), NEW k \in 1 .. Len(fr), NEW i \in DOMAIN fr[k].reg
  PROVE  /\ fr[k].reg[i] \in SavedRegisters /\ fr[k].reg[i] \in Recorded(fr[k].f)
         /\ i \in 1 .. Size(fr, k)
         /\ \A j \in DOMAIN fr[k].reg : fr[k].reg[j] = fr[k].reg[i] => j = i
<1>1. fr[k].f \in Functions
  BY DEF Layout
<1>2. Uses[fr[k].f] \in Seq(SavedRegisters)
  BY <1>1, FunctionsAssumption
<1>3. fr[k].reg[i] \in Recorded(fr[k].f)
  BY DEF Registers
<1>4. fr[k].reg[i] \in SavedRegisters
  BY <1>2, <1>3 DEF Recorded
<1> QED
  BY <1>3, <1>4 DEF Registers

\* A register that no call has saved is none of the last call's.
LEMMA UntouchedLast ==
  ASSUME NEW fr, Layout(fr), NEW k \in 1 .. Len(fr) - 1, NEW r, Untouched(fr, k, Len(fr), r)
  PROVE  r \notin Recorded(fr[Len(fr)].f)
<1>1. Len(fr) \in Nat
  BY DEF Layout
<1>2. Len(fr) \in k + 1 .. Len(fr)
  BY <1>1
<1> QED
  BY <1>2 DEF Untouched

\* A result goes to the variable's register or to its cell: in the end it is in the cell.
LEMMA ResultIs ==
  ASSUME TypeOK, P!JInv, Known, Inside, NEW i \in 1 .. Len(Kinds[here]), NEW v \in Int,
         NEW heap, \A c \in DOMAIN heap : c \in Int /\ c < Low(frames, Len(frames)) /\ heap[c] \in Int,
         Result(i, v, heap), frames' = frames, fp' = fp, here' = here, doing'.step # "enter"
  PROVE  /\ mem' \in Memories /\ saved' \in [SavedRegisters -> Int] /\ Known' /\ Assigned(i)
         /\ Stored' = [c \in DOMAIN Stored |->
                         IF c \in DOMAIN heap THEN heap[c]
                         ELSE IF c = Cell(here, i, fp) THEN v ELSE Stored[c]]
<1>1. PICK d, x, T :
        /\ d = Len(frames) /\ x = Cell(here, i, fp)
        /\ T = [c \in DOMAIN Stored |->
                  IF c \in DOMAIN heap THEN heap[c] ELSE IF c = x THEN v ELSE Stored[c]]
  OBVIOUS
<1>2. /\ d \in Nat /\ d > 0 /\ d \in 1 .. d /\ mem \in Memories /\ Stored \in Memories
      /\ Held = DOMAIN frames[d].reg /\ Top = frames[d]
      /\ Size(frames, d) = Len(Kinds[here]) /\ \A j : Spot(frames, d, j) = Cell(here, j, fp)
      /\ Low(frames, d) \in Int /\ saved \in [SavedRegisters -> Int]
  BY <1>1, Within
<1>3. Layout(frames) /\ Registers(frames)
  BY DEF Known
<1>4. x = Spot(frames, d, i) /\ x \in 0 .. MemorySize - 1 /\ Low(frames, d) <= x
  BY <1>1, <1>2, <1>3, SpotFacts
<1>5. DOMAIN mem = 0 .. MemorySize - 1 /\ DOMAIN Stored = 0 .. MemorySize - 1
  BY <1>2 DEF Memories
<1>6. mem' = [c \in DOMAIN mem |->
                IF c \in DOMAIN heap THEN heap[c]
                ELSE IF c = x /\ i \notin Held THEN v ELSE mem[c]]
  <2>1. /\ Write([c \in DOMAIN heap \cup {Cell(here, j, fp) : j \in {i} \ Held} |->
                    IF c \in DOMAIN heap THEN heap[c] ELSE v])
    BY DEF Result
  <2>2. \A c : c \in {Cell(here, j, fp) : j \in {i} \ Held} <=> (c = x /\ i \notin Held)
    BY <1>1
  <2> QED
    BY <2>1, <2>2 DEF Write
<1>7. mem' \in Memories
  <2>1. \A c \in 0 .. MemorySize - 1 : mem'[c] \in Int
    BY <1>2, <1>5, <1>6 DEF Memories
  <2> QED
    BY <1>5, <1>6, <2>1 DEF Memories
<1>8. saved' = [r \in SavedRegisters |-> IF i \in Held /\ Top.reg[i] = r THEN v ELSE saved[r]]
  BY DEF Result
<1>9. saved' \in [SavedRegisters -> Int]
  BY <1>2, <1>8
<1>10. Assigned(i)
  BY DEF Result
<1>11. Len(scope') = Len(scope)
  <2>1. scope \in Seq(SUBSET Nat)
    BY DEF TypeOK
  <2> QED
    BY <1>10, <2>1 DEF Assigned
<1>12. P!Current' = P!Current
  BY DEF P!Current, Inside, P!CopySteps
<1>13. Rewritten(mem, mem', saved, saved', frames, frames, Stored, T, {i})
  <2>1. DOMAIN mem' = DOMAIN mem /\ T = [c \in DOMAIN mem |-> T[c]]
    BY <1>1, <1>5, <1>6
  <2>2. {i} \in SUBSET (1 .. Size(frames, d))
    BY <1>2
  <2>3. ASSUME NEW c \in DOMAIN mem, c >= Low(frames, d), \A j \in {i} : Spot(frames, d, j) # c
        PROVE  mem'[c] = mem[c] /\ T[c] = Stored[c]
    <3>1. c # x /\ c \notin DOMAIN heap /\ c \in DOMAIN Stored
      BY <1>1, <1>2, <1>4, <1>5, <2>3
    <3> QED
      BY <1>1, <1>6, <3>1
  <2>4. ASSUME NEW c \in DOMAIN mem, c < Low(frames, d)
        PROVE  T[c] = mem'[c]
    <3>1. c # x /\ c \in DOMAIN Stored /\ c \in 0 .. MemorySize - 1
      BY <1>2, <1>4, <1>5, <2>4
    <3>2. Stored[c] = mem[c]
      BY <1>1, <1>2, <1>3, <2>4, <3>1, StoredBelow
    <3> QED
      BY <1>1, <1>6, <3>1, <3>2
  <2>5. T[x] = v
    <3>1. x \notin DOMAIN heap /\ x \in DOMAIN Stored
      BY <1>1, <1>2, <1>4, <1>5
    <3> QED
      BY <1>1, <3>1
  <2>6. T[Spot(frames, d, i)] = IF i \in DOMAIN frames[d].reg THEN saved'[frames[d].reg[i]]
                               ELSE mem'[Spot(frames, d, i)]
    <3>1. CASE i \in DOMAIN frames[d].reg
      <4>1. frames[d].reg[i] \in SavedRegisters
        BY <1>1, <1>2, <1>3, <3>1, RegisterFacts
      <4>2. saved'[frames[d].reg[i]] = v
        BY <1>2, <1>8, <3>1, <4>1
      <4> QED
        BY <1>4, <2>5, <3>1, <4>2
    <3>2. CASE i \notin DOMAIN frames[d].reg
      <4>1. x \notin DOMAIN heap /\ x \in DOMAIN mem
        BY <1>1, <1>2, <1>4, <1>5
      <4>2. mem'[x] = v
        BY <1>2, <1>6, <3>2, <4>1
      <4> QED
        BY <1>4, <2>5, <3>2, <4>2
    <3> QED
      BY <3>1, <3>2
  <2>7. ASSUME NEW j \in 1 .. Size(frames, d), j \notin {i}, j \in DOMAIN frames[d].reg
        PROVE  saved'[frames[d].reg[j]] = saved[frames[d].reg[j]]
    <3>1. frames[d].reg[j] \in SavedRegisters
      BY <1>1, <1>2, <1>3, <2>7, RegisterFacts
    <3>2. i \in Held => Top.reg[i] # frames[d].reg[j]
      BY <1>1, <1>2, <1>3, <2>7, RegisterFacts
    <3> QED
      BY <1>8, <3>1, <3>2
  <2>8. ASSUME NEW k \in 1 .. d - 1, NEW j \in DOMAIN frames[k].reg,
               Untouched(frames, k, d, frames[k].reg[j])
        PROVE  saved'[frames[k].reg[j]] = saved[frames[k].reg[j]]
    <3>1. k \in 1 .. d
      BY <1>2
    <3>2. frames[k].reg[j] \in SavedRegisters
      BY <1>1, <1>3, <3>1, RegisterFacts
    <3>3. frames[k].reg[j] \notin Recorded(frames[d].f)
      BY <1>1, <1>3, <2>8, UntouchedLast
    <3>4. i \in Held => Top.reg[i] \in Recorded(frames[d].f)
      BY <1>1, <1>2, <1>3, RegisterFacts
    <3> QED
      BY <1>8, <3>2, <3>3, <3>4
  <2> QED
    BY <1>1, <2>1, <2>2, <2>3, <2>4, <2>6, <2>7, <2>8 DEF Rewritten
<1>14. Stored' = T /\ Known'
  BY <1>7, <1>11, <1>12, <1>13, Unmoved
<1> QED
  BY <1>1, <1>7, <1>9, <1>10, <1>14

\* Once the step is known to be one of HomeFrame's, the rest follows from what has been
\* proved of it.
LEMMA Conclude ==
  ASSUME [P!Next]_(P!vars), TypeOK, P!JInv, Known', mem' \in Memories, left' \in Nat
  PROVE  KInv' /\ P!Simulated
<1>1. P!JInv' /\ P!Simulated
  BY Assumptions, P!StepRefines
<1>2. P!TypeOK'
  BY <1>1 DEF P!JInv, P!IInv
<1>3. /\ {sp', fp', ra', gp', v0', v1'} \subseteq Int
      /\ Base <= gp' /\ gp' <= sp' /\ sp' <= fp' /\ fp' <= MemorySize
      /\ args' \in [1 .. ParamRegisters -> Int] /\ saved' \in [SavedRegisters -> Int]
      /\ here' \in Functions /\ scope' \in Seq(SUBSET Nat)
      /\ doing' \in [step : {"enter", "body", "first", "join", "second", "set", "place", "finish",
                             "receive", "received", "returned", "stopped"},
                     dest : Nat, at : Int, x : Int, c : Int]
  BY <1>2, SameLayout DEF P!TypeOK
<1>4. doing' \in [step : {"enter", "body", "first", "join", "second", "set", "place", "finish",
                          "receive", "received", "returned", "stopped", "spoilt"},
                  dest : Nat, at : Int, x : Int, c : Int] /\ doing'.step # "spoilt"
  BY <1>3
<1>5. Len(frames') = Len(scope') /\ DOMAIN frames' = 1 .. Len(frames')
      /\ Layout(frames') /\ Registers(frames')
  BY DEF Known, Topmost, Layout
<1>6. ASSUME NEW k \in DOMAIN frames'
      PROVE  /\ DOMAIN frames'[k].reg \subseteq DOMAIN Kinds[frames'[k].f]
             /\ InUse(frames'[k]) \subseteq Recorded(frames'[k].f)
  <2>1. k \in 1 .. Len(frames')
    BY <1>5
  <2>2. frames'[k].f \in Functions
    BY <1>5, <2>1 DEF Layout
  <2>3. Kinds[frames'[k].f] \in Seq({"word", "string"})
    BY <2>2, FunctionsAssumption
  <2>4. DOMAIN Kinds[frames'[k].f] = 1 .. Size(frames', k)
    BY <2>3 DEF Size
  <2>5. \A i \in DOMAIN frames'[k].reg :
          i \in 1 .. Size(frames', k) /\ frames'[k].reg[i] \in Recorded(frames'[k].f)
    BY <1>5, <2>1 DEF Registers
  <2> QED
    BY <2>4, <2>5 DEF InUse
<1>7. TypeOK'
  BY <1>3, <1>4, <1>5, <1>6 DEF TypeOK, Memories
<1>8. ~ Spoilt'
  BY <1>4 DEF Spoilt
<1> QED
  BY <1>1, <1>7, <1>8 DEF KInv

-----------------------------------------------------------------------------
(***************************************************************************)
(* Every step is one of HomeFrame's                                        *)
(***************************************************************************)

\* What is known before a step, and what a step leaves.
Ready == TypeOK /\ P!JInv /\ Known
Fits == Known' /\ mem' \in Memories /\ left' \in Nat

\* A statement is counted.
LEMMA Counted ==
  ASSUME TypeOK, Count
  PROVE  left' \in Nat
BY DEF TypeOK, Count

\* Neither memory nor registers change.
LEMMA QuietStep ==
  ASSUME Ready, Inside, UNCHANGED <<mem, saved, frames, fp, here, scope>>, doing'.step # "enter"
  PROVE  Stored' = Stored /\ Known' /\ mem' \in Memories
<1>1. P!Current' = P!Current
  BY DEF P!Current, Inside, P!CopySteps
<1>2. Known'
  BY <1>1 DEF Ready, Known, Topmost
<1>3. Stored' = Stored
  BY DEF Stored, Away, CellOf, Register
<1> QED
  BY <1>2, <1>3, Within DEF Ready

\* Only the heap changes.
LEMMA HeapIs ==
  ASSUME Ready, Inside, NEW heap,
         \A c \in DOMAIN heap : c \in Int /\ c < Low(frames, Len(frames)) /\ heap[c] \in Int,
         Write(heap), UNCHANGED <<saved, frames, fp>>, Len(scope') = Len(scope),
         P!Current' = P!Current
  PROVE  /\ mem' \in Memories /\ Known'
         /\ Stored' = [c \in DOMAIN Stored |-> IF c \in DOMAIN heap THEN heap[c] ELSE Stored[c]]
<1>1. PICK d, T :
        /\ d = Len(frames)
        /\ T = [c \in DOMAIN Stored |-> IF c \in DOMAIN heap THEN heap[c] ELSE Stored[c]]
  OBVIOUS
<1>2. /\ d \in Nat /\ d > 0 /\ d \in 1 .. d /\ mem \in Memories /\ Stored \in Memories
      /\ Low(frames, d) \in Int
  BY <1>1, Within DEF Ready
<1>3. Layout(frames) /\ Registers(frames)
  BY DEF Ready, Known
<1>4. DOMAIN mem = 0 .. MemorySize - 1 /\ DOMAIN Stored = 0 .. MemorySize - 1
  BY <1>2 DEF Memories
<1>5. mem' = [c \in DOMAIN mem |-> IF c \in DOMAIN heap THEN heap[c] ELSE mem[c]]
  BY DEF Write
<1>6. mem' \in Memories
  <2>1. \A c \in 0 .. MemorySize - 1 : mem'[c] \in Int
    BY <1>2, <1>4, <1>5 DEF Memories
  <2> QED
    BY <1>4, <1>5, <2>1 DEF Memories
<1>7. Rewritten(mem, mem', saved, saved', frames, frames, Stored, T, {})
  <2>1. DOMAIN mem' = DOMAIN mem /\ T = [c \in DOMAIN mem |-> T[c]]
    BY <1>1, <1>4, <1>5
  <2>2. ASSUME NEW c \in DOMAIN mem, c >= Low(frames, d)
        PROVE  mem'[c] = mem[c] /\ T[c] = Stored[c]
    <3>1. c \notin DOMAIN heap
      BY <1>1, <1>2, <1>4, <2>2
    <3> QED
      BY <1>1, <1>4, <1>5, <3>1
  <2>3. ASSUME NEW c \in DOMAIN mem, c < Low(frames, d)
        PROVE  T[c] = mem'[c]
    <3>1. Stored[c] = mem[c]
      BY <1>1, <1>2, <1>3, <1>4, <2>3, StoredBelow
    <3> QED
      BY <1>1, <1>4, <1>5, <3>1
  <2> QED
    BY <1>1, <2>1, <2>2, <2>3 DEF Rewritten
<1>8. Stored' = T /\ Known'
  BY <1>6, <1>7, Unmoved DEF Ready
<1> QED
  BY <1>1, <1>6, <1>8

\* A body is executed for the last call in progress.
LEMMA InBodyInside == InBody => Inside /\ doing.step # "returned" /\ doing.step # "enter"
BY DEF InBody, Inside

\* A variable changes: in its cell, or in the register it is in.
LEMMA SetVariableStep ==
  ASSUME Ready, NEW i \in DOMAIN Kinds[here], NEW v \in Int, SetVariable(i, v)
  PROVE  P!SetCell(i, v) /\ Fits
<1>1. InBody /\ Count /\ Result(i, v, <<>>) /\ frames' = frames /\ fp' = fp /\ here' = here
      /\ doing' = doing
  BY DEF SetVariable
<1>2. Inside /\ doing'.step # "enter"
  BY <1>1, InBodyInside
<1>3. i \in 1 .. Len(Kinds[here])
  BY <1>2, Within DEF Ready
<1>4. PICK heap : heap = <<>>
  OBVIOUS
<1>5. DOMAIN heap = {}
  BY <1>4
<1>6. /\ mem' \in Memories /\ saved' \in [SavedRegisters -> Int] /\ Known' /\ Assigned(i)
      /\ Stored' = [c \in DOMAIN Stored |->
                      IF c \in DOMAIN heap THEN heap[c]
                      ELSE IF c = Cell(here, i, fp) THEN v ELSE Stored[c]]
  BY <1>1, <1>2, <1>3, <1>4, <1>5, ResultIs DEF Ready
<1>7. P!Write([c \in {P!Cell(here, i, fp)} |-> v])
  BY <1>5, <1>6, SameLayout DEF P!Write
<1>8. P!Assigned(i) /\ P!AnyRegisters /\ P!InBody
  BY <1>1, <1>6 DEF P!Assigned, Assigned, P!AnyRegisters, P!InBody, InBody
<1>9. P!SetCell(i, v)
  BY <1>7, <1>8 DEF P!SetCell, SetVariable
<1> QED
  BY <1>1, <1>6, <1>9, Counted DEF Fits, Ready

\* A cast writes two cells of the heap and the variable of its result.
LEMMA CastStep ==
  ASSUME Ready, NEW i \in DOMAIN Kinds[here], NEW x \in Int, Cast(i, x)
  PROVE  P!Cast(i, x) /\ Fits
<1>1. /\ InBody /\ Count /\ gp + 2 <= sp /\ gp' = gp + 2
      /\ Result(i, gp, [a \in {gp, gp + 1} |-> IF a = gp THEN x ELSE 0])
      /\ frames' = frames /\ fp' = fp /\ here' = here /\ doing' = doing
  BY DEF Cast
<1>2. Inside /\ doing'.step # "enter" /\ doing.step # "returned"
  BY <1>1, InBodyInside
<1>3. i \in 1 .. Len(Kinds[here]) /\ gp \in Int /\ sp = Low(frames, Len(frames)) /\ sp \in Int
  BY <1>2, Within DEF Ready
<1>4. PICK heap : heap = [a \in {gp, gp + 1} |-> IF a = gp THEN x ELSE 0]
  OBVIOUS
<1>5. DOMAIN heap = {gp, gp + 1} /\ heap[gp] = x /\ heap[gp + 1] = 0
  BY <1>3, <1>4
<1>6. \A c \in DOMAIN heap : c \in Int /\ c < Low(frames, Len(frames)) /\ heap[c] \in Int
  BY <1>1, <1>3, <1>5
<1>7. /\ mem' \in Memories /\ saved' \in [SavedRegisters -> Int] /\ Known' /\ Assigned(i)
      /\ Stored' = [c \in DOMAIN Stored |->
                      IF c \in DOMAIN heap THEN heap[c]
                      ELSE IF c = Cell(here, i, fp) THEN gp ELSE Stored[c]]
  BY <1>1, <1>2, <1>3, <1>4, <1>6, ResultIs DEF Ready
<1>8. P!Write([a \in {gp, gp + 1, P!Cell(here, i, fp)} |->
         IF a = gp THEN x ELSE IF a = gp + 1 THEN 0 ELSE gp])
  <2>1. \A c : /\ c = gp => heap[c] = x
               /\ c = gp + 1 => heap[c] = 0
               /\ c \in DOMAIN heap <=> c = gp \/ c = gp + 1
    BY <1>5
  <2>2. gp + 1 # gp
    BY <1>3
  <2>3. P!Cell(here, i, fp) = Cell(here, i, fp)
    BY SameLayout
  <2> QED
    BY <1>7, <2>1, <2>2, <2>3 DEF P!Write
<1>9. P!Assigned(i) /\ P!AnyRegisters /\ P!InBody
  BY <1>1, <1>7 DEF P!Assigned, Assigned, P!AnyRegisters, P!InBody, InBody
<1>10. P!Cast(i, x)
  BY <1>1, <1>8, <1>9 DEF P!Cast, Cast
<1> QED
  BY <1>1, <1>7, <1>10, Counted DEF Fits, Ready

\* Lines of input are sequences of numbers.
LEMMA LineFacts ==
  /\ \A line \in Lines : line \in Seq(Int)
  /\ \A p \in Pointers : p \in Int
<1>1. /\ \A line \in P!Lines : line \in Seq(Int)
      /\ \A p \in Pointers : p \in 0 .. P!Base - 1
  BY Assumptions, P!InputFacts
<1>2. P!Base \in Int
  BY MemoryAssumption DEF P!Base
<1> QED
  BY <1>1, <1>2, SameStrings

\* A line of input and the 0 after it.
LEMMA InputIs ==
  ASSUME NEW line \in Seq(Int), gp \in Int, sp \in Int, gp + Len(line) + 1 <= sp
  PROVE  /\ DOMAIN Input(line) = gp .. gp + Len(line)
         /\ \A a \in gp .. gp + Len(line) :
              /\ a \in Int /\ a < sp /\ Input(line)[a] \in Int
              /\ Input(line)[a] = IF a < gp + Len(line) THEN line[a - gp + 1] ELSE 0
<1>1. Len(line) \in Nat /\ \A n \in 1 .. Len(line) : line[n] \in Int
  OBVIOUS
<1>2. ASSUME NEW a \in gp .. gp + Len(line)
      PROVE  /\ a \in Int /\ a < sp
             /\ a < gp + Len(line) => line[a - gp + 1] \in Int
  <2>1. a \in Int /\ a < sp
    BY <1>1
  <2>2. a < gp + Len(line) => a - gp + 1 \in 1 .. Len(line)
    BY <1>1
  <2> QED
    BY <1>1, <2>1, <2>2
<1> QED
  BY <1>2 DEF Input

\* A line is read to the heap, and the variable of the result refers to it.
LEMMA ReadStringStep ==
  ASSUME Ready, NEW i \in DOMAIN Kinds[here], NEW line \in Seq(Int), ReadString(i, line)
  PROVE  P!ReadString(i, line) /\ Fits
<1>1. /\ InBody /\ Count /\ gp + Len(line) + 1 <= sp /\ gp' = gp + Len(line) + 1
      /\ Result(i, gp, Input(line))
      /\ frames' = frames /\ fp' = fp /\ here' = here /\ doing' = doing
  BY DEF ReadString
<1>2. Inside /\ doing'.step # "enter" /\ doing.step # "returned"
  BY <1>1, InBodyInside
<1>3. i \in 1 .. Len(Kinds[here]) /\ gp \in Int /\ sp = Low(frames, Len(frames)) /\ sp \in Int
  BY <1>2, Within DEF Ready
<1>4. PICK heap : heap = Input(line)
  OBVIOUS
<1>5. /\ DOMAIN heap = gp .. gp + Len(line)
      /\ \A a \in gp .. gp + Len(line) :
           /\ a \in Int /\ a < sp /\ heap[a] \in Int
           /\ heap[a] = IF a < gp + Len(line) THEN line[a - gp + 1] ELSE 0
  BY <1>1, <1>3, <1>4, InputIs
<1>6. \A c \in DOMAIN heap : c \in Int /\ c < Low(frames, Len(frames)) /\ heap[c] \in Int
  BY <1>3, <1>5
<1>7. /\ mem' \in Memories /\ saved' \in [SavedRegisters -> Int] /\ Known' /\ Assigned(i)
      /\ Stored' = [c \in DOMAIN Stored |->
                      IF c \in DOMAIN heap THEN heap[c]
                      ELSE IF c = Cell(here, i, fp) THEN gp ELSE Stored[c]]
  BY <1>1, <1>2, <1>3, <1>4, <1>6, ResultIs DEF Ready
<1>8. P!Write([a \in (gp .. gp + Len(line)) \cup {P!Cell(here, i, fp)} |->
         IF a < gp + Len(line) THEN line[a - gp + 1]
         ELSE IF a = gp + Len(line) THEN 0 ELSE gp])
  <2>1. Cell(here, i, fp) >= sp /\ P!Cell(here, i, fp) = Cell(here, i, fp) /\ Cell(here, i, fp) \in Int
    <3>1. here \in Functions /\ fp \in Int /\ Low(frames, Len(frames)) = P!Bottom(here, fp)
      BY <1>2, Within DEF Ready
    <3>2. P!Bottom(here, fp) <= Cell(here, i, fp) /\ Cell(here, i, fp) \in Int
      BY <1>3, <3>1, CellFacts
    <3> QED
      BY <1>3, <3>1, <3>2, SameLayout
  <2>2. PICK n, x : n = Len(line) /\ x = Cell(here, i, fp)
    OBVIOUS
  <2>3. n \in Nat /\ x \in Int /\ x > gp + n
    BY <1>1, <1>3, <2>1, <2>2
  <2>4. \A c \in gp .. gp + n : heap[c] = IF c < gp + n THEN line[c - gp + 1] ELSE 0
    BY <1>5, <2>2
  <2>5. ASSUME NEW c \in DOMAIN Stored
        PROVE  Stored'[c] = IF c \in (gp .. gp + n) \cup {x}
                            THEN IF c < gp + n THEN line[c - gp + 1]
                                 ELSE IF c = gp + n THEN 0 ELSE gp
                            ELSE Stored[c]
    <3>1. CASE c \in gp .. gp + n
      <4>1. Stored'[c] = heap[c]
        BY <1>5, <1>7, <2>2, <3>1
      <4>2. c < gp + n \/ c = gp + n
        BY <1>3, <2>3, <3>1
      <4> QED
        BY <1>3, <2>3, <2>4, <3>1, <4>1, <4>2
    <3>2. CASE c \notin gp .. gp + n
      BY <1>3, <1>5, <1>7, <2>2, <2>3, <3>2
    <3> QED
      BY <3>1, <3>2
  <2>6. DOMAIN Stored' = DOMAIN Stored /\ Stored' = [c \in DOMAIN Stored' |-> Stored'[c]]
    BY <1>7
  <2> QED
    BY <2>1, <2>2, <2>5, <2>6 DEF P!Write
<1>9. P!Assigned(i) /\ P!AnyRegisters /\ P!InBody
  BY <1>1, <1>7 DEF P!Assigned, Assigned, P!AnyRegisters, P!InBody, InBody
<1>10. P!ReadString(i, line)
  BY <1>1, <1>8, <1>9 DEF P!ReadString, ReadString
<1> QED
  BY <1>1, <1>7, <1>10, Counted DEF Fits, Ready

\* A line that nobody uses.
LEMMA SkipLineStep ==
  ASSUME Ready, NEW line \in Seq(Int), SkipLine(line)
  PROVE  P!SkipLine(line) /\ Fits
<1>1. /\ InBody /\ Count /\ gp + Len(line) + 1 <= sp /\ Write(Input(line))
      /\ UNCHANGED <<saved, frames, fp, here, doing, scope>>
  BY DEF SkipLine
<1>2. Inside /\ doing.step # "enter" /\ doing.step # "returned"
  BY <1>1, InBodyInside
<1>3. gp \in Int /\ sp = Low(frames, Len(frames)) /\ sp \in Int
  BY <1>2, Within DEF Ready
<1>4. PICK heap : heap = Input(line)
  OBVIOUS
<1>5. /\ DOMAIN heap = gp .. gp + Len(line)
      /\ \A a \in gp .. gp + Len(line) :
           /\ a \in Int /\ a < sp /\ heap[a] \in Int
           /\ heap[a] = IF a < gp + Len(line) THEN line[a - gp + 1] ELSE 0
  BY <1>1, <1>3, <1>4, InputIs
<1>6. \A c \in DOMAIN heap : c \in Int /\ c < Low(frames, Len(frames)) /\ heap[c] \in Int
  BY <1>3, <1>5
<1>7. Write(heap) /\ UNCHANGED <<saved, frames, fp>> /\ Len(scope') = Len(scope)
  BY <1>1, <1>4
<1>8. P!Current' = P!Current
  BY <1>1, <1>2 DEF P!Current
<1>9. /\ mem' \in Memories /\ Known'
      /\ Stored' = [c \in DOMAIN Stored |-> IF c \in DOMAIN heap THEN heap[c] ELSE Stored[c]]
  BY <1>2, <1>6, <1>7, <1>8, HeapIs
<1>10. P!Write([a \in gp .. gp + Len(line) |->
          IF a < gp + Len(line) THEN line[a - gp + 1] ELSE 0])
  BY <1>5, <1>9 DEF P!Write
<1>11. P!SkipLine(line)
  BY <1>1, <1>10 DEF P!SkipLine, SkipLine, P!InBody, InBody
<1> QED
  BY <1>1, <1>9, <1>11, Counted DEF Fits, Ready

\* A copy starts with two values.
LEMMA StartCopyStep ==
  ASSUME Ready, InBody, Count, NEW step \in {"first", "set"}, NEW dest, NEW from, NEW x, NEW c,
         StartCopy(step, dest, from, x, c)
  PROVE  P!StartCopy(step, dest, from, x, c) /\ Fits
<1>1. UNCHANGED <<mem, saved, frames, fp, here, scope>> /\ doing'.step = step
  BY DEF StartCopy, State
<1>2. Stored' = Stored /\ Known' /\ mem' \in Memories
  BY <1>1, InBodyInside, QuietStep
<1>3. P!State(step, dest, gp, x, c) = State(step, dest, gp, x, c)
  BY DEF P!State, State
<1>4. P!StartCopy(step, dest, from, x, c)
  BY <1>2, <1>3, SameLayout DEF P!StartCopy, StartCopy
<1> QED
  BY <1>2, <1>4, Counted DEF Fits, Ready

\* What is in scope has a cell.
LEMMA ScopeFacts ==
  ASSUME Ready, Inside
  PROVE  Here \subseteq 1 .. Len(Kinds[here]) /\ P!Here = Here
<1>1. P!IInv
  BY DEF Ready, P!JInv
<1>2. \E x, F, G, H : P!At(x, F, G, H)
  BY <1>1 DEF P!IInv, P!At
<1>3. PICK x, F, G, H : P!At(x, F, G, H)
  BY <1>2
<1>4. /\ x = Len(scope) /\ P!Position(x, F, G, H) /\ P!Owned(Stored, scope, F, G, H, x)
  BY <1>3 DEF P!At, P!Depth, P!Stack
<1>5. x > 0 /\ here = G[x] /\ x \in Nat
  BY <1>4 DEF P!Position, P!Copying, Inside, P!Running, P!Returning, Ready, Known, Topmost, Layout
<1>6. x \in 1 .. x
  BY <1>5
<1>7. scope[x] \subseteq 1 .. Len(Kinds[here])
  BY <1>4, <1>5, <1>6 DEF P!Owned
<1> QED
  BY <1>4, <1>7 DEF Here, P!Here

\* A variable in scope has the same value here and there.
LEMMA ValueOf ==
  ASSUME Ready, Inside
  PROVE  \A j \in 1 .. Len(Kinds[here]) : Value(j) = P!Var(j)
<1>1. /\ frames[Len(frames)].frame = fp /\ frames[Len(frames)].f = here /\ Len(frames) > 0
      /\ mem \in Memories /\ Layout(frames) /\ Registers(frames)
  BY Within DEF Ready, Known
<1>2. \A j \in 1 .. Len(Kinds[here]) : Value(j) = Stored[Cell(here, j, fp)]
  BY <1>1, ValueIs
<1> QED
  BY <1>2, SameLayout DEF P!Var

\* strcat starts with the two strings.
LEMMA StrcatStep ==
  ASSUME Ready, NEW i, NEW j, NEW k, Strcat(i, j, k)
  PROVE  P!Strcat(i, j, k) /\ Fits
<1>1. InBody /\ Count /\ {j, k} \subseteq Here /\ StartCopy("first", i, Value(j), Value(k), 0)
  BY DEF Strcat
<1>2. P!StartCopy("first", i, Value(j), Value(k), 0) /\ Fits
  BY <1>1, StartCopyStep
<1>3. Inside
  BY <1>1, InBodyInside
<1>4. {j, k} \subseteq P!Here /\ Value(j) = P!Var(j) /\ Value(k) = P!Var(k)
  BY <1>1, <1>3, ScopeFacts, ValueOf
<1> QED
  BY <1>1, <1>2, <1>4 DEF P!Strcat, P!InBody, InBody

\* A string that a variable in scope points to is not in the frames.
LEMMA TextIs ==
  ASSUME Ready, InBody, NEW j \in Here, Kinds[here][j] = "string"
  PROVE  StringAt(mem, Value(j)) = P!StringAt(Stored, P!Var(j))
<1>1. P!IInv /\ P!InBody /\ Inside
  BY InBodyInside DEF Ready, P!JInv, P!InBody, InBody
<1>2. \E x, F, G, H : /\ x = P!Depth /\ P!Stack(Stored, scope, F, G, H, x)
                      /\ P!Running(x, F, G) /\ H[x] = gp
                      /\ x > 0 /\ fp = F[x] /\ here = G[x] /\ sp = P!Bottom(here, fp)
  BY <1>1, Assumptions, P!BodyFacts
<1>3. PICK x, F, G, H : /\ x = P!Depth /\ P!Stack(Stored, scope, F, G, H, x)
                        /\ P!Running(x, F, G) /\ H[x] = gp
                        /\ x > 0 /\ fp = F[x] /\ here = G[x] /\ sp = P!Bottom(here, fp)
  BY <1>2
<1>4. x = Len(scope) /\ x \in Nat /\ x \in 1 .. x /\ P!Owned(Stored, scope, F, G, H, x)
  <2>1. Len(scope) \in Nat
    BY DEF Ready, Known, Topmost, Layout
  <2> QED
    BY <1>3, <2>1 DEF P!Depth, P!Stack
<1>5. j \in scope[x]
  BY <1>4 DEF Here
<1>6. /\ gp > 0 => Stored[gp - 1] = 0
      /\ Stored[P!Cell(here, j, fp)] \in 0 .. gp - 1
  BY <1>3, <1>4, <1>5 DEF P!Owned
<1>7. P!Var(j) \in 0 .. gp - 1 /\ Value(j) = P!Var(j)
  <2>1. j \in 1 .. Len(Kinds[here])
    BY <1>1, ScopeFacts
  <2> QED
    BY <1>1, <1>6, <2>1, ValueOf DEF P!Var
<1>8. /\ gp \in Int /\ gp <= sp /\ sp = Low(frames, Len(frames)) /\ sp <= MemorySize
      /\ MemorySize \in Nat /\ Len(frames) > 0 /\ mem \in Memories /\ Stored \in Memories
      /\ sp \in Int
  <2>1. gp <= sp /\ sp <= fp /\ fp <= MemorySize /\ {gp, sp, fp} \subseteq Int
    BY DEF Ready, TypeOK
  <2>2. /\ sp = Low(frames, Len(frames)) /\ Len(frames) > 0
        /\ mem \in Memories /\ Stored \in Memories
    BY <1>1, Within DEF Ready, InBody
  <2> QED
    BY <2>1, <2>2, MemoryAssumption
<1>9. PICK p, q : p = P!Var(j) /\ q = gp - 1
  OBVIOUS
<1>10. p \in Nat /\ q \in Nat /\ p <= q /\ q < MemorySize /\ Stored[q] = 0
  BY <1>6, <1>7, <1>8, <1>9
<1>11. \A c \in 0 .. q : mem[c] = Stored[c]
  <2>1. \A c \in 0 .. q : c \in 0 .. MemorySize - 1 /\ c < Low(frames, Len(frames))
    BY <1>8, <1>9, <1>10
  <2> QED
    BY <1>8, <2>1, StoredBelow DEF Ready, Known
<1>12. \A m \in P!Memories : \A m2 : \A y \in Nat : \A z \in Nat :
         y <= z /\ z < MemorySize /\ m[z] = 0 /\ (\A c \in 0 .. z : m2[c] = m[c])
           => P!StringAt(m2, y) = P!StringAt(m, y)
  BY Assumptions, P!StringStays
<1>13. Stored \in P!Memories
  BY <1>8 DEF P!Memories, Memories
<1>14. P!StringAt(mem, p) = P!StringAt(Stored, p)
  BY <1>10, <1>11, <1>12, <1>13
<1> QED
  BY <1>7, <1>9, <1>14, SameStrings

\* set_at starts with its string.
LEMMA SetAtStep ==
  ASSUME Ready, NEW i, NEW j, NEW x, Kinds[here][j] = "string", SetAt(i, j, x)
  PROVE  P!SetAt(i, j, x) /\ Fits
<1>1. /\ InBody /\ Count /\ j \in Here
      /\ \E n \in 0 .. Len(StringAt(mem, Value(j))) - 1 : StartCopy("set", i, Value(j), n, x)
  BY DEF SetAt
<1>2. PICK n \in 0 .. Len(StringAt(mem, Value(j))) - 1 : StartCopy("set", i, Value(j), n, x)
  BY <1>1
<1>3. P!StartCopy("set", i, Value(j), n, x) /\ Fits
  BY <1>1, <1>2, StartCopyStep
<1>4. Inside
  BY <1>1, InBodyInside
<1>5. j \in P!Here /\ Value(j) = P!Var(j)
  BY <1>1, <1>4, ScopeFacts, ValueOf
<1>6. StringAt(mem, Value(j)) = P!StringAt(Stored, P!Var(j))
  BY <1>1, TextIs
<1> QED
  BY <1>1, <1>2, <1>3, <1>5, <1>6 DEF P!SetAt, P!InBody, InBody

\* The second string of strcat.
LEMMA JoinStep ==
  ASSUME Ready, Join
  PROVE  P!Join /\ Fits
<1>1. /\ doing.step = "join" /\ doing' = [doing EXCEPT !.step = "second"]
      /\ UNCHANGED <<mem, saved, frames, fp, here, scope, left>>
  BY DEF Join
<1>2. doing \in [step : {"enter", "body", "first", "join", "second", "set", "place", "finish",
                         "receive", "received", "returned", "stopped", "spoilt"},
                 dest : Nat, at : Int, x : Int, c : Int]
  BY DEF Ready, TypeOK
<1>3. doing'.step = "second"
  BY <1>1, <1>2
<1>4. Inside
  BY <1>1 DEF Inside, P!CopySteps
<1>5. Stored' = Stored /\ Known' /\ mem' \in Memories
  BY <1>1, <1>3, <1>4, QuietStep
<1>6. P!Join
  BY <1>5, SameLayout DEF P!Join, Join
<1> QED
  BY <1>1, <1>5, <1>6 DEF Fits, Ready, TypeOK

\* A byte is copied from below the frames to below the frames.
LEMMA CopyByteStep ==
  ASSUME Ready, CopyByte
  PROVE  P!CopyByte /\ Fits
<1>1. /\ doing.step \in {"first", "second", "set", "receive"} /\ gp < sp
      /\ Write([c \in {gp} |-> mem[v1]]) /\ Advance
      /\ doing' = [doing EXCEPT !.step = IF mem[v1] = 0 THEN Then(@) ELSE @]
      /\ args' = [args EXCEPT ![1] = mem[v1]]
      /\ UNCHANGED <<sp, fp, ra, v0, saved, here, frames, scope, left>>
  BY DEF CopyByte
<1>2. Inside /\ doing.step # "returned" /\ doing.step \in P!CopySteps /\ doing.step # "enter"
  BY <1>1 DEF Inside, P!CopySteps
<1>3. /\ sp = Low(frames, Len(frames)) /\ sp \in Int /\ gp \in Int /\ Len(frames) > 0
      /\ mem \in Memories /\ Stored \in Memories
  BY <1>2, Within DEF Ready
<1>4. P!IInv
  BY DEF Ready, P!JInv
<1>5. P!Copied /\ doing.at <= gp /\ doing.at \in Int
  BY <1>2, <1>4, Assumptions, P!CopyingFacts
<1>6. v1 \in Int /\ 0 <= v1 /\ v1 < sp
  <2>1. v1 \in 0 .. doing.at - 1 \/ (gp <= v1 /\ \E q \in v1 .. sp - 1 : Stored[q] = 0)
    BY <1>1, <1>5 DEF P!Copied
  <2>2. v1 \in Int /\ Base <= gp /\ Base \in Nat
    BY MemoryAssumption DEF Ready, TypeOK, Base
  <2> QED
    BY <1>1, <1>3, <1>5, <2>1, <2>2
<1>7. v1 \in 0 .. MemorySize - 1 /\ Stored[v1] = mem[v1] /\ mem[v1] \in Int
  <2>1. sp <= MemorySize /\ MemorySize \in Nat
    BY <1>3, MemoryAssumption DEF Ready, TypeOK
  <2>2. v1 \in 0 .. MemorySize - 1
    BY <1>3, <1>6, <2>1
  <2>3. Stored[v1] = mem[v1]
    BY <1>3, <1>6, <2>2, StoredBelow DEF Ready, Known
  <2> QED
    BY <1>3, <2>2, <2>3 DEF Memories
<1>8. PICK heap : heap = [c \in {gp} |-> mem[v1]]
  OBVIOUS
<1>9. /\ \A c \in DOMAIN heap : c \in Int /\ c < Low(frames, Len(frames)) /\ heap[c] \in Int
      /\ Write(heap)
  BY <1>1, <1>3, <1>7, <1>8
<1>10. doing \in [step : {"enter", "body", "first", "join", "second", "set", "place", "finish",
                          "receive", "received", "returned", "stopped", "spoilt"},
                  dest : Nat, at : Int, x : Int, c : Int]
  BY DEF Ready, TypeOK
<1>11. doing'.step # "enter"
  <2>1. \A st \in {"first", "second", "set", "receive"} : Then(st) # "enter"
    BY DEF Then
  <2>2. doing'.step = IF mem[v1] = 0 THEN Then(doing.step) ELSE doing.step
    BY <1>1, <1>10
  <2> QED
    BY <1>1, <1>2, <2>1, <2>2
<1>12. P!Current' = P!Current
  BY <1>1, <1>2, <1>11 DEF P!Current
<1>13. /\ mem' \in Memories /\ Known'
       /\ Stored' = [c \in DOMAIN Stored |-> IF c \in DOMAIN heap THEN heap[c] ELSE Stored[c]]
  BY <1>1, <1>2, <1>9, <1>12, HeapIs
<1>14. P!Write([c \in {gp} |-> Stored[v1]])
  BY <1>7, <1>8, <1>13 DEF P!Write
<1>15. \A st \in {"first", "second", "set", "receive"} : P!Then(st) = Then(st)
  BY DEF P!Then, Then
<1>16. doing' = [doing EXCEPT !.step = IF Stored[v1] = 0 THEN P!Then(@) ELSE @]
  BY <1>1, <1>7, <1>15
<1>17. P!CopyByte
  BY <1>1, <1>7, <1>14, <1>16 DEF P!CopyByte, P!Advance, Advance
<1> QED
  BY <1>1, <1>13, <1>17 DEF Fits, Ready, TypeOK

\* What is known of doing.
LEMMA DoingFacts ==
  Ready => /\ doing \in [step : {"enter", "body", "first", "join", "second", "set", "place", "finish",
                                 "receive", "received", "returned", "stopped", "spoilt"},
                         dest : Nat, at : Int, x : Int, c : Int]
           /\ doing.dest \in Nat /\ doing.at \in Int /\ doing.x \in Int /\ doing.c \in Int
           /\ v0 \in Int /\ gp \in Int /\ ra \in Int /\ left \in Nat
BY DEF Ready, TypeOK

\* A copy that is complete.
LEMMA FinishStep ==
  ASSUME Ready, doing.step \in {"place", "finish", "received"}, NEW p \in Int, NEW cells,
         \A c \in cells : c \in Int /\ c < gp, Finish(p, cells)
  PROVE  P!Finish(p, cells) /\ Fits
<1>1. /\ Result(doing.dest, p, [c \in cells |-> doing.c]) /\ doing' = Idle
      /\ UNCHANGED <<sp, fp, ra, gp, v0, v1, args, here, frames, left>>
  BY DEF Finish
<1>2. Inside /\ doing.step # "returned" /\ doing.step \in P!CopySteps /\ doing'.step # "enter"
  BY <1>1 DEF Inside, P!CopySteps, Idle
<1>3. P!IInv
  BY DEF Ready, P!JInv
<1>4. doing.dest \in 1 .. Len(Kinds[here])
  BY <1>2, <1>3, Assumptions, P!CopyingFacts
<1>5. sp = Low(frames, Len(frames)) /\ sp \in Int /\ gp \in Int /\ gp <= sp
  BY <1>2, Within DEF Ready, TypeOK
<1>6. PICK heap : heap = [c \in cells |-> doing.c]
  OBVIOUS
<1>7. \A c \in DOMAIN heap : c \in Int /\ c < Low(frames, Len(frames)) /\ heap[c] \in Int
  BY <1>5, <1>6, DoingFacts
<1>8. /\ mem' \in Memories /\ saved' \in [SavedRegisters -> Int] /\ Known' /\ Assigned(doing.dest)
      /\ Stored' = [c \in DOMAIN Stored |->
                      IF c \in DOMAIN heap THEN heap[c]
                      ELSE IF c = Cell(here, doing.dest, fp) THEN p ELSE Stored[c]]
  BY <1>1, <1>2, <1>4, <1>6, <1>7, ResultIs DEF Ready
<1>9. P!Write([c \in cells \cup {P!Cell(here, doing.dest, fp)} |-> IF c \in cells THEN doing.c ELSE p])
  BY <1>6, <1>8, SameLayout DEF P!Write
<1>10. P!Assigned(doing.dest) /\ P!AnyRegisters /\ doing' = P!Idle
  BY <1>1, <1>8, SameLayout DEF P!Assigned, Assigned, P!AnyRegisters
<1>11. P!Finish(p, cells)
  BY <1>1, <1>9, <1>10 DEF P!Finish
<1> QED
  BY <1>1, <1>8, <1>11, DoingFacts DEF Fits

\* set_at puts its character into the copy.
LEMMA PlaceStep ==
  ASSUME Ready, Place
  PROVE  P!Place /\ Fits
<1>1. doing.step = "place" /\ Finish(doing.at, {doing.at + doing.x})
  BY DEF Place
<1>2. P!IInv /\ doing.step \in P!CopySteps
  BY <1>1 DEF Ready, P!JInv, P!CopySteps
<1>3. P!Copied
  BY <1>2, Assumptions, P!CopyingFacts
<1>4. doing.at + doing.x < gp - 1
  BY <1>1, <1>3 DEF P!Copied
<1>5. \A c \in {doing.at + doing.x} : c \in Int /\ c < gp
  BY <1>4, DoingFacts
<1>6. P!Finish(doing.at, {doing.at + doing.x}) /\ Fits
  BY <1>1, <1>5, FinishStep, DoingFacts
<1> QED
  BY <1>1, <1>6 DEF P!Place

\* The variable gets the copy.
LEMMA EndCopyStep ==
  ASSUME Ready, EndCopy
  PROVE  P!EndCopy /\ Fits
<1>1. \A c \in {} : c \in Int /\ c < gp
  OBVIOUS
<1>2. CASE doing.step = "finish" /\ Finish(doing.at, {})
  <2>1. P!Finish(doing.at, {}) /\ Fits
    BY <1>1, <1>2, FinishStep, DoingFacts
  <2> QED
    BY <1>2, <2>1 DEF P!EndCopy
<1>3. CASE doing.step = "received" /\ Finish(v0, {})
  <2>1. P!Finish(v0, {}) /\ Fits
    BY <1>1, <1>3, FinishStep, DoingFacts
  <2> QED
    BY <1>3, <2>1 DEF P!EndCopy
<1> QED
  BY <1>2, <1>3 DEF EndCopy

\* Strings are what the compiler takes for strings.
LEMMA SameKinds ==
  /\ \A f, i : P!IsString(f, i) <=> IsString(f, i)
  /\ \A a, b, c, d, e : P!State(a, b, c, d, e) = State(a, b, c, d, e)
BY DEF P!IsString, IsString, P!State, State

\* The link that the caller's code reads is below the frames.
LEMMA HeapLink ==
  ASSUME Ready, doing.step = "returned"
  PROVE  /\ ra \in DOMAIN Sites /\ Inside
         /\ Stored[sp + RequiredSize(Sites[ra].callee) - 1]
            = mem[sp + RequiredSize(Sites[ra].callee) - 1]
<1>1. Inside
  BY DEF Inside
<1>2. /\ ra \in DOMAIN Sites
      /\ sp + RequiredSize(Sites[ra].callee) = Low(frames, Len(frames))
      /\ Low(frames, Len(frames)) \in Int /\ Len(frames) > 0 /\ mem \in Memories
      /\ Len(frames) \in 1 .. Len(frames) /\ sp \in Int
  BY <1>1, Within DEF Ready
<1>3. PICK n : n = RequiredSize(Sites[ra].callee)
  OBVIOUS
<1>4. n \in Nat /\ n > 0
  <2>1. Sites[ra].callee \in Functions
    BY <1>2, SiteIs
  <2> QED
    BY <1>3, <2>1, RequiredIs
<1>5. Layout(frames) /\ Registers(frames)
  BY DEF Ready, Known
<1>6. /\ frames[Len(frames)].frame \in 0 .. MemorySize - 1
      /\ Low(frames, Len(frames)) <= frames[Len(frames)].frame
  BY <1>2, <1>5, LinkFacts
<1>7. 0 <= sp
  BY MemoryAssumption DEF Ready, TypeOK, Base
<1>8. sp + n - 1 \in 0 .. MemorySize - 1 /\ sp + n - 1 < Low(frames, Len(frames))
  <2>1. PICK l, x : l = Low(frames, Len(frames)) /\ x = frames[Len(frames)].frame
    OBVIOUS
  <2>2. sp + n = l /\ l \in Int /\ l <= x /\ x \in 0 .. MemorySize - 1 /\ sp \in Int
    BY <1>2, <1>3, <1>6, <2>1
  <2>3. MemorySize \in Nat
    BY MemoryAssumption
  <2>4. sp + n - 1 \in 0 .. MemorySize - 1 /\ sp + n - 1 < l
    BY <1>4, <1>7, <2>2, <2>3
  <2> QED
    BY <2>1, <2>4
<1>9. Stored[sp + n - 1] = mem[sp + n - 1]
  BY <1>2, <1>5, <1>8, StoredBelow
<1> QED
  BY <1>1, <1>2, <1>3, <1>9

\* The caller gets its heap and its stack back, and the result.
LEMMA AfterCallStep ==
  ASSUME Ready, NEW s \in DOMAIN Sites, AfterCall(s)
  PROVE  P!AfterCall(s) /\ Fits
<1>1. PICK site, required, heap :
        /\ site = Sites[s] /\ required = RequiredSize(site.callee)
        /\ heap = mem[sp + required - 1]
  OBVIOUS
<1>2. /\ doing.step = "returned" /\ ra = s /\ gp' = heap /\ sp' = sp + required
      /\ UNCHANGED <<fp, args, here, frames, left>>
      /\ \/ /\ IsString(here, site.dest)
            /\ v1' = v0 /\ v0' = heap /\ ra' = Clobbered
            /\ doing' = State("receive", site.dest, heap, s, 0)
            /\ UNCHANGED <<mem, saved, scope>>
         \/ /\ ~IsString(here, site.dest) /\ site.dest # 0
            /\ Result(site.dest, v0, <<>>)
            /\ doing' = Idle /\ UNCHANGED <<v0, v1, ra>>
         \/ /\ site.dest = 0
            /\ doing' = Idle /\ UNCHANGED <<mem, v0, v1, ra, saved, scope>>
  BY <1>1 DEF AfterCall
<1>3. Inside /\ Stored[sp + required - 1] = heap
  BY <1>1, <1>2, HeapLink
<1>4. saved \in [SavedRegisters -> Int] /\ scope \in Seq(SUBSET Nat)
  BY DEF Ready, TypeOK
<1>5. /\ required = P!RequiredSize(site.callee)
      /\ \A f, i : P!IsString(f, i) <=> IsString(f, i)
      /\ \A a, b, c, d, e : P!State(a, b, c, d, e) = State(a, b, c, d, e)
      /\ P!Clobbered = Clobbered /\ P!Idle = Idle
      /\ \A f, i, frame : P!Cell(f, i, frame) = Cell(f, i, frame)
  BY <1>1, SameLayout, SameKinds
<1>6. P!AfterCall(s) <=>
        /\ doing.step = "returned" /\ ra = s
        /\ gp' = heap /\ sp' = sp + required
        /\ IF IsString(here, site.dest)
           THEN /\ v1' = v0 /\ v0' = heap /\ ra' = Clobbered
                /\ doing' = State("receive", site.dest, heap, s, 0)
                /\ UNCHANGED <<Stored, scope>>
           ELSE /\ P!Write([c \in {P!Cell(here, i, fp) : i \in {site.dest} \ {0}} |-> v0])
                /\ scope' = [scope EXCEPT ![Len(scope)] = @ \cup ({site.dest} \ {0})]
                /\ doing' = Idle /\ UNCHANGED <<v0, v1, ra>>
        /\ P!AnyRegisters /\ UNCHANGED <<fp, args, here>>
  BY <1>1, <1>3, <1>5 DEF P!AfterCall
<1>7. CASE IsString(here, site.dest) /\ UNCHANGED <<mem, saved, scope>>
           /\ v1' = v0 /\ v0' = heap /\ ra' = Clobbered
           /\ doing' = State("receive", site.dest, heap, s, 0)
  <2>1. doing'.step # "enter"
    BY <1>7 DEF State
  <2>2. Stored' = Stored /\ Known' /\ mem' \in Memories
    BY <1>2, <1>3, <1>7, <2>1, QuietStep
  <2>3. P!AnyRegisters
    BY <1>4, <1>7 DEF P!AnyRegisters
  <2>4. P!AfterCall(s)
    BY <1>2, <1>6, <1>7, <2>2, <2>3
  <2> QED
    BY <1>2, <2>2, <2>4, DoingFacts DEF Fits
<1>8. CASE /\ ~IsString(here, site.dest) /\ site.dest # 0
           /\ Result(site.dest, v0, <<>>)
           /\ doing' = Idle /\ UNCHANGED <<v0, v1, ra>>
  <2>1. doing'.step # "enter"
    BY <1>8 DEF Idle
  <2>2. site.dest \in 1 .. Len(Kinds[here])
    <3>1. Sites[ra].caller = here /\ DOMAIN Kinds[here] = 1 .. Len(Kinds[here])
      BY <1>2, <1>3, Within DEF Ready
    <3> QED
      BY <1>1, <1>2, <1>8, <3>1, SiteIs
  <2>3. PICK none : none = <<>>
    OBVIOUS
  <2>4. DOMAIN none = {}
    BY <2>3
  <2>5. Result(site.dest, v0, none)
    BY <1>8, <2>3
  <2>6. /\ mem' \in Memories /\ saved' \in [SavedRegisters -> Int] /\ Known' /\ Assigned(site.dest)
        /\ Stored' = [c \in DOMAIN Stored |->
                        IF c \in DOMAIN none THEN none[c]
                        ELSE IF c = Cell(here, site.dest, fp) THEN v0 ELSE Stored[c]]
    BY <1>2, <1>3, <2>1, <2>2, <2>4, <2>5, ResultIs, DoingFacts DEF Ready
  <2>7. {site.dest} \ {0} = {site.dest}
    BY <1>8
  <2>8. P!Write([c \in {P!Cell(here, i, fp) : i \in {site.dest} \ {0}} |-> v0])
    <3>1. {P!Cell(here, i, fp) : i \in {site.dest} \ {0}} = {Cell(here, site.dest, fp)}
      BY <1>5, <2>7
    <3> QED
      BY <2>4, <2>6, <3>1 DEF P!Write
  <2>9. scope' = [scope EXCEPT ![Len(scope)] = @ \cup ({site.dest} \ {0})]
    BY <2>6, <2>7 DEF Assigned
  <2>10. P!AnyRegisters
    BY <2>6 DEF P!AnyRegisters
  <2>11. P!AfterCall(s)
    BY <1>2, <1>6, <1>8, <2>8, <2>9, <2>10
  <2> QED
    BY <1>2, <2>6, <2>11, DoingFacts DEF Fits
<1>9. CASE site.dest = 0 /\ doing' = Idle /\ UNCHANGED <<mem, v0, v1, ra, saved, scope>>
  <2>1. doing'.step # "enter" /\ ~IsString(here, site.dest)
    BY <1>9 DEF Idle, IsString
  <2>2. Stored' = Stored /\ Known' /\ mem' \in Memories
    BY <1>2, <1>3, <1>9, <2>1, QuietStep
  <2>3. P!AnyRegisters
    BY <1>4, <1>9 DEF P!AnyRegisters
  <2>4. {site.dest} \ {0} = {}
    BY <1>9
  <2>5. P!Write([c \in {P!Cell(here, i, fp) : i \in {site.dest} \ {0}} |-> v0])
    <3>1. {P!Cell(here, i, fp) : i \in {site.dest} \ {0}} = {}
      BY <2>4
    <3>2. Stored = [c \in DOMAIN Stored |-> Stored[c]]
      BY DEF Stored
    <3> QED
      BY <2>2, <3>1, <3>2 DEF P!Write
  <2>6. scope' = [scope EXCEPT ![Len(scope)] = @ \cup ({site.dest} \ {0})]
    <3>1. scope' = scope /\ scope[Len(scope)] \cup ({site.dest} \ {0}) = scope[Len(scope)]
      BY <1>9, <2>4
    <3> QED
      BY <1>4, <3>1
  <2>7. P!AfterCall(s)
    BY <1>2, <1>6, <1>9, <2>1, <2>3, <2>5, <2>6
  <2> QED
    BY <1>2, <2>2, <2>7, DoingFacts DEF Fits
<1> QED
  BY <1>2, <1>7, <1>8, <1>9

\* The register table is changed for the last call.
Changes(fr, fr2, reg) == fr2 = [fr EXCEPT ![Len(fr)].reg = reg]

\* It is the only one.
LEMMA Retabled ==
  ASSUME NEW fr, NEW fr2, NEW reg, Layout(fr), Typed(fr), Len(fr) > 0,
         Changes(fr, fr2, reg)
  PROVE  Alike(fr, fr2) /\ Typed(fr2) /\ fr2[Len(fr)].reg = reg
         /\ \A k \in 1 .. Len(fr) : fr2[k].owed = fr[k].owed
<1>1. PICK d : d = Len(fr)
  OBVIOUS
<1>2. d \in Nat /\ DOMAIN fr = 1 .. d /\ d \in 1 .. d
  BY <1>1 DEF Layout
<1>3. PICK one : one = [fr[d] EXCEPT !.reg = reg]
  OBVIOUS
<1>4. DOMAIN fr[d] = {"f", "frame", "reg", "owed"}
  BY <1>1, <1>2 DEF Typed
<1>5. one.f = fr[d].f /\ one.frame = fr[d].frame /\ one.owed = fr[d].owed
  BY <1>3, <1>4
<1>6. one.reg = reg /\ DOMAIN one = DOMAIN fr[d]
  BY <1>3, <1>4
<1>7. fr2 = [fr EXCEPT ![d] = one]
  BY <1>1, <1>3 DEF Changes
<1>8. DOMAIN fr2 = 1 .. d /\ fr2[d] = one /\ \A k \in 1 .. d - 1 : fr2[k] = fr[k]
  BY <1>2, <1>7
<1>9. PICK S : fr \in Seq(S)
  BY DEF Typed
<1>10. fr2 \in Seq(S \cup {one}) /\ Len(fr2) = d
  <2>1. fr \in Seq(S \cup {one})
    BY <1>9
  <2> QED
    BY <1>1, <1>2, <1>7, <2>1
<1>11. \A k \in 1 .. d : k = d \/ k \in 1 .. d - 1
  BY <1>2
<1>12. \A k \in 1 .. d : /\ fr2[k].f = fr[k].f /\ fr2[k].frame = fr[k].frame
                         /\ fr2[k].owed = fr[k].owed /\ DOMAIN fr2[k] = DOMAIN fr[k]
  BY <1>5, <1>6, <1>8, <1>11
<1>13. Alike(fr, fr2)
  BY <1>1, <1>2, <1>8, <1>10, <1>12 DEF Alike
<1>14. Typed(fr2)
  BY <1>1, <1>10, <1>12 DEF Typed
<1> QED
  BY <1>1, <1>6, <1>8, <1>12, <1>13, <1>14

\* Mapping variables anew, and moving them meanwhile, changes nothing in the end.
LEMMA Remapped ==
  ASSUME Ready, InBody, NEW reg, Retable(reg), mem' \in Memories, fp' = fp, here' = here,
         doing' = doing, scope' = scope,
         \A i \in DOMAIN reg : i \in 1 .. Len(Kinds[here]) /\ reg[i] \in Recorded(here),
         \A i, j \in DOMAIN reg : reg[i] = reg[j] => i = j,
         NEW I, Rewritten(mem, mem', saved, saved', frames, frames', Stored, Stored, I)
  PROVE  Stored' = Stored /\ Known'
<1>1. PICK d : d = Len(frames)
  OBVIOUS
<1>2. Inside
  BY InBodyInside
<1>3. /\ Layout(frames) /\ Registers(frames) /\ Typed(frames) /\ Owing(frames) /\ Known
      /\ mem \in Memories /\ d > 0 /\ d \in Nat /\ d \in 1 .. d
      /\ frames[d].f = here /\ Size(frames, d) = Len(Kinds[here])
  BY <1>1, <1>2, Within DEF Ready, Known
<1>4. Changes(frames, frames', reg)
  BY DEF Retable, Changes
<1>5. Alike(frames, frames') /\ Typed(frames') /\ frames'[d].reg = reg
      /\ \A k \in 1 .. d : frames'[k].owed = frames[k].owed
  BY <1>1, <1>3, <1>4, Retabled
<1>6. /\ Len(frames') = d
      /\ \A k \in 1 .. d : frames'[k].f = frames[k].f /\ frames'[k].frame = frames[k].frame
      /\ \A k \in 1 .. d - 1 : frames'[k].reg = frames[k].reg
  BY <1>1, <1>5 DEF Alike
<1>7. /\ Layout(frames') /\ \A k \in 1 .. d : Size(frames', k) = Size(frames, k)
      /\ \A k \in Nat, j \in Int : \A r : j <= d =>
           (Untouched(frames', k, j, r) <=> Untouched(frames, k, j, r))
  BY <1>1, <1>3, <1>5, AlikeFacts
<1>8. \A k \in 1 .. d : k = d \/ k \in 1 .. d - 1
  BY <1>3
<1>9. Registers(frames')
  <2>1. ASSUME NEW k \in 1 .. d
        PROVE  /\ \A i \in DOMAIN frames'[k].reg :
                    i \in 1 .. Size(frames', k) /\ frames'[k].reg[i] \in Recorded(frames'[k].f)
               /\ \A i, j \in DOMAIN frames'[k].reg :
                    frames'[k].reg[i] = frames'[k].reg[j] => i = j
    <3>1. CASE k = d
      BY <1>3, <1>5, <1>6, <1>7, <3>1
    <3>2. CASE k \in 1 .. d - 1
      BY <1>1, <1>3, <1>6, <1>7, <3>2 DEF Registers
    <3> QED
      BY <1>8, <3>1, <3>2
  <2> QED
    BY <1>6, <2>1 DEF Registers
<1>10. Owing(frames')
  <2>1. ASSUME NEW l \in 1 .. d, NEW k \in 1 .. l - 1, NEW i \in DOMAIN frames'[k].reg,
               Untouched(frames', k, l, frames'[k].reg[i])
        PROVE  frames'[k].reg[i] \in frames'[l].owed
    <3>1. k \in 1 .. d - 1 /\ k \in Nat /\ l \in Int /\ l <= d
      BY <1>3
    <3>2. frames'[k].reg = frames[k].reg
      BY <1>6, <3>1
    <3>3. Untouched(frames, k, l, frames[k].reg[i])
      BY <1>7, <2>1, <3>1, <3>2
    <3>4. frames[k].reg[i] \in frames[l].owed
      BY <1>1, <1>3, <2>1, <3>2, <3>3 DEF Owing
    <3> QED
      BY <1>5, <3>2, <3>4
  <2> QED
    BY <1>6, <2>1 DEF Owing
<1>11. IsStored(Stored, mem, saved, frames)
  BY <1>3, StoredIs
<1>12. IsStored(Stored, mem', saved', frames')
  BY <1>1, <1>3, <1>5, <1>9, <1>11, Restored
<1>13. Stored' = Stored
  BY <1>7, <1>9, <1>12, StoredIsNext
<1>14. P!Current' = P!Current
  BY DEF P!Current, InBody
<1>15. I \subseteq 1 .. Size(frames, Len(frames)) /\ DOMAIN mem = 0 .. MemorySize - 1
  BY <1>3 DEF Rewritten, Memories
<1>16. \A c \in 0 .. MemorySize - 1 :
        /\ c >= Low(frames, Len(frames))
        /\ \A i \in 1 .. Size(frames, Len(frames)) : Spot(frames, Len(frames), i) # c
        => mem'[c] = mem[c]
  <2>1. \A c \in DOMAIN mem :
          c >= Low(frames, Len(frames)) /\ (\A i \in I : Spot(frames, Len(frames), i) # c)
            => mem'[c] = mem[c]
    BY DEF Rewritten
  <2> QED
    BY <1>15, <2>1
<1>17. Len(frames) > 0 /\ Len(scope') = Len(scope)
  BY <1>1, <1>3
<1>18. Known'
  BY <1>3, <1>5, <1>9, <1>10, <1>14, <1>16, <1>17, KnownStays
<1> QED
  BY <1>13, <1>18

\* What does not change the cells is hidden in HomeFrame.
LEMMA Hidden ==
  ASSUME Ready, InBody, Stored' = Stored, saved' \in [SavedRegisters -> Int],
         UNCHANGED <<sp, fp, ra, gp, v0, v1, args, here, doing, scope>>
  PROVE  P!UseRegisters
BY DEF P!UseRegisters, P!InBody, InBody, P!AnyRegisters

\* getRegister maps a variable.
LEMMA LoadStep ==
  ASSUME Ready, NEW i \in DOMAIN Kinds[here], NEW r \in SavedRegisters, Load(i, r)
  PROVE  P!UseRegisters /\ Fits
<1>1. /\ InBody /\ Count /\ i \notin Held /\ r \in Recorded(here) \ InUse(Top)
      /\ saved' = [saved EXCEPT ![r] = mem[Cell(here, i, fp)]]
      /\ Retable([j \in Held \cup {i} |-> IF j = i THEN r ELSE Top.reg[j]])
      /\ UNCHANGED <<mem, sp, fp, ra, gp, v0, v1, args, here, doing, scope>>
  BY DEF Load
<1>2. Inside
  BY <1>1, InBodyInside
<1>3. PICK d, reg : d = Len(frames) /\ reg = [j \in Held \cup {i} |-> IF j = i THEN r ELSE Top.reg[j]]
  OBVIOUS
<1>4. /\ d \in Nat /\ d > 0 /\ d \in 1 .. d /\ mem \in Memories /\ Stored \in Memories
      /\ Held = DOMAIN frames[d].reg /\ Top = frames[d] /\ frames[d].f = here
      /\ DOMAIN Kinds[here] = 1 .. Len(Kinds[here])
      /\ Size(frames, d) = Len(Kinds[here]) /\ \A j : Spot(frames, d, j) = Cell(here, j, fp)
      /\ Low(frames, d) \in Int /\ saved \in [SavedRegisters -> Int]
      /\ frames[d].frame = fp
  BY <1>2, <1>3, Within DEF Ready
<1>5. Layout(frames) /\ Registers(frames) /\ Typed(frames)
  BY DEF Ready, Known
<1>6. DOMAIN reg = Held \cup {i} /\ reg[i] = r /\ \A j \in Held : j # i => reg[j] = frames[d].reg[j]
  BY <1>3, <1>4
<1>7. \A j \in Held : /\ j \in 1 .. Len(Kinds[here]) /\ frames[d].reg[j] \in Recorded(here)
                      /\ frames[d].reg[j] \in SavedRegisters /\ frames[d].reg[j] # r
                      /\ \A k \in Held : frames[d].reg[k] = frames[d].reg[j] => k = j
  <2>1. ASSUME NEW j \in Held
        PROVE  /\ j \in 1 .. Len(Kinds[here]) /\ frames[d].reg[j] \in Recorded(here)
               /\ frames[d].reg[j] \in SavedRegisters
               /\ \A k \in Held : frames[d].reg[k] = frames[d].reg[j] => k = j
    BY <1>3, <1>4, <1>5, RegisterFacts
  <2>2. \A j \in Held : frames[d].reg[j] # r
    BY <1>1, <1>4 DEF InUse
  <2> QED
    BY <2>1, <2>2
<1>8. \A j \in DOMAIN reg : j \in 1 .. Len(Kinds[here]) /\ reg[j] \in Recorded(here)
  BY <1>1, <1>4, <1>6, <1>7
<1>9. \A j, k \in DOMAIN reg : reg[j] = reg[k] => j = k
  BY <1>1, <1>6, <1>7
<1>10. frames'[d].reg = reg
  <2>1. Changes(frames, frames', reg)
    BY <1>1, <1>3 DEF Retable, Changes
  <2> QED
    BY <1>3, <1>4, <1>5, <2>1, Retabled
<1>11. mem[Cell(here, i, fp)] = Stored[Cell(here, i, fp)]
  <2>1. Value(i) = Stored[Cell(here, i, fp)]
    BY <1>3, <1>4, <1>5, ValueIs
  <2> QED
    BY <1>1, <2>1 DEF Value
<1>12. Stored[Cell(here, i, fp)] \in Int
  <2>1. Spot(frames, d, i) \in 0 .. MemorySize - 1
    BY <1>3, <1>4, <1>5, SpotFacts
  <2> QED
    BY <1>4, <2>1 DEF Memories
<1>13. saved' \in [SavedRegisters -> Int]
  BY <1>1, <1>4, <1>11, <1>12
<1>14. Rewritten(mem, mem', saved, saved', frames, frames', Stored, Stored, {i})
  <2>1. DOMAIN mem' = DOMAIN mem /\ Stored = [c \in DOMAIN mem |-> Stored[c]] /\ mem' = mem
    BY <1>1 DEF Stored
  <2>2. {i} \in SUBSET (1 .. Size(frames, d))
    BY <1>4
  <2>3. \A c \in DOMAIN mem : c < Low(frames, d) => Stored[c] = mem'[c]
    <3>1. DOMAIN mem = 0 .. MemorySize - 1
      BY <1>4 DEF Memories
    <3> QED
      BY <1>3, <1>4, <1>5, <2>1, <3>1, StoredBelow
  <2>4. Stored[Spot(frames, d, i)] = IF i \in DOMAIN frames'[d].reg THEN saved'[frames'[d].reg[i]]
                                    ELSE mem'[Spot(frames, d, i)]
    BY <1>1, <1>4, <1>6, <1>10, <1>11
  <2>5. ASSUME NEW j \in 1 .. Size(frames, d), j \notin {i}
        PROVE  /\ j \in DOMAIN frames'[d].reg <=> j \in DOMAIN frames[d].reg
               /\ j \in DOMAIN frames[d].reg =>
                    /\ frames'[d].reg[j] = frames[d].reg[j]
                    /\ saved'[frames[d].reg[j]] = saved[frames[d].reg[j]]
    BY <1>1, <1>4, <1>6, <1>7, <1>10, <2>5
  <2>6. ASSUME NEW k \in 1 .. d - 1, NEW j \in DOMAIN frames[k].reg,
               Untouched(frames, k, d, frames[k].reg[j])
        PROVE  saved'[frames[k].reg[j]] = saved[frames[k].reg[j]]
    <3>1. frames[k].reg[j] \in SavedRegisters
      <4>1. k \in 1 .. d
        BY <1>4
      <4> QED
        BY <1>3, <1>5, <4>1, RegisterFacts
    <3>2. frames[k].reg[j] \notin Recorded(here)
      BY <1>3, <1>4, <1>5, <2>6, UntouchedLast
    <3> QED
      BY <1>1, <1>4, <3>1, <3>2
  <2> QED
    BY <1>3, <2>1, <2>2, <2>3, <2>4, <2>5, <2>6 DEF Rewritten
<1>15. mem' \in Memories /\ Retable(reg)
  BY <1>1, <1>3, <1>4
<1>16. Stored' = Stored /\ Known'
  BY <1>1, <1>8, <1>9, <1>14, <1>15, Remapped
<1>17. P!UseRegisters
  BY <1>1, <1>13, <1>16, Hidden
<1> QED
  BY <1>1, <1>15, <1>16, <1>17, Counted DEF Fits, Ready

\* Variables that are stored are in their cells.
LEMMA StoreIs ==
  ASSUME Ready, Inside, NEW held \in SUBSET Held, Store(held)
  PROVE  /\ DOMAIN mem' = DOMAIN mem /\ mem' \in Memories
         /\ \A i \in held : /\ mem'[Spot(frames, Len(frames), i)] = Stored[Spot(frames, Len(frames), i)]
                            /\ mem'[Spot(frames, Len(frames), i)] = saved[Top.reg[i]]
         /\ \A c \in DOMAIN mem :
              (\A i \in held : Spot(frames, Len(frames), i) # c) => mem'[c] = mem[c]
<1>1. PICK d : d = Len(frames)
  OBVIOUS
<1>2. /\ d \in Nat /\ d > 0 /\ d \in 1 .. d /\ mem \in Memories /\ Stored \in Memories
      /\ Held = DOMAIN frames[d].reg /\ Top = frames[d]
      /\ Size(frames, d) = Len(Kinds[here]) /\ \A j : Spot(frames, d, j) = Cell(here, j, fp)
      /\ frames[d].frame = fp /\ frames[d].f = here
  BY <1>1, Within DEF Ready
<1>3. Layout(frames) /\ Registers(frames) /\ DOMAIN mem = 0 .. MemorySize - 1
  BY <1>2 DEF Ready, Known, Memories
<1>4. PICK cells : cells = [c \in {Cell(here, i, fp) : i \in held} |->
                              saved[Top.reg[CHOOSE i \in held : Cell(here, i, fp) = c]]]
  OBVIOUS
<1>5. mem' = [c \in DOMAIN mem |-> IF c \in DOMAIN cells THEN cells[c] ELSE mem[c]]
  BY <1>4 DEF Store, Write
<1>6. ASSUME NEW i \in held
      PROVE  /\ Cell(here, i, fp) \in DOMAIN cells /\ Cell(here, i, fp) \in DOMAIN mem
             /\ cells[Cell(here, i, fp)] = saved[Top.reg[i]]
             /\ Stored[Cell(here, i, fp)] = saved[Top.reg[i]]
             /\ Stored[Cell(here, i, fp)] \in Int
  <2>1. i \in Held /\ i \in 1 .. Size(frames, d)
    BY <1>1, <1>2, <1>3, RegisterFacts
  <2>2. Spot(frames, d, i) \in 0 .. MemorySize - 1
    BY <1>1, <1>3, <2>1, <1>2, SpotFacts
  <2>3. PICK x, j : x = Cell(here, i, fp) /\ j = CHOOSE y \in held : Cell(here, y, fp) = x
    OBVIOUS
  <2>4. j \in held /\ Cell(here, j, fp) = x
    BY <2>3
  <2>5. j \in 1 .. Size(frames, d)
    BY <1>1, <1>2, <1>3, <2>4, RegisterFacts
  <2>6. Spot(frames, d, j) = Spot(frames, d, i)
    BY <1>2, <2>3, <2>4
  <2>7. j = i
    BY <1>1, <1>2, <1>3, <2>1, <2>5, <2>6, SpotsDiffer
  <2>8. x \in DOMAIN cells /\ cells[x] = saved[Top.reg[j]]
    BY <1>4, <2>3
  <2>9. Value(i) = Stored[Cell(here, i, fp)]
    <3>1. i \in 1 .. Len(Kinds[here])
      BY <1>2, <2>1
    <3> QED
      BY <1>1, <1>2, <1>3, <3>1, ValueIs
  <2>10. Stored[Cell(here, i, fp)] = saved[Top.reg[i]]
    BY <2>1, <2>9 DEF Value
  <2>11. Stored[Cell(here, i, fp)] \in Int
    BY <1>2, <2>2 DEF Memories
  <2> QED
    BY <1>2, <1>3, <2>2, <2>3, <2>7, <2>8, <2>10, <2>11
<1>7. \A c \in DOMAIN cells : \E i \in held : c = Cell(here, i, fp)
  BY <1>4
<1>8. mem' \in Memories
  <2>1. ASSUME NEW c \in 0 .. MemorySize - 1
        PROVE  mem'[c] \in Int
    <3>1. CASE c \in DOMAIN cells
      <4>1. PICK i \in held : c = Cell(here, i, fp)
        BY <1>7, <3>1
      <4>2. cells[c] \in Int
        BY <1>6, <4>1
      <4> QED
        BY <1>3, <1>5, <3>1, <4>2
    <3>2. CASE c \notin DOMAIN cells
      BY <1>2, <1>3, <1>5, <3>2 DEF Memories
    <3> QED
      BY <3>1, <3>2
  <2> QED
    BY <1>3, <1>5, <2>1 DEF Memories
<1>9. \A i \in held : mem'[Cell(here, i, fp)] = saved[Top.reg[i]]
  BY <1>5, <1>6
<1>10. \A c \in DOMAIN mem : (\A i \in held : Cell(here, i, fp) # c) => mem'[c] = mem[c]
  BY <1>5, <1>7
<1> QED
  BY <1>1, <1>2, <1>5, <1>6, <1>8, <1>9, <1>10

\* Variables go back to their cells.
LEMMA UnloadStep ==
  ASSUME Ready, NEW held \in SUBSET Held, Unload(held)
  PROVE  P!UseRegisters /\ Fits
<1>1. /\ InBody /\ Count /\ Store(held)
      /\ Retable([j \in Held \ held |-> Top.reg[j]])
      /\ UNCHANGED <<sp, fp, ra, gp, v0, v1, args, saved, here, doing, scope>>
  BY DEF Unload
<1>2. Inside
  BY <1>1, InBodyInside
<1>3. PICK d, reg : d = Len(frames) /\ reg = [j \in Held \ held |-> Top.reg[j]]
  OBVIOUS
<1>4. /\ d \in Nat /\ d > 0 /\ d \in 1 .. d /\ mem \in Memories /\ Stored \in Memories
      /\ Held = DOMAIN frames[d].reg /\ Top = frames[d] /\ frames[d].f = here
      /\ DOMAIN Kinds[here] = 1 .. Len(Kinds[here])
      /\ Size(frames, d) = Len(Kinds[here]) /\ \A j : Spot(frames, d, j) = Cell(here, j, fp)
      /\ Low(frames, d) \in Int /\ saved \in [SavedRegisters -> Int]
      /\ frames[d].frame = fp
  BY <1>2, <1>3, Within DEF Ready
<1>5. Layout(frames) /\ Registers(frames) /\ Typed(frames)
  BY DEF Ready, Known
<1>6. DOMAIN reg = Held \ held /\ \A j \in Held \ held : reg[j] = frames[d].reg[j]
  BY <1>3, <1>4
<1>7. \A j \in Held : /\ j \in 1 .. Len(Kinds[here]) /\ frames[d].reg[j] \in Recorded(here)
                      /\ frames[d].reg[j] \in SavedRegisters
                      /\ \A k \in Held : frames[d].reg[k] = frames[d].reg[j] => k = j
  BY <1>3, <1>4, <1>5, RegisterFacts
<1>8. \A j \in DOMAIN reg : j \in 1 .. Len(Kinds[here]) /\ reg[j] \in Recorded(here)
  BY <1>6, <1>7
<1>9. \A j, k \in DOMAIN reg : reg[j] = reg[k] => j = k
  BY <1>6, <1>7
<1>10. frames'[d].reg = reg
  <2>1. Changes(frames, frames', reg)
    BY <1>1, <1>3 DEF Retable, Changes
  <2> QED
    BY <1>3, <1>4, <1>5, <2>1, Retabled
<1>11. /\ DOMAIN mem' = DOMAIN mem /\ mem' \in Memories
       /\ \A i \in held : mem'[Spot(frames, d, i)] = Stored[Spot(frames, d, i)]
       /\ \A c \in DOMAIN mem : (\A i \in held : Spot(frames, d, i) # c) => mem'[c] = mem[c]
  BY <1>1, <1>3, <1>4, StoreIs, <1>2
<1>12. Rewritten(mem, mem', saved, saved', frames, frames', Stored, Stored, held)
  <2>1. DOMAIN mem' = DOMAIN mem /\ Stored = [c \in DOMAIN mem |-> Stored[c]] /\ saved' = saved
    BY <1>1, <1>11 DEF Stored
  <2>2. held \in SUBSET (1 .. Size(frames, d))
    BY <1>4, <1>7
  <2>3. ASSUME NEW c \in DOMAIN mem, c < Low(frames, d)
        PROVE  Stored[c] = mem'[c]
    <3>1. DOMAIN mem = 0 .. MemorySize - 1
      BY <1>4 DEF Memories
    <3>2. Stored[c] = mem[c]
      BY <1>3, <1>4, <1>5, <2>3, <3>1, StoredBelow
    <3>3. \A i \in held : Spot(frames, d, i) # c
      <4>1. ASSUME NEW i \in held
            PROVE  Low(frames, d) <= Spot(frames, d, i) /\ Spot(frames, d, i) \in Int
        <5>1. i \in 1 .. Size(frames, d)
          BY <2>2
        <5> QED
          BY <1>3, <1>4, <1>5, <5>1, SpotFacts
      <4> QED
        BY <1>4, <2>3, <4>1
    <3> QED
      BY <1>11, <3>2, <3>3
  <2>4. \A i \in held :
          Stored[Spot(frames, d, i)] = IF i \in DOMAIN frames'[d].reg THEN saved'[frames'[d].reg[i]]
                                       ELSE mem'[Spot(frames, d, i)]
    BY <1>6, <1>10, <1>11
  <2>5. ASSUME NEW j \in 1 .. Size(frames, d), j \notin held
        PROVE  /\ j \in DOMAIN frames'[d].reg <=> j \in DOMAIN frames[d].reg
               /\ j \in DOMAIN frames[d].reg =>
                    /\ frames'[d].reg[j] = frames[d].reg[j]
                    /\ saved'[frames[d].reg[j]] = saved[frames[d].reg[j]]
    BY <1>4, <1>6, <1>10, <2>1, <2>5
  <2>6. \A c \in DOMAIN mem :
          c >= Low(frames, d) /\ (\A i \in held : Spot(frames, d, i) # c) =>
            mem'[c] = mem[c] /\ Stored[c] = Stored[c]
    BY <1>11
  <2>7. \A k \in 1 .. d - 1 : \A j \in DOMAIN frames[k].reg :
          Untouched(frames, k, d, frames[k].reg[j]) => saved'[frames[k].reg[j]] = saved[frames[k].reg[j]]
    BY <2>1
  <2> QED
    BY <1>3, <2>1, <2>2, <2>3, <2>4, <2>5, <2>6, <2>7 DEF Rewritten
<1>13. Retable(reg)
  BY <1>1, <1>3
<1>14. Stored' = Stored /\ Known'
  BY <1>1, <1>8, <1>9, <1>11, <1>12, <1>13, Remapped
<1>15. P!UseRegisters
  BY <1>1, <1>4, <1>14, Hidden
<1> QED
  BY <1>1, <1>11, <1>14, <1>15, Counted DEF Fits, Ready

\* A register that nobody relies on is written.
LEMMA UseRegisterStep ==
  ASSUME Ready, NEW r \in SavedRegisters, NEW w \in Int, r \notin Top.owed, UseRegister(r, w)
  PROVE  P!UseRegisters /\ Fits
<1>1. /\ InBody /\ Count /\ r \notin InUse(Top) /\ saved' = [saved EXCEPT ![r] = w]
      /\ UNCHANGED <<mem, sp, fp, ra, gp, v0, v1, args, here, doing, frames, scope>>
  BY DEF UseRegister
<1>2. Inside
  BY <1>1, InBodyInside
<1>3. PICK d : d = Len(frames)
  OBVIOUS
<1>4. /\ d \in Nat /\ d > 0 /\ d \in 1 .. d /\ mem \in Memories /\ Stored \in Memories
      /\ Held = DOMAIN frames[d].reg /\ Top = frames[d]
      /\ Low(frames, d) \in Int /\ saved \in [SavedRegisters -> Int]
  BY <1>2, <1>3, Within DEF Ready
<1>5. Layout(frames) /\ Registers(frames) /\ Owing(frames)
  BY DEF Ready, Known
<1>6. saved' \in [SavedRegisters -> Int]
  BY <1>1, <1>4
<1>7. Rewritten(mem, mem', saved, saved', frames, frames, Stored, Stored, {})
  <2>1. DOMAIN mem' = DOMAIN mem /\ Stored = [c \in DOMAIN mem |-> Stored[c]] /\ mem' = mem
    BY <1>1 DEF Stored
  <2>2. \A c \in DOMAIN mem : c < Low(frames, d) => Stored[c] = mem'[c]
    <3>1. DOMAIN mem = 0 .. MemorySize - 1
      BY <1>4 DEF Memories
    <3> QED
      BY <1>3, <1>4, <1>5, <2>1, <3>1, StoredBelow
  <2>3. ASSUME NEW j \in DOMAIN frames[d].reg
        PROVE  saved'[frames[d].reg[j]] = saved[frames[d].reg[j]]
    <3>1. frames[d].reg[j] # r
      BY <1>1, <1>4 DEF InUse
    <3>2. frames[d].reg[j] \in SavedRegisters
      BY <1>3, <1>4, <1>5, RegisterFacts
    <3> QED
      BY <1>1, <1>4, <3>1, <3>2
  <2>4. ASSUME NEW k \in 1 .. d - 1, NEW j \in DOMAIN frames[k].reg,
               Untouched(frames, k, d, frames[k].reg[j])
        PROVE  saved'[frames[k].reg[j]] = saved[frames[k].reg[j]]
    <3>1. k \in 1 .. d
      BY <1>4
    <3>2. frames[k].reg[j] \in SavedRegisters
      BY <1>3, <1>5, <3>1, RegisterFacts
    <3>3. frames[k].reg[j] \in frames[d].owed
      BY <1>3, <1>4, <1>5, <2>4 DEF Owing
    <3> QED
      BY <1>1, <1>4, <3>2, <3>3
  <2> QED
    BY <1>3, <2>1, <2>2, <2>3, <2>4 DEF Rewritten
<1>8. P!Current' = P!Current /\ mem' \in Memories /\ Len(scope') = Len(scope)
  BY <1>1, <1>4 DEF P!Current
<1>9. Stored' = Stored /\ Known'
  BY <1>1, <1>2, <1>7, <1>8, Unmoved DEF Ready
<1>10. P!UseRegisters
  BY <1>1, <1>6, <1>9, Hidden
<1> QED
  BY <1>1, <1>8, <1>9, <1>10, Counted DEF Fits, Ready

\* The arguments of a call are variables of the caller.
LEMMA ArgumentIs ==
  ASSUME Ready, InBody, NEW s \in DOMAIN Sites, Sites[s].caller = here,
         \A n \in DOMAIN Sites[s].args : Sites[s].args[n] \in Here,
         NEW n \in 1 .. Params[Sites[s].callee]
  PROVE  /\ n \in DOMAIN Sites[s].args
         /\ Value(Sites[s].args[n]) = P!Var(Sites[s].args[n]) /\ Value(Sites[s].args[n]) \in Int
<1>1. n \in DOMAIN Sites[s].args /\ Inside
  BY SiteIs, InBodyInside
<1>2. PICK j : j = Sites[s].args[n]
  OBVIOUS
<1>3. j \in 1 .. Len(Kinds[here])
  BY <1>1, <1>2, ScopeFacts
<1>4. Value(j) = P!Var(j)
  BY <1>1, <1>3, ValueOf
<1>5. PICK d : d = Len(frames)
  OBVIOUS
<1>6. /\ d \in 1 .. d /\ Size(frames, d) = Len(Kinds[here]) /\ Stored \in Memories
      /\ \A i : Spot(frames, d, i) = Cell(here, i, fp)
  BY <1>1, <1>5, Within DEF Ready
<1>7. Spot(frames, d, j) \in 0 .. MemorySize - 1
  BY <1>3, <1>5, <1>6, SpotFacts DEF Ready, Known
<1>8. P!Var(j) \in Int
  <2>1. P!Var(j) = Stored[Spot(frames, d, j)]
    BY <1>6, SameLayout DEF P!Var
  <2> QED
    BY <1>6, <1>7, <2>1 DEF Memories
<1> QED
  BY <1>1, <1>2, <1>4, <1>8

\* A call puts the heap pointer and the arguments below the frame.
LEMMA CallStep ==
  ASSUME Ready, NEW s \in DOMAIN Sites, Call(s)
  PROVE  P!Call(s) /\ Fits
<1>1. PICK site, f, bottom, in :
        site = Sites[s] /\ f = site.callee /\ bottom = sp - RequiredSize(f) /\ in = InRegisters(f)
  OBVIOUS
<1>2. PICK heap : heap = [c \in bottom .. sp - 1 |->
                            IF c = sp - 1 THEN gp ELSE Value(site.args[in + 1 + c - bottom])]
  OBVIOUS
<1>3. /\ InBody /\ Count /\ site.caller = here /\ \A n \in DOMAIN site.args : site.args[n] \in Here
      /\ bottom > gp /\ Write(heap)
      /\ args' = [n \in DOMAIN args |-> IF n <= in THEN Value(site.args[n]) ELSE args[n]]
      /\ sp' = bottom /\ ra' = s
      /\ here' = f /\ doing' = [Idle EXCEPT !.step = "enter"]
      /\ UNCHANGED <<fp, gp, v0, v1, saved, frames, scope>>
  BY <1>1, <1>2 DEF Call
<1>4. Inside /\ doing.step # "returned" /\ doing.step # "enter"
  BY <1>3, InBodyInside
<1>5. gp \in Int /\ sp = Low(frames, Len(frames)) /\ sp \in Int
  BY <1>4, Within DEF Ready
<1>6. /\ f \in Functions /\ RequiredSize(f) \in Nat /\ RequiredSize(f) > 0 /\ in \in Nat
      /\ Params[f] \in Nat /\ in <= Params[f] /\ RequiredSize(f) = 1 + Params[f] - in
  BY <1>1, SiteIs, RequiredIs
<1>7. \A n \in 1 .. Params[f] :
        /\ n \in DOMAIN site.args /\ Value(site.args[n]) = P!Var(site.args[n])
        /\ Value(site.args[n]) \in Int
  BY <1>1, <1>3, ArgumentIs
<1>8. \A c \in bottom .. sp - 1 : c \in Int /\ c < sp
        /\ (c # sp - 1 => in + 1 + c - bottom \in 1 .. Params[f])
  <2>1. PICK q, p : q = RequiredSize(f) /\ p = Params[f]
    OBVIOUS
  <2>2. /\ q \in Nat /\ q > 0 /\ p \in Nat /\ in <= p /\ q = 1 + p - in /\ in \in Nat
        /\ bottom = sp - q /\ sp \in Int
    BY <1>1, <1>5, <1>6, <2>1
  <2>3. bottom \in Int
    BY <2>2
  <2>4. ASSUME NEW c \in bottom .. sp - 1
        PROVE  c \in Int /\ c < sp /\ (c # sp - 1 => in + 1 + c - bottom \in 1 .. p)
    <3>1. c \in Int /\ bottom <= c /\ c <= sp - 1
      BY <2>2, <2>3
    <3>2. c # sp - 1 => c <= sp - 2
      BY <2>2, <3>1
    <3>3. in + 1 + c - bottom \in Int /\ 1 <= in + 1 + c - bottom
      BY <2>2, <2>3, <3>1
    <3>4. c # sp - 1 => in + 1 + c - bottom <= p
      BY <2>2, <2>3, <3>1, <3>2
    <3> QED
      BY <2>2, <3>1, <3>3, <3>4
  <2> QED
    BY <2>1, <2>4
<1>9. \A c \in DOMAIN heap : c \in Int /\ c < Low(frames, Len(frames)) /\ heap[c] \in Int
  <2>1. ASSUME NEW c \in bottom .. sp - 1
        PROVE  heap[c] \in Int
    <3>1. CASE c = sp - 1
      BY <1>2, <1>5, <3>1
    <3>2. CASE c # sp - 1
      <4>1. heap[c] = Value(site.args[in + 1 + c - bottom])
        BY <1>2, <3>2
      <4> QED
        BY <1>7, <1>8, <3>2, <4>1
    <3> QED
      BY <3>1, <3>2
  <2> QED
    BY <1>2, <1>5, <1>8, <2>1
<1>10. P!Current' = P!Current
  <2>1. doing'.step = "enter"
    BY <1>3 DEF Idle
  <2>2. P!Current' = Sites[ra'].caller
    BY <2>1 DEF P!Current
  <2> QED
    BY <1>1, <1>3, <1>4, <2>2 DEF P!Current
<1>11. /\ mem' \in Memories /\ Known'
       /\ Stored' = [c \in DOMAIN Stored |-> IF c \in DOMAIN heap THEN heap[c] ELSE Stored[c]]
  BY <1>3, <1>4, <1>9, <1>10, HeapIs
<1>12. heap = [c \in bottom .. sp - 1 |->
                 IF c = sp - 1 THEN gp ELSE P!Var(site.args[in + 1 + c - bottom])]
  <2>1. \A c \in bottom .. sp - 1 : c # sp - 1 =>
          Value(site.args[in + 1 + c - bottom]) = P!Var(site.args[in + 1 + c - bottom])
    BY <1>7, <1>8
  <2> QED
    BY <1>2, <2>1
<1>13. P!Write([c \in bottom .. sp - 1 |->
          IF c = sp - 1 THEN gp ELSE P!Var(site.args[in + 1 + c - bottom])])
  BY <1>11, <1>12 DEF P!Write
<1>14. args' = [n \in DOMAIN args |-> IF n <= in THEN P!Var(site.args[n]) ELSE args[n]]
  <2>1. DOMAIN args = 1 .. ParamRegisters /\ ParamRegisters \in Nat
    BY MemoryAssumption DEF Ready, TypeOK
  <2>2. \A n \in DOMAIN args : n <= in => n \in 1 .. Params[f]
    BY <1>6, <2>1
  <2>3. \A n \in DOMAIN args : n <= in => Value(site.args[n]) = P!Var(site.args[n])
    BY <1>7, <2>2
  <2> QED
    BY <1>3, <2>3
<1>15. /\ P!RequiredSize(f) = RequiredSize(f) /\ P!InRegisters(f) = in /\ P!Idle = Idle
       /\ P!Here = Here /\ P!InBody
  BY <1>1, <1>3, <1>4, SameLayout, ScopeFacts DEF P!InBody, InBody
<1>16. P!Call(s)
  BY <1>1, <1>3, <1>13, <1>14, <1>15 DEF P!Call
<1> QED
  BY <1>3, <1>11, <1>16, Counted DEF Fits, Ready

\* What the prologue and the entry code write.
EntryCells(f, frame) ==
  [c \in {sp - 1, frame}
            \cup {Cell(f, i, frame) : i \in 1 .. InRegisters(f)}
            \cup {SaveCell(f, n, frame) : n \in DOMAIN Uses[f]} |->
       IF c = sp - 1 THEN ra
       ELSE IF c = frame THEN fp
       ELSE IF c >= frame - InRegisters(f)
       THEN args[CHOOSE i \in 1 .. InRegisters(f) : Cell(f, i, frame) = c]
       ELSE saved[Uses[f][CHOOSE n \in DOMAIN Uses[f] : SaveCell(f, n, frame) = c]]]

\* Parameters are next to the links, saved registers below all variables.
LEMMA EntryPlaces ==
  ASSUME NEW f \in Functions, NEW frame \in Int
  PROVE  /\ \A i \in 1 .. InRegisters(f) :
              /\ Cell(f, i, frame) \in Int /\ Cell(f, i, frame) < frame
              /\ Cell(f, i, frame) >= frame - InRegisters(f) /\ i \in 1 .. ParamRegisters
         /\ \A n \in DOMAIN Uses[f] :
              /\ SaveCell(f, n, frame) \in Int /\ SaveCell(f, n, frame) < frame - InRegisters(f)
              /\ SaveCell(f, n, frame) < frame /\ Uses[f][n] \in SavedRegisters
<1>1. PICK in, par, all : in = InRegisters(f) /\ par = Params[f] /\ all = Len(Kinds[f])
  OBVIOUS
<1>2. in \in Nat /\ par \in Nat /\ in <= par
  BY <1>1, RequiredIs
<1>3. par <= all /\ Kinds[f] \in Seq({"word", "string"}) /\ Uses[f] \in Seq(SavedRegisters)
  BY <1>1, FunctionsAssumption
<1>4. all \in Nat
  BY <1>1, <1>3
<1>5. in <= ParamRegisters /\ ParamRegisters \in Nat
  BY <1>1, <1>2, MemoryAssumption DEF InRegisters
<1>6. ASSUME NEW i \in 1 .. in
      PROVE  /\ Cell(f, i, frame) \in Int /\ Cell(f, i, frame) < frame
             /\ Cell(f, i, frame) >= frame - in /\ i \in 1 .. ParamRegisters
  <2>1. Cell(f, i, frame) = frame - i
    BY <1>1 DEF Cell
  <2> QED
    BY <1>2, <1>5, <2>1
<1>7. ASSUME NEW n \in DOMAIN Uses[f]
      PROVE  /\ SaveCell(f, n, frame) \in Int /\ SaveCell(f, n, frame) < frame - in
             /\ SaveCell(f, n, frame) < frame /\ Uses[f][n] \in SavedRegisters
  <2>1. n \in Nat /\ n > 0 /\ Uses[f][n] \in SavedRegisters
    BY <1>3
  <2>2. SaveCell(f, n, frame) = frame - (in + all - par + n)
    BY <1>1 DEF SaveCell, Slots
  <2> QED
    BY <1>2, <1>3, <1>4, <2>1, <2>2
<1> QED
  BY <1>1, <1>6, <1>7

\* The links, the parameters and the saved registers lie below what the call has pushed.
LEMMA EntryIs ==
  ASSUME Ready, NEW f \in Functions, NEW frame \in Int, sp - 1 = frame + 1,
         NEW cells, cells = EntryCells(f, frame)
  PROVE  /\ \A c \in DOMAIN cells : c \in Int /\ c <= frame + 1 /\ cells[c] \in Int
         /\ frame \in DOMAIN cells /\ cells[frame] = fp
         /\ frame + 1 \in DOMAIN cells /\ cells[frame + 1] = ra
         /\ \A n \in DOMAIN Uses[f] :
              /\ SaveCell(f, n, frame) \in DOMAIN cells
              /\ cells[SaveCell(f, n, frame)] = saved[Uses[f][n]]
<1>1. PICK in : in = InRegisters(f)
  OBVIOUS
<1>2. in \in Nat
  BY <1>1, RequiredIs
<1>3. /\ \A i \in 1 .. in :
           /\ Cell(f, i, frame) \in Int /\ Cell(f, i, frame) < frame
           /\ Cell(f, i, frame) >= frame - in /\ i \in 1 .. ParamRegisters
      /\ \A n \in DOMAIN Uses[f] :
           /\ SaveCell(f, n, frame) \in Int /\ SaveCell(f, n, frame) < frame - in
           /\ SaveCell(f, n, frame) < frame /\ Uses[f][n] \in SavedRegisters
  BY <1>1, EntryPlaces
<1>4. /\ fp \in Int /\ ra \in Int /\ args \in [1 .. ParamRegisters -> Int]
      /\ saved \in [SavedRegisters -> Int]
  BY DEF Ready, TypeOK
<1>5. cells = [c \in {frame + 1, frame} \cup {Cell(f, i, frame) : i \in 1 .. in}
                       \cup {SaveCell(f, n, frame) : n \in DOMAIN Uses[f]} |->
                IF c = frame + 1 THEN ra
                ELSE IF c = frame THEN fp
                ELSE IF c >= frame - in
                THEN args[CHOOSE i \in 1 .. in : Cell(f, i, frame) = c]
                ELSE saved[Uses[f][CHOOSE n \in DOMAIN Uses[f] : SaveCell(f, n, frame) = c]]]
  BY <1>1 DEF EntryCells
<1>6. /\ frame \in DOMAIN cells /\ cells[frame] = fp
      /\ frame + 1 \in DOMAIN cells /\ cells[frame + 1] = ra
  BY <1>5
<1>7. ASSUME NEW n \in DOMAIN Uses[f]
      PROVE  /\ SaveCell(f, n, frame) \in DOMAIN cells
             /\ cells[SaveCell(f, n, frame)] = saved[Uses[f][n]]
  <2>1. PICK x, m : x = SaveCell(f, n, frame)
                    /\ m = CHOOSE k \in DOMAIN Uses[f] : SaveCell(f, k, frame) = x
    OBVIOUS
  <2>2. m \in DOMAIN Uses[f] /\ SaveCell(f, m, frame) = x
    BY <2>1
  <2>3. m = n
    BY <2>1, <2>2, SaveCellFacts
  <2>4. x \in Int /\ x < frame - in /\ x < frame
    BY <1>3, <2>1
  <2>5. x # frame + 1 /\ x # frame /\ ~ (x >= frame - in)
    BY <1>2, <2>4
  <2>6. x \in DOMAIN cells
    BY <1>5, <2>1
  <2>7. cells[x] = saved[Uses[f][m]]
    BY <1>5, <2>1, <2>5, <2>6
  <2> QED
    BY <2>1, <2>3, <2>6, <2>7
<1>8. ASSUME NEW i \in 1 .. in
      PROVE  cells[Cell(f, i, frame)] \in Int /\ Cell(f, i, frame) \in DOMAIN cells
  <2>1. PICK x, m : x = Cell(f, i, frame)
                    /\ m = CHOOSE k \in 1 .. in : Cell(f, k, frame) = x
    OBVIOUS
  <2>2. m \in 1 .. in
    BY <2>1
  <2>3. x \in Int /\ x >= frame - in /\ x < frame
    BY <1>3, <2>1
  <2>4. x # frame + 1 /\ x # frame /\ x >= frame - in
    BY <1>2, <2>3
  <2>5. x \in DOMAIN cells
    BY <1>5, <2>1
  <2>6. cells[x] = args[m]
    BY <1>5, <2>1, <2>4, <2>5
  <2>7. m \in 1 .. ParamRegisters
    BY <1>3, <2>2
  <2> QED
    BY <1>4, <2>1, <2>5, <2>6, <2>7
<1>9. ASSUME NEW c \in DOMAIN cells
      PROVE  c \in Int /\ c <= frame + 1 /\ cells[c] \in Int
  <2>1. \/ c = frame + 1 \/ c = frame
        \/ \E i \in 1 .. in : c = Cell(f, i, frame)
        \/ \E n \in DOMAIN Uses[f] : c = SaveCell(f, n, frame)
    BY <1>5
  <2>2. CASE c = frame + 1 \/ c = frame
    BY <1>4, <1>6, <2>2
  <2>3. ASSUME NEW i \in 1 .. in, c = Cell(f, i, frame)
        PROVE  c \in Int /\ c <= frame + 1 /\ cells[c] \in Int
    <3>1. c \in Int /\ c < frame
      BY <1>3, <2>3
    <3> QED
      BY <1>8, <2>3, <3>1
  <2>4. ASSUME NEW n \in DOMAIN Uses[f], c = SaveCell(f, n, frame)
        PROVE  c \in Int /\ c <= frame + 1 /\ cells[c] \in Int
    <3>1. c \in Int /\ c < frame /\ Uses[f][n] \in SavedRegisters
      BY <1>3, <2>4
    <3>2. cells[c] = saved[Uses[f][n]]
      BY <1>7, <2>4
    <3> QED
      BY <1>4, <3>1, <3>2
  <2> QED
    BY <2>1, <2>2, <2>3, <2>4
<1> QED
  BY <1>6, <1>7, <1>9

\* A frame more.
LEMMA AppendExtends ==
  ASSUME NEW fr, NEW fr2, Layout(fr), Typed(fr), NEW one, fr2 = Append(fr, one),
         DOMAIN one = {"f", "frame", "reg", "owed"}, DOMAIN one.reg = {}
  PROVE  /\ Extends(fr, fr2, one.f, one.frame) /\ Typed(fr2) /\ fr2[Len(fr) + 1] = one
<1>1. PICK d : d = Len(fr)
  OBVIOUS
<1>2. d \in Nat /\ DOMAIN fr = 1 .. d
  BY <1>1 DEF Layout
<1>3. PICK S : fr \in Seq(S)
  BY DEF Typed
<1>4. fr \in Seq(S \cup {one}) /\ one \in S \cup {one}
  BY <1>3
<1>5. /\ fr2 \in Seq(S \cup {one}) /\ Len(fr2) = d + 1 /\ fr2[d + 1] = one
      /\ \A k \in 1 .. d : fr2[k] = fr[k]
  BY <1>1, <1>4, AppendProperties
<1>6. DOMAIN fr2 = 1 .. d + 1
  BY <1>5, LenProperties
<1>7. Extends(fr, fr2, one.f, one.frame)
  BY <1>1, <1>5, <1>6 DEF Extends
<1>8. Typed(fr2)
  <2>1. \A k \in 1 .. d + 1 : k = d + 1 \/ k \in 1 .. d
    BY <1>2
  <2>2. \A k \in 1 .. d + 1 : DOMAIN fr2[k] = {"f", "frame", "reg", "owed"}
    BY <1>1, <1>5, <2>1 DEF Typed
  <2> QED
    BY <1>5, <2>2 DEF Typed
<1> QED
  BY <1>1, <1>5, <1>7, <1>8

\* The new call owes what the callers have in registers and it does not save itself.
LEMMA ExtendedOwing ==
  ASSUME NEW fr, NEW fr2, Layout(fr), Owing(fr), NEW f, NEW frame, Extends(fr, fr2, f, frame),
         Len(fr) > 0 =>
           fr2[Len(fr) + 1].owed = (fr[Len(fr)].owed \cup InUse(fr[Len(fr)])) \ Recorded(f)
  PROVE  Owing(fr2)
<1>1. PICK d : d = Len(fr)
  OBVIOUS
<1>2. /\ d \in Nat /\ Len(fr2) = d + 1 /\ \A k \in 1 .. d : fr2[k] = fr[k]
      /\ fr2[d + 1].f = f /\ DOMAIN fr2[d + 1].reg = {}
  BY <1>1 DEF Layout, Extends
<1>3. ASSUME NEW l \in 1 .. d + 1, NEW k \in 1 .. l - 1, NEW i \in DOMAIN fr2[k].reg,
             Untouched(fr2, k, l, fr2[k].reg[i])
      PROVE  fr2[k].reg[i] \in fr2[l].owed
  <2>1. k \in 1 .. d /\ l \in Int /\ k \in Int /\ k < l
    BY <1>2
  <2>2. PICK r : r = fr2[k].reg[i]
    OBVIOUS
  <2>3. fr2[k] = fr[k] /\ r = fr[k].reg[i] /\ i \in DOMAIN fr[k].reg
    BY <1>2, <2>1, <2>2
  <2>4. CASE l \in 1 .. d
    <3>1. \A j \in k + 1 .. l : j \in 1 .. d
      BY <1>2, <2>1, <2>4
    <3>2. Untouched(fr, k, l, r)
      BY <1>2, <1>3, <2>2, <3>1 DEF Untouched
    <3>3. r \in fr[l].owed
      BY <1>1, <2>3, <2>4, <3>2 DEF Owing
    <3> QED
      BY <1>2, <2>2, <2>4, <3>3
  <2>5. CASE l = d + 1
    <3>1. r \notin Recorded(f)
      <4>1. l \in k + 1 .. l
        BY <2>1
      <4> QED
        BY <1>2, <1>3, <2>2, <2>5, <4>1 DEF Untouched
    <3>2. CASE k = d
      <4>1. r \in InUse(fr[d])
        BY <2>3, <3>2 DEF InUse
      <4>2. d > 0
        BY <1>2, <2>1, <3>2
      <4> QED
        BY <1>1, <2>2, <2>5, <3>1, <4>1, <4>2
    <3>3. CASE k # d
      <4>1. k \in 1 .. d - 1 /\ d \in 1 .. d /\ d > 0
        BY <1>2, <2>1, <3>3
      <4>2. \A j \in k + 1 .. d : j \in 1 .. d /\ j \in k + 1 .. l
        BY <1>2, <2>1, <2>5
      <4>3. Untouched(fr, k, d, r)
        BY <1>2, <1>3, <2>2, <4>2 DEF Untouched
      <4>4. r \in fr[d].owed
        BY <1>1, <2>3, <4>1, <4>3 DEF Owing
      <4> QED
        BY <1>1, <2>2, <2>5, <3>1, <4>1, <4>4
    <3> QED
      BY <3>2, <3>3
  <2>6. l \in 1 .. d \/ l = d + 1
    BY <1>2
  <2> QED
    BY <2>4, <2>5, <2>6
<1> QED
  BY <1>2, <1>3 DEF Owing

\* Where the new frame is.
LEMMA EnterPlace ==
  ASSUME Ready, doing.step = "enter", NEW frame, frame = sp - 2,
         P!Bottom(here, frame) > gp
  PROVE  /\ here \in Functions /\ frame \in Int /\ sp - 1 = frame + 1
         /\ Len(frames) \in Nat /\ Len(frames) = Len(scope)
         /\ 0 <= P!Bottom(here, frame) /\ P!Top(here, frame) <= MemorySize + 1
         /\ frame + 3 <= P!Top(here, frame) /\ P!Top(here, frame) \in Int
         /\ Len(frames) > 0 =>
              /\ P!Top(here, frame) <= Low(frames, Len(frames))
              /\ fp = frames[Len(frames)].frame
              /\ Sites[ra].caller = frames[Len(frames)].f
<1>1. PICK d : d = Len(frames)
  OBVIOUS
<1>2. P!IInv
  BY DEF Ready, P!JInv
<1>3. \E x, F, G, H : P!At(x, F, G, H)
  BY <1>2 DEF P!IInv, P!At
<1>4. PICK x, F, G, H : P!At(x, F, G, H)
  BY <1>3
<1>5. Layout(frames) /\ Len(frames) = Len(scope) /\ d \in Nat
  BY <1>1 DEF Ready, Known, Topmost, Layout
<1>6. d = x /\ P!Entering(d, F, G, H)
  BY <1>1, <1>4, <1>5 DEF P!At, P!Depth, P!Position
<1>7. here \in Functions /\ sp \in Int /\ gp \in Int /\ Base <= gp /\ Base \in Nat
  BY MemoryAssumption DEF Ready, TypeOK, Base
<1>8. frame \in Int /\ sp = frame + 2 /\ sp - 1 = frame + 1
  BY <1>7
<1>9. P!Bottom(here, frame) \in Int /\ P!Top(here, frame) \in Int /\ frame + 3 <= P!Top(here, frame)
  BY <1>7, <1>8, ExtentFacts
<1>10. 0 <= P!Bottom(here, frame)
  BY <1>7, <1>9
<1>11. P!Top(here, frame) = sp + RequiredSize(here)
  BY <1>8, SameLayout DEF P!Top
<1>12. CASE d = 0
  <2>1. sp = MemorySize /\ here = Main
    BY <1>6, <1>12 DEF P!Entering
  <2>2. RequiredSize(Main) = 1
    <3>1. Params[Main] = 0 /\ ParamRegisters \in Nat
      BY FunctionsAssumption, MemoryAssumption
    <3> QED
      BY <3>1 DEF RequiredSize, InRegisters
  <2>3. P!Top(here, frame) <= MemorySize + 1
    BY <1>7, <1>11, <2>1, <2>2
  <2> QED
    BY <1>1, <1>5, <1>7, <1>8, <1>9, <1>10, <1>12, <2>3
<1>13. CASE d > 0
  <2>1. fp = F[d] /\ Sites[ra].caller = G[d] /\ sp = P!Bottom(G[d], F[d]) - P!RequiredSize(here)
    BY <1>6, <1>13 DEF P!Entering
  <2>2. frames[d].frame = fp /\ frames[d].f = Sites[ra].caller
    BY <1>1, <1>13 DEF Ready, Known, Topmost, P!Current
  <2>3. Low(frames, d) = P!Bottom(G[d], F[d])
    BY <2>1, <2>2 DEF Low
  <2>4. /\ Low(frames, d) \in Int /\ High(frames, d) \in Int
        /\ Low(frames, d) <= frames[d].frame /\ frames[d].frame + 3 <= High(frames, d)
        /\ High(frames, d) <= MemorySize + 1 /\ frames[d].frame \in Int
    <3>1. d \in 1 .. Len(frames)
      BY <1>1, <1>5, <1>13
    <3> QED
      BY <1>1, <1>5, <3>1, FramePlace DEF Layout
  <2>5. RequiredSize(here) \in Nat /\ P!RequiredSize(here) = RequiredSize(here)
    BY <1>7, RequiredIs, SameLayout
  <2>6. P!Top(here, frame) = Low(frames, d)
    BY <1>7, <1>11, <2>1, <2>3, <2>4, <2>5
  <2>7. P!Top(here, frame) <= MemorySize + 1
    <3>1. MemorySize \in Nat
      BY MemoryAssumption
    <3> QED
      BY <2>4, <2>6, <3>1
  <2> QED
    BY <1>1, <1>5, <1>7, <1>8, <1>9, <1>10, <2>2, <2>4, <2>6, <2>7
<1> QED
  BY <1>5, <1>12, <1>13

\* The entry code in other words.
LEMMA EntersIs ==
  /\ Enter <=>
       /\ doing.step = "enter" /\ sp' = P!Bottom(here, sp - 2) /\ sp' > gp /\ fp' = sp - 2
       /\ Write(EntryCells(here, sp - 2)) /\ doing' = Idle
       /\ frames' = Append(frames,
            [f |-> here, frame |-> sp - 2, reg |-> <<>>,
             owed |-> IF frames = <<>> THEN {} ELSE (Top.owed \cup InUse(Top)) \ Recorded(here)])
       /\ scope' = Append(scope, 1 .. Params[here])
       /\ UNCHANGED <<ra, gp, v0, v1, args, saved, here, left>>
  /\ P!Enter <=>
       /\ doing.step = "enter" /\ sp' = P!Bottom(here, sp - 2) /\ sp' > gp /\ fp' = sp - 2
       /\ P!Write(EntryCells(here, sp - 2)) /\ doing' = Idle
       /\ scope' = Append(scope, 1 .. Params[here])
       /\ UNCHANGED <<ra, gp, v0, v1, args, saved, here>>
<1>1. P!Bottom(here, sp - 2) = sp - 2 - Slots(here) - Len(Uses[here]) /\ P!Idle = Idle
  BY SameLayout DEF P!Bottom
<1>2. Enter <=>
        /\ doing.step = "enter" /\ sp' = P!Bottom(here, sp - 2) /\ sp' > gp /\ fp' = sp - 2
        /\ Write(EntryCells(here, sp - 2)) /\ doing' = Idle
        /\ frames' = Append(frames,
             [f |-> here, frame |-> sp - 2, reg |-> <<>>,
              owed |-> IF frames = <<>> THEN {} ELSE (Top.owed \cup InUse(Top)) \ Recorded(here)])
        /\ scope' = Append(scope, 1 .. Params[here])
        /\ UNCHANGED <<ra, gp, v0, v1, args, saved, here, left>>
  BY <1>1 DEF Enter, EntryCells
<1>3. P!Enter <=>
        /\ doing.step = "enter" /\ sp' = sp - 2 - P!Slots(here) - Len(Uses[here]) /\ sp' > gp
        /\ fp' = sp - 2
        /\ P!Write(EntryCells(here, sp - 2)) /\ doing' = P!Idle
        /\ scope' = Append(scope, 1 .. Params[here])
        /\ UNCHANGED <<ra, gp, v0, v1, args, saved, here>>
  BY DEF P!Enter, EntryCells, P!Cell, Cell, P!SaveCell, SaveCell, P!InRegisters, InRegisters,
         P!Slots, Slots
<1>4. P!Slots(here) = Slots(here)
  BY SameLayout
<1> QED
  BY <1>1, <1>2, <1>3, <1>4

\* The entry code makes the frame.
LEMMA EnterStep ==
  ASSUME Ready, Enter
  PROVE  P!Enter /\ Fits
<1>1. PICK d, frame, cells, one :
        /\ d = Len(frames) /\ frame = sp - 2 /\ cells = EntryCells(here, frame)
        /\ one = [f |-> here, frame |-> frame, reg |-> <<>>,
                  owed |-> IF frames = <<>> THEN {} ELSE (Top.owed \cup InUse(Top)) \ Recorded(here)]
  OBVIOUS
<1>2. /\ doing.step = "enter" /\ sp' = P!Bottom(here, frame) /\ sp' > gp /\ fp' = frame
      /\ Write(cells) /\ doing' = Idle /\ frames' = Append(frames, one)
      /\ scope' = Append(scope, 1 .. Params[here])
      /\ UNCHANGED <<ra, gp, v0, v1, args, saved, here, left>>
  BY <1>1, EntersIs
<1>3. P!Bottom(here, frame) > gp
  BY <1>2
<1>4. /\ here \in Functions /\ frame \in Int /\ sp - 1 = frame + 1
      /\ d \in Nat /\ d = Len(scope)
      /\ 0 <= P!Bottom(here, frame) /\ P!Top(here, frame) <= MemorySize + 1
      /\ frame + 3 <= P!Top(here, frame) /\ P!Top(here, frame) \in Int
      /\ d > 0 => /\ P!Top(here, frame) <= Low(frames, d) /\ fp = frames[d].frame
                  /\ Sites[ra].caller = frames[d].f
  BY <1>1, <1>2, <1>3, EnterPlace
<1>5. Layout(frames) /\ Registers(frames) /\ Typed(frames) /\ Owing(frames) /\ Chained(mem, frames)
  BY DEF Ready, Known
<1>6. /\ \A c \in DOMAIN cells : c \in Int /\ c <= frame + 1 /\ cells[c] \in Int
      /\ frame \in DOMAIN cells /\ cells[frame] = fp
      /\ frame + 1 \in DOMAIN cells /\ cells[frame + 1] = ra
      /\ \A n \in DOMAIN Uses[here] :
           /\ SaveCell(here, n, frame) \in DOMAIN cells
           /\ cells[SaveCell(here, n, frame)] = saved[Uses[here][n]]
  BY <1>1, <1>4, EntryIs
<1>7. /\ DOMAIN one = {"f", "frame", "reg", "owed"} /\ DOMAIN one.reg = {}
      /\ one.f = here /\ one.frame = frame
  BY <1>1
<1>8. Extends(frames, frames', one.f, one.frame) /\ Typed(frames') /\ frames'[d + 1] = one
  <2>1. frames' = Append(frames, one)
    BY <1>2
  <2>2. /\ Extends(frames, frames', one.f, one.frame) /\ Typed(frames')
        /\ frames'[Len(frames) + 1] = one
    BY <1>5, <1>7, <2>1, AppendExtends
  <2> QED
    BY <1>1, <2>2
<1>9. Extends(frames, frames', here, frame)
  BY <1>7, <1>8
<1>10. Layout(frames') /\ Registers(frames')
  BY <1>1, <1>4, <1>5, <1>9, ExtendedLayout
<1>11. Owing(frames')
  <2>1. d > 0 => frames'[d + 1].owed = (frames[d].owed \cup InUse(frames[d])) \ Recorded(here)
    <3>1. ASSUME d > 0
          PROVE  frames # <<>>
      BY <1>1, <3>1
    <3>2. Top = frames[d]
      BY <1>1 DEF Top
    <3> QED
      BY <1>1, <1>8, <3>1, <3>2
  <2> QED
    BY <1>1, <1>5, <1>9, <2>1, ExtendedOwing
<1>12. mem \in Memories /\ DOMAIN mem = 0 .. MemorySize - 1
  BY DEF Ready, TypeOK, Memories
<1>13. mem' = [c \in DOMAIN mem |-> IF c \in DOMAIN cells THEN cells[c] ELSE mem[c]]
  BY <1>2 DEF Write
<1>14. mem' \in Memories
  <2>1. \A c \in 0 .. MemorySize - 1 : mem'[c] \in Int
    BY <1>6, <1>12, <1>13 DEF Memories
  <2> QED
    BY <1>12, <1>13, <2>1 DEF Memories
<1>15. \A c \in DOMAIN cells : d > 0 => c \in Int /\ c < Low(frames, d)
  <2>1. d > 0 => Low(frames, d) \in Int
    <3>1. d > 0 => d \in 1 .. Len(frames)
      BY <1>1, <1>4
    <3> QED
      BY <1>1, <1>5, <3>1, FramePlace
  <2>2. d > 0 => frame + 1 < Low(frames, d)
    <3>1. ASSUME d > 0
          PROVE  frame + 1 < Low(frames, d)
      <4>1. PICK t, l : t = P!Top(here, frame) /\ l = Low(frames, d)
        OBVIOUS
      <4>2. t \in Int /\ l \in Int /\ frame \in Int /\ t <= l /\ frame + 3 <= t
        BY <1>4, <2>1, <3>1, <4>1
      <4> QED
        BY <4>1, <4>2
    <3> QED
      BY <3>1
  <2>3. ASSUME NEW c \in DOMAIN cells, d > 0
        PROVE  c \in Int /\ c < Low(frames, d)
    <3>1. c \in Int /\ c <= frame + 1
      BY <1>6
    <3> QED
      BY <1>4, <2>1, <2>2, <2>3, <3>1
  <2> QED
    BY <2>3
<1>16. IsStored(Stored, mem, saved, frames)
  BY <1>5, <1>12, StoredIs
<1>17. PICK T : T = [c \in DOMAIN mem |-> IF c \in DOMAIN cells THEN cells[c] ELSE Stored[c]]
  OBVIOUS
<1>18. IsStored(T, mem', saved, frames')
  <2>1. \A c \in DOMAIN cells : Len(frames) > 0 => c \in Int /\ c < Low(frames, Len(frames))
    BY <1>1, <1>15
  <2>2. \A n \in DOMAIN Uses[here] :
          /\ SaveCell(here, n, frame) \in DOMAIN cells
          /\ cells[SaveCell(here, n, frame)] = saved[Uses[here][n]]
    BY <1>6
  <2>3. here \in Functions /\ frame \in Int
    BY <1>4
  <2> QED
    BY <1>5, <1>9, <1>10, <1>12, <1>13, <1>16, <1>17, <2>1, <2>2, <2>3, Entered
<1>19. Stored' = T
  <2>1. saved' = saved
    BY <1>2
  <2>2. IsStored(T, mem', saved', frames')
    BY <1>18, <2>1
  <2> QED
    BY <1>10, <1>14, <2>2, StoredIsNext
<1>20. P!Write(cells)
  <2>1. DOMAIN Stored = DOMAIN mem
    BY DEF Stored
  <2> QED
    BY <1>17, <1>19, <2>1 DEF P!Write
<1>21. P!Enter
  BY <1>1, <1>2, <1>20, EntersIs
<1>22. /\ Len(frames') = d + 1 /\ \A k \in 1 .. d : frames'[k] = frames[k]
       /\ frames'[d + 1].f = here /\ frames'[d + 1].frame = frame
  BY <1>1, <1>9 DEF Extends
<1>23. Chained(mem', frames')
  <2>1. mem'[frame] = fp /\ mem'[frame + 1] = ra
    <3>1. d + 1 \in 1 .. Len(frames')
      BY <1>4, <1>22
    <3>2. frame \in DOMAIN mem /\ frame + 1 \in DOMAIN mem
      BY <1>10, <1>12, <1>22, <3>1, LinkFacts
    <3> QED
      BY <1>6, <1>13, <3>2
  <2>2. ASSUME NEW l \in 1 .. d, NEW c, c = frames[l].frame \/ c = frames[l].frame + 1
        PROVE  mem'[c] = mem[c]
    <3>1. /\ c \in 0 .. MemorySize - 1 /\ Low(frames, l) <= frames[l].frame
          /\ Low(frames, l) \in Int /\ frames[l].frame \in Int
      BY <1>1, <1>5, <2>2, LinkFacts, FramePlace
    <3>2. Low(frames, d) <= Low(frames, l) /\ Low(frames, d) \in Int
      BY <1>1, <1>5, LowestIs
    <3>3. Low(frames, d) <= c /\ c \in Int
      BY <2>2, <3>1, <3>2
    <3>4. c \notin DOMAIN cells
      BY <1>4, <1>15, <3>2, <3>3
    <3> QED
      BY <1>12, <1>13, <3>1, <3>4
  <2>3. ASSUME NEW k \in 1 .. d
        PROVE  /\ mem'[frames'[k + 1].frame] = frames'[k].frame
               /\ Sites[mem'[frames'[k + 1].frame + 1]].caller = frames'[k].f
    <3>1. CASE k = d
      BY <1>4, <1>22, <2>1, <3>1
    <3>2. CASE k # d
      <4>1. k \in 1 .. d - 1 /\ k + 1 \in 1 .. d
        BY <1>4, <3>2
      <4>2. /\ mem[frames[k + 1].frame] = frames[k].frame
            /\ Sites[mem[frames[k + 1].frame + 1]].caller = frames[k].f
        BY <1>1, <1>5, <4>1 DEF Chained
      <4>3. frames'[k + 1] = frames[k + 1] /\ frames'[k] = frames[k]
        BY <1>22, <4>1
      <4>4. /\ mem'[frames[k + 1].frame] = mem[frames[k + 1].frame]
            /\ mem'[frames[k + 1].frame + 1] = mem[frames[k + 1].frame + 1]
        BY <2>2, <4>1
      <4> QED
        BY <4>2, <4>3, <4>4
    <3> QED
      BY <3>1, <3>2
  <2>4. Len(frames') - 1 = d
    BY <1>4, <1>22
  <2> QED
    BY <2>3, <2>4 DEF Chained
<1>24. Topmost'
  <2>1. scope \in Seq(SUBSET Nat) /\ 1 .. Params[here] \in SUBSET Nat
    BY DEF Ready, TypeOK
  <2>2. Len(scope') = Len(scope) + 1
    BY <1>2, <2>1, AppendProperties
  <2>3. P!Current' = here
    <3>1. doing'.step # "enter" /\ here' = here
      BY <1>2 DEF Idle
    <3> QED
      BY <3>1 DEF P!Current
  <2> QED
    BY <1>2, <1>4, <1>22, <2>2, <2>3 DEF Topmost
<1>25. Known'
  BY <1>8, <1>10, <1>11, <1>23, <1>24 DEF Known
<1> QED
  BY <1>2, <1>14, <1>21, <1>25, DoingFacts DEF Fits

\* A frame less.
LEMMA SubSeqShortened ==
  ASSUME NEW fr, NEW fr2, Layout(fr), Typed(fr), Len(fr) > 0, fr2 = SubSeq(fr, 1, Len(fr) - 1)
  PROVE  Shortened(fr, fr2) /\ Typed(fr2)
<1>1. PICK d : d = Len(fr)
  OBVIOUS
<1>2. d \in Nat /\ d > 0
  BY <1>1 DEF Layout
<1>3. PICK S : fr \in Seq(S)
  BY DEF Typed
<1>4. d - 1 \in Nat /\ 1 .. d - 1 \subseteq 1 .. d
  BY <1>2
<1>5. fr2 = [k \in 1 .. d - 1 |-> fr[k]]
  <2>1. \A k \in 1 .. d - 1 : k + 1 - 1 = k
    BY <1>4
  <2>2. SubSeq(fr, 1, d - 1) = [k \in 1 .. (1 + (d - 1)) - 1 |-> fr[k + 1 - 1]]
    BY <1>1, <1>2, <1>3
  <2>3. (1 + (d - 1)) - 1 = d - 1
    BY <1>2
  <2> QED
    BY <1>1, <2>1, <2>2, <2>3
<1>6. fr2 \in Seq(S) /\ Len(fr2) = d - 1
  <2>1. \A k \in 1 .. d - 1 : fr[k] \in S
    BY <1>1, <1>3, <1>4
  <2> QED
    BY <1>4, <1>5, <2>1
<1>7. Shortened(fr, fr2)
  BY <1>1, <1>5, <1>6 DEF Shortened
<1>8. Typed(fr2)
  <2>1. \A k \in 1 .. d - 1 : DOMAIN fr2[k] = {"f", "frame", "reg", "owed"}
    BY <1>1, <1>4, <1>5 DEF Typed
  <2> QED
    BY <1>6, <2>1 DEF Typed
<1> QED
  BY <1>7, <1>8

\* What is owed stays owed.
LEMMA ShortenedOwing ==
  ASSUME NEW fr, NEW fr2, Layout(fr), Owing(fr), Shortened(fr, fr2), Len(fr) > 0
  PROVE  Owing(fr2)
<1>1. PICK d : d = Len(fr)
  OBVIOUS
<1>2. d \in Nat /\ d > 0 /\ Len(fr2) = d - 1 /\ \A k \in 1 .. d - 1 : fr2[k] = fr[k]
  BY <1>1 DEF Layout, Shortened
<1>3. ASSUME NEW l \in 1 .. d - 1, NEW k \in 1 .. l - 1, NEW i \in DOMAIN fr2[k].reg,
             Untouched(fr2, k, l, fr2[k].reg[i])
      PROVE  fr2[k].reg[i] \in fr2[l].owed
  <2>1. k \in 1 .. d - 1 /\ l \in 1 .. d /\ \A j \in k + 1 .. l : j \in 1 .. d - 1
    BY <1>2
  <2>2. fr2[k] = fr[k] /\ fr2[l] = fr[l]
    BY <1>2, <2>1
  <2>3. Untouched(fr, k, l, fr[k].reg[i])
    BY <1>2, <1>3, <2>1, <2>2 DEF Untouched
  <2> QED
    BY <1>1, <2>1, <2>2, <2>3 DEF Owing
<1> QED
  BY <1>2, <1>3 DEF Owing

\* A return restores the registers that the function has saved.
LEMMA RestoredRegisters ==
  ASSUME Ready, InBody, mem' \in Memories,
         saved' = [r \in SavedRegisters |->
           IF r \in Recorded(here)
           THEN mem'[SaveCell(here, CHOOSE n \in DOMAIN Uses[here] : Uses[here][n] = r, fp)]
           ELSE saved[r]]
  PROVE  /\ \A n \in DOMAIN Uses[here] : saved'[Uses[here][n]] = mem'[SaveCell(here, n, fp)]
         /\ \A r \in SavedRegisters : r \notin Recorded(here) => saved'[r] = saved[r]
         /\ saved' \in [SavedRegisters -> Int]
<1>1. PICK d : d = Len(frames)
  OBVIOUS
<1>2. /\ d \in 1 .. d /\ frames[d].frame = fp /\ frames[d].f = here /\ here \in Functions
      /\ saved \in [SavedRegisters -> Int] /\ Layout(frames)
  BY <1>1, InBodyInside, Within DEF Ready, Known
<1>3. Uses[here] \in Seq(SavedRegisters)
  BY <1>2, FunctionsAssumption
<1>4. ASSUME NEW n \in DOMAIN Uses[here]
      PROVE  /\ Uses[here][n] \in SavedRegisters
             /\ saved'[Uses[here][n]] = mem'[SaveCell(here, n, fp)]
             /\ mem'[SaveCell(here, n, fp)] \in Int
  <2>1. PICK r, m : r = Uses[here][n] /\ m = CHOOSE x \in DOMAIN Uses[here] : Uses[here][x] = r
    OBVIOUS
  <2>2. m \in DOMAIN Uses[here] /\ Uses[here][m] = r
    BY <2>1
  <2>3. m = n
    BY <1>2, <2>1, <2>2, SavedOnce
  <2>4. r \in SavedRegisters /\ r \in Recorded(here)
    BY <1>3, <2>1 DEF Recorded
  <2>5. saved'[r] = mem'[SaveCell(here, m, fp)]
    BY <2>1, <2>4
  <2>6. SaveSpot(frames, d, n) \in 0 .. MemorySize - 1
    BY <1>1, <1>2, SaveSpotFacts
  <2>7. SaveSpot(frames, d, n) = SaveCell(here, n, fp)
    BY <1>2 DEF SaveSpot
  <2> QED
    BY <2>1, <2>3, <2>4, <2>5, <2>6, <2>7 DEF Memories
<1>5. \A r \in SavedRegisters : r \notin Recorded(here) => saved'[r] = saved[r]
  OBVIOUS
<1>6. \A r \in SavedRegisters : saved'[r] \in Int
  <2>1. ASSUME NEW r \in SavedRegisters
        PROVE  saved'[r] \in Int
    <3>1. CASE r \in Recorded(here)
      <4>1. PICK n \in DOMAIN Uses[here] : r = Uses[here][n]
        BY <3>1 DEF Recorded
      <4> QED
        BY <1>4, <4>1
    <3>2. CASE r \notin Recorded(here)
      BY <1>2, <1>5, <3>2
    <3> QED
      BY <3>1, <3>2
  <2> QED
    BY <2>1
<1> QED
  BY <1>4, <1>5, <1>6

\* Where a return goes.
LEMMA LeavePlace ==
  ASSUME Ready, InBody
  PROVE  /\ Stored[fp] = mem[fp] /\ Stored[fp + 1] = mem[fp + 1]
         /\ Len(frames) > 1 => mem[fp + 1] \in DOMAIN Sites
         /\ Len(frames) = Len(scope)
<1>1. PICK d : d = Len(frames)
  OBVIOUS
<1>2. /\ d \in Nat /\ d > 0 /\ d \in 1 .. d /\ frames[d].frame = fp /\ mem \in Memories
      /\ Layout(frames) /\ Registers(frames) /\ Len(frames) = Len(scope)
  BY <1>1, InBodyInside, Within DEF Ready, Known, Topmost
<1>3. Stored[fp] = mem[fp] /\ Stored[fp + 1] = mem[fp + 1]
  BY <1>1, <1>2, StoredBelow
<1>4. P!IInv
  BY DEF Ready, P!JInv
<1>5. \E x, F, G, H : P!At(x, F, G, H)
  BY <1>4 DEF P!IInv, P!At
<1>6. PICK x, F, G, H : P!At(x, F, G, H)
  BY <1>5
<1>7. x = d /\ P!Running(d, F, G) /\ P!Linked(Stored, F, G, H, d)
  BY <1>1, <1>2, <1>6 DEF P!At, P!Depth, P!Position, InBody, P!Stack
<1>8. d > 1 => Stored[fp + 1] \in DOMAIN Sites
  <2>1. ASSUME d > 1
        PROVE  Stored[F[d] + 1] \in DOMAIN Sites
    <3>1. PICK k : k = d - 1
      OBVIOUS
    <3>2. k \in 1 .. d - 1 /\ k + 1 = d
      BY <1>2, <2>1, <3>1
    <3>3. Stored[F[k + 1] + 1] \in DOMAIN Sites
      BY <1>7, <3>2 DEF P!Linked
    <3> QED
      BY <3>2, <3>3
  <2> QED
    BY <1>7, <2>1 DEF P!Running
<1> QED
  BY <1>1, <1>2, <1>3, <1>8

\* A return takes the frame away.
LEMMA LeaveStep ==
  ASSUME Ready, NEW i \in DOMAIN Kinds[here], Leave(i)
  PROVE  P!Leave(i) /\ Fits
<1>1. /\ InBody /\ i \in Here \cap Variables(here, Returns[here])
      /\ Store(Held) /\ v0' = Value(i)
      /\ saved' = [r \in SavedRegisters |->
           IF r \in Recorded(here)
           THEN mem'[SaveCell(here, CHOOSE n \in DOMAIN Uses[here] : Uses[here][n] = r, fp)]
           ELSE saved[r]]
      /\ ra' = mem[fp + 1] /\ sp' = fp + 2 /\ fp' = mem[fp]
      /\ doing' = [Idle EXCEPT !.step = IF ra' = 0 THEN "stopped" ELSE "returned"]
      /\ here' = IF ra' \in DOMAIN Sites THEN Sites[ra'].caller ELSE Main
      /\ frames' = SubSeq(frames, 1, Len(frames) - 1)
      /\ scope' = SubSeq(scope, 1, Len(scope) - 1)
      /\ UNCHANGED <<gp, v1, args, left>>
  BY DEF Leave, Epilogue
<1>2. PICK d : d = Len(frames)
  OBVIOUS
<1>3. Inside /\ doing.step # "returned"
  BY <1>1, InBodyInside
<1>4. /\ d \in Nat /\ d > 0 /\ d \in 1 .. d /\ mem \in Memories /\ Stored \in Memories
      /\ Held = DOMAIN frames[d].reg /\ Top = frames[d]
      /\ \A j : Spot(frames, d, j) = Cell(here, j, fp)
      /\ frames[d].frame = fp /\ frames[d].f = here /\ here \in Functions
      /\ DOMAIN Kinds[here] = 1 .. Len(Kinds[here]) /\ Low(frames, d) \in Int
  BY <1>2, <1>3, Within DEF Ready
<1>5. /\ Layout(frames) /\ Registers(frames) /\ Typed(frames) /\ Owing(frames)
      /\ Chained(mem, frames)
  BY DEF Ready, Known
<1>6. /\ DOMAIN mem' = DOMAIN mem /\ mem' \in Memories
      /\ \A j \in Held : mem'[Spot(frames, Len(frames), j)] = saved[Top.reg[j]]
      /\ \A c \in DOMAIN mem :
           (\A j \in Held : Spot(frames, Len(frames), j) # c) => mem'[c] = mem[c]
  <2>1. Held \in SUBSET Held
    OBVIOUS
  <2> QED
    BY <1>1, <1>3, <2>1, StoreIs
<1>7. /\ \A n \in DOMAIN Uses[here] : saved'[Uses[here][n]] = mem'[SaveCell(here, n, fp)]
      /\ \A r \in SavedRegisters : r \notin Recorded(here) => saved'[r] = saved[r]
      /\ saved' \in [SavedRegisters -> Int]
  BY <1>1, <1>6, RestoredRegisters
<1>8. Shortened(frames, frames') /\ Typed(frames')
  BY <1>1, <1>2, <1>4, <1>5, SubSeqShortened
<1>9. Layout(frames') /\ Registers(frames')
  BY <1>2, <1>4, <1>5, <1>8, ShortenedLayout
<1>10. Owing(frames')
  BY <1>2, <1>4, <1>5, <1>8, ShortenedOwing
<1>11. IsStored(Stored, mem, saved, frames)
  BY <1>4, <1>5, StoredIs
<1>12. IsStored(Stored, mem', saved', frames')
  <2>1. \A j \in DOMAIN frames[Len(frames)].reg :
          mem'[Spot(frames, Len(frames), j)] = saved[frames[Len(frames)].reg[j]]
    BY <1>2, <1>4, <1>6
  <2>2. \A c \in DOMAIN mem :
          (\A j \in DOMAIN frames[Len(frames)].reg : Spot(frames, Len(frames), j) # c)
            => mem'[c] = mem[c]
    BY <1>2, <1>4, <1>6
  <2>3. \A n \in DOMAIN Uses[frames[Len(frames)].f] :
          saved'[Uses[frames[Len(frames)].f][n]] = mem'[SaveSpot(frames, Len(frames), n)]
    BY <1>2, <1>4, <1>7 DEF SaveSpot
  <2>4. \A r \in SavedRegisters : r \notin Recorded(frames[Len(frames)].f) => saved'[r] = saved[r]
    BY <1>2, <1>4, <1>7
  <2>5. Len(frames) > 0
    BY <1>2, <1>4
  <2> QED
    BY <1>4, <1>5, <1>6, <1>8, <1>11, <2>1, <2>2, <2>3, <2>4, <2>5, Left
<1>13. Stored' = Stored
  BY <1>6, <1>9, <1>12, StoredIsNext
<1>14. /\ Stored[fp] = mem[fp] /\ Stored[fp + 1] = mem[fp + 1] /\ Len(frames) = Len(scope)
       /\ d > 1 => mem[fp + 1] \in DOMAIN Sites
  BY <1>1, <1>2, LeavePlace
<1>15. P!Leave(i)
  <2>1. i \in P!Here \cap P!Variables(here, Returns[here]) /\ P!InBody
    BY <1>1, <1>3, ScopeFacts, SameLayout DEF P!InBody, InBody
  <2>2. v0' = P!Var(i)
    BY <1>1, <1>3, <1>4, ValueOf
  <2>3. P!AnyRegisters
    BY <1>7 DEF P!AnyRegisters
  <2>4. P!Epilogue
    BY <1>1, <1>14 DEF P!Epilogue
  <2>5. doing' = [P!Idle EXCEPT !.step = IF ra' = 0 THEN "stopped" ELSE "returned"]
    BY <1>1, SameLayout
  <2>6. UNCHANGED <<Stored, gp, v1, args>>
    BY <1>1, <1>13
  <2> QED
    BY <1>1, <2>1, <2>2, <2>3, <2>4, <2>5, <2>6 DEF P!Leave
<1>16. Len(frames') = d - 1 /\ \A k \in 1 .. d - 1 : frames'[k] = frames[k]
  BY <1>2, <1>8 DEF Shortened
<1>17. Chained(mem', frames')
  <2>1. ASSUME NEW l \in 1 .. d, NEW c, c = frames[l].frame \/ c = frames[l].frame + 1
        PROVE  mem'[c] = mem[c]
    <3>1. c \in DOMAIN mem
      BY <1>2, <1>4, <1>5, <2>1, LinkFacts DEF Memories
    <3>2. ASSUME NEW j \in Held
          PROVE  Spot(frames, d, j) # c
      <4>1. j \in 1 .. Size(frames, d)
        BY <1>2, <1>4, <1>5, RegisterFacts
      <4> QED
        BY <1>2, <1>4, <1>5, <2>1, <4>1, LinkPlace
    <3> QED
      BY <1>2, <1>6, <3>1, <3>2
  <2>2. ASSUME NEW k \in 1 .. (d - 1) - 1
        PROVE  /\ mem'[frames'[k + 1].frame] = frames'[k].frame
               /\ Sites[mem'[frames'[k + 1].frame + 1]].caller = frames'[k].f
    <3>1. k \in 1 .. d - 1 /\ k + 1 \in 1 .. d - 1 /\ k + 1 \in 1 .. d
      BY <1>4
    <3>2. /\ mem[frames[k + 1].frame] = frames[k].frame
          /\ Sites[mem[frames[k + 1].frame + 1]].caller = frames[k].f
      BY <1>2, <1>5, <3>1 DEF Chained
    <3>3. frames'[k + 1] = frames[k + 1] /\ frames'[k] = frames[k]
      BY <1>16, <3>1
    <3>4. /\ mem'[frames[k + 1].frame] = mem[frames[k + 1].frame]
          /\ mem'[frames[k + 1].frame + 1] = mem[frames[k + 1].frame + 1]
      BY <2>1, <3>1
    <3> QED
      BY <3>2, <3>3, <3>4
  <2> QED
    BY <1>16, <2>2 DEF Chained
<1>18. Topmost'
  <2>1. Len(scope') = d - 1
    <3>1. scope \in Seq(SUBSET Nat) /\ Len(scope) = d
      BY <1>2, <1>14 DEF Ready, TypeOK
    <3> QED
      BY <1>1, <1>4, <3>1
  <2>2. ASSUME d - 1 > 0
        PROVE  frames'[d - 1].frame = fp' /\ frames'[d - 1].f = P!Current'
    <3>1. PICK k : k = d - 1
      OBVIOUS
    <3>2. k \in 1 .. d - 1 /\ k + 1 = d /\ d > 1
      BY <1>4, <2>2, <3>1
    <3>3. /\ mem[frames[k + 1].frame] = frames[k].frame
          /\ Sites[mem[frames[k + 1].frame + 1]].caller = frames[k].f
      BY <1>2, <1>5, <3>2 DEF Chained
    <3>4. mem[fp] = frames[k].frame /\ Sites[mem[fp + 1]].caller = frames[k].f
      BY <1>4, <3>2, <3>3
    <3>5. here' = Sites[mem[fp + 1]].caller
      BY <1>1, <1>14, <3>2
    <3>6. doing'.step # "enter"
      BY <1>1 DEF Idle
    <3>7. P!Current' = here'
      BY <3>6 DEF P!Current
    <3>8. frames'[k] = frames[k]
      BY <1>16, <3>2
    <3> QED
      BY <1>1, <3>1, <3>4, <3>5, <3>7, <3>8
  <2> QED
    BY <1>16, <2>1, <2>2 DEF Topmost
<1>19. Known'
  BY <1>8, <1>9, <1>10, <1>17, <1>18 DEF Known
<1> QED
  BY <1>1, <1>6, <1>15, <1>19, DoingFacts DEF Fits

-----------------------------------------------------------------------------
(***************************************************************************)
(* All steps together                                                      *)
(***************************************************************************)

\* Values that instructions compute are numbers, variables have cells.
LEMMA ValueFacts ==
  /\ \A w \in Words : w \in Int
  /\ \A c \in Chars : c \in Int
  /\ \A kind : \A i \in Variables(here, kind) : i \in DOMAIN Kinds[here] /\ Kinds[here][i] = kind
BY MemoryAssumption DEF Variables

\* Every statement is one of HomeFrame's.
LEMMA StatementStep ==
  ASSUME Ready, Statement
  PROVE  P!Statement /\ Fits
<1>1. CASE \E s \in DOMAIN Sites : Call(s)
  <2>1. PICK s \in DOMAIN Sites : Call(s)
    BY <1>1
  <2>2. P!Call(s) /\ Fits
    BY <2>1, CallStep
  <2> QED
    BY <2>2 DEF P!Statement
<1>2. CASE \E i \in Variables(here, "word"), w \in Words : SetVariable(i, w)
  <2>1. PICK i \in Variables(here, "word"), w \in Words : SetVariable(i, w)
    BY <1>2
  <2>2. i \in DOMAIN Kinds[here] /\ w \in Int
    BY ValueFacts
  <2>3. P!SetCell(i, w) /\ Fits
    BY <2>1, <2>2, SetVariableStep
  <2>4. i \in P!Variables(here, "word")
    BY SameLayout
  <2> QED
    BY <2>3, <2>4 DEF P!Statement
<1>3. CASE \E line \in Lines : SkipLine(line)
  <2>1. PICK line \in Lines : SkipLine(line)
    BY <1>3
  <2>2. line \in Seq(Int) /\ line \in P!Lines
    BY LineFacts, SameStrings
  <2>3. P!SkipLine(line) /\ Fits
    BY <2>1, <2>2, SkipLineStep
  <2> QED
    BY <2>2, <2>3 DEF P!Statement
<1>4. ASSUME NEW i \in Variables(here, "string"), NEW p \in Pointers, SetVariable(i, p)
      PROVE  P!Statement /\ Fits
  <2>1. i \in DOMAIN Kinds[here] /\ p \in Int
    BY ValueFacts, LineFacts
  <2>2. P!SetCell(i, p) /\ Fits
    BY <1>4, <2>1, SetVariableStep
  <2>3. i \in P!Variables(here, "string")
    BY SameLayout
  <2> QED
    BY <2>2, <2>3 DEF P!Statement
<1>5. ASSUME NEW i \in Variables(here, "string"), NEW c \in Chars, Cast(i, c)
      PROVE  P!Statement /\ Fits
  <2>1. i \in DOMAIN Kinds[here] /\ c \in Int
    BY ValueFacts
  <2>2. P!Cast(i, c) /\ Fits
    BY <1>5, <2>1, CastStep
  <2>3. i \in P!Variables(here, "string")
    BY SameLayout
  <2> QED
    BY <2>2, <2>3 DEF P!Statement
<1>6. ASSUME NEW i \in Variables(here, "string"), NEW line \in Lines, ReadString(i, line)
      PROVE  P!Statement /\ Fits
  <2>1. i \in DOMAIN Kinds[here] /\ line \in Seq(Int) /\ line \in P!Lines
    BY ValueFacts, LineFacts, SameStrings
  <2>2. P!ReadString(i, line) /\ Fits
    BY <1>6, <2>1, ReadStringStep
  <2>3. i \in P!Variables(here, "string")
    BY SameLayout
  <2> QED
    BY <2>1, <2>2, <2>3 DEF P!Statement
<1>7. ASSUME NEW i \in Variables(here, "string"), NEW j \in Variables(here, "string"),
             NEW k \in Variables(here, "string"), Strcat(i, j, k)
      PROVE  P!Statement /\ Fits
  <2>1. P!Strcat(i, j, k) /\ Fits
    BY <1>7, StrcatStep
  <2>2. /\ i \in P!Variables(here, "string") /\ j \in P!Variables(here, "string")
        /\ k \in P!Variables(here, "string")
    BY SameLayout
  <2> QED
    BY <2>1, <2>2 DEF P!Statement
<1>8. ASSUME NEW i \in Variables(here, "string"), NEW j \in Variables(here, "string"),
             NEW c \in Chars, SetAt(i, j, c)
      PROVE  P!Statement /\ Fits
  <2>1. Kinds[here][j] = "string"
    BY ValueFacts
  <2>2. P!SetAt(i, j, c) /\ Fits
    BY <1>8, <2>1, SetAtStep
  <2>3. i \in P!Variables(here, "string") /\ j \in P!Variables(here, "string")
    BY SameLayout
  <2> QED
    BY <2>2, <2>3 DEF P!Statement
<1> QED
  BY <1>1, <1>2, <1>3, <1>4, <1>5, <1>6, <1>7, <1>8 DEF Statement

\* So is what follows a statement.
LEMMA ContinueStep ==
  ASSUME Ready, Continue
  PROVE  P!Continue /\ Fits
<1>1. CASE Enter
  BY <1>1, EnterStep DEF P!Continue
<1>2. CASE CopyByte
  BY <1>2, CopyByteStep DEF P!Continue
<1>3. CASE Join
  BY <1>3, JoinStep DEF P!Continue
<1>4. CASE Place
  BY <1>4, PlaceStep DEF P!Continue
<1>5. CASE EndCopy
  BY <1>5, EndCopyStep DEF P!Continue
<1>6. CASE \E s \in DOMAIN Sites : AfterCall(s)
  <2>1. PICK s \in DOMAIN Sites : AfterCall(s)
    BY <1>6
  <2>2. P!AfterCall(s) /\ Fits
    BY <2>1, AfterCallStep
  <2> QED
    BY <2>2 DEF P!Continue
<1> QED
  BY <1>1, <1>2, <1>3, <1>4, <1>5, <1>6 DEF Continue

\* HomeFrame's own stack is balanced, and it is this one's.
LEMMA BalancedIs == P!JInv => StackBalanced
<1>1. P!JInv => P!StackBalanced
  BY Assumptions, P!Balanced DEF P!JInv
<1>2. P!Slots(here) = Slots(here)
  BY SameLayout
<1> QED
  BY <1>1, <1>2 DEF P!StackBalanced, StackBalanced

\* A scratch register is one of a caller's: the stack is still balanced.
LEMMA SpoilStep ==
  ASSUME Ready, NEW r \in SavedRegisters, NEW w \in Int, r \in Top.owed, UseRegister(r, w)
  PROVE  TypeOK' /\ StackBalanced' /\ Spoilt'
<1>1. /\ InBody /\ Count /\ saved' = [saved EXCEPT ![r] = w]
      /\ doing' = [Idle EXCEPT !.step = "spoilt"]
      /\ UNCHANGED <<mem, sp, fp, ra, gp, v0, v1, args, here, frames, scope>>
  BY DEF UseRegister
<1>2. doing' = [step |-> "spoilt", dest |-> 0, at |-> 0, x |-> 0, c |-> 0]
  BY <1>1 DEF Idle
<1>3. left' \in Nat
  BY <1>1, Counted DEF Ready
<1>4. saved' \in [SavedRegisters -> Int]
  BY <1>1 DEF Ready, TypeOK
<1>5. doing' \in [step : {"enter", "body", "first", "join", "second", "set", "place", "finish",
                          "receive", "received", "returned", "stopped", "spoilt"},
                  dest : Nat, at : Int, x : Int, c : Int]
  BY <1>2
<1>6. TypeOK'
  BY <1>1, <1>3, <1>4, <1>5 DEF Ready, TypeOK
<1>7. StackBalanced'
  <2>1. sp = fp - Slots(here) - Len(Uses[here])
    BY <1>1, BalancedIs DEF Ready, StackBalanced, InBody
  <2> QED
    BY <1>1, <2>1 DEF StackBalanced
<1> QED
  BY <1>2, <1>6, <1>7 DEF Spoilt

\* Register allocation is hidden in HomeFrame, unless it spoils a register.
LEMMA AllocateStep ==
  ASSUME Ready, InBody, Allocate
  PROVE  \/ P!UseRegisters /\ Fits
         \/ TypeOK' /\ StackBalanced' /\ Spoilt'
<1>1. CASE \E i \in DOMAIN Kinds[here], r \in SavedRegisters : Load(i, r)
  BY <1>1, LoadStep
<1>2. CASE \E i \in Held : Unload({i})
  <2>1. PICK i \in Held : Unload({i})
    BY <1>2
  <2>2. {i} \in SUBSET Held
    OBVIOUS
  <2> QED
    BY <2>1, <2>2, UnloadStep
<1>3. CASE Unload(Held)
  <2>1. Held \in SUBSET Held
    OBVIOUS
  <2> QED
    BY <1>3, <2>1, UnloadStep
<1>4. CASE \E r \in SavedRegisters, w \in Words : UseRegister(r, w)
  <2>1. PICK r \in SavedRegisters, w \in Words : UseRegister(r, w)
    BY <1>4
  <2>2. w \in Int
    BY ValueFacts
  <2>3. CASE r \in Top.owed
    BY <2>1, <2>2, <2>3, SpoilStep
  <2>4. CASE r \notin Top.owed
    BY <2>1, <2>2, <2>4, UseRegisterStep
  <2> QED
    BY <2>3, <2>4
<1> QED
  BY <1>1, <1>2, <1>3, <1>4 DEF Allocate

\* When nothing changes, nothing is forgotten.
LEMMA StutterStep ==
  ASSUME Ready, UNCHANGED vars
  PROVE  UNCHANGED P!vars /\ Fits
<1>1. UNCHANGED <<mem, sp, fp, ra, gp, v0, v1, args, saved, here, doing, frames, scope, left>>
  BY DEF vars
<1>2. Stored' = Stored
  BY <1>1 DEF Stored, Away, CellOf, Register
<1>3. UNCHANGED P!vars
  BY <1>1, <1>2 DEF P!vars, P!registers
<1>4. P!Current' = P!Current
  BY <1>1 DEF P!Current
<1>5. Known'
  BY <1>1, <1>4 DEF Ready, Known, Topmost
<1>6. mem' \in Memories /\ left' \in Nat
  BY <1>1 DEF Ready, TypeOK, Memories
<1> QED
  BY <1>3, <1>5, <1>6 DEF Fits

\* After a register has been spoilt the model stops.
LEMMA SpoiltStays ==
  ASSUME TypeOK, StackBalanced, Spoilt, [Next]_vars
  PROVE  TypeOK' /\ StackBalanced' /\ Spoilt'
<1>1. ~ InBody /\ doing.step = "spoilt"
  BY DEF Spoilt, InBody
<1>2. ~ Continue
  BY <1>1 DEF Continue, Enter, CopyByte, Join, Place, EndCopy, AfterCall
<1>3. ~ Statement
  BY <1>1 DEF Statement, Call, SetVariable, SkipLine, Cast, ReadString, Strcat, SetAt
<1>4. ~ \E i \in DOMAIN Kinds[here] : Leave(i)
  BY <1>1 DEF Leave
<1>5. UNCHANGED <<mem, sp, fp, ra, gp, v0, v1, args, saved, here, doing, frames, scope, left>>
  BY <1>1, <1>2, <1>3, <1>4 DEF Next, vars
<1>6. TypeOK'
  BY <1>5 DEF TypeOK
<1>7. StackBalanced' /\ Spoilt'
  BY <1>5 DEF StackBalanced, Spoilt
<1> QED
  BY <1>6, <1>7

\* Every step keeps the invariant, and the language takes it or does not see it.
LEMMA StepHolds == KInv /\ [Next]_vars => KInv' /\ (P!Simulated \/ Spoilt')
<1> SUFFICES ASSUME KInv, [Next]_vars
             PROVE  KInv' /\ (P!Simulated \/ Spoilt')
  OBVIOUS
<1>1. CASE Spoilt
  BY <1>1, SpoiltStays DEF KInv
<1>2. CASE ~Spoilt
  <2>1. Ready /\ TypeOK /\ P!JInv
    BY <1>2 DEF KInv, Ready
  <2>2. \/ [P!Next]_(P!vars) /\ Fits
        \/ TypeOK' /\ StackBalanced' /\ Spoilt'
    <3>1. CASE InBody /\ Allocate
      <4>1. P!UseRegisters => P!Next
        BY DEF P!Next, P!Statement
      <4> QED
        BY <2>1, <3>1, <4>1, AllocateStep
    <3>2. CASE Statement
      BY <2>1, <3>2, StatementStep DEF P!Next
    <3>3. CASE Continue
      BY <2>1, <3>3, ContinueStep DEF P!Next
    <3>4. CASE \E i \in DOMAIN Kinds[here] : Leave(i)
      <4>1. PICK i \in DOMAIN Kinds[here] : Leave(i)
        BY <3>4
      <4>2. P!Leave(i) /\ Fits
        BY <2>1, <4>1, LeaveStep
      <4> QED
        BY <4>2 DEF P!Next
    <3>5. CASE UNCHANGED vars
      BY <2>1, <3>5, StutterStep
    <3> QED
      BY <3>1, <3>2, <3>3, <3>4, <3>5 DEF Next
  <2>3. CASE [P!Next]_(P!vars) /\ Fits
    BY <2>1, <2>3, Conclude DEF Fits
  <2>4. CASE TypeOK' /\ StackBalanced' /\ Spoilt'
    BY <2>4 DEF KInv
  <2> QED
    BY <2>2, <2>3, <2>4
<1> QED
  BY <1>1, <1>2

-----------------------------------------------------------------------------
(***************************************************************************)
(* At the start                                                            *)
(***************************************************************************)

\* No frame, no variable in a register.
LEMMA NothingAway ==
  ASSUME frames = <<>>, mem \in Memories
  PROVE  Stored = mem
<1>1. DOMAIN frames = {}
  OBVIOUS
<1>2. Away = {}
  BY <1>1 DEF Away
<1>3. mem = [c \in DOMAIN mem |-> mem[c]]
  BY DEF Memories
<1> QED
  BY <1>2, <1>3 DEF Stored

\* The program starts like HomeFrame's.
LEMMA InitHolds == Init => KInv /\ P!Init
<1> SUFFICES ASSUME Init
             PROVE  KInv /\ P!Init
  OBVIOUS
<1>1. /\ mem = InitialMemory /\ frames = <<>> /\ scope = <<>> /\ left = MaxSteps
      /\ doing = [step |-> "enter", dest |-> 0, at |-> 0, x |-> 0, c |-> 0]
      /\ saved = [r \in SavedRegisters |-> 0]
  BY DEF Init, Idle
<1>2. Base \in Nat /\ \A c \in 0 .. MemorySize - 1 : c < Base => Data[c + 1] \in Int
  <2>1. Data \in Seq(Int) /\ MemorySize \in Nat
    BY MemoryAssumption
  <2>2. ASSUME NEW c \in 0 .. MemorySize - 1, c < Base
        PROVE  Data[c + 1] \in Int
    <3>1. c + 1 \in 1 .. Len(Data)
      BY <2>1, <2>2 DEF Base
    <3> QED
      BY <2>1, <3>1
  <2> QED
    BY <2>1, <2>2 DEF Base
<1>3. mem \in Memories
  BY <1>1, <1>2 DEF InitialMemory, Memories
<1>4. Stored = mem
  BY <1>1, <1>3, NothingAway
<1>5. P!Init
  <2>1. P!InitialMemory = InitialMemory /\ P!Base = Base /\ P!Idle = Idle
    BY SameLayout, SameStrings
  <2> QED
    BY <1>1, <1>4, <2>1 DEF Init, P!Init
<1>6. P!JInv
  BY <1>5, Assumptions, P!InitRefines
<1>7. ~ Spoilt
  BY <1>1 DEF Spoilt
<1>8. TypeOK
  <2>1. left \in Nat
    BY <1>1, BoundsAssumption
  <2>2. P!TypeOK
    BY <1>6 DEF P!JInv, P!IInv
  <2>3. /\ {sp, fp, ra, gp, v0, v1} \subseteq Int
        /\ Base <= gp /\ gp <= sp /\ sp <= fp /\ fp <= MemorySize
        /\ args \in [1 .. ParamRegisters -> Int] /\ saved \in [SavedRegisters -> Int]
        /\ here \in Functions /\ scope \in Seq(SUBSET Nat)
    BY <2>2, SameLayout DEF P!TypeOK
  <2>4. doing \in [step : {"enter", "body", "first", "join", "second", "set", "place", "finish",
                           "receive", "received", "returned", "stopped", "spoilt"},
                   dest : Nat, at : Int, x : Int, c : Int]
    BY <1>1
  <2>5. Len(frames) = Len(scope) /\ DOMAIN frames = {}
    BY <1>1
  <2> QED
    BY <1>3, <2>1, <2>3, <2>4, <2>5 DEF TypeOK, Memories
<1>9. Known
  <2>1. Len(frames) = 0 /\ DOMAIN frames = 1 .. Len(frames) /\ Len(scope) = 0
    BY <1>1
  <2>2. frames \in Seq({})
    BY <1>1
  <2>3. \A k : ~ (k \in 1 .. 0) /\ ~ (k \in 1 .. 0 - 1)
    OBVIOUS
  <2>4. Layout(frames) /\ Registers(frames) /\ Typed(frames) /\ Owing(frames)
    BY <2>1, <2>2, <2>3 DEF Layout, Registers, Typed, Owing
  <2>5. Chained(mem, frames) /\ Topmost
    BY <2>1, <2>3 DEF Chained, Topmost
  <2> QED
    BY <2>4, <2>5 DEF Known
<1> QED
  BY <1>5, <1>6, <1>7, <1>8, <1>9 DEF KInv

-----------------------------------------------------------------------------
(***************************************************************************)
(* What the stack tells, in HomeFrame's words and in those of the proofs   *)
(***************************************************************************)

\* The calls in progress and the result under way are the same.
LEMMA SameCalls == P!CallsInProgress = Home!CallsInProgress /\ P!InTransit = Home!InTransit
<1>1. P!Frame = Home!Frame
  BY DEF P!Frame, Home!Frame, P!Depth, Home!Depth
<1>2. P!CallsInProgress = Home!CallsInProgress
  BY <1>1 DEF P!CallsInProgress, Home!CallsInProgress, P!CallsIn, Home!CallsIn,
     P!FunctionsIn, Home!FunctionsIn, P!Function, Home!Function, P!Heap, Home!Heap,
     P!Depth, Home!Depth, P!Base, Home!Base, P!RequiredSize, Home!RequiredSize,
     P!InRegisters, Home!InRegisters, P!Meaning, Home!Meaning, P!StringAt, Home!StringAt,
     P!Cell, Home!Cell
<1>3. P!InTransit = Home!InTransit
  BY DEF P!InTransit, Home!InTransit, P!Meaning, Home!Meaning, P!StringAt, Home!StringAt
<1> QED
  BY <1>2, <1>3

\* Where strings end is the same.
LEMMA SameStringsBelow == P!StringsBelowHeap <=> Home!StringsBelowHeap
<1>1. P!Frame = Home!Frame
  BY DEF P!Frame, Home!Frame, P!Depth, Home!Depth
<1> QED
  BY <1>1 DEF P!StringsBelowHeap, Home!StringsBelowHeap, P!EndBelow, Home!EndBelow,
     P!FunctionsIn, Home!FunctionsIn, P!Function, Home!Function, P!Heap, Home!Heap,
     P!Depth, Home!Depth, P!RequiredSize, Home!RequiredSize, P!Variables, Home!Variables,
     P!InRegisters, Home!InRegisters, P!StringAt, Home!StringAt, P!Cell, Home!Cell

\* The language is the same.
LEMMA SameStatements ==
  \A a, b : P!Language!Statement(a, b) <=> Language!Statement(a, b)
<1>1. \A a, i, v, n : P!Language!Put(a, i, v, n) = Language!Put(a, i, v, n)
  BY DEF P!Language!Put, Language!Put
<1>2. \A a, i, s : P!Language!PutNew(a, i, s) = Language!PutNew(a, i, s)
  BY <1>1 DEF P!Language!PutNew, Language!PutNew
<1>3. /\ \A f, kind : P!Language!Variables(f, kind) = Language!Variables(f, kind)
      /\ \A a, kind : P!Language!Known(a, kind) = Language!Known(a, kind)
  BY DEF P!Language!Variables, Language!Variables, P!Language!Known, Language!Known
<1>4. \A a, b : P!Language!SetWord(a, b) <=> Language!SetWord(a, b)
  BY <1>1, <1>3 DEF P!Language!SetWord, Language!SetWord
<1>5. P!Lines = Lines
  BY SameStrings
<1>6. \A a, b, i : P!Language!SetString(a, b, i) <=> Language!SetString(a, b, i)
  BY <1>1, <1>2, <1>5 DEF P!Language!SetString, Language!SetString
<1>7. \A a, b, i : P!Language!SetComposed(a, b, i) <=> Language!SetComposed(a, b, i)
  BY DEF P!Language!SetComposed, Language!SetComposed, P!Language!PutNew, Language!PutNew,
     P!Language!Put, Language!Put, P!Language!Known, Language!Known,
     P!Language!Variables, Language!Variables
<1> QED
  BY <1>3, <1>4, <1>6, <1>7 DEF P!Language!Statement, Language!Statement

\* So are its steps ...
LEMMA SameLanguage == P!Language!Next => Language!Next
<1>1. \A a, b : P!Language!Statement(a, b) <=> Language!Statement(a, b)
  BY SameStatements
<1>2. \A f, by, env, used : P!Language!Activation(f, by, env, used) = Language!Activation(f, by, env, used)
  BY DEF P!Language!Activation, Language!Activation
<1>3. \A old, new : P!Language!Start(old, new) <=> Language!Start(old, new)
  BY <1>2 DEF P!Language!Start, Language!Start
<1>4. \A old, new : P!Language!Execute(old, new) <=> Language!Execute(old, new)
  BY <1>1 DEF P!Language!Execute, Language!Execute
<1>5. \A a, s : P!Language!Callee(a, s) = Language!Callee(a, s)
  BY <1>2 DEF P!Language!Callee, Language!Callee
<1>6. \A old, new, s : P!Language!Call(old, new, s) <=> Language!Call(old, new, s)
  BY <1>5 DEF P!Language!Call, Language!Call
<1>7. \A old, new : P!Language!Goes(old, new) <=> Language!Goes(old, new)
  BY <1>3, <1>4, <1>6 DEF P!Language!Goes, Language!Goes
<1>8. \A old, new, r : P!Language!Return(old, new, r) <=> Language!Return(old, new, r)
  BY DEF P!Language!Return, Language!Return, P!Language!Known, Language!Known,
     P!Language!Variables, Language!Variables
<1>9. \A old, new, by, v : P!Language!Receive(old, new, by, v) <=> Language!Receive(old, new, by, v)
  BY DEF P!Language!Receive, Language!Receive, P!Language!PutNew, Language!PutNew,
     P!Language!Put, Language!Put
<1>10. P!CallsInProgress = Home!CallsInProgress /\ P!InTransit = Home!InTransit
  BY SameCalls
<1>11. (P!CallsInProgress = Home!CallsInProgress /\ P!InTransit = Home!InTransit)'
  BY <1>10, PTL
<1> QED
  BY <1>7, <1>8, <1>9, <1>10, <1>11 DEF P!Language!Next, Language!Next

\* ... and those that it does not see.
LEMMA SameSteps == P!Simulated => [Language!Next]_(Language!vars)
<1>1. P!CallsInProgress = Home!CallsInProgress /\ P!InTransit = Home!InTransit
  BY SameCalls
<1>2. (P!CallsInProgress = Home!CallsInProgress /\ P!InTransit = Home!InTransit)'
  BY <1>1, PTL
<1>3. UNCHANGED P!Language!vars => UNCHANGED Language!vars
  BY <1>1, <1>2 DEF P!Language!vars, Language!vars
<1> QED
  BY <1>3, SameLanguage DEF P!Simulated

-----------------------------------------------------------------------------
(***************************************************************************)
(* Theorems                                                                *)
(***************************************************************************)

\* In every state of every emitted program, for any functions, calls, parameters,
\* registers and string constants: with its variables put back into their cells it is a
\* state of HomeFrame, the frames that are known lie on the stack one below the other,
\* and a register that a caller keeps a variable in is saved by a later call or owed by
\* it, until a scratch register is one of these.
THEOREM Invariance == Spec => []KInv
<1>1. Init => KInv
  BY InitHolds
<1>2. KInv /\ [Next]_vars => KInv'
  BY StepHolds
<1> QED
  BY <1>1, <1>2, PTL DEF Spec

\* Heap, stack and frame pointer keep their order, and variables are mapped to registers
\* that their function records, although returns take all of it from the stack.
THEOREM TypeCorrect == Spec => []TypeOK
<1>1. KInv => TypeOK
  BY DEF KInv
<1> QED
  BY <1>1, Invariance, PTL

\* The entry code, the argument pushes and the epilogues move the stack pointer so that a
\* function finds it where it left it, whatever it has called.
THEOREM StackIsBalanced == Spec => []StackBalanced
<1>1. KInv => StackBalanced
  BY BalancedIs DEF KInv
<1> QED
  BY <1>1, Invariance, PTL

\* Whatever a call in progress can reach of the heap ends below its heap pointer.
THEOREM StringsStayBelowHeap == Spec => []StringsBelowHeap
<1>1. KInv => StringsBelowHeap
  <2>1. P!JInv => P!StringsBelowHeap
    BY Assumptions, P!StringsBelow DEF P!JInv
  <2> QED
    BY <2>1, SameStringsBelow DEF KInv, StringsBelowHeap
<1> QED
  BY <1>1, Invariance, PTL

\* Calls of the emitted program do what the language says, with variables in registers
\* that functions further down save, spill and restore; up to the step that takes a
\* caller's register as scratch register (getFreeRegister), which does happen.
THEOREM Refinement == Spec => ImplementsActivations
<1>1. Init => KInv /\ Language!Init
  <2>1. SUFFICES ASSUME Init
                 PROVE  KInv /\ Language!Init
    OBVIOUS
  <2>2. KInv /\ P!Language!Init
    BY <2>1, InitHolds, Assumptions, P!InitRefines
  <2> QED
    BY <2>2, SameCalls DEF P!Language!Init, Language!Init
<1>2. KInv /\ [Next]_vars => KInv' /\ [Language!Next \/ Spoilt']_(Language!vars)
  BY StepHolds, SameSteps
<1> QED
  BY <1>1, <1>2, PTL DEF Spec, ImplementsActivations
=============================================================================
