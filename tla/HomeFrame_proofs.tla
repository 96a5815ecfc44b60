--------------------------- MODULE HomeFrame_proofs ---------------------------
(***************************************************************************)
(* What is true of every emitted program, for any functions, parameters,   *)
(* callee-saved registers and string constants, and any depth of calls.    *)
(***************************************************************************)
EXTENDS HomeFrame, SequenceTheorems, WellFoundedInduction, TLAPS

-----------------------------------------------------------------------------
(***************************************************************************)
(* One frame                                                               *)
(***************************************************************************)

\* Where the stack pointer is in the body, and the first cell above all that the
\* frame, and the call that made it, have put on the stack.
Bottom(f, frame) == frame - Slots(f) - Len(Uses[f])
Top(f, frame) == frame + 2 + RequiredSize(f)

\* How many parameters travel in registers and how many on the stack.
LEMMA FunctionFacts ==
  ASSUME NEW f \in Functions
  PROVE  /\ Params[f] \in Nat /\ Kinds[f] \in Seq({"word", "string"}) /\ Len(Kinds[f]) \in Nat
         /\ DOMAIN Kinds[f] = 1 .. Len(Kinds[f]) /\ Params[f] <= Len(Kinds[f])
         /\ InRegisters(f) \in Nat /\ InRegisters(f) <= Params[f]
         /\ InRegisters(f) <= ParamRegisters /\ ParamRegisters \in Nat
         /\ InRegisters(f) < Params[f] => InRegisters(f) = ParamRegisters
         /\ Slots(f) = InRegisters(f) + Len(Kinds[f]) - Params[f] /\ Slots(f) \in Nat
         /\ RequiredSize(f) = 1 + Params[f] - InRegisters(f) /\ RequiredSize(f) \in Nat \ {0}
         /\ Uses[f] \in Seq(SavedRegisters) /\ Len(Uses[f]) \in Nat
         /\ DOMAIN Uses[f] = 1 .. Len(Uses[f])
<1>1. /\ Params[f] \in Nat /\ Kinds[f] \in Seq({"word", "string"})
      /\ Uses[f] \in Seq(SavedRegisters) /\ Params[f] <= Len(Kinds[f])
      /\ ParamRegisters \in Nat
  BY FunctionsAssumption, MemoryAssumption
<1>2. /\ Len(Kinds[f]) \in Nat /\ DOMAIN Kinds[f] = 1 .. Len(Kinds[f])
      /\ Len(Uses[f]) \in Nat /\ DOMAIN Uses[f] = 1 .. Len(Uses[f])
  BY <1>1
<1>3. InRegisters(f) = IF Params[f] <= ParamRegisters THEN Params[f] ELSE ParamRegisters
  BY DEF InRegisters
<1>4. /\ InRegisters(f) \in Nat /\ InRegisters(f) <= Params[f]
      /\ InRegisters(f) <= ParamRegisters
      /\ InRegisters(f) < Params[f] => InRegisters(f) = ParamRegisters
  BY <1>1, <1>3
<1>5. Slots(f) = InRegisters(f) + Len(Kinds[f]) - Params[f] /\ Slots(f) \in Nat
  BY <1>1, <1>2, <1>4 DEF Slots
<1>6. RequiredSize(f) = 1 + Params[f] - InRegisters(f) /\ RequiredSize(f) \in Nat \ {0}
  BY <1>1, <1>4 DEF RequiredSize
<1> QED
  BY <1>1, <1>2, <1>4, <1>5, <1>6

\* A frame starts below its links, and what belongs to it and to its call ends above them.
LEMMA FrameFacts ==
  ASSUME NEW f \in Functions, NEW frame \in Int
  PROVE  /\ Bottom(f, frame) \in Int /\ Bottom(f, frame) <= frame /\ Top(f, frame) \in Int
         /\ frame + 3 <= Top(f, frame)
  BY FunctionFacts, SMTT(30) DEF Bottom, Top

\* The place of a variable, by the way it came to the function.
LEMMA CellIs ==
  ASSUME NEW f \in Functions, NEW frame \in Int, NEW i \in 1 .. Len(Kinds[f])
  PROVE  Cell(f, i, frame) = IF i <= InRegisters(f) THEN frame - i
                             ELSE IF i <= Params[f] THEN frame + 1 + i - InRegisters(f)
                             ELSE frame - (InRegisters(f) + i - Params[f])
<1>1. /\ InRegisters(f) \in Nat /\ Params[f] \in Nat /\ Len(Kinds[f]) \in Nat
      /\ InRegisters(f) <= Params[f]
      /\ InRegisters(f) < Params[f] => InRegisters(f) = ParamRegisters
  BY FunctionFacts
<1>2. CASE i <= InRegisters(f)
  BY <1>2 DEF Cell
<1>3. CASE ~(i <= InRegisters(f)) /\ i <= Params[f]
  <2>1. InRegisters(f) = ParamRegisters
    BY <1>1, <1>3
  <2> QED
    BY <1>1, <1>3, <2>1 DEF Cell
<1>4. CASE ~(i <= InRegisters(f)) /\ ~(i <= Params[f])
  BY <1>4 DEF Cell
<1> QED
  BY <1>2, <1>3, <1>4

\* Every variable has a cell, in the frame or among the arguments that came by the stack,
\* and not where the links are ...
LEMMA CellPlace ==
  ASSUME NEW f \in Functions, NEW frame \in Int, NEW i \in 1 .. Len(Kinds[f])
  PROVE  /\ Cell(f, i, frame) \in Int /\ Bottom(f, frame) <= Cell(f, i, frame)
         /\ Cell(f, i, frame) < Top(f, frame) - 1
         /\ Cell(f, i, frame) # frame /\ Cell(f, i, frame) # frame + 1
<1> DEFINE in == InRegisters(f)
           all == Len(Kinds[f])
           par == Params[f]
           sav == Len(Uses[f])
<1>1. /\ in \in Nat /\ all \in Nat /\ par \in Nat /\ sav \in Nat /\ in <= par /\ par <= all
      /\ Slots(f) = in + all - par /\ RequiredSize(f) = 1 + par - in
  BY FunctionFacts
<1>2. /\ Bottom(f, frame) = frame - (in + all - par) - sav /\ Top(f, frame) = frame + 3 + par - in
  BY <1>1, SMTT(30) DEF Bottom, Top
<1>3. Cell(f, i, frame) = IF i <= in THEN frame - i
                          ELSE IF i <= par THEN frame + 1 + i - in
                          ELSE frame - (in + i - par)
  BY CellIs
<1> HIDE DEF in, all, par, sav
<1>4. i \in 1 .. all
  BY DEF all
<1> QED
  BY <1>1, <1>2, <1>3, <1>4

\* ... and a cell of its own.
LEMMA CellsDiffer ==
  ASSUME NEW f \in Functions, NEW frame \in Int, NEW i \in 1 .. Len(Kinds[f]),
         NEW j \in 1 .. Len(Kinds[f]), Cell(f, i, frame) = Cell(f, j, frame)
  PROVE  i = j
<1> DEFINE in == InRegisters(f)
           all == Len(Kinds[f])
           par == Params[f]
           At(n) == IF n <= in THEN frame - n
                    ELSE IF n <= par THEN frame + 1 + n - in
                    ELSE frame - (in + n - par)
<1>1. in \in Nat /\ all \in Nat /\ par \in Nat /\ in <= par /\ par <= all
  BY FunctionFacts
<1>2. Cell(f, i, frame) = At(i) /\ Cell(f, j, frame) = At(j)
  BY CellIs
<1>3. i \in 1 .. all /\ j \in 1 .. all
  OBVIOUS
<1> HIDE DEF in, all, par
<1>4. At(i) = At(j)
  BY <1>2
<1> QED
  BY <1>1, <1>3, <1>4

\* A call passes what the callee expects and stores what it returns.
LEMMA SiteFacts ==
  ASSUME NEW s \in DOMAIN Sites
  PROVE  LET site == Sites[s]
             kinds == Kinds[site.caller]
         IN  /\ s \in Nat \ {0} /\ site.caller \in Functions /\ site.callee \in Functions
             /\ site.args \in Seq(Nat) /\ DOMAIN site.args = 1 .. Params[site.callee]
             /\ \A n \in 1 .. Params[site.callee] :
                  /\ site.args[n] \in DOMAIN kinds
                  /\ kinds[site.args[n]] = Kinds[site.callee][n]
             /\ site.dest \in Nat
             /\ site.dest # 0 => /\ site.dest \in DOMAIN kinds
                                 /\ kinds[site.dest] = Returns[site.callee]
<1> DEFINE S == [caller : Functions, callee : Functions, args : Seq(Nat), dest : Nat]
<1>1. Sites \in Seq(S)
  BY SitesAssumption
<1>2. s \in Nat \ {0} /\ Sites[s] \in S
  <2> HIDE DEF S
  <2>1. Len(Sites) \in Nat /\ DOMAIN Sites = 1 .. Len(Sites)
    BY <1>1
  <2> QED
    BY <1>1, <2>1
<1>3. /\ Sites[s].caller \in Functions /\ Sites[s].callee \in Functions
      /\ Sites[s].args \in Seq(Nat) /\ Sites[s].dest \in Nat
  BY <1>2
<1>4. DOMAIN Sites[s].args = 1 .. Len(Sites[s].args)
  BY <1>3
<1>5. Len(Sites[s].args) = Params[Sites[s].callee]
  BY SitesAssumption
<1> HIDE DEF S
<1>6. /\ \A n \in DOMAIN Sites[s].args :
           /\ Sites[s].args[n] \in DOMAIN Kinds[Sites[s].caller]
           /\ Kinds[Sites[s].caller][Sites[s].args[n]] = Kinds[Sites[s].callee][n]
      /\ Sites[s].dest # 0 =>
           /\ Sites[s].dest \in DOMAIN Kinds[Sites[s].caller]
           /\ Kinds[Sites[s].caller][Sites[s].dest] = Returns[Sites[s].callee]
  BY SitesAssumption
<1> QED
  BY <1>2, <1>3, <1>4, <1>5, <1>6

\* A set of numbers that is not empty has a smallest one.
LEMMA SmallestNat ==
  ASSUME NEW T \in SUBSET Nat, T # {}
  PROVE  \E x \in T : \A y \in T : x <= y
<1> DEFINE R == {ss \in Nat \X Nat : ss[1] < ss[2]}
<1>1. IsWellFoundedOn(R, Nat)
  BY NatLessThanWellFounded DEF OpToRel
<1> HIDE DEF R
<1>2. PICK x \in T : \A y \in T : ~ (<<y, x>> \in R)
  BY <1>1, WFMin
<1>3. ASSUME NEW y \in T
      PROVE  x <= y
  <2>1. <<y, x>> \in Nat \X Nat /\ ~ (<<y, x>> \in R)
    BY <1>2
  <2> QED
    BY <2>1 DEF R
<1> QED
  BY <1>3

-----------------------------------------------------------------------------
(***************************************************************************)
(* Strings                                                                 *)
(***************************************************************************)
\* Contents of the memory.
Memories == [0 .. MemorySize - 1 -> Int]

\* A string that has a 0 at or after its start ends at the first one.
LEMMA StringFacts ==
  ASSUME NEW m \in Memories, NEW p \in Nat, NEW q \in Nat, p <= q, q < MemorySize, m[q] = 0
  PROVE  /\ StringAt(m, p) \in Seq(Int) /\ Len(StringAt(m, p)) \in Nat
         /\ p + Len(StringAt(m, p)) <= q
         /\ \A k \in 0 .. Len(StringAt(m, p)) - 1 : m[p + k] # 0
<1> DEFINE Ends(n) == /\ p + n = MemorySize \/ m[p + n] = 0
                      /\ \A k \in 0 .. n - 1 : m[p + k] # 0
           T == {n \in Nat : n <= q - p /\ m[p + n] = 0}
           e == CHOOSE n \in 0 .. MemorySize - p : Ends(n)
<1>0. MemorySize \in Nat
  BY MemoryAssumption
<1>1. q - p \in T
  OBVIOUS
<1>2. PICK a \in T : \A b \in T : a <= b
  BY <1>1, SmallestNat
<1>3. a \in 0 .. MemorySize - p /\ Ends(a)
  <2>1. a \in Nat /\ a <= q - p /\ m[p + a] = 0
    BY <1>2
  <2>2. ASSUME NEW k \in 0 .. a - 1, m[p + k] = 0
        PROVE  FALSE
    <3>1. k \in T
      BY <2>1, <2>2
    <3> QED
      BY <3>1, <2>1, <1>2
  <2>3. a \in 0 .. MemorySize - p
    BY <2>1, <1>0
  <2> QED
    BY <2>1, <2>2, <2>3
<1>4. e \in 0 .. MemorySize - p /\ Ends(e)
  BY <1>3
<1>5. StringAt(m, p) = [k \in 1 .. e |-> m[p + k - 1]]
  BY DEF StringAt
<1> HIDE DEF e, T
<1>6. p + e <= q
  <2>1. SUFFICES ASSUME q < p + e
                 PROVE  FALSE
    BY <1>4, <1>0
  <2>2. q - p \in 0 .. e - 1 /\ p + (q - p) = q
    BY <2>1, <1>4, <1>0
  <2>3. m[p + (q - p)] # 0
    BY <2>2, <1>4
  <2> QED
    BY <2>2, <2>3
<1>7. e \in Nat
  BY <1>4, <1>0
<1>8. ASSUME NEW k \in 1 .. e
      PROVE  m[p + k - 1] \in Int
  <2>1. p + k - 1 \in 0 .. MemorySize - 1
    BY <1>6, <1>7, <1>0
  <2> QED
    BY <2>1 DEF Memories
<1>9. StringAt(m, p) \in [1 .. e -> Int]
  BY <1>5, <1>8
<1>10. StringAt(m, p) \in Seq(Int) /\ Len(StringAt(m, p)) = e
  <2>1. StringAt(m, p) \in Seq(Int)
    BY <1>7, <1>9
  <2>2. DOMAIN StringAt(m, p) = 1 .. e
    BY <1>9
  <2> QED
    BY <1>7, <2>1, <2>2, LenProperties
<1> QED
  BY <1>4, <1>6, <1>7, <1>10

-----------------------------------------------------------------------------
(***************************************************************************)
(* The stack.  F, G and H give, for every call in progress, its frame      *)
(* pointer, its function and the end of the heap it knows; d is how many   *)
(* there are.                                                              *)
(***************************************************************************)

\* Frames follow each other downwards and none reaches into another or the heap.
Placed(F, G, H, d) ==
  /\ F \in [1 .. d -> Int] /\ G \in [1 .. d -> Functions] /\ H \in [1 .. d -> Int]
  /\ d > 0 => F[1] = MemorySize - 2 /\ G[1] = Main
  /\ \A k \in 1 .. d - 1 : Top(G[k + 1], F[k + 1]) = Bottom(G[k], F[k])
  /\ \A k, l \in 1 .. d : k < l => Top(G[l], F[l]) <= Bottom(G[k], F[k]) /\ H[k] <= H[l]
  /\ \A k \in 1 .. d : Base <= H[k] /\ H[k] <= Bottom(G[k], F[k])

\* What calls have left on the stack leads back to the caller.
Linked(m, F, G, H, d) ==
  /\ d > 0 => m[F[1]] = MemorySize /\ m[F[1] + 1] = 0
  /\ \A k \in 1 .. d - 1 :
       /\ m[F[k + 1]] = F[k]
       /\ m[F[k + 1] + 1] \in DOMAIN Sites
       /\ Sites[m[F[k + 1] + 1]].caller = G[k] /\ Sites[m[F[k + 1] + 1]].callee = G[k + 1]
       /\ m[Top(G[k + 1], F[k + 1]) - 1] = H[k]

\* The string variables of a call lie in the heap it knows, which ends with a 0.
Owned(m, sc, F, G, H, d) ==
  \A k \in 1 .. d :
    /\ sc[k] \subseteq 1 .. Len(Kinds[G[k]])
    /\ H[k] > 0 => m[H[k] - 1] = 0
    /\ \A i \in sc[k] : Kinds[G[k]][i] = "string" => m[Cell(G[k], i, F[k])] \in 0 .. H[k] - 1

Stack(m, sc, F, G, H, d) == Placed(F, G, H, d) /\ Linked(m, F, G, H, d) /\ Owned(m, sc, F, G, H, d)

\* Where the frame of a call in progress lies in the memory.
LEMMA PlacedFacts ==
  ASSUME NEW d \in Nat, NEW F, NEW G, NEW H, Placed(F, G, H, d), NEW k \in 1 .. d
  PROVE  /\ F[k] \in Int /\ G[k] \in Functions /\ H[k] \in Int
         /\ 0 <= Base /\ Base <= H[k] /\ H[k] <= Bottom(G[k], F[k]) /\ Bottom(G[k], F[k]) <= F[k]
         /\ Bottom(G[k], F[k]) \in Int
         /\ Top(G[k], F[k]) <= MemorySize + 1 /\ Top(G[k], F[k]) \in Int /\ Base \in Nat
         /\ F[k] + 3 <= Top(G[k], F[k]) /\ MemorySize \in Nat
         /\ F[k] \in 0 .. MemorySize - 1 /\ F[k] + 1 \in 0 .. MemorySize - 1
         /\ \A i \in 1 .. Len(Kinds[G[k]]) : Cell(G[k], i, F[k]) \in 0 .. MemorySize - 1
<1>1. /\ F[k] \in Int /\ G[k] \in Functions /\ H[k] \in Int
      /\ Base <= H[k] /\ H[k] <= Bottom(G[k], F[k])
  BY DEF Placed
<1>2. Base \in Nat /\ MemorySize \in Nat
  BY MemoryAssumption DEF Base
<1>3. /\ Bottom(G[k], F[k]) \in Int /\ Bottom(G[k], F[k]) <= F[k] /\ Top(G[k], F[k]) \in Int
      /\ F[k] + 3 <= Top(G[k], F[k])
      /\ \A i \in 1 .. Len(Kinds[G[k]]) :
           /\ Cell(G[k], i, F[k]) \in Int /\ Bottom(G[k], F[k]) <= Cell(G[k], i, F[k])
           /\ Cell(G[k], i, F[k]) < Top(G[k], F[k]) - 1
  BY <1>1, FrameFacts, CellPlace
<1>4. Top(G[k], F[k]) <= MemorySize + 1
  <2>1. CASE k = 1
    <3>1. G[k] = Main /\ F[k] = MemorySize - 2
      BY <2>1 DEF Placed
    <3>2. Main \in Functions /\ Params[Main] = 0
      BY FunctionsAssumption
    <3>3. RequiredSize(Main) = 1
      BY <3>2, FunctionFacts
    <3> QED
      BY <3>1, <3>3, <1>2 DEF Top
  <2>2. CASE k # 1
    <3>1. Top(G[k], F[k]) <= Bottom(G[1], F[1]) /\ F[1] = MemorySize - 2 /\ 1 \in 1 .. d
      BY <2>2 DEF Placed
    <3>2. F[1] \in Int /\ G[1] \in Functions
      BY <3>1 DEF Placed
    <3>3. Bottom(G[1], F[1]) <= F[1] /\ Bottom(G[1], F[1]) \in Int
      BY <3>2, FrameFacts, CellPlace
    <3> QED
      BY <3>1, <3>2, <3>3, <1>2, <1>3
  <2> QED
    BY <2>1, <2>2
<1>5. \A i \in 1 .. Len(Kinds[G[k]]) : Cell(G[k], i, F[k]) \in 0 .. MemorySize - 1
  BY <1>1, <1>2, <1>3, <1>4, SMTT(30)
<1>6. F[k] \in 0 .. MemorySize - 1 /\ F[k] + 1 \in 0 .. MemorySize - 1
  BY <1>1, <1>2, <1>3, <1>4, SMTT(30)
<1> QED
  BY <1>1, <1>2, <1>3, <1>4, <1>5, <1>6

\* What the running function may do: write the cells of variables V and what is between
\* the end of the heap it knows, which becomes h, and its frame.
Rises(m, m2, sc, sc2, F, G, H, d, h, V) ==
  /\ h \in Int /\ H[d] <= h /\ h <= Bottom(G[d], F[d])
  /\ V \in SUBSET (1 .. Len(Kinds[G[d]]))
  /\ \A k \in 1 .. d - 1 : sc2[k] = sc[k]
  /\ sc2[d] \subseteq sc[d] \cup V
  /\ \A c \in 0 .. MemorySize - 1 :
       \/ c < H[d]
       \/ c >= Bottom(G[d], F[d]) /\ \A i \in V : c # Cell(G[d], i, F[d])
       => m2[c] = m[c]
  /\ h # H[d] => m2[h - 1] = 0
  /\ \A i \in V : Kinds[G[d]][i] = "string" => m2[Cell(G[d], i, F[d])] \in 0 .. h - 1

\* A step of the running function writes its variables and the heap above its end: what
\* the other calls, and the way back to them, are made of stays as it is.
LEMMA Restack ==
  ASSUME NEW d \in Nat \ {0}, NEW m, NEW m2, NEW sc, NEW sc2, NEW F, NEW G, NEW H,
         Stack(m, sc, F, G, H, d),
         NEW h, NEW V, Rises(m, m2, sc, sc2, F, G, H, d, h, V)
  PROVE  Stack(m2, sc2, F, G, [H EXCEPT ![d] = h], d)
<1> USE DEF Rises
<1> DEFINE H2 == [H EXCEPT ![d] = h]
           Kept(c) == c \in 0 .. MemorySize - 1 /\ m2[c] = m[c]
<1>1. Placed(F, G, H, d) /\ Linked(m, F, G, H, d) /\ Owned(m, sc, F, G, H, d)
  BY DEF Stack
<1>2. H \in [1 .. d -> Int] /\ d \in 1 .. d
  BY <1>1 DEF Placed
<1>3. H2 \in [1 .. d -> Int] /\ H2[d] = h /\ \A k \in 1 .. d - 1 : H2[k] = H[k]
  BY <1>2
<1> HIDE DEF H2
<1>4. ASSUME NEW k \in 1 .. d
      PROVE  /\ F[k] \in Int /\ G[k] \in Functions /\ H[k] \in Int
             /\ Base <= H[k] /\ H[k] <= Bottom(G[k], F[k]) /\ Bottom(G[k], F[k]) <= F[k]
             /\ Bottom(G[k], F[k]) \in Int /\ Top(G[k], F[k]) \in Int
             /\ Top(G[k], F[k]) <= MemorySize + 1 /\ Base \in Nat
             /\ F[k] + 3 <= Top(G[k], F[k]) /\ MemorySize \in Nat
             /\ F[k] \in 0 .. MemorySize - 1 /\ F[k] + 1 \in 0 .. MemorySize - 1
             /\ \A i \in 1 .. Len(Kinds[G[k]]) : Cell(G[k], i, F[k]) \in 0 .. MemorySize - 1
  BY <1>1, PlacedFacts
<1>5. \A k, l \in 1 .. d : k < l => Top(G[l], F[l]) <= Bottom(G[k], F[k]) /\ H[k] <= H[l]
  BY <1>1 DEF Placed
<1>6. ASSUME NEW i \in 1 .. Len(Kinds[G[d]])
      PROVE  /\ Cell(G[d], i, F[d]) \in Int /\ Bottom(G[d], F[d]) <= Cell(G[d], i, F[d])
             /\ Cell(G[d], i, F[d]) < Top(G[d], F[d]) - 1
             /\ Cell(G[d], i, F[d]) # F[d] /\ Cell(G[d], i, F[d]) # F[d] + 1
             /\ \A j \in 1 .. Len(Kinds[G[d]]) :
                  Cell(G[d], i, F[d]) = Cell(G[d], j, F[d]) => i = j
  <2>1. F[d] \in Int /\ G[d] \in Functions
    BY <1>2, <1>4
  <2> QED
    BY <2>1, CellPlace, CellsDiffer
<1>7. ASSUME NEW c \in 0 .. MemorySize - 1, c >= Top(G[d], F[d]) - 1 \/ c < H[d]
      PROVE  Kept(c)
  <2>1. /\ Bottom(G[d], F[d]) <= F[d] /\ F[d] + 3 <= Top(G[d], F[d]) /\ F[d] \in Int
        /\ Bottom(G[d], F[d]) \in Int /\ Top(G[d], F[d]) \in Int
    BY <1>2, <1>4
  <2>2. CASE c < H[d]
    BY <2>2
  <2>3. CASE c >= Top(G[d], F[d]) - 1
    <3>1. c >= Bottom(G[d], F[d])
      BY <2>1, <2>3
    <3>2. \A i \in V : c # Cell(G[d], i, F[d])
      BY <2>1, <2>3, <1>6
    <3> QED
      BY <3>1, <3>2
  <2> QED
    BY <1>7, <2>2, <2>3
<1>8. ASSUME NEW k \in 1 .. d
      PROVE  Kept(F[k]) /\ Kept(F[k] + 1)
  <2>1. CASE k = d
    <3>1. \A i \in V : Cell(G[d], i, F[d]) # F[d] /\ Cell(G[d], i, F[d]) # F[d] + 1
      BY <1>6
    <3>2. Bottom(G[d], F[d]) <= F[d] /\ Bottom(G[d], F[d]) <= F[d] + 1
      BY <1>2, <1>4, SMTT(30)
    <3>3. F[d] \in 0 .. MemorySize - 1 /\ F[d] + 1 \in 0 .. MemorySize - 1
      BY <1>2, <1>4
    <3> QED
      BY <2>1, <3>1, <3>2, <3>3
  <2>2. CASE k # d
    <3>0. k < d
      BY <2>2
    <3>1. Top(G[d], F[d]) <= Bottom(G[k], F[k])
      BY <3>0, <1>2, <1>5
    <3>2. /\ Bottom(G[k], F[k]) <= F[k] /\ Top(G[d], F[d]) \in Int
          /\ Bottom(G[k], F[k]) \in Int /\ F[k] \in Int
      BY <1>2, <1>4
    <3>3. F[k] >= Top(G[d], F[d]) - 1 /\ F[k] + 1 >= Top(G[d], F[d]) - 1
      BY <3>1, <3>2
    <3> QED
      BY <3>3, <1>4, <1>7
  <2> QED
    BY <2>1, <2>2
<1>9. ASSUME NEW k \in 1 .. d - 1
      PROVE  /\ Kept(Top(G[k + 1], F[k + 1]) - 1)
             /\ \A i \in 1 .. Len(Kinds[G[k]]) : Kept(Cell(G[k], i, F[k]))
  <2>1. k \in 1 .. d /\ k + 1 \in 1 .. d /\ k < d /\ d \in 1 .. d
    OBVIOUS
  <2>2. Top(G[d], F[d]) <= Bottom(G[k], F[k])
    BY <2>1, <1>5
  <2>3. \A i \in 1 .. Len(Kinds[G[k]]) :
          Cell(G[k], i, F[k]) \in Int /\ Bottom(G[k], F[k]) <= Cell(G[k], i, F[k])
    BY <2>1, <1>4, FrameFacts, CellPlace
  <2>4. \A i \in 1 .. Len(Kinds[G[k]]) : Kept(Cell(G[k], i, F[k]))
    <3> TAKE i \in 1 .. Len(Kinds[G[k]])
    <3>1. Cell(G[k], i, F[k]) \in 0 .. MemorySize - 1
      BY <2>1, <1>4
    <3>2. /\ Bottom(G[k], F[k]) \in Int /\ Top(G[d], F[d]) \in Int
          /\ Cell(G[k], i, F[k]) \in Int /\ Bottom(G[k], F[k]) <= Cell(G[k], i, F[k])
      BY <2>1, <2>3, <1>4
    <3>3. Cell(G[k], i, F[k]) >= Top(G[d], F[d]) - 1
      BY <2>2, <3>2
    <3> QED
      BY <3>1, <3>3, <1>7
  <2>5. Top(G[k + 1], F[k + 1]) = Bottom(G[k], F[k])
    BY <1>1 DEF Placed
  <2>6. Top(G[k + 1], F[k + 1]) - 1 \in 0 .. MemorySize - 1
    <3>1. F[k + 1] \in 0 .. MemorySize - 1 /\ F[k + 1] + 3 <= Top(G[k + 1], F[k + 1])
          /\ Top(G[k + 1], F[k + 1]) \in Int /\ MemorySize \in Nat
      BY <2>1, <1>4
    <3>2. Bottom(G[k], F[k]) <= F[k] /\ F[k] \in 0 .. MemorySize - 1
      BY <2>1, <1>4
    <3> QED
      BY <3>1, <3>2, <2>5, SMTT(30)
  <2>7. Top(G[k + 1], F[k + 1]) - 1 >= Top(G[d], F[d]) - 1
    BY <2>1, <2>2, <2>5, <1>4
  <2> QED
    BY <2>4, <2>6, <2>7, <1>7
<1>10. Placed(F, G, H2, d)
  <2>1. /\ F \in [1 .. d -> Int] /\ G \in [1 .. d -> Functions]
        /\ d > 0 => F[1] = MemorySize - 2 /\ G[1] = Main
        /\ \A k \in 1 .. d - 1 : Top(G[k + 1], F[k + 1]) = Bottom(G[k], F[k])
    BY <1>1 DEF Placed
  <2>2. ASSUME NEW k \in 1 .. d, NEW l \in 1 .. d, k < l
        PROVE  Top(G[l], F[l]) <= Bottom(G[k], F[k]) /\ H2[k] <= H2[l]
    <3>1. k \in 1 .. d - 1 /\ H2[k] = H[k]
      BY <2>2, <1>3
    <3>2. H[k] <= H[l] /\ Top(G[l], F[l]) <= Bottom(G[k], F[k])
      BY <2>2, <1>5
    <3>3. H[l] <= H2[l]
      <4>1. CASE l = d
        BY <4>1, <1>3
      <4>2. CASE l # d
        <5>1. l \in 1 .. d - 1 /\ H[l] \in Int
          BY <4>2, <1>2
        <5>2. H2[l] = H[l]
          BY <5>1, <1>3
        <5> QED
          BY <5>1, <5>2
      <4> QED
        BY <4>1, <4>2
    <3>4. H[l] \in Int /\ H2[l] \in Int /\ H[k] \in Int
      BY <1>3, <1>2
    <3> QED
      BY <3>1, <3>2, <3>3, <3>4
  <2>3. ASSUME NEW k \in 1 .. d
        PROVE  Base <= H2[k] /\ H2[k] <= Bottom(G[k], F[k])
    <3>1. CASE k = d
      BY <3>1, <1>2, <1>3, <1>4
    <3>2. CASE k # d
      <4>1. k \in 1 .. d - 1
        BY <3>2
      <4> QED
        BY <4>1, <1>3, <1>4
    <3> QED
      BY <3>1, <3>2
  <2> QED
    BY <1>3, <2>1, <2>2, <2>3 DEF Placed
<1>11. Linked(m2, F, G, H2, d)
  <2>1. m2[F[1]] = MemorySize /\ m2[F[1] + 1] = 0
    <3>1. m[F[1]] = MemorySize /\ m[F[1] + 1] = 0 /\ 1 \in 1 .. d
      BY <1>1 DEF Linked
    <3> QED
      BY <3>1, <1>8
  <2>2. ASSUME NEW k \in 1 .. d - 1
        PROVE  /\ m2[F[k + 1]] = F[k]
               /\ m2[F[k + 1] + 1] \in DOMAIN Sites
               /\ Sites[m2[F[k + 1] + 1]].caller = G[k]
               /\ Sites[m2[F[k + 1] + 1]].callee = G[k + 1]
               /\ m2[Top(G[k + 1], F[k + 1]) - 1] = H2[k]
    <3>1. /\ m[F[k + 1]] = F[k]
          /\ m[F[k + 1] + 1] \in DOMAIN Sites
          /\ Sites[m[F[k + 1] + 1]].caller = G[k] /\ Sites[m[F[k + 1] + 1]].callee = G[k + 1]
          /\ m[Top(G[k + 1], F[k + 1]) - 1] = H[k]
      BY <1>1 DEF Linked
    <3>2. m2[F[k + 1]] = m[F[k + 1]] /\ m2[F[k + 1] + 1] = m[F[k + 1] + 1]
      <4>1. k + 1 \in 1 .. d
        OBVIOUS
      <4> QED
        BY <4>1, <1>8
    <3>3. m2[Top(G[k + 1], F[k + 1]) - 1] = m[Top(G[k + 1], F[k + 1]) - 1]
      BY <1>9
    <3>4. H2[k] = H[k]
      BY <1>3
    <3> QED
      BY <3>1, <3>2, <3>3, <3>4
  <2> QED
    BY <2>1, <2>2 DEF Linked
<1>12. Owned(m2, sc2, F, G, H2, d)
  <2>1. ASSUME NEW k \in 1 .. d
        PROVE  /\ sc[k] \subseteq 1 .. Len(Kinds[G[k]])
               /\ H[k] > 0 => m[H[k] - 1] = 0
               /\ \A i \in sc[k] :
                    Kinds[G[k]][i] = "string" => m[Cell(G[k], i, F[k])] \in 0 .. H[k] - 1
    BY <1>1 DEF Owned
  <2>2. ASSUME NEW k \in 1 .. d, H[k] > 0
        PROVE  m2[H[k] - 1] = 0
    <3>1. m[H[k] - 1] = 0
      BY <2>1, <2>2
    <3>2. H[k] <= H[d]
      <4>1. CASE k = d
        BY <4>1, <1>4
      <4>2. CASE k # d
        BY <4>2, <1>2, <1>5
      <4> QED
        BY <4>1, <4>2
    <3>3. /\ H[k] \in Int /\ H[d] \in Int /\ H[k] <= Bottom(G[k], F[k])
          /\ Bottom(G[k], F[k]) \in Int /\ Bottom(G[k], F[k]) <= F[k]
          /\ F[k] \in 0 .. MemorySize - 1 /\ MemorySize \in Nat
      BY <1>2, <1>4
    <3>4. H[k] - 1 < H[d] /\ H[k] - 1 \in 0 .. MemorySize - 1
      BY <3>2, <3>3, <2>2
    <3> QED
      BY <3>1, <3>4, <1>7
  <2>3. ASSUME NEW k \in 1 .. d - 1
        PROVE  /\ sc2[k] \subseteq 1 .. Len(Kinds[G[k]])
               /\ H2[k] > 0 => m2[H2[k] - 1] = 0
               /\ \A i \in sc2[k] :
                    Kinds[G[k]][i] = "string" => m2[Cell(G[k], i, F[k])] \in 0 .. H2[k] - 1
    <3>1. k \in 1 .. d /\ sc2[k] = sc[k] /\ H2[k] = H[k]
      BY <1>3
    <3>2. ASSUME NEW i \in sc[k], Kinds[G[k]][i] = "string"
          PROVE  m2[Cell(G[k], i, F[k])] \in 0 .. H[k] - 1
      <4>1. m[Cell(G[k], i, F[k])] \in 0 .. H[k] - 1 /\ i \in 1 .. Len(Kinds[G[k]])
        BY <3>1, <3>2, <2>1
      <4> QED
        BY <4>1, <1>9
    <3> QED
      BY <3>1, <3>2, <2>1, <2>2
  <2>4. /\ sc2[d] \subseteq 1 .. Len(Kinds[G[d]])
        /\ h > 0 => m2[h - 1] = 0
    <3>1. sc[d] \subseteq 1 .. Len(Kinds[G[d]])
      BY <2>1, <1>2
    <3>2. h = H[d] => (h > 0 => m2[h - 1] = 0)
      BY <2>2, <1>2
    <3> QED
      BY <3>1, <3>2
  <2>5. ASSUME NEW i \in sc2[d], Kinds[G[d]][i] = "string"
        PROVE  m2[Cell(G[d], i, F[d])] \in 0 .. h - 1
    <3>1. CASE i \in V
      BY <3>1, <2>5
    <3>2. CASE i \notin V
      <4>1. i \in sc[d] /\ i \in 1 .. Len(Kinds[G[d]])
        BY <3>2, <2>4
      <4>2. m[Cell(G[d], i, F[d])] \in 0 .. H[d] - 1
        BY <4>1, <2>1, <2>5, <1>2
      <4>3. \A j \in V : Cell(G[d], i, F[d]) # Cell(G[d], j, F[d])
        BY <4>1, <3>2, <1>6
      <4>4. m2[Cell(G[d], i, F[d])] = m[Cell(G[d], i, F[d])]
        BY <4>1, <4>3, <1>2, <1>4, <1>6
      <4>5. H[d] \in Int
        BY <1>2
      <4> QED
        BY <4>2, <4>4, <4>5
    <3> QED
      BY <3>1, <3>2
  <2>6. ASSUME NEW k \in 1 .. d
        PROVE  /\ sc2[k] \subseteq 1 .. Len(Kinds[G[k]])
               /\ H2[k] > 0 => m2[H2[k] - 1] = 0
               /\ \A i \in sc2[k] :
                    Kinds[G[k]][i] = "string" => m2[Cell(G[k], i, F[k])] \in 0 .. H2[k] - 1
    <3>1. CASE k = d
      BY <3>1, <1>3, <2>4, <2>5
    <3>2. CASE k # d
      <4>1. k \in 1 .. d - 1
        BY <3>2
      <4> QED
        BY <4>1, <2>3
    <3> QED
      BY <3>1, <3>2
  <2> QED
    BY <2>6 DEF Owned
<1> QED
  BY <1>10, <1>11, <1>12 DEF Stack, H2

\* A return leaves the other calls as they were.
LEMMA Pop ==
  ASSUME NEW d \in Nat \ {0}, NEW m, NEW sc, NEW sc2, NEW F, NEW G, NEW H,
         Stack(m, sc, F, G, H, d), \A k \in 1 .. d - 1 : sc2[k] = sc[k]
  PROVE  Stack(m, sc2, [k \in 1 .. d - 1 |-> F[k]], [k \in 1 .. d - 1 |-> G[k]],
               [k \in 1 .. d - 1 |-> H[k]], d - 1)
<1> DEFINE e == d - 1
           F2 == [k \in 1 .. e |-> F[k]]
           G2 == [k \in 1 .. e |-> G[k]]
           H2 == [k \in 1 .. e |-> H[k]]
<1>1. Placed(F, G, H, d) /\ Linked(m, F, G, H, d) /\ Owned(m, sc, F, G, H, d)
  BY DEF Stack
<1>2. F \in [1 .. d -> Int] /\ G \in [1 .. d -> Functions] /\ H \in [1 .. d -> Int]
  BY <1>1 DEF Placed
<1>3. e \in Nat /\ 1 .. e \subseteq 1 .. d /\ 1 .. e - 1 \subseteq 1 .. d - 1
  OBVIOUS
<1>4. /\ F2 \in [1 .. e -> Int] /\ G2 \in [1 .. e -> Functions] /\ H2 \in [1 .. e -> Int]
      /\ \A k \in 1 .. e : F2[k] = F[k] /\ G2[k] = G[k] /\ H2[k] = H[k]
  BY <1>2, <1>3
<1>5. \A k \in 1 .. e - 1 : k \in 1 .. e /\ k + 1 \in 1 .. e
  BY <1>3
<1>6. e > 0 => 1 \in 1 .. e
  BY <1>3
<1> HIDE DEF F2, G2, H2
<1>7. Placed(F2, G2, H2, e)
  <2>1. e > 0 => F2[1] = MemorySize - 2 /\ G2[1] = Main
    BY <1>1, <1>4, <1>6 DEF Placed
  <2>2. \A k \in 1 .. e - 1 : Top(G2[k + 1], F2[k + 1]) = Bottom(G2[k], F2[k])
    BY <1>1, <1>3, <1>4, <1>5 DEF Placed
  <2>3. \A k, l \in 1 .. e : k < l => Top(G2[l], F2[l]) <= Bottom(G2[k], F2[k]) /\ H2[k] <= H2[l]
    BY <1>1, <1>3, <1>4 DEF Placed
  <2>4. \A k \in 1 .. e : Base <= H2[k] /\ H2[k] <= Bottom(G2[k], F2[k])
    BY <1>1, <1>3, <1>4 DEF Placed
  <2> QED
    BY <1>4, <2>1, <2>2, <2>3, <2>4 DEF Placed
<1>8. Linked(m, F2, G2, H2, e)
  <2>1. e > 0 => m[F2[1]] = MemorySize /\ m[F2[1] + 1] = 0
    BY <1>1, <1>4, <1>6 DEF Linked
  <2>2. ASSUME NEW k \in 1 .. e - 1
        PROVE  /\ m[F2[k + 1]] = F2[k]
               /\ m[F2[k + 1] + 1] \in DOMAIN Sites
               /\ Sites[m[F2[k + 1] + 1]].caller = G2[k]
               /\ Sites[m[F2[k + 1] + 1]].callee = G2[k + 1]
               /\ m[Top(G2[k + 1], F2[k + 1]) - 1] = H2[k]
    <3>1. /\ m[F[k + 1]] = F[k]
          /\ m[F[k + 1] + 1] \in DOMAIN Sites
          /\ Sites[m[F[k + 1] + 1]].caller = G[k] /\ Sites[m[F[k + 1] + 1]].callee = G[k + 1]
          /\ m[Top(G[k + 1], F[k + 1]) - 1] = H[k]
      BY <1>1, <1>3 DEF Linked
    <3>2. F2[k] = F[k] /\ G2[k] = G[k] /\ H2[k] = H[k] /\ F2[k + 1] = F[k + 1] /\ G2[k + 1] = G[k + 1]
      BY <1>4, <1>5
    <3> QED
      BY <3>1, <3>2
  <2> QED
    BY <2>1, <2>2 DEF Linked
<1>9. Owned(m, sc2, F2, G2, H2, e)
  <2>1. ASSUME NEW k \in 1 .. e
        PROVE  /\ sc2[k] \subseteq 1 .. Len(Kinds[G2[k]])
               /\ H2[k] > 0 => m[H2[k] - 1] = 0
               /\ \A i \in sc2[k] :
                    Kinds[G2[k]][i] = "string" => m[Cell(G2[k], i, F2[k])] \in 0 .. H2[k] - 1
    <3>1. F2[k] = F[k] /\ G2[k] = G[k] /\ H2[k] = H[k] /\ sc2[k] = sc[k] /\ k \in 1 .. d
      BY <1>3, <1>4
    <3> QED
      BY <3>1, <1>1 DEF Owned
  <2> QED
    BY <2>1 DEF Owned
<1> QED
  BY <1>7, <1>8, <1>9 DEF Stack, F2, G2, H2

\* What the entry code of f does: it writes its frame, with the links that the call has
\* prepared, and leaves the heap, which ends at h.
Grows(m, m2, sc, sc2, F, G, H, d, f, frame, h) ==
  /\ m2 \in Memories /\ f \in Functions /\ frame \in Int /\ h \in Int
  /\ Base <= h /\ h <= Bottom(f, frame) /\ frame + 1 < MemorySize
  /\ h > 0 => m2[h - 1] = 0
  /\ \A c \in 0 .. MemorySize - 1 : c < h \/ c > frame + 1 => m2[c] = m[c]
  /\ d = 0 => frame = MemorySize - 2 /\ f = Main /\ m2[frame] = MemorySize /\ m2[frame + 1] = 0
  /\ d > 0 => /\ Top(f, frame) = Bottom(G[d], F[d]) /\ h = H[d]
              /\ m2[frame] = F[d] /\ m2[frame + 1] \in DOMAIN Sites
              /\ Sites[m2[frame + 1]].caller = G[d] /\ Sites[m2[frame + 1]].callee = f
              /\ m2[Top(f, frame) - 1] = h
  /\ \A k \in 1 .. d : sc2[k] = sc[k]
  /\ sc2[d + 1] \subseteq 1 .. Len(Kinds[f])
  /\ \A i \in sc2[d + 1] : Kinds[f][i] = "string" => m2[Cell(f, i, frame)] \in 0 .. h - 1

\* The entry code of a function puts a frame under the others.
LEMMA Push ==
  ASSUME NEW d \in Nat, NEW m, NEW m2, NEW sc, NEW sc2, NEW F, NEW G, NEW H,
         Stack(m, sc, F, G, H, d), NEW f, NEW frame, NEW h,
         Grows(m, m2, sc, sc2, F, G, H, d, f, frame, h)
  PROVE  Stack(m2, sc2, [k \in 1 .. d + 1 |-> IF k = d + 1 THEN frame ELSE F[k]],
               [k \in 1 .. d + 1 |-> IF k = d + 1 THEN f ELSE G[k]],
               [k \in 1 .. d + 1 |-> IF k = d + 1 THEN h ELSE H[k]], d + 1)
<1> USE DEF Grows
<1> DEFINE e == d + 1
           F2 == [k \in 1 .. e |-> IF k = e THEN frame ELSE F[k]]
           G2 == [k \in 1 .. e |-> IF k = e THEN f ELSE G[k]]
           H2 == [k \in 1 .. e |-> IF k = e THEN h ELSE H[k]]
           Kept(c) == m2[c] = m[c]
<1>1. Placed(F, G, H, d) /\ Linked(m, F, G, H, d) /\ Owned(m, sc, F, G, H, d)
  BY DEF Stack
<1>2. F \in [1 .. d -> Int] /\ G \in [1 .. d -> Functions] /\ H \in [1 .. d -> Int]
  BY <1>1 DEF Placed
<1>3. /\ e \in Nat \ {0} /\ e \in 1 .. e /\ e # 1 => d > 0 /\ 1 \in 1 .. d
      /\ \A k \in 1 .. e : k # e => k \in 1 .. d
      /\ \A k \in 1 .. d : k \in 1 .. e /\ k # e
  OBVIOUS
<1>4. /\ F2 \in [1 .. e -> Int] /\ G2 \in [1 .. e -> Functions] /\ H2 \in [1 .. e -> Int]
      /\ F2[e] = frame /\ G2[e] = f /\ H2[e] = h
      /\ \A k \in 1 .. d : F2[k] = F[k] /\ G2[k] = G[k] /\ H2[k] = H[k]
  <2>1. F2 \in [1 .. e -> Int] /\ G2 \in [1 .. e -> Functions] /\ H2 \in [1 .. e -> Int]
    BY <1>2, <1>3
  <2>2. F2[e] = frame /\ G2[e] = f /\ H2[e] = h
    BY <1>3
  <2>3. \A k \in 1 .. d : F2[k] = F[k] /\ G2[k] = G[k] /\ H2[k] = H[k]
    BY <1>3
  <2> QED
    BY <2>1, <2>2, <2>3
<1> HIDE DEF F2, G2, H2
<1>5. ASSUME NEW k \in 1 .. d
      PROVE  /\ F[k] \in Int /\ G[k] \in Functions /\ H[k] \in Int
             /\ 0 <= Base /\ Base <= H[k] /\ H[k] <= Bottom(G[k], F[k])
             /\ Bottom(G[k], F[k]) <= F[k] /\ Bottom(G[k], F[k]) \in Int
             /\ Top(G[k], F[k]) <= MemorySize + 1 /\ Top(G[k], F[k]) \in Int /\ Base \in Nat
             /\ F[k] + 3 <= Top(G[k], F[k]) /\ MemorySize \in Nat
             /\ F[k] \in 0 .. MemorySize - 1 /\ F[k] + 1 \in 0 .. MemorySize - 1
             /\ \A i \in 1 .. Len(Kinds[G[k]]) : Cell(G[k], i, F[k]) \in 0 .. MemorySize - 1
  BY <1>1, PlacedFacts
<1>6. /\ Bottom(f, frame) \in Int /\ Bottom(f, frame) <= frame /\ Top(f, frame) \in Int
      /\ frame + 3 <= Top(f, frame)
  BY FrameFacts
<1>7. ASSUME NEW k \in 1 .. d
      PROVE  Top(f, frame) <= Bottom(G[k], F[k]) /\ H[k] <= h
  <2>1. CASE k = d
    BY <2>1, <1>5
  <2>2. CASE k # d
    <3>1. k < d /\ d \in 1 .. d
      BY <2>2
    <3>2. Top(G[d], F[d]) <= Bottom(G[k], F[k]) /\ H[k] <= H[d]
      BY <3>1, <1>1 DEF Placed
    <3>3. /\ Top(f, frame) = Bottom(G[d], F[d]) /\ Bottom(G[d], F[d]) <= F[d]
          /\ F[d] + 3 <= Top(G[d], F[d]) /\ h = H[d]
      BY <3>1, <1>5
    <3>4. /\ Top(f, frame) \in Int /\ Bottom(G[d], F[d]) \in Int /\ F[d] \in Int
          /\ Top(G[d], F[d]) \in Int /\ Bottom(G[k], F[k]) \in Int /\ H[k] \in Int /\ H[d] \in Int
      BY <3>1, <1>5, <1>6
    <3> QED
      BY <3>2, <3>3, <3>4
  <2> QED
    BY <2>1, <2>2
<1>8. ASSUME NEW k \in 1 .. d
      PROVE  /\ Kept(F[k]) /\ Kept(F[k] + 1)
             /\ \A i \in 1 .. Len(Kinds[G[k]]) : Kept(Cell(G[k], i, F[k]))
             /\ H[k] > 0 => Kept(H[k] - 1)
  <2>1. /\ Top(f, frame) <= Bottom(G[k], F[k]) /\ Bottom(G[k], F[k]) \in Int
        /\ Bottom(G[k], F[k]) <= F[k] /\ H[k] <= Bottom(G[k], F[k])
        /\ F[k] \in 0 .. MemorySize - 1 /\ F[k] + 1 \in 0 .. MemorySize - 1
        /\ H[k] \in Int /\ H[k] <= h /\ F[k] \in Int /\ G[k] \in Functions
    BY <1>5, <1>7
  <2>2. Kept(F[k]) /\ Kept(F[k] + 1)
    BY <2>1, <1>6, SMTT(30)
  <2>3. ASSUME NEW i \in 1 .. Len(Kinds[G[k]])
        PROVE  Kept(Cell(G[k], i, F[k]))
    <3>1. Cell(G[k], i, F[k]) \in 0 .. MemorySize - 1
      BY <1>5
    <3>2. Cell(G[k], i, F[k]) \in Int /\ Bottom(G[k], F[k]) <= Cell(G[k], i, F[k])
      BY <2>1, CellPlace
    <3>3. Cell(G[k], i, F[k]) > frame + 1
      BY <3>2, <2>1, <1>6
    <3> QED
      BY <3>1, <3>3
  <2>4. ASSUME H[k] > 0
        PROVE  Kept(H[k] - 1)
    <3>0. H[k] <= F[k]
      BY <2>1
    <3>1. h \in Int /\ MemorySize \in Nat
      BY <1>5
    <3>2. H[k] \in Int /\ H[k] <= h /\ F[k] \in 0 .. MemorySize - 1
      BY <2>1
    <3>3. H[k] - 1 \in 0 .. MemorySize - 1 /\ H[k] - 1 < h
      BY <2>4, <3>0, <3>1, <3>2
    <3> QED
      BY <3>3
  <2> QED
    BY <2>2, <2>3, <2>4
<1>9. ASSUME NEW k \in 1 .. d - 1
      PROVE  Kept(Top(G[k + 1], F[k + 1]) - 1)
  <2>1. k \in 1 .. d /\ k + 1 \in 1 .. d
    OBVIOUS
  <2>2. Top(G[k + 1], F[k + 1]) = Bottom(G[k], F[k])
    BY <1>1 DEF Placed
  <2>3. /\ F[k + 1] + 3 <= Top(G[k + 1], F[k + 1]) /\ F[k + 1] \in 0 .. MemorySize - 1
        /\ Bottom(G[k + 1], F[k + 1]) <= F[k + 1] /\ Bottom(G[k + 1], F[k + 1]) \in Int
        /\ Top(G[k + 1], F[k + 1]) \in Int /\ MemorySize \in Nat
        /\ Top(f, frame) <= Bottom(G[k + 1], F[k + 1])
    BY <2>1, <1>5, <1>7
  <2>4. Bottom(G[k], F[k]) <= F[k] /\ F[k] \in 0 .. MemorySize - 1
    BY <2>1, <1>5
  <2>5. Top(G[k + 1], F[k + 1]) - 1 \in 0 .. MemorySize - 1
    <3>1. Top(G[k + 1], F[k + 1]) <= F[k] /\ 3 <= Top(G[k + 1], F[k + 1])
      BY <2>2, <2>3, <2>4
    <3> QED
      BY <3>1, <2>3, <2>4, SMTT(30)
  <2>6. Top(G[k + 1], F[k + 1]) - 1 > frame + 1
    BY <2>3, <1>6, SMTT(30)
  <2> QED
    BY <2>5, <2>6
<1>10. Placed(F2, G2, H2, e)
  <2>1. F2[1] = MemorySize - 2 /\ G2[1] = Main
    <3>1. CASE d = 0
      BY <3>1, <1>4
    <3>2. CASE d # 0
      <4>1. d > 0 /\ 1 \in 1 .. d
        BY <3>2
      <4> QED
        BY <4>1, <1>1, <1>4 DEF Placed
    <3> QED
      BY <3>1, <3>2
  <2>2. ASSUME NEW k \in 1 .. e - 1
        PROVE  Top(G2[k + 1], F2[k + 1]) = Bottom(G2[k], F2[k])
    <3>1. k \in 1 .. d
      OBVIOUS
    <3>2. CASE k = d
      BY <3>1, <3>2, <1>4
    <3>3. CASE k # d
      <4>1. k \in 1 .. d - 1 /\ k + 1 \in 1 .. d
        BY <3>1, <3>3
      <4> QED
        BY <3>1, <4>1, <1>1, <1>4 DEF Placed
    <3> QED
      BY <3>2, <3>3
  <2>3. ASSUME NEW k \in 1 .. e, NEW l \in 1 .. e, k < l
        PROVE  Top(G2[l], F2[l]) <= Bottom(G2[k], F2[k]) /\ H2[k] <= H2[l]
    <3>1. k \in 1 .. d
      BY <2>3
    <3>2. CASE l = e
      BY <3>1, <3>2, <1>4, <1>7
    <3>3. CASE l # e
      <4>1. l \in 1 .. d
        BY <3>3, <1>3
      <4> QED
        BY <3>1, <4>1, <2>3, <1>1, <1>4 DEF Placed
    <3> QED
      BY <3>2, <3>3
  <2>4. ASSUME NEW k \in 1 .. e
        PROVE  Base <= H2[k] /\ H2[k] <= Bottom(G2[k], F2[k])
    <3>1. CASE k = e
      BY <3>1, <1>4
    <3>2. CASE k # e
      <4>1. k \in 1 .. d
        BY <3>2, <1>3
      <4> QED
        BY <4>1, <1>4, <1>5
    <3> QED
      BY <3>1, <3>2
  <2> QED
    BY <1>4, <2>1, <2>2, <2>3, <2>4 DEF Placed
<1>11. Linked(m2, F2, G2, H2, e)
  <2>1. m2[F2[1]] = MemorySize /\ m2[F2[1] + 1] = 0
    <3>1. CASE d = 0
      BY <3>1, <1>4
    <3>2. CASE d # 0
      <4>1. d > 0 /\ 1 \in 1 .. d
        BY <3>2
      <4>2. m[F[1]] = MemorySize /\ m[F[1] + 1] = 0
        BY <4>1, <1>1 DEF Linked
      <4> QED
        BY <4>1, <4>2, <1>4, <1>8
    <3> QED
      BY <3>1, <3>2
  <2>2. ASSUME NEW k \in 1 .. e - 1
        PROVE  /\ m2[F2[k + 1]] = F2[k]
               /\ m2[F2[k + 1] + 1] \in DOMAIN Sites
               /\ Sites[m2[F2[k + 1] + 1]].caller = G2[k]
               /\ Sites[m2[F2[k + 1] + 1]].callee = G2[k + 1]
               /\ m2[Top(G2[k + 1], F2[k + 1]) - 1] = H2[k]
    <3>1. k \in 1 .. d
      OBVIOUS
    <3>2. CASE k = d
      <4>1. /\ F2[k + 1] = frame /\ G2[k + 1] = f
            /\ F2[k] = F[d] /\ G2[k] = G[d] /\ H2[k] = H[d]
        BY <3>1, <3>2, <1>4
      <4> QED
        BY <3>1, <3>2, <4>1
    <3>3. CASE k # d
      <4>1. k \in 1 .. d - 1 /\ k + 1 \in 1 .. d
        BY <3>1, <3>3
      <4>2. /\ F2[k] = F[k] /\ G2[k] = G[k] /\ H2[k] = H[k]
            /\ F2[k + 1] = F[k + 1] /\ G2[k + 1] = G[k + 1]
        BY <3>1, <4>1, <1>4
      <4>3. /\ m2[F[k + 1]] = m[F[k + 1]] /\ m2[F[k + 1] + 1] = m[F[k + 1] + 1]
            /\ m2[Top(G[k + 1], F[k + 1]) - 1] = m[Top(G[k + 1], F[k + 1]) - 1]
        BY <4>1, <1>8, <1>9
      <4>4. /\ m[F[k + 1]] = F[k]
            /\ m[F[k + 1] + 1] \in DOMAIN Sites
            /\ Sites[m[F[k + 1] + 1]].caller = G[k]
            /\ Sites[m[F[k + 1] + 1]].callee = G[k + 1]
            /\ m[Top(G[k + 1], F[k + 1]) - 1] = H[k]
        BY <4>1, <1>1 DEF Linked
      <4> QED
        BY <4>2, <4>3, <4>4
    <3> QED
      BY <3>2, <3>3
  <2> QED
    BY <2>1, <2>2 DEF Linked
<1>12. Owned(m2, sc2, F2, G2, H2, e)
  <2>1. ASSUME NEW k \in 1 .. d
        PROVE  /\ sc2[k] \subseteq 1 .. Len(Kinds[G[k]])
               /\ H[k] > 0 => m2[H[k] - 1] = 0
               /\ \A i \in sc2[k] :
                    Kinds[G[k]][i] = "string" => m2[Cell(G[k], i, F[k])] \in 0 .. H[k] - 1
    <3>1. /\ sc2[k] \subseteq 1 .. Len(Kinds[G[k]])
          /\ H[k] > 0 => m[H[k] - 1] = 0
          /\ \A i \in sc2[k] :
               Kinds[G[k]][i] = "string" => m[Cell(G[k], i, F[k])] \in 0 .. H[k] - 1
      BY <1>1 DEF Owned
    <3>2. /\ \A i \in 1 .. Len(Kinds[G[k]]) : m2[Cell(G[k], i, F[k])] = m[Cell(G[k], i, F[k])]
          /\ H[k] > 0 => m2[H[k] - 1] = m[H[k] - 1]
      BY <1>8
    <3> HIDE DEF Kept
    <3> QED
      BY <3>1, <3>2
  <2>2. ASSUME NEW k \in 1 .. e
        PROVE  /\ sc2[k] \subseteq 1 .. Len(Kinds[G2[k]])
               /\ H2[k] > 0 => m2[H2[k] - 1] = 0
               /\ \A i \in sc2[k] :
                    Kinds[G2[k]][i] = "string" => m2[Cell(G2[k], i, F2[k])] \in 0 .. H2[k] - 1
    <3>1. CASE k = e
      BY <3>1, <1>4
    <3>2. CASE k # e
      <4>1. k \in 1 .. d /\ F2[k] = F[k] /\ G2[k] = G[k] /\ H2[k] = H[k]
        BY <3>2, <1>3, <1>4
      <4> QED
        BY <4>1, <2>1
    <3> QED
      BY <3>1, <3>2
  <2> QED
    BY <2>2 DEF Owned
<1> QED
  BY <1>10, <1>11, <1>12 DEF Stack, F2, G2, H2

\* Restack, for some heap ends.
LEMMA RestackSome ==
  ASSUME NEW d \in Nat \ {0}, NEW m, NEW m2, NEW sc, NEW sc2, NEW F, NEW G, NEW H,
         Stack(m, sc, F, G, H, d),
         NEW h, NEW V, Rises(m, m2, sc, sc2, F, G, H, d, h, V)
  PROVE  \E H2 : Stack(m2, sc2, F, G, H2, d) /\ H2[d] = h
<1>1. Stack(m2, sc2, F, G, [H EXCEPT ![d] = h], d)
  BY Restack
<1>2. H \in [1 .. d -> Int] /\ d \in 1 .. d
  BY DEF Stack, Placed
<1>3. [H EXCEPT ![d] = h][d] = h
  BY <1>2
<1> QED
  BY <1>1, <1>3

-----------------------------------------------------------------------------
(***************************************************************************)
(* The inductive invariant                                                 *)
(***************************************************************************)

\* The code of the last call in progress is executed.
Running(d, F, G) == d > 0 /\ fp = F[d] /\ here = G[d] /\ sp = Bottom(here, fp)

\* What a call has prepared for the function that is about to be entered.
Entering(d, F, G, H) ==
  /\ d = 0 => sp = MemorySize /\ fp = MemorySize /\ ra = 0 /\ here = Main
  /\ d > 0 => /\ fp = F[d] /\ ra \in DOMAIN Sites
              /\ Sites[ra].caller = G[d] /\ Sites[ra].callee = here
              /\ sp = Bottom(G[d], F[d]) - RequiredSize(here)
              /\ mem[sp + RequiredSize(here) - 1] = gp /\ H[d] = gp
  /\ gp > 0 => mem[gp - 1] = 0
  /\ \A i \in 1 .. Params[here] : Kinds[here][i] = "string" =>
       IF i <= InRegisters(here) THEN args[i] \in 0 .. gp - 1
       ELSE mem[Cell(here, i, sp - 2)] \in 0 .. gp - 1

\* What a return leaves to the code after the call: all that the callee appended to the
\* heap is still there.
Returning(d, F, G, H) ==
  /\ d > 0 /\ fp = F[d] /\ here = G[d] /\ ra \in DOMAIN Sites /\ Sites[ra].caller = here
  /\ sp = Bottom(here, fp) - RequiredSize(Sites[ra].callee)
  /\ mem[sp + RequiredSize(Sites[ra].callee) - 1] = H[d] /\ H[d] <= gp
  /\ Returns[Sites[ra].callee] = "string" => v0 \in 0 .. gp - 1 /\ mem[gp - 1] = 0

\* Steps of a copy.
CopySteps == {"first", "join", "second", "set", "place", "finish", "receive", "received"}

\* How far a copy has come. A returned string is moved down, from where it ends with
\* a 0 that the copy has not reached.
Copied ==
  /\ doing.step \in {"first", "second", "set"} => v1 \in 0 .. doing.at - 1
  /\ doing.step \in {"first", "join"} => doing.x \in 0 .. doing.at - 1
  /\ doing.step \in {"join", "place", "finish", "received"} => doing.at < gp
  /\ doing.step \in {"place", "finish", "received"} => mem[gp - 1] = 0
  /\ doing.step \in {"set", "place"} => doing.x \in Nat
  /\ doing.step = "set" =>
       \A c \in 0 .. doing.at - 1 :
         v1 <= c /\ c <= v1 - (gp - doing.at) + doing.x => mem[c] # 0
  /\ doing.step = "place" => doing.at + doing.x < gp - 1
  /\ doing.step = "receive" =>
       \/ v1 \in 0 .. doing.at - 1
       \/ gp <= v1 /\ \E q \in v1 .. sp - 1 : mem[q] = 0
  /\ doing.step \in {"receive", "received"} => v0 = doing.at

\* A string is being copied to the end of the heap, for the function that runs.
Copying(d, F, G, H) ==
  /\ Running(d, F, G) /\ H[d] = doing.at /\ doing.at <= gp
  /\ doing.dest \in 1 .. Len(Kinds[here])
  /\ Copied

\* What the step that comes next finds, besides the frames.
Position(d, F, G, H) ==
  /\ doing.step = "enter" => Entering(d, F, G, H)
  /\ doing.step = "body" => Running(d, F, G) /\ H[d] = gp
  /\ doing.step \in CopySteps => Copying(d, F, G, H)
  /\ doing.step = "returned" => Returning(d, F, G, H)
  /\ doing.step = "stopped" => d = 0

\* The frames on the stack, as the step requires.
At(d, F, G, H) == d = Depth /\ Stack(mem, scope, F, G, H, d) /\ Position(d, F, G, H)

\* The inductive invariant: some frames lie on the stack, as the step requires.
IInv ==
  /\ TypeOK
  /\ \E d, F, G, H : d = Depth /\ Stack(mem, scope, F, G, H, d) /\ Position(d, F, G, H)

\* A write changes the cells it names, inside the memory.
LEMMA WriteFacts ==
  ASSUME mem \in Memories, NEW cells, Write(cells),
         \A c \in DOMAIN cells : c \in 0 .. MemorySize - 1 => cells[c] \in Int
  PROVE  /\ mem' \in Memories
         /\ \A c \in 0 .. MemorySize - 1 : c \notin DOMAIN cells => mem'[c] = mem[c]
         /\ \A c \in 0 .. MemorySize - 1 : c \in DOMAIN cells => mem'[c] = cells[c]
<1>1. DOMAIN mem = 0 .. MemorySize - 1 /\ \A c \in 0 .. MemorySize - 1 : mem[c] \in Int
  BY DEF Memories
<1>2. mem' = [c \in 0 .. MemorySize - 1 |-> IF c \in DOMAIN cells THEN cells[c] ELSE mem[c]]
  BY <1>1 DEF Write
<1>3. \A c \in 0 .. MemorySize - 1 :
        mem'[c] = (IF c \in DOMAIN cells THEN cells[c] ELSE mem[c]) /\ mem'[c] \in Int
  BY <1>1, <1>2
<1>4. mem' \in Memories
  BY <1>2, <1>3 DEF Memories
<1> QED
  BY <1>3, <1>4

\* main is called with nothing on the stack but the global pointer's place.
LEMMA MainFacts ==
  Main \in Functions /\ Params[Main] = 0 /\ InRegisters(Main) = 0 /\ RequiredSize(Main) = 1
<1>1. Main \in Functions /\ Params[Main] = 0
  BY FunctionsAssumption
<1> QED
  BY <1>1, FunctionFacts

\* The string constants fit in the memory.
LEMMA BaseFacts == Base \in Nat /\ MemorySize \in Nat /\ Base <= MemorySize
                   /\ ParamRegisters \in Nat
  BY MemoryAssumption DEF Base

\* At the start the memory holds the string constants.
LEMMA InitMemory ==
  InitialMemory \in Memories /\ (Base > 0 => InitialMemory[Base - 1] = 0)
<1> DEFINE m == InitialMemory
<1>1. Data \in Seq(Int) /\ Base = Len(Data) /\ (Data # <<>> => Data[Len(Data)] = 0)
  BY MemoryAssumption DEF Base
<1>2. ASSUME NEW c \in 0 .. MemorySize - 1
      PROVE  (IF c < Base THEN Data[c + 1] ELSE 0) \in Int
  <2>1. c < Base => c + 1 \in 1 .. Len(Data)
    BY <1>1, BaseFacts
  <2>2. \A n \in 1 .. Len(Data) : Data[n] \in Int
    BY <1>1
  <2> QED
    BY <2>1, <2>2
<1>3. m \in Memories
  BY <1>2 DEF Memories, InitialMemory
<1>4. ASSUME Base > 0
      PROVE  m[Base - 1] = 0
  <2>1. Base - 1 \in 0 .. MemorySize - 1 /\ Base - 1 < Base /\ Base - 1 + 1 = Len(Data)
    BY <1>1, <1>4, BaseFacts
  <2>2. Data # <<>>
    BY <1>1, <1>4
  <2> QED
    BY <1>1, <2>1, <2>2 DEF InitialMemory
<1> QED
  BY <1>3, <1>4

\* The program starts before the entry code of main, with no frame.
LEMMA InitHolds == Init => IInv
<1> SUFFICES ASSUME Init
             PROVE  IInv
  OBVIOUS
<1> USE BaseFacts
<1>1. mem \in Memories /\ (Base > 0 => mem[Base - 1] = 0)
  BY InitMemory DEF Init
<1>2. doing.step = "enter" /\ doing \in [step : {"enter"}, dest : {0}, at : {0}, x : {0}, c : {0}]
  BY DEF Init, Idle
<1>3. TypeOK
  BY <1>1, <1>2, MainFacts DEF Init, TypeOK, Memories
<1>4. Depth = 0
  BY DEF Init, Depth
<1> DEFINE E == [k \in 1 .. 0 |-> 0]
<1>5. Stack(mem, scope, E, E, E, 0)
  <2>1. Placed(E, E, E, 0)
    BY DEF Placed
  <2>2. Linked(mem, E, E, E, 0) /\ Owned(mem, scope, E, E, E, 0)
    BY DEF Linked, Owned
  <2> QED
    BY <2>1, <2>2 DEF Stack
<1>6. Position(0, E, E, E)
  <2>1. Entering(0, E, E, E)
    BY <1>1, MainFacts DEF Init, Entering
  <2> QED
    BY <1>2, <2>1 DEF Position, CopySteps
<1> HIDE DEF E
<1> QED
  BY <1>3, <1>4, <1>5, <1>6 DEF IInv

-----------------------------------------------------------------------------
(***************************************************************************)
(* Statements that assign a variable                                       *)
(***************************************************************************)

\* What is known of the function that runs, its variables and the heap.
LEMMA RunningFacts ==
  ASSUME TypeOK, NEW d, NEW F, NEW G, NEW H, d = Depth, Stack(mem, scope, F, G, H, d),
         d > 0, fp = F[d], here = G[d]
  PROVE  /\ d \in Nat \ {0} /\ d \in 1 .. d /\ d = Len(scope) /\ scope \in Seq(SUBSET Nat)
         /\ here \in Functions /\ fp \in Int /\ H[d] \in Int /\ mem \in Memories
         /\ Base <= H[d] /\ H[d] <= Bottom(here, fp)
         /\ Bottom(here, fp) \in Int /\ Bottom(here, fp) <= fp /\ fp < MemorySize
         /\ DOMAIN Kinds[here] = 1 .. Len(Kinds[here]) /\ Here \subseteq 1 .. Len(Kinds[here])
         /\ H[d] > 0 => mem[H[d] - 1] = 0
         /\ \A i \in 1 .. Len(Kinds[here]) :
              /\ Cell(here, i, fp) \in 0 .. MemorySize - 1 /\ Bottom(here, fp) <= Cell(here, i, fp)
              /\ Var(i) \in Int
         /\ \A i \in Here : Kinds[here][i] = "string" => Var(i) \in 0 .. H[d] - 1
<1>1. scope \in Seq(SUBSET Nat) /\ d = Len(scope) /\ mem \in Memories
  BY DEF TypeOK, Depth, Memories
<1>2. d \in Nat \ {0} /\ d \in 1 .. d
  BY <1>1
<1>3. Placed(F, G, H, d) /\ Owned(mem, scope, F, G, H, d)
  BY DEF Stack
<1>4. /\ here \in Functions /\ fp \in Int /\ H[d] \in Int
      /\ Base <= H[d] /\ H[d] <= Bottom(here, fp)
      /\ Bottom(here, fp) \in Int /\ Bottom(here, fp) <= fp
      /\ fp \in 0 .. MemorySize - 1 /\ MemorySize \in Nat
      /\ \A i \in 1 .. Len(Kinds[here]) : Cell(here, i, fp) \in 0 .. MemorySize - 1
  BY <1>2, <1>3, PlacedFacts
<1>5. DOMAIN Kinds[here] = 1 .. Len(Kinds[here])
  BY <1>4, FunctionFacts
<1>6. /\ Here \subseteq 1 .. Len(Kinds[here])
      /\ H[d] > 0 => mem[H[d] - 1] = 0
      /\ \A i \in Here : Kinds[here][i] = "string" => Var(i) \in 0 .. H[d] - 1
  BY <1>1, <1>2, <1>3 DEF Owned, Here, Var
<1>7. ASSUME NEW i \in 1 .. Len(Kinds[here])
      PROVE  Bottom(here, fp) <= Cell(here, i, fp) /\ Var(i) \in Int
  <2>1. Bottom(here, fp) <= Cell(here, i, fp)
    BY <1>4, CellPlace
  <2>2. Var(i) \in Int
    BY <1>1, <1>4 DEF Var, Memories
  <2> QED
    BY <2>1, <2>2
<1>8. fp < MemorySize
  BY <1>4
<1> QED
  BY <1>1, <1>2, <1>4, <1>5, <1>6, <1>7, <1>8

\* What assigns a variable writes its cell and appends to the heap.
LEMMA Assign ==
  ASSUME TypeOK, NEW d, NEW F, NEW G, NEW H, d = Depth, Stack(mem, scope, F, G, H, d),
         Running(d, F, G), NEW i \in 1 .. Len(Kinds[here]),
         mem' \in Memories, Assigned(i), UNCHANGED <<sp, fp, here>>,
         gp' \in Int, H[d] <= gp', gp' <= sp, gp' # H[d] => mem'[gp' - 1] = 0,
         \A c \in 0 .. MemorySize - 1 :
           c < H[d] \/ (c >= sp /\ c # Cell(here, i, fp)) => mem'[c] = mem[c],
         Kinds[here][i] = "string" => mem'[Cell(here, i, fp)] \in 0 .. gp' - 1,
         doing'.step = "body"
  PROVE  /\ scope' \in Seq(SUBSET Nat)
         /\ \E e, F2, G2, H2 : /\ e = Depth' /\ Stack(mem', scope', F2, G2, H2, e)
                               /\ Position(e, F2, G2, H2)'
<1>1. d > 0 /\ fp = F[d] /\ here = G[d] /\ sp = Bottom(here, fp)
  BY DEF Running
<1>2. /\ d \in Nat \ {0} /\ d = Len(scope) /\ scope \in Seq(SUBSET Nat) /\ d \in 1 .. d
      /\ H[d] \in Int
  BY <1>1, RunningFacts
<1>3. /\ scope' = [scope EXCEPT ![d] = @ \cup {i}] /\ i \in Nat
      /\ DOMAIN scope = 1 .. d
  BY <1>2 DEF Assigned
<1>4. /\ scope' \in Seq(SUBSET Nat) /\ Len(scope') = d /\ scope'[d] = scope[d] \cup {i}
      /\ \A k \in 1 .. d - 1 : scope'[k] = scope[k]
  <2>1. scope[d] \cup {i} \in SUBSET Nat
    BY <1>2, <1>3
  <2>2. scope' \in Seq(SUBSET Nat) /\ Len(scope') = d
    BY <1>2, <1>3, <2>1, ExceptSeq
  <2>3. scope'[d] = scope[d] \cup {i} /\ \A k \in 1 .. d - 1 : scope'[k] = scope[k]
    BY <1>2, <1>3
  <2> QED
    BY <2>2, <2>3
<1> DEFINE V == {i}
<1>5. V \in SUBSET (1 .. Len(Kinds[G[d]])) /\ scope'[d] \subseteq scope[d] \cup V
  BY <1>1, <1>4
<1>6. \A c \in 0 .. MemorySize - 1 :
        \/ c < H[d]
        \/ c >= Bottom(G[d], F[d]) /\ \A j \in V : c # Cell(G[d], j, F[d])
        => mem'[c] = mem[c]
  BY <1>1
<1>7. \A j \in V : Kinds[G[d]][j] = "string" => mem'[Cell(G[d], j, F[d])] \in 0 .. gp' - 1
  BY <1>1
<1>8. gp' <= Bottom(G[d], F[d])
  BY <1>1
<1> HIDE DEF V
<1>9. PICK H2 : Stack(mem', scope', F, G, H2, d) /\ H2[d] = gp'
  <2>1. Rises(mem, mem', scope, scope', F, G, H, d, gp', V)
    BY <1>4, <1>5, <1>6, <1>7, <1>8 DEF Rises
  <2> QED
    BY <1>2, <2>1, RestackSome
<1>10. Position(d, F, G, H2)'
  <2>1. Running(d, F, G)'
    BY <1>1 DEF Running
  <2> QED
    BY <2>1, <1>9 DEF Position, CopySteps
<1>11. d = Depth'
  BY <1>4 DEF Depth
<1> QED
  BY <1>4, <1>9, <1>10, <1>11

\* In the body, the calls in progress are on the stack and the last one is executed.
LEMMA BodyFacts ==
  ASSUME IInv, InBody
  PROVE  /\ TypeOK /\ doing.step = "body"
         /\ \E d, F, G, H : /\ d = Depth /\ Stack(mem, scope, F, G, H, d)
                            /\ Running(d, F, G) /\ H[d] = gp
                            /\ d > 0 /\ fp = F[d] /\ here = G[d] /\ sp = Bottom(here, fp)
<1>1. TypeOK /\ doing.step = "body"
  BY DEF IInv, InBody
<1>2. PICK d, F, G, H : d = Depth /\ Stack(mem, scope, F, G, H, d) /\ Position(d, F, G, H)
  BY DEF IInv
<1>3. Running(d, F, G) /\ H[d] = gp
  BY <1>1, <1>2 DEF Position
<1>4. d > 0 /\ fp = F[d] /\ here = G[d] /\ sp = Bottom(here, fp)
  BY <1>3 DEF Running
<1> QED
  BY <1>1, <1>2, <1>3, <1>4

\* A number or a string constant is assigned to a variable.
LEMMA SetCellStep ==
  ASSUME IInv, NEW i \in DOMAIN Kinds[here], NEW v \in Int,
         Kinds[here][i] = "string" => v \in 0 .. Base - 1, SetCell(i, v)
  PROVE  IInv'
<1>1. InBody /\ Write([c \in {Cell(here, i, fp)} |-> v]) /\ Assigned(i)
      /\ UNCHANGED <<sp, fp, ra, gp, v0, v1, args, here, doing>> /\ saved' \in [SavedRegisters -> Int]
  BY DEF SetCell, AnyRegisters
<1>2. TypeOK /\ doing.step = "body"
  BY <1>1, BodyFacts
<1>3. PICK d, F, G, H : /\ d = Depth /\ Stack(mem, scope, F, G, H, d)
                        /\ Running(d, F, G) /\ H[d] = gp
                        /\ d > 0 /\ fp = F[d] /\ here = G[d] /\ sp = Bottom(here, fp)
  BY <1>1, BodyFacts
<1>4. /\ mem \in Memories /\ i \in 1 .. Len(Kinds[here]) /\ H[d] \in Int /\ Base <= H[d]
      /\ Cell(here, i, fp) \in 0 .. MemorySize - 1 /\ Bottom(here, fp) <= Cell(here, i, fp)
      /\ Bottom(here, fp) \in Int /\ H[d] <= Bottom(here, fp)
  BY <1>2, <1>3, RunningFacts
<1> DEFINE cells == [c \in {Cell(here, i, fp)} |-> v]
<1>5. /\ mem' \in Memories
      /\ \A c \in 0 .. MemorySize - 1 : c # Cell(here, i, fp) => mem'[c] = mem[c]
      /\ mem'[Cell(here, i, fp)] = v
  <2>1. DOMAIN cells = {Cell(here, i, fp)} /\ cells[Cell(here, i, fp)] = v
    OBVIOUS
  <2>2. Write(cells) /\ \A c \in DOMAIN cells : cells[c] \in Int
    BY <1>1, <2>1
  <2> HIDE DEF cells
  <2> QED
    BY <1>4, <2>1, <2>2, WriteFacts
<1>6. \A c \in 0 .. MemorySize - 1 :
        c < H[d] \/ (c >= sp /\ c # Cell(here, i, fp)) => mem'[c] = mem[c]
  BY <1>3, <1>4, <1>5
<1>7. Kinds[here][i] = "string" => mem'[Cell(here, i, fp)] \in 0 .. gp' - 1
  <2>1. Kinds[here][i] = "string" => v \in 0 .. gp - 1
    BY <1>3, <1>4, BaseFacts
  <2> QED
    BY <1>1, <1>5, <2>1
<1>8. /\ scope' \in Seq(SUBSET Nat)
      /\ \E e, F2, G2, H2 : /\ e = Depth' /\ Stack(mem', scope', F2, G2, H2, e)
                            /\ Position(e, F2, G2, H2)'
  <2>1. gp' \in Int /\ H[d] <= gp' /\ gp' <= sp /\ gp' = H[d] /\ doing'.step = "body"
    BY <1>1, <1>2, <1>3, <1>4
  <2> QED
    BY <1>1, <1>2, <1>3, <1>4, <1>5, <1>6, <1>7, <2>1, Assign
<1>9. TypeOK'
  BY <1>1, <1>2, <1>5, <1>8, SMTT(30) DEF TypeOK, Memories
<1> QED
  BY <1>8, <1>9 DEF IInv

\* A string of one character is put at the end of the heap.
LEMMA CastStep ==
  ASSUME IInv, NEW i \in DOMAIN Kinds[here], NEW x \in Int, Cast(i, x)
  PROVE  IInv'
<1> DEFINE cells == [a \in {gp, gp + 1, Cell(here, i, fp)} |->
                       IF a = gp THEN x ELSE IF a = gp + 1 THEN 0 ELSE gp]
<1>1. InBody /\ gp + 2 <= sp /\ Write(cells) /\ gp' = gp + 2 /\ Assigned(i)
      /\ UNCHANGED <<sp, fp, ra, v0, v1, args, here, doing>> /\ saved' \in [SavedRegisters -> Int]
  BY DEF Cast, AnyRegisters
<1>2. TypeOK /\ doing.step = "body" /\ gp \in Int /\ sp \in Int
  BY <1>1, BodyFacts DEF TypeOK
<1>3. PICK d, F, G, H : /\ d = Depth /\ Stack(mem, scope, F, G, H, d)
                        /\ Running(d, F, G) /\ H[d] = gp
                        /\ d > 0 /\ fp = F[d] /\ here = G[d] /\ sp = Bottom(here, fp)
  BY <1>1, BodyFacts
<1>4. /\ mem \in Memories /\ i \in 1 .. Len(Kinds[here]) /\ H[d] \in Int /\ Base <= H[d]
      /\ Cell(here, i, fp) \in 0 .. MemorySize - 1 /\ sp <= Cell(here, i, fp)
      /\ fp \in Int /\ sp <= fp /\ fp < MemorySize
  BY <1>2, <1>3, RunningFacts
<1>5. /\ DOMAIN cells = {gp, gp + 1, Cell(here, i, fp)}
      /\ cells[gp] = x /\ cells[gp + 1] = 0 /\ cells[Cell(here, i, fp)] = gp
  BY <1>1, <1>2, <1>4
<1>6. \A a \in DOMAIN cells : cells[a] \in Int
  BY <1>2
<1> HIDE DEF cells
<1>7. gp + 1 \in 0 .. MemorySize - 1
  BY <1>1, <1>2, <1>3, <1>4, BaseFacts
<1>8. /\ mem' \in Memories
      /\ \A c \in 0 .. MemorySize - 1 : c \notin DOMAIN cells => mem'[c] = mem[c]
      /\ mem'[gp + 1] = 0 /\ mem'[Cell(here, i, fp)] = gp
  BY <1>1, <1>4, <1>5, <1>6, <1>7, WriteFacts
<1>9. \A c \in 0 .. MemorySize - 1 :
        c < H[d] \/ (c >= sp /\ c # Cell(here, i, fp)) => mem'[c] = mem[c]
  BY <1>1, <1>2, <1>3, <1>4, <1>5, <1>8
<1>10. /\ gp' \in Int /\ H[d] <= gp' /\ gp' <= sp /\ mem'[gp' - 1] = 0
       /\ mem'[Cell(here, i, fp)] \in 0 .. gp' - 1 /\ doing'.step = "body" /\ Base <= gp'
  <2>1. gp' - 1 = gp + 1 /\ 0 <= gp /\ gp <= gp' - 1
    BY <1>1, <1>2, <1>3, <1>4, BaseFacts
  <2> QED
    BY <1>1, <1>2, <1>3, <1>4, <1>8, <2>1, BaseFacts
<1>11. /\ scope' \in Seq(SUBSET Nat)
       /\ \E e, F2, G2, H2 : /\ e = Depth' /\ Stack(mem', scope', F2, G2, H2, e)
                             /\ Position(e, F2, G2, H2)'
  BY <1>1, <1>2, <1>3, <1>4, <1>8, <1>9, <1>10, Assign
<1>12. TypeOK'
  BY <1>1, <1>2, <1>8, <1>10, <1>11 DEF TypeOK, Memories
<1> QED
  BY <1>11, <1>12 DEF IInv

\* A line of input is put at the end of the heap.
LEMMA ReadStringStep ==
  ASSUME IInv, NEW i \in DOMAIN Kinds[here], NEW line \in Seq(Int), ReadString(i, line)
  PROVE  IInv'
<1> DEFINE n == Len(line)
           cells == [a \in (gp .. gp + n) \cup {Cell(here, i, fp)} |->
                       IF a < gp + n THEN line[a - gp + 1] ELSE IF a = gp + n THEN 0 ELSE gp]
<1>1. InBody /\ gp + n + 1 <= sp /\ Write(cells) /\ gp' = gp + n + 1 /\ Assigned(i)
      /\ args' = [args EXCEPT ![1] = n]
      /\ UNCHANGED <<sp, fp, ra, v0, v1, here, doing>> /\ saved' \in [SavedRegisters -> Int]
  BY DEF ReadString, AnyRegisters
<1>2. TypeOK /\ doing.step = "body" /\ gp \in Int /\ sp \in Int
  BY <1>1, BodyFacts DEF TypeOK
<1>3. PICK d, F, G, H : /\ d = Depth /\ Stack(mem, scope, F, G, H, d)
                        /\ Running(d, F, G) /\ H[d] = gp
                        /\ d > 0 /\ fp = F[d] /\ here = G[d] /\ sp = Bottom(here, fp)
  BY <1>1, BodyFacts
<1>4. /\ mem \in Memories /\ i \in 1 .. Len(Kinds[here]) /\ H[d] \in Int /\ Base <= H[d]
      /\ Cell(here, i, fp) \in 0 .. MemorySize - 1 /\ sp <= Cell(here, i, fp)
      /\ fp \in Int /\ sp <= fp /\ fp < MemorySize
  BY <1>2, <1>3, RunningFacts
<1>5. n \in Nat /\ \A a \in 1 .. n : line[a] \in Int
  OBVIOUS
<1>6. /\ DOMAIN cells = (gp .. gp + n) \cup {Cell(here, i, fp)}
      /\ cells[gp + n] = 0 /\ cells[Cell(here, i, fp)] = gp
  <2>1. gp + n \in gp .. gp + n /\ ~ (gp + n < gp + n)
    BY <1>2, <1>5
  <2>2. Cell(here, i, fp) > gp + n
    BY <1>1, <1>2, <1>4, <1>5
  <2> HIDE DEF n
  <2> QED
    BY <2>1, <2>2, <1>2, <1>4, <1>5
<1>7. \A a \in DOMAIN cells : cells[a] \in Int
  <2> HIDE DEF n
  <2> TAKE a \in DOMAIN cells
  <2>1. CASE a < gp + n
    <3>1. a \in gp .. gp + n \/ a = Cell(here, i, fp)
      OBVIOUS
    <3>2. a \in gp .. gp + n
      BY <1>1, <1>2, <1>4, <1>5, <2>1, <3>1
    <3>3. a - gp + 1 \in 1 .. n
      BY <1>2, <1>5, <2>1, <3>2
    <3> QED
      BY <1>5, <2>1, <3>3
  <2>2. CASE ~ (a < gp + n)
    BY <1>2, <2>2
  <2> QED
    BY <2>1, <2>2
<1> HIDE DEF n, cells
<1>8. gp + n \in 0 .. MemorySize - 1
  BY <1>1, <1>2, <1>3, <1>4, <1>5, BaseFacts
<1>9. /\ mem' \in Memories
      /\ \A c \in 0 .. MemorySize - 1 : c \notin DOMAIN cells => mem'[c] = mem[c]
      /\ mem'[gp + n] = 0 /\ mem'[Cell(here, i, fp)] = gp
  <2>1. gp + n \in DOMAIN cells /\ Cell(here, i, fp) \in DOMAIN cells
    BY <1>2, <1>5, <1>6
  <2> QED
    BY <1>1, <1>4, <1>6, <1>7, <1>8, <2>1, WriteFacts
<1>10. \A c \in 0 .. MemorySize - 1 :
         c < H[d] \/ (c >= sp /\ c # Cell(here, i, fp)) => mem'[c] = mem[c]
  BY <1>1, <1>2, <1>3, <1>4, <1>5, <1>6, <1>9
<1>11. /\ gp' \in Int /\ H[d] <= gp' /\ gp' <= sp /\ mem'[gp' - 1] = 0
       /\ mem'[Cell(here, i, fp)] \in 0 .. gp' - 1 /\ doing'.step = "body" /\ Base <= gp'
  <2>1. gp' - 1 = gp + n /\ 0 <= gp /\ gp <= gp' - 1
    BY <1>1, <1>2, <1>3, <1>4, <1>5, BaseFacts, SMTT(30)
  <2> QED
    BY <1>1, <1>2, <1>3, <1>4, <1>5, <1>9, <2>1, BaseFacts
<1>12. /\ scope' \in Seq(SUBSET Nat)
       /\ \E e, F2, G2, H2 : /\ e = Depth' /\ Stack(mem', scope', F2, G2, H2, e)
                             /\ Position(e, F2, G2, H2)'
  BY <1>1, <1>2, <1>3, <1>4, <1>9, <1>10, <1>11, Assign
<1>13. args' \in [1 .. ParamRegisters -> Int]
  <2>1. args \in [1 .. ParamRegisters -> Int] /\ n \in Int
    BY <1>2, <1>5 DEF TypeOK
  <2> QED
    BY <1>1, <2>1
<1>14. TypeOK'
  <2>1. sp' = sp /\ fp' = fp /\ ra' = ra /\ v0' = v0 /\ v1' = v1
        /\ here' = here /\ doing' = doing /\ saved' \in [SavedRegisters -> Int]
    BY <1>1
  <2>2. mem' \in [0 .. MemorySize - 1 -> Int]
    BY <1>9 DEF Memories
  <2> QED
    BY <1>2, <1>11, <1>12, <1>13, <2>1, <2>2 DEF TypeOK
<1> QED
  BY <1>12, <1>14 DEF IInv

\* A line that nobody uses is above the end of the heap.
LEMMA SkipLineStep ==
  ASSUME IInv, NEW line \in Seq(Int), SkipLine(line)
  PROVE  IInv'
<1> DEFINE n == Len(line)
           cells == [a \in gp .. gp + n |-> IF a < gp + n THEN line[a - gp + 1] ELSE 0]
<1>1. InBody /\ gp + n + 1 <= sp /\ Write(cells) /\ v0' = n
      /\ UNCHANGED <<sp, fp, ra, gp, v1, args, saved, here, doing, scope>>
  BY DEF SkipLine
<1>2. TypeOK /\ doing.step = "body" /\ gp \in Int /\ sp \in Int
  BY <1>1, BodyFacts DEF TypeOK
<1>3. PICK d, F, G, H : /\ d = Depth /\ Stack(mem, scope, F, G, H, d)
                        /\ Running(d, F, G) /\ H[d] = gp
                        /\ d > 0 /\ fp = F[d] /\ here = G[d] /\ sp = Bottom(here, fp)
  BY <1>1, BodyFacts
<1>4. mem \in Memories /\ d \in Nat \ {0} /\ gp <= sp
  BY <1>2, <1>3, RunningFacts
<1>5. n \in Nat /\ \A a \in 1 .. n : line[a] \in Int
  OBVIOUS
<1>6. DOMAIN cells = gp .. gp + n
  OBVIOUS
<1>7. \A a \in DOMAIN cells : cells[a] \in Int
  <2> HIDE DEF n
  <2> TAKE a \in DOMAIN cells
  <2>1. a < gp + n => a - gp + 1 \in 1 .. n
    BY <1>2, <1>5
  <2> QED
    BY <1>5, <2>1
<1> HIDE DEF n, cells
<1>8. /\ mem' \in Memories
      /\ \A c \in 0 .. MemorySize - 1 : c \notin DOMAIN cells => mem'[c] = mem[c]
  BY <1>1, <1>4, <1>6, <1>7, WriteFacts
<1>9. PICK H2 : Stack(mem', scope', F, G, H2, d) /\ H2[d] = gp
  <2> DEFINE V == {}
  <2>1. \A c \in 0 .. MemorySize - 1 :
          \/ c < H[d]
          \/ c >= Bottom(G[d], F[d]) /\ \A i \in V : c # Cell(G[d], i, F[d])
          => mem'[c] = mem[c]
    BY <1>1, <1>2, <1>3, <1>5, <1>6, <1>8
  <2>2. Rises(mem, mem', scope, scope', F, G, H, d, gp, V)
    BY <1>1, <1>2, <1>3, <1>4, <2>1 DEF Rises
  <2> HIDE DEF V
  <2> QED
    BY <1>3, <1>4, <2>2, RestackSome
<1>10. Position(d, F, G, H2)'
  <2>1. Running(d, F, G)' /\ H2[d] = gp' /\ doing'.step = "body"
    BY <1>1, <1>2, <1>3, <1>9 DEF Running
  <2> QED
    BY <2>1 DEF Position, CopySteps
<1>11. TypeOK'
  <2>1. mem' \in [0 .. MemorySize - 1 -> Int] /\ v0' \in Int
    BY <1>1, <1>5, <1>8 DEF Memories
  <2> QED
    BY <1>1, <1>2, <2>1 DEF TypeOK
<1>12. d = Depth'
  BY <1>1, <1>3 DEF Depth
<1> QED
  BY <1>9, <1>10, <1>11, <1>12 DEF IInv

-----------------------------------------------------------------------------
(***************************************************************************)
(* Copies                                                                  *)
(***************************************************************************)

\* Only callee-saved registers get values.
LEMMA UseRegistersStep ==
  ASSUME IInv, UseRegisters
  PROVE  IInv'
<1>1. InBody /\ saved' \in [SavedRegisters -> Int]
      /\ UNCHANGED <<mem, sp, fp, ra, gp, v0, v1, args, here, doing, scope>>
  BY DEF UseRegisters, AnyRegisters
<1>2. TypeOK /\ doing.step = "body"
  BY <1>1, BodyFacts
<1>3. PICK d, F, G, H : /\ d = Depth /\ Stack(mem, scope, F, G, H, d)
                        /\ Running(d, F, G) /\ H[d] = gp
                        /\ d > 0 /\ fp = F[d] /\ here = G[d] /\ sp = Bottom(here, fp)
  BY <1>1, BodyFacts
<1>4. Stack(mem', scope', F, G, H, d) /\ d = Depth'
  BY <1>1, <1>3 DEF Depth
<1>5. Position(d, F, G, H)'
  <2>1. Running(d, F, G)' /\ H[d] = gp' /\ doing'.step = "body"
    BY <1>1, <1>2, <1>3 DEF Running
  <2> QED
    BY <2>1 DEF Position, CopySteps
<1>6. TypeOK'
  BY <1>1, <1>2 DEF TypeOK
<1> QED
  BY <1>4, <1>5, <1>6 DEF IInv

\* What a copy works on is where Copied says: nothing else has changed.
LEMMA StartCopyStep ==
  ASSUME IInv, InBody, NEW step \in {"first", "set"}, NEW dest \in DOMAIN Kinds[here],
         NEW from, NEW x, NEW c \in Int, StartCopy(step, dest, from, x, c),
         from \in 0 .. gp - 1,
         step = "first" => x \in 0 .. gp - 1,
         step = "set" => /\ x \in Nat
                         /\ \A a \in 0 .. gp - 1 : from <= a /\ a <= from + x => mem[a] # 0
  PROVE  IInv'
<1>1. /\ v1' = from /\ v0' = gp /\ ra' = Clobbered
      /\ doing' = [step |-> step, dest |-> dest, at |-> gp, x |-> x, c |-> c]
      /\ UNCHANGED <<mem, sp, fp, gp, args, saved, here, scope>>
  BY DEF StartCopy, State
<1>2. TypeOK /\ doing.step = "body" /\ gp \in Int
  BY BodyFacts DEF TypeOK
<1>3. PICK d, F, G, H : /\ d = Depth /\ Stack(mem, scope, F, G, H, d)
                        /\ Running(d, F, G) /\ H[d] = gp
                        /\ d > 0 /\ fp = F[d] /\ here = G[d] /\ sp = Bottom(here, fp)
  BY BodyFacts
<1>4. DOMAIN Kinds[here] = 1 .. Len(Kinds[here]) /\ Len(Kinds[here]) \in Nat
  BY <1>2, FunctionFacts DEF TypeOK
<1>5. Stack(mem', scope', F, G, H, d) /\ d = Depth'
  BY <1>1, <1>3 DEF Depth
<1>6. /\ doing'.step = step /\ doing'.dest = dest /\ doing'.at = gp /\ doing'.x = x
      /\ gp' = gp
  BY <1>1
<1>7. x \in Int /\ from \in Int
  BY <1>2
<1>8. Copied'
  <2>1. CASE step = "first"
    BY <1>1, <1>6, <2>1 DEF Copied
  <2>2. CASE step = "set"
    <3>1. v1' - (gp' - doing'.at) + doing'.x = from + x
      BY <1>1, <1>2, <1>6, <1>7
    <3> QED
      BY <1>1, <1>6, <2>2, <3>1 DEF Copied
  <2> QED
    BY <2>1, <2>2
<1>9. Position(d, F, G, H)'
  <2>1. Copying(d, F, G, H)'
    BY <1>1, <1>2, <1>3, <1>4, <1>6, <1>8 DEF Copying, Running
  <2>2. doing'.step \in CopySteps
    BY <1>6 DEF CopySteps
  <2> QED
    BY <1>6, <2>1, <2>2 DEF Position
<1>10. TypeOK'
  <2>1. Clobbered \in Int
    <3>1. Len(Sites) \in Nat
      BY SitesAssumption
    <3> QED
      BY <3>1 DEF Clobbered
  <2>2. doing' \in [step : {"enter", "body", "first", "join", "second", "set", "place", "finish",
                            "receive", "received", "returned", "stopped"},
                    dest : Nat, at : Int, x : Int, c : Int]
    BY <1>1, <1>2, <1>4, <1>7
  <2> QED
    BY <1>1, <1>2, <1>7, <2>1, <2>2 DEF TypeOK
<1> QED
  BY <1>5, <1>9, <1>10 DEF IInv

\* strcat starts to copy its first string.
LEMMA StrcatStep ==
  ASSUME IInv, NEW i \in DOMAIN Kinds[here], NEW j \in Variables(here, "string"),
         NEW k \in Variables(here, "string"), Strcat(i, j, k)
  PROVE  IInv'
<1>1. InBody /\ j \in Here /\ k \in Here /\ StartCopy("first", i, Var(j), Var(k), 0)
  BY DEF Strcat
<1>2. PICK d, F, G, H : /\ d = Depth /\ Stack(mem, scope, F, G, H, d)
                        /\ Running(d, F, G) /\ H[d] = gp
                        /\ d > 0 /\ fp = F[d] /\ here = G[d] /\ sp = Bottom(here, fp)
  BY <1>1, BodyFacts
<1>3. Var(j) \in 0 .. gp - 1 /\ Var(k) \in 0 .. gp - 1
  <2>1. TypeOK /\ Kinds[here][j] = "string" /\ Kinds[here][k] = "string"
    BY <1>1, BodyFacts DEF Variables
  <2> QED
    BY <1>1, <1>2, <2>1, RunningFacts
<1> QED
  BY <1>1, <1>3, StartCopyStep

\* set_at starts to copy the string that it will change.
LEMMA SetAtStep ==
  ASSUME IInv, NEW i \in DOMAIN Kinds[here], NEW j \in Variables(here, "string"),
         NEW c \in Chars, SetAt(i, j, c)
  PROVE  IInv'
<1>1. PICK n \in 0 .. Len(StringAt(mem, Var(j))) - 1 : StartCopy("set", i, Var(j), n, c)
  BY DEF SetAt
<1>2. InBody /\ j \in Here /\ c \in Int
  BY MemoryAssumption DEF SetAt
<1>3. PICK d, F, G, H : /\ d = Depth /\ Stack(mem, scope, F, G, H, d)
                        /\ Running(d, F, G) /\ H[d] = gp
                        /\ d > 0 /\ fp = F[d] /\ here = G[d] /\ sp = Bottom(here, fp)
  BY <1>2, BodyFacts
<1>4. TypeOK /\ Kinds[here][j] = "string" /\ gp \in Int
  BY <1>2, BodyFacts DEF Variables, TypeOK
<1>5. /\ Var(j) \in 0 .. gp - 1
      /\ gp > 0 => mem[gp - 1] = 0
      /\ mem \in Memories /\ gp <= fp /\ fp < MemorySize /\ fp \in Int
  <2>1. Here \subseteq 1 .. Len(Kinds[here]) /\ gp <= Bottom(here, fp) /\ Bottom(here, fp) <= fp
        /\ Bottom(here, fp) \in Int /\ fp \in Int /\ fp < MemorySize
    BY <1>3, <1>4, RunningFacts
  <2>2. Var(j) \in 0 .. gp - 1 /\ (gp > 0 => mem[gp - 1] = 0) /\ mem \in Memories
    BY <1>2, <1>3, <1>4, RunningFacts
  <2>3. gp <= fp
    BY <1>4, <2>1
  <2> QED
    BY <2>1, <2>2, <2>3
<1> DEFINE p == Var(j)
           l == Len(StringAt(mem, p))
<1>6. l \in Nat /\ p + l <= gp - 1 /\ \A k \in 0 .. l - 1 : mem[p + k] # 0
  <2>1. p \in Nat /\ gp - 1 \in Nat /\ p <= gp - 1 /\ gp - 1 < MemorySize /\ mem[gp - 1] = 0
    BY <1>4, <1>5, BaseFacts
  <2> HIDE DEF p
  <2> QED
    BY <1>5, <2>1, StringFacts
<1>7. n \in 0 .. l - 1 /\ p \in 0 .. gp - 1
  BY <1>5
<1> HIDE DEF p, l
<1>8. ASSUME NEW a \in 0 .. gp - 1, p <= a, a <= p + n
      PROVE  mem[a] # 0
  <2>1. a - p \in 0 .. l - 1 /\ p + (a - p) = a
    BY <1>4, <1>6, <1>7, <1>8
  <2>2. mem[p + (a - p)] # 0
    BY <1>6, <2>1
  <2> QED
    BY <2>1, <2>2
<1>9. StartCopy("set", i, p, n, c) /\ n \in Nat
  BY <1>1, <1>6, <1>7 DEF p
<1> QED
  BY <1>2, <1>7, <1>8, <1>9, StartCopyStep

\* While a string is copied, its source is below the copy, or above and still complete.
LEMMA CopyingFacts ==
  ASSUME IInv, doing.step \in CopySteps
  PROVE  /\ TypeOK
         /\ doing \in [step : {"enter", "body", "first", "join", "second", "set", "place",
                               "finish", "receive", "received", "returned", "stopped"},
                       dest : Nat, at : Int, x : Int, c : Int]
         /\ doing.at \in Int /\ doing.x \in Int /\ doing.c \in Int /\ gp \in Int /\ sp \in Int
         /\ Base <= doing.at /\ doing.at <= gp /\ gp <= sp /\ sp < MemorySize
         /\ doing.dest \in 1 .. Len(Kinds[here]) /\ mem \in Memories
         /\ doing.at > 0 => mem[doing.at - 1] = 0
         /\ Copied
         /\ \E d, F, G, H : /\ d = Depth /\ Stack(mem, scope, F, G, H, d)
                            /\ Running(d, F, G) /\ H[d] = doing.at
                            /\ d > 0 /\ fp = F[d] /\ here = G[d] /\ sp = Bottom(here, fp)
<1>1. TypeOK
  BY DEF IInv
<1>2. /\ doing \in [step : {"enter", "body", "first", "join", "second", "set", "place",
                            "finish", "receive", "received", "returned", "stopped"},
                    dest : Nat, at : Int, x : Int, c : Int]
      /\ gp \in Int /\ sp \in Int /\ gp <= sp
  BY <1>1 DEF TypeOK
<1>3. PICK d, F, G, H : d = Depth /\ Stack(mem, scope, F, G, H, d) /\ Position(d, F, G, H)
  BY DEF IInv
<1>4. Copying(d, F, G, H)
  BY <1>3 DEF Position
<1>5. /\ Running(d, F, G) /\ H[d] = doing.at /\ doing.at <= gp
      /\ doing.dest \in 1 .. Len(Kinds[here]) /\ Copied
  BY <1>4 DEF Copying
<1>6. d > 0 /\ fp = F[d] /\ here = G[d] /\ sp = Bottom(here, fp)
  BY <1>5 DEF Running
<1>7. /\ Base <= H[d] /\ mem \in Memories
      /\ Bottom(here, fp) \in Int /\ Bottom(here, fp) <= fp /\ fp < MemorySize /\ fp \in Int
  BY <1>1, <1>3, <1>6, RunningFacts
<1>8. H[d] > 0 => mem[H[d] - 1] = 0
  BY <1>1, <1>3, <1>6, RunningFacts
<1>9. sp < MemorySize
  BY <1>6, <1>7, BaseFacts
<1> QED
  BY <1>1, <1>2, <1>3, <1>5, <1>6, <1>7, <1>8, <1>9

\* The second string of strcat starts where the first one ended.
LEMMA JoinStep ==
  ASSUME IInv, Join
  PROVE  IInv'
<1>1. /\ doing.step = "join" /\ gp' = gp - 1 /\ v0' = gp - 1 /\ v1' = doing.x /\ ra' = Clobbered
      /\ doing' = [doing EXCEPT !.step = "second"]
      /\ UNCHANGED <<mem, sp, fp, args, saved, here, scope>>
  BY DEF Join
<1>2. doing.step \in CopySteps
  BY <1>1 DEF CopySteps
<1>3. /\ TypeOK
      /\ doing \in [step : {"enter", "body", "first", "join", "second", "set", "place",
                            "finish", "receive", "received", "returned", "stopped"},
                    dest : Nat, at : Int, x : Int, c : Int]
      /\ doing.at \in Int /\ doing.x \in Int /\ gp \in Int /\ sp \in Int
      /\ Base <= doing.at /\ doing.at <= gp /\ gp <= sp
      /\ doing.dest \in 1 .. Len(Kinds[here]) /\ Copied
  BY <1>2, CopyingFacts
<1>4. PICK d, F, G, H : /\ d = Depth /\ Stack(mem, scope, F, G, H, d)
                        /\ Running(d, F, G) /\ H[d] = doing.at
                        /\ d > 0 /\ fp = F[d] /\ here = G[d] /\ sp = Bottom(here, fp)
  BY <1>2, CopyingFacts
<1>5. doing.at < gp /\ doing.x \in 0 .. doing.at - 1
  BY <1>1, <1>3 DEF Copied
<1>6. Stack(mem', scope', F, G, H, d) /\ d = Depth'
  BY <1>1, <1>4 DEF Depth
<1>7. /\ doing'.step = "second" /\ doing'.at = doing.at /\ doing'.dest = doing.dest
      /\ doing' \in [step : {"enter", "body", "first", "join", "second", "set", "place",
                             "finish", "receive", "received", "returned", "stopped"},
                     dest : Nat, at : Int, x : Int, c : Int]
  BY <1>1, <1>3
<1>8. Copied'
  BY <1>1, <1>5, <1>7 DEF Copied
<1>9. Position(d, F, G, H)'
  <2>1. Running(d, F, G)'
    BY <1>1, <1>4 DEF Running
  <2>2. doing'.at <= gp'
    BY <1>1, <1>3, <1>5, <1>7
  <2>3. Copying(d, F, G, H)'
    BY <1>1, <1>3, <1>4, <1>7, <1>8, <2>1, <2>2 DEF Copying
  <2>4. doing'.step \in CopySteps
    BY <1>7 DEF CopySteps
  <2> QED
    BY <1>7, <2>3, <2>4 DEF Position
<1>10. TypeOK'
  <2>1. Clobbered \in Int
    <3>1. Len(Sites) \in Nat
      BY SitesAssumption
    <3> QED
      BY <3>1 DEF Clobbered
  <2>2. Base <= gp' /\ gp' <= sp /\ gp' \in Int
    BY <1>1, <1>3, <1>5, BaseFacts
  <2> QED
    BY <1>1, <1>3, <1>7, <2>1, <2>2 DEF TypeOK
<1> QED
  BY <1>6, <1>9, <1>10 DEF IInv

\* The cell that is written is not one of the source, or is the source's own.
LEMMA CopyByteStep ==
  ASSUME IInv, CopyByte
  PROVE  IInv'
<1>1. /\ doing.step \in {"first", "second", "set", "receive"} /\ gp < sp
      /\ Write([c \in {gp} |-> mem[v1]]) /\ gp' = gp + 1 /\ v1' = v1 + 1
      /\ doing' = [doing EXCEPT !.step = IF mem[v1] = 0 THEN Then(@) ELSE @]
      /\ args' = [args EXCEPT ![1] = mem[v1]]
      /\ UNCHANGED <<sp, fp, ra, v0, saved, here, scope>>
  BY DEF CopyByte, Advance
<1>2. doing.step \in CopySteps
  BY <1>1 DEF CopySteps
<1>3. /\ TypeOK
      /\ doing \in [step : {"enter", "body", "first", "join", "second", "set", "place",
                            "finish", "receive", "received", "returned", "stopped"},
                    dest : Nat, at : Int, x : Int, c : Int]
      /\ doing.at \in Int /\ doing.x \in Int /\ gp \in Int /\ sp \in Int
      /\ Base <= doing.at /\ doing.at <= gp /\ gp <= sp /\ sp < MemorySize
      /\ doing.dest \in 1 .. Len(Kinds[here]) /\ mem \in Memories
      /\ Copied
  BY <1>2, CopyingFacts
<1>4. doing.at > 0 => mem[doing.at - 1] = 0
  BY <1>2, CopyingFacts
<1>5. PICK d, F, G, H : /\ d = Depth /\ Stack(mem, scope, F, G, H, d)
                        /\ Running(d, F, G) /\ H[d] = doing.at
                        /\ d > 0 /\ fp = F[d] /\ here = G[d] /\ sp = Bottom(here, fp)
  BY <1>2, CopyingFacts
<1>6. /\ v1 \in 0 .. MemorySize - 1
      /\ \/ v1 \in 0 .. doing.at - 1
         \/ /\ doing.step = "receive" /\ gp <= v1
            /\ \E q \in v1 .. sp - 1 : mem[q] = 0
  <2>1. CASE v1 \in 0 .. doing.at - 1
    BY <2>1, <1>3, BaseFacts
  <2>2. CASE doing.step = "receive" /\ v1 \notin 0 .. doing.at - 1
    <3>1. gp <= v1 /\ \E q \in v1 .. sp - 1 : mem[q] = 0
      BY <1>3, <2>2 DEF Copied
    <3>2. PICK q \in v1 .. sp - 1 : mem[q] = 0
      BY <3>1
    <3>3. v1 \in Int
      BY <1>3 DEF TypeOK
    <3>4. v1 \in 0 .. MemorySize - 1
      BY <1>3, <3>1, <3>2, <3>3, BaseFacts
    <3> QED
      BY <2>2, <3>1, <3>4
  <2>3. doing.step # "receive" => v1 \in 0 .. doing.at - 1
    BY <1>1, <1>3 DEF Copied
  <2> QED
    BY <2>1, <2>2, <2>3
<1>7. mem[v1] \in Int /\ gp \in 0 .. MemorySize - 1
  BY <1>1, <1>3, <1>6, BaseFacts, SMTT(30) DEF Memories
<1>8. /\ mem' \in Memories /\ mem'[gp] = mem[v1]
      /\ \A c \in 0 .. MemorySize - 1 : c # gp => mem'[c] = mem[c]
  <2> DEFINE cells == [c \in {gp} |-> mem[v1]]
  <2>1. DOMAIN cells = {gp} /\ cells[gp] = mem[v1]
    OBVIOUS
  <2>2. Write(cells) /\ \A c \in DOMAIN cells : cells[c] \in Int
    BY <1>1, <1>7, <2>1
  <2> HIDE DEF cells
  <2> QED
    BY <1>3, <1>7, <2>1, <2>2, WriteFacts
<1>9. /\ doing'.at = doing.at /\ doing'.dest = doing.dest /\ doing'.x = doing.x
      /\ doing' \in [step : {"enter", "body", "first", "join", "second", "set", "place",
                             "finish", "receive", "received", "returned", "stopped"},
                     dest : Nat, at : Int, x : Int, c : Int]
      /\ doing'.step = (IF mem[v1] = 0 THEN Then(doing.step) ELSE doing.step)
  <2>1. doing'.step = (IF mem[v1] = 0 THEN Then(doing.step) ELSE doing.step)
    BY <1>1, <1>3
  <2>2. Then(doing.step) \in {"join", "finish", "place", "received"}
    BY <1>1 DEF Then
  <2> QED
    BY <1>1, <1>3, <2>1, <2>2
<1>10. doing'.step \in CopySteps
  BY <1>1, <1>9 DEF Then, CopySteps
<1>11. PICK H2 : Stack(mem', scope', F, G, H2, d) /\ H2[d] = doing.at
  <2>1. d \in Nat \ {0} /\ here \in Functions /\ H[d] <= sp /\ H[d] \in Int
    BY <1>3, <1>5, RunningFacts
  <2> DEFINE V == {n \in 1 .. Len(Kinds[G[d]]) : FALSE}
  <2>2. V = {}
    OBVIOUS
  <2>3. \A c \in 0 .. MemorySize - 1 : c < H[d] \/ c >= Bottom(G[d], F[d]) => mem'[c] = mem[c]
    BY <1>1, <1>3, <1>5, <1>8
  <2>4. H[d] <= Bottom(G[d], F[d]) /\ scope' = scope
    BY <1>1, <1>5, <2>1
  <2>5. Rises(mem, mem', scope, scope', F, G, H, d, H[d], V)
    BY <2>1, <2>2, <2>3, <2>4 DEF Rises
  <2> HIDE DEF V
  <2> QED
    BY <1>5, <2>1, <2>5, RestackSome
<1>12. Copied'
  <2>1. CASE doing.step = "first" /\ mem[v1] # 0
    <3>1. doing'.step = "first" /\ v1 \in 0 .. doing.at - 1 /\ doing.x \in 0 .. doing.at - 1
      BY <1>3, <1>9, <2>1 DEF Copied
    <3>2. v1 + 1 \in 0 .. doing.at - 1
      BY <1>3, <1>4, <2>1, <3>1
    <3> QED
      BY <1>1, <1>9, <3>1, <3>2 DEF Copied
  <2>2. CASE doing.step = "first" /\ mem[v1] = 0
    <3>1. doing'.step = "join" /\ doing.x \in 0 .. doing.at - 1
      BY <1>3, <1>9, <2>2 DEF Copied, Then
    <3> QED
      BY <1>1, <1>3, <1>9, <3>1, SMTT(30) DEF Copied
  <2>3. CASE doing.step = "second" /\ mem[v1] # 0
    <3>1. doing'.step = "second" /\ v1 \in 0 .. doing.at - 1
      BY <1>3, <1>9, <2>3 DEF Copied
    <3>2. v1 + 1 \in 0 .. doing.at - 1
      BY <1>3, <1>4, <2>3, <3>1
    <3> QED
      BY <1>1, <1>9, <3>1, <3>2 DEF Copied
  <2>4. CASE doing.step = "second" /\ mem[v1] = 0
    <3>1. doing'.step = "finish"
      BY <1>9, <2>4 DEF Then
    <3>2. doing.at < gp' /\ mem'[gp' - 1] = 0
      BY <1>1, <1>3, <1>8, <2>4
    <3> QED
      BY <1>9, <3>1, <3>2 DEF Copied
  <2>5. CASE doing.step = "set"
    <3>1. /\ v1 \in 0 .. doing.at - 1 /\ doing.x \in Nat
          /\ \A c \in 0 .. doing.at - 1 :
               v1 <= c /\ c <= v1 - (gp - doing.at) + doing.x => mem[c] # 0
      BY <1>3, <2>5 DEF Copied
    <3>2. CASE mem[v1] # 0
      <4>1. doing'.step = "set"
        BY <1>9, <2>5, <3>2
      <4>2. v1 + 1 \in 0 .. doing.at - 1
        BY <1>3, <1>4, <3>1, <3>2
      <4>3. ASSUME NEW c \in 0 .. doing.at - 1, v1 + 1 <= c,
                   c <= v1 + 1 - (gp + 1 - doing.at) + doing.x
            PROVE  mem'[c] # 0
        <5>1. v1 <= c /\ c <= v1 - (gp - doing.at) + doing.x
          BY <1>3, <3>1, <4>3
        <5>2. c \in 0 .. MemorySize - 1 /\ c # gp
          BY <1>3, BaseFacts
        <5> QED
          BY <1>8, <3>1, <5>1, <5>2
      <4>4. \A c \in 0 .. doing'.at - 1 :
              v1' <= c /\ c <= v1' - (gp' - doing'.at) + doing'.x => mem'[c] # 0
        <5>1. /\ v1' = v1 + 1 /\ gp' = gp + 1
              /\ doing'.at = doing.at /\ doing'.x = doing.x
          BY <1>1, <1>9
        <5>2. ASSUME NEW c \in 0 .. doing'.at - 1, v1' <= c,
                     c <= v1' - (gp' - doing'.at) + doing'.x
              PROVE  mem'[c] # 0
          <6>1. c \in 0 .. doing.at - 1
            BY <5>1, <5>2
          <6>2. v1 + 1 <= c
            BY <5>1, <5>2
          <6>3. v1 \in Int /\ gp \in Int /\ doing.at \in Int /\ doing.x \in Int
            BY <1>3, <3>1
          <6>4. c <= v1 + 1 - (gp + 1 - doing.at) + doing.x
            BY <5>1, <5>2, <6>3
          <6> QED
            BY <4>3, <6>1, <6>2, <6>4
        <5> QED
          BY <5>2
      <4>5. v1' \in 0 .. doing'.at - 1 /\ doing'.x \in Nat
        BY <1>1, <1>9, <3>1, <4>2
      <4> QED
        BY <4>1, <4>4, <4>5 DEF Copied
    <3>3. CASE mem[v1] = 0
      <4>1. doing'.step = "place"
        BY <1>9, <2>5, <3>3 DEF Then
      <4>2. ~ (v1 <= v1 - (gp - doing.at) + doing.x)
        BY <3>1, <3>3
      <4>3. doing.at + doing.x < gp' - 1
        BY <1>1, <1>3, <3>1, <4>2
      <4>4. doing.at < gp' /\ mem'[gp' - 1] = 0
        BY <1>1, <1>3, <1>8, <3>3
      <4> QED
        BY <1>9, <3>1, <4>1, <4>3, <4>4 DEF Copied
    <3> QED
      BY <3>2, <3>3
  <2>6. CASE doing.step = "receive"
    <3>1. v0' = doing'.at
      BY <1>1, <1>3, <1>9, <2>6 DEF Copied
    <3>2. CASE mem[v1] # 0
      <4>1. doing'.step = "receive"
        BY <1>9, <2>6, <3>2
      <4>2. CASE v1 \in 0 .. doing.at - 1
        <5>1. v1 + 1 \in 0 .. doing.at - 1
          BY <1>3, <1>4, <3>2, <4>2
        <5> QED
          BY <1>1, <1>9, <3>1, <4>1, <5>1 DEF Copied
      <4>3. CASE gp <= v1 /\ \E q \in v1 .. sp - 1 : mem[q] = 0
        <5>1. PICK q \in v1 .. sp - 1 : mem[q] = 0
          BY <4>3
        <5>2. q \in v1 + 1 .. sp - 1 /\ q \in 0 .. MemorySize - 1 /\ q # gp
          BY <1>3, <1>6, <3>2, <4>3, <5>1, BaseFacts
        <5>3. mem'[q] = 0
          BY <1>8, <5>1, <5>2
        <5>4. gp' <= v1' /\ \E z \in v1' .. sp' - 1 : mem'[z] = 0
          BY <1>1, <1>3, <1>6, <4>3, <5>2, <5>3
        <5> QED
          BY <1>9, <3>1, <4>1, <5>4 DEF Copied
      <4> QED
        BY <1>6, <4>2, <4>3
    <3>3. CASE mem[v1] = 0
      <4>1. doing'.step = "received"
        BY <1>9, <2>6, <3>3 DEF Then
      <4>2. doing.at < gp' /\ mem'[gp' - 1] = 0
        BY <1>1, <1>3, <1>8, <3>3
      <4> QED
        BY <1>9, <3>1, <4>1, <4>2 DEF Copied
    <3> QED
      BY <3>2, <3>3
  <2> QED
    BY <1>1, <2>1, <2>2, <2>3, <2>4, <2>5, <2>6
<1>13. Position(d, F, G, H2)'
  <2>1. Running(d, F, G)'
    BY <1>1, <1>5 DEF Running
  <2>2. doing'.at <= gp'
    BY <1>1, <1>3, <1>9
  <2>3. Copying(d, F, G, H2)'
    BY <1>1, <1>3, <1>9, <1>11, <1>12, <2>1, <2>2 DEF Copying
  <2> QED
    BY <1>10, <2>3 DEF Position, CopySteps
<1>14. TypeOK'
  <2>1. args' \in [1 .. ParamRegisters -> Int]
    <3>1. args \in [1 .. ParamRegisters -> Int]
      BY <1>3 DEF TypeOK
    <3> QED
      BY <1>1, <1>7, <3>1
  <2>2. Base <= gp' /\ gp' <= sp /\ gp' \in Int /\ v1' \in Int
    BY <1>1, <1>3, <1>6, BaseFacts, SMTT(30)
  <2>3. mem' \in [0 .. MemorySize - 1 -> Int]
    BY <1>8 DEF Memories
  <2>4. /\ saved' \in [SavedRegisters -> Int] /\ here' \in Functions
        /\ scope' \in Seq(SUBSET Nat)
    BY <1>1, <1>3 DEF TypeOK
  <2>5. {sp', fp', ra', gp', v0', v1'} \subseteq Int
    BY <1>1, <1>3, <2>2 DEF TypeOK
  <2>6. gp' <= sp' /\ sp' <= fp' /\ fp' <= MemorySize
    BY <1>1, <1>3, <2>2 DEF TypeOK
  <2> QED
    BY <1>9, <2>1, <2>2, <2>3, <2>4, <2>5, <2>6 DEF TypeOK
<1> QED
  <2>1. d = Depth'
    BY <1>1, <1>5 DEF Depth
  <2> QED
    BY <1>11, <1>13, <1>14, <2>1 DEF IInv

\* A finished copy ends with a 0, which is not where the character has been put.
LEMMA FinishStep ==
  ASSUME IInv, doing.step \in CopySteps, NEW cells, Finish(doing.at, cells),
         cells \subseteq doing.at .. gp - 2, doing.at < gp, mem[gp - 1] = 0
  PROVE  IInv'
<1> DEFINE own == Cell(here, doing.dest, fp)
           written == [c \in cells \cup {own} |-> IF c \in cells THEN doing.c ELSE doing.at]
<1>1. Write(written) /\ Assigned(doing.dest) /\ doing' = Idle
      /\ UNCHANGED <<sp, fp, ra, gp, v0, v1, args, here>> /\ saved' \in [SavedRegisters -> Int]
  BY DEF Finish, AnyRegisters
<1>2. /\ TypeOK /\ doing.at \in Int /\ doing.c \in Int /\ gp \in Int /\ sp \in Int
      /\ Base <= doing.at /\ doing.at <= gp /\ gp <= sp /\ sp < MemorySize
      /\ doing.dest \in 1 .. Len(Kinds[here]) /\ mem \in Memories
  BY CopyingFacts
<1>3. PICK d, F, G, H : /\ d = Depth /\ Stack(mem, scope, F, G, H, d)
                        /\ Running(d, F, G) /\ H[d] = doing.at
                        /\ d > 0 /\ fp = F[d] /\ here = G[d] /\ sp = Bottom(here, fp)
  BY CopyingFacts
<1>4. own \in 0 .. MemorySize - 1 /\ sp <= own
  BY <1>2, <1>3, RunningFacts
<1>5. own \notin cells /\ gp - 1 \notin cells /\ gp - 1 # own /\ gp - 1 \in 0 .. MemorySize - 1
  BY <1>2, <1>4, BaseFacts
<1>6. /\ DOMAIN written = cells \cup {own} /\ written[own] = doing.at
      /\ \A c \in DOMAIN written : written[c] \in Int
  BY <1>2, <1>5
<1> HIDE DEF own, written
<1>7. /\ mem' \in Memories /\ mem'[own] = doing.at
      /\ \A c \in 0 .. MemorySize - 1 : c \notin cells /\ c # own => mem'[c] = mem[c]
  BY <1>1, <1>2, <1>4, <1>6, WriteFacts
<1>8. \A c \in 0 .. MemorySize - 1 :
        c < H[d] \/ (c >= sp /\ c # own) => mem'[c] = mem[c]
  BY <1>2, <1>3, <1>4, <1>7
<1>9. mem'[gp' - 1] = 0
  BY <1>1, <1>5, <1>7
<1>10. /\ gp' \in Int /\ H[d] <= gp' /\ gp' <= sp /\ doing'.step = "body"
       /\ mem'[own] \in 0 .. gp' - 1
  BY <1>1, <1>2, <1>3, <1>7, BaseFacts DEF Idle
<1>11. /\ scope' \in Seq(SUBSET Nat)
       /\ \E e, F2, G2, H2 : /\ e = Depth' /\ Stack(mem', scope', F2, G2, H2, e)
                             /\ Position(e, F2, G2, H2)'
  <2>1. /\ \A c \in 0 .. MemorySize - 1 :
             c < H[d] \/ (c >= sp /\ c # Cell(here, doing.dest, fp)) => mem'[c] = mem[c]
        /\ mem'[Cell(here, doing.dest, fp)] \in 0 .. gp' - 1
    BY <1>8, <1>10 DEF own
  <2> QED
    BY <1>1, <1>2, <1>3, <1>7, <1>9, <1>10, <2>1, Assign
<1>12. TypeOK'
  <2>1. doing' \in [step : {"enter", "body", "first", "join", "second", "set", "place", "finish",
                            "receive", "received", "returned", "stopped"},
                    dest : Nat, at : Int, x : Int, c : Int]
    BY <1>1 DEF Idle
  <2>2. mem' \in [0 .. MemorySize - 1 -> Int]
    BY <1>7 DEF Memories
  <2> QED
    BY <1>1, <1>2, <1>11, <2>1, <2>2 DEF TypeOK
<1> QED
  BY <1>11, <1>12 DEF IInv

\* set_at changes a character of the copy, never its 0.
LEMMA PlaceStep ==
  ASSUME IInv, Place
  PROVE  IInv'
<1>1. doing.step = "place" /\ Finish(doing.at, {doing.at + doing.x})
  BY DEF Place
<1>2. doing.step \in CopySteps
  BY <1>1 DEF CopySteps
<1>3. Copied /\ doing.at \in Int /\ gp \in Int
  BY <1>2, CopyingFacts
<1>4. /\ doing.at < gp /\ mem[gp - 1] = 0 /\ doing.x \in Nat /\ doing.at + doing.x < gp - 1
  BY <1>1, <1>3 DEF Copied
<1>5. {doing.at + doing.x} \subseteq doing.at .. gp - 2
  BY <1>3, <1>4
<1> QED
  BY <1>1, <1>2, <1>4, <1>5, FinishStep

\* A complete copy is assigned.
LEMMA EndCopyStep ==
  ASSUME IInv, EndCopy
  PROVE  IInv'
<1>1. doing.step \in {"finish", "received"} /\ doing.step \in CopySteps
  BY DEF EndCopy, CopySteps
<1>2. Copied
  BY <1>1, CopyingFacts
<1>3. Finish(doing.at, {})
  BY <1>2 DEF EndCopy, Copied
<1>4. doing.at < gp /\ mem[gp - 1] = 0
  BY <1>1, <1>2 DEF Copied
<1> QED
  BY <1>1, <1>3, <1>4, FinishStep

-----------------------------------------------------------------------------
(***************************************************************************)
(* Calls and returns                                                       *)
(***************************************************************************)

\* A call pushes its arguments and saves the heap pointer: the callee may be entered.
LEMMA CallStep ==
  ASSUME IInv, NEW s \in DOMAIN Sites, Call(s)
  PROVE  IInv'
<1> DEFINE site == Sites[s]
           f == site.callee
           bottom == sp - RequiredSize(f)
           in == InRegisters(f)
           cells == [c \in bottom .. sp - 1 |->
                       IF c = sp - 1 THEN gp ELSE Var(site.args[in + 1 + c - bottom])]
<1>1. /\ InBody /\ site.caller = here /\ \A n \in DOMAIN site.args : site.args[n] \in Here
      /\ bottom > gp /\ Write(cells)
      /\ args' = [n \in DOMAIN args |-> IF n <= in THEN Var(site.args[n]) ELSE args[n]]
      /\ sp' = bottom /\ ra' = s /\ here' = f /\ doing' = [Idle EXCEPT !.step = "enter"]
      /\ UNCHANGED <<fp, gp, v0, v1, saved, scope>>
  BY DEF Call
<1>2. TypeOK /\ gp \in Int /\ sp \in Int
  BY <1>1, BodyFacts DEF TypeOK
<1>3. PICK d, F, G, H : /\ d = Depth /\ Stack(mem, scope, F, G, H, d)
                        /\ Running(d, F, G) /\ H[d] = gp
                        /\ d > 0 /\ fp = F[d] /\ here = G[d] /\ sp = Bottom(here, fp)
  BY <1>1, BodyFacts
<1>4. /\ mem \in Memories /\ d \in Nat \ {0} /\ Base <= gp /\ sp <= fp /\ fp < MemorySize
      /\ fp \in Int /\ gp <= sp
  BY <1>2, <1>3, RunningFacts
<1>5. /\ s \in Nat /\ f \in Functions /\ DOMAIN site.args = 1 .. Params[f]
      /\ \A n \in 1 .. Params[f] : /\ site.args[n] \in DOMAIN Kinds[here]
                                   /\ Kinds[here][site.args[n]] = Kinds[f][n]
  BY <1>1, SiteFacts
<1>6. /\ in \in Nat /\ Params[f] \in Nat /\ in <= Params[f] /\ in <= ParamRegisters
      /\ ParamRegisters \in Nat
      /\ RequiredSize(f) = 1 + Params[f] - in /\ RequiredSize(f) \in Nat \ {0}
      /\ Params[f] <= Len(Kinds[f]) /\ Len(Kinds[f]) \in Nat
  BY <1>5, FunctionFacts
<1>7. ASSUME NEW n \in 1 .. Params[f]
      PROVE  /\ Var(site.args[n]) \in Int
             /\ Kinds[f][n] = "string" => Var(site.args[n]) \in 0 .. gp - 1
  <2>1. site.args[n] \in Here /\ Kinds[here][site.args[n]] = Kinds[f][n]
    BY <1>1, <1>5
  <2>2. Here \subseteq 1 .. Len(Kinds[here]) /\ \A i \in 1 .. Len(Kinds[here]) : Var(i) \in Int
    BY <1>2, <1>3, RunningFacts
  <2>3. \A i \in Here : Kinds[here][i] = "string" => Var(i) \in 0 .. gp - 1
    BY <1>2, <1>3, RunningFacts
  <2> QED
    BY <2>1, <2>2, <2>3
<1>8. /\ DOMAIN cells = bottom .. sp - 1 /\ cells[sp - 1] = gp
      /\ \A c \in bottom .. sp - 2 : cells[c] = Var(site.args[in + 1 + c - bottom])
  <2>1. bottom \in Int /\ bottom <= sp - 1
    BY <1>2, <1>6
  <2> HIDE DEF bottom, f, in, site
  <2> QED
    BY <1>2, <2>1
<1> HIDE DEF cells
<1>9. bottom \in Int /\ sp = bottom + 1 + Params[f] - in /\ bottom <= sp - 1
  BY <1>2, <1>6
<1>10. \A c \in DOMAIN cells : cells[c] \in Int
  <2> TAKE c \in DOMAIN cells
  <2>1. CASE c = sp - 1
    BY <1>2, <1>8, <2>1
  <2>2. CASE c # sp - 1
    <3> HIDE DEF bottom, f, in, site
    <3>1. c \in bottom .. sp - 2
      BY <1>2, <1>8, <1>9, <2>2
    <3>2. in + 1 + c - bottom \in 1 .. Params[f]
      <4>1. in \in Nat /\ Params[f] \in Nat /\ bottom \in Int /\ c \in Int
        BY <1>6, <1>9, <3>1
      <4>2. c <= sp - 2 /\ bottom <= c
        BY <3>1
      <4>3. sp - 2 = bottom + Params[f] - in - 1
        BY <1>9, <4>1
      <4>4. c - bottom <= Params[f] - in - 1 /\ 0 <= c - bottom
        BY <4>1, <4>2, <4>3
      <4> QED
        BY <4>1, <4>4
    <3> QED
      BY <1>7, <1>8, <3>1, <3>2
  <2> QED
    BY <2>1, <2>2
<1> HIDE DEF bottom, f, in, site
<1>11. sp - 1 \in 0 .. MemorySize - 1 /\ \A c \in bottom .. sp - 1 : c \in 0 .. MemorySize - 1
  <2>1. 0 <= bottom /\ bottom <= sp - 1
    <3>1. bottom > gp /\ Base <= gp
      BY <1>1, <1>4
    <3> QED
      BY <3>1, <1>2, <1>9, BaseFacts
  <2>2. sp - 1 <= MemorySize - 1 /\ MemorySize \in Nat
    BY <1>2, <1>4, BaseFacts
  <2> QED
    BY <1>2, <1>9, <2>1, <2>2
<1>12. /\ mem' \in Memories /\ mem'[sp - 1] = gp
       /\ \A c \in 0 .. MemorySize - 1 : c < gp \/ c >= sp => mem'[c] = mem[c]
       /\ \A c \in bottom .. sp - 2 : mem'[c] = Var(site.args[in + 1 + c - bottom])
  <2>1. /\ mem' \in Memories
        /\ \A c \in 0 .. MemorySize - 1 : c \notin bottom .. sp - 1 => mem'[c] = mem[c]
        /\ \A c \in 0 .. MemorySize - 1 : c \in bottom .. sp - 1 => mem'[c] = cells[c]
    BY <1>1, <1>4, <1>8, <1>10, WriteFacts
  <2>2. sp - 1 \in bottom .. sp - 1
    BY <1>2, <1>6, <1>9
  <2>3. mem'[sp - 1] = gp
    BY <1>8, <1>11, <2>1, <2>2
  <2>4. \A c \in 0 .. MemorySize - 1 : c < gp \/ c >= sp => mem'[c] = mem[c]
    BY <1>1, <1>2, <1>9, <2>1
  <2>5. ASSUME NEW c \in bottom .. sp - 2
        PROVE  mem'[c] = Var(site.args[in + 1 + c - bottom])
    <3>1. c \in bottom .. sp - 1
      BY <1>2, <1>9
    <3> QED
      BY <3>1, <1>8, <1>11, <2>1
  <2> QED
    BY <2>1, <2>3, <2>4, <2>5
<1>13. PICK H2 : Stack(mem', scope', F, G, H2, d) /\ H2[d] = gp
  <2> DEFINE V == {n \in 1 .. Len(Kinds[G[d]]) : FALSE}
  <2>1. V = {}
    OBVIOUS
  <2>2. \A c \in 0 .. MemorySize - 1 : c < H[d] \/ c >= Bottom(G[d], F[d]) => mem'[c] = mem[c]
    BY <1>3, <1>12
  <2>3. H[d] <= Bottom(G[d], F[d]) /\ scope' = scope
    BY <1>1, <1>3, <1>4
  <2>4. Rises(mem, mem', scope, scope', F, G, H, d, gp, V)
    BY <1>2, <1>3, <2>1, <2>2, <2>3 DEF Rises
  <2> HIDE DEF V
  <2> QED
    BY <1>3, <1>4, <2>4, RestackSome
<1>14. doing' \in [step : {"enter"}, dest : {0}, at : {0}, x : {0}, c : {0}] /\ doing'.step = "enter"
  BY <1>1 DEF Idle
<1>15. Position(d, F, G, H2)'
  <2>1. ra' \in DOMAIN Sites /\ Sites[ra'].caller = G[d] /\ Sites[ra'].callee = here'
    BY <1>1, <1>3 DEF f, site
  <2>2. sp' = Bottom(G[d], F[d]) - RequiredSize(here')
    BY <1>1, <1>3 DEF bottom
  <2>3. mem'[sp' + RequiredSize(here') - 1] = gp'
    <3>0. bottom + RequiredSize(f) - 1 = sp - 1
      <4>1. /\ in \in Nat /\ Params[f] \in Nat /\ bottom \in Int
            /\ RequiredSize(f) = 1 + Params[f] - in
        BY <1>6, <1>9
      <4>2. sp = bottom + 1 + Params[f] - in
        BY <1>9
      <4> QED
        BY <4>1, <4>2
    <3>1. sp' + RequiredSize(here') - 1 = sp - 1
      BY <1>1, <3>0
    <3> QED
      BY <1>1, <1>12, <3>1
  <2>4. gp' > 0 => mem'[gp' - 1] = 0
    <3>1. gp > 0 => mem[gp - 1] = 0
      BY <1>2, <1>3, RunningFacts
    <3>2. gp > 0 => gp - 1 \in 0 .. MemorySize - 1 /\ gp - 1 < gp
      BY <1>2, <1>4, BaseFacts
    <3> QED
      BY <1>1, <1>12, <3>1, <3>2
  <2>5. ASSUME NEW i \in 1 .. Params[f], Kinds[f][i] = "string"
        PROVE  IF i <= in THEN args'[i] \in 0 .. gp - 1
               ELSE mem'[Cell(f, i, bottom - 2)] \in 0 .. gp - 1
    <3>1. CASE i <= in
      <4>1. i \in DOMAIN args
        <5>1. DOMAIN args = 1 .. ParamRegisters
          BY <1>2 DEF TypeOK
        <5> QED
          BY <1>6, <3>1, <5>1
      <4>2. args'[i] = Var(site.args[i])
        BY <1>1, <3>1, <4>1
      <4> QED
        BY <1>7, <2>5, <3>1, <4>2
    <3>2. CASE ~ (i <= in)
      <4>1. i \in 1 .. Len(Kinds[f]) /\ bottom - 2 \in Int
        BY <1>6, <1>9, SMTT(30)
      <4>2. Cell(f, i, bottom - 2) = bottom - 2 + 1 + i - in
        BY <1>5, <1>6, <3>2, <4>1, CellIs DEF in
      <4>3. Cell(f, i, bottom - 2) \in bottom .. sp - 2
        <5>1. in \in Nat /\ Params[f] \in Nat /\ bottom \in Int /\ i \in Int /\ i <= Params[f]
              /\ in < i
          BY <1>6, <1>9, <3>2
        <5>2. sp - 2 = bottom + Params[f] - in - 1
          BY <1>9, <5>1
        <5>3. bottom - 2 + 1 + i - in = bottom + i - in - 1
          BY <5>1
        <5>4. bottom <= bottom + i - in - 1 /\ bottom + i - in - 1 <= bottom + Params[f] - in - 1
          BY <5>1
        <5>5. Cell(f, i, bottom - 2) = bottom + i - in - 1
          BY <4>2, <5>3
        <5> QED
          BY <5>1, <5>2, <5>4, <5>5
      <4>4. in + 1 + Cell(f, i, bottom - 2) - bottom = i
        BY <1>6, <1>9, <4>2
      <4>5. mem'[Cell(f, i, bottom - 2)] = Var(site.args[i])
        BY <1>12, <4>3, <4>4
      <4> QED
        BY <1>7, <2>5, <3>2, <4>5
    <3> QED
      BY <3>1, <3>2
  <2>6. Entering(d, F, G, H2)'
    <3>1. \A i \in 1 .. Params[here'] : Kinds[here'][i] = "string" =>
            IF i <= InRegisters(here') THEN args'[i] \in 0 .. gp' - 1
            ELSE mem'[Cell(here', i, sp' - 2)] \in 0 .. gp' - 1
      BY <1>1, <2>5 DEF in
    <3> QED
      BY <1>1, <1>3, <1>13, <2>1, <2>2, <2>3, <2>4, <3>1 DEF Entering
  <2> QED
    BY <1>14, <2>6 DEF Position, CopySteps
<1>16. TypeOK'
  <2>1. args' \in [1 .. ParamRegisters -> Int]
    <3>1. args \in [1 .. ParamRegisters -> Int]
      BY <1>2 DEF TypeOK
    <3>2. ASSUME NEW n \in 1 .. ParamRegisters, n <= in
          PROVE  Var(site.args[n]) \in Int
      <4>1. n \in 1 .. Params[f]
        BY <1>6, <3>2
      <4> QED
        BY <1>7, <4>1
    <3> QED
      BY <1>1, <3>1, <3>2, SMTT(30)
  <2>2. saved' \in [SavedRegisters -> Int]
    BY <1>1, <1>2 DEF TypeOK
  <2>3. mem' \in [0 .. MemorySize - 1 -> Int]
    BY <1>12 DEF Memories
  <2>4. gp' <= sp' /\ sp' <= fp' /\ sp' \in Int
    <3>1. gp' = gp /\ sp' = bottom /\ fp' = fp /\ bottom > gp
      BY <1>1
    <3>2. gp <= bottom /\ bottom <= fp
      BY <1>2, <1>4, <1>9, <3>1
    <3> QED
      BY <1>9, <3>1, <3>2
  <2>5. here' \in Functions /\ ra' \in Int
    BY <1>1, <1>5
  <2>6. doing' \in [step : {"enter", "body", "first", "join", "second", "set", "place", "finish",
                            "receive", "received", "returned", "stopped"},
                    dest : Nat, at : Int, x : Int, c : Int]
    BY <1>14
  <2>7. scope' \in Seq(SUBSET Nat)
    BY <1>1, <1>2 DEF TypeOK
  <2>8. {sp', fp', ra', gp', v0', v1'} \subseteq Int
    BY <1>1, <1>2, <2>4, <2>5 DEF TypeOK
  <2>9. Base <= gp' /\ fp' <= MemorySize
    BY <1>1, <1>2 DEF TypeOK
  <2> QED
    BY <2>1, <2>2, <2>3, <2>4, <2>5, <2>6, <2>7, <2>8, <2>9 DEF TypeOK
<1> QED
  <2>1. d = Depth'
    BY <1>1, <1>3 DEF Depth
  <2> QED
    BY <1>13, <1>15, <1>16, <2>1 DEF IInv

\* Two sequences agree up to d.
Agree(a, b, d) == \A k \in 1 .. d : b[k] = a[k]

\* Push, for some frames.
LEMMA PushSome ==
  ASSUME NEW d \in Nat, NEW m, NEW m2, NEW sc, NEW sc2, NEW F, NEW G, NEW H,
         Stack(m, sc, F, G, H, d), NEW f, NEW frame, NEW h,
         Grows(m, m2, sc, sc2, F, G, H, d, f, frame, h)
  PROVE  \E F2, G2, H2 : /\ Stack(m2, sc2, F2, G2, H2, d + 1)
                         /\ Agree(F, F2, d) /\ Agree(G, G2, d) /\ Agree(H, H2, d)
                         /\ F2[d + 1] = frame /\ G2[d + 1] = f /\ H2[d + 1] = h
<1> DEFINE F2 == [k \in 1 .. d + 1 |-> IF k = d + 1 THEN frame ELSE F[k]]
           G2 == [k \in 1 .. d + 1 |-> IF k = d + 1 THEN f ELSE G[k]]
           H2 == [k \in 1 .. d + 1 |-> IF k = d + 1 THEN h ELSE H[k]]
<1>1. Stack(m2, sc2, F2, G2, H2, d + 1)
  BY Push
<1>2. F2[d + 1] = frame /\ G2[d + 1] = f /\ H2[d + 1] = h
  OBVIOUS
<1>3. \A k \in 1 .. d : k \in 1 .. d + 1 /\ k # d + 1
  OBVIOUS
<1>4. Agree(F, F2, d) /\ Agree(G, G2, d) /\ Agree(H, H2, d)
  BY <1>3 DEF Agree
<1> HIDE DEF F2, G2, H2
<1> QED
  BY <1>1, <1>2, <1>4

\* What the entry code of a function writes: the links, the parameters that came in registers
\* and the registers that the function preserves.
LEMMA EnterCells ==
  ASSUME IInv, Enter
  PROVE  /\ mem' \in Memories /\ sp - 2 \in 0 .. MemorySize - 1
         /\ \A c \in 0 .. MemorySize - 1 : c < gp \/ c > sp - 2 + 1 => mem'[c] = mem[c]
         /\ mem'[sp - 2 + 1] = ra /\ mem'[sp - 2] = fp
         /\ \A i \in 1 .. InRegisters(here) : mem'[Cell(here, i, sp - 2)] = args[i]
         /\ \A n \in DOMAIN Uses[here] : mem'[SaveCell(here, n, sp - 2)] = saved[Uses[here][n]]
<1> DEFINE f == here
           frame == sp - 2
           in == InRegisters(f)
           slots == Slots(f)
           uses == Len(Uses[f])
           cells == [c \in {sp - 1, frame}
                           \cup {Cell(f, i, frame) : i \in 1 .. in}
                           \cup {SaveCell(f, n, frame) : n \in DOMAIN Uses[f]} |->
             IF c = sp - 1 THEN ra
             ELSE IF c = frame THEN fp
             ELSE IF c >= frame - in
             THEN args[CHOOSE i \in 1 .. in : Cell(f, i, frame) = c]
             ELSE saved[Uses[f][CHOOSE n \in DOMAIN Uses[f] : SaveCell(f, n, frame) = c]]]
<1>1. /\ doing.step = "enter" /\ sp' = frame - slots - uses /\ sp' > gp /\ fp' = frame
      /\ Write(cells) /\ doing' = Idle /\ scope' = Append(scope, 1 .. Params[f])
      /\ UNCHANGED <<ra, gp, v0, v1, args, saved, here>>
  BY DEF Enter
<1>2. /\ TypeOK /\ mem \in Memories /\ sp \in Int /\ gp \in Int /\ fp \in Int /\ ra \in Int
      /\ args \in [1 .. ParamRegisters -> Int] /\ saved \in [SavedRegisters -> Int]
      /\ f \in Functions /\ Base <= gp /\ gp <= sp /\ sp <= fp /\ fp <= MemorySize
      /\ scope \in Seq(SUBSET Nat)
  BY DEF IInv, TypeOK, Memories
<1>3. /\ in \in Nat /\ Params[f] \in Nat /\ in <= Params[f] /\ in <= ParamRegisters
      /\ ParamRegisters \in Nat
      /\ RequiredSize(f) = 1 + Params[f] - in /\ RequiredSize(f) \in Nat \ {0}
      /\ Params[f] <= Len(Kinds[f]) /\ Len(Kinds[f]) \in Nat
      /\ slots = in + Len(Kinds[f]) - Params[f] /\ slots \in Nat
      /\ Uses[f] \in Seq(SavedRegisters) /\ uses \in Nat /\ DOMAIN Uses[f] = 1 .. uses
  BY <1>2, FunctionFacts
<1>4. /\ Bottom(f, frame) = sp' /\ sp' \in Int /\ frame \in Int /\ sp' <= frame
      /\ Top(f, frame) = sp + RequiredSize(f) /\ in <= slots
  <2>1. Bottom(f, frame) = frame - slots - uses /\ frame \in Int
    BY <1>2 DEF Bottom
  <2>2. Bottom(f, frame) \in Int /\ Bottom(f, frame) <= frame
    BY <1>2, <2>1, FrameFacts
  <2>3. Top(f, frame) = sp + RequiredSize(f)
    BY <1>2, <1>3 DEF Top
  <2>4. in <= slots
    BY <1>3
  <2> QED
    BY <1>1, <2>1, <2>2, <2>3, <2>4
<1>5. ASSUME NEW i \in 1 .. in
      PROVE  i \in 1 .. Len(Kinds[f]) /\ Cell(f, i, frame) = frame - i
  <2>1. i \in 1 .. Len(Kinds[f]) /\ i <= in
    BY <1>3
  <2>2. Cell(f, i, frame) = IF i <= in THEN frame - i
                            ELSE IF i <= Params[f] THEN frame + 1 + i - in
                            ELSE frame - (in + i - Params[f])
    BY <1>2, <1>4, <2>1, CellIs
  <2> QED
    BY <2>1, <2>2
<1>6. \A n \in 1 .. uses : SaveCell(f, n, frame) = frame - (slots + n)
  BY DEF SaveCell
<1>7. /\ DOMAIN cells = {sp - 1, frame} \cup {Cell(f, i, frame) : i \in 1 .. in}
                         \cup {SaveCell(f, n, frame) : n \in DOMAIN Uses[f]}
       /\ cells[sp - 1] = ra /\ cells[frame] = fp
  BY <1>2
<1>8. ASSUME NEW i \in 1 .. in
      PROVE  Cell(f, i, frame) \in DOMAIN cells /\ cells[Cell(f, i, frame)] = args[i]
  <2>1. Cell(f, i, frame) \in DOMAIN cells
    BY <1>7
  <2>2. Cell(f, i, frame) < frame /\ Cell(f, i, frame) >= frame - in
        /\ Cell(f, i, frame) # sp - 1 /\ Cell(f, i, frame) # frame
    <3>1. Cell(f, i, frame) = frame - i /\ in \in Nat /\ frame \in Int
      BY <1>3, <1>4, <1>5
    <3>2. sp - 1 = frame + 1
      BY <1>2
    <3> HIDE DEF frame, in, f
    <3> QED
      BY <3>1, <3>2
  <2>3. ASSUME NEW j \in 1 .. in, Cell(f, j, frame) = Cell(f, i, frame)
        PROVE  j = i
    <3>1. j \in 1 .. Len(Kinds[f]) /\ i \in 1 .. Len(Kinds[f])
      BY <1>5
    <3> QED
      BY <1>2, <1>4, <2>3, <3>1, CellsDiffer
  <2>4. (CHOOSE j \in 1 .. in : Cell(f, j, frame) = Cell(f, i, frame)) = i
    BY <2>3
  <2> QED
    BY <2>1, <2>2, <2>4
<1>9. ASSUME NEW n \in DOMAIN Uses[f]
      PROVE  /\ SaveCell(f, n, frame) \in DOMAIN cells
             /\ cells[SaveCell(f, n, frame)] = saved[Uses[f][n]]
             /\ sp' <= SaveCell(f, n, frame) /\ SaveCell(f, n, frame) <= frame
  <2>1. PICK c : c = SaveCell(f, n, frame)
    OBVIOUS
  <2>2. n \in 1 .. uses /\ c = frame - (slots + n)
    BY <1>3, <1>6, <2>1
  <2>3. c < frame /\ c # sp - 1 /\ ~ (c >= frame - in) /\ sp' <= c
    <3>1. sp - 1 = frame + 1
      BY <1>2
    <3> HIDE DEF frame, slots, in, uses
    <3>2. frame \in Int /\ slots \in Nat /\ in \in Nat /\ uses \in Nat /\ in <= slots
          /\ sp' = frame - slots - uses
      BY <1>1, <1>3, <1>4
    <3>3. c < frame /\ ~ (c >= frame - in) /\ sp' <= c
      BY <2>2, <3>2
    <3> QED
      BY <2>2, <3>1, <3>2, <3>3
  <2> DEFINE k == CHOOSE z \in DOMAIN Uses[f] : SaveCell(f, z, frame) = c
  <2>4. k = n
    <3>1. ASSUME NEW z \in DOMAIN Uses[f], SaveCell(f, z, frame) = c
          PROVE  z = n
      <4>1. z \in 1 .. uses /\ c = frame - (slots + z)
        BY <1>3, <1>6, <3>1
      <4> HIDE DEF frame, slots, uses
      <4> QED
        BY <1>3, <1>4, <2>2, <4>1
    <3> QED
      BY <2>1, <3>1
  <2>5. c \in DOMAIN cells
    BY <1>7, <2>1
  <2>6. cells[c] = saved[Uses[f][k]]
    <3>1. c # sp - 1 /\ c # frame /\ ~ (c >= frame - in)
      BY <1>4, <2>3
    <3>2. cells[c] = IF c = sp - 1 THEN ra
                     ELSE IF c = frame THEN fp
                     ELSE IF c >= frame - in
                     THEN args[CHOOSE i \in 1 .. in : Cell(f, i, frame) = c]
                     ELSE saved[Uses[f][k]]
      BY <2>5, Zenon
    <3> QED
      BY <3>1, <3>2, Zenon
  <2> HIDE DEF cells, k
  <2>7. c <= frame
    BY <1>4, <2>2, <2>3
  <2> QED
    BY <2>1, <2>3, <2>4, <2>5, <2>6, <2>7
<1>10. \A c \in DOMAIN cells : cells[c] \in Int /\ sp' <= c /\ c <= frame + 1
  <2> TAKE c \in DOMAIN cells
  <2>1. CASE c = sp - 1 \/ c = frame
    BY <1>2, <1>4, <1>7, <2>1
  <2>2. ASSUME NEW i \in 1 .. in, c = Cell(f, i, frame)
        PROVE  cells[c] \in Int /\ sp' <= c /\ c <= frame + 1
    <3>1. cells[c] = args[i] /\ i \in 1 .. ParamRegisters
      <4>1. i \in 1 .. ParamRegisters
        BY <1>3
      <4>2. cells[Cell(f, i, frame)] = args[i]
        BY <1>8
      <4> HIDE DEF cells
      <4> QED
        BY <2>2, <4>1, <4>2
    <3>2. cells[c] \in Int
      BY <1>2, <3>1
    <3>3. Bottom(f, frame) <= c
      BY <1>2, <1>4, <1>5, <2>2, CellPlace
    <3>4. c <= frame + 1
      BY <1>3, <1>4, <1>5, <2>2
    <3> QED
      BY <1>4, <3>2, <3>3, <3>4
  <2>3. ASSUME NEW n \in 1 .. uses, c = SaveCell(f, n, frame)
        PROVE  cells[c] \in Int /\ sp' <= c /\ c <= frame + 1
    <3>1. n \in DOMAIN Uses[f] /\ Uses[f][n] \in SavedRegisters
      BY <1>3
    <3>2. cells[c] = saved[Uses[f][n]] /\ sp' <= c /\ c <= frame
      BY <1>9, <2>3, <3>1
    <3>3. c <= frame + 1
      <4>1. c = frame - (slots + n) /\ slots \in Nat /\ n \in Nat /\ frame \in Int
        BY <1>3, <1>4, <1>6, <2>3
      <4> HIDE DEF frame, slots, uses, cells
      <4> QED
        BY <4>1
    <3> QED
      BY <1>2, <3>1, <3>2, <3>3
  <2>4. \/ c = sp - 1 \/ c = frame
        \/ \E i \in 1 .. in : c = Cell(f, i, frame)
        \/ \E n \in 1 .. uses : c = SaveCell(f, n, frame)
    BY <1>3, <1>7
  <2> QED
    BY <2>1, <2>2, <2>3, <2>4
<1> HIDE DEF cells
<1> HIDE DEF cells
<1>11. sp - 1 \in 0 .. MemorySize - 1 /\ frame \in 0 .. MemorySize - 1 /\ sp - 1 = frame + 1
  <2>1. frame >= 0 /\ sp - 1 = frame + 1
    BY <1>1, <1>2, <1>4, BaseFacts
  <2>2. sp <= MemorySize /\ MemorySize \in Nat
    BY <1>2, BaseFacts
  <2> QED
    BY <1>2, <2>1, <2>2
<1>12. /\ mem' \in Memories
       /\ \A c \in 0 .. MemorySize - 1 : c < gp \/ c > frame + 1 => mem'[c] = mem[c]
       /\ mem'[frame + 1] = ra /\ mem'[frame] = fp
       /\ \A i \in 1 .. in : mem'[Cell(f, i, frame)] = args[i]
       /\ \A n \in DOMAIN Uses[f] : mem'[SaveCell(f, n, frame)] = saved[Uses[f][n]]
  <2>1. /\ mem' \in Memories
        /\ \A c \in 0 .. MemorySize - 1 : c \notin DOMAIN cells => mem'[c] = mem[c]
        /\ \A c \in 0 .. MemorySize - 1 : c \in DOMAIN cells => mem'[c] = cells[c]
    BY <1>1, <1>2, <1>10, WriteFacts
  <2>2. ASSUME NEW c \in 0 .. MemorySize - 1, c < gp \/ c > frame + 1
        PROVE  mem'[c] = mem[c]
    <3>1. ~ (sp' <= c /\ c <= frame + 1)
      BY <1>1, <1>2, <1>4, <2>2
    <3>2. c \notin DOMAIN cells
      BY <1>10, <3>1
    <3> QED
      BY <2>1, <3>2
  <2>3. mem'[sp - 1] = ra /\ mem'[frame] = fp
    BY <1>7, <1>11, <2>1
  <2>4. ASSUME NEW i \in 1 .. in
        PROVE  mem'[Cell(f, i, frame)] = args[i]
    <3>1. Cell(f, i, frame) \in DOMAIN cells /\ cells[Cell(f, i, frame)] = args[i]
      BY <1>8
    <3>2. sp' <= Cell(f, i, frame) /\ Cell(f, i, frame) <= frame /\ Cell(f, i, frame) \in Int
      <4>1. Cell(f, i, frame) = frame - i /\ i \in Nat /\ frame \in Int
        BY <1>3, <1>4, <1>5
      <4>2. sp' <= Cell(f, i, frame)
        BY <1>10, <3>1
      <4> QED
        BY <4>1, <4>2
    <3>3. Cell(f, i, frame) \in 0 .. MemorySize - 1
      BY <1>1, <1>2, <1>4, <1>11, <3>2, BaseFacts
    <3> QED
      BY <2>1, <3>1, <3>3
  <2>5. ASSUME NEW n \in DOMAIN Uses[f]
        PROVE  mem'[SaveCell(f, n, frame)] = saved[Uses[f][n]]
    <3>1. PICK c : c = SaveCell(f, n, frame)
      OBVIOUS
    <3>2. /\ c \in DOMAIN cells /\ cells[c] = saved[Uses[f][n]] /\ sp' <= c /\ c <= frame
          /\ c \in Int
      BY <1>3, <1>4, <1>6, <1>9, <3>1
    <3>3. c \in 0 .. MemorySize - 1
      BY <1>1, <1>2, <1>4, <1>11, <3>2, BaseFacts
    <3> QED
      BY <2>1, <3>1, <3>2, <3>3
  <2> QED
    BY <1>11, <2>1, <2>2, <2>3, <2>4, <2>5
<1> QED
  BY <1>11, <1>12

\* The entry code of a function puts one more frame on the stack.
LEMMA EnterFrames ==
  ASSUME IInv, Enter
  PROVE  /\ TypeOK'
         /\ \E d, F, G, H, F2, G2, H2 :
              /\ At(d, F, G, H)
              /\ d + 1 = Depth' /\ Stack(mem', scope', F2, G2, H2, d + 1)
              /\ Position(d + 1, F2, G2, H2)'
              /\ scope'[d + 1] = 1 .. Params[here] /\ Agree(scope, scope', d)
              /\ Agree(F, F2, d) /\ Agree(G, G2, d) /\ Agree(H, H2, d)
              /\ F2[d + 1] = sp - 2 /\ G2[d + 1] = here /\ H2[d + 1] = gp
<1> DEFINE f == here
           frame == sp - 2
           in == InRegisters(f)
           slots == Slots(f)
           uses == Len(Uses[f])
<1>1. /\ doing.step = "enter" /\ sp' = frame - slots - uses /\ sp' > gp /\ fp' = frame
      /\ doing' = Idle /\ scope' = Append(scope, 1 .. Params[f])
      /\ UNCHANGED <<ra, gp, v0, v1, args, saved, here>>
  BY DEF Enter
<1>2. /\ TypeOK /\ mem \in Memories /\ sp \in Int /\ gp \in Int /\ fp \in Int /\ ra \in Int
      /\ args \in [1 .. ParamRegisters -> Int] /\ saved \in [SavedRegisters -> Int]
      /\ f \in Functions /\ Base <= gp /\ gp <= sp /\ sp <= fp /\ fp <= MemorySize
      /\ scope \in Seq(SUBSET Nat)
  BY DEF IInv, TypeOK, Memories
<1>3. PICK d, F, G, H : d = Depth /\ Stack(mem, scope, F, G, H, d) /\ Position(d, F, G, H)
  BY DEF IInv
<1>4. /\ d = 0 => sp = MemorySize /\ fp = MemorySize /\ ra = 0 /\ here = Main
      /\ d > 0 => /\ fp = F[d] /\ ra \in DOMAIN Sites
                  /\ Sites[ra].caller = G[d] /\ Sites[ra].callee = here
                  /\ sp = Bottom(G[d], F[d]) - RequiredSize(here)
                  /\ mem[sp + RequiredSize(here) - 1] = gp /\ H[d] = gp
      /\ gp > 0 => mem[gp - 1] = 0
      /\ \A i \in 1 .. Params[here] : Kinds[here][i] = "string" =>
           IF i <= InRegisters(here) THEN args[i] \in 0 .. gp - 1
           ELSE mem[Cell(here, i, sp - 2)] \in 0 .. gp - 1
  BY <1>1, <1>3 DEF Position, Entering
<1>5. d \in Nat /\ d = Len(scope)
  BY <1>2, <1>3 DEF Depth
<1>6. /\ in \in Nat /\ Params[f] \in Nat /\ in <= Params[f] /\ in <= ParamRegisters
      /\ ParamRegisters \in Nat
      /\ RequiredSize(f) = 1 + Params[f] - in /\ RequiredSize(f) \in Nat \ {0}
      /\ Params[f] <= Len(Kinds[f]) /\ Len(Kinds[f]) \in Nat
      /\ slots = in + Len(Kinds[f]) - Params[f] /\ slots \in Nat
      /\ Uses[f] \in Seq(SavedRegisters) /\ uses \in Nat /\ DOMAIN Uses[f] = 1 .. uses
  BY <1>2, FunctionFacts
<1>7. /\ Bottom(f, frame) = sp' /\ sp' \in Int /\ frame \in Int /\ sp' <= frame
      /\ Top(f, frame) = sp + RequiredSize(f) /\ in <= slots
  <2>1. Bottom(f, frame) = frame - slots - uses /\ frame \in Int
    BY <1>2 DEF Bottom
  <2>2. Bottom(f, frame) \in Int /\ Bottom(f, frame) <= frame
    BY <1>2, <2>1, FrameFacts
  <2>3. Top(f, frame) = sp + RequiredSize(f)
    BY <1>2, <1>6 DEF Top
  <2>4. in <= slots
    BY <1>6
  <2> QED
    BY <1>1, <2>1, <2>2, <2>3, <2>4
<1>8. /\ sp - 1 \in 0 .. MemorySize - 1 /\ frame \in 0 .. MemorySize - 1 /\ sp - 1 = frame + 1
      /\ d > 0 => /\ Bottom(G[d], F[d]) \in 0 .. MemorySize - 1
                  /\ sp + RequiredSize(f) = Bottom(G[d], F[d])
  <2>1. frame >= 0 /\ sp - 1 = frame + 1
    BY <1>1, <1>2, <1>7, BaseFacts
  <2>2. sp <= MemorySize /\ MemorySize \in Nat
    BY <1>2, BaseFacts
  <2>3. ASSUME d > 0
        PROVE  /\ Bottom(G[d], F[d]) \in 0 .. MemorySize - 1
               /\ sp + RequiredSize(f) = Bottom(G[d], F[d])
    <3>1. d \in 1 .. d
      BY <1>5, <2>3
    <3>2. /\ Bottom(G[d], F[d]) \in Int /\ Bottom(G[d], F[d]) <= F[d] /\ 0 <= Base
          /\ Base <= H[d] /\ H[d] <= Bottom(G[d], F[d]) /\ F[d] \in 0 .. MemorySize - 1
          /\ H[d] \in Int /\ Base \in Nat
      BY <1>3, <1>5, <3>1, PlacedFacts DEF Stack
    <3>3. sp + RequiredSize(f) = Bottom(G[d], F[d])
      <4>1. sp = Bottom(G[d], F[d]) - RequiredSize(f)
        BY <1>4, <2>3
      <4>2. RequiredSize(f) \in Int /\ Bottom(G[d], F[d]) \in Int /\ sp \in Int
        BY <1>2, <1>6, <3>2
      <4> HIDE DEF frame, f
      <4> QED
        BY <4>1, <4>2
    <3>4. Bottom(G[d], F[d]) \in 0 .. MemorySize - 1
      <4>1. 0 <= Bottom(G[d], F[d])
        BY <3>2
      <4>2. Bottom(G[d], F[d]) <= MemorySize - 1
        BY <3>2, BaseFacts
      <4> QED
        BY <3>2, <4>1, <4>2, BaseFacts
    <3> QED
      BY <3>3, <3>4
  <2> QED
    BY <1>2, <2>1, <2>2, <2>3
<1>9. /\ mem' \in Memories
      /\ \A c \in 0 .. MemorySize - 1 : c < gp \/ c > frame + 1 => mem'[c] = mem[c]
      /\ mem'[frame + 1] = ra /\ mem'[frame] = fp
      /\ \A i \in 1 .. in : mem'[Cell(f, i, frame)] = args[i]
  BY EnterCells
<1>10. /\ scope' \in Seq(SUBSET Nat) /\ Len(scope') = d + 1 /\ scope'[d + 1] = 1 .. Params[f]
       /\ \A k \in 1 .. d : scope'[k] = scope[k]
  <2>1. 1 .. Params[f] \in SUBSET Nat
    BY <1>6
  <2> QED
    BY <1>1, <1>2, <1>5, <2>1
<1>11. ASSUME NEW i \in 1 .. Params[f], Kinds[f][i] = "string"
       PROVE  mem'[Cell(f, i, frame)] \in 0 .. gp - 1
  <2>1. CASE i <= in
    <3>1. args[i] \in 0 .. gp - 1 /\ i \in 1 .. in
      BY <1>4, <1>6, <1>11, <2>1
    <3> QED
      BY <1>9, <3>1
  <2>2. CASE ~ (i <= in)
    <3>1. mem[Cell(f, i, frame)] \in 0 .. gp - 1
      BY <1>4, <1>11, <2>2
    <3>2. d > 0
      <4>1. Params[Main] = 0
        BY MainFacts
      <4> QED
        BY <1>4, <1>5, <4>1
    <3>3. Cell(f, i, frame) = frame + 1 + i - in
      <4>1. i \in 1 .. Len(Kinds[f]) /\ i <= Params[f]
        BY <1>6
      <4> QED
        BY <1>2, <1>7, <2>2, <4>1, CellIs
    <3>4. Cell(f, i, frame) \in 0 .. MemorySize - 1 /\ Cell(f, i, frame) > frame + 1
      <4> HIDE DEF frame, in, f
      <4>1. frame \in Int /\ in \in Nat /\ i \in Int /\ in < i /\ i <= Params[f] /\ Params[f] \in Nat
        BY <1>6, <1>7, <2>2
      <4>2. Cell(f, i, frame) > frame + 1
        BY <3>3, <4>1
      <4>3. Cell(f, i, frame) < sp + RequiredSize(f)
        <5>1. RequiredSize(f) = 1 + Params[f] - in /\ sp = frame + 2
          BY <1>2, <1>6 DEF frame
        <5>2. frame + 1 + i - in < frame + 2 + (1 + Params[f] - in)
          BY <4>1
        <5> QED
          BY <3>3, <5>1, <5>2
      <4>4. Bottom(G[d], F[d]) \in 0 .. MemorySize - 1 /\ sp + RequiredSize(f) = Bottom(G[d], F[d])
        BY <1>8, <3>2
      <4>5. frame >= 0 /\ MemorySize \in Nat /\ Cell(f, i, frame) \in Int
        BY <1>8, <3>3, <4>1, BaseFacts
      <4> QED
        BY <4>2, <4>3, <4>4, <4>5, <4>1
    <3> QED
      BY <1>9, <3>1, <3>4
  <2> QED
    BY <2>1, <2>2
<1>12. Grows(mem, mem', scope, scope', F, G, H, d, f, frame, gp)
  <2>1. /\ mem' \in Memories /\ f \in Functions /\ frame \in Int /\ gp \in Int
        /\ Base <= gp /\ gp <= Bottom(f, frame) /\ frame + 1 < MemorySize
    BY <1>1, <1>2, <1>7, <1>8, <1>9, BaseFacts
  <2>2. gp > 0 => mem'[gp - 1] = 0
    <3>1. ASSUME gp > 0
          PROVE  gp - 1 \in 0 .. MemorySize - 1 /\ gp - 1 < gp
      BY <1>2, <3>1, BaseFacts
    <3> QED
      BY <1>4, <1>9, <3>1
  <2>3. d = 0 => frame = MemorySize - 2 /\ f = Main /\ mem'[frame] = MemorySize
                 /\ mem'[frame + 1] = 0
    BY <1>4, <1>9
  <2>4. ASSUME d > 0
        PROVE  /\ Top(f, frame) = Bottom(G[d], F[d]) /\ gp = H[d]
               /\ mem'[frame] = F[d] /\ mem'[frame + 1] \in DOMAIN Sites
               /\ Sites[mem'[frame + 1]].caller = G[d] /\ Sites[mem'[frame + 1]].callee = f
               /\ mem'[Top(f, frame) - 1] = gp
    <3>1. Top(f, frame) = Bottom(G[d], F[d]) /\ sp + RequiredSize(f) = Top(f, frame)
      BY <1>7, <1>8, <2>4
    <3>2. Top(f, frame) - 1 > frame + 1 /\ Top(f, frame) - 1 \in 0 .. MemorySize - 1
      <4>1. RequiredSize(f) \in Nat /\ RequiredSize(f) > 0 /\ frame \in Int /\ sp = frame + 2
        BY <1>2, <1>6, <1>7
      <4>2. Top(f, frame) = frame + 2 + RequiredSize(f)
        BY <3>1, <4>1
      <4>3. Top(f, frame) \in 0 .. MemorySize - 1 /\ frame >= 0 /\ MemorySize \in Nat
        BY <1>8, <2>4, <3>1, BaseFacts
      <4> HIDE DEF frame, f
      <4> QED
        BY <4>1, <4>2, <4>3
    <3>3. mem'[Top(f, frame) - 1] = gp
      <4>1. Top(f, frame) - 1 = sp + RequiredSize(here) - 1
        BY <1>2, <1>6, <3>1
      <4>2. mem[sp + RequiredSize(here) - 1] = gp
        BY <1>4, <2>4
      <4>3. mem'[Top(f, frame) - 1] = mem[Top(f, frame) - 1]
        BY <1>9, <3>2
      <4> QED
        BY <4>1, <4>2, <4>3
    <3> QED
      BY <1>4, <1>9, <2>4, <3>1, <3>3
  <2>5. 1 .. Params[f] \subseteq 1 .. Len(Kinds[f])
    BY <1>6
  <2> QED
    BY <1>9, <1>10, <1>11, <2>1, <2>2, <2>3, <2>4, <2>5 DEF Grows
<1>13. PICK F2, G2, H2 : /\ Stack(mem', scope', F2, G2, H2, d + 1)
                         /\ Agree(F, F2, d) /\ Agree(G, G2, d) /\ Agree(H, H2, d)
                         /\ F2[d + 1] = frame /\ G2[d + 1] = f /\ H2[d + 1] = gp
  BY <1>3, <1>5, <1>12, PushSome
<1>14. PICK e : e = d + 1
  OBVIOUS
<1>15. Position(e, F2, G2, H2)'
  <2>1. Running(e, F2, G2)' /\ H2[e] = gp' /\ doing'.step = "body"
    BY <1>1, <1>5, <1>7, <1>13, <1>14 DEF Running, Idle
  <2> QED
    BY <2>1 DEF Position, CopySteps
<1>16. TypeOK'
  <2>1. mem' \in [0 .. MemorySize - 1 -> Int]
    BY <1>9 DEF Memories
  <2>2. gp' <= sp' /\ sp' <= fp' /\ sp' \in Int /\ fp' \in Int /\ fp' <= MemorySize
    BY <1>1, <1>2, <1>7, <1>8, BaseFacts
  <2>3. doing' \in [step : {"enter", "body", "first", "join", "second", "set", "place", "finish",
                            "receive", "received", "returned", "stopped"},
                    dest : Nat, at : Int, x : Int, c : Int]
    BY <1>1 DEF Idle
  <2>4. /\ args' \in [1 .. ParamRegisters -> Int] /\ saved' \in [SavedRegisters -> Int]
        /\ here' \in Functions
    BY <1>1, <1>2 DEF TypeOK
  <2>5. {sp', fp', ra', gp', v0', v1'} \subseteq Int
    BY <1>1, <1>2, <2>2 DEF TypeOK
  <2>6. Base <= gp'
    BY <1>1, <1>2 DEF TypeOK
  <2>7. scope' \in Seq(SUBSET Nat)
    BY <1>10
  <2> QED
    BY <2>1, <2>2, <2>3, <2>4, <2>5, <2>6, <2>7 DEF TypeOK
<1>17. e = Depth' /\ Agree(scope, scope', d)
  BY <1>10, <1>14 DEF Depth, Agree
<1>18. Position(d + 1, F2, G2, H2)'
  BY <1>14, <1>15
<1>19. At(d, F, G, H) /\ scope'[d + 1] = 1 .. Params[f]
  BY <1>3, <1>10 DEF At
<1> QED
  BY <1>13, <1>14, <1>16, <1>17, <1>18, <1>19

\* So the frames are as the next step requires.
LEMMA EnterStep ==
  ASSUME IInv, Enter
  PROVE  IInv'
<1>1. PICK d, F2, G2, H2 : /\ d + 1 = Depth' /\ Stack(mem', scope', F2, G2, H2, d + 1)
                           /\ Position(d + 1, F2, G2, H2)'
  BY EnterFrames
<1>2. PICK e : e = d + 1
  OBVIOUS
<1>3. Stack(mem', scope', F2, G2, H2, e) /\ Position(e, F2, G2, H2)'
  BY <1>1, <1>2
<1>4. TypeOK'
  BY EnterFrames
<1> QED
  BY <1>1, <1>2, <1>3, <1>4 DEF IInv

\* Pop, for some frames.
LEMMA PopSome ==
  ASSUME NEW d \in Nat \ {0}, NEW m, NEW sc, NEW sc2, NEW F, NEW G, NEW H,
         Stack(m, sc, F, G, H, d), Agree(sc, sc2, d - 1)
  PROVE  \E F2, G2, H2 : /\ Stack(m, sc2, F2, G2, H2, d - 1)
                         /\ Agree(F, F2, d - 1) /\ Agree(G, G2, d - 1) /\ Agree(H, H2, d - 1)
<1> DEFINE F2 == [k \in 1 .. d - 1 |-> F[k]]
           G2 == [k \in 1 .. d - 1 |-> G[k]]
           H2 == [k \in 1 .. d - 1 |-> H[k]]
<1>1. Stack(m, sc2, F2, G2, H2, d - 1)
  BY Pop DEF Agree
<1>2. Agree(F, F2, d - 1) /\ Agree(G, G2, d - 1) /\ Agree(H, H2, d - 1)
  BY DEF Agree
<1> HIDE DEF F2, G2, H2
<1> QED
  BY <1>1, <1>2

\* An epilogue takes the last frame from the stack, and the caller's is the last again.
LEMMA LeaveFrames ==
  ASSUME IInv, NEW i \in DOMAIN Kinds[here], Leave(i)
  PROVE  /\ TypeOK'
         /\ \E d, F, G, H, F2, G2, H2 :
              /\ At(d, F, G, H)
              /\ d - 1 = Depth' /\ Stack(mem', scope', F2, G2, H2, d - 1)
              /\ Position(d - 1, F2, G2, H2)' /\ Agree(scope, scope', d - 1)
              /\ Agree(F, F2, d - 1) /\ Agree(G, G2, d - 1) /\ Agree(H, H2, d - 1)
<1>1. /\ InBody /\ i \in Here /\ Kinds[here][i] = Returns[here]
      /\ v0' = Var(i)
      /\ saved' \in [SavedRegisters -> Int]
      /\ ra' = mem[fp + 1] /\ sp' = fp + 2 /\ fp' = mem[fp]
      /\ doing' = [Idle EXCEPT !.step = IF ra' = 0 THEN "stopped" ELSE "returned"]
      /\ here' = IF ra' \in DOMAIN Sites THEN Sites[ra'].caller ELSE Main
      /\ scope' = SubSeq(scope, 1, Len(scope) - 1)
      /\ UNCHANGED <<mem, gp, v1, args>>
  BY DEF Leave, Epilogue, Variables, AnyRegisters
<1>2. /\ TypeOK /\ gp \in Int /\ sp \in Int /\ saved \in [SavedRegisters -> Int]
      /\ scope \in Seq(SUBSET Nat)
  BY <1>1, BodyFacts DEF TypeOK
<1>3. PICK d, F, G, H : /\ d = Depth /\ Stack(mem, scope, F, G, H, d)
                        /\ Running(d, F, G) /\ H[d] = gp
                        /\ d > 0 /\ fp = F[d] /\ here = G[d] /\ sp = Bottom(here, fp)
  BY <1>1, BodyFacts
<1>4. /\ mem \in Memories /\ d \in Nat \ {0} /\ d \in 1 .. d /\ d = Len(scope) /\ Base <= gp
      /\ sp <= fp /\ fp < MemorySize /\ fp \in Int /\ gp <= sp /\ here \in Functions
      /\ H[d] \in Int
  BY <1>2, <1>3, RunningFacts
<1>5. /\ gp > 0 => mem[gp - 1] = 0
      /\ i \in 1 .. Len(Kinds[here]) /\ Var(i) \in Int
      /\ Kinds[here][i] = "string" => Var(i) \in 0 .. gp - 1
  <2>1. /\ gp > 0 => mem[gp - 1] = 0
        /\ Here \subseteq 1 .. Len(Kinds[here])
        /\ \A j \in 1 .. Len(Kinds[here]) : Var(j) \in Int
    BY <1>2, <1>3, RunningFacts
  <2>2. \A j \in Here : Kinds[here][j] = "string" => Var(j) \in 0 .. gp - 1
    BY <1>2, <1>3, RunningFacts
  <2> QED
    BY <1>1, <2>1, <2>2
<1>6. /\ scope' \in Seq(SUBSET Nat) /\ Len(scope') = d - 1
      /\ \A k \in 1 .. d - 1 : scope'[k] = scope[k]
  BY <1>1, <1>2, <1>4
<1>7. PICK e : e = d - 1
  OBVIOUS
<1>8. PICK F2, G2, H2 :
        /\ Stack(mem, scope', F2, G2, H2, d - 1)
        /\ Agree(F, F2, d - 1) /\ Agree(G, G2, d - 1) /\ Agree(H, H2, d - 1)
  <2>1. Agree(scope, scope', d - 1)
    BY <1>6 DEF Agree
  <2> QED
    BY <1>3, <1>4, <2>1, PopSome
<1>9. /\ Stack(mem', scope', F2, G2, H2, e) /\ e = Depth'
      /\ \A k \in 1 .. e : F2[k] = F[k] /\ G2[k] = G[k] /\ H2[k] = H[k]
  BY <1>1, <1>6, <1>7, <1>8 DEF Depth, Agree
<1>10. Placed(F, G, H, d) /\ Linked(mem, F, G, H, d)
  BY <1>3 DEF Stack
<1>11. saved' \in [SavedRegisters -> Int]
  BY <1>1
<1>12. doing' \in [step : {"stopped", "returned"}, dest : {0}, at : {0}, x : {0}, c : {0}]
       /\ doing'.step = IF ra' = 0 THEN "stopped" ELSE "returned"
  BY <1>1 DEF Idle
<1>13. ASSUME d = 1
       PROVE  TypeOK' /\ Position(e, F2, G2, H2)'
  <2>1. fp = MemorySize - 2 /\ mem[fp] = MemorySize /\ mem[fp + 1] = 0
    BY <1>3, <1>10, <1>13 DEF Placed, Linked
  <2>2. ra' = 0 /\ fp' = MemorySize /\ sp' = MemorySize /\ here' = Main
    <3>1. ra' = 0 /\ fp' = MemorySize /\ sp' = MemorySize
      BY <1>1, <2>1, BaseFacts
    <3>2. 0 \notin DOMAIN Sites
      BY SiteFacts
    <3> QED
      BY <1>1, <3>1, <3>2
  <2>3. Position(e, F2, G2, H2)'
    <3>1. doing'.step = "stopped" /\ e = 0
      BY <1>7, <1>12, <1>13, <2>2
    <3> QED
      BY <3>1 DEF Position, CopySteps
  <2>4. TypeOK'
    <3>1. gp' <= sp' /\ sp' <= fp' /\ fp' <= MemorySize /\ {sp', fp', ra', v0'} \subseteq Int
      BY <1>1, <1>2, <1>4, <1>5, <2>2, BaseFacts, SMTT(30)
    <3>2. doing' \in [step : {"enter", "body", "first", "join", "second", "set", "place", "finish",
                              "receive", "received", "returned", "stopped"},
                      dest : Nat, at : Int, x : Int, c : Int]
      BY <1>12
    <3>3. here' \in Functions
      BY <2>2, MainFacts
    <3> QED
      BY <1>1, <1>2, <1>6, <1>11, <3>1, <3>2, <3>3 DEF TypeOK
  <2> QED
    BY <2>3, <2>4
<1>14. ASSUME d # 1
       PROVE  TypeOK' /\ Position(e, F2, G2, H2)'
  <2>1. e \in 1 .. d - 1 /\ e \in 1 .. d /\ e + 1 = d /\ e \in 1 .. e
    BY <1>4, <1>7, <1>14
  <2>2. /\ mem[fp] = F[e] /\ mem[fp + 1] \in DOMAIN Sites
        /\ Sites[mem[fp + 1]].caller = G[e] /\ Sites[mem[fp + 1]].callee = here
        /\ mem[Top(here, fp) - 1] = H[e]
    BY <1>3, <1>10, <2>1 DEF Linked
  <2>3. Top(here, fp) = Bottom(G[e], F[e]) /\ H[e] <= gp
    <3>1. \A k \in 1 .. d - 1 : Top(G[k + 1], F[k + 1]) = Bottom(G[k], F[k])
      BY <1>10 DEF Placed
    <3>2. \A k, l \in 1 .. d : k < l => H[k] <= H[l]
      BY <1>10 DEF Placed
    <3>3. Top(G[e + 1], F[e + 1]) = Bottom(G[e], F[e])
      BY <2>1, <3>1
    <3>4. e < d
      BY <1>4, <1>7
    <3> QED
      BY <1>3, <1>4, <2>1, <3>2, <3>3, <3>4
  <2>4. /\ F[e] \in Int /\ Bottom(G[e], F[e]) <= F[e] /\ Bottom(G[e], F[e]) \in Int
        /\ F[e] \in 0 .. MemorySize - 1 /\ H[e] \in Int /\ MemorySize \in Nat
    BY <1>4, <1>10, <2>1, PlacedFacts
  <2>5. /\ ra' \in DOMAIN Sites /\ ra' \in Nat \ {0} /\ Sites[ra'].caller = here'
        /\ Sites[ra'].callee = here /\ here' = G2[e] /\ fp' = F2[e] /\ H2[e] = H[e]
        /\ here' \in Functions
    BY <1>1, <1>9, <2>1, <2>2, SiteFacts
  <2>6. RequiredSize(here) \in Nat \ {0}
    BY <1>4, FunctionFacts
  <2>7. /\ sp' = Bottom(here', fp') - RequiredSize(here)
        /\ sp' + RequiredSize(here) - 1 = Top(here, fp) - 1
    <3>1. Top(here, fp) = fp + 2 + RequiredSize(here)
      BY DEF Top
    <3>2. Bottom(here', fp') = Top(here, fp)
      BY <1>9, <2>1, <2>3, <2>5
    <3> QED
      BY <1>1, <1>4, <2>6, <3>1, <3>2
  <2>8. gp' <= sp' /\ sp' <= fp' /\ fp' <= MemorySize /\ sp' \in Int /\ fp' \in Int /\ gp' \in Int
    <3>1. gp' = gp /\ sp' = fp + 2 /\ gp <= fp
      BY <1>1, <1>2, <1>4
    <3>2. fp' = F[e] /\ Bottom(here', fp') <= fp' /\ Bottom(here', fp') \in Int
      BY <1>9, <2>1, <2>4, <2>5
    <3>3. sp' <= Bottom(here', fp')
      BY <2>6, <2>7, <3>2
    <3> QED
      BY <1>2, <1>4, <2>4, <3>1, <3>2, <3>3
  <2>9. Returns[here] = "string" => v0' \in 0 .. gp' - 1 /\ mem'[gp' - 1] = 0
    <3>1. ASSUME Returns[here] = "string"
          PROVE  v0' \in 0 .. gp - 1 /\ mem[gp - 1] = 0
      <4>1. v0' \in 0 .. gp - 1
        BY <1>1, <1>5, <3>1
      <4> QED
        BY <1>2, <1>5, <4>1
    <3> QED
      BY <1>1, <3>1
  <2>10. doing'.step = "returned"
    BY <1>12, <2>5
  <2>11. Position(e, F2, G2, H2)'
    <3>1. /\ sp' = Bottom(here', fp') - RequiredSize(Sites[ra'].callee)
          /\ mem'[sp' + RequiredSize(Sites[ra'].callee) - 1] = H2[e] /\ H2[e] <= gp'
      BY <1>1, <2>2, <2>3, <2>5, <2>7
    <3>2. Returning(e, F2, G2, H2)'
      BY <2>1, <2>5, <2>9, <3>1 DEF Returning
    <3> QED
      BY <2>10, <3>2 DEF Position, CopySteps
  <2>12. TypeOK'
    <3>1. doing' \in [step : {"enter", "body", "first", "join", "second", "set", "place", "finish",
                              "receive", "received", "returned", "stopped"},
                      dest : Nat, at : Int, x : Int, c : Int]
      BY <1>12
    <3>2. {sp', fp', ra', gp', v0', v1'} \subseteq Int
      BY <1>1, <1>2, <1>5, <2>5, <2>8, SMTT(30) DEF TypeOK
    <3> QED
      BY <1>1, <1>2, <1>6, <1>11, <2>5, <2>8, <3>1, <3>2 DEF TypeOK
  <2> QED
    BY <2>11, <2>12
<1>15. TypeOK' /\ Position(e, F2, G2, H2)'
  BY <1>13, <1>14
<1>16. Position(d - 1, F2, G2, H2)'
  BY <1>7, <1>15
<1>17. Position(d, F, G, H)
  BY <1>1, <1>3 DEF Position, InBody, CopySteps
<1>18. /\ Stack(mem', scope', F2, G2, H2, d - 1) /\ d - 1 = Depth'
       /\ Agree(scope, scope', d - 1)
  BY <1>6, <1>7, <1>9 DEF Agree
<1> QED
  BY <1>3, <1>8, <1>15, <1>16, <1>17, <1>18 DEF At

\* So the frames are as the next step requires.
LEMMA LeaveStep ==
  ASSUME IInv, NEW i \in DOMAIN Kinds[here], Leave(i)
  PROVE  IInv'
<1>1. /\ TypeOK'
      /\ \E d, F2, G2, H2 :
           /\ d - 1 = Depth' /\ Stack(mem', scope', F2, G2, H2, d - 1)
           /\ Position(d - 1, F2, G2, H2)'
  BY LeaveFrames
<1>2. PICK d, F2, G2, H2 : /\ d - 1 = Depth' /\ Stack(mem', scope', F2, G2, H2, d - 1)
                           /\ Position(d - 1, F2, G2, H2)'
  BY <1>1
<1>3. PICK e : e = d - 1
  OBVIOUS
<1>4. Stack(mem', scope', F2, G2, H2, e) /\ Position(e, F2, G2, H2)'
  BY <1>2, <1>3
<1> QED
  BY <1>1, <1>2, <1>3, <1>4 DEF IInv

\* The heap that the caller gets back still holds, above its end, what is returned.
LEMMA AfterCallStep ==
  ASSUME IInv, NEW s \in DOMAIN Sites, AfterCall(s)
  PROVE  IInv'
<1> DEFINE site == Sites[s]
           required == RequiredSize(site.callee)
           heap == mem[sp + required - 1]
<1>1. /\ doing.step = "returned" /\ ra = s /\ gp' = heap /\ sp' = sp + required
      /\ UNCHANGED <<fp, args, here>> /\ saved' \in [SavedRegisters -> Int]
  BY DEF AfterCall, AnyRegisters
<1>2. /\ TypeOK /\ gp \in Int /\ sp \in Int /\ gp <= sp
  BY DEF IInv, TypeOK
<1>3. PICK d, F, G, H : d = Depth /\ Stack(mem, scope, F, G, H, d) /\ Position(d, F, G, H)
  BY DEF IInv
<1>4. /\ d > 0 /\ fp = F[d] /\ here = G[d] /\ Sites[s].caller = here
      /\ sp = Bottom(here, fp) - required /\ heap = H[d] /\ H[d] <= gp
      /\ Returns[site.callee] = "string" => v0 \in 0 .. gp - 1 /\ mem[gp - 1] = 0
  BY <1>1, <1>3 DEF Position, Returning
<1>5. /\ mem \in Memories /\ d \in Nat \ {0} /\ d \in 1 .. d /\ d = Len(scope) /\ Base <= H[d]
      /\ Bottom(here, fp) \in Int /\ Bottom(here, fp) <= fp /\ fp < MemorySize /\ fp \in Int
      /\ H[d] \in Int /\ here \in Functions /\ scope \in Seq(SUBSET Nat)
      /\ H[d] <= Bottom(here, fp) /\ DOMAIN Kinds[here] = 1 .. Len(Kinds[here])
  BY <1>2, <1>3, <1>4, RunningFacts
<1>6. /\ s \in Nat \ {0} /\ site.callee \in Functions /\ site.dest \in Nat
      /\ site.dest # 0 => /\ site.dest \in DOMAIN Kinds[here]
                          /\ Kinds[here][site.dest] = Returns[site.callee]
  BY <1>4, SiteFacts
<1>7. required \in Nat
  BY <1>6, FunctionFacts
<1>8. /\ sp' = Bottom(here, fp) /\ gp' = H[d] /\ gp' \in Int /\ Base <= gp' /\ gp' <= sp'
      /\ sp' \in Int /\ sp' <= fp'
  <2>1. sp' = Bottom(here, fp)
    BY <1>1, <1>2, <1>4, <1>5, <1>7
  <2> QED
    BY <1>1, <1>4, <1>5, <2>1
<1> HIDE DEF required, heap
<1>9. CASE IsString(here, site.dest)
  <2>1. /\ v1' = v0 /\ v0' = heap /\ ra' = Clobbered
        /\ doing' = [step |-> "receive", dest |-> site.dest, at |-> heap, x |-> s, c |-> 0]
        /\ mem' = mem /\ scope' = scope
    BY <1>9 DEF AfterCall, State, heap, required
  <2>2. site.dest \in 1 .. Len(Kinds[here]) /\ Returns[site.callee] = "string"
    BY <1>5, <1>6, <1>9 DEF IsString
  <2>3. v0 \in 0 .. gp - 1 /\ mem[gp - 1] = 0
    BY <1>4, <2>2
  <2>4. Stack(mem', scope', F, G, H, d) /\ d = Depth'
    BY <1>3, <2>1 DEF Depth
  <2>5. /\ doing'.step = "receive" /\ doing'.at = H[d] /\ doing'.dest = site.dest
        /\ doing' \in [step : {"enter", "body", "first", "join", "second", "set", "place",
                               "finish", "receive", "received", "returned", "stopped"},
                       dest : Nat, at : Int, x : Int, c : Int]
    BY <1>4, <1>5, <1>6, <2>1
  <2>6. v1' \in 0 .. H[d] - 1 \/ (H[d] <= v1' /\ \E q \in v1' .. sp' - 1 : mem'[q] = 0)
    <3>1. CASE v0 < H[d]
      <4>1. v0 \in 0 .. H[d] - 1
        BY <1>5, <2>3, <3>1
      <4> QED
        BY <2>1, <4>1
    <3>2. CASE ~ (v0 < H[d])
      <4>1. gp - 1 \in v0 .. sp' - 1
        <5>1. gp <= sp' /\ gp \in Int
          BY <1>1, <1>2, <1>4, <1>5, <1>7, <1>8
        <5> QED
          BY <1>8, <2>3, <5>1
      <4>2. H[d] <= v0
        BY <1>5, <2>3, <3>2
      <4> QED
        BY <2>1, <2>3, <4>1, <4>2
    <3> QED
      BY <3>1, <3>2
  <2>7. Copied'
    BY <1>4, <1>8, <2>1, <2>5, <2>6 DEF Copied
  <2>8. Position(d, F, G, H)'
    <3>1. Running(d, F, G)'
      BY <1>1, <1>4, <1>8 DEF Running
    <3>2. doing'.at <= gp'
      BY <1>5, <1>8, <2>5
    <3>3. Copying(d, F, G, H)'
      BY <1>1, <2>2, <2>5, <2>7, <3>1, <3>2 DEF Copying
    <3>4. doing'.step \in CopySteps
      BY <2>5 DEF CopySteps
    <3> QED
      BY <2>5, <3>3, <3>4 DEF Position
  <2>9. TypeOK'
    <3>1. Clobbered \in Int
      <4>1. Len(Sites) \in Nat
        BY SitesAssumption
      <4> QED
        BY <4>1 DEF Clobbered
    <3>2. {sp', fp', ra', gp', v0', v1'} \subseteq Int
      BY <1>1, <1>2, <1>4, <1>5, <1>8, <2>1, <3>1 DEF TypeOK
    <3> QED
      BY <1>1, <1>2, <1>8, <2>1, <2>5, <3>2 DEF TypeOK
  <2> QED
    BY <2>4, <2>8, <2>9 DEF IInv
<1>10. CASE ~ IsString(here, site.dest)
  <2> DEFINE V == {site.dest} \ {0}
             cells == [c \in {Cell(here, i, fp) : i \in V} |-> v0]
  <2>1. /\ Write(cells) /\ scope' = [scope EXCEPT ![Len(scope)] = @ \cup V]
        /\ doing' = Idle /\ UNCHANGED <<v0, v1, ra>>
    BY <1>10 DEF AfterCall
  <2>2. V \in SUBSET (1 .. Len(Kinds[here])) /\ \A i \in V : i \in Nat /\ Kinds[here][i] # "string"
    BY <1>5, <1>6, <1>10 DEF IsString
  <2>3. DOMAIN cells = {Cell(here, i, fp) : i \in V} /\ \A c \in DOMAIN cells : cells[c] \in Int
    BY <1>2 DEF TypeOK
  <2> HIDE DEF cells
  <2>4. /\ mem' \in Memories
        /\ \A c \in 0 .. MemorySize - 1 : c \notin DOMAIN cells => mem'[c] = mem[c]
    BY <1>5, <2>1, <2>3, WriteFacts
  <2> HIDE DEF V
  <2>5. /\ scope' \in Seq(SUBSET Nat) /\ Len(scope') = d /\ scope'[d] = scope[d] \cup V
        /\ \A k \in 1 .. d - 1 : scope'[k] = scope[k]
    <3>1. scope[d] \cup V \in SUBSET Nat
      <4>1. scope[d] \in SUBSET Nat
        BY <1>5
      <4>2. \A i \in V : i \in Nat
        BY <2>2
      <4> QED
        BY <4>1, <4>2
    <3>2. scope' = [scope EXCEPT ![d] = scope[d] \cup V] /\ DOMAIN scope = 1 .. d
      BY <1>5, <2>1
    <3>3. scope' \in Seq(SUBSET Nat) /\ Len(scope') = d
      BY <1>5, <3>1, <3>2, ExceptSeq
    <3> QED
      BY <1>5, <3>2, <3>3
  <2>6. PICK H2 : Stack(mem', scope', F, G, H2, d) /\ H2[d] = H[d]
    <3>1. \A c \in 0 .. MemorySize - 1 :
            \/ c < H[d]
            \/ c >= Bottom(G[d], F[d]) /\ \A i \in V : c # Cell(G[d], i, F[d])
            => mem'[c] = mem[c]
      <4> TAKE c \in 0 .. MemorySize - 1
      <4>1. ASSUME c < H[d]
            PROVE  c \notin DOMAIN cells
        <5>1. ASSUME NEW i \in V
              PROVE  c # Cell(here, i, fp)
          <6>1. i \in 1 .. Len(Kinds[here])
            BY <2>2
          <6>2. Bottom(here, fp) <= Cell(here, i, fp) /\ Cell(here, i, fp) \in Int
            BY <1>5, <6>1, CellPlace
          <6> QED
            BY <1>5, <4>1, <6>2
        <5> QED
          BY <2>3, <5>1
      <4>2. ASSUME \A i \in V : c # Cell(G[d], i, F[d])
            PROVE  c \notin DOMAIN cells
        BY <1>4, <2>3, <4>2
      <4> QED
        BY <2>4, <4>1, <4>2
    <3>2. V \in SUBSET (1 .. Len(Kinds[G[d]])) /\ \A i \in V : Kinds[G[d]][i] # "string"
      BY <1>4, <2>2
    <3>3. H[d] <= Bottom(G[d], F[d])
      BY <1>4, <1>5
    <3>4. Rises(mem, mem', scope, scope', F, G, H, d, H[d], V)
      <4>1. scope'[d] \subseteq scope[d] \cup V /\ \A k \in 1 .. d - 1 : scope'[k] = scope[k]
        BY <2>5
      <4> QED
        BY <1>5, <3>1, <3>2, <3>3, <4>1 DEF Rises
    <3> QED
      BY <1>3, <1>5, <3>4, RestackSome
  <2>7. Position(d, F, G, H2)'
    <3>1. Running(d, F, G)' /\ H2[d] = gp' /\ doing'.step = "body"
      BY <1>1, <1>4, <1>8, <2>1, <2>6 DEF Running, Idle
    <3> QED
      BY <3>1 DEF Position, CopySteps
  <2>8. TypeOK'
    <3>1. mem' \in [0 .. MemorySize - 1 -> Int]
      BY <2>4 DEF Memories
    <3>2. doing' \in [step : {"enter", "body", "first", "join", "second", "set", "place", "finish",
                              "receive", "received", "returned", "stopped"},
                      dest : Nat, at : Int, x : Int, c : Int]
      BY <2>1 DEF Idle
    <3>3. {sp', fp', ra', gp', v0', v1'} \subseteq Int
      BY <1>1, <1>2, <1>8, <2>1 DEF TypeOK
    <3> QED
      BY <1>1, <1>2, <1>8, <2>5, <3>1, <3>2, <3>3 DEF TypeOK
  <2>9. d = Depth'
    BY <2>5 DEF Depth
  <2> QED
    BY <2>6, <2>7, <2>8, <2>9 DEF IInv
<1> QED
  BY <1>9, <1>10

-----------------------------------------------------------------------------
(***************************************************************************)
(* Every behaviour                                                         *)
(***************************************************************************)

\* What is read are strings; constants are in the memory.
LEMMA InputFacts ==
  /\ \A line \in Lines : line \in Seq(Int)
  /\ \A p \in Pointers : p \in 0 .. Base - 1
<1>1. ASSUME NEW p \in Pointers
      PROVE  p \in 0 .. Base - 1
  BY MemoryAssumption DEF Base
<1> DEFINE m == InitialMemory
<1>2. m \in Memories /\ (Base > 0 => m[Base - 1] = 0)
  BY InitMemory
<1>3. \A line \in Lines : \E p \in Pointers : line = StringAt(m, p)
  BY DEF Lines
<1> HIDE DEF m
<1>4. ASSUME NEW p \in Pointers
      PROVE  StringAt(m, p) \in Seq(Int)
  <2>1. p \in Nat /\ Base - 1 \in Nat /\ p <= Base - 1 /\ Base - 1 < MemorySize /\ m[Base - 1] = 0
    BY <1>1, <1>2, BaseFacts
  <2> QED
    BY <1>2, <2>1, StringFacts
<1> QED
  BY <1>1, <1>3, <1>4

\* Nothing changes.
LEMMA StutterStep ==
  ASSUME IInv, UNCHANGED vars
  PROVE  IInv'
<1>1. UNCHANGED <<mem, sp, fp, ra, gp, v0, v1, args, saved, here, doing, scope>>
  BY DEF vars, registers
<1>2. TypeOK'
  BY <1>1 DEF IInv, TypeOK
<1>3. PICK d, F, G, H : d = Depth /\ Stack(mem, scope, F, G, H, d) /\ Position(d, F, G, H)
  BY DEF IInv
<1>4. d = Depth' /\ Stack(mem', scope', F, G, H, d)
  BY <1>1, <1>3 DEF Depth
<1>5. Position(d, F, G, H)'
  BY <1>1, <1>3 DEF Position, Running, Entering, Returning, Copying, Copied, CopySteps
<1> QED
  BY <1>2, <1>4, <1>5 DEF IInv

\* Every statement keeps the invariant.
LEMMA StatementStep ==
  ASSUME IInv, Statement
  PROVE  IInv'
<1>1. \A kind : Variables(here, kind) \subseteq DOMAIN Kinds[here]
  BY DEF Variables
<1>2. \A i \in Variables(here, "word") : Kinds[here][i] # "string"
  BY DEF Variables
<1>3. CASE \E s \in DOMAIN Sites : Call(s)
  BY <1>3, CallStep
<1>4. CASE \E i \in Variables(here, "word"), w \in Words : SetCell(i, w)
  <2>1. PICK i \in Variables(here, "word"), w \in Words : SetCell(i, w)
    BY <1>4
  <2>2. w \in Int
    BY MemoryAssumption
  <2>3. i \in DOMAIN Kinds[here] /\ Kinds[here][i] # "string"
    BY <1>1, <1>2
  <2> QED
    BY <2>1, <2>2, <2>3, SetCellStep
<1>5. CASE UseRegisters
  BY <1>5, UseRegistersStep
<1>6. ASSUME NEW line \in Lines, SkipLine(line)
      PROVE  IInv'
  BY <1>6, InputFacts, SkipLineStep
<1>7. ASSUME NEW i \in Variables(here, "string"), NEW p \in Pointers, SetCell(i, p)
      PROVE  IInv'
  <2>1. p \in 0 .. Base - 1 /\ p \in Int
    BY InputFacts
  <2>2. i \in DOMAIN Kinds[here]
    BY <1>1
  <2> QED
    BY <1>7, <2>1, <2>2, SetCellStep
<1>8. ASSUME NEW i \in Variables(here, "string"), NEW c \in Chars, Cast(i, c)
      PROVE  IInv'
  <2>1. c \in Int /\ i \in DOMAIN Kinds[here]
    BY <1>1, MemoryAssumption
  <2> QED
    BY <1>8, <2>1, CastStep
<1>9. ASSUME NEW i \in Variables(here, "string"), NEW line \in Lines, ReadString(i, line)
      PROVE  IInv'
  <2>1. line \in Seq(Int) /\ i \in DOMAIN Kinds[here]
    BY <1>1, InputFacts
  <2> QED
    BY <1>9, <2>1, ReadStringStep
<1>10. ASSUME NEW i \in Variables(here, "string"), NEW j \in Variables(here, "string"),
             NEW k \in Variables(here, "string"), Strcat(i, j, k)
      PROVE  IInv'
  <2>1. i \in DOMAIN Kinds[here]
    BY <1>1
  <2> QED
    BY <1>10, <2>1, StrcatStep
<1>11. ASSUME NEW i \in Variables(here, "string"), NEW j \in Variables(here, "string"),
              NEW c \in Chars, SetAt(i, j, c)
       PROVE  IInv'
  <2>1. i \in DOMAIN Kinds[here]
    BY <1>1
  <2> QED
    BY <1>11, <2>1, SetAtStep
<1> QED
  BY <1>3, <1>4, <1>5, <1>6, <1>7, <1>8, <1>9, <1>10, <1>11 DEF Statement

\* Every step keeps the invariant.
LEMMA StepHolds == IInv /\ [Next]_vars => IInv'
<1> SUFFICES ASSUME IInv, [Next]_vars
             PROVE  IInv'
  OBVIOUS
<1>1. CASE Statement
  BY <1>1, StatementStep
<1>2. CASE Continue
  BY <1>2, EnterStep, CopyByteStep, JoinStep, PlaceStep, EndCopyStep, AfterCallStep DEF Continue
<1>3. CASE \E i \in DOMAIN Kinds[here] : Leave(i)
  BY <1>3, LeaveStep
<1>4. CASE UNCHANGED vars
  BY <1>4, StutterStep
<1> QED
  BY <1>1, <1>2, <1>3, <1>4 DEF Next

\* In every state of every emitted program the calls in progress are on the stack, one
\* below the other, linked to their callers, and their strings lie in the heap they know.
THEOREM Invariance == Spec => []IInv
<1>1. Init => IInv
  BY InitHolds
<1>2. IInv /\ [Next]_vars => IInv'
  BY StepHolds
<1> QED
  BY <1>1, <1>2, PTL DEF Spec

\* Whatever has been called, the entry code, the argument pushes and the epilogues move
\* the stack pointer so that a function finds it where it left it.
LEMMA Balanced ==
  ASSUME IInv
  PROVE  StackBalanced
<1> SUFFICES ASSUME doing.step \notin {"enter", "returned", "stopped"}
             PROVE  sp = fp - Slots(here) - Len(Uses[here])
  BY DEF StackBalanced
<1>1. PICK d, F, G, H : d = Depth /\ Stack(mem, scope, F, G, H, d) /\ Position(d, F, G, H)
  BY DEF IInv
<1>2. doing.step \in {"body"} \cup CopySteps
  BY DEF IInv, TypeOK, CopySteps
<1>3. Running(d, F, G)
  BY <1>1, <1>2 DEF Position, Copying
<1> QED
  BY <1>3 DEF Running, Bottom

-----------------------------------------------------------------------------
(***************************************************************************)
(* What the stack tells about the calls in progress                        *)
(***************************************************************************)

\* The chain of saved frame pointers gives the frames.
LEMMA FrameIs ==
  ASSUME NEW d \in Nat, d = Depth, NEW F \in [1 .. d -> Int], d > 0 => fp = F[d],
         \A k \in 1 .. d - 1 : mem[F[k + 1]] = F[k]
  PROVE  Frame = F
<1> DEFINE P(f) == f = [k \in 1 .. d |-> IF k = d THEN fp ELSE mem[f[k + 1]]]
<1>1. Frame = CHOOSE f : P(f)
  BY DEF Frame
<1>2. P(F)
  <2>1. ASSUME NEW k \in 1 .. d
        PROVE  F[k] = IF k = d THEN fp ELSE mem[F[k + 1]]
    <3>1. CASE k = d
      BY <3>1
    <3>2. CASE k # d
      <4>1. k \in 1 .. d - 1
        BY <3>2
      <4> QED
        BY <3>2, <4>1
    <3> QED
      BY <3>1, <3>2
  <2> QED
    BY <2>1
<1>3. P(Frame)
  <2> HIDE DEF P
  <2> QED
    BY <1>1, <1>2
<1> HIDE <1>1
<1>4. /\ DOMAIN Frame = 1 .. d
      /\ \A k \in 1 .. d : Frame[k] = IF k = d THEN fp ELSE mem[Frame[k + 1]]
  BY <1>3
<1>5. ASSUME NEW k \in 1 .. d, Frame[k] # F[k]
      PROVE  FALSE
  <2> DEFINE T == {n \in Nat : n < d /\ Frame[d - n] # F[d - n]}
  <2>1. d - k \in T
    <3>1. d - k \in Nat /\ d - k < d /\ d - (d - k) = k
      OBVIOUS
    <3> QED
      BY <1>5, <3>1
  <2>2. PICK n \in T : \A z \in T : n <= z
    BY <2>1, SmallestNat
  <2>3. n \in Nat /\ n < d /\ Frame[d - n] # F[d - n] /\ d - n \in 1 .. d
    BY <2>2
  <2>4. CASE n = 0
    <3>1. d - n = d
      BY <2>3, <2>4
    <3>2. Frame[d] = fp /\ fp = F[d]
      BY <1>4, <2>3, <3>1
    <3> QED
      BY <2>3, <3>1, <3>2
  <2>5. CASE n # 0
    <3>1. /\ d - n \in 1 .. d - 1 /\ d - n # d /\ n - 1 \in Nat /\ n - 1 < d /\ ~ (n <= n - 1)
          /\ d - n + 1 = d - (n - 1)
      BY <2>3, <2>5
    <3>2. Frame[d - (n - 1)] = F[d - (n - 1)]
      BY <2>2, <3>1
    <3>3. Frame[d - n] = mem[Frame[d - n + 1]]
      BY <1>4, <2>3, <3>1
    <3>4. mem[F[d - n + 1]] = F[d - n]
      BY <3>1
    <3> QED
      BY <2>3, <3>1, <3>2, <3>3, <3>4
  <2> QED
    BY <2>4, <2>5
<1>6. Frame = [k \in 1 .. d |-> Frame[k]] /\ F = [k \in 1 .. d |-> F[k]]
  <2>1. Frame = [k \in 1 .. d |-> Frame[k]]
    BY <1>3
  <2>2. F = [k \in 1 .. d |-> F[k]]
    OBVIOUS
  <2> QED
    BY <2>1, <2>2
<1>7. \A k \in 1 .. d : Frame[k] = F[k]
  BY <1>5
<1> QED
  BY <1>6, <1>7

\* An assigned string ends in the part of the heap that its call knows: what the callees
\* append, and what is taken back when they return, is above it.
LEMMA StringsBelow ==
  ASSUME IInv
  PROVE  StringsBelowHeap
<1>1. PICK d, F, G, H : d = Depth /\ Stack(mem, scope, F, G, H, d) /\ Position(d, F, G, H)
  BY DEF IInv
<1>2. Placed(F, G, H, d) /\ Linked(mem, F, G, H, d) /\ Owned(mem, scope, F, G, H, d)
  BY <1>1 DEF Stack
<1>3. /\ d \in Nat /\ F \in [1 .. d -> Int] /\ mem \in Memories
      /\ doing.step \in {"enter", "body", "returned", "stopped"} \cup CopySteps
  BY <1>1, <1>2 DEF Placed, IInv, TypeOK, Depth, Memories, CopySteps
<1>4. d > 0 => fp = F[d] /\ doing.step # "stopped"
  BY <1>1, <1>3 DEF Position, Running, Entering, Returning, Copying
<1>5. Frame = F
  BY <1>1, <1>2, <1>3, <1>4, FrameIs DEF Linked
<1>6. ASSUME NEW k \in 1 .. d
      PROVE  FunctionsIn(F)[k] = G[k] /\ Heap(k, F, FunctionsIn(F)) = H[k]
  <2>1. \A l \in 1 .. d : FunctionsIn(F)[l] = Function(l, F)
    BY <1>1 DEF FunctionsIn
  <2>2. \A l \in 1 .. d : l < Depth \/ l = Depth
    BY <1>1, <1>3
  <2>3. ASSUME NEW l \in 1 .. d
        PROVE  FunctionsIn(F)[l] = G[l]
    <3>1. CASE l < Depth
      <4>1. l \in 1 .. d - 1
        BY <1>1, <1>3, <3>1
      <4>2. Sites[mem[F[l + 1] + 1]].caller = G[l]
        BY <1>2, <4>1 DEF Linked
      <4> QED
        BY <2>1, <3>1, <4>2 DEF Function
    <3>2. CASE l = Depth
      <4>1. d > 0 /\ l = d /\ ~ (l < Depth)
        BY <1>1, <1>3, <3>2
      <4>2. doing.step = "enter" => Sites[ra].caller = G[d]
        BY <1>1, <4>1 DEF Position, Entering
      <4>3. doing.step # "enter" => here = G[d]
        BY <1>1, <1>3, <1>4, <4>1 DEF Position, Running, Returning, Copying
      <4> QED
        BY <2>1, <4>1, <4>2, <4>3 DEF Function
    <3> QED
      BY <2>2, <3>1, <3>2
  <2>4. CASE k < Depth
    <3>1. k \in 1 .. d - 1 /\ k + 1 \in 1 .. d
      BY <1>1, <1>3, <2>4
    <3>2. mem[Top(G[k + 1], F[k + 1]) - 1] = H[k]
      BY <1>2, <3>1 DEF Linked
    <3>3. Top(G[k + 1], F[k + 1]) - 1 = F[k + 1] + 1 + RequiredSize(G[k + 1])
      <4>1. F[k + 1] \in Int /\ G[k + 1] \in Functions
        BY <1>2, <3>1 DEF Placed
      <4>2. RequiredSize(G[k + 1]) \in Nat
        BY <4>1, FunctionFacts
      <4> QED
        BY <4>1, <4>2 DEF Top
    <3>4. FunctionsIn(F)[k + 1] = G[k + 1]
      BY <2>3, <3>1
    <3> QED
      BY <2>3, <2>4, <3>2, <3>3, <3>4 DEF Heap
  <2>5. CASE k = Depth
    <3>1. d > 0 /\ k = d /\ ~ (k < Depth)
      BY <1>1, <1>3, <2>5
    <3>2. doing.step \in {"body", "enter"} => H[d] = gp
      BY <1>1, <3>1 DEF Position, Entering
    <3>3. doing.step = "returned" => mem[sp + RequiredSize(Sites[ra].callee) - 1] = H[d]
      BY <1>1 DEF Position, Returning
    <3>4. doing.step \in CopySteps => H[d] = doing.at
      BY <1>1 DEF Position, Copying
    <3>5. Heap(k, F, FunctionsIn(F)) = H[d]
      <4>1. CASE doing.step \in {"body", "enter"}
        BY <3>1, <3>2, <4>1 DEF Heap
      <4>2. CASE doing.step = "returned"
        BY <3>1, <3>3, <4>2 DEF Heap
      <4>3. CASE doing.step \in CopySteps
        BY <3>1, <3>4, <4>3 DEF Heap, CopySteps
      <4> QED
        BY <1>3, <1>4, <3>1, <4>1, <4>2, <4>3
    <3> QED
      BY <2>3, <3>1, <3>5
  <2> QED
    BY <2>2, <2>3, <2>4, <2>5
<1>7. ASSUME NEW k \in 1 .. Depth,
             NEW i \in scope[k] \cap Variables(FunctionsIn(F)[k], "string")
      PROVE  mem[Cell(FunctionsIn(F)[k], i, F[k])]
               + Len(StringAt(mem, mem[Cell(FunctionsIn(F)[k], i, F[k])]))
               < Heap(k, F, FunctionsIn(F))
  <2>1. k \in 1 .. d /\ FunctionsIn(F)[k] = G[k] /\ Heap(k, F, FunctionsIn(F)) = H[k]
    BY <1>1, <1>6
  <2>2. i \in scope[k] /\ Kinds[G[k]][i] = "string"
    BY <2>1 DEF Variables
  <2> DEFINE p == mem[Cell(G[k], i, F[k])]
  <2>3. p \in 0 .. H[k] - 1 /\ (H[k] > 0 => mem[H[k] - 1] = 0)
    BY <1>2, <2>1, <2>2 DEF Owned
  <2>4. /\ H[k] \in Int /\ H[k] <= Bottom(G[k], F[k]) /\ Bottom(G[k], F[k]) <= F[k]
        /\ F[k] \in 0 .. MemorySize - 1 /\ Bottom(G[k], F[k]) \in Int /\ MemorySize \in Nat
    BY <1>2, <1>3, <2>1, PlacedFacts
  <2> HIDE DEF p
  <2>5. p \in Nat /\ H[k] - 1 \in Nat /\ p <= H[k] - 1 /\ H[k] - 1 < MemorySize
        /\ mem[H[k] - 1] = 0
    <3>1. H[k] <= F[k]
      BY <2>4
    <3> QED
      BY <2>3, <2>4, <3>1
  <2>6. Len(StringAt(mem, p)) \in Nat /\ p + Len(StringAt(mem, p)) <= H[k] - 1
    BY <1>3, <2>5, StringFacts
  <2>7. p + Len(StringAt(mem, p)) < H[k]
    BY <2>4, <2>5, <2>6
  <2> QED
    BY <2>1, <2>7 DEF p
<1> QED
  BY <1>5, <1>7 DEF StringsBelowHeap, EndBelow
=============================================================================
