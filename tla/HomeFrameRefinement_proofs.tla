--------------------- MODULE HomeFrameRefinement_proofs ---------------------
(***************************************************************************)
(* The frames and the heap of an emitted program, with every variable in   *)
(* its cell, are the activations that the language promises: HomeFrame     *)
(* implements Activations, for any functions, parameters, calls and        *)
(* strings.                                                                *)
(***************************************************************************)
EXTENDS HomeFrame_proofs

-----------------------------------------------------------------------------
(***************************************************************************)
(* Strings in the memory                                                   *)
(***************************************************************************)

\* The memory spells s at p, and a 0 after it.
Spelt(m, p, s) ==
  /\ s \in Seq(Int) /\ p + Len(s) < MemorySize /\ m[p + Len(s)] = 0
  /\ \A k \in 1 .. Len(s) : s[k] # 0 /\ m[p + k - 1] = s[k]

\* What is spelt is the string.
LEMMA SpeltIs ==
  ASSUME NEW m, NEW p \in Nat, NEW s, Spelt(m, p, s)
  PROVE  StringAt(m, p) = s
<1> DEFINE Ends(n) == /\ p + n = MemorySize \/ m[p + n] = 0
                      /\ \A k \in 0 .. n - 1 : m[p + k] # 0
           e == CHOOSE n \in 0 .. MemorySize - p : Ends(n)
           l == Len(s)
<1>1. /\ s \in Seq(Int) /\ l \in Nat /\ p + l < MemorySize /\ m[p + l] = 0 /\ MemorySize \in Nat
      /\ \A k \in 1 .. l : s[k] # 0 /\ m[p + k - 1] = s[k]
  BY BaseFacts DEF Spelt
<1> HIDE DEF l
<1>2. ASSUME NEW k \in 0 .. l - 1
      PROVE  m[p + k] # 0
  <2>1. k + 1 \in 1 .. l /\ p + (k + 1) - 1 = p + k
    BY <1>1
  <2> QED
    BY <1>1, <2>1
<1>3. l \in 0 .. MemorySize - p /\ Ends(l)
  BY <1>1, <1>2
<1>4. e \in 0 .. MemorySize - p /\ Ends(e)
  BY <1>3
<1>5. StringAt(m, p) = [k \in 1 .. e |-> m[p + k - 1]]
  BY DEF StringAt
<1> HIDE DEF e
<1>6. e = l
  <2>1. CASE e < l
    <3>1. e \in 0 .. l - 1 /\ p + e # MemorySize
      BY <1>1, <1>4, <2>1
    <3> QED
      BY <1>2, <1>4, <3>1
  <2>2. CASE l < e
    <3>1. l \in 0 .. e - 1
      BY <1>1, <1>4, <2>2
    <3> QED
      BY <1>1, <1>4, <3>1
  <2> QED
    BY <1>1, <1>4, <2>1, <2>2
<1>7. s = [k \in 1 .. l |-> s[k]]
  BY <1>1 DEF l
<1> QED
  BY <1>1, <1>5, <1>6, <1>7

\* A string that has a 0 at or after its start is spelt.
LEMMA StringIsSpelt ==
  ASSUME NEW m \in Memories, NEW p \in Nat, NEW q \in Nat, p <= q, q < MemorySize, m[q] = 0
  PROVE  Spelt(m, p, StringAt(m, p)) /\ p + Len(StringAt(m, p)) <= q
<1> DEFINE Ends(n) == /\ p + n = MemorySize \/ m[p + n] = 0
                      /\ \A k \in 0 .. n - 1 : m[p + k] # 0
           T == {n \in Nat : n <= q - p /\ m[p + n] = 0}
           e == CHOOSE n \in 0 .. MemorySize - p : Ends(n)
           s == StringAt(m, p)
<1>1. /\ s \in Seq(Int) /\ Len(s) \in Nat /\ p + Len(s) <= q /\ MemorySize \in Nat
      /\ \A k \in 0 .. Len(s) - 1 : m[p + k] # 0
  BY StringFacts, BaseFacts
<1>2. q - p \in T
  OBVIOUS
<1>3. PICK a \in T : \A b \in T : a <= b
  BY <1>2, SmallestNat
<1>4. a \in Nat /\ a <= q - p /\ m[p + a] = 0
  BY <1>3
<1>5. ASSUME NEW k \in 0 .. a - 1
      PROVE  m[p + k] # 0
  <2>1. k \in Nat /\ k <= q - p /\ ~ (a <= k)
    BY <1>4
  <2> QED
    BY <1>3, <2>1
<1>6. a \in 0 .. MemorySize - p /\ Ends(a)
  BY <1>1, <1>4, <1>5
<1>7. e \in 0 .. MemorySize - p /\ Ends(e)
  BY <1>6
<1>8. s = [k \in 1 .. e |-> m[p + k - 1]]
  BY DEF StringAt
<1>9. e = Len(s)
  <2>1. e \in Nat /\ DOMAIN s = 1 .. e
    BY <1>1, <1>7, <1>8
  <2> HIDE DEF e, s
  <2> QED
    BY <1>1, <2>1, LenProperties
<1> HIDE DEF e, s, T
<1>10. m[p + Len(s)] = 0
  BY <1>1, <1>7, <1>9
<1>11. ASSUME NEW k \in 1 .. Len(s)
       PROVE  s[k] # 0 /\ m[p + k - 1] = s[k]
  <2>1. s[k] = m[p + k - 1]
    BY <1>8, <1>9
  <2>2. k - 1 \in 0 .. Len(s) - 1 /\ p + (k - 1) = p + k - 1
    BY <1>1
  <2> QED
    BY <1>1, <2>1, <2>2
<1>12. Spelt(m, p, s) /\ p + Len(s) <= q
  BY <1>1, <1>10, <1>11 DEF Spelt
<1> QED
  BY <1>12 DEF s

\* A string stays what it is when nothing changes up to a 0 after its start.
LEMMA StringStays ==
  ASSUME NEW m \in Memories, NEW m2, NEW p \in Nat, NEW q \in Nat, p <= q, q < MemorySize,
         m[q] = 0, \A c \in 0 .. q : m2[c] = m[c]
  PROVE  StringAt(m2, p) = StringAt(m, p)
<1> DEFINE s == StringAt(m, p)
<1>1. /\ s \in Seq(Int) /\ p + Len(s) < MemorySize /\ m[p + Len(s)] = 0 /\ p + Len(s) <= q
      /\ Len(s) \in Nat /\ \A k \in 1 .. Len(s) : s[k] # 0 /\ m[p + k - 1] = s[k]
  BY StringIsSpelt DEF Spelt
<1> HIDE DEF s
<1>2. p + Len(s) \in 0 .. q
  BY <1>1
<1>3. \A k \in 1 .. Len(s) : p + k - 1 \in 0 .. q
  BY <1>1
<1>4. Spelt(m2, p, s)
  BY <1>1, <1>2, <1>3 DEF Spelt
<1> QED
  BY <1>4, SpeltIs DEF s

-----------------------------------------------------------------------------
(***************************************************************************)
(* The activations that the frames stand for                               *)
(***************************************************************************)

\* What a word means to the language.
Meant(m, kind, w) == IF kind = "string" THEN StringAt(m, w) ELSE w

Environment(m, sc, F, G, k) ==
  [i \in sc[k] |-> Meant(m, Kinds[G[k]][i], m[Cell(G[k], i, F[k])])]

View(m, sc, F, G, H, k) ==
  [f |-> G[k], by |-> m[F[k] + 1], env |-> Environment(m, sc, F, G, k), used |-> H[k] - Base]

Views(m, sc, F, G, H, d) == [k \in 1 .. d |-> View(m, sc, F, G, H, k)]

\* Where the properties look for the frames, the functions and the heap.
LEMMA FramesAre ==
  ASSUME TypeOK, NEW d, NEW F, NEW G, NEW H, At(d, F, G, H)
  PROVE  Frame = F /\ FunctionsIn(F) = G /\ \A k \in 1 .. d : Heap(k, F, G) = H[k]
<1>1. d = Depth /\ Stack(mem, scope, F, G, H, d) /\ Position(d, F, G, H)
  BY DEF At
<1>2. Placed(F, G, H, d) /\ Linked(mem, F, G, H, d)
  BY <1>1 DEF Stack
<1>3. /\ d \in Nat /\ F \in [1 .. d -> Int] /\ G \in [1 .. d -> Functions]
      /\ doing.step \in {"enter", "body", "returned", "stopped"} \cup CopySteps
  BY <1>1, <1>2 DEF Placed, TypeOK, Depth, CopySteps
<1>4. d > 0 => fp = F[d] /\ doing.step # "stopped"
  BY <1>1, <1>3 DEF Position, Running, Entering, Returning, Copying
<1>5. Frame = F
  BY <1>1, <1>2, <1>3, <1>4, FrameIs DEF Linked
<1>6. ASSUME NEW l \in 1 .. d
      PROVE  Function(l, F) = G[l]
  <2>1. CASE l < Depth
    <3>1. l \in 1 .. d - 1
      BY <1>1, <1>3, <2>1
    <3>2. Sites[mem[F[l + 1] + 1]].caller = G[l]
      BY <1>2, <3>1 DEF Linked
    <3> QED
      BY <2>1, <3>2 DEF Function
  <2>2. CASE ~ (l < Depth)
    <3>1. d > 0 /\ l = d
      BY <1>1, <1>3, <2>2
    <3>2. doing.step = "enter" => Sites[ra].caller = G[d]
      BY <1>1, <3>1 DEF Position, Entering
    <3>3. doing.step # "enter" => here = G[d]
      BY <1>1, <1>3, <1>4, <3>1 DEF Position, Running, Returning, Copying
    <3> QED
      BY <2>2, <3>1, <3>2, <3>3 DEF Function
  <2> QED
    BY <2>1, <2>2
<1>7. FunctionsIn(F) = G
  <2>1. FunctionsIn(F) = [l \in 1 .. d |-> Function(l, F)]
    BY <1>1 DEF FunctionsIn
  <2>2. G = [l \in 1 .. d |-> G[l]]
    BY <1>3
  <2> QED
    BY <1>6, <2>1, <2>2
<1>8. ASSUME NEW k \in 1 .. d
      PROVE  Heap(k, F, G) = H[k]
  <2>1. CASE k < Depth
    <3>1. k \in 1 .. d - 1 /\ k + 1 \in 1 .. d
      BY <1>1, <1>3, <2>1
    <3>2. mem[Top(G[k + 1], F[k + 1]) - 1] = H[k]
      BY <1>2, <3>1 DEF Linked
    <3>3. F[k + 1] \in Int /\ G[k + 1] \in Functions
      BY <1>3, <3>1
    <3>4. RequiredSize(G[k + 1]) \in Nat
      BY <3>3, FunctionFacts
    <3>5. Top(G[k + 1], F[k + 1]) - 1 = F[k + 1] + 1 + RequiredSize(G[k + 1])
      BY <3>3, <3>4 DEF Top
    <3> QED
      BY <2>1, <3>2, <3>5 DEF Heap
  <2>2. CASE ~ (k < Depth)
    <3>1. d > 0 /\ k = d
      BY <1>1, <1>3, <2>2
    <3>2. doing.step \in {"body", "enter"} => H[d] = gp
      BY <1>1, <3>1 DEF Position, Entering
    <3>3. doing.step = "returned" => mem[sp + RequiredSize(Sites[ra].callee) - 1] = H[d]
      BY <1>1 DEF Position, Returning
    <3>4. doing.step \in CopySteps => H[d] = doing.at
      BY <1>1 DEF Position, Copying
    <3>5. CASE doing.step \in {"body", "enter"}
      BY <2>2, <3>1, <3>2, <3>5 DEF Heap
    <3>6. CASE doing.step = "returned"
      BY <2>2, <3>1, <3>3, <3>6 DEF Heap
    <3>7. CASE doing.step \in CopySteps
      BY <2>2, <3>1, <3>4, <3>7 DEF Heap, CopySteps
    <3> QED
      BY <1>3, <1>4, <3>1, <3>5, <3>6, <3>7
  <2> QED
    BY <2>1, <2>2
<1> QED
  BY <1>5, <1>7, <1>8

\* The calls in progress are what the frames stand for.
LEMMA ViewsAre ==
  \A d, F, G, H : TypeOK /\ At(d, F, G, H) =>
    CallsInProgress = Views(mem, scope, F, G, H, d)
<1> SUFFICES ASSUME NEW d, NEW F, NEW G, NEW H, TypeOK, At(d, F, G, H)
             PROVE  CallsInProgress = Views(mem, scope, F, G, H, d)
  OBVIOUS
<1>1. Frame = F /\ FunctionsIn(F) = G /\ \A k \in 1 .. d : Heap(k, F, G) = H[k]
  BY FramesAre
<1>2. d = Depth
  BY DEF At
<1>3. CallsInProgress = CallsIn(F, G)
  BY <1>1 DEF CallsInProgress
<1>4. CallsIn(F, G) =
        [k \in 1 .. d |->
           [f |-> G[k], by |-> mem[F[k] + 1], env |-> Environment(mem, scope, F, G, k), used |-> Heap(k, F, G) - Base]]
  BY <1>2 DEF CallsIn, Environment, Meaning, Meant
<1>5. ASSUME NEW k \in 1 .. d
      PROVE  [f |-> G[k], by |-> mem[F[k] + 1], env |-> Environment(mem, scope, F, G, k), used |-> Heap(k, F, G) - Base]
             = View(mem, scope, F, G, H, k)
  BY <1>1 DEF View
<1> QED
  BY <1>3, <1>4, <1>5 DEF Views

\* The same after a step.
LEMMA ViewsAreNext ==
  \A d, F, G, H : TypeOK' /\ At(d, F, G, H)' =>
    CallsInProgress' = Views(mem', scope', F, G, H, d)
<1>1. (\A d, F, G, H : TypeOK /\ At(d, F, G, H) =>
         CallsInProgress = Views(mem, scope, F, G, H, d))'
  BY ViewsAre, PTL
<1> QED
  BY <1>1 DEF Views, View, Environment

\* Registers are saved below the variables of the frame.
LEMMA SaveCellPlace ==
  ASSUME NEW f \in Functions, NEW frame \in Int, NEW n \in DOMAIN Uses[f]
  PROVE  /\ SaveCell(f, n, frame) \in Int /\ Bottom(f, frame) <= SaveCell(f, n, frame)
         /\ SaveCell(f, n, frame) < frame
         /\ \A i \in 1 .. Len(Kinds[f]) : SaveCell(f, n, frame) < Cell(f, i, frame)
         /\ \A l \in DOMAIN Uses[f] : SaveCell(f, l, frame) = SaveCell(f, n, frame) => l = n
<1> DEFINE in == InRegisters(f)
           all == Len(Kinds[f])
           par == Params[f]
           sav == Len(Uses[f])
           slots == Slots(f)
<1>1. /\ in \in Nat /\ all \in Nat /\ par \in Nat /\ sav \in Nat /\ in <= par /\ par <= all
      /\ slots = in + all - par /\ slots \in Nat /\ DOMAIN Uses[f] = 1 .. sav
  BY FunctionFacts
<1>2. /\ Bottom(f, frame) = frame - slots - sav
      /\ \A l : SaveCell(f, l, frame) = frame - (slots + l)
  BY DEF Bottom, SaveCell
<1>3. \A i \in 1 .. all : Cell(f, i, frame) = IF i <= in THEN frame - i
                                             ELSE IF i <= par THEN frame + 1 + i - in
                                             ELSE frame - (in + i - par)
  BY CellIs
<1> HIDE DEF in, all, par, sav, slots
<1>4. n \in 1 .. sav
  BY <1>1
<1>5. /\ SaveCell(f, n, frame) \in Int /\ Bottom(f, frame) <= SaveCell(f, n, frame)
      /\ SaveCell(f, n, frame) < frame
  BY <1>1, <1>2, <1>4
<1>6. \A l \in 1 .. sav : SaveCell(f, l, frame) = SaveCell(f, n, frame) => l = n
  BY <1>1, <1>2, <1>4
<1>7. ASSUME NEW i \in 1 .. all
      PROVE  SaveCell(f, n, frame) < Cell(f, i, frame)
  <2>1. SaveCell(f, n, frame) < frame - slots /\ frame - slots <= frame
    BY <1>1, <1>2, <1>4
  <2>2. Cell(f, i, frame) >= frame - slots /\ Cell(f, i, frame) \in Int
    <3>1. CASE i <= in
      BY <1>1, <1>3, <3>1
    <3>2. CASE ~ (i <= in) /\ i <= par
      <4>1. Cell(f, i, frame) = frame + 1 + i - in
        BY <1>3, <3>2
      <4> QED
        BY <1>1, <3>2, <4>1
    <3>3. CASE ~ (i <= in) /\ ~ (i <= par)
      <4>1. Cell(f, i, frame) = frame - (in + i - par)
        BY <1>3, <3>3
      <4> QED
        BY <1>1, <3>3, <4>1
    <3> QED
      BY <3>1, <3>2, <3>3
  <2> QED
    BY <1>1, <1>5, <2>1, <2>2
<1> QED
  BY <1>1, <1>5, <1>6, <1>7 DEF all

\* The links lead from a frame to the one before it.
Follows(m, F, d) == \A k \in 1 .. d - 1 : m[F[k + 1]] = F[k]

\* They lead to the same frames whoever follows them.
LEMMA Chain ==
  ASSUME NEW d \in Nat \ {0}, NEW m, NEW F \in [1 .. d -> Int], NEW F2 \in [1 .. d -> Int],
         F2[d] = F[d], Follows(m, F, d), Follows(m, F2, d)
  PROVE  F2 = F
<1>1. ASSUME NEW k \in 1 .. d, F2[k] # F[k]
      PROVE  FALSE
  <2> DEFINE T == {n \in Nat : n < d /\ F2[d - n] # F[d - n]}
  <2>1. d - k \in T
    <3>1. d - k \in Nat /\ d - k < d /\ d - (d - k) = k
      OBVIOUS
    <3> QED
      BY <1>1, <3>1
  <2>2. PICK n \in T : \A z \in T : n <= z
    BY <2>1, SmallestNat
  <2>3. n \in Nat /\ n < d /\ F2[d - n] # F[d - n] /\ n # 0
    BY <2>2
  <2>4. /\ d - n \in 1 .. d - 1 /\ n - 1 \in Nat /\ n - 1 < d /\ ~ (n <= n - 1)
        /\ d - n + 1 = d - (n - 1)
    BY <2>3
  <2>5. F2[d - (n - 1)] = F[d - (n - 1)]
    BY <2>2, <2>4
  <2>6. m[F2[d - n + 1]] = F2[d - n] /\ m[F[d - n + 1]] = F[d - n]
    BY <2>4 DEF Follows
  <2> QED
    BY <2>3, <2>4, <2>5, <2>6
<1> QED
  BY <1>1

\* The same memory and the same last frame: the same frames and functions, and the same
\* heaps of the callers.
LEMMA SameStack ==
  ASSUME NEW d \in Nat \ {0}, NEW m, NEW F, NEW G, NEW H, NEW F2, NEW G2, NEW H2,
         Placed(F, G, H, d), Linked(m, F, G, H, d),
         Placed(F2, G2, H2, d), Linked(m, F2, G2, H2, d), F2[d] = F[d], G2[d] = G[d]
  PROVE  F2 = F /\ G2 = G /\ \A k \in 1 .. d - 1 : H2[k] = H[k]
<1>1. /\ F \in [1 .. d -> Int] /\ F2 \in [1 .. d -> Int]
      /\ G \in [1 .. d -> Functions] /\ G2 \in [1 .. d -> Functions]
  BY DEF Placed
<1>2. Follows(m, F, d) /\ Follows(m, F2, d)
  BY DEF Linked, Follows
<1>3. F2 = F
  BY <1>1, <1>2, Chain
<1>4. ASSUME NEW k \in 1 .. d
      PROVE  G2[k] = G[k]
  <2>1. CASE k = d
    BY <2>1
  <2>2. CASE k # d
    <3>1. k \in 1 .. d - 1
      BY <2>2
    <3> QED
      BY <1>3, <3>1 DEF Linked
  <2> QED
    BY <2>1, <2>2
<1>5. G2 = G
  BY <1>1, <1>4
<1>6. \A k \in 1 .. d - 1 : H2[k] = H[k]
  BY <1>3, <1>5 DEF Linked
<1> QED
  BY <1>3, <1>5, <1>6

-----------------------------------------------------------------------------
(***************************************************************************)
(* Steps inside a function                                                 *)
(***************************************************************************)

\* Nothing is written but the variables V of the last function and, from the end of the
\* heap it knows, what is below its frame.
Kept(m, m2, F, G, H, d, V) ==
  /\ V \in SUBSET (1 .. Len(Kinds[G[d]]))
  /\ \A c \in 0 .. MemorySize - 1 :
       \/ c < H[d]
       \/ c >= Bottom(G[d], F[d]) /\ \A i \in V : c # Cell(G[d], i, F[d])
       => m2[c] = m[c]

\* The heap, the links and the frames of the callers stay.
LEMMA KeptCells ==
  ASSUME NEW d \in Nat \ {0}, NEW m, NEW m2, NEW F, NEW G, NEW H, NEW V,
         Placed(F, G, H, d), Kept(m, m2, F, G, H, d, V), NEW c \in 0 .. MemorySize - 1,
         \/ c < H[d]
         \/ c >= Top(G[d], F[d]) - 1 \/ c = F[d] \/ c = F[d] + 1
         \/ \E k \in 1 .. d - 1 : c >= Bottom(G[k], F[k])
  PROVE  m2[c] = m[c]
<1>1. d \in 1 .. d /\ V \in SUBSET (1 .. Len(Kinds[G[d]]))
  BY DEF Kept
<1>2. /\ F[d] \in Int /\ G[d] \in Functions /\ Bottom(G[d], F[d]) <= F[d]
      /\ Bottom(G[d], F[d]) \in Int /\ Top(G[d], F[d]) \in Int /\ F[d] + 3 <= Top(G[d], F[d])
  BY <1>1, PlacedFacts
<1>3. \A i \in V : /\ Cell(G[d], i, F[d]) \in Int
                   /\ Cell(G[d], i, F[d]) < Top(G[d], F[d]) - 1
                   /\ Cell(G[d], i, F[d]) # F[d] /\ Cell(G[d], i, F[d]) # F[d] + 1
  BY <1>1, <1>2, CellPlace
<1>4. CASE c < H[d]
  BY <1>4 DEF Kept
<1>5. CASE c >= Top(G[d], F[d]) - 1 \/ c = F[d] \/ c = F[d] + 1
  <2>1. c >= Bottom(G[d], F[d])
    BY <1>2, <1>5
  <2>2. \A i \in V : c # Cell(G[d], i, F[d])
    BY <1>2, <1>3, <1>5
  <2> QED
    BY <2>1, <2>2 DEF Kept
<1>6. CASE \E k \in 1 .. d - 1 : c >= Bottom(G[k], F[k])
  <2>1. PICK k \in 1 .. d - 1 : c >= Bottom(G[k], F[k])
    BY <1>6
  <2>2. k \in 1 .. d /\ k < d
    OBVIOUS
  <2>3. Top(G[d], F[d]) <= Bottom(G[k], F[k])
    BY <1>1, <2>2 DEF Placed
  <2>4. Bottom(G[k], F[k]) \in Int
    BY <2>2, PlacedFacts
  <2>5. c >= Top(G[d], F[d]) - 1
    BY <1>2, <2>1, <2>3, <2>4
  <2> QED
    BY <1>5, <2>5
<1> QED
  BY <1>4, <1>5, <1>6

\* So the way back to the callers is the same.
LEMMA KeptLinks ==
  ASSUME NEW d \in Nat \ {0}, NEW m, NEW m2, NEW F, NEW G, NEW H, NEW V,
         Placed(F, G, H, d), Linked(m, F, G, H, d), Kept(m, m2, F, G, H, d, V)
  PROVE  Linked(m2, F, G, H, d) /\ \A k \in 1 .. d : m2[F[k] + 1] = m[F[k] + 1]
<1>1. ASSUME NEW k \in 1 .. d
      PROVE  /\ m2[F[k]] = m[F[k]] /\ m2[F[k] + 1] = m[F[k] + 1]
             /\ k # 1 => m2[Top(G[k], F[k]) - 1] = m[Top(G[k], F[k]) - 1]
  <2>1. /\ F[k] \in Int /\ G[k] \in Functions /\ Bottom(G[k], F[k]) <= F[k]
        /\ Bottom(G[k], F[k]) \in Int /\ Top(G[k], F[k]) \in Int
        /\ F[k] + 3 <= Top(G[k], F[k]) /\ MemorySize \in Nat
        /\ F[k] \in 0 .. MemorySize - 1 /\ F[k] + 1 \in 0 .. MemorySize - 1
    BY PlacedFacts
  <2>2. k = d \/ k \in 1 .. d - 1
    OBVIOUS
  <2>3. m2[F[k]] = m[F[k]]
    BY <2>1, <2>2, KeptCells
  <2>4. m2[F[k] + 1] = m[F[k] + 1]
    <3>1. F[k] + 1 >= Bottom(G[k], F[k])
      BY <2>1
    <3> QED
      BY <2>1, <2>2, <3>1, KeptCells
  <2>5. ASSUME k # 1
        PROVE  m2[Top(G[k], F[k]) - 1] = m[Top(G[k], F[k]) - 1]
    <3>1. 1 \in 1 .. d /\ 1 < k
      BY <2>5
    <3>2. Top(G[k], F[k]) <= Bottom(G[1], F[1])
      BY <3>1 DEF Placed
    <3>3. /\ Bottom(G[1], F[1]) \in Int /\ Bottom(G[1], F[1]) <= F[1] /\ F[1] \in Int
          /\ F[1] \in 0 .. MemorySize - 1
      BY <3>1, PlacedFacts
    <3>4. Top(G[k], F[k]) - 1 \in 0 .. MemorySize - 1
      BY <2>1, <3>2, <3>3
    <3>5. Top(G[k], F[k]) - 1 >= Bottom(G[k], F[k])
      BY <2>1
    <3> QED
      BY <2>2, <3>4, <3>5, KeptCells
  <2> QED
    BY <2>3, <2>4, <2>5
<1>2. m2[F[1]] = MemorySize /\ m2[F[1] + 1] = 0
  BY <1>1 DEF Linked
<1>3. ASSUME NEW k \in 1 .. d - 1
      PROVE  /\ m2[F[k + 1]] = m[F[k + 1]] /\ m2[F[k + 1] + 1] = m[F[k + 1] + 1]
             /\ m2[Top(G[k + 1], F[k + 1]) - 1] = m[Top(G[k + 1], F[k + 1]) - 1]
  <2>1. k + 1 \in 1 .. d /\ k + 1 # 1
    OBVIOUS
  <2> QED
    BY <1>1, <2>1
<1>4. Linked(m2, F, G, H, d)
  BY <1>2, <1>3 DEF Linked
<1> QED
  BY <1>1, <1>4

\* The frames after the step are the frames before it.
LEMMA NextFrames ==
  ASSUME NEW d \in Nat \ {0}, NEW m, NEW m2, NEW sc, NEW sc2, NEW F, NEW G, NEW H, NEW V,
         Stack(m, sc, F, G, H, d), Kept(m, m2, F, G, H, d, V),
         NEW F2, NEW G2, NEW H2, Stack(m2, sc2, F2, G2, H2, d), F2[d] = F[d], G2[d] = G[d]
  PROVE  F2 = F /\ G2 = G /\ \A k \in 1 .. d - 1 : H2[k] = H[k]
<1>1. Placed(F, G, H, d) /\ Linked(m, F, G, H, d)
  BY DEF Stack
<1>2. Placed(F2, G2, H2, d) /\ Linked(m2, F2, G2, H2, d)
  BY DEF Stack
<1>3. Linked(m2, F, G, H, d)
  BY <1>1, KeptLinks
<1> QED
  BY <1>1, <1>2, <1>3, SameStack

\* A string that a variable knows is below the end of its heap.
LEMMA KnownString ==
  ASSUME NEW d \in Nat, NEW m \in Memories, NEW sc, NEW F, NEW G, NEW H,
         Stack(m, sc, F, G, H, d), NEW k \in 1 .. d, NEW i \in sc[k], Kinds[G[k]][i] = "string"
  PROVE  LET w == m[Cell(G[k], i, F[k])]
         IN  /\ w \in Nat /\ H[k] - 1 \in Nat /\ w <= H[k] - 1 /\ H[k] - 1 < MemorySize
             /\ m[H[k] - 1] = 0 /\ H[k] \in Int
<1> DEFINE w == m[Cell(G[k], i, F[k])]
<1>1. Placed(F, G, H, d) /\ w \in 0 .. H[k] - 1 /\ (H[k] > 0 => m[H[k] - 1] = 0)
  BY DEF Stack, Owned
<1> HIDE DEF w
<1>2. /\ H[k] \in Int /\ H[k] <= Bottom(G[k], F[k]) /\ Bottom(G[k], F[k]) <= F[k]
      /\ Bottom(G[k], F[k]) \in Int /\ F[k] \in 0 .. MemorySize - 1 /\ MemorySize \in Nat
  BY <1>1, PlacedFacts
<1>3. H[k] <= F[k]
  BY <1>2
<1>4. /\ w \in Nat /\ H[k] - 1 \in Nat /\ w <= H[k] - 1 /\ H[k] - 1 < MemorySize
      /\ m[H[k] - 1] = 0
  BY <1>1, <1>2, <1>3
<1> QED
  BY <1>2, <1>4 DEF w

\* Where a variable is.
LEMMA VariablePlace ==
  ASSUME NEW d \in Nat, NEW m, NEW sc, NEW F, NEW G, NEW H,
         Stack(m, sc, F, G, H, d), NEW k \in 1 .. d, NEW i \in sc[k]
  PROVE  /\ i \in 1 .. Len(Kinds[G[k]]) /\ Cell(G[k], i, F[k]) \in 0 .. MemorySize - 1
         /\ Bottom(G[k], F[k]) <= Cell(G[k], i, F[k])
<1>1. Placed(F, G, H, d) /\ i \in 1 .. Len(Kinds[G[k]])
  BY DEF Stack, Owned
<1>2. G[k] \in Functions /\ F[k] \in Int /\ Cell(G[k], i, F[k]) \in 0 .. MemorySize - 1
  BY <1>1, PlacedFacts
<1> QED
  BY <1>1, <1>2, CellPlace

\* Nor anything else that its callers are made of.
LEMMA OtherView ==
  ASSUME NEW d \in Nat \ {0}, NEW m \in Memories, NEW m2, NEW sc, NEW sc2,
         NEW F, NEW G, NEW H, NEW H2, NEW V,
         Stack(m, sc, F, G, H, d), Kept(m, m2, F, G, H, d, V),
         NEW k \in 1 .. d - 1, sc2[k] = sc[k], H2[k] = H[k]
  PROVE  View(m2, sc2, F, G, H2, k) = View(m, sc, F, G, H, k)
<1>1. Placed(F, G, H, d) /\ Linked(m, F, G, H, d) /\ k \in 1 .. d /\ d \in 1 .. d /\ k < d
  BY DEF Stack
<1>2. m2[F[k] + 1] = m[F[k] + 1]
  BY <1>1, KeptLinks
<1>3. ASSUME NEW i \in sc[k]
      PROVE  Meant(m2, Kinds[G[k]][i], m2[Cell(G[k], i, F[k])])
             = Meant(m, Kinds[G[k]][i], m[Cell(G[k], i, F[k])])
  <2> DEFINE w == m[Cell(G[k], i, F[k])]
  <2>1. Cell(G[k], i, F[k]) \in 0 .. MemorySize - 1 /\ Bottom(G[k], F[k]) <= Cell(G[k], i, F[k])
    BY <1>1, VariablePlace
  <2>2. Bottom(G[k], F[k]) \in Int
    BY <1>1, PlacedFacts
  <2>3. m2[Cell(G[k], i, F[k])] = w
    BY <1>1, <2>1, <2>2, KeptCells
  <2>4. ASSUME Kinds[G[k]][i] = "string"
        PROVE  StringAt(m2, w) = StringAt(m, w)
    <3>1. /\ w \in Nat /\ H[k] - 1 \in Nat /\ w <= H[k] - 1 /\ H[k] - 1 < MemorySize
          /\ m[H[k] - 1] = 0 /\ H[k] \in Int
      BY <1>1, <2>4, KnownString
    <3> HIDE DEF w
    <3>2. H[k] <= H[d] /\ H[d] \in Int
      BY <1>1 DEF Placed
    <3>3. ASSUME NEW c \in 0 .. H[k] - 1
          PROVE  m2[c] = m[c]
      <4>1. c \in 0 .. MemorySize - 1 /\ c < H[d]
        BY <3>1, <3>2, BaseFacts
      <4> QED
        BY <1>1, <4>1, KeptCells
    <3> QED
      BY <3>1, <3>3, StringStays
  <2> QED
    BY <2>3, <2>4 DEF Meant
<1>4. Environment(m2, sc2, F, G, k) = Environment(m, sc, F, G, k)
  BY <1>3 DEF Environment
<1> QED
  BY <1>2, <1>4 DEF View

\* The variables of the last function when those in V have been assigned.
Changed(m, m2, sc, F, G, d, V) ==
  [i \in sc[d] \cup V |-> IF i \in V THEN Meant(m2, Kinds[G[d]][i], m2[Cell(G[d], i, F[d])])
                          ELSE Environment(m, sc, F, G, d)[i]]

Gains(sc, sc2, d, V) == sc2[d] = sc[d] \cup V

\* The last call in progress then.
AfterAll(m, m2, sc, F, G, H, d, V) ==
  [f |-> G[d], by |-> m[F[d] + 1], env |-> Changed(m, m2, sc, F, G, d, V), used |-> H[d] - Base]

\* What it changes of its own.
LEMMA OwnView ==
  ASSUME NEW d \in Nat \ {0}, NEW m \in Memories, NEW m2, NEW sc, NEW sc2,
         NEW F, NEW G, NEW H, NEW H2, NEW V,
         Stack(m, sc, F, G, H, d), Kept(m, m2, F, G, H, d, V), Gains(sc, sc2, d, V)
  PROVE  View(m2, sc2, F, G, H2, d) = AfterAll(m, m2, sc, F, G, H2, d, V)
<1>1. Placed(F, G, H, d) /\ Linked(m, F, G, H, d) /\ d \in 1 .. d
  BY DEF Stack
<1>2. m2[F[d] + 1] = m[F[d] + 1]
  BY <1>1, KeptLinks
<1>3. ASSUME NEW i \in sc[d] \ V
      PROVE  Meant(m2, Kinds[G[d]][i], m2[Cell(G[d], i, F[d])]) = Environment(m, sc, F, G, d)[i]
  <2> DEFINE w == m[Cell(G[d], i, F[d])]
  <2>1. /\ i \in 1 .. Len(Kinds[G[d]]) /\ Cell(G[d], i, F[d]) \in 0 .. MemorySize - 1
        /\ Bottom(G[d], F[d]) <= Cell(G[d], i, F[d])
    BY <1>1, VariablePlace
  <2>2. \A j \in V : Cell(G[d], i, F[d]) # Cell(G[d], j, F[d])
    <3>1. F[d] \in Int /\ G[d] \in Functions
      BY <1>1, PlacedFacts
    <3>2. V \in SUBSET (1 .. Len(Kinds[G[d]]))
      BY DEF Kept
    <3>3. ASSUME NEW j \in V, Cell(G[d], i, F[d]) = Cell(G[d], j, F[d])
          PROVE  FALSE
      <4>1. j \in 1 .. Len(Kinds[G[d]])
        BY <3>2
      <4>2. i = j
        BY <2>1, <3>1, <3>3, <4>1, CellsDiffer
      <4> QED
        BY <4>2
    <3> QED
      BY <3>3
  <2>3. m2[Cell(G[d], i, F[d])] = w
    BY <2>1, <2>2 DEF Kept
  <2>4. ASSUME Kinds[G[d]][i] = "string"
        PROVE  StringAt(m2, w) = StringAt(m, w)
    <3>1. /\ w \in Nat /\ H[d] - 1 \in Nat /\ w <= H[d] - 1 /\ H[d] - 1 < MemorySize
          /\ m[H[d] - 1] = 0 /\ H[d] \in Int
      BY <1>1, <2>4, KnownString
    <3> HIDE DEF w
    <3>2. ASSUME NEW c \in 0 .. H[d] - 1
          PROVE  m2[c] = m[c]
      <4>1. c \in 0 .. MemorySize - 1 /\ c < H[d]
        BY <3>1, BaseFacts
      <4> QED
        BY <1>1, <4>1, KeptCells
    <3> QED
      BY <3>1, <3>2, StringStays
  <2>5. Environment(m, sc, F, G, d)[i] = Meant(m, Kinds[G[d]][i], w)
    BY DEF Environment
  <2> QED
    BY <2>3, <2>4, <2>5 DEF Meant
<1>4. Environment(m2, sc2, F, G, d) = Changed(m, m2, sc, F, G, d, V)
  BY <1>3 DEF Environment, Changed, Gains
<1> QED
  BY <1>2, <1>4 DEF View, AfterAll

\* A view of the last function is a record of these.
LEMMA LastViewIs ==
  ASSUME NEW d \in Nat \ {0}, NEW m, NEW sc, NEW F, NEW G, NEW H
  PROVE  View(m, sc, F, G, H, d) =
           [f |-> G[d], by |-> m[F[d] + 1], env |-> Environment(m, sc, F, G, d),
            used |-> H[d] - Base]
BY DEF View

-----------------------------------------------------------------------------
(***************************************************************************)
(* The calls in progress as a sequence                                     *)
(***************************************************************************)

\* The members of a sequence of length n.
Members(s, n) == {s[k] : k \in 1 .. n}

\* A function on 1 .. n is a sequence of that length.
LEMMA IsSequence ==
  ASSUME NEW n \in Nat, NEW s, DOMAIN s = 1 .. n, s = [k \in 1 .. n |-> s[k]]
  PROVE  s \in Seq(Members(s, n)) /\ Len(s) = n /\ (n > 0 => s # <<>>)
<1> DEFINE S == Members(s, n)
<1>1. s \in [1 .. n -> S]
  BY DEF Members
<1> HIDE DEF S
<1>2. s \in Seq(S)
  BY <1>1
<1>3. Len(s) = n
  BY <1>2, LenProperties
<1>4. n > 0 => s # <<>>
  BY <1>2, <1>3, EmptySeq
<1> QED
  BY <1>2, <1>3, <1>4 DEF S

\* The views are one for every call in progress.
LEMMA ViewsFacts ==
  ASSUME NEW d \in Nat, NEW m, NEW sc, NEW F, NEW G, NEW H
  PROVE  LET s == Views(m, sc, F, G, H, d)
         IN  /\ s \in Seq(Members(s, d)) /\ Len(s) = d /\ DOMAIN s = 1 .. d
             /\ d > 0 => s # <<>> /\ s[d] = View(m, sc, F, G, H, d)
             /\ \A k \in 1 .. d : s[k] = View(m, sc, F, G, H, k)
             /\ s = [k \in 1 .. d |-> s[k]]
<1> DEFINE s == Views(m, sc, F, G, H, d)
<1>1. /\ DOMAIN s = 1 .. d /\ s = [k \in 1 .. d |-> s[k]]
      /\ \A k \in 1 .. d : s[k] = View(m, sc, F, G, H, k)
  BY DEF Views
<1> HIDE DEF s
<1>2. s \in Seq(Members(s, d)) /\ Len(s) = d /\ (d > 0 => s # <<>>)
  BY <1>1, IsSequence
<1>3. d > 0 => d \in 1 .. d
  OBVIOUS
<1> QED
  BY <1>1, <1>2, <1>3 DEF s

\* Statements change the last call in progress.
LEMMA Executes ==
  ASSUME NEW d \in Nat \ {0}, NEW S, NEW old \in Seq(S), Len(old) = d, NEW b, NEW new,
         new = [old EXCEPT ![d] = b], Language!Statement(old[d], b)
  PROVE  Language!Execute(old, new)
<1>1. DOMAIN old = 1 .. d /\ d \in 1 .. d /\ old # <<>>
  OBVIOUS
<1>2. new[d] = b /\ DOMAIN new = 1 .. d /\ \A k \in 1 .. d - 1 : new[k] = old[k]
  BY <1>1
<1>3. new \in Seq(S \cup {b})
  <2>1. new \in [1 .. d -> S \cup {b}]
    BY <1>1
  <2> QED
    BY <2>1
<1>4. Len(new) = d
  BY <1>2, <1>3, LenProperties
<1>5. SubSeq(new, 1, d - 1) = SubSeq(old, 1, d - 1)
  BY <1>1, <1>2, <1>3, <1>4
<1> QED
  BY <1>1, <1>2, <1>4, <1>5 DEF Language!Execute

\* Variables when i has been assigned v.
With(env, i, v) == [j \in (DOMAIN env) \cup {i} |-> IF j = i THEN v ELSE env[j]]

\* An assignment, spelled out.
LEMMA PutIs ==
  ASSUME NEW f, NEW by, NEW env, NEW used, NEW i, NEW v, NEW n, NEW a,
         a = [f |-> f, by |-> by, env |-> env, used |-> used]
  PROVE  Language!Put(a, i, v, n)
         = [f |-> f, by |-> by, env |-> With(env, i, v), used |-> used + n]
<1> DEFINE e == With(env, i, v)
<1>1. a.env = env /\ a.used = used /\ DOMAIN a = {"f", "by", "env", "used"}
  OBVIOUS
<1>2. Language!Put(a, i, v, n) = [a EXCEPT !.used = used + n, !.env = e]
  BY <1>1 DEF Language!Put, With
<1> HIDE DEF e
<1>3. [a EXCEPT !.used = used + n, !.env = e]
        = [f |-> f, by |-> by, env |-> e, used |-> used + n]
  <2> DEFINE b == [a EXCEPT !.used = used + n]
  <2>1. b = [f |-> f, by |-> by, env |-> env, used |-> used + n]
    BY <1>1
  <2>2. [a EXCEPT !.used = used + n, !.env = e] = [b EXCEPT !.env = e]
    OBVIOUS
  <2> HIDE DEF b
  <2>3. DOMAIN b = {"f", "by", "env", "used"}
    BY <2>1
  <2> QED
    BY <2>1, <2>2, <2>3
<1> QED
  BY <1>2, <1>3 DEF e

-----------------------------------------------------------------------------
(***************************************************************************)
(* The calls in progress before and after a step                           *)
(***************************************************************************)

\* What the invariant says of the next state.
LEMMA NextAt ==
  ASSUME IInv'
  PROVE  TypeOK' /\ \E d, F, G, H : At(d, F, G, H)'
BY DEF IInv, At

\* The last call in progress, and how many there are.
LEMMA CallsAre ==
  ASSUME TypeOK, NEW d \in Nat, NEW F, NEW G, NEW H, At(d, F, G, H)
  PROVE  /\ CallsInProgress = Views(mem, scope, F, G, H, d)
         /\ CallsInProgress \in Seq(Members(CallsInProgress, d))
         /\ Len(CallsInProgress) = d /\ DOMAIN CallsInProgress = 1 .. d
         /\ CallsInProgress = [k \in 1 .. d |-> CallsInProgress[k]]
         /\ \A k \in 1 .. d : CallsInProgress[k] = View(mem, scope, F, G, H, k)
         /\ d > 0 => /\ CallsInProgress # <<>>
                     /\ CallsInProgress[d] = View(mem, scope, F, G, H, d)
<1> DEFINE s == Views(mem, scope, F, G, H, d)
<1>1. CallsInProgress = s
  BY ViewsAre
<1>2. /\ s \in Seq(Members(s, d)) /\ Len(s) = d /\ DOMAIN s = 1 .. d
      /\ d > 0 => s # <<>> /\ s[d] = View(mem, scope, F, G, H, d)
      /\ \A k \in 1 .. d : s[k] = View(mem, scope, F, G, H, k)
      /\ s = [k \in 1 .. d |-> s[k]]
  BY ViewsFacts
<1> HIDE DEF s
<1>3. CallsInProgress = [k \in 1 .. d |-> CallsInProgress[k]]
  BY <1>1, <1>2
<1>4. CallsInProgress = Views(mem, scope, F, G, H, d)
  BY <1>1 DEF s
<1> QED
  BY <1>1, <1>2, <1>3, <1>4

\* A step of the last function changes the last call only.
LEMMA LastView ==
  ASSUME TypeOK, TypeOK', NEW d \in Nat \ {0}, NEW F, NEW G, NEW H, At(d, F, G, H),
         NEW F2, NEW G2, NEW H2, At(d, F2, G2, H2)', F2[d] = F[d], G2[d] = G[d],
         NEW V, Kept(mem, mem', F, G, H, d, V),
         \A k \in 1 .. d - 1 : scope'[k] = scope[k]
  PROVE  CallsInProgress' =
           [CallsInProgress EXCEPT ![d] = View(mem', scope', F, G, H2, d)]
<1>1. /\ Stack(mem, scope, F, G, H, d) /\ Stack(mem', scope', F2, G2, H2, d)
      /\ mem \in Memories /\ d \in 1 .. d
  BY DEF At, TypeOK, Memories
<1>2. F2 = F /\ G2 = G /\ \A k \in 1 .. d - 1 : H2[k] = H[k]
  BY <1>1, NextFrames
<1>3. CallsInProgress' = Views(mem', scope', F, G, H2, d)
  BY <1>2, ViewsAreNext
<1>4. /\ DOMAIN CallsInProgress = 1 .. d
      /\ CallsInProgress = [k \in 1 .. d |-> CallsInProgress[k]]
      /\ \A k \in 1 .. d : CallsInProgress[k] = View(mem, scope, F, G, H, k)
  BY CallsAre
<1> DEFINE new == View(mem', scope', F, G, H2, d)
<1>5. ASSUME NEW k \in 1 .. d
      PROVE  View(mem', scope', F, G, H2, k)
             = [CallsInProgress EXCEPT ![d] = new][k]
  <2>1. CASE k = d
    BY <1>4, <2>1
  <2>2. CASE k # d
    <3>1. k \in 1 .. d - 1
      BY <2>2
    <3>2. scope'[k] = scope[k] /\ H2[k] = H[k]
      BY <1>2, <3>1
    <3>3. View(mem', scope', F, G, H2, k) = View(mem, scope, F, G, H, k)
      BY <1>1, <3>1, <3>2, OtherView
    <3> QED
      BY <1>4, <2>2, <3>3
  <2> QED
    BY <2>1, <2>2
<1> HIDE DEF new
<1>6. [CallsInProgress EXCEPT ![d] = new]
        = [k \in 1 .. d |-> [CallsInProgress EXCEPT ![d] = new][k]]
  BY <1>4
<1>7. Views(mem', scope', F, G, H2, d) = [CallsInProgress EXCEPT ![d] = new]
  BY <1>5, <1>6 DEF Views
<1> QED
  BY <1>3, <1>7 DEF new

\* The last call itself, when no variable of it is assigned.
LEMMA SameView ==
  ASSUME NEW d \in Nat \ {0}, NEW m \in Memories, NEW m2, NEW sc, NEW sc2,
         NEW F, NEW G, NEW H, NEW H2,
         Stack(m, sc, F, G, H, d), Kept(m, m2, F, G, H, d, {}), sc2[d] = sc[d], H2[d] = H[d]
  PROVE  View(m2, sc2, F, G, H2, d) = View(m, sc, F, G, H, d)
<1>1. Changed(m, m2, sc, F, G, d, {}) = Environment(m, sc, F, G, d)
  BY DEF Changed, Environment
<1>2. Gains(sc, sc2, d, {})
  BY DEF Gains
<1>3. View(m2, sc2, F, G, H2, d) =
        [f |-> G[d], by |-> m[F[d] + 1], env |-> Environment(m, sc, F, G, d), used |-> H[d] - Base]
  BY <1>1, <1>2, OwnView DEF AfterAll
<1> QED
  BY <1>3, LastViewIs

\* Nothing that the language knows changes.
LEMMA Silent ==
  ASSUME TypeOK, TypeOK', NEW d \in Nat \ {0}, NEW F, NEW G, NEW H, At(d, F, G, H),
         NEW F2, NEW G2, NEW H2, At(d, F2, G2, H2)', F2[d] = F[d], G2[d] = G[d], H2[d] = H[d],
         Kept(mem, mem', F, G, H, d, {}), scope' = scope
  PROVE  CallsInProgress' = CallsInProgress
<1>1. Stack(mem, scope, F, G, H, d) /\ mem \in Memories
  BY DEF At, TypeOK, Memories
<1>2. CallsInProgress' =
        [CallsInProgress EXCEPT ![d] = View(mem', scope', F, G, H2, d)]
  BY <1>1, LastView
<1>3. View(mem', scope', F, G, H2, d) = View(mem, scope, F, G, H, d)
  BY <1>1, SameView
<1>4. /\ DOMAIN CallsInProgress = 1 .. d /\ CallsInProgress[d] = View(mem, scope, F, G, H, d)
      /\ CallsInProgress = [k \in 1 .. d |-> CallsInProgress[k]]
  BY CallsAre
<1> QED
  BY <1>2, <1>3, <1>4

Only(V, i) == V = {i}

\* A variable is assigned; what it means may be new in the heap.
LEMMA AssignedView ==
  ASSUME NEW d \in Nat \ {0}, NEW m \in Memories, NEW m2, NEW sc, NEW sc2,
         NEW F, NEW G, NEW H, NEW H2, NEW i, NEW V, Only(V, i),
         Stack(m, sc, F, G, H, d), Kept(m, m2, F, G, H, d, V), Gains(sc, sc2, d, V),
         H[d] \in Int, H2[d] \in Int
  PROVE  View(m2, sc2, F, G, H2, d)
         = Language!Put(View(m, sc, F, G, H, d), i,
                        Meant(m2, Kinds[G[d]][i], m2[Cell(G[d], i, F[d])]), H2[d] - H[d])
<1>3. View(m2, sc2, F, G, H2, d) = AfterAll(m, m2, sc, F, G, H2, d, V)
  BY OwnView
<1>7. View(m2, sc2, F, G, H2, d) =
        [f |-> G[d], by |-> m[F[d] + 1], env |-> Changed(m, m2, sc, F, G, d, V), used |-> H2[d] - Base]
  BY <1>3 DEF AfterAll
<1> DEFINE env == Environment(m, sc, F, G, d)
           v == Meant(m2, Kinds[G[d]][i], m2[Cell(G[d], i, F[d])])
           old == View(m, sc, F, G, H, d)
<1>1. DOMAIN env = sc[d]
  BY DEF Environment
<1>2. old = [f |-> G[d], by |-> m[F[d] + 1], env |-> env,
             used |-> H[d] - Base]
  BY LastViewIs
<1>4. Changed(m, m2, sc, F, G, d, V) = With(env, i, v)
  BY <1>1 DEF Changed, With, Only
<1> HIDE DEF env, v, old
<1>5. Language!Put(old, i, v, H2[d] - H[d])
        = [f |-> G[d], by |-> m[F[d] + 1],
           env |-> With(env, i, v), used |-> H[d] - Base + (H2[d] - H[d])]
  BY <1>2, PutIs
<1>6. H[d] - Base + (H2[d] - H[d]) = H2[d] - Base
  BY BaseFacts
<1> QED
  BY <1>4, <1>5, <1>6, <1>7 DEF old, v

-----------------------------------------------------------------------------
(***************************************************************************)
(* Copies                                                                  *)
(***************************************************************************)

\* The copy of s that starts at at and goes on at g is made from the source at v: what
\* has been copied is there, what has not is still in the source, before a 0.
HalfCopied(m, at, g, v, s) ==
  /\ s \in Seq(Int) /\ g - at <= Len(s)
  /\ \A k \in 1 .. Len(s) :
       s[k] # 0 /\ m[IF k <= g - at THEN at + k - 1 ELSE v - (g - at) + k - 1] = s[k]
  /\ v - (g - at) + Len(s) < MemorySize /\ m[v - (g - at) + Len(s)] = 0

\* At first nothing has been copied.
LEMMA CopyStarts ==
  ASSUME NEW m, NEW g \in Nat, NEW v \in Nat, NEW s, Spelt(m, v, s)
  PROVE  HalfCopied(m, g, g, v, s)
<1>1. /\ s \in Seq(Int) /\ Len(s) \in Nat /\ v + Len(s) < MemorySize /\ m[v + Len(s)] = 0
      /\ \A k \in 1 .. Len(s) : s[k] # 0 /\ m[v + k - 1] = s[k]
  BY DEF Spelt
<1>2. g - g = 0 /\ v - (g - g) = v /\ \A k \in 1 .. Len(s) : ~ (k <= 0)
  BY <1>1
<1> QED
  BY <1>1, <1>2 DEF HalfCopied

\* One more byte, or the 0.
LEMMA CopyMoves ==
  ASSUME NEW m, NEW m2, NEW at \in Nat, NEW g \in Nat, NEW v \in Nat, NEW s, at <= g,
         g < MemorySize, HalfCopied(m, at, g, v, s),
         (v < at /\ m[at - 1] = 0) \/ g <= v,
         m2[g] = m[v], \A c \in 0 .. MemorySize - 1 : c # g => m2[c] = m[c]
  PROVE  /\ m[v] = 0 => Spelt(m2, at, s) /\ g = at + Len(s)
         /\ m[v] # 0 => HalfCopied(m2, at, g + 1, v + 1, s)
<1> DEFINE n == g - at
           w == v - n
           l == Len(s)
           PlaceOf(k) == IF k <= n THEN at + k - 1 ELSE w + k - 1
<1>1. /\ s \in Seq(Int) /\ l \in Nat /\ n \in Nat /\ n <= l /\ w \in Int
      /\ w + l < MemorySize /\ m[w + l] = 0 /\ MemorySize \in Nat
      /\ \A k \in 1 .. l : s[k] # 0 /\ m[PlaceOf(k)] = s[k]
  BY BaseFacts DEF HalfCopied
<1>2. n = g - at /\ w = v - n
  OBVIOUS
<1> HIDE DEF n, w, l
<1>3. v = w + n /\ g = at + n
  BY <1>1, <1>2
<1>4. ASSUME NEW k \in 1 .. l, k <= n
      PROVE  m2[at + k - 1] = s[k]
  <2>1. at + k - 1 \in 0 .. MemorySize - 1 /\ at + k - 1 # g
    BY <1>1, <1>3, <1>4
  <2>2. m[at + k - 1] = s[k]
    BY <1>1, <1>4
  <2> QED
    BY <2>1, <2>2
<1>5. CASE m[v] = 0
  <2>1. l = n
    <3>1. SUFFICES ASSUME n < l
                   PROVE  FALSE
      BY <1>1
    <3>2. n + 1 \in 1 .. l /\ ~ (n + 1 <= n) /\ w + (n + 1) - 1 = v
      BY <1>1, <1>3, <3>1
    <3>3. m[w + (n + 1) - 1] = s[n + 1] /\ s[n + 1] # 0
      BY <1>1, <3>2
    <3> QED
      BY <1>5, <3>2, <3>3
  <2>2. at + l = g
    BY <1>3, <2>1
  <2>3. \A k \in 1 .. l : s[k] # 0 /\ m2[at + k - 1] = s[k]
    BY <1>1, <1>4, <2>1
  <2>4. Spelt(m2, at, s)
    BY <1>1, <1>5, <2>2, <2>3 DEF Spelt, l
  <2> QED
    BY <1>5, <2>2, <2>4 DEF l
<1>6. CASE m[v] # 0
  <2>1. n < l
    BY <1>1, <1>3, <1>6, SMTT(30)
  <2>2. (v < at /\ m[at - 1] = 0) \/ g <= v
    OBVIOUS
  <2>3. v < at => w + l < at
    <3>1. SUFFICES ASSUME v < at, at <= w + l
                   PROVE  FALSE
      BY <1>1
    <3>2. m[at - 1] = 0
      BY <2>2, <3>1, <1>3, <1>1
    <3> DEFINE k == at - w
    <3>3. k \in 1 .. l /\ ~ (k <= n) /\ w + k - 1 = at - 1
      BY <1>1, <1>3, <3>1
    <3> HIDE DEF k
    <3>4. m[w + k - 1] = s[k] /\ s[k] # 0
      BY <1>1, <3>3
    <3> QED
      BY <3>2, <3>3, <3>4
  <2>4. ASSUME NEW k \in Int, n < k, k <= l
        PROVE  w + k \in 0 .. MemorySize - 1 /\ w + k # g
    <3>1. CASE v < at
      BY <1>1, <1>3, <2>3, <2>4, <3>1
    <3>2. CASE g <= v
      BY <1>1, <1>3, <2>4, <3>2
    <3> QED
      BY <2>2, <3>1, <3>2
  <2>5. m2[w + l] = 0
    <3>1. w + l \in 0 .. MemorySize - 1 /\ w + l # g
      BY <1>1, <2>1, <2>4
    <3> QED
      BY <1>1, <3>1
  <2>6. ASSUME NEW k \in 1 .. l
        PROVE  s[k] # 0 /\ m2[IF k <= n + 1 THEN at + k - 1 ELSE w + k - 1] = s[k]
    <3>1. s[k] # 0
      BY <1>1
    <3>2. CASE k <= n
      BY <1>1, <1>4, <3>1, <3>2
    <3>3. CASE k = n + 1
      <4>1. ~ (k <= n) /\ w + k - 1 = v /\ at + k - 1 = g
        BY <1>1, <1>3, <3>3
      <4>2. m[w + k - 1] = s[k]
        BY <1>1, <4>1
      <4>3. m2[at + k - 1] = s[k]
        BY <4>1, <4>2
      <4>4. k <= n + 1
        BY <1>1, <3>3
      <4> QED
        BY <3>1, <4>3, <4>4
    <3>4. CASE n + 1 < k
      <4>1. k - 1 \in Int /\ n < k - 1 /\ k - 1 <= l /\ w + (k - 1) = w + k - 1 /\ ~ (k <= n)
            /\ ~ (k <= n + 1)
        BY <1>1, <3>4
      <4>2. w + k - 1 \in 0 .. MemorySize - 1 /\ w + k - 1 # g
        BY <2>4, <4>1
      <4>3. m[w + k - 1] = s[k]
        BY <1>1, <4>1
      <4> QED
        BY <3>1, <4>1, <4>2, <4>3
    <3> QED
      BY <1>1, <3>2, <3>3, <3>4
  <2>7. g + 1 - at = n + 1 /\ v + 1 - (g + 1 - at) = w
    BY <1>1, <1>3
  <2>8. PICK g2, v2 : g2 = g + 1 /\ v2 = v + 1
    OBVIOUS
  <2>9. g2 - at = n + 1 /\ v2 - (n + 1) = w /\ n + 1 <= l
    BY <1>1, <2>1, <2>7, <2>8
  <2>10. \A k \in 1 .. l : s[k] # 0 /\ m2[IF k <= n + 1 THEN at + k - 1 ELSE w + k - 1] = s[k]
    BY <2>6
  <2>11. HalfCopied(m2, at, g2, v2, s)
    BY <1>1, <2>5, <2>9, <2>10 DEF HalfCopied, l
  <2> QED
    BY <1>6, <2>8, <2>11
<1> QED
  BY <1>5, <1>6

\* Before the second string is copied the first one is half of what will be there.
LEMMA CopyJoins ==
  ASSUME NEW m, NEW at \in Nat, NEW x \in Nat, NEW s, NEW t, Spelt(m, at, s), Spelt(m, x, t)
  PROVE  HalfCopied(m, at, at + Len(s), x, s \o t)
<1> DEFINE a == Len(s)
           b == Len(t)
           u == s \o t
<1>1. /\ s \in Seq(Int) /\ t \in Seq(Int) /\ a \in Nat /\ b \in Nat
      /\ \A k \in 1 .. a : s[k] # 0 /\ m[at + k - 1] = s[k]
      /\ \A k \in 1 .. b : t[k] # 0 /\ m[x + k - 1] = t[k]
      /\ x + b < MemorySize /\ m[x + b] = 0
  BY DEF Spelt
<1>2. u \in Seq(Int) /\ Len(u) = a + b
  BY <1>1, ConcatProperties
<1>3. \A k \in 1 .. a + b : u[k] = IF k <= a THEN s[k] ELSE t[k - a]
  BY <1>1, <1>2, ConcatProperties
<1> HIDE DEF a, b, u
<1>4. at + a - at = a /\ x - a + (a + b) = x + b /\ a <= a + b
  BY <1>1
<1>5. ASSUME NEW k \in 1 .. a + b
      PROVE  u[k] # 0 /\ m[IF k <= a THEN at + k - 1 ELSE x - a + k - 1] = u[k]
  <2>1. CASE k <= a
    <3>1. k \in 1 .. a
      BY <1>1, <2>1
    <3>2. s[k] # 0 /\ m[at + k - 1] = s[k] /\ u[k] = s[k]
      BY <1>1, <1>3, <2>1, <3>1
    <3> QED
      BY <2>1, <3>2
  <2>2. CASE ~ (k <= a)
    <3>1. k - a \in 1 .. b /\ x - a + k - 1 = x + (k - a) - 1
      BY <1>1, <2>2
    <3>2. t[k - a] # 0 /\ m[x + (k - a) - 1] = t[k - a]
      BY <1>1, <3>1
    <3> QED
      BY <1>3, <2>2, <3>1, <3>2
  <2> QED
    BY <2>1, <2>2
<1>6. HalfCopied(m, at, at + a, x, u)
  BY <1>1, <1>2, <1>4, <1>5 DEF HalfCopied
<1> QED
  BY <1>6 DEF a, u

\* What has been copied and what has not are the string.
LEMMA HalvesAre ==
  ASSUME NEW m, NEW at \in Nat, NEW g \in Nat, NEW v \in Nat, NEW s, at <= g,
         HalfCopied(m, at, g, v, s)
  PROVE  [n \in 1 .. g - at |-> m[at + n - 1]] \o StringAt(m, v) = s
<1> DEFINE n == g - at
           w == v - n
           l == Len(s)
           t == [k \in 1 .. l - n |-> s[n + k]]
           h == [k \in 1 .. n |-> m[at + k - 1]]
<1>1. /\ s \in Seq(Int) /\ l \in Nat /\ n \in Nat /\ n <= l /\ w \in Int
      /\ w + l < MemorySize /\ m[w + l] = 0 /\ MemorySize \in Nat
      /\ \A k \in 1 .. l : s[k] # 0 /\ m[IF k <= n THEN at + k - 1 ELSE w + k - 1] = s[k]
      /\ v = w + n
  BY BaseFacts DEF HalfCopied
<1>2. \A k \in 1 .. l : s[k] \in Int
  BY <1>1
<1> HIDE DEF n, w, l
<1>3. t \in Seq(Int) /\ Len(t) = l - n
  <2>1. l - n \in Nat /\ \A k \in 1 .. l - n : n + k \in 1 .. l
    BY <1>1
  <2>2. t \in [1 .. l - n -> Int] /\ DOMAIN t = 1 .. l - n
    BY <1>2, <2>1
  <2> HIDE DEF t
  <2>3. t \in Seq(Int)
    BY <2>1, <2>2
  <2> QED
    BY <2>1, <2>2, <2>3, LenProperties
<1>4. h \in Seq(Int) /\ Len(h) = n /\ \A k \in 1 .. n : h[k] = s[k]
  <2>1. \A k \in 1 .. n : k \in 1 .. l
    BY <1>1
  <2>2. ASSUME NEW k \in 1 .. n
        PROVE  m[at + k - 1] = s[k] /\ s[k] \in Int
    <3>1. k \in 1 .. l /\ k <= n
      BY <2>1
    <3>2. m[IF k <= n THEN at + k - 1 ELSE w + k - 1] = s[k]
      BY <1>1, <3>1
    <3> QED
      BY <1>2, <3>1, <3>2
  <2>3. h \in [1 .. n -> Int] /\ DOMAIN h = 1 .. n /\ \A k \in 1 .. n : h[k] = s[k]
    BY <2>2
  <2> HIDE DEF h
  <2>4. h \in Seq(Int)
    BY <1>1, <2>3
  <2> QED
    BY <1>1, <2>3, <2>4, LenProperties
<1>5. \A k \in 1 .. l - n : t[k] = s[n + k]
  OBVIOUS
<1> HIDE DEF t
<1>6. Spelt(m, v, t)
  <2>1. v + (l - n) = w + l
    BY <1>1
  <2>2. ASSUME NEW k \in 1 .. l - n
        PROVE  t[k] # 0 /\ m[v + k - 1] = t[k]
    <3>1. n + k \in 1 .. l /\ ~ (n + k <= n) /\ w + (n + k) - 1 = v + k - 1
      BY <1>1
    <3> QED
      BY <1>1, <1>5, <3>1
  <2> QED
    BY <1>1, <1>3, <2>1, <2>2 DEF Spelt
<1>7. StringAt(m, v) = t
  BY <1>6, SpeltIs
<1> HIDE DEF h
<1>8. h \o t = s
  <2> DEFINE u == h \o t
  <2>1. u \in Seq(Int) /\ Len(u) = n + (l - n)
    BY <1>3, <1>4, ConcatProperties
  <2>2. \A k \in 1 .. n + (l - n) : u[k] = IF k <= n THEN h[k] ELSE t[k - n]
    <3>1. \A k \in 1 .. Len(h) + Len(t) :
            (h \o t)[k] = IF k <= Len(h) THEN h[k] ELSE t[k - Len(h)]
      BY <1>3, <1>4, ConcatProperties
    <3>2. Len(h) = n /\ Len(t) = l - n
      BY <1>3, <1>4
    <3> QED
      BY <3>1, <3>2
  <2> HIDE DEF u
  <2>3. n + (l - n) = l
    BY <1>1
  <2>4. ASSUME NEW k \in 1 .. l
        PROVE  u[k] = s[k]
    <3>1. CASE k <= n
      BY <1>1, <1>4, <2>2, <2>3, <3>1
    <3>2. CASE ~ (k <= n)
      <4>1. k - n \in 1 .. l - n /\ n + (k - n) = k
        BY <1>1, <3>2
      <4> QED
        BY <1>5, <2>2, <2>3, <3>2, <4>1
    <3> QED
      BY <3>1, <3>2
  <2>5. Len(u) = l /\ Len(s) = l
    BY <2>1, <2>3 DEF l
  <2>6. DOMAIN u = 1 .. l /\ DOMAIN s = 1 .. l
    BY <1>1, <2>1, <2>5, LenProperties
  <2>7. u = [k \in 1 .. l |-> u[k]] /\ s = [k \in 1 .. l |-> s[k]]
    BY <1>1, <2>1, <2>6
  <2>8. u = s
    BY <2>4, <2>7
  <2> QED
    BY <2>8 DEF u
<1> QED
  BY <1>7, <1>8 DEF h, n

-----------------------------------------------------------------------------
(***************************************************************************)
(* What the frames do not tell: the string constants stay what they are,   *)
(* arguments arrive where the function expects them, and a copy becomes    *)
(* the string that its statement means.                                    *)
(***************************************************************************)

\* The function that was called last or calls another one, and the end of the heap it knows.
Current == IF doing.step = "enter" THEN Sites[ra].caller ELSE here
HeapEnd ==
  IF doing.step \in {"body", "enter"} THEN gp
  ELSE IF doing.step = "returned" THEN mem[sp + RequiredSize(Sites[ra].callee) - 1]
  ELSE doing.at

Intact == \A c \in 0 .. Base - 1 : mem[c] = Data[c + 1]

\* main finds the heap as the program starts.
Started ==
  doing.step = "enter" /\ Depth = 0 => gp = Base

\* Where the n-th argument is when a function is entered.
Arrived(n) == IF n <= InRegisters(here) THEN args[n] ELSE mem[Cell(here, n, sp - 2)]

Passed ==
  doing.step = "enter" /\ Depth > 0 =>
    \A n \in 1 .. Params[here] :
      /\ Sites[ra].args[n] \in scope[Depth]
      /\ Arrived(n) = mem[Cell(Sites[ra].caller, Sites[ra].args[n], fp)]

Texts == Here \cap Variables(here, "string")
Text(j) == StringAt(mem, Var(j))

\* How far the copy of s has come.
Progress(s) ==
  IF doing.step \in {"first", "second", "set", "receive"}
  THEN HalfCopied(mem, doing.at, gp, v1, s)
  ELSE Spelt(mem, doing.at, s) /\ gp = doing.at + Len(s) + 1

\* Why s is copied.
Source(s) ==
  /\ IsString(here, doing.dest)
  /\ doing.step \in {"first", "join"} => \E j, k \in Texts : s = Text(j) /\ doing.x = Var(k)
  /\ doing.step \in {"second", "finish"} => \E j, k \in Texts : s = Text(j) \o Text(k)
  /\ doing.step \in {"set", "place"} =>
       doing.x \in 0 .. Len(s) - 1 /\ doing.c \in Chars /\ \E j \in Texts : s = Text(j)
  /\ doing.step \in {"receive", "received"} =>
       /\ doing.x \in DOMAIN Sites /\ Sites[doing.x].caller = here
       /\ Sites[doing.x].dest = doing.dest

Copies == doing.step \in CopySteps => \E s : Progress(s) /\ Source(s)

\* The stronger invariant.
JInv == IInv /\ Intact /\ Started /\ Passed /\ Copies

\* What the last call in progress is made of.
LEMMA LastIs ==
  \A d, F, G, H : TypeOK /\ At(d, F, G, H) /\ d > 0 =>
    /\ F[d] = fp /\ G[d] = Current /\ H[d] = HeapEnd /\ H[d] \in Int
    /\ d \in Nat \ {0} /\ d = Len(scope) /\ doing.step # "stopped" /\ fp \in Int
    /\ Current \in Functions /\ Base <= H[d] /\ H[d] <= Bottom(Current, fp)
    /\ Bottom(Current, fp) \in Int /\ Bottom(Current, fp) <= fp /\ fp < MemorySize
<1> SUFFICES ASSUME NEW d, NEW F, NEW G, NEW H, TypeOK, At(d, F, G, H), d > 0
             PROVE  /\ F[d] = fp /\ G[d] = Current /\ H[d] = HeapEnd /\ H[d] \in Int
                    /\ d \in Nat \ {0} /\ d = Len(scope) /\ doing.step # "stopped"
                    /\ fp \in Int /\ Current \in Functions
                    /\ Base <= H[d] /\ H[d] <= Bottom(Current, fp)
                    /\ Bottom(Current, fp) \in Int /\ Bottom(Current, fp) <= fp /\ fp < MemorySize
  OBVIOUS
<1>1. d = Depth /\ Stack(mem, scope, F, G, H, d) /\ Position(d, F, G, H)
  BY DEF At
<1>2. /\ d \in Nat \ {0} /\ d = Len(scope) /\ d \in 1 .. d
      /\ doing.step \in {"enter", "body", "returned", "stopped"} \cup CopySteps
  BY <1>1 DEF TypeOK, Depth, CopySteps
<1>3. Placed(F, G, H, d)
  BY <1>1 DEF Stack
<1>4. F[d] = fp /\ G[d] = Current /\ doing.step # "stopped"
  BY <1>1, <1>2 DEF Position, Running, Entering, Returning, Copying, Current
<1>5. Heap(d, F, G) = H[d]
  BY <1>2, FramesAre
<1>6. Heap(d, F, G) = HeapEnd
  <2>1. ~ (d < Depth)
    BY <1>1, <1>2
  <2> QED
    BY <1>2, <1>4, <2>1 DEF Heap, HeapEnd
<1>7. /\ F[d] \in Int /\ G[d] \in Functions /\ H[d] \in Int /\ Base <= H[d]
      /\ H[d] <= Bottom(G[d], F[d]) /\ Bottom(G[d], F[d]) \in Int /\ Bottom(G[d], F[d]) <= F[d]
      /\ F[d] \in 0 .. MemorySize - 1 /\ MemorySize \in Nat
  BY <1>2, <1>3, PlacedFacts
<1>8. fp < MemorySize
  BY <1>4, <1>7
<1> QED
  BY <1>2, <1>4, <1>5, <1>6, <1>7, <1>8

\* The same after a step.
LEMMA LastIsNext ==
  \A d, F, G, H : TypeOK' /\ At(d, F, G, H)' /\ d > 0 =>
    F[d] = fp' /\ G[d] = Current' /\ H[d] = HeapEnd' /\ d = Len(scope') /\ H[d] \in Int
<1>1. \A d, F, G, H : TypeOK /\ At(d, F, G, H) /\ d > 0 =>
        F[d] = fp /\ G[d] = Current /\ H[d] = HeapEnd /\ d = Len(scope) /\ H[d] \in Int
  BY LastIs
<1>2. (\A d, F, G, H : TypeOK /\ At(d, F, G, H) /\ d > 0 =>
         F[d] = fp /\ G[d] = Current /\ H[d] = HeapEnd /\ d = Len(scope) /\ H[d] \in Int)'
  BY <1>1, PTL
<1> QED
  BY <1>2

\* The frames of a state and of its next one, in the same call.
Same(d, F, G, H, F2, G2, H2) ==
  /\ d = Depth /\ At(d, F, G, H) /\ At(d, F2, G2, H2)'
  /\ F[d] = fp /\ G[d] = Current /\ H[d] = HeapEnd
  /\ F2[d] = fp /\ G2[d] = Current /\ H2[d] = HeapEnd'

\* Steps that do not leave a call.
LEMMA Inside ==
  ASSUME IInv, IInv', Depth > 0, Len(scope') = Len(scope), fp' = fp, Current' = Current
  PROVE  /\ TypeOK /\ TypeOK' /\ Depth \in Nat \ {0} /\ HeapEnd \in Int /\ HeapEnd' \in Int
         /\ Base <= HeapEnd /\ HeapEnd <= Bottom(Current, fp) /\ Current \in Functions
         /\ Bottom(Current, fp) \in Int /\ fp \in Int /\ fp < MemorySize /\ mem \in Memories
         /\ \E d, F, G, H, F2, G2, H2 : Same(d, F, G, H, F2, G2, H2)
<1>1. TypeOK /\ TypeOK' /\ Depth = Len(scope) /\ mem \in Memories
  BY DEF IInv, Depth, TypeOK, Memories
<1>2. PICK d, F, G, H : At(d, F, G, H)
  BY DEF IInv, At
<1>3. PICK e, F2, G2, H2 : At(e, F2, G2, H2)'
  BY NextAt
<1>4. d = Depth /\ e = d
  BY <1>1, <1>2, <1>3 DEF At, Depth
<1>5. At(d, F2, G2, H2)'
  BY <1>3, <1>4
<1>6. /\ F[d] = fp /\ G[d] = Current /\ H[d] = HeapEnd /\ H[d] \in Int
      /\ F2[d] = fp /\ G2[d] = Current /\ H2[d] = HeapEnd' /\ H2[d] \in Int
  BY <1>1, <1>2, <1>4, <1>5, LastIs, LastIsNext
<1>7. Same(d, F, G, H, F2, G2, H2)
  BY <1>2, <1>4, <1>5, <1>6 DEF Same
<1> QED
  BY <1>1, <1>2, <1>4, <1>6, <1>7, LastIs

\* Steps that the language does not see.
LEMMA Unseen ==
  ASSUME IInv, IInv', Depth > 0, scope' = scope, fp' = fp,
         Current' = Current, HeapEnd' = HeapEnd,
         \A c \in 0 .. MemorySize - 1 :
           c < HeapEnd \/ c >= Bottom(Current, fp) => mem'[c] = mem[c]
  PROVE  CallsInProgress' = CallsInProgress
<1>1. TypeOK /\ TypeOK' /\ Depth \in Nat \ {0}
  BY Inside
<1>2. PICK d, F, G, H, F2, G2, H2 : Same(d, F, G, H, F2, G2, H2)
  BY Inside
<1>3. /\ d = Depth /\ At(d, F, G, H) /\ At(d, F2, G2, H2)'
      /\ F[d] = fp /\ G[d] = Current /\ H[d] = HeapEnd
      /\ F2[d] = fp /\ G2[d] = Current /\ H2[d] = HeapEnd'
  BY <1>2 DEF Same
<1>4. Kept(mem, mem', F, G, H, d, {})
  BY <1>3 DEF Kept
<1> QED
  BY <1>1, <1>3, <1>4, Silent

\* An assignment changes the last call as the language says.
LEMMA Assigns ==
  ASSUME IInv, IInv', Depth > 0, NEW i \in 1 .. Len(Kinds[Current]), Assigned(i),
         fp' = fp, Current' = Current,
         \A c \in 0 .. MemorySize - 1 :
           c < HeapEnd \/ (c >= Bottom(Current, fp) /\ c # Cell(Current, i, fp))
             => mem'[c] = mem[c]
  PROVE  CallsInProgress' =
           [CallsInProgress EXCEPT ![Depth] =
              Language!Put(CallsInProgress[Depth], i,
                           Meant(mem', Kinds[Current][i], mem'[Cell(Current, i, fp)]),
                           HeapEnd' - HeapEnd)]
<1>1. /\ TypeOK /\ scope \in Seq(SUBSET Nat) /\ Depth = Len(scope) /\ Depth \in 1 .. Len(scope)
      /\ Depth \in Nat
  <2>1. TypeOK /\ scope \in Seq(SUBSET Nat)
    BY DEF IInv, TypeOK
  <2>2. Len(scope) \in Nat
    BY <2>1
  <2> QED
    BY <2>1, <2>2 DEF Depth
<1>2. scope' = [scope EXCEPT ![Depth] = @ \cup {i}] /\ DOMAIN scope = 1 .. Depth
  BY <1>1 DEF Assigned
<1>3. /\ scope'[Depth] = scope[Depth] \cup {i}
      /\ \A k \in 1 .. Depth - 1 : scope'[k] = scope[k]
  BY <1>1, <1>2
<1>4. Len(scope') = Len(scope)
  <2>1. i \in Nat
    OBVIOUS
  <2>2. scope[Depth] \cup {i} \in SUBSET Nat
    BY <1>1, <2>1
  <2> QED
    BY <1>1, <1>2, <2>2, ExceptSeq
<1>5. TypeOK /\ TypeOK' /\ Depth \in Nat \ {0} /\ HeapEnd \in Int /\ HeapEnd' \in Int
  BY <1>4, Inside
<1>6. PICK d, F, G, H, F2, G2, H2 : Same(d, F, G, H, F2, G2, H2)
  BY <1>4, Inside
<1>7. /\ d = Depth /\ At(d, F, G, H) /\ At(d, F2, G2, H2)'
      /\ F[d] = fp /\ G[d] = Current /\ H[d] = HeapEnd
      /\ F2[d] = fp /\ G2[d] = Current /\ H2[d] = HeapEnd'
  BY <1>6 DEF Same
<1>8. Kept(mem, mem', F, G, H, d, {i})
  BY <1>7 DEF Kept
<1>9. /\ d \in Nat \ {0} /\ scope'[d] = scope[d] \cup {i}
      /\ \A k \in 1 .. d - 1 : scope'[k] = scope[k]
  BY <1>3, <1>5, <1>7
<1>10. /\ Stack(mem, scope, F, G, H, d)
       /\ mem \in Memories /\ H[d] \in Int /\ H2[d] \in Int /\ F2[d] = F[d] /\ G2[d] = G[d]
  BY <1>5, <1>7 DEF At, TypeOK, Memories
<1>11. PICK V : V = {i}
  OBVIOUS
<1>12. Kept(mem, mem', F, G, H, d, V) /\ Gains(scope, scope', d, V)
  BY <1>8, <1>9, <1>11 DEF Gains
<1>13. CallsInProgress' =
         [CallsInProgress EXCEPT ![d] = View(mem', scope', F, G, H2, d)]
  BY <1>5, <1>7, <1>9, <1>10, <1>12, LastView
<1>14. View(mem', scope', F, G, H2, d)
         = Language!Put(View(mem, scope, F, G, H, d), i,
                        Meant(mem', Kinds[G[d]][i], mem'[Cell(G[d], i, F[d])]), H2[d] - H[d])
  <2>1. Only(V, i)
    BY <1>11 DEF Only
  <2> QED
    BY <1>9, <1>10, <1>12, <2>1, AssignedView
<1>15. CallsInProgress[d] = View(mem, scope, F, G, H, d)
  BY <1>5, <1>7, <1>9, CallsAre
<1> QED
  BY <1>7, <1>14, <1>15, <1>13

-----------------------------------------------------------------------------
(***************************************************************************)
(* What the language sees of a step                                        *)
(***************************************************************************)

\* Most of the time nothing is on its way to a caller.
LEMMA NothingInTransit ==
  doing.step \in {"enter", "body", "first", "join", "second", "set", "place", "finish"} =>
    InTransit = <<>>
BY DEF InTransit

LEMMA NothingInTransitNext ==
  doing'.step \in {"enter", "body", "first", "join", "second", "set", "place", "finish"} =>
    InTransit' = <<>>
<1>1. (doing.step \in {"enter", "body", "first", "join", "second", "set", "place", "finish"} =>
         InTransit = <<>>)'
  BY NothingInTransit, PTL
<1> QED
  BY <1>1

\* A string that is copied for the caller is the one that the callee returned.
LEMMA StringInTransit ==
  \A s : IInv /\ doing.step \in {"receive", "received"} /\ Progress(s) =>
    InTransit = <<[by |-> doing.x, value |-> s]>>
<1> SUFFICES ASSUME NEW s, IInv, doing.step \in {"receive", "received"}, Progress(s)
             PROVE  InTransit = <<[by |-> doing.x, value |-> s]>>
  OBVIOUS
<1>1. doing.step \in CopySteps
  BY DEF CopySteps
<1>2. /\ Copied /\ doing.at \in Int /\ gp \in Int /\ Base <= doing.at /\ doing.at <= gp
      /\ TypeOK
  BY <1>1, CopyingFacts
<1>3. v1 \in Int
  BY <1>2 DEF TypeOK
<1>4. doing.at \in Nat /\ gp \in Nat
  BY <1>2, BaseFacts
<1>5. CASE doing.step = "receive"
  <2>1. v1 \in 0 .. doing.at - 1 \/ gp <= v1
    BY <1>2, <1>5 DEF Copied
  <2>2. v1 \in Nat
    BY <1>3, <1>4, <2>1
  <2>3. HalfCopied(mem, doing.at, gp, v1, s)
    BY <1>5 DEF Progress
  <2>4. [n \in 1 .. gp - doing.at |-> mem[doing.at + n - 1]] \o StringAt(mem, v1) = s
    BY <1>2, <1>4, <2>2, <2>3, HalvesAre
  <2> QED
    BY <1>5, <2>4 DEF InTransit
<1>6. CASE doing.step = "received"
  <2>1. Spelt(mem, doing.at, s)
    BY <1>6 DEF Progress
  <2>2. StringAt(mem, doing.at) = s
    BY <1>4, <2>1, SpeltIs
  <2> QED
    BY <1>6, <2>2 DEF InTransit
<1> QED
  BY <1>5, <1>6

LEMMA StringInTransitNext ==
  \A s : IInv' /\ doing'.step \in {"receive", "received"} /\ Progress(s)' =>
    InTransit' = <<[by |-> doing'.x, value |-> s]>>
<1>1. (\A s : IInv /\ doing.step \in {"receive", "received"} /\ Progress(s) =>
         InTransit = <<[by |-> doing.x, value |-> s]>>)'
  BY StringInTransit, PTL
<1> QED
  BY <1>1

\* Values of a call's variables.
Holds(a, j) == a.env[j] = Meant(mem, Kinds[Current][j], mem[Cell(Current, j, fp)])

\* The last call in progress.
LEMMA LastCall ==
  ASSUME IInv, Depth > 0, NEW a, a = CallsInProgress[Depth]
  PROVE  /\ a = [f |-> a.f, by |-> a.by, env |-> a.env, used |-> a.used]
         /\ a.f = Current /\ a.by = mem[fp + 1] /\ DOMAIN a.env = Here
         /\ \A j \in Here : Holds(a, j)
         /\ a.used = HeapEnd - Base
         /\ CallsInProgress \in Seq(Members(CallsInProgress, Depth))
         /\ Len(CallsInProgress) = Depth /\ CallsInProgress # <<>>
         /\ DOMAIN CallsInProgress = 1 .. Depth
         /\ Depth \in Nat \ {0} /\ Current \in Functions /\ HeapEnd \in Int /\ TypeOK
<1>1. PICK d, F, G, H : At(d, F, G, H)
  BY DEF IInv, At
<1>2. d = Depth /\ TypeOK
  BY <1>1 DEF IInv, At
<1>3. /\ F[d] = fp /\ G[d] = Current /\ H[d] = HeapEnd /\ H[d] \in Int
      /\ d \in Nat \ {0} /\ d = Len(scope) /\ Current \in Functions
  BY <1>1, <1>2, LastIs
<1>4. /\ CallsInProgress \in Seq(Members(CallsInProgress, d)) /\ CallsInProgress # <<>>
      /\ Len(CallsInProgress) = d /\ DOMAIN CallsInProgress = 1 .. d
      /\ CallsInProgress[d] = View(mem, scope, F, G, H, d)
  BY <1>1, <1>2, <1>3, CallsAre
<1>5. a = [f |-> G[d], by |-> mem[F[d] + 1], env |-> Environment(mem, scope, F, G, d), used |-> H[d] - Base]
  BY <1>2, <1>3, <1>4, LastViewIs
<1>6. /\ a.f = G[d] /\ a.by = mem[F[d] + 1] /\ a.env = Environment(mem, scope, F, G, d)
      /\ a.used = H[d] - Base
  BY <1>5
<1>7. DOMAIN a.env = Here /\ \A j \in Here : Holds(a, j)
  BY <1>3, <1>6 DEF Environment, Here, Holds
<1>8. a = [f |-> a.f, by |-> a.by, env |-> a.env, used |-> a.used]
  BY <1>5, <1>6
<1> QED
  BY <1>2, <1>3, <1>4, <1>6, <1>7, <1>8

\* A statement of the last call.
LEMMA Statements ==
  ASSUME IInv, Depth > 0, NEW b, CallsInProgress' = [CallsInProgress EXCEPT ![Depth] = b],
         Language!Statement(CallsInProgress[Depth], b), InTransit = <<>>, InTransit' = <<>>
  PROVE  Language!Next
<1>1. /\ CallsInProgress \in Seq(Members(CallsInProgress, Depth))
      /\ Len(CallsInProgress) = Depth /\ Depth \in Nat \ {0}
  BY LastCall
<1>2. Language!Execute(CallsInProgress, CallsInProgress')
  BY <1>1, Executes
<1> QED
  BY <1>2 DEF Language!Next, Language!Goes

\* A string variable that has been assigned is known with what it means.
LEMMA KnownIs ==
  ASSUME IInv, Depth > 0, Current = here, NEW a, a = CallsInProgress[Depth], NEW j \in Texts
  PROVE  j \in Language!Known(a, "string") /\ a.env[j] = Text(j)
<1>1. a.f = here /\ DOMAIN a.env = Here /\ Holds(a, j)
  BY LastCall DEF Texts
<1>2. Kinds[here][j] = "string" /\ j \in DOMAIN Kinds[here] /\ j \in Here
  BY DEF Texts, Variables
<1> QED
  BY <1>1, <1>2 DEF Language!Known, Language!Variables, Holds, Meant, Text, Var

\* The string constants keep their values.
LEMMA ConstantIs ==
  ASSUME IInv, Intact, NEW p \in Pointers
  PROVE  StringAt(mem, p) \in Lines /\ p \in 0 .. Base - 1
<1> DEFINE m == InitialMemory
<1>1. m \in Memories /\ (Base > 0 => m[Base - 1] = 0)
  BY InitMemory
<1>2. p \in 0 .. Base - 1 /\ Base \in Nat /\ Base <= MemorySize /\ MemorySize \in Nat
  BY MemoryAssumption, BaseFacts DEF Base
<1>3. ASSUME NEW c \in 0 .. Base - 1
      PROVE  mem[c] = m[c]
  <2>1. c \in 0 .. MemorySize - 1 /\ c < Base
    BY <1>2
  <2>2. m[c] = Data[c + 1]
    BY <2>1 DEF InitialMemory
  <2> QED
    BY <2>2 DEF Intact
<1>4. StringAt(m, p) \in Lines
  BY DEF Lines
<1> HIDE DEF m
<1>5. p \in Nat /\ Base - 1 \in Nat /\ p <= Base - 1 /\ Base - 1 < MemorySize /\ m[Base - 1] = 0
  BY <1>1, <1>2
<1>6. StringAt(mem, p) = StringAt(m, p)
  BY <1>1, <1>3, <1>5, StringStays
<1> QED
  BY <1>2, <1>4, <1>6

LEMMA ConstantIsNext ==
  \A p \in Pointers : IInv' /\ Intact' => StringAt(mem', p) \in Lines
<1>1. \A p \in Pointers : IInv /\ Intact => StringAt(mem, p) \in Lines
  BY ConstantIs
<1>2. (\A p \in Pointers : IInv /\ Intact => StringAt(mem, p) \in Lines)'
  BY <1>1, PTL
<1> QED
  BY <1>2

-----------------------------------------------------------------------------
(***************************************************************************)
(* Statements that assign a variable                                       *)
(***************************************************************************)

\* A step of the program is one that the language knows, or one that it does not see.
Simulated == [Language!Next]_(Language!vars)

\* What is known inside a function.
LEMMA InsideFacts ==
  ASSUME IInv, doing.step \in {"body"} \cup CopySteps
  PROVE  /\ TypeOK /\ Depth > 0 /\ Depth \in Nat /\ Depth = Len(scope) /\ Current = here
         /\ sp = Bottom(Current, fp)
         /\ HeapEnd = (IF doing.step = "body" THEN gp ELSE doing.at)
         /\ mem \in Memories /\ here \in Functions /\ {sp, fp, gp, HeapEnd, v1} \subseteq Int
         /\ Base \in Nat /\ MemorySize \in Nat /\ Base <= HeapEnd /\ HeapEnd <= gp
         /\ gp <= sp /\ sp <= fp /\ fp < MemorySize
         /\ DOMAIN Kinds[here] = 1 .. Len(Kinds[here]) /\ Here \subseteq 1 .. Len(Kinds[here])
         /\ HeapEnd > 0 => mem[HeapEnd - 1] = 0
         /\ \A i \in 1 .. Len(Kinds[here]) :
              Cell(here, i, fp) \in 0 .. MemorySize - 1 /\ sp <= Cell(here, i, fp)
         /\ \A j \in Texts : Var(j) \in 0 .. HeapEnd - 1
<1>1. TypeOK /\ Base \in Nat /\ MemorySize \in Nat
  BY BaseFacts DEF IInv
<1>2. PICK d, F, G, H : d = Depth /\ Stack(mem, scope, F, G, H, d) /\ Position(d, F, G, H)
  BY DEF IInv
<1>3. /\ Running(d, F, G)
      /\ H[d] = (IF doing.step = "body" THEN gp ELSE doing.at)
      /\ doing.step \in CopySteps => doing.at <= gp
  BY <1>2 DEF Position, Copying, CopySteps
<1>4. d > 0 /\ fp = F[d] /\ here = G[d] /\ sp = Bottom(here, fp)
  BY <1>3 DEF Running
<1>5. /\ d \in Nat \ {0} /\ d \in 1 .. d /\ d = Len(scope)
      /\ here \in Functions /\ fp \in Int /\ H[d] \in Int /\ mem \in Memories
      /\ Base <= H[d] /\ fp < MemorySize
      /\ DOMAIN Kinds[here] = 1 .. Len(Kinds[here]) /\ Here \subseteq 1 .. Len(Kinds[here])
      /\ H[d] > 0 => mem[H[d] - 1] = 0
      /\ \A i \in 1 .. Len(Kinds[here]) :
           Cell(here, i, fp) \in 0 .. MemorySize - 1 /\ Bottom(here, fp) <= Cell(here, i, fp)
      /\ \A i \in Here : Kinds[here][i] = "string" => Var(i) \in 0 .. H[d] - 1
  BY <1>1, <1>2, <1>4, RunningFacts
<1>6. /\ Current = here
      /\ HeapEnd = (IF doing.step = "body" THEN gp ELSE doing.at)
  BY DEF Current, HeapEnd, CopySteps
<1>7. \A j \in Texts : j \in Here /\ Kinds[here][j] = "string"
  BY DEF Texts, Variables
<1>8. gp \in Int /\ sp \in Int /\ v1 \in Int /\ gp <= sp /\ sp <= fp
  BY <1>1 DEF TypeOK
<1>9. HeapEnd = H[d] /\ HeapEnd <= gp
  BY <1>3, <1>6, <1>8
<1> QED
  BY <1>1, <1>2, <1>4, <1>5, <1>6, <1>7, <1>8, <1>9

\* The string constants lie below all that is written.
LEMMA IntactKept ==
  ASSUME Intact, \A c \in 0 .. MemorySize - 1 : c < Base => mem'[c] = mem[c]
  PROVE  Intact'
<1>1. ASSUME NEW c \in 0 .. Base - 1
      PROVE  mem'[c] = Data[c + 1]
  <2>1. c \in 0 .. MemorySize - 1 /\ c < Base
    BY BaseFacts
  <2>2. mem[c] = Data[c + 1]
    BY DEF Intact
  <2> QED
    BY <2>1, <2>2
<1> QED
  BY <1>1 DEF Intact, Base

\* Between statements, and after a return, nothing else has to be known.
LEMMA SettledNext ==
  ASSUME IInv', Intact', doing'.step \in {"body", "returned", "stopped"}
  PROVE  JInv'
BY DEF JInv, Started, Passed, Copies, CopySteps

\* A statement that ends with an assignment.
LEMMA Assignment ==
  ASSUME JInv, IInv', doing.step \in {"body", "place", "finish"}, doing'.step = "body",
         NEW i \in DOMAIN Kinds[here], Assigned(i), fp' = fp, here' = here,
         \A c \in 0 .. MemorySize - 1 :
           c < HeapEnd \/ (c >= sp /\ c # Cell(here, i, fp)) => mem'[c] = mem[c],
         NEW v, v = Meant(mem', Kinds[here][i], mem'[Cell(here, i, fp)]), NEW n, n = gp' - HeapEnd,
         NEW a, a = CallsInProgress[Depth],
         Language!Statement(a, Language!Put(a, i, v, n))
  PROVE  JInv' /\ Simulated
<1>1. IInv /\ Intact
  BY DEF JInv
<1>2. doing.step \in {"body"} \cup CopySteps
  BY DEF CopySteps
<1>3. /\ Depth > 0 /\ Current = here /\ sp = Bottom(Current, fp) /\ HeapEnd \in Int
      /\ Base \in Nat /\ Base <= HeapEnd /\ DOMAIN Kinds[here] = 1 .. Len(Kinds[here])
  BY <1>1, <1>2, InsideFacts
<1>4. Current' = Current /\ HeapEnd' = gp'
  BY <1>3 DEF Current, HeapEnd
<1>5. \A c \in 0 .. MemorySize - 1 :
        c < HeapEnd \/ (c >= Bottom(Current, fp) /\ c # Cell(Current, i, fp))
          => mem'[c] = mem[c]
  BY <1>3
<1>6. CallsInProgress' =
        [CallsInProgress EXCEPT ![Depth] =
           Language!Put(CallsInProgress[Depth], i,
                        Meant(mem', Kinds[Current][i], mem'[Cell(Current, i, fp)]),
                        HeapEnd' - HeapEnd)]
  BY <1>1, <1>3, <1>4, <1>5, Assigns
<1> DEFINE b == Language!Put(a, i, v, n)
<1>7. CallsInProgress' = [CallsInProgress EXCEPT ![Depth] = b]
  BY <1>3, <1>4, <1>6
<1>8. InTransit = <<>> /\ InTransit' = <<>>
  BY NothingInTransit, NothingInTransitNext
<1>9. Language!Statement(CallsInProgress[Depth], b)
  OBVIOUS
<1> HIDE DEF b
<1>10. Language!Next
  BY <1>1, <1>3, <1>7, <1>8, <1>9, Statements
<1>11. Intact'
  <2>1. \A c \in 0 .. MemorySize - 1 : c < Base => mem'[c] = mem[c]
    BY <1>3
  <2> QED
    BY <1>1, <2>1, IntactKept
<1> QED
  BY <1>10, <1>11, SettledNext DEF Simulated

\* What the language calls such statements.
LEMMA WordStatement ==
  ASSUME NEW a, a.f = here, NEW i \in Variables(here, "word"), NEW w \in Words
  PROVE  Language!Statement(a, Language!Put(a, i, w, 0))
BY DEF Language!Statement, Language!SetWord, Language!Variables, Variables

LEMMA StringStatement ==
  ASSUME NEW a, a.f = here, NEW i \in Variables(here, "string"), NEW b,
         Language!SetString(a, b, i) \/ Language!SetComposed(a, b, i)
  PROVE  Language!Statement(a, b)
BY DEF Language!Statement, Language!Variables, Variables

LEMMA NewString ==
  ASSUME NEW a, NEW i, NEW s, NEW n, n = Len(s) + 1,
         (\E c \in Chars : s = <<c>>) \/ s \in Lines
  PROVE  Language!SetString(a, Language!Put(a, i, s, n), i)
BY DEF Language!SetString, Language!PutNew

\* A number or a string constant is assigned: nothing of the heap is taken.
LEMMA SetCellRefines ==
  ASSUME JInv, IInv', NEW i \in DOMAIN Kinds[here], NEW v \in Int, SetCell(i, v),
         \/ Kinds[here][i] = "word" /\ v \in Words
         \/ Kinds[here][i] = "string" /\ v \in Pointers
  PROVE  JInv' /\ Simulated
<1>1. InBody /\ Write([c \in {Cell(here, i, fp)} |-> v]) /\ Assigned(i)
      /\ UNCHANGED <<sp, fp, ra, gp, v0, v1, args, here, doing>>
  BY DEF SetCell
<1>2. IInv /\ Intact /\ doing.step = "body" /\ doing'.step = "body"
  BY <1>1 DEF JInv, InBody
<1>3. /\ Depth > 0 /\ Current = here /\ HeapEnd = gp /\ mem \in Memories /\ gp \in Int
      /\ DOMAIN Kinds[here] = 1 .. Len(Kinds[here]) /\ HeapEnd <= sp /\ sp \in Int
      /\ \A j \in 1 .. Len(Kinds[here]) :
           Cell(here, j, fp) \in 0 .. MemorySize - 1 /\ sp <= Cell(here, j, fp)
  BY <1>2, InsideFacts
<1> DEFINE cells == [c \in {Cell(here, i, fp)} |-> v]
<1>4. /\ mem' \in Memories
      /\ \A c \in 0 .. MemorySize - 1 : c # Cell(here, i, fp) => mem'[c] = mem[c]
      /\ mem'[Cell(here, i, fp)] = v
  <2>1. DOMAIN cells = {Cell(here, i, fp)} /\ cells[Cell(here, i, fp)] = v
    OBVIOUS
  <2>2. Write(cells) /\ \A c \in DOMAIN cells : cells[c] \in Int
    BY <1>1, <2>1
  <2> HIDE DEF cells
  <2> QED
    BY <1>3, <2>1, <2>2, WriteFacts
<1>5. \A c \in 0 .. MemorySize - 1 :
        c < HeapEnd \/ (c >= sp /\ c # Cell(here, i, fp)) => mem'[c] = mem[c]
  BY <1>3, <1>4
<1>6. Intact'
  <2>1. Base <= HeapEnd /\ HeapEnd \in Int /\ Base \in Nat
    BY <1>2, InsideFacts
  <2>2. \A c \in 0 .. MemorySize - 1 : c < Base => mem'[c] = mem[c]
    BY <1>5, <2>1
  <2> QED
    BY <1>2, <2>2, IntactKept
<1>7. gp' - HeapEnd = 0
  BY <1>1, <1>3
<1>8. PICK a : a = CallsInProgress[Depth]
  OBVIOUS
<1>9. a.f = here
  BY <1>2, <1>3, <1>8, LastCall
<1> DEFINE u == Meant(mem', Kinds[here][i], mem'[Cell(here, i, fp)])
<1>10. Language!Statement(a, Language!Put(a, i, u, 0))
  <2>1. CASE Kinds[here][i] = "word" /\ v \in Words
    <3>1. u = v
      BY <1>4, <2>1 DEF Meant
    <3>2. i \in Variables(here, "word")
      BY <2>1 DEF Variables
    <3> QED
      BY <1>9, <2>1, <3>1, <3>2, WordStatement
  <2>2. CASE Kinds[here][i] = "string" /\ v \in Pointers
    <3>1. u = StringAt(mem', v)
      BY <1>4, <2>2 DEF Meant
    <3>2. StringAt(mem', v) \in Lines
      BY <1>6, <2>2, ConstantIsNext
    <3>3. i \in Variables(here, "string")
      BY <2>2 DEF Variables
    <3>4. Language!SetString(a, Language!Put(a, i, u, 0), i)
      BY <3>1, <3>2 DEF Language!SetString
    <3> QED
      BY <1>9, <3>3, <3>4, StringStatement
  <2> QED
    BY <2>1, <2>2
<1> HIDE DEF u
<1>11. u = Meant(mem', Kinds[here][i], mem'[Cell(here, i, fp)])
  BY DEF u
<1> QED
  BY <1>1, <1>2, <1>5, <1>7, <1>8, <1>10, <1>11, Assignment

\* A string of one character.
LEMMA CastRefines ==
  ASSUME JInv, IInv', NEW i \in Variables(here, "string"), NEW x \in Chars, Cast(i, x)
  PROVE  JInv' /\ Simulated
<1> DEFINE cells == [a \in {gp, gp + 1, Cell(here, i, fp)} |->
                       IF a = gp THEN x ELSE IF a = gp + 1 THEN 0 ELSE gp]
<1>1. InBody /\ gp + 2 <= sp /\ Write(cells) /\ gp' = gp + 2 /\ Assigned(i)
      /\ UNCHANGED <<sp, fp, ra, v0, v1, args, here, doing>>
  BY DEF Cast
<1>2. IInv /\ Intact /\ doing.step = "body" /\ doing'.step = "body"
  BY <1>1 DEF JInv, InBody
<1>3. i \in DOMAIN Kinds[here] /\ Kinds[here][i] = "string" /\ x \in Int /\ x # 0
  BY MemoryAssumption DEF Variables
<1>4. /\ Depth > 0 /\ Current = here /\ HeapEnd = gp /\ mem \in Memories /\ gp \in Int
      /\ DOMAIN Kinds[here] = 1 .. Len(Kinds[here]) /\ HeapEnd <= sp /\ sp \in Int
      /\ Base \in Nat /\ Base <= HeapEnd /\ sp <= fp /\ fp < MemorySize /\ fp \in Int
      /\ Cell(here, i, fp) \in 0 .. MemorySize - 1 /\ sp <= Cell(here, i, fp)
      /\ MemorySize \in Nat
  BY <1>2, <1>3, InsideFacts
<1>5. /\ DOMAIN cells = {gp, gp + 1, Cell(here, i, fp)}
      /\ cells[gp] = x /\ cells[gp + 1] = 0 /\ cells[Cell(here, i, fp)] = gp
  BY <1>1, <1>4
<1>6. \A a \in DOMAIN cells : cells[a] \in Int
  BY <1>3, <1>4
<1> HIDE DEF cells
<1>7. gp \in 0 .. MemorySize - 1 /\ gp + 1 \in 0 .. MemorySize - 1
  BY <1>1, <1>4
<1>8. /\ mem' \in Memories
      /\ \A c \in 0 .. MemorySize - 1 : c \notin DOMAIN cells => mem'[c] = mem[c]
      /\ mem'[gp] = x /\ mem'[gp + 1] = 0 /\ mem'[Cell(here, i, fp)] = gp
  BY <1>1, <1>4, <1>5, <1>6, <1>7, WriteFacts
<1>9. \A c \in 0 .. MemorySize - 1 :
        c < HeapEnd \/ (c >= sp /\ c # Cell(here, i, fp)) => mem'[c] = mem[c]
  BY <1>1, <1>4, <1>5, <1>8
<1>10. PICK u : u = <<x>>
  OBVIOUS
<1>11. u \in Seq(Int) /\ Len(u) = 1 /\ u[1] = x
  BY <1>3, <1>10
<1>12. StringAt(mem', gp) = u
  <2>1. \A k \in 1 .. Len(u) : u[k] # 0 /\ mem'[gp + k - 1] = u[k]
    <3>1. ASSUME NEW k \in 1 .. Len(u)
          PROVE  u[k] # 0 /\ mem'[gp + k - 1] = u[k]
      <4>1. k = 1 /\ gp + k - 1 = gp
        BY <1>4, <1>11
      <4> QED
        BY <1>3, <1>8, <1>11, <4>1
    <3> QED
      BY <3>1
  <2>2. gp + Len(u) < MemorySize /\ mem'[gp + Len(u)] = 0
    BY <1>4, <1>7, <1>8, <1>11
  <2>3. Spelt(mem', gp, u)
    BY <1>11, <2>1, <2>2 DEF Spelt
  <2> QED
    BY <1>7, <2>3, SpeltIs
<1>13. u = Meant(mem', Kinds[here][i], mem'[Cell(here, i, fp)])
  BY <1>3, <1>8, <1>12 DEF Meant
<1>14. gp' - HeapEnd = Len(u) + 1
  BY <1>1, <1>4, <1>11
<1>15. \E c \in Chars : u = <<c>>
  BY <1>10
<1>16. PICK a, n : a = CallsInProgress[Depth] /\ n = gp' - HeapEnd
  OBVIOUS
<1>17. a.f = here
  BY <1>2, <1>4, <1>16, LastCall
<1>18. Language!Statement(a, Language!Put(a, i, u, n))
  BY <1>14, <1>15, <1>16, <1>17, NewString, StringStatement
<1> QED
  BY <1>1, <1>2, <1>3, <1>9, <1>13, <1>16, <1>18, Assignment

\* Lines of input, like the string constants, have no 0 in them.
LEMMA LineFacts ==
  ASSUME NEW line \in Lines
  PROVE  line \in Seq(Int) /\ Len(line) \in Nat /\ \A k \in 1 .. Len(line) : line[k] # 0
<1> DEFINE m == InitialMemory
<1>1. m \in Memories /\ (Base > 0 => m[Base - 1] = 0)
  BY InitMemory
<1>2. PICK p \in Pointers : line = StringAt(m, p)
  BY DEF Lines
<1> HIDE DEF m
<1>3. p \in 0 .. Base - 1
  BY InputFacts
<1>4. p \in Nat /\ Base - 1 \in Nat /\ p <= Base - 1 /\ Base - 1 < MemorySize /\ m[Base - 1] = 0
  BY <1>1, <1>3, BaseFacts
<1>5. Spelt(m, p, line)
  BY <1>1, <1>2, <1>4, StringIsSpelt
<1> QED
  BY <1>5 DEF Spelt

\* A line of input.
LEMMA ReadStringRefines ==
  ASSUME JInv, IInv', NEW i \in Variables(here, "string"), NEW line \in Lines,
         ReadString(i, line)
  PROVE  JInv' /\ Simulated
<1> DEFINE n == Len(line)
           cells == [a \in (gp .. gp + n) \cup {Cell(here, i, fp)} |->
                       IF a < gp + n THEN line[a - gp + 1] ELSE IF a = gp + n THEN 0 ELSE gp]
<1>1. InBody /\ gp + n + 1 <= sp /\ Write(cells) /\ gp' = gp + n + 1 /\ Assigned(i)
      /\ UNCHANGED <<sp, fp, ra, v0, v1, here, doing>>
  BY DEF ReadString
<1>2. IInv /\ Intact /\ doing.step = "body" /\ doing'.step = "body"
  BY <1>1 DEF JInv, InBody
<1>3. i \in DOMAIN Kinds[here] /\ Kinds[here][i] = "string"
  BY DEF Variables
<1>4. /\ Depth > 0 /\ Current = here /\ HeapEnd = gp /\ mem \in Memories /\ gp \in Int
      /\ DOMAIN Kinds[here] = 1 .. Len(Kinds[here]) /\ HeapEnd <= sp /\ sp \in Int
      /\ Base \in Nat /\ Base <= HeapEnd /\ sp <= fp /\ fp < MemorySize /\ fp \in Int
      /\ Cell(here, i, fp) \in 0 .. MemorySize - 1 /\ sp <= Cell(here, i, fp)
      /\ MemorySize \in Nat
  BY <1>2, <1>3, InsideFacts
<1>5. /\ line \in Seq(Int) /\ n \in Nat
      /\ \A k \in 1 .. n : line[k] # 0 /\ line[k] \in Int
  BY LineFacts
<1>6. /\ DOMAIN cells = (gp .. gp + n) \cup {Cell(here, i, fp)}
      /\ \A a \in DOMAIN cells :
           cells[a] = IF a < gp + n THEN line[a - gp + 1] ELSE IF a = gp + n THEN 0 ELSE gp
  OBVIOUS
<1> HIDE DEF n, cells
<1>7. /\ \A a \in DOMAIN cells : cells[a] \in Int
      /\ cells[Cell(here, i, fp)] = gp /\ cells[gp + n] = 0
      /\ \A k \in 1 .. n : gp + k - 1 \in DOMAIN cells /\ cells[gp + k - 1] = line[k]
  <2>1. ASSUME NEW k \in 1 .. n
        PROVE  gp + k - 1 \in DOMAIN cells /\ cells[gp + k - 1] = line[k]
    <3>1. gp + k - 1 \in gp .. gp + n /\ gp + k - 1 < gp + n /\ (gp + k - 1) - gp + 1 = k
      BY <1>4, <1>5
    <3> QED
      BY <1>6, <3>1
  <2>2. /\ cells[Cell(here, i, fp)] = gp /\ cells[gp + n] = 0
    <3>1. gp + n \in gp .. gp + n /\ ~ (gp + n < gp + n)
      BY <1>4, <1>5
    <3>2. ~ (Cell(here, i, fp) < gp + n) /\ Cell(here, i, fp) # gp + n
      BY <1>1, <1>4, <1>5
    <3> QED
      BY <1>6, <3>1, <3>2
  <2>3. ASSUME NEW a \in DOMAIN cells
        PROVE  cells[a] \in Int
    <3>1. CASE a = Cell(here, i, fp) \/ a = gp + n
      BY <1>4, <2>2, <3>1
    <3>2. CASE ~ (a = Cell(here, i, fp) \/ a = gp + n)
      <4>1. a \in gp .. gp + n /\ a # gp + n
        BY <1>6, <3>2
      <4>2. a \in Int /\ gp \in Int /\ n \in Nat
        BY <1>4, <1>5, <4>1
      <4>3. gp <= a /\ a <= gp + n
        BY <4>1, <4>2
      <4>4. PICK k : k = a - gp + 1
        OBVIOUS
      <4>5. k \in Int /\ 1 <= k /\ gp + k - 1 = a
        BY <4>2, <4>3, <4>4
      <4>6. a < gp + n
        BY <4>1, <4>2, <4>3
      <4>7. k <= n
        BY <4>2, <4>4, <4>6
      <4>8. k \in 1 .. n
        BY <4>2, <4>5, <4>7
      <4> QED
        BY <1>5, <2>1, <4>5, <4>8
    <3> QED
      BY <3>1, <3>2
  <2> QED
    BY <2>1, <2>2, <2>3
<1>8. /\ gp + n \in 0 .. MemorySize - 1 /\ gp + n \in DOMAIN cells
      /\ Cell(here, i, fp) \in DOMAIN cells
      /\ \A k \in 1 .. n : gp + k - 1 \in 0 .. MemorySize - 1
  BY <1>1, <1>4, <1>5, <1>6
<1>9. /\ mem' \in Memories
      /\ \A c \in 0 .. MemorySize - 1 : c \notin DOMAIN cells => mem'[c] = mem[c]
      /\ \A c \in 0 .. MemorySize - 1 : c \in DOMAIN cells => mem'[c] = cells[c]
  BY <1>1, <1>4, <1>7, WriteFacts
<1>10. /\ mem'[gp + n] = 0 /\ mem'[Cell(here, i, fp)] = gp
       /\ \A k \in 1 .. n : mem'[gp + k - 1] = line[k]
  BY <1>4, <1>7, <1>8, <1>9
<1>11. \A c \in 0 .. MemorySize - 1 :
         c < HeapEnd \/ (c >= sp /\ c # Cell(here, i, fp)) => mem'[c] = mem[c]
  <2>1. ASSUME NEW c \in 0 .. MemorySize - 1,
               c < HeapEnd \/ (c >= sp /\ c # Cell(here, i, fp))
        PROVE  c \notin DOMAIN cells
    <3>1. c \in Int /\ gp + n < sp
      BY <1>1, <1>4, <1>5
    <3>2. c # Cell(here, i, fp)
      BY <1>4, <2>1, <3>1
    <3>3. ~ (gp <= c /\ c <= gp + n)
      BY <1>4, <1>5, <2>1, <3>1
    <3> QED
      BY <1>4, <1>5, <1>6, <3>2, <3>3
  <2> QED
    BY <1>9, <2>1
<1>12. StringAt(mem', gp) = line
  <2>1. gp \in Nat /\ gp + n < MemorySize
    BY <1>4, <1>8
  <2>2. Spelt(mem', gp, line)
    BY <1>5, <1>10, <2>1 DEF Spelt, n
  <2> QED
    BY <2>1, <2>2, SpeltIs
<1>13. line = Meant(mem', Kinds[here][i], mem'[Cell(here, i, fp)])
  BY <1>3, <1>10, <1>12 DEF Meant
<1>14. gp' - HeapEnd = Len(line) + 1
  BY <1>1, <1>4, <1>5 DEF n
<1>15. PICK a, l : a = CallsInProgress[Depth] /\ l = gp' - HeapEnd
  OBVIOUS
<1>16. a.f = here
  BY <1>2, <1>4, <1>15, LastCall
<1>17. Language!Statement(a, Language!Put(a, i, line, l))
  BY <1>14, <1>15, <1>16, NewString, StringStatement
<1> QED
  BY <1>1, <1>2, <1>3, <1>11, <1>13, <1>15, <1>17, Assignment

\* A statement that the language does not see.
LEMMA UnseenStatement ==
  ASSUME JInv, IInv', InBody, UNCHANGED <<sp, fp, gp, here, doing, scope>>,
         \A c \in 0 .. MemorySize - 1 : c < gp \/ c >= sp => mem'[c] = mem[c]
  PROVE  JInv' /\ Simulated
<1>1. IInv /\ Intact /\ doing.step = "body" /\ doing'.step = "body"
  BY DEF JInv, InBody
<1>2. /\ Depth > 0 /\ Current = here /\ sp = Bottom(Current, fp) /\ HeapEnd = gp
      /\ gp \in Int /\ Base \in Nat /\ Base <= gp
  BY <1>1, InsideFacts
<1>3. Current' = Current /\ HeapEnd' = HeapEnd
  BY <1>1, <1>2 DEF Current, HeapEnd
<1>4. CallsInProgress' = CallsInProgress
  BY <1>1, <1>2, <1>3, Unseen
<1>5. InTransit = <<>> /\ InTransit' = <<>>
  BY <1>1, NothingInTransit, NothingInTransitNext
<1>6. Intact'
  <2>1. \A c \in 0 .. MemorySize - 1 : c < Base => mem'[c] = mem[c]
    BY <1>2
  <2> QED
    BY <1>1, <2>1, IntactKept
<1> QED
  BY <1>1, <1>4, <1>5, <1>6, SettledNext DEF Simulated, Language!vars

\* Registers get values.
LEMMA UseRegistersRefines ==
  ASSUME JInv, IInv', UseRegisters
  PROVE  JInv' /\ Simulated
BY UnseenStatement DEF UseRegisters

\* A line that nobody uses is above the end of the heap.
LEMMA SkipLineRefines ==
  ASSUME JInv, IInv', NEW line \in Seq(Int), SkipLine(line)
  PROVE  JInv' /\ Simulated
<1> DEFINE n == Len(line)
           cells == [a \in gp .. gp + n |-> IF a < gp + n THEN line[a - gp + 1] ELSE 0]
<1>1. /\ InBody /\ gp + n + 1 <= sp /\ Write(cells)
      /\ UNCHANGED <<sp, fp, gp, here, doing, scope>>
  BY DEF SkipLine
<1>2. n \in Nat /\ gp \in Int /\ sp \in Int /\ mem \in [0 .. MemorySize - 1 -> Int]
  BY LenProperties DEF JInv, IInv, TypeOK, n
<1>3. DOMAIN cells = gp .. gp + n
  OBVIOUS
<1> HIDE DEF n, cells
<1>4. \A c \in 0 .. MemorySize - 1 : c < gp \/ c >= sp => mem'[c] = mem[c]
  BY <1>1, <1>2, <1>3 DEF Write
<1> QED
  BY <1>1, <1>4, UnseenStatement

-----------------------------------------------------------------------------
(***************************************************************************)
(* Copies                                                                  *)
(***************************************************************************)

\* A string that a variable knows is in the memory, below the end of the heap.
LEMMA TextFacts ==
  ASSUME IInv, doing.step \in {"body"} \cup CopySteps, NEW j \in Texts
  PROVE  /\ Var(j) \in Nat /\ Spelt(mem, Var(j), Text(j)) /\ Var(j) + Len(Text(j)) <= HeapEnd - 1
         /\ HeapEnd - 1 \in Nat /\ HeapEnd - 1 < MemorySize /\ mem[HeapEnd - 1] = 0
<1>1. /\ mem \in Memories /\ HeapEnd \in Int /\ gp \in Int /\ sp \in Int /\ fp \in Int
      /\ HeapEnd <= gp /\ gp <= sp /\ sp <= fp
      /\ fp < MemorySize /\ MemorySize \in Nat /\ (HeapEnd > 0 => mem[HeapEnd - 1] = 0)
      /\ Var(j) \in 0 .. HeapEnd - 1
  BY InsideFacts
<1>2. /\ Var(j) \in Nat /\ HeapEnd - 1 \in Nat /\ Var(j) <= HeapEnd - 1
      /\ HeapEnd - 1 < MemorySize /\ mem[HeapEnd - 1] = 0
  BY <1>1
<1> DEFINE p == Var(j)
           q == HeapEnd - 1
<1> HIDE DEF p, q
<1>3. p \in Nat /\ q \in Nat /\ p <= q /\ q < MemorySize /\ mem[q] = 0
  BY <1>2 DEF p, q
<1>4. Spelt(mem, p, StringAt(mem, p)) /\ p + Len(StringAt(mem, p)) <= q
  BY <1>1, <1>3, StringIsSpelt
<1> QED
  BY <1>2, <1>4 DEF p, q, Text

\* Steps of a copy that the language does not see.
LEMMA CopyUnseen ==
  ASSUME JInv, IInv', doing.step \in {"body"} \cup CopySteps, doing'.step \in CopySteps,
         scope' = scope, fp' = fp, here' = here, HeapEnd' = HeapEnd,
         \A c \in 0 .. MemorySize - 1 : c < HeapEnd \/ c >= sp => mem'[c] = mem[c],
         NEW s, Progress(s)', Source(s)', InTransit' = InTransit
  PROVE  JInv' /\ Simulated
<1>1. IInv /\ Intact
  BY DEF JInv
<1>2. /\ Depth > 0 /\ Current = here /\ sp = Bottom(Current, fp) /\ HeapEnd \in Int
      /\ Base \in Nat /\ Base <= HeapEnd
  BY <1>1, InsideFacts
<1>3. Current' = Current
  BY <1>2 DEF Current, CopySteps
<1>4. \A c \in 0 .. MemorySize - 1 : c < HeapEnd \/ c >= Bottom(Current, fp) => mem'[c] = mem[c]
  BY <1>2
<1>5. CallsInProgress' = CallsInProgress
  BY <1>1, <1>2, <1>3, <1>4, Unseen
<1>6. Intact'
  <2>1. \A c \in 0 .. MemorySize - 1 : c < Base => mem'[c] = mem[c]
    BY <1>2
  <2> QED
    BY <1>1, <2>1, IntactKept
<1>7. Started' /\ Passed'
  BY DEF Started, Passed, CopySteps
<1>8. Copies'
  BY DEF Copies
<1>9. Simulated
  BY <1>5 DEF Simulated, Language!vars
<1> QED
  BY <1>6, <1>7, <1>8, <1>9 DEF JInv

\* A string variable is one that a string can be assigned to.
LEMMA StringVariable ==
  ASSUME IInv, NEW i \in Variables(here, "string")
  PROVE  IsString(here, i)
<1>1. here \in Functions
  BY DEF IInv, TypeOK
<1>2. DOMAIN Kinds[here] = 1 .. Len(Kinds[here]) /\ Len(Kinds[here]) \in Nat
  BY <1>1, FunctionFacts
<1>3. i \in DOMAIN Kinds[here] /\ Kinds[here][i] = "string"
  BY DEF Variables
<1> QED
  BY <1>2, <1>3 DEF IsString

\* What StartCopy leaves to the copy routine.
LEMMA StartCopyRefines ==
  ASSUME JInv, IInv', InBody, NEW step \in {"first", "set"},
         NEW dest \in Variables(here, "string"), NEW from \in Nat, NEW x,
         NEW c, StartCopy(step, dest, from, x, c), NEW j \in Texts, from = Var(j),
         step = "first" => \E k \in Texts : x = Var(k),
         step = "set" => x \in 0 .. Len(Text(j)) - 1 /\ c \in Chars
  PROVE  JInv' /\ Simulated
<1>1. /\ v1' = from /\ doing' = [step |-> step, dest |-> dest, at |-> gp, x |-> x, c |-> c]
      /\ UNCHANGED <<mem, sp, fp, gp, args, saved, here, scope>>
  BY DEF StartCopy, State
<1>2. IInv /\ doing.step = "body"
  BY DEF JInv, InBody
<1>3. /\ doing'.step = step /\ doing'.at = gp /\ doing'.x = x /\ doing'.c = c
      /\ doing'.step \in CopySteps
  BY <1>1 DEF CopySteps
<1>4. HeapEnd = gp /\ HeapEnd \in Int /\ Base \in Nat /\ Base <= HeapEnd
  BY <1>2, InsideFacts
<1>5. HeapEnd' = HeapEnd
  BY <1>1, <1>2, <1>3, <1>4 DEF HeapEnd
<1>6. \A i : Var(i)' = Var(i) /\ Text(i)' = Text(i)
  BY <1>1 DEF Var, Text
<1>7. Texts' = Texts
  BY <1>1 DEF Texts, Here
<1>8. PICK s : s = Text(j)
  OBVIOUS
<1>9. Progress(s)'
  <2>1. Spelt(mem, from, s)
    BY <1>2, <1>8, TextFacts
  <2>2. gp \in Nat
    BY <1>4
  <2>3. HalfCopied(mem, gp, gp, from, s)
    BY <2>1, <2>2, CopyStarts
  <2> QED
    BY <1>1, <1>3, <2>3 DEF Progress
<1>10. Source(s)'
  <2>1. IsString(here, doing.dest)'
    BY <1>1, <1>2, StringVariable
  <2> QED
    BY <1>3, <1>6, <1>7, <1>8, <2>1 DEF Source
<1>11. InTransit' = InTransit
  BY <1>2, <1>3, NothingInTransit, NothingInTransitNext
<1> QED
  BY <1>1, <1>2, <1>3, <1>5, <1>9, <1>10, <1>11, CopyUnseen

\* strcat, until its first string is copied.
LEMMA StrcatRefines ==
  ASSUME JInv, IInv', NEW i \in Variables(here, "string"),
         NEW j \in Variables(here, "string"), NEW k \in Variables(here, "string"), Strcat(i, j, k)
  PROVE  JInv' /\ Simulated
<1>1. InBody /\ j \in Texts /\ k \in Texts /\ StartCopy("first", i, Var(j), Var(k), 0)
  BY DEF Strcat, Texts
<1>2. IInv /\ doing.step = "body"
  BY <1>1 DEF JInv, InBody
<1>3. Var(j) \in Nat
  BY <1>1, <1>2, TextFacts
<1> QED
  BY <1>1, <1>3, StartCopyRefines

\* set_at, until its string is copied.
LEMMA SetAtRefines ==
  ASSUME JInv, IInv', NEW i \in Variables(here, "string"),
         NEW j \in Variables(here, "string"), NEW c \in Chars, SetAt(i, j, c)
  PROVE  JInv' /\ Simulated
<1>1. /\ InBody /\ j \in Texts
      /\ \E n \in 0 .. Len(StringAt(mem, Var(j))) - 1 : StartCopy("set", i, Var(j), n, c)
  BY DEF SetAt, Texts
<1>2. PICK n \in 0 .. Len(Text(j)) - 1 : StartCopy("set", i, Var(j), n, c)
  BY <1>1 DEF Text
<1>3. IInv /\ doing.step = "body"
  BY <1>1 DEF JInv, InBody
<1>4. Var(j) \in Nat
  BY <1>1, <1>3, TextFacts
<1> QED
  BY <1>1, <1>2, <1>4, StartCopyRefines

\* The string that is copied, and why.
LEMMA CopyOf ==
  ASSUME JInv, doing.step \in CopySteps
  PROVE  /\ IInv /\ \E s : Progress(s) /\ Source(s)
         /\ HeapEnd = doing.at /\ doing.at \in Nat /\ gp \in Nat /\ doing.at <= gp
         /\ gp <= sp /\ sp < MemorySize /\ sp \in Int /\ v1 \in Int /\ Copied
         /\ doing.dest \in DOMAIN Kinds[here] /\ mem \in Memories /\ Base <= doing.at
         /\ MemorySize \in Nat
         /\ doing \in [step : {"enter", "body", "first", "join", "second", "set", "place",
                               "finish", "receive", "received", "returned", "stopped"},
                       dest : Nat, at : Int, x : Int, c : Int]
<1>1. IInv /\ \E s : Progress(s) /\ Source(s)
  BY DEF JInv, Copies
<1>2. /\ TypeOK
      /\ doing \in [step : {"enter", "body", "first", "join", "second", "set", "place",
                            "finish", "receive", "received", "returned", "stopped"},
                    dest : Nat, at : Int, x : Int, c : Int]
      /\ doing.at \in Int /\ gp \in Int /\ sp \in Int
      /\ Base <= doing.at /\ doing.at <= gp /\ gp <= sp /\ sp < MemorySize
      /\ doing.dest \in 1 .. Len(Kinds[here]) /\ mem \in Memories /\ Copied
  BY <1>1, CopyingFacts
<1>3. doing.step # "body"
  BY DEF CopySteps
<1>4. HeapEnd = doing.at /\ DOMAIN Kinds[here] = 1 .. Len(Kinds[here])
  BY <1>1, <1>3, InsideFacts
<1>5. doing.at \in Nat /\ gp \in Nat /\ v1 \in Int /\ MemorySize \in Nat
  BY <1>2, BaseFacts DEF TypeOK
<1> QED
  BY <1>1, <1>2, <1>4, <1>5

\* The copy of the first string becomes the first half of the copy of both.
LEMMA JoinRefines ==
  ASSUME JInv, IInv', Join
  PROVE  JInv' /\ Simulated
<1>1. /\ doing.step = "join" /\ gp' = gp - 1 /\ v1' = doing.x
      /\ doing' = [doing EXCEPT !.step = "second"]
      /\ UNCHANGED <<mem, sp, fp, args, saved, here, scope>>
  BY DEF Join
<1>2. doing.step \in CopySteps
  BY <1>1 DEF CopySteps
<1>3. /\ IInv /\ HeapEnd = doing.at /\ doing.at \in Nat /\ gp \in Nat
      /\ doing \in [step : {"enter", "body", "first", "join", "second", "set", "place",
                            "finish", "receive", "received", "returned", "stopped"},
                    dest : Nat, at : Int, x : Int, c : Int]
  BY <1>2, CopyOf
<1>4. PICK s : Progress(s) /\ Source(s)
  BY <1>2, CopyOf
<1>5. PICK j \in Texts, k \in Texts : s = Text(j) /\ doing.x = Var(k)
  BY <1>1, <1>4 DEF Source
<1>6. /\ doing'.step = "second" /\ doing'.at = doing.at /\ doing'.step \in CopySteps
  BY <1>1, <1>3 DEF CopySteps
<1>7. \A i : Var(i)' = Var(i) /\ Text(i)' = Text(i)
  BY <1>1 DEF Var, Text
<1>8. Texts' = Texts
  BY <1>1 DEF Texts, Here
<1>9. PICK t, u : t = Text(k) /\ u = s \o t
  OBVIOUS
<1>10. Progress(u)'
  <2>1. Spelt(mem, doing.at, s) /\ gp = doing.at + Len(s) + 1
    BY <1>1, <1>4 DEF Progress
  <2>2. Spelt(mem, doing.x, t) /\ doing.x \in Nat
    BY <1>2, <1>3, <1>5, <1>9, TextFacts
  <2>3. HalfCopied(mem, doing.at, doing.at + Len(s), doing.x, u)
    BY <1>3, <1>9, <2>1, <2>2, CopyJoins
  <2>4. gp - 1 = doing.at + Len(s)
    <3>1. Len(s) \in Nat
      BY <2>1 DEF Spelt
    <3> QED
      BY <1>3, <2>1, <3>1
  <2>5. HalfCopied(mem, doing.at, gp - 1, doing.x, u)
    BY <2>3, <2>4
  <2> QED
    BY <1>1, <1>6, <2>5 DEF Progress
<1>11. Source(u)'
  <2>1. IsString(here, doing.dest)'
    BY <1>1, <1>3, <1>4 DEF Source, IsString
  <2> QED
    BY <1>5, <1>6, <1>7, <1>8, <1>9, <2>1 DEF Source
<1>12. InTransit' = InTransit
  BY <1>1, <1>6, NothingInTransit, NothingInTransitNext
<1>13. HeapEnd' = HeapEnd
  BY <1>3, <1>6 DEF HeapEnd
<1> QED
  BY <1>1, <1>2, <1>6, <1>10, <1>11, <1>12, <1>13, CopyUnseen

\* What the variables mean is not touched by a copy.
LEMMA TextStays ==
  ASSUME IInv, doing.step \in CopySteps, here' = here, fp' = fp,
         \A c \in 0 .. MemorySize - 1 : c < HeapEnd \/ c >= sp => mem'[c] = mem[c],
         NEW j \in Texts
  PROVE  Var(j)' = Var(j) /\ Text(j)' = Text(j)
<1>1. /\ mem \in Memories /\ MemorySize \in Nat
      /\ Here \subseteq 1 .. Len(Kinds[here])
      /\ \A i \in 1 .. Len(Kinds[here]) :
           Cell(here, i, fp) \in 0 .. MemorySize - 1 /\ sp <= Cell(here, i, fp)
      /\ sp \in Int
  BY InsideFacts
<1>2. /\ Var(j) \in Nat /\ HeapEnd - 1 \in Nat /\ HeapEnd - 1 < MemorySize
      /\ mem[HeapEnd - 1] = 0 /\ Var(j) + Len(Text(j)) <= HeapEnd - 1 /\ Len(Text(j)) \in Nat
  BY TextFacts DEF Spelt
<1>3. j \in 1 .. Len(Kinds[here])
  BY <1>1 DEF Texts
<1>4. Var(j)' = Var(j)
  <2>1. Cell(here, j, fp) \in 0 .. MemorySize - 1 /\ Cell(here, j, fp) >= sp
    BY <1>1, <1>3
  <2> QED
    BY <2>1 DEF Var
<1>5. PICK p, q : p = Var(j) /\ q = HeapEnd - 1
  OBVIOUS
<1>6. p \in Nat /\ q \in Nat /\ p <= q /\ q < MemorySize /\ mem[q] = 0
  BY <1>2, <1>5
<1>7. HeapEnd = q + 1
  <2>1. HeapEnd \in Int
    BY InsideFacts
  <2> QED
    BY <1>5, <2>1
<1>8. \A c \in 0 .. q : mem'[c] = mem[c]
  BY <1>1, <1>6, <1>7
<1>9. StringAt(mem', p) = StringAt(mem, p)
  BY <1>1, <1>6, <1>8, StringStays
<1> QED
  BY <1>4, <1>5, <1>9 DEF Text

\* One more byte: the string that comes out is the same.
LEMMA CopyByteRefines ==
  ASSUME JInv, IInv', CopyByte
  PROVE  JInv' /\ Simulated
<1>1. /\ doing.step \in {"first", "second", "set", "receive"} /\ gp < sp
      /\ Write([c \in {gp} |-> mem[v1]]) /\ gp' = gp + 1 /\ v1' = v1 + 1
      /\ doing' = [doing EXCEPT !.step = IF mem[v1] = 0 THEN Then(@) ELSE @]
      /\ UNCHANGED <<sp, fp, ra, v0, saved, here, scope>>
  BY DEF CopyByte, Advance
<1>2. doing.step \in CopySteps
  BY <1>1 DEF CopySteps
<1>3. /\ IInv /\ HeapEnd = doing.at /\ doing.at \in Nat /\ gp \in Nat /\ doing.at <= gp
      /\ gp <= sp /\ sp < MemorySize /\ sp \in Int /\ v1 \in Int /\ Copied
      /\ mem \in Memories /\ MemorySize \in Nat
      /\ doing \in [step : {"enter", "body", "first", "join", "second", "set", "place",
                            "finish", "receive", "received", "returned", "stopped"},
                    dest : Nat, at : Int, x : Int, c : Int]
  BY <1>2, CopyOf
<1>4. PICK s : Progress(s) /\ Source(s)
  BY <1>2, CopyOf
<1>5. /\ v1 \in Nat /\ v1 \in 0 .. MemorySize - 1
      /\ (v1 < doing.at /\ mem[doing.at - 1] = 0) \/ gp <= v1
  <2>1. v1 \in 0 .. doing.at - 1 \/ (gp <= v1 /\ \E q \in v1 .. sp - 1 : mem[q] = 0)
    BY <1>1, <1>3 DEF Copied
  <2>2. CASE v1 \in 0 .. doing.at - 1
    <3>1. doing.at > 0 /\ v1 \in Nat /\ v1 < doing.at /\ v1 \in 0 .. MemorySize - 1
      BY <1>3, <2>2
    <3>2. mem[doing.at - 1] = 0
      BY <1>2, <1>3, <3>1, CopyingFacts
    <3> QED
      BY <3>1, <3>2
  <2>3. CASE gp <= v1 /\ \E q \in v1 .. sp - 1 : mem[q] = 0
    <3>1. PICK q \in v1 .. sp - 1 : mem[q] = 0
      BY <2>3
    <3>2. v1 \in Nat /\ v1 \in 0 .. MemorySize - 1
      BY <1>3, <2>3, <3>1
    <3> QED
      BY <2>3, <3>2
  <2> QED
    BY <2>1, <2>2, <2>3
<1>6. gp \in 0 .. MemorySize - 1 /\ gp < MemorySize
  BY <1>1, <1>3
<1>7. mem'[gp] = mem[v1] /\ \A c \in 0 .. MemorySize - 1 : c # gp => mem'[c] = mem[c]
  <2> DEFINE cells == [c \in {gp} |-> mem[v1]]
  <2>1. DOMAIN cells = {gp} /\ cells[gp] = mem[v1] /\ mem[v1] \in Int
    BY <1>3, <1>5 DEF Memories
  <2>2. \A c \in DOMAIN cells : cells[c] \in Int
    BY <2>1
  <2>3. Write(cells)
    BY <1>1
  <2> HIDE DEF cells
  <2> QED
    BY <1>3, <1>6, <2>1, <2>2, <2>3, WriteFacts
<1>8. \A c \in 0 .. MemorySize - 1 : c < HeapEnd \/ c >= sp => mem'[c] = mem[c]
  BY <1>1, <1>3, <1>7
<1>9. HalfCopied(mem, doing.at, gp, v1, s)
  BY <1>1, <1>4 DEF Progress
<1>10. /\ mem[v1] = 0 => Spelt(mem', doing.at, s) /\ gp = doing.at + Len(s)
       /\ mem[v1] # 0 => HalfCopied(mem', doing.at, gp + 1, v1 + 1, s)
  BY <1>3, <1>5, <1>6, <1>7, <1>9, CopyMoves
<1>11. /\ doing'.at = doing.at /\ doing'.x = doing.x /\ doing'.c = doing.c
       /\ doing'.dest = doing.dest
       /\ mem[v1] # 0 => doing'.step = doing.step
       /\ mem[v1] = 0 => /\ doing.step = "first" => doing'.step = "join"
                         /\ doing.step = "second" => doing'.step = "finish"
                         /\ doing.step = "set" => doing'.step = "place"
                         /\ doing.step = "receive" => doing'.step = "received"
  BY <1>1, <1>3 DEF Then
<1>12. doing'.step \in CopySteps
  BY <1>1, <1>11 DEF CopySteps
<1>13. Progress(s)'
  <2>1. CASE mem[v1] = 0
    <3>1. doing'.step \notin {"first", "second", "set", "receive"}
      BY <1>1, <1>11, <2>1
    <3>2. gp' = doing.at + Len(s) + 1
      BY <1>1, <1>10, <2>1
    <3> QED
      BY <1>10, <1>11, <2>1, <3>1, <3>2 DEF Progress
  <2>2. CASE mem[v1] # 0
    BY <1>1, <1>10, <1>11, <2>2 DEF Progress
  <2> QED
    BY <2>1, <2>2
<1>14. \A j \in Texts : Var(j)' = Var(j) /\ Text(j)' = Text(j)
  BY <1>1, <1>2, <1>3, <1>8, TextStays
<1>15. Texts' = Texts
  BY <1>1 DEF Texts, Here
<1>16. Source(s)'
  <2>1. IsString(here, doing.dest)'
    BY <1>1, <1>4, <1>11 DEF Source, IsString
  <2>2. CASE doing.step = "first"
    <3>1. doing'.step \in {"first", "join"}
      BY <1>11, <2>2
    <3>2. PICK j \in Texts, k \in Texts : s = Text(j) /\ doing.x = Var(k)
      BY <1>4, <2>2 DEF Source
    <3> QED
      BY <1>11, <1>14, <1>15, <2>1, <3>1, <3>2 DEF Source
  <2>3. CASE doing.step = "second"
    <3>1. doing'.step \in {"second", "finish"}
      BY <1>11, <2>3
    <3>2. PICK j \in Texts, k \in Texts : s = Text(j) \o Text(k)
      BY <1>4, <2>3 DEF Source
    <3> QED
      BY <1>11, <1>14, <1>15, <2>1, <3>1, <3>2 DEF Source
  <2>4. CASE doing.step = "set"
    <3>1. doing'.step \in {"set", "place"}
      BY <1>11, <2>4
    <3>2. doing.x \in 0 .. Len(s) - 1 /\ doing.c \in Chars /\ \E j \in Texts : s = Text(j)
      BY <1>4, <2>4 DEF Source
    <3> QED
      BY <1>11, <1>14, <1>15, <2>1, <3>1, <3>2 DEF Source
  <2>5. CASE doing.step = "receive"
    <3>1. doing'.step \in {"receive", "received"}
      BY <1>11, <2>5
    <3>2. /\ doing.x \in DOMAIN Sites /\ Sites[doing.x].caller = here
          /\ Sites[doing.x].dest = doing.dest
      BY <1>4, <2>5 DEF Source
    <3> QED
      BY <1>1, <1>11, <2>1, <3>1, <3>2 DEF Source
  <2> QED
    BY <1>1, <2>2, <2>3, <2>4, <2>5
<1>17. InTransit' = InTransit
  <2>1. CASE doing.step = "receive"
    <3>1. doing'.step \in {"receive", "received"}
      BY <1>11, <2>1
    <3> QED
      BY <1>3, <1>4, <1>11, <1>13, <2>1, <3>1, StringInTransit, StringInTransitNext
  <2>2. CASE doing.step # "receive"
    <3>1. doing'.step \in {"first", "join", "second", "set", "place", "finish"}
      BY <1>1, <1>11, <2>2
    <3> QED
      BY <1>1, <2>2, <3>1, NothingInTransit, NothingInTransitNext
  <2> QED
    BY <2>1, <2>2
<1>18. HeapEnd' = HeapEnd
  BY <1>3, <1>11, <1>12 DEF HeapEnd, CopySteps
<1> QED
  BY <1>1, <1>2, <1>8, <1>12, <1>13, <1>16, <1>17, <1>18, CopyUnseen

\* Something comes from a call.
LEMMA Receives ==
  ASSUME IInv, Depth > 0, NEW x, NEW v, InTransit = <<[by |-> x, value |-> v]>>,
         InTransit' = <<>>, NEW a, a = CallsInProgress[Depth], NEW b,
         b = (IF Sites[x].dest = 0 THEN a
              ELSE IF Kinds[Sites[x].caller][Sites[x].dest] = "string"
              THEN Language!PutNew(a, Sites[x].dest, v)
              ELSE Language!Put(a, Sites[x].dest, v, 0)),
         CallsInProgress' = [CallsInProgress EXCEPT ![Depth] = b]
  PROVE  Language!Next
<1>1. CallsInProgress # <<>> /\ Len(CallsInProgress) = Depth
  BY LastCall
<1>2. Language!Receive(CallsInProgress, CallsInProgress', x, v)
  BY <1>1 DEF Language!Receive
<1>3. InTransit # <<>> /\ InTransit[1].by = x /\ InTransit[1].value = v
  OBVIOUS
<1> QED
  BY <1>2, <1>3 DEF Language!Next

\* What the end of a copy writes.
LEMMA FinishFacts ==
  ASSUME JInv, IInv', doing.step \in {"place", "finish", "received"}, NEW cells,
         cells \subseteq doing.at .. gp - 2, Finish(doing.at, cells)
  PROVE  /\ doing.dest \in 1 .. Len(Kinds[here]) /\ Assigned(doing.dest) /\ doing'.step = "body"
         /\ fp' = fp /\ here' = here /\ gp' = gp
         /\ \A c \in 0 .. MemorySize - 1 :
              c < HeapEnd \/ (c >= sp /\ c # Cell(here, doing.dest, fp)) => mem'[c] = mem[c]
         /\ mem'[Cell(here, doing.dest, fp)] = doing.at
         /\ \A c \in doing.at .. gp - 1 :
              mem'[c] = IF c \in cells THEN doing.c ELSE mem[c]
<1>1. doing.step \in CopySteps
  BY DEF CopySteps
<1>2. /\ IInv /\ HeapEnd = doing.at /\ doing.at \in Nat /\ gp \in Nat /\ doing.at <= gp
      /\ gp <= sp /\ sp < MemorySize /\ sp \in Int /\ mem \in Memories /\ MemorySize \in Nat
      /\ doing.dest \in DOMAIN Kinds[here]
      /\ doing \in [step : {"enter", "body", "first", "join", "second", "set", "place",
                            "finish", "receive", "received", "returned", "stopped"},
                    dest : Nat, at : Int, x : Int, c : Int]
  BY <1>1, CopyOf
<1>3. doing.c \in Int
  BY <1>2
<1> DEFINE v == Cell(here, doing.dest, fp)
           new == [c \in cells \cup {v} |-> IF c \in cells THEN doing.c ELSE doing.at]
<1>4. /\ Write(new) /\ Assigned(doing.dest) /\ doing' = Idle
      /\ UNCHANGED <<sp, fp, ra, gp, v0, v1, args, here>>
  BY DEF Finish
<1>5. v \in 0 .. MemorySize - 1 /\ sp <= v /\ doing.dest \in 1 .. Len(Kinds[here])
  BY <1>1, <1>2, InsideFacts
<1> HIDE DEF v
<1>6. v \notin cells /\ v \notin doing.at .. gp - 1 /\ \A c \in cells : c < sp /\ c >= doing.at
  <2>1. v \in Int /\ v >= gp
    BY <1>2, <1>5
  <2>2. \A c \in doing.at .. gp - 2 : c < sp /\ c >= doing.at /\ c # v
    BY <1>2, <2>1
  <2>3. v \notin doing.at .. gp - 1
    BY <1>2, <2>1
  <2> QED
    BY <2>2, <2>3
<1>7. /\ DOMAIN new = cells \cup {v} /\ new[v] = doing.at
      /\ \A c \in cells : new[c] = doing.c
      /\ \A c \in DOMAIN new : new[c] \in Int
  BY <1>2, <1>3, <1>6
<1> HIDE DEF new
<1>8. /\ \A c \in 0 .. MemorySize - 1 : c \notin cells \cup {v} => mem'[c] = mem[c]
      /\ \A c \in 0 .. MemorySize - 1 : c \in cells \cup {v} => mem'[c] = new[c]
  <2>1. PICK w : w = new
    OBVIOUS
  <2>2. Write(w) /\ DOMAIN w = cells \cup {v} /\ \A c \in DOMAIN w : w[c] \in Int
    BY <1>4, <1>7, <2>1
  <2>3. /\ \A c \in 0 .. MemorySize - 1 : c \notin DOMAIN w => mem'[c] = mem[c]
        /\ \A c \in 0 .. MemorySize - 1 : c \in DOMAIN w => mem'[c] = w[c]
    BY <1>2, <2>2, WriteFacts
  <2> QED
    BY <2>1, <2>2, <2>3
<1>9. \A c \in 0 .. MemorySize - 1 : c < HeapEnd \/ (c >= sp /\ c # v) => mem'[c] = mem[c]
  <2>1. ASSUME NEW c \in 0 .. MemorySize - 1, c < HeapEnd \/ (c >= sp /\ c # v)
        PROVE  c \notin cells \cup {v}
    <3>1. c \in Int /\ doing.at \in Int /\ gp \in Int /\ sp \in Int /\ v \in Int
      BY <1>2, <1>5
    <3>2. CASE c < doing.at
      BY <1>2, <1>5, <1>6, <3>1, <3>2
    <3>3. CASE c >= sp /\ c # v
      BY <1>6, <3>1, <3>3
    <3> QED
      BY <1>2, <2>1, <3>2, <3>3
  <2> QED
    BY <1>8, <2>1
<1>10. mem'[v] = doing.at
  BY <1>5, <1>7, <1>8
<1>11. ASSUME NEW c \in doing.at .. gp - 1
       PROVE  mem'[c] = IF c \in cells THEN doing.c ELSE mem[c]
  <2>1. c \in 0 .. MemorySize - 1 /\ c # v
    BY <1>2, <1>6
  <2> QED
    BY <1>7, <1>8, <2>1
<1>12. fp' = fp /\ here' = here /\ gp' = gp /\ doing'.step = "body"
  BY <1>4 DEF registers, Idle
<1> QED
  BY <1>4, <1>5, <1>9, <1>10, <1>11, <1>12 DEF v

\* The string is complete, or has its new character, and is the value of its variable.
LEMMA FinishRefines ==
  ASSUME JInv, IInv', doing.step \in {"place", "finish"}, NEW cells,
         cells \subseteq doing.at .. gp - 2, Finish(doing.at, cells),
         NEW s, Spelt(mem, doing.at, s), gp = doing.at + Len(s) + 1, Source(s),
         NEW t \in Seq(Int), Len(t) = Len(s),
         \A k \in 1 .. Len(s) : t[k] # 0 /\ t[k] = IF doing.at + k - 1 \in cells THEN doing.c ELSE s[k],
         \A a : a = CallsInProgress[Depth] =>
           Language!SetComposed(a, Language!PutNew(a, doing.dest, t), doing.dest)
  PROVE  JInv' /\ Simulated
<1>1. /\ doing.dest \in 1 .. Len(Kinds[here]) /\ Assigned(doing.dest) /\ doing'.step = "body"
      /\ fp' = fp /\ here' = here /\ gp' = gp
      /\ \A c \in 0 .. MemorySize - 1 :
           c < HeapEnd \/ (c >= sp /\ c # Cell(here, doing.dest, fp)) => mem'[c] = mem[c]
      /\ mem'[Cell(here, doing.dest, fp)] = doing.at
      /\ \A c \in doing.at .. gp - 1 : mem'[c] = IF c \in cells THEN doing.c ELSE mem[c]
  BY FinishFacts
<1>2. doing.step \in CopySteps
  BY DEF CopySteps
<1>3. /\ IInv /\ HeapEnd = doing.at /\ doing.at \in Nat /\ gp \in Nat /\ doing.at <= gp
      /\ gp <= sp /\ sp < MemorySize /\ sp \in Int /\ MemorySize \in Nat
      /\ doing.dest \in DOMAIN Kinds[here]
  BY <1>2, CopyOf
<1>4. /\ Len(s) \in Nat /\ mem[doing.at + Len(s)] = 0
      /\ \A k \in 1 .. Len(s) : mem[doing.at + k - 1] = s[k]
  BY DEF Spelt
<1> DEFINE l == Len(s)
<1> HIDE DEF l
<1>5. l \in Nat /\ gp = doing.at + l + 1 /\ Len(t) = l
  BY <1>4 DEF l
<1>6. Spelt(mem', doing.at, t)
  <2>1. doing.at + l \in doing.at .. gp - 1 /\ doing.at + l \notin cells
    <3>1. doing.at + l \notin doing.at .. gp - 2
      BY <1>3, <1>5
    <3> QED
      BY <1>3, <1>5, <3>1
  <2>2. mem'[doing.at + l] = 0
    BY <1>1, <1>4, <2>1 DEF l
  <2>3. ASSUME NEW k \in 1 .. l
        PROVE  t[k] # 0 /\ mem'[doing.at + k - 1] = t[k]
    <3>1. doing.at + k - 1 \in doing.at .. gp - 1
      BY <1>3, <1>5, SMTT(30)
    <3>2. mem'[doing.at + k - 1]
            = IF doing.at + k - 1 \in cells THEN doing.c ELSE mem[doing.at + k - 1]
      BY <1>1, <3>1
    <3>3. mem[doing.at + k - 1] = s[k]
      BY <1>4 DEF l
    <3>4. t[k] # 0 /\ t[k] = IF doing.at + k - 1 \in cells THEN doing.c ELSE s[k]
      BY DEF l
    <3> QED
      BY <3>2, <3>3, <3>4
  <2>4. doing.at + l < MemorySize
    BY <1>3, <1>5
  <2> QED
    BY <1>5, <2>2, <2>3, <2>4 DEF Spelt
<1>7. StringAt(mem', doing.at) = t
  BY <1>3, <1>6, SpeltIs
<1>8. IsString(here, doing.dest)
  BY DEF Source
<1>9. t = Meant(mem', Kinds[here][doing.dest], mem'[Cell(here, doing.dest, fp)])
  <2>1. mem'[Cell(here, doing.dest, fp)] = doing.at /\ Kinds[here][doing.dest] = "string"
    BY <1>1, <1>8 DEF IsString
  <2>2. Meant(mem', "string", doing.at) = t
    BY <1>7 DEF Meant
  <2> QED
    BY <2>1, <2>2
<1>10. PICK a, n, i : a = CallsInProgress[Depth] /\ n = gp' - HeapEnd /\ i = doing.dest
  OBVIOUS
<1>11. n = Len(t) + 1
  <2>1. n = gp - doing.at
    BY <1>1, <1>3, <1>10
  <2> QED
    BY <1>3, <1>5, <2>1
<1>12. Language!SetComposed(a, Language!Put(a, i, t, n), i)
  BY <1>10, <1>11 DEF Language!PutNew
<1>13. a.f = here
  <2>1. Depth > 0 /\ Current = here
    BY <1>2, <1>3, InsideFacts
  <2> QED
    BY <1>3, <1>10, <2>1, LastCall
<1>14. i \in Variables(here, "string")
  BY <1>3, <1>8, <1>10 DEF Variables, IsString
<1>15. Language!Statement(a, Language!Put(a, i, t, n))
  BY <1>12, <1>13, <1>14, StringStatement
<1> QED
  BY <1>1, <1>3, <1>9, <1>10, <1>15, Assignment

\* A string with another character.
LEMMA CharacterIs ==
  ASSUME NEW s \in Seq(Int), NEW n \in 1 .. Len(s), NEW c \in Int, NEW t,
         t = [s EXCEPT ![n] = c]
  PROVE  t \in Seq(Int) /\ Len(t) = Len(s) /\ \A k \in 1 .. Len(s) : t[k] = IF k = n THEN c ELSE s[k]
<1>1. t \in Seq(Int) /\ Len(t) = Len(s)
  BY ExceptSeq
<1>2. \A k \in 1 .. Len(s) : t[k] = IF k = n THEN c ELSE s[k]
  OBVIOUS
<1> QED
  BY <1>1, <1>2

\* set_at has put its character into the copy.
LEMMA PlaceRefines ==
  ASSUME JInv, IInv', Place
  PROVE  JInv' /\ Simulated
<1>1. doing.step = "place" /\ Finish(doing.at, {doing.at + doing.x})
  BY DEF Place
<1>2. doing.step \in CopySteps
  BY <1>1 DEF CopySteps
<1>3. /\ IInv /\ doing.at \in Nat /\ gp \in Nat
      /\ doing \in [step : {"enter", "body", "first", "join", "second", "set", "place",
                            "finish", "receive", "received", "returned", "stopped"},
                    dest : Nat, at : Int, x : Int, c : Int]
  BY <1>2, CopyOf
<1>4. PICK s : Progress(s) /\ Source(s)
  BY <1>2, CopyOf
<1>5. Spelt(mem, doing.at, s) /\ gp = doing.at + Len(s) + 1
  BY <1>1, <1>4 DEF Progress
<1>6. doing.x \in 0 .. Len(s) - 1 /\ doing.c \in Chars /\ \E j \in Texts : s = Text(j)
  BY <1>1, <1>4 DEF Source
<1>7. PICK j \in Texts : s = Text(j)
  BY <1>6
<1>8. s \in Seq(Int) /\ Len(s) \in Nat /\ \A k \in 1 .. Len(s) : s[k] # 0
  BY <1>5 DEF Spelt
<1>9. doing.c \in Int /\ doing.c # 0
  BY <1>6, MemoryAssumption
<1>10. PICK n, t : n = doing.x + 1 /\ t = [s EXCEPT ![n] = doing.c]
  OBVIOUS
<1>11. n \in 1 .. Len(s) /\ doing.x \in Int
  BY <1>6, <1>8, <1>10
<1>12. /\ t \in Seq(Int) /\ Len(t) = Len(s)
       /\ \A k \in 1 .. Len(s) : t[k] = IF k = n THEN doing.c ELSE s[k]
  BY <1>8, <1>9, <1>10, <1>11, CharacterIs
<1>13. PICK cells : cells = {doing.at + doing.x}
  OBVIOUS
<1>14. cells \subseteq doing.at .. gp - 2
  <2>1. doing.at + doing.x \in doing.at .. gp - 2
    BY <1>3, <1>5, <1>6, <1>8, <1>11, SMTT(30)
  <2> QED
    BY <1>13, <2>1
<1>15. ASSUME NEW k \in 1 .. Len(s)
       PROVE  t[k] # 0 /\ t[k] = IF doing.at + k - 1 \in cells THEN doing.c ELSE s[k]
  <2>1. doing.at + k - 1 \in cells <=> k = n
    <3>1. doing.at + k - 1 = doing.at + doing.x <=> k = n
      BY <1>3, <1>10, <1>11
    <3> QED
      BY <1>13, <3>1
  <2> QED
    BY <1>8, <1>9, <1>12, <2>1
<1>16. ASSUME NEW a, a = CallsInProgress[Depth]
       PROVE  Language!SetComposed(a, Language!PutNew(a, doing.dest, t), doing.dest)
  <2>1. Depth > 0 /\ Current = here
    BY <1>2, <1>3, InsideFacts
  <2>2. j \in Language!Known(a, "string") /\ a.env[j] = s
    BY <1>3, <1>7, <1>16, <2>1, KnownIs
  <2>3. DOMAIN a.env[j] = 1 .. Len(s)
    BY <1>8, <2>2, LenProperties
  <2>4. t = [a.env[j] EXCEPT ![n] = doing.c] /\ n \in DOMAIN a.env[j]
    BY <1>10, <1>11, <2>2, <2>3
  <2> QED
    BY <1>6, <2>2, <2>4 DEF Language!SetComposed
<1>17. Finish(doing.at, cells)
  BY <1>1, <1>13
<1>18. doing.step \in {"place", "finish"}
  BY <1>1
<1>19. Source(s)
  BY <1>4
<1> QED
  BY <1>5, <1>12, <1>14, <1>15, <1>16, <1>17, <1>18, <1>19, FinishRefines

\* strcat has copied its second string.
LEMMA FinishStrcatRefines ==
  ASSUME JInv, IInv', doing.step = "finish", Finish(doing.at, {})
  PROVE  JInv' /\ Simulated
<1>1. doing.step \in CopySteps
  BY DEF CopySteps
<1>2. IInv
  BY DEF JInv
<1>3. PICK s : Progress(s) /\ Source(s)
  BY <1>1, CopyOf
<1>4. Spelt(mem, doing.at, s) /\ gp = doing.at + Len(s) + 1
  BY <1>3 DEF Progress
<1>5. PICK j \in Texts, k \in Texts : s = Text(j) \o Text(k)
  BY <1>3 DEF Source
<1>6. s \in Seq(Int) /\ \A n \in 1 .. Len(s) : s[n] # 0
  BY <1>4 DEF Spelt
<1>7. PICK cells : cells = {}
  OBVIOUS
<1>8. \A n \in 1 .. Len(s) :
        s[n] # 0 /\ s[n] = IF doing.at + n - 1 \in cells THEN doing.c ELSE s[n]
  BY <1>6, <1>7
<1>9. ASSUME NEW a, a = CallsInProgress[Depth]
      PROVE  Language!SetComposed(a, Language!PutNew(a, doing.dest, s), doing.dest)
  <2>1. Depth > 0 /\ Current = here
    BY <1>1, <1>2, InsideFacts
  <2>2. j \in Language!Known(a, "string") /\ a.env[j] = Text(j)
    BY <1>2, <1>9, <2>1, KnownIs
  <2>3. k \in Language!Known(a, "string") /\ a.env[k] = Text(k)
    BY <1>2, <1>9, <2>1, KnownIs
  <2>4. s = a.env[j] \o a.env[k]
    BY <1>5, <2>2, <2>3
  <2> QED
    BY <2>2, <2>3, <2>4 DEF Language!SetComposed
<1>10. Finish(doing.at, cells) /\ cells \subseteq doing.at .. gp - 2
  BY <1>7
<1>11. doing.step \in {"place", "finish"} /\ Source(s)
  BY <1>3
<1>12. Len(s) = Len(s)
  OBVIOUS
<1> QED
  BY <1>4, <1>6, <1>8, <1>9, <1>10, <1>11, <1>12, FinishRefines

\* A returned string has become one of the caller's own.
LEMMA ReceivedRefines ==
  ASSUME JInv, IInv', doing.step = "received", Finish(doing.at, {})
  PROVE  JInv' /\ Simulated
<1>1. doing.step \in CopySteps /\ doing.step \in {"place", "finish", "received"}
  BY DEF CopySteps
<1>2. IInv /\ Intact
  BY DEF JInv
<1>3. PICK s : Progress(s) /\ Source(s)
  BY <1>1, CopyOf
<1>4. /\ Spelt(mem, doing.at, s) /\ gp = doing.at + Len(s) + 1
      /\ s \in Seq(Int) /\ Len(s) \in Nat /\ mem[doing.at + Len(s)] = 0
      /\ \A k \in 1 .. Len(s) : s[k] # 0 /\ mem[doing.at + k - 1] = s[k]
  BY <1>3 DEF Progress, Spelt
<1>5. /\ doing.x \in DOMAIN Sites /\ Sites[doing.x].caller = here
      /\ Sites[doing.x].dest = doing.dest /\ IsString(here, doing.dest)
  BY <1>3 DEF Source
<1>6. /\ HeapEnd = doing.at /\ doing.at \in Nat /\ gp \in Nat /\ doing.at <= gp
      /\ gp <= sp /\ sp < MemorySize /\ sp \in Int /\ MemorySize \in Nat /\ Base <= doing.at
  BY <1>1, CopyOf
<1>7. PICK cells : cells = {}
  OBVIOUS
<1>8. Finish(doing.at, cells) /\ cells \subseteq doing.at .. gp - 2
  BY <1>7
<1>9. /\ doing.dest \in 1 .. Len(Kinds[here]) /\ Assigned(doing.dest) /\ doing'.step = "body"
      /\ fp' = fp /\ here' = here /\ gp' = gp
      /\ \A c \in 0 .. MemorySize - 1 :
           c < HeapEnd \/ (c >= sp /\ c # Cell(here, doing.dest, fp)) => mem'[c] = mem[c]
      /\ mem'[Cell(here, doing.dest, fp)] = doing.at
      /\ \A c \in doing.at .. gp - 1 : mem'[c] = IF c \in cells THEN doing.c ELSE mem[c]
  BY <1>1, <1>8, FinishFacts
<1>10. \A c \in doing.at .. gp - 1 : mem'[c] = mem[c]
  BY <1>7, <1>9
<1>11. Spelt(mem', doing.at, s)
  <2>1. doing.at + Len(s) \in doing.at .. gp - 1
        /\ \A k \in 1 .. Len(s) : doing.at + k - 1 \in doing.at .. gp - 1
    BY <1>4, <1>6, SMTT(30)
  <2>2. doing.at + Len(s) < MemorySize
    BY <1>4, <1>6
  <2> QED
    BY <1>4, <1>10, <2>1, <2>2 DEF Spelt
<1>12. Meant(mem', "string", doing.at) = s
  BY <1>6, <1>11, SpeltIs DEF Meant
<1>13. PICK i, k : i = doing.dest /\ k = Kinds[here][i]
  OBVIOUS
<1>14. k = "string" /\ i # 0 /\ Meant(mem', k, mem'[Cell(here, i, fp)]) = s
  BY <1>5, <1>9, <1>12, <1>13 DEF IsString
<1>15. Depth > 0 /\ Current = here /\ sp = Bottom(Current, fp)
  BY <1>1, <1>2, InsideFacts
<1>16. Current' = Current /\ HeapEnd' = gp'
  BY <1>9, <1>15 DEF Current, HeapEnd
<1>17. \A c \in 0 .. MemorySize - 1 :
         c < HeapEnd \/ (c >= Bottom(Current, fp) /\ c # Cell(Current, i, fp)) => mem'[c] = mem[c]
  BY <1>9, <1>13, <1>15
<1>18. CallsInProgress' =
         [CallsInProgress EXCEPT ![Depth] =
            Language!Put(CallsInProgress[Depth], i,
                         Meant(mem', Kinds[Current][i], mem'[Cell(Current, i, fp)]),
                         HeapEnd' - HeapEnd)]
  <2>1. i \in 1 .. Len(Kinds[Current]) /\ Assigned(i)
    BY <1>9, <1>13, <1>15
  <2> QED
    BY <1>2, <1>9, <1>15, <1>16, <1>17, <2>1, Assigns
<1>19. PICK a, n : a = CallsInProgress[Depth] /\ n = HeapEnd' - HeapEnd
  OBVIOUS
<1>20. n = Len(s) + 1
  <2>1. n = gp - doing.at
    BY <1>6, <1>9, <1>16, <1>19
  <2> QED
    BY <1>4, <1>6, <2>1
<1>21. CallsInProgress' = [CallsInProgress EXCEPT ![Depth] = Language!Put(a, i, s, n)]
  BY <1>13, <1>14, <1>15, <1>18, <1>19
<1>22. PICK b : b = Language!PutNew(a, i, s)
  OBVIOUS
<1>23. CallsInProgress' = [CallsInProgress EXCEPT ![Depth] = b]
  BY <1>20, <1>21, <1>22 DEF Language!PutNew
<1>24. PICK x : x = doing.x
  OBVIOUS
<1>25. b = (IF Sites[x].dest = 0 THEN a
            ELSE IF Kinds[Sites[x].caller][Sites[x].dest] = "string"
            THEN Language!PutNew(a, Sites[x].dest, s)
            ELSE Language!Put(a, Sites[x].dest, s, 0))
  BY <1>5, <1>13, <1>14, <1>22, <1>24
<1>26. InTransit = <<[by |-> x, value |-> s]>> /\ InTransit' = <<>>
  BY <1>2, <1>3, <1>9, <1>24, StringInTransit, NothingInTransitNext
<1>27. Language!Next
  BY <1>2, <1>15, <1>19, <1>23, <1>25, <1>26, Receives
<1>28. Intact'
  <2>1. \A c \in 0 .. MemorySize - 1 : c < Base => mem'[c] = mem[c]
    BY <1>6, <1>9, BaseFacts
  <2> QED
    BY <1>2, <2>1, IntactKept
<1> QED
  BY <1>9, <1>27, <1>28, SettledNext DEF Simulated

\* A copy is complete.
LEMMA EndCopyRefines ==
  ASSUME JInv, IInv', EndCopy
  PROVE  JInv' /\ Simulated
<1>1. CASE doing.step = "finish"
  <2>1. Finish(doing.at, {})
    BY <1>1 DEF EndCopy
  <2> QED
    BY <1>1, <2>1, FinishStrcatRefines
<1>2. CASE doing.step = "received"
  <2>1. Finish(v0, {})
    BY <1>2 DEF EndCopy
  <2>2. doing.step \in CopySteps
    BY <1>2 DEF CopySteps
  <2>3. Copied
    BY <2>2, CopyOf
  <2>4. v0 = doing.at
    BY <1>2, <2>3 DEF Copied
  <2> QED
    BY <1>2, <2>1, <2>4, ReceivedRefines
<1> QED
  BY <1>1, <1>2 DEF EndCopy

-----------------------------------------------------------------------------
(***************************************************************************)
(* Calls and returns                                                       *)
(***************************************************************************)

\* What a return has left.
LEMMA ReturnedFacts ==
  ASSUME IInv, doing.step = "returned", NEW s, s = ra
  PROVE  LET top == sp + RequiredSize(Sites[s].callee)
         IN  /\ TypeOK /\ Depth > 0 /\ Current = here /\ here \in Functions
             /\ s \in DOMAIN Sites /\ Sites[s].caller = here /\ HeapEnd = mem[top - 1]
             /\ top = Bottom(here, fp) /\ mem \in Memories /\ {HeapEnd, gp, v0, fp, top} \subseteq Int
             /\ Base \in Nat /\ MemorySize \in Nat /\ Base <= HeapEnd /\ HeapEnd <= top
             /\ HeapEnd <= gp /\ gp <= top /\ top <= fp /\ fp < MemorySize
             /\ scope \in Seq(SUBSET Nat) /\ Depth = Len(scope) /\ Depth \in Nat \ {0}
             /\ DOMAIN Kinds[here] = 1 .. Len(Kinds[here])
             /\ Returns[Sites[s].callee] = "string" => v0 \in 0 .. gp - 1 /\ mem[gp - 1] = 0
             /\ InTransit = <<[by |-> s,
                               value |-> Meant(mem, Returns[Sites[s].callee], v0)]>>
<1> DEFINE req == RequiredSize(Sites[s].callee)
<1>1. /\ TypeOK /\ Base \in Nat /\ MemorySize \in Nat /\ mem \in Memories
      /\ {sp, gp, v0, fp} \subseteq Int /\ gp <= sp /\ sp <= fp /\ scope \in Seq(SUBSET Nat)
  BY BaseFacts DEF IInv, TypeOK, Memories
<1>2. PICK d, F, G, H : At(d, F, G, H)
  BY DEF IInv, At
<1>3. /\ d > 0 /\ fp = F[d] /\ here = G[d] /\ s \in DOMAIN Sites /\ Sites[s].caller = here
      /\ sp = Bottom(here, fp) - req /\ mem[sp + req - 1] = H[d] /\ H[d] <= gp
      /\ Returns[Sites[s].callee] = "string" => v0 \in 0 .. gp - 1 /\ mem[gp - 1] = 0
  BY <1>2 DEF At, Position, Returning
<1>4. /\ d = Depth /\ d = Len(scope) /\ d \in Nat \ {0} /\ H[d] = HeapEnd /\ HeapEnd \in Int
      /\ Current \in Functions /\ Base <= HeapEnd /\ HeapEnd <= Bottom(Current, fp)
      /\ Bottom(Current, fp) \in Int /\ Bottom(Current, fp) <= fp /\ fp < MemorySize
  BY <1>1, <1>2, <1>3, LastIs DEF At
<1>5. Current = here
  BY DEF Current
<1>6. req \in Nat
  BY <1>3, SiteFacts, FunctionFacts
<1> HIDE DEF req
<1>7. sp + req = Bottom(here, fp) /\ gp <= sp + req
  BY <1>1, <1>3, <1>4, <1>5, <1>6
<1>8. DOMAIN Kinds[here] = 1 .. Len(Kinds[here])
  BY <1>4, <1>5, FunctionFacts
<1>9. InTransit = <<[by |-> s, value |-> Meant(mem, Returns[Sites[s].callee], v0)]>>
  BY DEF InTransit, Meant, Meaning
<1> DEFINE top == sp + req
<1>10. /\ top \in Int /\ HeapEnd = mem[top - 1] /\ top = Bottom(here, fp) /\ gp <= top
       /\ top <= fp /\ HeapEnd <= top
  <2>1. top \in Int /\ sp + req - 1 = top - 1
    BY <1>1, <1>6
  <2>2. HeapEnd = mem[top - 1]
    BY <1>3, <1>4, <2>1
  <2> QED
    BY <1>1, <1>4, <1>5, <1>7, <2>1, <2>2
<1> HIDE DEF top
<1>11. {HeapEnd, gp, v0, fp, top} \subseteq Int
  BY <1>1, <1>4, <1>10
<1>12. Depth > 0 /\ Depth = Len(scope) /\ Depth \in Nat \ {0} /\ HeapEnd <= gp /\ here \in Functions
  BY <1>3, <1>4, <1>5
<1>13. top = sp + RequiredSize(Sites[s].callee)
  BY DEF top, req
<1> QED
  BY <1>1, <1>3, <1>4, <1>5, <1>8, <1>9, <1>10, <1>11, <1>12, <1>13

\* A returned string is about to be moved to the caller's heap.
LEMMA AfterStringCall ==
  ASSUME JInv, IInv', NEW s \in DOMAIN Sites, AfterCall(s), IsString(here, Sites[s].dest)
  PROVE  JInv' /\ Simulated
<1> DEFINE heap == mem[sp + RequiredSize(Sites[s].callee) - 1]
           dest == Sites[s].dest
<1>1. /\ doing.step = "returned" /\ ra = s /\ gp' = heap /\ v1' = v0
      /\ doing' = [step |-> "receive", dest |-> dest, at |-> heap, x |-> s, c |-> 0]
      /\ UNCHANGED <<fp, args, here, mem, scope>>
  BY DEF AfterCall, State
<1>2. IInv /\ Intact
  BY DEF JInv
<1>3. PICK top : top = sp + RequiredSize(Sites[s].callee)
  OBVIOUS
<1>4. /\ TypeOK /\ Depth > 0 /\ Current = here /\ here \in Functions
      /\ Sites[s].caller = here /\ HeapEnd = mem[top - 1]
      /\ mem \in Memories /\ {HeapEnd, gp, v0, fp, top} \subseteq Int
      /\ Base \in Nat /\ MemorySize \in Nat /\ Base <= HeapEnd
      /\ gp <= top /\ top <= fp /\ fp < MemorySize
      /\ Returns[Sites[s].callee] = "string" => v0 \in 0 .. gp - 1 /\ mem[gp - 1] = 0
      /\ InTransit = <<[by |-> s, value |-> Meant(mem, Returns[Sites[s].callee], v0)]>>
  BY <1>1, <1>2, <1>3, ReturnedFacts
<1>5. heap = HeapEnd
  BY <1>1, <1>4 DEF HeapEnd, CopySteps, heap, Current
<1> HIDE DEF heap
<1>6. dest \in Nat /\ dest # 0 /\ Returns[Sites[s].callee] = "string"
  BY <1>4, SiteFacts DEF IsString
<1>7. v0 \in Nat /\ gp - 1 \in Nat /\ v0 <= gp - 1 /\ gp - 1 < MemorySize /\ mem[gp - 1] = 0
  BY <1>4, <1>6
<1>8. PICK t : t = StringAt(mem, v0)
  OBVIOUS
<1>9. Spelt(mem, v0, t)
  <2>1. PICK q : q = gp - 1
    OBVIOUS
  <2>2. q \in Nat /\ v0 <= q /\ q < MemorySize /\ mem[q] = 0
    BY <1>7, <2>1
  <2> QED
    BY <1>4, <1>7, <1>8, <2>2, StringIsSpelt
<1>10. HalfCopied(mem, heap, heap, v0, t)
  <2>1. heap \in Nat
    BY <1>4, <1>5
  <2> QED
    BY <1>7, <1>9, <2>1, CopyStarts
<1>11. /\ doing'.step = "receive" /\ doing'.at = heap /\ doing'.x = s /\ doing'.dest = dest
       /\ doing'.step \in CopySteps
  BY <1>1 DEF CopySteps
<1>12. Progress(t)'
  BY <1>1, <1>10, <1>11 DEF Progress
<1>13. Source(t)'
  <2>1. IsString(here, doing.dest)'
    BY <1>1, <1>11 DEF IsString
  <2> QED
    BY <1>1, <1>4, <1>11, <2>1 DEF Source
<1>14. InTransit' = InTransit
  <2>1. InTransit' = <<[by |-> s, value |-> t]>>
    BY <1>11, <1>12, StringInTransitNext
  <2>2. Meant(mem, Returns[Sites[s].callee], v0) = t
    BY <1>6, <1>8 DEF Meant
  <2> QED
    BY <1>4, <2>1, <2>2
<1>15. HeapEnd' = HeapEnd /\ Current' = Current
  BY <1>1, <1>4, <1>5, <1>11 DEF HeapEnd, Current
<1>16. CallsInProgress' = CallsInProgress
  BY <1>1, <1>2, <1>4, <1>15, Unseen
<1>17. Simulated
  BY <1>14, <1>16 DEF Simulated, Language!vars
<1>18. Intact'
  BY <1>1, <1>2, IntactKept
<1>19. Started' /\ Passed' /\ Copies'
  BY <1>11, <1>12, <1>13 DEF Started, Passed, Copies
<1> QED
  BY <1>17, <1>18, <1>19 DEF JInv

\* A returned number is stored, or what was returned is not used.
LEMMA AfterOtherCall ==
  ASSUME JInv, IInv', NEW s \in DOMAIN Sites, AfterCall(s), ~ IsString(here, Sites[s].dest)
  PROVE  JInv' /\ Simulated
<1> DEFINE heap == mem[sp + RequiredSize(Sites[s].callee) - 1]
           dest == Sites[s].dest
           V == {dest} \ {0}
           cells == [c \in {Cell(here, i, fp) : i \in V} |-> v0]
<1>1. /\ doing.step = "returned" /\ ra = s /\ gp' = heap
      /\ Write(cells) /\ scope' = [scope EXCEPT ![Len(scope)] = @ \cup V] /\ doing' = Idle
      /\ UNCHANGED <<fp, args, here>>
  BY DEF AfterCall
<1>2. IInv /\ Intact
  BY DEF JInv
<1>3. PICK top : top = sp + RequiredSize(Sites[s].callee)
  OBVIOUS
<1>4. /\ TypeOK /\ Depth > 0 /\ Current = here /\ here \in Functions
      /\ Sites[s].caller = here /\ HeapEnd = mem[top - 1] /\ top = Bottom(here, fp)
      /\ mem \in Memories /\ {HeapEnd, gp, v0, fp, top} \subseteq Int
      /\ Base \in Nat /\ MemorySize \in Nat /\ Base <= HeapEnd /\ HeapEnd <= top
      /\ scope \in Seq(SUBSET Nat) /\ Depth = Len(scope) /\ Depth \in Nat \ {0}
      /\ DOMAIN Kinds[here] = 1 .. Len(Kinds[here])
      /\ InTransit = <<[by |-> s, value |-> Meant(mem, Returns[Sites[s].callee], v0)]>>
  BY <1>1, <1>2, <1>3, ReturnedFacts
<1>5. heap = HeapEnd
  BY <1>1, <1>4 DEF HeapEnd, CopySteps, heap, Current
<1> HIDE DEF heap
<1>6. /\ dest \in Nat
      /\ dest # 0 => /\ dest \in 1 .. Len(Kinds[here])
                     /\ Kinds[here][dest] = Returns[Sites[s].callee]
                     /\ Kinds[here][dest] # "string"
  BY <1>4, SiteFacts DEF IsString
<1>7. DOMAIN cells = {Cell(here, i, fp) : i \in V} /\ \A c \in DOMAIN cells : cells[c] = v0
  OBVIOUS
<1> HIDE DEF cells
<1>8. /\ \A c \in 0 .. MemorySize - 1 : c \notin DOMAIN cells => mem'[c] = mem[c]
      /\ \A c \in 0 .. MemorySize - 1 : c \in DOMAIN cells => mem'[c] = v0
  <2>1. \A c \in DOMAIN cells : cells[c] \in Int
    BY <1>4, <1>7
  <2> QED
    BY <1>1, <1>4, <1>7, <2>1, WriteFacts
<1>9. doing'.step = "body" /\ InTransit' = <<>>
  <2>1. doing'.step = "body"
    BY <1>1 DEF Idle
  <2> QED
    BY <2>1, NothingInTransitNext
<1>10. HeapEnd' = HeapEnd /\ Current' = Current /\ HeapEnd \in Int
  BY <1>1, <1>4, <1>5, <1>9 DEF HeapEnd, Current
<1>11. ASSUME NEW i \in V
       PROVE  Cell(here, i, fp) \in Int /\ top <= Cell(here, i, fp)
  <2>1. i \in 1 .. Len(Kinds[here])
    BY <1>6
  <2> QED
    BY <1>4, <2>1, CellPlace
<1>12. ASSUME NEW c \in 0 .. MemorySize - 1,
              c < HeapEnd \/ (c >= Bottom(Current, fp) /\ c # Cell(Current, dest, fp))
       PROVE  mem'[c] = mem[c]
  <2>1. ASSUME NEW i \in V
        PROVE  c # Cell(here, i, fp)
    <3>1. i = dest
      OBVIOUS
    <3>2. CASE c < HeapEnd
      BY <1>4, <1>11, <3>2
    <3>3. CASE c # Cell(Current, dest, fp)
      BY <1>4, <3>1, <3>3
    <3> QED
      BY <1>12, <3>2, <3>3
  <2>2. c \notin DOMAIN cells
    BY <1>7, <2>1
  <2> QED
    BY <1>8, <2>2
<1>13. Intact'
  <2>1. ASSUME NEW c \in 0 .. MemorySize - 1, c < Base
        PROVE  mem'[c] = mem[c]
    <3>1. c < HeapEnd
      BY <1>4, <2>1
    <3> QED
      BY <1>12, <3>1
  <2> QED
    BY <1>2, <2>1, IntactKept
<1>14. PICK a, v : a = CallsInProgress[Depth] /\ v = Meant(mem, Returns[Sites[s].callee], v0)
  OBVIOUS
<1>15. InTransit = <<[by |-> s, value |-> v]>>
  BY <1>4, <1>14
<1>16. PICK b : b = (IF Sites[s].dest = 0 THEN a
                     ELSE IF Kinds[Sites[s].caller][Sites[s].dest] = "string"
                     THEN Language!PutNew(a, Sites[s].dest, v)
                     ELSE Language!Put(a, Sites[s].dest, v, 0))
  OBVIOUS
<1>17. CallsInProgress' = [CallsInProgress EXCEPT ![Depth] = b]
  <2>1. CASE dest = 0
    <3>1. V = {}
      BY <2>1
    <3>2. \A c \in 0 .. MemorySize - 1 : mem'[c] = mem[c]
      BY <1>7, <1>8, <3>1
    <3>3. scope' = scope
      <4>1. scope' = [scope EXCEPT ![Len(scope)] = scope[Len(scope)]]
        BY <1>1, <3>1
      <4> QED
        BY <1>4, <4>1
    <3>4. CallsInProgress' = CallsInProgress
      BY <1>1, <1>2, <1>4, <1>10, <3>2, <3>3, Unseen
    <3>5. b = a
      BY <1>16, <2>1
    <3>6. CallsInProgress \in Seq(Members(CallsInProgress, Depth))
      BY <1>2, <1>4, <1>14, LastCall
    <3> QED
      BY <1>14, <3>4, <3>5, <3>6
  <2>2. CASE dest # 0
    <3>1. /\ dest \in 1 .. Len(Kinds[here]) /\ V = {dest}
          /\ Kinds[here][dest] = Returns[Sites[s].callee] /\ Kinds[here][dest] # "string"
      BY <1>6, <2>2
    <3>2. Assigned(dest)
      BY <1>1, <3>1 DEF Assigned
    <3>3. PICK i : i = dest
      OBVIOUS
    <3>4. i \in 1 .. Len(Kinds[Current]) /\ Assigned(i)
      BY <1>4, <3>1, <3>2, <3>3
    <3>5. \A c \in 0 .. MemorySize - 1 :
            c < HeapEnd \/ (c >= Bottom(Current, fp) /\ c # Cell(Current, i, fp)) => mem'[c] = mem[c]
      BY <1>12, <3>3
    <3>6. CallsInProgress' =
            [CallsInProgress EXCEPT ![Depth] =
               Language!Put(CallsInProgress[Depth], i,
                            Meant(mem', Kinds[Current][i], mem'[Cell(Current, i, fp)]),
                            HeapEnd' - HeapEnd)]
      BY <1>1, <1>2, <1>4, <1>10, <3>4, <3>5, Assigns
    <3>7. mem'[Cell(Current, i, fp)] = v0
      <4>1. Cell(here, dest, fp) \in DOMAIN cells /\ dest \in V
        BY <1>7, <3>1
      <4>2. Cell(here, dest, fp) \in 0 .. MemorySize - 1
        <5>1. doing.step = "returned" /\ IInv
          BY <1>1, <1>2
        <5>2. PICK d, F, G, H : At(d, F, G, H)
          BY <1>2 DEF IInv, At
        <5>3. d = Depth /\ Placed(F, G, H, d) /\ F[d] = fp /\ G[d] = here
          BY <1>4, <5>2, LastIs DEF At, Stack
        <5>4. d \in Nat /\ d \in 1 .. d
          BY <1>4, <5>3
        <5>5. \A j \in 1 .. Len(Kinds[G[d]]) : Cell(G[d], j, F[d]) \in 0 .. MemorySize - 1
          BY <5>3, <5>4, PlacedFacts
        <5> QED
          BY <3>1, <5>3, <5>5
      <4> QED
        BY <1>4, <1>8, <3>3, <4>1, <4>2
    <3>8. Meant(mem', Kinds[Current][i], mem'[Cell(Current, i, fp)]) = v
      BY <1>4, <1>14, <3>1, <3>3, <3>7 DEF Meant
    <3>9. HeapEnd' - HeapEnd = 0
      BY <1>10
    <3>10. b = Language!Put(a, i, v, 0)
      BY <1>4, <1>16, <2>2, <3>1, <3>3
    <3> QED
      BY <1>14, <3>6, <3>8, <3>9, <3>10
  <2> QED
    BY <2>1, <2>2
<1>18. Language!Next
  BY <1>2, <1>4, <1>9, <1>14, <1>15, <1>16, <1>17, Receives
<1> QED
  BY <1>9, <1>13, <1>18, SettledNext DEF Simulated

\* A call has returned.
LEMMA AfterCallRefines ==
  ASSUME JInv, IInv', NEW s \in DOMAIN Sites, AfterCall(s)
  PROVE  JInv' /\ Simulated
BY AfterStringCall, AfterOtherCall

\* Arguments that do not travel in registers have places one after the other.
LEMMA ArgumentPlaces ==
  ASSUME NEW b \in Int, NEW k \in Nat, NEW p \in Nat, NEW top \in Int, top = b + 1 + p - k
  PROVE  /\ \A n \in 1 .. p : ~ (n <= k) =>
              /\ b - 2 + 1 + n - k \in b .. top - 2
              /\ k + 1 + (b - 2 + 1 + n - k) - b = n
         /\ \A c \in b .. top - 2 : k + 1 + c - b \in 1 .. p
OBVIOUS

\* What a call writes: its arguments below the frame of the caller.
LEMMA CallFacts ==
  ASSUME IInv, NEW s \in DOMAIN Sites, Call(s), NEW f, f = Sites[s].callee
  PROVE  /\ \A c \in 0 .. MemorySize - 1 : c < gp \/ c >= sp => mem'[c] = mem[c]
         /\ \A n \in 1 .. Params[f] :
              IF n <= InRegisters(f) THEN args'[n] = Var(Sites[s].args[n])
              ELSE mem'[Cell(f, n, sp' - 2)] = Var(Sites[s].args[n])
<1> DEFINE site == Sites[s]
           bottom == sp - RequiredSize(f)
           in == InRegisters(f)
           cells == [c \in bottom .. sp - 1 |->
                       IF c = sp - 1 THEN gp ELSE Var(site.args[in + 1 + c - bottom])]
<1>1. /\ doing.step = "body" /\ bottom > gp /\ Write(cells) /\ sp' = bottom
      /\ args' = [n \in DOMAIN args |-> IF n <= in THEN Var(site.args[n]) ELSE args[n]]
      /\ site.caller = here /\ \A n \in DOMAIN site.args : site.args[n] \in Here
  BY DEF Call, InBody
<1>2. /\ mem \in Memories /\ gp \in Int /\ sp \in Int /\ fp \in Int /\ Base <= gp
      /\ gp <= sp /\ sp <= fp /\ fp < MemorySize /\ MemorySize \in Nat /\ Base \in Nat
      /\ Here \subseteq 1 .. Len(Kinds[here]) /\ TypeOK
      /\ \A i \in 1 .. Len(Kinds[here]) : Cell(here, i, fp) \in 0 .. MemorySize - 1
  BY <1>1, InsideFacts
<1>3. /\ f \in Functions /\ DOMAIN site.args = 1 .. Params[f]
  BY SiteFacts
<1>4. /\ in \in Nat /\ Params[f] \in Nat /\ in <= Params[f] /\ in <= ParamRegisters
      /\ ParamRegisters \in Nat /\ Params[f] <= Len(Kinds[f]) /\ Len(Kinds[f]) \in Nat
      /\ RequiredSize(f) = 1 + Params[f] - in
  BY <1>3, FunctionFacts
<1>5. bottom \in Int /\ sp = bottom + 1 + Params[f] - in /\ bottom <= sp - 1
  BY <1>2, <1>4
<1>6. ASSUME NEW n \in 1 .. Params[f]
      PROVE  Var(site.args[n]) \in Int
  <2>1. site.args[n] \in 1 .. Len(Kinds[here])
    BY <1>1, <1>2, <1>3
  <2>2. Cell(here, site.args[n], fp) \in 0 .. MemorySize - 1
    BY <1>2, <2>1
  <2> QED
    BY <1>2, <2>2 DEF Var, Memories
<1> HIDE DEF bottom, in
<1>7. /\ DOMAIN cells = bottom .. sp - 1 /\ cells[sp - 1] = gp
      /\ \A c \in bottom .. sp - 2 : cells[c] = Var(site.args[in + 1 + c - bottom])
  <2>1. sp - 1 \in bottom .. sp - 1
        /\ \A c \in bottom .. sp - 2 : c \in bottom .. sp - 1 /\ c # sp - 1
    BY <1>2, <1>5
  <2> QED
    BY <2>1
<1> HIDE DEF cells, site
<1> DEFINE p == Params[f]
<1>8. p \in Nat /\ bottom \in Int /\ sp \in Int /\ in \in Nat /\ sp = bottom + 1 + p - in
  BY <1>2, <1>4, <1>5
<1>9. /\ \A n \in 1 .. p : ~ (n <= in) =>
           /\ bottom - 2 + 1 + n - in \in bottom .. sp - 2
           /\ in + 1 + (bottom - 2 + 1 + n - in) - bottom = n
      /\ \A c \in bottom .. sp - 2 : in + 1 + c - bottom \in 1 .. p
  BY <1>8, ArgumentPlaces
<1>10. ASSUME NEW n \in 1 .. Params[f], ~ (n <= in), NEW c, c = Cell(f, n, bottom - 2)
      PROVE  c \in bottom .. sp - 2 /\ in + 1 + c - bottom = n
  <2>1. n \in 1 .. Len(Kinds[f]) /\ bottom - 2 \in Int /\ n <= Params[f] /\ n \in Int
    BY <1>4, <1>5, SMTT(30)
  <2>2. c = bottom - 2 + 1 + n - in
    BY <1>3, <1>10, <2>1, CellIs DEF in
  <2> QED
    BY <1>10, <1>9, <2>2
<1>11. ASSUME NEW c \in DOMAIN cells
      PROVE  cells[c] \in Int
  <2>1. CASE c = sp - 1
    BY <1>2, <1>7, <2>1
  <2>2. CASE c # sp - 1
    <3>1. c \in bottom .. sp - 2
      BY <1>2, <1>5, <1>7, <2>2
    <3>2. in + 1 + c - bottom \in 1 .. Params[f]
      BY <1>9, <3>1
    <3> QED
      BY <1>6, <1>7, <3>1, <3>2
  <2> QED
    BY <2>1, <2>2
<1>12. /\ \A c \in 0 .. MemorySize - 1 : c \notin DOMAIN cells => mem'[c] = mem[c]
       /\ \A c \in 0 .. MemorySize - 1 : c \in DOMAIN cells => mem'[c] = cells[c]
  BY <1>1, <1>2, <1>11, WriteFacts
<1>13. \A c \in 0 .. MemorySize - 1 : c < gp \/ c >= sp => mem'[c] = mem[c]
  <2>1. ASSUME NEW c \in 0 .. MemorySize - 1, c < gp \/ c >= sp
        PROVE  c \notin DOMAIN cells
    BY <1>1, <1>2, <1>5, <1>7, <2>1
  <2> QED
    BY <1>12, <2>1
<1>14. ASSUME NEW n \in 1 .. Params[f]
       PROVE  IF n <= in THEN args'[n] = Var(site.args[n])
              ELSE mem'[Cell(f, n, sp' - 2)] = Var(site.args[n])
  <2>1. CASE n <= in
    <3>1. DOMAIN args = 1 .. ParamRegisters
      BY <1>2 DEF TypeOK
    <3>2. n \in DOMAIN args
      BY <1>4, <2>1, <3>1
    <3> QED
      BY <1>1, <2>1, <3>2
  <2>2. CASE ~ (n <= in)
    <3>1. PICK c : c = Cell(f, n, bottom - 2)
      OBVIOUS
    <3>2. c \in bottom .. sp - 2 /\ in + 1 + c - bottom = n
      BY <1>10, <2>2, <3>1
    <3>3. c \in DOMAIN cells /\ c \in 0 .. MemorySize - 1
      BY <1>1, <1>2, <1>5, <1>7, <3>2
    <3>4. mem'[c] = Var(site.args[n])
      BY <1>7, <1>12, <3>2, <3>3
    <3> QED
      BY <1>1, <2>2, <3>1, <3>4
  <2> QED
    BY <2>1, <2>2
<1> QED
  BY <1>13, <1>14 DEF in, site

\* The language calls a function when it is entered.
LEMMA CallRefines ==
  ASSUME JInv, IInv', NEW s \in DOMAIN Sites, Call(s)
  PROVE  JInv' /\ Simulated
<1>1. /\ doing.step = "body" /\ Sites[s].caller = here
      /\ \A n \in DOMAIN Sites[s].args : Sites[s].args[n] \in Here
      /\ ra' = s /\ here' = Sites[s].callee /\ doing'.step = "enter"
      /\ UNCHANGED <<fp, gp, v0, v1, saved, scope>>
  BY DEF Call, InBody, Idle
<1>2. IInv /\ Intact
  BY DEF JInv
<1>3. /\ Depth > 0 /\ Depth = Len(scope) /\ Current = here /\ HeapEnd = gp /\ gp \in Int
      /\ sp = Bottom(Current, fp) /\ Base \in Nat /\ Base <= HeapEnd /\ sp \in Int
      /\ Here \subseteq 1 .. Len(Kinds[here])
      /\ \A i \in 1 .. Len(Kinds[here]) :
           Cell(here, i, fp) \in 0 .. MemorySize - 1 /\ sp <= Cell(here, i, fp)
  BY <1>1, <1>2, InsideFacts
<1>4. PICK f : f = Sites[s].callee
  OBVIOUS
<1>5. /\ \A c \in 0 .. MemorySize - 1 : c < gp \/ c >= sp => mem'[c] = mem[c]
      /\ \A n \in 1 .. Params[f] :
           IF n <= InRegisters(f) THEN args'[n] = Var(Sites[s].args[n])
           ELSE mem'[Cell(f, n, sp' - 2)] = Var(Sites[s].args[n])
  BY <1>2, <1>4, CallFacts
<1>6. Current' = Current /\ HeapEnd' = HeapEnd
  BY <1>1, <1>3 DEF Current, HeapEnd
<1>7. CallsInProgress' = CallsInProgress
  BY <1>1, <1>2, <1>3, <1>5, <1>6, Unseen
<1>8. InTransit' = InTransit
  BY <1>1, NothingInTransit, NothingInTransitNext
<1>9. Simulated
  BY <1>7, <1>8 DEF Simulated, Language!vars
<1>10. Intact'
  <2>1. \A c \in 0 .. MemorySize - 1 : c < Base => mem'[c] = mem[c]
    BY <1>3, <1>5
  <2> QED
    BY <1>2, <2>1, IntactKept
<1>11. Started' /\ Copies'
  <2>1. Depth' # 0
    <3>1. Depth' = Depth
      BY <1>1 DEF Depth
    <3> QED
      BY <1>3, <3>1
  <2> QED
    BY <1>1, <2>1 DEF Started, Copies, CopySteps
<1>12. Passed'
  <2>1. ASSUME NEW n \in 1 .. Params[f]
        PROVE  /\ Sites[s].args[n] \in scope[Depth]
               /\ (IF n <= InRegisters(f) THEN args'[n] ELSE mem'[Cell(f, n, sp' - 2)])
                    = mem'[Cell(here, Sites[s].args[n], fp)]
    <3>1. Sites[s].args[n] \in Here
      BY <1>1, <1>4, SiteFacts
    <3>2. PICK i : i = Sites[s].args[n]
      OBVIOUS
    <3>3. Cell(here, i, fp) \in 0 .. MemorySize - 1 /\ Cell(here, i, fp) >= sp
      BY <1>3, <3>1, <3>2
    <3>4. mem'[Cell(here, i, fp)] = Var(i)
      BY <1>5, <3>3 DEF Var
    <3> QED
      BY <1>3, <1>5, <3>1, <3>2, <3>4 DEF Here
  <2>2. scope'[Depth'] = scope[Depth]
    BY <1>1 DEF Depth
  <2>3. Sites[ra'].caller = here /\ here' = f /\ ra' = s /\ fp' = fp
    BY <1>1, <1>4
  <2> QED
    BY <2>1, <2>2, <2>3 DEF Passed, Arrived
<1> QED
  BY <1>9, <1>10, <1>11, <1>12 DEF JInv

-----------------------------------------------------------------------------
(***************************************************************************)
(* One call more, or one less                                              *)
(***************************************************************************)

\* So the callers are the same before the last call as in it.
LEMMA MoreView ==
  ASSUME NEW d \in Nat, NEW m, NEW sc, NEW sc2,
         NEW F, NEW G, NEW H, NEW F2, NEW G2, NEW H2,
         Agree(F, F2, d), Agree(G, G2, d), Agree(H, H2, d), Agree(sc, sc2, d),
         NEW k \in 1 .. d
  PROVE  View(m, sc2, F2, G2, H2, k) = View(m, sc, F, G, H, k)
<1>1. F2[k] = F[k] /\ G2[k] = G[k] /\ H2[k] = H[k] /\ sc2[k] = sc[k]
  BY DEF Agree
<1>2. Environment(m, sc2, F2, G2, k) = Environment(m, sc, F, G, k)
  BY <1>1 DEF Environment
<1> QED
  BY <1>1, <1>2 DEF View

\* A sequence with one member more.
LEMMA AppendIs ==
  ASSUME NEW d \in Nat, NEW old, NEW new, DOMAIN old = 1 .. d, DOMAIN new = 1 .. d + 1,
         old = [k \in 1 .. d |-> old[k]], new = [k \in 1 .. d + 1 |-> new[k]],
         \A k \in 1 .. d : new[k] = old[k]
  PROVE  new = Append(old, new[d + 1]) /\ old = SubSeq(new, 1, d)
<1> DEFINE T == Members(new, d + 1)
           x == new[d + 1]
           s == Append(old, x)
           t == SubSeq(new, 1, d)
<1>1. d + 1 \in 1 .. d + 1 /\ \A k \in 1 .. d : k \in 1 .. d + 1 /\ k # d + 1
  OBVIOUS
<1>2. \A k \in 1 .. d + 1 : k \in 1 .. d \/ k = d + 1
  OBVIOUS
<1>3. x \in T /\ \A k \in 1 .. d : old[k] \in T
  BY <1>1 DEF Members
<1>4. new \in Seq(T) /\ Len(new) = d + 1
  BY IsSequence
<1>5. old \in Seq(T) /\ Len(old) = d
  <2>1. Len(old) = d
    BY IsSequence
  <2>2. old \in [1 .. d -> T]
    BY <1>3
  <2> HIDE DEF T, x, s, t
  <2> QED
    BY <2>1, <2>2
<1> HIDE DEF T
<1>6. /\ s \in Seq(T) /\ Len(s) = d + 1 /\ s[d + 1] = x
      /\ \A k \in 1 .. d : s[k] = old[k]
  BY <1>3, <1>5, AppendProperties
<1>7. t \in Seq(T) /\ Len(t) = d /\ \A k \in 1 .. d : t[k] = new[k]
  BY <1>1, <1>4
<1> HIDE DEF s, t, x
<1>8. s = new
  <2>1. s = [k \in 1 .. d + 1 |-> s[k]]
    BY <1>6
  <2>2. \A k \in 1 .. d + 1 : s[k] = new[k]
    BY <1>2, <1>6 DEF x
  <2> QED
    BY <2>1, <2>2
<1>9. t = old
  <2>1. t = [k \in 1 .. d |-> t[k]]
    BY <1>7
  <2> QED
    BY <1>7, <2>1
<1> QED
  BY <1>8, <1>9 DEF s, t, x

-----------------------------------------------------------------------------
(***************************************************************************)
(* Entering a function                                                     *)
(***************************************************************************)

\* A function is entered for a call, whose arguments it finds, or at the start.
LEMMA EnteredFrom ==
  ASSUME JInv, Enter, NEW d \in Nat \ {0}, NEW F, NEW G, NEW H, At(d, F, G, H)
  PROVE  /\ ra \in DOMAIN Sites /\ Sites[ra].caller = G[d] /\ Sites[ra].callee = here
         /\ H[d] = gp /\ gp \in Int /\ fp = F[d] /\ Kept(mem, mem', F, G, H, d, {})
         /\ \A n \in 1 .. Params[here] :
              /\ Sites[ra].args[n] \in scope[d]
              /\ mem'[Cell(here, n, sp - 2)] = mem[Cell(G[d], Sites[ra].args[n], F[d])]
<1>1. /\ doing.step = "enter" /\ IInv /\ Passed /\ d = Depth /\ Stack(mem, scope, F, G, H, d)
      /\ Position(d, F, G, H)
  BY DEF Enter, JInv, At
<1>2. /\ TypeOK /\ sp \in Int /\ gp \in Int /\ here \in Functions
  BY <1>1 DEF IInv, TypeOK
<1>3. /\ fp = F[d] /\ ra \in DOMAIN Sites /\ Sites[ra].caller = G[d] /\ Sites[ra].callee = here
      /\ sp = Bottom(G[d], F[d]) - RequiredSize(here) /\ H[d] = gp
  BY <1>1 DEF Position, Entering
<1>4. /\ \A c \in 0 .. MemorySize - 1 : c < gp \/ c > sp - 2 + 1 => mem'[c] = mem[c]
      /\ \A n \in 1 .. InRegisters(here) : mem'[Cell(here, n, sp - 2)] = args[n]
  BY <1>1, EnterCells
<1>5. /\ RequiredSize(here) \in Nat \ {0} /\ InRegisters(here) \in Nat /\ Params[here] \in Nat
      /\ Params[here] <= Len(Kinds[here]) /\ Len(Kinds[here]) \in Nat
  BY <1>2, FunctionFacts
<1>6. /\ Bottom(G[d], F[d]) \in Int /\ Bottom(G[d], F[d]) <= F[d]
      /\ F[d] \in 0 .. MemorySize - 1 /\ MemorySize \in Nat
  <2>1. d \in 1 .. d /\ Placed(F, G, H, d)
    BY <1>1 DEF Stack
  <2> QED
    BY <2>1, PlacedFacts
<1>7. PICK b : b = Bottom(G[d], F[d])
  OBVIOUS
<1>8. PICK q : q = RequiredSize(here)
  OBVIOUS
<1>9. b \in Int /\ q \in Nat \ {0} /\ sp = b - q /\ b <= F[d]
  BY <1>3, <1>5, <1>6, <1>7, <1>8
<1>10. Kept(mem, mem', F, G, H, d, {})
  <2>1. \A c \in 0 .. MemorySize - 1 : c < H[d] \/ c >= Bottom(G[d], F[d]) => mem'[c] = mem[c]
    <3>1. \A c \in Int : c >= b => c > sp - 2 + 1
      BY <1>9
    <3> QED
      BY <1>3, <1>4, <1>7, <3>1
  <2> QED
    BY <2>1 DEF Kept
<1>11. ASSUME NEW n \in 1 .. Params[here]
       PROVE  mem'[Cell(here, n, sp - 2)] = Arrived(n)
  <2>1. CASE n <= InRegisters(here)
    <3>1. n \in 1 .. InRegisters(here)
      BY <1>5, <2>1
    <3> QED
      BY <1>4, <2>1, <3>1 DEF Arrived
  <2>2. CASE ~ (n <= InRegisters(here))
    <3>1. PICK frame : frame = sp - 2
      OBVIOUS
    <3>2. frame \in Int /\ n \in 1 .. Len(Kinds[here]) /\ n <= Params[here]
      BY <1>2, <1>5, <3>1
    <3>3. PICK c : c = Cell(here, n, frame)
      OBVIOUS
    <3>4. c = frame + 1 + n - InRegisters(here)
      BY <1>2, <2>2, <3>2, <3>3, CellIs
    <3>5. c \in Int /\ c > frame + 1
      BY <1>5, <2>2, <3>2, <3>4
    <3>6. c < b
      <4>1. c < Top(here, frame) - 1
        BY <1>2, <3>2, <3>3, CellPlace
      <4>2. Top(here, frame) = frame + 2 + q
        BY <1>8 DEF Top
      <4>3. frame + 2 + q = b
        BY <1>2, <1>9, <3>1
      <4> QED
        BY <1>9, <3>5, <4>1, <4>2, <4>3
    <3>7. frame >= 0
      <4>1. sp - 2 \in 0 .. MemorySize - 1
        BY <1>1, EnterCells
      <4> QED
        BY <3>1, <4>1
    <3>8. c \in 0 .. MemorySize - 1
      BY <1>6, <1>9, <3>2, <3>5, <3>6, <3>7
    <3>9. mem'[c] = mem[c]
      BY <1>4, <3>1, <3>5, <3>8
    <3> QED
      BY <2>2, <3>1, <3>3, <3>9 DEF Arrived
  <2> QED
    BY <2>1, <2>2
<1>12. ASSUME NEW n \in 1 .. Params[here]
       PROVE  /\ Sites[ra].args[n] \in scope[d]
              /\ Arrived(n) = mem[Cell(G[d], Sites[ra].args[n], F[d])]
  <2>1. Depth > 0
    BY <1>1
  <2> QED
    BY <1>1, <1>3, <2>1 DEF Passed
<1> QED
  BY <1>2, <1>3, <1>10, <1>11, <1>12

\* What a function finds when it is entered is what the language passes to it.
LEMMA EnteredView ==
  ASSUME JInv, Enter, NEW d \in Nat \ {0}, NEW F, NEW G, NEW H, At(d, F, G, H),
         NEW e, e = d + 1, NEW F2, NEW G2, NEW H2, F2[e] = sp - 2, G2[e] = here, H2[e] = gp,
         scope'[e] = 1 .. Params[here], NEW a, a = View(mem, scope, F, G, H, d)
  PROVE  View(mem', scope', F2, G2, H2, e) = Language!Callee(a, ra)
<1>1. /\ ra \in DOMAIN Sites /\ Sites[ra].caller = G[d] /\ Sites[ra].callee = here
      /\ H[d] = gp /\ gp \in Int /\ fp = F[d] /\ Kept(mem, mem', F, G, H, d, {})
      /\ \A n \in 1 .. Params[here] :
           /\ Sites[ra].args[n] \in scope[d]
           /\ mem'[Cell(here, n, sp - 2)] = mem[Cell(G[d], Sites[ra].args[n], F[d])]
  BY EnteredFrom
<1>2. /\ IInv /\ TypeOK /\ mem \in Memories /\ Stack(mem, scope, F, G, H, d)
  BY DEF JInv, IInv, TypeOK, Memories, At, Enter
<1>3. a = [f |-> G[d], by |-> mem[F[d] + 1], env |-> Environment(mem, scope, F, G, d), used |-> H[d] - Base]
  BY LastViewIs
<1>4. /\ a.env = Environment(mem, scope, F, G, d)
      /\ a.used = gp - Base
  BY <1>1, <1>3
<1> DEFINE passed == [n \in DOMAIN Sites[ra].args |-> a.env[Sites[ra].args[n]]]
<1>5. /\ DOMAIN Sites[ra].args = 1 .. Params[here]
      /\ \A n \in 1 .. Params[here] : Kinds[G[d]][Sites[ra].args[n]] = Kinds[here][n]
  <2>1. PICK s : s = ra
    OBVIOUS
  <2>2. s \in DOMAIN Sites
    BY <1>1, <2>1
  <2>3. /\ DOMAIN Sites[s].args = 1 .. Params[Sites[s].callee]
        /\ \A n \in 1 .. Params[Sites[s].callee] :
             Kinds[Sites[s].caller][Sites[s].args[n]] = Kinds[Sites[s].callee][n]
    BY <2>2, SiteFacts
  <2> QED
    BY <1>1, <2>1, <2>3
<1>6. ASSUME NEW n \in 1 .. Params[here]
      PROVE  Meant(mem', Kinds[here][n], mem'[Cell(here, n, sp - 2)])
             = a.env[Sites[ra].args[n]]
  <2>1. PICK j : j = Sites[ra].args[n]
    OBVIOUS
  <2>2. PICK w : w = mem[Cell(G[d], j, F[d])]
    OBVIOUS
  <2>3. j \in scope[d] /\ mem'[Cell(here, n, sp - 2)] = w /\ Kinds[G[d]][j] = Kinds[here][n]
    BY <1>1, <1>5, <2>1, <2>2
  <2>4. a.env[j] = Meant(mem, Kinds[here][n], w)
    BY <1>4, <2>2, <2>3 DEF Environment
  <2>5. ASSUME Kinds[here][n] = "string"
        PROVE  StringAt(mem', w) = StringAt(mem, w)
    <3>1. /\ w \in Nat /\ H[d] - 1 \in Nat /\ w <= H[d] - 1 /\ H[d] - 1 < MemorySize
          /\ mem[H[d] - 1] = 0 /\ H[d] \in Int
      <4>1. d \in 1 .. d /\ Kinds[G[d]][j] = "string"
        BY <2>3, <2>5
      <4> QED
        BY <1>2, <2>2, <2>3, <4>1, KnownString
    <3>2. Placed(F, G, H, d)
      BY <1>2 DEF Stack
    <3>3. ASSUME NEW c \in 0 .. H[d] - 1
          PROVE  mem'[c] = mem[c]
      <4>1. c \in 0 .. MemorySize - 1 /\ c < H[d]
        BY <3>1, BaseFacts
      <4> QED
        BY <1>1, <3>2, <4>1, KeptCells
    <3> QED
      BY <1>2, <3>1, <3>3, StringStays
  <2> QED
    BY <2>1, <2>3, <2>4, <2>5 DEF Meant
<1>7. Environment(mem', scope', F2, G2, e) = passed
  BY <1>5, <1>6 DEF Environment
<1>8. /\ e \in Nat \ {0} /\ mem'[F2[e] + 1] = ra
  <2>1. mem'[sp - 2 + 1] = ra
    BY <1>2, EnterCells
  <2> QED
    BY <2>1
<1> HIDE DEF passed
<1>9. View(mem', scope', F2, G2, H2, e)
      = [f |-> here, by |-> ra, env |-> passed, used |-> gp - Base]
  <2>1. View(mem', scope', F2, G2, H2, e) =
          [f |-> G2[e], by |-> mem'[F2[e] + 1], env |-> Environment(mem', scope', F2, G2, e), used |-> H2[e] - Base]
    BY <1>8, LastViewIs
  <2> QED
    BY <1>2, <1>7, <1>8, <2>1
<1>10. Language!Callee(a, ra)
       = [f |-> here, by |-> ra, env |-> passed, used |-> gp - Base]
  BY <1>1, <1>4 DEF Language!Callee, Language!Activation, passed
<1> QED
  BY <1>9, <1>10

\* The callers are what they were.
LEMMA EnteredViews ==
  ASSUME JInv, Enter, NEW d \in Nat \ {0}, NEW F, NEW G, NEW H, At(d, F, G, H),
         NEW F2, NEW G2, NEW H2, F2[d + 1] = sp - 2, G2[d + 1] = here,
         Agree(F, F2, d), Agree(G, G2, d), Agree(H, H2, d), Agree(scope, scope', d),
         NEW k \in 1 .. d
  PROVE  View(mem', scope', F2, G2, H2, k)
         = View(mem, scope, F, G, H, k)
<1>1. Kept(mem, mem', F, G, H, d, {})
  BY EnteredFrom
<1>2. /\ IInv /\ TypeOK /\ mem \in Memories /\ Stack(mem, scope, F, G, H, d)
  BY DEF JInv, IInv, TypeOK, Memories, At, Enter
<1>3. View(mem', scope', F2, G2, H2, k) = View(mem', scope, F, G, H, k)
  BY MoreView
<1>4. View(mem', scope, F, G, H, k) = View(mem, scope, F, G, H, k)
  <2>1. CASE k = d
    BY <1>1, <1>2, <2>1, SameView
  <2>2. CASE k # d
    <3>1. k \in 1 .. d - 1
      BY <2>2
    <3> QED
      BY <1>1, <1>2, <3>1, OtherView
  <2> QED
    BY <2>1, <2>2
<1> QED
  BY <1>3, <1>4

\* The language calls a function.
LEMMA EnterCalled ==
  ASSUME JInv, IInv', Enter, NEW d \in Nat \ {0}, NEW F, NEW G, NEW H, At(d, F, G, H),
         NEW F2, NEW G2, NEW H2, At(d + 1, F2, G2, H2)', scope'[d + 1] = 1 .. Params[here],
         F2[d + 1] = sp - 2, G2[d + 1] = here, H2[d + 1] = gp,
         Agree(F, F2, d), Agree(G, G2, d), Agree(H, H2, d), Agree(scope, scope', d)
  PROVE  ra \in DOMAIN Sites /\ Language!Call(CallsInProgress, CallsInProgress', ra)
<1>1. IInv /\ TypeOK /\ TypeOK' /\ d \in Nat /\ d + 1 \in Nat
  BY DEF JInv, IInv
<1>2. PICK old, new : old = CallsInProgress /\ new = CallsInProgress'
  OBVIOUS
<1>3. PICK e : e = d + 1
  OBVIOUS
<1>4. new = Views(mem', scope', F2, G2, H2, e)
  <2>1. At(e, F2, G2, H2)'
    BY <1>3
  <2> QED
    BY <1>1, <1>2, <2>1, ViewsAreNext
<1>5. /\ DOMAIN new = 1 .. e /\ new = [k \in 1 .. e |-> new[k]]
      /\ \A k \in 1 .. e : new[k] = View(mem', scope', F2, G2, H2, k)
  <2>1. e \in Nat
    BY <1>1, <1>3
  <2>2. PICK s : s = Views(mem', scope', F2, G2, H2, e)
    OBVIOUS
  <2>3. /\ DOMAIN s = 1 .. e /\ s = [k \in 1 .. e |-> s[k]]
        /\ \A k \in 1 .. e : s[k] = View(mem', scope', F2, G2, H2, k)
    BY <2>1, <2>2, ViewsFacts
  <2> QED
    BY <1>4, <2>2, <2>3
<1>6. /\ DOMAIN old = 1 .. d /\ old = [k \in 1 .. d |-> old[k]] /\ Len(old) = d /\ old # <<>>
      /\ \A k \in 1 .. d : old[k] = View(mem, scope, F, G, H, k)
      /\ old[d] = View(mem, scope, F, G, H, d)
  BY <1>1, <1>2, CallsAre
<1>7. \A k \in 1 .. d : k \in 1 .. e
  BY <1>3
<1>8. ASSUME NEW k \in 1 .. d
      PROVE  new[k] = old[k]
  <2>1. View(mem', scope', F2, G2, H2, k) = View(mem, scope, F, G, H, k)
    BY <1>3, EnteredViews
  <2>2. new[k] = View(mem', scope', F2, G2, H2, k)
    BY <1>5, <1>7
  <2>3. old[k] = View(mem, scope, F, G, H, k)
    BY <1>6
  <2> QED
    BY <2>1, <2>2, <2>3
<1>9. new = Append(old, new[e])
  <2>1. DOMAIN new = 1 .. d + 1 /\ new = [k \in 1 .. d + 1 |-> new[k]]
    BY <1>3, <1>5
  <2>2. DOMAIN old = 1 .. d /\ old = [k \in 1 .. d |-> old[k]]
    BY <1>6
  <2>3. new = Append(old, new[d + 1])
    BY <1>8, <2>1, <2>2, AppendIs, ZenonT(30)
  <2> QED
    BY <1>3, <2>3
<1>10. new[e] = Language!Callee(old[d], ra)
  <2>1. View(mem', scope', F2, G2, H2, e) = Language!Callee(old[d], ra)
    BY <1>3, <1>6, EnteredView
  <2>2. e \in 1 .. e
    BY <1>3
  <2> QED
    BY <1>5, <2>1, <2>2
<1>11. /\ ra \in DOMAIN Sites /\ Sites[ra].caller = G[d] /\ Sites[ra].callee = here
       /\ \A n \in 1 .. Params[here] : Sites[ra].args[n] \in scope[d]
  BY EnteredFrom
<1>12. DOMAIN Sites[ra].args = 1 .. Params[here]
  BY <1>11, SiteFacts
<1>13. old[d].f = G[d] /\ DOMAIN old[d].env = scope[d]
  <2>1. old[d] = [f |-> G[d], by |-> mem[F[d] + 1], env |-> Environment(mem, scope, F, G, d), used |-> H[d] - Base]
    BY <1>6, LastViewIs
  <2>2. old[d].f = G[d] /\ old[d].env = Environment(mem, scope, F, G, d)
    BY <2>1
  <2> QED
    BY <2>2 DEF Environment
<1>14. Language!Call(old, new, ra)
  BY <1>6, <1>9, <1>10, <1>11, <1>12, <1>13 DEF Language!Call
<1> QED
  BY <1>2, <1>11, <1>14

\* A sequence without members.
LEMMA NoMembers ==
  ASSUME NEW s, DOMAIN s = 1 .. 0, s = [k \in 1 .. 0 |-> s[k]]
  PROVE  s = <<>>
<1>1. s \in Seq(Members(s, 0)) /\ Len(s) = 0
  BY IsSequence
<1> QED
  BY <1>1, EmptySeq

\* main is called with the heap as the program starts.
LEMMA EnterStarts ==
  ASSUME JInv, IInv', Enter, Depth = 0, NEW F2, NEW G2, NEW H2, At(1, F2, G2, H2)',
         scope'[1] = 1 .. Params[here], F2[1] = sp - 2, G2[1] = here, H2[1] = gp
  PROVE  Language!Start(CallsInProgress, CallsInProgress')
<1>1. IInv /\ TypeOK /\ TypeOK' /\ Started /\ doing.step = "enter"
  BY DEF JInv, IInv, Enter
<1>2. PICK old, new : old = CallsInProgress /\ new = CallsInProgress'
  OBVIOUS
<1>3. gp = Base
  BY <1>1 DEF Started
<1>4. PICK F, G, H : At(0, F, G, H)
  BY <1>1 DEF IInv, At
<1>5. here = Main /\ ra = 0
  BY <1>1, <1>4 DEF At, Position, Entering
<1>6. old = <<>>
  <2>1. DOMAIN old = 1 .. 0 /\ old = [k \in 1 .. 0 |-> old[k]]
    <3>1. 0 \in Nat
      OBVIOUS
    <3> QED
      BY <1>1, <1>2, <1>4, <3>1, CallsAre
  <2> QED
    BY <2>1, NoMembers
<1>7. PICK s : s = Views(mem', scope', F2, G2, H2, 1)
  OBVIOUS
<1>8. new = s
  BY <1>1, <1>2, <1>7, ViewsAreNext
<1>9. s = [k \in 1 .. 1 |-> s[k]] /\ s[1] = View(mem', scope', F2, G2, H2, 1)
  <2>1. PICK e : e = 1
    OBVIOUS
  <2>2. e \in Nat /\ e > 0 /\ s = Views(mem', scope', F2, G2, H2, e)
    BY <1>7, <2>1
  <2>3. s = [k \in 1 .. e |-> s[k]] /\ s[e] = View(mem', scope', F2, G2, H2, e)
    BY <2>2, ViewsFacts
  <2> QED
    BY <2>1, <2>3
<1>10. s[1] = [f |-> G2[1], by |-> mem'[F2[1] + 1], env |-> Environment(mem', scope', F2, G2, 1), used |-> H2[1] - Base]
  <2>1. PICK e : e = 1
    OBVIOUS
  <2>2. e \in Nat \ {0}
    BY <2>1
  <2>3. View(mem', scope', F2, G2, H2, e)
        = [f |-> G2[e], by |-> mem'[F2[e] + 1], env |-> Environment(mem', scope', F2, G2, e), used |-> H2[e] - Base]
    BY <2>2, LastViewIs
  <2> QED
    BY <1>9, <2>1, <2>3
<1>11. mem'[F2[1] + 1] = 0
  <2>1. mem'[sp - 2 + 1] = ra
    BY <1>1, EnterCells
  <2> QED
    BY <1>5, <2>1
<1>12. Environment(mem', scope', F2, G2, 1) = <<>>
  <2> DEFINE e == Environment(mem', scope', F2, G2, 1)
  <2>1. scope'[1] = 1 .. 0
    BY <1>5, MainFacts
  <2>2. DOMAIN e = 1 .. 0 /\ e = [k \in 1 .. 0 |-> e[k]]
    BY <2>1 DEF Environment
  <2> HIDE DEF e
  <2>3. e = <<>>
    BY <2>2, NoMembers
  <2> QED
    BY <2>3 DEF e
<1>13. H2[1] - Base = 0
  BY <1>3, BaseFacts
<1>14. s[1] = Language!Activation(Main, 0, <<>>, 0)
  BY <1>5, <1>10, <1>11, <1>12, <1>13 DEF Language!Activation
<1>15. s = <<s[1]>>
  <2>1. PICK x : x = s[1]
    OBVIOUS
  <2>2. s = [k \in 1 .. 1 |-> x]
    BY <1>9, <2>1
  <2> QED
    BY <2>1, <2>2
<1>16. Language!Start(old, new)
  BY <1>6, <1>8, <1>14, <1>15 DEF Language!Start
<1> QED
  BY <1>2, <1>16

\* When a function is entered it has been called.
LEMMA EnterRefines ==
  ASSUME JInv, IInv', Enter
  PROVE  JInv' /\ Simulated
<1>1. /\ IInv /\ TypeOK /\ Intact /\ doing.step = "enter" /\ doing'.step = "body"
  BY DEF JInv, IInv, Enter, Idle
<1>2. PICK d, F, G, H, F2, G2, H2 :
        /\ At(d, F, G, H)
        /\ d + 1 = Depth' /\ Stack(mem', scope', F2, G2, H2, d + 1)
        /\ Position(d + 1, F2, G2, H2)'
        /\ scope'[d + 1] = 1 .. Params[here] /\ Agree(scope, scope', d)
        /\ Agree(F, F2, d) /\ Agree(G, G2, d) /\ Agree(H, H2, d)
        /\ F2[d + 1] = sp - 2 /\ G2[d + 1] = here /\ H2[d + 1] = gp
  BY <1>1, EnterFrames
<1>3. PICK e : e = d + 1
  OBVIOUS
<1>4. At(e, F2, G2, H2)'
  BY <1>2, <1>3 DEF At
<1>5. d = Depth /\ d \in Nat
  BY <1>1, <1>2 DEF At, Depth, TypeOK
<1>6. Language!Goes(CallsInProgress, CallsInProgress')
  <2>1. CASE d = 0
    <3>1. e = 1 /\ d + 1 = 1
      BY <1>3, <2>1
    <3>2. At(1, F2, G2, H2)'
      BY <1>4, <3>1
    <3>3. scope'[1] = 1 .. Params[here] /\ F2[1] = sp - 2 /\ G2[1] = here /\ H2[1] = gp
      BY <1>2, <3>1
    <3>4. Language!Start(CallsInProgress, CallsInProgress')
      BY <1>5, <2>1, <3>2, <3>3, EnterStarts
    <3> QED
      BY <3>4 DEF Language!Goes
  <2>2. CASE d # 0
    <3>1. d \in Nat \ {0}
      BY <1>5, <2>2
    <3>2. At(d + 1, F2, G2, H2)'
      BY <1>3, <1>4
    <3>3. ra \in DOMAIN Sites /\ Language!Call(CallsInProgress, CallsInProgress', ra)
      BY <1>2, <3>1, <3>2, EnterCalled
    <3> QED
      BY <3>3 DEF Language!Goes
  <2> QED
    BY <2>1, <2>2
<1>7. InTransit = <<>> /\ InTransit' = <<>>
  BY <1>1, NothingInTransit, NothingInTransitNext
<1>8. Simulated
  BY <1>6, <1>7 DEF Simulated, Language!Next
<1>9. Intact'
  <2>1. \A c \in 0 .. MemorySize - 1 : c < gp \/ c > sp - 2 + 1 => mem'[c] = mem[c]
    BY <1>1, EnterCells
  <2>2. Base \in Nat /\ gp \in Int /\ Base <= gp
    BY <1>1, BaseFacts DEF TypeOK
  <2>3. \A c \in 0 .. MemorySize - 1 : c < Base => mem'[c] = mem[c]
    BY <2>1, <2>2
  <2> QED
    BY <1>1, <2>3, IntactKept
<1> QED
  BY <1>1, <1>8, <1>9, SettledNext

-----------------------------------------------------------------------------
(***************************************************************************)
(* Returning                                                               *)
(***************************************************************************)

\* What a return does.
LEMMA LeaveFacts ==
  ASSUME IInv, NEW i \in DOMAIN Kinds[here], Leave(i)
  PROVE  /\ doing.step = "body" /\ i \in Here /\ Kinds[here][i] = Returns[here]
         /\ v0' = Var(i) /\ ra' = mem[fp + 1] /\ mem' = mem /\ here \in Functions
         /\ doing'.step = (IF ra' = 0 THEN "stopped" ELSE "returned")
<1>1. /\ doing.step = "body" /\ i \in Here /\ Kinds[here][i] = Returns[here]
      /\ v0' = Var(i) /\ ra' = mem[fp + 1] /\ mem' = mem
      /\ doing' = [Idle EXCEPT !.step = IF ra' = 0 THEN "stopped" ELSE "returned"]
  BY DEF Leave, InBody, Epilogue, Variables
<1>2. here \in Functions
  BY DEF IInv, TypeOK
<1>3. doing'.step = (IF ra' = 0 THEN "stopped" ELSE "returned")
  BY <1>1 DEF Idle
<1> QED
  BY <1>1, <1>2, <1>3

\* The result is on its way to where the function was called.
LEMMA LeaveResult ==
  ASSUME IInv, NEW i \in DOMAIN Kinds[here], Leave(i), NEW d \in Nat \ {0},
         NEW F, NEW G, NEW H, At(d, F, G, H), NEW F2, NEW G2, NEW H2,
         Position(d - 1, F2, G2, H2)'
  PROVE  InTransit' = <<[by |-> mem[fp + 1], value |-> Meant(mem, Returns[here], Var(i))]>>
<1>1. /\ doing.step = "body" /\ v0' = Var(i) /\ ra' = mem[fp + 1] /\ mem' = mem
      /\ doing'.step = (IF ra' = 0 THEN "stopped" ELSE "returned")
  BY LeaveFacts
<1>2. /\ Placed(F, G, H, d) /\ Linked(mem, F, G, H, d) /\ fp = F[d] /\ here = G[d]
  BY <1>1 DEF At, Stack, Position, Running
<1>3. \A kind, w : Meaning(kind, w)' = Meant(mem, kind, w)'
  BY DEF Meaning, Meant
<1>4. CASE doing'.step = "stopped"
  <2>1. d - 1 = 0
    BY <1>4 DEF Position
  <2>2. ra' = 0 /\ here = Main
    <3>1. d = 1
      BY <2>1
    <3> QED
      BY <1>1, <1>2, <1>4, <3>1 DEF Placed
  <2>3. InTransit' = <<[by |-> 0, value |-> Meaning(Returns[Main], v0)']>>
    BY <1>4 DEF InTransit
  <2> QED
    BY <1>1, <2>2, <2>3 DEF Meaning, Meant, StringAt
<1>5. CASE doing'.step = "returned"
  <2>1. PICK e : e = d - 1
    OBVIOUS
  <2>2. Returning(e, F2, G2, H2)'
    BY <1>5, <2>1 DEF Position
  <2>3. e > 0
    BY <2>2 DEF Returning
  <2>4. e \in 1 .. d - 1 /\ e + 1 = d
    BY <2>1, <2>3
  <2>5. Sites[mem[F[e + 1] + 1]].callee = G[e + 1]
    BY <1>2, <2>4 DEF Linked
  <2>6. Sites[ra'].callee = here
    BY <1>1, <1>2, <2>4, <2>5
  <2>7. InTransit' = <<[by |-> ra', value |-> Meaning(Returns[Sites[ra].callee], v0)']>>
    BY <1>5 DEF InTransit
  <2> QED
    BY <1>1, <2>6, <2>7 DEF Meaning, Meant, StringAt
<1> QED
  BY <1>1, <1>4, <1>5

\* Without the last call, the calls in progress are what they were.
LEMMA LeaveViews ==
  ASSUME IInv, IInv', NEW i \in DOMAIN Kinds[here], Leave(i), NEW e \in Nat,
         NEW F, NEW G, NEW H, At(e + 1, F, G, H), NEW F2, NEW G2, NEW H2, At(e, F2, G2, H2)',
         Agree(F, F2, e), Agree(G, G2, e), Agree(H, H2, e), Agree(scope, scope', e)
  PROVE  CallsInProgress' = SubSeq(CallsInProgress, 1, e)
<1>1. /\ TypeOK /\ TypeOK' /\ e + 1 \in Nat /\ mem' = mem /\ fp = F[e + 1] /\ here = G[e + 1]
  <2>1. doing.step = "body"
    BY LeaveFacts
  <2>2. Position(e + 1, F, G, H)
    BY DEF At
  <2>3. Running(e + 1, F, G)
    BY <2>1, <2>2 DEF Position
  <2> QED
    BY <2>3, LeaveFacts DEF IInv, Running
<1>2. PICK old, new : old = CallsInProgress /\ new = CallsInProgress'
  OBVIOUS
<1>3. /\ DOMAIN old = 1 .. e + 1 /\ old = [k \in 1 .. e + 1 |-> old[k]]
      /\ \A k \in 1 .. e + 1 : old[k] = View(mem, scope, F, G, H, k)
  BY <1>1, <1>2, CallsAre
<1>4. new = Views(mem', scope', F2, G2, H2, e)
  BY <1>1, <1>2, ViewsAreNext
<1>5. /\ DOMAIN new = 1 .. e /\ new = [k \in 1 .. e |-> new[k]]
      /\ \A k \in 1 .. e : new[k] = View(mem', scope', F2, G2, H2, k)
  <2>1. PICK s : s = Views(mem', scope', F2, G2, H2, e)
    OBVIOUS
  <2>2. /\ DOMAIN s = 1 .. e /\ s = [k \in 1 .. e |-> s[k]]
        /\ \A k \in 1 .. e : s[k] = View(mem', scope', F2, G2, H2, k)
    BY <2>1, ViewsFacts
  <2> QED
    BY <1>4, <2>1, <2>2
<1>6. Agree(F2, F, e) /\ Agree(G2, G, e) /\ Agree(H2, H, e) /\ Agree(scope', scope, e)
  BY DEF Agree
<1>7. ASSUME NEW k \in 1 .. e
      PROVE  old[k] = new[k]
  <2>1. View(mem, scope, F, G, H, k) = View(mem, scope', F2, G2, H2, k)
    BY <1>6, MoreView
  <2>2. k \in 1 .. e + 1
    OBVIOUS
  <2> QED
    BY <1>1, <1>3, <1>5, <2>1, <2>2
<1>8. new = SubSeq(old, 1, e)
  BY <1>3, <1>5, <1>7, AppendIs
<1> QED
  BY <1>2, <1>8

\* When a function returns, its call is over and the language gives back the result.
LEMMA LeaveRefines ==
  ASSUME JInv, IInv', NEW i \in DOMAIN Kinds[here], Leave(i)
  PROVE  JInv' /\ Simulated
<1>1. IInv /\ Intact
  BY DEF JInv
<1>2. /\ doing.step = "body" /\ i \in Here /\ Kinds[here][i] = Returns[here] /\ mem' = mem
      /\ doing'.step \in {"stopped", "returned"}
  BY <1>1, LeaveFacts
<1>3. PICK d, F, G, H, F2, G2, H2 :
        /\ At(d, F, G, H)
        /\ d - 1 = Depth' /\ Stack(mem', scope', F2, G2, H2, d - 1)
        /\ Position(d - 1, F2, G2, H2)' /\ Agree(scope, scope', d - 1)
        /\ Agree(F, F2, d - 1) /\ Agree(G, G2, d - 1) /\ Agree(H, H2, d - 1)
  BY <1>1, LeaveFrames
<1>4. d = Depth /\ d \in Nat \ {0} /\ fp = F[d] /\ here = G[d]
  <2>1. d = Depth /\ Position(d, F, G, H)
    BY <1>3 DEF At
  <2>2. d \in Nat /\ d > 0 /\ fp = F[d] /\ here = G[d]
    BY <1>1, <1>2, <2>1 DEF Position, Running, Depth, IInv, TypeOK
  <2> QED
    BY <2>1, <2>2
<1>5. InTransit' = <<[by |-> mem[fp + 1], value |-> Meant(mem, Returns[here], Var(i))]>>
  BY <1>1, <1>3, <1>4, LeaveResult
<1>6. PICK e : e = d - 1
  OBVIOUS
<1>7. e \in Nat /\ e + 1 = d
  BY <1>4, <1>6
<1>8. CallsInProgress' = SubSeq(CallsInProgress, 1, e)
  <2>1. At(e + 1, F, G, H)
    BY <1>3, <1>7
  <2>2. /\ At(e, F2, G2, H2)' /\ Agree(scope, scope', e)
        /\ Agree(F, F2, e) /\ Agree(G, G2, e) /\ Agree(H, H2, e)
    BY <1>3, <1>6 DEF At
  <2> QED
    BY <1>1, <1>7, <2>1, <2>2, LeaveViews
<1>9. PICK a : a = CallsInProgress[Depth]
  OBVIOUS
<1>10. /\ a.f = here /\ a.by = mem[fp + 1] /\ DOMAIN a.env = Here /\ Holds(a, i)
       /\ Len(CallsInProgress) = Depth /\ CallsInProgress # <<>>
  <2>1. Depth > 0 /\ Current = here
    BY <1>2, <1>4 DEF Current, CopySteps
  <2> QED
    BY <1>1, <1>2, <1>9, <2>1, LastCall
<1>11. i \in Language!Known(a, Returns[a.f]) /\ a.env[i] = Meant(mem, Returns[here], Var(i))
  <2>1. i \in Language!Variables(here, Returns[here])
    BY <1>2 DEF Language!Variables
  <2>2. i \in DOMAIN a.env
    BY <1>2, <1>10
  <2>3. i \in Language!Known(a, Returns[a.f])
    BY <1>10, <2>1, <2>2 DEF Language!Known
  <2>4. a.env[i] = Meant(mem, Kinds[here][i], Var(i))
    BY <1>2, <1>4, <1>10 DEF Holds, Var, Current
  <2> QED
    BY <1>2, <2>3, <2>4
<1>12. Language!Return(CallsInProgress, CallsInProgress', InTransit')
  <2>1. Len(CallsInProgress) - 1 = e
    BY <1>4, <1>6, <1>10
  <2>2. InTransit' = <<[by |-> a.by, value |-> a.env[i]]>>
    BY <1>5, <1>10, <1>11
  <2> QED
    BY <1>8, <1>9, <1>10, <1>11, <2>1, <2>2 DEF Language!Return
<1>13. InTransit = <<>>
  BY <1>2, NothingInTransit
<1>14. Simulated
  BY <1>12, <1>13 DEF Simulated, Language!Next
<1>15. Intact'
  BY <1>1, <1>2, IntactKept
<1> QED
  BY <1>2, <1>14, <1>15, SettledNext

-----------------------------------------------------------------------------
(***************************************************************************)
(* The program implements the language                                     *)
(***************************************************************************)

\* When the program starts, no call is in progress and the constants are in place.
LEMMA InitRefines == Init => JInv /\ Language!Init
<1> SUFFICES ASSUME Init
             PROVE  JInv /\ Language!Init
  OBVIOUS
<1>1. /\ scope = <<>> /\ doing.step = "enter" /\ gp = Base
      /\ mem = [c \in 0 .. MemorySize - 1 |-> IF c < Base THEN Data[c + 1] ELSE 0]
  BY DEF Init, InitialMemory, Idle
<1>2. IInv
  BY InitHolds
<1>3. Depth = 0
  BY <1>1 DEF Depth
<1>4. Intact
  <2>1. Base \in Nat /\ Base <= MemorySize /\ MemorySize \in Nat
    BY BaseFacts
  <2> QED
    BY <1>1, <2>1 DEF Intact
<1>5. Started /\ Passed /\ Copies
  BY <1>1, <1>3 DEF Started, Passed, Copies, CopySteps
<1>6. CallsInProgress = <<>>
  <2>1. PICK d, F, G, H : At(d, F, G, H)
    BY <1>2 DEF IInv, At
  <2>2. PICK s : s = CallsInProgress
    OBVIOUS
  <2>3. d = 0 /\ d \in Nat /\ TypeOK
    BY <1>2, <1>3, <2>1 DEF At, IInv
  <2>4. DOMAIN s = 1 .. d /\ s = [k \in 1 .. d |-> s[k]]
    BY <2>1, <2>2, <2>3, CallsAre
  <2>5. DOMAIN s = 1 .. 0 /\ s = [k \in 1 .. 0 |-> s[k]]
    BY <2>3, <2>4
  <2> QED
    BY <2>2, <2>5, NoMembers
<1>7. InTransit = <<>>
  BY <1>1, NothingInTransit
<1> QED
  BY <1>2, <1>4, <1>5, <1>6, <1>7 DEF JInv, Language!Init

\* A step that changes nothing changes nothing that the language sees.
LEMMA StutterRefines ==
  ASSUME JInv, IInv', UNCHANGED vars
  PROVE  JInv' /\ Simulated
<1>1. UNCHANGED <<mem, sp, fp, ra, gp, v0, v1, args, here, doing, scope>>
  BY DEF vars, registers
<1>2. PICK d, F, G, H : At(d, F, G, H)
  BY DEF JInv, IInv, At
<1>3. TypeOK /\ TypeOK'
  BY DEF JInv, IInv
<1>4. At(d, F, G, H)'
  BY <1>1, <1>2 DEF At, Depth, Position, Running, Entering, Returning, Copying, Copied, CopySteps
<1>5. CallsInProgress' = CallsInProgress
  <2>1. CallsInProgress = Views(mem, scope, F, G, H, d)
    BY <1>2, <1>3, ViewsAre
  <2>2. CallsInProgress' = Views(mem', scope', F, G, H, d)
    BY <1>3, <1>4, ViewsAreNext
  <2> QED
    BY <1>1, <2>1, <2>2
<1>6. InTransit' = InTransit
  BY <1>1 DEF InTransit, Meaning, StringAt
<1>7. Intact' /\ Started' /\ Passed' /\ Copies'
  <2>1. Intact' /\ Started'
    BY <1>1 DEF JInv, Intact, Started, Depth
  <2>2. Passed'
    BY <1>1 DEF JInv, Passed, Depth, Arrived
  <2>3. Copies'
    <3>1. Texts' = Texts
      BY <1>1 DEF Texts, Here
    <3>2. \A j : Text(j)' = Text(j)
      BY <1>1 DEF Text, Var, StringAt
    <3>3. \A s : Progress(s)' = Progress(s)
      BY <1>1 DEF Progress, HalfCopied, Spelt
    <3>4. \A j : Var(j)' = Var(j)
      BY <1>1 DEF Var
    <3>5. here' = here /\ doing' = doing
      BY <1>1
    <3>6. \A s : Source(s)' = Source(s)
      BY <3>1, <3>2, <3>4, <3>5 DEF Source, IsString
    <3> QED
      BY <3>3, <3>5, <3>6 DEF JInv, Copies
  <2> QED
    BY <2>1, <2>2, <2>3
<1> QED
  BY <1>5, <1>6, <1>7 DEF JInv, Simulated, Language!vars

\* Every statement is one of the language, or the beginning of one.
LEMMA StatementRefines ==
  ASSUME JInv, IInv', Statement
  PROVE  JInv' /\ Simulated
<1>1. \A kind : \A i \in Variables(here, kind) : i \in DOMAIN Kinds[here] /\ Kinds[here][i] = kind
  BY DEF Variables
<1>2. CASE \E s \in DOMAIN Sites : Call(s)
  BY <1>2, CallRefines
<1>3. CASE \E i \in Variables(here, "word"), w \in Words : SetCell(i, w)
  <2>1. PICK i \in Variables(here, "word"), w \in Words : SetCell(i, w)
    BY <1>3
  <2>2. w \in Int
    BY MemoryAssumption
  <2>3. i \in DOMAIN Kinds[here] /\ Kinds[here][i] = "word"
    BY <1>1
  <2> QED
    BY <2>1, <2>2, <2>3, SetCellRefines
<1>4. CASE UseRegisters
  BY <1>4, UseRegistersRefines
<1>5. ASSUME NEW i \in Variables(here, "string"), NEW p \in Pointers, SetCell(i, p)
      PROVE  JInv' /\ Simulated
  <2>1. p \in Int
    BY InputFacts, BaseFacts
  <2>2. i \in DOMAIN Kinds[here] /\ Kinds[here][i] = "string"
    BY <1>1
  <2> QED
    BY <1>5, <2>1, <2>2, SetCellRefines
<1>6. ASSUME NEW i \in Variables(here, "string"), NEW c \in Chars, Cast(i, c)
      PROVE  JInv' /\ Simulated
  BY <1>6, CastRefines
<1>7. ASSUME NEW i \in Variables(here, "string"), NEW line \in Lines, ReadString(i, line)
      PROVE  JInv' /\ Simulated
  BY <1>7, ReadStringRefines
<1>8. ASSUME NEW i \in Variables(here, "string"), NEW j \in Variables(here, "string"),
             NEW k \in Variables(here, "string"), Strcat(i, j, k)
      PROVE  JInv' /\ Simulated
  BY <1>8, StrcatRefines
<1>9. ASSUME NEW i \in Variables(here, "string"), NEW j \in Variables(here, "string"),
             NEW c \in Chars, SetAt(i, j, c)
      PROVE  JInv' /\ Simulated
  BY <1>9, SetAtRefines
<1>10. ASSUME NEW line \in Lines, SkipLine(line)
       PROVE  JInv' /\ Simulated
  <2>1. line \in Seq(Int)
    BY InputFacts
  <2> QED
    BY <1>10, <2>1, SkipLineRefines
<1> QED
  BY <1>2, <1>3, <1>4, <1>5, <1>6, <1>7, <1>8, <1>9, <1>10 DEF Statement

\* Every step keeps the stronger invariant, and the language takes it or does not see it.
LEMMA StepRefines == JInv /\ [Next]_vars => JInv' /\ Simulated
<1> SUFFICES ASSUME JInv, [Next]_vars
             PROVE  JInv' /\ Simulated
  OBVIOUS
<1>1. IInv'
  BY StepHolds DEF JInv
<1>2. CASE Statement
  BY <1>1, <1>2, StatementRefines
<1>3. CASE Continue
  BY <1>1, <1>3, EnterRefines, CopyByteRefines, JoinRefines, PlaceRefines, EndCopyRefines,
     AfterCallRefines DEF Continue
<1>4. CASE \E i \in DOMAIN Kinds[here] : Leave(i)
  BY <1>1, <1>4, LeaveRefines
<1>5. CASE UNCHANGED vars
  BY <1>1, <1>5, StutterRefines
<1> QED
  BY <1>2, <1>3, <1>4, <1>5 DEF Next

\* In every state of every emitted program, besides the frames: the string constants are
\* what they were, arguments are where the function that is entered looks for them, and
\* a copy under way is becoming the string that its statement means.
THEOREM Meanings == Spec => []JInv
<1>1. Init => JInv
  BY InitRefines
<1>2. JInv /\ [Next]_vars => JInv'
  BY StepRefines
<1> QED
  BY <1>1, <1>2, PTL DEF Spec

\* An emitted program whose variables are in their cells does what the language says: every
\* call has variables of its own and gets its arguments by value, a returned string is whole
\* although it is moved onto the heap that its maker has given back, and the caller finds
\* its variables and its heap as they were.
THEOREM Refinement == Spec => ImplementsActivations
<1>1. Init => JInv /\ Language!Init
  BY InitRefines
<1>2. JInv /\ [Next]_vars => JInv' /\ [Language!Next]_(Language!vars)
  BY StepRefines DEF Simulated
<1> QED
  BY <1>1, <1>2, PTL DEF Spec, Language!Spec, ImplementsActivations
=============================================================================
