------------------------- MODULE IrGeneration_proofs -------------------------
(***************************************************************************)
(* What is true of the intermediate code of every function body, for any   *)
(* operations, and any number and nesting of statements.                   *)
(***************************************************************************)
EXTENDS IrGeneration, SequenceTheorems, TLAPS

-----------------------------------------------------------------------------
(***************************************************************************)
(* The builder.  A sequence of blocks is sound if its edges are where its  *)
(* instructions lead, and the terminal block ends in a return.             *)
(***************************************************************************)
LeadsFrom(b, instrs) == UNION {Leads(b, instrs[k]) : k \in 1 .. Len(instrs)}

Edges(bs) ==
  \A b \in 1 .. Len(bs) :
    /\ bs[b].succ = LeadsFrom(b, bs[b].code)
    /\ bs[b].succ \subseteq 1 .. Len(bs) /\ bs[b].pred \subseteq 1 .. Len(bs)
    /\ \A c \in 1 .. Len(bs) : c \in bs[b].succ <=> b \in bs[c].pred

Sound(bs) ==
  /\ bs \in Seq(Block) /\ Terminal \in 1 .. Len(bs)
  /\ Edges(bs) /\ EndsIn(bs[Terminal], {"return"})

\* In new, block b ends in instr and has edges to the targets; all else is as in bs.
Emitted(bs, new, b, instr, targets) ==
  /\ new \in Seq(Block) /\ Len(new) = Len(bs)
  /\ \A c \in 1 .. Len(bs) :
       /\ new[c].code = IF c = b THEN Append(bs[c].code, instr) ELSE bs[c].code
       /\ new[c].succ = IF c = b THEN bs[c].succ \cup targets ELSE bs[c].succ
       /\ new[c].pred = IF c \in targets THEN bs[c].pred \cup {b} ELSE bs[c].pred

\* The code of b is longer by instr, and that of the other blocks is the same.
Adds(bs, new, b, instr) ==
  /\ Len(new) = Len(bs)
  /\ \A c \in 1 .. Len(bs) :
       new[c].code = IF c = b THEN Append(bs[c].code, instr) ELSE bs[c].code

LEMMA BlockFields ==
  ASSUME NEW r \in Block
  PROVE  /\ r.code \in Seq(Instructions) /\ r.succ \subseteq Nat /\ r.pred \subseteq Nat
         /\ r = [code |-> r.code, succ |-> r.succ, pred |-> r.pred]
  BY DEF Block

LEMMA BlockWithCode ==
  ASSUME NEW r \in Block, NEW c \in Seq(Instructions), NEW new, new = [r EXCEPT !.code = c]
  PROVE  new \in Block /\ new.code = c /\ new.succ = r.succ /\ new.pred = r.pred
  BY DEF Block

LEMMA SeqFacts ==
  ASSUME NEW S, NEW s \in Seq(S)
  PROVE  /\ DOMAIN s = 1 .. Len(s) /\ Len(s) \in Nat
         /\ \A i \in 1 .. Len(s) : s[i] \in S
  OBVIOUS

IsList(s, n) == s = [i \in 1 .. n |-> s[i]]

LEMMA SeqMade ==
  ASSUME NEW S, NEW n \in Nat, NEW s, IsList(s, n), \A i \in 1 .. n : s[i] \in S
  PROVE  s \in Seq(S) /\ Len(s) = n
<1> DEFINE f == [i \in 1 .. n |-> s[i]]
<1>1. f \in Seq(S) /\ Len(f) = n
  OBVIOUS
<1> QED
  BY <1>1 DEF IsList

LEMMA AddInstructionEmits ==
  ASSUME NEW bs \in Seq(Block), NEW b \in 1 .. Len(bs), NEW instr \in Instructions
  PROVE  Emitted(bs, AddInstruction(bs, b, instr), b, instr, {})
<1> DEFINE new == AddInstruction(bs, b, instr)
           longer == Append(bs[b].code, instr)
<1>1. Len(bs) \in Nat /\ DOMAIN bs = 1 .. Len(bs) /\ \A c \in 1 .. Len(bs) : bs[c] \in Block
  BY SeqFacts
<1>2. longer \in Seq(Instructions)
  BY <1>1, BlockFields
<1>3. IsList(new, Len(bs))
  BY SMTT(30) DEF AddInstruction, IsList
<1>4. \A c \in 1 .. Len(bs) : c # b => new[c] = bs[c]
  BY DEF AddInstruction
<1>5. new[b] = [bs[b] EXCEPT !.code = longer]
  BY <1>1, Zenon DEF AddInstruction
<1> HIDE DEF new, longer
<1>6. /\ new[b] \in Block /\ new[b].code = longer
      /\ new[b].succ = bs[b].succ /\ new[b].pred = bs[b].pred
  BY <1>1, <1>2, <1>5, BlockWithCode
<1>7. \A c \in 1 .. Len(bs) : new[c] \in Block
  BY <1>1, <1>4, <1>6
<1>8. new \in Seq(Block) /\ Len(new) = Len(bs)
  BY <1>1, <1>3, <1>7, SeqMade
<1> QED
  BY <1>4, <1>6, <1>8 DEF Emitted, new, longer

\* In new, there is an edge from b to c; all else is as in bs.
Linked(bs, new, b, c) ==
  /\ new \in Seq(Block) /\ Len(new) = Len(bs)
  /\ \A i \in 1 .. Len(bs) :
       /\ new[i].code = bs[i].code
       /\ new[i].succ = IF i = b THEN bs[i].succ \cup {c} ELSE bs[i].succ
       /\ new[i].pred = IF i = c THEN bs[i].pred \cup {b} ELSE bs[i].pred

LEMMA AddEdgeLinks ==
  ASSUME NEW bs \in Seq(Block), NEW b \in 1 .. Len(bs), NEW c \in 1 .. Len(bs)
  PROVE  Linked(bs, AddEdge(bs, b, c), b, c)
<1> DEFINE new == AddEdge(bs, b, c)
<1>1. /\ DOMAIN bs = 1 .. Len(bs) /\ Len(bs) \in Nat
      /\ \A i \in 1 .. Len(bs) : bs[i] \in Block
      /\ b \in Nat /\ c \in Nat
  BY SeqFacts
<1>2. IsList(new, Len(bs))
  BY <1>1 DEF AddEdge, IsList
<1>3. ASSUME NEW i \in 1 .. Len(bs)
      PROVE  /\ new[i] \in Block /\ new[i].code = bs[i].code
             /\ new[i].succ = IF i = b THEN bs[i].succ \cup {c} ELSE bs[i].succ
             /\ new[i].pred = IF i = c THEN bs[i].pred \cup {b} ELSE bs[i].pred
  <2> DEFINE S == IF i = b THEN bs[i].succ \cup {c} ELSE bs[i].succ
             P == IF i = c THEN bs[i].pred \cup {b} ELSE bs[i].pred
  <2>1. bs[i] \in Block /\ S \in SUBSET Nat /\ P \in SUBSET Nat
    BY <1>1, BlockFields
  <2>2. new[i] = [bs[i] EXCEPT !.succ = S, !.pred = P]
    BY <1>1, Zenon DEF AddEdge
  <2> DEFINE q == new[i]
             r == bs[i]
  <2> HIDE DEF S, P, new, q, r
  <2>4. q = [r EXCEPT !.succ = S, !.pred = P] /\ r \in Block
    BY <2>1, <2>2 DEF q, r
  <2>5. q \in Block /\ q.code = r.code /\ q.succ = S /\ q.pred = P
    BY <2>1, <2>4 DEF Block
  <2>3. new[i] \in Block /\ new[i].code = bs[i].code /\ new[i].succ = S /\ new[i].pred = P
    BY <2>5 DEF q, r
  <2> QED
    BY <2>3 DEF S, P
<1> HIDE DEF new
<1>4. new \in Seq(Block) /\ Len(new) = Len(bs)
  BY <1>1, <1>2, <1>3, SeqMade
<1> QED
  BY <1>3, <1>4 DEF Linked, new

LEMMA CreateJumpEmits ==
  ASSUME NEW bs \in Seq(Block), NEW b \in 1 .. Len(bs), NEW c \in 1 .. Len(bs),
         Jump(c) \in Instructions
  PROVE  Emitted(bs, CreateJump(bs, b, c), b, Jump(c), {c})
<1> DEFINE one == AddEdge(bs, b, c)
           new == CreateJump(bs, b, c)
<1>1. Linked(bs, one, b, c)
  BY AddEdgeLinks
<1>2. new = AddInstruction(one, b, Jump(c))
  BY DEF CreateJump
<1> HIDE DEF one, new
<1>3. Emitted(one, new, b, Jump(c), {})
  BY <1>1, <1>2, AddInstructionEmits DEF Linked
<1> QED
  BY <1>1, <1>3 DEF Emitted, Linked, new

LEMMA CreateConditionalJumpEmits ==
  ASSUME NEW bs \in Seq(Block), NEW b \in 1 .. Len(bs), NEW c \in 1 .. Len(bs),
         NEW d \in 1 .. Len(bs), NEW v, NEW place, CondJump(v, c, d, place) \in Instructions
  PROVE  Emitted(bs, CreateConditionalJump(bs, b, v, c, d, place), b,
                 CondJump(v, c, d, place), {c, d})
<1> DEFINE one == AddEdge(bs, b, c)
           two == AddEdge(one, b, d)
           new == CreateConditionalJump(bs, b, v, c, d, place)
<1>1. Linked(bs, one, b, c)
  BY AddEdgeLinks
<1>2. new = AddInstruction(two, b, CondJump(v, c, d, place))
  BY DEF CreateConditionalJump
<1> HIDE DEF one, new
<1>3. Linked(one, two, b, d)
  <2>1. one \in Seq(Block) /\ Len(one) = Len(bs)
    BY <1>1 DEF Linked
  <2> QED
    BY <2>1, AddEdgeLinks
<1> HIDE DEF two
<1>4. Emitted(two, new, b, CondJump(v, c, d, place), {})
  BY <1>1, <1>2, <1>3, AddInstructionEmits DEF Linked
<1>5. \A i \in 1 .. Len(bs) :
        /\ two[i].code = bs[i].code
        /\ two[i].succ = IF i = b THEN bs[i].succ \cup {c, d} ELSE bs[i].succ
        /\ two[i].pred = IF i \in {c, d} THEN bs[i].pred \cup {b} ELSE bs[i].pred
  BY <1>1, <1>3 DEF Linked
<1> QED
  BY <1>1, <1>3, <1>4, <1>5, ZenonT(30) DEF Emitted, Linked, new

LEMMA CreateReturnEmits ==
  ASSUME NEW bs \in Seq(Block), Terminal \in 1 .. Len(bs), NEW b \in 1 .. Len(bs), b # Terminal,
         NEW args, NEW place, Return(args, place) \in Instructions
  PROVE  Emitted(bs, CreateReturn(bs, b, args, place), b, Return(args, place), {Terminal})
<1> DEFINE one == AddEdge(bs, b, Terminal)
           new == CreateReturn(bs, b, args, place)
<1>1. Linked(bs, one, b, Terminal)
  BY AddEdgeLinks
<1>2. new = AddInstruction(one, b, Return(args, place))
  BY DEF CreateReturn
<1> HIDE DEF one, new
<1>3. Emitted(one, new, b, Return(args, place), {})
  BY <1>1, <1>2, AddInstructionEmits DEF Linked
<1> QED
  BY <1>1, <1>3 DEF Emitted, Linked, new

LEMMA LeadsFromAppend ==
  ASSUME NEW instrs \in Seq(Instructions), NEW instr \in Instructions, NEW b
  PROVE  LeadsFrom(b, Append(instrs, instr)) = LeadsFrom(b, instrs) \cup Leads(b, instr)
<1> DEFINE new == Append(instrs, instr)
<1>1. /\ Len(new) = Len(instrs) + 1 /\ Len(instrs) \in Nat
      /\ new[Len(instrs) + 1] = instr /\ \A k \in 1 .. Len(instrs) : new[k] = instrs[k]
  OBVIOUS
<1> HIDE DEF new
<1>2. \A x : x \in LeadsFrom(b, new) <=> \E k \in 1 .. Len(new) : x \in Leads(b, new[k])
  BY DEF LeadsFrom
<1>3. \A x : x \in LeadsFrom(b, instrs)
             <=> \E k \in 1 .. Len(instrs) : x \in Leads(b, instrs[k])
  BY DEF LeadsFrom
<1>4. \A k : k \in 1 .. Len(new) <=> k \in 1 .. Len(instrs) \/ k = Len(instrs) + 1
  BY <1>1
<1> QED
  BY <1>1, <1>2, <1>3, <1>4 DEF new

\* An instruction with the edges it asks for leaves sound code, unless it comes after
\* the return of the terminal block.
LEMMA EmittedSound ==
  ASSUME NEW bs, Sound(bs), NEW b \in 1 .. Len(bs), b # Terminal, NEW instr \in Instructions,
         NEW new, Emitted(bs, new, b, instr, Leads(b, instr)),
         Leads(b, instr) \subseteq 1 .. Len(bs)
  PROVE  Sound(new) /\ Len(new) = Len(bs) /\ Adds(bs, new, b, instr)
<1>7. Adds(bs, new, b, instr)
  BY DEF Emitted, Adds
<1>1. bs \in Seq(Block) /\ new \in Seq(Block) /\ Len(new) = Len(bs)
  BY DEF Sound, Emitted
<1>2. new[Terminal].code = bs[Terminal].code /\ Terminal \in 1 .. Len(bs)
  BY DEF Sound, Emitted
<1>3. ASSUME NEW c \in 1 .. Len(bs)
      PROVE  new[c].succ = LeadsFrom(c, new[c].code)
  <2>1. bs[c].succ = LeadsFrom(c, bs[c].code) /\ bs[c].code \in Seq(Instructions)
    BY <1>1, SeqFacts, BlockFields DEF Sound, Edges
  <2>2. /\ new[c].code = IF c = b THEN Append(bs[c].code, instr) ELSE bs[c].code
        /\ new[c].succ = IF c = b THEN bs[c].succ \cup Leads(b, instr) ELSE bs[c].succ
    BY DEF Emitted
  <2>3. LeadsFrom(c, Append(bs[c].code, instr))
          = LeadsFrom(c, bs[c].code) \cup Leads(c, instr)
    BY <2>1, LeadsFromAppend
  <2> QED
    BY <2>1, <2>2, <2>3
<1>4. ASSUME NEW c \in 1 .. Len(bs), NEW d \in 1 .. Len(bs)
      PROVE  d \in new[c].succ <=> c \in new[d].pred
  <2>1. d \in bs[c].succ <=> c \in bs[d].pred
    BY DEF Sound, Edges
  <2>2. /\ new[c].succ = IF c = b THEN bs[c].succ \cup Leads(b, instr) ELSE bs[c].succ
        /\ new[d].pred = IF d \in Leads(b, instr) THEN bs[d].pred \cup {b} ELSE bs[d].pred
    BY DEF Emitted
  <2>3. CASE c = b
    BY <2>1, <2>2, <2>3
  <2>4. CASE c # b
    BY <2>1, <2>2, <2>4
  <2> QED
    BY <2>3, <2>4
<1>5. EndsIn(new[Terminal], {"return"})
  BY <1>2 DEF Sound, EndsIn
<1>6. ASSUME NEW c \in 1 .. Len(bs)
      PROVE  new[c].succ \subseteq 1 .. Len(bs) /\ new[c].pred \subseteq 1 .. Len(bs)
  <2>1. bs[c].succ \subseteq 1 .. Len(bs) /\ bs[c].pred \subseteq 1 .. Len(bs)
    BY DEF Sound, Edges
  <2> QED
    BY <2>1, ZenonT(30) DEF Emitted
<1> QED
  BY <1>1, <1>2, <1>3, <1>4, <1>5, <1>6, <1>7 DEF Sound, Edges

\* Three more blocks, without instructions and edges.
LEMMA CreateBlocksSound ==
  ASSUME NEW bs, Sound(bs)
  PROVE  /\ Sound(CreateBlocks(bs)) /\ Len(CreateBlocks(bs)) = Len(bs) + 3
         /\ \A b \in 1 .. Len(bs) : CreateBlocks(bs)[b] = bs[b]
<1> DEFINE n == Len(bs)
           new == CreateBlocks(bs)
           more == <<NewBlock, NewBlock, NewBlock>>
<1>1. bs \in Seq(Block) /\ n \in Nat /\ Terminal \in 1 .. n
  BY DEF Sound
<1>2. NewBlock \in Block /\ NewBlock.code = <<>> /\ NewBlock.succ = {} /\ NewBlock.pred = {}
  BY DEF NewBlock, Block
<1>3. more \in Seq(Block) /\ Len(more) = 3 /\ \A i \in 1 .. 3 : more[i] = NewBlock
  BY <1>2
<1>4. new = bs \o more
  BY DEF CreateBlocks
<1> HIDE DEF more, new
<1>5. /\ new \in Seq(Block) /\ Len(new) = n + 3
      /\ \A b \in 1 .. n : new[b] = bs[b]
      /\ \A b \in n + 1 .. n + 3 : new[b] = NewBlock
  <2>1. /\ bs \o more \in Seq(Block) /\ Len(bs \o more) = Len(bs) + Len(more)
        /\ \A b \in 1 .. Len(bs) + Len(more) :
             (bs \o more)[b] = IF b <= Len(bs) THEN bs[b] ELSE more[b - Len(bs)]
    BY <1>1, <1>3, ConcatProperties
  <2>2. ASSUME NEW b \in n + 1 .. n + 3 PROVE new[b] = NewBlock
    <3>1. b \in 1 .. n + 3 /\ ~(b <= n) /\ b - n \in 1 .. 3
      BY <1>1
    <3> QED
      BY <1>3, <1>4, <2>1, <3>1
  <2>3. ASSUME NEW b \in 1 .. n PROVE new[b] = bs[b]
    <3>1. b \in 1 .. n + 3 /\ b <= n
      BY <1>1
    <3> QED
      BY <1>3, <1>4, <2>1, <3>1
  <2> QED
    BY <1>3, <1>4, <2>1, <2>2, <2>3
<1>6. \A b : LeadsFrom(b, <<>>) = {}
  BY DEF LeadsFrom
<1>7. ASSUME NEW b \in 1 .. n + 3
      PROVE  /\ new[b].succ = LeadsFrom(b, new[b].code)
             /\ new[b].succ \subseteq 1 .. n /\ new[b].pred \subseteq 1 .. n
  <2>1. CASE b <= n
    BY <1>1, <1>5, <2>1 DEF Sound, Edges
  <2>2. CASE b > n
    <3>1. new[b] = NewBlock
      BY <1>1, <1>5, <2>2
    <3>2. LeadsFrom(b, <<>>) = {}
      BY <1>6
    <3> QED
      BY <1>2, <3>1, <3>2
  <2> QED
    BY <1>1, <2>1, <2>2
<1>8. ASSUME NEW b \in 1 .. n + 3, NEW c \in 1 .. n + 3
      PROVE  c \in new[b].succ <=> b \in new[c].pred
  <2>1. CASE b <= n /\ c <= n
    BY <1>1, <1>5, <2>1 DEF Sound, Edges
  <2>2. CASE b > n
    <3>1. new[b].succ = {} /\ b \notin 1 .. n
      BY <1>1, <1>2, <1>5, <2>2
    <3> QED
      BY <1>7, <3>1
  <2>3. CASE c > n
    <3>1. new[c].pred = {} /\ c \notin 1 .. n
      BY <1>1, <1>2, <1>5, <2>3
    <3> QED
      BY <1>7, <3>1
  <2> QED
    BY <1>1, <2>1, <2>2, <2>3
<1>9. 1 .. n \subseteq 1 .. n + 3
  BY <1>1
<1>10. Sound(new)
  BY <1>1, <1>5, <1>7, <1>8, <1>9 DEF Sound, Edges
<1> QED
  BY <1>5, <1>10 DEF new

-----------------------------------------------------------------------------
(* Instructions, and where they lead *)

Places == {None} \cup (Nat \X Nat)

LEMMA LeadsFacts ==
  ASSUME NEW b, b # Terminal, NEW instr
  PROVE  /\ instr.targets = <<>> /\ instr.op # "return" => Leads(b, instr) = {}
         /\ instr.targets = <<>> /\ instr.op = "return" => Leads(b, instr) = {Terminal}
         /\ \A c : instr.targets = <<c>> /\ instr.op # "return" => Leads(b, instr) = {c}
         /\ \A c, d : instr.targets = <<c, d>> /\ instr.op # "return" => Leads(b, instr) = {c, d}
<1>1. ASSUME instr.targets = <<>> PROVE {instr.targets[k] : k \in DOMAIN instr.targets} = {}
  BY <1>1
<1>2. ASSUME NEW c, instr.targets = <<c>>
      PROVE  {instr.targets[k] : k \in DOMAIN instr.targets} = {c}
  <2>1. DOMAIN instr.targets = {1} /\ instr.targets[1] = c
    BY <1>2
  <2> QED
    BY <2>1
<1>3. ASSUME NEW c, NEW d, instr.targets = <<c, d>>
      PROVE  {instr.targets[k] : k \in DOMAIN instr.targets} = {c, d}
  <2>1. DOMAIN instr.targets = {1, 2} /\ instr.targets[1] = c /\ instr.targets[2] = d
    BY <1>3
  <2> QED
    BY <2>1
<1> QED
  BY <1>1, <1>2, <1>3 DEF Leads

LEMMA OperationTyped ==
  ASSUME NEW o \in Operations, NEW args \in Seq(Values), NEW t \in Temporaries, NEW place \in Places,
         NEW b, b # Terminal
  PROVE  /\ Operation(o, args, t, place) \in Instructions
         /\ Leads(b, Operation(o, args, t, place)) = {}
<1>1. o # "return" /\ Operation(o, args, t, place) \in Instructions
  BY OperationsAssumption
     DEF Operation, Instruction, Instructions, Places, Terminators, OtherInstructions
<1> QED
  BY <1>1, LeadsFacts DEF Operation, Instruction

LEMMA AssignTyped ==
  ASSUME NEW v \in Values, NEW place \in Places, NEW b, b # Terminal
  PROVE  Assign(v, place) \in Instructions /\ Leads(b, Assign(v, place)) = {}
<1>1. Assign(v, place) \in Instructions
  BY DEF Assign, Instruction, Instructions, Places, OtherInstructions
<1> QED
  BY <1>1, LeadsFacts DEF Assign, Instruction

LEMMA CallTyped ==
  ASSUME NEW args \in Seq(Values), NEW place \in Places, NEW b, b # Terminal
  PROVE  Call(args, place) \in Instructions /\ Leads(b, Call(args, place)) = {}
<1>1. Call(args, place) \in Instructions
  BY DEF Call, Instruction, Instructions, Places, OtherInstructions
<1> QED
  BY <1>1, LeadsFacts DEF Call, Instruction

LEMMA DeclarationTyped ==
  ASSUME NEW b, b # Terminal
  PROVE  Declaration \in Instructions /\ Leads(b, Declaration) = {}
<1>1. Declaration \in Instructions
  BY DEF Declaration, Instruction, Instructions, OtherInstructions, None
<1> QED
  BY <1>1, LeadsFacts DEF Declaration, Instruction

LEMMA ReturnTyped ==
  ASSUME NEW args \in Seq(Values), NEW place \in Places, NEW b, b # Terminal
  PROVE  /\ Return(args, place) \in Instructions /\ Leads(b, Return(args, place)) = {Terminal}
<1>1. Return(args, place) \in Instructions
  BY DEF Return, Instruction, Instructions, Places, Terminators
<1> QED
  BY <1>1, LeadsFacts DEF Return, Instruction

LEMMA JumpTyped ==
  ASSUME NEW c \in Nat, NEW b, b # Terminal
  PROVE  Jump(c) \in Instructions /\ Leads(b, Jump(c)) = {c}
<1>1. Jump(c) \in Instructions
  BY DEF Jump, Instruction, Instructions, None, Terminators
<1> QED
  BY <1>1, LeadsFacts DEF Jump, Instruction

LEMMA CondJumpTyped ==
  ASSUME NEW v \in Values, NEW c \in Nat, NEW d \in Nat, NEW place \in Places,
         NEW b, b # Terminal
  PROVE  /\ CondJump(v, c, d, place) \in Instructions
         /\ Leads(b, CondJump(v, c, d, place)) = {c, d}
<1>1. CondJump(v, c, d, place) \in Instructions
  BY DEF CondJump, Instruction, Instructions, Places, Terminators
<1> QED
  BY <1>1, LeadsFacts DEF CondJump, Instruction

\* What follows from all of the above, for an instruction in block b.
LEMMA PlainSound ==
  ASSUME NEW bs, Sound(bs), NEW b \in 1 .. Len(bs), b # Terminal, NEW instr \in Instructions,
         Leads(b, instr) = {}
  PROVE  LET new == AddInstruction(bs, b, instr)
         IN  Sound(new) /\ Len(new) = Len(bs) /\ Adds(bs, new, b, instr)
<1>1. Emitted(bs, AddInstruction(bs, b, instr), b, instr, Leads(b, instr))
  BY AddInstructionEmits DEF Sound
<1> QED
  BY <1>1, EmittedSound

LEMMA JumpSound ==
  ASSUME NEW bs, Sound(bs), NEW b \in 1 .. Len(bs), b # Terminal, NEW c \in 1 .. Len(bs)
  PROVE  LET new == CreateJump(bs, b, c)
         IN  Sound(new) /\ Len(new) = Len(bs) /\ Adds(bs, new, b, Jump(c))
<1>1. bs \in Seq(Block) /\ c \in Nat
  BY DEF Sound
<1>2. Emitted(bs, CreateJump(bs, b, c), b, Jump(c), {c})
  BY <1>1, JumpTyped, CreateJumpEmits
<1>3. Jump(c) \in Instructions /\ Leads(b, Jump(c)) = {c}
  BY <1>1, JumpTyped
<1>4. Emitted(bs, CreateJump(bs, b, c), b, Jump(c), Leads(b, Jump(c)))
  BY <1>2, <1>3
<1>5. Leads(b, Jump(c)) \subseteq 1 .. Len(bs)
  BY <1>1, <1>3
<1> QED
  BY <1>3, <1>4, <1>5, EmittedSound

LEMMA ConditionalJumpSound ==
  ASSUME NEW bs, Sound(bs), NEW b \in 1 .. Len(bs), b # Terminal, NEW v \in Values,
         NEW c \in 1 .. Len(bs), NEW d \in 1 .. Len(bs), NEW place \in Places
  PROVE  LET new == CreateConditionalJump(bs, b, v, c, d, place)
         IN  /\ Sound(new) /\ Len(new) = Len(bs)
             /\ Adds(bs, new, b, CondJump(v, c, d, place))
<1>1. bs \in Seq(Block) /\ c \in Nat /\ d \in Nat
  BY DEF Sound
<1>2. Emitted(bs, CreateConditionalJump(bs, b, v, c, d, place), b,
              CondJump(v, c, d, place), {c, d})
  BY <1>1, CondJumpTyped, CreateConditionalJumpEmits
<1>3. CondJump(v, c, d, place) \in Instructions /\ Leads(b, CondJump(v, c, d, place)) = {c, d}
  BY <1>1, CondJumpTyped
<1>4. Emitted(bs, CreateConditionalJump(bs, b, v, c, d, place), b, CondJump(v, c, d, place), Leads(b, CondJump(v, c, d, place)))
  BY <1>2, <1>3
<1>5. Leads(b, CondJump(v, c, d, place)) \subseteq 1 .. Len(bs)
  BY <1>1, <1>3
<1> QED
  BY <1>3, <1>4, <1>5, EmittedSound

LEMMA ReturnSound ==
  ASSUME NEW bs, Sound(bs), NEW b \in 1 .. Len(bs), b # Terminal, NEW args \in Seq(Values),
         NEW place \in Places
  PROVE  LET new == CreateReturn(bs, b, args, place)
         IN  Sound(new) /\ Len(new) = Len(bs) /\ Adds(bs, new, b, Return(args, place))
<1>1. bs \in Seq(Block) /\ Terminal \in 1 .. Len(bs)
  BY DEF Sound
<1>2. Emitted(bs, CreateReturn(bs, b, args, place), b, Return(args, place), {Terminal})
  BY <1>1, ReturnTyped, CreateReturnEmits
<1>3. Return(args, place) \in Instructions /\ Leads(b, Return(args, place)) = {Terminal}
  BY <1>1, ReturnTyped
<1>4. Emitted(bs, CreateReturn(bs, b, args, place), b, Return(args, place), Leads(b, Return(args, place)))
  BY <1>2, <1>3
<1>5. Leads(b, Return(args, place)) \subseteq 1 .. Len(bs)
  BY <1>1, <1>3
<1> QED
  BY <1>3, <1>4, <1>5, EmittedSound

-----------------------------------------------------------------------------
(* The order of the blocks in the code *)

On(lay) == {lay[i] : i \in 1 .. Len(lay)}

\* lay is a sequence of some of n blocks, each once, from the entry to the terminal one.
Ordered(lay, n) ==
  /\ lay \in Seq(1 .. n) /\ Len(lay) >= 2
  /\ lay[1] = Entry /\ lay[Len(lay)] = Terminal
  /\ \A i, j \in 1 .. Len(lay) : lay[i] = lay[j] => i = j

LEMMA AddBasicBlockOrdered ==
  ASSUME NEW lay, NEW n \in Nat, Ordered(lay, n), NEW m \in Nat, m >= n,
         NEW b \in 1 .. m, b \notin On(lay)
  PROVE  /\ Ordered(AddBasicBlock(lay, b), m)
         /\ On(AddBasicBlock(lay, b)) = On(lay) \cup {b}
<1> DEFINE k == Len(lay) - 1
           new == AddBasicBlock(lay, b)
           init == SubSeq(lay, 1, k)
           tail == <<b, lay[Len(lay)]>>
<1>1. lay \in Seq(1 .. m) /\ k \in Nat /\ k >= 1 /\ Len(lay) = k + 1
  <2>1. 1 .. n \subseteq 1 .. m
    OBVIOUS
  <2>2. lay \in Seq(1 .. n) /\ \A i \in 1 .. Len(lay) : lay[i] \in 1 .. m
    BY <2>1 DEF Ordered
  <2>3. lay \in Seq(1 .. m)
    BY <2>2
  <2> QED
    BY <2>3 DEF Ordered
<1>2. tail \in Seq(1 .. m) /\ Len(tail) = 2 /\ tail[1] = b /\ tail[2] = lay[k + 1]
  BY <1>1
<1>3. new = init \o tail
  BY DEF AddBasicBlock
<1> HIDE DEF tail, new, k
<1>4. /\ init \in Seq(1 .. m) /\ Len(init) = k /\ \A i \in 1 .. k : init[i] = lay[i]
  <2>1. \A i \in 1 .. k : lay[i] \in 1 .. m
    BY <1>1
  <2>2. /\ init \in Seq(1 .. m) /\ Len(init) = IF 1 <= k THEN k - 1 + 1 ELSE 0
        /\ \A i \in 1 .. k - 1 + 1 : init[i] = lay[1 + i - 1]
    BY <1>1, <2>1, SubSeqProperties
  <2>3. k - 1 + 1 = k /\ \A i \in 1 .. k : 1 + i - 1 = i
    BY <1>1
  <2> QED
    BY <1>1, <2>2, <2>3
<1> HIDE DEF init
<1>5. /\ new \in Seq(1 .. m) /\ Len(new) = k + 2
      /\ \A i \in 1 .. k + 2 : new[i] = IF i <= k THEN lay[i] ELSE IF i = k + 1 THEN b ELSE lay[k + 1]
  <2>1. /\ init \o tail \in Seq(1 .. m) /\ Len(init \o tail) = k + 2
        /\ \A i \in 1 .. k + 2 : (init \o tail)[i] = IF i <= k THEN init[i] ELSE tail[i - k]
    <3>1. /\ init \o tail \in Seq(1 .. m) /\ Len(init \o tail) = Len(init) + Len(tail)
          /\ \A i \in 1 .. Len(init) + Len(tail) :
               (init \o tail)[i] = IF i <= Len(init) THEN init[i] ELSE tail[i - Len(init)]
      BY <1>2, <1>4, ConcatProperties
    <3> QED
      BY <1>2, <1>4, <3>1
  <2>2. ASSUME NEW i \in 1 .. k + 2
        PROVE  new[i] = IF i <= k THEN lay[i] ELSE IF i = k + 1 THEN b ELSE lay[k + 1]
    <3>1. CASE i <= k
      BY <1>1, <1>3, <1>4, <2>1, <3>1
    <3>2. CASE i = k + 1
      <4>1. i - k = 1 /\ ~(i <= k)
        BY <1>1, <3>2
      <4> QED
        BY <1>2, <1>3, <2>1, <3>2, <4>1
    <3>3. CASE i = k + 2
      <4>1. i - k = 2 /\ ~(i <= k) /\ i # k + 1
        BY <1>1, <3>3
      <4> QED
        BY <1>2, <1>3, <2>1, <4>1
    <3> QED
      BY <1>1, <3>1, <3>2, <3>3
  <2> QED
    BY <1>3, <2>1, <2>2
<1>6. On(new) = On(lay) \cup {b}
  <2>1. \A x : x \in On(new) <=> \E i \in 1 .. k + 2 : new[i] = x
    BY <1>5 DEF On
  <2>2. \A x : x \in On(lay) <=> \E i \in 1 .. k + 1 : lay[i] = x
    BY <1>1 DEF On
  <2>3. ASSUME NEW x, x \in On(new) PROVE x \in On(lay) \cup {b}
    BY <1>1, <1>5, <2>1, <2>2, <2>3
  <2>4. ASSUME NEW x, x \in On(lay) PROVE x \in On(new)
    <3>1. PICK i \in 1 .. k + 1 : lay[i] = x
      BY <2>2, <2>4
    <3>2. CASE i <= k
      <4>1. i \in 1 .. k + 2 /\ new[i] = x
        BY <1>1, <1>5, <3>1, <3>2
      <4> QED
        BY <2>1, <4>1
    <3>3. CASE i = k + 1
      <4>1. k + 2 \in 1 .. k + 2 /\ new[k + 2] = x
        BY <1>1, <1>5, <3>1, <3>3
      <4> QED
        BY <2>1, <4>1
    <3> QED
      BY <1>1, <3>2, <3>3
  <2>5. k + 1 \in 1 .. k + 2 /\ new[k + 1] = b
    BY <1>1, <1>5
  <2> QED
    BY <2>1, <2>3, <2>4, <2>5
<1>7. ASSUME NEW i \in 1 .. k + 2, NEW j \in 1 .. k + 2, new[i] = new[j]
      PROVE  i = j
  <2>1. \A l \in 1 .. k + 1 : lay[l] # b
    BY <1>1 DEF On
  <2>2. \A l, o \in 1 .. k + 1 : lay[l] = lay[o] => l = o
    BY <1>1 DEF Ordered
  <2> DEFINE Old(l) == IF l <= k THEN l ELSE k + 1
  <2>3. \A l \in 1 .. k + 2 : /\ Old(l) \in 1 .. k + 1
                              /\ l # k + 1 => new[l] = lay[Old(l)]
                              /\ l = k + 1 => new[l] = b
    BY <1>1, <1>5
  <2>4. CASE i = k + 1 \/ j = k + 1
    BY <1>7, <2>1, <2>3, <2>4
  <2>5. CASE i # k + 1 /\ j # k + 1
    <3>1. Old(i) = Old(j)
      BY <1>7, <2>2, <2>3, <2>5
    <3> QED
      BY <1>1, <2>5, <3>1
  <2> QED
    BY <2>4, <2>5
<1>8. new[1] = Entry /\ new[k + 2] = Terminal
  BY <1>1, <1>5 DEF Ordered
<1>9. Ordered(new, m)
  BY <1>1, <1>5, <1>7, <1>8 DEF Ordered
<1> QED
  BY <1>6, <1>9 DEF new
-----------------------------------------------------------------------------
(* The visits in progress, and the blocks they have yet to lay out *)

Kinds == Constructs \cup {"function", "else", "iterated"}
Usable(n) == (1 .. n) \ {Terminal}
Visits(n) == [kind : Kinds, first : 1 .. n, endBlock : Usable(n)]

OfFunction(v) == v.kind = "function"

Waiting(v) ==
  IF OfFunction(v) THEN {}
  ELSE IF v.kind = "if" THEN {v.first + 1, v.first + 2} ELSE {v.first + 2}

Pending(vs) == UNION {Waiting(vs[i]) : i \in 1 .. Len(vs)}
Apart(vs) == \A i, j \in 1 .. Len(vs) : i # j => Waiting(vs[i]) \cap Waiting(vs[j]) = {}
Rooted(vs) == \A i \in 1 .. Len(vs) : OfFunction(vs[i]) <=> i = 1

\* Of n blocks, those not in lay are each waiting for one thing: a visit in vs, or the
\* loop whose condition is being generated, for which there are the blocks in extra.
Shape(n, lay, vs, b, extra) ==
  /\ Ordered(lay, n) /\ b \in Usable(n)
  /\ vs \in Seq(Visits(n)) /\ Rooted(vs) /\ Apart(vs)
  /\ Pending(vs) \cap extra = {}
  /\ (1 .. n) \ On(lay) = Pending(vs) \cup extra

LEMMA InPending ==
  ASSUME NEW vs
  PROVE  \A x : x \in Pending(vs) <=> \E i \in 1 .. Len(vs) : x \in Waiting(vs[i])
  BY DEF Pending

IsAppend(vs, w, u) == vs = Append(w, u)

LEMMA PendingAppend ==
  ASSUME NEW S, NEW w \in Seq(S), NEW u \in S, NEW vs, IsAppend(vs, w, u)
  PROVE  /\ Pending(vs) = Pending(w) \cup Waiting(u)
         /\ Apart(vs) => Apart(w)
         /\ Apart(vs) => Waiting(u) \cap Pending(w) = {}
         /\ Apart(w) /\ Waiting(u) \cap Pending(w) = {} => Apart(vs)
<1>1. /\ Len(vs) = Len(w) + 1 /\ Len(w) \in Nat
      /\ vs[Len(w) + 1] = u /\ \A i \in 1 .. Len(w) : vs[i] = w[i]
      /\ w = <<>> <=> Len(w) = 0
  BY DEF IsAppend
<1> DEFINE n == Len(w)
<1>2. /\ n \in Nat /\ Len(vs) = n + 1 /\ vs[n + 1] = u
      /\ \A i \in 1 .. n : vs[i] = w[i] /\ i # n + 1
      /\ \A i : i \in 1 .. n + 1 <=> i \in 1 .. n \/ i = n + 1
      /\ w = <<>> <=> n = 0
  BY <1>1
<1>3. /\ \A x : x \in Pending(vs) <=> \E i \in 1 .. n + 1 : x \in Waiting(vs[i])
      /\ \A x : x \in Pending(w) <=> \E i \in 1 .. n : x \in Waiting(w[i])
  BY <1>2, InPending
<1> HIDE DEF n
<1>4. Pending(vs) = Pending(w) \cup Waiting(u)
  <2>1. ASSUME NEW x, x \in Pending(vs) PROVE x \in Pending(w) \cup Waiting(u)
    BY <1>2, <1>3, <2>1
  <2>2. ASSUME NEW x, x \in Pending(w) PROVE x \in Pending(vs)
    BY <1>2, <1>3, <2>2
  <2>3. ASSUME NEW x, x \in Waiting(u) PROVE x \in Pending(vs)
    BY <1>2, <1>3, <2>3
  <2> QED
    BY <2>1, <2>2, <2>3
<1>5. ASSUME Apart(vs) PROVE Apart(w) /\ Waiting(u) \cap Pending(w) = {}
  <2>1. \A i, j \in 1 .. n + 1 : i # j => Waiting(vs[i]) \cap Waiting(vs[j]) = {}
    BY <1>2, <1>5 DEF Apart
  <2>2. Apart(w)
    BY <1>2, <2>1 DEF Apart, n
  <2>3. ASSUME NEW x, x \in Waiting(u), x \in Pending(w) PROVE FALSE
    <3>1. PICK i \in 1 .. n : x \in Waiting(w[i])
      BY <1>3, <2>3
    <3>2. x \in Waiting(vs[i]) /\ x \in Waiting(vs[n + 1]) /\ i # n + 1
      BY <1>2, <2>3, <3>1
    <3> QED
      BY <1>2, <2>1, <3>2
  <2> QED
    BY <2>2, <2>3
<1>6. ASSUME Apart(w), Waiting(u) \cap Pending(w) = {} PROVE Apart(vs)
  <2>1. \A i, j \in 1 .. n : i # j => Waiting(w[i]) \cap Waiting(w[j]) = {}
    BY <1>6 DEF Apart, n
  <2>2. \A i \in 1 .. n : Waiting(w[i]) \subseteq Pending(w)
    BY <1>3
  <2>3. \A i \in 1 .. n : Waiting(w[i]) \cap Waiting(u) = {}
    BY <1>6, <2>2
  <2>4. ASSUME NEW i \in 1 .. n + 1, NEW j \in 1 .. n + 1, i # j
        PROVE  Waiting(vs[i]) \cap Waiting(vs[j]) = {}
    <3>1. CASE i \in 1 .. n /\ j \in 1 .. n
      BY <1>2, <2>1, <2>4, <3>1
    <3>2. CASE i = n + 1
      BY <1>2, <2>3, <2>4, <3>2
    <3>3. CASE j = n + 1
      BY <1>2, <2>3, <2>4, <3>3
    <3> QED
      BY <1>2, <3>1, <3>2, <3>3
  <2> QED
    BY <1>2, <2>4 DEF Apart
<1> QED
  BY <1>4, <1>5, <1>6

LEMMA RootedAppend ==
  ASSUME NEW S, NEW w \in Seq(S), NEW u \in S, NEW vs, IsAppend(vs, w, u), ~OfFunction(u)
  PROVE  /\ Rooted(vs) => Rooted(w)
         /\ Rooted(vs) => w # <<>>
         /\ Rooted(w) /\ w # <<>> => Rooted(vs)
<1> DEFINE n == Len(w)
<1>1. /\ n \in Nat /\ Len(vs) = n + 1 /\ vs[n + 1] = u
      /\ \A i \in 1 .. n : vs[i] = w[i] /\ i # n + 1
      /\ \A i : i \in 1 .. n + 1 <=> i \in 1 .. n \/ i = n + 1
  BY DEF IsAppend
<1> HIDE DEF n
<1>4. n = 0 <=> w = <<>>
  BY DEF n
<1>2. ASSUME Rooted(vs) PROVE Rooted(w) /\ n # 0
  BY <1>1, <1>2 DEF Rooted, n
<1>3. ASSUME Rooted(w), n # 0 PROVE Rooted(vs)
  <2>1. \A i \in 1 .. n : OfFunction(vs[i]) <=> i = 1
    BY <1>1, <1>3 DEF Rooted, n
  <2>2. n + 1 # 1
    BY <1>1, <1>3
  <2> QED
    BY <1>1, <2>1, <2>2 DEF Rooted
<1> QED
  BY <1>2, <1>3, <1>4

\* The innermost visit and those around it.
LEMMA Shorter ==
  ASSUME NEW S, NEW w \in Seq(S), NEW u \in S, NEW vs, IsAppend(vs, w, u),
         ~OfFunction(u), Apart(vs), Rooted(vs)
  PROVE  /\ Pending(vs) = Pending(w) \cup Waiting(u) /\ Waiting(u) \cap Pending(w) = {}
         /\ Apart(w) /\ Rooted(w) /\ w # <<>>
  BY PendingAppend, RootedAppend

LEMMA Longer ==
  ASSUME NEW S, NEW w \in Seq(S), NEW u \in S, NEW vs, IsAppend(vs, w, u),
         ~OfFunction(u), Apart(w), Rooted(w), w # <<>>, Waiting(u) \cap Pending(w) = {}
  PROVE  /\ Pending(vs) = Pending(w) \cup Waiting(u) /\ Apart(vs) /\ Rooted(vs)
         /\ vs \in Seq(S) /\ vs # <<>>
<1>1. vs \in Seq(S) /\ vs # <<>>
  BY DEF IsAppend
<1> QED
  BY <1>1, PendingAppend, RootedAppend

\* Visits that wait for the same blocks.
LEMMA PendingSame ==
  ASSUME NEW vs, NEW new, Len(new) = Len(vs),
         \A i \in 1 .. Len(vs) : /\ Waiting(new[i]) = Waiting(vs[i])
                                 /\ OfFunction(new[i]) <=> OfFunction(vs[i])
  PROVE  /\ Pending(new) = Pending(vs)
         /\ Apart(new) <=> Apart(vs)
         /\ Rooted(new) <=> Rooted(vs)
<1>1. Pending(new) = Pending(vs)
  <2>1. ASSUME NEW x PROVE x \in Pending(new) <=> x \in Pending(vs)
    <3>1. x \in Pending(new) <=> \E i \in 1 .. Len(vs) : x \in Waiting(new[i])
      BY InPending
    <3>2. x \in Pending(vs) <=> \E i \in 1 .. Len(vs) : x \in Waiting(vs[i])
      BY InPending
    <3> QED
      BY <3>1, <3>2
  <2> QED
    BY <2>1
<1>2. Apart(new) <=> Apart(vs)
  BY DEF Apart
<1>3. Rooted(new) <=> Rooted(vs)
  BY DEF Rooted
<1> QED
  BY <1>1, <1>2, <1>3
LEMMA LastOf ==
  ASSUME NEW S, NEW vs \in Seq(S), vs # <<>>
  PROVE  LET w == SubSeq(vs, 1, Len(vs) - 1)
         IN  /\ w \in Seq(S) /\ Len(vs) = Len(w) + 1 /\ vs[Len(vs)] \in S
             /\ vs = Append(w, vs[Len(vs)])
             /\ \A u \in S : [vs EXCEPT ![Len(vs)] = u] = Append(w, u)
             /\ \A i \in 1 .. Len(w) : w[i] = vs[i]
<1> DEFINE k == Len(vs) - 1
           w == SubSeq(vs, 1, k)
<1>1. k \in Nat /\ Len(vs) = k + 1 /\ \A i \in 1 .. k + 1 : vs[i] \in S
  OBVIOUS
<1>2. w \in Seq(S) /\ Len(w) = k /\ \A i \in 1 .. k : w[i] = vs[i]
  <2>1. /\ SubSeq(vs, 1, k) \in Seq(S) /\ Len(SubSeq(vs, 1, k)) = IF 1 <= k THEN k - 1 + 1 ELSE 0
        /\ \A i \in 1 .. k - 1 + 1 : SubSeq(vs, 1, k)[i] = vs[1 + i - 1]
    BY <1>1, SubSeqProperties
  <2>2. k - 1 + 1 = k /\ (~(1 <= k) => k = 0) /\ \A i \in 1 .. k : 1 + i - 1 = i
    BY <1>1
  <2> QED
    BY <2>1, <2>2
<1> HIDE DEF w, k
<1>3. ASSUME NEW u \in S, NEW new \in Seq(S), Len(new) = k + 1, new[k + 1] = u,
             \A i \in 1 .. k : new[i] = w[i]
      PROVE  new = Append(w, u)
  <2>1. Append(w, u) \in Seq(S) /\ Len(Append(w, u)) = k + 1
    BY <1>1, <1>2
  <2>2. \A i \in 1 .. k + 1 : Append(w, u)[i] = new[i]
    BY <1>1, <1>2, <1>3
  <2> DEFINE other == Append(w, u)
  <2> HIDE DEF other
  <2>3. other \in Seq(S) /\ Len(other) = Len(new) /\ \A i \in 1 .. Len(new) : other[i] = new[i]
    BY <1>3, <2>1, <2>2 DEF other
  <2>4. other = new
    BY <2>3, SeqEqual
  <2> QED
    BY <2>4 DEF other
<1>4. vs = Append(w, vs[k + 1])
  BY <1>1, <1>2, <1>3
<1>5. ASSUME NEW u \in S PROVE [vs EXCEPT ![k + 1] = u] = Append(w, u)
  <2> DEFINE new == [vs EXCEPT ![k + 1] = u]
  <2>1. new \in Seq(S) /\ Len(new) = k + 1 /\ new[k + 1] = u
    BY <1>1
  <2>2. \A i \in 1 .. k : new[i] = vs[i]
    BY <1>1
  <2> HIDE DEF new
  <2>3. new = Append(w, u)
    BY <1>1, <1>2, <1>3, <2>1, <2>2
  <2> QED
    BY <2>3 DEF new
<1> QED
  BY <1>1, <1>2, <1>4, <1>5 DEF w, k

LEMMA OrderedFacts ==
  ASSUME NEW n \in Nat, NEW lay, Ordered(lay, n)
  PROVE  On(lay) \subseteq 1 .. n /\ Terminal \in On(lay) /\ Entry \in On(lay)
<1>1. lay \in Seq(1 .. n) /\ Len(lay) \in Nat /\ Len(lay) >= 2
  BY DEF Ordered
<1>2. 1 \in 1 .. Len(lay) /\ Len(lay) \in 1 .. Len(lay)
  BY <1>1
<1> QED
  BY <1>1, <1>2 DEF On, Ordered

LEMMA VisitsGrow ==
  ASSUME NEW n \in Nat, NEW m \in Nat, n <= m, NEW vs \in Seq(Visits(n))
  PROVE  vs \in Seq(Visits(m))
<1>1. 1 .. n \subseteq 1 .. m
  OBVIOUS
<1>2. Visits(n) \subseteq Visits(m)
  BY <1>1 DEF Visits, Usable
<1> HIDE DEF Visits
<1> QED
  BY <1>2

\* One block more is laid out, and active.
LEMMA BlockLaidOut ==
  ASSUME NEW n \in Nat, NEW lay, NEW vs, NEW act, NEW extra, Shape(n, lay, vs, act, extra),
         NEW m \in Nat, m >= n, NEW b \in 1 .. m,
         NEW new \in Seq(Visits(m)), Rooted(new), Apart(new), NEW extra2,
         Pending(new) \cap extra2 = {}, b \notin Pending(new), b \notin extra2,
         Pending(new) \cup extra2 \cup {b} = (Pending(vs) \cup extra) \cup ((1 .. m) \ (1 .. n))
  PROVE  Shape(m, AddBasicBlock(lay, b), new, b, extra2)
<1>1. Ordered(lay, n) /\ (1 .. n) \ On(lay) = Pending(vs) \cup extra
  BY DEF Shape
<1>2. On(lay) \subseteq 1 .. n /\ Terminal \in On(lay) /\ 1 .. n \subseteq 1 .. m
  BY <1>1, OrderedFacts
<1> HIDE DEF Ordered
<1>3. b \notin On(lay) /\ b \in Usable(m)
  BY <1>1, <1>2 DEF Usable
<1>4. /\ Ordered(AddBasicBlock(lay, b), m)
      /\ On(AddBasicBlock(lay, b)) = On(lay) \cup {b}
  BY <1>1, <1>3, AddBasicBlockOrdered
<1>5. (1 .. m) \ (On(lay) \cup {b}) = Pending(new) \cup extra2
  BY <1>1, <1>2, <1>3
<1> QED
  BY <1>3, <1>4, <1>5 DEF Shape

LEMMA IfOpened ==
  ASSUME NEW n \in Nat, NEW lay, NEW vs, NEW act, Shape(n, lay, vs, act, {}), vs # <<>>
  PROVE  Shape(n + 3, AddBasicBlock(lay, n + 1), Append(vs, Visit("if", n + 1, n + 1)), n + 1, {})
<1> DEFINE u == Visit("if", n + 1, n + 1)
           new == Append(vs, u)
<1>0. /\ vs \in Seq(Visits(n)) /\ Rooted(vs) /\ Apart(vs) /\ Pending(vs) \subseteq 1 .. n
      /\ Terminal \in 1 .. n
  BY OrderedFacts DEF Shape
<1>1. u \in Visits(n + 3) /\ ~OfFunction(u)
  BY <1>0 DEF Visit, Visits, Kinds, Constructs, Usable, OfFunction
<1>2. Waiting(u) = {n + 2, n + 3}
  BY DEF Waiting, OfFunction, Visit
<1>3. vs \in Seq(Visits(n + 3))
  BY <1>0, VisitsGrow
<1> HIDE DEF u
<1>4. IsAppend(new, vs, u)
  BY DEF IsAppend
<1> HIDE DEF new
<1>a. Waiting(u) \cap Pending(vs) = {}
  BY <1>0, <1>2
<1>5. /\ Pending(new) = Pending(vs) \cup Waiting(u) /\ Apart(new) /\ Rooted(new)
      /\ new \in Seq(Visits(n + 3))
  BY <1>0, <1>1, <1>3, <1>4, <1>a, Longer
<1>6. n + 1 \notin Pending(new)
  BY <1>0, <1>2, <1>5
<1>7. Pending(new) \cup {} \cup {n + 1} = (Pending(vs) \cup {}) \cup ((1 .. n + 3) \ (1 .. n))
  BY <1>0, <1>2, <1>5
<1>8. Shape(n + 3, AddBasicBlock(lay, n + 1), new, n + 1, {})
  BY <1>0, <1>5, <1>6, <1>7, BlockLaidOut
<1> QED
  BY <1>8 DEF new, u

LEMMA LoopStarted ==
  ASSUME NEW n \in Nat, NEW lay, NEW vs, NEW act, Shape(n, lay, vs, act, {})
  PROVE  Shape(n + 3, AddBasicBlock(lay, n + 1), vs, n + 1, {n + 1 + 1, n + 1 + 2})
<1>0. /\ vs \in Seq(Visits(n)) /\ Rooted(vs) /\ Apart(vs) /\ Pending(vs) \subseteq 1 .. n
  BY DEF Shape
<1>1. vs \in Seq(Visits(n + 3))
  BY <1>0, VisitsGrow
<1> DEFINE two == {n + 1 + 1, n + 1 + 2}
<1>2. /\ n + 1 \notin Pending(vs) /\ n + 1 \notin two /\ Pending(vs) \cap two = {}
      /\ Pending(vs) \cup two \cup {n + 1} = (Pending(vs) \cup {}) \cup ((1 .. n + 3) \ (1 .. n))
  BY <1>0
<1> HIDE DEF two
<1>3. Shape(n + 3, AddBasicBlock(lay, n + 1), vs, n + 1, two)
  BY <1>0, <1>1, <1>2, BlockLaidOut
<1> QED
  BY <1>3 DEF two

LEMMA BodyOpened ==
  ASSUME NEW n \in Nat, NEW lay, NEW vs, NEW act, Shape(n, lay, vs, act, {act + 1, act + 2}),
         vs # <<>>, NEW kind \in Loops
  PROVE  /\ Shape(n, AddBasicBlock(lay, act + 1), Append(vs, Visit(kind, act, act + 1)), act + 1, {})
         /\ act + 1 \in 1 .. n /\ act + 2 \in 1 .. n
<1> DEFINE u == Visit(kind, act, act + 1)
           new == Append(vs, u)
           two == {act + 1, act + 2}
<1>0. /\ vs \in Seq(Visits(n)) /\ Rooted(vs) /\ Apart(vs) /\ Pending(vs) \cap two = {}
      /\ (1 .. n) \ On(lay) = Pending(vs) \cup two /\ Terminal \in On(lay) /\ act \in 1 .. n
  BY OrderedFacts DEF Shape, Usable
<1>a. act + 1 \in Usable(n) /\ act + 2 \in 1 .. n
  BY <1>0 DEF Usable
<1>1. u \in Visits(n) /\ ~OfFunction(u)
  BY <1>0, <1>a DEF Visit, Visits, Kinds, Constructs, Loops, OfFunction
<1>2. Waiting(u) = {act + 2}
  BY DEF Waiting, OfFunction, Visit, Loops
<1> HIDE DEF u
<1>4. IsAppend(new, vs, u)
  BY DEF IsAppend
<1> HIDE DEF new
<1>b. Waiting(u) \cap Pending(vs) = {}
  BY <1>0, <1>2
<1>5. /\ Pending(new) = Pending(vs) \cup Waiting(u) /\ Apart(new) /\ Rooted(new)
      /\ new \in Seq(Visits(n))
  BY <1>0, <1>1, <1>4, <1>b, Longer
<1>6. act + 1 \notin Pending(new)
  BY <1>0, <1>2, <1>5
<1>7. Pending(new) \cup {} \cup {act + 1} = (Pending(vs) \cup two) \cup ((1 .. n) \ (1 .. n))
  BY <1>0, <1>2, <1>5
<1>8. act + 1 \in 1 .. n
  BY <1>a DEF Usable
<1> HIDE DEF two
<1>9. Shape(n, lay, vs, act, two)
  BY DEF two
<1>10. Shape(n, AddBasicBlock(lay, act + 1), new, act + 1, {})
  BY <1>0, <1>5, <1>6, <1>7, <1>8, <1>9, BlockLaidOut
<1> QED
  BY <1>10, <1>a, <1>8 DEF new, u

LEMMA InnermostApart ==
  ASSUME NEW n \in Nat, NEW vs \in Seq(Visits(n)), vs # <<>>, Rooted(vs), Apart(vs),
         ~OfFunction(vs[Len(vs)])
  PROVE  LET w == SubSeq(vs, 1, Len(vs) - 1)
             v == vs[Len(vs)]
         IN  /\ w \in Seq(Visits(n)) /\ v \in Visits(n) /\ Len(vs) - 1 = Len(w) /\ Len(w) \in Nat
             /\ Pending(vs) = Pending(w) \cup Waiting(v) /\ Waiting(v) \cap Pending(w) = {}
             /\ Apart(w) /\ Rooted(w) /\ w # <<>>
<1> DEFINE w == SubSeq(vs, 1, Len(vs) - 1)
           v == vs[Len(vs)]
<1>1. w \in Seq(Visits(n)) /\ v \in Visits(n) /\ IsAppend(vs, w, v) /\ Len(vs) = Len(w) + 1
  BY LastOf DEF IsAppend
<1>2. ~OfFunction(v)
  OBVIOUS
<1> HIDE DEF w, v
<1>3. /\ Pending(vs) = Pending(w) \cup Waiting(v) /\ Waiting(v) \cap Pending(w) = {}
      /\ Apart(w) /\ Rooted(w) /\ w # <<>>
  BY <1>1, <1>2, Shorter
<1>4. Len(vs) - 1 = Len(w) /\ Len(w) \in Nat
  BY <1>1
<1> QED
  BY <1>1, <1>3, <1>4 DEF w, v

LEMMA ElseOpened ==
  ASSUME NEW n \in Nat, NEW lay, NEW vs, NEW act, Shape(n, lay, vs, act, {}), vs # <<>>,
         vs[Len(vs)].kind = "if"
  PROVE  LET v == vs[Len(vs)]
         IN  /\ Shape(n, AddBasicBlock(lay, v.first + 1),
                      [vs EXCEPT ![Len(vs)] = Visit("else", v.first, v.first + 1)],
                      v.first + 1, {})
             /\ [vs EXCEPT ![Len(vs)] = Visit("else", v.first, v.first + 1)] # <<>>
             /\ v.first + 2 \in 1 .. n
<1> DEFINE w == SubSeq(vs, 1, Len(vs) - 1)
           v == vs[Len(vs)]
           u == Visit("else", v.first, v.first + 1)
           a == v.first + 1
           c == v.first + 2
           new == [vs EXCEPT ![Len(vs)] = u]
<1>1. /\ vs \in Seq(Visits(n)) /\ Rooted(vs) /\ Apart(vs)
      /\ (1 .. n) \ On(lay) = Pending(vs) /\ Terminal \in On(lay)
  BY OrderedFacts DEF Shape
<1>2. ~OfFunction(v) /\ Waiting(v) = {a, c}
  BY DEF OfFunction, Waiting
<1>3. \A x \in Visits(n) : IsAppend([vs EXCEPT ![Len(vs)] = x], w, x)
  BY <1>1, LastOf DEF IsAppend
<1>4. /\ w \in Seq(Visits(n)) /\ v \in Visits(n)
      /\ Pending(vs) = Pending(w) \cup Waiting(v) /\ Waiting(v) \cap Pending(w) = {}
      /\ Apart(w) /\ Rooted(w) /\ w # <<>>
  BY <1>1, <1>2, InnermostApart
<1>5. v.first \in 1 .. n /\ a # c
  BY <1>4 DEF Visits
<1>6. a \in Usable(n) /\ a \in 1 .. n /\ c \in 1 .. n
  <2> HIDE DEF a, c, v
  <2> QED
    BY <1>1, <1>2, <1>4 DEF Usable
<1>7. u \in Visits(n) /\ ~OfFunction(u) /\ Waiting(u) = {c}
  <2> HIDE DEF v
  <2> QED
    BY <1>5, <1>6 DEF Visit, Visits, Kinds, Waiting, OfFunction
<1>8. IsAppend(new, w, u)
  BY <1>3, <1>7
<1> HIDE DEF new, u, a, c, w, v
<1>9. Waiting(u) \cap Pending(w) = {}
  BY <1>2, <1>4, <1>7
<1>10. /\ Pending(new) = Pending(w) \cup Waiting(u) /\ Apart(new) /\ Rooted(new)
       /\ new \in Seq(Visits(n)) /\ new # <<>>
  BY <1>4, <1>7, <1>8, <1>9, Longer
<1>11. a \notin Pending(new)
  BY <1>2, <1>4, <1>5, <1>7, <1>10
<1>12. Pending(new) \cup {} \cup {a} = (Pending(vs) \cup {}) \cup ((1 .. n) \ (1 .. n))
  BY <1>2, <1>4, <1>7, <1>10
<1>13. Shape(n, AddBasicBlock(lay, a), new, a, {})
  BY <1>6, <1>10, <1>11, <1>12, BlockLaidOut
<1> QED
  BY <1>6, <1>10, <1>13 DEF new, u, a, c, v

\* The visit to which the innermost one gives its last block.
Told(vs, c) == [SubSeq(vs, 1, Len(vs) - 1) EXCEPT ![Len(vs) - 1].endBlock = c]

LEMMA VisitLeft ==
  ASSUME NEW n \in Nat, NEW lay, NEW vs, NEW act, Shape(n, lay, vs, act, {}), vs # <<>>,
         vs[Len(vs)].kind \notin {"function", "if"}
  PROVE  LET c == vs[Len(vs)].first + 2
         IN  /\ Shape(n, AddBasicBlock(lay, c), Told(vs, c), c, {})
             /\ Told(vs, c) # <<>> /\ c \in 1 .. n
<1> DEFINE w == SubSeq(vs, 1, Len(vs) - 1)
           v == vs[Len(vs)]
           k == Len(vs) - 1
           c == v.first + 2
           new == Told(vs, c)
<1>1. /\ vs \in Seq(Visits(n)) /\ Rooted(vs) /\ Apart(vs)
      /\ (1 .. n) \ On(lay) = Pending(vs) /\ Terminal \in On(lay)
  BY OrderedFacts DEF Shape
<1>2. ~OfFunction(v) /\ Waiting(v) = {c}
  BY DEF OfFunction, Waiting
<1>3. /\ w \in Seq(Visits(n)) /\ k = Len(w) /\ Len(w) \in Nat
      /\ Pending(vs) = Pending(w) \cup Waiting(v) /\ Waiting(v) \cap Pending(w) = {}
      /\ Apart(w) /\ Rooted(w) /\ w # <<>>
  BY <1>1, <1>2, InnermostApart
<1>4. new = [w EXCEPT ![k].endBlock = c]
  BY DEF Told
<1> HIDE DEF w, k, c, v, new
<1>5. c \in Usable(n)
  BY <1>1, <1>2, <1>3 DEF Usable
<1>6. k \in 1 .. Len(w) /\ DOMAIN w = 1 .. Len(w) /\ \A i \in 1 .. Len(w) : w[i] \in Visits(n)
  BY <1>3
<1>7. \A i \in 1 .. Len(w) : i # k => new[i] = w[i]
  BY <1>4, <1>6
<1>8. new[k] = [w[k] EXCEPT !.endBlock = c]
  BY <1>4, <1>6, Zenon
<1>9. IsList(new, Len(w))
  BY <1>4, <1>6 DEF IsList
<1>10. /\ new[k] \in Visits(n) /\ Waiting(new[k]) = Waiting(w[k])
       /\ OfFunction(new[k]) <=> OfFunction(w[k])
  <2> DEFINE r == w[k]
  <2> HIDE DEF r
  <2>1. new[k] = [r EXCEPT !.endBlock = c] /\ r \in Visits(n)
    BY <1>6, <1>8 DEF r
  <2>2. new[k] \in Visits(n) /\ new[k].kind = r.kind /\ new[k].first = r.first
    BY <1>5, <2>1 DEF Visits
  <2> QED
    BY <2>2 DEF Waiting, OfFunction, r
<1>11. \A i \in 1 .. Len(w) : new[i] \in Visits(n) /\ Waiting(new[i]) = Waiting(w[i])
  BY <1>6, <1>7, <1>10
<1>12. \A i \in 1 .. Len(w) : OfFunction(new[i]) <=> OfFunction(w[i])
  BY <1>6, <1>7, <1>10
<1>13. new \in Seq(Visits(n)) /\ Len(new) = Len(w)
  BY <1>3, <1>9, <1>11, SeqMade
<1>14. Pending(new) = Pending(w) /\ Apart(new) /\ Rooted(new)
  BY <1>3, <1>11, <1>12, <1>13, PendingSame
<1>15. c \in 1 .. n /\ c \notin Pending(new)
  BY <1>2, <1>3, <1>5, <1>14 DEF Usable
<1>16. Pending(new) \cup {} \cup {c} = (Pending(vs) \cup {}) \cup ((1 .. n) \ (1 .. n))
  BY <1>2, <1>3, <1>14
<1>17. Shape(n, AddBasicBlock(lay, c), new, c, {})
  BY <1>13, <1>14, <1>15, <1>16, BlockLaidOut
<1>18. new # <<>>
  BY <1>3, <1>6, <1>13
<1> QED
  BY <1>15, <1>17, <1>18 DEF new, c, v

LEMMA IterationStarted ==
  ASSUME NEW n \in Nat, NEW lay, NEW vs, NEW act, Shape(n, lay, vs, act, {}), vs # <<>>,
         vs[Len(vs)].kind = "for"
  PROVE  /\ Shape(n, lay, [vs EXCEPT ![Len(vs)].kind = "iterated"], vs[Len(vs)].endBlock, {})
         /\ [vs EXCEPT ![Len(vs)].kind = "iterated"] # <<>>
<1> DEFINE k == Len(vs)
           v == vs[k]
           new == [vs EXCEPT ![k].kind = "iterated"]
<1>1. vs \in Seq(Visits(n)) /\ Rooted(vs) /\ Apart(vs)
  BY DEF Shape
<1>2. /\ k \in 1 .. Len(vs) /\ Len(vs) \in Nat /\ DOMAIN vs = 1 .. Len(vs)
      /\ \A i \in 1 .. Len(vs) : vs[i] \in Visits(n)
  BY <1>1
<1>3. \A i \in 1 .. Len(vs) : i # k => new[i] = vs[i]
  BY <1>2
<1>4. new[k] = [v EXCEPT !.kind = "iterated"]
  BY <1>2, Zenon
<1>5. IsList(new, Len(vs))
  BY <1>2 DEF IsList
<1>6. v \in Visits(n) /\ v.kind = "for"
  BY <1>2
<1> HIDE DEF new, v
<1>7. /\ new[k] \in Visits(n) /\ new[k].kind = "iterated" /\ new[k].first = v.first
      /\ v.endBlock \in Usable(n)
  BY <1>4, <1>6 DEF Visits, Kinds
<1>8. Waiting(new[k]) = Waiting(v) /\ ~OfFunction(new[k]) /\ ~OfFunction(v)
  BY <1>6, <1>7 DEF Waiting, OfFunction
<1>9. \A i \in 1 .. Len(vs) : new[i] \in Visits(n) /\ Waiting(new[i]) = Waiting(vs[i])
  BY <1>2, <1>3, <1>7, <1>8 DEF v
<1>10. \A i \in 1 .. Len(vs) : OfFunction(new[i]) <=> OfFunction(vs[i])
  BY <1>2, <1>3, <1>8 DEF v
<1>11. new \in Seq(Visits(n)) /\ Len(new) = Len(vs)
  BY <1>2, <1>5, <1>9, SeqMade
<1>12. Pending(new) = Pending(vs) /\ Apart(new) /\ Rooted(new)
  BY <1>1, <1>9, <1>10, <1>11, PendingSame
<1>13. new # <<>>
  BY <1>2, <1>11
<1>14. Shape(n, lay, new, v.endBlock, {})
  BY <1>7, <1>11, <1>12 DEF Shape
<1> QED
  BY <1>13, <1>14 DEF new, v

-----------------------------------------------------------------------------
(* Where temporaries are produced and used *)

Spot(bs, b, k) == b \in 1 .. Len(bs) /\ k \in 1 .. Len(bs[b].code)
Produces(bs, t, b, k) == Spot(bs, b, k) /\ t \in bs[b].code[k].result
Uses(bs, t, b, k, m) ==
  /\ Spot(bs, b, k) /\ m \in 1 .. Len(bs[b].code[k].args)
  /\ bs[b].code[k].args[m] = t /\ IsTemporary(t)

\* Every temporary stays in its block.
Tidy(bs) ==
  /\ \A t, b, k, c, l : Produces(bs, t, b, k) /\ Produces(bs, t, c, l) => b = c /\ k = l
  /\ \A t, b, k, m : Uses(bs, t, b, k, m) => \E l : Produces(bs, t, b, l) /\ l < k
  /\ \A t, b, k, m, c, l, o :
       Uses(bs, t, b, k, m) /\ Uses(bs, t, c, l, o) => b = c /\ k = l /\ m = o

\* The temporaries of bs are among the first n.
Named(bs, n) ==
  \A t, b, k : Produces(bs, t, b, k) => t \in Temporaries /\ t.name <= n

\* The temporaries in set are produced in b and not used.
Ready(bs, b, set) ==
  \A t \in set : /\ IsTemporary(t) /\ \E k : Produces(bs, t, b, k)
                 /\ \A c, k, m : ~Uses(bs, t, c, k, m)

\* The instruction in which the code of b ends in new is the only difference.
LEMMA AddsSpots ==
  ASSUME NEW bs \in Seq(Block), NEW b \in 1 .. Len(bs), NEW instr, NEW new, Adds(bs, new, b, instr),
         NEW last1, last1 = Len(bs[b].code) + 1
  PROVE  /\ last1 \in Nat /\ \A c, k : Spot(bs, c, k) => k \in Nat /\ (c = b => k < last1)
         /\ \A c, k : Spot(new, c, k) <=> Spot(bs, c, k) \/ (c = b /\ k = last1)
         /\ \A c, k : Spot(bs, c, k) => new[c].code[k] = bs[c].code[k]
         /\ new[b].code[last1] = instr
<1>1. /\ Len(new) = Len(bs) /\ Len(bs) \in Nat
      /\ \A c \in 1 .. Len(bs) : bs[c].code \in Seq(Instructions)
  BY SeqFacts, BlockFields DEF Adds
<1>2. \A c \in 1 .. Len(bs) : Len(bs[c].code) \in Nat
  BY <1>1, SeqFacts
<1> DEFINE code1 == bs[b].code
<1>3. code1 \in Seq(Instructions) /\ new[b].code = Append(code1, instr)
  BY <1>1 DEF Adds
<1>4. /\ Len(new[b].code) = last1 /\ new[b].code[last1] = instr
      /\ \A k \in 1 .. Len(code1) : new[b].code[k] = code1[k]
  <2> HIDE DEF code1
  <2>1. Len(Append(code1, instr)) = Len(code1) + 1 /\ Len(code1) \in Nat
    BY <1>3
  <2>2. Append(code1, instr)[Len(code1) + 1] = instr
    BY <1>3
  <2>3. \A k \in 1 .. Len(code1) : Append(code1, instr)[k] = code1[k]
    BY <1>3
  <2> QED
    BY <1>3, <2>1, <2>2, <2>3 DEF code1
<1>5. \A c \in 1 .. Len(bs) : c # b => new[c].code = bs[c].code
  BY DEF Adds
<1>6. last1 \in Nat
  BY <1>2
<1>7. ASSUME NEW c, NEW k, Spot(bs, c, k)
      PROVE  /\ k \in Nat /\ (c = b => k < last1)
             /\ Spot(new, c, k) /\ new[c].code[k] = bs[c].code[k]
  <2>1. c \in 1 .. Len(bs) /\ k \in 1 .. Len(bs[c].code) /\ Len(bs[c].code) \in Nat
    BY <1>2, <1>7 DEF Spot
  <2>2. CASE c = b
    BY <1>1, <1>2, <1>4, <2>1, <2>2 DEF Spot
  <2>3. CASE c # b
    BY <1>1, <1>5, <2>1, <2>3 DEF Spot
  <2> QED
    BY <2>2, <2>3
<1>8. ASSUME NEW c, NEW k, Spot(new, c, k)
      PROVE  Spot(bs, c, k) \/ (c = b /\ k = last1)
  <2>1. c \in 1 .. Len(bs) /\ k \in 1 .. Len(new[c].code)
    BY <1>1, <1>8 DEF Spot
  <2>2. CASE c = b
    <3>1. k \in 1 .. last1 /\ Len(bs[c].code) \in Nat
      BY <1>2, <1>4, <2>1, <2>2
    <3> QED
      BY <2>1, <2>2, <3>1 DEF Spot
  <2>3. CASE c # b
    BY <1>5, <2>1, <2>3 DEF Spot
  <2> QED
    BY <2>2, <2>3
<1>9. Spot(new, b, last1)
  BY <1>1, <1>4, <1>6 DEF Spot
<1> QED
  BY <1>4, <1>6, <1>7, <1>8, <1>9

\* An instruction that produces no old temporary, and uses those in set alone.
LEMMA AddsTidy ==
  ASSUME NEW bs \in Seq(Block), NEW b \in 1 .. Len(bs), NEW instr, NEW new, Adds(bs, new, b, instr),
         NEW n \in Nat, Tidy(bs), Named(bs, n), NEW set, Ready(bs, b, set),
         \A t \in instr.result : t = Temporary(n + 1),
         \A i \in 1 .. Len(instr.args) : IsTemporary(instr.args[i]) => instr.args[i] \in set,
         \A i, j \in 1 .. Len(instr.args) :
           IsTemporary(instr.args[i]) /\ instr.args[i] = instr.args[j] => i = j
  PROVE  /\ Tidy(new) /\ Named(new, n + 1)
         /\ instr.result = {} => Named(new, n)
         /\ \A t \in set : (\A i \in 1 .. Len(instr.args) : instr.args[i] # t) => Ready(new, b, {t})
         /\ \A t \in instr.result : Ready(new, b, {t})
<1> DEFINE last1 == Len(bs[b].code) + 1
<1>1. /\ last1 \in Nat /\ \A c, k : Spot(bs, c, k) => k \in Nat /\ (c = b => k < last1)
      /\ \A c, k : Spot(new, c, k) <=> Spot(bs, c, k) \/ (c = b /\ k = last1)
      /\ \A c, k : Spot(bs, c, k) => new[c].code[k] = bs[c].code[k]
      /\ new[b].code[last1] = instr
  BY AddsSpots
<1> HIDE DEF last1
<1> DEFINE New(t, c, k) == c = b /\ k = last1 /\ t \in instr.result
           NewUse(t, c, k, m) == /\ c = b /\ k = last1 /\ m \in 1 .. Len(instr.args)
                                 /\ instr.args[m] = t /\ IsTemporary(t)
<1>2. /\ \A t, c, k : Produces(new, t, c, k) => Produces(bs, t, c, k) \/ New(t, c, k)
      /\ \A t, c, k : Produces(bs, t, c, k) => Produces(new, t, c, k)
      /\ \A t \in instr.result : Produces(new, t, b, last1)
  BY <1>1 DEF Produces
<1>3. \A t, c, k, m : Uses(new, t, c, k, m) => Uses(bs, t, c, k, m) \/ NewUse(t, c, k, m)
  <2> SUFFICES ASSUME NEW t, NEW c, NEW k, NEW m, Uses(new, t, c, k, m)
               PROVE  Uses(bs, t, c, k, m) \/ NewUse(t, c, k, m)
    OBVIOUS
  <2>1. /\ Spot(new, c, k) /\ m \in 1 .. Len(new[c].code[k].args)
        /\ new[c].code[k].args[m] = t /\ IsTemporary(t)
    BY DEF Uses
  <2>2. CASE Spot(bs, c, k)
    <3>1. new[c].code[k] = bs[c].code[k]
      BY <1>1, <2>2
    <3> QED
      BY <2>1, <2>2, <3>1 DEF Uses
  <2>3. CASE c = b /\ k = last1
    <3>1. new[c].code[k] = instr
      BY <1>1, <2>3
    <3> QED
      BY <2>1, <2>3, <3>1
  <2> QED
    BY <1>1, <2>1, <2>2, <2>3
<1>4. \A t, c, k : Produces(bs, t, c, k) => k \in Nat /\ (c = b => k < last1)
  BY <1>1 DEF Produces
<1>5. \A t \in instr.result : \A c, k : ~Produces(bs, t, c, k)
  <2> SUFFICES ASSUME NEW t \in instr.result, NEW c, NEW k, Produces(bs, t, c, k) PROVE FALSE
    OBVIOUS
  <2>1. t.name <= n /\ t = Temporary(n + 1)
    BY DEF Named
  <2> QED
    BY <2>1 DEF Temporary
<1>6. ASSUME NEW t, NEW c, NEW k, NEW m, Uses(bs, t, c, k, m)
      PROVE  t \notin set /\ \E l : Produces(bs, t, c, l) /\ l < k
  BY <1>6 DEF Ready, Tidy
<1>7. \A t, c, k, m : NewUse(t, c, k, m) => t \in set
  OBVIOUS
<1>8. \A t \in set : \E l : Produces(bs, t, b, l) /\ l < last1
  BY <1>4 DEF Ready
<1>9. ASSUME NEW t, NEW c, NEW k, NEW d, NEW l, Produces(new, t, c, k), Produces(new, t, d, l)
      PROVE  c = d /\ k = l
  <2>1. CASE Produces(bs, t, c, k) /\ Produces(bs, t, d, l)
    BY <2>1 DEF Tidy
  <2>2. CASE New(t, c, k) /\ New(t, d, l)
    BY <2>2
  <2>3. CASE New(t, c, k) /\ Produces(bs, t, d, l)
    BY <1>5, <2>3
  <2>4. CASE Produces(bs, t, c, k) /\ New(t, d, l)
    BY <1>5, <2>4
  <2> HIDE DEF New
  <2> QED
    BY <1>2, <1>9, <2>1, <2>2, <2>3, <2>4
<1>10. ASSUME NEW t, NEW c, NEW k, NEW m, Uses(new, t, c, k, m)
       PROVE  \E l : Produces(new, t, c, l) /\ l < k
  <2>1. CASE Uses(bs, t, c, k, m)
    BY <1>2, <1>6, <2>1
  <2>2. CASE NewUse(t, c, k, m)
    <3>1. t \in set /\ c = b /\ k = last1
      BY <2>2
    <3> QED
      BY <1>2, <1>8, <3>1
  <2> HIDE DEF NewUse
  <2> QED
    BY <1>3, <1>10, <2>1, <2>2
<1>11. ASSUME NEW t, NEW c, NEW k, NEW m, NEW d, NEW l, NEW o,
              Uses(new, t, c, k, m), Uses(new, t, d, l, o)
       PROVE  c = d /\ k = l /\ m = o
  <2>1. CASE Uses(bs, t, c, k, m) /\ Uses(bs, t, d, l, o)
    BY <2>1 DEF Tidy
  <2>2. CASE NewUse(t, c, k, m) /\ NewUse(t, d, l, o)
    BY <2>2
  <2>3. CASE NewUse(t, c, k, m) /\ Uses(bs, t, d, l, o)
    BY <1>6, <1>7, <2>3
  <2>4. CASE Uses(bs, t, c, k, m) /\ NewUse(t, d, l, o)
    BY <1>6, <1>7, <2>4
  <2> HIDE DEF NewUse
  <2> QED
    BY <1>3, <1>11, <2>1, <2>2, <2>3, <2>4
<1>12. Tidy(new)
  BY <1>9, <1>10, <1>11 DEF Tidy
<1>13. Named(new, n + 1) /\ (instr.result = {} => Named(new, n))
  <2>1. ASSUME NEW t, NEW c, NEW k, Produces(bs, t, c, k)
        PROVE  t \in Temporaries /\ t.name <= n /\ t.name <= n + 1
    <3>1. t \in Temporaries /\ t.name <= n
      BY <2>1 DEF Named
    <3>2. t.name \in Nat
      BY <3>1 DEF Temporaries
    <3> QED
      BY <3>1, <3>2
  <2>2. ASSUME NEW t, NEW c, NEW k, New(t, c, k)
        PROVE  t \in Temporaries /\ t.name <= n + 1
    <3>1. t = Temporary(n + 1)
      BY <2>2
    <3> QED
      BY <3>1 DEF Temporary, Temporaries
  <2>3. instr.result = {} => \A t, c, k : ~New(t, c, k)
    OBVIOUS
  <2> HIDE DEF New
  <2> QED
    BY <1>2, <2>1, <2>2, <2>3 DEF Named
<1>14. ASSUME NEW t \in set, \A i \in 1 .. Len(instr.args) : instr.args[i] # t
       PROVE  Ready(new, b, {t})
  <2>1. IsTemporary(t) /\ \E k : Produces(new, t, b, k)
    BY <1>2 DEF Ready
  <2>2. \A c, k, m : ~Uses(bs, t, c, k, m) /\ ~NewUse(t, c, k, m)
    BY <1>6, <1>14
  <2> HIDE DEF NewUse
  <2> QED
    BY <1>3, <2>1, <2>2 DEF Ready
<1>15. ASSUME NEW t \in instr.result
       PROVE  Ready(new, b, {t})
  <2>1. IsTemporary(t) /\ \E k : Produces(new, t, b, k)
    <3>1. t = Temporary(n + 1)
      OBVIOUS
    <3> QED
      BY <1>2, <3>1 DEF IsTemporary, Temporary
  <2>2. \A c, k, m : ~Uses(bs, t, c, k, m)
    BY <1>5, <1>6
  <2>3. \A c, k, m : ~NewUse(t, c, k, m)
    BY <1>5, <1>7, <1>8
  <2> HIDE DEF NewUse
  <2> QED
    BY <1>3, <2>1, <2>2, <2>3 DEF Ready
<1> QED
  BY <1>12, <1>13, <1>14, <1>15

\* Only instructions without operands and results are added.
LEMMA JumpsTidy ==
  ASSUME NEW bs, NEW new, NEW n,
         \A c, k : Spot(bs, c, k) => Spot(new, c, k) /\ new[c].code[k] = bs[c].code[k],
         \A c, k : Spot(new, c, k) =>
           Spot(bs, c, k) \/ (new[c].code[k].result = {} /\ new[c].code[k].args = <<>>)
  PROVE  /\ Tidy(bs) => Tidy(new)
         /\ Named(bs, n) => Named(new, n)
         /\ \A b, set : Ready(bs, b, set) => Ready(new, b, set)
<1>1. ASSUME NEW t, NEW c, NEW k
      PROVE  Produces(new, t, c, k) <=> Produces(bs, t, c, k)
  BY DEF Produces
<1>2. ASSUME NEW t, NEW c, NEW k, NEW m, Uses(new, t, c, k, m)
      PROVE  Uses(bs, t, c, k, m)
  <2>1. Spot(new, c, k) /\ m \in 1 .. Len(new[c].code[k].args)
    BY <1>2 DEF Uses
  <2>2. CASE Spot(bs, c, k)
    <3>1. new[c].code[k] = bs[c].code[k]
      BY <2>2
    <3> QED
      BY <1>2, <2>2, <3>1 DEF Uses
  <2>3. CASE new[c].code[k].args = <<>>
    BY <2>1, <2>3
  <2> QED
    BY <2>1, <2>2, <2>3
<1>3. Tidy(bs) => Tidy(new)
  BY <1>1, <1>2 DEF Tidy
<1>4. Named(bs, n) => Named(new, n)
  BY <1>1 DEF Named
<1>5. \A b, set : Ready(bs, b, set) => Ready(new, b, set)
  BY <1>1, <1>2 DEF Ready
<1> QED
  BY <1>3, <1>4, <1>5

\* The temporaries among the values of operands, all of them different.
Owed(vals) == {t \in {vals[i] : i \in 1 .. Len(vals)} : IsTemporary(t)}

Distinct(vals) ==
  \A i, j \in 1 .. Len(vals) : IsTemporary(vals[i]) /\ vals[i] = vals[j] => i = j

\* The temporaries of args are those at the same places of vals.
From(args, vals) ==
  \A i \in 1 .. Len(args) : IsTemporary(args[i]) => i \in 1 .. Len(vals) /\ args[i] = vals[i]

-----------------------------------------------------------------------------
(***************************************************************************)
(* The inductive invariant                                                 *)
(***************************************************************************)
NodeKinds == Simple \cup Constructs \cup {"else", "end", "discard"}
Tokens == Operands \cup Operations \cup {One, Default}
Nodes == [kind : NodeKinds, expr : Seq(Tokens)]

TreeInv ==
  /\ text \in Seq(Nodes) /\ values \in Seq(Values) /\ temps \in Nat
  /\ doing \in Simple \cup Constructs \cup {"discard", Idle}
  /\ doing # Idle => text # <<>>

CodeInv == Sound(blocks)

\* A loop has its three blocks before its visit begins.
Reserved == IF doing \in Loops THEN {active + 1, active + 2} ELSE {}

ShapeInv == Shape(Len(blocks), layout, opened, active, Reserved)

PhaseInv ==
  /\ running \in BOOLEAN /\ at \in Nat \X Nat /\ beat \in BOOLEAN
  /\ running <=> opened = <<>>
  /\ running => doing = Idle

\* The values of the operands visited, and the temporaries in the code.
TempsInv ==
  /\ Tidy(blocks) /\ Named(blocks, temps)
  /\ Ready(blocks, active, Owed(values)) /\ Distinct(values)
  /\ doing = Idle => values = <<>>

IInv == TreeInv /\ CodeInv /\ ShapeInv /\ PhaseInv /\ TempsInv /\ NoFallThrough

\* While the code is generated, the machine waits.
LEMMA Generating ==
  ASSUME IInv, ~running, running' = running, at' = at, beat' = beat,
         TreeInv', TempsInv', Sound(blocks)', ShapeInv', opened' # <<>>
  PROVE  IInv'
<1>1. PhaseInv'
  BY DEF IInv, PhaseInv
<1>2. NoFallThrough'
  BY DEF NoFallThrough
<1> QED
  BY <1>1, <1>2 DEF IInv, CodeInv

\* Instructions in the active block are all that is added to the code.
LEMMA InActiveBlock ==
  ASSUME IInv, ~running, UNCHANGED <<layout, opened, active, running, at, beat>>,
         Reserved' = Reserved, TreeInv', TempsInv', Sound(blocks'), Len(blocks') = Len(blocks)
  PROVE  IInv'
<1>1. ShapeInv'
  BY DEF IInv, ShapeInv
<1>2. opened' # <<>>
  BY DEF IInv, PhaseInv
<1>3. Sound(blocks)'
  BY DEF Sound, Edges
<1> QED
  BY <1>1, <1>2, <1>3, Generating

LEMMA AddNodeTyped ==
  ASSUME NEW s \in Seq(Nodes), NEW kind \in NodeKinds, NEW expr \in Seq(Tokens)
  PROVE  /\ Append(s, [kind |-> kind, expr |-> expr]) \in Seq(Nodes)
         /\ Append(s, [kind |-> kind, expr |-> expr]) # <<>>
<1> DEFINE node == [kind |-> kind, expr |-> expr]
<1>1. node \in Nodes
  BY DEF Nodes
<1> HIDE DEF node, Nodes
<1>2. Append(s, node) \in Seq(Nodes) /\ Append(s, node) # <<>>
  BY <1>1
<1> QED
  BY <1>2 DEF node

LEMMA AddTokenTyped ==
  ASSUME NEW s \in Seq(Nodes), s # <<>>, NEW o \in Tokens
  PROVE  /\ [s EXCEPT ![Len(s)].expr = Append(@, o)] \in Seq(Nodes)
         /\ [s EXCEPT ![Len(s)].expr = Append(@, o)] # <<>>
<1> DEFINE k == Len(s)
           e == Append(s[k].expr, o)
           new == [s EXCEPT ![k].expr = Append(@, o)]
<1>1. /\ k \in 1 .. Len(s) /\ Len(s) \in Nat /\ DOMAIN s = 1 .. Len(s)
      /\ \A i \in 1 .. Len(s) : s[i] \in Nodes
  OBVIOUS
<1>2. s[k].expr \in Seq(Tokens)
  BY <1>1 DEF Nodes
<1>3. e \in Seq(Tokens)
  BY <1>2
<1>4. \A i \in 1 .. Len(s) : i # k => new[i] = s[i]
  BY <1>1
<1>5. new[k] = [s[k] EXCEPT !.expr = e]
  BY <1>1, Zenon
<1>6. IsList(new, Len(s))
  BY <1>1 DEF IsList
<1> HIDE DEF new, e
<1>7. new[k] \in Nodes
  BY <1>1, <1>3, <1>5 DEF Nodes
<1>8. new \in Seq(Nodes) /\ Len(new) = Len(s)
  BY <1>1, <1>4, <1>6, <1>7, SeqMade, ZenonT(30)
<1>9. new # <<>>
  BY <1>1, <1>8
<1> QED
  BY <1>8, <1>9 DEF new

LEMMA InvFacts ==
  ASSUME IInv
  PROVE  /\ Sound(blocks) /\ Len(blocks) \in Nat /\ blocks \in Seq(Block)
         /\ active \in 1 .. Len(blocks) /\ active # Terminal
         /\ Terminal \in 1 .. Len(blocks) /\ Entry \in 1 .. Len(blocks)
         /\ Shape(Len(blocks), layout, opened, active, Reserved)
         /\ On(layout) \subseteq 1 .. Len(blocks) /\ Ordered(layout, Len(blocks))
<1>1. Sound(blocks) /\ blocks \in Seq(Block) /\ Len(blocks) \in Nat
  BY DEF IInv, CodeInv, Sound
<1>2. Shape(Len(blocks), layout, opened, active, Reserved)
  BY DEF IInv, ShapeInv
<1>3. active \in 1 .. Len(blocks) /\ active # Terminal /\ Ordered(layout, Len(blocks))
  BY <1>2 DEF Shape, Usable
<1>4. /\ On(layout) \subseteq 1 .. Len(blocks) /\ Terminal \in On(layout)
      /\ Entry \in On(layout)
  BY <1>1, <1>3, OrderedFacts
<1> QED
  BY <1>1, <1>2, <1>3, <1>4

-----------------------------------------------------------------------------
(* Temporaries, and the values on which a statement has still to act *)

LEMMA SameTemporaries ==
  ASSUME IInv, blocks' = blocks, temps' = temps, values' = <<>>
  PROVE  TempsInv'
<1>1. Tidy(blocks') /\ Named(blocks', temps')
  BY DEF IInv, TempsInv
<1>2. Distinct(values') /\ Owed(values') = {}
  BY DEF Distinct, Owed
<1>3. Ready(blocks', active', {})
  BY DEF Ready
<1> QED
  BY <1>1, <1>2, <1>3 DEF TempsInv

\* The code after a branch or a body, and the three blocks of an if or a loop.
LEMMA CreateBlocksTidy ==
  ASSUME IInv
  PROVE  LET new == CreateBlocks(blocks)
         IN  Tidy(new) /\ Named(new, temps) /\ Ready(new, active, Owed(values))
<1> DEFINE new == CreateBlocks(blocks)
           more == <<NewBlock, NewBlock, NewBlock>>
           n == Len(blocks)
<1>1. blocks \in Seq(Block) /\ n \in Nat
  BY InvFacts
<1>2. more \in Seq(Block) /\ Len(more) = 3 /\ \A i \in 1 .. 3 : more[i].code = <<>>
  <2>1. NewBlock \in Block /\ NewBlock.code = <<>>
    BY DEF NewBlock, Block
  <2> QED
    BY <2>1
<1>3. new = blocks \o more
  BY DEF CreateBlocks
<1> HIDE DEF new, more
<1>4. /\ Len(new) = n + 3
      /\ \A b \in 1 .. n + 3 : new[b] = IF b <= n THEN blocks[b] ELSE more[b - n]
  <2>1. /\ Len(blocks \o more) = Len(blocks) + Len(more)
        /\ \A b \in 1 .. Len(blocks) + Len(more) :
             (blocks \o more)[b] = IF b <= Len(blocks) THEN blocks[b] ELSE more[b - Len(blocks)]
    BY <1>1, <1>2, ConcatProperties
  <2> QED
    BY <1>2, <1>3, <2>1
<1>5. ASSUME NEW c, NEW k, Spot(blocks, c, k)
      PROVE  Spot(new, c, k) /\ new[c].code[k] = blocks[c].code[k]
  <2>1. c \in 1 .. n /\ c \in 1 .. n + 3 /\ c <= n
    BY <1>1, <1>5 DEF Spot
  <2>2. new[c] = blocks[c]
    BY <1>4, <2>1
  <2> QED
    BY <1>4, <1>5, <2>1, <2>2 DEF Spot
<1>6. ASSUME NEW c, NEW k, Spot(new, c, k)
      PROVE  Spot(blocks, c, k)
  <2>1. c \in 1 .. n + 3 /\ k \in 1 .. Len(new[c].code)
    BY <1>4, <1>6 DEF Spot
  <2>2. CASE c <= n
    <3>1. c \in 1 .. n /\ new[c] = blocks[c]
      BY <1>1, <1>4, <2>1, <2>2
    <3> QED
      BY <2>1, <3>1 DEF Spot
  <2>3. CASE ~(c <= n)
    <3>1. c - n \in 1 .. 3 /\ new[c] = more[c - n]
      BY <1>1, <1>4, <2>1, <2>3
    <3>2. new[c].code = <<>>
      BY <1>2, <3>1
    <3> QED
      BY <2>1, <3>2
  <2> QED
    BY <2>2, <2>3
<1>7. Tidy(blocks) /\ Named(blocks, temps) /\ Ready(blocks, active, Owed(values))
  BY DEF IInv, TempsInv
<1>8. Tidy(new) /\ Named(new, temps) /\ Ready(new, active, Owed(values))
  BY <1>5, <1>6, <1>7, JumpsTidy
<1> QED
  BY <1>8 DEF new

LEMMA SpentTemporaries ==
  ASSUME IInv, NEW bs \in {blocks, CreateBlocks(blocks)}, NEW instr,
         Adds(bs, blocks', active, instr), instr.result = {}, From(instr.args, values),
         temps' = temps, values' = <<>>
  PROVE  TempsInv'
<1>1. bs \in Seq(Block) /\ active \in 1 .. Len(bs)
  <2>1. /\ blocks \in Seq(Block) /\ active \in 1 .. Len(blocks) /\ Len(blocks) \in Nat
        /\ Sound(blocks)
    BY InvFacts
  <2>2. CreateBlocks(blocks) \in Seq(Block) /\ Len(CreateBlocks(blocks)) = Len(blocks) + 3
    BY <2>1, CreateBlocksSound DEF Sound
  <2>3. active \in 1 .. Len(CreateBlocks(blocks))
    BY <2>1, <2>2
  <2> QED
    BY <2>1, <2>2, <2>3
<1>2. Tidy(bs) /\ Named(bs, temps) /\ Ready(bs, active, Owed(values)) /\ temps \in Nat
  BY CreateBlocksTidy DEF IInv, TempsInv, TreeInv
<1>3. Distinct(values)
  BY DEF IInv, TempsInv
<1>4. \A t \in instr.result : t = Temporary(temps + 1)
  OBVIOUS
<1>5. \A i \in 1 .. Len(instr.args) : IsTemporary(instr.args[i]) => instr.args[i] \in Owed(values)
  BY DEF From, Owed
<1>6. \A i, j \in 1 .. Len(instr.args) :
        IsTemporary(instr.args[i]) /\ instr.args[i] = instr.args[j] => i = j
  BY <1>3 DEF From, Distinct
<1>7. Tidy(blocks') /\ (instr.result = {} => Named(blocks', temps))
  BY <1>1, <1>2, <1>4, <1>5, <1>6, AddsTidy
<1>8. Distinct(values') /\ Owed(values') = {}
  BY DEF Distinct, Owed
<1>9. Ready(blocks', active', {})
  BY DEF Ready
<1> QED
  BY <1>7, <1>8, <1>9 DEF TempsInv

\* A jump from any block, between two statements.
LEMMA JumpTemporaries ==
  ASSUME IInv, NEW b \in 1 .. Len(blocks), NEW c, Adds(blocks, blocks', b, Jump(c)),
         temps' = temps, values' = <<>>
  PROVE  TempsInv'
<1> DEFINE instr == Jump(c)
<1>1. instr.result = {} /\ instr.args = <<>>
  BY DEF Jump, Instruction
<1> HIDE DEF instr
<1>2. blocks \in Seq(Block)
  BY InvFacts
<1>3. Tidy(blocks) /\ Named(blocks, temps) /\ temps \in Nat /\ Ready(blocks, b, {})
  BY DEF IInv, TempsInv, TreeInv, Ready
<1>4. /\ \A t \in instr.result : t = Temporary(temps + 1)
      /\ \A i \in 1 .. Len(instr.args) : FALSE
  BY <1>1
<1>5. Tidy(blocks') /\ (instr.result = {} => Named(blocks', temps))
  <2>1. \A i \in 1 .. Len(instr.args) : IsTemporary(instr.args[i]) => instr.args[i] \in {}
    BY <1>4
  <2>2. \A i, j \in 1 .. Len(instr.args) :
          IsTemporary(instr.args[i]) /\ instr.args[i] = instr.args[j] => i = j
    BY <1>4
  <2>3. \A t \in instr.result : t = Temporary(temps + 1)
    BY <1>4
  <2> QED
    BY <1>2, <1>3, <2>1, <2>2, <2>3, AddsTidy DEF instr
<1>6. Distinct(values') /\ Owed(values') = {}
  BY DEF Distinct, Owed
<1>7. Ready(blocks', active', {})
  BY DEF Ready
<1> QED
  BY <1>1, <1>5, <1>6, <1>7 DEF TempsInv

-----------------------------------------------------------------------------
(* Expressions *)

\* A value that is pushed joins those on which the statement has to act.
LEMMA PushFacts ==
  ASSUME NEW vals \in Seq(Values), NEW v \in Values
  PROVE  /\ Len(Append(vals, v)) = Len(vals) + 1 /\ Len(vals) \in Nat
         /\ Append(vals, v)[Len(vals) + 1] = v
         /\ \A i \in 1 .. Len(vals) : Append(vals, v)[i] = vals[i]
<1> HIDE DEF Values
<1> QED
  OBVIOUS

LEMMA PushOperand ==
  ASSUME NEW vals \in Seq(Values), NEW v \in Values, ~IsTemporary(v), Distinct(vals)
  PROVE  Owed(Append(vals, v)) \subseteq Owed(vals) /\ Distinct(Append(vals, v))
<1> DEFINE more == Append(vals, v)
<1>1. /\ Len(more) = Len(vals) + 1 /\ Len(vals) \in Nat /\ more[Len(vals) + 1] = v
      /\ \A i \in 1 .. Len(vals) : more[i] = vals[i]
  BY PushFacts
<1> HIDE DEF more
<1>2. \A i \in 1 .. Len(more) : IsTemporary(more[i]) => i \in 1 .. Len(vals) /\ more[i] = vals[i]
  BY <1>1
<1>3. Owed(more) \subseteq Owed(vals)
  BY <1>2 DEF Owed
<1>4. Distinct(more)
  BY <1>2 DEF Distinct
<1> QED
  BY <1>3, <1>4 DEF more

LEMMA PushTemporary ==
  ASSUME NEW vals \in Seq(Values), NEW t \in Values, t \notin Owed(vals), Distinct(vals)
  PROVE  Owed(Append(vals, t)) \subseteq Owed(vals) \cup {t} /\ Distinct(Append(vals, t))
<1> DEFINE more == Append(vals, t)
<1>1. /\ Len(more) = Len(vals) + 1 /\ Len(vals) \in Nat /\ more[Len(vals) + 1] = t
      /\ \A i \in 1 .. Len(vals) : more[i] = vals[i]
  BY PushFacts
<1> HIDE DEF more
<1>2. \A i \in 1 .. Len(more) :
        \/ i \in 1 .. Len(vals) /\ more[i] = vals[i]
        \/ i = Len(vals) + 1 /\ more[i] = t
  <2> SUFFICES ASSUME NEW i \in 1 .. Len(more), i # Len(vals) + 1
               PROVE  i \in 1 .. Len(vals)
    BY <1>1
  <2>1. i \in 1 .. Len(vals) + 1
    BY <1>1
  <2> QED
    BY <1>1, <2>1
<1>3. Owed(more) \subseteq Owed(vals) \cup {t}
  BY <1>2 DEF Owed
<1>4. \A i \in 1 .. Len(vals) : IsTemporary(vals[i]) => vals[i] # t
  BY DEF Owed
<1>5. Distinct(more)
  <2> SUFFICES ASSUME NEW i \in 1 .. Len(more), NEW j \in 1 .. Len(more),
                      IsTemporary(more[i]), more[i] = more[j]
               PROVE  i = j
    BY DEF Distinct
  <2>1. CASE i \in 1 .. Len(vals) /\ j \in 1 .. Len(vals)
    BY <1>1, <2>1 DEF Distinct
  <2>2. CASE i = Len(vals) + 1 /\ j = Len(vals) + 1
    BY <2>2
  <2> QED
    BY <1>1, <1>2, <1>4, <2>1, <2>2
<1> QED
  BY <1>3, <1>5 DEF more

\* The last m of the values are taken by an operation, the rest is left.
LEMMA PopFacts ==
  ASSUME NEW vals \in Seq(Values), NEW m \in Nat, m <= Len(vals), Distinct(vals)
  PROVE  LET k == Len(vals) - m
             args == SubSeq(vals, k + 1, Len(vals))
             rest == SubSeq(vals, 1, k)
         IN  /\ \A i \in 1 .. Len(args) : IsTemporary(args[i]) => args[i] \in Owed(vals)
             /\ \A i, j \in 1 .. Len(args) : IsTemporary(args[i]) /\ args[i] = args[j] => i = j
             /\ Distinct(rest) /\ Owed(rest) \subseteq Owed(vals)
             /\ \A t \in Owed(rest) : \A i \in 1 .. Len(args) : args[i] # t
<1> DEFINE k == Len(vals) - m
           args == SubSeq(vals, k + 1, Len(vals))
           rest == SubSeq(vals, 1, k)
<1>1. Len(vals) \in Nat /\ k \in Nat /\ k <= Len(vals)
  BY SeqFacts
<1> HIDE DEF k
<1>2. Len(args) = Len(vals) - k /\ \A i \in 1 .. Len(args) : args[i] = vals[k + i]
  <2>1. \A i \in (k + 1) .. Len(vals) : vals[i] \in Values
    <3>1. \A i \in (k + 1) .. Len(vals) : i \in 1 .. Len(vals)
      BY <1>1
    <3> HIDE DEF Values
    <3> QED
      BY <3>1
  <2> HIDE DEF Values
  <2>2. /\ Len(args) = Len(vals) - (k + 1) + 1
        /\ \A i \in 1 .. Len(vals) - (k + 1) + 1 : args[i] = vals[k + 1 + i - 1]
    <3>1. k + 1 \in Int /\ Len(vals) \in Int
      BY <1>1
    <3> DEFINE a == k + 1
               b == Len(vals)
    <3>2. a \in Int /\ b \in Int /\ \A i \in a .. b : vals[i] \in Values
      BY <2>1, <3>1
    <3>3. a <= b + 1
      BY <1>1
    <3> HIDE DEF a, b
    <3>4. /\ Len(SubSeq(vals, a, b)) = IF a <= b THEN b - a + 1 ELSE 0
          /\ \A i \in 1 .. b - a + 1 : SubSeq(vals, a, b)[i] = vals[a + i - 1]
      BY <3>2, SubSeqProperties
    <3>5. Len(SubSeq(vals, a, b)) = b - a + 1
      BY <3>2, <3>3, <3>4
    <3> QED
      BY <3>4, <3>5 DEF a, b
  <2> QED
    BY <1>1, <2>2
<1>3. Len(rest) = k /\ \A i \in 1 .. k : rest[i] = vals[i]
  <2>1. \A i \in 1 .. k : vals[i] \in Values
    <3>1. \A i \in 1 .. k : i \in 1 .. Len(vals)
      BY <1>1
    <3> HIDE DEF Values
    <3> QED
      BY <3>1
  <2> HIDE DEF Values
  <2>2. /\ Len(rest) = IF 1 <= k THEN k - 1 + 1 ELSE 0
        /\ \A i \in 1 .. k - 1 + 1 : rest[i] = vals[1 + i - 1]
    BY <1>1, <2>1, SubSeqProperties
  <2> QED
    BY <1>1, <2>2
<1> HIDE DEF args, rest
<1>4. \A i \in 1 .. Len(args) : k + i \in 1 .. Len(vals)
  BY <1>1, <1>2
<1>5. \A i \in 1 .. k : i \in 1 .. Len(vals)
  BY <1>1
<1>6. \A i \in 1 .. Len(args) : IsTemporary(args[i]) => args[i] \in Owed(vals)
  BY <1>2, <1>4 DEF Owed
<1>7. ASSUME NEW i \in 1 .. Len(args), NEW j \in 1 .. Len(args), IsTemporary(args[i]), args[i] = args[j]
      PROVE  i = j
  <2>1. k + i = k + j
    BY <1>2, <1>4, <1>7 DEF Distinct
  <2> QED
    BY <1>1, <1>2, <2>1
<1>8. Distinct(rest) /\ Owed(rest) \subseteq Owed(vals)
  BY <1>3, <1>5 DEF Distinct, Owed
<1>9. ASSUME NEW t \in Owed(rest), NEW i \in 1 .. Len(args), args[i] = t
      PROVE  FALSE
  <2>1. PICK j \in 1 .. k : rest[j] = t /\ IsTemporary(t)
    BY <1>3 DEF Owed
  <2>2. j = k + i
    BY <1>2, <1>3, <1>4, <1>5, <1>9, <2>1 DEF Distinct
  <2> QED
    BY <1>1, <1>2, <2>2
<1> QED
  BY <1>6, <1>7, <1>8, <1>9 DEF args, rest, k

LEMMA VisitOperandKeeps ==
  ASSUME IInv, NEW o \in Operands, VisitOperand(o)
  PROVE  IInv'
<1>1. /\ ~running /\ UNCHANGED <<layout, opened, active, running, at, beat, doing, blocks, temps>>
      /\ AddToken(o) /\ values' = Append(values, Variable(o)) /\ doing # Idle
  BY DEF VisitOperand, InExpression, code, machine
<1>2. text' \in Seq(Nodes) /\ text' # <<>>
  BY <1>1, AddTokenTyped DEF AddToken, IInv, TreeInv, Tokens
<1>3. Variable(o) \in Values
  BY DEF Variable, Values
<1>4. TreeInv'
  <2>1. values' \in Seq(Values)
    <3> HIDE DEF Values
    <3> QED
      BY <1>1, <1>3 DEF IInv, TreeInv
  <2> QED
    BY <1>1, <1>2, <2>1 DEF IInv, TreeInv
<1>5. Reserved' = Reserved
  BY <1>1 DEF Reserved
<1>6. Sound(blocks') /\ Len(blocks') = Len(blocks)
  BY <1>1 DEF IInv, CodeInv
<1>7. TempsInv'
  <2>1. values \in Seq(Values) /\ ~IsTemporary(Variable(o))
    BY DEF IInv, TreeInv, IsTemporary, Variable
  <2>2. Owed(values') \subseteq Owed(values) /\ Distinct(values')
    BY <1>1, <1>3, <2>1, PushOperand DEF IInv, TempsInv
  <2>3. Ready(blocks', active', Owed(values'))
    BY <1>1, <2>2 DEF IInv, TempsInv, Ready
  <2> QED
    BY <1>1, <2>2, <2>3 DEF IInv, TempsInv
<1> QED
  BY <1>1, <1>4, <1>5, <1>6, <1>7, InActiveBlock

LEMMA TemporaryTyped ==
  ASSUME NEW n \in Nat
  PROVE  Temporary(n + 1) \in Temporaries /\ Temporary(n + 1) \in Values
  BY DEF Temporary, Temporaries, Values

LEMMA SubSeqTyped ==
  ASSUME NEW S, NEW s \in Seq(S), NEW m \in Int, NEW n \in Int, 1 <= m, n <= Len(s)
  PROVE  SubSeq(s, m, n) \in Seq(S)
<1>1. \A i \in m .. n : s[i] \in S
  <2>1. \A i \in m .. n : i \in 1 .. Len(s)
    OBVIOUS
  <2> QED
    BY <2>1
<1> QED
  BY <1>1, SubSeqProperties

LEMMA VisitOperationKeeps ==
  ASSUME IInv, NEW o \in Operations, VisitOperation(o)
  PROVE  IInv'
<1> DEFINE args == Arguments(Arity[o])
           rest == SubSeq(values, 1, Len(values) - Arity[o])
           t == Temporary(temps + 1)
           place == <<Here, NextToken>>
<1>1. /\ ~running /\ UNCHANGED <<layout, opened, active, running, at, beat, doing>>
      /\ AddToken(o) /\ doing # Idle /\ temps' = temps + 1
      /\ values' = Append(rest, t)
      /\ blocks' = AddInstruction(blocks, active, Operation(o, args, t, place))
      /\ Arity[o] <= Len(values)
  BY DEF VisitOperation, InExpression, machine
<1>2. /\ text' \in Seq(Nodes) /\ text' # <<>>
  BY <1>1, AddTokenTyped DEF AddToken, IInv, TreeInv, Tokens
<1>3. /\ values \in Seq(Values) /\ Len(values) \in Nat /\ Arity[o] \in Nat /\ temps \in Nat
      /\ text \in Seq(Nodes) /\ text # <<>>
  <2>1. values \in Seq(Values) /\ temps \in Nat /\ text \in Seq(Nodes) /\ text # <<>>
    BY <1>1 DEF IInv, TreeInv
  <2>2. Arity[o] \in Nat
    BY OperationsAssumption
  <2> QED
    BY <2>1, <2>2, SeqFacts
<1>4. args \in Seq(Values)
  <2>1. Len(values) - Arity[o] + 1 \in Int /\ 1 <= Len(values) - Arity[o] + 1
    BY <1>1, <1>3
  <2> QED
    BY <1>3, <2>1, SubSeqTyped DEF Arguments
<1>5. rest \in Seq(Values)
  <2>1. Len(values) - Arity[o] \in Int /\ Len(values) - Arity[o] <= Len(values)
    BY <1>1, <1>3
  <2> QED
    BY <1>3, <2>1, SubSeqTyped
<1>6. t \in Temporaries /\ t \in Values
  BY <1>3, TemporaryTyped
<1>7. place \in Places
  <2>1. Len(text) \in 1 .. Len(text) /\ text[Len(text)] \in Nodes /\ Len(text) \in Nat
    <3> HIDE DEF Nodes
    <3> QED
      BY <1>3
  <2>2. text[Len(text)].expr \in Seq(Tokens)
    BY <2>1 DEF Nodes
  <2>3. Len(text[Len(text)].expr) + 1 \in Nat
    BY <2>2
  <2> QED
    BY <2>1, <2>3 DEF Places, Here, NextToken
<1> HIDE DEF args, rest, t, place
<1>8. TreeInv'
  <2>1. values' \in Seq(Values)
    <3> HIDE DEF Values
    <3> QED
      BY <1>1, <1>5, <1>6
  <2> QED
    BY <1>1, <1>2, <1>3, <2>1 DEF IInv, TreeInv
<1>9. Sound(blocks) /\ active \in 1 .. Len(blocks) /\ active # Terminal
  BY InvFacts
<1>10. /\ Operation(o, args, t, place) \in Instructions
       /\ Leads(active, Operation(o, args, t, place)) = {}
  BY <1>4, <1>6, <1>7, <1>9, OperationTyped
<1>11. Sound(blocks') /\ Len(blocks') = Len(blocks)
  BY <1>1, <1>9, <1>10, PlainSound
<1>12. Reserved' = Reserved
  BY <1>1 DEF Reserved
<1>13. TempsInv'
  <2> DEFINE instr == Operation(o, args, t, place)
  <2>1. instr.result = {t} /\ instr.args = args /\ Adds(blocks, blocks', active, instr)
    BY <1>1, <1>9, <1>10, PlainSound DEF Operation, Instruction
  <2> HIDE DEF instr
  <2>2. /\ \A i \in 1 .. Len(args) : IsTemporary(args[i]) => args[i] \in Owed(values)
        /\ \A i, j \in 1 .. Len(args) : IsTemporary(args[i]) /\ args[i] = args[j] => i = j
        /\ Distinct(rest) /\ Owed(rest) \subseteq Owed(values)
        /\ \A x \in Owed(rest) : \A i \in 1 .. Len(args) : args[i] # x
    BY <1>1, <1>3, PopFacts DEF args, rest, Arguments, IInv, TempsInv
  <2>3. /\ blocks \in Seq(Block) /\ Tidy(blocks) /\ Named(blocks, temps)
        /\ Ready(blocks, active, Owed(values))
    BY <1>9 DEF IInv, TempsInv, Sound
  <2>4. /\ Tidy(blocks') /\ Named(blocks', temps + 1)
        /\ \A x \in Owed(values) :
             (\A i \in 1 .. Len(instr.args) : instr.args[i] # x) => Ready(blocks', active, {x})
        /\ \A x \in instr.result : Ready(blocks', active, {x})
    <3>1. \A x \in instr.result : x = Temporary(temps + 1)
      BY <2>1 DEF t
    <3>2. \A i \in 1 .. Len(instr.args) :
            IsTemporary(instr.args[i]) => instr.args[i] \in Owed(values)
      BY <2>1, <2>2
    <3>3. \A i, j \in 1 .. Len(instr.args) :
            IsTemporary(instr.args[i]) /\ instr.args[i] = instr.args[j] => i = j
      BY <2>1, <2>2
    <3> QED
      BY <1>3, <1>9, <2>1, <2>3, <3>1, <3>2, <3>3, AddsTidy, ZenonT(60)
  <2>5. \A x \in Owed(rest) \cup {t} : Ready(blocks', active, {x})
    BY <2>1, <2>2, <2>4
  <2>6. Ready(blocks', active, Owed(rest) \cup {t})
    BY <2>5 DEF Ready
  <2>7. t \notin Owed(rest)
    <3>1. ASSUME t \in Owed(values) PROVE FALSE
      <4>1. PICK k : Produces(blocks, t, active, k)
        BY <2>3, <3>1 DEF Ready
      <4>2. t.name <= temps /\ t = Temporary(temps + 1)
        BY <2>3, <4>1 DEF Named, t
      <4> QED
        BY <1>3, <4>2 DEF Temporary
    <3> QED
      BY <2>2, <3>1
  <2>8. Owed(values') \subseteq Owed(rest) \cup {t} /\ Distinct(values')
    BY <1>1, <1>5, <1>6, <2>2, <2>7, PushTemporary
  <2>9. Ready(blocks', active', Owed(values'))
    BY <1>1, <2>6, <2>8 DEF Ready
  <2> QED
    BY <1>1, <2>4, <2>8, <2>9 DEF TempsInv
<1> QED
  BY <1>1, <1>8, <1>11, <1>12, <1>13, InActiveBlock

-----------------------------------------------------------------------------
(* Statements that create no blocks *)

LEMMA BeginsTree ==
  ASSUME IInv, NEW kind \in Simple \cup Constructs, Begins(kind)
  PROVE  /\ ~running /\ doing = Idle /\ opened # <<>> /\ doing' = kind /\ values = <<>> /\ values' = <<>>
         /\ text' \in Seq(Nodes) /\ text' # <<>>
<1>1. /\ ~running /\ doing = Idle /\ opened # <<>> /\ doing' = kind /\ values' = values
      /\ text' = Append(text, [kind |-> kind, expr |-> <<>>])
  BY DEF Begins, Between, AddNode
<1>2. kind \in NodeKinds /\ <<>> \in Seq(Tokens) /\ text \in Seq(Nodes)
  BY DEF NodeKinds, IInv, TreeInv
<1>3. values = <<>>
  BY <1>1 DEF IInv, TempsInv
<1> QED
  BY <1>1, <1>2, <1>3, AddNodeTyped

LEMMA CompleteTree ==
  ASSUME IInv, NEW kind, Complete(kind)
  PROVE  /\ ~running /\ doing = kind /\ doing # Idle /\ doing' = Idle /\ values' = <<>>
         /\ text \in Seq(Nodes) /\ text # <<>> /\ values \in Seq(Values)
         /\ <<Here, 0>> \in Places
<1>1. ~running /\ doing = kind /\ doing # Idle /\ doing' = Idle /\ values' = <<>>
  BY DEF Complete, InExpression
<1>2. text \in Seq(Nodes) /\ text # <<>> /\ values \in Seq(Values)
  BY <1>1 DEF IInv, TreeInv
<1>3. Len(text) \in Nat
  BY <1>2, SeqFacts
<1> QED
  BY <1>1, <1>2, <1>3 DEF Here, Places

LEMMA StartSimpleKeeps ==
  ASSUME IInv, NEW kind, StartSimple(kind)
  PROVE  IInv'
<1>1. /\ kind \in Simple \ {"declare"} /\ Begins(kind)
      /\ UNCHANGED <<layout, opened, active, running, at, beat, blocks, temps>>
  BY DEF StartSimple, code, machine
<1>2. /\ ~running /\ doing = Idle /\ doing' = kind /\ values' = <<>>
      /\ text' \in Seq(Nodes) /\ text' # <<>>
  BY <1>1, BeginsTree
<1>3. Reserved' = Reserved
  BY <1>1, <1>2 DEF Reserved, Loops, Simple, Idle
<1>4. TreeInv'
  BY <1>1, <1>2 DEF IInv, TreeInv
<1>5. Sound(blocks') /\ Len(blocks') = Len(blocks)
  BY <1>1 DEF IInv, CodeInv
<1> QED
  BY <1>1, <1>2, <1>3, <1>4, <1>5, SameTemporaries, InActiveBlock

LEMMA StartIfKeeps ==
  ASSUME IInv, StartIf
  PROVE  IInv'
<1>1. /\ Begins("if") /\ "if" \in Simple \cup Constructs
      /\ UNCHANGED <<layout, opened, active, running, at, beat, blocks, temps>>
  BY DEF StartIf, code, machine, Constructs
<1>2. /\ ~running /\ doing = Idle /\ doing' = "if" /\ values' = <<>>
      /\ text' \in Seq(Nodes) /\ text' # <<>>
  BY <1>1, BeginsTree
<1>3. Reserved' = Reserved
  BY <1>1, <1>2 DEF Reserved, Loops, Idle
<1>4. TreeInv'
  BY <1>1, <1>2 DEF IInv, TreeInv
<1>5. Sound(blocks') /\ Len(blocks') = Len(blocks)
  BY <1>1 DEF IInv, CodeInv
<1> QED
  BY <1>1, <1>2, <1>3, <1>4, <1>5, SameTemporaries, InActiveBlock

LEMMA StartDeclarationKeeps ==
  ASSUME IInv, StartDeclaration
  PROVE  IInv'
<1>1. /\ Begins("declare") /\ "declare" \in Simple \cup Constructs
      /\ blocks' = AddInstruction(blocks, active, Declaration)
      /\ UNCHANGED <<layout, opened, active, running, at, beat, temps>>
  BY DEF StartDeclaration, machine, Simple
<1>2. /\ ~running /\ doing = Idle /\ doing' = "declare" /\ values' = <<>>
      /\ text' \in Seq(Nodes) /\ text' # <<>>
  BY <1>1, BeginsTree
<1>3. Reserved' = Reserved
  BY <1>1, <1>2 DEF Reserved, Loops, Idle
<1>4. TreeInv'
  BY <1>1, <1>2 DEF IInv, TreeInv
<1>5. Sound(blocks) /\ active \in 1 .. Len(blocks) /\ active # Terminal
  BY InvFacts
<1>6. Declaration \in Instructions /\ Leads(active, Declaration) = {}
  BY <1>5, DeclarationTyped
<1>7. Sound(blocks') /\ Len(blocks') = Len(blocks) /\ Adds(blocks, blocks', active, Declaration)
  BY <1>1, <1>5, <1>6, PlainSound
<1>8. TempsInv'
  <2>1. Declaration.result = {} /\ From(Declaration.args, values)
    BY DEF Declaration, Instruction, From
  <2> QED
    BY <1>1, <1>2, <1>7, <2>1, SpentTemporaries
<1> QED
  BY <1>1, <1>2, <1>3, <1>4, <1>7, <1>8, InActiveBlock

\* The end of the expression of a statement that creates no blocks.
LEMMA Completes ==
  ASSUME IInv, NEW kind, Complete(kind), kind \notin Loops,
         UNCHANGED <<layout, opened, active, running, at, beat, temps>>,
         text' \in Seq(Nodes), TempsInv', Sound(blocks'), Len(blocks') = Len(blocks)
  PROVE  IInv'
<1>1. ~running /\ doing = kind /\ doing' = Idle /\ values' = <<>>
  BY CompleteTree
<1>2. Reserved' = Reserved
  BY <1>1 DEF Reserved, Loops, Idle
<1>3. TreeInv'
  BY <1>1 DEF IInv, TreeInv
<1> QED
  BY <1>1, <1>2, <1>3, InActiveBlock

LEMMA EndAssignKeeps ==
  ASSUME IInv, NEW kind, EndAssign(kind)
  PROVE  IInv'
<1> DEFINE v == values[1]
           place == <<Here, 0>>
<1>1. /\ kind \notin Loops /\ Complete(kind) /\ Len(values) = 1
      /\ blocks' = AddInstruction(blocks, active, Assign(v, place))
      /\ UNCHANGED <<text, layout, opened, active, running, at, beat, temps>>
  BY DEF EndAssign, machine, Loops
<1>2. text \in Seq(Nodes) /\ values \in Seq(Values) /\ place \in Places
  BY <1>1, CompleteTree
<1>3. v \in Values
  <2>1. 1 \in 1 .. Len(values)
    BY <1>1
  <2> QED
    BY <1>2, <2>1, SeqFacts
<1> HIDE DEF v, place
<1>4. Sound(blocks) /\ active \in 1 .. Len(blocks) /\ active # Terminal
  BY InvFacts
<1>5. Assign(v, place) \in Instructions /\ Leads(active, Assign(v, place)) = {}
  BY <1>2, <1>3, <1>4, AssignTyped
<1>6. Sound(blocks') /\ Len(blocks') = Len(blocks) /\ Adds(blocks, blocks', active, Assign(v, place))
  BY <1>1, <1>4, <1>5, PlainSound
<1>7. text' \in Seq(Nodes)
  BY <1>1, <1>2
<1>8. TempsInv'
  <2>1. Assign(v, place).result = {} /\ From(Assign(v, place).args, values)
    BY <1>1 DEF Assign, Instruction, From, v
  <2>2. values' = <<>>
    BY <1>1, CompleteTree
  <2> QED
    BY <1>1, <1>6, <2>1, <2>2, SpentTemporaries
<1> QED
  BY <1>1, <1>6, <1>7, <1>8, Completes

LEMMA EndDeclarationKeeps ==
  ASSUME IInv, EndDeclaration
  PROVE  IInv'
<1> DEFINE v == Variable(Default)
           place == <<Here, 0>>
<1>1. /\ "declare" \notin Loops /\ Complete("declare") /\ AddToken(Default)
      /\ blocks' = AddInstruction(blocks, active, Assign(v, place))
      /\ UNCHANGED <<layout, opened, active, running, at, beat, temps>>
  BY DEF EndDeclaration, machine, Loops
<1>2. text \in Seq(Nodes) /\ text # <<>> /\ place \in Places
  BY <1>1, CompleteTree
<1>3. v \in Values
  BY DEF Variable, Values
<1> HIDE DEF v, place
<1>4. Sound(blocks) /\ active \in 1 .. Len(blocks) /\ active # Terminal
  BY InvFacts
<1>5. Assign(v, place) \in Instructions /\ Leads(active, Assign(v, place)) = {}
  BY <1>2, <1>3, <1>4, AssignTyped
<1>6. Sound(blocks') /\ Len(blocks') = Len(blocks) /\ Adds(blocks, blocks', active, Assign(v, place))
  BY <1>1, <1>4, <1>5, PlainSound
<1>7. text' \in Seq(Nodes)
  BY <1>1, <1>2, AddTokenTyped DEF AddToken, Tokens
<1>8. TempsInv'
  <2>1. Assign(v, place).result = {} /\ From(Assign(v, place).args, values)
    BY DEF Assign, Instruction, From, v, Variable, IsTemporary
  <2>2. values' = <<>>
    BY <1>1, CompleteTree
  <2> QED
    BY <1>1, <1>6, <2>1, <2>2, SpentTemporaries
<1> QED
  BY <1>1, <1>6, <1>7, <1>8, Completes

LEMMA EndCallKeeps ==
  ASSUME IInv, EndCall
  PROVE  IInv'
<1> DEFINE place == <<Here, 0>>
<1>1. /\ "call" \notin Loops /\ Complete("call")
      /\ blocks' = AddInstruction(blocks, active, Call(values, place))
      /\ UNCHANGED <<text, layout, opened, active, running, at, beat, temps>>
  BY DEF EndCall, machine, Loops
<1>2. text \in Seq(Nodes) /\ values \in Seq(Values) /\ place \in Places
  BY <1>1, CompleteTree
<1> HIDE DEF place
<1>3. Sound(blocks) /\ active \in 1 .. Len(blocks) /\ active # Terminal
  BY InvFacts
<1>4. Call(values, place) \in Instructions /\ Leads(active, Call(values, place)) = {}
  BY <1>2, <1>3, CallTyped
<1>5. Sound(blocks') /\ Len(blocks') = Len(blocks) /\ Adds(blocks, blocks', active, Call(values, place))
  BY <1>1, <1>3, <1>4, PlainSound
<1>6. text' \in Seq(Nodes)
  BY <1>1, <1>2
<1>7. TempsInv'
  <2>1. Call(values, place).result = {} /\ From(Call(values, place).args, values)
    BY DEF Call, Instruction, From
  <2>2. values' = <<>>
    BY <1>1, CompleteTree
  <2> QED
    BY <1>1, <1>5, <2>1, <2>2, SpentTemporaries
<1> QED
  BY <1>1, <1>5, <1>6, <1>7, Completes

LEMMA EndReturnKeeps ==
  ASSUME IInv, EndReturn
  PROVE  IInv'
<1> DEFINE place == <<Here, 0>>
<1>1. /\ "return" \notin Loops /\ Complete("return")
      /\ blocks' = CreateReturn(blocks, active, values, place)
      /\ UNCHANGED <<text, layout, opened, active, running, at, beat, temps>>
  BY DEF EndReturn, machine, Loops
<1>2. text \in Seq(Nodes) /\ values \in Seq(Values) /\ place \in Places
  BY <1>1, CompleteTree
<1> HIDE DEF place
<1>3. Sound(blocks) /\ active \in 1 .. Len(blocks) /\ active # Terminal
  BY InvFacts
<1>4. Sound(blocks') /\ Len(blocks') = Len(blocks) /\ Adds(blocks, blocks', active, Return(values, place))
  BY <1>1, <1>2, <1>3, ReturnSound
<1>5. text' \in Seq(Nodes)
  BY <1>1, <1>2
<1>6. TempsInv'
  <2>1. Return(values, place).result = {} /\ From(Return(values, place).args, values)
    BY DEF Return, Instruction, From
  <2>2. values' = <<>>
    BY <1>1, CompleteTree
  <2> QED
    BY <1>1, <1>4, <2>1, <2>2, SpentTemporaries
<1> QED
  BY <1>1, <1>4, <1>5, <1>6, Completes

LEMMA EndDiscardKeeps ==
  ASSUME IInv, EndDiscard
  PROVE  IInv'
<1>1. /\ "discard" \notin Loops /\ Complete("discard")
      /\ UNCHANGED <<text, layout, opened, active, running, at, beat, temps, blocks>>
  BY DEF EndDiscard, machine, code, Loops
<1>2. text' \in Seq(Nodes) /\ Sound(blocks') /\ Len(blocks') = Len(blocks)
  BY <1>1 DEF IInv, TreeInv, CodeInv
<1>3. TempsInv'
  <2>1. values' = <<>>
    BY <1>1, CompleteTree
  <2> QED
    BY <1>1, <2>1, SameTemporaries
<1> QED
  BY <1>1, <1>2, <1>3, Completes

-----------------------------------------------------------------------------
(* If *)

\* What is left to show of a step that lays out a block.
LEMMA InNewBlock ==
  ASSUME IInv, ~running, UNCHANGED <<running, at, beat>>, TreeInv', TempsInv', Sound(blocks'),
         NEW b, layout' = AddBasicBlock(layout, b), active' = b,
         Shape(Len(blocks'), AddBasicBlock(layout, b), opened', b, Reserved'), opened' # <<>>
  PROVE  IInv'
<1>1. ShapeInv'
  BY DEF ShapeInv
<1>2. Sound(blocks)'
  BY DEF Sound, Edges
<1> QED
  BY <1>1, <1>2, Generating

LEMMA CloseBranchSound ==
  ASSUME NEW bs, Sound(bs), NEW b \in 1 .. Len(bs), b # Terminal, NEW join \in 1 .. Len(bs)
  PROVE  LET new == CloseBranch(bs, b, join)
         IN  /\ Sound(new) /\ Len(new) = Len(bs)
             /\ new = bs \/ Adds(bs, new, b, Jump(join))
  BY JumpSound DEF CloseBranch

\* The innermost visit is one of those that opened describes.
LEMMA InnermostFacts ==
  ASSUME IInv, opened # <<>>
  PROVE  /\ Innermost.first \in 1 .. Len(blocks)
         /\ Innermost.endBlock \in 1 .. Len(blocks) /\ Innermost.endBlock # Terminal
<1> DEFINE v == opened[Len(opened)]
<1>1. opened \in Seq(Visits(Len(blocks)))
  BY DEF IInv, ShapeInv, Shape
<1>2. Len(opened) \in 1 .. Len(opened)
  BY <1>1
<1>3. v \in Visits(Len(blocks))
  BY <1>1, <1>2, SeqFacts
<1> HIDE DEF v
<1>4. v.first \in 1 .. Len(blocks) /\ v.endBlock \in Usable(Len(blocks))
  BY <1>3 DEF Visits
<1> QED
  BY <1>4 DEF Usable, Innermost, v

LEMMA OpenIfKeeps ==
  ASSUME IInv, OpenIf
  PROVE  IInv'
<1> DEFINE n == Len(blocks)
           v == values[1]
           place == <<Here, 0>>
           more == CreateBlocks(blocks)
<1>1. /\ Complete("if") /\ Len(values) = 1
      /\ blocks' = CreateConditionalJump(more, active, v, n + 1, n + 1 + 1, place)
      /\ layout' = AddBasicBlock(layout, n + 1) /\ active' = n + 1
      /\ opened' = Append(opened, Visit("if", n + 1, n + 1))
      /\ UNCHANGED <<text, temps, running, at, beat>>
  BY DEF OpenIf, LayOut, Enter, machine
<1>2. /\ ~running /\ doing = "if" /\ doing' = Idle /\ values' = <<>>
      /\ values \in Seq(Values) /\ place \in Places
  BY <1>1, CompleteTree
<1>3. TreeInv'
  BY <1>1, <1>2 DEF IInv, TreeInv
<1>4. /\ Sound(blocks) /\ active \in 1 .. n /\ active # Terminal /\ n \in Nat
      /\ Shape(n, layout, opened, active, Reserved)
  BY InvFacts
<1>5. Reserved = {} /\ Reserved' = {}
  BY <1>2 DEF Reserved, Loops, Idle
<1>6. v \in Values
  <2>1. 1 \in 1 .. Len(values)
    BY <1>1
  <2> QED
    BY <1>2, <2>1, SeqFacts
<1>7. Sound(more) /\ Len(more) = n + 3
  BY <1>4, CreateBlocksSound
<1> HIDE DEF v, place, more
<1>8. active \in 1 .. Len(more) /\ n + 1 \in 1 .. Len(more) /\ n + 1 + 1 \in 1 .. Len(more)
  BY <1>4, <1>7
<1>9. /\ Sound(blocks') /\ Len(blocks') = n + 3
      /\ Adds(more, blocks', active, CondJump(v, n + 1, n + 1 + 1, place))
  BY <1>1, <1>2, <1>4, <1>6, <1>7, <1>8, ConditionalJumpSound, ZenonT(30)
<1>10. opened # <<>> /\ opened' # <<>>
  <2>1. opened # <<>>
    BY <1>2 DEF IInv, PhaseInv
  <2>2. opened \in Seq(Visits(n))
    BY DEF IInv, ShapeInv, Shape
  <2> QED
    BY <1>1, <2>1, <2>2
<1>12. TempsInv'
  <2> DEFINE instr == CondJump(v, n + 1, n + 1 + 1, place)
  <2>1. instr.result = {} /\ From(instr.args, values)
    BY <1>1 DEF CondJump, Instruction, From, v
  <2>2. more \in {blocks, CreateBlocks(blocks)}
    BY DEF more
  <2> HIDE DEF instr
  <2>3. Adds(more, blocks', active, instr)
    BY <1>9 DEF instr
  <2> QED
    BY <1>1, <1>2, <2>1, <2>2, <2>3, SpentTemporaries
<1> HIDE DEF n
<1>11. Shape(n + 3, AddBasicBlock(layout, n + 1), opened', n + 1, {})
  BY <1>1, <1>4, <1>5, <1>10, IfOpened
<1> QED
  BY <1>1, <1>2, <1>3, <1>5, <1>9, <1>10, <1>11, <1>12, InNewBlock

\* The nodes that are no statements of their own.
LEMMA BetweenTree ==
  ASSUME IInv, Between, NEW kind \in NodeKinds, AddNode(kind, <<>>)
  PROVE  /\ ~running /\ doing = Idle /\ opened # <<>> /\ Reserved = {}
         /\ values = <<>> /\ text' \in Seq(Nodes) /\ text' # <<>>
<1>1. ~running /\ doing = Idle /\ opened # <<>>
  BY DEF Between
<1>2. text' \in Seq(Nodes) /\ text' # <<>>
  <2>1. <<>> \in Seq(Tokens) /\ text \in Seq(Nodes)
    BY DEF IInv, TreeInv
  <2> QED
    BY <2>1, AddNodeTyped DEF AddNode
<1>3. Reserved = {}
  BY <1>1 DEF Reserved, Loops, Idle
<1>4. values = <<>>
  BY <1>1 DEF IInv, TempsInv
<1> QED
  BY <1>1, <1>2, <1>3, <1>4

LEMMA OpenElseKeeps ==
  ASSUME IInv, OpenElse
  PROVE  IInv'
<1> DEFINE n == Len(blocks)
           v == Innermost
           new == [opened EXCEPT ![Len(opened)] = Visit("else", v.first, v.first + 1)]
<1>1. /\ Between /\ v.kind = "if" /\ AddNode("else", <<>>)
      /\ blocks' = CloseBranch(blocks, v.endBlock, v.first + 2)
      /\ layout' = AddBasicBlock(layout, v.first + 1) /\ active' = v.first + 1
      /\ opened' = new
      /\ UNCHANGED <<doing, values, temps, running, at, beat>>
  BY DEF OpenElse, LayOut, machine
<1>2. /\ ~running /\ doing = Idle /\ opened # <<>> /\ Reserved = {} /\ values = <<>>
      /\ text' \in Seq(Nodes) /\ text' # <<>>
  <2>1. "else" \in NodeKinds
    BY DEF NodeKinds
  <2> QED
    BY <1>1, <2>1, BetweenTree
<1>3. TreeInv'
  BY <1>1, <1>2 DEF IInv, TreeInv
<1>4. Sound(blocks) /\ n \in Nat /\ Shape(n, layout, opened, active, {})
  BY <1>2, InvFacts
<1>5. v.endBlock \in 1 .. n /\ v.endBlock # Terminal
  BY <1>2, InnermostFacts
<1>6. v = opened[Len(opened)]
  BY DEF Innermost
<1>7. /\ Shape(n, AddBasicBlock(layout, v.first + 1), new, v.first + 1, {})
      /\ new # <<>> /\ v.first + 2 \in 1 .. n
  <2> HIDE DEF n
  <2> QED
    BY <1>1, <1>2, <1>4, <1>6, ElseOpened
<1>8. Reserved' = {}
  BY <1>1, <1>2 DEF Reserved, Loops, Idle
<1> HIDE DEF v, new
<1>9. /\ Sound(blocks') /\ Len(blocks') = n
      /\ blocks' = blocks \/ Adds(blocks, blocks', v.endBlock, Jump(v.first + 2))
  BY <1>1, <1>4, <1>5, <1>7, CloseBranchSound
<1>10. TempsInv'
  BY <1>1, <1>2, <1>5, <1>9, SameTemporaries, JumpTemporaries
<1> QED
  BY <1>1, <1>2, <1>3, <1>7, <1>8, <1>9, <1>10, InNewBlock

\* The end of an if or of a loop.
LEMMA Closes ==
  ASSUME IInv, Between, AddNode("end", <<>>), Innermost.kind \notin {"function", "if"},
         NEW c, c = Innermost.first + 2,
         layout' = AddBasicBlock(layout, c) /\ active' = c, opened' = Told(opened, c),
         UNCHANGED <<doing, values, temps, running, at, beat>>,
         Sound(blocks'), Len(blocks') = Len(blocks),
         NEW b \in 1 .. Len(blocks), NEW d, blocks' = blocks \/ Adds(blocks, blocks', b, Jump(d))
  PROVE  IInv'
<1> DEFINE n == Len(blocks)
<1>1. /\ ~running /\ doing = Idle /\ opened # <<>> /\ Reserved = {} /\ values = <<>>
      /\ text' \in Seq(Nodes) /\ text' # <<>>
  <2>1. "end" \in NodeKinds
    BY DEF NodeKinds
  <2> QED
    BY <2>1, BetweenTree
<1>2. TreeInv'
  BY <1>1 DEF IInv, TreeInv
<1>3. n \in Nat /\ Shape(n, layout, opened, active, {})
  BY <1>1, InvFacts
<1> HIDE DEF n
<1>4. /\ Shape(n, AddBasicBlock(layout, c), Told(opened, c), c, {})
      /\ Told(opened, c) # <<>>
  BY <1>1, <1>3, VisitLeft DEF Innermost
<1>5. Reserved' = {}
  BY <1>1 DEF Reserved, Loops, Idle
<1>6. TempsInv'
  BY <1>1, SameTemporaries, JumpTemporaries
<1> QED
  BY <1>1, <1>2, <1>4, <1>5, <1>6, InNewBlock DEF n

\* The block at which an if or a loop ends is one that has been created.
LEMMA JoinExists ==
  ASSUME IInv, Between, Innermost.kind \notin {"function", "if"}
  PROVE  Innermost.first + 2 \in 1 .. Len(blocks)
<1> DEFINE n == Len(blocks)
<1>1. doing = Idle /\ opened # <<>>
  BY DEF Between
<1>2. Reserved = {}
  BY <1>1 DEF Reserved, Loops, Idle
<1>3. n \in Nat /\ Shape(n, layout, opened, active, {})
  BY <1>2, InvFacts
<1> HIDE DEF n
<1>4. Innermost.first + 2 \in 1 .. n
  BY <1>1, <1>3, VisitLeft DEF Innermost
<1> QED
  BY <1>4 DEF n

LEMMA CloseIfKeeps ==
  ASSUME IInv, CloseIf
  PROVE  IInv'
<1> DEFINE v == Innermost
           c == v.first + 2
<1>1. /\ Between /\ v.kind = "else" /\ AddNode("end", <<>>)
      /\ blocks' = CloseBranch(blocks, v.endBlock, c)
      /\ layout' = AddBasicBlock(layout, c) /\ active' = c /\ opened' = Told(opened, c)
      /\ UNCHANGED <<doing, values, temps, running, at, beat>>
  BY DEF CloseIf, LayOut, Leave, Told, machine
<1>2. v.kind \notin {"function", "if"} /\ opened # <<>>
  BY <1>1 DEF Between
<1>3. Sound(blocks) /\ v.endBlock \in 1 .. Len(blocks) /\ v.endBlock # Terminal
  BY <1>2, InvFacts, InnermostFacts
<1>4. c \in 1 .. Len(blocks)
  BY <1>1, <1>2, JoinExists
<1>5. /\ Sound(blocks') /\ Len(blocks') = Len(blocks)
      /\ blocks' = blocks \/ Adds(blocks, blocks', v.endBlock, Jump(c))
  <2> HIDE DEF v, c
  <2> QED
    BY <1>1, <1>3, <1>4, CloseBranchSound
<1> QED
  BY <1>1, <1>2, <1>3, <1>5, Closes

-----------------------------------------------------------------------------
(* Loops *)

LEMMA CloseLoopKeeps ==
  ASSUME IInv, CloseLoop
  PROVE  IInv'
<1> DEFINE v == Innermost
           c == v.first + 2
<1>1. /\ Between /\ v.kind \in Loops \cup {"iterated"} /\ AddNode("end", <<>>)
      /\ blocks' = CreateJump(blocks, v.endBlock, v.first)
      /\ layout' = AddBasicBlock(layout, c) /\ active' = c /\ opened' = Told(opened, c)
      /\ UNCHANGED <<doing, values, temps, running, at, beat>>
  BY DEF CloseLoop, LayOut, Leave, Told, machine
<1>2. v.kind \notin {"function", "if"} /\ opened # <<>>
  BY <1>1 DEF Between, Loops
<1>3. /\ Sound(blocks) /\ v.endBlock \in 1 .. Len(blocks) /\ v.endBlock # Terminal
      /\ v.first \in 1 .. Len(blocks)
  BY <1>2, InvFacts, InnermostFacts
<1>4. /\ Sound(blocks') /\ Len(blocks') = Len(blocks)
      /\ Adds(blocks, blocks', v.endBlock, Jump(v.first))
  <2> HIDE DEF v, c
  <2> QED
    BY <1>1, <1>3, JumpSound
<1> QED
  BY <1>1, <1>2, <1>3, <1>4, Closes

LEMMA StartLoopKeeps ==
  ASSUME IInv, NEW kind, StartLoop(kind)
  PROVE  IInv'
<1> DEFINE n == Len(blocks)
           more == CreateBlocks(blocks)
<1>1. /\ kind \in Loops /\ Begins(kind)
      /\ blocks' = CreateJump(more, active, n + 1)
      /\ layout' = AddBasicBlock(layout, n + 1) /\ active' = n + 1
      /\ UNCHANGED <<opened, temps, running, at, beat>>
  BY DEF StartLoop, LayOut, machine
<1>2. /\ ~running /\ doing = Idle /\ opened # <<>> /\ doing' = kind /\ values' = <<>>
      /\ text' \in Seq(Nodes) /\ text' # <<>>
  <2>1. kind \in Simple \cup Constructs
    BY <1>1 DEF Constructs
  <2> QED
    BY <1>1, <2>1, BeginsTree
<1>3. TreeInv'
  BY <1>1, <1>2 DEF IInv, TreeInv, Constructs
<1>4. /\ Sound(blocks) /\ active \in 1 .. n /\ active # Terminal /\ n \in Nat
      /\ Shape(n, layout, opened, active, Reserved)
  BY InvFacts
<1>5. Reserved = {} /\ Reserved' = {n + 1 + 1, n + 1 + 2}
  BY <1>1, <1>2 DEF Reserved, Loops, Idle
<1>6. Sound(more) /\ Len(more) = n + 3
  BY <1>4, CreateBlocksSound
<1> HIDE DEF more
<1>7. active \in 1 .. Len(more) /\ n + 1 \in 1 .. Len(more)
  BY <1>4, <1>6
<1>8. Sound(blocks') /\ Len(blocks') = n + 3 /\ Adds(more, blocks', active, Jump(n + 1))
  BY <1>1, <1>4, <1>6, <1>7, JumpSound
<1>12. TempsInv'
  <2> DEFINE instr == Jump(n + 1)
  <2>1. instr.result = {} /\ From(instr.args, values)
    BY DEF Jump, Instruction, From
  <2>2. more \in {blocks, CreateBlocks(blocks)}
    BY DEF more
  <2> HIDE DEF instr
  <2>3. Adds(more, blocks', active, instr)
    BY <1>8 DEF instr
  <2> QED
    BY <1>1, <1>2, <2>1, <2>2, <2>3, SpentTemporaries
<1> HIDE DEF n
<1>9. Shape(n + 3, AddBasicBlock(layout, n + 1), opened, n + 1, {n + 1 + 1, n + 1 + 2})
  BY <1>4, <1>5, LoopStarted
<1>10. opened' = opened /\ opened' # <<>>
  BY <1>1, <1>2
<1>11. Shape(Len(blocks'), AddBasicBlock(layout, n + 1), opened', n + 1, Reserved')
  BY <1>5, <1>8, <1>9, <1>10
<1> QED
  BY <1>1, <1>2, <1>3, <1>8, <1>10, <1>11, <1>12, InNewBlock

LEMMA OpenBodyKeeps ==
  ASSUME IInv, NEW kind \in Loops, NEW v \in Values, OpenBody(kind, v), text' \in Seq(Nodes),
         From(<<v>>, values)
  PROVE  IInv'
<1> DEFINE n == Len(blocks)
           place == <<Here, 0>>
           new == Append(opened, Visit(kind, active, active + 1))
           two == {active + 1, active + 2}
<1>1. /\ Complete(kind)
      /\ blocks' = CreateConditionalJump(blocks, active, v, active + 1, active + 2, place)
      /\ layout' = AddBasicBlock(layout, active + 1) /\ active' = active + 1
      /\ opened' = new
      /\ UNCHANGED <<temps, running, at, beat>>
  BY DEF OpenBody, LayOut, Enter, machine
<1>2. ~running /\ doing = kind /\ doing' = Idle /\ values' = <<>> /\ place \in Places
  BY <1>1, CompleteTree
<1>3. TreeInv'
  BY <1>1, <1>2 DEF IInv, TreeInv
<1>4. /\ Sound(blocks) /\ active \in 1 .. n /\ active # Terminal /\ n \in Nat
      /\ Shape(n, layout, opened, active, Reserved)
  BY InvFacts
<1>5. Reserved = two /\ Reserved' = {}
  BY <1>2 DEF Reserved, Loops, Idle
<1>6. opened # <<>> /\ opened \in Seq(Visits(n))
  BY <1>2 DEF IInv, PhaseInv, ShapeInv, Shape
<1> HIDE DEF n, place
<1>7. /\ Shape(n, AddBasicBlock(layout, active + 1), new, active + 1, {})
      /\ active + 1 \in 1 .. n /\ active + 2 \in 1 .. n
  BY <1>4, <1>5, <1>6, BodyOpened
<1>8. new # <<>>
  BY <1>6
<1> HIDE DEF new, two
<1>9. /\ Sound(blocks') /\ Len(blocks') = n
      /\ Adds(blocks, blocks', active, CondJump(v, active + 1, active + 2, place))
  BY <1>1, <1>2, <1>4, <1>7, ConditionalJumpSound DEF n
<1>10. Shape(Len(blocks'), AddBasicBlock(layout, active + 1), opened', active + 1, Reserved')
  BY <1>1, <1>5, <1>7, <1>9
<1>11. TempsInv'
  <2> DEFINE instr == CondJump(v, active + 1, active + 2, place)
  <2>1. instr.result = {} /\ From(instr.args, values)
    BY DEF CondJump, Instruction
  <2> HIDE DEF instr
  <2>2. Adds(blocks, blocks', active, instr)
    BY <1>9 DEF instr
  <2> QED
    BY <1>1, <1>2, <2>1, <2>2, SpentTemporaries
<1> QED
  BY <1>1, <1>2, <1>3, <1>8, <1>9, <1>10, <1>11, InNewBlock

LEMMA OpenLoopKeeps ==
  ASSUME IInv, NEW kind, OpenLoop(kind)
  PROVE  IInv'
<1>1. kind \in Loops /\ Len(values) = 1 /\ OpenBody(kind, values[1]) /\ text' = text
  BY DEF OpenLoop
<1>2. values \in Seq(Values) /\ text \in Seq(Nodes)
  BY DEF IInv, TreeInv
<1>3. values[1] \in Values
  <2>1. 1 \in 1 .. Len(values)
    BY <1>1
  <2> QED
    BY <1>2, <2>1, SeqFacts
<1>4. From(<<values[1]>>, values)
  BY <1>1 DEF From
<1> QED
  BY <1>1, <1>2, <1>3, <1>4, OpenBodyKeeps

LEMMA OpenEndlessLoopKeeps ==
  ASSUME IInv, OpenEndlessLoop
  PROVE  IInv'
<1>1. /\ doing = "for" /\ "for" \in Loops
      /\ text' = [text EXCEPT ![Len(text)].expr = Append(@, One)]
      /\ OpenBody("for", Variable(One))
  BY DEF OpenEndlessLoop, AddToken, Loops
<1>2. Variable(One) \in Values
  BY DEF Variable, Values
<1>3. text' \in Seq(Nodes)
  <2>1. text \in Seq(Nodes) /\ text # <<>> /\ One \in Tokens
    BY <1>1 DEF IInv, TreeInv, Idle, Tokens
  <2> QED
    BY <1>1, <2>1, AddTokenTyped
<1>4. From(<<Variable(One)>>, values)
  BY DEF From, Variable, IsTemporary
<1> QED
  BY <1>1, <1>2, <1>3, <1>4, OpenBodyKeeps

LEMMA StartIterationKeeps ==
  ASSUME IInv, NEW kind, StartIteration(kind)
  PROVE  IInv'
<1> DEFINE n == Len(blocks)
           new == [opened EXCEPT ![Len(opened)].kind = "iterated"]
<1>1. /\ Between /\ opened[Len(opened)].kind = "for" /\ kind \in {"assign", "discard"}
      /\ AddNode(kind, <<>>) /\ doing' = kind
      /\ active' = opened[Len(opened)].endBlock /\ opened' = new
      /\ UNCHANGED <<values, blocks, layout, temps, running, at, beat>>
  BY DEF StartIteration, Innermost, machine
<1>2. /\ ~running /\ doing = Idle /\ opened # <<>> /\ Reserved = {} /\ values = <<>>
      /\ text' \in Seq(Nodes) /\ text' # <<>>
  <2>1. kind \in NodeKinds
    BY <1>1 DEF NodeKinds, Simple
  <2> QED
    BY <1>1, <2>1, BetweenTree
<1>3. TreeInv'
  BY <1>1, <1>2 DEF IInv, TreeInv, Simple
<1>4. Reserved' = {}
  BY <1>1 DEF Reserved, Loops
<1>5. Sound(blocks) /\ n \in Nat /\ Shape(n, layout, opened, active, {})
  BY <1>2, InvFacts
<1>6. Shape(n, layout, new, opened[Len(opened)].endBlock, {}) /\ new # <<>>
  <2> HIDE DEF n
  <2> QED
    BY <1>1, <1>2, <1>5, IterationStarted
<1> HIDE DEF new
<1>7. ShapeInv'
  BY <1>1, <1>4, <1>6 DEF ShapeInv
<1>8. Sound(blocks)'
  BY <1>1, <1>5 DEF Sound, Edges
<1>9. TempsInv'
  BY <1>1, <1>2, SameTemporaries
<1> QED
  BY <1>1, <1>2, <1>3, <1>6, <1>7, <1>8, <1>9, Generating

-----------------------------------------------------------------------------
(* The end of the function *)

\* Every block of a set, none of them the terminal one, gets a jump to the terminal
\* block.
Closed(bs, new, set) ==
  /\ new \in Seq(Block) /\ Len(new) = Len(bs)
  /\ \A b \in 1 .. Len(bs) :
       /\ new[b].code = IF b \in set THEN Append(bs[b].code, Jump(Terminal)) ELSE bs[b].code
       /\ new[b].succ = IF b \in set THEN bs[b].succ \cup {Terminal} ELSE bs[b].succ
       /\ new[b].pred = IF b = Terminal THEN bs[b].pred \cup set ELSE bs[b].pred

LEMMA ClosedSound ==
  ASSUME NEW bs, Sound(bs), NEW set \in SUBSET (1 .. Len(bs)), Terminal \notin set,
         NEW new, Closed(bs, new, set)
  PROVE  Sound(new)
<1>1. bs \in Seq(Block) /\ new \in Seq(Block) /\ Len(new) = Len(bs) /\ Len(bs) \in Nat
  BY DEF Sound, Closed
<1>2. new[Terminal].code = bs[Terminal].code /\ Terminal \in 1 .. Len(bs)
  BY DEF Sound, Closed
<1>3. ASSUME NEW c \in 1 .. Len(bs)
      PROVE  new[c].succ = LeadsFrom(c, new[c].code)
  <2>1. bs[c].succ = LeadsFrom(c, bs[c].code) /\ bs[c].code \in Seq(Instructions)
    BY <1>1, SeqFacts, BlockFields DEF Sound, Edges
  <2>2. /\ new[c].code = IF c \in set THEN Append(bs[c].code, Jump(Terminal)) ELSE bs[c].code
        /\ new[c].succ = IF c \in set THEN bs[c].succ \cup {Terminal} ELSE bs[c].succ
    BY DEF Closed
  <2>3. CASE c \in set
    <3>1. Jump(Terminal) \in Instructions /\ Leads(c, Jump(Terminal)) = {Terminal}
      <4>1. c # Terminal /\ Terminal \in Nat
        BY <2>3 DEF Terminal
      <4> QED
        BY <4>1, JumpTyped
    <3>2. LeadsFrom(c, Append(bs[c].code, Jump(Terminal)))
            = LeadsFrom(c, bs[c].code) \cup Leads(c, Jump(Terminal))
      BY <2>1, <3>1, LeadsFromAppend
    <3> QED
      BY <2>1, <2>2, <2>3, <3>1, <3>2
  <2>4. CASE c \notin set
    BY <2>1, <2>2, <2>4
  <2> QED
    BY <2>3, <2>4
<1>4. ASSUME NEW c \in 1 .. Len(bs), NEW d \in 1 .. Len(bs)
      PROVE  d \in new[c].succ <=> c \in new[d].pred
  <2>1. d \in bs[c].succ <=> c \in bs[d].pred
    BY DEF Sound, Edges
  <2>2. /\ new[c].succ = IF c \in set THEN bs[c].succ \cup {Terminal} ELSE bs[c].succ
        /\ new[d].pred = IF d = Terminal THEN bs[d].pred \cup set ELSE bs[d].pred
    BY DEF Closed
  <2>3. CASE d = Terminal
    BY <2>1, <2>2, <2>3
  <2>4. CASE d # Terminal
    BY <2>1, <2>2, <2>4
  <2> QED
    BY <2>3, <2>4
<1>5. EndsIn(new[Terminal], {"return"})
  BY <1>2 DEF Sound, EndsIn
<1>6. ASSUME NEW c \in 1 .. Len(bs)
      PROVE  new[c].succ \subseteq 1 .. Len(bs) /\ new[c].pred \subseteq 1 .. Len(bs)
  <2>1. bs[c].succ \subseteq 1 .. Len(bs) /\ bs[c].pred \subseteq 1 .. Len(bs)
    BY DEF Sound, Edges
  <2> QED
    BY <1>2, <2>1 DEF Closed
<1> QED
  BY <1>1, <1>2, <1>3, <1>4, <1>5, <1>6 DEF Sound, Edges

\* The loop at the end of generateIr.
LEMMA EndFunctionCloses ==
  ASSUME NEW bs, Sound(bs), NEW set \in SUBSET (1 .. Len(bs)), Terminal \notin set, NEW new,
         new = [b \in DOMAIN bs |->
                  IF b \in set THEN CreateJump(bs, b, Terminal)[b]
                  ELSE IF b = Terminal THEN [bs[b] EXCEPT !.pred = @ \cup set] ELSE bs[b]]
  PROVE  Closed(bs, new, set)
<1>1. /\ bs \in Seq(Block) /\ Len(bs) \in Nat /\ DOMAIN bs = 1 .. Len(bs)
      /\ Terminal \in 1 .. Len(bs) /\ \A b \in 1 .. Len(bs) : bs[b] \in Block
  BY SeqFacts DEF Sound
<1>2. \A b \in set : b # Terminal
  OBVIOUS
<1>3. IsList(new, Len(bs))
  BY <1>1 DEF IsList
<1>4. ASSUME NEW b \in 1 .. Len(bs)
      PROVE  /\ new[b] \in Block
             /\ new[b].code = IF b \in set THEN Append(bs[b].code, Jump(Terminal)) ELSE bs[b].code
             /\ new[b].succ = IF b \in set THEN bs[b].succ \cup {Terminal} ELSE bs[b].succ
             /\ new[b].pred = IF b = Terminal THEN bs[b].pred \cup set ELSE bs[b].pred
  <2>1. CASE b \in set
    <3> DEFINE other == CreateJump(bs, b, Terminal)
    <3>1. new[b] = other[b]
      BY <1>1, <2>1
    <3>2. Jump(Terminal) \in Instructions
      <4>1. b # Terminal /\ Terminal \in Nat
        BY <1>2, <2>1 DEF Terminal
      <4> QED
        BY <4>1, JumpTyped
    <3>3. Emitted(bs, other, b, Jump(Terminal), {Terminal})
      BY <1>1, <3>2, CreateJumpEmits
    <3> HIDE DEF other
    <3>4. /\ other[b].code = Append(bs[b].code, Jump(Terminal))
          /\ other[b].succ = bs[b].succ \cup {Terminal}
          /\ other[b].pred = bs[b].pred /\ other \in Seq(Block) /\ Len(other) = Len(bs)
      BY <1>2, <2>1, <3>3 DEF Emitted
    <3>5. other[b] \in Block
      BY <3>4, SeqFacts
    <3> QED
      BY <1>2, <2>1, <3>1, <3>4, <3>5
  <2>2. CASE b = Terminal
    <3> DEFINE r == bs[b]
               P == r.pred \cup set
    <3>1. new[b] = [bs[b] EXCEPT !.pred = bs[b].pred \cup set]
      BY <1>1, <2>2, Zenon
    <3>2. r \in Block /\ P \in SUBSET Nat
      BY <1>1, BlockFields
    <3> HIDE DEF r
    <3>3. new[b] = [r EXCEPT !.pred = P]
      BY <3>1 DEF r
    <3>4. new[b] \in Block /\ new[b].code = r.code /\ new[b].succ = r.succ /\ new[b].pred = P
      <4> HIDE DEF P
      <4> QED
        BY <3>2, <3>3 DEF Block
    <3> QED
      BY <2>2, <3>4 DEF r
  <2>3. CASE b \notin set /\ b # Terminal
    <3>1. new[b] = bs[b] /\ bs[b] \in Block
      BY <1>1, <2>3
    <3> QED
      BY <2>3, <3>1
  <2> QED
    BY <2>1, <2>2, <2>3
<1>5. new \in Seq(Block) /\ Len(new) = Len(bs)
  BY <1>1, <1>3, <1>4, SeqMade
<1> QED
  BY <1>4, <1>5 DEF Closed

LEMMA ClosedTidy ==
  ASSUME NEW bs \in Seq(Block), NEW set \in SUBSET (1 .. Len(bs)), NEW new, Closed(bs, new, set)
  PROVE  /\ Tidy(bs) => Tidy(new)
         /\ \A n : Named(bs, n) => Named(new, n)
         /\ \A b, owed : Ready(bs, b, owed) => Ready(new, b, owed)
<1> DEFINE j == Jump(Terminal)
<1>1. j.result = {} /\ j.args = <<>>
  BY DEF Jump, Instruction
<1> HIDE DEF j
<1>2. /\ Len(new) = Len(bs)
      /\ \A c \in 1 .. Len(bs) :
           new[c].code = IF c \in set THEN Append(bs[c].code, j) ELSE bs[c].code
  BY DEF Closed, j
<1>3. ASSUME NEW c \in 1 .. Len(bs)
      PROVE  /\ Len(bs[c].code) \in Nat /\ Len(Append(bs[c].code, j)) = Len(bs[c].code) + 1
             /\ Append(bs[c].code, j)[Len(bs[c].code) + 1] = j
             /\ \A k \in 1 .. Len(bs[c].code) : Append(bs[c].code, j)[k] = bs[c].code[k]
  <2>1. bs[c].code \in Seq(Instructions)
    BY SeqFacts, BlockFields
  <2> DEFINE s == bs[c].code
  <2>2. s \in Seq(Instructions)
    BY <2>1
  <2> HIDE DEF s, Instructions
  <2>3. /\ Len(s) \in Nat /\ Len(Append(s, j)) = Len(s) + 1 /\ Append(s, j)[Len(s) + 1] = j
        /\ \A k \in 1 .. Len(s) : Append(s, j)[k] = s[k]
    BY <2>2
  <2> QED
    BY <2>3 DEF s
<1>4. ASSUME NEW c, NEW k, Spot(bs, c, k)
      PROVE  Spot(new, c, k) /\ new[c].code[k] = bs[c].code[k]
  <2>1. c \in 1 .. Len(bs) /\ k \in 1 .. Len(bs[c].code)
    BY <1>4 DEF Spot
  <2>2. CASE c \in set
    <3>1. new[c].code = Append(bs[c].code, j) /\ k \in 1 .. Len(new[c].code)
      <4>1. new[c].code = Append(bs[c].code, j)
        BY <1>2, <2>1, <2>2
      <4>2. Len(new[c].code) = Len(bs[c].code) + 1 /\ Len(bs[c].code) \in Nat
        BY <1>3, <2>1, <4>1
      <4> QED
        BY <2>1, <4>1, <4>2
    <3>2. new[c].code[k] = bs[c].code[k]
      BY <1>3, <2>1, <3>1
    <3> QED
      BY <1>2, <2>1, <3>1, <3>2 DEF Spot
  <2>3. CASE c \notin set
    BY <1>2, <2>1, <2>3 DEF Spot
  <2> QED
    BY <2>2, <2>3
<1>5. ASSUME NEW c, NEW k, Spot(new, c, k)
      PROVE  Spot(bs, c, k) \/ (new[c].code[k].result = {} /\ new[c].code[k].args = <<>>)
  <2>1. c \in 1 .. Len(bs) /\ k \in 1 .. Len(new[c].code)
    BY <1>2, <1>5 DEF Spot
  <2>2. CASE k \in 1 .. Len(bs[c].code)
    BY <2>1, <2>2 DEF Spot
  <2>3. CASE k \notin 1 .. Len(bs[c].code)
    <3>1. c \in set /\ k = Len(bs[c].code) + 1
      <4>1. c \in set
        BY <1>2, <2>1, <2>3
      <4>2. k \in 1 .. Len(bs[c].code) + 1 /\ Len(bs[c].code) \in Nat
        <5>1. Len(new[c].code) = Len(bs[c].code) + 1
          BY <1>2, <1>3, <2>1, <4>1
        <5> QED
          BY <1>3, <2>1, <5>1
      <4> QED
        BY <2>3, <4>1, <4>2
    <3>2. new[c].code[k] = j
      BY <1>2, <1>3, <2>1, <3>1
    <3> QED
      BY <1>1, <3>2
  <2> QED
    BY <2>2, <2>3
<1> QED
  BY <1>4, <1>5, JumpsTidy

LEMMA EndFunctionKeeps ==
  ASSUME IInv, EndFunction
  PROVE  IInv'
<1> DEFINE n == Len(blocks)
<1>1. /\ Between /\ opened[Len(opened)].kind = "function" /\ opened' = <<>> /\ running' = TRUE
      /\ blocks' = [b \in DOMAIN blocks |->
           IF b \in Open THEN CreateJump(blocks, b, Terminal)[b]
           ELSE IF b = Terminal THEN [blocks[b] EXCEPT !.pred = @ \cup Open] ELSE blocks[b]]
      /\ UNCHANGED <<text, doing, values, layout, active, temps, at, beat>>
  BY DEF EndFunction, Innermost
<1>2. ~running /\ doing = Idle /\ opened # <<>> /\ Reserved = {} /\ Reserved' = {}
  BY <1>1 DEF Between, Reserved, Loops, Idle
<1>3. /\ Sound(blocks) /\ n \in Nat /\ blocks \in Seq(Block) /\ On(layout) \subseteq 1 .. n
      /\ Terminal \in 1 .. n /\ Shape(n, layout, opened, active, {})
  BY <1>2, InvFacts
<1>4. Open = {b \in On(layout) \ {Terminal} : ~EndsIn(blocks[b], Terminators)}
  <2>1. layout \in Seq(1 .. n)
    BY <1>3 DEF Shape, Ordered
  <2>2. DOMAIN layout = 1 .. Len(layout)
    BY <2>1
  <2> QED
    BY <2>2 DEF Open, On
<1>5. Open \in SUBSET (1 .. n) /\ Terminal \notin Open
  BY <1>3, <1>4
<1>6. Closed(blocks, blocks', Open)
  <2> DEFINE set == Open
  <2> HIDE DEF set
  <2>1. set \in SUBSET (1 .. Len(blocks)) /\ Terminal \notin set
    BY <1>5 DEF set
  <2>2. blocks' = [b \in DOMAIN blocks |->
           IF b \in set THEN CreateJump(blocks, b, Terminal)[b]
           ELSE IF b = Terminal THEN [blocks[b] EXCEPT !.pred = @ \cup set] ELSE blocks[b]]
    BY <1>1 DEF set
  <2>3. Closed(blocks, blocks', set)
    BY <1>3, <2>1, <2>2, EndFunctionCloses
  <2> QED
    BY <2>3 DEF set
<1>7. Sound(blocks') /\ Len(blocks') = n
  BY <1>3, <1>5, <1>6, ClosedSound DEF Closed
<1>8. TreeInv' /\ PhaseInv'
  BY <1>1, <1>2 DEF IInv, TreeInv, PhaseInv
<1>9. ShapeInv'
  <2>1. Len(opened) = 1
    <3>1. opened \in Seq(Visits(n)) /\ Rooted(opened)
      BY <1>3 DEF Shape
    <3>2. Len(opened) \in 1 .. Len(opened)
      BY <1>2, <3>1
    <3> QED
      BY <1>1, <3>1, <3>2 DEF Rooted, OfFunction
  <2>2. Pending(opened) = {}
    <3>1. Waiting(opened[1]) = {}
      BY <1>1, <2>1 DEF Waiting, OfFunction
    <3>2. ASSUME NEW x, x \in Pending(opened) PROVE FALSE
      BY <2>1, <3>1, <3>2, InPending
    <3> QED
      BY <3>2
  <2>3. /\ Ordered(layout, n) /\ active \in Usable(n) /\ (1 .. n) \ On(layout) = {}
    BY <1>3, <2>2 DEF Shape
  <2>4. Pending(<<>>) = {} /\ Rooted(<<>>) /\ Apart(<<>>) /\ <<>> \in Seq(Visits(n))
    BY DEF Pending, Rooted, Apart
  <2> HIDE DEF n
  <2>5. Shape(n, layout, <<>>, active, {})
    BY <2>3, <2>4 DEF Shape
  <2> QED
    BY <1>1, <1>2, <1>7, <2>5 DEF ShapeInv
<1>10. NoFallThrough'
  <2>1. ASSUME NEW b \in On(layout) PROVE EndsIn(blocks'[b], Terminators)
    <3>1. /\ b \in 1 .. n
          /\ blocks'[b].code = IF b \in Open THEN Append(blocks[b].code, Jump(Terminal))
                               ELSE blocks[b].code
      BY <1>3, <1>6, <2>1 DEF Closed
    <3>2. CASE b \in Open
      <4>1. blocks[b].code \in Seq(Instructions)
        BY <1>3, <3>1, SeqFacts, BlockFields
      <4>2. Jump(Terminal).op \in Terminators
        BY DEF Jump, Instruction, Terminators
      <4> DEFINE c == blocks[b].code
                 j == Jump(Terminal)
      <4> HIDE DEF c, j
      <4>3. Append(c, j) # <<>> /\ Append(c, j)[Len(Append(c, j))] = j
        BY <4>1 DEF c
      <4> QED
        BY <3>1, <3>2, <4>2, <4>3 DEF EndsIn, c, j
    <3>3. CASE b = Terminal
      <4>1. EndsIn(blocks'[b], {"return"})
        BY <1>7, <3>3 DEF Sound
      <4> QED
        BY <4>1 DEF EndsIn, Terminators
    <3>4. CASE b \notin Open /\ b # Terminal
      <4>1. EndsIn(blocks[b], Terminators)
        BY <1>4, <2>1, <3>4
      <4> QED
        BY <3>1, <3>4, <4>1 DEF EndsIn
    <3> QED
      BY <3>2, <3>3, <3>4
  <2>2. layout' = layout /\ DOMAIN layout = 1 .. Len(layout)
    <3>1. layout \in Seq(1 .. n)
      BY <1>3 DEF Shape, Ordered
    <3> QED
      BY <1>1, <3>1
  <2>3. LaidOut' = On(layout)
    BY <2>2 DEF LaidOut, On
  <2> QED
    BY <2>1, <2>3 DEF NoFallThrough
<1>11. Sound(blocks)'
  BY <1>7 DEF Sound, Edges
<1>12. TempsInv'
  <2>1. /\ Tidy(blocks) /\ Named(blocks, temps) /\ Ready(blocks, active, Owed(values))
        /\ values = <<>> /\ Distinct(values)
    BY <1>2 DEF IInv, TempsInv
  <2>2. /\ Tidy(blocks') /\ Named(blocks', temps) /\ Ready(blocks', active, Owed(values))
    <3> DEFINE set == Open
    <3> HIDE DEF set
    <3>1. set \in SUBSET (1 .. Len(blocks)) /\ Closed(blocks, blocks', set)
      BY <1>5, <1>6 DEF set
    <3> QED
      BY <1>3, <2>1, <3>1, ClosedTidy
  <2>3. values' = values /\ temps' = temps /\ active' = active
    BY <1>1
  <2> QED
    BY <2>1, <2>2, <2>3 DEF TempsInv
<1> QED
  BY <1>8, <1>9, <1>10, <1>11, <1>12 DEF IInv, CodeInv

-----------------------------------------------------------------------------
(* Execution *)

LEMMA ExecuteKeeps ==
  ASSUME IInv, Execute
  PROVE  IInv'
<1>1. /\ running /\ UNCHANGED <<text, doing, values, opened, blocks, layout, active, temps, running>>
  BY DEF Execute, tree, code
<1>2. PICK holds \in Outcomes(Current) :
        CanGo(Goto(Current, holds)) /\ at' = Goto(Current, holds) /\ Observe(Current, holds)
  BY DEF Execute
<1>3. at' \in Nat \X Nat
  <2>1. layout \in Seq(1 .. Len(blocks)) /\ at \in Nat \X Nat
    BY DEF IInv, ShapeInv, Shape, Ordered, PhaseInv
  <2>2. at' = Returned \/ at'[1] \in Nat
    <3>1. \A i \in DOMAIN layout : layout[i] \in Nat
      BY <2>1
    <3> QED
      BY <1>2, <3>1 DEF CanGo
  <2>3. \/ at' = Returned
        \/ \E b : at' = <<b, 1>>
        \/ \E k \in Nat : at' = <<at[1], k>>
    <3> DEFINE go == Goto(Current, holds)
    <3>1. \/ go = Returned
          \/ \E b : go = <<b, 1>>
          \/ go = Successor(at[1], at[2])
      BY DEF Goto
    <3>2. \/ Successor(at[1], at[2]) = <<at[1], at[2] + 1>>
          \/ \E b : Successor(at[1], at[2]) = <<b, 1>>
      BY DEF Successor
    <3>3. at[2] + 1 \in Nat
      BY <2>1
    <3> HIDE DEF go
    <3> QED
      BY <1>2, <3>1, <3>2, <3>3 DEF go
  <2>4. CASE at' = Returned
    BY <2>4 DEF Returned
  <2>5. ASSUME NEW b, at' = <<b, 1>> PROVE at' \in Nat \X Nat
    BY <2>2, <2>5 DEF Returned
  <2>6. ASSUME NEW k \in Nat, at' = <<at[1], k>> PROVE at' \in Nat \X Nat
    BY <2>1, <2>6
  <2> QED
    BY <2>3, <2>4, <2>5, <2>6
<1>4. beat' \in BOOLEAN
  BY <1>2 DEF Observe, IInv, PhaseInv
<1>5. TreeInv'
  BY <1>1 DEF IInv, TreeInv
<1>6. CodeInv'
  BY <1>1 DEF IInv, CodeInv, Sound, Edges
<1>7. ShapeInv'
  <2>1. Reserved' = Reserved
    BY <1>1 DEF Reserved
  <2> QED
    BY <1>1, <2>1 DEF IInv, ShapeInv
<1>8. PhaseInv'
  BY <1>1, <1>3, <1>4 DEF IInv, PhaseInv
<1>9. NoFallThrough'
  BY <1>1 DEF IInv, NoFallThrough, LaidOut
<1>10. TempsInv'
  BY <1>1 DEF IInv, TempsInv
<1> QED
  BY <1>5, <1>6, <1>7, <1>8, <1>9, <1>10 DEF IInv

-----------------------------------------------------------------------------
(***************************************************************************)
(* The theorems                                                            *)
(***************************************************************************)
LEMMA InitHolds ==
  ASSUME Init
  PROVE  IInv
<1> DEFINE bs == <<NewBlock, NewBlock>>
           args == <<Variable(Default)>>
           instr == Return(args, <<0, 0>>)
<1>1. /\ NewBlock \in Block /\ NewBlock.code = <<>> /\ NewBlock.succ = {} /\ NewBlock.pred = {}
  BY DEF NewBlock, Block
<1>2. bs \in Seq(Block) /\ Len(bs) = 2 /\ bs[1] = NewBlock /\ bs[2] = NewBlock
  BY <1>1
<1>3. instr \in Instructions /\ instr.op = "return" /\ instr.targets = <<>>
  <2>1. Variable(Default) \in Values
    BY DEF Variable, Values
  <2>2. args \in Seq(Values)
    <3> HIDE DEF Values
    <3> QED
      BY <2>1
  <2> HIDE DEF args
  <2> QED
    BY <2>2 DEF Return, Instruction, Instructions, Terminators
<1>4. blocks = AddInstruction(bs, Terminal, instr)
  BY DEF Init, CreateReturn
<1>5. Terminal \in 1 .. Len(bs) /\ Terminal = 2
  BY <1>2 DEF Terminal
<1> HIDE DEF bs, instr
<1>6. Emitted(bs, blocks, Terminal, instr, {})
  BY <1>2, <1>3, <1>4, <1>5, AddInstructionEmits
<1>7. /\ blocks \in Seq(Block) /\ Len(blocks) = 2
      /\ blocks[1].code = <<>> /\ blocks[1].succ = {} /\ blocks[1].pred = {}
      /\ blocks[2].code = Append(<<>>, instr) /\ blocks[2].succ = {} /\ blocks[2].pred = {}
  <2>1. \A c \in 1 .. 2 :
          /\ blocks[c].code = IF c = 2 THEN Append(bs[c].code, instr) ELSE bs[c].code
          /\ blocks[c].succ = bs[c].succ /\ blocks[c].pred = bs[c].pred
    BY <1>2, <1>5, <1>6 DEF Emitted
  <2>2. blocks \in Seq(Block) /\ Len(blocks) = 2 /\ 1 \in 1 .. 2 /\ 2 \in 1 .. 2 /\ 1 # 2
    BY <1>2, <1>6 DEF Emitted
  <2> QED
    BY <1>1, <1>2, <2>1, <2>2
<1>8. LeadsFrom(1, <<>>) = {} /\ LeadsFrom(2, Append(<<>>, instr)) = {}
  <2>1. LeadsFrom(1, <<>>) = {} /\ LeadsFrom(2, <<>>) = {}
    BY DEF LeadsFrom
  <2>2. Leads(2, instr) = {}
    BY <1>3 DEF Leads, Terminal
  <2>3. <<>> \in Seq(Instructions)
    OBVIOUS
  <2> QED
    BY <1>3, <2>1, <2>2, <2>3, LeadsFromAppend, ZenonT(30)
<1>9. CodeInv
  <2>1. Edges(blocks)
    <3>1. \A b \in 1 .. Len(blocks) : b = 1 \/ b = 2
      BY <1>7
    <3>2. \A b \in 1 .. Len(blocks) :
            /\ blocks[b].succ = LeadsFrom(b, blocks[b].code)
            /\ blocks[b].succ = {} /\ blocks[b].pred = {}
      BY <1>7, <1>8, <3>1
    <3> QED
      BY <3>2 DEF Edges
  <2>2. EndsIn(blocks[Terminal], {"return"})
    <3>1. Len(Append(<<>>, instr)) = 1 /\ Append(<<>>, instr)[1] = instr /\ Append(<<>>, instr) # <<>>
      OBVIOUS
    <3> QED
      BY <1>3, <1>5, <1>7, <3>1 DEF EndsIn
  <2> QED
    BY <1>5, <1>7, <2>1, <2>2, <1>2 DEF CodeInv, Sound
<1>10. ShapeInv
  <2> DEFINE u == Visit("function", Entry, Entry)
             lay == <<Entry, Terminal>>
  <2>1. /\ layout = lay /\ opened = <<u>> /\ active = Entry /\ Reserved = {}
    BY DEF Init, Reserved, Loops, Idle
  <2>2. Ordered(lay, 2) /\ On(lay) = {1, 2}
    <3>1. lay \in Seq(1 .. 2) /\ Len(lay) = 2 /\ lay[1] = 1 /\ lay[2] = 2
      BY DEF Entry, Terminal
    <3> HIDE DEF lay
    <3>2. \A i, j \in 1 .. Len(lay) : lay[i] = lay[j] => i = j
      BY <3>1
    <3>3. On(lay) = {1, 2}
      <4>1. \A x : x \in On(lay) <=> \E i \in 1 .. 2 : lay[i] = x
        BY <3>1 DEF On
      <4>2. \A i \in 1 .. 2 : lay[i] = i
        BY <3>1
      <4> QED
        BY <4>1, <4>2
    <3> QED
      BY <3>1, <3>2, <3>3 DEF Ordered, Entry, Terminal
  <2>3. Entry \in Usable(2)
    BY DEF Usable, Entry, Terminal
  <2>4. u \in Visits(2) /\ OfFunction(u) /\ Waiting(u) = {}
    BY <2>3 DEF Visit, Visits, Kinds, OfFunction, Waiting, Usable
  <2> HIDE DEF u, lay
  <2>5. /\ <<u>> \in Seq(Visits(2)) /\ Len(<<u>>) = 1
        /\ \A i \in 1 .. Len(<<u>>) : i = 1 /\ <<u>>[i] = u
    BY <2>4
  <2>6. Rooted(<<u>>) /\ Apart(<<u>>)
    BY <2>4, <2>5 DEF Rooted, Apart
  <2>7. Pending(<<u>>) = {}
    <3>1. ASSUME NEW x, x \in Pending(<<u>>) PROVE FALSE
      BY <2>4, <2>5, <3>1, InPending
    <3> QED
      BY <3>1
  <2>8. (1 .. 2) \ {1, 2} = {}
    OBVIOUS
  <2>9. Shape(2, lay, <<u>>, Entry, {})
    BY <2>2, <2>3, <2>5, <2>6, <2>7, <2>8 DEF Shape
  <2> QED
    BY <1>7, <2>1, <2>9 DEF ShapeInv
<1>11. TreeInv
  BY DEF Init, TreeInv, Idle
<1>12. PhaseInv
  BY DEF Init, PhaseInv, Entry
<1>13. NoFallThrough
  BY DEF Init, NoFallThrough
<1>14. TempsInv
  <2>1. instr.result = {} /\ instr.args = args
    BY DEF instr, Return, Instruction
  <2>2. Len(args) = 1 /\ ~IsTemporary(args[1])
    BY DEF IsTemporary, Variable
  <2> HIDE DEF args
  <2>3. ASSUME NEW c, NEW k, Spot(blocks, c, k)
        PROVE  blocks[c].code[k] = instr
    <3>1. c \in 1 .. 2 /\ k \in 1 .. Len(blocks[c].code)
      BY <1>7, <2>3 DEF Spot
    <3>2. c = 2
      <4>1. CASE c = 1
        BY <1>7, <3>1, <4>1
      <4> QED
        BY <3>1, <4>1
    <3>3. Len(Append(<<>>, instr)) = 1 /\ Append(<<>>, instr)[1] = instr
      OBVIOUS
    <3> QED
      BY <1>7, <3>1, <3>2, <3>3
  <2>4. \A t, c, k : ~Produces(blocks, t, c, k)
    BY <2>1, <2>3 DEF Produces
  <2>5. ASSUME NEW t, NEW c, NEW k, NEW m, Uses(blocks, t, c, k, m)
        PROVE  FALSE
    <3>1. m \in 1 .. Len(args) /\ IsTemporary(args[m])
      BY <2>1, <2>3, <2>5 DEF Uses
    <3> QED
      BY <2>2, <3>1
  <2>6. values = <<>>
    BY DEF Init
  <2>7. Distinct(values) /\ Owed(values) = {}
    BY <2>6 DEF Distinct, Owed
  <2>8. Tidy(blocks) /\ Named(blocks, temps) /\ Ready(blocks, active, Owed(values))
    BY <2>4, <2>5, <2>7 DEF Tidy, Named, Ready
  <2> QED
    BY <2>6, <2>7, <2>8 DEF TempsInv
<1> QED
  BY <1>9, <1>10, <1>11, <1>12, <1>13, <1>14 DEF IInv

LEMMA NextKeeps ==
  ASSUME IInv, [Next]_vars
  PROVE  IInv'
<1>1. CASE \E o \in Operands : VisitOperand(o)
  BY <1>1, VisitOperandKeeps
<1>2. CASE \E o \in Operations : VisitOperation(o)
  BY <1>2, VisitOperationKeeps
<1>3. CASE \E kind \in Simple : StartSimple(kind) \/ EndAssign(kind)
  BY <1>3, StartSimpleKeeps, EndAssignKeeps
<1>4. CASE StartDeclaration \/ EndDeclaration \/ EndCall \/ EndReturn
  BY <1>4, StartDeclarationKeeps, EndDeclarationKeeps, EndCallKeeps, EndReturnKeeps
<1>5. CASE StartIf \/ OpenIf \/ OpenElse \/ CloseIf
  BY <1>5, StartIfKeeps, OpenIfKeeps, OpenElseKeeps, CloseIfKeeps
<1>6. CASE \E kind \in Loops : StartLoop(kind) \/ OpenLoop(kind)
  BY <1>6, StartLoopKeeps, OpenLoopKeeps
<1>7. CASE OpenEndlessLoop
  BY <1>7, OpenEndlessLoopKeeps
<1>8. CASE \E kind \in {"assign", "discard"} : StartIteration(kind)
  BY <1>8, StartIterationKeeps
<1>9. CASE EndDiscard \/ CloseLoop
  BY <1>9, EndDiscardKeeps, CloseLoopKeeps
<1>10. CASE EndFunction \/ Execute
  BY <1>10, EndFunctionKeeps, ExecuteKeeps
<1>11. CASE UNCHANGED vars
  <2>1. UNCHANGED <<text, doing, values, opened, blocks, layout, active, temps, running, at, beat>>
    BY <1>11 DEF vars, tree, code, machine
  <2>2. Reserved' = Reserved
    BY <2>1 DEF Reserved
  <2>3. TreeInv' /\ CodeInv' /\ ShapeInv' /\ PhaseInv' /\ NoFallThrough'
    BY <2>1, <2>2 DEF IInv, TreeInv, CodeInv, Sound, Edges, ShapeInv, PhaseInv, NoFallThrough,
                      LaidOut
  <2>4. TempsInv'
    BY <2>1 DEF IInv, TempsInv
  <2> QED
    BY <2>3, <2>4 DEF IInv
<1> QED
  BY <1>1, <1>2, <1>3, <1>4, <1>5, <1>6, <1>7, <1>8, <1>9, <1>10, <1>11 DEF Next

\* The inductive invariant holds: the graph of the blocks is that of their jumps, and
\* the blocks that are not laid out yet are those that the constructs in progress wait for.
THEOREM Invariance == Spec => []IInv
<1>1. Init => IInv
  BY InitHolds
<1>2. IInv /\ [Next]_vars => IInv'
  BY NextKeeps
<1> QED
  BY <1>1, <1>2, PTL DEF Spec

\* The variables of the generator and of the machine have their types.
THEOREM TypeCorrect == Spec => []TypeOK
<1>1. IInv => TypeOK
  <2> SUFFICES ASSUME IInv PROVE TypeOK
    OBVIOUS
  <2>1. /\ blocks \in Seq(Block) /\ Terminal \in 1 .. Len(blocks) /\ active \in 1 .. Len(blocks)
        /\ DOMAIN blocks = 1 .. Len(blocks)
    BY InvFacts, SeqFacts
  <2>2. layout \in Seq(1 .. Len(blocks)) /\ opened \in Seq(Visits(Len(blocks)))
    BY DEF IInv, ShapeInv, Shape, Ordered
  <2>3. opened \in Seq([kind : Kinds, first : 1 .. Len(blocks), endBlock : 1 .. Len(blocks)])
    <3>1. Visits(Len(blocks)) \subseteq [kind : Kinds, first : 1 .. Len(blocks),
                                         endBlock : 1 .. Len(blocks)]
      BY DEF Visits, Usable
    <3> DEFINE S == Visits(Len(blocks))
               T == [kind : Kinds, first : 1 .. Len(blocks), endBlock : 1 .. Len(blocks)]
    <3> HIDE DEF S, T
    <3>2. opened \in Seq(S) /\ S \subseteq T
      BY <2>2, <3>1 DEF S, T
    <3>3. opened \in Seq(T)
      BY <3>2
    <3> QED
      BY <3>3 DEF T
  <2>4. /\ text \in Seq(Nodes) /\ values \in Seq(Values) /\ temps \in Nat
        /\ doing \in Simple \cup Constructs \cup {"discard", Idle}
        /\ running \in BOOLEAN /\ at \in Nat \X Nat /\ beat \in BOOLEAN
    BY DEF IInv, TreeInv, PhaseInv
  <2> QED
    BY <2>1, <2>2, <2>3, <2>4 DEF TypeOK, Nodes, NodeKinds, Tokens, Kinds
<1> QED
  BY <1>1, Invariance, PTL

\* The edges between the blocks are the jumps in their code, in both directions.
THEOREM EdgesAreRight == Spec => []EdgesMatchJumps
<1>1. IInv => EdgesMatchJumps
  <2> SUFFICES ASSUME IInv PROVE EdgesMatchJumps
    OBVIOUS
  <2>1. Edges(blocks) /\ blocks \in Seq(Block) /\ DOMAIN blocks = 1 .. Len(blocks)
    BY SeqFacts DEF IInv, CodeInv, Sound
  <2>2. ASSUME NEW b \in 1 .. Len(blocks)
        PROVE  blocks[b].succ = UNION {Leads(b, blocks[b].code[k]) : k \in DOMAIN blocks[b].code}
    <3>1. blocks[b].code \in Seq(Instructions)
      BY <2>1, SeqFacts, BlockFields
    <3>2. DOMAIN blocks[b].code = 1 .. Len(blocks[b].code)
      BY <3>1, SeqFacts
    <3> QED
      BY <2>1, <3>2 DEF Edges, LeadsFrom
  <2> QED
    BY <2>1, <2>2 DEF EdgesMatchJumps, Edges
<1> QED
  BY <1>1, Invariance, PTL

\* Every block created has one place in the code of the function.
THEOREM AllBlocksAreEmitted == Spec => []EveryBlockIsEmitted
<1>1. IInv => EveryBlockIsEmitted
  <2> SUFFICES ASSUME IInv PROVE EveryBlockIsEmitted
    OBVIOUS
  <2>1. /\ blocks \in Seq(Block) /\ DOMAIN blocks = 1 .. Len(blocks)
        /\ On(layout) \subseteq 1 .. Len(blocks) /\ Ordered(layout, Len(blocks))
        /\ Shape(Len(blocks), layout, opened, active, Reserved)
    BY InvFacts, SeqFacts
  <2>2. DOMAIN layout = 1 .. Len(layout)
    BY <2>1 DEF Ordered
  <2>3. LaidOut = On(layout)
    BY <2>2 DEF LaidOut, On
  <2>4. ASSUME running PROVE LaidOut = 1 .. Len(blocks)
    <3>1. opened = <<>> /\ Reserved = {}
      BY <2>4 DEF IInv, PhaseInv, Reserved, Loops, Idle
    <3>2. Pending(opened) = {}
      BY <3>1 DEF Pending
    <3>3. (1 .. Len(blocks)) \ On(layout) = {}
      BY <2>1, <3>1, <3>2 DEF Shape
    <3> QED
      BY <2>1, <2>3, <3>3
  <2> QED
    BY <2>1, <2>2, <2>4 DEF EveryBlockIsEmitted, Ordered
<1> QED
  BY <1>1, Invariance, PTL

\* In a finished function, no block runs on into the one laid out after it.
THEOREM NothingFallsThrough == Spec => []NoFallThrough
<1>1. IInv => NoFallThrough
  BY DEF IInv
<1> QED
  BY <1>1, Invariance, PTL

\* A temporary is produced once, and used at most once, later in the same block.
THEOREM TemporariesAreLocal == Spec => []TemporariesStayInBlock
<1>1. IInv => TemporariesStayInBlock
  <2> SUFFICES ASSUME IInv PROVE TemporariesStayInBlock
    OBVIOUS
  <2>1. blocks \in Seq(Block) /\ DOMAIN blocks = 1 .. Len(blocks) /\ Tidy(blocks)
    BY InvFacts, SeqFacts DEF IInv, TempsInv
  <2>2. ASSUME NEW b \in DOMAIN blocks
        PROVE  /\ DOMAIN Code(b) = 1 .. Len(Code(b))
               /\ \A k \in DOMAIN Code(b) : Code(b)[k] \in Instructions
    <3>1. Code(b) \in Seq(Instructions)
      BY <2>1, SeqFacts, BlockFields DEF Code
    <3> HIDE DEF Instructions
    <3> QED
      BY <3>1
  <2>3. ASSUME NEW b, NEW k
        PROVE  b \in DOMAIN blocks /\ k \in DOMAIN Code(b) <=> Spot(blocks, b, k)
    BY <2>1, <2>2 DEF Spot, Code
  <2>4. ASSUME NEW b \in DOMAIN blocks, NEW k \in DOMAIN Code(b)
        PROVE  DOMAIN Args(b, k) = 1 .. Len(Args(b, k)) /\ k \in Nat
    <3>1. Code(b)[k] \in Instructions /\ k \in Nat
      BY <2>2
    <3>2. Args(b, k) \in Seq(Values)
      BY <3>1 DEF Args, Code, Instructions
    <3> HIDE DEF Values
    <3> QED
      BY <3>1, <3>2
  <2>5. ASSUME NEW t, NEW b \in DOMAIN blocks, NEW k \in DOMAIN Code(b), t \in Results(b, k)
        PROVE  Produces(blocks, t, b, k)
    BY <2>3, <2>5 DEF Produces, Results
  <2>6. ASSUME NEW b \in DOMAIN blocks, NEW k \in DOMAIN Code(b), NEW n \in DOMAIN Args(b, k),
               IsTemporary(Args(b, k)[n])
        PROVE  Uses(blocks, Args(b, k)[n], b, k, n)
    BY <2>3, <2>4, <2>6 DEF Uses, Args
  <2>7. ASSUME NEW b \in DOMAIN blocks, NEW k \in DOMAIN Code(b), NEW t \in Results(b, k)
        PROVE  ProducedOnce(t, b, k)
    <3> SUFFICES ASSUME NEW c \in DOMAIN blocks, NEW l \in DOMAIN Code(c), t \in Results(c, l)
                 PROVE  c = b /\ l = k
      BY DEF ProducedOnce
    <3>1. Produces(blocks, t, b, k) /\ Produces(blocks, t, c, l)
      BY <2>5
    <3> QED
      BY <2>1, <3>1 DEF Tidy
  <2>8. ASSUME NEW b \in DOMAIN blocks, NEW k \in DOMAIN Code(b), NEW n \in DOMAIN Args(b, k),
               IsTemporary(Args(b, k)[n])
        PROVE  /\ \E l \in 1 .. k - 1 : Args(b, k)[n] \in Results(b, l)
               /\ UsedOnce(Args(b, k)[n], b, k, n)
    <3> DEFINE t == Args(b, k)[n]
    <3>1. Uses(blocks, t, b, k, n)
      BY <2>6, <2>8
    <3>2. IsTemporary(t)
      BY <2>8
    <3> HIDE DEF t
    <3>3. PICK l : Produces(blocks, t, b, l) /\ l < k
      BY <2>1, <3>1 DEF Tidy
    <3>4. l \in 1 .. k - 1 /\ t \in Results(b, l)
      <4>1. l \in 1 .. Len(Code(b)) /\ t \in Results(b, l)
        BY <3>3 DEF Produces, Spot, Code, Results
      <4> QED
        BY <2>4, <3>3, <4>1
    <3>5. UsedOnce(t, b, k, n)
      <4> SUFFICES ASSUME NEW c \in DOMAIN blocks, NEW l2 \in DOMAIN Code(c),
                          NEW m \in DOMAIN Args(c, l2), Args(c, l2)[m] = t
                   PROVE  c = b /\ l2 = k /\ m = n
        BY DEF UsedOnce
      <4>1. Uses(blocks, t, c, l2, m)
        BY <2>6, <3>2
      <4> QED
        BY <2>1, <3>1, <4>1 DEF Tidy
    <3> QED
      BY <3>4, <3>5 DEF t
  <2> QED
    BY <2>7, <2>8 DEF TemporariesStayInBlock
<1> QED
  BY <1>1, Invariance, PTL
=============================================================================
