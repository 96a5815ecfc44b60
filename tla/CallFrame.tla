----------------------------- MODULE CallFrame -----------------------------
(***************************************************************************)
(* The emitted program at work: the frames that calls build on the stack   *)
(* (visit(CallInstruction), getInstructions, the prologue and epilogue),   *)
(* the variables that stay in callee-saved registers meanwhile             *)
(* (saveVarsAndClear) and the strings that the code appends to the heap    *)
(* (getTargetCode, visit(BuiltinCallInstruction)).                         *)
(*                                                                         *)
(* An action is what one visit emits, up to a jump.  The memory has one    *)
(* cell for a word of the stack and one for a byte of the heap.  A         *)
(* variable is a parameter, a local variable or a temporary.  It is in a   *)
(* callee-saved register if the function has mapped it to one, else in its *)
(* cell: caller-saved registers are empty whenever a call is made, and     *)
(* AsmGenerator is about them.                                             *)
(***************************************************************************)
EXTENDS FrameLayout

CONSTANTS
  Scratch,      \* the callee-saved registers that getFreeRegister hands out in a function
  MaxDepth,     \* bound: calls in progress
  MaxSteps      \* bound: statements executed, not counting returns

ASSUME BoundsAssumption ==
  Scratch \in [Functions -> SUBSET SavedRegisters] /\ {MaxDepth, MaxSteps} \subseteq Nat

VARIABLES
  mem, sp, fp, ra, gp,
  v0, v1,       \* R2 and R3: results, and the copy routine's pointers
  args,         \* the parameter registers
  saved,        \* the callee-saved registers
  here,         \* the function whose code is executed
  doing,        \* where in it
  frames,       \* for every call in progress its variables in registers (reg), and, as
                \* history, its function and frame pointer (f, frame) and the registers
                \* that hold a variable of a caller which no call has saved (owed)
  scope,        \* history: the variables assigned so far, for every call in progress
  left          \* bound: statements left

vars == <<mem, sp, fp, ra, gp, v0, v1, args, saved, here, doing, frames, scope, left>>

Write(cells) == mem' = [c \in DOMAIN mem |-> IF c \in DOMAIN cells THEN cells[c] ELSE mem[c]]

Init ==
  /\ mem = InitialMemory
  /\ sp = MemorySize /\ fp = MemorySize /\ ra = 0 /\ gp = Base
  /\ v0 = 0 /\ v1 = 0
  /\ args = [n \in 1 .. ParamRegisters |-> 0] /\ saved = [r \in SavedRegisters |-> 0]
  /\ here = Main /\ doing = [Idle EXCEPT !.step = "enter"]
  /\ frames = <<>> /\ scope = <<>> /\ left = MaxSteps

-----------------------------------------------------------------------------
(* The register table, as far as it concerns callee-saved registers *)

Top == frames[Len(frames)]
Held == DOMAIN Top.reg
InUse(frame) == {frame.reg[i] : i \in DOMAIN frame.reg}
Retable(reg) == frames' = [frames EXCEPT ![Len(frames)].reg = reg]

InBody == doing.step = "body"
Here == scope[Len(scope)]
Count == left > 0 /\ left' = left - 1
Assigned(i) == scope' = [scope EXCEPT ![Len(scope)] = @ \cup {i}]

\* getRegister: where the variable is mapped, else from its cell.
Value(i) == IF i \in Held THEN saved[Top.reg[i]] ELSE mem[Cell(here, i, fp)]

\* A result, and what is written to the heap beside it.
Result(i, v, heap) ==
  /\ Write([c \in DOMAIN heap \cup {Cell(here, j, fp) : j \in {i} \ Held} |->
       IF c \in DOMAIN heap THEN heap[c] ELSE v])
  /\ saved' = [r \in SavedRegisters |-> IF i \in Held /\ Top.reg[i] = r THEN v ELSE saved[r]]
  /\ Assigned(i)

\* Variables are stored to their cells.
Store(held) ==
  Write([c \in {Cell(here, i, fp) : i \in held} |->
    saved[Top.reg[CHOOSE i \in held : Cell(here, i, fp) = c]]])

\* getRegister maps a variable to a free register, which the function records.
Load(i, r) ==
  /\ InBody /\ Count /\ i \notin Held /\ r \in Recorded(here) \ InUse(Top)
  /\ saved' = [saved EXCEPT ![r] = mem[Cell(here, i, fp)]]
  /\ Retable([j \in Held \cup {i} |-> IF j = i THEN r ELSE Top.reg[j]])
  /\ UNCHANGED <<mem, sp, fp, ra, gp, v0, v1, args, here, doing, scope>>

\* removeVictim takes one variable back to its cell, the end of a block all of them
\* (saveUnsavedVariables; the next block starts with an empty table).
Unload(held) ==
  /\ InBody /\ Count /\ held # {} /\ Store(held)
  /\ Retable([j \in Held \ held |-> Top.reg[j]])
  /\ UNCHANGED <<sp, fp, ra, gp, v0, v1, args, saved, here, doing, scope>>

\* An instruction writes a register that holds no variable of its function: one that
\* is recorded, or the scratch register, which is not.  If it is a register that a
\* caller relies on, the program goes on with a wrong value; the model stops.
UseRegister(r, w) ==
  /\ InBody /\ Count /\ r \in (Recorded(here) \cup Scratch[here]) \ InUse(Top)
  /\ saved' = [saved EXCEPT ![r] = w]
  /\ doing' = IF r \in Top.owed THEN [Idle EXCEPT !.step = "spoilt"] ELSE doing
  /\ UNCHANGED <<mem, sp, fp, ra, gp, v0, v1, args, here, frames, scope>>

-----------------------------------------------------------------------------
(* Calls *)

\* Prologue and entry code.
Enter ==
  LET frame == sp - 2
      f == here
  IN
  /\ doing.step = "enter"
  /\ sp' = frame - Slots(f) - Len(Uses[f]) /\ sp' > gp
  /\ fp' = frame
  /\ Write([c \in {sp - 1, frame}
                  \cup {Cell(f, i, frame) : i \in 1 .. InRegisters(f)}
                  \cup {SaveCell(f, n, frame) : n \in DOMAIN Uses[f]} |->
       IF c = sp - 1 THEN ra
       ELSE IF c = frame THEN fp
       ELSE IF c >= frame - InRegisters(f)
       THEN args[CHOOSE i \in 1 .. InRegisters(f) : Cell(f, i, frame) = c]
       ELSE saved[Uses[f][CHOOSE n \in DOMAIN Uses[f] : SaveCell(f, n, frame) = c]]])
  /\ doing' = Idle
  /\ frames' = Append(frames,
       [f |-> f, frame |-> frame, reg |-> <<>>,
        owed |-> IF frames = <<>> THEN {} ELSE (Top.owed \cup InUse(Top)) \ Recorded(f)])
  /\ scope' = Append(scope, 1 .. Params[f])
  /\ UNCHANGED <<ra, gp, v0, v1, args, saved, here, left>>

\* Variables in callee-saved registers stay there.
Call(s) ==
  LET site == Sites[s]
      f == site.callee
      bottom == sp - RequiredSize(f)
  IN
  /\ InBody /\ Count /\ Len(scope) < MaxDepth
  /\ site.caller = here /\ \A n \in DOMAIN site.args : site.args[n] \in Here
  /\ bottom > gp
  /\ Write([c \in bottom .. sp - 1 |->
       IF c = sp - 1 THEN gp ELSE Value(site.args[InRegisters(f) + 1 + c - bottom])])
  /\ args' = [n \in DOMAIN args |-> IF n <= InRegisters(f) THEN Value(site.args[n]) ELSE args[n]]
  /\ sp' = bottom /\ ra' = s
  /\ here' = f /\ doing' = [Idle EXCEPT !.step = "enter"]
  /\ UNCHANGED <<fp, gp, v0, v1, saved, frames, scope>>

\* Mutant of Epilogue: the frame link stays on the stack.
EpilogueKeepingLink == ra' = mem[fp + 1] /\ sp' = fp /\ fp' = mem[fp]

\* Mutant of Epilogue: the frame pointer is restored before it is used.
EpilogueReordered == ra' = mem[fp + 1] /\ sp' = mem[fp] + 2 /\ fp' = mem[fp]

Epilogue == ra' = mem[fp + 1] /\ sp' = fp + 2 /\ fp' = mem[fp]

\* A return: variables are stored, the result, the restored registers, the epilogue.
Leave(i) ==
  /\ InBody /\ i \in Here \cap Variables(here, Returns[here])
  /\ Store(Held) /\ v0' = Value(i)
  /\ saved' = [r \in SavedRegisters |->
       IF r \in Recorded(here)
       THEN mem'[SaveCell(here, CHOOSE n \in DOMAIN Uses[here] : Uses[here][n] = r, fp)]
       ELSE saved[r]]
  /\ Epilogue
  /\ doing' = [Idle EXCEPT !.step = IF ra' = 0 THEN "stopped" ELSE "returned"]
  /\ here' = IF ra' \in DOMAIN Sites THEN Sites[ra'].caller ELSE Main
  /\ frames' = SubSeq(frames, 1, Len(frames) - 1)
  /\ scope' = SubSeq(scope, 1, Len(scope) - 1)
  /\ UNCHANGED <<gp, v1, args, left>>

\* The code after the JAL: the caller's heap and stack are back.
AfterCall(s) ==
  LET site == Sites[s]
      required == RequiredSize(site.callee)
      heap == mem[sp + required - 1]
  IN
  /\ doing.step = "returned" /\ ra = s
  /\ gp' = heap /\ sp' = sp + required
  /\ \/ /\ IsString(here, site.dest)
        /\ v1' = v0 /\ v0' = heap /\ ra' = Clobbered
        /\ doing' = State("receive", site.dest, heap, s, 0)
        /\ UNCHANGED <<mem, saved, scope>>
     \/ /\ ~IsString(here, site.dest) /\ site.dest # 0
        /\ Result(site.dest, v0, <<>>)
        /\ doing' = Idle /\ UNCHANGED <<v0, v1, ra>>
     \/ /\ site.dest = 0
        /\ doing' = Idle /\ UNCHANGED <<mem, v0, v1, ra, saved, scope>>
  /\ UNCHANGED <<fp, args, here, frames, left>>

-----------------------------------------------------------------------------
(* Strings *)

\* Mutant of Advance: the next string begins at this one's 0.
AdvanceToZero == gp' = (IF mem[v1] = 0 THEN gp ELSE gp + 1) /\ v1' = v1 + 1

Advance == gp' = gp + 1 /\ v1' = v1 + 1

\* $MOVE_R2_TO_GP$: from R3 to gp, one byte after the other, up to a 0.
CopyByte ==
  /\ doing.step \in {"first", "second", "set", "receive"}
  /\ gp < sp
  /\ Write([c \in {gp} |-> mem[v1]])
  /\ Advance
  /\ doing' = [doing EXCEPT !.step = IF mem[v1] = 0 THEN Then(@) ELSE @]
  /\ args' = [args EXCEPT ![1] = mem[v1]]
  /\ UNCHANGED <<sp, fp, ra, v0, saved, here, frames, scope, left>>

\* JAL $MOVE_R2_TO_GP$ with R2 = from; the new string starts at doing.at.
StartCopy(step, dest, from, x, c) ==
  /\ v1' = from /\ v0' = gp /\ ra' = Clobbered
  /\ doing' = State(step, dest, gp, x, c)
  /\ UNCHANGED <<mem, sp, fp, gp, args, saved, here, frames, scope>>

Strcat(i, j, k) ==
  /\ InBody /\ Count /\ {j, k} \subseteq Here
  /\ StartCopy("first", i, Value(j), Value(k), 0)

\* strcat: the second string is appended where the first one's 0 is.
Join ==
  /\ doing.step = "join"
  /\ gp' = gp - 1 /\ v0' = gp - 1 /\ v1' = doing.x /\ ra' = Clobbered
  /\ doing' = [doing EXCEPT !.step = "second"]
  /\ UNCHANGED <<mem, sp, fp, args, saved, here, frames, scope, left>>

\* Characters are counted from 0; positions outside the string are not considered.
SetAt(i, j, c) ==
  /\ InBody /\ Count /\ j \in Here
  /\ \E n \in 0 .. Len(StringAt(mem, Value(j))) - 1 : StartCopy("set", i, Value(j), n, c)

\* The copy is complete; its address is the variable's value.
Finish(p, cells) ==
  /\ Result(doing.dest, p, [c \in cells |-> doing.c]) /\ doing' = Idle
  /\ UNCHANGED <<sp, fp, ra, gp, v0, v1, args, here, frames, left>>

Place == doing.step = "place" /\ Finish(doing.at, {doing.at + doing.x})
EndCopy ==
  \/ doing.step = "finish" /\ Finish(doing.at, {})
  \/ doing.step = "received" /\ Finish(v0, {})

\* Mutant of Cast: without the 0.
CastUnterminated(i, c) ==
  /\ InBody /\ Count /\ gp + 1 <= sp
  /\ Result(i, gp, [a \in {gp} |-> c]) /\ gp' = gp + 1
  /\ UNCHANGED <<sp, fp, ra, v0, v1, args, here, doing, frames>>

\* A cast of a character to a string.
Cast(i, c) ==
  /\ InBody /\ Count /\ gp + 2 <= sp
  /\ Result(i, gp, [a \in {gp, gp + 1} |-> IF a = gp THEN c ELSE 0]) /\ gp' = gp + 2
  /\ UNCHANGED <<sp, fp, ra, v0, v1, args, here, doing, frames>>

\* READ_STRING leaves a line of input at its first register, its length in the second.
Input(line) ==
  [a \in gp .. gp + Len(line) |-> IF a < gp + Len(line) THEN line[a - gp + 1] ELSE 0]

ReadString(i, line) ==
  /\ InBody /\ Count /\ gp + Len(line) + 1 <= sp
  /\ Result(i, gp, Input(line)) /\ gp' = gp + Len(line) + 1
  /\ args' = [args EXCEPT ![1] = Len(line)]
  /\ UNCHANGED <<sp, fp, ra, v0, v1, here, doing, frames>>

\* A line that nobody uses lies where the next string will be.
SkipLine(line) ==
  /\ InBody /\ Count /\ gp + Len(line) + 1 <= sp
  /\ Write(Input(line)) /\ v0' = Len(line)
  /\ UNCHANGED <<sp, fp, ra, gp, v1, args, saved, here, doing, frames, scope>>

-----------------------------------------------------------------------------
(* The program *)

\* An instruction with a result that is no new string.
SetVariable(i, v) ==
  /\ InBody /\ Count /\ Result(i, v, <<>>)
  /\ UNCHANGED <<sp, fp, ra, gp, v0, v1, args, here, doing, frames>>

\* What register allocation does between statements.
Allocate ==
  \/ \E i \in DOMAIN Kinds[here], r \in SavedRegisters : Load(i, r)
  \/ \E i \in Held : Unload({i})
  \/ Unload(Held)
  \/ \E r \in SavedRegisters, w \in Words : UseRegister(r, w)

Statement ==
  \/ \E s \in DOMAIN Sites : Call(s)
  \/ \E i \in Variables(here, "word"), w \in Words : SetVariable(i, w)
  \/ \E line \in Lines : SkipLine(line)
  \/ \E i \in Variables(here, "string") :
       \/ \E p \in Pointers : SetVariable(i, p)
       \/ \E c \in Chars : Cast(i, c)
       \/ \E line \in Lines : ReadString(i, line)
       \/ \E j, k \in Variables(here, "string") : Strcat(i, j, k)
       \/ \E j \in Variables(here, "string"), c \in Chars : SetAt(i, j, c)

\* What follows from what has been started.
Continue ==
  \/ Enter \/ CopyByte \/ Join \/ Place \/ EndCopy
  \/ \E s \in DOMAIN Sites : AfterCall(s)

Next ==
  \/ InBody /\ Allocate
  \/ Statement \/ Continue
  \/ \E i \in DOMAIN Kinds[here] : Leave(i)

\* The processor executes one instruction after the other; which statement comes
\* next is left to the program.
Spec == Init /\ [][Next]_vars /\ WF_vars(Continue)

-----------------------------------------------------------------------------
(* Properties *)

\* Types of all variables; heap, stack and frame lie in this order.
TypeOK ==
  /\ mem \in [0 .. MemorySize - 1 -> Int] /\ {sp, fp, ra, gp, v0, v1} \subseteq Int
  /\ Base <= gp /\ gp <= sp /\ sp <= fp /\ fp <= MemorySize
  /\ args \in [1 .. ParamRegisters -> Int] /\ saved \in [SavedRegisters -> Int]
  /\ here \in Functions
  /\ doing \in [step : {"enter", "body", "first", "join", "second", "set", "place", "finish",
                        "receive", "received", "returned", "stopped", "spoilt"},
                 dest : Nat, at : Int, x : Int, c : Int]
  /\ scope \in Seq(SUBSET Nat) /\ left \in Nat
  /\ Len(frames) = Len(scope)
  /\ \A k \in DOMAIN frames :
       /\ DOMAIN frames[k].reg \subseteq DOMAIN Kinds[frames[k].f]
       /\ InUse(frames[k]) \subseteq Recorded(frames[k].f)

\* Whatever is called, with arguments on the stack or not, a function finds the stack
\* pointer where its entry code has put it.
StackBalanced ==
  doing.step \notin {"enter", "returned", "stopped"} =>
    sp = fp - Slots(here) - Len(Uses[here])

\* Register r of call k is in the cell where the next call that uses it has saved it.
Register(k, r) ==
  LET savers == {j \in k + 1 .. Len(frames) : r \in Recorded(frames[j].f)}
      j == CHOOSE j \in savers : \A l \in savers : j <= l
      n == CHOOSE n \in DOMAIN Uses[frames[j].f] : Uses[frames[j].f][n] = r
  IN  IF savers = {} THEN saved[r] ELSE mem[SaveCell(frames[j].f, n, frames[j].frame)]

\* The memory as it would be with every variable in its cell.
Away == UNION {{<<k, i>> : i \in DOMAIN frames[k].reg} : k \in DOMAIN frames}
CellOf(v) == Cell(frames[v[1]].f, v[2], frames[v[1]].frame)
Stored ==
  [c \in DOMAIN mem |->
     IF \E v \in Away : CellOf(v) = c
     THEN LET v == CHOOSE v \in Away : CellOf(v) = c IN Register(v[1], frames[v[1]].reg[v[2]])
     ELSE mem[c]]

\* The same program with every variable at home, and what it says of calls and strings.
Home == INSTANCE HomeFrame WITH mem <- Stored
Language == INSTANCE Activations WITH
  calls <- Home!CallsInProgress, result <- Home!InTransit, Literals <- Lines

\* A scratch register has been taken from a caller.
Spoilt == doing.step = "spoilt"

\* Calls do what the language says: every call has its own variables, in registers or
\* not, and gets its arguments by value, a returned string is whole although it is moved
\* onto the heap that its maker has given back, the caller finds its variables and its
\* heap as they were.  The one exception is the step that takes a caller's register as
\* scratch register (getFreeRegister): nothing is said of what follows it.
ImplementsActivations == Language!Init /\ [][Language!Next \/ Spoilt']_(Language!vars)

\* Copying comes to an end, and so does every call sequence, also when a string is
\* copied to where it overlaps itself.
Rests == doing.step \in {"body", "stopped", "spoilt"}
CopiesEnd == ~Rests ~> Rests

\* What every call in progress can still use of the heap lies below its heap pointer,
\* and ends there: nothing that is appended later can change it.
StringsBelowHeap == ~Spoilt => Home!StringsBelowHeap
=============================================================================
