----------------------------- MODULE HomeFrame -----------------------------
(***************************************************************************)
(* The emitted program as it would be without register tables: every       *)
(* variable is in its cell of the frame all the time, and a callee-saved   *)
(* register holds anything at all.  CallFrame, which keeps variables in    *)
(* registers as the code does, implements it: Activations is reached in    *)
(* two steps.                                                              *)
(***************************************************************************)
EXTENDS FrameLayout

VARIABLES
  mem, sp, fp, ra, gp,
  v0, v1,       \* R2 and R3: results, and the copy routine's pointers
  args,         \* the parameter registers
  saved,        \* the callee-saved registers
  here,         \* the function whose code is executed
  doing,        \* where in it
  scope         \* history: the variables assigned so far, for every call in progress

registers == <<sp, fp, ra, gp, v0, v1, args, saved>>
vars == <<mem, registers, here, doing, scope>>

Write(cells) == mem' = [c \in DOMAIN mem |-> IF c \in DOMAIN cells THEN cells[c] ELSE mem[c]]
AnyRegisters == saved' \in [SavedRegisters -> Int]

Var(i) == mem[Cell(here, i, fp)]

Init ==
  /\ mem = InitialMemory
  /\ sp = MemorySize /\ fp = MemorySize /\ ra = 0 /\ gp = Base
  /\ v0 = 0 /\ v1 = 0
  /\ args = [n \in 1 .. ParamRegisters |-> 0] /\ saved = [r \in SavedRegisters |-> 0]
  /\ here = Main /\ doing = [Idle EXCEPT !.step = "enter"]
  /\ scope = <<>>

-----------------------------------------------------------------------------
(* Calls *)

\* Prologue and entry code.
Enter ==
  LET frame == sp - 2
      f == here
  IN
  /\ doing.step = "enter"
  /\ sp' = frame - Slots(f) - Len(Uses[f]) /\ sp' > gp
  /\ fp' = frame
  /\ Write([c \in {sp - 1, frame}
                  \cup {Cell(f, i, frame) : i \in 1 .. InRegisters(f)}
                  \cup {SaveCell(f, n, frame) : n \in DOMAIN Uses[f]} |->
       IF c = sp - 1 THEN ra
       ELSE IF c = frame THEN fp
       ELSE IF c >= frame - InRegisters(f)
       THEN args[CHOOSE i \in 1 .. InRegisters(f) : Cell(f, i, frame) = c]
       ELSE saved[Uses[f][CHOOSE n \in DOMAIN Uses[f] : SaveCell(f, n, frame) = c]]])
  /\ doing' = Idle
  /\ scope' = Append(scope, 1 .. Params[f])
  /\ UNCHANGED <<ra, gp, v0, v1, args, saved, here>>

InBody == doing.step = "body"
Here == scope[Len(scope)]
Assigned(i) == scope' = [scope EXCEPT ![Len(scope)] = @ \cup {i}]

Call(s) ==
  LET site == Sites[s]
      f == site.callee
      bottom == sp - RequiredSize(f)
  IN
  /\ InBody
  /\ site.caller = here /\ \A n \in DOMAIN site.args : site.args[n] \in Here
  /\ bottom > gp
  /\ Write([c \in bottom .. sp - 1 |->
       IF c = sp - 1 THEN gp ELSE Var(site.args[InRegisters(f) + 1 + c - bottom])])
  /\ args' = [n \in DOMAIN args |-> IF n <= InRegisters(f) THEN Var(site.args[n]) ELSE args[n]]
  /\ sp' = bottom /\ ra' = s
  /\ here' = f /\ doing' = [Idle EXCEPT !.step = "enter"]
  /\ UNCHANGED <<fp, gp, v0, v1, saved, scope>>

Epilogue == ra' = mem[fp + 1] /\ sp' = fp + 2 /\ fp' = mem[fp]

\* A return: the result and the epilogue.
Leave(i) ==
  /\ InBody /\ i \in Here \cap Variables(here, Returns[here])
  /\ v0' = Var(i)
  /\ AnyRegisters /\ Epilogue
  /\ doing' = [Idle EXCEPT !.step = IF ra' = 0 THEN "stopped" ELSE "returned"]
  /\ here' = IF ra' \in DOMAIN Sites THEN Sites[ra'].caller ELSE Main
  /\ scope' = SubSeq(scope, 1, Len(scope) - 1)
  /\ UNCHANGED <<mem, gp, v1, args>>

\* The code after the JAL: the caller's heap and stack are back.
AfterCall(s) ==
  LET site == Sites[s]
      required == RequiredSize(site.callee)
      heap == mem[sp + required - 1]
  IN
  /\ doing.step = "returned" /\ ra = s
  /\ gp' = heap /\ sp' = sp + required
  /\ IF IsString(here, site.dest)
     THEN /\ v1' = v0 /\ v0' = heap /\ ra' = Clobbered
          /\ doing' = State("receive", site.dest, heap, s, 0)
          /\ UNCHANGED <<mem, scope>>
     ELSE /\ Write([c \in {Cell(here, i, fp) : i \in {site.dest} \ {0}} |-> v0])
          /\ scope' = [scope EXCEPT ![Len(scope)] = @ \cup ({site.dest} \ {0})]
          /\ doing' = Idle /\ UNCHANGED <<v0, v1, ra>>
  /\ AnyRegisters /\ UNCHANGED <<fp, args, here>>

-----------------------------------------------------------------------------
(* Strings *)

\* $MOVE_R2_TO_GP$: from R3 to gp, one byte after the other, up to a 0.
Advance == gp' = gp + 1 /\ v1' = v1 + 1

CopyByte ==
  /\ doing.step \in {"first", "second", "set", "receive"}
  /\ gp < sp
  /\ Write([c \in {gp} |-> mem[v1]])
  /\ Advance
  /\ doing' = [doing EXCEPT !.step = IF mem[v1] = 0 THEN Then(@) ELSE @]
  /\ args' = [args EXCEPT ![1] = mem[v1]]
  /\ UNCHANGED <<sp, fp, ra, v0, saved, here, scope>>

\* JAL $MOVE_R2_TO_GP$ with R2 = from; the new string starts at doing.at.
StartCopy(step, dest, from, x, c) ==
  /\ v1' = from /\ v0' = gp /\ ra' = Clobbered
  /\ doing' = State(step, dest, gp, x, c)
  /\ UNCHANGED <<mem, sp, fp, gp, args, saved, here, scope>>

Strcat(i, j, k) ==
  /\ InBody /\ {j, k} \subseteq Here
  /\ StartCopy("first", i, Var(j), Var(k), 0)

\* strcat: the second string is appended where the first one's 0 is.
Join ==
  /\ doing.step = "join"
  /\ gp' = gp - 1 /\ v0' = gp - 1 /\ v1' = doing.x /\ ra' = Clobbered
  /\ doing' = [doing EXCEPT !.step = "second"]
  /\ UNCHANGED <<mem, sp, fp, args, saved, here, scope>>

\* Characters are counted from 0; positions outside the string are not considered.
SetAt(i, j, c) ==
  /\ InBody /\ j \in Here
  /\ \E n \in 0 .. Len(StringAt(mem, Var(j))) - 1 : StartCopy("set", i, Var(j), n, c)

\* The copy is complete; its address is the variable's value.
Finish(p, cells) ==
  /\ Write([c \in cells \cup {Cell(here, doing.dest, fp)} |-> IF c \in cells THEN doing.c ELSE p])
  /\ Assigned(doing.dest) /\ doing' = Idle
  /\ AnyRegisters /\ UNCHANGED <<sp, fp, ra, gp, v0, v1, args, here>>

Place == doing.step = "place" /\ Finish(doing.at, {doing.at + doing.x})
EndCopy ==
  \/ doing.step = "finish" /\ Finish(doing.at, {})
  \/ doing.step = "received" /\ Finish(v0, {})

\* A cast of a character to a string.
Cast(i, c) ==
  /\ InBody /\ gp + 2 <= sp
  /\ Write([a \in {gp, gp + 1, Cell(here, i, fp)} |->
       IF a = gp THEN c ELSE IF a = gp + 1 THEN 0 ELSE gp])
  /\ gp' = gp + 2 /\ Assigned(i)
  /\ AnyRegisters /\ UNCHANGED <<sp, fp, ra, v0, v1, args, here, doing>>

\* READ_STRING leaves a line of input at its first register, its length in a0.
ReadString(i, line) ==
  LET n == Len(line)
  IN
  /\ InBody /\ gp + n + 1 <= sp
  /\ Write([a \in (gp .. gp + n) \cup {Cell(here, i, fp)} |->
       IF a < gp + n THEN line[a - gp + 1] ELSE IF a = gp + n THEN 0 ELSE gp])
  /\ args' = [args EXCEPT ![1] = n]
  /\ gp' = gp + n + 1 /\ Assigned(i)
  /\ AnyRegisters /\ UNCHANGED <<sp, fp, ra, v0, v1, here, doing>>

\* A line that nobody uses lies where the next string will be.
SkipLine(line) ==
  LET n == Len(line)
  IN
  /\ InBody /\ gp + n + 1 <= sp
  /\ Write([a \in gp .. gp + n |-> IF a < gp + n THEN line[a - gp + 1] ELSE 0])
  /\ v0' = n
  /\ UNCHANGED <<sp, fp, ra, gp, v1, args, saved, here, doing, scope>>

-----------------------------------------------------------------------------
(* Other statements *)

SetCell(i, v) ==
  /\ InBody /\ Write([c \in {Cell(here, i, fp)} |-> v]) /\ Assigned(i)
  /\ AnyRegisters /\ UNCHANGED <<sp, fp, ra, gp, v0, v1, args, here, doing>>

UseRegisters ==
  /\ InBody /\ AnyRegisters
  /\ UNCHANGED <<mem, sp, fp, ra, gp, v0, v1, args, here, doing, scope>>

-----------------------------------------------------------------------------
Statement ==
  \/ \E s \in DOMAIN Sites : Call(s)
  \/ \E i \in Variables(here, "word"), w \in Words : SetCell(i, w)
  \/ UseRegisters
  \/ \E line \in Lines : SkipLine(line)
  \/ \E i \in Variables(here, "string") :
       \/ \E p \in Pointers : SetCell(i, p)
       \/ \E c \in Chars : Cast(i, c)
       \/ \E line \in Lines : ReadString(i, line)
       \/ \E j, k \in Variables(here, "string") : Strcat(i, j, k)
       \/ \E j \in Variables(here, "string"), c \in Chars : SetAt(i, j, c)

\* What follows from what has been started.
Continue ==
  \/ Enter \/ CopyByte \/ Join \/ Place \/ EndCopy
  \/ \E s \in DOMAIN Sites : AfterCall(s)

Next ==
  \/ Statement \/ Continue
  \/ \E i \in DOMAIN Kinds[here] : Leave(i)

Spec == Init /\ [][Next]_vars

-----------------------------------------------------------------------------
(* Properties *)

\* The calls in progress as the frames on the stack tell: the chain of saved frame
\* pointers, the return addresses next to them, and what calls have saved.
Depth == Len(scope)

Frame[k \in 1 .. Depth] == IF k = Depth THEN fp ELSE mem[Frame[k + 1]]

Function(k, frame) ==
  IF k < Depth THEN Sites[mem[frame[k + 1] + 1]].caller
  ELSE IF doing.step = "enter" THEN Sites[ra].caller ELSE here

FunctionsIn(frame) == [k \in 1 .. Depth |-> Function(k, frame)]

Heap(k, frame, f) ==
  IF k < Depth THEN mem[frame[k + 1] + 1 + RequiredSize(f[k + 1])]
  ELSE CASE doing.step \in {"body", "enter"} -> gp
         [] doing.step = "returned" -> mem[sp + RequiredSize(Sites[ra].callee) - 1]
         [] OTHER -> doing.at

Meaning(kind, w) == IF kind = "string" THEN StringAt(mem, w) ELSE w

CallsIn(frame, f) ==
  [k \in 1 .. Depth |->
     [f |-> f[k], by |-> mem[frame[k] + 1],
      env |-> [i \in scope[k] |-> Meaning(Kinds[f[k]][i], mem[Cell(f[k], i, frame[k])])],
      used |-> Heap(k, frame, f) - Base]]

CallsInProgress == CallsIn(Frame, FunctionsIn(Frame))

\* While a returned string is copied, some of it is copied and some is not.
InTransit ==
  CASE doing.step = "stopped" -> <<[by |-> 0, value |-> Meaning(Returns[Main], v0)]>>
    [] doing.step = "returned" ->
         <<[by |-> ra, value |-> Meaning(Returns[Sites[ra].callee], v0)]>>
    [] doing.step = "receive" ->
         <<[by |-> doing.x, value |-> [n \in 1 .. gp - doing.at |-> mem[doing.at + n - 1]]
                                      \o StringAt(mem, v1)]>>
    [] doing.step = "received" ->
         <<[by |-> doing.x, value |-> StringAt(mem, doing.at)]>>
    [] OTHER -> <<>>

\* Types of all variables; heap, stack and frame lie in this order.
TypeOK ==
  /\ mem \in [0 .. MemorySize - 1 -> Int] /\ {sp, fp, ra, gp, v0, v1} \subseteq Int
  /\ Base <= gp /\ gp <= sp /\ sp <= fp /\ fp <= MemorySize
  /\ args \in [1 .. ParamRegisters -> Int] /\ saved \in [SavedRegisters -> Int]
  /\ here \in Functions
  /\ doing \in [step : {"enter", "body", "first", "join", "second", "set", "place", "finish",
                        "receive", "received", "returned", "stopped"},
                 dest : Nat, at : Int, x : Int, c : Int]
  /\ scope \in Seq(SUBSET Nat)

\* Whatever is called, with arguments on the stack or not, a function finds the stack
\* pointer where its entry code has put it.
StackBalanced ==
  doing.step \notin {"enter", "returned", "stopped"} =>
    sp = fp - Slots(here) - Len(Uses[here])

\* Calls do what the language says (Activations).
Language == INSTANCE Activations WITH
  calls <- CallsInProgress, result <- InTransit, Literals <- Lines
ImplementsActivations == Language!Spec

\* What every call in progress can still use of the heap lies below its heap pointer,
\* and ends there: nothing that is appended later can change it.
EndBelow(frame, f) ==
  \A k \in 1 .. Depth : \A i \in scope[k] \cap Variables(f[k], "string") :
    mem[Cell(f[k], i, frame[k])] + Len(StringAt(mem, mem[Cell(f[k], i, frame[k])]))
      < Heap(k, frame, f)
StringsBelowHeap == EndBelow(Frame, FunctionsIn(Frame))
=============================================================================
