---------------------------- MODULE SourceProgram ----------------------------
(***************************************************************************)
(* What the body of a function means, from its text alone: statements run  *)
(* in the order they are written, one branch of an if runs, a loop repeats *)
(* while its condition holds, a return ends the function.  An expression   *)
(* performs its operations in postorder, operands from left to right.      *)
(*                                                                         *)
(* The text is a sequence of nodes [kind, expr], with "else" and "end"     *)
(* closing the parts of the constructs.  The assignments in the head of a  *)
(* for are nodes of their own: the first one before the "for" node, the    *)
(* iteration at the end of the body.                                       *)
(***************************************************************************)
EXTENDS Integers, Sequences, FiniteSets

CONSTANTS Operations, One, Default

VARIABLES
  text,     \* the body
  running,  \* the text is complete and the function has been called
  last,     \* the latest thing done: an operation of a node, or the node itself
  beat      \* alternates with every such thing

vars == <<text, running, last, beat>>

Begin == [node |-> 0, step |-> 1, holds |-> TRUE, value |-> <<>>]

Opening == {"if", "while", "for"}
IsOpening(i) == text[i].kind \in Opening
IsEnd(i) == text[i].kind = "end"

\* How many constructs enclose node i; a construct's own nodes have equal levels.
Level(i) == Cardinality({j \in 1 .. i : IsOpening(j)})
            - Cardinality({j \in 1 .. i - 1 : IsEnd(j)})

Closing(i) ==
  CHOOSE j \in i + 1 .. Len(text) :
    /\ IsEnd(j) /\ Level(j) = Level(i)
    /\ \A k \in i + 1 .. j - 1 : IsEnd(k) => Level(k) # Level(i)

Otherwise(i) ==
  CHOOSE j \in i .. Closing(i) : text[j].kind = "else" /\ Level(j) = Level(i)

Opener(j) ==
  CHOOSE i \in 1 .. j : IsOpening(i) /\ Closing(i) = j

\* The operations of node i's expression after its k-th operand or operation.
Pending(i, k) == {j \in k + 1 .. Len(text[i].expr) : text[i].expr[j] \in Operations}

\* The iteration of a for may be a mere expression, whose value nobody wants.
IsDiscard(i) == text[i].kind = "discard"

\* Control comes to node i: the node at which something happens next, 0 at the end.
Reach[i \in 1 .. Len(text) + 1] ==
  IF i > Len(text) THEN 0
  ELSE IF text[i].kind = "else" THEN Reach[Closing(i) + 1]
  ELSE IF IsDiscard(i) /\ Pending(i, 0) = {} THEN Reach[i + 1]
  ELSE IF ~IsEnd(i) THEN i
  ELSE IF text[Opener(i)].kind = "if" THEN Reach[i + 1] ELSE Opener(i)

\* The node after node i, whose condition, if it has one, was as holds says.
After(i, holds) ==
  IF holds THEN Reach[i + 1]
  ELSE IF text[i].kind = "if" THEN Reach[Otherwise(i) + 1] ELSE Reach[Closing(i) + 1]

\* The next operation of node i after its k-th or, as step 0, what the node does
\* with the value of its expression.
Event(i, k) ==
  IF i = 0 THEN [node |-> 0, step |-> 0, value |-> <<Default>>]
  ELSE IF Pending(i, k) = {} THEN [node |-> i, step |-> 0, value |-> text[i].expr]
  ELSE LET j == CHOOSE j \in Pending(i, k) : \A m \in Pending(i, k) : j <= m
       IN  [node |-> i, step |-> j, value |-> <<text[i].expr[j]>>]

IsDone(l) == l.step = 0 \/ (l.node # 0 /\ IsDiscard(l.node) /\ Pending(l.node, l.step) = {})

Upcoming ==
  IF last = Begin THEN Event(Reach[1], 0)
  ELSE IF IsDone(last) THEN Event(After(last.node, last.holds), 0)
  ELSE Event(last.node, last.step)

Returned == last.step = 0 /\ (last.node = 0 \/ text[last.node].kind = "return")

\* A constant one is true, as is the condition of a for that has none.
Outcomes(e) ==
  IF e.node # 0 /\ e.step = 0 /\ IsOpening(e.node) /\ e.value # <<One>>
  THEN BOOLEAN ELSE {TRUE}

-----------------------------------------------------------------------------
Init == text = <<>> /\ running = FALSE /\ last = Begin /\ beat = FALSE

\* Before the function is called its text is anything.
Write == ~running /\ UNCHANGED <<last, beat>>

Happen(e) ==
  \E holds \in Outcomes(e) :
    last' = [node |-> e.node, step |-> e.step, holds |-> holds, value |-> e.value]

Step ==
  /\ running /\ ~Returned /\ UNCHANGED <<text, running>>
  /\ beat' = ~beat /\ Happen(Upcoming)

Next == Write \/ Step

Spec == Init /\ [][Next]_vars

\* A call neither stops in the middle, nor runs on without doing anything.
Proceeds ==
  \A b \in BOOLEAN : (running /\ ~Returned /\ beat = b) ~> (beat # b)
=============================================================================
