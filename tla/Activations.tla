---------------------------- MODULE Activations ----------------------------
(***************************************************************************)
(* What a program means while its functions call each other: every call    *)
(* has variables of its own (parameters, local variables and whatever else *)
(* it keeps), arguments are passed by value, strings are values, and the   *)
(* heap that a call has used is free again afterwards.                     *)
(***************************************************************************)
EXTENDS Integers, Sequences

CONSTANTS
  Main,
  Sites,     \* the calls in the program's text: [caller, callee, args, dest]
  Kinds,     \* of the parameters and then the local variables of every function
  Returns,   \* the kind of a function's result
  Words, Chars,
  Literals   \* strings, each a sequence of Chars

VARIABLES
  calls,     \* the calls in progress, the innermost last
  result     \* <<v>> while the value v is on its way to the caller

vars == <<calls, result>>

\* The call made at site by; used is how much of the heap is taken.
Activation(f, by, env, used) == [f |-> f, by |-> by, env |-> env, used |-> used]

Variables(f, kind) == {i \in DOMAIN Kinds[f] : Kinds[f][i] = kind}
Known(a, kind) == DOMAIN a.env \cap Variables(a.f, kind)

Init == calls = <<>> /\ result = <<>>

-----------------------------------------------------------------------------
(* A statement of activation a makes it b. *)

\* Variable i becomes v, for which n cells of the heap are taken.
Put(a, i, v, n) ==
  [a EXCEPT !.used = @ + n,
            !.env = [j \in DOMAIN @ \cup {i} |-> IF j = i THEN v ELSE @[j]]]

\* A string that did not exist before.
PutNew(a, i, s) == Put(a, i, s, Len(s) + 1)

SetWord(a, b) == \E i \in Variables(a.f, "word"), w \in Words : b = Put(a, i, w, 0)

SetString(a, b, i) ==
  \/ \E s \in Literals : b = Put(a, i, s, 0)
  \/ \E c \in Chars : b = PutNew(a, i, <<c>>)
  \/ \E line \in Literals : b = PutNew(a, i, line)

\* strcat, and set_at, which counts characters from 0.
SetComposed(a, b, i) ==
  \E j \in Known(a, "string") :
    \/ \E k \in Known(a, "string") : b = PutNew(a, i, a.env[j] \o a.env[k])
    \/ \E n \in DOMAIN a.env[j], c \in Chars : b = PutNew(a, i, [a.env[j] EXCEPT ![n] = c])

Statement(a, b) ==
  \/ SetWord(a, b)
  \/ \E i \in Variables(a.f, "string") : SetString(a, b, i) \/ SetComposed(a, b, i)

-----------------------------------------------------------------------------
(* The calls in progress, old, become new. *)

\* The function main is called once.
Start(old, new) ==
  old = <<>> /\ new = <<Activation(Main, 0, <<>>, 0)>>

Execute(old, new) ==
  /\ old # <<>> /\ Len(new) = Len(old)
  /\ SubSeq(new, 1, Len(old) - 1) = SubSeq(old, 1, Len(old) - 1)
  /\ Statement(old[Len(old)], new[Len(old)])

\* What activation a calls at s.
Callee(a, s) ==
  Activation(Sites[s].callee, s,
             [n \in DOMAIN Sites[s].args |-> a.env[Sites[s].args[n]]], a.used)

Call(old, new, s) ==
  /\ old # <<>> /\ Sites[s].caller = old[Len(old)].f
  /\ \A n \in DOMAIN Sites[s].args : Sites[s].args[n] \in DOMAIN old[Len(old)].env
  /\ new = Append(old, Callee(old[Len(old)], s))

\* The caller is as it was.
Return(old, new, r) ==
  /\ old # <<>> /\ new = SubSeq(old, 1, Len(old) - 1)
  /\ \E i \in Known(old[Len(old)], Returns[old[Len(old)].f]) :
       r = <<[by |-> old[Len(old)].by, value |-> old[Len(old)].env[i]]>>

\* A string becomes one of the caller's own.
Receive(old, new, by, v) ==
  /\ old # <<>>
  /\ new = [old EXCEPT ![Len(old)] =
       IF Sites[by].dest = 0 THEN @
       ELSE IF Kinds[Sites[by].caller][Sites[by].dest] = "string" THEN PutNew(@, Sites[by].dest, v)
       ELSE Put(@, Sites[by].dest, v, 0)]

Goes(old, new) ==
  \/ Start(old, new) \/ Execute(old, new)
  \/ \E s \in DOMAIN Sites : Call(old, new, s)

Next ==
  \/ result = <<>> /\ result' = <<>> /\ Goes(calls, calls')
  \/ result = <<>> /\ Return(calls, calls', result')
  \/ result # <<>> /\ result' = <<>> /\ Receive(calls, calls', result[1].by, result[1].value)

Spec == Init /\ [][Next]_vars
=============================================================================
