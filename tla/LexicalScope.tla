---------------------------- MODULE LexicalScope ----------------------------
(***************************************************************************)
(* What the source language promises about variables: a variable is        *)
(* visible from its declaration to the end of the innermost block around   *)
(* it, a declaration in an inner block hides those of the outer ones, and  *)
(* one block declares a name once.                                         *)
(***************************************************************************)
EXTENDS Integers, Sequences

CONSTANTS Names, Types, Kinds

VARIABLES
  blocks,     \* the open blocks, outermost first, by their kinds
  variables,  \* the variables of the open blocks, as <<name, depth, type>>
  resolved    \* the variable the latest use of a name refers to

vars == <<blocks, variables, resolved>>

depth == Len(blocks)
Nowhere == <<>>   \* the name is not that of a visible variable

\* d is the visible declaration of x.
Visible(d, x) ==
  /\ d \in variables /\ d[1] = x
  /\ \A e \in variables : e[1] = x => e[2] <= d[2]

Init == blocks = <<>> /\ variables = {} /\ resolved = Nowhere

InnerGone == {d \in variables : d[2] < depth}

\* A block is opened; that of a function starts with its parameters.
Parameters == variables' \ variables
Open(kind) ==
  /\ blocks' = Append(blocks, kind)
  /\ variables \subseteq variables' /\ Parameters \subseteq Names \X {depth + 1} \X Types
  /\ \A d, e \in Parameters : d[1] = e[1] => d = e
  /\ UNCHANGED resolved

\* The innermost block is closed, and its variables are gone.
Close == /\ depth > 0 /\ blocks' = SubSeq(blocks, 1, depth - 1)
         /\ variables' = InnerGone /\ UNCHANGED resolved

\* The innermost block gives way to one beside it.
Switch(kind) == /\ depth > 0 /\ blocks' = [blocks EXCEPT ![depth] = kind]
                /\ variables' = InnerGone /\ UNCHANGED resolved

Declare(x, t) ==
  /\ depth > 0 /\ \A d \in variables : d[1] = x => d[2] # depth
  /\ variables' = variables \cup {<<x, depth, t>>}
  /\ UNCHANGED <<blocks, resolved>>

\* A use of a name.
Resolve(x) ==
  /\ IF \E d \in variables : d[1] = x THEN Visible(resolved', x) ELSE resolved' = Nowhere
  /\ UNCHANGED <<blocks, variables>>

Next ==
  \/ \E kind \in Kinds : Open(kind) \/ Switch(kind)
  \/ Close
  \/ \E x \in Names : Resolve(x) \/ \E t \in Types : Declare(x, t)

Spec == Init /\ [][Next]_vars
=============================================================================
