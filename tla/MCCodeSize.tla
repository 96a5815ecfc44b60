----------------------------- MODULE MCCodeSize -----------------------------
(* A small instance of CodeSize for TLC. *)
EXTENDS CodeSize

\* Three constants, two of them with the same string.
ThreeTexts == [v1 |-> "abc", v2 |-> "abc", v3 |-> "x"]
TwoLengths == [abc |-> 3, x |-> 1]
=============================================================================
