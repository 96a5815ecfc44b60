--------------------------- MODULE MCAsmGenerator ---------------------------
(* Small instances of AsmGenerator for TLC. *)
EXTENDS AsmGenerator, TLC

CONSTANTS arg1, arg2, loc,   \* variables
          tmp1, tmp2, tmp3,  \* temporaries
          lit                \* a constant

OneParam == <<arg1>>
TwoParams == <<arg1, arg2>>
Temporaries == Permutations(Temp)

\* The view TLC identifies states by.  It leaves out what no later step depends
\* on: what the last step read (each step is still checked when it is generated),
\* and the age, dirty bit and contents of a register that is not mapped.  The
\* type test makes TLC evaluate all of st, which it otherwise keeps unevaluated.
Mapped(f, dead) == [r \in Regs |-> IF st.val[r] = NoVal THEN dead ELSE f[r]]

Future ==
  <<[st EXCEPT !.saved = Mapped(st.saved, FALSE), !.lru = Mapped(st.lru, 0),
               !.reg = Mapped(st.reg, Junk)],
    phase, next, blocks, instr, declared, defined, live, st \in AllocState>>
=============================================================================
