\* Two parameters, one of them passed on the stack, and a local variable compete
\* with temporaries and a constant for four registers.
CONSTANTS
  NumRegs = 4
  NumCaller = 2
  arg1 = arg1
  arg2 = arg2
  loc = loc
  tmp1 = tmp1
  tmp2 = tmp2
  lit = lit
  tmp3 = tmp3
  Named = {arg1, arg2, loc}
  Temp = {tmp1, tmp2}
  Const = {lit}
  ZeroConst = ZeroConst
  NoVal = NoVal
  NotSpill = NotSpill
  Junk = Junk
  FramePtr = FramePtr
  ReturnAddr = ReturnAddr
  MaxCell = 8
  MaxInstr = 3
  Params <- TwoParams
  NumParamRegs = 1
  MaxBlocks = 1
SPECIFICATION Spec
SYMMETRY Temporaries
VIEW Future
INVARIANT TypeOK
INVARIANT NothingLost
INVARIANT FrameDisjoint
INVARIANT ValueRegistersPreserved
PROPERTY ImplementsIR
CHECK_DEADLOCK FALSE
