\* Two blocks: what the first leaves in the frame, in spill items and in the
\* register table meets the second.  One parameter, one local, no constant.
CONSTANTS
  NumRegs = 4
  NumCaller = 2
  arg1 = arg1
  arg2 = arg2
  loc = loc
  tmp1 = tmp1
  tmp2 = tmp2
  lit = lit
  tmp3 = tmp3
  Named = {arg1, loc}
  Temp = {tmp1, tmp2, tmp3}
  Const = {}
  ZeroConst = ZeroConst
  NoVal = NoVal
  NotSpill = NotSpill
  Junk = Junk
  FramePtr = FramePtr
  ReturnAddr = ReturnAddr
  MaxCell = 8
  MaxInstr = 3
  Params <- OneParam
  NumParamRegs = 1
  MaxBlocks = 2
SPECIFICATION Spec
SYMMETRY Temporaries
VIEW Future
INVARIANT VariablesHomeBetweenBlocks
PROPERTY FrameStable
PROPERTY ImplementsIR
CHECK_DEADLOCK FALSE
