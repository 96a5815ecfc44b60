\* One function; the memory is scaled down to a few instructions.
CONSTANTS
  Functions = {"main"}
  StringValues = {"v1", "v2", "v3"}
  Text <- ThreeTexts
  Length <- TwoLengths
  CalleeSaved = {"s0"}
  MaxParams = 1
  Limit = 180
  MaxInstructions = 4
SPECIFICATION Spec
CHECK_DEADLOCK FALSE
INVARIANT AcceptedProgramsFit
