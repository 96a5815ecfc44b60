\* Three functions, one of them recursive.
CONSTANTS
  Functions = {"main", "f", "g"}
  Main = "main"
  Sites <- SomeSites
  Params <- SomeParams
  Kinds <- SomeKinds
  Returns <- SomeReturns
  SavedRegisters = {"s0", "s1", "s2"}
  Uses <- SomeUses
  Scratch <- SomeScratch
  ParamRegisters = 1
  Words = {5}
  Chars = {8, 9}
  Data <- EmptyString
  Pointers = {0}
  MemorySize = 50
  MaxDepth = 3
  MaxSteps = 5
SPECIFICATION Spec
CHECK_DEADLOCK FALSE
INVARIANT TypeOK
INVARIANT StackBalanced
INVARIANT StringsBelowHeap
PROPERTY ImplementsActivations
PROPERTY CopiesEnd
