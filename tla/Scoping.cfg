\* Blocks in blocks, with two types and two names, one that of a function.
CONSTANTS
  Names = {"main", "f"}
  Types = {"int", "char"}
  Functions <- OneFunction
  Main = "main"
  MaxNest = 3
  MaxCalls = 0
SPECIFICATION Spec
VIEW Future
PROPERTY ImplementsScoping
CHECK_DEADLOCK FALSE
