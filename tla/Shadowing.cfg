\* A variable with the name of a function.
CONSTANTS
  Names = {"main", "f"}
  Types = {"int"}
  Functions <- Overloads
  Main = "main"
  MaxNest = 1
  MaxCalls = 1
SPECIFICATION Spec
VIEW Future
INVARIANT FunctionsNotShadowed
CHECK_DEADLOCK FALSE
