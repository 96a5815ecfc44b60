\* A call whose argument is of type void.
CONSTANTS
  Names = {"main", "f"}
  Types = {"int"}
  Functions <- Overloads
  Main = "main"
  MaxNest = 1
  MaxCalls = 1
SPECIFICATION Spec
VIEW Future
INVARIANT ManglerSeesNoVoid
CHECK_DEADLOCK FALSE
