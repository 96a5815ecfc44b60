\* A function that is called before its body, after a declaration.
CONSTANTS
  Names = {"main", "f"}
  Types = {"int"}
  Functions <- Overloads
  Main = "main"
  MaxNest = 1
  MaxCalls = 1
SPECIFICATION Spec
VIEW Future
INVARIANT ForwardCallsCompile
CHECK_DEADLOCK FALSE
