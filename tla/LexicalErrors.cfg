\* A lexical error after the last function.
CONSTANTS
  Names = {"main", "f"}
  Types = {"int"}
  Functions <- Overloads
  Main = "main"
  MaxNest = 1
  MaxCalls = 1
SPECIFICATION Spec
VIEW Future
INVARIANT LexicalErrorsDecide
CHECK_DEADLOCK FALSE
