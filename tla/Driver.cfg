\* Overloads of main and one more function, calls in both directions.
CONSTANTS
  Names = {"main", "f"}
  Types = {"int"}
  Functions <- Overloads
  Main = "main"
  MaxNest = 1
  MaxCalls = 2
SPECIFICATION Spec
VIEW Future
INVARIANT TypeOK
INVARIANT LinksMatchDefinitions
INVARIANT BodiesMatchDefinitions
INVARIANT AcceptedIsComplete
INVARIANT WellFormedProgramsCompile
INVARIANT ErrorsWriteNothing
PROPERTY SignaturesStable
CHECK_DEADLOCK FALSE
