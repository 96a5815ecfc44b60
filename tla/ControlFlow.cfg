\* Three statements and one operation.
CONSTANTS
  Operands = {"x"}
  Operations = {"f", "plus"}
  Arity <- Arities
  One = "1"
  Default = "0"
  MaxStatements = 3
  MaxOperations = 1
  MaxPending = 2
SPECIFICATION Spec
PROPERTY ImplementsSource
CHECK_DEADLOCK FALSE
PROPERTY CallsProceed
INVARIANT TypeOK
INVARIANT EdgesMatchJumps
INVARIANT EveryBlockIsEmitted
INVARIANT NoFallThrough
INVARIANT TemporariesStayInBlock
