CONSTANTS
  None = None
  T0 <- MCT0
  MaxAttempts = 3
  MaxDiagnoses = 2
  MaxInstance = 2
CHECK_DEADLOCK FALSE
SPECIFICATION Spec
INVARIANTS
  WellFormed
  AcceptedIsProven
  ClaimedStaysClosed
  VerifiedIsNewest
  WorkspaceKnown
PROPERTIES
  DoubtBlocks
