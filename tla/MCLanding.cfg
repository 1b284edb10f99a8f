SPECIFICATION Spec
CONSTANTS
  p1 = p1
  p2 = p2
  h1 = h1
  h2 = h2
  octo = octo
  None = None
  Operators <- MCTwo
  Login <- MCLogin2
  Heads <- MCHeads
  FirstHead = h1
  Roles <- MCRoles
  Jobs <- MCAll
  Supply <- MCPair
SYMMETRY MCSymmetry
INVARIANTS
  TypeOK
  Inductive
  MergedWasVetted
  SuccessMeansDone
PROPERTIES
  CompletionIsEarned
  AbandonedOnRecord
CHECK_DEADLOCK FALSE
