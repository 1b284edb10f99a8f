SPECIFICATION LiveSpec
CONSTANTS
  p1 = p1
  p2 = p2
  h1 = h1
  h2 = h2
  octo = octo
  None = None
  Operators <- MCOne
  Login <- MCLogin1
  Heads <- MCHeads
  FirstHead = h1
  Roles <- MCRoles
  Jobs <- MCReadied
  Supply <- MCLive
PROPERTIES
  LandsEventually
  MergedCompletes
CHECK_DEADLOCK FALSE
