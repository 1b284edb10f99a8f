SPECIFICATION Spec
CONSTANTS
  p1 = p1
  p2 = p2
  early = early
  late = late
  off = off
  on = on
  Absent = Absent
  Edited = Edited
  None = None
  Catalog = Catalog
  Procs <- MCProcs
  Tool <- MCOldAndNew
  Releases = {1, 2}
  Configs = {off, on}
  Targets <- MCTargets
  Render <- MCRender
  Rank <- MCRank
  Prior <- MCPrior
  FirstRelease = 1
  FirstConfig = off
  Slips = {"save", "swap"}
  Budget <- MCUpgrades
INVARIANTS
  Inductive
  EvidenceSurvives
PROPERTIES
  ImplementsAuthority
