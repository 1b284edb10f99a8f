SPECIFICATION Spec
CONSTANTS
  p1 = p1
  p2 = p2
  v1 = v1
  v2 = v2
  t1 = t1
  r1 = r1
  i1 = i1
  i2 = i2
  i3 = i3
  None = None
  Neutral = Neutral
  Legacy = Legacy
  Own = Own
  Procs <- MCTwo
  Versions <- MCVersions
  Targets <- MCTargets
  Relics <- MCRelics
  Inodes <- MCInodes
  Jobs <- MCJobs
  Supply <- MCSupply
SYMMETRY MCSymmetry
INVARIANTS
  TypeOK
  ResumablePrefix
  LockTellsOrigin
  RetiredLast
  AnswerHolds
PROPERTIES
  OwnDirectory
  Succeeds
CHECK_DEADLOCK FALSE
