SPECIFICATION Spec
CONSTANTS
  p1 = p1
  p2 = p2
  v1 = v1
  v2 = v2
  t1 = t1
  r1 = r1
  i1 = i1
  i2 = i2
  i3 = i3
  None = None
  Neutral = Neutral
  Legacy = Legacy
  Own = Own
  Procs <- MCTwo
  Versions <- MCOneVersion
  Targets <- MCTargets
  Relics <- MCRelics
  Inodes <- MCInodes
  Jobs <- MCJobs
  Supply <- MCRestore
PROPERTIES
  NothingReplaced
CHECK_DEADLOCK FALSE
