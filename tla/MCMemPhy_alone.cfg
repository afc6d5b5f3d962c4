\* One CPU at a time; three frames and a rest of one byte.
CONSTANTS
  CPUs = {c1}
  PAGESZ = 2
  MaxSz = 7
  MaxNodes = 4
  Releases = TRUE
SPECIFICATION Spec
INVARIANTS TypeOK FramesExclusive NoUndefined NoneLost
