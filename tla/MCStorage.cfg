\* Two CPUs on any of two neighbouring frames of two cells on each device.
CONSTANTS
  CPUs = {c1, c2}
  PAGESZ = 2
  MaxSz = 4
  Bytes = {0, 1}
  rdmflg <- MCRdm
SYMMETRY MCSymmetry
SPECIFICATION Spec
INVARIANTS TypeOK CopyPrefix
PROPERTY CopyExact
