\* Two CPUs share the device, as mram is shared; frames are never put back.
\* The system may stop: a race ends in undefined behaviour.
CONSTANTS
  CPUs = {c1, c2}
  PAGESZ = 2
  MaxSz = 6
  MaxNodes = 3
  Releases = FALSE
SPECIFICATION Spec
INVARIANT FramesExclusive
CHECK_DEADLOCK FALSE
