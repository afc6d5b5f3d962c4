\* A scan that visits every level: one process, two CPUs.
CONSTANTS
  NumCpus = 2
  TimeSlice = 2
  NumProcs = 1
  Prio <- OnePrio
  StartTime <- AllAtOnce
  Size <- Short
  MAX_PRIO = 2
  MAX_QUEUE_SIZE = 4
  ScanLevels <- FullScan
  MaxTime = 2
SPECIFICATION FairSpec
PROPERTY CpusStop
