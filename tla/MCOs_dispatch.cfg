\* The loops of get_mlq_proc as sched.c has them.
CONSTANTS
  NumCpus = 2
  TimeSlice = 2
  NumProcs = 5
  Prio <- MCPrio
  StartTime <- MCStart
  Size <- MCSize
  MAX_PRIO = 2
  MAX_QUEUE_SIZE = 3
  ScanLevels <- CodeScan
  MaxTime = 9
SPECIFICATION FairSpec
PROPERTY EventuallyDispatched
