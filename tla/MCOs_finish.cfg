\* Two CPUs, five processes, slices of two instructions.
CONSTANTS
  NumCpus = 2
  TimeSlice = 2
  NumProcs = 5
  Prio <- MCPrio
  StartTime <- MCStart
  Size <- MCSize
  MAX_PRIO = 2
  MAX_QUEUE_SIZE = 3
  ScanLevels <- FullScan
  MaxTime = 9
SPECIFICATION FairSpec
INVARIANTS TypeOK ExclusivePcb WholeSlices NoneStranded InOnePlace BudgetKept NoOverrun
PROPERTY WorkEnds
