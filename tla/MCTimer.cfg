\* Two CPUs and the loader, fair threads.
CONSTANTS
  N = 3
  MaxTime = 2
SPECIFICATION FairSpec
INVARIANTS TypeOK DoneRaceFree NoLostWakeup NoUseAfterFree
PROPERTIES ImplementsBarrier NextSlotReturns Shutdown
