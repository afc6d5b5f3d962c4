\* The setters on an entry with arbitrary contents.
CONSTANTS
  Fpns <- MCFpns
  SwpTypes <- MCTypes
  SwpOffs <- MCOffs
  Garbage <- MCGarbage
SPECIFICATION Spec
INVARIANTS TypeOK FrameStored SwapStored
PROPERTY UserBitsKept
