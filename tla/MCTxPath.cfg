SPECIFICATION FairSpec
CONSTANTS
  RX_BUFFER_END_ADDR = 3
  MEM_END_ADDR = 11
  STATUS_SIZE = 2
  MaxFrames = 3
  Chains <- const_Chains
INVARIANT ReceiveRingUntouched
PROPERTIES LineSpec OutputReturns
