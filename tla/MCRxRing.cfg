SPECIFICATION FairSpec
CONSTANTS
  RX_BUFFER_END_ADDR = 39
  ENC_HEADER_SIZE = 6
  CRC_SIZE = 4
  BUF_SIZE = 3
  MAX_PKTCNT = 3
  FrameCounts <- const_FrameCounts
  MaxFrames = 5
INVARIANTS UnreadFramesIntact NoSpaceLost
PROPERTIES FifoSpec EveryFrameReceived
