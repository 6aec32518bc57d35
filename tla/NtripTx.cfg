SPECIFICATION ClockSpec
CONSTANTS
  a = a
  NoFrame = NoFrame
  NoOne = NoOne
  Inst <- One
  Slots = 2
  Lens <- LenSet
  ClockMod = 5
  StaleMs = 1
  ProgressTimeout = 1
  FrameDeadline = 2
  MaxSends = 2
  MaxSpins = 2
  Uptime0 = 3
  MaxSeq = 3
  MaxTicks = 3
  MaxConns = 2
INVARIANTS TypeOK ByteBalance WholeFrames RingInv
PROPERTIES StaleMeansOld ImplementsFeed NeverWedged
CHECK_DEADLOCK FALSE
