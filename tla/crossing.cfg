SPECIFICATION FairSpec
CONSTANTS
  Rank = {0, 1, 2}
  Fpga = {0, 2}
  Cpu = {1}
  Program <- Crossing
  Window = 1
  MaxLoss = 0
  Losable = {}
  MaxInc = 1
  FeedbackDepth = 2
  Patience = "message"
INVARIANTS OnlySendersAwaitAck NothingLeftOver HeadersAreRead
PROPERTIES IsRendezvous Finishes
