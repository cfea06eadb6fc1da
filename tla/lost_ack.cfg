SPECIFICATION FairSpec
CONSTANTS
  Rank = {0, 1}
  Fpga = {0, 1}
  Cpu = {}
  Program <- Twice
  Window = 1
  MaxLoss = 1
  Losable = {"ACK"}
  MaxInc = 3
  FeedbackDepth = 2
  Patience = "full"
PROPERTIES Finishes
CHECK_DEADLOCK FALSE
