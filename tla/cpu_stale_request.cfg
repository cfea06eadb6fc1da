SPECIFICATION Spec
CONSTANTS
  Rank = {0, 1}
  Fpga = {}
  Cpu = {0, 1}
  Program <- Twice
  Window = 1
  MaxLoss = 0
  Losable = {}
  MaxInc = 2
  FeedbackDepth = 2
  Patience = "message"
INVARIANTS RightData
