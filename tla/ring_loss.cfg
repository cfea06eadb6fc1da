SPECIFICATION FairSpec
CONSTANTS
  Rank = {0, 1, 2, 3}
  Fpga = {0, 3}
  Cpu = {1, 2}
  Program <- Ring
  Window = 1
  MaxLoss = 1
  Losable = {"SEND_REQUEST", "CLEAR_TO_SEND", "DATA"}
  MaxInc = 2
  FeedbackDepth = 2
  Patience = "full"
INVARIANTS RightData
PROPERTIES IsRendezvous Finishes
