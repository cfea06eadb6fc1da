SPECIFICATION FairSpec
CONSTANTS
  Senders = {0}
  Receivers = {7}
  Counts = {0, 1, 2, 3, 4, 5, 7, 8, 9, 12, 13, 14, 15, 16, 17, 21, 24}
  LossyCounts = {1, 2, 3, 7, 8, 9, 12}
  LossyLines = 1
  MaxLines = 5
  Window = 4
  Modulus = 64
  Depth = 2
  MaxInc = 2
  MaxLoss = 1
INVARIANTS TypeOK RightMemory NothingBeyond CleanAfterwards PacketBound
PROPERTIES Finishes
