SPECIFICATION Spec
CONSTANTS
  Senders = {0}
  Receivers = {9}
  Counts = {13}
  LossyCounts = {}
  LossyLines = 1
  MaxLines = 5
  Window = 4
  Modulus = 64
  Depth = 2
  MaxInc = 2
  MaxLoss = 1
INVARIANTS RightMemory
