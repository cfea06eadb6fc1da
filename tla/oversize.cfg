SPECIFICATION Spec
CONSTANTS
  Senders = {0}
  Receivers = {1}
  Counts = {3}
  LossyCounts = {}
  LossyLines = 1
  MaxLines = 5
  Window = 4
  Modulus = 64
  Depth = 1
  MaxInc = 2
  MaxLoss = 0
INVARIANTS PacketFits
