SPECIFICATION Spec
CONSTANTS
  Rank = {0, 1}
  Fpga = {0}
  Cpu = {1}
  Program <- PingPong
  Window = 2
  MaxLoss = 2
  Losable = {"SEND_REQUEST", "CLEAR_TO_SEND", "DATA", "ACK", "CONT"}
  MaxInc = 1
  FeedbackDepth = 2
  Patience = "none"
INVARIANTS TypeOK AckNeverCached TxAlternates CacheNumCovers
CHECK_DEADLOCK FALSE
