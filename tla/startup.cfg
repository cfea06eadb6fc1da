SPECIFICATION LaunchSpec
CONSTANTS
  Size = 4
  Host = {a, b, c}
  MaxSize = 128
  MpiPort = 2718
  x = x
  y = y
  Text = {x, y}
  Extras <- MCExtras
  ProgramName = ProgramName
  NoSocket = NoSocket
SYMMETRY Symmetry
INVARIANTS Reaches NobodyExits FpgasReach GivenArguments KnowsItsPlace DisplayIsTrue
