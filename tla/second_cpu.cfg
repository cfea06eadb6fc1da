SPECIFICATION FairSpec
CONSTANTS
  Rank = {0, 1, 2, 3, 4, 5, 6, 7, 8, 9}
  GroupSize = 4
  Cases <- SecondCpu
CHECK_DEADLOCK FALSE
PROPERTIES Finishes
