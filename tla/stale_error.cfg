SPECIFICATION AudioSpec
CONSTANTS
  Job = {j1, j2}
  Stem = {vocals, drums}
  Duration = 2
  Loud = {1, 2}
  NoJob = null
  MaxLoads = 2
  MaxClicks = 3
  MaxAskings = 1
INVARIANTS
  ErrorIsOfItsJob
CHECK_DEADLOCK FALSE
