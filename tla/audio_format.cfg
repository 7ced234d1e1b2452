SPECIFICATION Spec
CONSTANTS
  Byte = {1, 2, 3, 4, 5, 6, 7}
  MaxLength = 7
  Audio <- Files
  Chunk = 2
  Key = {sealing, other}
  SealKey = sealing
  NoKey = none
  Reader = {"worker", "player", "download"}
  MaxDamage = 2
INVARIANTS
  AudioInvariant
  NeverOtherAudio
  IntactOpens
  WritersAgree
  ClearPassesWhereAsked
CHECK_DEADLOCK FALSE
