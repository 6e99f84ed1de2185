SPECIFICATION Spec
CONSTANTS
  Limits = {250, 576, 640}
  NoLimit = NoLimit
  Sizes = {3, 62, 63, 64, 127, 128, 247}
  Extra = 4
INVARIANTS
  TypeOK
  DatagramFits
  EssentialsInOptions
  EveryPlacedOptionIsRead
  OmittedOnlyWhenFull
CHECK_DEADLOCK FALSE
