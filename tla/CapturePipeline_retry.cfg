CONSTANTS
  a = a
  b = b
  Notifiers = {n}
  Rtc = rtc
  Scenes = {a}
  None = None
  Coeffs = {0, 1, 2, 3}
  Dct <- MCDct
  HistFar = {}
  PhashThreshold = 2
  Pixels = {0, 1}
  Gray <- MCGray
  DiffThreshold = 25
  MinDiffPixels = 1
  Blurry = {}
  ForcedInterval = 2
  MinInterval = 1
SPECIFICATION FairSpec
PROPERTY KeepsRetrying
CHECK_DEADLOCK FALSE
