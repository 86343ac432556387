CONSTANTS
  h1 = h1
  h2 = h2
  a = a
  Handlers = {h1, h2}
  Notifiers = {n}
  Rtc = rtc
  Sids = {a}
  ReqSid <- UniqueSids
  NoSid = NoSid
  None = None
  Cancellable = {}
  InitLinks = {"up"}
  Tracked = {"scd", "aff"}
  MaxChunks = 1
  MaxConcurrent = 2
  MaxDrops = 0
SPECIFICATION FairSpec
PROPERTIES EveryQueryAnswered QueryModeEnds
CHECK_DEADLOCK FALSE
