CONSTANTS
  h1 = h1
  h2 = h2
  a = a
  Handlers = {h1, h2}
  Notifiers = {}
  Rtc = rtc
  Sids = {a}
  ReqSid <- UniqueSids
  NoSid = NoSid
  None = None
  Cancellable = {}
  InitLinks = {"up"}
  Tracked = {}
  MaxChunks = 1
  MaxConcurrent = 1
  MaxDrops = 0
SPECIFICATION Spec
INVARIANT QueryLocksMode
CHECK_DEADLOCK FALSE
