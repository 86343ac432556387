CONSTANTS
  h1 = h1
  h2 = h2
  a = a
  Handlers = {h1, h2}
  Notifiers = {}
  Rtc = rtc
  Sids = {a}
  ReqSid <- UniqueSids
  NoSid = NoSid
  None = None
  Cancellable = {h1}
  InitLinks = {"up", "down"}
  Tracked = {}
  MaxChunks = 2
  MaxConcurrent = 2
  MaxDrops = 1
SPECIFICATION DeadlineSpec
INVARIANTS TypeOK StreamInOrder  FinishedHasChunk 
PROPERTIES  EveryCallReturns
CHECK_DEADLOCK FALSE
