CONSTANTS
  Peers = {p1, p2}
  NoPeer = NoPeer
SPECIFICATION FairSpec
INVARIANTS TypeOK ConnectedIsCurrent UsesAreAlive NothingLeftBehind
PROPERTIES CtrlCExits 
CHECK_DEADLOCK FALSE
