SPECIFICATION FairSpec
CONSTANTS
  File = {f1, f2}
  Peer = {p1, p2}
  Caller = {q1}
  QueryChanCap = 2
  RemovalChanCap = 2
INVARIANTS TypeOK IndexesAgree IndInv
PROPERTIES ImplementsHosts RemovalsCarriedOut StopReturns
CHECK_DEADLOCK FALSE
