SPECIFICATION Spec
CONSTANTS
  Peer = {p1}
  Conn = {c1}
  Query = {}
  TimedQuery = {}
  NoConn = NoConn
  NoPeer = NoPeer
  EventChanCap = 1
  TrackerChanCap = 1
INVARIANTS BlackListedIsDisconnected
