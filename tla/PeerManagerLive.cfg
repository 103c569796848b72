SPECIFICATION FairSpec
CONSTANTS
  Peer = {p1}
  Conn = {c1}
  Query = {q1, q2}
  TimedQuery = {q2}
  NoConn = NoConn
  NoPeer = NoPeer
  EventChanCap = 2
  TrackerChanCap = 1
PROPERTIES RequestsAnswered RemovalCompletes
CHECK_DEADLOCK FALSE
