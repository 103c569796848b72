SPECIFICATION Spec
CONSTANTS
  Peer = {p1, p2}
  Conn = {c1, c2}
  Query = {}
  TimedQuery = {}
  NoConn = NoConn
  NoPeer = NoPeer
  EventChanCap = 1
  TrackerChanCap = 1
SYMMETRY Symmetry
INVARIANTS TypeOK BlackListedHasNoRow ConnectedIsOpen OnlyAcceptedInTable IndInv
PROPERTIES LeavesTableClosed ClosedForCause RemovalAnnounced
