SPECIFICATION Spec
CONSTANTS
  Peer = {p1}
  Conn = {c1, c2}
  NoConn = NoConn
  NoPeer = NoPeer
  TableQuery = TableQuery
  ListQuery = ListQuery
  EventChanCap = 1
  TrackerChanCap = 1
  WriteChanCap = 1
  ReadChanCap = 1
  Command = {"Ping"}
  Incoming = {}
  Datagram = {"Discovery"}
  Timer = {"LastActivity"}
SYMMETRY Symmetry
INVARIANTS EndedIsClosed
PROPERTIES ImplementsPeerManager
