SPECIFICATION FairSpec
CONSTANTS
  Peer = {p1}
  Conn = {c1}
  NoConn = NoConn
  NoPeer = NoPeer
  TableQuery = TableQuery
  ListQuery = ListQuery
  EventChanCap = 1
  TrackerChanCap = 1
  WriteChanCap = 1
  ReadChanCap = 1
  Command = {"Ping"}
  Incoming = {"Ping", "Bad"}
  Datagram = {"Discovery"}
  Timer = {}
PROPERTIES   LostIsForgotten
