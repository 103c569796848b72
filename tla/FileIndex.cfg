SPECIFICATION FairSpec
CONSTANTS
  h1 = h1
  h2 = h2
  p1 = p1
  p2 = p2
  w1 = w1
  w2 = w2
  w3 = w3
  Word = {w1, w2, w3}
  Hash <- MCHash
  Path <- MCPath
  Share <- MCShare
  Query <- MCQuery
  Index <- MCIndex
  Size = {3, 6}
  SeededSize = 6
  WordSize = 32
  ChunkSize = 4
  DigestSize = 2
  Caller = {c1}
  Response = {r1, r2}
  FileEventChanCap = 1
  MaxFiles = 2
INVARIANTS TypeOK IndexExact  TracesOfListed
  AnswersOwnRequest PacketIsChunk IndInv
PROPERTIES  CallersReturn
