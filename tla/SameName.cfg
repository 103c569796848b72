SPECIFICATION Spec
CONSTANTS
  a = a
  b = b
  r = r
  n1 = n1
  n2 = n2
  Path = {a, b}
  Name = {n1}
  Content = {c1, c2}
  Seeder = {s1, s2}
  SeedLoop = {m1}
  EventLoop = {l1}
  Base <- OneName
  Abs <- Absolute
  Request = {"LocalSeed"}
  Fault = {}
  SeedChanCap = 1
  FileEventChanCap = 1
  MaxVersion = 1
  MaxCopies = 2
SYMMETRY Symmetry
INVARIANTS LoadableIsSound
