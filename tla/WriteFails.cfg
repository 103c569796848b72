SPECIFICATION Spec
CONSTANTS
  a = a
  b = b
  r = r
  n1 = n1
  n2 = n2
  Path = {a, r}
  Name = {n1}
  Content = {c1}
  Seeder = {s1}
  SeedLoop = {m1}
  EventLoop = {l1}
  Base <- OneName
  Abs <- Absolute
  Request = {"LocalSeed"}
  Fault = {"write"}
  SeedChanCap = 1
  FileEventChanCap = 1
  MaxVersion = 1
  MaxCopies = 2
SYMMETRY Symmetry
INVARIANTS AnnouncedHasBothFiles
