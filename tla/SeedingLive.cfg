SPECIFICATION FairSpec
CONSTANTS
  a = a
  b = b
  r = r
  n1 = n1
  n2 = n2
  Path = {a, b}
  Name = {n1, n2}
  Content = {c1}
  Seeder = {s1}
  SeedLoop = {m1}
  EventLoop = {l1, l2}
  Base <- TwoNames
  Abs <- Absolute
  Request = {"LocalSeed"}
  Fault = {"read"}
  SeedChanCap = 1
  FileEventChanCap = 1
  MaxVersion = 1
  MaxCopies = 2
INVARIANTS ListedSurvives
 
