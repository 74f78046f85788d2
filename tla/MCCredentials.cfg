SPECIFICATION Spec
CONSTANTS
  https = https
  h1 = h1
  h2 = h2
  u1 = u1
  u2 = u2
  s1 = s1
  s2 = s2
  s3 = s3
  s4 = s4
  p1 = p1
  p2 = p2
  Procs = {p1, p2}
  Saves <- SomeSaves
  Erasures <- SomeErasures
  None = None
  Blank = Blank
  Torn = Torn
  DefaultProtocol = https
  MaxEntries = 2
  DiskFull = TRUE
  ReadsFail = TRUE
SYMMETRY Symmetry
CHECK_DEADLOCK FALSE
INVARIANTS
  TypeOK
  Unambiguous
  PasswordBelongs
PROPERTIES
  SaveIsFound
  OthersKept
  EraseIsComplete
