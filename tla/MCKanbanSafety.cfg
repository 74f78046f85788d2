SPECIFICATION Spec
CONSTANTS
  c1 = c1
  w1 = w1
  w2 = w2
  e1 = e1
  Cards = {c1}
  Editors = {e1}
  Workers = {w1, w2}
  Scheduler = Scheduler
  NoCard = NoCard
  SyncEnabled = TRUE
  MaxRev = 2
  MaxVersion = 4
  MaxQueue = 1
  MaxDocs = 4
  MaxFaults = 1
SYMMETRY Symmetry
INVARIANTS
  TypeOK
  IndInv
  SyncedWasStored
  LiveCardKeepsCopy
PROPERTIES
  NoLostEdit
  NoResurrection
  ImplementsContract
