SPECIFICATION FairSpec
CONSTANTS
  c1 = c1
  c2 = c2
  w1 = w1
  Cards = {c1, c2}
  Editors = {}
  Workers = {w1}
  Scheduler = Scheduler
  NoCard = NoCard
  SyncEnabled = TRUE
  MaxRev = 1
  MaxVersion = 6
  MaxQueue = 1
  MaxDocs = 5
  MaxFaults = 1
PROPERTIES
  EventuallySynced
