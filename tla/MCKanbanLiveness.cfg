SPECIFICATION FairSpec
CONSTANTS
  c1 = c1
  w1 = w1
  e1 = e1
  Cards = {c1}
  Editors = {e1}
  Workers = {w1}
  Scheduler = Scheduler
  NoCard = NoCard
  SyncEnabled = TRUE
  MaxRev = 2
  MaxVersion = 8
  MaxQueue = 1
  MaxDocs = 5
  MaxFaults = 1
PROPERTIES
  EventuallySynced
