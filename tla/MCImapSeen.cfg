SPECIFICATION Spec
CONSTANTS
  Inbox = Inbox
  Alias = Alias
  Sent = Sent
  Drafts = Drafts
  Folders = {Sent, Drafts}
  Seeded = {Sent, Drafts}
  NoBox = NoBox
  Demo = 2
  MaxUid = 3
  MaxMessages = 3
CHECK_DEADLOCK FALSE
INVARIANT
  FetchedIsSeen
