CONSTANTS
  e1 = e1
  e2 = e2
  u1 = u1
  t1 = t1
  NoRow = NoRow
  Ids = {e1}
  Users = {u1}
  Titles = {t1}
  Drafts <- MCDrafts
  Expiration = 1
  Faults = {}
  MaxTime = 3
  MaxRev = 2
  MaxStarts = 1
SPECIFICATION FairSpec
PROPERTIES DueEventuallyPublished
