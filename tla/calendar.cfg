CONSTANTS
  e1 = e1
  u1 = u1
  u2 = u2
  r1 = r1
  r2 = r2
  t1 = t1
  NoRow = NoRow
  Ids = {e1}
  Users = {u1, u2}
  Titles = {t1}
  Drafts <- MCDrafts
  Patches <- MCPatches
  Requests = {r1, r2}
  ApiFaults = {"db"}
  Expiration = 0
  Faults = {}
  MaxTime = 2
  MaxRev = 3
  MaxStarts = 1
SPECIFICATION FairSpec
PROPERTIES ApiActsAsClient DueEventuallySettled
CHECK_DEADLOCK FALSE
