CONSTANTS
  e1 = e1
  e2 = e2
  u1 = u1
  u2 = u2
  r1 = r1
  r2 = r2
  r3 = r3
  t1 = t1
  t2 = t2
  NoRow = NoRow
  Ids = {e1}
  Users = {u1, u2}
  Titles = {t1, t2}
  Drafts <- MCDrafts
  Patches <- MCPatches
  Requests = {r1, r2, r3}
  Storages = {"memory", "sql"}
  ApiFaults = {"db"}
SPECIFICATION Spec
SYMMETRY MCSymmetry
INVARIANTS RefusedLeavesNoTrace MemorySuccessMeansWritten
PROPERTIES OnlyOwnerChanges
CHECK_DEADLOCK FALSE
