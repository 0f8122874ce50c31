CONSTANTS
  m1 = m1
  m2 = m2
  m3 = m3
  h1 = h1
  h2 = h2
  NoMsg = NoMsg
  Plain = {m1}
  Quoted = {m2}
  Unparsable = {}
  Threads = {h1}
  QosCount = 2
  Faults = {}
  MaxStarts = 1
SPECIFICATION Spec
INVARIANTS NotificationsUnmixed
CHECK_DEADLOCK FALSE
