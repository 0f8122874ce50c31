CONSTANTS
  m1 = m1
  m2 = m2
  m3 = m3
  h1 = h1
  h2 = h2
  NoMsg = NoMsg
  Plain = {m1}
  Quoted = {m2}
  Unparsable = {m3}
  Threads = {h1, h2}
  QosCount = 2
  Faults = {"consumer", "producer", "crash", "signal"}
  MaxStarts = 2
SPECIFICATION Spec
SYMMETRY MCSymmetry
INVARIANTS NoMessageLost AckedOnlyIfSent OnlyUnreadableAbandoned SentOnceWhileConnected
PROPERTIES PlainNotificationsIntact
CHECK_DEADLOCK FALSE
