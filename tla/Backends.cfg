SPECIFICATION FairSpec
CONSTANTS
  p1 = p1
  p2 = p2
  session = session
  index = index
  Processes = {p1}
  Backends = {session, index}
  Registered <- MCRegistered
  SessionOf <- MCSessionOf
  MaxSeq = 2
  MaxPending = 1
  MaxPendingTotal = 1
  Commanded = {session}
  Maintained = {p1}
  Monitored = {}
  Readers = {p1}
  MaxBuffer = 1
  MaxFaults = 1
INVARIANTS
  TypeOK
  PendingCounted
  AppliedOnce
PROPERTIES
  ReadyCovers
  EventuallyVisible
CHECK_DEADLOCK FALSE
