SPECIFICATION Spec
CONSTANTS
  p1 = p1
  p2 = p2
  session = session
  index = index
  Processes = {p1, p2}
  Backends = {session}
  Registered <- MCRegistered
  SessionOf <- MCSessionOf
  MaxSeq = 2
  MaxPending = 1
  MaxPendingTotal = 1
  Commanded = {}
  Maintained = {}
  Monitored = {p1, p2}
  Readers = {}
  MaxBuffer = 1
  MaxFaults = 1
SYMMETRY MCSymmetry
INVARIANTS
  CheckpointsProven
  AppliedInOrder
CHECK_DEADLOCK FALSE
