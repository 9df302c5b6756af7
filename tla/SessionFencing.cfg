SPECIFICATION Spec
CONSTANTS
  other = other
  k1 = k1
  v1 = v1
  v2 = v2
  c1 = c1
  c2 = c2
  i1 = i1
  i2 = i2
  s1 = s1
  s2 = s2
  t1 = t1
  t2 = t2
  None = None
  Absent = Absent
  Session = session
  Streams = {session}
  CallerIds = {c1, c2}
  IdemKeys = {i1}
  Bodies <- MCBodies
  MemKeys = {k1}
  Values = {v1, v2}
  RecentLimit = 2
  Threads = {t1, t2}
  Stores = {s1, s2}
  Home <- MCHome
  Commands <- MCCommands
  PlainWrites <- MCPlainWrites
  MaxCalls = 3
  PausesOutliveLease = TRUE
  SnapshotLosses = TRUE
INVARIANTS
  TypeOK
  StreamsContiguous
  ReceiptsProveSnapshot
  ProjectionIsReplay
  SuccessIsVisible
PROPERTIES
  StaleThreadsNeverWrite
CHECK_DEADLOCK FALSE
