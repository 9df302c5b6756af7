SPECIFICATION ServiceSpec
CONSTANTS
  p1 = p1
  p2 = p2
  w1 = w1
  w2 = w2
  ua = ua
  ub = ub
  pa = pa
  user = user
  project = project
  session1 = session1
  a = a
  b = b
  m1 = m1
  m2 = m2
  m3 = m3
  own = own
  s1 = s1
  s2 = s2
  e1 = e1
  e2 = e2
  e3 = e3
  c1 = c1
  c2 = c2
  now = now
  stream = stream
  thread = thread
  x1 = x1
  x2 = x2
  index = index
  None = None
  Keys = {ua, ub, pa}
  ScopeOf <- MCScopeOf
  Ids = {m1, m2, m3}
  Sources = {s1, s2}
  WriteIds = {e1, e2, e3}
  Contents = {c1, c2}
  Stamps = {now}
  Writers = {w1, w2}
  Processes = {p1, p2}
  ProcessOf <- MCProcessOf
  MaxRetries = 2
  Deployments <- MCDeployments
  Streams = {stream, thread}
  Events = {x1, x2}
  Projections = {index}
  Extended = {thread}
  CanonicalOf <- MCCanonicalOf
  NameOf <- MCNameOf
  SessionScope = session1
  SessionId = own
  Rank <- MCRank
  Cost <- MCCost
  MaxSessionSeq = 2
  RecallProcess = p1
INVARIANTS
  TypeOK
  ServedIsMigrated
  RetriesSuffice
  ChainsAreWhole
  ReplaysAreStable
  AnswersAreEffects
  RecallIsCurrent
  RecallFitsBudget
  RecallIsComplete
PROPERTIES
  LateStartIsHarmless
  ImplementsMemoryHistory
