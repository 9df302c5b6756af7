SPECIFICATION Spec
CONSTANTS
  w1 = w1
  w2 = w2
  i1 = i1
  i2 = i2
  consumer = consumer
  Items = {i1, i2}
  Consumers = {consumer}
  MaxClaims = 5
  Workers = {w1, w2}
  ConsumerOf <- MCConsumerOf
  Handles <- MCHandles
  MaxAttempts = 2
  MaxStops = 1
  StallsOutliveLease = TRUE
INVARIANTS
  TypeOK
PROPERTIES
  StaleWorkersChangeNothing
  ImplementsDelivery
CHECK_DEADLOCK FALSE
