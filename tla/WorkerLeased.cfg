SPECIFICATION FairSpec
CONSTANTS
  w1 = w1
  w2 = w2
  i1 = i1
  i2 = i2
  consumer = consumer
  Items = {i1, i2}
  Consumers = {consumer}
  MaxClaims = 8
  Workers = {w1, w2}
  ConsumerOf <- MCConsumerOf
  Handles <- MCHandles
  MaxAttempts = 2
  MaxStops = 2
  StallsOutliveLease = FALSE
INVARIANTS
  OneHandlerPerItem
PROPERTIES
  ConfirmedNotRepeated
  ItemsSettle
CHECK_DEADLOCK FALSE
