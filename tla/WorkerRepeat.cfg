SPECIFICATION FairSpec
CONSTANTS
  w1 = w1
  w2 = w2
  i1 = i1
  i2 = i2
  consumer = consumer
  Items = {i1}
  Consumers = {consumer}
  MaxClaims = 3
  Workers = {w1, w2}
  ConsumerOf <- MCConsumerOf
  Handles <- MCHandles
  MaxAttempts = 2
  MaxStops = 0
  StallsOutliveLease = TRUE
PROPERTIES
  ConfirmedNotRepeated
CHECK_DEADLOCK FALSE
