\* Two producers, two consumers, a stop at any moment.
SPECIFICATION FairSpec
CONSTANTS
  c1 = c1
  c2 = c2
  p1 = p1
  p2 = p2
  b1 = b1
  b2 = b2
  b3 = b3
  Consumers = {c1, c2}
  Producers = {p1, p2}
  Blocks = {b1, b2}
  Nobody = Nobody
  Types = {"known", "other"}
  Registered = {"known"}
  MaxMessages = 3
INVARIANTS
  NoLostMessage
  HandledOnce
  BlockExclusive
PROPERTIES
  AllHandled
  StopReturns
CHECK_DEADLOCK FALSE
