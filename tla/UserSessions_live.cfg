\* A silent client is dropped.
SPECIFICATION FairSpec
CONSTANTS
  h1 = h1
  h2 = h2
  w1 = w1
  heart = heart
  i1 = i1
  i2 = i2
  i3 = i3
  Handlers = {h1}
  Workers = {w1}
  Heart = heart
  Keys = {1, 2}
  Ids = {1}
  Infos = {i1, i2}
  None = None
  Limit = 2
  MaxMsgs = 1
PROPERTY
  SilentDropped
CHECK_DEADLOCK FALSE
