\* Two users, logins and heartbeats racing disconnections and checks.
SPECIFICATION Spec
CONSTANTS
  h1 = h1
  h2 = h2
  w1 = w1
  heart = heart
  i1 = i1
  i2 = i2
  i3 = i3
  Handlers = {h1, h2}
  Workers = {w1}
  Heart = heart
  Keys = {1, 2}
  Ids = {0, 1, 2}
  Infos = {i1, i2}
  None = None
  Limit = 2
  MaxMsgs = 2
SYMMETRY Symmetric
INVARIANTS
  TypeOK
  InfoExclusive
  UniqueIdFound
PROPERTY
  OfflineJust
CHECK_DEADLOCK FALSE
