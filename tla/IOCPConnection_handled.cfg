\* A second teardown overtakes the first.
SPECIFICATION FairSpec
CONSTANTS
  w1 = w1
  w2 = w2
  app = app
  app2 = app2
  s1 = s1
  s2 = s2
  s3 = s3
  Workers = {w1, w2}
  Apps = {app}
  Contexts = {s1, s2}
  NoCtx = NoCtx
  MaxAccept = 1
  Pieces = 2
  MaxClients = 1
  MaxCalls = 1
CHECK_DEADLOCK FALSE
PROPERTY DisconnectHandled
