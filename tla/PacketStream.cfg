\* Messages of one and of two pieces from two threads, fragmented at every byte.
SPECIFICATION FairSpec
CONSTANTS
  w1 = w1
  w2 = w2
  app1 = app1
  app2 = app2
  Workers = {w1, w2}
  Apps = {app1, app2}
  HeaderLen = 2
  SendBuf = 3
  RcvBuf = 6
  Bodies = {1, 3, 4}
  MaxMsgs = 2

CHECK_DEADLOCK FALSE
INVARIANTS
  WindowSound
  WholeMessages
PROPERTIES
  ImplementsChannel
  AllDelivered
