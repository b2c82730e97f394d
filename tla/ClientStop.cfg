\* One server, two attempts, two workers; the client goes down at any moment.
SPECIFICATION StopFairSpec
CONSTANTS
  w1 = w1
  w2 = w2
  app = app
  daemon = daemon
  s1 = s1
  s2 = s2
  Workers = {w1, w2}
  App = app
  Daemon = daemon
  Keys = {1}
  Contexts = {s1, s2}
  NoCtx = NoCtx
  Recnnts = {0, 1}
INVARIANTS
  StopTypeOK
  
  NeverForgotten
PROPERTY
  StopEnds
CHECK_DEADLOCK FALSE
