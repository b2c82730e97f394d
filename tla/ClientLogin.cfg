\* Every connection that comes up is logged in, and no other server is.
SPECIFICATION LoginFairSpec
CONSTANTS
  w1 = w1
  app = app
  daemon = daemon
  s1 = s1
  s2 = s2
  Workers = {w1}
  App = app
  Daemon = daemon
  Keys = {1}
  Contexts = {s1, s2}
  NoCtx = NoCtx
  Recnnts = {1}
INVARIANTS
  LoggedInConnected
PROPERTY
  LoginReached
CHECK_DEADLOCK FALSE
