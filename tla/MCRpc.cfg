SPECIFICATION Spec
CONSTANTS
  c1 = c1
  c2 = c2
  c3 = c3
  c4 = c4
  Callers = {c1, c2, c3, c4}
  Keys = {"k1", "k2", "k3"}
  Inputs = {"i1", "i2"}
  KeyOf <- OwnKeys
  InputOf <- ReusedKey
  Services = {"documentRoot"}
  HostStates = {TRUE}
  Limit = 2
  TTL = 2
  HeaderTimeout = 1
  RequestTimeout = 2
  PanelTimeout = 3
  ResourceTimeout = 3
  DeploymentTimeout = 3
  ImageTimeout = 4
  MaxAttempts <- FirstRetries
  MaxTime = 2
  MaxEvents = 1
CHECK_DEADLOCK FALSE
INVARIANTS AnswerIsOwn
PROPERTIES DispatchedOnce
