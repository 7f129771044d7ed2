SPECIFICATION ServerFairSpec
CONSTANTS
  r1 = r1
  r2 = r2
  Null = Null
  Requests = {r1, r2}
  Inputs <- MCInputs
  Beliefs = {{"br"}}
  Labels <- MCLabels
  Capacity = 1
  MaxRetries = 1
  maxBody = 1
INVARIANTS
  ServerTypeOK
  GracefulUnlessLate
  PoolOutlivesRequests
PROPERTIES
  SignalEndsProcess
