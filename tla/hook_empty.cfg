SPECIFICATION Spec
CONSTANTS
  r1 = r1
  r2 = r2
  Null = Null
  Requests = {r1, r2}
  Inputs <- MCInputs
  Beliefs = {{"br", "gzip"}}
  Labels <- MCLabels
  Capacity = 1
  MaxRetries = 2
  maxBody = 2
INVARIANTS
  BodyNotNulledOut
