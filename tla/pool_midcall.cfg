SPECIFICATION Spec
CONSTANTS
  a1 = a1
  a2 = a2
  n1 = n1
  k1 = k1
  NoKey = NoKey
  Null = Null
  Size = 1
  Calls = {n1}
  Cancelable = {}
  Keys <- MCKeys
  Hash <- MCHash
  KeyOf <- MCKeyOf
  AffinityEnabled = TRUE
  Versions = {}
INVARIANTS
  MidCallFinishes
