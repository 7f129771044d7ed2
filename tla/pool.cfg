SPECIFICATION FairSpec
CONSTANTS
  a1 = a1
  a2 = a2
  n1 = n1
  k1 = k1
  NoKey = NoKey
  Null = Null
  Size = 2
  Calls = {a1, a2}
  Cancelable = {a1}
  Keys <- MCKeys
  Hash <- MCHash
  KeyOf <- MCKeyOf
  AffinityEnabled = TRUE
  Versions = {"0.26"}
INVARIANTS
  TypeOK
  SlotHands
  JobConservation
  WorkerPresence
  BusyIsExact
  ShutdownTearsDown
  AffinityCounts
PROPERTIES
  OnlyFailuresRecycle
  ImplementsCompressor
  CallsReturn
  ShutdownCompletes
  ServesWhileOpen
