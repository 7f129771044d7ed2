SPECIFICATION Spec
CONSTANTS
  Conversations = {1}
  Sessions = {"", "s"}
  MaxTurns = 3
INVARIANTS
  KeyStable
CHECK_DEADLOCK FALSE
