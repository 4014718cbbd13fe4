CONSTANTS
  Values = {0, 1}
  Places = {0, 1}
  Requests = {"read", "write", "noack", "step", "cont", "signal", "dump", "detach", "bad"}
  Forms = {"clean", "high"}
  MaxRequests = 3
  Nowhere = Nowhere
  Idle = Idle
SPECIFICATION GdbSpec
INVARIANTS HeldInMain
