CONSTANTS
  p1 = p1
  p2 = p2
  h1 = h1
  h2 = h2
  Nil = Nil
  Pids <- MCPids
  Handles <- MCHandles
  MaxFiles = 2
  Launch = TRUE
SPECIFICATION LinkSpec
SYMMETRY Sym
INVARIANTS NeverMisused
