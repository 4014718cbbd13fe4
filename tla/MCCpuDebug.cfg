CONSTANTS
  Seg <- MCSeg
  Program <- MCProgram
  Entry <- MCEntry
  Handler <- MCHandler
  QueueSize = 4
  Counts <- MCCounts
  Moves <- MCMoves
SPECIFICATION DebugSpec
INVARIANTS ExecutesAtIp
