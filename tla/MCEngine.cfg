CONSTANTS
  Irqs <- MCIrqs  Masks <- MCMasks  MaxNest = 3
  Seg <- MCSeg  Program <- MCProgram  Entry <- MCEntry  Handler <- MCHandler
  QueueSize = 4  Counts <- MCCounts  Moves = {}
  Values = {0, 1}  Places = {0, 1}  Forms = {"clean"}  MaxRequests = 3
  Requests = {"read", "write", "noack", "step", "cont", "signal", "dump", "detach", "bad"}
  Nowhere = Nowhere  Idle = Idle
  p1 = p1  p2 = p2  h1 = h1  h2 = h2  Nil = Nil
  Pids <- MCPids  Handles <- MCHandles  MaxFiles = 2  Launch = FALSE
SPECIFICATION EngineFairSpec
INVARIANTS
  IrqTypeOK EoiBalance ServiceIsNest TrapRemembered
  CpuTypeOK QueueFollowsIp ElementsOnce
  LinkTypeOK HandlesOwned AnswersMatch
  GdbTypeOK
PROPERTIES
  NoLostIrq TopLineServed NestSpec QueueInvisible TablesSpec SessionSpec Answered
