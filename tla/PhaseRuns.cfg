CONSTANTS
  NPrograms = 1
  TenantOf <- OneTenant
  NPhases = 2
  Interval <- EveryBeat
  FollowOn <- TwoPhases
  ProgramWide = {1}
  Hosts <- OneHost
  w1 = w1
  w2 = w2
  Slots = {w1, w2}
  Cap = 2
  Fresh = 2
  KeepResult = 1
  MaxTries = 2
  MaxToggles = 1
  FaultKinds = {"crash", "shutdown", "scheduler", "enqueue", "timeout"}
  MaxFaults = 1
SPECIFICATION FairSpec
INVARIANTS OnePhaseRun
 
