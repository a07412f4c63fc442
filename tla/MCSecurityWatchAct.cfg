SPECIFICATION Spec
CONSTANTS
  svc = svc
  host = host
  Component = {svc, host}
  Group <- MCGroup
  MultiTick = {"repo-pr"}
  Day = 2
  Cooldown = 2
  Budget = 2
  MaxPerDay = 2
  MaxTime = 4
CHECK_DEADLOCK FALSE
INVARIANTS IInv DailyCap CooldownRespected OneActionPerComponent InterruptedSettled BadOutcomeStopsNew
