CONSTANTS
  p1 = p1
  p2 = p2
  Process = {p1, p2}
  Host = {1, 2}
  Name = {apps}
  Address = {ip1}
  Elsewhere = Elsewhere
  Vmid = {100, 101}
  Platform = Platform
  Foreign = Foreign
  Absent = Absent
  commands = 4
  faults = 1
  crashes = 1
  removals = 1
  Bound <- MCBound
SPECIFICATION Spec
INVARIANTS TypeOK CreatedIsRecorded EndedStaysEnded HealthyIsInstalled
PROPERTIES UninstallSparesDocker SetupTouchesOwn RetriesComplete
CHECK_DEADLOCK FALSE
