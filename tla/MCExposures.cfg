SPECIFICATION Spec
CONSTANTS
  ssh = ssh
  game = game
  web = web
  l = l
  d1 = d1
  d2 = d2
  a1 = a1
  a2 = a2
  Nobody = Nobody
  Free = Free
  Absent = Absent
  SshPort = 22
  AdminPort = 22223
  Account = {a1, a2}
  Name = {ssh, game, web}
  Label = {l}
  Domain = {d1, d2}
  Port <- MCPort
  Hostname <- MCHostname
  Wish <- MCWish
  Inline <- MCInline
  Bound <- MCBound
INVARIANTS TypeOK NoUnrecordedAccess AdminRestorable AdminNeverExposed ExposuresServed WorkerReports
PROPERTIES KeysNeverReturn CallerSurvives RemovalsComplete
CHECK_DEADLOCK FALSE
