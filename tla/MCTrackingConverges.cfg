SPECIFICATION FairSpec
CONSTANTS
  Tracker = {t1}
  Domain = {home}
  Id = {x1, x2}
  Backend = {b1, b2}
  Target = {r1}
  Absent = Absent
  Command = {"publish", "remove"}
  Bound <- Once
  KeepKind = TRUE
PROPERTY ProviderWins
