SPECIFICATION Spec
CONSTANTS
  Tracker = {t1}
  Domain = {home, lab}
  Id = {x1, x2}
  Backend = {b1, b2}
  Target = {r1}
  Absent = Absent
  Command = {"publish", "remove", "domain", "changes"}
  Bound <- Thrice
  KeepKind = FALSE
SYMMETRY Symmetry
INVARIANT TypeOK
INVARIANT NoLostUpdate
PROPERTY RemovedStaysRemoved
PROPERTY UnshownNoticesKept
