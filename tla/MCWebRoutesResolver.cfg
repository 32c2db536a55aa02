SPECIFICATION Spec
CONSTANTS
  h1 = h1
  h2 = h2
  Host = {h1, h2}
  Wildcard = Wildcard
  Hostless = Hostless
  Absent = Absent
  Bound <- MCBound
INVARIANT ResolverAlwaysKnown
SYMMETRY Symmetry
CHECK_DEADLOCK FALSE
