SPECIFICATION Spec
CONSTANTS
  h1 = h1
  h2 = h2
  Host = {h1, h2}
  Wildcard = Wildcard
  Hostless = Hostless
  Absent = Absent
  Bound <- MCBound
INVARIANTS TypeOK KeptAreServed ResolverKnown
PROPERTIES GuardedBeforeAdvertised IssuerFirst
SYMMETRY Symmetry
CHECK_DEADLOCK FALSE
