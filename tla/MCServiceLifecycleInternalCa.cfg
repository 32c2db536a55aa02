SPECIFICATION Spec
CONSTANTS
  Selected = {"dns", "proxy", "ca"}
  CaInProxy = TRUE
  Tailscale = TRUE
  Vmid = {v1, v2}
  Setting = {s1, s2}
  DeadGateway = DeadGateway
  Foreign = Foreign
  Absent = Absent
  Command = {"add", "destroy"}
  FaultPoint <- AnyCall
  Bound <- NoCrash
CHECK_DEADLOCK FALSE
SYMMETRY Symmetry
PROPERTY ForeignUntouched
