SPECIFICATION Spec
CONSTANTS
  Selected = {"dns", "proxy", "vpn"}
  CaInProxy = FALSE
  Tailscale = TRUE
  Vmid = {v1, v2, v3, v4}
  Setting = {s1, s2}
  DeadGateway = DeadGateway
  Foreign = Foreign
  Absent = Absent
  Command = {"add", "recheck", "remove", "destroy"}
  FaultPoint <- AnyCall
  Bound <- Reused
CHECK_DEADLOCK FALSE
SYMMETRY Symmetry
INVARIANT TypeOK
PROPERTY ForeignUntouched
PROPERTY OnlyForceStrandsTailnet
