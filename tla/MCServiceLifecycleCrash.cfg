SPECIFICATION Spec
CONSTANTS
  Selected = {"dns", "proxy", "ca", "vpn"}
  CaInProxy = TRUE
  Tailscale = TRUE
  Vmid = {v1, v2, v3, v4}
  Setting = {s1, s2}
  DeadGateway = DeadGateway
  Foreign = Foreign
  Absent = Absent
  Command = {"init", "add", "recheck", "destroy"}
  FaultPoint <- AnyCall
  Bound <- Crashing
CHECK_DEADLOCK FALSE
SYMMETRY Symmetry
VIEW WithoutHistory
INVARIANT GatewayIsRecoverable
PROPERTY RecordedUntilDestroyed
