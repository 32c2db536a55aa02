SPECIFICATION FairSpec
CONSTANTS
  Selected = {"dns", "proxy", "vpn"}
  CaInProxy = FALSE
  Tailscale = TRUE
  Vmid = {v1, v2, v3}
  Setting = {s1, s2}
  DeadGateway = DeadGateway
  Foreign = Foreign
  Absent = Absent
  Command = {"add", "remove", "destroy"}
  FaultPoint <- GatewayAnswers
  Bound <- Faulty
CHECK_DEADLOCK FALSE
PROPERTY UninstallCompletes
