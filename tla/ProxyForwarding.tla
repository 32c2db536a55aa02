--------------------------- MODULE ProxyForwarding ---------------------------
(***************************************************************************)
(* What TCP and SSH exposures change in the reverse proxy's container and  *)
(* in the VPN gateway: the forwarding units and their records              *)
(* (src/src/tcp-adapter.js), the administrative sshd of the proxy, which   *)
(* makes room on port 22 (src/src/proxy-ssh-adapter.js), and the ports that *)
(* the gateway forwards.  The order of the steps is in module Exposures.   *)
(*                                                                         *)
(* A forwarding is told by the hostname it belongs to.  Its backend, which *)
(* an operator may edit, unmanaged units, listeners and firewall rules, and *)
(* sshd configurations that are refused, are left out.                     *)
(***************************************************************************)
EXTENDS Naturals

CONSTANTS
  Port,       \* client-facing ports
  SshPort,    \* 22
  AdminPort,  \* 22223, where the proxy is administered meanwhile
  Hostname,   \* who owns a forwarding
  Free        \* nobody

VARIABLES
  proxy,      \* units, records, listeners and sshd of the proxy
  gateway     \* whether there is a VPN gateway, and the ports it forwards

ASSUME PortsDiffer == SshPort # AdminPort
ASSUME FreeIsNoHostname == Free \notin Hostname

ProxyType == [unit : [Port -> Hostname \cup {Free}], record : [Port -> Hostname \cup {Free}],
              live : SUBSET Port,
              admin : {"ssh", "private", "stopped"},
              stock : {"ssh", "stopped"},
              saved : {"none", "active", "inactive"}]

GatewayType == [up : BOOLEAN, ports : SUBSET Port]

NoForwarding(stock) == [unit |-> [p \in Port |-> Free], record |-> [p \in Port |-> Free],
                        live |-> {}, admin |-> stock, stock |-> stock, saved |-> "none"]

NoGateway == [up |-> FALSE, ports |-> {}]

ForwardingInit == /\ \E stock \in {"ssh", "stopped"} : proxy = NoForwarding(stock)
                  /\ gateway = NoGateway

Listening(p) == \/ p \in proxy.live
                \/ p = SshPort /\ proxy.admin = "ssh"
                \/ p = AdminPort /\ proxy.admin = "private"

\* preflight of the proxy's sshd: managed, clear, or relocatable.
Relocatable == \/ proxy.saved # "none"
               \/ SshPort \notin proxy.live /\ ~Listening(AdminPort)

\* preflight of the TCP adapter
ForwardingAllowed(p, h) ==
  /\ proxy.record[p] \in {Free, h}
  /\ IF proxy.record[p] = h
     THEN proxy.unit[p] = h /\ (p \in proxy.live \/ ~Listening(p))
     ELSE /\ proxy.unit[p] = Free
          /\ Listening(p) => p = SshPort /\ Relocatable
          /\ p \notin gateway.ports

-----------------------------------------------------------------------------
(* publish and remove *)

\* gateway(request, true), and gateway(request)
CloseGateway(p) == gateway' = [gateway EXCEPT !.ports = @ \ {p}]

OpenGateway(p, tailnet) ==
  gateway' = [gateway EXCEPT !.ports = IF gateway.up /\ tailnet THEN @ \cup {p} ELSE @ \ {p}]

CanListen(p) == ~Listening(p) \/ p \in proxy.live

\* Units, a listening socket, and the record last.
InstallForwarding(p, h) ==
  proxy' = [proxy EXCEPT !.unit[p] = h, !.record[p] = h, !.live = @ \cup {p}]

InstallForwardingFails(p, h) == proxy' = [proxy EXCEPT !.unit[p] = h]

\* A fault: a retry insists on units that the first attempt
\* has removed.
UnitsMustExist(p) == proxy.unit[p] # Free

\* A record is missing because an earlier attempt has removed everything.
AlreadyRemoved(p) == proxy.unit[p] = Free /\ p \notin proxy.live

\* disable --now, then units and record.
RemoveForwarding(p) ==
  proxy' = [proxy EXCEPT !.unit[p] = Free, !.record[p] = Free, !.live = @ \ {p}]

RemoveForwardingFails(p) == proxy' = [proxy EXCEPT !.live = @ \ {p}]

-----------------------------------------------------------------------------
(* prepare and restore of the proxy's sshd *)

\* A fault: what is active is recorded again by a retry.
SaveActivityAgain ==
  proxy' = [proxy EXCEPT !.saved = IF proxy.admin = "stopped" THEN "inactive" ELSE "active"]

\* A fault: where the sshd is goes into the record.
SavePlace == proxy' = [proxy EXCEPT !.saved = proxy.admin]

\* What was active is recorded once, before anything is stopped.
SaveActivity ==
  proxy' = [proxy EXCEPT !.saved = IF @ # "none" THEN @
                                   ELSE IF proxy.admin = "stopped" THEN "inactive" ELSE "active"]

StopAdmin == proxy' = [proxy EXCEPT !.admin = "stopped"]

CanStartPrivate == AdminPort \notin proxy.live /\ SshPort \notin proxy.live

StartPrivate == proxy' = [proxy EXCEPT !.admin = IF proxy.saved = "active" THEN "private" ELSE @]

StartStock == proxy' = [proxy EXCEPT !.admin = IF proxy.saved = "active" THEN "ssh" ELSE @]

ForgetActivity == proxy' = [proxy EXCEPT !.saved = "none"]
=============================================================================
