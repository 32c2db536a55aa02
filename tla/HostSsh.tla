------------------------------- MODULE HostSsh -------------------------------
(***************************************************************************)
(* The dedicated SSH daemon of the Proxmox host: src/src/host-ssh-adapter.js. *)
(* Its directory, record, configuration, unit and keys, and one action for *)
(* each step that can fail or be the last of a dead process.  The order of *)
(* the steps, and what follows a failed one, is in module Exposures.       *)
(*                                                                         *)
(* An account stands for the pair of login account and host address.  Keys *)
(* are numbered in the order in which ssh-keygen makes them.  The server   *)
(* identity, file modes and the checks of paths and drop-ins are left out. *)
(***************************************************************************)
EXTENDS Naturals

CONSTANTS
  Account,   \* login accounts
  Nobody     \* no account

VARIABLE host

ASSUME NobodyIsNoAccount == Nobody \notin Account

NoKey == 0

HostType == [dir : BOOLEAN, record : Account \cup {Nobody}, disabled : BOOLEAN,
             config : Account \cup {Nobody}, unit : BOOLEAN, daemon : BOOLEAN,
             client : Nat, pending : Nat, authorized : Nat, issued : Nat]

NoHostSsh == [dir |-> FALSE, record |-> Nobody, disabled |-> TRUE, config |-> Nobody,
              unit |-> FALSE, daemon |-> FALSE, client |-> NoKey, pending |-> NoKey,
              authorized |-> NoKey, issued |-> 0]

HostInit == host = NoHostSsh

\* assertOwned
HostOwned == host.record # Nobody /\ host.config = host.record /\ host.unit

HostEnabled == host.record # Nobody /\ ~host.disabled

\* preflight
HostAccepts(a) ==
  IF host.record = Nobody THEN ~host.unit /\ ~host.dir
  ELSE HostOwned /\ (host.disabled \/ host.record = a)

\* healthCheckExposure: a login with the client key.
HostHealthy(a) ==
  /\ HostOwned /\ HostEnabled /\ host.record = a
  /\ host.daemon
  /\ host.client # NoKey /\ host.client = host.authorized

-----------------------------------------------------------------------------
(* publish *)

MakeDirectory == host' = [host EXCEPT !.dir = TRUE]

\* Access stays disabled until the daemon runs.
WriteRecord(a) == host' = [host EXCEPT !.record = a, !.disabled = TRUE]

WriteConfig(a) == host' = [host EXCEPT !.config = a]

WriteUnit == host' = [host EXCEPT !.unit = TRUE]

\* A new pair, or the prepared one.
InstallKey(prepared) ==
  host' = IF prepared = NoKey
          THEN [host EXCEPT !.issued = @ + 1, !.client = host.issued + 1]
          ELSE [host EXCEPT !.client = prepared]

Authorize == host' = [host EXCEPT !.authorized = host.client]

StartDaemon == host' = [host EXCEPT !.daemon = TRUE]

EnableRecord == host' = [host EXCEPT !.disabled = FALSE]

-----------------------------------------------------------------------------
(* revoke: authorization goes first, before any call that can fail. *)

\* A fault: a prepared key survives the revocation.
RevokeKeepsPending == host' = [host EXCEPT !.authorized = NoKey, !.client = NoKey]

RevokeKeys == host' = [host EXCEPT !.authorized = NoKey, !.client = NoKey, !.pending = NoKey]

DisableRecord == host' = [host EXCEPT !.disabled = TRUE]

\* systemctl disable --now, which needs the unit; a failed one is followed by
\* systemctl kill, which may or may not reach the daemon.
StopDaemon == host' = [host EXCEPT !.daemon = FALSE]

StopDaemonFails == \E up \in {host.daemon, FALSE} : host' = [host EXCEPT !.daemon = up]

-----------------------------------------------------------------------------
(* prepareKey and uninstall *)

CanPrepare == HostEnabled /\ HostOwned /\ host.pending = NoKey

PrepareKey == host' = [host EXCEPT !.issued = @ + 1, !.pending = host.issued + 1]

CanActivate(a) == HostAccepts(a) /\ HostEnabled /\ host.pending # NoKey

RemoveUnit == host' = [host EXCEPT !.unit = FALSE]

RemoveRecord == host' = [host EXCEPT !.record = Nobody, !.disabled = TRUE]

RemoveFiles == host' = [host EXCEPT !.config = Nobody, !.dir = FALSE]
=============================================================================
