------------------------------ MODULE MCDaemon ------------------------------
(***************************************************************************)
(* Small instances of Daemon for TLC: two servers, two inbounds, and the   *)
(* config files between which the operator moves.                          *)
(***************************************************************************)
EXTENDS Daemon

MCNames   == {"a", "b"}
MCDomains == {"d1", "d2"}
MCPorts   == {101, 102}

plain == [name |-> "plain", port |-> 1, tls |-> FALSE]
tls   == [name |-> "tls", port |-> 2, tls |-> TRUE]
MCInbound == {plain, tls}

Server1(state, domain) ==
  [state |-> state, enabled |-> TRUE, domain |-> domain, ssh_port |-> 101,
   inbounds |-> {plain}]

File(servers) == [inbound_set |-> MCInbound, servers |-> servers]
Both(a, b)    == File([n \in MCNames |-> IF n = "a" THEN a ELSE b])

\* a is provisioned and b is not.
Base == Both(Server1("Production", "d1"), Server1("Offgrid", "d2"))

BaseOnly == {Base}
Stale    == {Base, Both(Server1("Offgrid", "d1"), Server1("Offgrid", "d2"))}

Cmd(op, arg) == [op |-> op, arg |-> arg]
TaskCommands ==
  {Cmd("Expand", n) : n \in MCNames} \cup {Cmd("Destroy", n) : n \in MCNames}
  \cup {Cmd("Reload", "")}
ReconCommands ==
  {Cmd("Reload", ""), Cmd("Remap", ""), Cmd("Rebase", ""), Cmd("Rebase", "forced"),
   Cmd("Shutdown", "")}

\* The config files of the reconciliation run: b is not provisioned yet (Base), the
\* operator works from an old copy, moves a and adds an inbound, disables it,
\* declares b as if it were provisioned, drops b, drops both, or makes a mistake.
A == Server1("Production", "d1")
B == Server1("Offgrid", "d2")
ReconConfigs ==
  {Base,
   Both([A EXCEPT !.state = "Offgrid"], B),
   Both([A EXCEPT !.ssh_port = 102, !.inbounds = MCInbound], B),
   Both([A EXCEPT !.enabled = FALSE, !.inbounds = {tls}], B),
   Both(A, [B EXCEPT !.state = "Production"]),
   File([n \in {"a"} |-> A]),
   File(NoServers),
   Both(A, [B EXCEPT !.domain = "d1"])}

\* Both servers are provisioned, and the operator moves the SSH port of both.
TwoPorts ==
  LET Two(port) == Both([A EXCEPT !.ssh_port = port],
                        [B EXCEPT !.ssh_port = port, !.state = "Production"])
  IN {Two(101), Two(102)}

\* The operator disables a and gives it another inbound at the same time.
Disabling == {Base, Both([A EXCEPT !.enabled = FALSE, !.inbounds = MCInbound], B)}

\* The operator exchanges the domains of the two servers.
Swapped == {Base, Both([A EXCEPT !.domain = "d2"], [B EXCEPT !.domain = "d1"])}

\* a is destroyed, and declared as Production again before its task has ended.
DestroyRemap == {Cmd("Destroy", "a"), Cmd("Remap", "")}

RebaseOnly == {Cmd("Rebase", "")}
ReloadOnly == {Cmd("Reload", "")}
=============================================================================
