----------------------------- MODULE Reconcile -----------------------------
(***************************************************************************)
(* Reconciliation of the declared cloud with the known one                 *)
(* (src/src/cloud/reconcile.rs), on the clouds that parse_cloud_config     *)
(* builds (src/src/cloud.rs).                                              *)
(*                                                                         *)
(* A cloud is a function from server names to KetServer records.  Of a     *)
(* server only what reconciliation tells apart is kept.  The domain stands *)
(* for every identifying address (the IP is checked in the same places and *)
(* the same way), secrets.id for all the generated credentials of a server *)
(* together, and token says whether the panel's token was ever set.  The   *)
(* supervisor's inbound, which every server has, is left out.              *)
(***************************************************************************)
EXTENDS Naturals

CONSTANTS
  Names,     \* server names
  Domains,   \* domains a server can be given
  SshPorts,  \* ports its SSH daemon can be moved to
  Inbound    \* inbounds: records with a name, a port and whether they are of TLS kind

AnsiblePort == 22  \* where SSH listens before provisioning

ASSUME ReconcileAssumption ==
  /\ SshPorts \subseteq Nat
  /\ \A i \in Inbound : {"name", "port", "tls"} \subseteq DOMAIN i

InboundNames(I) == {i.name : i \in I}
NamePorts(I)    == {<<i.name, i.port>> : i \in I}

ServerState == {"Offgrid", "Production"}
ReconMode   == {"Reload", "Remap", "Rebase"}

\* A server as the config file declares it, and as the daemon holds it.
Declared ==
  [state: ServerState, enabled: BOOLEAN, domain: Domains, ssh_port: SshPorts,
   inbounds: SUBSET Inbound]
Secrets   == [id: Nat, token: BOOLEAN, subids: SUBSET InboundNames(Inbound)]
KetServer ==
  [state: ServerState, enabled: BOOLEAN, domain: Domains, ssh_port: SshPorts,
   inbounds: SUBSET Inbound, conn: SshPorts \cup {AnsiblePort}, secrets: Secrets]

IsCloud(c, S) == DOMAIN c \subseteq Names /\ \A n \in DOMAIN c : c[n] \in S
NoServers == [n \in {} |-> {}]

----------------------------------------------------------------------------
(* parse_cloud_config *)

Distinct(I) == \A i, j \in I : i.name = j.name \/ i.port = j.port => i = j

ParseOk(cfg) ==
  /\ cfg.inbound_set # {} /\ Distinct(cfg.inbound_set)
  /\ \A m, n \in DOMAIN cfg.servers :
       cfg.servers[m].domain = cfg.servers[n].domain => m = n
  /\ \A n \in DOMAIN cfg.servers :
       /\ Distinct(cfg.servers[n].inbounds)
       /\ NamePorts(cfg.servers[n].inbounds) \subseteq NamePorts(cfg.inbound_set)

\* A server without inbounds of its own takes the cloud's; build_inventory and
\* fill_secrets then set the connection and fresh secrets.
FromConfig(d, inbound_set, id) ==
  LET inbounds == IF d.inbounds = {} THEN inbound_set ELSE d.inbounds
  IN [state    |-> d.state,
      enabled  |-> d.enabled,
      domain   |-> d.domain,
      ssh_port |-> d.ssh_port,
      inbounds |-> inbounds,
      conn     |-> IF d.state = "Offgrid" THEN AnsiblePort ELSE d.ssh_port,
      secrets  |-> [id |-> id, token |-> FALSE, subids |-> InboundNames(inbounds)]]

\* ids gives every server its newly generated credentials.
Parse(cfg, ids) ==
  [n \in DOMAIN cfg.servers |-> FromConfig(cfg.servers[n], cfg.inbound_set, ids[n])]

----------------------------------------------------------------------------
(* Merging one server that both clouds have. *)

DeclaredOffgrid(old, new) == new.state = "Offgrid"
BothOffgrid(old, new) == old.state = "Offgrid" /\ new.state = "Offgrid"

\* A server that is not Offgrid on both sides keeps its inbounds, which the new
\* cloud must therefore still declare.
ReloadOk(old, new, inbound_set) ==
  BothOffgrid(old, new) \/ NamePorts(old.inbounds) \subseteq NamePorts(inbound_set)

ReloadMergeFresh(old, new) ==
  IF BothOffgrid(old, new) THEN new
  ELSE [old EXCEPT !.enabled = new.enabled, !.secrets.id = new.secrets.id]
ReloadMerge(old, new) ==
  IF BothOffgrid(old, new) THEN new ELSE [old EXCEPT !.enabled = new.enabled]

RemapMerge(old, new) == [new EXCEPT !.secrets = old.secrets]

RebaseOk(old, new) == ~(old.state = "Offgrid" /\ new.state = "Production")

\* A provisioned server is changed unless it is disabled; the connection keeps
\* the old port until the remote side has been moved.
RebaseMerge(old, new) ==
  IF new.state = "Offgrid" THEN RemapMerge(old, new)
  ELSE IF new.enabled
  THEN [new EXCEPT
          !.secrets = [old.secrets EXCEPT !.subids = @ \cup new.secrets.subids],
          !.conn = old.conn]
  ELSE [old EXCEPT !.enabled = FALSE]

----------------------------------------------------------------------------
(* reconcile_cloud, up to Cloudflare and the remote actions. *)

DomainsOf(c, N) == {c[n].domain : n \in N}

\* The domains still taken when the added servers are checked.
Taken(old, new) ==
  DomainsOf(old, DOMAIN old) \ DomainsOf(old, DOMAIN old \ DOMAIN new)

MergeOk(mode, old, new, inbound_set) ==
  \/ DOMAIN old = {}
  \/ /\ \A n \in DOMAIN new \ DOMAIN old : new[n].domain \notin Taken(old, new)
     /\ \A n \in DOMAIN new \cap DOMAIN old :
          /\ mode = "Reload" => ReloadOk(old[n], new[n], inbound_set)
          /\ mode = "Rebase" => RebaseOk(old[n], new[n])

Merged(mode, old, new) ==
  [n \in DOMAIN new |->
     IF n \notin DOMAIN old THEN new[n]
     ELSE CASE mode = "Reload" -> ReloadMerge(old[n], new[n])
            [] mode = "Remap"  -> RemapMerge(old[n], new[n])
            [] mode = "Rebase" -> RebaseMerge(old[n], new[n])]

----------------------------------------------------------------------------
(* create_rebase_data and the remote part of a Rebase. *)

Added(old, new) ==
  {i \in new.inbounds : i.name \notin InboundNames(old.inbounds)}
Removed(old, new) ==
  {i \in old.inbounds : i.name \notin InboundNames(new.inbounds)}

\* An inbound is immutable, a TLS one pins the domain, and removal must be forced.
RebaseAllowed(old, new, forced) ==
  /\ \A i \in old.inbounds, j \in new.inbounds :
       i.name = j.name => i = j /\ (i.tls => old.domain = new.domain)
  /\ Removed(old, new) # {} => forced

\* The data of a server that is not in the current cloud is copied from the server
\* iterated before it; iterated first, it makes the whole command fail.  The order
\* is that of a HashMap: the command may pass, may fail, or either.
Accepted(old, new, forced) ==
  \A n \in DOMAIN new \cap DOMAIN old : RebaseAllowed(old[n], new[n], forced)
RebaseDataMayPass(old, new, forced) ==
  Accepted(old, new, forced) /\ (DOMAIN new = {} \/ DOMAIN new \cap DOMAIN old # {})
RebaseDataMayFail(old, new, forced) ==
  ~Accepted(old, new, forced) \/ ~(DOMAIN new \subseteq DOMAIN old)

\* deploy_rebase: the servers scheduled, and what each of them needs.  The actions
\* are sorted, and moving SSH comes last.
Scheduled(mode, old, new) ==
  IF mode = "Rebase"
  THEN {n \in DOMAIN old \cap DOMAIN new : new[n].state = "Production"}
  ELSE {}

RemoteActions(old, new, merged) ==
  (IF old.domain # merged.domain THEN {"Domain"} ELSE {}) \cup
  (IF Removed(old, new) # {} THEN {"DelInbound"} ELSE {}) \cup
  (IF Added(old, new) # {} THEN {"AddInbound"} ELSE {}) \cup
  (IF old.ssh_port # merged.ssh_port THEN {"SSH"} ELSE {})

\* What a run that fails before its last action leaves of the remote server r, and
\* what one that ends leaves.
AfterDel(r, old, new)   == [r EXCEPT !.inbounds = @ \ Removed(old, new)]
AfterAdd(r, old, new)   == [AfterDel(r, old, new) EXCEPT !.inbounds = @ \cup Added(old, new)]
Stopped(r, old, new)    == {r, AfterDel(r, old, new), AfterAdd(r, old, new)}
Reconfigured(r, old, new, merged) ==
  [AfterAdd(r, old, new) EXCEPT
     !.port = IF "SSH" \in RemoteActions(old, new, merged) THEN merged.ssh_port ELSE @]
=============================================================================
