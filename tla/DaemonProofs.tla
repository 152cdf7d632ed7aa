---------------------------- MODULE DaemonProofs ----------------------------
(***************************************************************************)
(* The daemon's cycles, for any servers, config files and bounds.          *)
(***************************************************************************)
EXTENDS Daemon, TLAPS

----------------------------------------------------------------------------
(* What the operators of reconciliation and of the database return. *)

\* Generated credentials are numbered: 0 is none.
Held ==
  [state: ServerState, enabled: BOOLEAN, domain: Domains, ssh_port: SshPorts,
   inbounds: SUBSET Inbound, conn: SshPorts \cup {AnsiblePort},
   secrets: [id: 0..4, token: BOOLEAN, subids: SUBSET InboundNames(Inbound)]]
Stored ==
  [state: ServerState, enabled: BOOLEAN, domain: Domains, ssh_port: SshPorts,
   inbounds: SUBSET Inbound, id: 0..4, token: BOOLEAN]
Installed ==
  [id: 0..4, port: SshPorts \cup {AnsiblePort}, inbounds: SUBSET Inbound]

\* A server in memory is a KetServer.
LEMMA HeldIsServer == Held \subseteq KetServer
  BY SMT DEF Held, KetServer, Secrets

\* The names of some inbounds are names of inbounds.
LEMMA NamesOfInbounds ==
  ASSUME NEW I \in SUBSET Inbound
  PROVE  InboundNames(I) \in SUBSET InboundNames(Inbound)
  BY DEF InboundNames

\* What update_db writes of a server is a row, with the server's columns.
LEMMA RowTyped ==
  ASSUME NEW s \in Held
  PROVE  /\ Row(s) \in Stored
         /\ Row(s).id = s.secrets.id /\ Row(s).token = s.secrets.token
         /\ Row(s).state = s.state
  BY DEF Row, Held, Stored

\* What load_cloud makes of a row is a server whose row it is.
LEMMA LoadTyped ==
  ASSUME NEW r \in Stored
  PROVE  /\ LoadServer(r) \in Held
         /\ Row(LoadServer(r)) = r
         /\ LoadServer(r).secrets.id = r.id /\ LoadServer(r).secrets.token = r.token
<1>1. InboundNames(r.inbounds) \in SUBSET InboundNames(Inbound)
  BY NamesOfInbounds DEF Stored
<1>2. LoadServer(r) \in Held
  BY <1>1 DEF LoadServer, Held, Stored
<1>3. Row(LoadServer(r)) = r
  BY DEF LoadServer, Row, Stored
<1> QED BY <1>2, <1>3 DEF LoadServer

\* A server that fill_secrets has given new credentials has no token.
LEMMA FromConfigTyped ==
  ASSUME NEW d \in Declared, NEW I \in SUBSET Inbound, NEW i \in 0..4
  PROVE  /\ FromConfig(d, I, i) \in Held
         /\ ~FromConfig(d, I, i).secrets.token
         /\ FromConfig(d, I, i).secrets.id = i
         /\ FromConfig(d, I, i).state = d.state
<1> DEFINE J == IF d.inbounds = {} THEN I ELSE d.inbounds
           C == IF d.state = "Offgrid" THEN AnsiblePort ELSE d.ssh_port
<1>1. J \in SUBSET Inbound /\ C \in SshPorts \cup {AnsiblePort}
  BY DEF Declared
<1>2. InboundNames(J) \in SUBSET InboundNames(Inbound)
  BY <1>1, NamesOfInbounds
<1>3. FromConfig(d, I, i) =
        [state |-> d.state, enabled |-> d.enabled, domain |-> d.domain,
         ssh_port |-> d.ssh_port, inbounds |-> J, conn |-> C,
         secrets |-> [id |-> i, token |-> FALSE, subids |-> InboundNames(J)]]
  BY DEF FromConfig
<1> HIDE DEF J, C
<1> QED BY <1>1, <1>2, <1>3 DEF Held, Declared

\* A merged server is typed; it has a token only if the old one has, and has its
\* credentials then; and a Reload makes no Production server Offgrid.
LEMMA ReloadMergeTyped ==
  ASSUME NEW old \in Held, NEW new \in Held, ~new.secrets.token
  PROVE  /\ ReloadMerge(old, new) \in Held
         /\ ReloadMerge(old, new).secrets.token =>
              old.secrets.token /\ ReloadMerge(old, new).secrets.id = old.secrets.id
         /\ ReloadMerge(old, new).state = "Offgrid" => old.state = "Offgrid"
  BY DEF ReloadMerge, BothOffgrid, Held

\* A Remap takes the old secrets over.
LEMMA RemapMergeTyped ==
  ASSUME NEW old \in Held, NEW new \in Held
  PROVE  /\ RemapMerge(old, new) \in Held
         /\ RemapMerge(old, new).secrets.token =>
              old.secrets.token /\ RemapMerge(old, new).secrets.id = old.secrets.id
  BY DEF RemapMerge, Held

\* So does a Rebase, with the sub-IDs of new inbounds added.
LEMMA RebaseMergeTyped ==
  ASSUME NEW old \in Held, NEW new \in Held
  PROVE  /\ RebaseMerge(old, new) \in Held
         /\ RebaseMerge(old, new).secrets.token =>
              old.secrets.token /\ RebaseMerge(old, new).secrets.id = old.secrets.id
<1>1. CASE new.state = "Offgrid"
  BY <1>1, RemapMergeTyped DEF RebaseMerge
<1>2. CASE new.state # "Offgrid" /\ new.enabled
  BY <1>2 DEF RebaseMerge, Held
<1>3. CASE new.state # "Offgrid" /\ ~new.enabled
  BY <1>3 DEF RebaseMerge, Held
<1> QED BY <1>1, <1>2, <1>3

\* No server of the cloud has a token, and every token goes with the credentials
\* installed according to r.
Fresh(c)     == \A n \in DOMAIN c : ~c[n].secrets.token
CredOk(c, r) == \A n \in DOMAIN c : c[n].secrets.token => c[n].secrets.id = r[n].id

\* The same for a whole cloud: reconcile_cloud.
LEMMA MergedTyped ==
  ASSUME NEW mode \in ReconMode, NEW old, NEW new, NEW r,
         IsCloud(old, Held), IsCloud(new, Held), Fresh(new), CredOk(old, r)
  PROVE  /\ IsCloud(Merged(mode, old, new), Held)
         /\ CredOk(Merged(mode, old, new), r)
         /\ mode = "Reload" =>
              \A n \in DOMAIN Merged(mode, old, new) \cap DOMAIN old :
                Merged(mode, old, new)[n].state = "Offgrid" => old[n].state = "Offgrid"
<1> DEFINE m == Merged(mode, old, new)
<1>1. DOMAIN m = DOMAIN new
  BY DEF Merged
<1>2. ASSUME NEW n \in DOMAIN new, n \notin DOMAIN old
      PROVE  m[n] = new[n]
  BY <1>2 DEF Merged
<1>3. ASSUME NEW n \in DOMAIN new, n \in DOMAIN old
      PROVE  /\ m[n] \in Held
             /\ m[n].secrets.token => m[n].secrets.id = r[n].id
             /\ mode = "Reload" => (m[n].state = "Offgrid" => old[n].state = "Offgrid")
  <2>1. old[n] \in Held /\ new[n] \in Held /\ ~new[n].secrets.token
    BY <1>3 DEF IsCloud, Fresh
  <2>2. old[n].secrets.token => old[n].secrets.id = r[n].id
    BY <1>3 DEF CredOk
  <2>3. CASE mode = "Reload"
    <3>1. m[n] = ReloadMerge(old[n], new[n])
      BY <1>3, <2>3 DEF Merged
    <3> QED BY <3>1, <2>1, <2>2, ReloadMergeTyped
  <2>4. CASE mode = "Remap"
    <3>1. m[n] = RemapMerge(old[n], new[n])
      BY <1>3, <2>4 DEF Merged
    <3> QED BY <3>1, <2>1, <2>2, <2>4, RemapMergeTyped
  <2>5. CASE mode = "Rebase"
    <3>1. m[n] = RebaseMerge(old[n], new[n])
      BY <1>3, <2>5 DEF Merged
    <3> QED BY <3>1, <2>1, <2>2, <2>5, RebaseMergeTyped
  <2> QED BY <2>3, <2>4, <2>5 DEF ReconMode
<1> HIDE DEF m
<1>4. IsCloud(m, Held)
  BY <1>1, <1>2, <1>3 DEF IsCloud
<1>5. CredOk(m, r)
  BY <1>1, <1>2, <1>3 DEF CredOk, Fresh
<1>6. mode = "Reload" =>
        \A n \in DOMAIN m \cap DOMAIN old : m[n].state = "Offgrid" => old[n].state = "Offgrid"
  BY <1>1, <1>3
<1> QED BY <1>4, <1>5, <1>6 DEF m

\* Four numbers are enough for one that three others are not.
LEMMA FreshIdsTyped ==
  ASSUME NEW n \in Names
  PROVE  FreshIds[n] \in 1..4
<1> DEFINE Used(j) == \/ j = remote[n].id
                      \/ n \in DOMAIN cloud /\ j = cloud[n].secrets.id
                      \/ n \in DOMAIN db /\ j = db[n].id
           Least(i) == ~Used(i) /\ \A j \in 1..i - 1 : Used(j)
<1>1. \E i \in 1..4 : ~Used(i)
  OBVIOUS
<1>2. \E i \in 1..4 : Least(i)
  <2> HIDE DEF Used
  <2>1. CASE ~Used(1)
    <3>1. Least(1)
      BY <2>1
    <3> QED BY <3>1
  <2>2. CASE Used(1) /\ ~Used(2)
    <3>1. Least(2)
      BY <2>2
    <3> QED BY <3>1
  <2>3. CASE Used(1) /\ Used(2) /\ ~Used(3)
    <3>1. Least(3)
      <4>1. \A j \in 1..3 - 1 : j = 1 \/ j = 2
        OBVIOUS
      <4> QED BY <2>3, <4>1
    <3> QED BY <3>1
  <2>4. CASE Used(1) /\ Used(2) /\ Used(3)
    <3>1. Least(4)
      <4>1. \A j \in 1..4 - 1 : j = 1 \/ j = 2 \/ j = 3
        OBVIOUS
      <4>2. ~Used(4)
        <5>1. \A i \in 1..4 : i = 1 \/ i = 2 \/ i = 3 \/ i = 4
          OBVIOUS
        <5> QED BY <1>1, <2>4, <5>1
      <4> QED BY <2>4, <4>1, <4>2
    <3> QED BY <3>1
  <2> QED BY <2>1, <2>2, <2>3, <2>4
<1>3. FreshIds[n] = CHOOSE i \in 1..4 : 
       /\ i # remote[n].id
       /\ n \in DOMAIN cloud => i # cloud[n].secrets.id
       /\ n \in DOMAIN db => i # db[n].id
       /\ \A j \in 1..i - 1 :
            \/ j = remote[n].id
            \/ n \in DOMAIN cloud /\ j = cloud[n].secrets.id
            \/ n \in DOMAIN db /\ j = db[n].id
  BY DEF FreshIds
<1>4. \E i \in 1..4 : 
       /\ i # remote[n].id
       /\ n \in DOMAIN cloud => i # cloud[n].secrets.id
       /\ n \in DOMAIN db => i # db[n].id
       /\ \A j \in 1..i - 1 :
            \/ j = remote[n].id
            \/ n \in DOMAIN cloud /\ j = cloud[n].secrets.id
            \/ n \in DOMAIN db /\ j = db[n].id
  BY <1>2, Zenon
<1> HIDE DEF Used, Least
<1> QED BY <1>3, <1>4

\* What parse_cloud_config makes of a config file.
LEMMA ParseTyped ==
  ASSUME NEW cfg, IsText(cfg)
  PROVE  IsCloud(Parse(cfg, FreshIds), Held) /\ Fresh(Parse(cfg, FreshIds))
<1> DEFINE p == Parse(cfg, FreshIds)
<1>1. DOMAIN p = DOMAIN cfg.servers /\ DOMAIN cfg.servers \subseteq Names
  BY DEF Parse, IsText, IsCloud
<1>2. ASSUME NEW n \in DOMAIN cfg.servers
      PROVE  p[n] \in Held /\ ~p[n].secrets.token
  <2>1. p[n] = FromConfig(cfg.servers[n], cfg.inbound_set, FreshIds[n])
    BY DEF Parse
  <2>2. FreshIds[n] \in 0..4
    <3>1. FreshIds[n] \in 1..4
      BY <1>1, FreshIdsTyped
    <3> QED BY <3>1
  <2>3. cfg.servers[n] \in Declared /\ cfg.inbound_set \in SUBSET Inbound
    BY DEF IsText, IsCloud
  <2> HIDE DEF p
  <2> QED BY <2>1, <2>2, <2>3, FromConfigTyped
<1> HIDE DEF p
<1>3. IsCloud(p, Held) /\ Fresh(p)
  BY <1>1, <1>2 DEF IsCloud, Fresh
<1> QED BY <1>3 DEF p

\* A run of deploy_rebase, ended or stopped, installs no credentials.
LEMMA DeployTyped ==
  ASSUME NEW r \in Installed, NEW old \in Held, NEW new \in Held, NEW merged \in Held
  PROVE  /\ \A x \in Stopped(r, old, new) : x \in Installed /\ x.id = r.id
         /\ Reconfigured(r, old, new, merged) \in Installed
         /\ Reconfigured(r, old, new, merged).id = r.id
<1>1. Removed(old, new) \subseteq Inbound /\ Added(old, new) \subseteq Inbound
  BY DEF Removed, Added, Held
<1>2. AfterDel(r, old, new) \in Installed /\ AfterDel(r, old, new).id = r.id
  BY <1>1 DEF AfterDel, Installed
<1>3. AfterAdd(r, old, new) \in Installed /\ AfterAdd(r, old, new).id = r.id
  BY <1>1, <1>2 DEF AfterAdd, Installed
<1>4. Reconfigured(r, old, new, merged) \in Installed /\ Reconfigured(r, old, new, merged).id = r.id
  BY <1>3 DEF Reconfigured, Installed, Held
<1> QED BY <1>2, <1>3, <1>4 DEF Stopped

\* The credentials are those that were installed or, after a setup, the cloud's.
Leaves(t, r) ==
  /\ r \in Installed
  /\ \/ r.id = remote[t[2]].id
     \/ t[1] = "FullSetup" /\ r.id = cloud[t[2]].secrets.id

\* That is what a playbook leaves, whether it has ended or was stopped.
LEMMA PlaybookTyped ==
  ASSUME NEW t \in Task, cloud[t[2]] \in Held, remote \in [Names -> Installed]
  PROVE  /\ Leaves(t, Complete(t))
         /\ t[1] = "FullSetup" => Complete(t).id = cloud[t[2]].secrets.id
         /\ \A r \in Partial(t) : Leaves(t, r)
<1> DEFINE s == cloud[t[2]]
           q == remote[t[2]]
<1>1. q \in Installed /\ t[1] \in {"FullSetup", "DestroyServer"}
  BY DEF Task
<1>2. CASE t[1] = "FullSetup"
  <2>1. Complete(t) = [id |-> s.secrets.id, port |-> s.ssh_port, inbounds |-> s.inbounds]
    BY <1>2 DEF Complete, Server
  <2>2. Partial(t) = {q, Complete(t), [Complete(t) EXCEPT !.port = q.port]} \cup
                     {[q EXCEPT !.id = s.secrets.id]}
    BY <1>2 DEF Partial, Server
  <2> HIDE DEF s, q
  <2>3. Complete(t) \in Installed /\ Complete(t).id = s.secrets.id
    BY <2>1 DEF Installed, Held, s
  <2>4. [Complete(t) EXCEPT !.port = q.port] \in Installed
        /\ [Complete(t) EXCEPT !.port = q.port].id = s.secrets.id
    BY <2>3, <1>1 DEF Installed
  <2>5. [q EXCEPT !.id = s.secrets.id] \in Installed
        /\ [q EXCEPT !.id = s.secrets.id].id = s.secrets.id
    BY <1>1 DEF Installed, Held, s
  <2> QED BY <1>1, <1>2, <2>2, <2>3, <2>4, <2>5 DEF Leaves, q, s
<1>3. CASE t[1] = "DestroyServer"
  <2>1. Complete(t) = [q EXCEPT !.port = AnsiblePort, !.inbounds = {}]
    BY <1>3 DEF Complete
  <2>2. Partial(t) = {q, Complete(t), [Complete(t) EXCEPT !.port = q.port]}
    BY <1>3 DEF Partial
  <2> HIDE DEF s, q
  <2>3. Complete(t) \in Installed /\ Complete(t).id = q.id
    BY <2>1, <1>1 DEF Installed
  <2>4. [Complete(t) EXCEPT !.port = q.port] \in Installed
        /\ [Complete(t) EXCEPT !.port = q.port].id = q.id
    BY <2>3, <1>1 DEF Installed
  <2> QED BY <1>1, <1>3, <2>2, <2>3, <2>4 DEF Leaves, q
<1> QED BY <1>1, <1>2, <1>3

----------------------------------------------------------------------------
(* The inductive invariant. *)

\* Memory, files, database and servers hold what the code puts there.
Types ==
  /\ IsText(config) /\ \A t \in Task : IsText(copy[t])
  /\ DOMAIN copy = Task
  /\ IsCloud(cloud, Held)
  /\ IsCloud(db, Stored)
  /\ remote \in [Names -> Installed]
  /\ phase \in {"down", "reconcile", "deploy", "launch", "running", "backup"}
  /\ tasks \in [Task -> TaskPc]
  /\ taskmap \subseteq Task /\ unsaved \subseteq Task
  /\ monitored \subseteq DOMAIN cloud

\* DaemonNext is filled step by step, and empty when daemon_core serves commands.
NextTypes ==
  /\ DOMAIN next = {"mode", "old", "new", "inbound_set", "merged", "pending"}
  /\ next.mode \in ReconMode
  /\ IsCloud(next.old, Held) /\ IsCloud(next.new, Held) /\ IsCloud(next.merged, Held)
  /\ Fresh(next.new)
  /\ next.pending \subseteq DOMAIN next.merged \cap DOMAIN next.old \cap DOMAIN next.new
  /\ phase # "deploy" => next.pending = {}

\* A playbook runs, or has ended and is not marked in memory and in the database yet,
\* only within the cycle its task is registered in.
CycleInv ==
  /\ phase \in {"down", "reconcile", "deploy", "launch"} => taskmap = {} /\ monitored = {}
  /\ phase = "down" => /\ cloud = NoServers /\ queue = <<>>
                       /\ \A t \in Task : tasks[t] = "none"
  /\ \A t \in Task :
       tasks[t] \in {"run", "mark", "save"} => t \in taskmap /\ t[2] \in DOMAIN cloud

\* The state of a server in memory says which of its two tasks can be at work, and
\* a setup that has ended has installed the credentials in memory.
AtWork(kind, n) == tasks[<<kind, n>>] \in {"run", "mark"}
StateInv ==
  \A n \in Names :
    /\ AtWork("FullSetup", n) => cloud[n].state = "Offgrid"
    /\ AtWork("DestroyServer", n) => cloud[n].state = "Production"
    /\ tasks[<<"FullSetup", n>>] = "mark" => cloud[n].secrets.id = remote[n].id

\* What a task that waits for the database has made of its server in memory.  The
\* marks of one server come in an order: nobody sets up a server that has a token,
\* and every server that is destroyed has one.
SaveInv ==
  /\ \A t \in Task : tasks[t] = "save" => t \in unsaved
  /\ phase \in {"running", "backup"} => \A n \in ToMonitor : cloud[n].secrets.token
  /\ \A n \in Names :
       /\ tasks[<<"DestroyServer", n>>] \in {"run", "mark", "save"} =>
            cloud[n].secrets.token /\ ~AtWork("FullSetup", n)
       /\ tasks[<<"FullSetup", n>>] = "save" =>
            /\ cloud[n].secrets.token
            /\ cloud[n].state = "Production" \/ <<"DestroyServer", n>> \in unsaved
       /\ tasks[<<"DestroyServer", n>>] = "save" => cloud[n].state = "Offgrid"

\* A token goes with the installed credentials wherever a cloud is kept.
TokenInv ==
  /\ CredOk(cloud, remote)
  /\ phase \in {"reconcile", "deploy"} => CredOk(next.old, remote)
  /\ phase = "deploy" => CredOk(next.merged, remote)
  /\ \A n \in DOMAIN db : db[n].token => db[n].id = remote[n].id

\* The database mirrors the cloud in memory, or the old one while there are two; it
\* may lack a mark, and then the server in memory is as that mark leaves it.
Columns(r, s) ==
  /\ r.enabled = s.enabled /\ r.domain = s.domain /\ r.ssh_port = s.ssh_port
  /\ r.inbounds = s.inbounds /\ r.id = s.secrets.id
Exact(r, s) ==
  /\ Columns(r, s) /\ r.state = s.state
  /\ s.state = "Production" => r.token = s.secrets.token
Mirrored(n, s) ==
  \/ Exact(db[n], s)
  \/ /\ Columns(db[n], s) /\ <<"FullSetup", n>> \in unsaved
     /\ s.state = "Production" /\ s.secrets.token
  \/ Columns(db[n], s) /\ <<"DestroyServer", n>> \in unsaved /\ s.state = "Offgrid"
Mirrors(c) == DOMAIN db = DOMAIN c /\ \A n \in DOMAIN db : Mirrored(n, c[n])
MirrorInv ==
  /\ phase \in {"launch", "running", "backup"} => Mirrors(cloud)
  /\ phase \in {"reconcile", "deploy"} => Mirrors(next.old)

\* A Reload has merged no Production server into an Offgrid one.
KeptInv ==
  phase = "deploy" /\ next.mode = "Reload" =>
    \A n \in DOMAIN next.merged \cap DOMAIN next.old :
      next.merged[n].state = "Offgrid" => next.old[n].state = "Offgrid"

DInv ==
  Types /\ NextTypes /\ CycleInv /\ StateInv /\ SaveInv /\ TokenInv /\ MirrorInv /\ KeptInv

----------------------------------------------------------------------------
(* Facts that several steps need. *)

\* SameRow, column by column.
LEMMA SameRowColumns ==
  ASSUME NEW r \in Stored, NEW s \in Held
  PROVE  SameRow(r, s) <=> Exact(r, s)
<1> DEFINE a == [r EXCEPT !.token = FALSE]
           b == [Row(s) EXCEPT !.token = FALSE]
<1>1. /\ DOMAIN a = DOMAIN b
      /\ DOMAIN a = {"state", "enabled", "domain", "ssh_port", "inbounds", "id", "token"}
  BY DEF Stored, Row
<1>2. /\ a.state = r.state /\ a.enabled = r.enabled /\ a.domain = r.domain
      /\ a.ssh_port = r.ssh_port /\ a.inbounds = r.inbounds /\ a.id = r.id /\ a.token = FALSE
  BY DEF Stored
<1>3. /\ b.state = s.state /\ b.enabled = s.enabled /\ b.domain = s.domain
      /\ b.ssh_port = s.ssh_port /\ b.inbounds = s.inbounds /\ b.id = s.secrets.id
      /\ b.token = FALSE
  BY DEF Row
<1>4. a = b <=> /\ a.state = b.state /\ a.enabled = b.enabled /\ a.domain = b.domain
                /\ a.ssh_port = b.ssh_port /\ a.inbounds = b.inbounds /\ a.id = b.id
                /\ a.token = b.token
  <2>1. a = [x \in DOMAIN a |-> a[x]] /\ b = [x \in DOMAIN b |-> b[x]]
    BY DEF Stored, Row
  <2> HIDE DEF a, b
  <2> QED BY <1>1, <2>1
<1>5. SameRow(r, s) <=> a = b /\ (s.state = "Production" => r.token = s.secrets.token)
  BY DEF SameRow
<1> HIDE DEF a, b
<1> QED BY <1>2, <1>3, <1>4, <1>5 DEF Exact, Columns

\* The row of a server mirrors it, and so does the row that a server was loaded from.
LEMMA RowMirrors ==
  ASSUME NEW s \in Held
  PROVE  Exact(Row(s), s)
  BY DEF Row, Exact, Columns

LEMMA LoadMirrors ==
  ASSUME NEW r \in Stored
  PROVE  Exact(r, LoadServer(r))
  BY DEF LoadServer, Exact, Columns

\* The server of a task at work is in memory, and commands are being served.
LEMMA WorkPhase ==
  ASSUME Types, CycleInv, NEW t \in Task, tasks[t] \in {"run", "mark", "save"}
  PROVE  /\ t \in taskmap /\ t[2] \in DOMAIN cloud /\ cloud[t[2]] \in Held
         /\ phase \in {"running", "backup"}
  BY DEF Types, CycleInv, IsCloud

\* The credentials on a server change only where a setup runs, to those of the cloud.
SetupInstalls ==
  /\ remote' \in [Names -> Installed]
  /\ \A n \in Names :
       \/ remote'[n].id = remote[n].id
       \/ tasks[<<"FullSetup", n>>] = "run" /\ remote'[n].id = cloud[n].secrets.id

\* That is so when runs are killed.
LEMMA KilledLeaves ==
  ASSUME Types, NextTypes, CycleInv, NEW K \in SUBSET Task,
         NEW P \in SUBSET next.pending, Killed(K, P)
  PROVE  SetupInstalls
<1> DEFINE Good(n, r) ==
      /\ r \in Installed
      /\ \/ r.id = remote[n].id
         \/ tasks[<<"FullSetup", n>>] = "run" /\ r.id = cloud[n].secrets.id
<1>1. PICK after \in [Names -> UNION {CutShort(n, K, P) : n \in Names}] :
        (\A n \in Names : after[n] \in CutShort(n, K, P)) /\ remote' = after
  BY DEF Killed
<1>2. ASSUME NEW n \in Names, NEW r \in CutShort(n, K, P)
      PROVE  Good(n, r)
  <2>0. remote[n] \in Installed
    BY DEF Types
  <2>1. CASE r = remote[n]
    BY <2>0, <2>1
  <2>2. ASSUME NEW t \in K, t[2] = n, tasks[t] = "run", r \in Partial(t)
        PROVE  Good(n, r)
    <3>1. t \in Task /\ cloud[t[2]] \in Held /\ remote \in [Names -> Installed]
      BY <2>2, WorkPhase DEF Types
    <3>2. Leaves(t, r)
      BY <2>2, <3>1, PlaybookTyped
    <3>3. t[1] = "FullSetup" => t = <<"FullSetup", n>>
      BY <2>2, <3>1 DEF Task
    <3> QED BY <2>2, <3>2, <3>3 DEF Leaves
  <2>3. CASE n \in P /\ r \in DeployStopped(n) \cup {DeployEnded(n)}
    <3>1. next.old[n] \in Held /\ next.new[n] \in Held /\ next.merged[n] \in Held
      BY <2>3 DEF NextTypes, IsCloud
    <3>2. /\ \A x \in DeployStopped(n) : x \in Installed /\ x.id = remote[n].id
          /\ DeployEnded(n) \in Installed /\ DeployEnded(n).id = remote[n].id
      <4> DEFINE q == remote[n]
                 o == next.old[n]
                 w == next.new[n]
                 m == next.merged[n]
      <4>1. q \in Installed /\ o \in Held /\ w \in Held /\ m \in Held
        BY <2>0, <3>1
      <4>2. /\ DeployStopped(n) = Stopped(q, o, w)
            /\ DeployEnded(n) = Reconfigured(q, o, w, m)
        BY DEF DeployStopped, DeployEnded
      <4> HIDE DEF q, o, w, m
      <4>3. /\ \A x \in Stopped(q, o, w) : x \in Installed /\ x.id = q.id
            /\ Reconfigured(q, o, w, m) \in Installed /\ Reconfigured(q, o, w, m).id = q.id
        BY <4>1, DeployTyped
      <4> QED BY <4>2, <4>3 DEF q
    <3>3. r \in DeployStopped(n) \/ r = DeployEnded(n)
      BY <2>3
    <3>4. r \in Installed /\ r.id = remote[n].id
      BY <3>2, <3>3
    <3> QED BY <3>4
  <2> HIDE DEF Good
  <2> QED BY <2>1, <2>2, <2>3 DEF CutShort
<1>3. \A n \in Names : Good(n, after[n])
  <2> HIDE DEF Good
  <2> QED BY <1>1, <1>2
<1> QED BY <1>1, <1>3 DEF SetupInstalls

\* Credentials that change so are not those a token goes with.
LEMMA TokensKept ==
  ASSUME DInv, SetupInstalls
  PROVE  /\ CredOk(cloud, remote')
         /\ \A n \in DOMAIN db : db[n].token => db[n].id = remote'[n].id
<1>1. \A n \in Names :
        \/ remote'[n].id = remote[n].id
        \/ tasks[<<"FullSetup", n>>] = "run" /\ remote'[n].id = cloud[n].secrets.id
  BY DEF SetupInstalls
<1>2. CredOk(cloud, remote')
  BY <1>1 DEF DInv, Types, TokenInv, CredOk, IsCloud
<1>3. ASSUME NEW n \in DOMAIN db, db[n].token
      PROVE  db[n].id = remote'[n].id
  <2>1. n \in Names /\ db[n] \in Stored /\ db[n].id = remote[n].id
    BY <1>3 DEF DInv, Types, IsCloud, TokenInv
  <2>2. CASE tasks[<<"FullSetup", n>>] = "run"
    <3>1. <<"FullSetup", n>> \in Task
      BY <2>1 DEF Task
    <3>2. n \in DOMAIN cloud /\ cloud[n] \in Held /\ phase \in {"running", "backup"}
      BY <2>2, <3>1, WorkPhase DEF DInv
    <3>3. db[n].id = cloud[n].secrets.id
      BY <1>3, <3>2 DEF DInv, MirrorInv, Mirrors, Mirrored, Exact, Columns
    <3> QED BY <1>1, <2>1, <3>3
  <2> QED BY <1>1, <2>1, <2>2
<1> QED BY <1>2, <1>3

----------------------------------------------------------------------------
(* The initial state. *)

\* The texts and records that stand for nothing.
LEMMA NothingTyped ==
  /\ IsText(NoText)
  /\ DOMAIN NoServers = {} /\ IsCloud(NoServers, Held) /\ IsCloud(NoServers, Stored)
  /\ Fresh(NoServers)
  /\ DOMAIN Idle = {"mode", "old", "new", "inbound_set", "merged", "pending"}
  /\ Idle.mode \in ReconMode /\ Idle.pending = {}
  /\ Idle.old = NoServers /\ Idle.new = NoServers /\ Idle.merged = NoServers
<1>1. DOMAIN NoServers = {} /\ IsCloud(NoServers, Held) /\ IsCloud(NoServers, Stored)
      /\ IsCloud(NoServers, Declared) /\ Fresh(NoServers)
  BY DEF NoServers, IsCloud, Fresh
<1>2. IsText(NoText)
  BY <1>1 DEF IsText, NoText
<1>3. /\ DOMAIN Idle = {"mode", "old", "new", "inbound_set", "merged", "pending"}
      /\ Idle.mode \in ReconMode /\ Idle.pending = {}
      /\ Idle.old = NoServers /\ Idle.new = NoServers /\ Idle.merged = NoServers
  BY DEF Idle, ReconMode
<1> QED BY <1>1, <1>2, <1>3

\* The state the daemon is first started in.
LEMMA InitInv == Init => DInv
<1> SUFFICES ASSUME Init PROVE DInv
  OBVIOUS
<1> DEFINE first == Parse(config, [n \in Names |-> 1])
           c == [n \in DOMAIN first |-> [first[n] EXCEPT !.secrets.token = n \in Provisioned]]
<1>1. IsText(config) /\ DOMAIN config.servers \subseteq Names
  BY DaemonAssumption DEF Init, IsText, IsCloud
<1>2. /\ DOMAIN c = DOMAIN config.servers
      /\ \A n \in DOMAIN c : c[n] \in Held /\ c[n].secrets.id = 1
                             /\ (c[n].secrets.token <=> n \in Provisioned)
  <2>1. DOMAIN c = DOMAIN config.servers
    BY DEF Parse
  <2>2. ASSUME NEW n \in DOMAIN config.servers
        PROVE  c[n] \in Held /\ c[n].secrets.id = 1
               /\ (c[n].secrets.token <=> n \in Provisioned)
    <3> DEFINE f == FromConfig(config.servers[n], config.inbound_set, 1)
               b == n \in Provisioned
    <3>1. config.servers[n] \in Declared /\ config.inbound_set \in SUBSET Inbound
      BY <1>1 DEF IsText, IsCloud
    <3>2. f \in Held /\ f.secrets.id = 1
      BY <3>1, FromConfigTyped
    <3>3. c[n] = [f EXCEPT !.secrets.token = b]
      BY <1>1 DEF Parse
    <3>4. b \in BOOLEAN
      OBVIOUS
    <3> HIDE DEF f, c, b
    <3>5. c[n] \in Held /\ c[n].secrets.id = 1 /\ c[n].secrets.token = b
      BY <3>2, <3>3, <3>4 DEF Held
    <3> QED BY <3>5 DEF b
  <2> HIDE DEF c
  <2> QED BY <2>1, <2>2
<1>3. /\ db = IF Provisioned = {} THEN NoServers ELSE Rows(c)
      /\ remote = [n \in Names |->
           IF n \in Provisioned
           THEN [id |-> 1, port |-> c[n].ssh_port, inbounds |-> c[n].inbounds]
           ELSE [id |-> 0, port |-> AnsiblePort, inbounds |-> {}]]
      /\ Provisioned \subseteq DOMAIN config.servers
  BY DEF Init
<1> HIDE DEF c
<1>4. \A n \in Names : /\ remote[n] \in Installed
                       /\ n \in Provisioned => remote[n].id = 1
  <2> SUFFICES ASSUME NEW n \in Names
               PROVE  remote[n] \in Installed /\ (n \in Provisioned => remote[n].id = 1)
    OBVIOUS
  <2>1. CASE n \in Provisioned
    <3>1. remote[n] = [id |-> 1, port |-> c[n].ssh_port, inbounds |-> c[n].inbounds]
      BY <1>3, <2>1
    <3>2. c[n] \in Held
      BY <1>2, <1>3, <2>1
    <3> QED BY <3>1, <3>2 DEF Held, Installed
  <2>2. CASE n \notin Provisioned
    <3>1. remote[n] = [id |-> 0, port |-> AnsiblePort, inbounds |-> {}]
      BY <1>3, <2>2
    <3> QED BY <2>2, <3>1 DEF Installed
  <2> QED BY <2>1, <2>2
<1>5. remote \in [Names -> Installed]
  BY <1>3, <1>4
<1>6. IsCloud(db, Stored) /\ \A n \in DOMAIN db : db[n].token => db[n].id = remote[n].id
  <2>1. CASE Provisioned = {}
    <3>1. db = NoServers
      BY <2>1, <1>3
    <3> QED BY <3>1, NothingTyped
  <2>2. CASE Provisioned # {}
    <3>1. DOMAIN db = DOMAIN c /\ \A n \in DOMAIN c : db[n] = Row(c[n])
      BY <2>2, <1>3 DEF Rows
    <3>2. \A n \in DOMAIN c : Row(c[n]) \in Stored /\ Row(c[n]).id = c[n].secrets.id
                              /\ Row(c[n]).token = c[n].secrets.token
      BY <1>2, RowTyped
    <3> QED BY <1>1, <1>2, <1>4, <3>1, <3>2 DEF IsCloud
  <2> QED BY <2>1, <2>2
<1>7. Types
  <2>1. tasks \in [Task -> TaskPc]
    BY DEF Init, TaskPc
  <2>2. DOMAIN copy = Task /\ \A t \in Task : IsText(copy[t])
    BY NothingTyped DEF Init
  <2> QED BY <1>1, <1>5, <1>6, <2>1, <2>2, NothingTyped DEF Init, Types
<1>8. NextTypes
  BY NothingTyped DEF Init, NextTypes
<1>9. CycleInv /\ StateInv /\ SaveInv
  <2>1. \A t \in Task : tasks[t] = "none"
    BY DEF Init
  <2>2. \A n \in Names : <<"FullSetup", n>> \in Task /\ <<"DestroyServer", n>> \in Task
    BY DEF Task
  <2> QED BY <2>1, <2>2 DEF Init, CycleInv, StateInv, SaveInv, AtWork
<1>10. TokenInv /\ MirrorInv /\ KeptInv
  <2>1. CredOk(cloud, remote)
    BY NothingTyped DEF Init, CredOk
  <2> QED BY <1>6, <2>1 DEF Init, TokenInv, MirrorInv, KeptInv
<1> QED BY <1>7, <1>8, <1>9, <1>10 DEF DInv

----------------------------------------------------------------------------
(* The operator, and the ends of the process. *)

\* An edit of the config file, a command that is sent, and no step at all.
LEMMA EditStep ==
  ASSUME DInv, EditConfig \/ (\E c \in Commands : Send(c)) \/ UNCHANGED vars
  PROVE  DInv'
<1>1. /\ config' = config \/ config' \in Configs
      /\ phase' = phase /\ (phase = "down" => queue' = queue)
      /\ cloud' = cloud /\ db' = db /\ unsaved' = unsaved /\ remote' = remote
      /\ next' = next /\ tasks' = tasks
      /\ copy' = copy /\ taskmap' = taskmap /\ monitored' = monitored
  BY DEF EditConfig, Send, vars, stored, world, work
<1>2. IsText(config')
  BY <1>1, DaemonAssumption DEF DInv, Types
<1>3. Types'
  BY <1>1, <1>2 DEF DInv, Types
<1>4. NextTypes' /\ KeptInv' /\ StateInv'
  BY <1>1 DEF DInv, NextTypes, KeptInv, StateInv, AtWork
<1>5. CycleInv' /\ SaveInv'
  BY <1>1 DEF DInv, CycleInv, SaveInv, AtWork, ToMonitor
<1>6. TokenInv' /\ MirrorInv'
  BY <1>1 DEF DInv, TokenInv, MirrorInv, Mirrors, Mirrored, CredOk
<1> QED BY <1>3, <1>4, <1>5, <1>6 DEF DInv

\* Whatever ends the process leaves a database that the next start can load.
LEMMA DieStep ==
  ASSUME DInv, Die, config' = config, IsCloud(db', Stored),
         \A n \in DOMAIN db' : db'[n].token => db'[n].id = remote'[n].id
  PROVE  DInv'
<1>1. SetupInstalls
  <2>1. Task \in SUBSET Task /\ next.pending \in SUBSET next.pending /\ Killed(Task, next.pending)
    BY DEF Die
  <2>2. Types /\ NextTypes /\ CycleInv
    BY DEF DInv
  <2> QED BY <2>1, <2>2, KilledLeaves
<1>2. /\ phase' = "down" /\ cloud' = NoServers /\ next' = Idle
      /\ tasks' = [t \in Task |-> "none"] /\ copy' = [t \in Task |-> NoText]
      /\ taskmap' = {} /\ unsaved' = {} /\ queue' = <<>> /\ monitored' = {}
  BY DEF Die
<1>3. Types'
  <2>1. tasks' \in [Task -> TaskPc]
    BY <1>2 DEF TaskPc
  <2>2. DOMAIN copy' = Task /\ \A t \in Task : IsText(copy'[t])
    BY <1>2, NothingTyped
  <2>3. IsText(config')
    BY DEF DInv, Types
  <2> QED BY <1>1, <1>2, <2>1, <2>2, <2>3, NothingTyped DEF Types, SetupInstalls
<1>4. NextTypes'
  BY <1>2, NothingTyped DEF NextTypes
<1>5. CycleInv' /\ StateInv' /\ SaveInv'
  <2>1. \A t \in Task : tasks'[t] = "none"
    BY <1>2
  <2>2. \A n \in Names : <<"FullSetup", n>> \in Task /\ <<"DestroyServer", n>> \in Task
    BY DEF Task
  <2> QED BY <1>2, <2>1, <2>2 DEF CycleInv, StateInv, SaveInv, AtWork
<1>6. TokenInv' /\ MirrorInv' /\ KeptInv'
  <2>1. CredOk(cloud', remote')
    BY <1>2, NothingTyped DEF CredOk
  <2> QED BY <1>2, <2>1 DEF TokenInv, MirrorInv, KeptInv
<1> QED BY <1>3, <1>4, <1>5, <1>6 DEF DInv

\* So do those that leave it as it is.
LEMMA EndStep ==
  ASSUME DInv,
         (Crash /\ db' = db) \/ LocalErr \/ LaunchErr \/ HandleShutdown \/ BackupErr
  PROVE  DInv'
<1>1. Die /\ config' = config /\ db' = db
  BY DEF Crash, LocalErr, LaunchErr, HandleShutdown, BackupErr
<1>2. \A n \in DOMAIN db : db[n].token => db[n].id = remote'[n].id
  <2>1. Task \in SUBSET Task /\ next.pending \in SUBSET next.pending /\ Killed(Task, next.pending)
    BY <1>1 DEF Die
  <2>2. Types /\ NextTypes /\ CycleInv
    BY DEF DInv
  <2>3. SetupInstalls
    BY <2>1, <2>2, KilledLeaves
  <2> QED BY <2>3, TokensKept
<1>3. IsCloud(db, Stored)
  BY DEF DInv, Types
<1> QED BY <1>1, <1>2, <1>3, DieStep

----------------------------------------------------------------------------
(* full_setup and destroy_server. *)

\* Both tasks of a server are tasks, and no other task is of that server.
LEMMA TasksOf ==
  /\ \A n \in Names : <<"FullSetup", n>> \in Task /\ <<"DestroyServer", n>> \in Task
  /\ \A t \in Task : /\ t[2] \in Names
                     /\ t = <<"FullSetup", t[2]>> \/ t = <<"DestroyServer", t[2]>>
                     /\ t[1] = "FullSetup" <=> t = <<"FullSetup", t[2]>>
                     /\ t[1] = "DestroyServer" <=> t = <<"DestroyServer", t[2]>>
  BY DEF Task

\* A step that brings no task to its playbook or to the database.
LEMMA SaveKept ==
  ASSUME SaveInv, cloud' = cloud, unsaved' = unsaved,
         phase' \in {"running", "backup"} => phase \in {"running", "backup"},
         \A u \in Task : /\ tasks'[u] \in {"run", "mark"} => tasks[u] \in {"run", "mark"}
                         /\ tasks'[u] = "save" => tasks[u] = "save"
  PROVE  SaveInv'
<1>1. \A t \in Task : tasks'[t] = "save" => t \in unsaved
  BY DEF SaveInv
<1>2. phase' \in {"running", "backup"} => \A n \in ToMonitor' : cloud[n].secrets.token
  BY DEF SaveInv, ToMonitor
<1>3. ASSUME NEW n \in Names
      PROVE  /\ tasks'[<<"DestroyServer", n>>] \in {"run", "mark", "save"} =>
                  cloud[n].secrets.token /\ ~AtWork("FullSetup", n)'
             /\ tasks'[<<"FullSetup", n>>] = "save" =>
                  /\ cloud[n].secrets.token
                  /\ cloud[n].state = "Production" \/ <<"DestroyServer", n>> \in unsaved
             /\ tasks'[<<"DestroyServer", n>>] = "save" => cloud[n].state = "Offgrid"
  <2>1. /\ tasks'[<<"DestroyServer", n>>] \in {"run", "mark", "save"} =>
             tasks[<<"DestroyServer", n>>] \in {"run", "mark", "save"}
        /\ tasks'[<<"DestroyServer", n>>] = "save" => tasks[<<"DestroyServer", n>>] = "save"
        /\ tasks'[<<"FullSetup", n>>] = "save" => tasks[<<"FullSetup", n>>] = "save"
        /\ AtWork("FullSetup", n)' => AtWork("FullSetup", n)
    <3> DEFINE F == <<"FullSetup", n>>
               D == <<"DestroyServer", n>>
    <3>1. F \in Task /\ D \in Task
      BY TasksOf
    <3> HIDE DEF F, D
    <3>2. /\ tasks'[F] \in {"run", "mark"} => tasks[F] \in {"run", "mark"}
          /\ tasks'[F] = "save" => tasks[F] = "save"
          /\ tasks'[D] \in {"run", "mark"} => tasks[D] \in {"run", "mark"}
          /\ tasks'[D] = "save" => tasks[D] = "save"
      BY <3>1
    <3> QED BY <3>2 DEF AtWork, F, D
  <2> QED BY <2>1 DEF SaveInv
<1> QED BY <1>1, <1>2, <1>3 DEF SaveInv

\* The end of a playbook.
LEMMA RunStep ==
  ASSUME DInv, NEW t \in Task, RunOk(t) \/ RunErr(t)
  PROVE  DInv'
<1> DEFINE n == t[2]
<1>1. /\ tasks[t] = "run"
      /\ tasks' = [tasks EXCEPT ![t] = "mark"] \/ tasks' = [tasks EXCEPT ![t] = "ended"]
      /\ config' = config /\ db' = db /\ unsaved' = unsaved /\ cloud' = cloud
      /\ phase' = phase /\ next' = next
      /\ copy' = copy /\ taskmap' = taskmap /\ queue' = queue /\ monitored' = monitored
  BY DEF RunOk, RunErr, Goes, stored
<1>2. n \in Names /\ t \in taskmap /\ n \in DOMAIN cloud /\ cloud[n] \in Held
      /\ phase \in {"running", "backup"}
  BY <1>1, WorkPhase, TasksOf DEF DInv
<1>3. remote \in [Names -> Installed] /\ tasks \in [Task -> TaskPc]
  BY DEF DInv, Types
<1>4. PICK r : remote' = [remote EXCEPT ![n] = r] /\ Leaves(t, r)
               /\ (t[1] = "FullSetup" /\ tasks' = [tasks EXCEPT ![t] = "mark"]
                     => r.id = cloud[n].secrets.id)
  <2>1. CASE RunOk(t)
    <3>1. remote' = [remote EXCEPT ![n] = Complete(t)]
      BY <2>1 DEF RunOk
    <3> QED BY <1>2, <1>3, <3>1, PlaybookTyped
  <2>2. CASE RunErr(t)
    <3>1. tasks'[t] = "ended"
      BY <1>3, <2>2 DEF RunErr, Goes
    <3>2. tasks' # [tasks EXCEPT ![t] = "mark"]
      BY <1>3, <3>1
    <3>3. ASSUME NEW r \in Partial(t), remote' = [remote EXCEPT ![n] = r]
          PROVE  Leaves(t, r)
      BY <1>2, <1>3, PlaybookTyped
    <3>4. CASE remote' = remote
      <4>1. remote' = [remote EXCEPT ![n] = remote[n]] /\ Leaves(t, remote[n])
        BY <1>2, <1>3, <3>4 DEF Leaves
      <4> QED BY <3>2, <4>1
    <3> QED BY <2>2, <3>2, <3>3, <3>4 DEF RunErr
  <2> QED BY <2>1, <2>2
<1> HIDE DEF n
<1>5. \A u \in Task : tasks'[u] = IF u = t THEN tasks'[t] ELSE tasks[u]
  BY <1>1, <1>3
<1>6. \A u \in Task : /\ tasks'[u] \in {"run", "mark"} => tasks[u] \in {"run", "mark"}
                      /\ tasks'[u] = "save" => tasks[u] = "save"
  BY <1>1, <1>3, <1>5
<1>7. SetupInstalls
  <2>1. r \in Installed
    BY <1>4 DEF Leaves
  <2>2. t[1] = "FullSetup" => tasks[<<"FullSetup", n>>] = "run"
    BY <1>1, TasksOf DEF n
  <2> QED BY <1>2, <1>3, <1>4, <2>1, <2>2 DEF SetupInstalls, Leaves, n
<1>8. Types'
  <2>1. tasks' \in [Task -> TaskPc]
    BY <1>1, <1>3 DEF TaskPc
  <2> QED BY <1>1, <1>7, <2>1 DEF DInv, Types, SetupInstalls
<1>9. NextTypes' /\ KeptInv'
  BY <1>1 DEF DInv, NextTypes, KeptInv
<1>10. CycleInv'
  <2>1. \A u \in Task : tasks'[u] \in {"run", "mark", "save"} =>
                       tasks[u] \in {"run", "mark", "save"}
    BY <1>6
  <2>2. phase # "down"
    BY <1>2
  <2> QED BY <1>1, <2>1, <2>2 DEF DInv, CycleInv
<1>11. StateInv'
  <2> SUFFICES ASSUME NEW m \in Names
               PROVE  /\ AtWork("FullSetup", m)' => cloud[m].state = "Offgrid"
                      /\ AtWork("DestroyServer", m)' => cloud[m].state = "Production"
                      /\ tasks'[<<"FullSetup", m>>] = "mark" => cloud[m].secrets.id = remote'[m].id
    BY <1>1 DEF StateInv
  <2> DEFINE F == <<"FullSetup", m>>
             D == <<"DestroyServer", m>>
  <2>0. F \in Task /\ D \in Task
    BY TasksOf
  <2> HIDE DEF F, D
  <2>1. AtWork("FullSetup", m)' => AtWork("FullSetup", m)
    <3>1. tasks'[F] \in {"run", "mark"} => tasks[F] \in {"run", "mark"}
      BY <1>6, <2>0
    <3> QED BY <3>1 DEF AtWork, F
  <2>2. AtWork("DestroyServer", m)' => AtWork("DestroyServer", m)
    <3>1. tasks'[D] \in {"run", "mark"} => tasks[D] \in {"run", "mark"}
      BY <1>6, <2>0
    <3> QED BY <3>1 DEF AtWork, D
  <2>3. /\ AtWork("FullSetup", m) => cloud[m].state = "Offgrid"
        /\ AtWork("DestroyServer", m) => cloud[m].state = "Production"
        /\ tasks[<<"FullSetup", m>>] = "mark" => cloud[m].secrets.id = remote[m].id
    BY DEF DInv, StateInv
  <2>4. ASSUME tasks'[<<"FullSetup", m>>] = "mark"
        PROVE  cloud[m].secrets.id = remote'[m].id
    <3>1. CASE t = <<"FullSetup", m>>
      <4>1. t[1] = "FullSetup" /\ n = m
        BY <3>1, TasksOf DEF n
      <4>2. tasks' = [tasks EXCEPT ![t] = "mark"]
        BY <1>1, <1>3, <2>4, <3>1
      <4> QED BY <1>3, <1>4, <4>1, <4>2
    <3>2. CASE t # <<"FullSetup", m>>
      <4>1. tasks[<<"FullSetup", m>>] = "mark"
        BY <1>5, <2>4, <3>2, TasksOf
      <4>2. AtWork("FullSetup", m)
        BY <4>1 DEF AtWork
      <4>3. n # m
        <5>1. SUFFICES ASSUME n = m PROVE FALSE
          OBVIOUS
        <5>2. t = <<"DestroyServer", m>>
          BY <3>2, <5>1, TasksOf DEF n
        <5>3. AtWork("DestroyServer", m)
          BY <1>1, <5>2 DEF AtWork
        <5> QED BY <2>3, <4>2, <5>3
      <4>4. remote'[m] = remote[m]
        BY <1>3, <1>4, <4>3
      <4> QED BY <2>3, <4>1, <4>4
    <3> QED BY <3>1, <3>2
  <2> QED BY <2>1, <2>2, <2>3, <2>4
<1>12. TokenInv'
  <2>1. CredOk(cloud, remote') /\ \A m \in DOMAIN db : db[m].token => db[m].id = remote'[m].id
    BY <1>7, TokensKept
  <2> QED BY <1>1, <1>2, <2>1 DEF TokenInv
<1>13. MirrorInv'
  BY <1>1 DEF DInv, MirrorInv, Mirrors, Mirrored
<1>14. SaveInv'
  BY <1>1, <1>6, SaveKept DEF DInv
<1> QED BY <1>8, <1>9, <1>10, <1>11, <1>12, <1>13, <1>14 DEF DInv

\* What the mark functions make of a server in memory.
LEMMA MarkedTyped ==
  ASSUME NEW s \in Held, NEW kind \in {"FullSetup", "DestroyServer"}
  PROVE  /\ MarkedServer(s, kind) \in Held
         /\ MarkedServer(s, kind).secrets.id = s.secrets.id
         /\ \A r : Columns(r, s) => Columns(r, MarkedServer(s, kind))
         /\ kind = "FullSetup" =>
              MarkedServer(s, kind).state = "Production" /\ MarkedServer(s, kind).secrets.token
         /\ kind = "DestroyServer" =>
              /\ MarkedServer(s, kind).state = "Offgrid"
              /\ MarkedServer(s, kind).secrets.token = s.secrets.token
<1> DEFINE M == MarkedServer(s, kind)
<1>1. CASE kind = "FullSetup"
  <2>1. M = [s EXCEPT !.state = "Production", !.secrets.token = TRUE, !.conn = s.ssh_port]
    BY <1>1 DEF MarkedServer
  <2> HIDE DEF M
  <2>2. /\ M \in Held /\ M.secrets.id = s.secrets.id /\ M.state = "Production"
        /\ M.secrets.token = TRUE
    BY <2>1 DEF Held, ServerState
  <2>3. /\ M.enabled = s.enabled /\ M.domain = s.domain /\ M.ssh_port = s.ssh_port
        /\ M.inbounds = s.inbounds
    BY <2>1 DEF Held
  <2> QED BY <1>1, <2>2, <2>3 DEF M, Columns
<1>2. CASE kind = "DestroyServer"
  <2>1. M = [s EXCEPT !.state = "Offgrid", !.conn = AnsiblePort]
    BY <1>2 DEF MarkedServer
  <2> HIDE DEF M
  <2>2. M \in Held /\ M.secrets = s.secrets /\ M.state = "Offgrid"
    BY <2>1 DEF Held, ServerState
  <2>3. /\ M.enabled = s.enabled /\ M.domain = s.domain /\ M.ssh_port = s.ssh_port
        /\ M.inbounds = s.inbounds
    BY <2>1 DEF Held
  <2> QED BY <1>2, <2>2, <2>3 DEF M, Columns
<1> QED BY <1>1, <1>2

\* What their statements make of its row.
LEMMA RowMarked ==
  ASSUME NEW r \in Stored, NEW kind \in {"FullSetup", "DestroyServer"}
  PROVE  /\ MarkedRow(r, kind) \in Stored /\ MarkedRow(r, kind).id = r.id
         /\ \A s : Columns(r, s) <=> Columns(MarkedRow(r, kind), s)
         /\ kind = "FullSetup" =>
              MarkedRow(r, kind).state = "Production" /\ MarkedRow(r, kind).token = TRUE
         /\ kind = "DestroyServer" =>
              MarkedRow(r, kind).state = "Offgrid" /\ MarkedRow(r, kind).token = FALSE
<1> DEFINE R == MarkedRow(r, kind)
<1>1. CASE kind = "FullSetup"
  <2>1. R = [r EXCEPT !.state = "Production", !.token = TRUE]
    BY <1>1 DEF MarkedRow
  <2> HIDE DEF R
  <2>2. /\ R \in Stored /\ R.state = "Production" /\ R.token = TRUE
        /\ R.enabled = r.enabled /\ R.domain = r.domain /\ R.ssh_port = r.ssh_port
        /\ R.inbounds = r.inbounds /\ R.id = r.id
    BY <2>1 DEF Stored, ServerState
  <2> QED BY <1>1, <2>2 DEF R, Columns
<1>2. CASE kind = "DestroyServer"
  <2>1. R = [r EXCEPT !.state = "Offgrid", !.token = FALSE]
    BY <1>2 DEF MarkedRow
  <2> HIDE DEF R
  <2>2. /\ R \in Stored /\ R.state = "Offgrid" /\ R.token = FALSE
        /\ R.enabled = r.enabled /\ R.domain = r.domain /\ R.ssh_port = r.ssh_port
        /\ R.inbounds = r.inbounds /\ R.id = r.id
    BY <2>1 DEF Stored, ServerState
  <2> QED BY <1>2, <2>2 DEF R, Columns
<1> QED BY <1>1, <1>2

\* A completed task marks its server in memory: the database is behind now.
LEMMA MarkStep ==
  ASSUME DInv, NEW t \in Task, Mark(t)
  PROVE  DInv'
<1> DEFINE n == t[2]
           k == t[1]
<1>1. /\ tasks[t] = "mark" /\ tasks' = [tasks EXCEPT ![t] = "save"]
      /\ cloud' = [cloud EXCEPT ![n] = MarkedServer(cloud[n], k)]
      /\ unsaved' = unsaved \cup {t}
      /\ db' = db /\ config' = config /\ remote' = remote /\ phase' = phase /\ next' = next
      /\ copy' = copy /\ taskmap' = taskmap /\ queue' = queue /\ monitored' = monitored
  BY DEF Mark, Goes
<1>2. n \in Names /\ k \in {"FullSetup", "DestroyServer"} /\ n \in DOMAIN cloud
      /\ cloud[n] \in Held /\ phase \in {"running", "backup"} /\ t \in taskmap
  BY <1>1, WorkPhase, TasksOf DEF DInv, Task
<1>3. DOMAIN db = DOMAIN cloud /\ \A m \in DOMAIN db : Mirrored(m, cloud[m])
  BY <1>2 DEF DInv, MirrorInv, Mirrors
<1>4. Columns(db[n], cloud[n])
  BY <1>2, <1>3 DEF Mirrored, Exact
<1>5. tasks \in [Task -> TaskPc]
  BY DEF DInv, Types
<1> DEFINE M == MarkedServer(cloud[n], k)
<1>6. /\ M \in Held /\ M.secrets.id = cloud[n].secrets.id /\ Columns(db[n], M)
      /\ k = "FullSetup" => M.state = "Production" /\ M.secrets.token
      /\ k = "DestroyServer" => M.state = "Offgrid" /\ M.secrets.token = cloud[n].secrets.token
  BY <1>2, <1>4, MarkedTyped
<1>7. /\ DOMAIN cloud' = DOMAIN cloud /\ cloud'[n] = M
      /\ \A m \in DOMAIN cloud : m # n => cloud'[m] = cloud[m]
  <2> HIDE DEF n, k
  <2> QED BY <1>1, <1>2 DEF M
<1>8. /\ \A u \in Task : tasks'[u] \in {"run", "mark"} => u # t /\ tasks[u] \in {"run", "mark"}
      /\ \A u \in Task : u # t => tasks'[u] = tasks[u]
      /\ tasks'[t] = "save"
  BY <1>1, <1>5
<1>9. (k = "FullSetup" => t = <<"FullSetup", n>>) /\ (k = "DestroyServer" => t = <<"DestroyServer", n>>)
  BY TasksOf
<1>10. \A m \in Names : /\ AtWork("FullSetup", m) => cloud[m].state = "Offgrid"
                        /\ AtWork("DestroyServer", m) => cloud[m].state = "Production"
                        /\ tasks[<<"FullSetup", m>>] = "mark" => cloud[m].secrets.id = remote[m].id
  BY DEF DInv, StateInv
<1>0. SaveInv /\ CycleInv
  BY DEF DInv
<1> HIDE DEF n, k, M
<1>11. Types'
  <2>1. tasks' \in [Task -> TaskPc]
    BY <1>1, <1>5 DEF TaskPc
  <2>2. IsCloud(cloud', Held)
    BY <1>6, <1>7 DEF DInv, Types, IsCloud
  <2> QED BY <1>1, <1>7, <2>1, <2>2 DEF DInv, Types
<1>12. NextTypes' /\ KeptInv'
  BY <1>1 DEF DInv, NextTypes, KeptInv
<1>13. CycleInv'
  <2>1. \A u \in Task : tasks'[u] \in {"run", "mark", "save"} =>
          u \in taskmap /\ u[2] \in DOMAIN cloud
    BY <1>0, <1>2, <1>8 DEF CycleInv, n
  <2> QED BY <1>0, <1>1, <1>2, <1>7, <2>1 DEF CycleInv
<1>14. StateInv'
  <2> SUFFICES ASSUME NEW m \in Names
               PROVE  /\ AtWork("FullSetup", m)' => cloud'[m].state = "Offgrid"
                      /\ AtWork("DestroyServer", m)' => cloud'[m].state = "Production"
                      /\ tasks'[<<"FullSetup", m>>] = "mark" => cloud'[m].secrets.id = remote[m].id
    BY <1>1 DEF StateInv
  <2>1. AtWork("FullSetup", m)' => AtWork("FullSetup", m) /\ t # <<"FullSetup", m>>
    BY <1>8, TasksOf DEF AtWork
  <2>2. AtWork("DestroyServer", m)' => AtWork("DestroyServer", m) /\ t # <<"DestroyServer", m>>
    BY <1>8, TasksOf DEF AtWork
  <2>3. tasks'[<<"FullSetup", m>>] = "mark" => tasks[<<"FullSetup", m>>] = "mark"
    BY <1>1, <1>5, TasksOf
  <2>4. CASE m = n
    <3>1. k = "FullSetup" => AtWork("FullSetup", m)
      BY <1>1, <1>9, <2>4 DEF AtWork
    <3>2. k = "DestroyServer" => AtWork("DestroyServer", m)
      BY <1>1, <1>9, <2>4 DEF AtWork
    <3>3. k = "FullSetup" => ~AtWork("FullSetup", m)' /\ ~AtWork("DestroyServer", m)'
      BY <1>9, <1>10, <2>1, <2>2, <2>4, <3>1
    <3>4. k = "DestroyServer" => ~AtWork("FullSetup", m)' /\ ~AtWork("DestroyServer", m)'
      BY <1>9, <1>10, <2>1, <2>2, <2>4, <3>2
    <3> QED BY <1>2, <1>6, <1>7, <1>10, <2>3, <2>4, <3>3, <3>4
  <2>5. CASE m # n
    <3>1. ASSUME AtWork("FullSetup", m) \/ AtWork("DestroyServer", m)
          PROVE  cloud'[m] = cloud[m]
      <4>1. m \in DOMAIN cloud
        BY <3>1, TasksOf DEF AtWork, DInv, CycleInv
      <4> QED BY <1>7, <2>5, <4>1
    <3>2. tasks[<<"FullSetup", m>>] = "mark" => AtWork("FullSetup", m)
      BY DEF AtWork
    <3> QED BY <1>10, <2>1, <2>2, <2>3, <3>1, <3>2
  <2> QED BY <2>4, <2>5
<1>15. SaveInv'
  <2>1. \A u \in Task : tasks'[u] = "save" => u \in unsaved'
    BY <1>0, <1>1, <1>8 DEF SaveInv
  <2>2. \A m \in ToMonitor' : cloud'[m].secrets.token
    <3> SUFFICES ASSUME NEW m \in DOMAIN cloud, cloud'[m].state = "Production", cloud'[m].enabled
                 PROVE  cloud'[m].secrets.token
      BY <1>7 DEF ToMonitor
    <3>1. CASE m = n
      BY <1>2, <1>6, <1>7, <3>1
    <3>2. CASE m # n
      BY <1>0, <1>2, <1>7, <3>2 DEF SaveInv, ToMonitor
    <3> QED BY <3>1, <3>2
  <2>3. ASSUME NEW m \in Names
        PROVE  /\ tasks'[<<"DestroyServer", m>>] \in {"run", "mark", "save"} =>
                    cloud'[m].secrets.token /\ ~AtWork("FullSetup", m)'
               /\ tasks'[<<"FullSetup", m>>] = "save" =>
                    /\ cloud'[m].secrets.token
                    /\ cloud'[m].state = "Production" \/ <<"DestroyServer", m>> \in unsaved'
               /\ tasks'[<<"DestroyServer", m>>] = "save" => cloud'[m].state = "Offgrid"
    <3> DEFINE F == <<"FullSetup", m>>
               D == <<"DestroyServer", m>>
    <3>1. F \in Task /\ D \in Task /\ F # D
      BY TasksOf
    <3>2. /\ tasks[D] \in {"run", "mark", "save"} =>
               cloud[m].secrets.token /\ ~AtWork("FullSetup", m)
          /\ tasks[F] = "save" =>
               cloud[m].secrets.token /\ (cloud[m].state = "Production" \/ D \in unsaved)
          /\ tasks[D] = "save" => cloud[m].state = "Offgrid"
      BY <1>0 DEF SaveInv
    <3>3. CASE m # n
      <4>1. t # F /\ t # D
        BY <3>3 DEF n
      <4>2. tasks'[F] = tasks[F] /\ tasks'[D] = tasks[D]
        BY <1>8, <3>1, <4>1
      <4>3. tasks[F] = "save" \/ tasks[D] \in {"run", "mark", "save"} => cloud'[m] = cloud[m]
        BY <1>0, <1>7, <3>1, <3>3 DEF CycleInv
      <4>4. AtWork("FullSetup", m)' => AtWork("FullSetup", m)
        BY <4>2 DEF AtWork
      <4> QED BY <1>1, <3>2, <4>2, <4>3, <4>4
    <3>4. CASE m = n /\ k = "FullSetup"
      <4>1. t = F /\ AtWork("FullSetup", m)
        BY <1>1, <1>9, <3>4 DEF AtWork
      <4>2. tasks'[D] \notin {"run", "mark", "save"}
        BY <1>8, <3>1, <3>2, <4>1
      <4> QED BY <1>6, <1>7, <3>4, <4>2
    <3>5. CASE m = n /\ k = "DestroyServer"
      <4>1. t = D /\ tasks[D] = "mark" /\ tasks'[F] = tasks[F]
        BY <1>1, <1>8, <1>9, <3>1, <3>5
      <4>2. cloud'[m].secrets.token /\ cloud'[m].state = "Offgrid" /\ D \in unsaved'
        BY <1>1, <1>6, <1>7, <3>2, <3>5, <4>1
      <4>3. ~AtWork("FullSetup", m)'
        BY <3>2, <4>1 DEF AtWork
      <4> QED BY <4>2, <4>3
    <3> QED BY <1>2, <3>3, <3>4, <3>5
  <2> QED BY <2>1, <2>2, <2>3 DEF SaveInv
<1>16. TokenInv'
  <2>1. CredOk(cloud, remote) /\ \A m \in DOMAIN db : db[m].token => db[m].id = remote[m].id
    BY DEF DInv, TokenInv
  <2>2. k = "FullSetup" => cloud[n].secrets.id = remote[n].id
    BY <1>1, <1>2, <1>9, <1>10
  <2>3. CredOk(cloud', remote)
    BY <1>2, <1>6, <1>7, <2>1, <2>2 DEF CredOk
  <2> QED BY <1>1, <1>2, <2>1, <2>3 DEF TokenInv
<1>17. MirrorInv'
  <2>1. ASSUME NEW m \in DOMAIN db
        PROVE  Mirrored(m, cloud[m])'
    <3>1. CASE m = n
      BY <1>1, <1>2, <1>6, <1>7, <1>9, <3>1 DEF Mirrored
    <3>2. CASE m # n
      BY <1>1, <1>3, <1>7, <2>1, <3>2 DEF Mirrored
    <3> QED BY <3>1, <3>2
  <2> QED BY <1>1, <1>2, <1>3, <1>7, <2>1 DEF MirrorInv, Mirrors
<1> QED BY <1>11, <1>12, <1>13, <1>14, <1>15, <1>16, <1>17 DEF DInv

\* The marks that are done with: those executed, and that of a setup whose server
\* has been marked as destroyed since.
LEMMA SupersededBy ==
  ASSUME NEW T \in SUBSET Task
  PROVE  \A n \in Names :
           /\ <<"DestroyServer", n>> \in Superseded(T) <=> <<"DestroyServer", n>> \in T
           /\ <<"FullSetup", n>> \in Superseded(T) <=>
                <<"FullSetup", n>> \in T \/ <<"DestroyServer", n>> \in T
<1> SUFFICES ASSUME NEW n \in Names
             PROVE  /\ <<"DestroyServer", n>> \in Superseded(T) <=> <<"DestroyServer", n>> \in T
                    /\ <<"FullSetup", n>> \in Superseded(T) <=>
                         <<"FullSetup", n>> \in T \/ <<"DestroyServer", n>> \in T
  OBVIOUS
<1> DEFINE W == {<<"FullSetup", t[2]>> : t \in {u \in T : u[1] = "DestroyServer"}}
<1>1. <<"DestroyServer", n>> \notin W
  OBVIOUS
<1>2. ASSUME <<"FullSetup", n>> \in W
      PROVE  <<"DestroyServer", n>> \in T
  <2>1. PICK t \in T : t[1] = "DestroyServer" /\ <<"FullSetup", n>> = <<"FullSetup", t[2]>>
    BY <1>2
  <2>2. t = <<"DestroyServer", n>>
    BY <2>1, TasksOf
  <2> QED BY <2>1, <2>2
<1>3. ASSUME <<"DestroyServer", n>> \in T
      PROVE  <<"FullSetup", n>> \in W
  <2>1. <<"DestroyServer", n>>[1] = "DestroyServer" /\ <<"DestroyServer", n>>[2] = n
    OBVIOUS
  <2> QED BY <1>3, <2>1
<1> QED BY <1>1, <1>2, <1>3 DEF Superseded

\* The database has executed the statements of some tasks: it mirrors memory again, as
\* far as they go.
LEMMA SavedMirrors ==
  ASSUME DInv, phase \in {"running", "backup"}, cloud' = cloud,
         NEW T \in SUBSET Task, \A t \in T : tasks[t] = "save", Saved(T),
         CredOk(cloud, remote'), \A n \in DOMAIN db : db[n].token => db[n].id = remote'[n].id
  PROVE  /\ IsCloud(db', Stored) /\ unsaved' \subseteq Task
         /\ Mirrors(cloud)'
         /\ \A n \in DOMAIN db' : db'[n].token => db'[n].id = remote'[n].id
<1>1. /\ db' = Marked(T) /\ unsaved' = unsaved \ Superseded(T)
      /\ DOMAIN db' = DOMAIN db
  BY DEF Saved, Marked
<1>2. /\ DOMAIN db = DOMAIN cloud /\ IsCloud(db, Stored) /\ IsCloud(cloud, Held)
      /\ unsaved \subseteq Task /\ SaveInv
      /\ \A n \in DOMAIN db : Mirrored(n, cloud[n])
  BY DEF DInv, Types, MirrorInv, Mirrors
<1>3. ASSUME NEW n \in DOMAIN db
      PROVE  /\ db'[n] \in Stored /\ Mirrored(n, cloud[n])'
             /\ db'[n].token => db'[n].id = remote'[n].id
  <2> DEFINE F == <<"FullSetup", n>>
             D == <<"DestroyServer", n>>
             r == db[n]
             s == cloud[n]
  <2>1. n \in Names /\ r \in Stored /\ s \in Held /\ Columns(r, s) /\ F \in Task /\ D \in Task
    BY <1>2, <1>3, TasksOf DEF IsCloud, Mirrored, Exact
  <2>2. /\ D \in unsaved' <=> D \in unsaved /\ D \notin T
        /\ F \in unsaved' <=> F \in unsaved /\ F \notin T /\ D \notin T
    BY <1>1, <2>1, SupersededBy
  <2>3. db'[n] = IF D \in T THEN MarkedRow(r, "DestroyServer")
                 ELSE IF F \in T THEN MarkedRow(r, "FullSetup") ELSE r
    BY <1>1, <1>3 DEF Marked
  <2>4. /\ tasks[F] = "save" =>
             s.secrets.token /\ (s.state = "Production" \/ D \in unsaved)
        /\ tasks[D] = "save" => s.state = "Offgrid"
    BY <1>2, <2>1 DEF SaveInv
  <2>5. s.state \in {"Offgrid", "Production"} /\ s.secrets.token \in BOOLEAN
    BY <2>1 DEF Held, ServerState
  <2>6. s.secrets.token => s.secrets.id = remote'[n].id
    BY <1>2, <1>3 DEF CredOk
  <2> HIDE DEF F, D, r, s
  <2>7. CASE D \in T
    <3>1. /\ db'[n] \in Stored /\ Columns(db'[n], s)
          /\ db'[n].state = "Offgrid" /\ db'[n].token = FALSE
      <4> DEFINE R == MarkedRow(r, "DestroyServer")
      <4>1. R \in Stored /\ Columns(R, s) /\ R.state = "Offgrid" /\ R.token = FALSE
        BY <2>1, RowMarked
      <4>2. db'[n] = R
        BY <2>3, <2>7
      <4> QED BY <4>1, <4>2
    <3>2. Exact(db'[n], s)
      BY <2>4, <2>7, <3>1 DEF Exact
    <3> QED BY <3>1, <3>2 DEF Mirrored, s
  <2>8. CASE D \notin T /\ F \in T
    <3>1. /\ db'[n] \in Stored /\ Columns(db'[n], s) /\ db'[n].id = r.id
          /\ db'[n].state = "Production" /\ db'[n].token = TRUE
      <4> DEFINE R == MarkedRow(r, "FullSetup")
      <4>1. R \in Stored /\ Columns(R, s) /\ R.id = r.id
            /\ R.state = "Production" /\ R.token = TRUE
        BY <2>1, RowMarked
      <4>2. db'[n] = R
        BY <2>3, <2>8
      <4> QED BY <4>1, <4>2
    <3>2. CASE s.state = "Production"
      <4>1. Exact(db'[n], s)
        BY <2>4, <2>5, <2>8, <3>1, <3>2 DEF Exact
      <4>2. r.id = s.secrets.id
        BY <2>1 DEF Columns
      <4> QED BY <2>4, <2>6, <2>8, <3>1, <4>1, <4>2 DEF Mirrored, s
    <3>3. CASE s.state = "Offgrid"
      <4>1. D \in unsaved'
        BY <2>2, <2>4, <2>8, <3>3
      <4>2. r.id = s.secrets.id
        BY <2>1 DEF Columns
      <4> QED BY <2>4, <2>6, <2>8, <3>1, <3>3, <4>1, <4>2 DEF Mirrored, D, s
    <3> QED BY <2>5, <3>2, <3>3
  <2>9. CASE D \notin T /\ F \notin T
    <3>1. db'[n] = r
      BY <2>3, <2>9
    <3>2. (D \in unsaved => D \in unsaved') /\ (F \in unsaved => F \in unsaved')
      BY <2>2, <2>9
    <3>3. Mirrored(n, cloud[n])'
      BY <1>2, <1>3, <3>1, <3>2 DEF Mirrored, D, F, r
    <3> QED BY <1>3, <2>1, <3>1, <3>3 DEF r
  <2> QED BY <2>7, <2>8, <2>9
<1>4. IsCloud(db', Stored)
  BY <1>1, <1>2, <1>3 DEF IsCloud
<1> QED BY <1>1, <1>2, <1>3, <1>4 DEF Mirrors

\* The statement of one task is executed, in its turn.
LEMMA SaveMarkStep ==
  ASSUME DInv, NEW t \in Task, SaveMark(t)
  PROVE  DInv'
<1>1. /\ tasks[t] = "save" /\ tasks' = [tasks EXCEPT ![t] = "read"] /\ First(t) /\ Saved({t})
      /\ cloud' = cloud /\ config' = config /\ remote' = remote /\ phase' = phase
      /\ next' = next /\ copy' = copy /\ taskmap' = taskmap /\ queue' = queue
      /\ monitored' = monitored
  BY DEF SaveMark, Goes
<1>2. phase \in {"running", "backup"} /\ tasks \in [Task -> TaskPc]
  BY <1>1, WorkPhase DEF DInv, Types
<1>3. /\ IsCloud(db', Stored) /\ unsaved' \subseteq Task /\ Mirrors(cloud)'
      /\ \A n \in DOMAIN db' : db'[n].token => db'[n].id = remote'[n].id
  <2>1. /\ CredOk(cloud, remote')
        /\ \A n \in DOMAIN db : db[n].token => db[n].id = remote'[n].id
    BY <1>1 DEF DInv, TokenInv
  <2>2. {t} \in SUBSET Task /\ \A u \in {t} : tasks[u] = "save"
    BY <1>1
  <2> QED BY <1>1, <1>2, <2>1, <2>2, SavedMirrors
<1>4. /\ \A u \in Task : u # t => tasks'[u] = tasks[u]
      /\ tasks'[t] = "read" /\ tasks' \in [Task -> TaskPc]
  BY <1>1, <1>2 DEF TaskPc
<1>5. Types' /\ NextTypes' /\ KeptInv'
  BY <1>1, <1>3, <1>4 DEF DInv, Types, NextTypes, KeptInv
<1>6. CycleInv'
  BY <1>1, <1>2, <1>4 DEF DInv, CycleInv
<1>7. StateInv'
  <2>1. \A m \in Names : /\ AtWork("FullSetup", m)' => AtWork("FullSetup", m)
                         /\ AtWork("DestroyServer", m)' => AtWork("DestroyServer", m)
                         /\ tasks'[<<"FullSetup", m>>] = "mark" => tasks[<<"FullSetup", m>>] = "mark"
    BY <1>4, TasksOf DEF AtWork
  <2> QED BY <1>1, <2>1 DEF DInv, StateInv
<1>8. TokenInv' /\ MirrorInv'
  BY <1>1, <1>2, <1>3 DEF DInv, TokenInv, MirrorInv
<1>9. SaveInv'
  <2>0. SaveInv /\ unsaved' = unsaved \ Superseded({t}) /\ {t} \in SUBSET Task
    BY <1>1 DEF DInv, Saved
  <2>1. ASSUME NEW m \in Names
        PROVE  /\ tasks'[<<"FullSetup", m>>] = "save" =>
                    /\ tasks[<<"FullSetup", m>>] = "save"
                    /\ t # <<"FullSetup", m>> /\ t # <<"DestroyServer", m>>
               /\ tasks'[<<"DestroyServer", m>>] \in {"run", "mark", "save"} =>
                    /\ tasks[<<"DestroyServer", m>>] = tasks'[<<"DestroyServer", m>>]
                    /\ t # <<"DestroyServer", m>>
    <3>1. tasks'[<<"FullSetup", m>>] = "save" =>
            tasks[<<"FullSetup", m>>] = "save" /\ t # <<"FullSetup", m>>
      BY <1>4, TasksOf
    <3>2. tasks[<<"FullSetup", m>>] = "save" => t # <<"DestroyServer", m>>
      BY <1>1 DEF First
    <3>3. tasks'[<<"DestroyServer", m>>] \in {"run", "mark", "save"} =>
            /\ tasks[<<"DestroyServer", m>>] = tasks'[<<"DestroyServer", m>>]
            /\ t # <<"DestroyServer", m>>
      BY <1>4, TasksOf
    <3> QED BY <3>1, <3>2, <3>3
  <2>2. ASSUME NEW m \in Names
        PROVE  /\ <<"DestroyServer", m>> \in unsaved /\ t # <<"DestroyServer", m>> =>
                    <<"DestroyServer", m>> \in unsaved'
               /\ <<"FullSetup", m>> \in unsaved /\ t # <<"DestroyServer", m>>
                    /\ t # <<"FullSetup", m>> => <<"FullSetup", m>> \in unsaved'
    BY <2>0, SupersededBy
  <2>3. ASSUME NEW u \in Task, tasks'[u] = "save"
        PROVE  u \in unsaved'
    <3>1. tasks[u] = "save" /\ u # t
      BY <1>4, <2>3
    <3>2. u \in unsaved
      BY <2>0, <3>1 DEF SaveInv
    <3>3. PICK m \in Names : u = <<"FullSetup", m>> \/ u = <<"DestroyServer", m>>
      BY TasksOf
    <3>4. CASE u = <<"FullSetup", m>>
      BY <2>1, <2>2, <2>3, <3>2, <3>4
    <3>5. CASE u = <<"DestroyServer", m>>
      BY <2>2, <3>1, <3>2, <3>5
    <3> QED BY <3>3, <3>4, <3>5
  <2>4. phase' \in {"running", "backup"} => \A m \in ToMonitor' : cloud'[m].secrets.token
    BY <1>1, <1>2, <2>0 DEF SaveInv, ToMonitor
  <2>5. ASSUME NEW m \in Names
        PROVE  /\ tasks'[<<"DestroyServer", m>>] \in {"run", "mark", "save"} =>
                    cloud'[m].secrets.token /\ ~AtWork("FullSetup", m)'
               /\ tasks'[<<"FullSetup", m>>] = "save" =>
                    /\ cloud'[m].secrets.token
                    /\ cloud'[m].state = "Production" \/ <<"DestroyServer", m>> \in unsaved'
               /\ tasks'[<<"DestroyServer", m>>] = "save" => cloud'[m].state = "Offgrid"
    <3>1. AtWork("FullSetup", m)' => AtWork("FullSetup", m)
      BY <1>4, TasksOf DEF AtWork
    <3>2. /\ tasks[<<"DestroyServer", m>>] \in {"run", "mark", "save"} =>
               cloud[m].secrets.token /\ ~AtWork("FullSetup", m)
          /\ tasks[<<"FullSetup", m>>] = "save" =>
               /\ cloud[m].secrets.token
               /\ cloud[m].state = "Production" \/ <<"DestroyServer", m>> \in unsaved
          /\ tasks[<<"DestroyServer", m>>] = "save" => cloud[m].state = "Offgrid"
      BY <2>0 DEF SaveInv
    <3> QED BY <1>1, <2>1, <2>2, <3>1, <3>2
  <2> QED BY <2>3, <2>4, <2>5 DEF SaveInv
<1> QED BY <1>5, <1>6, <1>7, <1>8, <1>9 DEF DInv

\* A step at which no playbook is started or ends, and nothing is changed but
\* config files, tasks at other points, registrations and the channel.
LEMMA QuietStep ==
  ASSUME DInv, cloud' = cloud, db' = db, unsaved' = unsaved, remote' = remote,
         phase' = phase, next' = next, monitored' = monitored, IsText(config'),
         DOMAIN copy' = Task, \A t \in Task : IsText(copy'[t]),
         tasks' \in [Task -> TaskPc], taskmap' \subseteq taskmap,
         \A t \in Task : tasks'[t] \in {"run", "mark", "save"} =>
           tasks[t] = tasks'[t] /\ (t \in taskmap => t \in taskmap'),
         phase = "down" => queue' = queue /\ tasks' = tasks
  PROVE  DInv'
<1>1. Types'
  BY DEF DInv, Types
<1>2. NextTypes' /\ KeptInv'
  BY DEF DInv, NextTypes, KeptInv
<1>3. CycleInv'
  BY DEF DInv, CycleInv
<1>4. StateInv'
  <2> SUFFICES ASSUME NEW m \in Names
               PROVE  /\ AtWork("FullSetup", m)' => cloud[m].state = "Offgrid"
                      /\ AtWork("DestroyServer", m)' => cloud[m].state = "Production"
                      /\ tasks'[<<"FullSetup", m>>] = "mark" => cloud[m].secrets.id = remote[m].id
    BY DEF StateInv
  <2>1. /\ AtWork("FullSetup", m)' => AtWork("FullSetup", m)
        /\ AtWork("DestroyServer", m)' => AtWork("DestroyServer", m)
        /\ tasks'[<<"FullSetup", m>>] = "mark" => tasks[<<"FullSetup", m>>] = "mark"
    BY TasksOf DEF AtWork
  <2> QED BY <2>1 DEF DInv, StateInv
<1>5. TokenInv'
  <2>1. CredOk(cloud', remote') <=> CredOk(cloud, remote)
    OBVIOUS
  <2> QED BY <2>1 DEF DInv, TokenInv, CredOk
<1>6. MirrorInv'
  BY DEF DInv, MirrorInv, Mirrors, Mirrored
<1>7. SaveInv'
  BY SaveKept DEF DInv
<1> QED BY <1>1, <1>2, <1>3, <1>4, <1>5, <1>6, <1>7 DEF DInv

\* The rest of a task: the config file is read and written back, and the messages
\* to daemon_core are sent.
LEMMA RestStep ==
  ASSUME DInv, NEW t \in Task,
         SaveMarkErr(t) \/ ReadConfig(t) \/ WriteConfig(t) \/ SendInquiry(t) \/ SendReload(t)
  PROVE  DInv'
<1>1. /\ cloud' = cloud /\ db' = db /\ unsaved' = unsaved /\ remote' = remote /\ phase' = phase /\ next' = next
      /\ monitored' = monitored /\ taskmap' = taskmap
  BY DEF ReadConfig, WriteConfig, SendInquiry, SendReload, SaveMarkErr, stored, world
<1>2. /\ tasks \in [Task -> TaskPc] /\ IsText(config)
      /\ DOMAIN copy = Task /\ \A u \in Task : IsText(copy[u])
  BY DEF DInv, Types
<1>3. PICK to \in TaskPc \ {"run", "mark", "save"} : tasks' = [tasks EXCEPT ![t] = to]
  BY DEF ReadConfig, WriteConfig, SendInquiry, SendReload, SaveMarkErr, Goes, TaskPc
<1>4. tasks[t] # "none"
  BY DEF ReadConfig, WriteConfig, SendInquiry, SendReload, SaveMarkErr, Goes
<1>5. phase # "down"
  BY <1>4 DEF DInv, CycleInv
<1>6. /\ tasks' \in [Task -> TaskPc]
      /\ \A u \in Task : tasks'[u] \in {"run", "mark", "save"} => tasks[u] = tasks'[u]
  BY <1>2, <1>3
<1>7. IsText(config') /\ DOMAIN copy' = Task /\ \A u \in Task : IsText(copy'[u])
  <2>1. CASE ReadConfig(t)
    <3>1. config' = config
      BY <2>1 DEF ReadConfig, world
    <3>2. copy' = [copy EXCEPT ![t] = NoText] \/ copy' = [copy EXCEPT ![t] = config]
      BY <2>1 DEF ReadConfig
    <3> QED BY <1>2, <3>1, <3>2, NothingTyped
  <2>2. CASE WriteConfig(t)
    <3>1. copy' = [copy EXCEPT ![t] = NoText]
      BY <2>2 DEF WriteConfig
    <3>2. DOMAIN copy' = Task /\ \A u \in Task : IsText(copy'[u])
      BY <1>2, <3>1, NothingTyped
    <3> DEFINE x == copy[t]
               S == IF t[1] = "FullSetup" THEN "Production" ELSE "Offgrid"
    <3>3. \/ config' \in {config, NoText}
          \/ config' = IF t[2] \in DOMAIN x.servers THEN [x EXCEPT !.servers[t[2]].state = S]
                       ELSE x
      BY <2>2 DEF WriteConfig, Rewritten
    <3>4. IsText(x) /\ S \in ServerState
      BY <1>2 DEF ServerState
    <3> HIDE DEF x, S
    <3>5. ASSUME t[2] \in DOMAIN x.servers
          PROVE  IsText([x EXCEPT !.servers[t[2]].state = S])
      <4> DEFINE y == [x EXCEPT !.servers[t[2]].state = S]
      <4>1. DOMAIN y = {"inbound_set", "servers"} /\ y.inbound_set = x.inbound_set
            /\ y.servers = [x.servers EXCEPT ![t[2]].state = S]
        BY <3>4 DEF IsText
      <4>2. x.servers[t[2]] \in Declared
        BY <3>4, <3>5 DEF IsText, IsCloud
      <4>3. [x.servers[t[2]] EXCEPT !.state = S] \in Declared
        BY <3>4, <4>2 DEF Declared
      <4> HIDE DEF y
      <4>4. DOMAIN y.servers = DOMAIN x.servers
            /\ \A m \in DOMAIN x.servers : y.servers[m] =
                 IF m = t[2] THEN [x.servers[t[2]] EXCEPT !.state = S] ELSE x.servers[m]
        BY <4>1
      <4>5. IsText(y)
        BY <3>4, <4>1, <4>3, <4>4 DEF IsText, IsCloud
      <4> QED BY <4>5 DEF y
    <3> QED BY <1>2, <3>2, <3>3, <3>4, <3>5, NothingTyped
  <2>3. CASE SaveMarkErr(t) \/ SendInquiry(t) \/ SendReload(t)
    BY <1>2, <2>3 DEF SaveMarkErr, SendInquiry, SendReload, world
  <2> QED BY <2>1, <2>2, <2>3
<1> QED BY <1>1, <1>5, <1>6, <1>7, QuietStep

----------------------------------------------------------------------------
(* The command loop. *)

\* A command that is refused, and the inquiry of a task that is at no playbook.
LEMMA AnswerStep ==
  ASSUME DInv, HandleReconRefused \/ (HandleSetupInquiry /\ NoStaleInquiry)
  PROVE  DInv'
<1>1. /\ cloud' = cloud /\ db' = db /\ unsaved' = unsaved /\ remote' = remote
      /\ phase' = phase /\ next' = next
      /\ monitored' = monitored /\ copy' = copy /\ config' = config /\ phase = "running"
  BY DEF HandleReconRefused, HandleSetupInquiry, Answered, stored, world, ReconReceived, Received
<1>2. /\ tasks \in [Task -> TaskPc] /\ IsText(config)
      /\ DOMAIN copy = Task /\ \A u \in Task : IsText(copy[u])
  BY DEF DInv, Types
<1>3. /\ tasks' \in [Task -> TaskPc] /\ taskmap' \subseteq taskmap
      /\ \A u \in Task : tasks'[u] \in {"run", "mark", "save"} =>
           tasks[u] = tasks'[u] /\ (u \in taskmap => u \in taskmap')
  <2>1. CASE HandleReconRefused
    <3>1. tasks' = Replied(Head(queue)) /\ taskmap' = taskmap
      BY <2>1 DEF HandleReconRefused
    <3> QED BY <1>2, <3>1 DEF Replied, TaskPc
  <2>2. CASE HandleSetupInquiry /\ NoStaleInquiry
    <3> DEFINE t == Head(queue).arg
    <3>1. /\ taskmap' = taskmap \ {t}
          /\ tasks' = IF tasks[t] = "answer"
                      THEN [tasks EXCEPT ![t] = IF OthersRunning(t) THEN "none" ELSE "reload"]
                      ELSE tasks
      BY <2>2 DEF HandleSetupInquiry
    <3>2. tasks[t] \notin {"run", "mark", "save"}
      BY <2>2 DEF HandleSetupInquiry, NoStaleInquiry
    <3> HIDE DEF t
    <3>3. \/ tasks' = tasks
          \/ tasks' = [tasks EXCEPT ![t] = "none"] \/ tasks' = [tasks EXCEPT ![t] = "reload"]
      BY <3>1
    <3> QED BY <1>2, <3>1, <3>2, <3>3 DEF TaskPc
  <2> QED BY <2>1, <2>2
<1> QED BY <1>1, <1>2, <1>3, QuietStep

\* A task that is started in the state that its server must be in.
LEMMA SpawnStep ==
  ASSUME DInv, phase = "running", NEW t \in Task,
         config' = config, cloud' = cloud, db' = db, unsaved' = unsaved, remote' = remote,
         phase' = phase, next' = next, monitored' = monitored, copy' = copy,
         t[2] \in DOMAIN cloud,
         t[1] = "FullSetup" => cloud[t[2]].state = "Offgrid" /\ ~cloud[t[2]].secrets.token,
         t[1] = "DestroyServer" => cloud[t[2]].state = "Production" /\ cloud[t[2]].secrets.token,
         tasks' \in [Task -> TaskPc], taskmap' \subseteq Task, tasks'[t] = "run", t \in taskmap',
         \A u \in Task \ {t} : tasks'[u] \in {"run", "mark", "save"} =>
           tasks[u] = tasks'[u] /\ (u \in taskmap => u \in taskmap')
  PROVE  DInv'
<1>1. Types'
  BY DEF DInv, Types
<1>2. NextTypes' /\ KeptInv'
  BY DEF DInv, NextTypes, KeptInv
<1>3. CycleInv'
  BY DEF DInv, CycleInv
<1>4. StateInv'
  <2> SUFFICES ASSUME NEW m \in Names
               PROVE  /\ AtWork("FullSetup", m)' => cloud[m].state = "Offgrid"
                      /\ AtWork("DestroyServer", m)' => cloud[m].state = "Production"
                      /\ tasks'[<<"FullSetup", m>>] = "mark" => cloud[m].secrets.id = remote[m].id
    BY DEF StateInv
  <2>1. AtWork("FullSetup", m)' => AtWork("FullSetup", m) \/ t = <<"FullSetup", m>>
    BY TasksOf DEF AtWork
  <2>2. AtWork("DestroyServer", m)' => AtWork("DestroyServer", m) \/ t = <<"DestroyServer", m>>
    BY TasksOf DEF AtWork
  <2>3. tasks'[<<"FullSetup", m>>] = "mark" => tasks[<<"FullSetup", m>>] = "mark"
    BY TasksOf
  <2>4. /\ t = <<"FullSetup", m>> => cloud[m].state = "Offgrid"
        /\ t = <<"DestroyServer", m>> => cloud[m].state = "Production"
    OBVIOUS
  <2> QED BY <2>1, <2>2, <2>3, <2>4 DEF DInv, StateInv
<1>5. TokenInv'
  BY DEF DInv, TokenInv, CredOk
<1>6. MirrorInv'
  BY DEF DInv, MirrorInv, Mirrors, Mirrored
<1>7. SaveInv'
  <2>1. \A u \in Task : tasks'[u] = "save" => tasks[u] = "save" /\ u # t
    OBVIOUS
  <2>2. /\ \A u \in Task : tasks'[u] = "save" => u \in unsaved
        /\ \A m \in ToMonitor' : cloud[m].secrets.token
    BY <2>1 DEF DInv, SaveInv, ToMonitor
  <2>3. ASSUME NEW m \in Names
        PROVE  /\ tasks'[<<"DestroyServer", m>>] \in {"run", "mark", "save"} =>
                    cloud[m].secrets.token /\ ~AtWork("FullSetup", m)'
               /\ tasks'[<<"FullSetup", m>>] = "save" =>
                    /\ cloud[m].secrets.token
                    /\ cloud[m].state = "Production" \/ <<"DestroyServer", m>> \in unsaved
               /\ tasks'[<<"DestroyServer", m>>] = "save" => cloud[m].state = "Offgrid"
    <3>1. /\ tasks'[<<"FullSetup", m>>] = "save" => tasks[<<"FullSetup", m>>] = "save"
          /\ tasks'[<<"DestroyServer", m>>] = "save" => tasks[<<"DestroyServer", m>>] = "save"
      BY <2>1, TasksOf
    <3>2. AtWork("FullSetup", m)' => AtWork("FullSetup", m) \/ t = <<"FullSetup", m>>
      BY TasksOf DEF AtWork
    <3>3. tasks'[<<"DestroyServer", m>>] \in {"run", "mark", "save"} =>
            \/ tasks[<<"DestroyServer", m>>] \in {"run", "mark", "save"}
            \/ t = <<"DestroyServer", m>>
      BY TasksOf
    <3>4. /\ t = <<"FullSetup", m>> => ~cloud[m].secrets.token
          /\ t = <<"DestroyServer", m>> => cloud[m].secrets.token /\ cloud[m].state = "Production"
          /\ ~(t = <<"FullSetup", m>> /\ t = <<"DestroyServer", m>>)
      OBVIOUS
    <3>5. AtWork("FullSetup", m) => cloud[m].state = "Offgrid"
      BY DEF DInv, StateInv
    <3> QED BY <3>1, <3>2, <3>3, <3>4, <3>5 DEF DInv, SaveInv
  <2> QED BY <2>2, <2>3 DEF SaveInv
<1> QED BY <1>1, <1>2, <1>3, <1>4, <1>5, <1>6, <1>7 DEF DInv

\* expand_cloud and perform_server_destruction.
LEMMA CommandStep ==
  ASSUME DInv, HandleExpand \/ HandleDestroy
  PROVE  DInv'
<1> DEFINE n == Head(queue).arg
           over == {t \in taskmap : t[1] = "FullSetup"}
<1>1. /\ config' = config /\ cloud' = cloud /\ db' = db /\ unsaved' = unsaved
      /\ remote' = remote /\ phase' = phase /\ next' = next /\ monitored' = monitored /\ copy' = copy /\ phase = "running"
  BY DEF HandleExpand, HandleDestroy, Answered, stored, world, Received
<1>2. /\ tasks \in [Task -> TaskPc] /\ taskmap \subseteq Task /\ DOMAIN cloud \subseteq Names
      /\ IsText(config) /\ DOMAIN copy = Task /\ \A u \in Task : IsText(copy[u])
  BY DEF DInv, Types, IsCloud
<1>3. CASE tasks' = tasks /\ taskmap' = taskmap
  BY <1>1, <1>2, <1>3, QuietStep
<1>4. CASE HandleExpand /\ Expandable(n) /\ ~SetupUnderWay
  <2> DEFINE t == <<"FullSetup", n>>
  <2>1. /\ tasks' = [u \in Task |-> IF u = t THEN "run" ELSE IF u \in over THEN "none" ELSE tasks[u]]
        /\ taskmap' = (taskmap \ over) \cup {t}
    BY <1>4 DEF HandleExpand
  <2>2. n \in DOMAIN cloud /\ cloud[n].state = "Offgrid" /\ ~cloud[n].secrets.token
    BY <1>4 DEF Expandable
  <2>3. t \in Task /\ t[1] = "FullSetup" /\ t[2] = n
    BY <1>2, <2>2 DEF Task
  <2> HIDE DEF n, over, t
  <2>4. tasks' \in [Task -> TaskPc] /\ taskmap' \subseteq Task /\ tasks'[t] = "run" /\ t \in taskmap'
    BY <1>2, <2>1, <2>3 DEF TaskPc
  <2>5. \A u \in Task \ {t} : tasks'[u] \in {"run", "mark", "save"} =>
          tasks[u] = tasks'[u] /\ (u \in taskmap => u \in taskmap')
    BY <2>1
  <2> QED BY <1>1, <2>2, <2>3, <2>4, <2>5, SpawnStep
<1>5. CASE HandleDestroy /\ Destroyable(n)
  <2> DEFINE t == <<"DestroyServer", n>>
  <2>1. tasks' = [tasks EXCEPT ![t] = "run"] /\ taskmap' = taskmap \cup {t}
    BY <1>5 DEF HandleDestroy
  <2>2. n \in DOMAIN cloud /\ cloud[n].state = "Production" /\ cloud[n].secrets.token
    BY <1>1, <1>5 DEF Destroyable, DInv, SaveInv, ToMonitor
  <2>3. t \in Task /\ t[1] = "DestroyServer" /\ t[2] = n
    BY <1>2, <2>2 DEF Task
  <2> HIDE DEF n, t
  <2>4. tasks' \in [Task -> TaskPc] /\ taskmap' \subseteq Task /\ tasks'[t] = "run" /\ t \in taskmap'
    BY <1>2, <2>1, <2>3 DEF TaskPc
  <2>5. \A u \in Task \ {t} : tasks'[u] \in {"run", "mark", "save"} =>
          tasks[u] = tasks'[u] /\ (u \in taskmap => u \in taskmap')
    BY <1>2, <2>1
  <2> QED BY <1>1, <2>2, <2>3, <2>4, <2>5, SpawnStep
<1> QED BY <1>3, <1>4, <1>5 DEF HandleExpand, HandleDestroy

\* What a cycle starts with.
LEMMA CycleTyped ==
  ASSUME IsText(config), NEW mode \in ReconMode, NEW old, IsCloud(old, Held)
  PROVE  /\ DOMAIN Cycle(mode, old) = {"mode", "old", "new", "inbound_set", "merged", "pending"}
         /\ Cycle(mode, old).mode \in ReconMode /\ Cycle(mode, old).pending = {}
         /\ Cycle(mode, old).old = old
         /\ IsCloud(Cycle(mode, old).new, Held) /\ Fresh(Cycle(mode, old).new)
         /\ IsCloud(Cycle(mode, old).merged, Held)
<1>1. IsCloud(Parse(config, FreshIds), Held) /\ Fresh(Parse(config, FreshIds))
  BY ParseTyped
<1>2. Cycle(mode, old).new = Parse(config, FreshIds) /\ Cycle(mode, old).merged = NoServers
      /\ Cycle(mode, old).old = old /\ Cycle(mode, old).mode = mode
      /\ Cycle(mode, old).pending = {}
      /\ DOMAIN Cycle(mode, old) = {"mode", "old", "new", "inbound_set", "merged", "pending"}
  BY DEF Cycle
<1> QED BY <1>1, <1>2, NothingTyped

\* Reload, Remap and Rebase: the new cloud is fixed and the tasks go on.
LEMMA ReconStep ==
  ASSUME DInv, HandleRecon
  PROVE  DInv'
<1> DEFINE mode == Mode(Head(queue).op)
<1>1. /\ config' = config /\ cloud' = cloud /\ db' = db /\ unsaved' = unsaved /\ remote' = remote
      /\ phase = "running" /\ phase' = "backup"
      /\ next' = Cycle(mode, NoServers) /\ tasks' = Replied(Head(queue))
      /\ copy' = copy /\ taskmap' = taskmap /\ monitored' = monitored
  BY DEF HandleRecon, ReconReceived, stored, world
<1>2. mode \in ReconMode /\ IsText(config)
  BY DEF Mode, ReconMode, DInv, Types
<1> HIDE DEF mode
<1>3. tasks' \in [Task -> TaskPc]
      /\ \A u \in Task : tasks'[u] \in {"run", "mark", "save"} => tasks[u] = tasks'[u]
  BY <1>1 DEF Replied, TaskPc, DInv, Types
<1>4. Types'
  BY <1>1, <1>3 DEF DInv, Types
<1>5. NextTypes'
  BY <1>1, <1>2, CycleTyped, NothingTyped DEF NextTypes
<1>6. CycleInv'
  BY <1>1, <1>3 DEF DInv, CycleInv
<1>7. StateInv'
  <2>1. \A m \in Names : /\ AtWork("FullSetup", m)' => AtWork("FullSetup", m)
                         /\ AtWork("DestroyServer", m)' => AtWork("DestroyServer", m)
                         /\ tasks'[<<"FullSetup", m>>] = "mark" => tasks[<<"FullSetup", m>>] = "mark"
    BY <1>3, TasksOf DEF AtWork
  <2> QED BY <1>1, <2>1 DEF DInv, StateInv
<1>8. TokenInv' /\ MirrorInv' /\ KeptInv'
  BY <1>1 DEF DInv, TokenInv, CredOk, MirrorInv, Mirrors, Mirrored, KeptInv
<1>9. SaveInv'
  BY <1>1, <1>3, SaveKept DEF DInv
<1> QED BY <1>4, <1>5, <1>6, <1>7, <1>8, <1>9 DEF DInv

\* abort_all leaves no playbook running, since all of them are registered, and what
\* the aborted tasks had asked of the database is done or lost.
LEMMA EndCycleStep ==
  ASSUME DInv, EndCycle
  PROVE  DInv'
<1> DEFINE waiting == {t \in taskmap : tasks[t] = "save"}
<1>1. /\ config' = config /\ cloud' = cloud
      /\ phase = "backup" /\ phase' = "reconcile"
      /\ next' = [next EXCEPT !.old = cloud]
      /\ tasks' = [t \in Task |-> IF Aborted(t) THEN "none" ELSE tasks[t]]
      /\ copy' = [t \in Task |-> IF Aborted(t) THEN NoText ELSE copy[t]]
      /\ Killed(taskmap, {}) /\ taskmap' = {} /\ monitored' = {}
      /\ \E T \in SUBSET waiting : Saved(T)
  BY DEF EndCycle
<1>2. SetupInstalls
  <2>1. taskmap \in SUBSET Task /\ {} \in SUBSET next.pending /\ Types /\ NextTypes /\ CycleInv
    BY DEF DInv, Types
  <2> QED BY <1>1, <2>1, KilledLeaves
<1>3. /\ CredOk(cloud, remote')
      /\ \A n \in DOMAIN db : db[n].token => db[n].id = remote'[n].id
  BY <1>2, TokensKept
<1>4. /\ tasks \in [Task -> TaskPc]
      /\ \A t \in Task : tasks[t] \in {"run", "mark", "save"} => t \in taskmap
  BY DEF DInv, Types, CycleInv
<1>5. \A t \in Task : tasks'[t] \in TaskPc \ {"run", "mark", "save"}
  BY <1>1, <1>4 DEF Aborted, TaskPc
<1>6. /\ DOMAIN next' = {"mode", "old", "new", "inbound_set", "merged", "pending"}
      /\ next'.mode = next.mode /\ next'.old = cloud /\ next'.new = next.new
      /\ next'.merged = next.merged /\ next'.pending = next.pending
  BY <1>1 DEF DInv, NextTypes
<1>7. /\ IsCloud(db', Stored) /\ unsaved' \subseteq Task /\ Mirrors(cloud)'
      /\ \A n \in DOMAIN db' : db'[n].token => db'[n].id = remote'[n].id
  <2>1. PICK T \in SUBSET waiting : Saved(T)
    BY <1>1
  <2>2. T \in SUBSET Task /\ \A t \in T : tasks[t] = "save"
    BY <2>1 DEF DInv, Types
  <2> HIDE DEF waiting
  <2> QED BY <1>1, <1>3, <2>1, <2>2, SavedMirrors
<1>8. Types'
  <2>1. DOMAIN copy' = Task /\ \A t \in Task : IsText(copy'[t])
    BY <1>1, NothingTyped DEF DInv, Types
  <2>2. tasks' \in [Task -> TaskPc]
    BY <1>1, <1>5
  <2> QED BY <1>1, <1>2, <1>7, <2>1, <2>2 DEF DInv, Types, SetupInstalls
<1>9. NextTypes'
  <2>1. next.pending = {}
    BY <1>1 DEF DInv, NextTypes
  <2>2. IsCloud(cloud, Held)
    BY DEF DInv, Types
  <2> QED BY <1>1, <1>6, <2>1, <2>2 DEF DInv, NextTypes
<1>10. CycleInv' /\ StateInv' /\ SaveInv'
  BY <1>1, <1>5, TasksOf DEF CycleInv, StateInv, SaveInv, AtWork
<1>11. TokenInv'
  BY <1>1, <1>3, <1>6, <1>7 DEF TokenInv
<1>12. MirrorInv' /\ KeptInv'
  BY <1>1, <1>6, <1>7 DEF MirrorInv, Mirrors, KeptInv
<1> QED BY <1>8, <1>9, <1>10, <1>11, <1>12 DEF DInv

----------------------------------------------------------------------------
(* daemon_core up to its command loop. *)

\* Between two command loops no playbook of a task is under way.
BetweenLoops == phase \in {"down", "reconcile", "deploy", "launch"}
LEMMA NoneAtWork ==
  ASSUME DInv, BetweenLoops
  PROVE  /\ \A t \in Task : tasks[t] \notin {"run", "mark", "save"}
         /\ taskmap = {} /\ monitored = {}
  BY DEF DInv, CycleInv, BetweenLoops

\* So a step from there changes clouds and servers freely as far as tasks go.
LEMMA CoreFrame ==
  ASSUME DInv, BetweenLoops, config' = config, UNCHANGED work, unsaved' \in {unsaved, {}},
         phase' \in {"reconcile", "deploy", "launch"}, IsCloud(cloud', Held),
         IsCloud(db', Stored), remote' \in [Names -> Installed]
  PROVE  Types' /\ CycleInv' /\ StateInv' /\ SaveInv'
<1>1. tasks' = tasks /\ copy' = copy /\ taskmap' = taskmap /\ queue' = queue /\ monitored' = monitored
  BY DEF work
<1>2. (\A t \in Task : tasks[t] \notin {"run", "mark", "save"}) /\ taskmap = {} /\ monitored = {}
  BY NoneAtWork
<1>3. Types'
  BY <1>1, <1>2 DEF DInv, Types
<1>4. CycleInv' /\ StateInv' /\ SaveInv'
  BY <1>1, <1>2, TasksOf DEF CycleInv, StateInv, SaveInv, AtWork
<1> QED BY <1>3, <1>4

\* The cloud that the database gives is the old one of the first cycle.
LEMMA StartStep ==
  ASSUME DInv, Start
  PROVE  DInv'
<1>1. /\ phase = "down" /\ phase' = "reconcile" /\ next' = Cycle("Reload", LoadCloud)
      /\ config' = config /\ db' = db /\ unsaved' = unsaved /\ remote' = remote
      /\ cloud' = cloud /\ UNCHANGED work
  BY DEF Start, stored, world
<1>2. /\ IsText(config) /\ IsCloud(db, Stored) /\ IsCloud(cloud, Held)
      /\ remote \in [Names -> Installed]
  BY DEF DInv, Types
<1>3. /\ DOMAIN LoadCloud = DOMAIN db
      /\ \A n \in DOMAIN db : LoadCloud[n] = LoadServer(db[n]) /\ db[n] \in Stored
  BY <1>2 DEF LoadCloud, IsCloud
<1>4. \A n \in DOMAIN db :
        /\ LoadCloud[n] \in Held /\ Exact(db[n], LoadCloud[n])
        /\ LoadCloud[n].secrets.id = db[n].id /\ LoadCloud[n].secrets.token = db[n].token
  BY <1>3, LoadTyped, LoadMirrors
<1>5. IsCloud(LoadCloud, Held)
  BY <1>2, <1>3, <1>4 DEF IsCloud
<1>6. CredOk(LoadCloud, remote)
  BY <1>3, <1>4 DEF CredOk, DInv, TokenInv
<1>7. Types' /\ CycleInv' /\ StateInv' /\ SaveInv'
  BY <1>1, <1>2, CoreFrame DEF BetweenLoops
<1>8. NextTypes' /\ next'.old = LoadCloud
  <2>1. "Reload" \in ReconMode
    BY DEF ReconMode
  <2> DEFINE y == Cycle("Reload", LoadCloud)
  <2>2. /\ DOMAIN y = {"mode", "old", "new", "inbound_set", "merged", "pending"}
        /\ y.mode \in ReconMode /\ y.pending = {} /\ y.old = LoadCloud
        /\ IsCloud(y.new, Held) /\ Fresh(y.new) /\ IsCloud(y.merged, Held)
    BY <1>2, <1>5, <2>1, CycleTyped
  <2>3. next' = y
    BY <1>1
  <2> HIDE DEF y
  <2> QED BY <1>5, <2>2, <2>3 DEF NextTypes
<1>9. TokenInv'
  BY <1>1, <1>6, <1>8 DEF DInv, TokenInv
<1>10. MirrorInv' /\ KeptInv'
  BY <1>1, <1>3, <1>4, <1>8 DEF MirrorInv, Mirrors, Mirrored, KeptInv
<1> QED BY <1>7, <1>8, <1>9, <1>10 DEF DInv

\* Reconciling and deploying that fail: the old cloud is kept, and the database
\* still has it.
LEMMA FallbackStep ==
  ASSUME DInv, phase \in {"reconcile", "deploy"}, phase' = "launch", cloud' = Fallback,
         next' = Idle, config' = config, db' = db, unsaved' = unsaved, UNCHANGED work,
         SetupInstalls
  PROVE  DInv'
<1>1. IsCloud(next.old, Held) /\ IsCloud(db, Stored) /\ cloud' = next.old
  BY DEF DInv, NextTypes, Types, Fallback
<1>2. Types' /\ CycleInv' /\ StateInv' /\ SaveInv'
  BY <1>1, CoreFrame DEF BetweenLoops, SetupInstalls
<1>3. NextTypes'
  BY NothingTyped DEF NextTypes
<1>4. \A n \in Names : remote'[n].id = remote[n].id
  <2>1. \A t \in Task : tasks[t] \notin {"run", "mark"}
    BY NoneAtWork DEF BetweenLoops
  <2> QED BY <2>1, TasksOf DEF SetupInstalls
<1>5. TokenInv'
  <2>1. CredOk(next.old, remote) /\ \A n \in DOMAIN db : db[n].token => db[n].id = remote[n].id
    BY DEF DInv, TokenInv
  <2>2. CredOk(next.old, remote')
    BY <1>1, <1>4, <2>1 DEF CredOk, IsCloud
  <2>3. \A n \in DOMAIN db : db[n].token => db[n].id = remote'[n].id
    BY <1>1, <1>4, <2>1 DEF IsCloud
  <2> QED BY <1>1, <2>2, <2>3 DEF TokenInv
<1>6. MirrorInv' /\ KeptInv'
  BY <1>1 DEF DInv, MirrorInv, Mirrors, Mirrored, KeptInv
<1> QED BY <1>2, <1>3, <1>5, <1>6 DEF DInv

\* A merge that is refused, and a playbook of a Rebase that fails.
LEMMA FailureStep ==
  ASSUME DInv, ReconcileErr \/ \E n \in Names : DeployErr(n)
  PROVE  DInv'
<1>1. /\ phase \in {"reconcile", "deploy"} /\ phase' = "launch" /\ cloud' = Fallback
      /\ next' = Idle /\ config' = config /\ db' = db /\ unsaved' = unsaved /\ UNCHANGED work
  BY DEF ReconcileErr, DeployErr, stored, world
<1>2. SetupInstalls
  <2>1. CASE ReconcileErr
    <3>1. remote' = remote /\ remote \in [Names -> Installed]
      BY <2>1 DEF ReconcileErr, world, DInv, Types
    <3> QED BY <3>1 DEF SetupInstalls
  <2>2. CASE \E n \in Names : DeployErr(n)
    <3>1. /\ Killed({}, next.pending) /\ {} \in SUBSET Task
          /\ next.pending \in SUBSET next.pending /\ Types /\ NextTypes /\ CycleInv
      BY <2>2 DEF DeployErr, DInv
    <3> QED BY <3>1, KilledLeaves
  <2> QED BY <2>1, <2>2
<1> QED BY <1>1, <1>2, FallbackStep

\* The merged cloud, and the servers that have to be reached for it.
LEMMA ReconcileStep ==
  ASSUME DInv, ReconcileOk
  PROVE  DInv'
<1> DEFINE merged == Merged(next.mode, next.old, next.new)
           pending == {n \in Scheduled(next.mode, next.old, next.new) :
                         RemoteActions(next.old[n], next.new[n], merged[n]) # {}}
<1>1. /\ phase = "reconcile" /\ phase' = "deploy"
      /\ next' = [next EXCEPT !.merged = merged, !.pending = pending]
      /\ config' = config /\ db' = db /\ unsaved' = unsaved /\ remote' = remote
      /\ cloud' = cloud /\ UNCHANGED work
  BY DEF ReconcileOk, stored, world
<1>2. /\ DOMAIN next = {"mode", "old", "new", "inbound_set", "merged", "pending"}
      /\ next.mode \in ReconMode /\ IsCloud(next.old, Held) /\ IsCloud(next.new, Held)
      /\ Fresh(next.new) /\ CredOk(next.old, remote)
  BY <1>1 DEF DInv, NextTypes, TokenInv
<1>3. /\ IsCloud(merged, Held) /\ CredOk(merged, remote)
      /\ next.mode = "Reload" =>
           \A n \in DOMAIN merged \cap DOMAIN next.old :
             merged[n].state = "Offgrid" => next.old[n].state = "Offgrid"
  <2> DEFINE mode == next.mode
             old == next.old
             new == next.new
  <2>1. mode \in ReconMode /\ IsCloud(old, Held) /\ IsCloud(new, Held) /\ Fresh(new)
        /\ CredOk(old, remote) /\ merged = Merged(mode, old, new)
    BY <1>2
  <2> HIDE DEF merged, mode, old, new
  <2>2. /\ IsCloud(merged, Held) /\ CredOk(merged, remote)
        /\ mode = "Reload" =>
             \A n \in DOMAIN merged \cap DOMAIN old :
               merged[n].state = "Offgrid" => old[n].state = "Offgrid"
    BY <2>1, MergedTyped
  <2> QED BY <2>2 DEF mode, old
<1>4. pending \subseteq DOMAIN merged \cap DOMAIN next.old \cap DOMAIN next.new
  BY DEF Scheduled, Merged
<1> HIDE DEF merged, pending
<1>5. /\ DOMAIN next' = DOMAIN next /\ next'.mode = next.mode /\ next'.old = next.old
      /\ next'.new = next.new /\ next'.merged = merged /\ next'.pending = pending
  BY <1>1, <1>2
<1>6. Types' /\ CycleInv' /\ StateInv' /\ SaveInv'
  <2>1. IsCloud(cloud, Held) /\ IsCloud(db, Stored) /\ remote \in [Names -> Installed]
    BY DEF DInv, Types
  <2> QED BY <1>1, <2>1, CoreFrame DEF BetweenLoops
<1>7. NextTypes'
  BY <1>1, <1>2, <1>3, <1>4, <1>5 DEF NextTypes
<1>8. TokenInv'
  BY <1>1, <1>2, <1>3, <1>5 DEF DInv, TokenInv
<1>9. MirrorInv'
  BY <1>1, <1>5 DEF DInv, MirrorInv, Mirrors, Mirrored
<1>10. KeptInv'
  BY <1>3, <1>5 DEF KeptInv
<1> QED BY <1>6, <1>7, <1>8, <1>9, <1>10 DEF DInv

\* A server that has been reconfigured keeps its credentials.
LEMMA DeployStep ==
  ASSUME DInv, NEW n \in Names, DeployOk(n)
  PROVE  DInv'
<1> DEFINE m == next.merged
           s == [m[n] EXCEPT !.conn = m[n].ssh_port]
           r == DeployEnded(n)
<1>1. /\ phase = "deploy" /\ phase' = phase /\ n \in next.pending
      /\ remote' = [remote EXCEPT ![n] = r]
      /\ next' = [next EXCEPT !.pending = @ \ {n}, !.merged[n].conn = next.merged[n].ssh_port]
      /\ config' = config /\ db' = db /\ unsaved' = unsaved /\ cloud' = cloud /\ UNCHANGED work
  BY DEF DeployOk, stored
<1>2. /\ DOMAIN next = {"mode", "old", "new", "inbound_set", "merged", "pending"}
      /\ next.mode \in ReconMode /\ IsCloud(next.old, Held) /\ IsCloud(next.new, Held)
      /\ Fresh(next.new) /\ IsCloud(m, Held)
      /\ next.pending \subseteq DOMAIN m \cap DOMAIN next.old \cap DOMAIN next.new
  BY DEF DInv, NextTypes
<1>3. remote \in [Names -> Installed] /\ IsCloud(cloud, Held) /\ IsCloud(db, Stored)
  BY DEF DInv, Types
<1>4. n \in DOMAIN m /\ m[n] \in Held /\ next.old[n] \in Held /\ next.new[n] \in Held
  BY <1>1, <1>2 DEF IsCloud
<1>5. s \in Held /\ s.secrets = m[n].secrets /\ s.state = m[n].state
  <2> DEFINE q == m[n]
  <2>1. q \in Held
    BY <1>4
  <2> HIDE DEF q
  <2>2. [q EXCEPT !.conn = q.ssh_port] \in Held
        /\ [q EXCEPT !.conn = q.ssh_port].secrets = q.secrets
        /\ [q EXCEPT !.conn = q.ssh_port].state = q.state
    BY <2>1 DEF Held
  <2> QED BY <2>2 DEF q
<1>6. r \in Installed /\ r.id = remote[n].id
  <2> DEFINE q == remote[n]
             o == next.old[n]
             w == next.new[n]
             x == m[n]
  <2>1. q \in Installed /\ o \in Held /\ w \in Held /\ x \in Held
    BY <1>3, <1>4
  <2>2. r = Reconfigured(q, o, w, x)
    BY DEF DeployEnded
  <2> HIDE DEF q, o, w, x, r
  <2>3. Reconfigured(q, o, w, x) \in Installed /\ Reconfigured(q, o, w, x).id = q.id
    BY <2>1, DeployTyped
  <2> QED BY <2>2, <2>3 DEF q
<1>7. /\ DOMAIN next' = DOMAIN next /\ next'.mode = next.mode /\ next'.old = next.old
      /\ next'.new = next.new /\ next'.pending = next.pending \ {n}
      /\ next'.merged = [m EXCEPT ![n] = s]
  BY <1>1, <1>2
<1> HIDE DEF m, s, r
<1>8. remote' \in [Names -> Installed] /\ \A k \in Names : remote'[k].id = remote[k].id
  BY <1>1, <1>3, <1>6
<1>9. DOMAIN next'.merged = DOMAIN m
      /\ \A k \in DOMAIN m : next'.merged[k] = IF k = n THEN s ELSE m[k]
  BY <1>4, <1>7
<1>10. Types' /\ CycleInv' /\ StateInv' /\ SaveInv'
  BY <1>1, <1>3, <1>8, CoreFrame DEF BetweenLoops
<1>11. NextTypes'
  <2>1. IsCloud(next'.merged, Held)
    BY <1>2, <1>5, <1>9 DEF IsCloud
  <2> QED BY <1>1, <1>2, <1>7, <1>9, <2>1 DEF NextTypes
<1>12. TokenInv'
  <2>1. /\ CredOk(cloud, remote) /\ CredOk(next.old, remote) /\ CredOk(m, remote)
        /\ \A k \in DOMAIN db : db[k].token => db[k].id = remote[k].id
    BY <1>1 DEF DInv, TokenInv, m
  <2>2. CredOk(cloud, remote') /\ CredOk(next.old, remote')
    BY <1>2, <1>3, <1>8, <2>1 DEF CredOk, IsCloud
  <2>3. CredOk(next'.merged, remote')
    BY <1>2, <1>4, <1>5, <1>8, <1>9, <2>1 DEF CredOk, IsCloud
  <2>4. \A k \in DOMAIN db : db[k].token => db[k].id = remote'[k].id
    BY <1>3, <1>8, <2>1 DEF IsCloud
  <2> QED BY <1>1, <1>7, <2>2, <2>3, <2>4 DEF TokenInv
<1>13. MirrorInv'
  BY <1>1, <1>7 DEF DInv, MirrorInv, Mirrors, Mirrored
<1>14. KeptInv'
  <2>1. next.mode = "Reload" =>
          \A k \in DOMAIN m \cap DOMAIN next.old :
            m[k].state = "Offgrid" => next.old[k].state = "Offgrid"
    BY <1>1 DEF DInv, KeptInv, m
  <2> QED BY <1>5, <1>7, <1>9, <2>1 DEF KeptInv
<1> QED BY <1>10, <1>11, <1>12, <1>13, <1>14 DEF DInv

\* The merged cloud becomes the one in memory and the one in the database.
LEMMA SaveStep ==
  ASSUME DInv, SaveCloud
  PROVE  DInv'
<1> DEFINE m == next.merged
<1>1. /\ phase = "deploy" /\ phase' = "launch" /\ db' = Rows(m) /\ cloud' = m /\ next' = Idle
      /\ config' = config /\ remote' = remote /\ unsaved' = {} /\ UNCHANGED work
  BY DEF SaveCloud, Saving
<1>2. IsCloud(m, Held) /\ CredOk(m, remote) /\ remote \in [Names -> Installed]
  BY <1>1 DEF DInv, NextTypes, TokenInv, Types
<1> HIDE DEF m
<1>3. DOMAIN db' = DOMAIN m /\ \A n \in DOMAIN m : db'[n] = Row(m[n]) /\ m[n] \in Held
  BY <1>1, <1>2 DEF Rows, IsCloud
<1>4. \A n \in DOMAIN m : /\ db'[n] \in Stored /\ Exact(db'[n], m[n])
                          /\ db'[n].id = m[n].secrets.id /\ db'[n].token = m[n].secrets.token
  BY <1>3, RowTyped, RowMirrors
<1>5. IsCloud(db', Stored)
  BY <1>2, <1>3, <1>4 DEF IsCloud
<1>6. Types' /\ CycleInv' /\ StateInv' /\ SaveInv'
  BY <1>1, <1>2, <1>5, CoreFrame DEF BetweenLoops
<1>7. NextTypes' /\ KeptInv'
  BY <1>1, NothingTyped DEF NextTypes, KeptInv
<1>8. TokenInv'
  <2>1. \A n \in DOMAIN db' : db'[n].token => db'[n].id = remote[n].id
    BY <1>2, <1>3, <1>4 DEF CredOk
  <2> QED BY <1>1, <1>2, <2>1 DEF TokenInv
<1>9. MirrorInv'
  BY <1>1, <1>3, <1>4 DEF MirrorInv, Mirrors, Mirrored
<1> QED BY <1>6, <1>7, <1>8, <1>9 DEF DInv

\* An update_db that stops anywhere has left each row as it was or written the columns
\* of the merged server to it, with inbounds of either cloud.
FromMerged(k) ==
  /\ k \in DOMAIN next.merged
  /\ db'[k] \in Stored
  /\ db'[k].id = next.merged[k].secrets.id /\ db'[k].token = next.merged[k].secrets.token
  /\ db'[k].state = next.merged[k].state
LEMMA StopsTyped ==
  ASSUME DInv, Saving,
         SaveStops(next.merged) \/ \E n \in DOMAIN next.merged : StopsInInbounds(next.merged, n)
  PROVE  /\ DOMAIN db' \subseteq Names
         /\ \A k \in DOMAIN db' : (k \in DOMAIN db /\ db'[k] = db[k]) \/ FromMerged(k)
<1> DEFINE m == next.merged
<1>1. IsCloud(m, Held) /\ IsCloud(db, Stored)
  BY DEF DInv, NextTypes, Types
<1>2. \A n \in Names : InboundsStored(n) \subseteq Inbound
  BY DEF InboundsStored, DInv, Types, IsCloud, Stored
<1>3. \A k \in DOMAIN m : k \in Names /\ m[k] \in Held /\ m[k].inbounds \subseteq Inbound
  BY <1>1 DEF IsCloud, Held
<1>4. ASSUME NEW k \in DOMAIN m, NEW I \in SUBSET Inbound,
             db'[k] = [Row(m[k]) EXCEPT !.inbounds = I]
      PROVE  FromMerged(k)
  <2> DEFINE s == m[k]
             r == Row(s)
  <2>1. s \in Held
    BY <1>3
  <2> HIDE DEF s
  <2>2. r \in Stored /\ r.id = s.secrets.id /\ r.token = s.secrets.token /\ r.state = s.state
    BY <2>1, RowTyped
  <2>3. db'[k] = [r EXCEPT !.inbounds = I]
    BY <1>4 DEF s
  <2> HIDE DEF r
  <2>4. /\ db'[k] \in Stored /\ db'[k].id = r.id /\ db'[k].token = r.token
        /\ db'[k].state = r.state
    BY <2>2, <2>3 DEF Stored
  <2> QED BY <2>2, <2>4 DEF FromMerged, s
<1>5. CASE db' = db
  BY <1>1, <1>5 DEF IsCloud
<1>6. CASE StopsInRows(m)
  <2>1. PICK kept \in SUBSET DOMAIN m : db' = RowsStored(m, kept)
    BY <1>6 DEF StopsInRows
  <2> HIDE DEF m
  <2>2. /\ DOMAIN db' = kept \cup (DOMAIN db \cap DOMAIN m)
        /\ \A k \in DOMAIN db' :
             db'[k] = IF k \in kept THEN [Row(m[k]) EXCEPT !.inbounds = InboundsStored(k)] ELSE db[k]
    BY <2>1 DEF RowsStored
  <2> QED BY <1>2, <1>3, <1>4, <2>2
<1>7. ASSUME NEW n \in DOMAIN m, StopsInInbounds(m, n)
      PROVE  /\ DOMAIN db' \subseteq Names
             /\ \A k \in DOMAIN db' : FromMerged(k)
  <2> HIDE DEF m
  <2>1. PICK done \in SUBSET {k \in DOMAIN m : HasSubids(m[k])},
             part \in SUBSET {i \in m[n].inbounds : i.name \in m[n].secrets.subids} :
          db' = InboundsDone(m, done, n, part)
    BY <1>7 DEF StopsInInbounds
  <2> DEFINE I(k) == IF k \in done THEN m[k].inbounds
                     ELSE IF k = n
                     THEN part \cup {i \in InboundsStored(n) :
                            i.name \in InboundNames(m[n].inbounds) \ InboundNames(part)}
                     ELSE InboundsStored(k)
  <2>2. \A k \in DOMAIN m : I(k) \in SUBSET Inbound
    BY <1>2, <1>3
  <2>3. DOMAIN db' = DOMAIN m /\ \A k \in DOMAIN m : db'[k] = [Row(m[k]) EXCEPT !.inbounds = I(k)]
    BY <2>1 DEF InboundsDone
  <2> HIDE DEF I
  <2> QED BY <1>3, <1>4, <2>2, <2>3
<1> QED BY <1>5, <1>6, <1>7 DEF SaveStops

\* It leaves no credentials but those of the two clouds.
LEMMA SaveErrStep ==
  ASSUME DInv, SaveCloudErr \/ (Crash /\ db' # db)
  PROVE  DInv'
<1> DEFINE m == next.merged
<1>1. Saving /\ phase = "deploy" /\ Die /\ config' = config
  BY DEF SaveCloudErr, Crash, Saving
<1>2. CredOk(m, remote) /\ (\A k \in DOMAIN db : db[k].token => db[k].id = remote[k].id)
      /\ IsCloud(db, Stored)
  BY <1>1 DEF DInv, TokenInv, Types
<1>3. SetupInstalls
  <2>1. Task \in SUBSET Task /\ next.pending \in SUBSET next.pending /\ Killed(Task, next.pending)
        /\ Types /\ NextTypes /\ CycleInv
    BY <1>1 DEF Die, DInv
  <2> QED BY <2>1, KilledLeaves
<1>4. \A n \in Names : remote'[n].id = remote[n].id
  <2>1. \A t \in Task : tasks[t] \notin {"run", "mark"}
    BY <1>1, NoneAtWork DEF BetweenLoops
  <2> QED BY <1>3, <2>1, TasksOf DEF SetupInstalls
<1>5. /\ DOMAIN db' \subseteq Names
      /\ \A k \in DOMAIN db' : (k \in DOMAIN db /\ db'[k] = db[k]) \/ FromMerged(k)
  <2>1. SaveStops(m) \/ \E n \in DOMAIN m : StopsInInbounds(m, n)
    BY DEF SaveCloudErr, Crash
  <2> QED BY <1>1, <2>1, StopsTyped
<1>6. IsCloud(db', Stored)
  BY <1>2, <1>5 DEF IsCloud, FromMerged
<1>7. \A k \in DOMAIN db' : db'[k].token => db'[k].id = remote'[k].id
  BY <1>2, <1>4, <1>5 DEF CredOk, FromMerged
<1> QED BY <1>1, <1>6, <1>7, DieStep

\* Commands are served with the cloud that was launched.
LEMMA LaunchStep ==
  ASSUME DInv, Launch
  PROVE  DInv'
<1>1. /\ phase = "launch" /\ phase' = "running" /\ monitored' = ToMonitor
      /\ \A n \in ToMonitor : cloud[n].secrets.token
      /\ config' = config /\ db' = db /\ unsaved' = unsaved /\ remote' = remote
      /\ cloud' = cloud /\ next' = next
      /\ tasks' = tasks /\ copy' = copy /\ taskmap' = taskmap /\ queue' = queue
  BY DEF Launch, stored, world
<1>2. Types'
  BY <1>1 DEF DInv, Types, ToMonitor
<1>3. NextTypes' /\ KeptInv'
  BY <1>1 DEF DInv, NextTypes, KeptInv
<1>4. CycleInv' /\ StateInv' /\ SaveInv'
  BY <1>1 DEF DInv, CycleInv, StateInv, SaveInv, AtWork, ToMonitor
<1>5. TokenInv' /\ MirrorInv'
  BY <1>1 DEF DInv, TokenInv, CredOk, MirrorInv, Mirrors, Mirrored
<1> QED BY <1>2, <1>3, <1>4, <1>5 DEF DInv

----------------------------------------------------------------------------
(* The theorems. *)

\* Every step of the daemon keeps the invariant, unless it takes a stale inquiry
\* out of the channel.
LEMMA StepInv ==
  ASSUME DInv, NoStaleInquiry, [Next]_vars
  PROVE  DInv'
<1>1. CASE EditConfig \/ (\E c \in Commands : Send(c)) \/ UNCHANGED vars
  BY <1>1, EditStep
<1>2. CASE Start
  BY <1>2, StartStep
<1>3. CASE (Crash /\ db' = db) \/ LocalErr \/ LaunchErr \/ HandleShutdown \/ BackupErr
  BY <1>3, EndStep
<1>4. CASE ReconcileErr \/ \E n \in Names : DeployErr(n)
  BY <1>4, FailureStep
<1>5. CASE ReconcileOk
  BY <1>5, ReconcileStep
<1>6. CASE SaveCloud
  BY <1>6, SaveStep
<1>7. CASE SaveCloudErr \/ (Crash /\ db' # db)
  BY <1>7, SaveErrStep
<1>8. CASE \E n \in Names : DeployOk(n)
  BY <1>8, DeployStep
<1>9. CASE Launch
  BY <1>9, LaunchStep
<1>10. CASE HandleRecon
  BY <1>10, ReconStep
<1>11. CASE HandleReconRefused \/ HandleSetupInquiry
  BY <1>11, AnswerStep
<1>12. CASE HandleExpand \/ HandleDestroy
  BY <1>12, CommandStep
<1>13. CASE EndCycle
  BY <1>13, EndCycleStep
<1>14. CASE \E t \in Task : TaskStep(t)
  <2>1. PICK t \in Task : TaskStep(t)
    BY <1>14
  <2>2. CASE RunOk(t) \/ RunErr(t)
    BY <2>2, RunStep
  <2>3. CASE Mark(t)
    BY <2>3, MarkStep
  <2>4. CASE SaveMark(t)
    BY <2>4, SaveMarkStep
  <2>5. CASE SaveMarkErr(t) \/ ReadConfig(t) \/ WriteConfig(t) \/ SendInquiry(t) \/ SendReload(t)
    BY <2>5, RestStep
  <2> QED BY <2>1, <2>2, <2>3, <2>4, <2>5 DEF TaskStep
<1> QED
  BY <1>1, <1>2, <1>3, <1>4, <1>5, <1>6, <1>7, <1>8, <1>9, <1>10, <1>11, <1>12, <1>13, <1>14
  DEF Next, Core, Handle

\* The invariant holds in every state.
LEMMA Invariance == Spec /\ []NoStaleInquiry => []DInv
<1>1. Init => DInv
  BY InitInv
<1>2. DInv /\ NoStaleInquiry /\ [Next]_vars => DInv'
  BY StepInv
<1> QED BY <1>1, <1>2, PTL DEF Spec

\* Memory, database, config file, servers and tasks hold what the code puts there in
\* every state of the daemon, and no playbook of a task outlives the cycle it was
\* started in (daemon_core, abort_all).
THEOREM TypeCorrect == Spec /\ []NoStaleInquiry => []TypeOK
<1>1. DInv => TypeOK
  <2> SUFFICES ASSUME DInv PROVE TypeOK
    OBVIOUS
  <2>1. IsCloud(cloud, KetServer)
    BY HeldIsServer DEF DInv, Types, IsCloud
  <2>2. \A n \in DOMAIN db : LoadServer(db[n]) \in KetServer
    BY HeldIsServer, LoadTyped DEF DInv, Types, IsCloud
  <2>3. remote \in [Names -> [id: 0..4, port: SshPorts \cup {AnsiblePort}, inbounds: SUBSET Inbound]]
    BY DEF DInv, Types, Installed
  <2>4. phase \notin {"running", "backup"} =>
          \A t \in Task : tasks[t] \notin {"run", "mark", "save"}
    BY WorkPhase DEF DInv
  <2> QED BY <2>1, <2>2, <2>3, <2>4 DEF TypeOK, DInv, Types, CycleInv
<1> QED BY <1>1, Invariance, PTL

\* No server is ever provisioned and destroyed at the same time: the state of the
\* server in memory lets one of the two commands through, and it does not change
\* before the playbook has ended (expand_cloud, perform_server_destruction, the mark
\* functions).
THEOREM PlaybooksApartHolds == Spec /\ []NoStaleInquiry => []PlaybooksApart
<1>1. DInv => PlaybooksApart
  BY DEF DInv, StateInv, AtWork, PlaybooksApart
<1> QED BY <1>1, Invariance, PTL

\* Wherever a panel token is kept, in memory or in the database, it is kept with the
\* credentials last installed on the server, through merges, fallbacks, aborted playbooks
\* and crashes (reload_merge, remap_merge, rebase_merge, mark_server_production,
\* update_db).
THEOREM CredentialsInstalledHolds == Spec /\ []NoStaleInquiry => []CredentialsInstalled
<1>1. DInv => CredentialsInstalled
  BY DEF DInv, TokenInv, CredOk, CredentialsInstalled
<1> QED BY <1>1, Invariance, PTL

\* Whenever commands are served, the database holds the cloud in memory except for
\* marks that are waiting for it or have failed, and a server whose mark it lacks
\* differs from its row by that mark alone: whether reconciling or deploying succeeded
\* or fell back to the old cloud, in whatever order the marks of a setup and of a
\* destruction were executed, failed or were cut off by abort_all (update_db,
\* load_cloud, reconcile_cloud, the mark functions).
THEOREM DbMirrorsMemoryHolds == Spec /\ []NoStaleInquiry => []DbMirrorsMemory
<1>1. DInv => DbMirrorsMemory
  <2> SUFFICES ASSUME DInv, phase \in {"launch", "running", "backup"}, NEW n \in DOMAIN db
               PROVE  \/ SameRow(db[n], cloud[n])
                      \/ \E kind \in {"FullSetup", "DestroyServer"} :
                           <<kind, n>> \in unsaved /\ SameRow(MarkedRow(db[n], kind), cloud[n])
    BY DEF DInv, MirrorInv, Mirrors, DbMirrorsMemory
  <2> DEFINE r == db[n]
             s == cloud[n]
  <2>1. r \in Stored /\ s \in Held /\ Mirrored(n, s)
    BY DEF DInv, MirrorInv, Mirrors, Types, IsCloud
  <2>2. ASSUME NEW kind \in {"FullSetup", "DestroyServer"}
        PROVE  SameRow(MarkedRow(r, kind), s) <=> Exact(MarkedRow(r, kind), s)
    BY <2>1, RowMarked, SameRowColumns
  <2>3. CASE Exact(r, s)
    BY <2>1, <2>3, SameRowColumns
  <2>4. CASE /\ Columns(r, s) /\ <<"FullSetup", n>> \in unsaved
             /\ s.state = "Production" /\ s.secrets.token
    <3>1. s.secrets.token = TRUE
      BY <2>1, <2>4 DEF Held
    <3> HIDE DEF r, s
    <3>2. Exact(MarkedRow(r, "FullSetup"), s)
      BY <2>1, <2>4, <3>1, RowMarked DEF Exact
    <3> QED BY <2>2, <2>4, <3>2 DEF r, s
  <2>5. CASE Columns(r, s) /\ <<"DestroyServer", n>> \in unsaved /\ s.state = "Offgrid"
    <3> HIDE DEF r, s
    <3>1. Exact(MarkedRow(r, "DestroyServer"), s)
      BY <2>1, <2>5, RowMarked DEF Exact
    <3> QED BY <2>2, <2>5, <3>1 DEF r, s
  <2> QED BY <2>1, <2>3, <2>4, <2>5 DEF Mirrored
<1> QED BY <1>1, Invariance, PTL

\* No Reload takes a Production server back to Offgrid, whatever the config file
\* says; one that has been destroyed may still get its mark, from its own statement or
\* with the next update_db (reload_merge, update_db, mark_server_offgrid).
THEOREM ProductionKeptHolds == Spec /\ []NoStaleInquiry => ProductionKept
<1> DEFINE Kept(n) ==
      Demoted(n) => next.mode \in {"Remap", "Rebase"} \/ <<"DestroyServer", n>> \in unsaved
<1>1. ASSUME DInv, Next, NEW n \in Names
      PROVE  Kept(n)
  <2> SUFFICES ASSUME Demoted(n), next.mode \notin {"Remap", "Rebase"}
               PROVE  <<"DestroyServer", n>> \in unsaved
    OBVIOUS
  <2>1. n \in DOMAIN db /\ n \in DOMAIN db' /\ db[n].state = "Production" /\ db'[n].state = "Offgrid"
    BY DEF Demoted
  <2>2. db' # db
    BY <2>1
  <2>3. next.mode = "Reload" /\ db[n] \in Stored
    BY <1>1, <2>1 DEF DInv, NextTypes, ReconMode, Types, IsCloud
  <2>4. ASSUME SaveCloud \/ SaveCloudErr \/ Crash
        PROVE  <<"DestroyServer", n>> \in unsaved
    <3> DEFINE m == next.merged
    <3>1. Saving /\ phase = "deploy"
      BY <2>2, <2>4 DEF SaveCloud, SaveCloudErr, Crash, Saving
    <3>2. n \in DOMAIN m /\ m[n].state = "Offgrid"
      <4>1. CASE SaveCloud
        <5>1. n \in DOMAIN m /\ db'[n] = Row(m[n])
          BY <2>1, <4>1 DEF SaveCloud, Rows
        <5>2. m[n] \in Held
          BY <1>1, <5>1 DEF DInv, NextTypes, IsCloud
        <5> QED BY <2>1, <5>1, <5>2, RowTyped
      <4>2. CASE SaveCloudErr \/ Crash
        <5>1. SaveStops(m) \/ \E k \in DOMAIN m : StopsInInbounds(m, k)
          BY <2>2, <4>2 DEF SaveCloudErr, Crash
        <5>2. (n \in DOMAIN db /\ db'[n] = db[n]) \/ FromMerged(n)
          BY <1>1, <2>1, <3>1, <5>1, StopsTyped
        <5> QED BY <2>1, <5>2 DEF FromMerged
      <4> QED BY <2>4, <4>1, <4>2
    <3>3. n \in DOMAIN next.old /\ Mirrored(n, next.old[n])
      BY <1>1, <2>1, <3>1 DEF DInv, MirrorInv, Mirrors
    <3>4. next.old[n].state = "Offgrid"
      BY <1>1, <2>3, <3>1, <3>2, <3>3 DEF DInv, KeptInv
    <3> QED BY <2>1, <3>3, <3>4 DEF Mirrored, Exact
  <2>5. ASSUME NEW T \in SUBSET Task, \A t \in T : tasks[t] = "save", Saved(T)
        PROVE  <<"DestroyServer", n>> \in unsaved
    <3>1. db'[n] = IF <<"DestroyServer", n>> \in T THEN MarkedRow(db[n], "DestroyServer")
                   ELSE IF <<"FullSetup", n>> \in T THEN MarkedRow(db[n], "FullSetup")
                   ELSE db[n]
      BY <2>1, <2>5 DEF Saved, Marked
    <3>2. MarkedRow(db[n], "FullSetup").state = "Production"
      BY <2>3, RowMarked
    <3>3. <<"DestroyServer", n>> \in T
      BY <2>1, <3>1, <3>2
    <3> QED BY <1>1, <2>5, <3>3 DEF DInv, SaveInv
  <2>6. CASE EndCycle
    <3>1. PICK T \in SUBSET {t \in taskmap : tasks[t] = "save"} : Saved(T)
      BY <2>6 DEF EndCycle
    <3>2. T \in SUBSET Task /\ \A t \in T : tasks[t] = "save"
      BY <1>1, <3>1 DEF DInv, Types
    <3> QED BY <2>5, <3>1, <3>2
  <2>7. ASSUME NEW t \in Task, SaveMark(t)
        PROVE  <<"DestroyServer", n>> \in unsaved
    <3>1. {t} \in SUBSET Task /\ (\A u \in {t} : tasks[u] = "save") /\ Saved({t})
      BY <2>7 DEF SaveMark, Goes
    <3> QED BY <2>5, <3>1
  <2>8. SaveCloud \/ SaveCloudErr \/ Crash \/ EndCycle \/ \E t \in Task : SaveMark(t)
    <3>1. ~EditConfig /\ ~(\E c \in Commands : Send(c)) /\ ~Start
      BY <2>2 DEF EditConfig, Send, Start, stored, world
    <3>2. ~ReconcileErr /\ ~ReconcileOk /\ ~Launch /\ ~LaunchErr /\ ~BackupErr /\ ~LocalErr
          /\ ~\E k \in Names : DeployOk(k) \/ DeployErr(k)
      BY <2>2 DEF ReconcileErr, ReconcileOk, Launch, LaunchErr, BackupErr, LocalErr, DeployOk,
                  DeployErr, stored, world
    <3>3. ~Handle
      BY <2>2 DEF Handle, HandleShutdown, HandleRecon, HandleReconRefused, HandleExpand,
                  HandleDestroy, HandleSetupInquiry, Answered, stored, world
    <3>4. ASSUME NEW t \in Task, TaskStep(t)
          PROVE  SaveMark(t)
      BY <2>2, <3>4 DEF TaskStep, RunOk, RunErr, Mark, SaveMarkErr, ReadConfig, WriteConfig,
                        SendInquiry, SendReload, stored, world
    <3> QED BY <1>1, <3>1, <3>2, <3>3, <3>4 DEF Next, Core
  <2> QED BY <2>4, <2>6, <2>7, <2>8
<1>2. DInv /\ [Next]_vars => [\A n \in Names : Kept(n)]_vars
  BY <1>1
<1> QED BY <1>2, Invariance, PTL DEF Spec, ProductionKept
=============================================================================
