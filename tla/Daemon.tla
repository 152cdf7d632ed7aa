------------------------------- MODULE Daemon -------------------------------
(***************************************************************************)
(* The daemon's life: cycles of daemon_core (src/src/daemon/core.rs), the  *)
(* commands that end a cycle or start work in it (src/src/daemon.rs), the  *)
(* tasks that provision and destroy servers (src/src/ansible.rs), and what *)
(* is kept in memory, in the database (src/src/db.rs), in the config file  *)
(* and on the servers themselves.                                          *)
(*                                                                         *)
(* Every task runs in steps between its awaits; the daemon handles one     *)
(* command at a time, and abort_all stops a task between two of its steps. *)
(* A crash may come at any moment; whatever ends daemon_core with an error *)
(* ends the process as well.  Restart is a Reload that first repeats the   *)
(* start-up checks, and the commands that only report are left out.        *)
(***************************************************************************)
EXTENDS Reconcile, Sequences

CONSTANTS
  Configs,        \* config files the operator writes: records of inbound_set and servers
  Provisioned,    \* servers that were Production when the daemon was last shut down
  Commands,       \* commands the operator sends: records of op and arg
  RemoteFails,    \* whether a playbook or a call to Cloudflare may fail
  LocalFails,     \* whether a statement of the database or the write of a file may fail
  MaxEdits,       \* bound: edits of the config file
  MaxCommands,    \* bound: commands sent (the daemon's queue holds ten)
  MaxCrashes      \* bound: crashes

\* The text of a config file, with servers that are declared.
IsText(text) ==
  /\ DOMAIN text = {"inbound_set", "servers"}
  /\ text.inbound_set \subseteq Inbound /\ IsCloud(text.servers, Declared)

ASSUME DaemonAssumption ==
  /\ \A text \in Configs : IsText(text)
  /\ Provisioned \subseteq Names
  /\ RemoteFails \in BOOLEAN /\ LocalFails \in BOOLEAN
  /\ MaxEdits \in Nat /\ MaxCommands \in Nat /\ MaxCrashes \in Nat

VARIABLES
  config,     \* the config file
  cloud,      \* the_cloud, in memory
  db,         \* the servers and inbounds tables
  unsaved,    \* tasks whose mark the database lacks: not executed yet, or failed
  remote,     \* each server: the credentials last installed, its SSH port, its inbounds
  phase,      \* where daemon_core is
  next,       \* DaemonNext and the outcome of merging its clouds
  tasks,      \* where each full setup or destruction is
  copy,       \* the config text a task has read and is about to write back
  taskmap,    \* the tasks registered in this cycle
  queue,      \* the daemon's channel
  monitored,  \* servers whose monitors run
  spent       \* edits, commands and crashes so far

vars == <<config, cloud, db, unsaved, remote, phase, next, tasks, copy, taskmap, queue,
          monitored, spent>>
stored == <<db, unsaved>>
world  == <<config, stored, remote>>
work   == <<tasks, copy, taskmap, queue, monitored>>

NoText == [inbound_set |-> {}, servers |-> NoServers]

\* A row of the servers table together with its inbounds.
Row(s) ==
  [state |-> s.state, enabled |-> s.enabled, domain |-> s.domain, ssh_port |-> s.ssh_port,
   inbounds |-> s.inbounds, id |-> s.secrets.id, token |-> s.secrets.token]
Rows(c) == [n \in DOMAIN c |-> Row(c[n])]

LoadServer(r) ==
  [state |-> r.state, enabled |-> r.enabled, domain |-> r.domain, ssh_port |-> r.ssh_port,
   inbounds |-> r.inbounds, conn |-> r.ssh_port,
   secrets |-> [id |-> r.id, token |-> r.token, subids |-> InboundNames(r.inbounds)]]
LoadCloud == [n \in DOMAIN db |-> LoadServer(db[n])]

Task    == {"FullSetup", "DestroyServer"} \X Names
TaskPc  == {"none", "run", "mark", "save", "read", "write", "inquire", "answer", "reload",
            "reply", "ended"}
Running(t) == tasks[t] \notin {"none", "ended"}

Idle == [mode |-> "Reload", old |-> NoServers, new |-> NoServers, inbound_set |-> {},
         merged |-> NoServers, pending |-> {}]

\* Credentials a parse generates are new to memory, database and server.
FreshIds ==
  [n \in Names |->
     CHOOSE i \in 1..4 :
       /\ i # remote[n].id
       /\ n \in DOMAIN cloud => i # cloud[n].secrets.id
       /\ n \in DOMAIN db => i # db[n].id
       /\ \A j \in 1..i - 1 :
            \/ j = remote[n].id
            \/ n \in DOMAIN cloud /\ j = cloud[n].secrets.id
            \/ n \in DOMAIN db /\ j = db[n].id]

TypeOK ==
  /\ IsText(config)
  /\ IsCloud(cloud, KetServer)
  /\ \A n \in DOMAIN db : LoadServer(db[n]) \in KetServer
  /\ remote \in [Names -> [id: 0..4, port: SshPorts \cup {AnsiblePort}, inbounds: SUBSET Inbound]]
  /\ phase \in {"down", "reconcile", "deploy", "launch", "running", "backup"}
  /\ tasks \in [Task -> TaskPc]
  /\ taskmap \subseteq Task /\ unsaved \subseteq Task
  /\ monitored \subseteq DOMAIN cloud
  /\ phase \notin {"running", "backup"} =>
       \A t \in Task : tasks[t] \notin {"run", "mark", "save"}
  /\ phase = "down" => cloud = NoServers /\ queue = <<>> /\ taskmap = {}

----------------------------------------------------------------------------
\* The daemon was shut down after a reconciled cycle, or has never run.
Init ==
  /\ config \in Configs
  /\ Provisioned = {n \in DOMAIN config.servers : config.servers[n].state = "Production"}
  /\ ParseOk(config)
  /\ LET first == Parse(config, [n \in Names |-> 1])
         c == [n \in DOMAIN first |-> [first[n] EXCEPT !.secrets.token = n \in Provisioned]]
     IN /\ db = IF Provisioned = {} THEN NoServers ELSE Rows(c)
        /\ remote = [n \in Names |->
             IF n \in Provisioned
             THEN [id |-> 1, port |-> c[n].ssh_port, inbounds |-> c[n].inbounds]
             ELSE [id |-> 0, port |-> AnsiblePort, inbounds |-> {}]]
  /\ cloud = NoServers
  /\ phase = "down"
  /\ next = Idle
  /\ tasks = [t \in Task |-> "none"]
  /\ copy = [t \in Task |-> NoText]
  /\ taskmap = {} /\ unsaved = {} /\ queue = <<>> /\ monitored = {}
  /\ spent = [edits |-> 0, commands |-> 0, crashes |-> 0]

----------------------------------------------------------------------------
(* The operator and the host. *)

EditConfig ==
  /\ spent.edits < MaxEdits
  /\ config' \in Configs \ {config}
  /\ spent' = [spent EXCEPT !.edits = @ + 1]
  /\ UNCHANGED <<cloud, stored, remote, phase, next, work>>

Send(c) ==
  /\ phase # "down"
  /\ spent.commands < MaxCommands
  /\ queue' = Append(queue, c)
  /\ spent' = [spent EXCEPT !.commands = @ + 1]
  /\ UNCHANGED <<world, cloud, phase, next, tasks, copy, taskmap, monitored>>

----------------------------------------------------------------------------
(* Playbooks and what they leave behind. *)

\* A task works on the server object it was spawned with, which is the cloud's for
\* as long as the cycle lasts.  Its playbook ends with the cycle, unless an inquiry
\* of an earlier task of the same name has unregistered it: see NoStaleInquiry.
Server(t) == cloud[t[2]]

Reached(t) == Server(t).conn = remote[t[2]].port

\* The server when the playbook has ended, and what it may be when the playbook has
\* stopped somewhere: a setup installs the credentials, adds the inbounds and moves
\* SSH in that order, a destruction removes x-ui and then moves SSH back.  The
\* credentials are those of the last installation, which a destruction removes.
Complete(t) ==
  IF t[1] = "FullSetup"
  THEN [id |-> Server(t).secrets.id, port |-> Server(t).ssh_port,
        inbounds |-> Server(t).inbounds]
  ELSE [remote[t[2]] EXCEPT !.port = AnsiblePort, !.inbounds = {}]
Partial(t) ==
  {remote[t[2]], Complete(t), [Complete(t) EXCEPT !.port = remote[t[2]].port]} \cup
  (IF t[1] = "FullSetup" THEN {[remote[t[2]] EXCEPT !.id = Server(t).secrets.id]} ELSE {})

DeployReaches(n) == next.merged[n].conn = remote[n].port
DeployStopped(n) == Stopped(remote[n], next.old[n], next.new[n])
DeployEnded(n)   == Reconfigured(remote[n], next.old[n], next.new[n], next.merged[n])

\* What the runs under way may leave of server n when they are killed.  A run
\* that has ended but was not waited for is one of the cases.
CutShort(n, killed, pending) ==
  {remote[n]}
  \cup (UNION {Partial(t) : t \in {u \in killed : u[2] = n /\ tasks[u] = "run" /\ Reached(u)}})
  \cup (IF n \in pending /\ DeployReaches(n) THEN DeployStopped(n) \cup {DeployEnded(n)} ELSE {})

Killed(killed, pending) ==
  \E after \in [Names -> UNION {CutShort(n, killed, pending) : n \in Names}] :
    /\ \A n \in Names : after[n] \in CutShort(n, killed, pending)
    /\ remote' = after

\* The process is gone: what was in memory, in the queue or running is lost.
Die ==
  /\ phase' = "down"
  /\ cloud' = NoServers
  /\ next' = Idle
  /\ tasks' = [t \in Task |-> "none"]
  /\ copy' = [t \in Task |-> NoText]
  /\ taskmap' = {} /\ unsaved' = {} /\ queue' = <<>> /\ monitored' = {}
  /\ Killed(Task, next.pending)

\* An error of the database or of a file that a cycle needs ends the daemon.
LocalErr ==
  /\ LocalFails
  /\ phase \in {"reconcile", "launch", "backup"}
  /\ Die
  /\ UNCHANGED <<config, db, spent>>

----------------------------------------------------------------------------
(* A cycle of daemon_core up to its command loop. *)

Cycle(mode, old) ==
  [mode |-> mode, old |-> old, new |-> Parse(config, FreshIds),
   inbound_set |-> config.inbound_set, merged |-> NoServers, pending |-> {}]

\* Start-up is a Reload from the database.
Start ==
  /\ phase = "down" /\ ParseOk(config)
  /\ phase' = "reconcile"
  /\ next' = Cycle("Reload", LoadCloud)
  /\ UNCHANGED <<world, cloud, work, spent>>

\* The cloud that is kept when reconciling fails.
FallbackNew == next.new
Fallback    == next.old

\* Reconciling has failed, here or at Cloudflare.
ReconcileErr ==
  /\ phase = "reconcile"
  /\ RemoteFails \/ ~MergeOk(next.mode, next.old, next.new, next.inbound_set)
  /\ phase' = "launch"
  /\ cloud' = Fallback
  /\ next' = Idle
  /\ UNCHANGED <<world, work, spent>>

ReconcileOk ==
  LET merged == Merged(next.mode, next.old, next.new)
  IN /\ phase = "reconcile"
     /\ MergeOk(next.mode, next.old, next.new, next.inbound_set)
     /\ phase' = "deploy"
     /\ next' = [next EXCEPT
          !.merged = merged,
          !.pending = {n \in Scheduled(next.mode, next.old, next.new) :
                         RemoteActions(next.old[n], next.new[n], merged[n]) # {}}]
     /\ UNCHANGED <<world, cloud, work, spent>>

\* deploy_rebase joins a run that succeeded.
DeployOk(n) ==
  /\ phase = "deploy" /\ n \in next.pending
  /\ DeployReaches(n)
  /\ remote' = [remote EXCEPT ![n] = DeployEnded(n)]
  /\ next' = [next EXCEPT !.pending = @ \ {n},
                          !.merged[n].conn = next.merged[n].ssh_port]
  /\ UNCHANGED <<config, stored, cloud, phase, work, spent>>

\* It joins one that failed: the others still under way are killed with it.
DeployErr(n) ==
  /\ phase = "deploy" /\ n \in next.pending
  /\ RemoteFails \/ ~DeployReaches(n)
  /\ Killed({}, next.pending)
  /\ remote'[n] \in IF DeployReaches(n) THEN DeployStopped(n) ELSE {remote[n]}
  /\ phase' = "launch"
  /\ cloud' = Fallback
  /\ next' = Idle
  /\ UNCHANGED <<config, stored, work, spent>>

\* update_db needs a mother sub-ID for every inbound.
HasSubids(s) == InboundNames(s.inbounds) \subseteq s.secrets.subids
Savable(c) == \A n \in DOMAIN c : HasSubids(c[n])

Saving == phase = "deploy" /\ next.pending = {}

SaveCloud ==
  /\ Saving
  /\ Savable(next.merged)
  /\ db' = Rows(next.merged)
  /\ unsaved' = {}
  /\ cloud' = next.merged
  /\ phase' = "launch"
  /\ next' = Idle
  /\ UNCHANGED <<config, remote, work, spent>>

\* Its statements take effect one by one.  First the rows of the servers that are
\* gone are deleted and the others written, of which those in kept are through; then
\* the inbounds of each server: those in done are through, and those of n up to part.
InboundsStored(n) == IF n \in DOMAIN db THEN db[n].inbounds ELSE {}
RowsStored(m, kept) ==
  [k \in kept \cup (DOMAIN db \cap DOMAIN m) |->
     IF k \in kept THEN [Row(m[k]) EXCEPT !.inbounds = InboundsStored(k)] ELSE db[k]]
InboundsDone(m, done, n, part) ==
  [k \in DOMAIN m |->
     [Row(m[k]) EXCEPT !.inbounds =
        IF k \in done THEN m[k].inbounds
        ELSE IF k = n
        THEN part \cup {i \in InboundsStored(n) :
                          i.name \in InboundNames(m[n].inbounds) \ InboundNames(part)}
        ELSE InboundsStored(k)]]

StopsInRows(m) == \E kept \in SUBSET DOMAIN m : db' = RowsStored(m, kept)
StopsInInbounds(m, n) ==
  \E done \in SUBSET {k \in DOMAIN m : HasSubids(m[k])},
     part \in SUBSET {i \in m[n].inbounds : i.name \in m[n].secrets.subids} :
    db' = InboundsDone(m, done, n, part)
SaveStops(m) ==
  db' = db \/ StopsInRows(m) \/ \E n \in DOMAIN m : StopsInInbounds(m, n)

\* It stops at a statement that fails, or at the first sub-ID that is missing, and
\* ends the daemon.
SaveCloudErr ==
  LET m == next.merged
  IN /\ Saving
     /\ \/ LocalFails /\ SaveStops(m)
        \/ \E n \in DOMAIN m : ~HasSubids(m[n]) /\ StopsInInbounds(m, n)
     /\ Die
     /\ UNCHANGED <<config, spent>>

\* A crash finds the database as it is, update_db halfway included; the marks that it
\* has not executed are lost.
Crash ==
  /\ phase # "down"
  /\ spent.crashes < MaxCrashes
  /\ Die
  /\ spent' = [spent EXCEPT !.crashes = @ + 1]
  /\ db' = db \/ (Saving /\ SaveStops(next.merged))
  /\ UNCHANGED config

\* Every enabled Production server gets its monitors, and needs a token for them.
ToMonitor == {n \in DOMAIN cloud : cloud[n].state = "Production" /\ cloud[n].enabled}

Launch ==
  /\ phase = "launch"
  /\ \A n \in ToMonitor : cloud[n].secrets.token
  /\ monitored' = ToMonitor
  /\ phase' = "running"
  /\ UNCHANGED <<world, cloud, next, tasks, copy, taskmap, queue, spent>>

LaunchErr ==
  /\ phase = "launch"
  /\ \E n \in ToMonitor : ~cloud[n].secrets.token
  /\ Die
  /\ UNCHANGED <<config, db, spent>>

----------------------------------------------------------------------------
(* The command loop. *)

Received(op) == phase = "running" /\ queue # <<>> /\ Head(queue).op = op

\* The command is answered and nothing else happens.
Answered == queue' = Tail(queue) /\ UNCHANGED <<world, cloud, phase, next, copy, monitored, spent>>

HandleShutdown ==
  /\ Received("Shutdown")
  /\ Die
  /\ UNCHANGED <<config, db, spent>>

Mode(op) == IF op \in {"Remap", "Rebase"} THEN op ELSE "Reload"
ReconOps == {"Reload", "TaskReload", "Remap", "Rebase"}

\* Whether check_and_backup may let the command through, and whether it may not.
CheckMayPass(cmd) ==
  /\ ParseOk(config)
  /\ cmd.op = "Rebase" =>
       RebaseDataMayPass(cloud, Parse(config, FreshIds), cmd.arg = "forced")
CheckMayFail(cmd) ==
  \/ ~ParseOk(config)
  \/ cmd.op = "Rebase" /\ RebaseDataMayFail(cloud, Parse(config, FreshIds), cmd.arg = "forced")

\* A task that asked for the Reload has its reply and ends.
Replied(cmd) ==
  [t \in Task |-> IF cmd.op = "TaskReload" /\ t = cmd.arg /\ tasks[t] = "reply"
                  THEN "none" ELSE tasks[t]]

ReconReceived == phase = "running" /\ queue # <<>> /\ Head(queue).op \in ReconOps

\* The new cloud is fixed here; tasks go on while the backup is made.
HandleRecon ==
  /\ ReconReceived
  /\ CheckMayPass(Head(queue))
  /\ phase' = "backup"
  /\ next' = Cycle(Mode(Head(queue).op), NoServers)
  /\ tasks' = Replied(Head(queue))
  /\ queue' = Tail(queue)
  /\ UNCHANGED <<world, cloud, copy, taskmap, monitored, spent>>

HandleReconRefused ==
  /\ ReconReceived
  /\ CheckMayFail(Head(queue))
  /\ Answered
  /\ tasks' = Replied(Head(queue))
  /\ UNCHANGED taskmap

\* create_backup cannot write a cloud without servers, and its error ends the daemon.
BackupErr ==
  /\ phase = "backup" /\ DOMAIN cloud = {}
  /\ Die
  /\ UNCHANGED <<config, db, spent>>

\* abort_all reaches the registered tasks only; the old cloud is the one in memory
\* now, with what the tasks have changed in it.
AbortedNone(t) == ~Running(t)
Aborted(t) == t \in taskmap \/ ~Running(t)

\* What mark_server_production and mark_server_offgrid make of the server in memory
\* and of its row.  The token stays in memory: it can be set only once.
MarkedServer(s, kind) ==
  IF kind = "FullSetup"
  THEN [s EXCEPT !.state = "Production", !.secrets.token = TRUE, !.conn = s.ssh_port]
  ELSE [s EXCEPT !.state = "Offgrid", !.conn = AnsiblePort]
MarkedRowNoToken(r, kind) ==
  [r EXCEPT !.state = IF kind = "FullSetup" THEN "Production" ELSE "Offgrid"]
MarkedRow(r, kind) ==
  IF kind = "FullSetup" THEN [r EXCEPT !.state = "Production", !.token = TRUE]
  ELSE [r EXCEPT !.state = "Offgrid", !.token = FALSE]

\* A statement that an aborted task was waiting for is executed all the same.  That
\* of a setup comes before that of the destruction of the same server.
Superseded(T) == T \cup {<<"FullSetup", t[2]>> : t \in {u \in T : u[1] = "DestroyServer"}}
Marked(T) ==
  [n \in DOMAIN db |->
     IF <<"DestroyServer", n>> \in T THEN MarkedRow(db[n], "DestroyServer")
     ELSE IF <<"FullSetup", n>> \in T THEN MarkedRow(db[n], "FullSetup")
     ELSE db[n]]
Saved(T) == db' = Marked(T) /\ unsaved' = unsaved \ Superseded(T)

EndCycle ==
  LET waiting == {t \in taskmap : tasks[t] = "save"}
  IN /\ phase = "backup" /\ DOMAIN cloud # {}
     /\ phase' = "reconcile"
     /\ next' = [next EXCEPT !.old = cloud]
     /\ tasks' = [t \in Task |-> IF Aborted(t) THEN "none" ELSE tasks[t]]
     /\ copy' = [t \in Task |-> IF Aborted(t) THEN NoText ELSE copy[t]]
     /\ Killed(taskmap, {})
     /\ \E T \in SUBSET waiting : (LocalFails \/ T = waiting) /\ Saved(T)
     /\ taskmap' = {}
     /\ monitored' = {}
     /\ UNCHANGED <<config, cloud, queue, spent>>

Expandable(n) ==
  /\ n \in DOMAIN cloud
  /\ cloud[n].state = "Offgrid" /\ cloud[n].enabled /\ ~cloud[n].secrets.token

\* One full setup at a time; one that has ended makes room.
SetupUnderWay == \E t \in taskmap : t[1] = "FullSetup" /\ Running(t)

HandleExpand ==
  LET n    == Head(queue).arg
      over == {t \in taskmap : t[1] = "FullSetup"}
  IN /\ Received("Expand")
     /\ Answered
     /\ IF Expandable(n) /\ ~SetupUnderWay
        THEN /\ tasks' = [t \in Task |-> IF t = <<"FullSetup", n>> THEN "run"
                                         ELSE IF t \in over THEN "none" ELSE tasks[t]]
             /\ taskmap' = (taskmap \ over) \cup {<<"FullSetup", n>>}
        ELSE UNCHANGED <<tasks, taskmap>>

DestroyableAny(n) ==
  n \in DOMAIN cloud /\ cloud[n].enabled /\ <<"DestroyServer", n>> \notin taskmap
Destroyable(n) ==
  /\ n \in DOMAIN cloud
  /\ cloud[n].state = "Production" /\ cloud[n].enabled
  /\ <<"DestroyServer", n>> \notin taskmap

HandleDestroy ==
  LET n == Head(queue).arg
  IN /\ Received("Destroy")
     /\ Answered
     /\ IF Destroyable(n)
        THEN /\ tasks' = [tasks EXCEPT ![<<"DestroyServer", n>>] = "run"]
             /\ taskmap' = taskmap \cup {<<"DestroyServer", n>>}
        ELSE UNCHANGED <<tasks, taskmap>>

\* A completed task asks whether another one is still under way: that one will
\* reload then.  Its entry goes first, so that two that are through never wait
\* for each other.
AnyRunning(t)    == \E u \in taskmap : Running(u)
OthersRunning(t) == \E u \in taskmap \ {t} : Running(u)

HandleSetupInquiry ==
  LET t == Head(queue).arg
  IN /\ Received("SetupInquiry")
     /\ Answered
     /\ taskmap' = taskmap \ {t}
     /\ tasks' = IF tasks[t] = "answer"
                 THEN [tasks EXCEPT ![t] = IF OthersRunning(t) THEN "none" ELSE "reload"]
                 ELSE tasks

----------------------------------------------------------------------------
(* full_setup and destroy_server. *)

Goes(t, from, to) == tasks[t] = from /\ tasks' = [tasks EXCEPT ![t] = to]

\* The playbook has succeeded.
RunOk(t) ==
  /\ Goes(t, "run", "mark")
  /\ Reached(t)
  /\ remote' = [remote EXCEPT ![t[2]] = Complete(t)]
  /\ UNCHANGED <<config, stored, cloud, phase, next, copy, taskmap, queue, monitored, spent>>

\* It has failed, or the server was not reached: the task ends and its entry stays.
RunErr(t) ==
  /\ Goes(t, "run", "ended")
  /\ \/ RemoteFails /\ Reached(t) /\ \E r \in Partial(t) : remote' = [remote EXCEPT ![t[2]] = r]
     \/ ~Reached(t) /\ UNCHANGED remote
  /\ UNCHANGED <<config, stored, cloud, phase, next, copy, taskmap, queue, monitored, spent>>

\* The mark functions change memory first and hand the statement to the database.
Mark(t) ==
  /\ Goes(t, "mark", "save")
  /\ cloud' = [cloud EXCEPT ![t[2]] = MarkedServer(@, t[1])]
  /\ unsaved' = unsaved \cup {t}
  /\ UNCHANGED <<config, db, remote, phase, next, copy, taskmap, queue, monitored, spent>>

\* The database executes statements in the order in which they came, while commands
\* are served.
First(t) == t[1] = "DestroyServer" => tasks[<<"FullSetup", t[2]>>] # "save"

SaveMark(t) ==
  /\ Goes(t, "save", "read")
  /\ First(t)
  /\ Saved({t})
  /\ UNCHANGED <<config, cloud, remote, phase, next, copy, taskmap, queue, monitored, spent>>

\* With its error the task ends: memory keeps the mark, the database never gets it.
SaveMarkErr(t) ==
  /\ LocalFails
  /\ Goes(t, "save", "ended")
  /\ First(t)
  /\ UNCHANGED <<world, cloud, phase, next, copy, taskmap, queue, monitored, spent>>

\* Then the config file, read and written back; one without servers is an error.
ReadConfig(t) ==
  /\ Goes(t, "read", IF DOMAIN config.servers = {} THEN "ended" ELSE "write")
  /\ copy' = [copy EXCEPT ![t] = IF DOMAIN config.servers = {} THEN NoText ELSE config]
  /\ UNCHANGED <<world, cloud, phase, next, taskmap, queue, monitored, spent>>

Rewritten(t) ==
  IF t[2] \in DOMAIN copy[t].servers
  THEN [copy[t] EXCEPT !.servers[t[2]].state =
          IF t[1] = "FullSetup" THEN "Production" ELSE "Offgrid"]
  ELSE copy[t]

\* A write that fails leaves the file as it was or empty; the files of the server
\* that are deleted afterwards can fail the task as well.
WriteConfig(t) ==
  /\ \/ Goes(t, "write", "inquire") /\ config' = Rewritten(t)
     \/ LocalFails /\ Goes(t, "write", "ended") /\ config' \in {config, NoText, Rewritten(t)}
  /\ copy' = [copy EXCEPT ![t] = NoText]
  /\ UNCHANGED <<cloud, stored, remote, phase, next, taskmap, queue, monitored, spent>>

SendInquiry(t) ==
  /\ Goes(t, "inquire", "answer")
  /\ queue' = Append(queue, [op |-> "SetupInquiry", arg |-> t])
  /\ UNCHANGED <<world, cloud, phase, next, copy, taskmap, monitored, spent>>

SendReload(t) ==
  /\ Goes(t, "reload", "reply")
  /\ queue' = Append(queue, [op |-> "TaskReload", arg |-> t])
  /\ UNCHANGED <<world, cloud, phase, next, copy, taskmap, monitored, spent>>

TaskStep(t) ==
  \/ RunOk(t) \/ RunErr(t) \/ Mark(t) \/ SaveMark(t) \/ SaveMarkErr(t)
  \/ ReadConfig(t) \/ WriteConfig(t) \/ SendInquiry(t) \/ SendReload(t)

----------------------------------------------------------------------------
Handle ==
  \/ HandleShutdown \/ HandleRecon \/ HandleReconRefused
  \/ HandleExpand \/ HandleDestroy \/ HandleSetupInquiry

Core ==
  \/ ReconcileErr \/ ReconcileOk \/ SaveCloud \/ SaveCloudErr
  \/ \E n \in Names : DeployOk(n) \/ DeployErr(n)
  \/ Launch \/ LaunchErr \/ Handle \/ BackupErr \/ EndCycle \/ LocalErr

Next ==
  \/ EditConfig
  \/ \E c \in Commands : Send(c)
  \/ Start \/ Crash
  \/ Core
  \/ \E t \in Task : TaskStep(t)

\* tokio runs every ready task, playbooks end, and the daemon takes what is in its
\* channel.  The operator, crashes and a new start are under no obligation.
Fairness == WF_vars(Core) /\ \A t \in Task : WF_vars(TaskStep(t))

Spec == Init /\ [][Next]_vars /\ Fairness

----------------------------------------------------------------------------
(* Properties. *)

\* The inquiry that daemon_core takes out of its channel is not of a task that was
\* aborted and has been started again since.  With an inquiry of that kind the new
\* task is unregistered while it runs, and its playbook outlives the cycle.
NoStaleInquiry ==
  Received("SetupInquiry") => tasks[Head(queue).arg] \notin {"run", "mark", "save"}

\* A record that carries a panel token, in memory or in the database, carries the
\* credentials last installed on its server, whatever was parsed, merged, retried or
\* cut short since: fill_secrets makes new ones at every parse, and only a full setup
\* installs them (reload_merge, remap_merge, rebase_merge, mark_server_production,
\* update_db).  After a destruction they are those that it has removed.
CredentialsInstalled ==
  /\ \A n \in DOMAIN cloud : cloud[n].secrets.token => cloud[n].secrets.id = remote[n].id
  /\ \A n \in DOMAIN db : db[n].token => db[n].id = remote[n].id

\* Whenever commands are served, the database holds the cloud in memory: what is
\* loaded after a crash is what was running.  A row lacks at most the mark of a task
\* that waits for the database or whose statement has failed, in this cycle or in an
\* earlier one, and differs from memory in nothing else; the token of a destroyed
\* server stays in memory until its Reload (update_db, load_cloud, the mark functions,
\* and the failures of reconcile_cloud that keep the old cloud).
SameRow(r, s) ==
  [r EXCEPT !.token = FALSE] = [Row(s) EXCEPT !.token = FALSE]
  /\ (s.state = "Production" => r.token = s.secrets.token)
DbMirrorsMemory ==
  phase \in {"launch", "running", "backup"} =>
    /\ DOMAIN db = DOMAIN cloud
    /\ \A n \in DOMAIN db :
         \/ SameRow(db[n], cloud[n])
         \/ \E kind \in {"FullSetup", "DestroyServer"} :
              <<kind, n>> \in unsaved /\ SameRow(MarkedRow(db[n], kind), cloud[n])

\* A Production server is taken back to Offgrid by its destruction or on the
\* operator's explicit word (Remap, Rebase), never by a Reload, whatever the config
\* file says: an edit from an old copy, a crash before the file was marked, or a
\* mark lost to another task's write cost nothing (reload_merge).  The row of a
\* destroyed server may get its mark late, with the next update_db.
Demoted(n) ==
  n \in DOMAIN db /\ n \in DOMAIN db' /\ db[n].state = "Production" /\ db'[n].state = "Offgrid"
ProductionKept ==
  [][\A n \in Names :
       Demoted(n) => next.mode \in {"Remap", "Rebase"} \/ <<"DestroyServer", n>> \in unsaved]_vars

\* No server is provisioned and destroyed at the same time (expand_cloud,
\* perform_server_destruction, abort_all).
PlaybooksApart ==
  \A n \in Names : ~(tasks[<<"FullSetup", n>>] = "run" /\ tasks[<<"DestroyServer", n>>] = "run")

\* A server that has become Production while the daemon runs gets its monitors,
\* unless a task has failed: of several tasks that complete in any order, each
\* asking whether another is still under way, one reloads (SetupInquiry,
\* full_setup, destroy_server).
Unmonitored(n) == phase = "running" /\ n \in ToMonitor \ monitored
Settled(n)     == phase = "down" \/ n \in monitored \/ n \notin ToMonitor
MonitorsFollow ==
  \A n \in Names :
    Unmonitored(n) ~> Settled(n) \/ \E t \in Task : tasks[t] = "ended"

\* The same whatever becomes of the other task: "Daemon Reload will be left to the
\* last running full setup or destruction task" (full_setup).
ReloadMade == \A n \in Names : Unmonitored(n) ~> Settled(n)

\* Whenever commands are served, the daemon knows the SSH port of every Production
\* server that is not being destroyed: a failed Rebase can be repeated
\* (AnsibleAction::SSH, deploy_rebase).
NotLockedOut ==
  phase = "running" =>
    \A n \in DOMAIN cloud :
      cloud[n].state = "Production" /\ ~Running(<<"DestroyServer", n>>)
        => cloud[n].conn = remote[n].port

\* The clouds that are served give every server a domain of its own (the comment in
\* reconcile_cloud: "Domains and IPs must be unique in the merged cloud").
DomainsUnique ==
  phase = "running" =>
    \A m, n \in DOMAIN cloud : cloud[m].domain = cloud[n].domain => m = n

\* A Rebase leaves the inbounds of a disabled server as they are (rebase_merge,
\* deploy_rebase).
DisabledSkipped ==
  [][\A n \in DOMAIN next.merged :
       ~next.merged[n].enabled /\ phase = "deploy" => remote'[n] = remote[n]]_vars
=============================================================================
