------------------------------ MODULE Control -------------------------------
(***************************************************************************)
(* The daemon between its clients and its monitors: socket connections and *)
(* the signal watcher put requests into one bounded channel, daemon_core   *)
(* takes them one at a time through its cycles, asks the monitors, and the *)
(* monitors hand their statuses to the aggregator, which writes them to    *)
(* the stats table in batches.  What a cycle does to the cloud is in       *)
(* Daemon, what a check does to a status in FixActions; here a status is   *)
(* its place in the order in which statuses were made.                     *)
(***************************************************************************)
EXTENDS Naturals, Sequences, SequencesExt, FiniteSets

CONSTANTS
  Client,       \* socket connections
  Svc,          \* monitored services
  QueueCap,     \* capacity of the daemon channel
  Signals,      \* what the signals sent ask for: Shutdown, Reload
  MaxRequests, MaxSignals, MaxClock,   \* bounds on what the environment does
  Faults        \* TRUE: the database and the start of a cycle may fail

Watcher   == "sigx_watcher"
Nobody    == "aborted watcher"
Requester == Client \cup {Watcher}

ASSUME ControlAssumption ==
  /\ IsFiniteSet(Svc) /\ QueueCap \in Nat \ {0}
  /\ Client \cap {Watcher, Nobody} = {}
  /\ Signals \subseteq {"Shutdown", "Reload"}
  /\ MaxRequests \in Nat /\ MaxSignals \in Nat /\ MaxClock \in Nat
  /\ Faults \in BOOLEAN

\* DaemonComm: Reload also stands for Remap and Rebase, Report for the commands
\* that only answer or start a task (Expand, Credentials, Clients, Destroy).
Recon == {"Reload", "Restart"}
Op    == Recon \cup {"Shutdown", "Status", "ResetFix", "Report", "Unknown"}

VARIABLES
  phase,     \* where daemonize is
  queue,     \* the daemon channel, which lives as long as the process
  req,       \* state of each connection, and of the signal watcher
  op,        \* the command each of them is sending
  handler,   \* the process has replaced the default action of the signals
  svc,       \* state of each monitoring task
  inbox,     \* ResetFix messages in the channel of each monitor
  entry,     \* the status each monitor holds
  result,    \* the result of a check on its way to the monitor, 0 for none
  sent,      \* history: the status of each monitor last handed to the aggregator
  aggr,      \* the aggregator task
  channel,   \* the aggregator's channel
  batch,     \* stats_vec
  row,       \* the stats table
  clock,     \* number of statuses made so far
  nreq, nsig

requests == <<queue, req, op, handler, nreq, nsig>>
stats    == <<svc, inbox, entry, result, sent, aggr, channel, batch, row, clock>>
vars     == <<phase, requests, stats>>

Up     == phase \notin {"ending", "down"}
Status == [svc : Svc, at : 0..MaxClock]

Init ==
  /\ phase = "prereq"
  /\ queue = <<>>
  /\ req = [r \in Requester |-> "none"] /\ op = [r \in Requester |-> "Unknown"]
  /\ handler = FALSE
  /\ svc = [s \in Svc |-> "none"] /\ inbox = [s \in Svc |-> 0]
  /\ entry = [s \in Svc |-> 0] /\ row = [s \in Svc |-> 0]
  /\ result = [s \in Svc |-> 0] /\ sent = [s \in Svc |-> 0]
  /\ aggr = "none" /\ channel = <<>> /\ batch = <<>>
  /\ clock = 0 /\ nreq = 0 /\ nsig = 0

-----------------------------------------------------------------------------
\* The requesters.

\* socket_listener accepts a connection and reads one command from it.
Connect(c, o) ==
  /\ Up /\ nreq < MaxRequests
  /\ req[c] = "none"
  /\ req' = [req EXCEPT ![c] = "sending"] /\ op' = [op EXCEPT ![c] = o]
  /\ nreq' = nreq + 1
  /\ UNCHANGED <<phase, queue, handler, nsig, stats>>

\* tx.send waits for a place in the channel.
Enqueue(r) ==
  /\ phase # "down"
  /\ req[r] = "sending" /\ Len(queue) < QueueCap
  /\ queue' = Append(queue, [from |-> r, op |-> op[r]])
  /\ req' = [req EXCEPT ![r] = "waiting"] /\ op' = [op EXCEPT ![r] = "Unknown"]
  /\ UNCHANGED <<phase, handler, nreq, nsig, stats>>

\* The connection's task has its reply, writes it to the socket and ends.
WriteReply(c) ==
  /\ req[c] = "replying"
  /\ req' = [req EXCEPT ![c] = "none"]
  /\ UNCHANGED <<phase, queue, op, handler, nreq, nsig, stats>>

\* abort_all drops the monitors and the aggregator with their channels and
\* whatever they have not written.
AbortStatsKeepsChannel ==
  /\ svc' = [s \in Svc |-> "none"] /\ inbox' = [s \in Svc |-> 0]
  /\ entry' = [s \in Svc |-> 0] /\ result' = [s \in Svc |-> 0] /\ sent' = [s \in Svc |-> 0]
  /\ aggr' = "none"
  /\ UNCHANGED <<channel, batch, row, clock>>
AbortStats ==
  /\ svc' = [s \in Svc |-> "none"] /\ inbox' = [s \in Svc |-> 0]
  /\ entry' = [s \in Svc |-> 0] /\ result' = [s \in Svc |-> 0] /\ sent' = [s \in Svc |-> 0]
  /\ aggr' = "none" /\ channel' = <<>> /\ batch' = <<>>
  /\ UNCHANGED <<row, clock>>

\* The process ends, with an error that daemon_core passes on, by a signal or
\* after Shutdown: its sockets are closed, its memory is lost.
Die ==
  /\ phase' = "down"
  /\ queue' = <<>>
  /\ req' = [r \in Requester |-> "none"]
  /\ op' = [r \in Requester |-> "Unknown"]
  /\ AbortStats
  /\ UNCHANGED <<handler, nreq>>

\* sigx_watcher takes the first signal of its cycle: SIGINT and SIGTERM become
\* Shutdown, SIGHUP becomes Reload.  A signal without a watcher is lost once
\* the first watcher has replaced its default action.
Signal(o) ==
  /\ phase # "down" /\ nsig < MaxSignals
  /\ nsig' = nsig + 1
  /\ \/ /\ req[Watcher] = "armed"
        /\ req' = [req EXCEPT ![Watcher] = "sending"] /\ op' = [op EXCEPT ![Watcher] = o]
        /\ UNCHANGED <<phase, queue, handler, nreq, stats>>
     \/ /\ req[Watcher] # "armed" /\ handler
        /\ UNCHANGED <<phase, queue, req, op, handler, nreq, stats>>
     \/ ~handler /\ Die

-----------------------------------------------------------------------------
\* The cycles.

\* check_prereq, at the start of the process and in a Restart.
CheckPrereq ==
  /\ phase = "prereq"
  /\ phase' = "prepare"
  /\ UNCHANGED <<requests, stats>>

\* prepare_runtime and the watcher of the new cycle.
Prepare ==
  /\ phase = "prepare"
  /\ phase' = "reconcile"
  /\ req' = [req EXCEPT ![Watcher] = "armed"] /\ handler' = TRUE
  /\ UNCHANGED <<queue, op, nreq, nsig, stats>>

\* The aggregator and the monitors are spawned.
Launch ==
  /\ phase = "reconcile"
  /\ phase' = "serving"
  /\ svc' = [s \in Svc |-> "starting"]
  /\ aggr' = "running"
  /\ UNCHANGED <<requests, inbox, entry, result, sent, channel, batch, row, clock>>

\* An error in check_prereq, parse_cloud_config, create_db, load_cloud,
\* update_db or new_xui_client.
StartErr ==
  /\ Faults /\ phase \in {"prereq", "prepare", "reconcile"}
  /\ Die /\ UNCHANGED nsig

\* abort_all also aborts the watcher: a request it has sent stays in the channel,
\* one it is still sending is lost.
OrphanedNewChannel(q) == <<>>
Orphaned(q) == [i \in DOMAIN q |-> [q[i] EXCEPT !.from = IF @ = Watcher THEN Nobody ELSE @]]

\* The receiver's answer reaches whoever waits for it.
Reply(r) ==
  IF r \in Client THEN [req EXCEPT ![r] = "replying"]
  ELSE IF r = Watcher THEN [req EXCEPT ![r] = "ended"] ELSE req

\* The reply channel is dropped: the connection closes, the watcher ends.
Dropped(r) ==
  IF r \in Client THEN [req EXCEPT ![r] = "none"]
  ELSE IF r = Watcher THEN [req EXCEPT ![r] = "ended"] ELSE req

Serves(ops) == phase = "serving" /\ queue # <<>> /\ Head(queue).op \in ops
Answer ==
  /\ req' = Reply(Head(queue).from) /\ queue' = Tail(queue)
  /\ UNCHANGED <<op, handler, nreq, nsig>>

HandleShutdown ==
  /\ Serves({"Shutdown"})
  /\ phase' = "ending"
  /\ req' = [Reply(Head(queue).from) EXCEPT ![Watcher] = "none"]
  /\ queue' = Orphaned(Tail(queue))
  /\ op' = [op EXCEPT ![Watcher] = "Unknown"]
  /\ AbortStats
  /\ UNCHANGED <<handler, nreq, nsig>>

\* daemonize leaves its loop, cleans up and returns.
End == phase = "ending" /\ Die /\ UNCHANGED nsig

\* Status asks the monitors in turn; one that has ended cannot be asked, and the
\* error ends the daemon.  One that still reads its row answers after it.
HandleStatus ==
  /\ Serves({"Status"})
  /\ \/ (\A s \in Svc : svc[s] = "running") /\ Answer /\ UNCHANGED <<phase, stats>>
     \/ (\E s \in Svc : svc[s] = "dead") /\ Die /\ UNCHANGED nsig

\* ResetFix only sends, but not to a monitor that has ended.
HandleResetFix ==
  /\ Serves({"ResetFix"})
  /\ \/ /\ \A s \in Svc : svc[s] # "dead"
        /\ inbox' = [s \in Svc |-> inbox[s] + 1]
        /\ Answer
        /\ UNCHANGED <<phase, svc, entry, result, sent, aggr, channel, batch, row, clock>>
     \/ (\E s \in Svc : svc[s] = "dead") /\ Die /\ UNCHANGED nsig

HandleReport ==
  /\ Serves({"Report"})
  /\ Answer
  /\ UNCHANGED <<phase, stats>>

HandleUnknown ==
  /\ Serves({"Unknown"})
  /\ req' = Dropped(Head(queue).from) /\ queue' = Tail(queue)
  /\ UNCHANGED <<phase, op, handler, nreq, nsig, stats>>

\* check_and_backup refuses: the error goes to the requester.
HandleReconRefused ==
  /\ Serves(Recon)
  /\ Answer
  /\ UNCHANGED <<phase, stats>>

\* check_and_backup accepts: all tasks are aborted and the cycle ends.
HandleRecon ==
  /\ Serves(Recon)
  /\ phase' = IF Head(queue).op = "Restart" THEN "prereq" ELSE "prepare"
  /\ req' = [Reply(Head(queue).from) EXCEPT ![Watcher] = "none"]
  /\ queue' = Orphaned(Tail(queue))
  /\ op' = [op EXCEPT ![Watcher] = "Unknown"]
  /\ AbortStats
  /\ UNCHANGED <<handler, nreq, nsig>>

\* The backup fails and daemon_core returns the error.
HandleReconErr ==
  /\ Faults /\ Serves(Recon)
  /\ Die /\ UNCHANGED nsig

-----------------------------------------------------------------------------
\* Monitors and aggregator.

\* run_svc_monitor starts from the row of its service, or ends without one.
MonitorStarts(s) ==
  /\ svc[s] = "starting"
  /\ \/ /\ svc' = [svc EXCEPT ![s] = "running"]
        /\ entry' = [entry EXCEPT ![s] = row[s]] /\ sent' = [sent EXCEPT ![s] = row[s]]
     \/ Faults /\ svc' = [svc EXCEPT ![s] = "dead"] /\ UNCHANGED <<entry, sent>>
  /\ UNCHANGED <<phase, requests, inbox, result, aggr, channel, batch, row, clock>>

\* A new status of s goes to the aggregator.
Make(s) ==
  /\ clock < MaxClock /\ clock' = clock + 1
  /\ channel' = Append(channel, [svc |-> s, at |-> clock'])
  /\ sent' = [sent EXCEPT ![s] = clock']
  /\ UNCHANGED <<phase, requests, aggr, batch, row>>

\* A check hands its result to the aggregator first (a check whose send fails ends there,
\* and the monitor keeps its entry) ...
CheckSends(s) ==
  /\ svc[s] = "running" /\ aggr = "running"
  /\ result[s] = 0
  /\ Make(s)
  /\ result' = [result EXCEPT ![s] = clock']
  /\ UNCHANGED <<svc, inbox, entry>>

\* ... and then to the monitor, which replaces its entry with it.
CheckReturns(s) ==
  /\ result[s] # 0
  /\ entry' = [entry EXCEPT ![s] = result[s]]
  /\ result' = [result EXCEPT ![s] = 0]
  /\ UNCHANGED <<phase, requests, svc, inbox, sent, aggr, channel, batch, row, clock>>

\* The monitor's ResetFix, which may fall between a check's two sends; without an
\* aggregator the monitor ends, and its JoinSet aborts the check.
MonitorResets(s) ==
  /\ svc[s] = "running" /\ inbox[s] > 0
  /\ inbox' = [inbox EXCEPT ![s] = @ - 1]
  /\ \/ /\ aggr = "running" /\ Make(s)
        /\ entry' = [entry EXCEPT ![s] = clock']
        /\ UNCHANGED <<svc, result>>
     \/ /\ aggr = "dead" /\ svc' = [svc EXCEPT ![s] = "dead"]
        /\ result' = [result EXCEPT ![s] = 0]
        /\ UNCHANGED <<phase, requests, entry, sent, aggr, channel, batch, row, clock>>

\* The rows after the first n updates of a batch: the last one of each service.
Updates(b, n, s) == {i \in 1..n : b[i].svc = s}
Written(b, n) ==
  [s \in Svc |-> IF Updates(b, n, s) = {} THEN row[s] ELSE b[Max(Updates(b, n, s))].at]

\* write_status_data has no transaction: an error leaves the rows it has updated
\* and ends the aggregator, which drops its channel.
Write(b) ==
  \/ row' = Written(b, Len(b)) /\ batch' = <<>> /\ UNCHANGED aggr
  \/ /\ Faults /\ \E n \in 0 .. Len(b) - 1 : row' = Written(b, n)
     /\ batch' = <<>> /\ aggr' = "dead"

\* run_aggregator: a batch is full when it has one status for each service.
FullLate(b) == Len(b) > Cardinality(Svc)
Full(b) == Len(b) >= Cardinality(Svc)

Aggregate ==
  /\ aggr = "running" /\ channel # <<>>
  /\ LET b == Append(batch, Head(channel)) IN
       \/ Full(b) /\ Write(b)
       \/ ~Full(b) /\ batch' = b /\ UNCHANGED <<row, aggr>>
  /\ channel' = IF aggr' = "dead" THEN <<>> ELSE Tail(channel)
  /\ UNCHANGED <<phase, requests, svc, inbox, entry, result, sent, clock>>

\* The ticker of the aggregator: what there is, is written.
TickWaitsForAll ==
  /\ aggr = "running" /\ Full(batch)
  /\ Write(batch)
  /\ channel' = IF aggr' = "dead" THEN <<>> ELSE channel
  /\ UNCHANGED <<phase, requests, svc, inbox, entry, result, sent, clock>>
Tick ==
  /\ aggr = "running" /\ batch # <<>>
  /\ Write(batch)
  /\ channel' = IF aggr' = "dead" THEN <<>> ELSE channel
  /\ UNCHANGED <<phase, requests, svc, inbox, entry, result, sent, clock>>

-----------------------------------------------------------------------------

Core ==
  \/ CheckPrereq \/ Prepare \/ Launch \/ StartErr
  \/ HandleShutdown \/ HandleStatus \/ HandleResetFix \/ HandleReport
  \/ HandleUnknown \/ HandleRecon \/ HandleReconRefused \/ HandleReconErr
  \/ End

Request(r)  == Enqueue(r) \/ (r \in Client /\ WriteReply(r))
Monitor(s)  == MonitorStarts(s) \/ MonitorResets(s) \/ CheckReturns(s)

Next ==
  \/ \E c \in Client, o \in Op : Connect(c, o)
  \/ \E o \in Signals : Signal(o)
  \/ \E r \in Requester : Request(r)
  \/ Core
  \/ \E s \in Svc : Monitor(s) \/ CheckSends(s)
  \/ Aggregate \/ Tick

\* tokio polls every task that is ready, a cycle's start ends one way or the
\* other, and the ticker always comes again.  The environment owes nothing.
Fairness ==
  /\ WF_vars(Core) /\ WF_vars(Aggregate) /\ WF_vars(Tick)
  /\ \A r \in Requester : WF_vars(Request(r))
  /\ \A s \in Svc : WF_vars(Monitor(s))

Spec == Init /\ [][Next]_vars /\ Fairness

-----------------------------------------------------------------------------

TypeOK ==
  /\ phase \in {"prereq", "prepare", "reconcile", "serving", "ending", "down"}
  /\ queue \in Seq([from : Requester \cup {Nobody}, op : Op]) /\ Len(queue) <= QueueCap
  /\ \A c \in Client : req[c] \in {"none", "sending", "waiting", "replying"}
  /\ req[Watcher] \in {"none", "armed", "sending", "waiting", "ended"}
  /\ op \in [Requester -> Op] /\ handler \in BOOLEAN
  /\ svc \in [Svc -> {"none", "starting", "running", "dead"}]
  /\ inbox \in [Svc -> 0..MaxRequests]
  /\ entry \in [Svc -> 0..MaxClock] /\ row \in [Svc -> 0..MaxClock]
  /\ result \in [Svc -> 0..MaxClock] /\ sent \in [Svc -> 0..MaxClock]
  /\ aggr \in {"none", "running", "dead"}
  /\ channel \in Seq(Status) /\ batch \in Seq(Status)
  /\ batch = <<>> \/ Len(batch) < Cardinality(Svc)
  /\ clock \in 0..MaxClock
  /\ nreq \in 0..MaxRequests /\ nsig \in 0..MaxSignals

\* Every connection ends: it gets its reply or is closed, through any number of
\* cycles, with the channel full, and when the daemon dies over another request.
RequestsEnd ==
  \A c \in Client : req[c] # "none" ~> req[c] = "none"

\* A Shutdown that has reached the channel ends the daemon, also when a command
\* before it ends the cycle and aborts the watcher that sent it.
ShutdownTakes ==
  (\E i \in DOMAIN queue : queue[i].op = "Shutdown") ~> (phase = "down")

\* While both run, the status a monitor last handed over is in the stats table or on its
\* way there, and the monitor holds none that is newer: no batch, flush or cycle loses or
\* reverts a status.  The monitor may hold an older one: the result of a check replaces
\* the entry of a ResetFix that was handed over after it.
StatusKept ==
  \A s \in Svc :
    svc[s] = "running" /\ aggr = "running" =>
      /\ entry[s] <= sent[s]
      /\ \/ row[s] = sent[s]
         \/ [svc |-> s, at |-> sent[s]] \in Range(batch) \cup Range(channel)

\* The stats table catches up with every monitor, also when other services never
\* report and the batch does not fill, unless the cycle ends or the aggregator
\* has crashed.
StatusWritten ==
  \A s \in Svc :
    (svc[s] = "running" /\ row[s] < entry[s])
      ~> (row[s] >= entry[s] \/ phase # "serving" \/ aggr = "dead")

-----------------------------------------------------------------------------
\* What the documents say and the code does not do.

\* "Flush to the DB immediately": what ResetFix flushes is what the monitor goes on with,
\* so that a table that has caught up shows the monitor's own status.
RowIsEntry ==
  \A s \in Svc :
    svc[s] = "running" /\ aggr = "running" /\ result[s] = 0 /\ batch = <<>> /\ channel = <<>>
      => row[s] = entry[s]

\* sigx_watcher "Watches for SIGINT, SIGTERM & SIGHUP signals and sends them to
\* the daemon core": a SIGTERM ends the daemon.
SigtermTakes == (nsig > 0) ~> (phase = "down")

\* A status report can say "Task '{}' has crashed.": asking for the status while
\* a monitor has crashed gets an answer.
CrashReported ==
  [][(Serves({"Status"}) /\ queue' # queue) => phase' # "down"]_vars
=============================================================================
