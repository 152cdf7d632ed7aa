---------------------------- MODULE FixActions ----------------------------
(***************************************************************************)
(* The service monitors of one Production server and the corrective        *)
(* actions they take (src/src/cloud/service.rs).                           *)
(*                                                                         *)
(* Every service (SSH, Nginx, each Xray inbound, and the supervisor that   *)
(* stands for all inbounds) has a monitor task, run_svc_monitor.  At each  *)
(* interval the monitor clones its SvcEntry and spawns a check of it; the  *)
(* check probes the service, handle_response decides what the outcome      *)
(* means and may spawn a fix (an Ansible run) whose JoinHandle is kept in  *)
(* the shared action_map, and the new SvcEntry then travels back to the    *)
(* monitor.  An operator's ResetFix is handled by the monitor itself, also *)
(* while a check is under way.                                             *)
(*                                                                         *)
(* Abstractions.  Only the parts of an entry that decisions read are kept: *)
(* health, failed_count (which saturates at FixThreshold, the only value   *)
(* it is compared with besides zero) and fix_try.  The network is a set of *)
(* endpoints that are up.  handle_response is one step: action_map[s] is   *)
(* written by the one check of s and by the monitor of s only.  A check    *)
(* ends before the next interval (MIN_MON_INTERVAL is three times          *)
(* SVC_TIMEOUT), so a tick never finds an undelivered result.  The         *)
(* aggregator, to which every check hands its result first, may have died  *)
(* of a DB error: nothing restarts it before the daemon's next cycle.      *)
(***************************************************************************)
EXTENDS Naturals

CONSTANTS
  Inbounds,      \* names of the server's Xray inbounds, the supervisor excluded
  Watched,       \* services whose monitors run; the others stay healthy and idle
  AutoFix,       \* settings.auto_fix
  FixThreshold,  \* settings.fix_threshold (0 acts as 1: it is compared after an increment)
  RunsCanFail,   \* whether AnsibleRun::run may return Err (no SSH login, no auth file, ...)
  AggCanDie,     \* whether the aggregator may end on a failed write to the stats table
  MaxResets,     \* bound: ResetFix commands the monitors handle
  FixCap         \* bound: fixes counted between two recoveries (read by FixBudget only)

Ssh   == "Ssh"
Nginx == "Nginx"
Super == "super"

\* A cloud rejects an inbound named after the supervisor (parse_cloud_config).
ASSUME FixAssumption ==
  /\ Inbounds \cap {Ssh, Nginx, Super} = {}
  /\ Watched \subseteq {Ssh, Nginx, Super} \cup Inbounds
  /\ AutoFix \in BOOLEAN
  /\ RunsCanFail \in BOOLEAN
  /\ AggCanDie \in BOOLEAN
  /\ FixThreshold \in Nat \ {0}
  /\ MaxResets \in Nat
  /\ FixCap \in Nat
  /\ ~RunsCanFail => FixCap > 2 * (MaxResets + 1)

Endpoints == {Ssh, Nginx} \cup Inbounds
Services  == Endpoints \cup {Super}
Fixable   == {Nginx, Super}

SvcHealth == {"Ok", "Sick", "Unknown"}
SvcStatus == [health: SvcHealth, failed_count: 0..FixThreshold, fix_try: 0..2]

Fresh   == [health |-> "Unknown", failed_count |-> 0, fix_try |-> 0]
Healthy == [health |-> "Ok", failed_count |-> 0, fix_try |-> 0]

AnsibleAction == {"NginxRestart", "NginxRestoreConfig", "XrayRestart", "XrayRestoreDB"}

\* The fix tried when fix_try = n for service s.
FixLevel(s, n) ==
  IF s = Nginx
  THEN IF n = 0 THEN "NginxRestart" ELSE "NginxRestoreConfig"
  ELSE IF n = 0 THEN "XrayRestart" ELSE "XrayRestoreDB"

\* DashAction.fix_action: None, or the handle of a task that runs or has ended.
NoFix      == [action |-> "none", state |-> "none"]
FixHandle  == {NoFix} \cup [action: AnsibleAction, state: {"running", "ok", "err"}]
DashAction == [svc_health: SvcHealth, fix_try: 0..2, fix_action: FixHandle]

Phase == {"none", "probing", "probed", "handled", "sent"}
Check == [phase: Phase, ok: BOOLEAN, status: SvcStatus]
Idle  == [phase |-> "none", ok |-> FALSE, status |-> Fresh]

VARIABLES
  up,          \* endpoints that answer a probe
  entry,       \* the monitors' SvcChecker.entry.status
  check,       \* the spawned check of each service and the entry it carries
  saved,       \* the status of each service last handed to the aggregator
  aggregating, \* whether the aggregator task still receives
  ended,       \* services whose monitor task has returned
  action_map,  \* the shared registry: health, fix_try and fix handle per service
  orphans,     \* fixes still running whose handle was dropped from action_map
  backup,      \* x-ui DB backups of the server: none, the first under way, some
  resets,      \* ResetFix commands handled so far
  tried,       \* history: fixes spawned since the last recovery or reset
  nfix         \* history: how many fixes spawned since the last recovery

fixes == <<orphans, tried, nfix>>
tasks == <<aggregating, ended>>
vars  == <<up, entry, check, saved, tasks, action_map, backup, resets, fixes>>

TypeOK ==
  /\ up \subseteq Endpoints
  /\ entry \in [Services -> SvcStatus]
  /\ check \in [Services -> Check]
  /\ saved \in [Services -> SvcStatus]
  /\ aggregating \in BOOLEAN
  /\ ended \subseteq Services
  /\ action_map \in [Services -> DashAction]
  /\ \A s \in Services \ Fixable : action_map[s].fix_action = NoFix
  /\ orphans \in [Services -> SUBSET AnsibleAction]
  /\ backup \in {"none", "pending", "some"}
  /\ resets \in 0..MaxResets
  /\ tried \in [Services -> SUBSET AnsibleAction]
  /\ nfix \in [Services -> 0..FixCap]

----------------------------------------------------------------------------
\* The rows a previous daemon cycle can have left in the stats table.
StoredRow(s) ==
  {Fresh, Healthy} \cup
  [health: {"Sick"}, failed_count: 1..FixThreshold - 1, fix_try: {0}] \cup
  [health: {"Sick"}, failed_count: {FixThreshold},
   fix_try: IF s = Ssh THEN {1} ELSE 0..2]

\* run_svc_monitor reads the row, copies it to action_map and has no check yet.
Init ==
  /\ up = Endpoints
  /\ entry \in [Services -> SvcStatus]
  /\ \A s \in Services : entry[s] \in IF s \in Watched THEN StoredRow(s) ELSE {Healthy}
  /\ check = [s \in Services |-> Idle]
  /\ saved = entry
  /\ aggregating = TRUE
  /\ ended = {}
  /\ action_map = [s \in Services |->
       [svc_health |-> entry[s].health, fix_try |-> entry[s].fix_try, fix_action |-> NoFix]]
  /\ orphans = [s \in Services |-> {}]
  /\ backup \in IF Super \in Watched THEN {"none", "some"} ELSE {"none"}
  /\ resets = 0
  /\ tried = [s \in Services |->
       IF s \in Fixable THEN {FixLevel(s, n) : n \in 0..entry[s].fix_try - 1} ELSE {}]
  /\ nfix = [s \in Services |-> 0]

----------------------------------------------------------------------------
(* Environment: an endpoint fails or recovers, by itself or thanks to a fix. *)

EndpointFlips(s) ==
  /\ up' = IF s \in up THEN up \ {s} ELSE up \cup {s}
  /\ UNCHANGED <<entry, check, saved, action_map, tasks, backup, resets, fixes>>

----------------------------------------------------------------------------
(* The monitor and its check, up to the outcome of the probe. *)

\* The interval has arrived and the prior check has completed.
Tick(s) ==
  /\ s \notin ended
  /\ check[s].phase = "none"
  /\ check' = [check EXCEPT ![s] = [phase |-> "probing", ok |-> FALSE, status |-> entry[s]]]
  /\ UNCHANGED <<up, entry, saved, action_map, tasks, backup, resets, fixes>>

\* The supervisor is healthy when no inbound is recorded as anything but Ok.
CheckService(s) ==
  IF s = Super THEN \A i \in Inbounds : action_map[i].svc_health = "Ok" ELSE s \in up

Probe(s) ==
  /\ check[s].phase = "probing"
  /\ check' = [check EXCEPT ![s].phase = "probed", ![s].ok = CheckService(s)]
  /\ UNCHANGED <<up, entry, saved, action_map, tasks, backup, resets, fixes>>

----------------------------------------------------------------------------
(* handle_response *)

\* Dropping the handle of a running task detaches it; the task goes on.
Orphaned(s) ==
  IF action_map[s].fix_action.state = "running"
  THEN orphans[s] \cup {action_map[s].fix_action.action}
  ELSE orphans[s]

Handled(s, st) ==
  check' = [check EXCEPT ![s].phase = "handled", ![s].status = st]

Spawn(s, a) ==
  /\ tried' = [tried EXCEPT ![s] = @ \cup {a}]
  /\ nfix' = [nfix EXCEPT ![s] = IF @ < FixCap THEN @ + 1 ELSE @]
  /\ UNCHANGED orphans

ForgivenBoth(st) == IF st.failed_count > 0 /\ st.health # "Ok" THEN Healthy ELSE st

\* Ok resets the status, unless there is nothing to reset.
Forgiven(st) == IF st.failed_count > 0 \/ st.health # "Ok" THEN Healthy ELSE st

Recovered(s) ==
  /\ tried' = [tried EXCEPT ![s] = {}]
  /\ nfix' = [nfix EXCEPT ![s] = 0]

RegistryOkKeepsFix(s) ==
  [svc_health |-> "Ok", fix_try |-> 0, fix_action |-> action_map[s].fix_action]
RegistryOk(s) == [svc_health |-> "Ok", fix_try |-> 0, fix_action |-> NoFix]

\* Ok, for every service but the supervisor: the registry entry is overwritten.
HandleOk(s) ==
  /\ check[s].phase = "probed" /\ check[s].ok
  /\ s # Super
  /\ Handled(s, Forgiven(check[s].status))
  /\ action_map' = [action_map EXCEPT ![s] = RegistryOk(s)]
  /\ orphans' = [orphans EXCEPT ![s] = Orphaned(s)]
  /\ Recovered(s)
  /\ UNCHANGED <<up, entry, saved, tasks, backup, resets>>

HandleSuperOkDrops ==
  /\ check[Super].phase = "probed" /\ check[Super].ok
  /\ Handled(Super, Forgiven(check[Super].status))
  /\ action_map' = [action_map EXCEPT ![Super] = RegistryOk(Super)]
  /\ orphans' = [orphans EXCEPT ![Super] = Orphaned(Super)]
  /\ Recovered(Super)
  /\ UNCHANGED <<up, entry, saved, tasks, backup, resets>>

\* Ok, for the supervisor: the registry is left alone and the x-ui DB is backed
\* up by a task of its own.
HandleSuperOk ==
  /\ check[Super].phase = "probed" /\ check[Super].ok
  /\ Handled(Super, Forgiven(check[Super].status))
  /\ backup' = IF backup = "some" THEN "some" ELSE "pending"
  /\ Recovered(Super)
  /\ UNCHANGED <<up, entry, saved, tasks, action_map, orphans, resets>>

\* Err: one more failed interval.
Sick(st) ==
  [st EXCEPT !.health = "Sick",
             !.failed_count = IF @ < FixThreshold THEN @ + 1 ELSE @]

Failed(s) == check[s].phase = "probed" /\ ~check[s].ok
FixDue(s) == AutoFix /\ Sick(check[s].status).failed_count >= FixThreshold

\* Err, no corrective action yet or none wanted.
HandleErr(s) ==
  /\ Failed(s) /\ ~FixDue(s)
  /\ Handled(s, Sick(check[s].status))
  /\ action_map' = [action_map EXCEPT ![s].svc_health = "Sick"]
  /\ UNCHANGED <<up, entry, saved, tasks, backup, resets, fixes>>

SshTryCounts == check[Ssh].status.fix_try + 1
SshTry == 1

\* Err of SSH: nothing can be done remotely.
HandleSshErr ==
  /\ Failed(Ssh) /\ FixDue(Ssh)
  /\ Handled(Ssh, [Sick(check[Ssh].status) EXCEPT !.fix_try = SshTry])
  /\ action_map' = [action_map EXCEPT ![Ssh] =
       [svc_health |-> "Sick", fix_try |-> SshTry, fix_action |-> NoFix]]
  /\ UNCHANGED <<up, entry, saved, tasks, backup, resets, fixes>>

\* Err of an inbound: its fix_try follows the supervisor's registry entry.
HandleInboundErr(s) ==
  /\ s \in Inbounds
  /\ Failed(s) /\ FixDue(s)
  /\ Handled(s, [Sick(check[s].status) EXCEPT !.fix_try = action_map[Super].fix_try])
  /\ action_map' = [action_map EXCEPT ![s] =
       [svc_health |-> "Sick", fix_try |-> action_map[Super].fix_try, fix_action |-> NoFix]]
  /\ UNCHANGED <<up, entry, saved, tasks, backup, resets, fixes>>

\* A fix of s can be considered: what it depends on is recorded as healthy
\* (sibling_health_check) and a level is left.
FixPossible(s) ==
  /\ action_map[Ssh].svc_health = "Ok"
  /\ s = Super => action_map[Nginx].svc_health = "Ok"
  /\ check[s].status.fix_try < 2

\* Err of Nginx or the supervisor when no fix is possible or one is running.
HandleErrWait(s) ==
  /\ s \in Fixable
  /\ Failed(s) /\ FixDue(s)
  /\ ~FixPossible(s) \/ action_map[s].fix_action.state = "running"
  /\ Handled(s, Sick(check[s].status))
  /\ action_map' = [action_map EXCEPT ![s].svc_health = "Sick"]
  /\ UNCHANGED <<up, entry, saved, tasks, backup, resets, fixes>>

\* The handle has ended and is taken, but the run itself returned Err: the `??`
\* abandons the check, and the updated entry with it.
HandleErrAbandon(s) ==
  /\ s \in Fixable
  /\ Failed(s) /\ FixDue(s) /\ FixPossible(s)
  /\ action_map[s].fix_action.state = "err"
  /\ check' = [check EXCEPT ![s] = Idle]
  /\ action_map' = [action_map EXCEPT ![s].svc_health = "Sick", ![s].fix_action = NoFix]
  /\ UNCHANGED <<up, entry, saved, tasks, backup, resets, fixes>>

\* fix_try once a fix that has ended is counted: it did not help.
TriesForgotten(s) == check[s].status.fix_try
Tries(s) ==
  check[s].status.fix_try + (IF action_map[s].fix_action.state = "ok" THEN 1 ELSE 0)

\* The handle is absent or has ended (jh_none after a finished one was taken).
NoFixIgnored == action_map[Nginx].fix_action.state \in {"none", "running", "ok"}
NoFixRunning == action_map[Nginx].fix_action.state \in {"none", "ok"}

\* Err of Nginx with no fix under way: an ended fix has failed and counts as
\* tried; the next level, if there is one, is spawned at once.
HandleNginxFix ==
  LET try == Tries(Nginx)
      a   == FixLevel(Nginx, try)
  IN /\ Failed(Nginx) /\ FixDue(Nginx) /\ FixPossible(Nginx)
     /\ NoFixRunning
     /\ Handled(Nginx, [Sick(check[Nginx].status) EXCEPT !.fix_try = try])
     /\ action_map' = [action_map EXCEPT ![Nginx] =
          [svc_health |-> "Sick", fix_try |-> try,
           fix_action |-> IF try < 2 THEN [action |-> a, state |-> "running"] ELSE NoFix]]
     /\ IF try < 2 THEN Spawn(Nginx, a) ELSE UNCHANGED fixes
     /\ UNCHANGED <<up, entry, saved, tasks, backup, resets>>

\* Err of the supervisor with no handle: spawn the level fix_try stands for.
HandleSuperFix ==
  LET try == check[Super].status.fix_try
      a   == FixLevel(Super, try)
  IN /\ Failed(Super) /\ FixDue(Super) /\ FixPossible(Super)
     /\ action_map[Super].fix_action = NoFix
     /\ Handled(Super, Sick(check[Super].status))
     /\ action_map' = [action_map EXCEPT ![Super] =
          [svc_health |-> "Sick", fix_try |-> try,
           fix_action |-> [action |-> a, state |-> "running"]]]
     /\ Spawn(Super, a)
     /\ UNCHANGED <<up, entry, saved, tasks, backup, resets>>

\* Err of the supervisor with an ended fix: it is counted, the handle is taken,
\* and the next level waits for the next interval.  Without a backup there is
\* no second level to try.
HandleSuperJudge ==
  LET try == IF Tries(Super) = 1 /\ backup # "some" THEN 2 ELSE Tries(Super)
  IN /\ Failed(Super) /\ FixDue(Super) /\ FixPossible(Super)
     /\ action_map[Super].fix_action.state = "ok"
     /\ Handled(Super, [Sick(check[Super].status) EXCEPT !.fix_try = try])
     /\ action_map' = [action_map EXCEPT ![Super].svc_health = "Sick",
                                         ![Super].fix_action = NoFix]
     /\ UNCHANGED <<up, entry, saved, tasks, backup, resets, fixes>>

HandleResponse(s) ==
  \/ HandleOk(s)
  \/ s = Super /\ HandleSuperOk
  \/ HandleErr(s)
  \/ s = Ssh /\ HandleSshErr
  \/ HandleInboundErr(s)
  \/ HandleErrWait(s)
  \/ HandleErrAbandon(s)
  \/ s = Nginx /\ HandleNginxFix
  \/ s = Super /\ (HandleSuperFix \/ HandleSuperJudge)

----------------------------------------------------------------------------
(* The way back to the monitor, and the operator's command. *)

\* apply_checker hands the new entry to the aggregator first ...
SendStats(s) ==
  /\ check[s].phase = "handled"
  /\ aggregating
  /\ saved' = [saved EXCEPT ![s] = check[s].status]
  /\ check' = [check EXCEPT ![s].phase = "sent"]
  /\ UNCHANGED <<up, entry, action_map, tasks, backup, resets, fixes>>

\* (with the aggregator gone the send fails and the check ends: the monitor never gets
\* the new entry) ...
SendFails(s) ==
  /\ check[s].phase = "handled"
  /\ ~aggregating
  /\ check' = [check EXCEPT ![s] = Idle]
  /\ UNCHANGED <<up, entry, saved, action_map, tasks, backup, resets, fixes>>

\* ... and then to the monitor, which replaces its own with it.
ReceiveEntry(s) ==
  /\ check[s].phase = "sent"
  /\ entry' = [entry EXCEPT ![s] = check[s].status]
  /\ check' = [check EXCEPT ![s] = Idle]
  /\ UNCHANGED <<up, saved, action_map, tasks, backup, resets, fixes>>

FlushedLate(s) == entry[s]
\* The entry the monitor flushes: fix_try is cleared first.
Flushed(s) == [entry[s] EXCEPT !.fix_try = 0]

\* The monitor of s handles SvcComm::ResetFix, also while its check is under way.
ResetFix(s) ==
  /\ resets < MaxResets
  /\ s \notin ended
  /\ aggregating
  /\ resets' = resets + 1
  /\ entry' = [entry EXCEPT ![s].fix_try = 0]
  /\ saved' = [saved EXCEPT ![s] = Flushed(s)]
  /\ action_map' = [action_map EXCEPT ![s] =
       [svc_health |-> entry[s].health, fix_try |-> 0, fix_action |-> NoFix]]
  /\ orphans' = [orphans EXCEPT ![s] = Orphaned(s)]
  /\ tried' = [tried EXCEPT ![s] = {}]
  /\ UNCHANGED <<up, check, tasks, backup, nfix>>

\* ResetFix with the aggregator gone: the flush fails, and the monitor returns before it
\* touches action_map; its JoinSet aborts the check.
ResetFixFails(s) ==
  /\ resets < MaxResets
  /\ s \notin ended
  /\ ~aggregating
  /\ resets' = resets + 1
  /\ entry' = [entry EXCEPT ![s].fix_try = 0]
  /\ ended' = ended \cup {s}
  /\ check' = [check EXCEPT ![s] = Idle]
  /\ UNCHANGED <<up, saved, aggregating, action_map, backup, fixes>>

\* write_status_data fails and run_aggregator returns the error.
AggregatorDies ==
  /\ AggCanDie /\ aggregating
  /\ aggregating' = FALSE
  /\ UNCHANGED <<up, entry, check, saved, ended, action_map, backup, resets, fixes>>

----------------------------------------------------------------------------
(* The spawned Ansible runs. *)

FixEnds(s) ==
  /\ action_map[s].fix_action.state = "running"
  /\ \E r \in IF RunsCanFail THEN {"ok", "err"} ELSE {"ok"} :
       action_map' = [action_map EXCEPT ![s].fix_action.state = r]
  /\ UNCHANGED <<up, entry, check, saved, tasks, backup, resets, fixes>>

OrphanEnds(s) ==
  /\ \E a \in orphans[s] : orphans' = [orphans EXCEPT ![s] = @ \ {a}]
  /\ UNCHANGED <<up, entry, check, saved, action_map, tasks, backup, resets, tried, nfix>>

\* xui_call_db stores a backup, or fails and only logs.
BackupEnds ==
  /\ backup = "pending"
  /\ backup' \in {"none", "some"}
  /\ UNCHANGED <<up, entry, check, saved, tasks, action_map, resets, fixes>>

----------------------------------------------------------------------------
Monitor(s) ==
  \/ Tick(s) \/ Probe(s) \/ HandleResponse(s)
  \/ SendStats(s) \/ SendFails(s) \/ ReceiveEntry(s)

Next ==
  \/ \E s \in Watched \cap Endpoints : EndpointFlips(s)
  \/ \E s \in Watched : Monitor(s) \/ ResetFix(s) \/ ResetFixFails(s)
  \/ \E s \in Watched \cap Fixable : FixEnds(s) \/ OrphanEnds(s)
  \/ BackupEnds
  \/ AggregatorDies

\* tokio schedules every ready task, an interval always comes again, a probe has
\* a timeout, and Ansible runs end.
Fairness ==
  \A s \in Watched : WF_vars(Monitor(s)) /\ WF_vars(FixEnds(s))

Spec == Init /\ [][Next]_vars /\ Fairness

----------------------------------------------------------------------------
(* Properties *)

\* The levels that status st of service s claims to have been tried.
Claimed(s, st) ==
  {FixLevel(s, n) : n \in 0..st.fix_try - 1} \ (IF s = Super THEN {"XrayRestoreDB"} ELSE {})

\* What fix_try means (types.rs, SvcStatus): a level it counts has been tried since
\* the service was last seen healthy, in the monitor's entry while that entry is the
\* newest, and in the entry a check carries.  XrayRestoreDB is exempt: it is counted
\* as tried when there is no backup to restore.
LevelsTried(s) ==
  /\ check[s].phase \in {"none", "probing", "probed"} => Claimed(s, entry[s]) \subseteq tried[s]
  /\ check[s].phase # "none" => Claimed(s, check[s].status) \subseteq tried[s]

\* Nginx's restart and config restore are counted only when they were really tried in
\* this sick episode, as long as no operator has interfered and the aggregator lives (with
\* it dead a recovery is not recorded, and the old count stands for the next episode).
NginxLevelsTried == resets = 0 /\ aggregating => LevelsTried(Nginx)

\* The same for the supervisor: the DB is restored only after x-ui was restarted.
RestartBeforeRestore == LevelsTried(Super)

\* After ResetFix the monitor does not fall back to the level it had before.
ResetSticks ==
  check[Nginx].phase = "none" => Claimed(Nginx, entry[Nginx]) \subseteq tried[Nginx]

\* However checks, fixes, recoveries and resets interleave, between two recoveries at
\* most two fixes are spawned, and two more per ResetFix: as long as the results of the
\* checks reach the monitor, that is, while the aggregator lives.
FixBudget ==
  ~RunsCanFail /\ aggregating => \A s \in Fixable : nfix[s] <= 2 * (resets + 1)

\* The same budget whatever has become of the aggregator.
BudgetWithoutAggregator ==
  ~RunsCanFail => \A s \in Fixable : nfix[s] <= 2 * (resets + 1)

\* Unless an operator resets, two Xray fixes never run at the same time: the
\* supervisor's recovery leaves the running fix in the registry.
XrayFixExclusive == resets = 0 => orphans[Super] = {}

\* What a daemon started again would load never skips a level: the status last handed to
\* the aggregator is the monitor's own whenever no check is under way, except that a
\* ResetFix flushed between a check's two sends leaves a row with no level counted, whose
\* levels are then tried again.  It holds with a dead aggregator, abandoned checks and
\* failed sends too.
SavedNeverSkips ==
  \A s \in Services \ ended : check[s].phase = "none" =>
    saved[s] = entry[s] \/ (resets > 0 /\ saved[s].fix_try = 0)

\* An Nginx that stays down behind a working SSH has all its levels tried and keeps that
\* count, provided the aggregator lives.
NginxEscalates ==
  []aggregating /\ <>[](Nginx \notin up /\ Ssh \in up) => <>[](entry[Nginx].fix_try = 2)

\* An inbound that stays down behind healthy SSH and Nginx has all levels tried,
\* and the supervisor keeps that count, provided the aggregator lives.
XrayEscalates ==
  \A i \in Inbounds : []aggregating /\ <>[](i \notin up) => <>[](entry[Super].fix_try = 2)

\* Once everything stays up every monitor settles on Ok with no level counted, provided
\* the aggregator lives.
Settles ==
  []aggregating /\ <>[](up = Endpoints) => <>[](\A s \in Watched : entry[s] = Healthy)
=============================================================================
