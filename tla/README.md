# A TLA+ verification of xcplane

xcplane is a daemon that provisions, monitors and repairs a fleet of proxy
servers described in one declarative file. This directory holds TLA+ modules
translated from its Rust source, TLC configurations that check them on small
instances, and TLAPS proofs of every safety property of the passing runs for
instances of any size. `PROJECT.json` lists components, runs, mutants, the map from
definitions to source lines, findings, hazards and theorems.

## 1. The system

| Part | State it keeps | Operations | What makes it correct |
|---|---|---|---|
| Service monitors (`cloud/service.rs`) | a `SvcEntry` per service; the shared `action_map` with health, `fix_try` and the `JoinHandle` of a fix | interval tick, probe, `handle_response`, `super_xray_actions`, `ResetFix` | a fix level is counted only if tried in this episode; no unbounded fixing; escalation reaches the last level; recovery forgives |
| Reconciliation (`cloud/reconcile.rs`) | none (two clouds in, one out, plus remote runs) | `reconcile_cloud` by Reload, Remap, Rebase; `create_rebase_data`; `deploy_rebase` | a provisioned server keeps its identity and its credentials; a failed Rebase can be repeated |
| Daemon core (`daemon/core.rs`, `daemon.rs`) | `the_cloud`, `taskmap`, the command channel, `DaemonNext` | cycle start, commands, `check_and_backup`, `abort_all` | memory and database agree whenever commands are served; a new Production server gets its monitors |
| Provisioning tasks (`ansible.rs`) | position between awaits | `full_setup`, `destroy_server` | never both on one server; one of several completed tasks reloads |
| Database (`db.rs`) | servers, inbounds, stats, options | `update_db`, `load_cloud`, `mark_server_*`, `create_backup` | what is loaded after a crash is what ran |
| Config parsing (`cloud.rs`, `cloud/server.rs`) | none | `parse_cloud_config`, `fill_secrets`, `build_inventory` | unique names and addresses, inbounds within the inbound-set |
| Start-up lock (`daemon.rs`, `daemon/startup.rs`) | PID file, its temporary file, the socket | `is_unique`, `create_pid_file`, `create_socket`, `cleanup` | one daemon per runtime directory, and the files name it |
| Control (`cli.rs`, `daemon.rs`, `daemon/core.rs`) | the bounded channel, the connections, the signal watcher of the cycle | accept, send, reply, signals, Shutdown | every connection ends; a Shutdown that is queued takes effect |
| Aggregator (`cloud/service.rs`, `db.rs`) | a channel and a batch of statuses; the stats table | receive, flush on a full batch or on the tick | the stored status is, or becomes, the monitor's |
| Cloudflare (`cloudflare.rs`) | `cfstate` of each server; lists, rulesets and rules at the provider | find or create, per reconciliation | nothing is created twice; the parts of a state belong together; a retry completes what was left half done |
| GeoIP and firewall (`nft.rs`, `cloud/service.rs`) | one SQLite file | `create_geoip_db`, `run_geoip_updater`, `generate_nftops` | no rules from a database under construction or from an old one |
| x-ui backups (`xui/db.rs`, `xui/api.rs`, `cloud/service.rs`, `ansible.rs`) | one directory of files named by server and second | download, prune, restore, delete at setup | a server gets only its own, current backup; the directory stays bounded |
| x-ui session, certificate timer, CLI presentation, logging | see section 6 | | |

**Interactions.** The socket listener and the signal watcher put
`DaemonRequest`s into a channel; `daemon_core` handles one at a time. A
command of the reconciliation family ends the cycle: the config is parsed, a
backup made, all registered tasks aborted, and the next cycle reconciles the
old cloud (in memory) with the new one. `full_setup` and `destroy_server` run
beside the loop on server objects of the current cloud, write memory, database
and config file in turn, and talk back to the core through the same channel
(`SetupInquiry`, then a `Reload`). Monitors talk to their checks by channels, to
each other by `action_map` and to the database through the aggregator. Setups
and firewall updates read the GeoIP file while an updater replaces it; a
restoration reads the backup directory while downloads and pruners change it.

**What is hard.** Checks, fixes and resets of a service interleave; handles of
running fixes are dropped or survive an episode; tasks mark three stores in
three steps and may be aborted or crash between them; credentials are
regenerated by every parse; several remote runs fail independently; two tasks
that complete together decide who reloads; aborting a task does not stop the
thread it waits for; a POST may be carried out although its answer is lost;
stale files of a dead daemon look like those of a living one.

## 2. Modules

* **`FixActions`** models the monitors of one server. `entry` is the monitor's
  copy of the status, `check` the spawned check and the clone it carries,
  `action_map` the registry, `orphans` the fixes whose handle was dropped,
  `saved` what the aggregator was given, `aggregating` whether it lives, `ended` the
  monitors that have returned. `tried` and `nfix` are history
  variables: they record fixes and never enable anything. One action per branch
  of `handle_response`/`super_xray_actions`; `failed_count` saturates at the
  threshold, the only value it is compared with besides zero.
  `Watched` restricts which services run, so that one run studies Nginx and
  another Xray; the rest stay healthy.
* **`Reconcile`** has the data and the pure part of reconciliation: parsing, the
  three merges, the checks of a Rebase, and what a remote run leaves behind.
  `secrets.id` stands for all generated credentials of a server together,
  `domain` for domain, IP and subdomains.
* **`Daemon`** extends it with state: config file, memory, database, remote
  servers, the phase of `daemon_core`, `DaemonNext`, the tasks and the channel.
  One action per command handler and per step of a task between two awaits.
  `remote[n]` is what was last installed on a server, which no part of the daemon can
  see; a destruction leaves its `id` alone, since nothing takes the place of what it
  removes. A task marks its server in memory (`Mark`), then waits for the
  database (`SaveMark`, `SaveMarkErr`), then rewrites the config file; commands are
  served meanwhile. `unsaved` are the marks the database does not have: of a task that
  waits, or of one whose statement failed. An abort does not take a statement back that
  the database thread already has (`EndCycle`). `update_db` runs without a transaction:
  `SaveStops` are the tables it may leave when a statement fails or the process dies. **`MCDaemon`** gives it two servers, two inbounds and sets
  of config files.
* **`DaemonLock`** models processes that run `daemonize` on one runtime directory.
  `pidfile`, `tmp` and `sock` are the three files; `pc` is the file operation a
  process is about to make, so that every pair of operations of two processes
  interleaves. `"foreign"` is an unrelated process that has got the PID of a dead
  daemon. **`SingleDaemon`** is what the lock promises: a set of holders that never
  has two members. `DaemonLock` implements it with the set of processes that are
  between `acquire_lock` and the end of `cleanup`.
* **`Control`** composes listener, signal watcher, core loop, monitors and
  aggregator, and leaves out what `Daemon` and `FixActions` say of them: a status is
  its place in the order of all statuses. `queue` is the channel, `req` and `op` a
  connection's task and what it sends, `handler` whether the process has replaced
  the default action of the signals, `channel`/`batch`/`row` the way of a status. A
  check hands its result over twice, to the aggregator (`CheckSends`) and then to its
  monitor (`CheckReturns`), and a `ResetFix` may come between.
  `Die` ends the process, by Shutdown or by any error that `daemon_core` returns.
* **`Cloudflare`** has one action per API call of `prepare_cloudflare_state`; `fresh`
  holds the states of the cloud under construction, `cfstate` those in service.
  `late` holds POSTs the daemon has given up and the provider may still carry out;
  lists and rules made that way are marked `late`, and `touched` says that the owner
  has changed the rules: both are history. Domains are sequences of labels, so that
  `get_cf_zone` is what it is in the code: the longest suffix.
  **`MCCloudflare`** gives it servers and zones.
* **`GeoipDb`** gives each file at the path a generation, and each generation what
  other connections see in it. `orphans` are transactions of aborted builders.
* **`XuiBackups`** keeps the directory as a set of files (`server`, `time`, and as a
  history the installation they come from). Names are sequences of words, because
  files are matched by prefix; `scans` are the threads of the pruners, which
  outlive an abort. A setup goes from `installed` (marked) to `cleaned` (old backups
  deleted), or is cut off between the two: by an error (`over`) or by the command that
  ends its cycle. **`MCXuiBackups`** gives it a name that is a prefix of another.
* **`FixActionsProofs`**, **`DaemonProofs`**, **`DaemonLockProofs`**, **`ControlProofs`**,
  **`CloudflareProofs`**, **`GeoipDbProofs`** and **`XuiBackupsProofs`** extend the modules
  they are named for and hold their theorems (section 5). **`NatOrder`** has the two
  facts about the order of numbers that some of them share.

`Die` and `Crash` are what happens to everything in memory when the process ends,
whether by a crash, by `Shutdown` or by an error that leaves `daemon_core`. A
playbook that is killed leaves the server as it was, partly or completely changed.

The definitions that differ from a modelled one by a plausible slip
(`TriesForgotten`, `FallbackNew`, `VictimsOffByOne`, ...) are not part of the
specification: they stand directly before the definition they vary, and
`PROJECT.json` names for each property the one that must break it.

## 3. Runs

| Run | Instance | Shows |
|---|---|---|
| `fix_nginx` | SSH and Nginx, threshold 2, failing runs, one reset, an aggregator that may die | types; `NginxLevelsTried`; `SavedNeverSkips` |
| `fix_live` | SSH and Nginx, threshold 1, one reset | `FixBudget`; `NginxEscalates`; `Settles` |
| `fix_xray` | supervisor and one inbound, threshold 1, one reset | `XrayFixExclusive`; `FixBudget`; `XrayEscalates`; `Settles` |
| `daemon_tasks` | Expand/Destroy of two servers and Reload (three commands), one edit back to an old copy, failing playbooks, failing statements and file writes | types; `PlaybooksApart`; `CredentialsInstalled`; `DbMirrorsMemory`; `ProductionKept`; `MonitorsFollow` |
| `daemon_recon` | eight config files, two edits, two commands of all reconciliation modes, a crash, failures of every remote step and of every statement | `CredentialsInstalled`; `DbMirrorsMemory`; `ProductionKept` |
| `lock` | three PIDs, three crashes at any file operation, PIDs reused | `Reachable`; the refinement `SingleDaemonSpec`; `StaleFilesRecovered` |
| `control` | one connection used twice, one signal, two services, channel of two, failing database and cycle starts | `StatusKept`; `RequestsEnd`; `ShutdownTakes`; `StatusWritten` |
| `cloudflare` | three servers, two of them proxied in one zone, with a parent zone; four reconciliations, two failures or crashes, one edit by hand | `NoDuplicates`; `StateConnected`; `Converges` |
| `geoip` | one run against updater, Reloads and Restarts; four generations, two failures | `RulesComplete`; `NotStale`; `GeoRecovers` |
| `backups` | two servers whose names are prefixes, two retained of three backups, two installations, three ends of cycles | `OwnBackup`; `PickedKept`; `Pruned` |

Two runs end in a counterexample, each against a sentence of the documents or
of a comment (quoted in `PROJECT.json`, "findings"):

| Run | Property | Scenario |
|---|---|---|
| `lock_race` | `Unique` | of two overlapping starts, one judges the socket of an ended daemon stale, the other replaces it and serves; the first then removes the new socket and binds its own |
| `rebase_lockout` | `NotLockedOut` | one of two runs fails after the other has moved SSH; the daemon returns to the old port |

**Counterexamples kept beside the runs.** These configurations also end in a
counterexample; each belongs to a finding, or to a hazard for which a note refers to
it. They are run by hand, as
`tlc -config <name>.cfg <module>`.

| Config | Module | Property | Scenario |
|---|---|---|---|
| `fix_skip` | `FixActions` | `RestartBeforeRestore` | the supervisor recovers by itself with an ended fix in the registry; the next episode restores the DB without a restart |
| `fix_retry` | `FixActions` | `NginxEscalates` | the Ansible run of a fix returns an error; its count is lost with the check and level one repeats for ever |
| `fix_reset` | `FixActions` | `ResetSticks` | `ResetFix` during a check is undone by the check's result |
| `aggregator_dead` | `FixActions` | `BudgetWithoutAggregator` | a failed write ends the aggregator; every later check fails at its send, its count is lost with it, and the first fix repeats in every interval until the next cycle |
| `reset_split` | `Control` | `RowIsEntry` | a `ResetFix` falls between a check's send to the aggregator and its return: the table ends with the reset status, the monitor with the check's |
| `reload_delayed` | `MCDaemon` | `ReloadMade` | the task the Reload was left to fails; the new server stays unmonitored |
| `stale_inquiry` | `MCDaemon` | `NoStaleInquiry` | a destruction ends while the backup for a Remap is made, and is aborted with its inquiry in the channel; the Remap makes the server Production again and a second Destroy is accepted; the inquiry then unregisters the second task, which `abort_all` will miss |
| `rebase_disabled` | `MCDaemon` | `DisabledSkipped` | a server disabled in the same edit still gets the inbound playbook |
| `merged_domains` | `MCDaemon` | `DomainsUnique` | two servers exchange domains and a Reload gives both the same |
| `sigterm_lost` | `Control` | `SigtermTakes` | a Reload aborts the watcher that is sending the Shutdown; the signal is lost and nothing repeats it |
| `status_crash` | `Control` | `CrashReported` | a monitor that has ended cannot be asked; the error of the Status ends the daemon |
| `list_failure` | `MCCloudflare` | `ListErrOnlyLogged` | an error of the list is logged, and then refuses the state of the first proxied server |
| `two_accounts` | `MCCloudflare` | `Converges` | the list is made in the account of the first server; a rule about it in another account is always refused |
| `late_post` | `MCCloudflare` | `OneRule` | the POST of a rule is given up and is carried out after the retry has made another |
| `restore_partial` | `MCXuiBackups` | `RestoreGood` | what a failed download leaves is the newest file and is restored |
| `pruner_race` | `MCXuiBackups` | `PrunerLives` | the thread of an aborted pruner removes the file the new one has listed; the new one ends for good |
| `restore_stale` | `MCXuiBackups` | `OwnInstallation` | the setup is cut off (an error of the mark, a Reload, a crash) after the new token is saved and before the old backups are deleted; a restoration brings the old database back |

Two findings need no run: a Reload of an empty cloud ends the daemon (the action
`BackupErr` of `Daemon`), and an error of one certificate run ends the checker.

**Bounds.** `FixThreshold` 1 or 2 separates "below" from "at" the threshold.
`MaxResets` = 1 lets a reset fall at every point of a check; the proofs cover any
number. `FixCap` bounds the count of fixes: it has to exceed the budget where `FixBudget` is
checked, and is zero in `fix_nginx`, where nothing reads the count. Two servers suffice
for one to interfere with the other; three commands let a Reload fall into two
overlapping tasks; two edits and two commands let an edit and its reversal be
reconciled in different modes. Every action of the modules fires in the passing
runs. The commands of `daemon_tasks` and of `daemon_recon` do not lead to a stale
inquiry (`stale_inquiry` above, and section 4): TLC confirms `NoStaleInquiry` for both.

Three PIDs give the files one writer, one later starter and one PID that is used
again; the proofs cover any number. In `control`, a channel of two (ten in the
code) is full as soon as two requests wait; two requests and a signal let a
command end the cycle under a signal that is queued or is being sent; two
services make a batch that one alone does not fill. In `cloudflare`, two proxied
servers share a zone whose parent is a zone too; four cycles leave one after two
failures and an edit. In `geoip`, runs only read and do not affect each other, so
one stands for all; four generations let a file be replaced between its two
openings and again by an aborted builder. In `backups`, three cycles are a first
launch, a departure, and a launch of the second installation; three backups
exceed the two that are retained.

**Deadlock** is checked in the FixActions runs and in `lock`. In the others the
operator's budget ends and the daemon waits for commands, so it is not.

**Fairness.** Weak fairness of each monitor (an interval always comes again and
tokio polls ready tasks), of each running fix (Ansible runs end), of the core
(it takes whatever is in its channel) and of each task; in `DaemonLock`, of the file
operations of a start or stop that has begun; in `Control`, of the aggregator, its
ticker and each connection's task; in `Cloudflare`, of the calls (each has a timeout)
and of the arrival of a POST that is under way; in `GeoipDb` of the weekly tick and
of transactions; in `XuiBackups` of the hourly tick and of a pruner's thread. Nothing
is assumed of the operator, of signals, of endpoints, of crashes or of restarts. One
assumption is slightly generous: `dl_geoip_data` has no timeout (`nft.rs:504`), so the
updater could hang in a download for as long as the peer keeps the connection open;
`GeoRecovers` takes it that a download ends.

## 4. Assumptions of the models

* `handle_response` is one step. Entry `s` of `action_map` is written only
  by the check of `s` and by the monitor of `s`; it reads sibling entries once.
* A check ends before the next interval (`MIN_MON_INTERVAL` is three times
  `SVC_TIMEOUT`).
* A Rebase run that fails has not completed its SSH action. The tail of
  `ssh_setup.yaml` (waiting for the new port) could fail later; that would be
  another way to `rebase_lockout`.
* An Ansible child that survives a killed daemon is taken to end at once.
* The results of the checks reach the monitors only while the aggregator lives: a check
  whose send fails returns nothing (`service.rs:301`). `FixBudget`, `NginxLevelsTried` and
  the escalations say so in their hypotheses or their runs; `aggregator_dead` shows what
  happens otherwise. `SavedNeverSkips` holds either way.
* `Restart` is a `Reload` in `Daemon`. `LocalFails` lets any statement of the database,
  any write of the config file and the deletions after it fail; reading files does not
  fail. The database executes the statements it is given in their order, also those of
  tasks that have been aborted. A config file that could not be written is as it was,
  empty, or complete; a crash in the middle of writing it is not modelled.
* `delete_xui_backups` is one step when it succeeds: its thread goes on when the setup
  that waits for it is aborted. `SetupErr` lets it stop after any of the files.
* `update_db` and `write_status_data` run without a transaction, so a failure
  leaves the statements executed before it.
* A task works on the server object it was spawned with. `Daemon` reads the cloud in
  memory instead, which is the same for as long as the task's cycle lasts. The theorems
  about `Daemon` therefore assume `[]NoStaleInquiry`: the core takes no inquiry of an
  aborted task out of its channel while a new task of the same name is at its playbook.
  The code does not exclude that (`stale_inquiry`).
* The run `lock` and the theorems about uniqueness assume `Serial`: nobody starts or
  stops a daemon while another start or stop is under way. `lock_race` shows what
  happens without it.
* A daemon that gets the very PID its stale PID file holds refuses to start
  (`kill(pid, 0)` finds the caller itself); the model does the same.
* A setup takes longer than a download (five seconds), a pruning or a restoration
  of the same server; fewer backups than are retained begin during one restoration
  (a backup needs a healthy supervisor); two backups of a server differ in their
  second.
* `StateConnected` and `NoDuplicates` speak of the time before the owner of the
  Cloudflare account edits the rules by hand (`touched`): the daemon sees such an edit in
  its next reconciliation only.
* Cloudflare accepts one custom ruleset per zone and rules only about lists of the
  same account.

## 5. Proofs

`FixActionsProofs` proves for every set of inbounds, threshold, bound and subset of
watched services (from `FixAssumption` alone):

* `TypeCorrect`: `Spec => []TypeOK`. The only numbers that could leave their
  range are `fix_try`, which needs `FixPossible`, and `nfix`, which saturates.
* `BudgetHolds`: `Spec => []FixBudget`. Not inductive by itself: a fix that is
  spawned must be paid for by a level not yet counted. `BudgetInv` relates the
  fixes spawned to the status carried by whichever of monitor and check is newer,
  plus the handle that is not yet judged.
* `LevelsHold`: `Spec => []NginxLevelsTried`, through `SickInv` (what the statuses say
  of health and of levels) and `LevelInv` (a handle in the registry belongs to the
  level the newest status has reached, and was tried). It holds also when runs fail,
  where the count can be lost but never invented. Both this and the budget are about the
  time the aggregator lives.
* `XrayExclusive`: `Spec => []XrayFixExclusive`.
* `SavedNeverSkipsHolds`: `Spec => []SavedNeverSkips`, for any number of resets at any
  point of a check, and whether the aggregator lives or not. `SavedInv` adds the result
  on its way back from a check, which the aggregator has been given before the monitor
  gets it: a reset that comes between leaves a stored status that counts no level.

`DaemonProofs` proves for all servers, domains, ports, inbounds, config files and
commands and for all bounds, from `ReconcileAssumption`, `DaemonAssumption` and the
hypothesis `[]NoStaleInquiry`:

* `TypeCorrect`, `PlaybooksApartHolds`, `CredentialsInstalledHolds`,
  `DbMirrorsMemoryHolds`: `[]TypeOK`, `[]PlaybooksApart`, `[]CredentialsInstalled` and
  `[]DbMirrorsMemory`. They depend on each other and need one invariant, `DInv`. A
  playbook at work is registered and belongs to a server in memory (`CycleInv`), so
  that `abort_all` leaves none behind. The state of that server says which of the two
  playbooks it can be, and a setup that is through has installed the credentials in
  memory (`StateInv`). What a task that waits for the database has made of its server in
  memory, and in which order the marks of one server come, is `SaveInv`. A token goes
  with the credentials last installed in memory, in the database and in both clouds of a
  reconciliation under way (`TokenInv`). The database mirrors memory, or the old cloud
  while there are two, up to the marks in `unsaved` (`MirrorInv`); without that, a
  setup killed after it had installed credentials could leave a row with others.
  `SavedMirrors` says what executed statements do to the mirror, `StopsTyped` that every
  row of an `update_db` stopped half-way is an old one or comes from the merged cloud.
  `KilledLeaves` says what killed playbooks can leave, `TokensKept` why that contradicts
  no token, `MergedTyped` what the three merges preserve, `FreshIdsTyped` that four
  numbers are enough to tell new credentials from those in memory, in the database and
  on the server.
* `ProductionKeptHolds`: the action property `ProductionKept`, from `DInv` with
  `KeptInv`: what a Reload has merged is Offgrid only where the old cloud was, and the
  old cloud is the one in the database, but for the mark of a server that has been
  destroyed.

`ControlProofs`, for any services, clients, capacities and bounds (`ControlAssumption`):

* `StatusKeptHolds`: `Spec => []StatusKept`. `LatestInv` follows the status last handed
  over through channel, batch and table, and says that it is the last of its
  service wherever it is; `LiveInv` that what is on its way has a sender and a
  receiver; `HandInv` that neither the monitor nor a check under way holds a newer one.
* `TypeCorrect`: `Spec => []TypeOK`. That no monitor has more `ResetFix` messages than
  requests were made needs a count: what is in the inboxes, and what the connections
  have still to deliver, was each paid for by a request (`ResetInv`).
* `OneRequestHolds`: a connection with a request in the channel waits and has no second.

`CloudflareProofs`, for any servers, domains, zones and accounts
(`CloudflareAssumption`): `TypeCorrect`, `NoDuplicatesHolds`, `StateConnectedHolds`.
`CfInv` says that a POST is made only where nothing was found (`InHand`, `CallInv`), that
the lists and rules are one each apart from those whose POST had been given up, and that
the states of the daemon, in service and under construction, are about existing ones
(`OneEach`, `KnownStates`). That the longest suffix exists uses the well order of `NatOrder`.

`GeoipDbProofs`, for any runs and bounds: `TypeCorrect`, `RulesCompleteHolds`,
`NotStaleHolds`. `FileInv` says that the file at the path is the newest there ever was,
`WholeInv` that a transaction is seen as a whole, `ReadInv` what a run has at each of its
points.

`XuiBackupsProofs`, for any servers, limits and clocks (`BackupAssumption`):
`TypeCorrect`, `PickedKeptHolds` and `OwnBackupHolds`. `PickedKept` is a race of
counts: a victim has at least `Retained` newer files for as long as it exists, also when
other threads remove files (`VictimInv`), and a picked file has at most as many as
backups have begun since (`RoundInv`), which are fewer. For `OwnBackup`, later backups are
of later installations (`InstInv`), and where an older one's backup lies the setup has not
deleted it, or there is one of the present installation too (`FreshInv`), which pruning
keeps so (`PruneOwn`).

`DaemonLockProofs` proves for every set of PIDs and any number of crashes:

* `TypeCorrect`: `Spec => []TypeOK`, with or without `Serial`.
* `UniqueHolds`, `ReachableHolds`: `Spec => []Unique` and `Spec => []Reachable` when
  starts and stops are serial. Neither is inductive: that nobody else holds the lock
  when the socket is bound follows only from what the earlier checks saw. `LockInv`
  adds that at most one process is in transit (`Alone`), that holders are one
  (`OneHolder`), that there is no holder once a start has passed the PID check
  (`NoneBehind`), and that the files a start has written are its own (`OwnFiles`).
* `LockRefines`: `Spec => SingleDaemonSpec`, by the mapping of section 2: `Bind` becomes
  the abstract acquisition, the end of `cleanup` or a crash the release, every other
  step a stutter.

Each invariant was first checked by TLC. A proof has one step per action and a
lemma per action group; the temporal step is by PTL. Every invariant, every action
property and the refinement that the passing runs check are stated by a theorem. Out of
the prover's reach and left to TLC are the properties under fairness:
`NginxEscalates`, `XrayEscalates`, `Settles`, `MonitorsFollow`, `StaleFilesRecovered`,
`RequestsEnd`, `ShutdownTakes`, `StatusWritten`, `Converges`, `GeoRecovers`, `Pruned`.

## 6. Not modelled

* The cookie session of the x-ui client: no caller constructs
  `AuthMethod::Cookie`, so `login_gate` and `cookie_count` are never used.
* The certificate timer: a loop over one Ansible run with no shared state.
* The text of firewall rules, vars files and playbooks; log formatting; the
  presentation of replies by the CLI. `restore_config` writes the last reconciled
  config back to the config file, which for the daemon is one more edit of it.
* Fixes that outlive `abort_all` beside the monitors of the next cycle (section 7).

## 7. Plan

1. An abstract specification of a server's life (Offgrid, Production, which
   credentials) that `Daemon` implements under a refinement mapping.
2. A composition of monitors with daemon cycles: fixes that outlive `abort_all`.
3. A condition on the commands from which `NoStaleInquiry` follows, proved with an
   invariant about the channel, so that the theorems about `Daemon` need no hypothesis
   about behaviours there.
4. The safety part of what the liveness properties rest on (for instance, that one of
   the completed tasks is always about to reload), as theorems.
