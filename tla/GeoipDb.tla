------------------------------ MODULE GeoipDb -------------------------------
(***************************************************************************)
(* The GeoIP database and its readers.  create_geoip_db removes the file   *)
(* and builds a new one in one transaction: at start-up and in a Restart   *)
(* (check_prereq), where an error ends the daemon, and in a weekly task,   *)
(* where it is ignored.  Runs that write firewall rules (generate_nftops)  *)
(* open the file twice, for the IPv4 and for the IPv6 set.  A file is its  *)
(* generation; the SQLite thread of an aborted task still finishes its     *)
(* transaction, on a file that may have been unlinked meanwhile.           *)
(***************************************************************************)
EXTENDS Naturals, FiniteSets

CONSTANTS
  Run,         \* full setups and firewall updates
  MaxGen,      \* bound on the generations of the file
  MaxFaults    \* bound on failures and crashes

ASSUME GeoipAssumption == MaxGen \in Nat \ {0} /\ MaxFaults \in Nat

VARIABLES
  phase,     \* "down", "prereq" (check_prereq) or "serving"
  file,      \* the generation at the path, 0 if there is none
  content,   \* what other connections see in each generation
  gens,      \* generations so far
  updater,   \* run_geoip_updater: "none", "waiting" or "building"
  orphans,   \* generations that threads of aborted builders still build
  run,       \* the step each run is at
  open,      \* the generation it has opened
  got,       \* what each of its sets was made of
  since,     \* history: the complete file it found when it began
  cycle,     \* number of cycles
  faults

builder == <<file, content, gens, updater, orphans>>
readers == <<run, open, got, since>>
vars    == <<phase, builder, readers, cycle, faults>>

Gen     == 1..MaxGen
Content == {"none", "part", "full"}
Sets    == {"outblocked4", "outblocked6"}
Nothing == [s \in Sets |-> [gen |-> 0, content |-> "none"]]
Idle    == [r \in Run |-> "idle"]

Init ==
  /\ phase = "down"
  /\ file = 0 /\ content = [g \in Gen |-> "none"] /\ gens = 0
  /\ updater = "none" /\ orphans = {}
  /\ run = Idle /\ open = [r \in Run |-> 0]
  /\ got = [r \in Run |-> Nothing] /\ since = [r \in Run |-> 0]
  /\ cycle = 0 /\ faults = 0

Fault == faults < MaxFaults /\ faults' = faults + 1

-----------------------------------------------------------------------------
\* create_geoip_db: the old file is removed and a new one opened; its tables and
\* rows become visible together, when the transaction commits.

RecreateUncounted ==
  /\ gens < MaxGen /\ UNCHANGED gens
  /\ file' = gens + 1
  /\ UNCHANGED <<content, orphans>>
Recreate ==
  /\ gens < MaxGen /\ gens' = gens + 1
  /\ file' = gens'
  /\ UNCHANGED <<content, orphans>>

CommitPiecewise(g) ==
  content' = [content EXCEPT ![g] = IF @ = "none" THEN "part" ELSE "full"]
Commit(g) == content' = [content EXCEPT ![g] = "full"]

-----------------------------------------------------------------------------
\* The cycles.

Stopped == run' = Idle /\ open' = [r \in Run |-> 0] /\ got' = [r \in Run |-> Nothing] /\
           since' = [r \in Run |-> 0]

\* The process starts; the download succeeds and the file is recreated.
Start ==
  /\ phase = "down"
  /\ phase' = "prereq" /\ cycle' = cycle + 1
  /\ Recreate
  /\ UNCHANGED <<updater, readers, faults>>

PrereqCommit ==
  /\ phase = "prereq"
  /\ Commit(file)
  /\ phase' = "serving" /\ updater' = "waiting"
  /\ UNCHANGED <<file, gens, orphans, readers, cycle, faults>>

\* A crash, or an error in check_prereq: nothing in memory is finished.
Crash ==
  /\ phase # "down" /\ Fault
  /\ phase' = "down"
  /\ updater' = "none" /\ orphans' = {}
  /\ Stopped
  /\ UNCHANGED <<file, content, gens, cycle>>

\* abort_all at the end of a cycle: the updater and the runs are aborted.  The next
\* cycle has an updater of its own that waits a week from now.
Aborted == orphans' = orphans \cup (IF updater = "building" THEN {file} ELSE {})

Reload ==
  /\ phase = "serving" /\ cycle < MaxGen + MaxFaults
  /\ cycle' = cycle + 1
  /\ Aborted /\ updater' = "waiting"
  /\ Stopped
  /\ UNCHANGED <<phase, file, content, gens, faults>>

Restart ==
  /\ phase = "serving"
  /\ phase' = "prereq" /\ cycle' = cycle + 1
  /\ gens < MaxGen /\ gens' = gens + 1 /\ file' = gens'
  /\ Aborted /\ updater' = "none"
  /\ Stopped
  /\ UNCHANGED <<content, faults>>

-----------------------------------------------------------------------------
\* run_geoip_updater.

UpdaterTick ==
  /\ updater = "waiting"
  /\ Recreate /\ updater' = "building"
  /\ UNCHANGED <<phase, readers, cycle, faults>>

DownloadErr ==
  /\ updater = "waiting" /\ Fault
  /\ UNCHANGED <<phase, builder, readers, cycle>>

UpdaterCommit ==
  /\ updater = "building"
  /\ Commit(file)
  /\ updater' = "waiting"
  /\ UNCHANGED <<phase, file, gens, orphans, readers, cycle, faults>>

\* The error is ignored; the file without tables stays until the next tick.
UpdaterErrEnds ==
  /\ updater = "building" /\ Fault
  /\ updater' = "none"
  /\ UNCHANGED <<phase, file, content, gens, orphans, readers, cycle>>
UpdaterErr ==
  /\ updater = "building" /\ Fault
  /\ updater' = "waiting"
  /\ UNCHANGED <<phase, file, content, gens, orphans, readers, cycle>>

OrphanCommit ==
  \E g \in orphans :
    /\ Commit(g)
    /\ orphans' = orphans \ {g}
    /\ UNCHANGED <<phase, file, gens, updater, readers, cycle, faults>>

-----------------------------------------------------------------------------
\* generate_nftops of a run, one set after the other.

Begin(r) ==
  /\ phase = "serving" /\ run[r] \in {"idle", "done", "failed"}
  /\ run' = [run EXCEPT ![r] = "outblocked4"]
  /\ got' = [got EXCEPT ![r] = Nothing]
  /\ since' = [since EXCEPT ![r] = IF content[file] = "full" THEN file ELSE 0]
  /\ UNCHANGED <<phase, builder, open, cycle, faults>>

\* generate_blocked_elements opens the file anew for each set.
OpenKept(r) ==
  /\ run[r] \in Sets /\ open[r] = 0
  /\ open' = [open EXCEPT ![r] =
                IF got[r]["outblocked4"].gen # 0 THEN got[r]["outblocked4"].gen
                ELSE IF \E g \in Gen : content[g] = "full"
                     THEN CHOOSE g \in Gen : content[g] = "full" ELSE file]
  /\ UNCHANGED <<phase, builder, run, got, since, cycle, faults>>
Open(r) ==
  /\ run[r] \in Sets /\ open[r] = 0
  /\ open' = [open EXCEPT ![r] = file]
  /\ UNCHANGED <<phase, builder, run, got, since, cycle, faults>>

After(s) == IF s = "outblocked4" THEN "outblocked6" ELSE "done"

\* The query fails where there are no tables, and with it the run.
Query(r) ==
  /\ run[r] \in Sets /\ open[r] # 0
  /\ LET c == content[open[r]] IN
       \/ /\ c # "none"
          /\ got' = [got EXCEPT ![r][run[r]] = [gen |-> open[r], content |-> c]]
          /\ run' = [run EXCEPT ![r] = After(run[r])]
       \/ /\ c = "none"
          /\ run' = [run EXCEPT ![r] = "failed"] /\ UNCHANGED got
  /\ open' = [open EXCEPT ![r] = 0]
  /\ UNCHANGED <<phase, builder, since, cycle, faults>>

-----------------------------------------------------------------------------

Updater == UpdaterTick \/ UpdaterCommit \/ UpdaterErr

Next ==
  \/ Start \/ PrereqCommit \/ Crash \/ Reload \/ Restart
  \/ Updater \/ DownloadErr \/ OrphanCommit
  \/ \E r \in Run : Begin(r) \/ Open(r) \/ Query(r)

\* The weekly tick comes as long as the cycle lasts, and transactions end.
Fairness == WF_vars(Updater) /\ WF_vars(PrereqCommit)

Spec == Init /\ [][Next]_vars /\ Fairness

-----------------------------------------------------------------------------

TypeOK ==
  /\ phase \in {"down", "prereq", "serving"}
  /\ gens \in 0..MaxGen /\ file \in 0..gens
  /\ content \in [Gen -> Content]
  /\ updater \in {"none", "waiting", "building"} /\ orphans \subseteq 1..gens
  /\ run \in [Run -> {"idle", "done", "failed"} \cup Sets] /\ open \in [Run -> 0..gens]
  /\ got \in [Run -> [Sets -> [gen : 0..gens, content : Content]]]
  /\ since \in [Run -> 0..gens]
  /\ cycle \in Nat /\ faults \in 0..MaxFaults

\* No rule set is made from a database that is being built: a run that goes on to
\* Ansible has both its sets from complete files, or it has failed.
RulesComplete ==
  \A r \in Run : run[r] = "done" => \A s \in Sets : got[r][s].content = "full"

\* "Since the DB is recreated periodically, reusing an SqlConn is not correct": a
\* run never uses a file older than the complete one it found when it began, and
\* its second set is never older than its first.
NotStale ==
  \A r \in Run : run[r] = "done" =>
    /\ since[r] <= got[r]["outblocked4"].gen
    /\ got[r]["outblocked4"].gen <= got[r]["outblocked6"].gen

\* A rebuild that fails is made up for by a later tick of the same cycle: the
\* daemon does not stay with a database without tables.
GeoRecovers ==
  \A c \in 0 .. 2 * (MaxGen + MaxFaults) :
    (phase = "serving" /\ cycle = c)
      ~> (phase # "serving" \/ cycle # c \/ content[file] = "full" \/ gens = MaxGen)
=============================================================================
