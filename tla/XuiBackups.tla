----------------------------- MODULE XuiBackups -----------------------------
(***************************************************************************)
(* The backups of the x-ui databases.  A healthy supervisor downloads the  *)
(* database into a file named after the server and the second; an hourly   *)
(* pruner keeps the newest ones; the second corrective action of Xray      *)
(* restores the newest; a setup deletes what an earlier installation left. *)
(* The files of all the servers lie in one directory and are told apart by *)
(* their names.  A name is a sequence of words that has no dash in it.     *)
(***************************************************************************)
EXTENDS Naturals, FiniteSets, Sequences, SequencesExt, FiniteSetsExt

CONSTANTS
  Server,        \* names of servers, each a sequence of words
  Retained,      \* RETAINED_XUI_DBNUM
  MaxTime,       \* bound on the backups
  MaxInst,       \* bound on the installations of a server
  MaxCycles      \* bound on the ends of cycles

\* is_proper: no dash in the name of a server.
IsProper(name) == name \in Seq(STRING) \ {<<>>} /\ "-" \notin Range(name)

ASSUME BackupAssumption ==
  /\ Retained \in Nat \ {0} /\ \A s \in Server : IsProper(s)
  /\ MaxTime \in Nat /\ MaxInst \in Nat /\ MaxCycles \in Nat

None == [server |-> <<>>, time |-> 0, inst |-> 0]

VARIABLES
  files,      \* the files in the directory: server, second and, as a history, installation
  whole,      \* those whose download has completed
  dl,         \* those being downloaded
  inst,       \* number of the installation each server has
  phase,      \* "offgrid"; "installed", "cleaned" or "over" (ended in an error), the last
              \*   steps of a setup; "production"
  uncleaned,  \* history: the setup has not deleted what it found, and no backup since
  pruner,     \* run_xuidb_pruner: "none", "sleeping", "scanning" or "dead"
  scans,      \* what each pruning still has to remove
  restoring,  \* the backup a restoration has picked
  rounds,     \* backups begun since then
  clock,
  cycles      \* cycles that have ended

dir  == <<files, whole, dl>>
vars == <<dir, inst, phase, uncleaned, pruner, scans, restoring, rounds, clock, cycles>>

Init ==
  /\ files = {} /\ whole = {} /\ dl = {}
  /\ inst = [s \in Server |-> 0] /\ phase = [s \in Server |-> "offgrid"]
  /\ uncleaned = [s \in Server |-> FALSE]
  /\ pruner = [s \in Server |-> "none"] /\ scans = {}
  /\ restoring = [s \in Server |-> None] /\ rounds = [s \in Server |-> 0]
  /\ clock = 0 /\ cycles = 0

-----------------------------------------------------------------------------
\* The files of a server: the name begins with "<server>-".

FileName(f) == Append(f.server, "-")

MatchingNoDash(s) == {f \in files : IsPrefix(s, FileName(f))}
Matching(s) == {f \in files : IsPrefix(Append(s, "-"), FileName(f))}

Newest(F) == {f \in F : \A g \in F : g.time <= f.time}

-----------------------------------------------------------------------------
\* xui_call_db, in a task of its own that no abort reaches.  The file is there from
\* the first byte; what a download leaves when it fails or times out stays.

BeginBackupUndated(s) ==
  /\ phase[s] = "production" /\ clock < MaxTime
  /\ restoring[s] # None => rounds[s] + 1 < Retained
  /\ LET f == [server |-> s, time |-> clock, inst |-> inst[s]] IN
       files' = files \cup {f} /\ dl' = dl \cup {f}
  /\ clock' = clock + 1
  /\ rounds' = [rounds EXCEPT ![s] = IF restoring[s] = None THEN 0 ELSE @ + 1]
  /\ uncleaned' = [uncleaned EXCEPT ![s] = FALSE]
  /\ UNCHANGED <<whole, inst, phase, pruner, scans, restoring, cycles>>
BeginBackup(s) ==
  /\ phase[s] = "production" /\ clock < MaxTime
  /\ restoring[s] # None => rounds[s] + 1 < Retained
  /\ clock' = clock + 1
  /\ LET f == [server |-> s, time |-> clock', inst |-> inst[s]] IN
       files' = files \cup {f} /\ dl' = dl \cup {f}
  /\ rounds' = [rounds EXCEPT ![s] = IF restoring[s] = None THEN 0 ELSE @ + 1]
  /\ uncleaned' = [uncleaned EXCEPT ![s] = FALSE]
  /\ UNCHANGED <<whole, inst, phase, pruner, scans, restoring, cycles>>

EndBackup(f) ==
  /\ dl' = dl \ {f} /\ whole' = whole \cup ({f} \cap files)
  /\ UNCHANGED <<files, inst, phase, uncleaned, pruner, scans, restoring, rounds, clock, cycles>>

BackupErr(f) ==
  /\ dl' = dl \ {f}
  /\ UNCHANGED <<files, whole, inst, phase, uncleaned, pruner, scans, restoring, rounds, clock, cycles>>

-----------------------------------------------------------------------------
\* prune_xui_backups runs in a thread: it lists, then removes one by one, and stops
\* at the first file it cannot remove.  An error ends the pruner.

VictimsOldest(s) ==
  {f \in Matching(s) : Cardinality({g \in Matching(s) : g.time < f.time}) >= Retained}
VictimsOffByOne(s) ==
  {f \in Matching(s) : Cardinality({g \in Matching(s) : g.time > f.time}) > Retained}
Victims(s) ==
  {f \in Matching(s) : Cardinality({g \in Matching(s) : g.time > f.time}) >= Retained}

PruneScan(s) ==
  /\ pruner[s] = "sleeping"
  /\ pruner' = [pruner EXCEPT ![s] = "scanning"]
  /\ scans' = scans \cup {[server |-> s, owned |-> TRUE, victims |-> Victims(s)]}
  /\ UNCHANGED <<dir, inst, phase, uncleaned, restoring, rounds, clock, cycles>>

\* The pruner learns how its thread ended; nobody does of an aborted one's.
Told(sc, how) == pruner' = IF sc.owned THEN [pruner EXCEPT ![sc.server] = how] ELSE pruner

PruneRemove(sc) ==
  /\ sc.victims # {}
  /\ \E f \in Newest(sc.victims) :
       \/ /\ f \in files
          /\ files' = files \ {f} /\ whole' = whole \ {f}
          /\ scans' = (scans \ {sc}) \cup {[sc EXCEPT !.victims = @ \ {f}]}
          /\ UNCHANGED pruner
       \/ /\ f \notin files
          /\ scans' = scans \ {sc} /\ Told(sc, "dead")
          /\ UNCHANGED <<files, whole>>
  /\ UNCHANGED <<dl, inst, phase, uncleaned, restoring, rounds, clock, cycles>>

PruneEnd(sc) ==
  /\ sc.victims = {}
  /\ scans' = scans \ {sc} /\ Told(sc, "sleeping")
  /\ UNCHANGED <<dir, inst, phase, uncleaned, restoring, rounds, clock, cycles>>

Prunes(s) == \E sc \in scans : sc.server = s /\ (PruneRemove(sc) \/ PruneEnd(sc))

-----------------------------------------------------------------------------
\* The restoration: write_ansible_vars picks the file, the playbook copies it.

Pick(s) ==
  /\ phase[s] = "production" /\ restoring[s] = None /\ Matching(s) # {}
  /\ \E f \in Newest(Matching(s)) : restoring' = [restoring EXCEPT ![s] = f]
  /\ rounds' = [rounds EXCEPT ![s] = 0]
  /\ UNCHANGED <<dir, inst, phase, uncleaned, pruner, scans, clock, cycles>>

Restored(s) ==
  /\ restoring[s] # None
  /\ restoring' = [restoring EXCEPT ![s] = None]
  /\ rounds' = [rounds EXCEPT ![s] = 0]
  /\ UNCHANGED <<dir, inst, phase, uncleaned, pruner, scans, clock, cycles>>

-----------------------------------------------------------------------------
\* Cycles and setups.

\* abort_all, also of a setup between its mark and its deletion, then a launch for the
\* servers that are in production; the threads of the pruners go on without their owners.
Launch(ph) ==
  /\ cycles < MaxCycles /\ cycles' = cycles + 1
  /\ phase' = ph
  /\ pruner' = [s \in Server |-> IF ph[s] = "production" THEN "sleeping" ELSE "none"]

\* Where a launch finds a server: it is in production once the setup has marked it.
Launched(s) == IF phase[s] = "offgrid" THEN "offgrid" ELSE "production"

Reload ==
  /\ \E s \in Server : phase[s] # "offgrid"
  /\ Launch([s \in Server |-> Launched(s)])
  /\ scans' = {[sc EXCEPT !.owned = FALSE] : sc \in scans}
  /\ UNCHANGED <<dir, inst, uncleaned, restoring, rounds, clock>>

\* The server leaves the cloud and comes back in; its backups stay.
Leave(s) ==
  /\ phase[s] # "offgrid" /\ inst[s] < MaxInst
  /\ Launch([t \in Server |-> IF t = s THEN "offgrid" ELSE Launched(t)])
  /\ scans' = {[sc EXCEPT !.owned = FALSE] : sc \in scans}
  /\ UNCHANGED <<dir, inst, uncleaned, restoring, rounds, clock>>

\* run_full_setup: the server is marked with its new token, then the old backups are
\* deleted.  The playbook takes longer than a download (five seconds), a pruning or a
\* restoration.
Setup(s) ==
  /\ phase[s] = "offgrid" /\ inst[s] < MaxInst
  /\ restoring[s] = None /\ \A f \in dl : f.server # s
  /\ \A sc \in scans : sc.server # s
  /\ phase' = [phase EXCEPT ![s] = "installed"] /\ inst' = [inst EXCEPT ![s] = @ + 1]
  /\ uncleaned' = [uncleaned EXCEPT ![s] = Matching(s) # {}]
  /\ UNCHANGED <<dir, pruner, scans, restoring, rounds, clock, cycles>>

\* One step: the thread does not stop when the setup is aborted.
DeleteBackups(s) ==
  /\ phase[s] = "installed"
  /\ files' = files \ Matching(s) /\ whole' = whole \ Matching(s)
  /\ phase' = [phase EXCEPT ![s] = "cleaned"] /\ uncleaned' = [uncleaned EXCEPT ![s] = FALSE]
  /\ UNCHANGED <<dl, inst, pruner, scans, restoring, rounds, clock, cycles>>

\* mark_server_production fails at the configuration file, or the deletion fails at one
\* of the files: the setup is over without a reload, and the server is marked.
SetupErr(s) ==
  /\ phase[s] = "installed"
  /\ \E gone \in SUBSET Matching(s) : files' = files \ gone /\ whole' = whole \ gone
  /\ phase' = [phase EXCEPT ![s] = "over"]
  /\ UNCHANGED <<dl, inst, uncleaned, pruner, scans, restoring, rounds, clock, cycles>>

\* The process dies and is started again.
Crash ==
  /\ \E s \in Server : phase[s] # "offgrid"
  /\ dl' = {} /\ scans' = {}
  /\ restoring' = [s \in Server |-> None] /\ rounds' = [s \in Server |-> 0]
  /\ Launch([s \in Server |-> Launched(s)])
  /\ UNCHANGED <<files, whole, inst, uncleaned, clock>>

-----------------------------------------------------------------------------

Next ==
  \/ \E s \in Server : \/ BeginBackup(s) \/ PruneScan(s) \/ Prunes(s) \/ Pick(s) \/ Restored(s)
                       \/ Leave(s) \/ Setup(s) \/ DeleteBackups(s) \/ SetupErr(s)
  \/ \E f \in dl : EndBackup(f) \/ BackupErr(f)
  \/ Reload \/ Crash

\* The hourly tick comes while the pruner lives, and a listing ends.
Fairness == \A s \in Server : WF_vars(Prunes(s)) /\ WF_vars(PruneScan(s))

Spec == Init /\ [][Next]_vars /\ Fairness

-----------------------------------------------------------------------------

File == [server : Server, time : 1..MaxTime, inst : 1..MaxInst]

TypeOK ==
  /\ files \subseteq File /\ whole \subseteq files /\ dl \subseteq File
  /\ inst \in [Server -> 0..MaxInst]
  /\ phase \in [Server -> {"offgrid", "installed", "over", "cleaned", "production"}]
  /\ uncleaned \in [Server -> BOOLEAN]
  /\ pruner \in [Server -> {"none", "sleeping", "scanning", "dead"}]
  /\ scans \subseteq [server : Server, owned : BOOLEAN, victims : SUBSET File]
  /\ restoring \in [Server -> File \cup {None}] /\ rounds \in [Server -> 0..Retained]
  /\ clock \in 0..MaxTime /\ cycles \in 0..MaxCycles

\* A restoration never puts the database of another server into a server, and that of an
\* earlier installation, whose token the cloud no longer knows, only if the setup was
\* cut off before delete_xui_backups had done its work (by an error, a command that
\* ends the cycle or a crash) and no backup has been taken since.
OwnBackup ==
  [][\A s \in Server : restoring'[s] \notin {restoring[s], None} =>
       /\ restoring'[s].server = s
       /\ restoring'[s].inst = inst[s] \/ uncleaned[s]]_vars

\* The file a restoration has picked is there until the playbook has copied it,
\* whatever the pruners (an aborted one's thread too) and the setups remove.
PickedKept == \A s \in Server : restoring[s] # None => restoring[s] \in files

\* A pruner that lives keeps the directory within its bound: what is beyond it
\* is removed.
Pruned ==
  \A s \in Server :
    (pruner[s] \in {"sleeping", "scanning"})
      ~> (Cardinality(Matching(s)) <= Retained \/ pruner[s] \in {"none", "dead"})

\* "We delete older backups in case this is a reinstall": what is restored is of the
\* present installation.
OwnInstallation == \A s \in Server : restoring[s] # None => restoring[s].inst = inst[s]

\* "Restore the last known good xui DB": what is picked is not the rest of a
\* download that failed.
RestoreGood ==
  [][\A s \in Server : restoring[s] = None /\ restoring'[s] # None
                         => restoring'[s] \in whole \cup dl]_vars

\* The hourly pruner goes on as long as its server is in production.
PrunerLives == \A s \in Server : pruner[s] # "dead"
=============================================================================
