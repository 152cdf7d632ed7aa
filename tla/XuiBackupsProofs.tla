-------------------------- MODULE XuiBackupsProofs --------------------------
(***************************************************************************)
(* Proofs about XuiBackups, for every set of proper server names and every *)
(* number of backups retained.                                             *)
(***************************************************************************)
EXTENDS XuiBackups, SequenceTheorems, FiniteSetTheorems, TLAPS

\* The backups of the same server that are newer than f.
NewerIn(F, f) == {g \in F : g.server = f.server /\ g.time > f.time}

\* A pruner works for a server in production and is told of one thread only; a setup
\* starts after the threads and the restorations of its server have ended.
PrunerInv ==
  /\ \A s \in Server :
       /\ phase[s] # "offgrid" => inst[s] >= 1
       /\ phase[s] # "production" => pruner[s] = "none"
       /\ phase[s] \in {"installed", "over", "cleaned"} => restoring[s] = None
  /\ \A sc \in scans :
       /\ phase[sc.server] \notin {"installed", "over", "cleaned"}
       /\ sc.owned => pruner[sc.server] = "scanning"
  /\ \A sc, sd \in scans : sc.owned /\ sd.owned /\ sc.server = sd.server => sc = sd

\* What a thread is about to remove is beyond the limit as long as it exists, although
\* other threads remove files as well.
VictimInv ==
  \A sc \in scans : \A f \in sc.victims :
    /\ f.server = sc.server
    /\ f.time <= clock
    /\ f \in files => Cardinality(NewerIn(files, f)) >= Retained

\* The file picked is within the limit until it is restored.
RoundInv ==
  \A s \in Server : restoring[s] # None =>
    /\ restoring[s].server = s
    /\ restoring[s] \in files
    /\ rounds[s] < Retained
    /\ Cardinality(NewerIn(files, restoring[s])) <= rounds[s]

\* The name of a backup is taken in a second of its own.
ClockInv == \A f \in files : f.time <= clock

KeepInv == TypeOK /\ IsFiniteSet(files) /\ ClockInv /\ PrunerInv /\ VictimInv /\ RoundInv

USE BackupAssumption

-----------------------------------------------------------------------------
(* Facts about names and files. *)

\* A dash ends the name: a name that is a prefix of another one's file names is
\* that name, also where one server is called eu and another eu1.
LEMMA PrefixIsName ==
  ASSUME NEW s \in Server, NEW t \in Server, IsPrefix(Append(s, "-"), Append(t, "-"))
  PROVE  s = t
  <1>1. s \in Seq(STRING) /\ t \in Seq(STRING) /\ "-" \notin Range(s) /\ "-" \notin Range(t)
    BY DEF IsProper
  <1>2. Len(s) <= Len(t)
    BY <1>1 DEF IsPrefix
  <1> QED
    BY <1>1, <1>2 DEF IsPrefix, Range

\* The files that match a server's prefix are its own.
LEMMA MatchingIs ==
  ASSUME files \subseteq File, NEW s \in Server
  PROVE  Matching(s) = {f \in files : f.server = s}
  <1>1. ASSUME NEW f \in files PROVE f.server \in Server
    BY DEF File
  <1>2. IsPrefix(Append(s, "-"), Append(s, "-"))
    BY AppendProperties DEF IsPrefix, IsProper
  <1> QED
    BY <1>1, <1>2, PrefixIsName DEF Matching, FileName

\* None is no file.
LEMMA NoneNoFile == None \notin File
  BY DEF None, File, IsProper

\* Counting newer files.
LEMMA NewerNat ==
  ASSUME NEW F, IsFiniteSet(F), NEW f
  PROVE  IsFiniteSet(NewerIn(F, f)) /\ Cardinality(NewerIn(F, f)) \in Nat
  <1>1. NewerIn(F, f) \in SUBSET F
    BY DEF NewerIn
  <1> QED
    BY <1>1, FS_Subset, FS_CardinalityType

LEMMA NewerGrows ==
  ASSUME NEW F, NEW G, IsFiniteSet(G), F \subseteq G, NEW f
  PROVE  Cardinality(NewerIn(F, f)) <= Cardinality(NewerIn(G, f))
  <1>1. NewerIn(F, f) \in SUBSET NewerIn(G, f)
    BY DEF NewerIn
  <1> QED
    BY <1>1, NewerNat, FS_Subset

LEMMA NewerAdd ==
  ASSUME NEW F, IsFiniteSet(F), NEW f, NEW x
  PROVE  Cardinality(NewerIn(F \cup {x}, f)) <= Cardinality(NewerIn(F, f)) + 1
  <1>1. NewerIn(F \cup {x}, f) \in SUBSET (NewerIn(F, f) \cup {x})
    BY DEF NewerIn
  <1>2. /\ IsFiniteSet(NewerIn(F, f) \cup {x})
        /\ Cardinality(NewerIn(F, f) \cup {x}) <= Cardinality(NewerIn(F, f)) + 1
        /\ Cardinality(NewerIn(F, f) \cup {x}) \in Nat
    <2>1. IsFiniteSet(NewerIn(F, f)) /\ Cardinality(NewerIn(F, f)) \in Nat
      BY NewerNat
    <2>2. /\ IsFiniteSet(NewerIn(F, f) \cup {x})
          /\ Cardinality(NewerIn(F, f) \cup {x}) =
               IF x \in NewerIn(F, f) THEN Cardinality(NewerIn(F, f))
               ELSE Cardinality(NewerIn(F, f)) + 1
      BY <2>1, FS_AddElement, Zenon
    <2> QED
      BY <2>1, <2>2
  <1>3. /\ Cardinality(NewerIn(F \cup {x}, f)) <= Cardinality(NewerIn(F, f) \cup {x})
        /\ IsFiniteSet(NewerIn(F \cup {x}, f))
    BY <1>1, <1>2, FS_Subset
  <1> QED
    BY <1>2, <1>3, NewerNat, FS_CardinalityType

\* Removing a file that is beyond the limit leaves the others beyond it that were:
\* whatever is newer than the removed one is newer than those below it, too.
LEMMA NewerRemove ==
  ASSUME NEW F \in SUBSET File, IsFiniteSet(F), NEW x \in F, NEW f \in F,
         Cardinality(NewerIn(F, x)) >= Retained, Cardinality(NewerIn(F, f)) >= Retained
  PROVE  Cardinality(NewerIn(F \ {x}, f)) >= Retained
  <1>t. \A g \in F : g.time \in Nat
    BY DEF File
  <1>1. CASE x \in NewerIn(F, f)
    <2>1. NewerIn(F, x) \in SUBSET NewerIn(F \ {x}, f)
      BY <1>t, <1>1 DEF NewerIn
    <2>2. IsFiniteSet(F \ {x})
      BY FS_RemoveElement
    <2>3. Cardinality(NewerIn(F, x)) <= Cardinality(NewerIn(F \ {x}, f))
      BY <2>1, <2>2, NewerNat, FS_Subset
    <2> QED
      BY <2>2, <2>3, NewerNat
  <1>2. CASE x \notin NewerIn(F, f)
    <2>1. NewerIn(F \ {x}, f) = NewerIn(F, f)
      BY <1>2 DEF NewerIn
    <2> QED
      BY <2>1
  <1> QED
    BY <1>1, <1>2

\* What a pruning lists is exactly what is beyond the limit.
LEMMA VictimsAre ==
  ASSUME files \subseteq File, NEW s \in Server
  PROVE  Victims(s) = {f \in files : f.server = s /\ Cardinality(NewerIn(files, f)) >= Retained}
  <1>1. \A f \in Matching(s) : {g \in Matching(s) : g.time > f.time} = NewerIn(files, f)
    BY MatchingIs DEF NewerIn
  <1> QED
    BY <1>1, MatchingIs DEF Victims

-----------------------------------------------------------------------------
(* The invariant, one lemma per group of actions. *)

Types ==
  /\ files \subseteq File /\ whole \subseteq files /\ dl \subseteq File
  /\ inst \in [Server -> 0..MaxInst]
  /\ phase \in [Server -> {"offgrid", "installed", "over", "cleaned", "production"}]
  /\ uncleaned \in [Server -> BOOLEAN]
  /\ pruner \in [Server -> {"none", "sleeping", "scanning", "dead"}]
  /\ scans \subseteq [server : Server, owned : BOOLEAN, victims : SUBSET File]
  /\ restoring \in [Server -> File \cup {None}] /\ rounds \in [Server -> 0..Retained]
  /\ clock \in 0..MaxTime /\ cycles \in 0..MaxCycles
  /\ IsFiniteSet(files)

LEMMA TypesOf == KeepInv => Types
  BY DEF KeepInv, TypeOK, Types

LEMMA KeepInit == Init => KeepInv
  <1> SUFFICES ASSUME Init PROVE KeepInv
    OBVIOUS
  <1>1. TypeOK
    BY DEF Init, TypeOK
  <1>2. IsFiniteSet(files)
    BY FS_EmptySet DEF Init
  <1> QED
    BY <1>1, <1>2 DEF Init, KeepInv, ClockInv, PrunerInv, VictimInv, RoundInv

\* Downloads: a new file is one more for the restoration under way.
LEMMA BackupStep ==
  ASSUME KeepInv,
         \/ \E s \in Server : BeginBackup(s)
         \/ \E f \in dl : EndBackup(f) \/ BackupErr(f)
  PROVE  KeepInv'
  <1>t. Types
    BY TypesOf
  <1>1. ASSUME NEW s \in Server, BeginBackup(s) PROVE KeepInv'
    <2> DEFINE f == [server |-> s, time |-> clock + 1, inst |-> inst[s]]
    <2>1. f \in File
      BY <1>t, <1>1 DEF BeginBackup, File, KeepInv, PrunerInv, Types
    <2>2. /\ files' = files \cup {f} /\ dl' = dl \cup {f} /\ clock' = clock + 1 /\ clock < MaxTime
          /\ restoring[s] # None => rounds[s] + 1 < Retained
          /\ rounds' = [rounds EXCEPT ![s] = IF restoring[s] = None THEN 0 ELSE @ + 1]
          /\ uncleaned' = [uncleaned EXCEPT ![s] = FALSE]
          /\ UNCHANGED <<whole, inst, phase, pruner, scans, restoring, cycles>>
      BY <1>1 DEF BeginBackup
    <2> HIDE DEF f
    <2>3. TypeOK'
      <3>1. rounds' \in [Server -> 0..Retained]
        BY <1>t, <2>2 DEF Types
      <3> QED
        BY <1>t, <2>1, <2>2, <3>1 DEF TypeOK, Types
    <2>4. IsFiniteSet(files')
      BY <1>t, <2>2, FS_AddElement DEF Types
    <2>5. PrunerInv' /\ ClockInv'
      BY <1>t, <2>2 DEF KeepInv, PrunerInv, ClockInv, File, Types, f
    <2>6. VictimInv'
      <3>0. ASSUME NEW sc \in scans, NEW v \in sc.victims
            PROVE  v.server = sc.server /\ v.time <= clock + 1
        <4>1. v.time \in Nat /\ clock \in Nat
          BY <1>t DEF Types, File
        <4>2. v.server = sc.server /\ v.time <= clock
          BY DEF KeepInv, VictimInv
        <4> QED
          BY <4>1, <4>2
      <3> SUFFICES ASSUME NEW sc \in scans, NEW v \in sc.victims, v \in files'
                   PROVE  Cardinality(NewerIn(files', v)) >= Retained
        BY <2>2, <3>0 DEF VictimInv
      <3>1. v.time <= clock
        BY DEF KeepInv, VictimInv
      <3>2. CASE v \in files
        <4>1. Cardinality(NewerIn(files, v)) >= Retained
          BY <3>2 DEF KeepInv, VictimInv
        <4>2. Cardinality(NewerIn(files, v)) <= Cardinality(NewerIn(files', v))
          BY <2>2, <2>4, NewerGrows
        <4> QED
          BY <1>t, <2>4, <4>1, <4>2, NewerNat DEF Types
      <3>3. CASE v \notin files
        BY <1>t, <2>2, <3>1, <3>3 DEF Types, f
      <3> QED
        BY <3>2, <3>3
    <2>7. RoundInv'
      <3> SUFFICES ASSUME NEW r \in Server, restoring[r] # None
                   PROVE  /\ restoring[r].server = r /\ restoring[r] \in files'
                          /\ rounds'[r] < Retained
                          /\ Cardinality(NewerIn(files', restoring[r])) <= rounds'[r]
        BY <2>2 DEF RoundInv
      <3>1. /\ restoring[r].server = r /\ restoring[r] \in files /\ rounds[r] < Retained
            /\ Cardinality(NewerIn(files, restoring[r])) <= rounds[r]
        BY DEF KeepInv, RoundInv
      <3>2. CASE r # s
        <4>1. NewerIn(files', restoring[r]) = NewerIn(files, restoring[r])
          BY <2>2, <3>1, <3>2 DEF NewerIn, f
        <4> QED
          BY <1>t, <2>2, <3>1, <3>2, <4>1 DEF Types
      <3>3. CASE r = s
        <4>1. Cardinality(NewerIn(files', restoring[r]))
                <= Cardinality(NewerIn(files, restoring[r])) + 1
          BY <1>t, <2>2, NewerAdd DEF Types
        <4>2. rounds'[r] = rounds[r] + 1
          BY <1>t, <2>2, <3>3 DEF Types
        <4>3. /\ Cardinality(NewerIn(files', restoring[r])) \in Nat
              /\ Cardinality(NewerIn(files, restoring[r])) \in Nat
              /\ rounds[r] \in Nat
          BY <1>t, <2>4, NewerNat DEF Types
        <4> QED
          BY <2>2, <3>1, <3>3, <4>1, <4>2, <4>3
      <3> QED
        BY <3>2, <3>3
    <2> QED
      BY <2>3, <2>4, <2>5, <2>6, <2>7 DEF KeepInv
  <1>2. ASSUME NEW f \in dl, EndBackup(f) \/ BackupErr(f) PROVE KeepInv'
    <2>1. /\ UNCHANGED <<files, inst, phase, uncleaned, pruner, scans, restoring, rounds, clock, cycles>>
          /\ dl' \subseteq dl /\ whole' \subseteq files
      BY <1>t, <1>2 DEF EndBackup, BackupErr, Types
    <2> QED
      BY <1>t, <2>1 DEF KeepInv, TypeOK, ClockInv, PrunerInv, VictimInv, RoundInv, Types
  <1> QED
    BY <1>1, <1>2

\* A thread that ends, in whatever way, is the only one its pruner waits for.
LEMMA ToldStep ==
  ASSUME KeepInv, NEW sc \in scans, NEW how \in {"sleeping", "dead"}, Told(sc, how),
         scans' = scans \ {sc}, UNCHANGED <<dir, inst, phase, uncleaned, restoring, rounds, clock, cycles>>
  PROVE  KeepInv'
  <1>t. Types
    BY TypesOf
  <1>1. pruner' \in [Server -> {"none", "sleeping", "scanning", "dead"}]
    BY <1>t DEF Told, Types
  <1>2. PrunerInv'
    <2>1. sc.owned => phase[sc.server] = "production"
      BY <1>t DEF KeepInv, PrunerInv, Types
    <2>2. \A s \in Server : pruner'[s] # pruner[s] => s = sc.server /\ sc.owned
      BY <1>t DEF Told, Types
    <2> QED
      BY <1>t, <2>1, <2>2 DEF KeepInv, PrunerInv, Types
  <1> QED
    BY <1>t, <1>1, <1>2 DEF KeepInv, TypeOK, ClockInv, VictimInv, RoundInv, dir, Types

\* Pruners: no thread, an orphaned one neither, removes a file within the limit.
LEMMA PruneStep ==
  ASSUME KeepInv, NEW s \in Server, PruneScan(s) \/ Prunes(s)
  PROVE  KeepInv'
  <1>t. Types
    BY TypesOf
  <1>1. CASE PruneScan(s)
    <2> DEFINE new == [server |-> s, owned |-> TRUE, victims |-> Victims(s)]
    <2>1. /\ pruner[s] = "sleeping" /\ scans' = scans \cup {new}
          /\ pruner' = [pruner EXCEPT ![s] = "scanning"]
          /\ UNCHANGED <<files, whole, dl, inst, phase, uncleaned, restoring, rounds, clock, cycles>>
      BY <1>1 DEF PruneScan, dir
    <2>2. Victims(s) = {f \in files : f.server = s /\ Cardinality(NewerIn(files, f)) >= Retained}
      BY <1>t, VictimsAre DEF Types
    <2>3. new \in [server : Server, owned : BOOLEAN, victims : SUBSET File]
      BY <1>t, <2>2 DEF Types
    <2>4. TypeOK'
      <3> HIDE DEF new
      <3> QED
        BY <1>t, <2>1, <2>3 DEF TypeOK, Types
    <2>5. PrunerInv'
      <3>1. phase[s] = "production"
        BY <2>1 DEF KeepInv, PrunerInv
      <3>2. \A sc \in scans : sc.owned => sc.server # s
        BY <2>1 DEF KeepInv, PrunerInv
      <3>3. new.server = s /\ new.owned
        OBVIOUS
      <3> HIDE DEF new
      <3> QED
        BY <1>t, <2>1, <3>1, <3>2, <3>3 DEF KeepInv, PrunerInv, Types
    <2>6. VictimInv'
      <3>1. ASSUME NEW f \in Victims(s)
            PROVE  /\ f.server = s /\ f.time <= clock
                   /\ f \in files => Cardinality(NewerIn(files, f)) >= Retained
        BY <2>2 DEF KeepInv, ClockInv
      <3>2. new.server = s /\ new.victims = Victims(s)
        OBVIOUS
      <3> HIDE DEF new
      <3> QED
        BY <2>1, <3>1, <3>2 DEF KeepInv, VictimInv
    <2> QED
      BY <2>1, <2>4, <2>5, <2>6 DEF KeepInv, ClockInv, RoundInv
  <1>2. ASSUME NEW sc \in scans, PruneRemove(sc) PROVE KeepInv'
    <2>1. PICK f \in Newest(sc.victims) :
            \/ /\ f \in files
               /\ files' = files \ {f} /\ whole' = whole \ {f}
               /\ scans' = (scans \ {sc}) \cup {[sc EXCEPT !.victims = @ \ {f}]}
               /\ UNCHANGED pruner
            \/ /\ f \notin files
               /\ scans' = scans \ {sc} /\ Told(sc, "dead")
               /\ UNCHANGED <<files, whole>>
      BY <1>2 DEF PruneRemove
    <2>2. UNCHANGED <<dl, inst, phase, uncleaned, restoring, rounds, clock, cycles>>
      BY <1>2 DEF PruneRemove
    <2>3. CASE f \notin files
      BY <2>1, <2>2, <2>3, ToldStep DEF dir
    <2>4. CASE f \in files
      <3> DEFINE less == [sc EXCEPT !.victims = @ \ {f}]
      <3>1. /\ files' = files \ {f} /\ whole' = whole \ {f} /\ pruner' = pruner
            /\ scans' = (scans \ {sc}) \cup {less}
        BY <2>1, <2>4
      <3>2. /\ less.server = sc.server /\ less.owned = sc.owned /\ less.victims \subseteq sc.victims
            /\ less \in [server : Server, owned : BOOLEAN, victims : SUBSET File]
        BY <1>t DEF Types
      <3> HIDE DEF less
      <3>3. f \in sc.victims /\ Cardinality(NewerIn(files, f)) >= Retained
        BY <2>4 DEF Newest, KeepInv, VictimInv
      <3>4. TypeOK'
        BY <1>t, <2>2, <3>1, <3>2 DEF TypeOK, Types
      <3>5. IsFiniteSet(files')
        BY <1>t, <3>1, FS_RemoveElement DEF Types
      <3>6. PrunerInv' /\ ClockInv'
        BY <1>t, <2>2, <3>1, <3>2 DEF KeepInv, PrunerInv, ClockInv, Types
      <3>7. VictimInv'
        <4> SUFFICES ASSUME NEW sd \in scans', NEW v \in sd.victims
                     PROVE  /\ v.server = sd.server /\ v.time <= clock
                            /\ v \in files' => Cardinality(NewerIn(files', v)) >= Retained
          BY <2>2 DEF VictimInv
        <4>1. PICK se \in scans : se.server = sd.server /\ v \in se.victims
          BY <3>1, <3>2
        <4>2. /\ v.server = sd.server /\ v.time <= clock
              /\ v \in files => Cardinality(NewerIn(files, v)) >= Retained
          BY <4>1 DEF KeepInv, VictimInv
        <4> QED
          BY <1>t, <2>4, <3>1, <3>3, <4>2, NewerRemove DEF Types
      <3>8. RoundInv'
        <4> SUFFICES ASSUME NEW r \in Server, restoring[r] # None
                     PROVE  /\ restoring[r].server = r /\ restoring[r] \in files'
                            /\ rounds[r] < Retained
                            /\ Cardinality(NewerIn(files', restoring[r])) <= rounds[r]
          BY <2>2 DEF RoundInv
        <4>1. /\ restoring[r].server = r /\ restoring[r] \in files /\ rounds[r] < Retained
              /\ Cardinality(NewerIn(files, restoring[r])) <= rounds[r]
          BY DEF KeepInv, RoundInv
        <4>2. /\ Cardinality(NewerIn(files, restoring[r])) \in Nat
              /\ Cardinality(NewerIn(files', restoring[r])) \in Nat
              /\ Cardinality(NewerIn(files, f)) \in Nat /\ rounds[r] \in Nat
          BY <1>t, <3>5, NewerNat DEF Types
        <4>3. Cardinality(NewerIn(files', restoring[r])) <= Cardinality(NewerIn(files, restoring[r]))
          BY <1>t, <3>1, NewerGrows DEF Types
        <4>4. restoring[r] # f
          BY <3>3, <4>1, <4>2
        <4> QED
          BY <3>1, <4>1, <4>2, <4>3, <4>4
      <3> QED
        BY <3>4, <3>5, <3>6, <3>7, <3>8 DEF KeepInv
    <2> QED
      BY <2>3, <2>4
  <1>3. ASSUME NEW sc \in scans, PruneEnd(sc) PROVE KeepInv'
    BY <1>3, ToldStep DEF PruneEnd
  <1> QED
    BY <1>1, <1>2, <1>3 DEF Prunes

\* Restorations: the newest file has none before it.
LEMMA RestoreStep ==
  ASSUME KeepInv, NEW s \in Server, Pick(s) \/ Restored(s)
  PROVE  KeepInv'
  <1>t. Types
    BY TypesOf
  <1>1. /\ UNCHANGED <<files, whole, dl, inst, phase, uncleaned, pruner, scans, clock, cycles>>
        /\ rounds' = [rounds EXCEPT ![s] = 0]
    BY DEF Pick, Restored, dir
  <1>2. rounds' \in [Server -> 0..Retained]
    BY <1>t, <1>1 DEF Types
  <1>3. CASE Pick(s)
    <2>1. PICK f \in Newest(Matching(s)) : restoring' = [restoring EXCEPT ![s] = f]
      BY <1>3 DEF Pick
    <2>2. f \in files /\ f \in File /\ f.server = s /\ \A g \in files : g.server = s => g.time <= f.time
      BY <1>t, <2>1, MatchingIs DEF Newest, Types
    <2>3. TypeOK'
      BY <1>t, <1>1, <1>2, <2>1, <2>2 DEF TypeOK, Types
    <2>4. PrunerInv'
      BY <1>t, <1>1, <1>3, <2>1 DEF KeepInv, PrunerInv, Types, Pick
    <2>5. RoundInv'
      <3>1. Cardinality(NewerIn(files, f)) = 0
        <4>1. \A g \in files : g.time \in Nat
          BY <1>t DEF Types, File
        <4>2. NewerIn(files, f) = {}
          BY <2>2, <4>1 DEF NewerIn
        <4> QED
          BY <4>2, FS_EmptySet
      <3>2. \A r \in Server : r # s => restoring'[r] = restoring[r] /\ rounds'[r] = rounds[r]
        BY <1>t, <1>1, <2>1 DEF Types
      <3>3. restoring'[s] = f /\ rounds'[s] = 0
        BY <1>t, <1>1, <2>1 DEF Types
      <3> QED
        BY <1>1, <2>2, <3>1, <3>2, <3>3 DEF KeepInv, RoundInv
    <2> QED
      BY <1>1, <2>3, <2>4, <2>5 DEF KeepInv, ClockInv, VictimInv
  <1>4. CASE Restored(s)
    <2>1. restoring' = [restoring EXCEPT ![s] = None]
      BY <1>4 DEF Restored
    <2>2. TypeOK'
      BY <1>t, <1>1, <1>2, <2>1 DEF TypeOK, Types
    <2>3. PrunerInv' /\ RoundInv'
      BY <1>t, <1>1, <2>1 DEF KeepInv, PrunerInv, RoundInv, Types
    <2> QED
      BY <1>1, <2>2, <2>3 DEF KeepInv, ClockInv, VictimInv
  <1> QED
    BY <1>3, <1>4

\* The end of a cycle: the threads lose their owners and keep their lists.
LEMMA LaunchStep ==
  ASSUME KeepInv, Reload \/ \E s \in Server : Leave(s)
  PROVE  KeepInv'
  <1>t. Types
    BY TypesOf
  <1>1. /\ scans' = {[sc EXCEPT !.owned = FALSE] : sc \in scans}
        /\ UNCHANGED <<files, whole, dl, inst, uncleaned, restoring, rounds, clock>>
        /\ cycles < MaxCycles /\ cycles' = cycles + 1
        /\ pruner' = [s \in Server |-> IF phase'[s] = "production" THEN "sleeping" ELSE "none"]
    BY DEF Reload, Leave, Launch, dir
  <1>2. /\ phase' \in [Server -> {"offgrid", "production"}]
        /\ \A s \in Server : phase[s] = "offgrid" => phase'[s] = "offgrid"
    BY <1>t DEF Reload, Leave, Launch, Launched, Types
  <1>3. ASSUME NEW sd \in scans'
        PROVE  /\ sd \in [server : Server, owned : BOOLEAN, victims : SUBSET File] /\ ~sd.owned
               /\ \E sc \in scans : sc.server = sd.server /\ sc.victims = sd.victims
    <2>1. PICK sc \in scans : sd = [sc EXCEPT !.owned = FALSE]
      BY <1>1
    <2>2. sc \in [server : Server, owned : BOOLEAN, victims : SUBSET File]
      BY <1>t DEF Types
    <2> QED
      BY <2>1, <2>2
  <1>4. TypeOK'
    BY <1>t, <1>1, <1>2, <1>3 DEF TypeOK, Types
  <1>5. PrunerInv'
    BY <1>t, <1>1, <1>2, <1>3 DEF KeepInv, PrunerInv, Types
  <1>6. VictimInv'
    BY <1>1, <1>3 DEF KeepInv, VictimInv
  <1> QED
    BY <1>1, <1>4, <1>5, <1>6 DEF KeepInv, ClockInv, RoundInv

\* A setup deletes files that no thread has listed and no restoration has picked, all of
\* them or some.
LEMMA SetupStep ==
  ASSUME KeepInv, NEW s \in Server, Setup(s) \/ DeleteBackups(s) \/ SetupErr(s)
  PROVE  KeepInv'
  <1>t. Types
    BY TypesOf
  <1>1. CASE Setup(s)
    <2>1. /\ phase[s] = "offgrid" /\ inst[s] < MaxInst /\ restoring[s] = None
          /\ \A sc \in scans : sc.server # s
          /\ phase' = [phase EXCEPT ![s] = "installed"] /\ inst' = [inst EXCEPT ![s] = @ + 1]
          /\ uncleaned' = [uncleaned EXCEPT ![s] = Matching(s) # {}]
          /\ UNCHANGED <<files, whole, dl, pruner, scans, restoring, rounds, clock, cycles>>
      BY <1>1 DEF Setup, dir
    <2>2. uncleaned' \in [Server -> BOOLEAN]
      BY <1>t, <2>1, Zenon DEF Types
    <2>3. TypeOK'
      BY <1>t, <2>1, <2>2 DEF TypeOK, Types
    <2>4. PrunerInv'
      BY <1>t, <2>1 DEF KeepInv, PrunerInv, Types
    <2> QED
      BY <2>1, <2>3, <2>4 DEF KeepInv, ClockInv, VictimInv, RoundInv
  <1>2. CASE DeleteBackups(s) \/ SetupErr(s)
    <2>1. /\ phase[s] = "installed" /\ UNCHANGED <<dl, inst, pruner, scans, restoring, rounds, clock, cycles>>
          /\ phase' \in {[phase EXCEPT ![s] = "cleaned"], [phase EXCEPT ![s] = "over"]}
          /\ uncleaned' \in {uncleaned, [uncleaned EXCEPT ![s] = FALSE]}
      BY <1>2 DEF DeleteBackups, SetupErr
    <2>2. PICK gone \in SUBSET Matching(s) : files' = files \ gone /\ whole' = whole \ gone
      BY <1>2 DEF DeleteBackups, SetupErr
    <2>3. /\ files' \subseteq files /\ whole' \subseteq files'
          /\ \A f \in files : f.server # s => f \in files'
      BY <1>t, <2>2, MatchingIs DEF Types
    <2>4. TypeOK'
      BY <1>t, <2>1, <2>3 DEF TypeOK, Types
    <2>5. IsFiniteSet(files')
      BY <1>t, <2>3, FS_Subset DEF Types
    <2>6. PrunerInv' /\ ClockInv'
      BY <1>t, <2>1, <2>3 DEF KeepInv, PrunerInv, ClockInv, Types
    <2>7. \A f : f.server # s => NewerIn(files', f) = NewerIn(files, f)
      BY <2>3 DEF NewerIn
    <2>8. VictimInv'
      <3>1. \A sc \in scans : sc.server # s
        BY <2>1 DEF KeepInv, PrunerInv
      <3> QED
        BY <2>1, <2>3, <2>7, <3>1 DEF KeepInv, VictimInv
    <2>9. RoundInv'
      <3>1. restoring[s] = None
        BY <2>1 DEF KeepInv, PrunerInv
      <3> QED
        BY <2>1, <2>3, <2>7, <3>1 DEF KeepInv, RoundInv
    <2> QED
      BY <2>4, <2>5, <2>6, <2>8, <2>9 DEF KeepInv
  <1> QED
    BY <1>1, <1>2

\* A crash leaves the files and nothing that was under way.
LEMMA CrashStep ==
  ASSUME KeepInv, Crash
  PROVE  KeepInv'
  <1>t. Types
    BY TypesOf
  <1>1. /\ dl' = {} /\ scans' = {} /\ UNCHANGED <<files, whole, inst, uncleaned, clock>>
        /\ restoring' = [s \in Server |-> None] /\ rounds' = [s \in Server |-> 0]
        /\ cycles < MaxCycles /\ cycles' = cycles + 1
        /\ phase' = [s \in Server |-> IF phase[s] = "offgrid" THEN "offgrid" ELSE "production"]
        /\ pruner' = [s \in Server |-> IF phase'[s] = "production" THEN "sleeping" ELSE "none"]
    BY DEF Crash, Launch, Launched
  <1>2. TypeOK'
    BY <1>t, <1>1 DEF TypeOK, Types
  <1>3. PrunerInv' /\ RoundInv'
    BY <1>t, <1>1 DEF KeepInv, PrunerInv, RoundInv, Types
  <1> QED
    BY <1>1, <1>2, <1>3 DEF KeepInv, ClockInv, VictimInv

LEMMA KeepStep ==
  ASSUME KeepInv, [Next]_vars
  PROVE  KeepInv'
  <1>1. CASE Next
    BY <1>1, BackupStep, PruneStep, RestoreStep, LaunchStep, SetupStep, CrashStep DEF Next
  <1>2. CASE UNCHANGED vars
    BY <1>2 DEF vars, dir, KeepInv, TypeOK, ClockInv, PrunerInv, VictimInv, RoundInv
  <1> QED
    BY <1>1, <1>2

\* The invariant holds in every state.
LEMMA Kept == Spec => []KeepInv
  BY KeepInit, KeepStep, PTL DEF Spec

\* Type correctness of the directory, the pruners and the restorations.
THEOREM TypeCorrect == Spec => []TypeOK
  <1>1. KeepInv => TypeOK
    BY DEF KeepInv
  <1> QED
    BY <1>1, Kept, PTL

\* The file that write_ansible_vars picked is there until the playbook has copied it:
\* whatever number of threads of prune_xui_backups, those of aborted pruners too, remove
\* files at the same time, none of them removes one of the newest Retained.
THEOREM PickedKeptHolds == Spec => []PickedKept
  <1>1. KeepInv => PickedKept
    BY DEF KeepInv, RoundInv, PickedKept
  <1> QED
    BY <1>1, Kept, PTL

-----------------------------------------------------------------------------
(* Whose backup is restored. *)

\* Later backups are of later installations, none of one to come.
InstInv ==
  /\ \A f \in files : f.inst <= inst[f.server]
  /\ \A f, g \in files : f.server = g.server /\ f.time <= g.time => f.inst <= g.inst

\* Where a backup of an earlier installation lies, the setup has not deleted it and there
\* is nothing newer, or there is a backup of the present installation.
FreshInv ==
  /\ \A f \in files : f.inst # inst[f.server] =>
       uncleaned[f.server] \/ \E g \in files : g.server = f.server /\ g.inst = inst[f.server]
  /\ \A f \in files : phase[f.server] = "installed" => uncleaned[f.server]

OwnInv == KeepInv /\ InstInv /\ FreshInv

LEMMA OwnInit == Init => OwnInv
  <1> SUFFICES ASSUME Init PROVE OwnInv
    OBVIOUS
  <1> QED
    BY KeepInit DEF OwnInv, Init, InstInv, FreshInv

\* A pruning leaves a backup of the present installation if there was one: whatever it
\* removes has a newer one, and that is of the same installation.
LEMMA PruneOwn ==
  ASSUME OwnInv, NEW sc \in scans, PruneRemove(sc)
  PROVE  (InstInv /\ FreshInv)'
  <1>t. Types
    BY TypesOf DEF OwnInv
  <1>i. \A f \in files : f.server \in Server /\ f.inst \in Nat /\ f.time \in Nat /\ inst[f.server] \in Nat
    BY <1>t DEF Types, File
  <1>1. UNCHANGED <<inst, phase, uncleaned>>
    BY DEF PruneRemove
  <1>2. CASE files' = files
    BY <1>1, <1>2 DEF OwnInv, InstInv, FreshInv
  <1>3. ASSUME NEW x \in sc.victims, x \in files, files' = files \ {x}
        PROVE  (InstInv /\ FreshInv)'
    <2>1. Cardinality(NewerIn(files, x)) >= Retained
      BY <1>3 DEF OwnInv, KeepInv, VictimInv
    <2>2. NewerIn(files, x) # {}
      BY <2>1, FS_EmptySet
    <2>3. PICK h \in files : h.server = x.server /\ h.time > x.time
      BY <2>2 DEF NewerIn
    <2>4. h \in files' /\ x.inst <= h.inst /\ h.inst <= inst[h.server]
      BY <1>i, <1>3, <2>3 DEF OwnInv, InstInv
    <2>5. InstInv'
      BY <1>1, <1>3 DEF OwnInv, InstInv
    <2>6. FreshInv'
      <3>1. ASSUME NEW f \in files', f.inst # inst[f.server], ~uncleaned[f.server]
            PROVE  \E g \in files' : g.server = f.server /\ g.inst = inst[f.server]
        <4>1. PICK g \in files : g.server = f.server /\ g.inst = inst[f.server]
          BY <1>3, <3>1 DEF OwnInv, FreshInv
        <4>2. CASE g = x
          <5>1. h.server = f.server /\ h.inst = inst[f.server]
            BY <1>i, <1>3, <2>3, <2>4, <4>1, <4>2
          <5> QED
            BY <2>4, <5>1
        <4>3. CASE g # x
          BY <1>3, <4>1, <4>3
        <4> QED
          BY <4>2, <4>3
      <3> QED
        BY <1>1, <1>3, <3>1 DEF OwnInv, FreshInv
    <2> QED
      BY <2>5, <2>6
  <1> QED
    BY <1>2, <1>3 DEF PruneRemove, Newest

\* A setup raises the number of the installation and notes what it found; the first
\* backup of the new installation is the newest.
LEMMA OwnStep ==
  ASSUME OwnInv, [Next]_vars
  PROVE  OwnInv'
  <1>k. KeepInv /\ KeepInv'
    BY KeepStep DEF OwnInv
  <1>t. Types
    BY <1>k, TypesOf
  <1>s. \A f \in files : f.server \in Server /\ f.inst \in Nat /\ f.time \in Nat
    BY <1>t DEF Types, File
  <1> SUFFICES (InstInv /\ FreshInv)'
    BY <1>k DEF OwnInv
  <1>1. CASE UNCHANGED <<files, inst, uncleaned>>
             /\ \A s \in Server : phase'[s] = "installed" => phase[s] = "installed"
    BY <1>s, <1>1 DEF OwnInv, InstInv, FreshInv
  <1>2. ASSUME NEW s \in Server, BeginBackup(s) PROVE (InstInv /\ FreshInv)'
    <2> DEFINE new == [server |-> s, time |-> clock + 1, inst |-> inst[s]]
    <2>1. /\ files' = files \cup {new} /\ uncleaned' = [uncleaned EXCEPT ![s] = FALSE]
          /\ phase[s] = "production" /\ UNCHANGED <<inst, phase>>
      BY <1>2 DEF BeginBackup
    <2>2. new.server = s /\ new.time = clock + 1 /\ new.inst = inst[s]
      OBVIOUS
    <2> HIDE DEF new
    <2>3. \A f \in files : f.time <= clock /\ clock \in Nat
      BY <1>t DEF OwnInv, KeepInv, ClockInv, Types
    <2>4. InstInv'
      <3>1. \A f \in files : f.time < new.time
        BY <1>s, <2>2, <2>3
      <3>2. \A f \in files : f.server = s => f.inst <= new.inst
        BY <2>2 DEF OwnInv, InstInv
      <3>3. inst[s] <= inst[s]
        BY <1>t DEF Types
      <3>4. \A f \in files' : f.inst <= inst'[f.server]
        BY <2>1, <2>2, <3>3 DEF OwnInv, InstInv
      <3>5. ASSUME NEW f \in files', NEW g \in files', f.server = g.server, f.time <= g.time
            PROVE  f.inst <= g.inst
        <4>1. CASE f \in files /\ g \in files
          BY <3>5, <4>1 DEF OwnInv, InstInv
        <4>2. CASE f \in files /\ g = new
          BY <2>2, <3>2, <3>5, <4>2
        <4>3. CASE f = new /\ g \in files
          <5>1. g.time < f.time /\ g.time \in Nat /\ f.time \in Nat
            BY <1>s, <1>t, <2>2, <3>1, <4>3 DEF Types
          <5> QED
            BY <3>5, <5>1
        <4>4. CASE f = new /\ g = new
          BY <2>2, <3>3, <4>4
        <4> QED
          BY <2>1, <4>1, <4>2, <4>3, <4>4
      <3> QED
        BY <3>4, <3>5 DEF InstInv
    <2>5. FreshInv'
      <3>1. ASSUME NEW f \in files', f.server # s, f.inst # inst[f.server]
            PROVE  \/ uncleaned'[f.server]
                   \/ \E g \in files' : g.server = f.server /\ g.inst = inst[f.server]
        <4>1. f \in files /\ uncleaned'[f.server] = uncleaned[f.server]
          BY <1>s, <1>t, <2>1, <2>2, <3>1 DEF Types
        <4> QED
          BY <2>1, <3>1, <4>1 DEF OwnInv, FreshInv
      <3>2. ASSUME NEW f \in files', phase[f.server] = "installed"
            PROVE  uncleaned'[f.server]
        <4>1. f \in files /\ f.server # s
          BY <2>1, <2>2, <3>2
        <4>2. uncleaned'[f.server] = uncleaned[f.server]
          BY <1>s, <1>t, <2>1, <4>1 DEF Types
        <4> QED
          BY <3>2, <4>1, <4>2 DEF OwnInv, FreshInv
      <3> QED
        BY <2>1, <2>2, <3>1, <3>2 DEF FreshInv
    <2> QED
      BY <2>4, <2>5
  <1>3. ASSUME NEW s \in Server, Setup(s) PROVE (InstInv /\ FreshInv)'
    <2>1. /\ files' = files /\ inst' = [inst EXCEPT ![s] = @ + 1]
          /\ phase' = [phase EXCEPT ![s] = "installed"]
          /\ uncleaned' = [uncleaned EXCEPT ![s] = Matching(s) # {}]
      BY <1>3 DEF Setup, dir
    <2>2. \A f \in files : f.server = s => uncleaned'[s]
      BY <1>t, <2>1, MatchingIs DEF Types
    <2>3. \A r \in Server : r # s => inst'[r] = inst[r] /\ phase'[r] = phase[r]
                                       /\ uncleaned'[r] = uncleaned[r]
      BY <1>t, <2>1 DEF Types
    <2>4. inst'[s] = inst[s] + 1 /\ inst[s] \in Nat
      BY <1>t, <2>1 DEF Types
    <2>5. InstInv'
      BY <1>s, <2>1, <2>3, <2>4 DEF OwnInv, InstInv
    <2>6. FreshInv'
      BY <1>s, <2>1, <2>2, <2>3 DEF OwnInv, FreshInv
    <2> QED
      BY <2>5, <2>6
  <1>4. ASSUME NEW s \in Server, DeleteBackups(s) \/ SetupErr(s) PROVE (InstInv /\ FreshInv)'
    <2>1. /\ phase[s] = "installed" /\ phase' \in {[phase EXCEPT ![s] = "cleaned"], [phase EXCEPT ![s] = "over"]}
          /\ inst' = inst
      BY <1>4 DEF DeleteBackups, SetupErr
    <2>2. PICK gone \in SUBSET Matching(s) : files' = files \ gone
      BY <1>4 DEF DeleteBackups, SetupErr
    <2>3. files' \subseteq files /\ \A f \in files : f.server # s => f \in files'
      BY <1>t, <2>2, MatchingIs DEF Types
    <2>4. /\ \A f \in files' : f.server = s => uncleaned'[s]
          /\ \A r \in Server : r # s => phase'[r] = phase[r] /\ uncleaned'[r] = uncleaned[r]
      <3>1. CASE DeleteBackups(s)
        BY <1>t, <3>1, MatchingIs DEF DeleteBackups, Types
      <3>2. CASE SetupErr(s)
        BY <1>t, <2>1, <2>3, <3>2 DEF SetupErr, OwnInv, FreshInv, Types
      <3> QED
        BY <1>4, <3>1, <3>2
    <2>5. InstInv'
      BY <2>1, <2>3 DEF OwnInv, InstInv
    <2>6. FreshInv'
      BY <1>s, <2>1, <2>3, <2>4 DEF OwnInv, FreshInv
    <2> QED
      BY <2>5, <2>6
  <1>5. CASE Reload \/ Crash \/ \E s \in Server : Leave(s)
    BY <1>1, <1>5 DEF Reload, Leave, Crash, Launch, Launched, dir
  <1>6. ASSUME NEW s \in Server, PruneScan(s) \/ Prunes(s) PROVE (InstInv /\ FreshInv)'
    <2>1. CASE PruneScan(s)
      BY <1>1, <2>1 DEF PruneScan, dir
    <2>2. ASSUME NEW sc \in scans, PruneEnd(sc) PROVE (InstInv /\ FreshInv)'
      BY <1>1, <2>2 DEF PruneEnd, dir
    <2> QED
      BY <1>6, <2>1, <2>2, PruneOwn DEF Prunes
  <1>7. ASSUME NEW s \in Server, Pick(s) \/ Restored(s) PROVE (InstInv /\ FreshInv)'
    BY <1>1, <1>7 DEF Pick, Restored, dir
  <1>8. ASSUME NEW f \in dl, EndBackup(f) \/ BackupErr(f) PROVE (InstInv /\ FreshInv)'
    BY <1>1, <1>8 DEF EndBackup, BackupErr
  <1>9. CASE UNCHANGED vars
    BY <1>1, <1>9 DEF vars, dir
  <1> QED
    BY <1>2, <1>3, <1>4, <1>5, <1>6, <1>7, <1>8, <1>9 DEF Next

\* What one step may begin to restore.
PicksOwn ==
  \A s \in Server : restoring'[s] \notin {restoring[s], None} =>
    /\ restoring'[s].server = s
    /\ restoring'[s].inst = inst[s] \/ uncleaned[s]

LEMMA OwnPick ==
  ASSUME OwnInv, [Next]_vars
  PROVE  PicksOwn
  <1>t. Types
    BY TypesOf DEF OwnInv
  <1>1. ASSUME NEW s \in Server, Pick(s) PROVE PicksOwn
    <2>1. PICK f \in Newest(Matching(s)) : restoring' = [restoring EXCEPT ![s] = f]
      BY <1>1 DEF Pick
    <2>2. f \in files /\ f.server = s /\ \A g \in files : g.server = s => g.time <= f.time
      BY <1>t, <2>1, MatchingIs DEF Newest, Types
    <2>3. f.inst = inst[s] \/ uncleaned[s]
      <3> SUFFICES ASSUME f.inst # inst[s], ~uncleaned[s] PROVE FALSE
        OBVIOUS
      <3>1. PICK g \in files : g.server = s /\ g.inst = inst[s]
        BY <2>2 DEF OwnInv, FreshInv
      <3>2. g.inst <= f.inst /\ f.inst <= inst[s]
        BY <2>2, <3>1 DEF OwnInv, InstInv
      <3>3. f.inst \in Nat /\ inst[s] \in Nat
        BY <1>t, <2>2 DEF Types, File
      <3> QED
        BY <3>1, <3>2, <3>3
    <2>4. \A r \in Server : restoring'[r] = IF r = s THEN f ELSE restoring[r]
      BY <1>t, <2>1 DEF Types
    <2> QED
      BY <2>2, <2>3, <2>4 DEF PicksOwn
  <1>2. CASE \A s \in Server : restoring'[s] \in {restoring[s], None}
    BY <1>2 DEF PicksOwn
  <1>3. ASSUME NEW s \in Server, Restored(s) PROVE PicksOwn
    BY <1>t, <1>2, <1>3 DEF Restored, Types
  <1>4. CASE Crash
    BY <1>2, <1>4 DEF Crash
  <1>5. CASE restoring' = restoring
    BY <1>2, <1>5
  <1>6. ASSUME NEW s \in Server,
               \/ BeginBackup(s) \/ PruneScan(s) \/ Prunes(s)
               \/ Leave(s) \/ Setup(s) \/ DeleteBackups(s) \/ SetupErr(s)
        PROVE  restoring' = restoring
    BY <1>6 DEF BeginBackup, PruneScan, Prunes, PruneRemove, PruneEnd, Leave, Setup,
                DeleteBackups, SetupErr
  <1>7. ASSUME NEW f \in dl, EndBackup(f) \/ BackupErr(f) PROVE restoring' = restoring
    BY <1>7 DEF EndBackup, BackupErr
  <1>8. CASE Reload \/ UNCHANGED vars
    BY <1>5, <1>8 DEF Reload, vars
  <1> QED
    BY <1>1, <1>3, <1>4, <1>5, <1>6, <1>7, <1>8 DEF Next

\* A restoration puts into a server a database of its own only, although all the servers'
\* files lie in one directory, and of the present installation, unless the setup was cut
\* off, by an error, the end of the cycle or a crash, before delete_xui_backups had
\* done its work and no backup has been taken since.
THEOREM OwnBackupHolds == Spec => OwnBackup
  <1>1. OwnInv /\ [Next]_vars => OwnInv'
    BY OwnStep
  <1>2. OwnInv /\ [Next]_vars =>
          [\A s \in Server : restoring'[s] \notin {restoring[s], None} =>
             /\ restoring'[s].server = s
             /\ restoring'[s].inst = inst[s] \/ uncleaned[s]]_vars
    BY OwnPick DEF PicksOwn
  <1> QED
    BY <1>1, <1>2, OwnInit, PTL DEF Spec, OwnBackup
=============================================================================
