--------------------------- MODULE GeoipDbProofs ---------------------------
(***************************************************************************)
(* Proofs about GeoipDb, for every set of runs and every number of         *)
(* generations and failures.                                               *)
(***************************************************************************)
EXTENDS GeoipDb, TLAPS

\* Whoever may commit or read has a file at the path, the newest there ever was.
FileInv ==
  /\ file = gens
  /\ phase # "down" => file \in Gen
  /\ updater # "none" => phase = "serving"

\* A transaction is seen as a whole or not at all.
WholeInv == \A g \in Gen : content[g] # "part"

\* What a run has opened and read so far: nothing older than the file it began
\* with, and nothing older than its first set.
ReadInv ==
  \A r \in Run :
    /\ run[r] \notin Sets => open[r] = 0
    /\ open[r] # 0 => since[r] <= open[r]
    /\ run[r] \in {"outblocked6", "done"} =>
         /\ got[r]["outblocked4"].content = "full"
         /\ since[r] <= got[r]["outblocked4"].gen
    /\ run[r] = "outblocked6" /\ open[r] # 0 => got[r]["outblocked4"].gen <= open[r]
    /\ run[r] = "done" =>
         /\ got[r]["outblocked6"].content = "full"
         /\ got[r]["outblocked4"].gen <= got[r]["outblocked6"].gen

GeoInv == TypeOK /\ FileInv /\ WholeInv /\ ReadInv

USE GeoipAssumption DEF Gen, Content, Sets

-----------------------------------------------------------------------------
(* Facts about the steps. *)

\* Nothing that has been read is a set yet.
LEMMA NothingType ==
  ASSUME NEW n \in Nat
  PROVE  Nothing \in [Sets -> [gen : 0..n, content : Content]]
  BY DEF Nothing

\* The types of what a run holds survive a new generation.
LEMMA TypesGrow ==
  ASSUME TypeOK, gens' \in 0..MaxGen, gens <= gens', UNCHANGED <<run, open, got, since>>
  PROVE  /\ run' \in [Run -> {"idle", "done", "failed"} \cup Sets]
         /\ open' \in [Run -> 0..gens'] /\ since' \in [Run -> 0..gens']
         /\ got' \in [Run -> [Sets -> [gen : 0..gens', content : Content]]]
  <1>1. gens \in 0..MaxGen
    BY DEF TypeOK
  <1>2. 0..gens \subseteq 0..gens'
    BY <1>1
  <1>3. [gen : 0..gens, content : Content] \subseteq [gen : 0..gens', content : Content]
    BY <1>2
  <1>4. [Sets -> [gen : 0..gens, content : Content]]
          \subseteq [Sets -> [gen : 0..gens', content : Content]]
    BY <1>3
  <1> QED
    BY <1>2, <1>4 DEF TypeOK

\* Stopped leaves no run with anything opened or read.
LEMMA StoppedTypes ==
  ASSUME Stopped, NEW n \in Nat
  PROVE  /\ run' \in [Run -> {"idle", "done", "failed"} \cup Sets]
         /\ open' \in [Run -> 0..n] /\ since' \in [Run -> 0..n]
         /\ got' \in [Run -> [Sets -> [gen : 0..n, content : Content]]]
         /\ ReadInv'
  <1>1. run' = [r \in Run |-> "idle"] /\ open' = [r \in Run |-> 0] /\ since' = [r \in Run |-> 0]
    BY DEF Stopped, Idle
  <1>2. got' = [r \in Run |-> Nothing]
    BY DEF Stopped
  <1> QED
    BY <1>1, <1>2, NothingType DEF ReadInv

\* A commit makes one generation whole.
LEMMA CommitWhole ==
  ASSUME content \in [Gen -> Content], WholeInv, NEW g \in Gen, Commit(g)
  PROVE  content' \in [Gen -> Content] /\ WholeInv'
  BY DEF Commit, WholeInv

-----------------------------------------------------------------------------
(* The invariant. *)

LEMMA GeoInit == Init => GeoInv
  <1> SUFFICES ASSUME Init PROVE GeoInv
    OBVIOUS
  <1>1. got \in [Run -> [Sets -> [gen : 0..0, content : Content]]]
    BY NothingType DEF Init
  <1>2. TypeOK
    BY <1>1 DEF Init, TypeOK, Idle
  <1> QED
    BY <1>2 DEF Init, GeoInv, FileInv, WholeInv, ReadInv, Idle

\* The builders: cycles, the updater and the threads of aborted builders.
LEMMA BuilderStep ==
  ASSUME GeoInv,
         Start \/ PrereqCommit \/ Crash \/ Reload \/ Restart \/ Updater \/ DownloadErr \/ OrphanCommit
  PROVE  GeoInv'
  <1>t. /\ gens \in 0..MaxGen /\ file \in 0..gens /\ file = gens
        /\ content \in [Gen -> Content] /\ WholeInv
        /\ orphans \subseteq 1..gens /\ cycle \in Nat /\ faults \in 0..MaxFaults
        /\ phase \in {"down", "prereq", "serving"} /\ updater \in {"none", "waiting", "building"}
        /\ phase # "down" => file \in Gen
        /\ updater # "none" => phase = "serving"
    BY DEF GeoInv, TypeOK, FileInv
  <1>r. ASSUME UNCHANGED readers, gens' \in 0..MaxGen, gens <= gens'
        PROVE  /\ run' \in [Run -> {"idle", "done", "failed"} \cup Sets]
               /\ open' \in [Run -> 0..gens'] /\ since' \in [Run -> 0..gens']
               /\ got' \in [Run -> [Sets -> [gen : 0..gens', content : Content]]]
               /\ ReadInv'
    <2>1. UNCHANGED <<run, open, got, since>>
      BY <1>r DEF readers
    <2>2. ReadInv'
      BY <2>1 DEF GeoInv, ReadInv
    <2> QED
      BY <1>r, <2>1, <2>2, TypesGrow DEF GeoInv
  <1>1. CASE Start
    BY <1>t, <1>r, <1>1 DEF Start, Recreate, GeoInv, TypeOK, FileInv, WholeInv
  <1>2. CASE PrereqCommit
    <2>1. file \in Gen
      BY <1>t, <1>2 DEF PrereqCommit
    <2>2. content' \in [Gen -> Content] /\ WholeInv'
      BY <1>t, <1>2, <2>1, CommitWhole DEF PrereqCommit
    <2> QED
      BY <1>t, <1>r, <1>2, <2>1, <2>2 DEF PrereqCommit, GeoInv, TypeOK, FileInv
  <1>3. CASE Crash
    <2>1. gens' = gens /\ gens \in Nat
      BY <1>t, <1>3 DEF Crash
    <2> QED
      BY <1>t, <1>3, <2>1, StoppedTypes DEF Crash, Fault, GeoInv, TypeOK, FileInv, WholeInv
  <1>4. CASE Reload
    <2>1. gens' = gens /\ gens \in Nat
      BY <1>t, <1>4 DEF Reload
    <2> QED
      BY <1>t, <1>4, <2>1, StoppedTypes
      DEF Reload, Aborted, GeoInv, TypeOK, FileInv, WholeInv
  <1>5. CASE Restart
    <2>1. gens' = gens + 1 /\ gens' \in Nat /\ gens' \in 1..MaxGen
      BY <1>t, <1>5 DEF Restart
    <2> QED
      BY <1>t, <1>5, <2>1, StoppedTypes
      DEF Restart, Aborted, GeoInv, TypeOK, FileInv, WholeInv
  <1>6. CASE UpdaterTick
    BY <1>t, <1>r, <1>6 DEF UpdaterTick, Recreate, GeoInv, TypeOK, FileInv, WholeInv
  <1>7. CASE UpdaterCommit
    <2>1. file \in Gen
      BY <1>t, <1>7 DEF UpdaterCommit
    <2>2. content' \in [Gen -> Content] /\ WholeInv'
      BY <1>t, <1>7, <2>1, CommitWhole DEF UpdaterCommit
    <2> QED
      BY <1>t, <1>r, <1>7, <2>1, <2>2 DEF UpdaterCommit, GeoInv, TypeOK, FileInv
  <1>8. CASE UpdaterErr \/ DownloadErr
    <2>1. /\ UNCHANGED <<phase, file, content, gens, orphans, cycle>> /\ UNCHANGED readers
          /\ updater' = "waiting" /\ updater # "none"
          /\ faults' \in 0..MaxFaults
      BY <1>t, <1>8 DEF UpdaterErr, DownloadErr, Fault, builder
    <2> QED
      BY <1>t, <1>r, <2>1 DEF GeoInv, TypeOK, FileInv, WholeInv
  <1>9. CASE OrphanCommit
    <2>1. PICK g \in orphans : Commit(g) /\ orphans' = orphans \ {g}
      BY <1>9 DEF OrphanCommit
    <2>2. content' \in [Gen -> Content] /\ WholeInv'
      BY <1>t, <2>1, CommitWhole
    <2> QED
      BY <1>t, <1>r, <1>9, <2>1, <2>2 DEF OrphanCommit, GeoInv, TypeOK, FileInv
  <1> QED
    BY <1>1, <1>2, <1>3, <1>4, <1>5, <1>6, <1>7, <1>8, <1>9 DEF Updater

\* A run of generate_nftops.
LEMMA ReaderStep ==
  ASSUME GeoInv, NEW r \in Run, Begin(r) \/ Open(r) \/ Query(r)
  PROVE  GeoInv'
  <1>t. /\ gens \in 0..MaxGen /\ file \in 0..gens /\ file = gens
        /\ content \in [Gen -> Content]
        /\ run \in [Run -> {"idle", "done", "failed"} \cup Sets] /\ open \in [Run -> 0..gens]
        /\ got \in [Run -> [Sets -> [gen : 0..gens, content : Content]]]
        /\ since \in [Run -> 0..gens]
    BY DEF GeoInv, TypeOK, FileInv
  <1>u. UNCHANGED <<phase, file, content, gens, updater, orphans, cycle, faults>>
    BY DEF Begin, Open, Query, builder
  <1>f. FileInv' /\ WholeInv'
    BY <1>u DEF GeoInv, FileInv, WholeInv
  <1>1. CASE Begin(r)
    <2>1. got' \in [Run -> [Sets -> [gen : 0..gens, content : Content]]]
      BY <1>t, <1>1, NothingType DEF Begin
    <2>2. TypeOK'
      BY <1>t, <1>u, <1>1, <2>1 DEF Begin, GeoInv, TypeOK
    <2>3. ReadInv'
      BY <1>t, <1>1 DEF Begin, GeoInv, ReadInv
    <2> QED
      BY <1>f, <2>2, <2>3 DEF GeoInv
  <1>2. CASE Open(r)
    <2>2. TypeOK'
      BY <1>t, <1>u, <1>2 DEF Open, GeoInv, TypeOK
    <2>3. ReadInv'
      BY <1>t, <1>2 DEF Open, GeoInv, ReadInv
    <2> QED
      BY <1>f, <2>2, <2>3 DEF GeoInv
  <1>3. CASE Query(r)
    <2> DEFINE c == content[open[r]]
    <2>1. open[r] \in Gen /\ c \in Content /\ c # "part"
      BY <1>t, <1>3 DEF Query, GeoInv, WholeInv
    <2>2. run' \in [Run -> {"idle", "done", "failed"} \cup Sets] /\ open' \in [Run -> 0..gens]
      <3> DEFINE Pc == {"idle", "done", "failed"} \cup Sets
      <3>1. run \in [Run -> Pc] /\ open \in [Run -> 0..gens] /\ 0 \in 0..gens
        BY <1>t
      <3>2. After(run[r]) \in Pc /\ "failed" \in Pc
        BY DEF After, Sets
      <3> HIDE DEF Pc
      <3>3. \E w \in Pc : run' = [run EXCEPT ![r] = w]
        BY <1>3, <3>2 DEF Query
      <3>4. run' \in [Run -> Pc]
        BY <3>1, <3>3
      <3>5. open' \in [Run -> 0..gens]
        <4>1. open' = [open EXCEPT ![r] = 0]
          BY <1>3 DEF Query
        <4> QED BY <3>1, <4>1
      <3> QED BY <3>4, <3>5 DEF Pc
    <2>3. got' \in [Run -> [Sets -> [gen : 0..gens, content : Content]]]
      <3> DEFINE new == [gen |-> open[r], content |-> c]
      <3>1. new \in [gen : 0..gens, content : Content]
        BY <1>t, <2>1
      <3>2. got' = got \/ got' = [got EXCEPT ![r] = [got[r] EXCEPT ![run[r]] = new]]
        BY <1>t, <1>3 DEF Query
      <3> HIDE DEF new
      <3>3. [got[r] EXCEPT ![run[r]] = new] \in [Sets -> [gen : 0..gens, content : Content]]
        BY <1>t, <3>1
      <3> QED
        BY <1>t, <3>2, <3>3
    <2>4. TypeOK'
      BY <1>t, <1>u, <1>3, <2>2, <2>3 DEF Query, GeoInv, TypeOK
    <2>5. CASE c = "none"
      <3>1. ReadInv'
        BY <1>t, <1>3, <2>5 DEF Query, GeoInv, ReadInv
      <3> QED
        BY <1>f, <2>4, <3>1 DEF GeoInv
    <2>6. CASE c # "none"
      <3>1. c = "full"
        BY <2>1, <2>6
      <3>2. /\ got' = [got EXCEPT ![r][run[r]] = [gen |-> open[r], content |-> "full"]]
            /\ run' = [run EXCEPT ![r] = After(run[r])]
            /\ open' = [open EXCEPT ![r] = 0] /\ since' = since
            /\ run[r] \in Sets /\ open[r] # 0
        BY <1>3, <3>1 DEF Query
      <3>3. ReadInv'
        BY <1>t, <3>2 DEF After, GeoInv, ReadInv
      <3> QED
        BY <1>f, <2>4, <3>3 DEF GeoInv
    <2> QED
      BY <1>f, <2>4, <2>5, <2>6 DEF GeoInv
  <1> QED
    BY <1>1, <1>2, <1>3

LEMMA GeoStep == GeoInv /\ [Next]_vars => GeoInv'
  <1> SUFFICES ASSUME GeoInv, [Next]_vars PROVE GeoInv'
    OBVIOUS
  <1>1. CASE UNCHANGED vars
    BY <1>1 DEF vars, builder, readers, GeoInv, TypeOK, FileInv, WholeInv, ReadInv
  <1> QED
    BY <1>1, BuilderStep, ReaderStep DEF Next

LEMMA GeoInvariant == Spec => []GeoInv
  BY GeoInit, GeoStep, PTL DEF Spec

-----------------------------------------------------------------------------

\* The generations, the updater and what the runs have read keep their types,
\* through any number of cycles, crashes and aborted builders.
THEOREM TypeCorrect == Spec => []TypeOK
  BY GeoInvariant, PTL DEF GeoInv

\* A run that goes on to Ansible has both its sets from complete databases,
\* whenever create_geoip_db removes and rebuilds the file under it.
THEOREM RulesCompleteHolds == Spec => []RulesComplete
  <1>1. GeoInv => RulesComplete
    BY DEF GeoInv, ReadInv, RulesComplete
  <1> QED
    BY GeoInvariant, <1>1, PTL

\* A run never makes rules of a file older than the complete one it found when it
\* began, nor its second set of a file older than its first: opening the file anew
\* for each set is enough.
THEOREM NotStaleHolds == Spec => []NotStale
  <1>1. GeoInv => NotStale
    BY DEF GeoInv, ReadInv, NotStale
  <1> QED
    BY GeoInvariant, <1>1, PTL
=============================================================================
