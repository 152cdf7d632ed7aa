-------------------------- MODULE DaemonLockProofs --------------------------
(***************************************************************************)
(* Proofs about the start-up lock, for any set of processes and any number *)
(* of crashes: with starts and stops one at a time it is the single daemon *)
(* of SingleDaemon.                                                        *)
(***************************************************************************)
EXTENDS DaemonLock, TLAPS

\* Only one process at a time starts or stops.
Alone == \A p, q \in Proc : InTransit(p) /\ InTransit(q) => p = q

\* Serving or shutting down, there is one daemon.
OneHolder == \A p, q \in Holders : p = q

\* A start that has passed the PID check started without a daemon.
NoneBehind ==
  \A p \in Proc : pc[p] \in Starting \ {"pidcheck"} => Holders = {}

\* The files a start has written so far are its own.
OwnFiles ==
  \A p \in Proc :
    /\ pc[p] = "rename" => tmp = p
    /\ pc[p] = "bind" => pidfile = p

LockInv == TypeOK /\ Alone /\ OneHolder /\ Reachable /\ NoneBehind /\ OwnFiles

USE DEF Starting, Stopping, Pc, Files

\* Every step keeps the types, however starts and stops overlap.
LEMMA TypeStep == TypeOK /\ [Next]_vars => TypeOK'
<1> SUFFICES ASSUME TypeOK, [Next]_vars PROVE TypeOK'
  OBVIOUS
<1> USE LockAssumption, NoFileAssumption DEF TypeOK, vars, files, Goto, Refused
<1>1. CASE UNCHANGED vars
  BY <1>1
<1>2. ASSUME NEW p \in Proc, Start(p) \/ Stop(p) \/ Recycle(p) \/ ForeignEnds(p)
      PROVE TypeOK'
  BY <1>2 DEF Start, Stop, Recycle, ForeignEnds
<1>3. ASSUME NEW p \in Proc, AcquireLock(p) PROVE TypeOK'
  BY <1>3 DEF AcquireLock, CheckPid, RemoveStalePid, CheckSocket, RemoveStaleSock,
              WriteTmp, RenamePid, Bind
<1>4. ASSUME NEW p \in Proc, Cleanup(p) PROVE TypeOK'
  BY <1>4 DEF Cleanup, UnlinkPid, UnlinkSock
<1>5. ASSUME NEW p \in Proc, Crash(p) PROVE TypeOK'
  BY <1>5 DEF Crash
<1> QED
  BY <1>1, <1>2, <1>3, <1>4, <1>5 DEF Next

\* Every state is well typed: the files hold PIDs of processes that wrote them.
THEOREM TypeCorrect == Spec => []TypeOK
<1>1. Init => TypeOK
  BY LockAssumption DEF Init, TypeOK
<1> QED
  BY <1>1, TypeStep, PTL DEF Spec

-----------------------------------------------------------------------------

\* The PID check lets a start pass only if there is no daemon.
LEMMA PassedAlone ==
  ASSUME LockInv, NEW p \in Proc, pc[p] = "pidcheck", ~Alive(pidfile)
  PROVE  Holders = {}
<1> SUFFICES ASSUME NEW h \in Proc, h \in Holders PROVE FALSE
  BY DEF Holders
<1>1. CASE pc[h] = "held"
  BY <1>1 DEF LockInv, Reachable, Alive
<1>2. CASE pc[h] \in Stopping
  BY <1>2 DEF LockInv, Alone, InTransit
<1> QED
  BY <1>1, <1>2 DEF Holders

\* The steps of acquire_lock before bind: the daemons stay the same.
LEMMA AcquireStep ==
  ASSUME LockInv, TypeOK', NEW p \in Proc, AcquireLock(p), ~Bind(p)
  PROVE  LockInv' /\ Holders' = Holders
<1> USE NoFileAssumption DEF Goto, Refused, files
<1>0. /\ pc[p] \in Starting
      /\ \E l \in (Starting \cup {"none"}) : pc' = [pc EXCEPT ![p] = l]
  BY DEF AcquireLock, CheckPid, RemoveStalePid, CheckSocket, RemoveStaleSock,
         WriteTmp, RenamePid, Bind
<1>1. Holders' = Holders
  BY <1>0 DEF Holders, LockInv, TypeOK
<1>2. Alone'
  BY <1>0 DEF Alone, InTransit, LockInv, TypeOK
<1>3. OneHolder'
  BY <1>1 DEF OneHolder, LockInv
<1>4. CASE CheckPid(p)
  <2>1. NoneBehind'
    <3>1. CASE pc'[p] = "none"
      BY <1>0, <1>1, <1>4, <3>1 DEF NoneBehind, LockInv, TypeOK, CheckPid
    <3>2. CASE ~Alive(pidfile)
      <4>1. Holders = {}
        BY <1>4, <3>2, PassedAlone DEF CheckPid
      <4> QED
        BY <1>1, <4>1 DEF NoneBehind
    <3> QED
      BY <1>4, <3>1, <3>2 DEF CheckPid, LockInv, TypeOK, Alive
  <2>2. Reachable' /\ OwnFiles'
    BY <1>0, <1>4 DEF CheckPid, Reachable, OwnFiles, LockInv, TypeOK
  <2> QED
    BY <1>1, <1>2, <1>3, <2>1, <2>2 DEF LockInv
<1>5. CASE ~CheckPid(p)
  <2>1. pc[p] # "pidcheck"
    BY <1>5 DEF AcquireLock, CheckPid, RemoveStalePid, CheckSocket, RemoveStaleSock,
                WriteTmp, RenamePid, Bind
  <2>2. Holders = {}
    BY <1>0, <2>1 DEF LockInv, NoneBehind
  <2>3. Reachable' /\ NoneBehind'
    BY <1>1, <2>2 DEF Reachable, NoneBehind, Holders
  <2>4. \A q \in Proc : q # p => pc'[q] = pc[q] /\ pc[q] \notin Starting
    BY <1>0 DEF LockInv, Alone, InTransit, TypeOK
  <2>5. pc'[p] = "rename" => tmp' = p
    BY <1>5 DEF AcquireLock, CheckPid, RemoveStalePid, CheckSocket, RemoveStaleSock,
                WriteTmp, RenamePid, Bind, LockInv, TypeOK
  <2>6. pc'[p] = "bind" => pidfile' = p
    BY <1>5 DEF AcquireLock, CheckPid, RemoveStalePid, CheckSocket, RemoveStaleSock,
                WriteTmp, RenamePid, Bind, LockInv, TypeOK, OwnFiles
  <2>7. OwnFiles'
    BY <2>4, <2>5, <2>6 DEF OwnFiles
  <2> QED
    BY <1>1, <1>2, <1>3, <2>3, <2>7 DEF LockInv
<1> QED
  BY <1>1, <1>4, <1>5

\* bind makes the process the daemon, or ends it.
LEMMA BindStep ==
  ASSUME LockInv, TypeOK', NEW p \in Proc, Bind(p)
  PROVE  LockInv' /\ Holders = {} /\ (Holders' = {} \/ Holders' = {p})
<1> USE NoFileAssumption DEF Goto, Refused, files
<1>1. Holders = {}
  BY DEF Bind, LockInv, NoneBehind
<1>2. /\ pc' = [pc EXCEPT ![p] = "none"] \/ pc' = [pc EXCEPT ![p] = "held"]
      /\ UNCHANGED <<pidfile, tmp>>
      /\ pc'[p] = "held" => sock' = p
  BY DEF Bind, LockInv, TypeOK
<1>3. \A q \in Proc : q # p => pc'[q] = pc[q] /\ pc[q] \notin (Starting \cup Stopping \cup {"held"})
  BY <1>1, <1>2 DEF Bind, LockInv, Alone, InTransit, TypeOK, Holders
<1>4. Holders' = {} \/ Holders' = {p}
  BY <1>2, <1>3 DEF Holders, LockInv, TypeOK
<1>5. Alone' /\ OwnFiles' /\ NoneBehind'
  BY <1>2, <1>3 DEF Alone, InTransit, OwnFiles, NoneBehind, LockInv, TypeOK
<1>6. Reachable'
  BY <1>2, <1>3 DEF Reachable, LockInv, OwnFiles, Bind
<1> QED
  BY <1>1, <1>4, <1>5, <1>6 DEF LockInv, OneHolder

\* Starting, stopping, cleaning up and crashing: no process becomes the daemon.
LEMMA OtherStep ==
  ASSUME LockInv, TypeOK', Serial, NEW p \in Proc,
         Start(p) \/ Stop(p) \/ Cleanup(p) \/ Crash(p) \/ Recycle(p) \/ ForeignEnds(p)
  PROVE  LockInv' /\ (Holders' = Holders \/ (p \in Holders /\ Holders' = Holders \ {p}))
<1> USE NoFileAssumption DEF Goto, Refused, files
<1>1. CASE Start(p)
  <2>1. Holders' = Holders
    BY <1>1 DEF Start, Holders, LockInv, TypeOK
  <2> QED
    BY <1>1, <2>1 DEF Start, Quiet, LockInv, TypeOK, Alone, InTransit, OneHolder,
                      Reachable, NoneBehind, OwnFiles
<1>2. CASE Stop(p)
  <2>1. Holders' = Holders
    BY <1>2 DEF Stop, Holders, LockInv, TypeOK
  <2> QED
    BY <1>2, <2>1 DEF Stop, Quiet, LockInv, TypeOK, Alone, InTransit, OneHolder,
                      Reachable, NoneBehind, OwnFiles
<1>3. CASE Cleanup(p)
  <2>1. /\ pc[p] \in Stopping
        /\ pc' = [pc EXCEPT ![p] = "none"] \/ pc' = [pc EXCEPT ![p] = "unlinksock"]
    BY <1>3 DEF Cleanup, UnlinkPid, UnlinkSock
  <2>2. \A q \in Proc : q # p => pc'[q] = pc[q] /\ pc[q] \notin (Starting \cup Stopping \cup {"held"})
    BY <2>1 DEF LockInv, Alone, InTransit, TypeOK, OneHolder, Holders
  <2>3. p \in Holders /\ (Holders' = Holders \/ Holders' = Holders \ {p})
    BY <2>1 DEF Holders, LockInv, TypeOK
  <2> QED
    BY <2>1, <2>2, <2>3 DEF LockInv, TypeOK, Alone, InTransit, OneHolder,
                            Reachable, NoneBehind, OwnFiles
<1>4. CASE Crash(p)
  <2>1. Holders' = Holders \ {p}
    BY <1>4 DEF Crash, Holders, LockInv, TypeOK
  <2> QED
    BY <1>4, <2>1 DEF Crash, LockInv, TypeOK, Alone, InTransit, OneHolder,
                      Reachable, NoneBehind, OwnFiles
<1>5. CASE Recycle(p) \/ ForeignEnds(p)
  <2>1. Holders' = Holders
    BY <1>5 DEF Recycle, ForeignEnds, Holders, LockInv, TypeOK
  <2> QED
    BY <1>5, <2>1 DEF Recycle, ForeignEnds, LockInv, TypeOK, Alone, InTransit, OneHolder,
                      Reachable, NoneBehind, OwnFiles
<1> QED
  BY <1>1, <1>2, <1>3, <1>4, <1>5

\* The invariant is inductive, and every step is one of the abstract
\* specification or leaves the daemon as it is.
LEMMA LockStep ==
  ASSUME Serial, LockInv, [Next]_vars
  PROVE  LockInv' /\ [Abstract!Next]_Holders
<1>0. TypeOK'
  BY TypeStep DEF LockInv
<1>1. CASE UNCHANGED vars
  BY <1>1 DEF vars, LockInv, TypeOK, Alone, InTransit, OneHolder, Holders,
              Reachable, NoneBehind, OwnFiles
<1>2. ASSUME NEW p \in Proc, AcquireLock(p), ~Bind(p)
      PROVE LockInv' /\ [Abstract!Next]_Holders
  BY <1>0, <1>2, AcquireStep
<1>3. ASSUME NEW p \in Proc, Bind(p)
      PROVE LockInv' /\ [Abstract!Next]_Holders
  BY <1>0, <1>3, BindStep DEF Abstract!Next, Abstract!Acquire
<1>4. ASSUME NEW p \in Proc,
             Start(p) \/ Stop(p) \/ Cleanup(p) \/ Crash(p) \/ Recycle(p) \/ ForeignEnds(p)
      PROVE LockInv' /\ [Abstract!Next]_Holders
  BY <1>0, <1>4, OtherStep DEF Abstract!Next, Abstract!Release
<1> QED
  BY <1>1, <1>2, <1>3, <1>4 DEF Next

LEMMA LockStarts == Init => LockInv /\ Abstract!Init
  BY LockAssumption DEF Init, LockInv, TypeOK, Alone, InTransit, OneHolder, Holders,
     Reachable, NoneBehind, OwnFiles, Abstract!Init

\* With starts and stops one at a time no two processes ever serve the same
\* directory, whatever crashes at whatever step and whoever gets its PID.
THEOREM UniqueHolds == ASSUME Serial PROVE Spec => []Unique
<1>1. LockInv => Unique
  BY DEF LockInv, OneHolder, Holders, Unique
<1>2. LockInv /\ [Next]_vars => LockInv'
  BY LockStep
<1> QED
  BY <1>1, <1>2, LockStarts, PTL DEF Spec

\* Under the same assumption both files always name the daemon that serves.
THEOREM ReachableHolds == ASSUME Serial PROVE Spec => []Reachable
<1>1. LockInv => Reachable
  BY DEF LockInv
<1>2. LockInv /\ [Next]_vars => LockInv'
  BY LockStep
<1> QED
  BY <1>1, <1>2, LockStarts, PTL DEF Spec

\* The lock implements the single daemon.
THEOREM LockRefines == ASSUME Serial PROVE Spec => SingleDaemonSpec
<1>1. LockInv /\ [Next]_vars => LockInv' /\ [Abstract!Next]_Holders
  BY LockStep
<1> QED
  BY <1>1, LockStarts, PTL DEF Spec, SingleDaemonSpec, Abstract!Spec
=============================================================================
