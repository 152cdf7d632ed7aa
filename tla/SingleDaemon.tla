---------------------------- MODULE SingleDaemon ----------------------------
(***************************************************************************)
(* What the PID file and the socket are for: of all the processes of the   *)
(* host at most one is the daemon.  DaemonLock implements it.              *)
(***************************************************************************)
CONSTANT Proc

VARIABLE holders

Init == holders = {}

Acquire(p) == holders = {} /\ holders' = {p}

Release(p) == p \in holders /\ holders' = holders \ {p}

Next == \E p \in Proc : Acquire(p) \/ Release(p)

Spec == Init /\ [][Next]_holders
=============================================================================
