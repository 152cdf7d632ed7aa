----------------------------- MODULE DaemonLock -----------------------------
(***************************************************************************)
(* The start-up lock: processes that run daemonize on one runtime          *)
(* directory, with its PID file and its Unix socket.  acquire_lock checks  *)
(* both files, removes those it takes for stale, writes the PID file       *)
(* through a temporary file whose name all processes share, and binds the  *)
(* socket; an orderly end closes the listener and removes both files; any  *)
(* other end leaves them.  Every file operation is a step of its own.      *)
(*                                                                         *)
(* A process is known by its PID.  PIDs are used again, by a later daemon  *)
(* or by a process that has nothing to do with it ("foreign").             *)
(***************************************************************************)
EXTENDS Naturals

CONSTANTS
  Proc,        \* the PIDs
  Serial,      \* TRUE: nobody starts or stops a daemon while another one does
  MaxCrashes   \* bound on the ends that leave the files behind

ASSUME LockAssumption ==
  Serial \in BOOLEAN /\ MaxCrashes \in Nat

NoFile == "no file"
ASSUME NoFileAssumption == NoFile \notin Proc

VARIABLES
  pc,       \* what each process is about to do
  pidfile,  \* the PID in the PID file
  tmp,      \* the PID in the temporary file
  sock,     \* the process that bound the inode at the socket's path
  crashes

vars == <<pc, pidfile, tmp, sock, crashes>>
files == <<pidfile, tmp, sock>>

Starting == {"pidcheck", "pidstale", "sockcheck", "sockstale", "write", "rename", "bind"}
Stopping == {"unlinkpid", "unlinksock"}
Pc       == Starting \cup Stopping \cup {"none", "held", "foreign"}
Files    == Proc \cup {NoFile}

\* Between acquire_lock and the end of cleanup a process is the daemon.
Holders == {p \in Proc : pc[p] \in {"held"} \cup Stopping}

InTransit(p) == pc[p] \in Starting \cup Stopping
Quiet        == Serial => \A q \in Proc : ~InTransit(q)

Init ==
  /\ pc = [p \in Proc |-> "none"]
  /\ pidfile = NoFile /\ tmp = NoFile /\ sock = NoFile
  /\ crashes = 0

Goto(p, l) == pc' = [pc EXCEPT ![p] = l]

\* acquire_lock returned an error: daemonize ends and touches nothing.
RefusedCleansUp(p) ==
  /\ Goto(p, "none")
  /\ pidfile' = NoFile /\ sock' = NoFile
  /\ UNCHANGED tmp
Refused(p) ==
  /\ Goto(p, "none")
  /\ UNCHANGED files

Start(p) ==
  /\ pc[p] = "none" /\ Quiet
  /\ Goto(p, "pidcheck")
  /\ UNCHANGED <<files, crashes>>

\* kill(pid, 0) succeeds for every process we may signal, the caller included.
Alive(pid) == pid \in Proc /\ pc[pid] # "none"

\* is_unique, first half.
CheckPid(p) ==
  /\ pc[p] = "pidcheck"
  /\ \/ pidfile = NoFile /\ Goto(p, "sockcheck") /\ UNCHANGED files
     \/ Alive(pidfile) /\ Refused(p)
     \/ pidfile # NoFile /\ ~Alive(pidfile) /\ Goto(p, "pidstale") /\ UNCHANGED files
  /\ UNCHANGED crashes

RemoveStalePid(p) ==
  /\ pc[p] = "pidstale"
  /\ \/ pidfile = NoFile /\ Refused(p)
     \/ /\ pidfile # NoFile /\ pidfile' = NoFile
        /\ Goto(p, "sockcheck")
        /\ UNCHANGED <<tmp, sock>>
  /\ UNCHANGED crashes

\* connect succeeds while the process that bound the inode keeps its listener.
Connects == sock \in Proc /\ pc[sock] = "held"

\* is_unique, second half.
CheckSocket(p) ==
  /\ pc[p] = "sockcheck"
  /\ \/ sock = NoFile /\ Goto(p, "write") /\ UNCHANGED files
     \/ Connects /\ Refused(p)
     \/ sock # NoFile /\ ~Connects /\ Goto(p, "sockstale") /\ UNCHANGED files
  /\ UNCHANGED crashes

RemoveStaleSockForgets(p) ==
  /\ pc[p] = "sockstale"
  /\ Goto(p, "write")
  /\ UNCHANGED <<files, crashes>>
RemoveStaleSock(p) ==
  /\ pc[p] = "sockstale"
  /\ \/ sock = NoFile /\ Refused(p)
     \/ /\ sock # NoFile /\ sock' = NoFile
        /\ Goto(p, "write")
        /\ UNCHANGED <<pidfile, tmp>>
  /\ UNCHANGED crashes

\* create_pid_file: write the temporary file, then rename it.
WriteTmpEmpty(p) ==
  /\ pc[p] = "write"
  /\ tmp' = ""
  /\ Goto(p, "rename")
  /\ UNCHANGED <<pidfile, sock, crashes>>
WriteTmp(p) ==
  /\ pc[p] = "write"
  /\ tmp' = p
  /\ Goto(p, "rename")
  /\ UNCHANGED <<pidfile, sock, crashes>>

RenamePid(p) ==
  /\ pc[p] = "rename"
  /\ \/ tmp = NoFile /\ Refused(p)
     \/ /\ tmp # NoFile /\ pidfile' = tmp /\ tmp' = NoFile
        /\ Goto(p, "bind")
        /\ UNCHANGED sock
  /\ UNCHANGED crashes

\* create_socket: bind fails if anything is at the path, and the PID file stays.
Bind(p) ==
  /\ pc[p] = "bind"
  /\ \/ sock # NoFile /\ Refused(p)
     \/ /\ sock = NoFile /\ sock' = p
        /\ Goto(p, "held")
        /\ UNCHANGED <<pidfile, tmp>>
  /\ UNCHANGED crashes

\* daemonize after EXIT_OK: the listener is dropped, then cleanup runs.
Stop(p) ==
  /\ pc[p] = "held" /\ Quiet
  /\ Goto(p, "unlinkpid")
  /\ UNCHANGED <<files, crashes>>

UnlinkPid(p) ==
  /\ pc[p] = "unlinkpid"
  /\ \/ pidfile = NoFile /\ Refused(p)
     \/ /\ pidfile # NoFile /\ pidfile' = NoFile
        /\ Goto(p, "unlinksock")
        /\ UNCHANGED <<tmp, sock>>
  /\ UNCHANGED crashes

UnlinkSock(p) ==
  /\ pc[p] = "unlinksock"
  /\ sock' = NoFile
  /\ Goto(p, "none")
  /\ UNCHANGED <<pidfile, tmp, crashes>>

\* A crash, or an error that leaves daemonize after acquire_lock.
Crash(p) ==
  /\ pc[p] \notin {"none", "foreign"}
  /\ crashes < MaxCrashes
  /\ crashes' = crashes + 1
  /\ Goto(p, "none")
  /\ UNCHANGED files

\* The PID of a dead daemon goes to another program, which ends some day.
Recycle(p) ==
  /\ pc[p] = "none" /\ pidfile = p
  /\ Goto(p, "foreign")
  /\ UNCHANGED <<files, crashes>>

ForeignEnds(p) ==
  /\ pc[p] = "foreign"
  /\ Goto(p, "none")
  /\ UNCHANGED <<files, crashes>>

AcquireLock(p) ==
  \/ CheckPid(p) \/ RemoveStalePid(p)
  \/ CheckSocket(p) \/ RemoveStaleSock(p)
  \/ WriteTmp(p) \/ RenamePid(p) \/ Bind(p)

Cleanup(p) == UnlinkPid(p) \/ UnlinkSock(p)

Next ==
  \E p \in Proc :
    \/ Start(p) \/ AcquireLock(p)
    \/ Stop(p) \/ Cleanup(p)
    \/ Crash(p) \/ Recycle(p) \/ ForeignEnds(p)

\* Nobody has to start or to stop a daemon; acquire_lock and cleanup run on.
Fairness == \A p \in Proc : WF_vars(AcquireLock(p) \/ Cleanup(p))

Spec == Init /\ [][Next]_vars /\ Fairness

-----------------------------------------------------------------------------

TypeOK ==
  /\ pc \in [Proc -> Pc]
  /\ pidfile \in Files /\ tmp \in Files /\ sock \in Files
  /\ crashes \in 0..MaxCrashes

\* is_unique, "Ensures that we are the only instance running": no two processes
\* serve one runtime directory, whatever files earlier daemons left in it.
Unique == \A p, q \in Proc : pc[p] = "held" /\ pc[q] = "held" => p = q

\* A running daemon is the one the files name: the CLI reaches it through the
\* socket and the next start recognises it by its PID.
Reachable == \A p \in Proc : pc[p] = "held" => pidfile = p /\ sock = p

\* The lock is the single daemon of the abstract specification, in which a daemon
\* that shuts down keeps the directory to itself until cleanup has ended.
Abstract == INSTANCE SingleDaemon WITH holders <- Holders
SingleDaemonSpec == Abstract!Spec

\* Stale files of a crashed daemon do not keep a start that has passed the PID
\* check from becoming the daemon, unless it crashes itself.
StaleFilesRecovered ==
  \A p \in Proc : \A c \in 0..MaxCrashes :
    (pc[p] \in {"pidstale", "sockcheck"} /\ crashes = c)
      ~> (pc[p] = "held" \/ crashes > c)
=============================================================================
