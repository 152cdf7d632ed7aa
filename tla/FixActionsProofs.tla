-------------------------- MODULE FixActionsProofs --------------------------
(***************************************************************************)
(* Proofs about FixActions, for every set of inbounds, threshold and       *)
(* number of resets.                                                       *)
(***************************************************************************)
EXTENDS FixActions, TLAPS

\* The fix_try that counts: the one a check under way will deliver, else the monitor's.
Newest(s) == IF check[s].phase = "none" THEN entry[s].fix_try ELSE check[s].status.fix_try

\* A fix held in the registry accounts for one spawn not counted in fix_try yet.
Held(s) == IF action_map[s].fix_action = NoFix THEN 0 ELSE 1

\* Why the budget holds: every spawn is either counted in fix_try or still held, the
\* last level leaves nothing held, and one reset forgets at most two of them.
WithinBudget(s) ==
  /\ Newest(s) = 2 => action_map[s].fix_action = NoFix
  /\ ~RunsCanFail => /\ action_map[s].fix_action.state # "err"
                     /\ nfix[s] <= 2 * resets + Newest(s) + Held(s)

BudgetInv == aggregating => \A s \in Fixable : WithinBudget(s)

\* Only a sick status counts levels.
SickInv ==
  \A s \in Services :
    /\ entry[s].health = "Ok" => entry[s].fix_try = 0
    /\ check[s].status.health = "Ok" => check[s].status.fix_try = 0

\* The levels below n are among those in T.
CountedIn(n, T) ==
  /\ n >= 1 => "NginxRestart" \in T
  /\ n = 2 => "NginxRestoreConfig" \in T

\* Why Nginx's levels were tried: the fix held was spawned as the level fix_try stands at.
LevelInv ==
  resets = 0 /\ aggregating =>
    /\ check[Nginx].phase \in {"none", "probing", "probed"} =>
         CountedIn(entry[Nginx].fix_try, tried[Nginx])
    /\ check[Nginx].phase # "none" => CountedIn(check[Nginx].status.fix_try, tried[Nginx])
    /\ action_map[Nginx].fix_action # NoFix =>
         CountedIn(Newest(Nginx) + 1, tried[Nginx])

----------------------------------------------------------------------------
(* Facts about the operators. *)

\* Every level of every service is one of the four Ansible actions.
LEMMA FixLevelAction == \A s, n : FixLevel(s, n) \in AnsibleAction
  BY DEF FixLevel, AnsibleAction

\* A failed interval changes health and failed_count, never fix_try.
LEMMA SickStatus ==
  ASSUME NEW st \in SvcStatus
  PROVE  /\ Sick(st) \in SvcStatus
         /\ Sick(st).health = "Sick"
         /\ Sick(st).fix_try = st.fix_try
  <1> DEFINE c == IF st.failed_count < FixThreshold THEN st.failed_count + 1 ELSE st.failed_count
  <1>1. st.failed_count \in 0..FixThreshold
    BY DEF SvcStatus
  <1>2. c \in 0..FixThreshold
    BY <1>1, FixAssumption
  <1>3. Sick(st) = [st EXCEPT !.health = "Sick", !.failed_count = c]
    BY DEF Sick
  <1> HIDE DEF c
  <1> QED
    BY <1>2, <1>3 DEF SvcStatus, SvcHealth

\* An Ok outcome leaves a healthy status with no level counted.
LEMMA ForgivenStatus ==
  ASSUME NEW st \in SvcStatus, st.health = "Ok" => st.fix_try = 0
  PROVE  /\ Forgiven(st) \in SvcStatus
         /\ Forgiven(st).health = "Ok"
         /\ Forgiven(st).fix_try = 0
  BY FixAssumption DEF Forgiven, Healthy, SvcStatus, SvcHealth

\* Writing fix_try leaves the rest of a status alone.
LEMMA WithTry ==
  ASSUME NEW st \in SvcStatus, NEW n \in 0..2
  PROVE  /\ [st EXCEPT !.fix_try = n] \in SvcStatus
         /\ [st EXCEPT !.fix_try = n].fix_try = n
         /\ [st EXCEPT !.fix_try = n].health = st.health
  BY DEF SvcStatus

\* The names of the services, and which of them hold fixes.
LEMMA ServiceNames ==
  /\ Ssh \in Services /\ Nginx \in Services /\ Super \in Services
  /\ Fixable \subseteq Services
  /\ Watched \subseteq Services
  /\ Ssh # Nginx /\ Ssh # Super /\ Nginx # Super
  /\ Ssh \notin Fixable
  /\ Inbounds \cap Fixable = {}
  BY FixAssumption DEF Services, Endpoints, Fixable, Ssh, Nginx, Super

\* With fix_try below two, counting an ended fix stays within the levels.
LEMMA TriesBound ==
  ASSUME TypeOK, NEW s \in Services, check[s].status.fix_try < 2
  PROVE  /\ Tries(s) \in 0..2
         /\ action_map[s].fix_action.state = "ok" => Tries(s) = check[s].status.fix_try + 1
         /\ action_map[s].fix_action.state # "ok" => Tries(s) = check[s].status.fix_try
  <1>1. check[s].status.fix_try \in 0..2
    BY DEF TypeOK, Check, SvcStatus
  <1>2. CASE action_map[s].fix_action.state = "ok"
    BY <1>1, <1>2 DEF Tries
  <1>3. CASE action_map[s].fix_action.state # "ok"
    BY <1>1, <1>3 DEF Tries
  <1> QED
    BY <1>2, <1>3

----------------------------------------------------------------------------
(* Type correctness. *)

\* The stored rows and the registry built from them are well typed.
LEMMA TypeInit == Init => TypeOK
  <1> SUFFICES ASSUME Init PROVE TypeOK
    OBVIOUS
  <1>1. entry \in [Services -> SvcStatus] /\ saved \in [Services -> SvcStatus]
    BY DEF Init
  <1>2. check \in [Services -> Check]
    BY FixAssumption DEF Init, Idle, Fresh, Check, Phase, SvcStatus, SvcHealth
  <1>3. action_map \in [Services -> DashAction]
    BY <1>1 DEF Init, DashAction, SvcStatus, FixHandle, NoFix
  <1>4. \A s \in Services \ Fixable : action_map[s].fix_action = NoFix
    BY DEF Init
  <1>5. tried \in [Services -> SUBSET AnsibleAction]
    BY FixLevelAction DEF Init
  <1> QED
    BY <1>1, <1>2, <1>3, <1>4, <1>5, FixAssumption DEF Init, TypeOK

\* Every step of a monitor, a check, a fix or the network keeps the types.
LEMMA TypeStep == TypeOK /\ [Next]_vars => TypeOK'
  <1> SUFFICES ASSUME TypeOK, [Next]_vars PROVE TypeOK'
    OBVIOUS
  <1> USE FixAssumption, ServiceNames
  <1>1. ASSUME NEW s \in Watched \cap Endpoints, EndpointFlips(s) PROVE TypeOK'
    BY <1>1 DEF EndpointFlips, fixes, tasks, TypeOK
  <1>2. ASSUME NEW s \in Services, Tick(s) PROVE TypeOK'
    BY <1>2 DEF Tick, fixes, tasks, TypeOK, Check, Phase
  <1>3. ASSUME NEW s \in Services, Probe(s) PROVE TypeOK'
    <2>1. CheckService(s) \in BOOLEAN
      <3>1. CASE s = Super
        BY <3>1, Zenon DEF CheckService
      <3>2. CASE s # Super
        <4>1. CheckService(s) = (s \in up)
          BY <3>2 DEF CheckService
        <4>2. (s \in up) \in BOOLEAN
          OBVIOUS
        <4> QED
          BY <4>1, <4>2, Zenon
      <3> QED
        BY <3>1, <3>2
    <2> QED
      BY <1>3, <2>1 DEF Probe, fixes, tasks, TypeOK, Check, Phase
  <1>4. ASSUME NEW s \in Services, HandleResponse(s) PROVE TypeOK'
    <2> DEFINE st == check[s].status
    <2>1. st \in SvcStatus
      BY DEF TypeOK, Check
    <2>2. Sick(st) \in SvcStatus /\ Sick(st).fix_try = st.fix_try
      BY <2>1, SickStatus
    <2>3. Forgiven(st) \in SvcStatus
      BY <2>1 DEF Forgiven, Healthy, SvcStatus, SvcHealth
    <2>4. ASSUME NEW x \in SvcStatus, Handled(s, x) PROVE check' \in [Services -> Check]
      BY <2>4 DEF Handled, TypeOK, Check, Phase
    <2>5. ASSUME NEW d \in DashAction, s \in Fixable \/ d.fix_action = NoFix,
                 action_map' = [action_map EXCEPT ![s] = d]
          PROVE  /\ action_map' \in [Services -> DashAction]
                 /\ \A x \in Services \ Fixable : action_map'[x].fix_action = NoFix
      BY <2>5 DEF TypeOK
    <2>6. ASSUME NEW a \in AnsibleAction, Spawn(s, a)
          PROVE  /\ tried' \in [Services -> SUBSET AnsibleAction]
                 /\ nfix' \in [Services -> 0..FixCap]
                 /\ orphans' = orphans
      BY <2>6 DEF Spawn, TypeOK
    <2>7. ASSUME Recovered(s)
          PROVE  /\ tried' \in [Services -> SUBSET AnsibleAction]
                 /\ nfix' \in [Services -> 0..FixCap]
      BY <2>7 DEF Recovered, TypeOK
    <2>8. NoFix \in FixHandle /\ \A a \in AnsibleAction : [action |-> a, state |-> "running"] \in FixHandle
      BY DEF FixHandle
    <2>9. Orphaned(s) \subseteq AnsibleAction
      BY DEF Orphaned, TypeOK, DashAction, FixHandle, NoFix
    <2>10. action_map[s] \in DashAction /\ action_map[s].fix_action \in FixHandle
      BY DEF TypeOK, DashAction
    <2>11. CASE HandleOk(s)
      <3>1. RegistryOk(s) \in DashAction /\ RegistryOk(s).fix_action = NoFix
        BY <2>8 DEF RegistryOk, DashAction, SvcHealth
      <3> QED
        BY <2>3, <2>4, <2>5, <2>7, <2>9, <2>11, <3>1 DEF HandleOk, tasks, TypeOK
    <2>12. CASE s = Super /\ HandleSuperOk
      BY <2>3, <2>4, <2>7, <2>12 DEF HandleSuperOk, tasks, TypeOK
    <2>13. CASE HandleErr(s) \/ HandleErrWait(s)
      <3> DEFINE d == [action_map[s] EXCEPT !.svc_health = "Sick"]
      <3>1. d \in DashAction /\ d.fix_action = action_map[s].fix_action
        BY <2>10 DEF DashAction, SvcHealth
      <3>2. action_map' = [action_map EXCEPT ![s] = d]
        BY <2>13 DEF HandleErr, HandleErrWait, TypeOK
      <3>3. s \in Fixable \/ d.fix_action = NoFix
        BY <3>1 DEF TypeOK
      <3> QED
        BY <2>2, <2>4, <2>5, <2>13, <3>1, <3>2, <3>3 DEF HandleErr, HandleErrWait, fixes, tasks, TypeOK
    <2>14. CASE s = Ssh /\ HandleSshErr
      <3>0. SshTry \in 0..2
        BY DEF SshTry
      <3>1. [Sick(st) EXCEPT !.fix_try = SshTry] \in SvcStatus
        BY <2>2, <3>0, WithTry
      <3>2. [svc_health |-> "Sick", fix_try |-> SshTry, fix_action |-> NoFix] \in DashAction
        BY <2>8 DEF DashAction, SvcHealth, SshTry
      <3> QED
        BY <2>4, <2>5, <2>14, <3>1, <3>2 DEF HandleSshErr, fixes, tasks, TypeOK
    <2>15. CASE HandleInboundErr(s)
      <3>1. action_map[Super].fix_try \in 0..2
        BY DEF TypeOK, DashAction
      <3>2. [Sick(st) EXCEPT !.fix_try = action_map[Super].fix_try] \in SvcStatus
        BY <2>2, <3>1, WithTry
      <3>3. [svc_health |-> "Sick", fix_try |-> action_map[Super].fix_try, fix_action |-> NoFix] \in DashAction
        BY <2>8, <3>1 DEF DashAction, SvcHealth
      <3> QED
        BY <2>4, <2>5, <2>15, <3>2, <3>3 DEF HandleInboundErr, fixes, tasks, TypeOK
    <2>16. CASE HandleErrAbandon(s)
      <3> DEFINE d == [action_map[s] EXCEPT !.svc_health = "Sick", !.fix_action = NoFix]
      <3>1. d \in DashAction
        BY <2>8, <2>10 DEF DashAction, SvcHealth
      <3>2. action_map' = [action_map EXCEPT ![s] = d]
        BY <2>16 DEF HandleErrAbandon, TypeOK
      <3>3. check' \in [Services -> Check]
        BY <2>16 DEF HandleErrAbandon, Idle, Fresh, Check, Phase, SvcStatus, SvcHealth, TypeOK
      <3> QED
        BY <2>5, <2>16, <3>1, <3>2, <3>3 DEF HandleErrAbandon, fixes, tasks, TypeOK
    <2>17. CASE s = Nginx /\ HandleNginxFix
      <3> DEFINE try == Tries(Nginx)
                 a   == FixLevel(Nginx, try)
                 d   == [svc_health |-> "Sick", fix_try |-> try,
                         fix_action |-> IF try < 2 THEN [action |-> a, state |-> "running"] ELSE NoFix]
      <3>1. try \in 0..2
        BY <2>17, TriesBound DEF HandleNginxFix, FixPossible
      <3>2. a \in AnsibleAction
        BY FixLevelAction
      <3>3. d \in DashAction
        BY <2>8, <3>1, <3>2 DEF DashAction, SvcHealth
      <3>4. [Sick(st) EXCEPT !.fix_try = try] \in SvcStatus
        BY <2>2, <3>1, WithTry
      <3>5. /\ Handled(Nginx, [Sick(st) EXCEPT !.fix_try = try])
            /\ action_map' = [action_map EXCEPT ![Nginx] = d]
            /\ Spawn(Nginx, a) \/ UNCHANGED fixes
            /\ UNCHANGED <<up, entry, saved, tasks, backup, resets>>
        BY <2>17 DEF HandleNginxFix
      <3>6. Nginx \in Fixable
        BY DEF Fixable
      <3> HIDE DEF d, try, a
      <3>7. check' \in [Services -> Check]
        BY <2>4, <2>17, <3>4, <3>5
      <3>8. /\ action_map' \in [Services -> DashAction]
            /\ \A x \in Services \ Fixable : action_map'[x].fix_action = NoFix
        BY <2>5, <2>17, <3>3, <3>5, <3>6
      <3>9. /\ tried' \in [Services -> SUBSET AnsibleAction]
            /\ nfix' \in [Services -> 0..FixCap]
            /\ orphans' = orphans
        BY <2>6, <2>17, <3>2, <3>5 DEF fixes, tasks, TypeOK
      <3> QED
        BY <3>5, <3>7, <3>8, <3>9 DEF tasks, TypeOK
    <2>18. CASE s = Super /\ HandleSuperFix
      <3> DEFINE try == check[Super].status.fix_try
                 a   == FixLevel(Super, try)
                 d   == [svc_health |-> "Sick", fix_try |-> try,
                         fix_action |-> [action |-> a, state |-> "running"]]
      <3>1. try \in 0..2
        BY <2>1, <2>18 DEF SvcStatus
      <3>2. a \in AnsibleAction
        BY FixLevelAction
      <3>3. d \in DashAction
        BY <2>8, <3>1, <3>2 DEF DashAction, SvcHealth
      <3>4. /\ Handled(Super, Sick(st))
            /\ action_map' = [action_map EXCEPT ![Super] = d]
            /\ Spawn(Super, a)
            /\ UNCHANGED <<up, entry, saved, tasks, backup, resets>>
        BY <2>18 DEF HandleSuperFix
      <3>5. Super \in Fixable
        BY DEF Fixable
      <3> HIDE DEF d, try, a
      <3> QED
        BY <2>2, <2>4, <2>5, <2>6, <2>18, <3>2, <3>3, <3>4, <3>5 DEF tasks, TypeOK
    <2>19. CASE s = Super /\ HandleSuperJudge
      <3> DEFINE try == IF Tries(Super) = 1 /\ backup # "some" THEN 2 ELSE Tries(Super)
                 d   == [action_map[Super] EXCEPT !.svc_health = "Sick", !.fix_action = NoFix]
      <3>1. try \in 0..2
        BY <2>19, TriesBound DEF HandleSuperJudge, FixPossible
      <3>2. [Sick(st) EXCEPT !.fix_try = try] \in SvcStatus
        BY <2>2, <3>1, WithTry
      <3>3. d \in DashAction /\ d.fix_action = NoFix
        BY <2>8, <2>10, <2>19 DEF DashAction, SvcHealth
      <3>4. /\ Handled(Super, [Sick(st) EXCEPT !.fix_try = try])
            /\ action_map' = [action_map EXCEPT ![Super] = d]
            /\ UNCHANGED <<up, entry, saved, tasks, backup, resets, fixes>>
        BY <2>19 DEF HandleSuperJudge, TypeOK
      <3> HIDE DEF d, try
      <3> QED
        BY <2>4, <2>5, <2>19, <3>2, <3>3, <3>4 DEF fixes, tasks, TypeOK
    <2> QED
      BY <1>4, <2>11, <2>12, <2>13, <2>14, <2>15, <2>16, <2>17, <2>18, <2>19 DEF HandleResponse
  <1>5. ASSUME NEW s \in Services, SendStats(s) PROVE TypeOK'
    BY <1>5 DEF SendStats, fixes, tasks, TypeOK, Check, Phase
  <1>6. ASSUME NEW s \in Services, ReceiveEntry(s) PROVE TypeOK'
    BY <1>6 DEF ReceiveEntry, fixes, tasks, TypeOK, Check, Phase, Idle, Fresh, SvcStatus, SvcHealth
  <1>7. ASSUME NEW s \in Services, ResetFix(s) PROVE TypeOK'
    <2>0. Flushed(s) \in SvcStatus
      BY DEF Flushed, TypeOK, SvcStatus
    <2>1. entry' \in [Services -> SvcStatus] /\ saved' \in [Services -> SvcStatus]
      <3>1. entry' = [entry EXCEPT ![s] = Flushed(s)] /\ saved' = [saved EXCEPT ![s] = Flushed(s)]
        BY <1>7 DEF ResetFix, Flushed, TypeOK
      <3> QED
        BY <2>0, <3>1 DEF TypeOK
    <2>2. [svc_health |-> entry[s].health, fix_try |-> 0, fix_action |-> NoFix] \in DashAction
      BY DEF TypeOK, DashAction, SvcStatus, FixHandle
    <2>3. /\ action_map' \in [Services -> DashAction]
          /\ \A x \in Services \ Fixable : action_map'[x].fix_action = NoFix
      BY <1>7, <2>2 DEF ResetFix, tasks, TypeOK
    <2>4. Orphaned(s) \subseteq AnsibleAction
      BY DEF Orphaned, TypeOK, DashAction, FixHandle, NoFix
    <2> QED
      BY <1>7, <2>1, <2>3, <2>4 DEF ResetFix, tasks, TypeOK
  <1>8. ASSUME NEW s \in Fixable, FixEnds(s) PROVE TypeOK'
    <2>1. PICK r \in {"ok", "err"} : action_map' = [action_map EXCEPT ![s].fix_action.state = r]
      BY <1>8 DEF FixEnds
    <2>2. action_map[s] \in DashAction /\ action_map[s].fix_action.state = "running"
      BY <1>8 DEF FixEnds, TypeOK
    <2>3. [action_map[s].fix_action EXCEPT !.state = r] \in FixHandle
      BY <2>2 DEF DashAction, FixHandle, NoFix
    <2>4. action_map' \in [Services -> DashAction]
      BY <2>1, <2>2, <2>3 DEF TypeOK, DashAction
    <2>5. \A x \in Services \ Fixable : action_map'[x].fix_action = NoFix
      BY <2>1 DEF TypeOK
    <2> QED
      BY <1>8, <2>4, <2>5 DEF FixEnds, fixes, tasks, TypeOK
  <1>9. ASSUME NEW s \in Fixable, OrphanEnds(s) PROVE TypeOK'
    BY <1>9 DEF OrphanEnds, tasks, TypeOK
  <1>10. CASE BackupEnds
    BY <1>10 DEF BackupEnds, fixes, tasks, TypeOK
  <1>11. CASE UNCHANGED vars
    BY <1>11 DEF vars, fixes, tasks, TypeOK
  <1>12. ASSUME NEW s \in Services, SendFails(s) PROVE TypeOK'
    BY <1>12 DEF SendFails, fixes, tasks, TypeOK, Check, Phase, Idle, Fresh, SvcStatus, SvcHealth
  <1>13. ASSUME NEW s \in Services, ResetFixFails(s) PROVE TypeOK'
    <2>1. entry' \in [Services -> SvcStatus]
      BY <1>13 DEF ResetFixFails, TypeOK, SvcStatus
    <2>2. check' \in [Services -> Check]
      BY <1>13 DEF ResetFixFails, TypeOK, Check, Phase, Idle, Fresh, SvcStatus, SvcHealth
    <2> QED
      BY <1>13, <2>1, <2>2 DEF ResetFixFails, fixes, TypeOK
  <1>14. CASE AggregatorDies
    BY <1>14 DEF AggregatorDies, fixes, TypeOK
  <1> QED
    BY <1>1, <1>2, <1>3, <1>4, <1>5, <1>6, <1>7, <1>8, <1>9, <1>10, <1>11, <1>12, <1>13, <1>14
    DEF Next, Monitor

\* Nothing starts the aggregator again within a cycle.
LEMMA StaysDead == [Next]_vars /\ aggregating' => aggregating
  BY DEF Next, Monitor, EndpointFlips, Tick, Probe, HandleResponse, HandleOk, HandleSuperOk,
     HandleErr, HandleSshErr, HandleInboundErr, HandleErrWait, HandleErrAbandon,
     HandleNginxFix, HandleSuperFix, HandleSuperJudge, SendStats, SendFails, ReceiveEntry,
     ResetFix, ResetFixFails, FixEnds, OrphanEnds, BackupEnds, AggregatorDies, tasks, vars

\* Every reachable state is well typed: fix_try never leaves 0..2 and only Nginx and the
\* supervisor ever hold a fix.
THEOREM TypeCorrect == Spec => []TypeOK
  BY TypeInit, TypeStep, PTL DEF Spec

----------------------------------------------------------------------------
(* The budget of fixes. *)

\* What the budget reads of a state is numeric and typed.
LEMMA BudgetTypes ==
  ASSUME TypeOK, NEW s \in Fixable
  PROVE  /\ Newest(s) \in 0..2 /\ Held(s) \in 0..1
         /\ nfix[s] \in Nat /\ resets \in Nat
         /\ action_map[s].fix_action \in FixHandle
         /\ action_map[s].fix_action = NoFix <=> action_map[s].fix_action.state = "none"
  <1>1. entry[s] \in SvcStatus /\ check[s].status \in SvcStatus
    BY ServiceNames DEF TypeOK, Check
  <1>2. Newest(s) \in 0..2
    BY <1>1 DEF Newest, SvcStatus
  <1>3. Held(s) \in 0..1
    BY DEF Held
  <1>4. action_map[s].fix_action \in FixHandle
    BY ServiceNames DEF TypeOK, DashAction
  <1>5. action_map[s].fix_action = NoFix <=> action_map[s].fix_action.state = "none"
    BY <1>4 DEF FixHandle, NoFix
  <1>6. nfix[s] \in Nat /\ resets \in Nat
    BY ServiceNames, FixAssumption DEF TypeOK
  <1> QED
    BY <1>2, <1>3, <1>4, <1>5, <1>6

\* A step that leaves a service's entry, check and registry alone keeps its budget.
LEMMA BudgetFrame ==
  ASSUME TypeOK, NEW s \in Fixable, WithinBudget(s), resets' \in Nat, resets' >= resets,
         Newest(s)' = Newest(s), nfix'[s] = nfix[s],
         action_map'[s].fix_action = action_map[s].fix_action
  PROVE  WithinBudget(s)'
  BY BudgetTypes DEF WithinBudget, Held

\* No service has spawned anything in this run of the daemon.
LEMMA BudgetInit == Init => BudgetInv
  <1> SUFFICES ASSUME Init, NEW s \in Fixable PROVE WithinBudget(s)
    BY DEF BudgetInv
  <1>1. TypeOK
    BY TypeInit
  <1>2. nfix[s] = 0 /\ resets = 0 /\ action_map[s].fix_action = NoFix
    BY ServiceNames DEF Init
  <1> QED
    BY <1>1, <1>2, BudgetTypes DEF WithinBudget, NoFix

\* No interleaving of checks, fixes, recoveries and resets breaks the accounting.
LEMMA BudgetStep == TypeOK /\ BudgetInv /\ [Next]_vars => BudgetInv'
  <1> SUFFICES ASSUME TypeOK, BudgetInv, [Next]_vars, aggregating', NEW x \in Fixable
               PROVE  WithinBudget(x)'
    BY DEF BudgetInv
  <1>g. aggregating
    BY StaysDead
  <1> USE ServiceNames
  <1>0. /\ TypeOK' /\ WithinBudget(x) /\ x \in Services
        /\ check \in [Services -> Check] /\ entry \in [Services -> SvcStatus]
        /\ action_map \in [Services -> DashAction] /\ nfix \in [Services -> 0..FixCap]
    BY <1>g, TypeStep DEF BudgetInv, TypeOK
  <1>a. /\ Newest(x) \in 0..2 /\ Held(x) \in 0..1 /\ nfix[x] \in Nat /\ resets \in Nat
        /\ action_map[x].fix_action \in FixHandle
        /\ action_map[x].fix_action = NoFix <=> action_map[x].fix_action.state = "none"
    BY BudgetTypes
  <1>b. Newest(x)' \in 0..2 /\ Held(x)' \in 0..1 /\ nfix'[x] \in Nat /\ resets' \in Nat
    <2>1. entry'[x] \in SvcStatus /\ check'[x].status \in SvcStatus
      BY <1>0 DEF TypeOK, Check
    <2>2. Newest(x)' \in 0..2 /\ Held(x)' \in 0..1
      BY <2>1 DEF Newest, Held, SvcStatus
    <2>3. nfix'[x] \in Nat /\ resets' \in Nat
      BY <1>0, FixAssumption DEF TypeOK
    <2> QED
      BY <2>2, <2>3
  <1>f. ASSUME Newest(x)' = Newest(x), nfix'[x] = nfix[x], resets' = resets,
               action_map'[x].fix_action = action_map[x].fix_action
        PROVE  WithinBudget(x)'
    BY <1>0, <1>a, <1>f, BudgetFrame
  <1>1. ASSUME NEW s \in Endpoints, EndpointFlips(s) PROVE WithinBudget(x)'
    BY <1>1, <1>f DEF EndpointFlips, fixes, Newest
  <1>2. ASSUME NEW s \in Services, Tick(s) PROVE WithinBudget(x)'
    BY <1>0, <1>2, <1>f DEF Tick, fixes, Newest
  <1>3. ASSUME NEW s \in Services, Probe(s) PROVE WithinBudget(x)'
    BY <1>0, <1>3, <1>f DEF Probe, fixes, Newest, Check
  <1>4. ASSUME NEW s \in Services, HandleResponse(s) PROVE WithinBudget(x)'
    <2>1. CASE s # x
      <3>1. check'[x] = check[x] /\ action_map'[x] = action_map[x] /\ entry' = entry
            /\ nfix'[x] = nfix[x] /\ resets' = resets
        BY <1>0, <1>4, <2>1 DEF HandleResponse, HandleOk, HandleSuperOk, HandleErr,
           HandleSshErr, HandleInboundErr, HandleErrWait, HandleErrAbandon, HandleNginxFix,
           HandleSuperFix, HandleSuperJudge, Handled, Spawn, Recovered, fixes
      <3> QED
        BY <3>1, <1>f DEF Newest
    <2>2. CASE s = x
      <3> DEFINE st == check[x].status
      <3>0. st \in SvcStatus /\ Sick(st) \in SvcStatus /\ Sick(st).fix_try = st.fix_try
        BY <1>0, SickStatus DEF Check
      <3>1. ASSUME NEW y \in SvcStatus, Handled(x, y) PROVE Newest(x)' = y.fix_try
        BY <1>0, <3>1 DEF Handled, Newest, Check
      <3>2. ASSUME Failed(x) PROVE Newest(x) = st.fix_try
        BY <3>2 DEF Failed, Newest
      <3>3. ASSUME HandleOk(x) PROVE WithinBudget(x)'
        <4>1. action_map'[x].fix_action = NoFix /\ nfix'[x] = 0
          BY <1>0, <3>3 DEF HandleOk, RegistryOk, Recovered
        <4> QED
          BY <1>b, <4>1 DEF WithinBudget, NoFix
      <3>4. ASSUME x = Super, HandleSuperOk PROVE WithinBudget(x)'
        <4>1. Forgiven(st) \in SvcStatus /\ (Forgiven(st).fix_try = 0 \/ Forgiven(st) = st)
          BY <3>0, FixAssumption DEF Forgiven, Healthy, SvcStatus, SvcHealth
        <4>2. Newest(x) = st.fix_try
          BY <3>4 DEF HandleSuperOk, Newest
        <4>3. Newest(x)' = 0 \/ Newest(x)' = Newest(x)
          BY <3>1, <3>4, <4>1, <4>2 DEF HandleSuperOk
        <4>4. action_map' = action_map /\ nfix'[x] = 0
          BY <1>0, <3>4 DEF HandleSuperOk, Recovered
        <4> QED
          BY <1>0, <1>b, <4>3, <4>4 DEF WithinBudget
      <3>5. ASSUME HandleErr(x) \/ HandleErrWait(x) PROVE WithinBudget(x)'
        <4>1. Newest(x)' = Newest(x)
          BY <3>0, <3>1, <3>2, <3>5 DEF HandleErr, HandleErrWait
        <4>2. action_map'[x].fix_action = action_map[x].fix_action
          BY <1>0, <3>5 DEF HandleErr, HandleErrWait, DashAction
        <4> QED
          BY <1>f, <3>5, <4>1, <4>2 DEF HandleErr, HandleErrWait, fixes
      <3>6. ASSUME HandleErrAbandon(x) PROVE WithinBudget(x)'
        <4>1. action_map'[x].fix_action = NoFix
          BY <1>0, <3>6 DEF HandleErrAbandon, DashAction
        <4>2. RunsCanFail
          BY <1>0, <3>6, FixAssumption DEF HandleErrAbandon, WithinBudget
        <4> QED
          BY <4>1, <4>2 DEF WithinBudget
      <3>7. ASSUME x = Nginx, HandleNginxFix PROVE WithinBudget(x)'
        <4> DEFINE try == Tries(Nginx)
        <4>1. Newest(x) = st.fix_try /\ st.fix_try < 2
          BY <3>2, <3>7 DEF HandleNginxFix, FixPossible
        <4>2. /\ try \in 0..2
              /\ action_map[x].fix_action.state = "ok" => try = Newest(x) + 1
              /\ action_map[x].fix_action.state # "ok" => try = Newest(x)
          BY <3>7, <4>1, TriesBound
        <4>3. action_map[x].fix_action.state \in {"none", "ok"}
          BY <3>7 DEF HandleNginxFix, NoFixRunning
        <4>4. try = Newest(x) + Held(x)
          BY <1>a, <4>2, <4>3 DEF Held
        <4>5. Newest(x)' = try
          <5>1. Handled(x, [Sick(st) EXCEPT !.fix_try = try])
            BY <3>7 DEF HandleNginxFix
          <5> HIDE DEF try
          <5>2. [Sick(st) EXCEPT !.fix_try = try] \in SvcStatus
                /\ [Sick(st) EXCEPT !.fix_try = try].fix_try = try
            BY <3>0, <4>2, WithTry
          <5> QED
            BY <3>1, <5>1, <5>2
        <4>6. CASE try < 2
          <5>1. action_map'[x].fix_action = [action |-> FixLevel(Nginx, try), state |-> "running"]
            BY <1>0, <3>7, <4>6 DEF HandleNginxFix
          <5>2. Held(x)' = 1 /\ action_map'[x].fix_action.state = "running"
            BY <5>1 DEF Held, NoFix
          <5>3. nfix'[x] <= nfix[x] + 1
            BY <1>0, <1>a, <3>7, <4>6 DEF HandleNginxFix, Spawn
          <5>4. resets' = resets
            BY <3>7 DEF HandleNginxFix
          <5> HIDE DEF try
          <5> QED
            BY <1>0, <1>a, <1>b, <4>4, <4>5, <4>6, <5>2, <5>3, <5>4 DEF WithinBudget
        <4>7. CASE try = 2
          <5>1. action_map'[x].fix_action = NoFix
            BY <1>0, <3>7, <4>7 DEF HandleNginxFix
          <5>2. nfix'[x] = nfix[x] /\ resets' = resets
            BY <3>7, <4>7 DEF HandleNginxFix, fixes
          <5> HIDE DEF try
          <5> QED
            BY <1>0, <1>a, <1>b, <4>4, <4>5, <4>7, <5>1, <5>2 DEF WithinBudget, NoFix
        <4> QED
          BY <4>2, <4>6, <4>7
      <3>8. ASSUME x = Super, HandleSuperFix PROVE WithinBudget(x)'
        <4>1. Newest(x) = st.fix_try /\ st.fix_try < 2 /\ Held(x) = 0
          BY <3>2, <3>8 DEF HandleSuperFix, FixPossible, Held
        <4>2. Newest(x)' = Newest(x)
          BY <3>0, <3>1, <3>8, <4>1 DEF HandleSuperFix
        <4>3. action_map'[x].fix_action = [action |-> FixLevel(Super, st.fix_try), state |-> "running"]
          BY <1>0, <3>8 DEF HandleSuperFix
        <4>4. Held(x)' = 1 /\ action_map'[x].fix_action.state = "running"
          BY <4>3 DEF Held, NoFix
        <4>5. nfix'[x] <= nfix[x] + 1 /\ resets' = resets
          BY <1>0, <1>a, <3>8 DEF HandleSuperFix, Spawn
        <4> QED
          BY <1>0, <1>a, <1>b, <4>1, <4>2, <4>4, <4>5 DEF WithinBudget
      <3>9. ASSUME x = Super, HandleSuperJudge PROVE WithinBudget(x)'
        <4> DEFINE try == IF Tries(Super) = 1 /\ backup # "some" THEN 2 ELSE Tries(Super)
        <4>1. /\ Newest(x) = st.fix_try /\ st.fix_try < 2
              /\ action_map[x].fix_action.state = "ok"
          BY <3>2, <3>9 DEF HandleSuperJudge, FixPossible
        <4>2. try \in 0..2 /\ try >= Newest(x) + 1
          BY <3>9, <4>1, <1>a, TriesBound
        <4>3. Handled(x, [Sick(st) EXCEPT !.fix_try = try])
          BY <3>9 DEF HandleSuperJudge
        <4> HIDE DEF try
        <4>4. Newest(x)' = try
          <5>1. [Sick(st) EXCEPT !.fix_try = try] \in SvcStatus
                /\ [Sick(st) EXCEPT !.fix_try = try].fix_try = try
            BY <3>0, <4>2, WithTry
          <5> QED
            BY <3>1, <4>3, <5>1
        <4>5. action_map'[x].fix_action = NoFix
          BY <1>0, <3>9 DEF HandleSuperJudge, DashAction
        <4>6. nfix'[x] = nfix[x] /\ resets' = resets
          BY <3>9 DEF HandleSuperJudge, fixes
        <4> QED
          BY <1>0, <1>a, <1>b, <4>2, <4>4, <4>5, <4>6 DEF WithinBudget, NoFix
      <3> QED
        BY <1>4, <2>2, <3>3, <3>4, <3>5, <3>6, <3>7, <3>8, <3>9
        DEF HandleResponse, HandleSshErr, HandleInboundErr, Fixable
    <2> QED
      BY <2>1, <2>2
  <1>5. ASSUME NEW s \in Services, SendStats(s) PROVE WithinBudget(x)'
    BY <1>0, <1>5, <1>f DEF SendStats, fixes, Newest, Check
  <1>6. ASSUME NEW s \in Services, ReceiveEntry(s) PROVE WithinBudget(x)'
    BY <1>0, <1>6, <1>f DEF ReceiveEntry, fixes, Newest, Idle
  <1>7. ASSUME NEW s \in Services, ResetFix(s) PROVE WithinBudget(x)'
    <2>1. resets' = resets + 1 /\ nfix' = nfix
      BY <1>7 DEF ResetFix
    <2>2. CASE s = x
      <3>1. action_map'[x].fix_action = NoFix
        BY <1>0, <1>7, <2>2 DEF ResetFix
      <3>2. Newest(x) + Held(x) <= 2
        BY <1>0, <1>a DEF WithinBudget, Held
      <3> QED
        BY <1>0, <1>a, <1>b, <2>1, <3>1, <3>2 DEF WithinBudget, NoFix
    <2>3. CASE s # x
      <3>1. Newest(x)' = Newest(x) /\ action_map'[x] = action_map[x]
        BY <1>0, <1>7, <2>3 DEF ResetFix, Newest
      <3> QED
        BY <1>0, <1>a, <2>1, <3>1, BudgetFrame
    <2> QED
      BY <2>2, <2>3
  <1>8. ASSUME NEW s \in Fixable, FixEnds(s) PROVE WithinBudget(x)'
    <2>1. /\ Newest(x)' = Newest(x) /\ nfix' = nfix /\ resets' = resets
      BY <1>8 DEF FixEnds, fixes, Newest
    <2>2. CASE s # x
      BY <1>0, <1>8, <1>f, <2>1, <2>2 DEF FixEnds
    <2>3. CASE s = x
      <3>1. PICK r \in (IF RunsCanFail THEN {"ok", "err"} ELSE {"ok"}) :
              action_map' = [action_map EXCEPT ![x].fix_action.state = r]
        BY <1>8, <2>3 DEF FixEnds
      <3>2. action_map[x].fix_action.state = "running" /\ action_map[x].fix_action # NoFix
        BY <1>8, <2>3, <1>a DEF FixEnds
      <3>3. action_map'[x].fix_action.state = r
        BY <1>0, <1>a, <3>1, <3>2 DEF DashAction, FixHandle, NoFix
      <3>4. action_map'[x].fix_action # NoFix
        BY <3>3 DEF NoFix
      <3>5. Held(x) = 1 /\ Held(x)' = 1
        BY <3>2, <3>4 DEF Held
      <3>6. ~RunsCanFail => r = "ok"
        BY FixAssumption
      <3> QED
        BY <1>0, <1>a, <2>1, <3>2, <3>3, <3>5, <3>6 DEF WithinBudget
    <2> QED
      BY <2>2, <2>3
  <1>9. ASSUME NEW s \in Fixable, OrphanEnds(s) PROVE WithinBudget(x)'
    BY <1>9, <1>f DEF OrphanEnds, Newest
  <1>10. CASE BackupEnds
    BY <1>10, <1>f DEF BackupEnds, fixes, Newest
  <1>11. CASE UNCHANGED vars
    BY <1>11, <1>f DEF vars, fixes, Newest
  <1>12. ASSUME NEW s \in Services, SendFails(s) \/ ResetFixFails(s) PROVE FALSE
    BY <1>g, <1>12 DEF SendFails, ResetFixFails
  <1>13. CASE AggregatorDies
    BY <1>13 DEF AggregatorDies
  <1> QED
    BY <1>1, <1>2, <1>3, <1>4, <1>5, <1>6, <1>7, <1>8, <1>9, <1>10, <1>11, <1>12, <1>13
    DEF Next, Monitor

\* As long as no Ansible run returns Err, a service is restarted and restored at most once
\* each between two recoveries, plus once each per ResetFix: handle_response never spawns
\* a fix it does not account for.
THEOREM BudgetHolds == Spec => []FixBudget
  <1>1. TypeOK /\ BudgetInv => FixBudget
    <2> SUFFICES ASSUME TypeOK, BudgetInv, ~RunsCanFail, aggregating, NEW s \in Fixable
                 PROVE  nfix[s] <= 2 * (resets + 1)
      BY DEF FixBudget
    <2> QED
      BY BudgetTypes DEF BudgetInv, WithinBudget, Held
  <1> QED
    BY TypeInit, TypeStep, BudgetInit, BudgetStep, <1>1, PTL DEF Spec

----------------------------------------------------------------------------
(* The levels of Nginx. *)

\* CountedIn is what the levels claimed by a status of Nginx amount to.
LEMMA ClaimedNginx ==
  ASSUME NEW st \in SvcStatus, NEW T, CountedIn(st.fix_try, T)
  PROVE  Claimed(Nginx, st) \subseteq T
  <1>1. st.fix_try \in 0..2
    BY DEF SvcStatus
  <1>2. SUFFICES ASSUME NEW n \in 0..st.fix_try - 1 PROVE FixLevel(Nginx, n) \in T
    BY ServiceNames DEF Claimed
  <1>3. n = 0 \/ (n = 1 /\ st.fix_try = 2)
    BY <1>1, <1>2
  <1> QED
    BY <1>1, <1>3 DEF CountedIn, FixLevel

\* Spawning level n of Nginx adds it to those below it.
LEMMA CountNext ==
  ASSUME NEW n \in 0..1, NEW T, CountedIn(n, T)
  PROVE  CountedIn(n + 1, T \cup {FixLevel(Nginx, n)})
  BY DEF CountedIn, FixLevel

\* A stored row that is Ok counts no level, and the counted levels of one that is
\* sick were tried by the cycle that stored it.
LEMMA LevelInit == Init => SickInv /\ LevelInv
  <1> SUFFICES ASSUME Init PROVE SickInv /\ LevelInv
    OBVIOUS
  <1>1. TypeOK
    BY TypeInit
  <1>2. ASSUME NEW s \in Services PROVE entry[s].health = "Ok" => entry[s].fix_try = 0
    <2>1. CASE s \notin Watched
      BY <2>1, <1>2 DEF Init, Healthy
    <2>2. CASE s \in Watched
      BY <2>2, <1>2 DEF Init, StoredRow, Fresh, Healthy
    <2> QED
      BY <2>1, <2>2
  <1>3. SickInv
    BY <1>2 DEF SickInv, Init, Idle, Fresh
  <1>4. entry[Nginx].fix_try \in 0..2
    BY <1>1, ServiceNames DEF TypeOK, SvcStatus
  <1>5. tried[Nginx] = {FixLevel(Nginx, n) : n \in 0..entry[Nginx].fix_try - 1}
    BY ServiceNames DEF Init, Fixable
  <1>6. CountedIn(entry[Nginx].fix_try, tried[Nginx])
    <2>1. CASE entry[Nginx].fix_try = 0
      BY <2>1 DEF CountedIn
    <2>2. CASE entry[Nginx].fix_try = 1
      <3>1. 0 \in 0..entry[Nginx].fix_try - 1
        BY <2>2
      <3> QED
        BY <1>5, <2>2, <3>1 DEF CountedIn, FixLevel
    <2>3. CASE entry[Nginx].fix_try = 2
      <3>1. 0 \in 0..entry[Nginx].fix_try - 1 /\ 1 \in 0..entry[Nginx].fix_try - 1
        BY <2>3
      <3>2. FixLevel(Nginx, 0) = "NginxRestart" /\ FixLevel(Nginx, 1) = "NginxRestoreConfig"
        BY DEF FixLevel
      <3> QED
        BY <1>5, <3>1, <3>2 DEF CountedIn
    <2> QED
      BY <1>4, <2>1, <2>2, <2>3
  <1>7. LevelInv
    BY <1>6, ServiceNames DEF LevelInv, Init, Idle
  <1> QED
    BY <1>3, <1>7

\* A status becomes Ok only together with a cleared fix_try.
LEMMA SickStep == TypeOK /\ SickInv /\ [Next]_vars => SickInv'
  <1> SUFFICES ASSUME TypeOK, SickInv, [Next]_vars, NEW x \in Services
               PROVE  /\ entry'[x].health = "Ok" => entry'[x].fix_try = 0
                      /\ check'[x].status.health = "Ok" => check'[x].status.fix_try = 0
    BY DEF SickInv
  <1> DEFINE Goal == /\ entry'[x].health = "Ok" => entry'[x].fix_try = 0
                     /\ check'[x].status.health = "Ok" => check'[x].status.fix_try = 0
  <1> USE ServiceNames
  <1>0. /\ check \in [Services -> Check] /\ entry \in [Services -> SvcStatus]
        /\ entry[x].health = "Ok" => entry[x].fix_try = 0
        /\ check[x].status.health = "Ok" => check[x].status.fix_try = 0
    BY DEF TypeOK, SickInv
  <1>1. ASSUME NEW s \in Services, Tick(s) \/ Probe(s) \/ SendStats(s) \/ SendFails(s) \/ ReceiveEntry(s)
        PROVE  Goal
    BY <1>0, <1>1 DEF Tick, Probe, SendStats, SendFails, ReceiveEntry, Idle, Fresh, Check
  <1>2. ASSUME NEW s \in Services, HandleResponse(s) PROVE Goal
    <2>0. entry' = entry
      BY <1>2 DEF HandleResponse, HandleOk, HandleSuperOk, HandleErr,
           HandleSshErr, HandleInboundErr, HandleErrWait, HandleErrAbandon, HandleNginxFix,
           HandleSuperFix, HandleSuperJudge
    <2>1. CASE s # x
      <3>1. check'[x] = check[x]
        BY <1>0, <1>2, <2>1 DEF HandleResponse, HandleOk, HandleSuperOk, HandleErr,
           HandleSshErr, HandleInboundErr, HandleErrWait, HandleErrAbandon, HandleNginxFix,
           HandleSuperFix, HandleSuperJudge, Handled
      <3> QED
        BY <1>0, <2>0, <3>1
    <2>2. CASE s = x
      <3> DEFINE st == check[x].status
      <3>0. st \in SvcStatus /\ Sick(st) \in SvcStatus /\ Sick(st).health = "Sick"
        BY <1>0, SickStatus DEF Check
      <3>1. ASSUME NEW y, Handled(x, y) PROVE check'[x].status = y
        BY <1>0, <3>1 DEF Handled, Check
      <3>2. CASE HandleOk(x) \/ (x = Super /\ HandleSuperOk)
        BY <1>0, <2>0, <3>0, <3>1, <3>2, ForgivenStatus DEF HandleOk, HandleSuperOk
      <3>3. CASE HandleErr(x) \/ HandleErrWait(x) \/ (x = Super /\ HandleSuperFix)
        BY <1>0, <2>0, <3>0, <3>1, <3>3 DEF HandleErr, HandleErrWait, HandleSuperFix
      <3>4. CASE HandleErrAbandon(x)
        BY <1>0, <2>0, <3>4 DEF HandleErrAbandon, Idle, Fresh
      <3>5. CASE \/ x = Ssh /\ HandleSshErr
                 \/ HandleInboundErr(x)
                 \/ x = Nginx /\ HandleNginxFix
                 \/ x = Super /\ HandleSuperJudge
        <4>1. PICK n : Handled(x, [Sick(st) EXCEPT !.fix_try = n])
          BY <3>5 DEF HandleSshErr, HandleInboundErr, HandleNginxFix, HandleSuperJudge
        <4>2. [Sick(st) EXCEPT !.fix_try = n].health = "Sick"
          BY <3>0 DEF SvcStatus
        <4> QED
          BY <1>0, <2>0, <3>1, <4>1, <4>2
      <3> QED
        BY <1>2, <2>2, <3>2, <3>3, <3>4, <3>5 DEF HandleResponse
    <2> QED
      BY <2>1, <2>2
  <1>3. ASSUME NEW s \in Services, ResetFix(s) \/ ResetFixFails(s) PROVE Goal
    BY <1>0, <1>3 DEF ResetFix, ResetFixFails, SvcStatus, Idle, Fresh
  <1>4. CASE UNCHANGED <<entry, check>>
    BY <1>0, <1>4
  <1> QED
    BY <1>1, <1>2, <1>3, <1>4 
    DEF Next, Monitor, EndpointFlips, FixEnds, OrphanEnds, BackupEnds, AggregatorDies, vars

\* The levels Nginx counts stay tried, whatever the other services do.
LEMMA LevelStep == TypeOK /\ SickInv /\ LevelInv /\ [Next]_vars => LevelInv'
  <1> SUFFICES ASSUME TypeOK, SickInv, LevelInv, [Next]_vars, resets' = 0, aggregating'
               PROVE  LevelInv'
    BY DEF LevelInv
  <1>g. aggregating
    BY StaysDead
  <1> USE ServiceNames
  <1> DEFINE st   == check[Nginx].status
             held == action_map[Nginx].fix_action
             Kept == /\ check'[Nginx].phase \in {"none", "probing", "probed"} =>
                          CountedIn(entry'[Nginx].fix_try, tried'[Nginx])
                     /\ check'[Nginx].phase # "none" =>
                          CountedIn(check'[Nginx].status.fix_try, tried'[Nginx])
                     /\ action_map'[Nginx].fix_action # NoFix =>
                          CountedIn(Newest(Nginx)' + 1, tried'[Nginx])
  <1>0. SUFFICES Kept
    BY DEF LevelInv
  <1>t. /\ check \in [Services -> Check] /\ entry \in [Services -> SvcStatus]
        /\ action_map \in [Services -> DashAction] /\ tried \in [Services -> SUBSET AnsibleAction]
        /\ st \in SvcStatus /\ st.fix_try \in 0..2 /\ resets \in Nat
    BY FixAssumption DEF TypeOK, Check, SvcStatus
  <1>r. ASSUME resets = 0
        PROVE  /\ check[Nginx].phase \in {"none", "probing", "probed"} =>
                    CountedIn(entry[Nginx].fix_try, tried[Nginx])
               /\ check[Nginx].phase # "none" => CountedIn(st.fix_try, tried[Nginx])
               /\ held # NoFix => CountedIn(Newest(Nginx) + 1, tried[Nginx])
    BY <1>g, <1>r DEF LevelInv
  <1>f. ASSUME resets' = resets, entry'[Nginx] = entry[Nginx], check'[Nginx] = check[Nginx],
               tried'[Nginx] = tried[Nginx], action_map'[Nginx].fix_action = held
        PROVE  Kept
    BY <1>f, <1>r DEF Newest
  <1>1. ASSUME NEW s \in Services, s # Nginx, Monitor(s), ~SendFails(s) PROVE Kept
    <2>1. /\ resets' = resets /\ entry'[Nginx] = entry[Nginx] /\ check'[Nginx] = check[Nginx]
          /\ tried'[Nginx] = tried[Nginx] /\ action_map'[Nginx] = action_map[Nginx]
      BY <1>t, <1>1 DEF Monitor, Tick, Probe, SendStats, ReceiveEntry, HandleResponse, HandleOk,
         HandleSuperOk, HandleErr, HandleSshErr, HandleInboundErr, HandleErrWait,
         HandleErrAbandon, HandleNginxFix, HandleSuperFix, HandleSuperJudge, Handled, Spawn,
         Recovered, fixes
    <2> QED
      BY <2>1, <1>f
  <1>2. CASE Tick(Nginx)
    BY <1>t, <1>r, <1>2 DEF Tick, fixes, Newest
  <1>3. CASE Probe(Nginx)
    BY <1>t, <1>r, <1>3 DEF Probe, fixes, Newest, Check
  <1>4. CASE HandleResponse(Nginx)
    <2>0. /\ Sick(st) \in SvcStatus /\ Sick(st).fix_try = st.fix_try
          /\ st.health = "Ok" => st.fix_try = 0
      BY <1>t, SickStatus DEF SickInv
    <2>1. ASSUME NEW y, Handled(Nginx, y)
          PROVE  /\ check'[Nginx].phase = "handled" /\ check'[Nginx].status = y
                 /\ Newest(Nginx)' = y.fix_try
      BY <1>t, <2>1 DEF Handled, Newest, Check
    <2>2. ASSUME NEW y, Handled(Nginx, y), CountedIn(y.fix_try, tried'[Nginx]),
                 action_map'[Nginx].fix_action # NoFix => CountedIn(y.fix_try + 1, tried'[Nginx])
          PROVE  Kept
      BY <2>1, <2>2
    <2>3. ASSUME Failed(Nginx) PROVE Newest(Nginx) = st.fix_try
      BY <2>3 DEF Failed, Newest
    <2>4. CASE HandleOk(Nginx)
      <3>1. Forgiven(st).fix_try = 0
        BY <1>t, <2>0, ForgivenStatus
      <3>2. action_map'[Nginx].fix_action = NoFix
        BY <1>t, <2>4 DEF HandleOk, RegistryOk
      <3>3. CountedIn(0, tried'[Nginx])
        BY DEF CountedIn
      <3> QED
        BY <2>2, <2>4, <3>1, <3>2, <3>3 DEF HandleOk
    <2>5. CASE HandleErr(Nginx) \/ HandleErrWait(Nginx)
      <3>1. action_map'[Nginx].fix_action = held /\ tried' = tried /\ resets' = resets
        BY <1>t, <2>5 DEF HandleErr, HandleErrWait, DashAction, fixes
      <3>2. Failed(Nginx) /\ Handled(Nginx, Sick(st)) /\ check[Nginx].phase # "none"
        BY <2>5 DEF HandleErr, HandleErrWait, Failed
      <3> QED
        BY <1>r, <2>0, <2>2, <2>3, <3>1, <3>2
    <2>6. CASE HandleErrAbandon(Nginx)
      <3>1. action_map'[Nginx].fix_action = NoFix
        BY <1>t, <2>6 DEF HandleErrAbandon, DashAction
      <3>2. /\ check[Nginx].phase = "probed" /\ check'[Nginx].phase = "none"
            /\ entry' = entry /\ tried' = tried /\ resets' = resets
        BY <1>t, <2>6 DEF HandleErrAbandon, Failed, Idle, fixes
      <3> QED
        BY <1>r, <3>1, <3>2
    <2>7. CASE HandleNginxFix
      <3> DEFINE try == Tries(Nginx)
      <3>1. /\ Failed(Nginx) /\ st.fix_try < 2 /\ check[Nginx].phase # "none"
            /\ held.state \in {"none", "ok"} /\ resets' = resets
        BY <2>7 DEF HandleNginxFix, FixPossible, NoFixRunning, Failed
      <3>2. /\ try \in 0..2
            /\ held.state = "ok" => try = st.fix_try + 1
            /\ held.state # "ok" => try = st.fix_try
        BY <3>1, TriesBound
      <3>3. held.state = "ok" => held # NoFix
        BY DEF NoFix
      <3>4. CountedIn(try, tried[Nginx])
        BY <1>r, <2>3, <3>1, <3>2, <3>3
      <3>5. Handled(Nginx, [Sick(st) EXCEPT !.fix_try = try])
        BY <2>7 DEF HandleNginxFix
      <3>6. CASE try < 2
        <4>1. tried'[Nginx] = tried[Nginx] \cup {FixLevel(Nginx, try)}
          BY <1>t, <2>7, <3>6 DEF HandleNginxFix, Spawn
        <4> HIDE DEF try
        <4>2. CountedIn(try + 1, tried'[Nginx])
          BY <3>2, <3>4, <3>6, <4>1, CountNext
        <4>3. CountedIn(try, tried'[Nginx])
          BY <3>4, <4>1 DEF CountedIn
        <4>4. [Sick(st) EXCEPT !.fix_try = try].fix_try = try
          BY <2>0, <3>2, WithTry
        <4> QED
          BY <2>2, <3>5, <4>2, <4>3, <4>4
      <3>7. CASE try = 2
        <4>1. tried' = tried /\ action_map'[Nginx].fix_action = NoFix
          BY <1>t, <2>7, <3>7 DEF HandleNginxFix, fixes
        <4> HIDE DEF try
        <4>2. [Sick(st) EXCEPT !.fix_try = try].fix_try = try
          BY <2>0, <3>2, WithTry
        <4> QED
          BY <2>2, <3>4, <3>5, <4>1, <4>2
      <3> QED
        BY <3>2, <3>6, <3>7
    <2> QED
      BY <1>4, <2>4, <2>5, <2>6, <2>7
      DEF HandleResponse, HandleInboundErr, Fixable
  <1>5. CASE SendStats(Nginx)
    BY <1>t, <1>r, <1>5 DEF SendStats, fixes, Newest, Check
  <1>6. CASE ReceiveEntry(Nginx)
    BY <1>t, <1>r, <1>6 DEF ReceiveEntry, fixes, Newest, Idle
  <1>7. ASSUME NEW s \in Services, ResetFix(s) PROVE FALSE
    BY <1>t, <1>7 DEF ResetFix
  <1>8. ASSUME NEW s \in Fixable, FixEnds(s) PROVE Kept
    <2>1. /\ resets' = resets /\ entry' = entry /\ check' = check /\ tried' = tried
      BY <1>8 DEF FixEnds, fixes
    <2>2. CASE s # Nginx
      BY <1>t, <1>8, <1>f, <2>1, <2>2 DEF FixEnds
    <2>3. CASE s = Nginx
      BY <1>8, <1>r, <2>1, <2>3 DEF FixEnds, NoFix, Newest
    <2> QED
      BY <2>2, <2>3
  <1>9. ASSUME NEW s \in Fixable, OrphanEnds(s) PROVE Kept
    BY <1>9, <1>f DEF OrphanEnds
  <1>10. ASSUME NEW s \in Endpoints, EndpointFlips(s) PROVE Kept
    BY <1>10, <1>f DEF EndpointFlips, fixes
  <1>11. CASE BackupEnds \/ UNCHANGED vars
    BY <1>11, <1>f DEF BackupEnds, vars, fixes
  <1>12. ASSUME NEW s \in Services, SendFails(s) \/ ResetFixFails(s) PROVE FALSE
    BY <1>g, <1>12 DEF SendFails, ResetFixFails
  <1>13. CASE AggregatorDies
    BY <1>13 DEF AggregatorDies
  <1> QED
    BY <1>1, <1>2, <1>3, <1>4, <1>5, <1>6, <1>7, <1>8, <1>9, <1>10, <1>11, <1>12, <1>13
    DEF Next, Monitor

\* Nginx's fix_try counts a level only when handle_response spawned it in this sick
\* episode: while no ResetFix was handled and the aggregator lives, the config is never restored without a restart
\* first, and giving up (fix_try = 2) means that both were tried.
THEOREM LevelsHold == Spec => []NginxLevelsTried
  <1>1. TypeOK /\ LevelInv => NginxLevelsTried
    BY ClaimedNginx, ServiceNames DEF LevelInv, NginxLevelsTried, LevelsTried, TypeOK, Check
  <1> QED
    BY TypeInit, TypeStep, LevelInit, SickStep, LevelStep, <1>1, PTL DEF Spec

\* While nobody resets, a running Xray fix is never detached from the registry.
THEOREM XrayExclusive == Spec => []XrayFixExclusive
  <1>1. Init => XrayFixExclusive
    BY ServiceNames DEF Init, XrayFixExclusive
  <1>2. TypeOK /\ XrayFixExclusive /\ [Next]_vars => XrayFixExclusive'
    <2> SUFFICES ASSUME TypeOK, XrayFixExclusive, [Next]_vars, resets' = 0
                 PROVE  orphans'[Super] = {}
      BY DEF XrayFixExclusive
    <2> USE ServiceNames
    <2>0. orphans \in [Services -> SUBSET AnsibleAction] /\ resets \in Nat
      BY FixAssumption DEF TypeOK
    <2>1. ASSUME NEW s \in Services, Monitor(s) PROVE orphans'[Super] = {}
      BY <2>0, <2>1 DEF Monitor, Tick, Probe, SendStats, SendFails, ReceiveEntry, HandleResponse, HandleOk,
         HandleSuperOk, HandleErr, HandleSshErr, HandleInboundErr, HandleErrWait,
         HandleErrAbandon, HandleNginxFix, HandleSuperFix, HandleSuperJudge, Spawn, fixes,
         XrayFixExclusive
    <2>2. ASSUME NEW s \in Services, ResetFix(s) \/ ResetFixFails(s) PROVE FALSE
      BY <2>0, <2>2 DEF ResetFix, ResetFixFails
    <2>3. ASSUME NEW s \in Fixable, OrphanEnds(s) PROVE orphans'[Super] = {}
      BY <2>0, <2>3 DEF OrphanEnds, XrayFixExclusive
    <2>4. ASSUME UNCHANGED <<orphans, resets>> PROVE orphans'[Super] = {}
      BY <2>4 DEF XrayFixExclusive
    <2> QED
      BY <2>1, <2>2, <2>3, <2>4 DEF Next, EndpointFlips, FixEnds, BackupEnds,
         AggregatorDies, vars, fixes
  <1> QED
    BY TypeInit, TypeStep, <1>1, <1>2, PTL DEF Spec

\* What a stored status may differ by from the one it should be.
Stored(x, y) == x = y \/ (resets > 0 /\ x.fix_try = 0)

\* The aggregator is given a result before the monitor, so what it holds is compared with
\* the result on its way back, if there is one.  A ResetFix clears the stored count at any
\* moment, and a send that fails leaves both sides as they were.
SavedInv ==
  \A s \in Services \ ended :
    Stored(saved[s], IF check[s].phase = "sent" THEN check[s].status ELSE entry[s])

\* Every step keeps SavedInv; only SendStats, ReceiveEntry and ResetFix move a status.
LEMMA SavedStep == TypeOK /\ SavedInv /\ [Next]_vars => SavedInv'
  <1> SUFFICES ASSUME TypeOK, SavedInv, [Next]_vars, NEW s \in Services, s \notin ended'
               PROVE  Stored(saved[s], IF check[s].phase = "sent"
                                       THEN check[s].status ELSE entry[s])'
    BY DEF SavedInv
  <1> USE ServiceNames
  <1>t. /\ saved \in [Services -> SvcStatus] /\ entry \in [Services -> SvcStatus]
        /\ check \in [Services -> Check] /\ resets \in Nat
    BY FixAssumption DEF TypeOK
  <1> DEFINE Kept == Stored(saved[s], IF check[s].phase = "sent"
                                      THEN check[s].status ELSE entry[s])'
  <1>r. s \notin ended =>
          Stored(saved[s], IF check[s].phase = "sent" THEN check[s].status ELSE entry[s])
    BY DEF SavedInv
  <1>1. ASSUME NEW r \in Services, Tick(r) \/ Probe(r) \/ HandleResponse(r) PROVE Kept
    <2>1. UNCHANGED <<saved, entry, resets, ended>>
      BY <1>1 DEF Tick, Probe, HandleResponse, HandleOk, HandleSuperOk, HandleErr,
         HandleSshErr, HandleInboundErr, HandleErrWait, HandleErrAbandon, HandleNginxFix,
         HandleSuperFix, HandleSuperJudge, tasks
    <2>2. check[r].phase # "sent" /\ check'[r].phase # "sent"
      BY <1>t, <1>1 DEF Tick, Probe, HandleResponse, HandleOk, HandleSuperOk, HandleErr,
         HandleSshErr, HandleInboundErr, HandleErrWait, HandleErrAbandon, HandleNginxFix,
         HandleSuperFix, HandleSuperJudge, Handled, Failed, Idle, Check
    <2>3. CASE r # s
      <3>1. check'[s] = check[s]
        BY <1>t, <1>1, <2>3 DEF Tick, Probe, HandleResponse, HandleOk, HandleSuperOk, HandleErr,
           HandleSshErr, HandleInboundErr, HandleErrWait, HandleErrAbandon, HandleNginxFix,
           HandleSuperFix, HandleSuperJudge, Handled
      <3> QED
        BY <1>r, <2>1, <3>1 DEF Stored
    <2>4. CASE r = s
      BY <1>r, <2>1, <2>2, <2>4 DEF Stored
    <2> QED
      BY <2>3, <2>4
  <1>2. ASSUME NEW r \in Services, SendStats(r) PROVE Kept
    BY <1>t, <1>r, <1>2 DEF SendStats, Check, Stored, tasks
  <1>3. ASSUME NEW r \in Services, SendFails(r) PROVE Kept
    BY <1>t, <1>r, <1>3 DEF SendFails, Idle, Stored, tasks
  <1>4. ASSUME NEW r \in Services, ReceiveEntry(r) PROVE Kept
    BY <1>t, <1>r, <1>4 DEF ReceiveEntry, Idle, Stored, tasks
  <1>5. ASSUME NEW r \in Services, ResetFix(r) PROVE Kept
    <2>1. UNCHANGED <<check, ended>> /\ resets' > 0
      BY <1>t, <1>5 DEF ResetFix, tasks
    <2>2. CASE r = s
      <3>1. saved'[s].fix_try = 0
        BY <1>t, <1>5, <2>2 DEF ResetFix, Flushed, SvcStatus
      <3> QED
        BY <2>1, <3>1 DEF Stored
    <2>3. CASE r # s
      <3>1. saved'[s] = saved[s] /\ entry'[s] = entry[s]
        BY <1>t, <1>5, <2>3 DEF ResetFix
      <3> QED
        BY <1>r, <2>1, <3>1 DEF Stored
    <2> QED
      BY <2>2, <2>3
  <1>6. ASSUME NEW r \in Services, ResetFixFails(r) PROVE Kept
    <2>1. r # s /\ s \notin ended
      BY <1>6 DEF ResetFixFails
    <2>2. /\ saved' = saved /\ entry'[s] = entry[s] /\ check'[s] = check[s] /\ resets' > 0
      BY <1>t, <1>6, <2>1 DEF ResetFixFails
    <2> QED
      BY <1>r, <2>1, <2>2 DEF Stored
  <1>7. ASSUME UNCHANGED <<saved, entry, check, resets, ended>> PROVE Kept
    BY <1>r, <1>7 DEF Stored
  <1> QED
    BY <1>1, <1>2, <1>3, <1>4, <1>5, <1>6, <1>7
    DEF Next, Monitor, EndpointFlips, FixEnds, OrphanEnds, BackupEnds, AggregatorDies, vars, tasks

\* A daemon started again at any moment loads a status that skips no level: what apply_checker
\* and ResetFix handed to the aggregator is what the monitor holds, or counts no level at
\* all.  Abandoned checks, a ResetFix between a check's two sends and a dead aggregator
\* are all included.
THEOREM SavedNeverSkipsHolds == Spec => []SavedNeverSkips
  <1>1. Init => SavedInv
    BY DEF Init, SavedInv, Stored, Idle
  <1>2. SavedInv => SavedNeverSkips
    BY DEF SavedInv, SavedNeverSkips, Stored
  <1> QED
    BY TypeInit, TypeStep, SavedStep, <1>1, <1>2, PTL DEF Spec

=============================================================================
