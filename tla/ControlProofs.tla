--------------------------- MODULE ControlProofs ----------------------------
(***************************************************************************)
(* Proofs about Control, for every number of connections, services and     *)
(* places in the channel, and any number of requests, signals and checks.  *)
(***************************************************************************)
EXTENDS Control, NatOrder, SequenceTheorems, FiniteSetTheorems, TLAPS

USE ControlAssumption

-----------------------------------------------------------------------------
(* The statuses of a service in a sequence of them. *)

Of(q, s) == {i \in DOMAIN q : q[i].svc = s}

\* The last status of s in q, if there is one, is v.
LastIs(q, s, v) == \A i \in Of(q, s) : (\A j \in Of(q, s) : j <= i) => q[i].at = v

\* A sequence with a status of s has a last one.
LEMMA LastExists ==
  ASSUME NEW q \in Seq(Status), NEW s, Of(q, s) # {}
  PROVE  \E i \in Of(q, s) : \A j \in Of(q, s) : j <= i
  <1>1. Of(q, s) \in SUBSET Nat /\ Len(q) \in Nat /\ \A j \in Of(q, s) : j <= Len(q)
    BY DEF Of
  <1> QED
    BY <1>1, GreatestOf

LEMMA LastIn ==
  ASSUME NEW q \in Seq(Status), NEW s, NEW v, Of(q, s) # {}, LastIs(q, s, v)
  PROVE  [svc |-> s, at |-> v] \in Range(q)
  <1>1. PICK i \in Of(q, s) : \A j \in Of(q, s) : j <= i
    BY LastExists
  <1>2. q[i].at = v /\ q[i].svc = s /\ i \in DOMAIN q /\ q[i] \in Status
    BY <1>1 DEF LastIs, Of
  <1>3. q[i] = [svc |-> s, at |-> v]
    BY <1>2 DEF Status
  <1> QED
    BY <1>2, <1>3 DEF Range

LEMMA LastAppend ==
  ASSUME NEW q \in Seq(Status), NEW x \in Status, NEW s, NEW v
  PROVE  /\ Append(q, x) \in Seq(Status)
         /\ x.svc = s => (Of(Append(q, x), s) # {} /\ (x.at = v => LastIs(Append(q, x), s, v)))
         /\ x.svc # s => /\ Of(Append(q, x), s) = Of(q, s)
                         /\ LastIs(q, s, v) => LastIs(Append(q, x), s, v)
  <1>1. /\ Append(q, x) \in Seq(Status) /\ Len(q) \in Nat
        /\ DOMAIN Append(q, x) = 1..Len(q) + 1 /\ DOMAIN q = 1..Len(q)
        /\ \A i \in 1..Len(q) : Append(q, x)[i] = q[i]
        /\ Append(q, x)[Len(q) + 1] = x
    BY AppendProperties
  <1> DEFINE a == Append(q, x)
  <1> HIDE DEF a
  <1>2. ASSUME x.svc = s PROVE Len(q) + 1 \in Of(a, s) /\ \A i \in Of(a, s) : i <= Len(q) + 1
    BY <1>1, <1>2 DEF Of, a
  <1>3. ASSUME x.svc = s, x.at = v PROVE LastIs(a, s, v)
    <2> SUFFICES ASSUME NEW i \in Of(a, s), \A j \in Of(a, s) : j <= i PROVE a[i].at = v
      BY DEF LastIs
    <2>1. i = Len(q) + 1
      BY <1>1, <1>2, <1>3 DEF Of, a
    <2> QED
      BY <1>1, <1>3, <2>1 DEF a
  <1>4. ASSUME x.svc # s PROVE Of(a, s) = Of(q, s) /\ \A i \in Of(q, s) : a[i] = q[i]
    BY <1>1, <1>4 DEF Of, a
  <1>5. ASSUME x.svc # s, LastIs(q, s, v) PROVE LastIs(a, s, v)
    BY <1>4, <1>5 DEF LastIs
  <1> QED
    BY <1>1, <1>2, <1>3, <1>4, <1>5 DEF a

LEMMA LastTail ==
  ASSUME NEW q \in Seq(Status), q # <<>>, NEW s, NEW v, LastIs(q, s, v)
  PROVE  /\ Tail(q) \in Seq(Status) /\ Head(q) \in Status
         /\ LastIs(Tail(q), s, v)
         /\ Of(Tail(q), s) = {} /\ Head(q).svc = s => Head(q).at = v
         /\ Head(q).svc # s /\ Of(Tail(q), s) = {} => Of(q, s) = {}
  <1> DEFINE t == Tail(q)
  <1>1. /\ t \in Seq(Status) /\ Head(q) = q[1] /\ Head(q) \in Status
        /\ Len(q) \in Nat \ {0} /\ DOMAIN q = 1..Len(q) /\ DOMAIN t = 1..Len(q) - 1
        /\ \A i \in 1..Len(q) - 1 : t[i] = q[i + 1]
    BY HeadTailProperties, LenProperties
  <1> HIDE DEF t
  <1>2. \A i \in 1..Len(q) - 1 : i \in Of(t, s) <=> i + 1 \in Of(q, s)
    BY <1>1 DEF Of
  <1>3. LastIs(t, s, v)
    <2> SUFFICES ASSUME NEW i \in Of(t, s), \A j \in Of(t, s) : j <= i PROVE t[i].at = v
      BY DEF LastIs
    <2>1. i \in 1..Len(q) - 1 /\ i + 1 \in Of(q, s)
      BY <1>1, <1>2 DEF Of
    <2>2. ASSUME NEW j \in Of(q, s) PROVE j <= i + 1
      <3>1. j \in 1..Len(q)
        BY <1>1 DEF Of
      <3>2. CASE j = 1
        BY <2>1, <3>2
      <3>3. CASE j # 1
        <4>1. j - 1 \in 1..Len(q) - 1 /\ (j - 1) + 1 = j
          BY <1>1, <3>1, <3>3
        <4>2. j - 1 \in Of(t, s)
          BY <1>2, <4>1
        <4>3. j - 1 <= i
          BY <4>2
        <4> QED
          BY <2>1, <3>1, <4>3
      <3> QED
        BY <3>2, <3>3
    <2>3. q[i + 1].at = v
      BY <2>1, <2>2 DEF LastIs
    <2> QED
      BY <1>1, <2>1, <2>3
  <1>4. ASSUME Of(t, s) = {}, NEW i \in Of(q, s) PROVE i = 1
    <2>1. i \in 1..Len(q)
      BY <1>1 DEF Of
    <2>2. CASE i # 1
      <3>1. i - 1 \in 1..Len(q) - 1 /\ (i - 1) + 1 = i
        BY <1>1, <2>1, <2>2
      <3> QED
        BY <1>2, <1>4, <3>1
    <2> QED
      BY <2>2
  <1>5. ASSUME Of(t, s) = {}, Head(q).svc = s PROVE Head(q).at = v
    <2>1. 1 \in Of(q, s)
      BY <1>1, <1>5 DEF Of
    <2> QED
      BY <1>1, <1>4, <1>5, <2>1 DEF LastIs
  <1>6. ASSUME Of(t, s) = {}, Head(q).svc # s PROVE Of(q, s) = {}
    BY <1>1, <1>4, <1>6 DEF Of
  <1> QED
    BY <1>1, <1>3, <1>5, <1>6 DEF t

\* A batch that is written leaves the last status of each service in its row.
LEMMA WrittenIs ==
  ASSUME NEW b \in Seq(Status), NEW s \in Svc, NEW v, LastIs(b, s, v)
  PROVE  /\ Of(b, s) # {} => Written(b, Len(b))[s] = v
         /\ Of(b, s) = {} => Written(b, Len(b))[s] = row[s]
  <1>1. Updates(b, Len(b), s) = Of(b, s)
    BY DEF Updates, Of
  <1>2. ASSUME Of(b, s) # {} PROVE b[Max(Of(b, s))].at = v
    <2>1. \E i \in Of(b, s) : \A j \in Of(b, s) : j <= i
      BY <1>2, LastExists
    <2>2. \E i \in Of(b, s) : \A j \in Of(b, s) : i >= j
      BY <2>1 DEF Of
    <2>3. Max(Of(b, s)) \in Of(b, s) /\ \A j \in Of(b, s) : Max(Of(b, s)) >= j
      BY <2>2 DEF Max
    <2> QED
      BY <2>3 DEF LastIs, Of
  <1> QED
    BY <1>1, <1>2 DEF Written

\* The rows keep their type, wherever the write stops.
LEMMA WrittenType ==
  ASSUME NEW b \in Seq(Status), NEW n \in 0..Len(b), row \in [Svc -> 0..MaxClock]
  PROVE  Written(b, n) \in [Svc -> 0..MaxClock]
  <1>1. ASSUME NEW s \in Svc, Updates(b, n, s) # {} PROVE b[Max(Updates(b, n, s))].at \in 0..MaxClock
    <2> DEFINE U == Updates(b, n, s)
    <2>1. U \in SUBSET Nat /\ U # {} /\ (\A y \in U : y <= n) /\ n \in Nat /\ U \subseteq DOMAIN b
      BY <1>1 DEF Updates
    <2> HIDE DEF U
    <2>2. \E i \in U : \A j \in U : j <= i
      BY <2>1, GreatestOf
    <2>3. \E i \in U : \A j \in U : i >= j
      BY <2>1, <2>2
    <2>4. Max(U) \in U
      BY <2>3 DEF Max
    <2>5. b[Max(U)] \in Status
      <3>1. \A i \in DOMAIN b : b[i] \in Status
        OBVIOUS
      <3> QED
        BY <2>1, <2>4, <3>1
    <2> QED
      BY <2>5 DEF U, Status
  <1> QED
    BY <1>1 DEF Written

-----------------------------------------------------------------------------
(* The statuses. *)

Phases == {"prereq", "prepare", "reconcile", "serving", "ending", "down"}

StatTypes ==
  /\ phase \in Phases
  /\ svc \in [Svc -> {"none", "starting", "running", "dead"}]
  /\ entry \in [Svc -> 0..MaxClock] /\ row \in [Svc -> 0..MaxClock]
  /\ result \in [Svc -> 0..MaxClock] /\ sent \in [Svc -> 0..MaxClock]
  /\ aggr \in {"none", "running", "dead"}
  /\ channel \in Seq(Status) /\ batch \in Seq(Status)
  /\ batch = <<>> \/ Len(batch) < Cardinality(Svc)
  /\ clock \in 0..MaxClock

\* The tasks live while the daemon serves, and what is on its way has a sender and a
\* receiver that do.
LiveInv ==
  /\ phase # "serving" => aggr = "none" /\ \A s \in Svc : svc[s] = "none"
  /\ aggr # "running" => batch = <<>> /\ channel = <<>>
  /\ \A s \in Svc : svc[s] # "running" => Of(batch, s) = {} /\ Of(channel, s) = {}

\* The last status of a service is the one last handed over, wherever it is.
LatestInv ==
  \A s \in Svc :
    svc[s] = "running" /\ aggr = "running" =>
      /\ LastIs(channel, s, sent[s])
      /\ Of(channel, s) = {} => LastIs(batch, s, sent[s])
      /\ Of(channel, s) = {} /\ Of(batch, s) = {} => row[s] = sent[s]

StatInv == StatTypes /\ LiveInv /\ LatestInv

flow == <<svc, entry, result, sent, aggr, channel, batch, row, clock>>

LEMMA EmptyOf == \A s, v : Of(<<>>, s) = {} /\ LastIs(<<>>, s, v)
  BY DEF Of, LastIs

LEMMA StatInit == Init => StatInv
  <1> SUFFICES ASSUME Init PROVE StatInv
    OBVIOUS
  <1>1. StatTypes
    BY DEF Init, StatTypes, Phases
  <1> QED
    BY <1>1, EmptyOf DEF Init, StatInv, LiveInv, LatestInv

\* Every end of a cycle drops what was on its way, together with the monitors.
LEMMA AbortStep ==
  ASSUME StatInv, AbortStats, phase' \in Phases
  PROVE  StatInv'
  <1>1. /\ svc' = [s \in Svc |-> "none"] /\ entry' = [s \in Svc |-> 0] /\ aggr' = "none"
        /\ result' = [s \in Svc |-> 0] /\ sent' = [s \in Svc |-> 0]
        /\ channel' = <<>> /\ batch' = <<>> /\ UNCHANGED <<row, clock>>
    BY DEF AbortStats
  <1>2. StatTypes'
    BY <1>1 DEF StatInv, StatTypes
  <1> QED
    BY <1>1, <1>2, EmptyOf DEF StatInv, LiveInv, LatestInv

LEMMA LaunchStep ==
  ASSUME StatInv, Launch
  PROVE  StatInv'
  <1>1. /\ svc' = [s \in Svc |-> "starting"] /\ aggr' = "running" /\ phase = "reconcile"
        /\ phase' = "serving" /\ UNCHANGED <<entry, result, sent, channel, batch, row, clock>>
    BY DEF Launch
  <1>2. batch = <<>> /\ channel = <<>>
    BY <1>1 DEF StatInv, LiveInv
  <1>3. StatTypes'
    BY <1>1, <1>2 DEF StatInv, StatTypes, Phases
  <1> QED
    BY <1>1, <1>2, <1>3, EmptyOf DEF StatInv, LiveInv, LatestInv

LEMMA StillStep ==
  ASSUME StatInv, UNCHANGED flow, phase' \in Phases, phase' = "serving" <=> phase = "serving"
  PROVE  StatInv'
  <1>1. UNCHANGED <<svc, entry, result, sent, aggr, channel, batch, row, clock>>
    BY DEF flow
  <1>2. StatTypes'
    BY <1>1 DEF StatInv, StatTypes
  <1> QED
    BY <1>1, <1>2 DEF StatInv, LiveInv, LatestInv

\* A status is made: by a check, which still has to return it, or by a ResetFix.
LEMMA MakeStep ==
  ASSUME StatInv, NEW s \in Svc, svc[s] = "running", aggr = "running", Make(s), UNCHANGED svc,
         \/ entry' = entry /\ result' = [result EXCEPT ![s] = clock']
         \/ entry' = [entry EXCEPT ![s] = clock'] /\ result' = result
  PROVE  StatInv'
  <1> DEFINE x == [svc |-> s, at |-> clock + 1]
  <1>1. /\ clock < MaxClock /\ clock' = clock + 1 /\ sent' = [sent EXCEPT ![s] = clock + 1]
        /\ channel' = Append(channel, x) /\ UNCHANGED <<phase, svc, aggr, batch, row>>
    BY DEF Make
  <1>2. x \in Status /\ x.svc = s /\ x.at = clock + 1
    BY <1>1 DEF StatInv, StatTypes, Status
  <1> HIDE DEF x
  <1>3. channel \in Seq(Status)
    BY DEF StatInv, StatTypes
  <1>4. StatTypes'
    <2>1. clock' \in 0..MaxClock /\ sent' \in [Svc -> 0..MaxClock]
          /\ entry' \in [Svc -> 0..MaxClock] /\ result' \in [Svc -> 0..MaxClock]
      <3>1. /\ clock' \in 0..MaxClock /\ clock' = clock + 1
            /\ sent \in [Svc -> 0..MaxClock] /\ entry \in [Svc -> 0..MaxClock]
            /\ result \in [Svc -> 0..MaxClock]
        BY <1>1 DEF StatInv, StatTypes
      <3>2. sent' = [sent EXCEPT ![s] = clock']
        BY <1>1
      <3> QED
        BY <3>1, <3>2
    <2>2. channel' \in Seq(Status)
      BY <1>1, <1>2, <1>3, LastAppend
    <2> QED
      BY <1>1, <2>1, <2>2 DEF StatInv, StatTypes
  <1>5. LiveInv'
    <2>1. ASSUME NEW r \in Svc, r # s PROVE Of(channel', r) = Of(channel, r)
      BY <1>1, <1>2, <1>3, <2>1, LastAppend
    <2> QED
      BY <1>1, <2>1 DEF StatInv, LiveInv
  <1>6. LatestInv'
    <2> SUFFICES ASSUME NEW r \in Svc, svc[r] = "running"
                 PROVE  /\ LastIs(channel', r, sent'[r])
                        /\ Of(channel', r) = {} => LastIs(batch, r, sent'[r])
                        /\ Of(channel', r) = {} /\ Of(batch, r) = {} => row[r] = sent'[r]
      BY <1>1 DEF LatestInv
    <2>1. CASE r = s
      <3>1. sent'[r] = clock + 1
        BY <1>1, <2>1 DEF StatInv, StatTypes
      <3> QED
        BY <1>1, <1>2, <1>3, <2>1, <3>1, LastAppend
    <2>2. CASE r # s
      <3>1. sent'[r] = sent[r]
        BY <1>1, <2>2 DEF StatInv, StatTypes
      <3>2. LastIs(channel, r, sent[r])
        BY DEF StatInv, LatestInv
      <3>3. Of(channel', r) = Of(channel, r) /\ LastIs(channel', r, sent[r])
        BY <1>1, <1>2, <1>3, <2>2, <3>2, LastAppend
      <3> QED
        BY <3>1, <3>3 DEF StatInv, LatestInv
    <2> QED
      BY <2>1, <2>2
  <1> QED
    BY <1>4, <1>5, <1>6 DEF StatInv

\* The result of a check reaches its monitor; what is on its way to the table is not
\* touched.
LEMMA ReturnStep ==
  ASSUME StatInv, NEW s \in Svc, CheckReturns(s)
  PROVE  StatInv'
  <1>1. /\ entry' = [entry EXCEPT ![s] = result[s]] /\ result' = [result EXCEPT ![s] = 0]
        /\ UNCHANGED <<phase, svc, sent, aggr, channel, batch, row, clock>>
    BY DEF CheckReturns
  <1>2. StatTypes'
    BY <1>1 DEF StatInv, StatTypes
  <1> QED
    BY <1>1, <1>2 DEF StatInv, LiveInv, LatestInv

LEMMA MonitorStep ==
  ASSUME StatInv, NEW s \in Svc, MonitorStarts(s) \/ MonitorResets(s) \/ CheckSends(s)
  PROVE  StatInv'
  <1>1. CASE MonitorStarts(s)
    <2>1. /\ svc[s] = "starting" /\ UNCHANGED <<phase, result, aggr, channel, batch, row, clock>>
          /\ \/ /\ svc' = [svc EXCEPT ![s] = "running"] /\ entry' = [entry EXCEPT ![s] = row[s]]
                /\ sent' = [sent EXCEPT ![s] = row[s]]
             \/ svc' = [svc EXCEPT ![s] = "dead"] /\ entry' = entry /\ sent' = sent
      BY <1>1 DEF MonitorStarts
    <2>2. phase = "serving" /\ Of(batch, s) = {} /\ Of(channel, s) = {}
      BY <2>1 DEF StatInv, LiveInv
    <2>3. StatTypes'
      BY <2>1 DEF StatInv, StatTypes
    <2>4. \A v : LastIs(batch, s, v) /\ LastIs(channel, s, v)
      BY <2>2 DEF LastIs
    <2>5. \A r \in Svc : r # s => svc'[r] = svc[r] /\ sent'[r] = sent[r] /\ entry'[r] = entry[r]
      BY <2>1 DEF StatInv, StatTypes
    <2>6. svc'[s] = "running" => sent'[s] = row[s]
      BY <2>1 DEF StatInv, StatTypes
    <2>7. LiveInv' /\ LatestInv'
      BY <2>1, <2>2, <2>4, <2>5, <2>6 DEF StatInv, LiveInv, LatestInv
    <2> QED
      BY <2>3, <2>7 DEF StatInv
  <1>2. CASE CheckSends(s)
    BY <1>2, MakeStep DEF CheckSends
  <1>3. CASE aggr = "dead" /\ svc' = [svc EXCEPT ![s] = "dead"] /\ svc[s] = "running"
             /\ result' = [result EXCEPT ![s] = 0]
             /\ UNCHANGED <<phase, entry, sent, aggr, channel, batch, row, clock>>
    <2>1. StatTypes'
      BY <1>3 DEF StatInv, StatTypes
    <2>2. batch = <<>> /\ channel = <<>> /\ phase = "serving"
      BY <1>3 DEF StatInv, LiveInv
    <2>3. LiveInv' /\ LatestInv'
      BY <1>3, <2>2, EmptyOf DEF StatInv, LiveInv, LatestInv
    <2> QED
      BY <2>1, <2>3 DEF StatInv
  <1>4. CASE aggr = "running" /\ Make(s) /\ svc[s] = "running" /\ UNCHANGED <<svc, result>>
             /\ entry' = [entry EXCEPT ![s] = clock']
    BY <1>4, MakeStep
  <1> QED
    BY <1>1, <1>2, <1>3, <1>4 DEF MonitorResets

\* What is to be written, b, and what stays in the channel, c, are in order.
InOrder(b, c) ==
  \A s \in Svc :
    /\ svc[s] # "running" => Of(b, s) = {} /\ Of(c, s) = {}
    /\ svc[s] = "running" =>
         /\ LastIs(c, s, sent[s])
         /\ Of(c, s) = {} => LastIs(b, s, sent[s])
         /\ Of(c, s) = {} /\ Of(b, s) = {} => row[s] = sent[s]

LEMMA WriteStep ==
  ASSUME StatInv, aggr = "running", NEW b \in Seq(Status), NEW c \in Seq(Status),
         Write(b), channel' = (IF aggr' = "dead" THEN <<>> ELSE c), InOrder(b, c),
         UNCHANGED <<phase, svc, entry, result, sent, clock>>
  PROVE  StatInv'
  <1>s. phase = "serving" /\ Len(b) \in Nat
    BY DEF StatInv, LiveInv
  <1>r. row \in [Svc -> 0..MaxClock]
    BY DEF StatInv, StatTypes
  <1>1. CASE row' = Written(b, Len(b)) /\ batch' = <<>> /\ aggr' = aggr
    <2>1. StatTypes'
      <3>1. row' \in [Svc -> 0..MaxClock]
        BY <1>s, <1>r, <1>1, WrittenType
      <3> QED
        BY <1>1, <3>1 DEF StatInv, StatTypes
    <2>2. LiveInv'
      BY <1>s, <1>1, EmptyOf DEF StatInv, LiveInv, InOrder
    <2>3. LatestInv'
      <3> SUFFICES ASSUME NEW s \in Svc, svc[s] = "running"
                   PROVE  /\ LastIs(c, s, sent[s])
                          /\ Of(c, s) = {} => LastIs(<<>>, s, sent[s])
                          /\ Of(c, s) = {} => row'[s] = sent[s]
        BY <1>1 DEF LatestInv
      <3>1. LastIs(c, s, sent[s]) /\ LastIs(<<>>, s, sent[s])
        BY EmptyOf DEF InOrder
      <3>2. ASSUME Of(c, s) = {} PROVE row'[s] = sent[s]
        <4>1. LastIs(b, s, sent[s]) /\ (Of(b, s) = {} => row[s] = sent[s])
          BY <3>2 DEF InOrder
        <4> QED
          BY <1>1, <4>1, WrittenIs
      <3> QED
        BY <3>1, <3>2
    <2> QED
      BY <2>1, <2>2, <2>3 DEF StatInv
  <1>2. CASE aggr' = "dead" /\ batch' = <<>> /\ \E n \in 0 .. Len(b) - 1 : row' = Written(b, n)
    <2>1. channel' = <<>>
      BY <1>2
    <2>2. StatTypes'
      <3>1. row' \in [Svc -> 0..MaxClock]
        <4>1. PICK n \in 0 .. Len(b) - 1 : row' = Written(b, n)
          BY <1>2
        <4>2. n \in 0..Len(b)
          BY <1>s
        <4> QED
          BY <1>r, <4>1, <4>2, WrittenType
      <3> QED
        BY <1>2, <2>1, <3>1 DEF StatInv, StatTypes
    <2>3. LiveInv' /\ LatestInv'
      BY <1>s, <1>2, <2>1, EmptyOf DEF LiveInv, LatestInv
    <2> QED
      BY <2>2, <2>3 DEF StatInv
  <1> QED
    BY <1>1, <1>2 DEF Write

\* The aggregator takes a status out of the channel, or its ticker comes.
LEMMA AggregatorStep ==
  ASSUME StatInv, Aggregate \/ Tick
  PROVE  StatInv'
  <1>0. aggr = "running" /\ UNCHANGED <<phase, svc, entry, result, sent, clock>> /\ phase = "serving"
    BY DEF StatInv, LiveInv, Aggregate, Tick
  <1>q. channel \in Seq(Status) /\ batch \in Seq(Status)
    BY DEF StatInv, StatTypes
  <1>1. CASE Tick
    <2>1. InOrder(batch, channel)
      BY <1>0 DEF InOrder, StatInv, LiveInv, LatestInv
    <2> QED
      BY <1>0, <1>1, <1>q, <2>1, WriteStep DEF Tick
  <1>2. CASE Aggregate
    <2> DEFINE h == Head(channel)
               b == Append(batch, h)
               c == Tail(channel)
    <2>1. channel # <<>> /\ channel' = IF aggr' = "dead" THEN <<>> ELSE c
      BY <1>2 DEF Aggregate
    <2>2. h \in Status /\ c \in Seq(Status) /\ b \in Seq(Status)
      BY <1>q, <2>1, HeadTailProperties, AppendProperties
    <2>3. \/ Full(b) /\ Write(b)
          \/ ~Full(b) /\ batch' = b /\ UNCHANGED <<row, aggr>>
      BY <1>2 DEF Aggregate
    <2>4. InOrder(b, c)
      <3> SUFFICES ASSUME NEW s \in Svc
                   PROVE  /\ svc[s] # "running" => Of(b, s) = {} /\ Of(c, s) = {}
                          /\ svc[s] = "running" =>
                               /\ LastIs(c, s, sent[s])
                               /\ Of(c, s) = {} => LastIs(b, s, sent[s])
                               /\ Of(c, s) = {} /\ Of(b, s) = {} => row[s] = sent[s]
        BY DEF InOrder
      <3>1. ASSUME svc[s] # "running" PROVE Of(b, s) = {} /\ Of(c, s) = {}
        <4>1. Of(batch, s) = {} /\ Of(channel, s) = {}
          BY <3>1 DEF StatInv, LiveInv
        <4>2. h.svc # s
          <5>1. 1 \in DOMAIN channel /\ h = channel[1]
            BY <1>q, <2>1
          <5> QED
            BY <4>1, <5>1 DEF Of
        <4>3. Of(c, s) = {}
          <5>1. DOMAIN c = 1..Len(channel) - 1 /\ DOMAIN channel = 1..Len(channel)
                /\ Len(channel) \in Nat /\ \A i \in 1..Len(channel) - 1 : c[i] = channel[i + 1]
            BY <1>q, <2>1, HeadTailProperties, LenProperties
          <5> QED
            BY <4>1, <5>1 DEF Of
        <4>4. Of(b, s) = {}
          BY <1>q, <2>2, <4>1, <4>2, LastAppend
        <4> QED
          BY <4>3, <4>4
      <3>2. ASSUME svc[s] = "running"
            PROVE  /\ LastIs(c, s, sent[s])
                   /\ Of(c, s) = {} => LastIs(b, s, sent[s])
                   /\ Of(c, s) = {} /\ Of(b, s) = {} => row[s] = sent[s]
        <4>1. /\ LastIs(channel, s, sent[s])
              /\ Of(channel, s) = {} => LastIs(batch, s, sent[s])
              /\ Of(channel, s) = {} /\ Of(batch, s) = {} => row[s] = sent[s]
          BY <1>0, <3>2 DEF StatInv, LatestInv
        <4>2. /\ LastIs(c, s, sent[s])
              /\ Of(c, s) = {} /\ h.svc = s => h.at = sent[s]
              /\ h.svc # s /\ Of(c, s) = {} => Of(channel, s) = {}
          BY <1>q, <2>1, <4>1, LastTail
        <4> HIDE DEF h, b, c
        <4>3. CASE h.svc = s
          <5>1. Of(b, s) # {} /\ (h.at = sent[s] => LastIs(b, s, sent[s]))
            BY <1>q, <2>2, <4>3, LastAppend DEF b
          <5> QED
            BY <4>2, <4>3, <5>1
        <4>4. CASE h.svc # s
          <5>1. /\ Of(b, s) = Of(batch, s)
                /\ LastIs(batch, s, sent[s]) => LastIs(b, s, sent[s])
            BY <1>q, <2>2, <4>4, LastAppend DEF b
          <5> QED
            BY <4>1, <4>2, <4>4, <5>1
        <4> QED
          BY <4>3, <4>4
      <3> QED
        BY <3>1, <3>2
    <2>5. CASE Write(b)
      <3> HIDE DEF b, c
      <3> QED
        BY <1>0, <2>1, <2>2, <2>4, <2>5, WriteStep
    <2>6. CASE ~Full(b) /\ batch' = b /\ UNCHANGED <<row, aggr>>
      <3> HIDE DEF b, c
      <3>1. channel' = c
        BY <1>0, <2>1, <2>6
      <3>2. StatTypes'
        <4>1. Len(b) < Cardinality(Svc)
          BY <2>2, <2>6, FS_CardinalityType DEF Full
        <4> QED
          BY <1>0, <2>2, <2>6, <3>1, <4>1 DEF StatInv, StatTypes
      <3>3. LiveInv' /\ LatestInv'
        BY <1>0, <2>4, <2>6, <3>1 DEF StatInv, LiveInv, LatestInv, InOrder
      <3> QED
        BY <3>2, <3>3 DEF StatInv
    <2> QED
      BY <2>3, <2>5, <2>6
  <1> QED
    BY <1>1, <1>2

\* The steps that touch no status.
LEMMA StatStep == StatInv /\ [Next]_vars => StatInv'
  <1> SUFFICES ASSUME StatInv, [Next]_vars PROVE StatInv'
    OBVIOUS
  <1>p. phase \in Phases
    BY DEF StatInv, StatTypes
  <1>1. ASSUME Die PROVE StatInv'
    BY <1>1, AbortStep DEF Die, Phases
  <1>2. ASSUME UNCHANGED <<phase, flow>> PROVE StatInv'
    BY <1>p, <1>2, StillStep
  <1>3. CASE \E c \in Client, o \in Op : Connect(c, o)
    BY <1>2, <1>3 DEF Connect, stats, flow
  <1>4. CASE \E o \in Signals : Signal(o)
    BY <1>1, <1>2, <1>4 DEF Signal, stats, flow
  <1>5. CASE \E r \in Requester : Request(r)
    BY <1>2, <1>5 DEF Request, Enqueue, WriteReply, stats, flow
  <1>6. CASE CheckPrereq \/ Prepare
    BY <1>6, StillStep DEF CheckPrereq, Prepare, stats, flow, Phases
  <1>7. CASE StartErr \/ End \/ HandleReconErr
    BY <1>1, <1>7 DEF StartErr, End, HandleReconErr
  <1>8. CASE HandleShutdown \/ HandleRecon
    BY <1>8, AbortStep DEF HandleShutdown, HandleRecon, Phases
  <1>9. CASE HandleStatus \/ HandleResetFix
    BY <1>1, <1>2, <1>9 DEF HandleStatus, HandleResetFix, stats, flow
  <1>10. CASE HandleReport \/ HandleUnknown \/ HandleReconRefused
    BY <1>2, <1>10 DEF HandleReport, HandleUnknown, HandleReconRefused, stats, flow
  <1>11. CASE UNCHANGED vars
    BY <1>2, <1>11 DEF vars, stats, flow
  <1> QED
    BY <1>3, <1>4, <1>5, <1>6, <1>7, <1>8, <1>9, <1>10, <1>11, LaunchStep, MonitorStep,
       ReturnStep, AggregatorStep DEF Next, Core, Monitor


(* What a monitor holds was handed over before. *)

\* No status of q is newer than the clock.
Past(q) == \A i \in DOMAIN q : q[i].at <= clock

HandInv ==
  /\ Past(batch) /\ Past(channel)
  /\ \A s \in Svc :
       /\ row[s] <= clock /\ sent[s] <= clock
       /\ entry[s] <= sent[s] /\ result[s] <= sent[s]
       /\ svc[s] # "running" => result[s] = 0

LEMMA HandInit == Init => HandInv
  BY DEF Init, HandInv, Past

\* A write puts statuses of the batch into the rows, wherever it stops.
LEMMA WrittenPast ==
  ASSUME NEW b \in Seq(Status), NEW n \in 0..Len(b), NEW s \in Svc, Past(b), row[s] <= clock
  PROVE  Written(b, n)[s] <= clock
  <1> DEFINE U == Updates(b, n, s)
  <1>1. ASSUME U # {} PROVE b[Max(U)].at <= clock
    <2>1. U \in SUBSET Nat /\ U # {} /\ (\A y \in U : y <= n) /\ n \in Nat /\ U \subseteq DOMAIN b
      BY <1>1 DEF Updates
    <2> HIDE DEF U
    <2>2. \E i \in U : \A j \in U : j <= i
      BY <2>1, GreatestOf
    <2>3. \E i \in U : \A j \in U : i >= j
      BY <2>1, <2>2
    <2>4. Max(U) \in U
      BY <2>3 DEF Max
    <2> QED
      BY <2>1, <2>4 DEF Past
  <1> QED
    BY <1>1 DEF Written

\* The aggregator moves statuses and makes none.
LEMMA HandWrite ==
  ASSUME StatInv, HandInv, NEW b \in Seq(Status), NEW c \in Seq(Status), Past(b), Past(c),
         Write(b), channel' = (IF aggr' = "dead" THEN <<>> ELSE c),
         UNCHANGED <<svc, entry, result, sent, clock>>
  PROVE  HandInv'
  <1>1. batch' = <<>> /\ (channel' = <<>> \/ channel' = c)
    BY DEF Write
  <1>2. Past(batch)' /\ Past(channel)'
    BY <1>1 DEF Past
  <1>3. PICK n \in 0..Len(b) : row' = Written(b, n)
    <2>1. Len(b) \in Nat
      OBVIOUS
    <2> QED
      BY <2>1 DEF Write
  <1>4. \A s \in Svc : row'[s] <= clock
    BY <1>3, WrittenPast DEF HandInv
  <1> QED
    BY <1>2, <1>4 DEF HandInv

LEMMA HandAggregate ==
  ASSUME StatInv, HandInv, Aggregate \/ Tick
  PROVE  HandInv'
  <1>q. channel \in Seq(Status) /\ batch \in Seq(Status) /\ Past(batch) /\ Past(channel)
        /\ UNCHANGED <<svc, entry, result, sent, clock>>
    BY DEF StatInv, StatTypes, HandInv, Aggregate, Tick
  <1>1. CASE Tick
    BY <1>q, <1>1, HandWrite DEF Tick
  <1>2. CASE Aggregate
    <2> DEFINE b == Append(batch, Head(channel))
               c == Tail(channel)
    <2>1. channel # <<>> /\ channel' = IF aggr' = "dead" THEN <<>> ELSE c
      BY <1>2 DEF Aggregate
    <2>2. /\ Head(channel) = channel[1] /\ 1 \in DOMAIN channel /\ Head(channel) \in Status
          /\ c \in Seq(Status) /\ DOMAIN c = 1..Len(channel) - 1 /\ Len(channel) \in Nat
          /\ DOMAIN channel = 1..Len(channel)
          /\ \A i \in 1..Len(channel) - 1 : c[i] = channel[i + 1]
      BY <1>q, <2>1, HeadTailProperties, LenProperties
    <2>3. /\ b \in Seq(Status) /\ DOMAIN b = 1..Len(batch) + 1 /\ DOMAIN batch = 1..Len(batch)
          /\ Len(batch) \in Nat
          /\ \A i \in 1..Len(batch) : b[i] = batch[i]
          /\ b[Len(batch) + 1] = Head(channel)
      BY <1>q, <2>2, AppendProperties
    <2> HIDE DEF b, c
    <2>4. Past(c)
      <3> SUFFICES ASSUME NEW i \in 1..Len(channel) - 1 PROVE c[i].at <= clock
        BY <2>2 DEF Past
      <3>1. c[i] = channel[i + 1] /\ i + 1 \in DOMAIN channel
        BY <2>2
      <3> QED
        BY <1>q, <3>1 DEF Past
    <2>5. Past(b)
      <3> SUFFICES ASSUME NEW i \in 1..Len(batch) + 1 PROVE b[i].at <= clock
        BY <2>3 DEF Past
      <3>1. CASE i \in 1..Len(batch)
        BY <1>q, <2>3, <3>1 DEF Past
      <3>2. CASE i = Len(batch) + 1
        BY <1>q, <2>2, <2>3, <3>2 DEF Past
      <3> QED
        BY <2>3, <3>1, <3>2
    <2>6. CASE Write(b)
      BY <1>q, <2>1, <2>2, <2>3, <2>4, <2>5, <2>6, HandWrite
    <2>7. CASE batch' = b /\ UNCHANGED <<row, aggr>>
      <3>1. channel' = c \/ channel' = <<>>
        BY <2>1
      <3>2. Past(batch)' /\ Past(channel)'
        BY <1>q, <2>4, <2>5, <2>7, <3>1 DEF Past
      <3> QED
        BY <1>q, <2>7, <3>2 DEF HandInv
    <2> QED
      BY <1>2, <2>6, <2>7 DEF Aggregate, b
  <1> QED
    BY <1>1, <1>2

\* A check or a ResetFix hands over a status of its own; a check's result comes back later.
LEMMA HandMake ==
  ASSUME StatInv, HandInv, NEW s \in Svc, svc[s] = "running", Make(s), UNCHANGED svc,
         \/ entry' = entry /\ result' = [result EXCEPT ![s] = clock']
         \/ entry' = [entry EXCEPT ![s] = clock'] /\ result' = result
  PROVE  HandInv'
  <1> DEFINE x == [svc |-> s, at |-> clock + 1]
  <1>1. /\ clock' = clock + 1 /\ sent' = [sent EXCEPT ![s] = clock + 1]
        /\ channel' = Append(channel, x) /\ UNCHANGED <<batch, row>> /\ clock < MaxClock
    BY DEF Make
  <1>t. /\ clock \in Nat /\ channel \in Seq(Status) /\ batch \in Seq(Status)
    BY DEF StatInv, StatTypes
  <1>2. x \in Status /\ x.at = clock + 1
    BY <1>1 DEF StatInv, StatTypes, Status
  <1> HIDE DEF x
  <1>3. /\ DOMAIN channel' = 1..Len(channel) + 1 /\ DOMAIN channel = 1..Len(channel)
        /\ Len(channel) \in Nat
        /\ \A i \in 1..Len(channel) : channel'[i] = channel[i] /\ channel[i] \in Status
        /\ channel'[Len(channel) + 1] = x
    BY <1>1, <1>2, <1>t, AppendProperties
  <1>4. Past(channel)'
    <2> SUFFICES ASSUME NEW i \in 1..Len(channel) + 1 PROVE channel'[i].at <= clock'
      BY <1>3 DEF Past
    <2>1. CASE i \in 1..Len(channel)
      <3>1. channel[i].at \in Nat /\ channel'[i] = channel[i] /\ i \in DOMAIN channel
        BY <1>3, <2>1 DEF Status
      <3>2. channel[i].at <= clock
        BY <3>1 DEF HandInv, Past
      <3> QED
        BY <1>1, <1>t, <3>1, <3>2
    <2>2. CASE i = Len(channel) + 1
      BY <1>1, <1>2, <1>3, <1>t, <2>2
    <2> QED
      BY <1>3, <2>1, <2>2
  <1>5. Past(batch)'
    <2> SUFFICES ASSUME NEW i \in DOMAIN batch PROVE batch[i].at <= clock'
      BY <1>1 DEF Past
    <2>1. batch[i] \in Status
      BY <1>t
    <2>2. batch[i].at \in Nat
      BY <2>1 DEF Status
    <2>3. batch[i].at <= clock
      BY DEF HandInv, Past
    <2> QED
      BY <1>1, <1>t, <2>2, <2>3
  <1>6. ASSUME NEW r \in Svc
        PROVE  /\ row'[r] <= clock' /\ sent'[r] <= clock'
               /\ entry'[r] <= sent'[r] /\ result'[r] <= sent'[r]
               /\ svc'[r] # "running" => result'[r] = 0
    <2>0. /\ sent[r] \in Nat /\ entry[r] \in Nat /\ result[r] \in Nat /\ row[r] \in Nat
          /\ row[r] <= clock /\ sent[r] <= clock /\ entry[r] <= sent[r] /\ result[r] <= sent[r]
          /\ svc[r] # "running" => result[r] = 0
      BY DEF StatInv, StatTypes, HandInv
    <2>1. CASE r = s
      <3>1. /\ sent'[r] = clock + 1 /\ entry'[r] \in {entry[r], clock + 1}
            /\ result'[r] \in {result[r], clock + 1}
        BY <1>1, <2>1 DEF StatInv, StatTypes
      <3> QED
        BY <1>1, <1>t, <2>0, <2>1, <3>1
    <2>2. CASE r # s
      <3>1. sent'[r] = sent[r] /\ entry'[r] = entry[r] /\ result'[r] = result[r]
        BY <1>1, <2>2 DEF StatInv, StatTypes
      <3> QED
        BY <1>1, <1>t, <2>0, <3>1
    <2> QED
      BY <2>1, <2>2
  <1> QED
    BY <1>4, <1>5, <1>6 DEF HandInv

LEMMA HandMonitor ==
  ASSUME StatInv, HandInv, NEW s \in Svc, Monitor(s) \/ CheckSends(s)
  PROVE  HandInv'
  <1>1. CASE MonitorStarts(s)
    <2>1. /\ svc[s] = "starting" /\ UNCHANGED <<result, channel, batch, row, clock>>
          /\ svc' \in {[svc EXCEPT ![s] = "running"], [svc EXCEPT ![s] = "dead"]}
          /\ \/ entry' = [entry EXCEPT ![s] = row[s]] /\ sent' = [sent EXCEPT ![s] = row[s]]
             \/ entry' = entry /\ sent' = sent
      BY <1>1 DEF MonitorStarts
    <2>2. result[s] = 0 /\ row[s] \in Nat
      BY <2>1 DEF StatInv, StatTypes, HandInv
    <2>3. Past(batch)' /\ Past(channel)'
      BY <2>1 DEF HandInv, Past
    <2>4. ASSUME NEW r \in Svc
          PROVE  /\ row'[r] <= clock' /\ sent'[r] <= clock'
                 /\ entry'[r] <= sent'[r] /\ result'[r] <= sent'[r]
                 /\ svc'[r] # "running" => result'[r] = 0
      <3>0. /\ row[r] <= clock /\ sent[r] <= clock /\ entry[r] <= sent[r] /\ result[r] <= sent[r]
            /\ svc[r] # "running" => result[r] = 0
            /\ svc \in [Svc -> {"none", "starting", "running", "dead"}]
            /\ entry \in [Svc -> 0..MaxClock] /\ sent \in [Svc -> 0..MaxClock]
        BY DEF StatInv, StatTypes, HandInv
      <3>1. CASE r # s
        <4>1. svc'[r] = svc[r] /\ entry'[r] = entry[r] /\ sent'[r] = sent[r]
          BY <2>1, <3>0, <3>1
        <4> QED
          BY <2>1, <3>0, <4>1
      <3>2. CASE r = s
        <4>1. \/ entry'[r] = row[r] /\ sent'[r] = row[r]
              \/ entry'[r] = entry[r] /\ sent'[r] = sent[r]
          BY <2>1, <3>0, <3>2
        <4> QED
          BY <2>1, <2>2, <3>0, <3>2, <4>1
      <3> QED
        BY <3>1, <3>2
    <2> QED
      BY <2>3, <2>4 DEF HandInv
  <1>2. CASE CheckSends(s)
    BY <1>2, HandMake DEF CheckSends
  <1>3. CASE CheckReturns(s)
    <2>1. /\ entry' = [entry EXCEPT ![s] = result[s]] /\ result' = [result EXCEPT ![s] = 0]
          /\ UNCHANGED <<svc, sent, channel, batch, row, clock>>
      BY <1>3 DEF CheckReturns
    <2>2. Past(batch)' /\ Past(channel)'
      BY <2>1 DEF HandInv, Past
    <2> QED
      BY <2>1, <2>2 DEF StatInv, StatTypes, HandInv
  <1>4. CASE MonitorResets(s)
    <2>1. CASE /\ aggr = "running" /\ Make(s) /\ entry' = [entry EXCEPT ![s] = clock']
               /\ UNCHANGED <<svc, result>>
      BY <1>4, <2>1, HandMake DEF MonitorResets
    <2>2. CASE /\ svc' = [svc EXCEPT ![s] = "dead"] /\ result' = [result EXCEPT ![s] = 0]
               /\ UNCHANGED <<entry, sent, channel, batch, row, clock>>
      <3>1. Past(batch)' /\ Past(channel)'
        BY <2>2 DEF HandInv, Past
      <3> QED
        BY <2>2, <3>1 DEF StatInv, StatTypes, HandInv
    <2> QED
      BY <1>4, <2>1, <2>2 DEF MonitorResets
  <1> QED
    BY <1>1, <1>2, <1>3, <1>4 DEF Monitor

LEMMA HandStep == StatInv /\ HandInv /\ [Next]_vars => HandInv'
  <1> SUFFICES ASSUME StatInv, HandInv, [Next]_vars PROVE HandInv'
    OBVIOUS
  <1>1. ASSUME AbortStats PROVE HandInv'
    BY <1>1 DEF AbortStats, StatInv, StatTypes, HandInv, Past
  <1>2. ASSUME UNCHANGED flow PROVE HandInv'
    <2>1. UNCHANGED <<svc, entry, result, sent, channel, batch, row, clock>>
      BY <1>2 DEF flow
    <2>2. Past(batch)' /\ Past(channel)'
      BY <2>1 DEF HandInv, Past
    <2> QED
      BY <2>1, <2>2 DEF HandInv
  <1>3. ASSUME Die PROVE HandInv'
    BY <1>1, <1>3 DEF Die
  <1>4. CASE \E c \in Client, o \in Op : Connect(c, o)
    BY <1>2, <1>4 DEF Connect, stats, flow
  <1>5. CASE \E o \in Signals : Signal(o)
    BY <1>2, <1>3, <1>5 DEF Signal, stats, flow
  <1>6. CASE \E r \in Requester : Request(r)
    BY <1>2, <1>6 DEF Request, Enqueue, WriteReply, stats, flow
  <1>7. CASE CheckPrereq \/ Prepare \/ HandleReport \/ HandleUnknown \/ HandleReconRefused
    BY <1>2, <1>7 DEF CheckPrereq, Prepare, HandleReport, HandleUnknown, HandleReconRefused,
       stats, flow
  <1>8. CASE Launch
    <2>1. /\ svc' = [s \in Svc |-> "starting"] /\ \A s \in Svc : svc[s] = "none"
          /\ UNCHANGED <<entry, result, sent, channel, batch, row, clock>>
      BY <1>8 DEF Launch, StatInv, LiveInv
    <2>2. Past(batch)' /\ Past(channel)'
      BY <2>1 DEF HandInv, Past
    <2> QED
      BY <2>1, <2>2 DEF HandInv
  <1>9. CASE StartErr \/ End \/ HandleReconErr
    BY <1>3, <1>9 DEF StartErr, End, HandleReconErr
  <1>10. CASE HandleShutdown \/ HandleRecon
    BY <1>1, <1>10 DEF HandleShutdown, HandleRecon
  <1>11. CASE HandleStatus \/ HandleResetFix
    BY <1>2, <1>3, <1>11 DEF HandleStatus, HandleResetFix, stats, flow
  <1>12. CASE UNCHANGED vars
    BY <1>2, <1>12 DEF vars, stats, flow
  <1> QED
    BY <1>4, <1>5, <1>6, <1>7, <1>8, <1>9, <1>10, <1>11, <1>12, HandMonitor, HandAggregate
    DEF Next, Core

\* run_aggregator loses no status while it and the monitor run: the one last handed over
\* for each service is in its row, in the batch or in the channel, and the monitor holds
\* none that is newer, however checks, their late returns, resets, full batches, ticks and
\* new cycles alternate.
THEOREM StatusKeptHolds == Spec => []StatusKept
  <1>1. ASSUME StatInv, HandInv PROVE StatusKept
    <2> SUFFICES ASSUME NEW s \in Svc, svc[s] = "running", aggr = "running"
                 PROVE  \/ row[s] = sent[s]
                        \/ [svc |-> s, at |-> sent[s]] \in Range(batch) \cup Range(channel)
      BY <1>1 DEF StatusKept, HandInv
    <2>1. channel \in Seq(Status) /\ batch \in Seq(Status)
      BY <1>1 DEF StatInv, StatTypes
    <2>2. /\ LastIs(channel, s, sent[s])
          /\ Of(channel, s) = {} => LastIs(batch, s, sent[s])
          /\ Of(channel, s) = {} /\ Of(batch, s) = {} => row[s] = sent[s]
      BY <1>1 DEF StatInv, LatestInv
    <2>3. Of(channel, s) # {} => [svc |-> s, at |-> sent[s]] \in Range(channel)
      BY <2>1, <2>2, LastIn
    <2>4. Of(channel, s) = {} /\ Of(batch, s) # {} => [svc |-> s, at |-> sent[s]] \in Range(batch)
      BY <2>1, <2>2, LastIn
    <2> QED
      BY <2>2, <2>3, <2>4
  <1> QED
    BY <1>1, StatInit, StatStep, HandInit, HandStep, PTL DEF Spec

-----------------------------------------------------------------------------
(* The requests. *)

Message == [from : Requester \cup {Nobody}, op : Op]

ReqTypes ==
  /\ queue \in Seq(Message) /\ Len(queue) <= QueueCap
  /\ DOMAIN req = Requester
  /\ \A c \in Client : req[c] \in {"none", "sending", "waiting", "replying"}
  /\ req[Watcher] \in {"none", "armed", "sending", "waiting", "ended"}
  /\ op \in [Requester -> Op] /\ op[Watcher] \in {"Unknown", "Shutdown", "Reload"}
  /\ handler \in BOOLEAN
  /\ inbox \in [Svc -> Nat]
  /\ nreq \in 0..MaxRequests /\ nsig \in 0..MaxSignals

\* A connection has one request in the channel while it waits, and none otherwise;
\* what no connection has sent is no ResetFix.
OneRequest ==
  /\ \A i \in DOMAIN queue :
       /\ queue[i].from \in Client => req[queue[i].from] = "waiting"
       /\ queue[i].from \notin Client => queue[i].op # "ResetFix"
  /\ \A i, j \in DOMAIN queue :
       queue[i].from = queue[j].from /\ queue[i].from \in Client => i = j

\* The connections whose ResetFix has not been handled.
Resets(rq, o, q) ==
  {c \in Client : \/ rq[c] = "sending" /\ o[c] = "ResetFix"
                  \/ \E i \in DOMAIN q : q[i].from = c /\ q[i].op = "ResetFix"}

\* Every ResetFix a monitor has not taken was asked for by a request of its own.
ResetInv ==
  /\ IsFiniteSet(Resets(req, op, queue))
  /\ \A s \in Svc : inbox[s] + Cardinality(Resets(req, op, queue)) <= nreq

ReqInv == ReqTypes /\ OneRequest /\ ResetInv

LEMMA ReqInit == Init => ReqInv
  <1> SUFFICES ASSUME Init PROVE ReqInv
    OBVIOUS
  <1>1. ReqTypes
    <2>1. op \in [Requester -> Op] /\ op[Watcher] = "Unknown" /\ DOMAIN req = Requester
          /\ \A r \in Requester : req[r] = "none"
      BY DEF Init, Op, Requester
    <2>2. handler \in BOOLEAN
      BY Zenon DEF Init
    <2>3. queue \in Seq(Message) /\ Len(queue) <= QueueCap
      BY DEF Init
    <2>4. inbox \in [Svc -> Nat] /\ nreq \in 0..MaxRequests /\ nsig \in 0..MaxSignals
      BY DEF Init
    <2> QED
      BY <2>1, <2>2, <2>3, <2>4 DEF ReqTypes, Requester
  <1>2. OneRequest
    BY DEF Init, OneRequest
  <1>3. Resets(req, op, queue) = {}
    BY DEF Init, Resets, Requester
  <1>4. ResetInv
    <2>1. IsFiniteSet(Resets(req, op, queue)) /\ Cardinality(Resets(req, op, queue)) = 0
      BY <1>3, FS_EmptySet
    <2>2. nreq = 0 /\ \A s \in Svc : inbox[s] = 0
      BY DEF Init
    <2> QED
      BY <2>1, <2>2 DEF ResetInv
  <1> QED
    BY <1>1, <1>2, <1>4 DEF ReqInv

\* Fewer resets are pending and the monitors have taken some: the count stays right.
LEMMA FewerResets ==
  ASSUME ReqInv, Resets(req, op, queue)' \subseteq Resets(req, op, queue),
         nreq' = nreq, inbox' \in [Svc -> Nat], \A s \in Svc : inbox'[s] <= inbox[s]
  PROVE  ResetInv'
  <1> DEFINE R == Resets(req, op, queue)
  <1>1. IsFiniteSet(R) /\ \A s \in Svc : inbox[s] + Cardinality(R) <= nreq
    BY DEF ReqInv, ResetInv
  <1>2. IsFiniteSet(R') /\ Cardinality(R') <= Cardinality(R)
    BY <1>1, FS_Subset
  <1>3. Cardinality(R') \in Nat /\ Cardinality(R) \in Nat
    BY <1>1, <1>2, FS_CardinalityType
  <1>4. nreq \in Nat /\ inbox \in [Svc -> Nat]
    BY DEF ReqInv, ReqTypes
  <1>5. ASSUME NEW s \in Svc PROVE inbox'[s] + Cardinality(R') <= nreq
    <2>1. inbox[s] \in Nat /\ inbox'[s] \in Nat /\ inbox'[s] <= inbox[s]
          /\ inbox[s] + Cardinality(R) <= nreq
      BY <1>1, <1>4
    <2> HIDE DEF R
    <2> QED
      BY <1>2, <1>3, <1>4, <2>1
  <1> QED
    BY <1>2, <1>5 DEF ResetInv

-----------------------------------------------------------------------------

\* The process is gone, and with it every connection.
LEMMA DieReq ==
  ASSUME ReqInv, Die, nsig' \in 0..MaxSignals
  PROVE  ReqInv'
  <1>1. /\ queue' = <<>> /\ req' = [r \in Requester |-> "none"]
        /\ op' = [r \in Requester |-> "Unknown"] /\ inbox' = [s \in Svc |-> 0]
        /\ UNCHANGED <<handler, nreq>>
    BY DEF Die, AbortStats
  <1>2. ReqTypes'
    <2>1. op' \in [Requester -> Op] /\ op'[Watcher] = "Unknown" /\ DOMAIN req' = Requester
          /\ \A r \in Requester : req'[r] = "none"
      BY <1>1 DEF Op, Requester
    <2>2. queue' \in Seq(Message) /\ Len(queue') <= QueueCap /\ inbox' \in [Svc -> Nat]
      BY <1>1
    <2> QED
      BY <1>1, <2>1, <2>2 DEF ReqInv, ReqTypes, Requester
  <1>3. OneRequest'
    BY <1>1 DEF OneRequest
  <1>4. Resets(req, op, queue)' = {}
    BY <1>1 DEF Resets, Requester
  <1>5. ResetInv'
    <2>1. \A s \in Svc : inbox'[s] <= inbox[s]
      BY <1>1 DEF ReqInv, ReqTypes
    <2> QED
      BY <1>1, <1>2, <1>4, <2>1, FewerResets DEF ReqTypes
  <1> QED
    BY <1>2, <1>3, <1>5 DEF ReqInv

\* A connection sends its request.
LEMMA ConnectReq ==
  ASSUME ReqInv, NEW c \in Client, NEW o \in Op, Connect(c, o)
  PROVE  ReqInv'
  <1>1. /\ req[c] = "none" /\ nreq < MaxRequests /\ nreq' = nreq + 1
        /\ req' = [req EXCEPT ![c] = "sending"] /\ op' = [op EXCEPT ![c] = o]
        /\ UNCHANGED <<queue, handler, nsig, inbox>>
    BY DEF Connect, stats
  <1>c. c \in Requester /\ c # Watcher
    BY DEF Requester
  <1>2. ReqTypes'
    <2>1. op' \in [Requester -> Op] /\ op'[Watcher] = op[Watcher] /\ DOMAIN req' = Requester
      BY <1>c, <1>1 DEF ReqInv, ReqTypes
    <2>2. \A r \in Requester : r # c => req'[r] = req[r]
      BY <1>1 DEF ReqInv, ReqTypes
    <2>3. req'[c] = "sending"
      BY <1>c, <1>1 DEF ReqInv, ReqTypes
    <2>4. nreq' \in 0..MaxRequests
      BY <1>1 DEF ReqInv, ReqTypes
    <2> QED
      BY <1>1, <1>c, <2>1, <2>2, <2>3, <2>4 DEF ReqInv, ReqTypes, Requester
  <1>3. OneRequest'
    BY <1>c, <1>1 DEF ReqInv, OneRequest, ReqTypes
  <1>4. ResetInv'
    <2> DEFINE R == Resets(req, op, queue)
    <2>1. R' \subseteq R \cup {c}
      BY <1>1 DEF Resets, ReqInv, ReqTypes
    <2>2. IsFiniteSet(R) /\ \A s \in Svc : inbox[s] + Cardinality(R) <= nreq
      BY DEF ReqInv, ResetInv
    <2>3. Cardinality(R) \in Nat /\ nreq \in Nat /\ inbox \in [Svc -> Nat]
      BY <2>2, FS_CardinalityType DEF ReqInv, ReqTypes
    <2>4. IsFiniteSet(R \cup {c}) /\ Cardinality(R \cup {c}) <= Cardinality(R) + 1
      <3>1. /\ IsFiniteSet(R \cup {c})
            /\ Cardinality(R \cup {c}) = IF c \in R THEN Cardinality(R) ELSE Cardinality(R) + 1
        BY <2>2, FS_AddElement, Zenon
      <3> QED
        BY <2>3, <3>1
    <2>5. IsFiniteSet(R') /\ Cardinality(R') <= Cardinality(R \cup {c})
      BY <2>1, <2>4, FS_Subset
    <2>6. Cardinality(R') \in Nat /\ Cardinality(R \cup {c}) \in Nat
      BY <2>4, <2>5, FS_CardinalityType
    <2>7. ASSUME NEW s \in Svc PROVE inbox'[s] + Cardinality(R') <= nreq'
      <3>1. inbox[s] \in Nat /\ inbox[s] + Cardinality(R) <= nreq /\ inbox'[s] = inbox[s]
        BY <1>1, <2>2, <2>3
      <3> HIDE DEF R
      <3> QED
        BY <1>1, <2>3, <2>4, <2>5, <2>6, <3>1
    <2> QED
      BY <2>5, <2>7 DEF ResetInv
  <1> QED
    BY <1>2, <1>3, <1>4 DEF ReqInv

\* A request gets its place in the channel.
LEMMA EnqueueReq ==
  ASSUME ReqInv, NEW r \in Requester, Enqueue(r)
  PROVE  ReqInv'
  <1> DEFINE m == [from |-> r, op |-> op[r]]
  <1>1. /\ req[r] = "sending" /\ Len(queue) < QueueCap /\ queue' = Append(queue, m)
        /\ req' = [req EXCEPT ![r] = "waiting"] /\ op' = [op EXCEPT ![r] = "Unknown"]
        /\ UNCHANGED <<handler, nreq, nsig, inbox>>
    BY DEF Enqueue, stats
  <1>2. m \in Message /\ m.from = r /\ m.op = op[r]
    BY DEF ReqInv, ReqTypes, Message
  <1>3. /\ queue \in Seq(Message) /\ Len(queue) \in Nat /\ DOMAIN queue = 1..Len(queue)
        /\ queue' \in Seq(Message) /\ Len(queue') = Len(queue) + 1
        /\ DOMAIN queue' = 1..Len(queue) + 1
        /\ \A i \in 1..Len(queue) : queue'[i] = queue[i]
        /\ queue'[Len(queue) + 1] = m
    BY <1>1, <1>2, AppendProperties DEF ReqInv, ReqTypes
  <1> HIDE DEF m
  <1>4. /\ DOMAIN req' = Requester /\ req'[r] = "waiting" /\ op'[r] = "Unknown"
        /\ \A x \in Requester : x # r => req'[x] = req[x] /\ op'[x] = op[x]
        /\ op' \in [Requester -> Op]
    BY <1>1 DEF ReqInv, ReqTypes, Op
  <1>5. ReqTypes'
    <2>1. Len(queue') <= QueueCap
      BY <1>1, <1>3
    <2> QED
      BY <1>1, <1>3, <1>4, <2>1 DEF ReqInv, ReqTypes, Requester
  <1>6. OneRequest'
    <2>0. \A i \in 1..Len(queue) : queue[i].from # r \/ r \notin Client
      BY <1>1, <1>3 DEF ReqInv, OneRequest
    <2>1. ASSUME NEW i \in DOMAIN queue'
          PROVE  /\ queue'[i].from \in Client => req'[queue'[i].from] = "waiting"
                 /\ queue'[i].from \notin Client => queue'[i].op # "ResetFix"
      <3>1. CASE i \in 1..Len(queue)
        BY <1>3, <1>4, <2>0, <3>1 DEF ReqInv, OneRequest, Requester
      <3>2. CASE i = Len(queue) + 1
        BY <1>2, <1>3, <1>4, <3>2 DEF ReqInv, ReqTypes, Requester
      <3> QED
        BY <1>3, <3>1, <3>2
    <2>2. ASSUME NEW i \in DOMAIN queue', NEW j \in DOMAIN queue',
                 queue'[i].from = queue'[j].from, queue'[i].from \in Client
          PROVE  i = j
      BY <1>2, <1>3, <2>0, <2>2 DEF ReqInv, OneRequest
    <2> QED
      BY <2>1, <2>2 DEF OneRequest
  <1>7. Resets(req, op, queue)' \subseteq Resets(req, op, queue)
    <2> SUFFICES ASSUME NEW c \in Client, c \in Resets(req, op, queue)'
                 PROVE  c \in Resets(req, op, queue)
      BY DEF Resets
    <2>1. CASE c = r
      BY <1>1, <1>2, <1>3, <1>4, <2>1 DEF Resets
    <2>2. CASE c # r
      BY <1>2, <1>3, <1>4, <2>2 DEF Resets, Requester
    <2> QED
      BY <2>1, <2>2
  <1>8. ResetInv'
    <2>1. inbox' \in [Svc -> Nat] /\ \A s \in Svc : inbox'[s] <= inbox[s]
      BY <1>1 DEF ReqInv, ReqTypes
    <2> QED
      BY <1>1, <1>7, <2>1, FewerResets
  <1> QED
    BY <1>5, <1>6, <1>8 DEF ReqInv

\* The channel stays as it is; a connection may end after its reply.
LEMMA WaitReq ==
  ASSUME ReqInv, queue' = queue, DOMAIN req' = Requester,
         \A c \in Client : req'[c] = req[c] \/ (req[c] = "replying" /\ req'[c] = "none"),
         req'[Watcher] \in {"none", "armed", "sending", "waiting", "ended"},
         op' \in [Requester -> Op], op'[Watcher] \in {"Unknown", "Shutdown", "Reload"},
         \A c \in Client : op'[c] = op[c],
         handler' \in BOOLEAN, nreq' = nreq, nsig' \in 0..MaxSignals,
         inbox' \in [Svc -> Nat], \A s \in Svc : inbox'[s] <= inbox[s]
  PROVE  ReqInv'
  <1>1. ReqTypes'
    BY DEF ReqInv, ReqTypes
  <1>2. OneRequest'
    BY DEF ReqInv, OneRequest
  <1>3. Resets(req, op, queue)' \subseteq Resets(req, op, queue)
    BY DEF Resets
  <1>4. ResetInv'
    BY <1>3, FewerResets
  <1> QED
    BY <1>1, <1>2, <1>4 DEF ReqInv

\* Only the monitors' channels change.
LEMMA InboxReq ==
  ASSUME ReqInv, UNCHANGED requests, inbox' \in [Svc -> Nat], \A s \in Svc : inbox'[s] <= inbox[s]
  PROVE  ReqInv'
  <1>1. UNCHANGED <<queue, req, op, handler, nreq, nsig>>
    BY DEF requests
  <1>2. ReqTypes'
    BY <1>1 DEF ReqInv, ReqTypes
  <1>3. OneRequest' /\ Resets(req, op, queue)' = Resets(req, op, queue)
    BY <1>1 DEF ReqInv, OneRequest, Resets
  <1>4. ResetInv'
    BY <1>1, <1>3, FewerResets
  <1> QED
    BY <1>2, <1>3, <1>4 DEF ReqInv

\* The request at the head is answered or dropped; the others keep their order, and
\* those of an aborted watcher lose their sender.
LEMMA ServedReq ==
  ASSUME ReqInv, queue # <<>>, queue' = Tail(queue) \/ queue' = Orphaned(Tail(queue)),
         DOMAIN req' = Requester,
         \A c \in Client : c # Head(queue).from => req'[c] = req[c],
         \A c \in Client : c = Head(queue).from => req'[c] \in {"replying", "none"},
         req'[Watcher] \in {"none", "armed", "sending", "waiting", "ended"},
         op' \in [Requester -> Op], op'[Watcher] \in {"Unknown", "Shutdown", "Reload"},
         \A c \in Client : op'[c] = op[c],
         UNCHANGED <<handler, nreq, nsig>>, inbox' \in [Svc -> Nat]
  PROVE  /\ ReqTypes' /\ OneRequest'
         /\ Resets(req, op, queue)' \subseteq Resets(req, op, queue)
         /\ Head(queue).op = "ResetFix" =>
              /\ Head(queue).from \in Resets(req, op, queue)
              /\ Head(queue).from \notin Resets(req, op, queue)'
  <1> DEFINE t == Tail(queue)
  <1>1. /\ queue \in Seq(Message) /\ Len(queue) \in Nat \ {0} /\ DOMAIN queue = 1..Len(queue)
        /\ t \in Seq(Message) /\ Len(t) = Len(queue) - 1 /\ DOMAIN t = 1..Len(queue) - 1
        /\ \A i \in 1..Len(queue) - 1 : t[i] = queue[i + 1] /\ t[i] \in Message
        /\ Head(queue) = queue[1]
    BY HeadTailProperties, LenProperties DEF ReqInv, ReqTypes
  <1>2. /\ queue' \in Seq(Message) /\ Len(queue') = Len(queue) - 1
        /\ DOMAIN queue' = 1..Len(queue) - 1
        /\ \A i \in 1..Len(queue) - 1 :
             /\ queue'[i].op = queue[i + 1].op
             /\ queue'[i].from = queue[i + 1].from
                  \/ (queue'[i].from = Nobody /\ queue[i + 1].from = Watcher)
    <2>1. CASE queue' = t
      BY <1>1, <2>1
    <2>2. CASE queue' = Orphaned(t)
      <3> HIDE DEF t
      <3> DEFINE e(i) == [t[i] EXCEPT !.from = IF @ = Watcher THEN Nobody ELSE @]
      <3>1. queue' = [i \in 1..Len(queue) - 1 |-> e(i)]
        BY <1>1, <2>2 DEF Orphaned
      <3>2. ASSUME NEW i \in 1..Len(queue) - 1
            PROVE  /\ e(i) \in Message /\ e(i).op = t[i].op
                   /\ e(i).from = IF t[i].from = Watcher THEN Nobody ELSE t[i].from
        <4>1. t[i] \in Message
          BY <1>1
        <4> QED
          BY <4>1 DEF Message
      <3> HIDE DEF e
      <3>3. Len(queue) - 1 \in Nat
        BY <1>1
      <3>4. queue' \in Seq(Message) /\ Len(queue') = Len(queue) - 1 /\ DOMAIN queue' = 1..Len(queue) - 1
        BY <3>1, <3>2, <3>3, IsASeq
      <3> QED
        BY <1>1, <3>1, <3>2, <3>4
    <2> QED
      BY <2>1, <2>2
  <1> HIDE DEF t
  <1>3. ReqTypes'
    <2>1. Len(queue') <= QueueCap
      BY <1>1, <1>2 DEF ReqInv, ReqTypes
    <2>2. \A c \in Client : req'[c] \in {"none", "sending", "waiting", "replying"}
      BY DEF ReqInv, ReqTypes
    <2> QED
      BY <1>2, <2>1, <2>2 DEF ReqInv, ReqTypes
  <1>4. \A i \in 1..Len(queue) - 1 : queue[i + 1].from \in Client => queue[i + 1].from # Head(queue).from
    BY <1>1 DEF ReqInv, OneRequest
  <1>5. OneRequest'
    <2>1. ASSUME NEW i \in DOMAIN queue'
          PROVE  /\ queue'[i].from \in Client => req'[queue'[i].from] = "waiting"
                 /\ queue'[i].from \notin Client => queue'[i].op # "ResetFix"
      <3>1. i \in 1..Len(queue) - 1 /\ i + 1 \in DOMAIN queue
        BY <1>1, <1>2
      <3> QED
        BY <1>2, <1>4, <3>1 DEF ReqInv, OneRequest
    <2>2. ASSUME NEW i \in DOMAIN queue', NEW j \in DOMAIN queue',
                 queue'[i].from = queue'[j].from, queue'[i].from \in Client
          PROVE  i = j
      <3>1. i \in 1..Len(queue) - 1 /\ i + 1 \in DOMAIN queue
            /\ j \in 1..Len(queue) - 1 /\ j + 1 \in DOMAIN queue
        BY <1>1, <1>2
      <3>2. i + 1 = j + 1
        BY <1>2, <2>2, <3>1 DEF ReqInv, OneRequest
      <3> QED
        BY <3>1, <3>2
    <2> QED
      BY <2>1, <2>2 DEF OneRequest
  <1>6. ASSUME NEW c \in Resets(req, op, queue)'
        PROVE  c \in Resets(req, op, queue) /\ c # Head(queue).from
    <2>0. c \in Client
      BY DEF Resets
    <2>1. CASE req'[c] = "sending" /\ op'[c] = "ResetFix"
      BY <2>0, <2>1 DEF Resets
    <2>2. CASE \E i \in DOMAIN queue' : queue'[i].from = c /\ queue'[i].op = "ResetFix"
      <3>1. PICK i \in 1..Len(queue) - 1 : queue'[i].from = c /\ queue'[i].op = "ResetFix"
        BY <1>2, <2>2
      <3>2. queue[i + 1].from = c /\ queue[i + 1].op = "ResetFix" /\ i + 1 \in DOMAIN queue
        BY <1>1, <1>2, <2>0, <3>1
      <3> QED
        BY <1>4, <2>0, <3>2 DEF Resets
    <2> QED
      BY <2>1, <2>2 DEF Resets
  <1>7. Head(queue).op = "ResetFix" => Head(queue).from \in Resets(req, op, queue)
    <2>1. 1 \in DOMAIN queue
      BY <1>1
    <2> QED
      BY <1>1, <2>1 DEF Resets, ReqInv, OneRequest
  <1> QED
    BY <1>3, <1>5, <1>6, <1>7

\* A reply, or a dropped reply channel, reaches its requester and nobody else.
LEMMA ReplyIs ==
  ASSUME ReqInv, NEW r, NEW f, f = Reply(r) \/ f = Dropped(r)
  PROVE  /\ DOMAIN f = Requester
         /\ \A c \in Client : IF c = r THEN f[c] \in {"replying", "none"} ELSE f[c] = req[c]
         /\ f[Watcher] \in {"none", "armed", "sending", "waiting", "ended"}
  <1>1. /\ DOMAIN req = Requester
        /\ req[Watcher] \in {"none", "armed", "sending", "waiting", "ended"}
    BY DEF ReqInv, ReqTypes
  <1> QED
    BY <1>1 DEF Reply, Dropped, Requester

\* The requester is told, and the request is out of the channel.
LEMMA AnswerReq ==
  ASSUME ReqInv, queue # <<>>, queue' = Tail(queue),
         req' = Reply(Head(queue).from) \/ req' = Dropped(Head(queue).from),
         UNCHANGED <<op, handler, nreq, nsig>>, inbox' \in [Svc -> Nat]
  PROVE  /\ ReqTypes' /\ OneRequest'
         /\ Resets(req, op, queue)' \subseteq Resets(req, op, queue)
         /\ Head(queue).op = "ResetFix" =>
              /\ Head(queue).from \in Resets(req, op, queue)
              /\ Head(queue).from \notin Resets(req, op, queue)'
  <1>1. /\ DOMAIN req' = Requester
        /\ \A c \in Client : IF c = Head(queue).from THEN req'[c] \in {"replying", "none"}
                             ELSE req'[c] = req[c]
        /\ req'[Watcher] \in {"none", "armed", "sending", "waiting", "ended"}
    BY ReplyIs
  <1>2. op' \in [Requester -> Op] /\ op'[Watcher] \in {"Unknown", "Shutdown", "Reload"}
    BY DEF ReqInv, ReqTypes
  <1> QED
    BY <1>1, <1>2, ServedReq

\* An end of the cycle: the watcher is aborted as well.
LEMMA CycleReq ==
  ASSUME ReqInv, HandleShutdown \/ HandleRecon
  PROVE  ReqInv'
  <1>1. /\ queue # <<>> /\ queue' = Orphaned(Tail(queue))
        /\ req' = [Reply(Head(queue).from) EXCEPT ![Watcher] = "none"]
        /\ op' = [op EXCEPT ![Watcher] = "Unknown"] /\ inbox' = [s \in Svc |-> 0]
        /\ UNCHANGED <<handler, nreq, nsig>>
    BY DEF HandleShutdown, HandleRecon, Serves, AbortStats
  <1> DEFINE f == Reply(Head(queue).from)
  <1>2. /\ DOMAIN f = Requester
        /\ \A c \in Client : IF c = Head(queue).from THEN f[c] \in {"replying", "none"} ELSE f[c] = req[c]
    BY ReplyIs
  <1> HIDE DEF f
  <1>3. /\ DOMAIN req' = Requester /\ req'[Watcher] = "none"
        /\ \A c \in Client : req'[c] = f[c]
    BY <1>1, <1>2 DEF f, Requester
  <1>4. /\ op' \in [Requester -> Op] /\ op'[Watcher] = "Unknown" /\ \A c \in Client : op'[c] = op[c]
    BY <1>1 DEF ReqInv, ReqTypes, Requester, Op
  <1>5. inbox' \in [Svc -> Nat] /\ \A s \in Svc : inbox'[s] <= inbox[s]
    BY <1>1 DEF ReqInv, ReqTypes
  <1>6. ReqTypes' /\ OneRequest' /\ Resets(req, op, queue)' \subseteq Resets(req, op, queue)
    <2>1. \A c \in Client : c # Head(queue).from => req'[c] = req[c]
      BY <1>2, <1>3
    <2>2. \A c \in Client : c = Head(queue).from => req'[c] \in {"replying", "none"}
      BY <1>2, <1>3
    <2> QED
      BY <1>1, <1>3, <1>4, <1>5, <2>1, <2>2, ServedReq
  <1>7. ResetInv'
    BY <1>1, <1>5, <1>6, FewerResets
  <1> QED
    BY <1>6, <1>7 DEF ReqInv

\* A ResetFix leaves the channel for the monitors.
LEMMA ResetReq ==
  ASSUME ReqInv, Serves({"ResetFix"}), Answer, inbox' = [s \in Svc |-> inbox[s] + 1]
  PROVE  ReqInv'
  <1> DEFINE R == Resets(req, op, queue)
             h == Head(queue).from
  <1>1. inbox' \in [Svc -> Nat] /\ inbox \in [Svc -> Nat] /\ nreq \in Nat /\ nreq' = nreq
    BY DEF ReqInv, ReqTypes, Answer
  <1>2. ReqTypes' /\ OneRequest' /\ R' \subseteq R /\ h \in R /\ h \notin R'
    BY <1>1, AnswerReq DEF Serves, Answer
  <1>3. IsFiniteSet(R) /\ \A s \in Svc : inbox[s] + Cardinality(R) <= nreq
    BY DEF ReqInv, ResetInv
  <1>4. IsFiniteSet(R \ {h}) /\ Cardinality(R \ {h}) = Cardinality(R) - 1
    BY <1>2, <1>3, FS_RemoveElement
  <1>5. R' \in SUBSET (R \ {h})
    BY <1>2
  <1>6. IsFiniteSet(R') /\ Cardinality(R') <= Cardinality(R \ {h})
    BY <1>4, <1>5, FS_Subset
  <1>7. Cardinality(R') \in Nat /\ Cardinality(R) \in Nat
    BY <1>3, <1>6, FS_CardinalityType
  <1>8. ASSUME NEW s \in Svc PROVE inbox'[s] + Cardinality(R') <= nreq'
    <2>1. inbox'[s] = inbox[s] + 1 /\ inbox[s] \in Nat /\ inbox[s] + Cardinality(R) <= nreq
      BY <1>1, <1>3
    <2> HIDE DEF R, h
    <2> QED
      BY <1>1, <1>4, <1>6, <1>7, <2>1
  <1>9. ResetInv'
    BY <1>6, <1>8 DEF ResetInv
  <1> QED
    BY <1>2, <1>9 DEF ReqInv

\* The other answers, and the requests nobody answers.
LEMMA OtherReq ==
  ASSUME ReqInv, queue # <<>>, queue' = Tail(queue),
         req' = Reply(Head(queue).from) \/ req' = Dropped(Head(queue).from),
         UNCHANGED <<op, handler, nreq, nsig, inbox>>
  PROVE  ReqInv'
  <1>1. inbox' \in [Svc -> Nat] /\ \A s \in Svc : inbox'[s] <= inbox[s]
    BY DEF ReqInv, ReqTypes
  <1>2. ReqTypes' /\ OneRequest' /\ Resets(req, op, queue)' \subseteq Resets(req, op, queue)
    BY <1>1, AnswerReq
  <1>3. ResetInv'
    BY <1>1, <1>2, FewerResets
  <1> QED
    BY <1>2, <1>3 DEF ReqInv

LEMMA SignalReq ==
  ASSUME ReqInv, NEW o \in Signals, Signal(o)
  PROVE  ReqInv'
  <1>n. nsig' \in 0..MaxSignals
    BY DEF Signal, ReqInv, ReqTypes
  <1>i. inbox \in [Svc -> Nat] /\ (\A s \in Svc : inbox[s] <= inbox[s]) /\ handler \in BOOLEAN
    BY DEF ReqInv, ReqTypes
  <1>1. CASE Die
    BY <1>n, <1>1, DieReq
  <1>2. CASE /\ req' = [req EXCEPT ![Watcher] = "sending"] /\ op' = [op EXCEPT ![Watcher] = o]
             /\ UNCHANGED <<queue, handler, nreq, inbox>>
    <2>1. /\ DOMAIN req' = Requester /\ req'[Watcher] = "sending" /\ \A c \in Client : req'[c] = req[c]
          /\ op' \in [Requester -> Op] /\ op'[Watcher] = o /\ \A c \in Client : op'[c] = op[c]
      BY <1>2 DEF ReqInv, ReqTypes, Requester, Op, Recon
    <2>2. op'[Watcher] \in {"Unknown", "Shutdown", "Reload"}
      BY <2>1
    <2> QED
      BY <1>n, <1>i, <1>2, <2>1, <2>2, WaitReq
  <1>3. CASE UNCHANGED <<queue, req, op, handler, nreq, inbox>>
    <2>1. /\ DOMAIN req = Requester /\ req[Watcher] \in {"none", "armed", "sending", "waiting", "ended"}
          /\ op \in [Requester -> Op] /\ op[Watcher] \in {"Unknown", "Shutdown", "Reload"}
      BY DEF ReqInv, ReqTypes
    <2> QED
      BY <1>n, <1>i, <1>3, <2>1, WaitReq
  <1> QED
    BY <1>1, <1>2, <1>3 DEF Signal, stats

LEMMA ReqStep == ReqInv /\ [Next]_vars => ReqInv'
  <1> SUFFICES ASSUME ReqInv, [Next]_vars PROVE ReqInv'
    OBVIOUS
  <1>i. /\ inbox \in [Svc -> Nat] /\ handler \in BOOLEAN /\ nsig \in 0..MaxSignals
        /\ \A s \in Svc : inbox[s] <= inbox[s]
        /\ DOMAIN req = Requester /\ req[Watcher] \in {"none", "armed", "sending", "waiting", "ended"}
        /\ op \in [Requester -> Op] /\ op[Watcher] \in {"Unknown", "Shutdown", "Reload"}
    BY DEF ReqInv, ReqTypes
  <1>1. ASSUME Die, UNCHANGED nsig PROVE ReqInv'
    BY <1>i, <1>1, DieReq
  <1>2. ASSUME UNCHANGED <<requests, inbox>> PROVE ReqInv'
    BY <1>i, <1>2, InboxReq
  <1>3. ASSUME NEW c \in Client, WriteReply(c) PROVE ReqInv'
    <2>1. /\ req[c] = "replying" /\ req' = [req EXCEPT ![c] = "none"]
          /\ UNCHANGED <<queue, op, handler, nreq, nsig, inbox>>
      BY <1>3 DEF WriteReply, stats
    <2>2. /\ DOMAIN req' = Requester /\ req'[Watcher] = req[Watcher]
          /\ \A d \in Client : req'[d] = req[d] \/ (req[d] = "replying" /\ req'[d] = "none")
      BY <1>i, <2>1 DEF Requester
    <2> QED
      BY <1>i, <2>1, <2>2, WaitReq
  <1>4. CASE Prepare
    <2>1. /\ req' = [req EXCEPT ![Watcher] = "armed"] /\ handler' = TRUE
          /\ UNCHANGED <<queue, op, nreq, nsig, inbox>>
      BY <1>4 DEF Prepare, stats
    <2>2. /\ DOMAIN req' = Requester /\ req'[Watcher] = "armed" /\ \A d \in Client : req'[d] = req[d]
      BY <1>i, <2>1 DEF Requester
    <2>3. handler' \in BOOLEAN
      BY <2>1, Zenon
    <2> QED
      BY <1>i, <2>1, <2>2, <2>3, WaitReq
  <1>5. CASE CheckPrereq \/ Launch \/ UNCHANGED vars
    BY <1>2, <1>5 DEF CheckPrereq, Launch, vars, stats, requests
  <1>6. CASE StartErr \/ End \/ HandleReconErr
    BY <1>1, <1>6 DEF StartErr, End, HandleReconErr
  <1>7. CASE HandleStatus
    BY <1>1, <1>7, OtherReq DEF HandleStatus, Serves, Answer, stats
  <1>8. CASE HandleResetFix
    BY <1>1, <1>8, ResetReq DEF HandleResetFix
  <1>9. CASE HandleReport \/ HandleReconRefused \/ HandleUnknown
    BY <1>9, OtherReq DEF HandleReport, HandleReconRefused, HandleUnknown, Serves, Answer, stats
  <1>10. ASSUME NEW s \in Svc, MonitorStarts(s) \/ CheckSends(s) \/ CheckReturns(s) PROVE ReqInv'
    BY <1>2, <1>10 DEF MonitorStarts, CheckSends, CheckReturns, Make
  <1>11. ASSUME NEW s \in Svc, MonitorResets(s) PROVE ReqInv'
    <2>1. inbox[s] > 0 /\ inbox' = [inbox EXCEPT ![s] = @ - 1] /\ UNCHANGED requests
      BY <1>11 DEF MonitorResets, Make
    <2>2. inbox' \in [Svc -> Nat] /\ \A r \in Svc : inbox'[r] <= inbox[r]
      BY <1>i, <2>1
    <2> QED
      BY <2>1, <2>2, InboxReq
  <1>12. CASE Aggregate \/ Tick
    BY <1>2, <1>12 DEF Aggregate, Tick
  <1> QED
    BY <1>3, <1>4, <1>5, <1>6, <1>7, <1>8, <1>9, <1>10, <1>11, <1>12, ConnectReq, EnqueueReq,
       CycleReq, SignalReq DEF Next, Core, Request, Monitor

\* Type correctness, with the bounds of the channels: the daemon channel never holds more
\* than its capacity, a batch never more than one status per service, and no monitor more
\* ResetFix messages than were requested.
THEOREM TypeCorrect == Spec => []TypeOK
  <1>1. ASSUME StatInv, ReqInv PROVE TypeOK
    <2>1. inbox \in [Svc -> 0..MaxRequests]
      <3>1. ASSUME NEW s \in Svc PROVE inbox[s] \in 0..MaxRequests
        <4>1. /\ inbox[s] \in Nat /\ nreq \in 0..MaxRequests
              /\ inbox[s] + Cardinality(Resets(req, op, queue)) <= nreq
              /\ Cardinality(Resets(req, op, queue)) \in Nat
          BY <1>1, FS_CardinalityType DEF ReqInv, ReqTypes, ResetInv
        <4> QED
          BY <4>1
      <3> QED
        BY <1>1, <3>1 DEF ReqInv, ReqTypes
    <2> QED
      BY <1>1, <2>1 DEF TypeOK, StatInv, StatTypes, Phases, ReqInv, ReqTypes, Message
  <1> QED
    BY <1>1, StatInit, StatStep, ReqInit, ReqStep, PTL DEF Spec

\* A reply always finds its requester: a connection that has a request in the channel of
\* the daemon waits for its answer and has no second one, through signals, aborted
\* watchers and ends of cycles.
THEOREM OneRequestHolds == Spec => []OneRequest
  <1>1. ReqInv => OneRequest
    BY DEF ReqInv
  <1> QED
    BY <1>1, ReqInit, ReqStep, PTL DEF Spec
=============================================================================
