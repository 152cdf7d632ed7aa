-------------------------- MODULE CloudflareProofs --------------------------
(***************************************************************************)
(* Proofs about Cloudflare, for every cloud, every set of zones and any    *)
(* number of reconciliations, failures and edits.                          *)
(***************************************************************************)
EXTENDS Cloudflare, NatOrder, SequenceTheorems, TLAPS

Accounts == {Account[z] : z \in Zones}
ListPost == [kind : {"list"}, where : Accounts \cap {ListAccount}, no : 0..MaxFaults]
ZonePost == [kind : {"ruleset", "rule"}, where : Zones, no : 0..MaxFaults]

\* The calls that are made belong to a server that has a zone.
CallInv ==
  /\ pc = "postlist" => ListZones # {}
  /\ pc \in {"ruleset", "postruleset", "rule", "postrule"}
       => S \in Proxied /\ Matching(Domain[S]) # {}
  /\ late \subseteq ListPost \cup ZonePost

\* What Cloudflare keeps for the daemon, while the owner does not change it.
OneEach(L, R) ==
  /\ \A l, m \in L : l.account = m.account /\ ~l.late /\ ~m.late => l = m
  /\ \A r, q \in R : r.zone = q.zone /\ ~r.late /\ ~q.late => r = q
  /\ \A r \in R : r.enabled
  /\ \A l \in L : l.account = ListAccount
  /\ \A r \in R : \E l \in L : l.account = Account[r.zone]

\* The state st of the server s is about an existing list and an existing rule.
Known(L, R, st, s) ==
  /\ st.zone = Zone(s) /\ Matching(Domain[s]) # {}
  /\ \E l \in L : l.id = st.list /\ l.account = ListAccount
  /\ \E r \in R : r.id = st.rule /\ r.enabled /\ r.zone = Zone(s)

KnownStates(L, R, f) == \A s \in Proxied : f[s] # NoState => Known(L, R, f[s], s)

\* A call that creates something is made after a call that has found nothing: what is
\* there by then comes from a POST given up before.  What the daemon has in hand exists.
InHand ==
  /\ pc = "postlist" => \A l \in Managed : l.late
  /\ pc = "postrule" => \A r \in EnabledRules(Zone(S)) : r.late
  /\ cf_list # None => \E l \in Managed : l.id = cf_list
  /\ KnownStates(lists, rules, fresh)

Tidy ==
  ~touched => OneEach(lists, rules) /\ InHand /\ KnownStates(lists, rules, cfstate)

CfInv == TypeOK /\ CallInv /\ Tidy

USE CloudflareAssumption

-----------------------------------------------------------------------------
(* Zones. *)

\* The zone of a domain is one of the zones it lies in, and the longest.
LEMMA ZoneIs ==
  ASSUME NEW s \in ServerSet, Matching(Domain[s]) # {}
  PROVE  /\ Zone(s) \in Zones /\ IsSuffix(Zone(s), Domain[s])
         /\ \A z \in Zones : IsSuffix(z, Domain[s]) => Len(z) <= Len(Zone(s))
  <1> DEFINE M == Matching(Domain[s])
             T == {Len(z) : z \in M}
  <1>1. M \subseteq Seq(STRING) /\ Domain[s] \in Seq(STRING)
    BY DEF Matching
  <1>2. T \in SUBSET Nat /\ T # {}
    <2>1. \A z \in M : Len(z) \in Nat
      BY <1>1, LenProperties
    <2>2. PICK z : z \in M
      OBVIOUS
    <2>3. Len(z) \in T
      BY <2>2
    <2> QED
      BY <2>1, <2>3
  <1>3. \A y \in T : y <= Len(Domain[s])
    <2>1. ASSUME NEW z \in M PROVE Len(z) <= Len(Domain[s])
      BY <1>1, <2>1 DEF Matching, IsSuffix, IsPrefix, Reverse
    <2> QED
      BY <2>1
  <1>4. \E x \in T : \A y \in T : y <= x
    <2>1. Len(Domain[s]) \in Nat
      BY <1>1, LenProperties
    <2> HIDE DEF T
    <2> QED
      BY <1>2, <1>3, <2>1, GreatestOf
  <1>5. \E z \in M : \A y \in M : Len(y) <= Len(z)
    BY <1>4
  <1>6. Zone(s) \in M /\ \A y \in M : Len(y) <= Len(Zone(s))
    BY <1>5 DEF Zone, ZoneOf
  <1> QED
    BY <1>6 DEF Matching

\* Of two zones of a domain the shorter one contains the longer one.
LEMMA SuffixChain ==
  ASSUME NEW d \in Seq(STRING), NEW z \in Seq(STRING), NEW y \in Seq(STRING),
         IsSuffix(z, d), IsSuffix(y, d), Len(z) <= Len(y)
  PROVE  IsSuffix(z, y)
  <1> DEFINE rz == Reverse(z)  ry == Reverse(y)  rd == Reverse(d)
  <1>1. /\ rz \in Seq(STRING) /\ ry \in Seq(STRING) /\ rd \in Seq(STRING)
        /\ Len(rz) = Len(z) /\ Len(ry) = Len(y) /\ Len(rd) = Len(d)
    BY DEF Reverse
  <1>2. IsPrefix(rz, rd) /\ IsPrefix(ry, rd)
    BY DEF IsSuffix
  <1> HIDE DEF rz, ry, rd
  <1>3. IsPrefix(rz, ry)
    BY <1>1, <1>2 DEF IsPrefix
  <1> QED
    BY <1>3 DEF IsSuffix, rz, ry

LEMMA ServersAre == ServerSet = {Servers[i] : i \in 1..Len(Servers)} /\ Len(Servers) \in Nat \ {0}
  BY DEF ServerSet, Range

LEMMA ServerHere == ASSUME TypeOK PROVE S \in ServerSet
  BY ServersAre DEF TypeOK, S

\* Where the list is, once the first server has a zone.
LEMMA ListHere == ASSUME ListZones # {} PROVE ListAccount \in Accounts
  <1>1. Servers[1] \in ServerSet
    BY ServersAre
  <1> QED
    BY <1>1, ZoneIs DEF ListZones, ListAccount, Accounts

-----------------------------------------------------------------------------
(* What a step may do to the lists, the rules and the states. *)

Types ==
  /\ lists \subseteq [id : 1..ids, account : Accounts, late : BOOLEAN]
  /\ rulesets \subseteq Zones
  /\ rules \subseteq [id : 1..ids, zone : Zones, enabled : BOOLEAN, late : BOOLEAN]
  /\ at \in 1..Len(Servers) /\ cf_list \in 0..ids
  /\ DOMAIN fresh = ServerSet /\ DOMAIN cfstate = ServerSet
  /\ ids \in Nat /\ cycles \in 0..MaxCycles /\ faults \in 0..MaxFaults /\ edits \in 0..MaxEdits
  /\ touched \in BOOLEAN

LEMMA TypesOf == CfInv => Types /\ late \subseteq ListPost \cup ZonePost
  BY DEF CfInv, CallInv, TypeOK, Types, Accounts

\* Something new is added to what there is.
LEMMA CreatedGrows ==
  ASSUME Types, NEW p \in ListPost \cup ZonePost, NEW past \in BOOLEAN, Created(p, past)
  PROVE  /\ lists \subseteq lists' /\ rules \subseteq rules' /\ ids' = ids + 1 /\ ids' \in Nat
         /\ lists' \subseteq [id : 1..ids', account : Accounts, late : BOOLEAN]
         /\ rulesets' \subseteq Zones
         /\ rules' \subseteq [id : 1..ids', zone : Zones, enabled : BOOLEAN, late : BOOLEAN]
  <1>1. ids' = ids + 1 /\ ids \in Nat
    BY DEF Created, Types
  <1>2. /\ p.kind = "list" => p.where \in Accounts
        /\ p.kind \in {"ruleset", "rule"} => p.where \in Zones
    BY DEF ListPost, ZonePost
  <1>3. /\ lists \subseteq [id : 1..ids', account : Accounts, late : BOOLEAN]
        /\ rules \subseteq [id : 1..ids', zone : Zones, enabled : BOOLEAN, late : BOOLEAN]
    <2>1. 1..ids \subseteq 1..ids'
      BY <1>1
    <2> QED
      BY <2>1 DEF Types
  <1>4. p.kind = "list" => [id |-> ids + 1, account |-> p.where, late |-> past] \in [id : 1..ids', account : Accounts, late : BOOLEAN]
    BY <1>1, <1>2
  <1>5. p.kind = "rule" => [id |-> ids + 1, zone |-> p.where, enabled |-> TRUE, late |-> past]
                             \in [id : 1..ids', zone : Zones, enabled : BOOLEAN, late : BOOLEAN]
    BY <1>1, <1>2
  <1>6. lists \subseteq lists' /\ lists' \subseteq [id : 1..ids', account : Accounts, late : BOOLEAN]
    BY <1>3, <1>4 DEF Created
  <1>7. rules \subseteq rules' /\ rules' \subseteq [id : 1..ids', zone : Zones, enabled : BOOLEAN, late : BOOLEAN]
    BY <1>3, <1>5 DEF Created
  <1>8. rulesets' \subseteq Zones
    BY <1>2 DEF Created, Types
  <1> QED
    BY <1>1, <1>6, <1>7, <1>8

\* A POST after a GET that has found nothing creates no second one, unless it is late.
LEMMA CreatedOne ==
  ASSUME NEW p, NEW past \in BOOLEAN, Accepted(p), Created(p, past), OneEach(lists, rules),
         p.kind = "list" => p.where = ListAccount,
         p.kind = "list" => past \/ \A l \in lists : l.account = p.where => l.late,
         p.kind = "rule" => past \/ \A r \in rules : r.zone = p.where => r.late
  PROVE  OneEach(lists', rules')
  <1>1. /\ \A l, m \in lists' : l.account = m.account /\ ~l.late /\ ~m.late => l = m
        /\ \A l \in lists' : l.account = ListAccount
        /\ lists \subseteq lists'
    <2> DEFINE new == [id |-> ids + 1, account |-> p.where, late |-> past]
    <2>1. lists' = IF p.kind = "list" THEN lists \cup {new} ELSE lists
      BY DEF Created
    <2>2. new.account = p.where /\ new.late = past
      OBVIOUS
    <2> HIDE DEF new
    <2> QED
      BY <2>1, <2>2 DEF OneEach
  <1>2. /\ \A r, q \in rules' : r.zone = q.zone /\ ~r.late /\ ~q.late => r = q
        /\ \A r \in rules' : r.enabled
        /\ \A r \in rules' : \E l \in lists : l.account = Account[r.zone]
    <2> DEFINE new == [id |-> ids + 1, zone |-> p.where, enabled |-> TRUE, late |-> past]
    <2>1. rules' = IF p.kind = "rule" THEN rules \cup {new} ELSE rules
      BY DEF Created
    <2>2. new.zone = p.where /\ new.enabled /\ new.late = past
      OBVIOUS
    <2>3. p.kind = "rule" => \E l \in lists : l.account = Account[p.where]
      BY DEF Accepted
    <2> HIDE DEF new
    <2> QED
      BY <2>1, <2>2, <2>3 DEF OneEach
  <1> QED
    BY <1>1, <1>2 DEF OneEach

\* A call adds to what there is, or leaves it, whether its answer comes or not.
Grows ==
  /\ lists \subseteq lists' /\ rules \subseteq rules' /\ ids <= ids' /\ ids' \in Nat
  /\ lists' \subseteq [id : 1..ids', account : Accounts, late : BOOLEAN]
  /\ rulesets' \subseteq Zones
  /\ rules' \subseteq [id : 1..ids', zone : Zones, enabled : BOOLEAN, late : BOOLEAN]
  /\ late' \subseteq ListPost \cup ZonePost /\ faults' \in 0..MaxFaults
  /\ UNCHANGED <<cycles, edits, touched>>
  /\ ~touched => OneEach(lists', rules')

LEMMA StillGrows ==
  ASSUME CfInv, Fault \/ UNCHANGED faults, UNCHANGED <<remote, late, ids, cycles, edits, touched>>
  PROVE  Grows
  BY TypesOf DEF CfInv, Tidy, Types, Fault, remote, Grows

LEMMA PostGrows ==
  ASSUME CfInv, NEW p \in ListPost \cup ZonePost,
         PostLost(p) \/ (Accepted(p) /\ Created(p, FALSE) /\ UNCHANGED <<late, faults>>),
         UNCHANGED <<cycles, edits, touched>>,
         ~touched /\ p.kind = "list" => \A l \in lists : l.account = p.where => l.late,
         ~touched /\ p.kind = "rule" => \A r \in rules : r.zone = p.where => r.late
  PROVE  Grows
  <1>t. Types /\ late \subseteq ListPost \cup ZonePost
    BY TypesOf
  <1>0. /\ late' \in {late, late \cup {p}}
        /\ faults' = faults \/ (faults < MaxFaults /\ faults' = faults + 1)
    BY DEF PostLost, Fault
  <1>1. faults' \in 0..MaxFaults /\ late' \subseteq ListPost \cup ZonePost
    BY <1>t, <1>0 DEF Types
  <1>2. CASE Accepted(p) /\ Created(p, FALSE)
    <2>1. ids <= ids'
      BY <1>t, <1>2 DEF Created, Types
    <2>2. p.kind = "list" => p.where = ListAccount
      BY DEF ListPost, ZonePost
    <2>3. ~touched => OneEach(lists', rules')
      BY <1>2, <2>2, CreatedOne DEF CfInv, Tidy
    <2> QED
      BY <1>t, <1>1, <1>2, <2>1, <2>3, CreatedGrows DEF Grows
  <1>3. CASE UNCHANGED <<remote, ids>>
    BY <1>t, <1>1, <1>3 DEF Grows, remote, Types, CfInv, Tidy
  <1> QED
    BY <1>2, <1>3 DEF PostLost

\* States stay known while things are only added.
LEMMA KnownGrows ==
  ASSUME Grows, NEW f, KnownStates(lists, rules, f)
  PROVE  KnownStates(lists', rules', f)
  BY DEF Grows, KnownStates, Known

LEMMA UnsetKnown ==
  ASSUME NEW L, NEW R
  PROVE  KnownStates(L, R, Unset) /\ DOMAIN Unset = ServerSet
  BY DEF KnownStates, Unset

\* The invariant after a call, from what the daemon then has in hand.
LEMMA AfterCall ==
  ASSUME CfInv, Grows,
         pc' \in {"idle", "list", "postlist", "zone", "ruleset", "postruleset", "rule", "postrule"},
         at' \in 1..Len(Servers), cf_list' \in 0..ids',
         DOMAIN fresh' = ServerSet, DOMAIN cfstate' = ServerSet,
         pc' = "postlist" => ListZones # {},
         pc' \in {"ruleset", "postruleset", "rule", "postrule"}
           => S' \in Proxied /\ Matching(Domain[S']) # {},
         ~touched => InHand' /\ KnownStates(lists', rules', cfstate')
  PROVE  CfInv'
  <1>t. Types
    BY TypesOf
  <1>1. Types' /\ (late \subseteq ListPost \cup ZonePost)'
    BY <1>t DEF Grows, Types
  <1>2. TypeOK'
    <2>1. /\ lists' \subseteq [id : 1..ids', account : Accounts, late : BOOLEAN]
          /\ rulesets' \subseteq Zones
          /\ rules' \subseteq [id : 1..ids', zone : Zones, enabled : BOOLEAN, late : BOOLEAN]
          /\ late' \subseteq ListPost \cup ZonePost
      BY DEF Grows
    <2> QED
      BY <1>1, <2>1 DEF TypeOK, Types, ListPost, ZonePost, Accounts
  <1>3. CallInv'
    BY <1>1 DEF CallInv, ListZones
  <1>4. Tidy'
    BY DEF Tidy, Grows
  <1> QED
    BY <1>2, <1>3, <1>4 DEF CfInv

\* An error throws away what is in hand; the states in service stay.
LEMMA FailsStep ==
  ASSUME CfInv, Grows, Fails
  PROVE  CfInv'
  <1>t. Types
    BY TypesOf
  <1>1. /\ pc' = "idle" /\ fresh' = Unset /\ cf_list' = None /\ at' = 1 /\ cfstate' = cfstate
    BY DEF Fails
  <1>2. ~touched => InHand' /\ KnownStates(lists', rules', cfstate')
    <2>1. ~touched => KnownStates(lists', rules', cfstate')
      BY <1>1, KnownGrows DEF CfInv, Tidy
    <2> QED
      BY <1>1, <2>1, UnsetKnown DEF InHand
  <1>3. at' \in 1..Len(Servers) /\ cf_list' \in 0..ids'
    BY <1>1, ServersAre DEF None, Grows
  <1>4. DOMAIN fresh' = ServerSet /\ DOMAIN cfstate' = ServerSet
    BY <1>t, <1>1, UnsetKnown DEF Types
  <1> QED
    BY <1>1, <1>2, <1>3, <1>4, AfterCall

\* A state is set: for a proxied server one that is known.
LEMMA SetStateStep ==
  ASSUME CfInv, Grows, NEW st, SetState(st),
         ~touched /\ S \in Proxied => Known(lists', rules', st, S)
  PROVE  CfInv'
  <1>t. Types
    BY TypesOf
  <1>s. S \in ServerSet
    BY ServerHere DEF CfInv
  <1> DEFINE f == [fresh EXCEPT ![S] = st]
  <1>1. DOMAIN f = ServerSet
    BY <1>t DEF Types
  <1>2. ASSUME ~touched PROVE KnownStates(lists', rules', f)
    <2>1. KnownStates(lists', rules', fresh)
      BY <1>2, KnownGrows DEF CfInv, Tidy, InHand
    <2>2. \A s \in ServerSet : f[s] = IF s = S THEN st ELSE fresh[s]
      BY <1>t DEF Types
    <2> HIDE DEF f
    <2> QED
      BY <1>2, <2>1, <2>2 DEF KnownStates
  <1>3. CASE AllDone /\ InService(f)
    <2>1. /\ pc' = "idle" /\ at' = 1 /\ cf_list' = None /\ fresh' = Unset /\ cfstate' = f
      BY <1>3 DEF InService
    <2> HIDE DEF f
    <2>2. ~touched => InHand' /\ KnownStates(lists', rules', cfstate')
      BY <1>2, <2>1, UnsetKnown DEF InHand
    <2>3. at' \in 1..Len(Servers) /\ cf_list' \in 0..ids'
      BY <2>1, ServersAre DEF None, Grows
    <2>4. DOMAIN fresh' = ServerSet /\ DOMAIN cfstate' = ServerSet
      BY <1>1, <2>1, UnsetKnown
    <2> QED
      BY <2>1, <2>2, <2>3, <2>4, AfterCall
  <1>4. CASE ~AllDone /\ pc' = "zone" /\ at' = at + 1 /\ fresh' = f /\ UNCHANGED <<cf_list, cfstate>>
    <2> HIDE DEF f
    <2>1. at' \in 1..Len(Servers) /\ cf_list' \in 0..ids'
      BY <1>t, <1>4, ServersAre DEF AllDone, Types, Grows
    <2>2. ASSUME ~touched PROVE InHand' /\ KnownStates(lists', rules', cfstate')
      <3>1. cf_list' # None => (\E l \in Managed : l.id = cf_list)'
        BY <1>4, <2>2 DEF CfInv, Tidy, InHand, Managed, Grows
      <3>2. KnownStates(lists', rules', cfstate')
        BY <1>4, <2>2, KnownGrows DEF CfInv, Tidy
      <3> QED
        BY <1>2, <1>4, <2>2, <3>1, <3>2 DEF InHand
    <2> QED
      BY <1>t, <1>1, <1>4, <2>1, <2>2, AfterCall DEF Types
  <1> QED
    BY <1>3, <1>4 DEF SetState

\* What is in hand stays as it is.
LEMMA StayStep ==
  ASSUME CfInv, Grows, Stay, pc' \in {"ruleset", "postruleset", "rule", "postrule"},
         S \in Proxied, Matching(Domain[S]) # {},
         ~touched /\ pc' = "postrule" => \A r \in EnabledRules(Zone(S))' : r.late
  PROVE  CfInv'
  <1>t. Types
    BY TypesOf
  <1>1. UNCHANGED <<at, cf_list, fresh, cfstate>> /\ S' = S
    BY DEF Stay, S
  <1>2. at' \in 1..Len(Servers) /\ cf_list' \in 0..ids'
    BY <1>t, <1>1 DEF Types, Grows
  <1>3. ASSUME ~touched PROVE InHand' /\ KnownStates(lists', rules', cfstate')
    <2>1. cf_list' # None => (\E l \in Managed : l.id = cf_list)'
      BY <1>1, <1>3 DEF CfInv, Tidy, InHand, Managed, Grows
    <2>2. KnownStates(lists', rules', cfstate') /\ KnownStates(lists', rules', fresh')
      BY <1>1, <1>3, KnownGrows DEF CfInv, Tidy, InHand
    <2>3. pc' = "postrule" => (\A r \in EnabledRules(Zone(S)) : r.late)'
      BY <1>1, <1>3
    <2> QED
      BY <2>1, <2>2, <2>3 DEF InHand
  <1>4. DOMAIN fresh' = ServerSet /\ DOMAIN cfstate' = ServerSet
    BY <1>t, <1>1 DEF Types
  <1> QED
    BY <1>1, <1>2, <1>3, <1>4, AfterCall

\* The list is known, missing, or given up.
LEMMA ListDone ==
  ASSUME CfInv, Grows, pc \in {"list", "postlist"}, pc' \in {"zone", "postlist"},
         UNCHANGED <<at, fresh, cfstate>>, cf_list' \in 0..ids',
         pc' = "postlist" => ListZones # {} /\ \A l \in Managed' : l.late,
         ~touched /\ cf_list' # None => \E l \in Managed' : l.id = cf_list'
  PROVE  CfInv'
  <1>t. Types
    BY TypesOf
  <1>1. at' \in 1..Len(Servers) /\ DOMAIN fresh' = ServerSet /\ DOMAIN cfstate' = ServerSet
    BY <1>t DEF Types
  <1>2. ASSUME ~touched PROVE InHand' /\ KnownStates(lists', rules', cfstate')
    <2>1. KnownStates(lists', rules', cfstate') /\ KnownStates(lists', rules', fresh')
      BY <1>2, KnownGrows DEF CfInv, Tidy, InHand
    <2> QED
      BY <1>2, <2>1 DEF InHand
  <1> QED
    BY <1>1, <1>2, AfterCall

-----------------------------------------------------------------------------
(* The invariant, one lemma per call. *)

LEMMA CfInit == Init => CfInv
  <1> SUFFICES ASSUME Init PROVE CfInv
    OBVIOUS
  <1>1. TypeOK
    <2>1. at \in 1..Len(Servers) /\ cf_list \in 0..ids
      BY ServersAre DEF Init, None
    <2>2. DOMAIN fresh = ServerSet /\ DOMAIN cfstate = ServerSet
      BY UnsetKnown DEF Init
    <2>3. /\ ids \in Nat /\ cycles \in 0..MaxCycles /\ faults \in 0..MaxFaults
          /\ edits \in 0..MaxEdits
      BY DEF Init
    <2>4. touched \in BOOLEAN
      BY Zenon DEF Init
    <2>5. lists = {} /\ rulesets = {} /\ rules = {} /\ late = {} /\ pc = "idle"
      BY DEF Init
    <2> QED
      BY <2>1, <2>2, <2>3, <2>4, <2>5 DEF TypeOK
  <1>2. CallInv
    BY DEF Init, CallInv
  <1>3. Tidy
    BY UnsetKnown DEF Init, Tidy, OneEach, InHand
  <1> QED
    BY <1>1, <1>2, <1>3 DEF CfInv

LEMMA BeginStep == CfInv /\ Begin => CfInv'
  <1> SUFFICES ASSUME CfInv, Begin PROVE CfInv'
    OBVIOUS
  <1>t. Types /\ late \subseteq ListPost \cup ZonePost
    BY TypesOf
  <1>1. /\ pc' \in {"zone", "list"} /\ at' = 1 /\ cf_list' = None /\ fresh' = Unset
        /\ cycles < MaxCycles /\ cycles' = cycles + 1
        /\ UNCHANGED <<lists, rulesets, rules, late, cfstate, ids, faults, edits, touched>>
    BY DEF Begin, remote
  <1>2. TypeOK'
    <2>1. cycles' \in 0..MaxCycles /\ at' \in 1..Len(Servers) /\ cf_list' \in 0..ids
      BY <1>t, <1>1, ServersAre DEF Types, None
    <2> QED
      BY <1>1, <2>1, UnsetKnown DEF CfInv, TypeOK
  <1>3. CallInv'
    BY <1>1 DEF CfInv, CallInv
  <1>4. Tidy'
    BY <1>1, UnsetKnown DEF CfInv, Tidy, InHand
  <1> QED
    BY <1>2, <1>3, <1>4 DEF CfInv

LEMMA GetListStep == CfInv /\ GetList => CfInv'
  <1> SUFFICES ASSUME CfInv, GetList PROVE CfInv'
    OBVIOUS
  <1>t. Types
    BY TypesOf
  <1>1. Grows
    BY StillGrows DEF GetList
  <1>2. UNCHANGED <<lists, ids, at, fresh, cfstate>> /\ pc = "list" /\ Managed' = Managed
    BY DEF GetList, ListIs, ListErr, remote, Managed
  <1>3. CASE \E l \in Managed : ListIs(l.id)
    <2>1. PICK l \in Managed : cf_list' = l.id /\ pc' = "zone"
      BY <1>3 DEF ListIs
    <2>2. cf_list' \in 0..ids'
      BY <1>t, <1>2, <2>1 DEF Managed, Types
    <2> QED
      BY <1>1, <1>2, <2>1, <2>2, ListDone
  <1>4. CASE ListErr
    <2>1. cf_list' = cf_list /\ pc' = "zone" /\ cf_list' \in 0..ids'
      BY <1>t, <1>2, <1>4 DEF ListErr, Types
    <2>2. ~touched /\ cf_list' # None => \E l \in Managed' : l.id = cf_list'
      BY <1>2, <2>1 DEF CfInv, Tidy, InHand
    <2> QED
      BY <1>1, <1>2, <2>1, <2>2, ListDone
  <1>5. CASE ListZones # {} /\ Managed = {} /\ pc' = "postlist" /\ UNCHANGED cf_list
    <2>1. cf_list' \in 0..ids'
      BY <1>t, <1>2, <1>5 DEF Types
    <2>2. ~touched /\ cf_list' # None => \E l \in Managed' : l.id = cf_list'
      BY <1>2, <1>5 DEF CfInv, Tidy, InHand
    <2> QED
      BY <1>1, <1>2, <1>5, <2>1, <2>2, ListDone
  <1> QED
    BY <1>3, <1>4, <1>5 DEF GetList

LEMMA PostListStep == CfInv /\ PostList => CfInv'
  <1> SUFFICES ASSUME CfInv, PostList PROVE CfInv'
    OBVIOUS
  <1>t. Types
    BY TypesOf
  <1> DEFINE p == Post("list", ListAccount)
  <1>1. p \in ListPost /\ p.kind = "list" /\ p.where = ListAccount
    BY <1>t, ListHere DEF CfInv, CallInv, PostList, Post, ListPost, Types
  <1>2. ~touched => \A l \in lists : l.account = ListAccount => l.late
    BY DEF CfInv, Tidy, InHand, PostList, Managed
  <1>3. /\ \/ Created(p, FALSE) /\ ListIs(ids') /\ UNCHANGED <<late, faults>>
           \/ PostLost(p) /\ ListErr
        /\ UNCHANGED <<cycles, edits, touched>> /\ pc = "postlist"
    BY DEF PostList
  <1>a. Accepted(p)
    BY <1>1 DEF Accepted
  <1> HIDE DEF p
  <1>4. Grows
    BY <1>a, <1>1, <1>2, <1>3, PostGrows
  <1>5. /\ pc' = "zone" /\ UNCHANGED <<at, fresh, cfstate>>
    BY <1>3 DEF ListIs, ListErr
  <1>6. CASE Created(p, FALSE) /\ ListIs(ids')
    <2>1. cf_list' = ids' /\ cf_list' \in 0..ids'
      BY <1>4, <1>6 DEF ListIs, Grows
    <2>2. \E l \in Managed' : l.id = cf_list'
      <3>1. [id |-> ids + 1, account |-> ListAccount, late |-> FALSE] \in lists' /\ ids' = ids + 1
        BY <1>1, <1>6 DEF Created
      <3> QED
        BY <2>1, <3>1 DEF Managed
    <2> QED
      BY <1>3, <1>4, <1>5, <2>1, <2>2, ListDone
  <1>7. CASE ListErr
    <2>1. cf_list' = cf_list /\ cf_list' \in 0..ids'
      BY <1>t, <1>4, <1>7 DEF ListErr, Types, Grows
    <2>2. ~touched /\ cf_list' # None => \E l \in Managed' : l.id = cf_list'
      BY <1>4, <2>1 DEF CfInv, Tidy, InHand, Managed, Grows
    <2> QED
      BY <1>3, <1>4, <1>5, <2>1, <2>2, ListDone
  <1> QED
    BY <1>3, <1>6, <1>7

LEMMA GetZoneStep == CfInv /\ GetZone => CfInv'
  <1> SUFFICES ASSUME CfInv, GetZone PROVE CfInv'
    OBVIOUS
  <1>1. Grows
    BY StillGrows DEF GetZone
  <1>2. CASE Fails
    BY <1>1, <1>2, FailsStep
  <1>3. CASE S \notin Proxied /\ SetState(State(None, None))
    BY <1>1, <1>3, SetStateStep
  <1>4. CASE Matching(Domain[S]) # {} /\ S \in Proxied /\ pc' = "ruleset" /\ Stay
    BY <1>1, <1>4, StayStep
  <1> QED
    BY <1>2, <1>3, <1>4 DEF GetZone

LEMMA GetRulesetStep == CfInv /\ GetRuleset => CfInv'
  <1> SUFFICES ASSUME CfInv, GetRuleset PROVE CfInv'
    OBVIOUS
  <1>1. Grows
    BY StillGrows DEF GetRuleset
  <1>2. CASE Fails
    BY <1>1, <1>2, FailsStep
  <1>3. CASE pc' \in {"rule", "postruleset"} /\ Stay
    <2>1. S \in Proxied /\ Matching(Domain[S]) # {}
      BY DEF CfInv, CallInv, GetRuleset
    <2> QED
      BY <1>1, <1>3, <2>1, StayStep
  <1> QED
    BY <1>2, <1>3 DEF GetRuleset

LEMMA PostRulesetStep == CfInv /\ PostRuleset => CfInv'
  <1> SUFFICES ASSUME CfInv, PostRuleset PROVE CfInv'
    OBVIOUS
  <1>s. S \in Proxied /\ Matching(Domain[S]) # {} /\ S \in ServerSet
    BY ServerHere DEF CfInv, CallInv, PostRuleset
  <1> DEFINE p == Post("ruleset", Zone(S))
  <1>1. p \in ZonePost /\ p.kind = "ruleset"
    BY <1>s, TypesOf, ZoneIs DEF Post, ZonePost, Types
  <1>2. /\ \/ Accepted(p) /\ Created(p, FALSE) /\ pc' = "rule" /\ Stay /\ UNCHANGED <<late, faults>>
           \/ ~Accepted(p) /\ Fails /\ UNCHANGED <<remote, late, ids, faults>>
           \/ PostLost(p) /\ Fails
        /\ UNCHANGED <<cycles, edits, touched>>
    BY DEF PostRuleset
  <1> HIDE DEF p
  <1>3. Grows
    BY <1>1, <1>2, PostGrows, StillGrows
  <1>4. CASE Fails
    BY <1>3, <1>4, FailsStep
  <1>5. CASE pc' = "rule" /\ Stay
    BY <1>s, <1>3, <1>5, StayStep
  <1> QED
    BY <1>2, <1>4, <1>5

\* The rule that is used exists, and so does the list.
LEMMA UseRuleStep ==
  ASSUME CfInv, Grows, S \in Proxied, Matching(Domain[S]) # {},
         NEW r \in rules', r.zone = Zone(S), r.enabled, UseRule(r.id)
  PROVE  CfInv'
  <1>1. CASE cf_list = None
    BY <1>1, FailsStep DEF UseRule
  <1>2. CASE cf_list # None
    <2>1. SetState(State(cf_list, r.id))
      BY <1>2 DEF UseRule
    <2>2. ASSUME ~touched PROVE Known(lists', rules', State(cf_list, r.id), S)
      <3>1. \E l \in lists' : l.id = cf_list /\ l.account = ListAccount
        BY <1>2, <2>2 DEF CfInv, Tidy, InHand, Managed, Grows
      <3> QED
        BY <3>1 DEF Known, State
    <2> HIDE DEF State
    <2> QED
      BY <2>1, <2>2, SetStateStep
  <1> QED
    BY <1>1, <1>2

LEMMA GetRuleStep == CfInv /\ GetRule => CfInv'
  <1> SUFFICES ASSUME CfInv, GetRule PROVE CfInv'
    OBVIOUS
  <1>s. S \in Proxied /\ Matching(Domain[S]) # {}
    BY DEF CfInv, CallInv, GetRule
  <1>1. Grows /\ rules' = rules
    BY StillGrows DEF GetRule, remote
  <1>2. CASE Fails
    BY <1>1, <1>2, FailsStep
  <1>3. CASE \E r \in EnabledRules(Zone(S)) : UseRule(r.id)
    BY <1>s, <1>1, <1>3, UseRuleStep DEF EnabledRules
  <1>4. CASE EnabledRules(Zone(S)) = {} /\ pc' = "postrule" /\ Stay
    <2>1. EnabledRules(Zone(S))' = {}
      BY <1>1, <1>4 DEF EnabledRules, Stay, S
    <2> QED
      BY <1>s, <1>1, <1>4, <2>1, StayStep
  <1> QED
    BY <1>2, <1>3, <1>4 DEF GetRule

LEMMA PostRuleStep == CfInv /\ PostRule => CfInv'
  <1> SUFFICES ASSUME CfInv, PostRule PROVE CfInv'
    OBVIOUS
  <1>s. S \in Proxied /\ Matching(Domain[S]) # {} /\ S \in ServerSet
    BY ServerHere DEF CfInv, CallInv, PostRule
  <1> DEFINE p == Post("rule", Zone(S))
  <1>1. p \in ZonePost /\ p.kind = "rule" /\ p.where = Zone(S)
    BY <1>s, TypesOf, ZoneIs DEF Post, ZonePost, Types
  <1>2. ~touched => \A r \in rules : r.zone = Zone(S) => r.late
    BY DEF CfInv, Tidy, InHand, OneEach, EnabledRules, PostRule
  <1>3. /\ \/ /\ Accepted(p) /\ Created(p, FALSE)
              /\ \E r \in {q \in rules' : q.zone = Zone(S) /\ q.enabled} : UseRule(r.id)
              /\ UNCHANGED <<late, faults>>
           \/ ~Accepted(p) /\ Fails /\ UNCHANGED <<remote, late, ids, faults>>
           \/ PostLost(p) /\ Fails
        /\ UNCHANGED <<cycles, edits, touched>>
    BY DEF PostRule
  <1> HIDE DEF p
  <1>4. Grows
    BY <1>1, <1>2, <1>3, PostGrows, StillGrows
  <1>5. CASE Fails
    BY <1>4, <1>5, FailsStep
  <1>6. CASE \E r \in {q \in rules' : q.zone = Zone(S) /\ q.enabled} : UseRule(r.id)
    BY <1>s, <1>4, <1>6, UseRuleStep
  <1> QED
    BY <1>3, <1>5, <1>6

\* A crash, a POST that arrives after all and an edit by hand.
LEMMA OutsideStep ==
  ASSUME CfInv, Crash \/ LateArrives \/ EditRule
  PROVE  CfInv'
  <1>t. Types /\ late \subseteq ListPost \cup ZonePost
    BY TypesOf
  <1>1. CASE Crash
    <2>1. /\ pc' = "idle" /\ at' = 1 /\ cf_list' = None /\ fresh' = Unset /\ cfstate' = Unset
          /\ faults' \in 0..MaxFaults
          /\ UNCHANGED <<lists, rulesets, rules, late, ids, cycles, edits, touched>>
      BY <1>t, <1>1 DEF Crash, Fault, remote, Types
    <2>2. at' \in 1..Len(Servers) /\ cf_list' \in 0..ids
      BY <1>t, <2>1, ServersAre DEF None, Types
    <2>3. DOMAIN fresh' = ServerSet /\ DOMAIN cfstate' = ServerSet
      BY <2>1, UnsetKnown
    <2>4. TypeOK'
      BY <2>1, <2>2, <2>3 DEF CfInv, TypeOK
    <2>5. CallInv' /\ Tidy'
      BY <2>1, UnsetKnown DEF CfInv, CallInv, Tidy, InHand
    <2> QED
      BY <2>4, <2>5 DEF CfInv
  <1>2. CASE LateArrives
    <2>1. PICK p \in late :
            /\ late' = late \ {p}
            /\ \/ Accepted(p) /\ Created(p, TRUE)
               \/ ~Accepted(p) /\ UNCHANGED <<remote, ids>>
            /\ UNCHANGED <<pc, at, cf_list, fresh, cfstate, cycles, faults, edits, touched>>
      BY <1>2 DEF LateArrives
    <2>2. S' = S /\ p \in ListPost \cup ZonePost /\ late' \subseteq ListPost \cup ZonePost
      BY <1>t, <2>1 DEF S
    <2>3. CASE Accepted(p) /\ Created(p, TRUE)
      <3>1. /\ lists' \subseteq [id : 1..ids', account : Accounts, late : BOOLEAN]
            /\ rulesets' \subseteq Zones
            /\ rules' \subseteq [id : 1..ids', zone : Zones, enabled : BOOLEAN, late : BOOLEAN]
            /\ lists \subseteq lists' /\ rules \subseteq rules'
            /\ ids' = ids + 1 /\ ids' \in Nat
        BY <1>t, <2>2, <2>3, CreatedGrows
      <3>2. p.kind = "list" => p.where = ListAccount
        BY <2>2 DEF ListPost, ZonePost
      <3>3. ~touched => OneEach(lists', rules')
        BY <2>3, <3>2, CreatedOne DEF CfInv, Tidy
      <3>4. Grows
        BY <1>t, <2>1, <2>2, <3>1, <3>3 DEF Grows, Types
      <3>5. /\ \A l \in lists' : l \in lists \/ l.late
            /\ \A r \in rules' : r \in rules \/ r.late
        BY <2>3 DEF Created
      <3>6. ASSUME ~touched PROVE InHand' /\ KnownStates(lists', rules', cfstate')
        <4>1. KnownStates(lists', rules', cfstate') /\ KnownStates(lists', rules', fresh')
          BY <2>1, <3>4, <3>6, KnownGrows DEF CfInv, Tidy, InHand
        <4>2. pc' = "postlist" => (\A l \in Managed : l.late)'
          BY <2>1, <3>5, <3>6 DEF CfInv, Tidy, InHand, Managed
        <4>3. pc' = "postrule" => (\A r \in EnabledRules(Zone(S)) : r.late)'
          BY <2>1, <2>2, <3>5, <3>6 DEF CfInv, Tidy, InHand, EnabledRules
        <4>4. cf_list' # None => (\E l \in Managed : l.id = cf_list)'
          BY <2>1, <3>1, <3>6 DEF CfInv, Tidy, InHand, Managed
        <4> QED
          BY <4>1, <4>2, <4>3, <4>4 DEF InHand
      <3>7. cf_list' \in 0..ids' /\ at' \in 1..Len(Servers)
        BY <1>t, <2>1, <3>1 DEF Types
      <3>8. DOMAIN fresh' = ServerSet /\ DOMAIN cfstate' = ServerSet
        BY <1>t, <2>1 DEF Types
      <3>9. /\ pc' = "postlist" => ListZones # {}
            /\ pc' \in {"ruleset", "postruleset", "rule", "postrule"}
                 => S' \in Proxied /\ Matching(Domain[S']) # {}
            /\ pc' \in {"idle", "list", "postlist", "zone", "ruleset", "postruleset", "rule", "postrule"}
        BY <2>1, <2>2 DEF CfInv, CallInv, TypeOK
      <3> QED
        BY <3>4, <3>6, <3>7, <3>8, <3>9, AfterCall
    <2>4. CASE UNCHANGED <<remote, ids>>
      <3>1. TypeOK'
        BY <2>1, <2>4 DEF CfInv, TypeOK, remote
      <3>2. CallInv' /\ Tidy'
        BY <2>1, <2>2, <2>4 DEF CfInv, CallInv, Tidy, InHand, Managed, EnabledRules, remote
      <3> QED
        BY <3>1, <3>2 DEF CfInv
    <2> QED
      BY <2>1, <2>3, <2>4
  <1>3. CASE EditRule
    <2>1. PICK r \in rules :
            /\ edits < MaxEdits /\ edits' = edits + 1 /\ touched' = TRUE
            /\ \/ rules' = (rules \ {r}) \cup {[r EXCEPT !.enabled = ~@]}
               \/ rules' = rules \ {r}
            /\ UNCHANGED <<lists, rulesets, late, pc, at, cf_list, fresh, cfstate, ids, cycles, faults>>
      BY <1>3 DEF EditRule
    <2>2. r \in [id : 1..ids, zone : Zones, enabled : BOOLEAN, late : BOOLEAN]
      BY <1>t DEF Types
    <2>3. [r EXCEPT !.enabled = ~@] \in [id : 1..ids, zone : Zones, enabled : BOOLEAN, late : BOOLEAN]
      BY <2>2
    <2>4. rules' \subseteq [id : 1..ids, zone : Zones, enabled : BOOLEAN, late : BOOLEAN]
      BY <1>t, <2>1, <2>3 DEF Types
    <2>5. edits' \in 0..MaxEdits
      BY <1>t, <2>1 DEF Types
    <2>6. TypeOK'
      BY <2>1, <2>4, <2>5 DEF CfInv, TypeOK
    <2>7. CallInv' /\ Tidy'
      BY <2>1 DEF CfInv, CallInv, Tidy, S
    <2> QED
      BY <2>6, <2>7 DEF CfInv
  <1> QED
    BY <1>1, <1>2, <1>3

LEMMA CfStep == CfInv /\ [Next]_vars => CfInv'
  <1> SUFFICES ASSUME CfInv, [Next]_vars PROVE CfInv'
    OBVIOUS
  <1>1. CASE Step
    BY <1>1, GetListStep, PostListStep, GetZoneStep, GetRulesetStep, PostRulesetStep,
       GetRuleStep, PostRuleStep DEF Step
  <1>2. CASE UNCHANGED vars
    <2>1. TypeOK'
      BY <1>2 DEF CfInv, TypeOK, vars, remote
    <2>2. CallInv' /\ Tidy'
      BY <1>2 DEF CfInv, CallInv, Tidy, InHand, Managed, EnabledRules, S, vars, remote
    <2> QED
      BY <2>1, <2>2 DEF CfInv
  <1> QED
    BY <1>1, <1>2, BeginStep, OutsideStep DEF Next

LEMMA CfHolds == Spec => []CfInv
  BY CfInit, CfStep, PTL DEF Spec

-----------------------------------------------------------------------------
(* The theorems. *)

\* Type correctness of the account, the calls and the states.
THEOREM TypeCorrect == Spec => []TypeOK
  <1>1. CfInv => TypeOK
    BY DEF CfInv
  <1> QED
    BY <1>1, CfHolds, PTL

\* However many reconciliations fail, answers are lost or crashes happen, the calls of
\* prepare_cf_list, get_cf_ruleset and get_cf_rule create one list per account and one
\* rule per zone; a further one can only come from a POST that the daemon had given up
\* before it was carried out, and no such POST makes the daemon add another of its own.
\* Of the rest of the world only the owner's edits of the rules are excluded.
THEOREM NoDuplicatesHolds == Spec => []NoDuplicates
  <1>1. CfInv => NoDuplicates
    BY DEF CfInv, Tidy, OneEach, NoDuplicates
  <1> QED
    BY <1>1, CfHolds, PTL

\* What the playbooks get for a proxied server is an existing list of its account and an
\* existing, enabled rule of the most specific zone of its domain.  The list is made in the
\* account of the first server (prepare_cf_list); a zone of another account gets no rule,
\* and its server no state.
THEOREM StateConnectedHolds == Spec => []StateConnected
  <1>1. ASSUME CfInv PROVE StateConnected
    <2> SUFFICES ASSUME NEW s \in Proxied, cfstate[s] # NoState, ~touched
                 PROVE  /\ \E l \in lists : l.id = cfstate[s].list /\ l.account = Account[cfstate[s].zone]
                        /\ \E r \in rules :
                             /\ r.id = cfstate[s].rule /\ r.enabled
                             /\ IsSuffix(r.zone, Domain[s])
                             /\ \A z \in Zones : IsSuffix(z, Domain[s]) => IsSuffix(z, r.zone)
      BY DEF StateConnected
    <2>1. Known(lists, rules, cfstate[s], s) /\ s \in ServerSet
      BY <1>1 DEF CfInv, Tidy, KnownStates
    <2>2. /\ Zone(s) \in Zones /\ IsSuffix(Zone(s), Domain[s])
          /\ \A z \in Zones : IsSuffix(z, Domain[s]) => Len(z) <= Len(Zone(s))
      BY <2>1, ZoneIs DEF Known
    <2>3. \A l \in lists : l.account = Account[Zone(s)]
      <3>1. PICK r \in rules : r.zone = Zone(s)
        BY <2>1 DEF Known
      <3> QED
        BY <1>1, <3>1 DEF CfInv, Tidy, OneEach
    <2>4. \A z \in Zones : IsSuffix(z, Domain[s]) => IsSuffix(z, Zone(s))
      BY <2>1, <2>2, SuffixChain
    <2> QED
      BY <2>1, <2>2, <2>3, <2>4 DEF Known
  <1> QED
    BY <1>1, CfHolds, PTL
=============================================================================
