----------------------------- MODULE Cloudflare -----------------------------
(***************************************************************************)
(* prepare_cloudflare_state: in every reconciliation the daemon finds, or  *)
(* creates with a POST, one block list for the account and, in the zone of *)
(* every proxied server, a ruleset and a rule that blocks the list, and    *)
(* stores what the playbooks need in the server's cfstate.  Every call may *)
(* fail; a POST may be carried out although its answer is lost, or long    *)
(* after the daemon has given it up; the daemon may crash at any step; the *)
(* owner of the account may change the rules by hand.                      *)
(*                                                                         *)
(* A domain is the sequence of its labels, so that a zone is a suffix.     *)
(***************************************************************************)
EXTENDS Naturals, Sequences, SequencesExt, FiniteSets

CONSTANTS
  Servers,      \* the servers of the cloud, in order
  Domain,       \* domain of each server
  Proxied,      \* servers with cloudflare_proxied
  Zones,        \* zones the token can see
  Account,      \* account of each zone
  MaxCycles, MaxFaults, MaxEdits   \* bounds: reconciliations, failures, hand edits

ServerSet == Range(Servers)

ASSUME CloudflareAssumption ==
  /\ Servers \in Seq(ServerSet) \ {<<>>} /\ Proxied \subseteq ServerSet
  /\ \A s \in ServerSet : Domain[s] \in Seq(STRING)
  /\ Zones \subseteq Seq(STRING) /\ DOMAIN Account = Zones
  /\ MaxCycles \in Nat /\ MaxFaults \in Nat /\ MaxEdits \in Nat

\* get_cf_zone: the longest zone the domain lies in.
Matching(d) == {z \in Zones : IsSuffix(z, d)}
ZoneOf(d)   == CHOOSE z \in Matching(d) : \A y \in Matching(d) : Len(y) <= Len(z)
Zone(s)     == ZoneOf(Domain[s])

\* The domain is not the zone itself (nested_subdomains > 0).
TooDeep(s) == Len(Domain[s]) > Len(Zone(s))

None == 0

VARIABLES
  lists,      \* at Cloudflare: the managed lists,
  rulesets,   \*   the zones that have a custom ruleset,
  rules,      \*   and the managed rules in them
  late,       \* POSTs that were given up and may still be carried out
  pc, at,     \* the next call, and the server it is for
  cf_list,
  fresh,      \* cfstate of the servers of the cloud being reconciled
  cfstate,    \* cfstate of the servers in service
  ids, cycles, faults, edits,
  touched     \* history: the owner has changed the rules by hand

remote == <<lists, rulesets, rules>>
vars   == <<remote, late, pc, at, cf_list, fresh, cfstate, ids, cycles, faults, edits, touched>>

NoState == [zone |-> <<>>, deep |-> FALSE, list |-> None, rule |-> None]
Unset   == [s \in ServerSet |-> NoState]

Init ==
  /\ lists = {} /\ rulesets = {} /\ rules = {} /\ late = {}
  /\ pc = "idle" /\ at = 1 /\ cf_list = None
  /\ fresh = Unset /\ cfstate = Unset
  /\ ids = 0 /\ cycles = 0 /\ faults = 0 /\ edits = 0 /\ touched = FALSE

S == Servers[at]

\* A reconciliation starts without a list: cf_list is None in every cycle.
Begin ==
  /\ pc = "idle" /\ cycles < MaxCycles
  /\ cycles' = cycles + 1
  /\ pc' = IF Proxied = {} THEN "zone" ELSE "list"
  /\ at' = 1 /\ cf_list' = None /\ fresh' = Unset
  /\ UNCHANGED <<remote, late, cfstate, ids, faults, edits, touched>>

-----------------------------------------------------------------------------
\* What a POST creates.

\* Each is a call of its own: no counts the failures before it.
Post(kind, where) == [kind |-> kind, where |-> where, no |-> faults]

\* The API takes one ruleset per zone and only rules about an existing list.
Accepted(p) ==
  \/ p.kind = "list"
  \/ p.kind = "ruleset" /\ p.where \notin rulesets
  \/ p.kind = "rule" /\ p.where \in rulesets /\ \E l \in lists : l.account = Account[p.where]

\* What has been created, and whether its POST had been given up by then (history: past).
Created(p, past) ==
  /\ lists' = IF p.kind = "list"
              THEN lists \cup {[id |-> ids + 1, account |-> p.where, late |-> past]} ELSE lists
  /\ rulesets' = IF p.kind = "ruleset" THEN rulesets \cup {p.where} ELSE rulesets
  /\ rules' = IF p.kind = "rule"
              THEN rules \cup {[id |-> ids + 1, zone |-> p.where, enabled |-> TRUE, late |-> past]}
              ELSE rules
  /\ ids' = ids + 1

\* A POST fails: it was lost or refused, or is carried out without an answer,
\* now or later.
Fault == faults < MaxFaults /\ faults' = faults + 1
PostLost(p) ==
  /\ Fault
  /\ \/ UNCHANGED <<remote, late, ids>>
     \/ Accepted(p) /\ Created(p, FALSE) /\ UNCHANGED late
     \/ late' = late \cup {p} /\ UNCHANGED <<remote, ids>>

-----------------------------------------------------------------------------
\* prepare_cf_list, in the account of the first server.

ListZones   == Matching(Domain[Servers[1]])
ListAccount == Account[Zone(Servers[1])]
Managed     == {l \in lists : l.account = ListAccount}

\* An error of prepare_cf_list is only logged.
ListErr == pc' = "zone" /\ UNCHANGED <<at, cf_list, fresh, cfstate>>

ListIs(id) == cf_list' = id /\ pc' = "zone" /\ UNCHANGED <<at, fresh, cfstate>>

GetListCreates ==
  /\ pc = "list"
  /\ pc' = "postlist" /\ UNCHANGED <<at, cf_list, fresh, cfstate, faults>>
  /\ UNCHANGED <<remote, late, ids, cycles, edits, touched>>
GetList ==
  /\ pc = "list"
  /\ \/ ListZones # {} /\ \E l \in Managed : ListIs(l.id) /\ UNCHANGED faults
     \/ /\ ListZones # {} /\ Managed = {}
        /\ pc' = "postlist" /\ UNCHANGED <<at, cf_list, fresh, cfstate, faults>>
     \/ (Fault \/ (ListZones = {} /\ UNCHANGED faults)) /\ ListErr
  /\ UNCHANGED <<remote, late, ids, cycles, edits, touched>>

PostList ==
  /\ pc = "postlist"
  /\ LET p == Post("list", ListAccount) IN
       \/ Created(p, FALSE) /\ ListIs(ids') /\ UNCHANGED <<late, faults>>
       \/ PostLost(p) /\ ListErr
  /\ UNCHANGED <<cycles, edits, touched>>

-----------------------------------------------------------------------------
\* set_cf_state, for one server after the other.

\* An error ends the reconciliation: the old cloud stays, with its own states.
Fails == pc' = "idle" /\ fresh' = Unset /\ cf_list' = None /\ at' = 1 /\ UNCHANGED cfstate

\* The state of S is set; after the last server the reconciled cloud goes into
\* service.
AllDoneLate == at > Len(Servers)
AllDone == at = Len(Servers)
InService(f) == pc' = "idle" /\ at' = 1 /\ cf_list' = None /\ fresh' = Unset /\ cfstate' = f
SetState(st) ==
  LET f == [fresh EXCEPT ![S] = st] IN
    \/ AllDone /\ InService(f)
    \/ ~AllDone /\ pc' = "zone" /\ at' = at + 1 /\ fresh' = f /\ UNCHANGED <<cf_list, cfstate>>

State(list, rule) == [zone |-> Zone(S), deep |-> TooDeep(S), list |-> list, rule |-> rule]

Stay == UNCHANGED <<at, cf_list, fresh, cfstate>>

GetZone ==
  /\ pc = "zone"
  /\ \/ Matching(Domain[S]) = {} /\ Fails /\ UNCHANGED faults
     \/ /\ Matching(Domain[S]) # {} /\ S \notin Proxied
        /\ SetState(State(None, None)) /\ UNCHANGED faults
     \/ Matching(Domain[S]) # {} /\ S \in Proxied /\ pc' = "ruleset" /\ Stay /\ UNCHANGED faults
     \/ Fault /\ Fails
  /\ UNCHANGED <<remote, late, ids, cycles, edits, touched>>

GetRulesetPosts ==
  /\ pc = "ruleset"
  /\ pc' = "postruleset" /\ Stay
  /\ UNCHANGED <<remote, late, ids, cycles, edits, touched, faults>>
GetRuleset ==
  /\ pc = "ruleset"
  /\ \/ pc' = (IF Zone(S) \in rulesets THEN "rule" ELSE "postruleset") /\ Stay /\ UNCHANGED faults
     \/ Fault /\ Fails
  /\ UNCHANGED <<remote, late, ids, cycles, edits, touched>>

PostRuleset ==
  /\ pc = "postruleset"
  /\ LET p == Post("ruleset", Zone(S)) IN
       \/ Accepted(p) /\ Created(p, FALSE) /\ pc' = "rule" /\ Stay /\ UNCHANGED <<late, faults>>
       \/ ~Accepted(p) /\ Fails /\ UNCHANGED <<remote, late, ids, faults>>
       \/ PostLost(p) /\ Fails
  /\ UNCHANGED <<cycles, edits, touched>>

\* The rule is there; a proxied server also needs the list.
UseRuleAnyList(id) == SetState(State(cf_list, id))
UseRule(id) ==
  IF cf_list = None THEN Fails ELSE SetState(State(cf_list, id))

EnabledRules(z) == {r \in rules : r.zone = z /\ r.enabled}

GetRule ==
  /\ pc = "rule"
  /\ \/ \E r \in EnabledRules(Zone(S)) : UseRule(r.id) /\ UNCHANGED faults
     \/ EnabledRules(Zone(S)) = {} /\ pc' = "postrule" /\ Stay /\ UNCHANGED faults
     \/ Fault /\ Fails
  /\ UNCHANGED <<remote, late, ids, cycles, edits, touched>>

PostRule ==
  /\ pc = "postrule"
  /\ LET p == Post("rule", Zone(S)) IN
       \/ /\ Accepted(p) /\ Created(p, FALSE)
          /\ \E r \in {q \in rules' : q.zone = Zone(S) /\ q.enabled} : UseRule(r.id)
          /\ UNCHANGED <<late, faults>>
       \/ ~Accepted(p) /\ Fails /\ UNCHANGED <<remote, late, ids, faults>>
       \/ PostLost(p) /\ Fails
  /\ UNCHANGED <<cycles, edits, touched>>

-----------------------------------------------------------------------------
\* The rest of the world.

\* The states live in memory only: load_cloud brings the servers back without.
Crash ==
  /\ Fault
  /\ pc' = "idle" /\ at' = 1 /\ cf_list' = None
  /\ fresh' = Unset /\ cfstate' = Unset
  /\ UNCHANGED <<remote, late, ids, cycles, edits, touched>>

LateArrives ==
  \E p \in late :
    /\ late' = late \ {p}
    /\ \/ Accepted(p) /\ Created(p, TRUE)
       \/ ~Accepted(p) /\ UNCHANGED <<remote, ids>>
    /\ UNCHANGED <<pc, at, cf_list, fresh, cfstate, cycles, faults, edits, touched>>

\* The owner switches a rule on or off, or deletes it.
EditRule ==
  \E r \in rules :
    /\ edits < MaxEdits /\ edits' = edits + 1 /\ touched' = TRUE
    /\ \/ rules' = (rules \ {r}) \cup {[r EXCEPT !.enabled = ~@]}
       \/ rules' = rules \ {r}
    /\ UNCHANGED <<lists, rulesets, late, pc, at, cf_list, fresh, cfstate, ids, cycles, faults>>

Step ==
  \/ GetList \/ PostList
  \/ GetZone \/ GetRuleset \/ PostRuleset \/ GetRule \/ PostRule

Next == Begin \/ Step \/ Crash \/ LateArrives \/ EditRule

\* The calls have a timeout, so a reconciliation that has begun goes on; a POST
\* that is under way arrives.
Spec == Init /\ [][Next]_vars /\ WF_vars(Step) /\ WF_vars(LateArrives)

-----------------------------------------------------------------------------

TypeOK ==
  /\ lists \subseteq [id : 1..ids, account : {Account[z] : z \in Zones}, late : BOOLEAN]
  /\ rulesets \subseteq Zones
  /\ rules \subseteq [id : 1..ids, zone : Zones, enabled : BOOLEAN, late : BOOLEAN]
  /\ late \subseteq [kind : {"list", "ruleset", "rule"},
                     where : Zones \cup {Account[z] : z \in Zones}, no : 0..MaxFaults]
  /\ pc \in {"idle", "list", "postlist", "zone", "ruleset", "postruleset", "rule", "postrule"}
  /\ at \in 1..Len(Servers) /\ cf_list \in 0..ids
  /\ DOMAIN fresh = ServerSet /\ DOMAIN cfstate = ServerSet
  /\ ids \in Nat /\ cycles \in 0..MaxCycles /\ faults \in 0..MaxFaults /\ edits \in 0..MaxEdits
  /\ touched \in BOOLEAN

\* Lost answers, failed cycles, crashes and the POSTs still under way never make the
\* daemon create what is already there: a second list of the account or a second rule of a
\* zone is always one whose own POST had been given up before it was carried out (that
\* one the code cannot prevent, see OneRule), or the owner has changed the rules.
NoDuplicates ==
  ~touched =>
    /\ \A l, m \in lists : l.account = m.account /\ ~l.late /\ ~m.late => l = m
    /\ \A r, q \in rules : r.zone = q.zone /\ ~r.late /\ ~q.late => r = q

\* What the playbooks get for a proxied server belongs together: an existing list,
\* and an existing enabled rule about it in the zone that serves the domain, the
\* most specific one, also when the state was pieced together over a retry or a POST
\* that had been given up has made a second list or rule meanwhile.  The owner may take
\* the rule away by hand, which the daemon only sees in its next reconciliation: the
\* property speaks of the time before such an edit.
StateConnected ==
  \A s \in Proxied :
    cfstate[s] # NoState /\ ~touched =>
      /\ \E l \in lists : l.id = cfstate[s].list /\ l.account = Account[cfstate[s].zone]
      /\ \E r \in rules :
           /\ r.id = cfstate[s].rule /\ r.enabled
           /\ IsSuffix(r.zone, Domain[s])
           /\ \A z \in Zones : IsSuffix(z, Domain[s]) => IsSuffix(z, r.zone)

\* Once nothing fails any more, the next reconciliation gives every server its
\* state, whatever earlier ones have left half done.
Converges ==
  (pc = "list" /\ faults = MaxFaults /\ late = {})
    ~> (\A s \in ServerSet : cfstate[s] # NoState)

-----------------------------------------------------------------------------
\* What the code does not do.

\* There is never more than one rule in a zone, also when a POST that was given up
\* (requests have a timeout) is carried out after the retry of get_cf_rule has made another.
OneRule == ~touched => \A r, q \in rules : r.zone = q.zone => r = q

\* prepare_cloudflare_state, about an error of the list: "We issue a log only".
\* While the zones can be read, a failure of the list alone does not end the
\* reconciliation.
ListErrOnlyLogged ==
  [][pc = "rule" /\ EnabledRules(Zone(S)) # {} /\ cf_list = None /\ faults' = faults
       => fresh' # Unset \/ cfstate' # cfstate]_vars
=============================================================================
