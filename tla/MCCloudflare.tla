---------------------------- MODULE MCCloudflare ----------------------------
(***************************************************************************)
(* Small instances of Cloudflare: a parent zone and a zone inside it.      *)
(***************************************************************************)
EXTENDS Cloudflare

Parent == <<"example", "org">>
Child  == <<"eu", "example", "org">>

\* s1 is a subdomain of the parent, s2 is the child zone itself, s3 is nested in
\* the child zone.
MCServers == <<"s1", "s2", "s3">>
MCDomain  == [s1 |-> <<"us">> \o Parent, s2 |-> Child, s3 |-> <<"de">> \o Child]
MCZones   == {Parent, Child}

OneAccount  == [z \in MCZones |-> "acc"]
TwoAccounts == [z \in MCZones |-> IF z = Child THEN "other" ELSE "acc"]
=============================================================================
