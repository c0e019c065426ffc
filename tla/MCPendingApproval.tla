------------------------- MODULE MCPendingApproval -------------------------
(***************************************************************************)
(* Instances of PendingApproval for TLC.  The tables of coverage,          *)
(* specificity and built patterns are written out; TLC evaluates that they *)
(* are what RulePatterns computes.                                         *)
(*                                                                         *)
(* One container asks for port 443 of                                      *)
(*   Apart    two subdomains of one domain, by name;                       *)
(*   Sibling  two addresses that resolve to one name;                      *)
(*   One      a single subdomain.                                          *)
(* A person approves or denies with the scopes exact (one host) and        *)
(* subdomain_wildcard (all subdomains of the domain).  Destinations, hosts *)
(* and patterns go by short names, for the sake of TLC.                    *)
(***************************************************************************)
EXTENDS PendingApproval, RulePatterns, TLC

CONSTANTS c1, c2, u1, u2

MCScopes == {"exact", "subdomain_wildcard"}
MCOctets == {"10", "1", "2"}

Labels(h) == IF h = "api" THEN <<"api", "example", "com">> ELSE <<"www", "example", "com">>

\* The host a destination asks for, and the name resolved for it.
Asked(d) ==
  CASE d = "addr1" -> <<"10", "1", "1", "1">>
    [] d = "addr2" -> <<"10", "1", "1", "2">>
    [] OTHER -> Labels(d)
ResolvedTo(d) == IF IsIP(Asked(d)) THEN Labels("api") ELSE <<>>

RuleOf(p) ==
  buildPatterns("box", Labels(IF p = "sub" THEN "api" ELSE p), 443,
                IF p = "sub" THEN "subdomain_wildcard" ELSE "exact")

ApartHosts == {"api", "www"}
ApartDests == ApartHosts
ApartHostOf == [d \in ApartDests |-> d]
ApartPatterns == {"api", "www", "sub"}
ApartCovers == [p \in ApartPatterns |-> IF p = "sub" THEN ApartDests ELSE {p}]
ApartSpecificity == [p \in ApartPatterns |-> IF p = "sub" THEN 210 ELSE 221]
ApartPatternFor == [h \in ApartHosts |-> [s \in MCScopes |-> IF s = "exact" THEN h ELSE "sub"]]

OneHosts == {"api"}
OneDests == {"api"}
OneHostOf == [d \in OneDests |-> "api"]
OnePatterns == {"api", "sub"}
OneCovers == [p \in OnePatterns |-> OneDests]
OneSpecificity == [p \in OnePatterns |-> IF p = "sub" THEN 210 ELSE 221]
OnePatternFor == [h \in OneHosts |-> [s \in MCScopes |-> IF s = "exact" THEN h ELSE "sub"]]

SiblingHosts == {"api"}
SiblingDests == {"addr1", "addr2"}
SiblingHostOf == [d \in SiblingDests |-> "api"]
SiblingPatterns == OnePatterns
SiblingCovers == [p \in SiblingPatterns |-> SiblingDests]
SiblingSpecificity == OneSpecificity
SiblingPatternFor == OnePatternFor

ASSUME TablesAreComputed ==
  /\ \A d \in Dests : Labels(HostOf[d]) = DisplayHost(Asked(d), ResolvedTo(d))
  /\ \A d \in Dests : ResolvedTo(d) # <<>> <=> HostOf[d] \in Resolved
  /\ \A p \in Patterns, d \in Dests :
       d \in Covers[p] <=> MatchesRequest("box", Asked(d), 443, ResolvedTo(d), RuleOf(p))
  /\ \A p \in Patterns : Specificity[p] = CalculateSpecificity(RuleOf(p))
  /\ \A h \in Hosts, s \in Scopes :
       RuleOf(PatternFor[h][s]) = buildPatterns("box", Labels(h), 443, s)

NoHosts == {}
MCSymmetry == Permutations({c1, c2}) \cup Permutations({u1, u2})
==============================================================================
