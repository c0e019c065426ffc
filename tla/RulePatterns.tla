---------------------------- MODULE RulePatterns ----------------------------
(***************************************************************************)
(* The patterns of a rule: what they match, how specific they are, and     *)
(* which ones an approval of a pending request builds.                     *)
(*                                                                         *)
(* A host is the sequence of its labels, an IPv4 address the sequence of   *)
(* its octets, all in lower case.  A pattern is a record whose kind says   *)
(* how it is written:                                                      *)
(*   container    "any" *      "glob" with *, ? or [      "name" literal   *)
(*   destination  "any" *      "sub" *.base      "tree" **.base            *)
(*                "cidr" base is the network's octets    "host" literal    *)
(*   port         "any" *      "ports" a list of ports and ranges          *)
(***************************************************************************)
EXTENDS Integers, Sequences

CONSTANTS Octets      \* the labels that are numbers from 0 to 255

Wildcard == [kind |-> "any"]
Name(n) == [kind |-> "name", base |-> n]
Host(h) == [kind |-> "host", base |-> h]
Sub(h) == [kind |-> "sub", base |-> h]
Port(p) == [kind |-> "ports", base |-> {<<p, p>>}]

IsIP(h) == Len(h) = 4 /\ \A i \in 1 .. 4 : h[i] \in Octets

\* HasSuffix(h, "." + base)
IsSubdomain(h, base) ==
  /\ Len(h) > Len(base)
  /\ SubSeq(h, Len(h) - Len(base) + 1, Len(h)) = base

\* A glob is given by the names filepath.Match accepts for it.
MatchesContainer(name, pat) ==
  \/ pat.kind = "any"
  \/ pat.kind = "glob" /\ name \in pat.base
  \/ pat.kind = "name" /\ name = pat.base

MatchesDestination(h, pat) ==
  \/ pat.kind = "any"
  \/ pat.kind = "cidr" /\ IsIP(h) /\ SubSeq(h, 1, Len(pat.base)) = pat.base
  \/ pat.kind = "tree" /\ (h = pat.base \/ IsSubdomain(h, pat.base))
  \/ pat.kind = "sub" /\ IsSubdomain(h, pat.base)
  \/ pat.kind = "host" /\ h = pat.base

MatchesPort(port, pat) ==
  \/ pat.kind = "any"
  \/ pat.kind = "ports" /\ \E range \in pat.base : range[1] <= port /\ port <= range[2]

MatchesRule(name, h, port, rule) ==
  /\ MatchesContainer(name, rule.container)
  /\ MatchesDestination(h, rule.dest)
  /\ MatchesPort(port, rule.port)

\* FindMatchingRule tries the raw destination, then the resolved hostname;
\* <<>> if there is none.
MatchesRequest(name, h, port, resolved, rule) ==
  \/ MatchesRule(name, h, port, rule)
  \/ resolved # <<>> /\ MatchesRule(name, resolved, port, rule)

ContainerScore(pat) == IF pat.kind = "any" THEN 0 ELSE IF pat.kind = "glob" THEN 100 ELSE 200
DestScore(pat) ==
  IF pat.kind = "any" THEN 0 ELSE IF pat.kind \in {"sub", "tree"} THEN 10 ELSE 20
PortScore(pat) == IF pat.kind = "any" THEN 0 ELSE 1

CalculateSpecificity(rule) ==
  ContainerScore(rule.container) + DestScore(rule.dest) + PortScore(rule.port)

\* The last two labels, also of an address.
extractBaseDomain(h) == IF Len(h) >= 2 THEN SubSeq(h, Len(h) - 1, Len(h)) ELSE h

DisplayHost(h, resolved) == IF resolved # <<>> THEN resolved ELSE h

\* The rule for a pending request that is shown as host h.
buildPatterns(name, h, port, scope) ==
  CASE scope = "any_port" ->
         [container |-> Name(name), dest |-> Host(h), port |-> Wildcard]
    [] scope = "subdomain_wildcard" ->
         [container |-> Name(name), dest |-> Sub(extractBaseDomain(h)), port |-> Wildcard]
    [] scope = "all_containers" ->
         [container |-> Wildcard, dest |-> Host(h), port |-> Port(port)]
    [] OTHER ->
         [container |-> Name(name), dest |-> Host(h), port |-> Port(port)]
==============================================================================
