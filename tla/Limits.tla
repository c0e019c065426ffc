------------------------------- MODULE Limits -------------------------------
(***************************************************************************)
(* The limiters of the proxy engine: the connection limiter, whose         *)
(* counters the accept loops of all services and the closing connections   *)
(* change at the same time, and the traffic limiter, whose caches are      *)
(* rewritten by a reload while connections look their limits up.           *)
(***************************************************************************)
EXTENDS Integers, Sequences, FiniteSets, Functions

CONSTANTS
  Addrs,         \* client addresses, all in one network
  Sockets,       \* connections
  ConnConfigs,   \* configurations of the connection limiter:
                 \*   [global, each, network, own] with own a limit per address
  TrafficValues, \* configurations of the traffic limiter:
                 \*   [service, conn, network, own, listed] of limits per
                 \*   direction, with listed the addresses it has a line for
  MaxLoads       \* bound: reloads

Directions == {"in", "out"}
Rates == [Directions -> Nat]

ASSUME LimitsAssumption ==
  /\ MaxLoads \in Nat /\ IsFiniteSet(Sockets) /\ IsFiniteSet(Addrs) /\ {"none", "service"} \cap Addrs = {}
  /\ \A c \in ConnConfigs : /\ c.global \in Nat /\ c.each \in Nat /\ c.network \in Nat
                          /\ c.own \in [Addrs -> Nat]
  /\ \A v \in TrafficValues : /\ v.service \in Rates /\ v.conn \in Rates /\ v.network \in Rates
                            /\ v.own \in [Addrs -> Rates] /\ v.listed \subseteq Addrs

VARIABLES
  limiters,   \* the limiters made so far: the limit and the count of each
  gens,       \* ipLimits and cidrLimits: limits, and the single limiters
  groups,     \* limits: the group of an address, if it was asked for
  sock,       \* each connection
  overdrawn,  \* history: limiters that a connection gave back twice
  tvals,      \* the values that were loaded last
  ranger,     \* cidrGenerators: the limit of the network
  connGen,    \* generators: the limit of a connection
  connCache,  \* connInLimits, connOutLimits: the limit of the connection of an
              \*   address, 0 for none
  ipCache,    \* inLimits, outLimits: address or "service" to limit, 0 for none
  treload,    \* what periodReload is at
  lookup,     \* a lookup that has read the ranger and not stored its limiter;
              \*   old if the ranger was replaced since
  staleIn,    \* history: entries made from a ranger that is replaced
  loads       \* counter

connLimVars == <<limiters, gens, groups, sock, overdrawn>>
trafficVars == <<tvals, ranger, connGen, connCache, ipCache, treload, lookup, staleIn>>
limitsVars == <<connLimVars, trafficVars, loads>>
------------------------------------------------------------------------------
(* The connection limiter.                                                 *)

NoLimits == [global |-> 0, each |-> 0, network |-> 0, own |-> [a \in Addrs |-> 0]]
NoSock == [pc |-> "none", group |-> <<>>, i |-> 0, closes |-> 0]
Fresh(n) == [limit |-> n, current |-> 0]

\* reload: the limiters of an address and the global one are made at once, those
\* of a network or of each address when they are asked for.
ReloadConnLimits(c) ==
  LET singles == {a \in Addrs : c.own[a] > 0}
      n == Cardinality(singles)
      order == CHOOSE f \in Bijection(1 .. n, singles) : TRUE
      base == Len(limiters)
      made == [i \in 1 .. n |-> Fresh(c.own[order[i]])]
  IN  /\ loads < MaxLoads /\ loads' = loads + 1
      /\ limiters' = limiters \o made \o (IF c.global > 0 THEN <<Fresh(c.global)>> ELSE <<>>)
      /\ gens' = [global |-> IF c.global > 0 THEN base + n + 1 ELSE 0,
                  own |-> [a \in Addrs |-> IF a \in singles THEN base + (CHOOSE i \in 1 .. n : order[i] = a) ELSE 0],
                  each |-> c.each, network |-> c.network]
      /\ groups' = [a \in {} |-> <<>>]
      /\ UNCHANGED <<sock, overdrawn, trafficVars>>

\* newLimiterGroup: the smaller limit first.
LimiterGroup(lims, g) ==
  IF Len(g) = 2 /\ lims[g[1]].limit > lims[g[2]].limit THEN <<g[2], g[1]>> ELSE g

\* What is generated for an address without a limiter of its own: by its network,
\* else by the rule for each address.
GeneratedLimit == IF gens.network > 0 THEN gens.network ELSE gens.each

\* Limiter, under its lock, then Allow begins.  The group is cached.
AcceptSocket(s, a) ==
  LET own == gens.own[a]
      gen == own = 0 /\ GeneratedLimit > 0
      lims == IF gen THEN Append(limiters, Fresh(GeneratedLimit)) ELSE limiters
      first == IF own # 0 THEN <<own>> ELSE IF gen THEN <<Len(lims)>> ELSE <<>>
      group == IF a \in DOMAIN groups THEN groups[a]
               ELSE LimiterGroup(lims, first \o (IF gens.global # 0 THEN <<gens.global>> ELSE <<>>))
  IN  /\ sock[s].pc = "none"
      /\ limiters' = IF a \in DOMAIN groups THEN limiters ELSE lims
      /\ groups' = [b \in DOMAIN groups \cup {a} |-> IF b = a THEN group ELSE groups[b]]
      /\ sock' = [sock EXCEPT ![s] = [NoSock EXCEPT !.pc = IF group = <<>> THEN "open" ELSE "take",
                                                    !.group = group, !.i = 1]]
      /\ UNCHANGED <<gens, overdrawn, trafficVars, loads>>

\* atomic.AddInt64 of the limiter that socket s is at.
AddInt64(s, n) == limiters' = [limiters EXCEPT ![sock[s].group[sock[s].i]].current = @ + n]
Added(s, n) == limiters[sock[s].group[sock[s].i]].current + n
Exceeds(s, n) == Added(s, n) > limiters[sock[s].group[sock[s].i]].limit

\* The next limiter of the group, or the end of it.
NextLimiter(s, from, end) ==
  IF sock[s].i < Len(sock[s].group) THEN [sock[s] EXCEPT !.pc = from, !.i = @ + 1]
                                    ELSE [sock[s] EXCEPT !.pc = end, !.i = 1]

\* Allow(1).
AllowSocket(s) ==
  /\ sock[s].pc = "take"
  /\ AddInt64(s, 1)
  /\ sock' = [sock EXCEPT ![s] = IF Exceeds(s, 1) THEN [@ EXCEPT !.pc = "undo"]
                                 ELSE NextLimiter(s, "take", "open")]
  /\ UNCHANGED <<gens, groups, overdrawn, trafficVars, loads>>

\* Mutant: the group gives back what the limiter that refused gave back already.
UndoSelfToo(s) ==
  /\ sock[s].pc = "undo"
  /\ AddInt64(s, -1)
  /\ sock' = [sock EXCEPT ![s] = [@ EXCEPT !.pc = "rollback"]]
  /\ UNCHANGED <<gens, groups, overdrawn, trafficVars, loads>>

\* The limiter that refused takes its own back, ...
UndoAllow(s) ==
  /\ sock[s].pc = "undo"
  /\ AddInt64(s, -1)
  /\ sock' = [sock EXCEPT ![s] = IF sock[s].i > 1 THEN [@ EXCEPT !.pc = "rollback", !.i = sock[s].i - 1]
                                                  ELSE [@ EXCEPT !.pc = "refused"]]
  /\ UNCHANGED <<gens, groups, overdrawn, trafficVars, loads>>

\* ... then the group those of the limiters before it.
RollbackGroup(s) ==
  /\ sock[s].pc = "rollback"
  /\ AddInt64(s, -1)
  /\ sock' = [sock EXCEPT ![s] = IF sock[s].i > 1 THEN [@ EXCEPT !.i = sock[s].i - 1]
                                                  ELSE [@ EXCEPT !.pc = "refused"]]
  /\ UNCHANGED <<gens, groups, overdrawn, trafficVars, loads>>

\* serverConn.Close.  Pipe closes a connection whose context is cancelled, and
\* the handler's deferred Close closes it once more.
CloseSocket(s) ==
  /\ sock[s].pc \in {"open", "closed"} /\ sock[s].closes <= 1
  /\ sock' = [sock EXCEPT ![s] = [@ EXCEPT !.pc = IF sock[s].group = <<>> THEN "closed" ELSE "give",
                                           !.closes = sock[s].closes + 1, !.i = 1]]
  /\ overdrawn' = IF sock[s].pc = "closed" THEN overdrawn \cup {sock[s].group[i] : i \in DOMAIN sock[s].group}
                                           ELSE overdrawn
  /\ UNCHANGED <<limiters, gens, groups, trafficVars, loads>>

\* Allow(-1): a limiter that is above its limit for a moment ends the loop, and
\* those behind it get nothing back.
GiveBack(s) ==
  /\ sock[s].pc = "give"
  /\ AddInt64(s, -1)
  /\ sock' = [sock EXCEPT ![s] = IF Exceeds(s, -1) THEN [@ EXCEPT !.pc = "closed"]
                                 ELSE NextLimiter(s, "give", "closed")]
  /\ UNCHANGED <<gens, groups, overdrawn, trafficVars, loads>>
------------------------------------------------------------------------------
(* The traffic limiter.                                                    *)

Direct(f) == [d \in Directions |-> f]
NoTraffic == [service |-> Direct(0), conn |-> Direct(0), network |-> Direct(0),
              own |-> [a \in Addrs |-> Direct(0)], listed |-> {}]
NoLookup == [addr |-> "none", dir |-> "in", limit |-> 0, old |-> FALSE]

\* load, the limit of the service and of connections: the limiters of open
\* connections are dropped, or set to what they are at already.
LoadTraffic(v) ==
  /\ treload = "idle" /\ loads < MaxLoads /\ loads' = loads + 1
  /\ tvals' = v
  /\ connCache' = [d \in Directions |-> [a \in Addrs |->
                     IF v.conn[d] <= 0 \/ connCache[d][a] = 0 THEN 0
                     ELSE IF connGen[d] # v.conn[d] THEN connGen[d] ELSE connCache[d][a]]]
  /\ connGen' = v.conn
  /\ ipCache' = [d \in Directions |-> [ipCache[d] EXCEPT !["service"] = v.service[d]]]
  /\ treload' = "addresses"
  /\ UNCHANGED <<connLimVars, ranger, lookup, staleIn>>

\* Mutant: what is left in the cache is not looked at again.
RefreshedKept(d, a) == IF tvals.own[a][d] > 0 THEN tvals.own[a][d] ELSE ipCache[d][a]

\* The entry of an address after the reload: the value for the address; none if
\* that value is zero; else what was cached, set to the limit of the network.
Refreshed(d, a) ==
  IF tvals.own[a][d] > 0 THEN tvals.own[a][d]
  ELSE IF a \in tvals.listed \/ ipCache[d][a] = 0 THEN 0 ELSE tvals.network[d]

ReloadAddresses ==
  /\ treload = "addresses"
  /\ ipCache' = [d \in Directions |-> [k \in Addrs \cup {"service"} |->
                   IF k = "service" THEN ipCache[d][k] ELSE Refreshed(d, k)]]
  /\ staleIn' = {}
  /\ treload' = "swap"
  /\ UNCHANGED <<connLimVars, tvals, ranger, connGen, connCache, lookup, loads>>

\* Under the lock: the networks are replaced.
SwapRanger ==
  /\ treload = "swap"
  /\ ranger' = tvals.network
  /\ treload' = "idle"
  /\ lookup' = [lookup EXCEPT !.old = lookup.addr # "none"]
  /\ UNCHANGED <<connLimVars, tvals, connGen, connCache, ipCache, staleIn, loads>>

\* In and Out: the limiter of the connection, cached or made; then the cached one
\* of the address, else the ranger is read.
LookUp(d, a) ==
  /\ lookup.addr = "none"
  /\ connCache' = [connCache EXCEPT ![d][a] = IF @ = 0 THEN connGen[d] ELSE @]
  /\ lookup' = IF ipCache[d][a] = 0 /\ ranger[d] > 0
               THEN [addr |-> a, dir |-> d, limit |-> ranger[d], old |-> FALSE] ELSE lookup
  /\ UNCHANGED <<connLimVars, tvals, ranger, connGen, ipCache, treload, staleIn, loads>>
TrafficIn(a) == LookUp("in", a)
TrafficOut(a) == LookUp("out", a)

\* ... and the limiter made from it is stored, whatever has happened since.
StoreLimit ==
  /\ lookup.addr # "none"
  /\ ipCache' = [ipCache EXCEPT ![lookup.dir][lookup.addr] = lookup.limit]
  /\ staleIn' = IF treload = "swap" \/ lookup.old
                THEN staleIn \cup {<<lookup.dir, lookup.addr>>} ELSE staleIn
  /\ lookup' = NoLookup
  /\ UNCHANGED <<connLimVars, tvals, ranger, connGen, connCache, treload, loads>>

\* The limiter of a connection expires when it is not asked for.
ExpireConn(d, a) ==
  /\ connCache[d][a] # 0
  /\ connCache' = [connCache EXCEPT ![d][a] = 0]
  /\ UNCHANGED <<connLimVars, tvals, ranger, connGen, ipCache, treload, lookup, staleIn, loads>>
------------------------------------------------------------------------------
LimitsInit ==
  /\ limiters = <<>> /\ groups = [a \in {} |-> <<>>] /\ overdrawn = {}
  /\ gens = NoLimits
  /\ sock = [s \in Sockets |-> NoSock]
  /\ tvals = NoTraffic
  /\ ranger = Direct(0) /\ connGen = Direct(0)
  /\ connCache = [d \in Directions |-> [a \in Addrs |-> 0]]
  /\ ipCache = [d \in Directions |-> [k \in Addrs \cup {"service"} |-> 0]]
  /\ treload = "idle" /\ lookup = NoLookup
  /\ staleIn = {} /\ loads = 0

SocketStep(s) ==
  \/ AllowSocket(s) \/ UndoAllow(s) \/ RollbackGroup(s) \/ CloseSocket(s) \/ GiveBack(s)
  \/ \E a \in Addrs : AcceptSocket(s, a)

ConnLimitNext ==
  \/ \E s \in Sockets : SocketStep(s)
  \/ \E c \in ConnConfigs : ReloadConnLimits(c)

TrafficNext ==
  \/ \E v \in TrafficValues : LoadTraffic(v)
  \/ ReloadAddresses \/ SwapRanger \/ StoreLimit
  \/ \E a \in Addrs : TrafficIn(a) \/ TrafficOut(a)
  \/ \E d \in Directions, a \in Addrs : ExpireConn(d, a)

LimitsNext == ConnLimitNext \/ TrafficNext
LimitsSpec == LimitsInit /\ [][LimitsNext]_limitsVars
------------------------------------------------------------------------------
(* No limiter has more open connections than its limit, however the        *)
(* additions and roll-backs of accept loops and closing connections mix;   *)
(* except limiters that a connection was given back to twice.              *)
ConnLimitHeld ==
  \A l \in DOMAIN limiters :
    l \in overdrawn \/
    Cardinality({s \in Sockets : sock[s].pc = "open" /\ \E i \in DOMAIN sock[s].group : sock[s].group[i] = l})
      <= limiters[l].limit

(* Between two reloads an address is limited by what the configuration says *)
(* for it, or for its network; except by an entry that a lookup stored from *)
(* the networks that a reload was about to replace or had replaced.         *)
TrafficLimitCurrent ==
  treload = "idle" => \A d \in Directions, a \in Addrs :
    \/ <<d, a>> \in staleIn
    \/ ipCache[d][a] = IF tvals.own[a][d] > 0 THEN tvals.own[a][d] ELSE tvals.network[d]
    \/ ipCache[d][a] = 0 /\ tvals.own[a][d] = 0
=============================================================================
