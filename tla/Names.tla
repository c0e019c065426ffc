------------------------------- MODULE Names --------------------------------
(***************************************************************************)
(* Where names come from.  Rules match names, connections often have only  *)
(* addresses: the reverse cache of the proxy (memory, and a table that      *)
(* survives a restart), the forward cache of the resolver plugin, the DNS   *)
(* handler that reads answers on their way to a client, and the Docker      *)
(* resolver that names the client's container.  Time is counted in units    *)
(* long enough for every started write to be made within one.               *)
(***************************************************************************)
EXTENDS Integers, FiniteSets

CONSTANTS
  Domains,         \* names
  Ips,           \* addresses
  Containers,    \* containers of the Docker daemon
  Lookups,       \* goroutines that call ResolveIP
  TTL,           \* defaultDNSCacheTTL
  DbTTL,         \* dnsCacheDBTTL
  MinTTL, MaxTTL,\* the bounds of a forward entry
  DockerTTL,     \* cacheTTL of the Docker resolver
  MaxTime,       \* bound: the clock
  MaxAnswers     \* bound: answers of DNS

ASSUME NamesAssumption ==
  /\ {TTL, DbTTL, MinTTL, MaxTTL, DockerTTL, MaxTime, MaxAnswers} \subseteq Nat
  /\ MinTTL <= MaxTTL /\ "none" \notin Domains \cup Containers

VARIABLES
  clock,
  answers,    \* history: when DNS last said a name for an address, -1 for never
  asked,      \* counter of DNS answers
  entries,    \* DNSCache.entries: [host, at] with at the expiry
  table,      \* dns_cache: [host, at] with at updated_at
  writes,     \* goroutines of persistToDB and RegisterIPs under way
  resolving,  \* what each ResolveIP is at
  fwd,        \* Resolver.fwdMap: [host, at], an address and its expiry
  docker,     \* the container that has an address, and since when
  dcache      \* DockerResolver.cache: [host, at], a container and its expiry

dnsVars == <<answers, asked, entries, table, writes, resolving, fwd>>
dockerVars == <<docker, dcache>>
namesVars == <<clock, dnsVars, dockerVars>>

NoName == [host |-> "none", at |-> 0]
IdleLookup == [pc |-> "idle", ip |-> "none"]
------------------------------------------------------------------------------
(* DNSCache.                                                               *)

\* GetCached.
GetCached(ip) == IF entries[ip].host # "none" /\ clock <= entries[ip].at THEN entries[ip].host ELSE "none"

\* An entry is good for another TTL from when it is made.
Cached(host) == [host |-> host, at |-> clock + TTL]

\* The rows that loadFromDB and getFromDB see.
FreshRow(ip) == table[ip].host # "none" /\ table[ip].at > clock - DbTTL

\* RegisterIPs: in memory at once, in the table by a goroutine.
RegisterIPs(host, ips) ==
  /\ asked < MaxAnswers /\ asked' = asked + 1
  /\ answers' = [ip \in Ips |-> IF ip \in ips THEN [answers[ip] EXCEPT ![host] = clock] ELSE answers[ip]]
  /\ entries' = [ip \in Ips |-> IF ip \in ips THEN Cached(host) ELSE entries[ip]]
  /\ writes' = writes \cup {[host |-> host, ips |-> ips]}

\* persistToDB, the goroutine: updated_at is the time of the write.  Two of them
\* may write in either order.
Persist(w) ==
  /\ w \in writes /\ writes' = writes \ {w}
  /\ table' = [ip \in Ips |-> IF ip \in w.ips THEN [host |-> w.host, at |-> clock] ELSE table[ip]]
  /\ UNCHANGED <<clock, answers, asked, entries, resolving, fwd, dockerVars>>

\* ResolveIP: memory first, ...
StartResolve(g, ip) ==
  /\ resolving[g].pc = "idle" /\ GetCached(ip) = "none"
  /\ resolving' = [resolving EXCEPT ![g] = [pc |-> "table", ip |-> ip]]
  /\ UNCHANGED <<clock, answers, asked, entries, table, writes, fwd, dockerVars>>

\* Mutant: a row that is used is written again.
ResolveFromDBAgain(g) ==
  /\ resolving[g].pc = "table"
  /\ LET ip == resolving[g].ip
     IN  IF FreshRow(ip)
         THEN /\ entries' = [entries EXCEPT ![ip] = Cached(table[ip].host)]
              /\ writes' = writes \cup {[host |-> table[ip].host, ips |-> {ip}]}
              /\ resolving' = [resolving EXCEPT ![g] = IdleLookup]
         ELSE resolving' = [resolving EXCEPT ![g].pc = "reverse"] /\ UNCHANGED <<entries, writes>>
  /\ UNCHANGED <<clock, answers, asked, table, fwd, dockerVars>>

\* ... then the table, whose row keeps its age, ...
ResolveFromDB(g) ==
  /\ resolving[g].pc = "table"
  /\ LET ip == resolving[g].ip
     IN  IF FreshRow(ip)
         THEN /\ entries' = [entries EXCEPT ![ip] = Cached(table[ip].host)]
              /\ resolving' = [resolving EXCEPT ![g] = IdleLookup]
         ELSE resolving' = [resolving EXCEPT ![g].pc = "reverse"] /\ UNCHANGED entries
  /\ UNCHANGED <<clock, answers, asked, table, writes, fwd, dockerVars>>

\* ... then reverse DNS, whose name replaces whatever was registered meanwhile.
ReverseLookup(g, host) ==
  /\ resolving[g].pc = "reverse"
  /\ resolving' = [resolving EXCEPT ![g] = IdleLookup]
  /\ IF host = "none" THEN UNCHANGED <<answers, asked, entries, writes>>
     ELSE RegisterIPs(host, {resolving[g].ip})
  /\ UNCHANGED <<clock, table, fwd, dockerVars>>
------------------------------------------------------------------------------
(* The resolver plugin and the DNS handler.                                *)

\* rawDNSLookup: the TTL of the answer, within bounds.
Clamped(ttl) == IF ttl < MinTTL THEN MinTTL ELSE IF ttl > MaxTTL THEN MaxTTL ELSE ttl

\* Resolve and lookup: a forward entry is used until it expires.
Resolve(host, ip, ttl) ==
  /\ fwd[host].host = "none" \/ clock >= fwd[host].at
  /\ fwd' = [fwd EXCEPT ![host] = [host |-> ip, at |-> clock + Clamped(ttl)]]
  /\ RegisterIPs(host, {ip})
  /\ UNCHANGED <<clock, table, resolving, dockerVars>>

\* dnsResponseCapture.Write: populateCache with all addresses of an answer.
PopulateCache(host, ips) ==
  /\ RegisterIPs(host, ips)
  /\ UNCHANGED <<clock, table, resolving, fwd, dockerVars>>
------------------------------------------------------------------------------
(* The Docker resolver.                                                    *)

\* A container takes the address over.
ContainerMoves(ip, c) ==
  /\ docker[ip].host # c
  /\ docker' = [docker EXCEPT ![ip] = [host |-> c, at |-> clock]]
  /\ UNCHANGED <<clock, dnsVars, dcache>>

\* DockerResolver.ResolveIP: only a name is cached.
DockerResolve(ip) ==
  /\ dcache[ip].host = "none" \/ clock >= dcache[ip].at
  /\ docker[ip].host # "none"
  /\ dcache' = [dcache EXCEPT ![ip] = [host |-> docker[ip].host, at |-> clock + DockerTTL]]
  /\ UNCHANGED <<clock, dnsVars, docker>>
------------------------------------------------------------------------------
\* A restart: loadFromDB fills the memory; the writes under way are lost.
RestartNames ==
  /\ entries' = [ip \in Ips |-> IF FreshRow(ip) THEN Cached(table[ip].host) ELSE NoName]
  /\ writes' = {} /\ resolving' = [g \in Lookups |-> IdleLookup]
  /\ fwd' = [h \in Domains |-> NoName] /\ dcache' = [ip \in Ips |-> NoName]
  /\ UNCHANGED <<clock, answers, asked, table, docker>>

Tick ==
  /\ clock < MaxTime /\ writes = {}
  /\ clock' = clock + 1
  /\ UNCHANGED <<dnsVars, dockerVars>>

NamesInit ==
  /\ clock = 0 /\ answers = [ip \in Ips |-> [h \in Domains |-> -1]] /\ asked = 0 /\ writes = {}
  /\ entries = [ip \in Ips |-> NoName] /\ table = [ip \in Ips |-> NoName]
  /\ resolving = [g \in Lookups |-> IdleLookup]
  /\ fwd = [h \in Domains |-> NoName]
  /\ docker = [ip \in Ips |-> NoName] /\ dcache = [ip \in Ips |-> NoName]

DnsNext ==
  \/ \E w \in writes : Persist(w)
  \/ \E g \in Lookups :
       \/ \E ip \in Ips : StartResolve(g, ip)
       \/ ResolveFromDB(g)
       \/ \E h \in Domains \cup {"none"} : ReverseLookup(g, h)
  \/ \E h \in Domains : \/ \E ip \in Ips, ttl \in {0, MaxTTL + 1} : Resolve(h, ip, ttl)
                      \/ \E ips \in SUBSET Ips \ {{}} : PopulateCache(h, ips)
  \/ RestartNames \/ Tick

DockerNext ==
  \/ \E ip \in Ips : DockerResolve(ip) \/ \E c \in Containers : ContainerMoves(ip, c)
  \/ Tick

NamesNext == DnsNext \/ DockerNext

NamesSpec == NamesInit /\ [][NamesNext]_namesVars
------------------------------------------------------------------------------
(* A name that the proxy gives to an address, and that a rule may allow, is *)
(* one that DNS gave for that address, at most one life of a row and one    *)
(* life of an entry ago, whatever restarts, writes of different goroutines  *)
(* and slow reverse lookups have come between; and a container's name is    *)
(* given to its successor at the same address for one DockerTTL at most.    *)
NamesGiven ==
  \A ip \in Ips :
    /\ GetCached(ip) # "none" =>
         answers[ip][GetCached(ip)] >= 0 /\ clock - answers[ip][GetCached(ip)] <= DbTTL + TTL
    /\ (dcache[ip].host # "none" /\ clock < dcache[ip].at /\ dcache[ip].host # docker[ip].host) =>
         clock - docker[ip].at < DockerTTL
=============================================================================
