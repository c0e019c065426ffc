------------------------------ MODULE MCTraffic ------------------------------
(***************************************************************************)
(* The instance of an exchange and of what stands around it: the limits of *)
(* connections and bytes, the names of addresses and the notifications.    *)
(* They share no state with each other, so one run checks them side by     *)
(* side: "part" says which of them a behaviour is about, and the others    *)
(* stay as they are before their first step.  The states of the run are    *)
(* the sum of the parts' states, not their product.                        *)
(***************************************************************************)
EXTENDS Exchange, Limits, Notifier, Names

CONSTANTS gate, observer, h1, a1, a2

VARIABLE part

\* A gate that must be asked about everything, and an observer of one host that
\* may be missing.
GateFirst == <<gate, observer>>
MCPolicy == [c \in Clients |-> IF c = gate THEN "deny" ELSE "allow"]
MCDeclares == [c \in Clients |-> IF c = gate THEN {"req", "resp"} ELSE {"req"}]
MCFilters == [c \in Clients |-> IF c = gate THEN None ELSE [host |-> {h1}, kind |-> {}]]

\* Configurations of the connection limiter and of the traffic limiter: one with
\* rules for single addresses, and others that lift some of the limits; the limit
\* of the network changes, or stays as it is.
MCConn == {
  [global |-> 2, each |-> 1, network |-> 0, own |-> [a \in Addrs |-> 0]],
  [global |-> 1, each |-> 0, network |-> 1, own |-> [a \in Addrs |-> IF a = a1 THEN 2 ELSE 0]]}

Lim(i, o) == [d \in Directions |-> IF d = "in" THEN i ELSE o]

MCRates == {
  [service |-> Lim(1, 1), conn |-> Lim(1, 1), network |-> Lim(1, 1),
   own |-> [a \in Addrs |-> IF a = a1 THEN Lim(2, 0) ELSE Lim(0, 0)], listed |-> {a1}],
  [service |-> Lim(0, 1), conn |-> Lim(1, 0), network |-> Lim(1, 0),
   own |-> [a \in Addrs |-> Lim(0, 0)], listed |-> {}],
  [service |-> Lim(0, 1), conn |-> Lim(1, 0), network |-> Lim(2, 0),
   own |-> [a \in Addrs |-> Lim(0, 0)], listed |-> {}]}
------------------------------------------------------------------------------
TrafficInit ==
  /\ part \in {"exchange", "connections", "rates", "notifier", "dns", "docker"}
  /\ Init /\ LimitsInit /\ NotifierInit /\ NamesInit
  /\ part # "notifier" => backend /\ stored = "unset"

allVars == <<part, vars, limitsVars, notifierVars, namesVars>>

\* A step of the parts ps.
Only(ps) ==
  /\ part \in ps /\ UNCHANGED part
  /\ part # "exchange" => UNCHANGED vars
  /\ part \notin {"connections", "rates"} => UNCHANGED limitsVars
  /\ part # "notifier" => UNCHANGED notifierVars
  /\ part \notin {"dns", "docker"} => UNCHANGED namesVars

TrafficStep ==
  \/ Only({"exchange"}) /\ Next
  \/ Only({"connections"}) /\ ConnLimitNext
  \/ Only({"rates"}) /\ TrafficNext
  \/ Only({"notifier"}) /\ NotifierNext
  \/ Only({"dns"}) /\ DnsNext
  \/ Only({"docker"}) /\ DockerNext

TrafficSpec == TrafficInit /\ [][TrafficStep]_allVars
=============================================================================
