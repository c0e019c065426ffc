-------------------------- MODULE PendingApproval --------------------------
(***************************************************************************)
(* The access decision of greyproxy: connections that meet no rule are     *)
(* held while a person decides, other connections and other API requests   *)
(* go on meanwhile.                                                        *)
(*                                                                         *)
(* Actors.  Each connection is the goroutine of a proxy handler that calls *)
(* Bypass.Contains and, when admitted, registers itself with ConnTracker.  *)
(* Each user is the goroutine of an API, dashboard or websocket request.   *)
(* An action is a section of code that runs under one lock (or one SQL     *)
(* statement); between two actions every other actor may run.  An event    *)
(* that no waiting connection reacts to ("other") is published together    *)
(* with the write it announces.                                            *)
(*                                                                         *)
(* Shared state.  The tables rules and pending_requests, the waiter        *)
(* counters, the buffers of the event bus' subscribers, ConnTracker's map. *)
(*                                                                         *)
(* The connections here are those for which the two early returns of       *)
(* Contains (silent mode, a session with allow_all) do not fire.           *)
(***************************************************************************)
EXTENDS Integers, Sequences, FiniteSets

CONSTANTS
  Conns,        \* client connections, each asking for one destination
  Users,        \* request handlers of the API, the dashboard and the websocket
  Dests,        \* (container, host, port) triples
  Hosts,        \* what a pending request is shown as: (container, display host, port)
  HostOf,       \* [Dests -> Hosts]: equal for two IPs with one resolved name
  Resolved,     \* the hosts that are names found for an IP (resolved_hostname)
  Patterns,     \* (container, destination, port) pattern triples
  Covers,       \* [Patterns -> SUBSET Dests]: MatchesRule
  Specificity,  \* [Patterns -> Nat]: CalculateSpecificity
  Scopes,       \* the scopes a person may approve or deny with
  PatternFor,   \* [Hosts -> [Scopes -> Patterns]]: buildPatterns
  Ops,          \* the kinds of user request that may arrive
  Temps,        \* may new rules be temporary: TRUE with, FALSE without expires_at
  BufSize,      \* buffer of an event subscription (16 in waitForApproval)
  MaxRules,     \* bound: rule rows ever created
  MaxPending,   \* bound: pending rows ever created
  MaxOps        \* bound: user requests

AllOps == {"allow", "deny", "dismiss", "create", "ingest", "update", "delete"}

ASSUME ConstantsAssumption ==
  /\ IsFiniteSet(Conns)
  /\ Dests # {}
  /\ HostOf \in [Dests -> Hosts]
  /\ Resolved \subseteq Hosts
  /\ Patterns # {}
  /\ Covers \in [Patterns -> SUBSET Dests]
  /\ Specificity \in [Patterns -> Nat]
  /\ PatternFor \in [Hosts -> [Scopes -> Patterns]]
  /\ Ops \subseteq AllOps
  /\ Temps \subseteq BOOLEAN
  /\ BufSize \in Nat \ {0}
  /\ MaxRules \in Nat \ {0}
  /\ MaxPending \in Nat
  /\ MaxOps \in Nat

VARIABLES
  rules,        \* table rules, with what became of the rows that left it
  nextRule,     \* AUTOINCREMENT of rules
  pending,      \* table pending_requests
  nextPending,  \* AUTOINCREMENT of pending_requests
  pc,           \* where each connection is
  dest,         \* what it asks for
  auth,         \* BypassResult.RuleID: the rule that admits it, or NoRule
  buf,          \* its event channel, used while it waits
  waiters,      \* WaiterTracker.counts
  tracked,      \* ConnTracker.conns: the connections registered under a rule
  req,          \* the user requests under way
  ops           \* number of user requests started

connVars == <<pc, dest, auth>>
ruleVars == <<rules, nextRule>>
pendingVars == <<pending, nextPending>>
vars == <<ruleVars, pendingVars, connVars, buf, waiters, tracked, req, ops>>

NoRule == 0
RuleIds == 1 .. MaxRules
Actions == {"allow", "deny"}

(* A rule row: "expired" rows are still in the table but match nothing,    *)
(* "deleted" and "purged" rows left it (by DeleteRule, by CreateRule).     *)
RuleRow == [st : {"unused", "live", "expired", "deleted", "purged"},
            pat : Patterns, act : Actions, temp : BOOLEAN]
PendingRow == [id : 0 .. MaxPending, dest : Dests]
Event == [kind : {"allowed", "dismissed", "other"}, host : Hosts]

ConnStates == {"new", "create", "count", "subscribe", "wait", "release",
               "admit", "open", "cancelled", "closed"}

(* A user request: where it is, and the arguments the rest of it needs.    *)
Request ==
  [pc : {"idle", "find", "insert", "clear", "publish", "list", "clean", "drop", "cancel"},
   op : AllOps, pat : Patterns, act : Actions, temp : BOOLEAN,
   pend : PendingRow, todo : SUBSET PendingRow, rule : RuleIds \cup {NoRule}]

NoReq ==
  [pc |-> "idle", op |-> "allow", pat |-> CHOOSE p \in Patterns : TRUE,
   act |-> "allow", temp |-> FALSE,
   pend |-> [id |-> 0, dest |-> CHOOSE d \in Dests : TRUE],
   todo |-> {}, rule |-> NoRule]
------------------------------------------------------------------------------
(* The rule table.                                                         *)

InTable(r) == rules[r].st \in {"live", "expired"}

\* The UNIQUE key of the table.
HasKey(r, pat, act) == rules[r].pat = pat /\ rules[r].act = act

findExistingRule(pat, act) ==
  {r \in RuleIds : rules[r].st = "live" /\ HasKey(r, pat, act)}

\* Mutant: an allow rule wins a tie.
OutranksAllowFirst(r, s) ==
  LET a == Specificity[rules[r].pat]
      b == Specificity[rules[s].pat]
  IN  a > b \/ (a = b /\ rules[r].act = "allow" /\ rules[s].act = "deny")

\* The order of the sort in FindMatchingRule; all rules here are of the global layer.
Outranks(r, s) ==
  LET a == Specificity[rules[r].pat]
      b == Specificity[rules[s].pat]
  IN  a > b \/ (a = b /\ rules[r].act = "deny" /\ rules[s].act = "allow")

\* Mutant: expires_at is not looked at.
MatchingExpiredToo(d) == {r \in RuleIds : InTable(r) /\ d \in Covers[rules[r].pat]}

Matching(d) == {r \in RuleIds : rules[r].st = "live" /\ d \in Covers[rules[r].pat]}

\* The rules FindMatchingRule may return: the sort is not stable, so among
\* rules that tie it is any; none if no rule matches.
FindMatchingRule(d) ==
  LET M == Matching(d)
  IN  {r \in M : \A s \in M : ~Outranks(s, r)}

AllowMatches(d) == \E r \in FindMatchingRule(d) : rules[r].act = "allow"
DenyMatches(d) == \E r \in FindMatchingRule(d) : rules[r].act = "deny"

(* CreateRule, under the write lock: purge the expired row of the same     *)
(* key, insert, and on a conflict return the row that is there.            *)
CreateRule(pat, act, temp, r) ==
  IF findExistingRule(pat, act) # {}
  THEN r \in findExistingRule(pat, act) /\ UNCHANGED ruleVars
  ELSE /\ nextRule <= MaxRules
       /\ r = nextRule
       /\ nextRule' = nextRule + 1
       /\ rules' = [s \in RuleIds |->
            IF s = nextRule
            THEN [st |-> "live", pat |-> pat, act |-> act, temp |-> temp]
            ELSE IF rules[s].st = "expired" /\ HasKey(s, pat, act)
                 THEN [rules[s] EXCEPT !.st = "purged"]
                 ELSE rules[s]]
------------------------------------------------------------------------------
(* The pending table and the event bus.                                    *)

\* The rows for a destination, and the rows of its resolved host.
SameRow(d) == {q \in pending : q.dest = d}
Siblings(d) ==
  {q \in pending : HostOf[d] \in Resolved /\ HostOf[q.dest] = HostOf[d]}

CreateOrUpdatePending(d) ==
  IF SameRow(d) \cup Siblings(d) # {}
  THEN UNCHANGED pendingVars       \* attempt_count and last_seen only
  ELSE /\ nextPending <= MaxPending
       /\ pending' = pending \cup {[id |-> nextPending, dest |-> d]}
       /\ nextPending' = nextPending + 1

deletePendingSiblings(p) ==
  /\ pending' = pending \ ({p} \cup Siblings(p.dest))
  /\ UNCHANGED nextPending

\* Publish reaches the connections that are subscribed and whose buffer has
\* room, and drops the event for the others.
Publish(kind, host) ==
  buf' = [c \in Conns |->
            IF pc[c] = "wait" /\ Len(buf[c]) < BufSize
            THEN Append(buf[c], [kind |-> kind, host |-> host])
            ELSE buf[c]]

------------------------------------------------------------------------------
(* Connections: Bypass.Contains and the part of the proxy handlers that    *)
(* registers an admitted connection.                                       *)

Goto(c, from, to) == pc[c] = from /\ pc' = [pc EXCEPT ![c] = to]

\* The first look at the rules.  Admitted by an allow rule, refused by a
\* deny rule, held if there is none.
Check(c, d) ==
  /\ dest' = [dest EXCEPT ![c] = d]
  /\ \/ \E r \in FindMatchingRule(d) :
          /\ rules[r].act = "allow"
          /\ Goto(c, "new", "admit")
          /\ auth' = [auth EXCEPT ![c] = r]
     \/ DenyMatches(d) /\ Goto(c, "new", "closed") /\ UNCHANGED auth
     \/ Matching(d) = {} /\ Goto(c, "new", "create") /\ UNCHANGED auth
  /\ UNCHANGED <<ruleVars, pendingVars, buf, waiters, tracked, req, ops>>

createPending(c) ==
  /\ Goto(c, "create", "count")
  /\ CreateOrUpdatePending(dest[c])
  /\ Publish("other", HostOf[dest[c]])
  /\ UNCHANGED <<ruleVars, dest, auth, waiters, tracked, req, ops>>

\* WaiterTracker.Add; the function it returns is Release below.
AddWaiter(c) ==
  /\ Goto(c, "count", "subscribe")
  /\ waiters' = [waiters EXCEPT ![dest[c]] = @ + 1]
  /\ Publish("other", HostOf[dest[c]])
  /\ UNCHANGED <<ruleVars, pendingVars, dest, auth, tracked, req, ops>>

Subscribe(c) ==
  /\ Goto(c, "subscribe", "wait")
  /\ buf' = [buf EXCEPT ![c] = <<>>]
  /\ UNCHANGED <<ruleVars, pendingVars, dest, auth, waiters, tracked, req, ops>>

\* waitForApproval returns rule r (or NoRule); its deferred Unsubscribe runs.
Return(c, r) ==
  /\ Goto(c, "wait", "release")
  /\ auth' = [auth EXCEPT ![c] = r]
  /\ buf' = [buf EXCEPT ![c] = <<>>]

\* The loop of waitForApproval goes on with the next event.
Skip(c) ==
  /\ buf' = [buf EXCEPT ![c] = Tail(@)]
  /\ UNCHANGED <<pc, auth>>

Receive(c) ==
  /\ pc[c] = "wait" /\ buf[c] # <<>>
  /\ LET kind == Head(buf[c]).kind
         d == dest[c]
     IN  \/ /\ kind = "allowed"
            /\ \/ \E r \in FindMatchingRule(d) :
                    rules[r].act = "allow" /\ Return(c, r)
               \/ ~AllowMatches(d) /\ Skip(c)
         \/ /\ kind = "dismissed"
            /\ \/ ~AllowMatches(d) /\ Return(c, NoRule)
               \/ AllowMatches(d) /\ Skip(c)
         \/ kind = "other" /\ Skip(c)
  /\ UNCHANGED <<ruleVars, pendingVars, dest, waiters, tracked, req, ops>>

\* Mutant: the select of waitForApproval has no timer.
GiveUpNever(c) ==
  /\ Return(c, NoRule)
  /\ pc[c] = "new"
  /\ UNCHANGED <<ruleVars, pendingVars, dest, waiters, tracked, req, ops>>

\* The grace period ends, or the client goes away (the monitor of the SOCKS
\* handler cancels the context): no further look at the rules.
GiveUp(c) ==
  /\ Return(c, NoRule)
  /\ UNCHANGED <<ruleVars, pendingVars, dest, waiters, tracked, req, ops>>

\* Mutant: done() runs twice and is not floored at zero.
ReleaseTwice(c) ==
  /\ Goto(c, "release", IF auth[c] = NoRule THEN "closed" ELSE "admit")
  /\ waiters' = [waiters EXCEPT ![dest[c]] = @ - 2]
  /\ Publish("other", HostOf[dest[c]])
  /\ UNCHANGED <<ruleVars, pendingVars, dest, auth, tracked, req, ops>>

\* Mutant: done() is called on the approved path only.
ReleaseApproved(c) ==
  /\ Goto(c, "release", IF auth[c] = NoRule THEN "closed" ELSE "admit")
  /\ waiters' = IF auth[c] = NoRule THEN waiters
                ELSE [waiters EXCEPT ![dest[c]] = @ - 1]
  /\ Publish("other", HostOf[dest[c]])
  /\ UNCHANGED <<ruleVars, pendingVars, dest, auth, tracked, req, ops>>

\* Contains returns: the deferred done() of WaiterTracker.Add, then the
\* handler refuses the client or goes on to register it.
Release(c) ==
  /\ Goto(c, "release", IF auth[c] = NoRule THEN "closed" ELSE "admit")
  /\ waiters' = [waiters EXCEPT ![dest[c]] = IF @ <= 1 THEN 0 ELSE @ - 1]
  /\ Publish("other", HostOf[dest[c]])
  /\ UNCHANGED <<ruleVars, pendingVars, dest, auth, tracked, req, ops>>

Register(c) ==
  /\ Goto(c, "admit", "open")
  /\ tracked' = [tracked EXCEPT ![auth[c]] = @ \cup {c}]
  /\ UNCHANGED <<ruleVars, pendingVars, dest, auth, buf, waiters, req, ops>>

\* Mutant: a connection that ends by itself is not unregistered.
FinishRegistered(c) ==
  /\ Goto(c, pc[c], "closed")
  /\ pc[c] \in {"open", "cancelled"}
  /\ UNCHANGED <<ruleVars, pendingVars, dest, auth, buf, waiters, tracked, req, ops>>

\* The connection ends, by itself or because its context was cancelled:
\* the deferred Unregister.
Finish(c) ==
  /\ Goto(c, pc[c], "closed")
  /\ pc[c] \in {"open", "cancelled"}
  /\ tracked' = [tracked EXCEPT ![auth[c]] = @ \ {c}]
  /\ UNCHANGED <<ruleVars, pendingVars, dest, auth, buf, waiters, req, ops>>

------------------------------------------------------------------------------
(* User requests.                                                          *)

Arrive(u, op) ==
  /\ op \in Ops
  /\ req[u].pc = "idle"
  /\ ops < MaxOps
  /\ ops' = ops + 1

Step(u, from, to) ==
  /\ req[u].pc = from
  /\ req' = [req EXCEPT ![u].pc = to]

Done(u, from) ==
  /\ req[u].pc = from
  /\ req' = [req EXCEPT ![u] = NoReq]

\* AllowPending and DenyPending: read the pending row and derive the rule.
Resolve(u, op, p, scope, temp) ==
  /\ op \in {"allow", "deny"}
  /\ Arrive(u, op)
  /\ p \in pending
  /\ req' = [req EXCEPT ![u] = [NoReq EXCEPT
       !.pc = "find", !.op = op, !.act = op, !.temp = temp, !.pend = p,
       !.pat = PatternFor[HostOf[p.dest]][scope]]]
  /\ UNCHANGED <<ruleVars, pendingVars, connVars, buf, waiters, tracked>>

\* IngestRules with one rule: always permanent.
Ingest(u, pat, act) ==
  /\ Arrive(u, "ingest")
  /\ req' = [req EXCEPT ![u] = [NoReq EXCEPT
       !.pc = "find", !.op = "ingest", !.pat = pat, !.act = act]]
  /\ UNCHANGED <<ruleVars, pendingVars, connVars, buf, waiters, tracked>>

\* findExistingRule outside the lock.  A found rule spares the insert; for
\* an ingested rule there is then nothing left to do.
FindExisting(u) ==
  /\ LET found == findExistingRule(req[u].pat, req[u].act) # {}
     IN  \/ ~found /\ Step(u, "find", "insert")
         \/ found /\ req[u].op # "ingest" /\ Step(u, "find", "clear")
         \/ found /\ req[u].op = "ingest" /\ Done(u, "find")
  /\ UNCHANGED <<ruleVars, pendingVars, connVars, buf, waiters, tracked, ops>>

InsertRule(u) ==
  /\ Step(u, "insert", IF req[u].op = "ingest" THEN "list" ELSE "clear")
  /\ \E r \in RuleIds : CreateRule(req[u].pat, req[u].act, req[u].temp, r)
  /\ UNCHANGED <<pendingVars, connVars, buf, waiters, tracked, ops>>

ClearPending(u) ==
  /\ Step(u, "clear", "publish")
  /\ deletePendingSiblings(req[u].pend)
  /\ UNCHANGED <<ruleVars, connVars, buf, waiters, tracked, ops>>

\* DeletePending of a row that is there; otherwise nothing happens.
Dismiss(u, p) ==
  /\ Arrive(u, "dismiss")
  /\ p \in pending
  /\ pending' = pending \ {p}
  /\ req' = [req EXCEPT ![u] =
        [NoReq EXCEPT !.pc = "publish", !.op = "dismiss", !.pend = p]]
  /\ UNCHANGED <<ruleVars, nextPending, connVars, buf, waiters, tracked>>

\* Mutant: the handler forgets to publish pending_request.allowed.
PublishDismissals(u) ==
  /\ Done(u, "publish")
  /\ IF req[u].op = "allow" THEN UNCHANGED buf
     ELSE Publish("dismissed", HostOf[req[u].pend.dest])
  /\ UNCHANGED <<ruleVars, pendingVars, connVars, waiters, tracked, ops>>

PublishResolution(u) ==
  /\ Done(u, "publish")
  /\ Publish(IF req[u].op = "allow" THEN "allowed" ELSE "dismissed",
             HostOf[req[u].pend.dest])
  /\ UNCHANGED <<ruleVars, pendingVars, connVars, waiters, tracked, ops>>

(* The last part of IngestRules: list the pending rows, look each one up,  *)
(* drop those that an allow rule matches, and tell nobody.                 *)
ListPending(u) ==
  /\ req[u].pc = "list"
  /\ req' = [req EXCEPT ![u] = [req[u] EXCEPT !.pc = "clean", !.todo = pending]]
  /\ UNCHANGED <<ruleVars, pendingVars, connVars, buf, waiters, tracked, ops>>

CleanPending(u) ==
  /\ req[u].pc = "clean"
  /\ \/ \E p \in req[u].todo :
          req' = [req EXCEPT ![u] = [req[u] EXCEPT !.todo = req[u].todo \ {p}, !.pend = p,
                    !.pc = IF AllowMatches(p.dest) THEN "drop" ELSE "clean"]]
     \/ req[u].todo = {} /\ Done(u, "clean")
  /\ UNCHANGED <<ruleVars, pendingVars, connVars, buf, waiters, tracked, ops>>

DropPending(u) ==
  /\ Step(u, "drop", "clean")
  /\ deletePendingSiblings(req[u].pend)
  /\ UNCHANGED <<ruleVars, connVars, buf, waiters, tracked, ops>>

\* POST /api/rules: CreateRule, and tell nobody.
AddRule(u, pat, act, temp) ==
  /\ Arrive(u, "create")
  /\ \E r \in RuleIds : CreateRule(pat, act, temp, r)
  /\ UNCHANGED <<pendingVars, connVars, buf, waiters, tracked, req>>

\* Mutant: the handler does not cancel when the rule turns into a deny rule.
UpdateWithoutCancel(u, r, pat, act, expiry) ==
  /\ Arrive(u, "update")
  /\ InTable(r)
  /\ \A s \in RuleIds : s # r /\ InTable(s) => ~HasKey(s, pat, act)
  /\ rules' = [rules EXCEPT ![r].pat = pat, ![r].act = act]
  /\ UNCHANGED <<nextRule, pendingVars, connVars, buf, waiters, tracked, req>>

\* PUT /api/rules/:id: a conflict with the UNIQUE key is an error; "never"
\* clears expires_at, "date" sets it.
UpdateRule(u, r, pat, act, expiry) ==
  /\ Arrive(u, "update")
  /\ InTable(r)
  /\ \A s \in RuleIds : s # r /\ InTable(s) => ~HasKey(s, pat, act)
  /\ rules' = [rules EXCEPT ![r] =
        [st |-> IF expiry = "keep" THEN @.st ELSE "live",
         pat |-> pat, act |-> act,
         temp |-> IF expiry = "keep" THEN @.temp ELSE expiry = "date"]]
  /\ req' = IF act = "deny"
            THEN [req EXCEPT ![u] =
                   [NoReq EXCEPT !.pc = "cancel", !.op = "update", !.rule = r]]
            ELSE req
  /\ UNCHANGED <<nextRule, pendingVars, connVars, buf, waiters, tracked>>

\* DELETE /api/rules/:id.
DeleteRule(u, r) ==
  /\ Arrive(u, "delete")
  /\ InTable(r)
  /\ rules' = [rules EXCEPT ![r].st = "deleted"]
  /\ req' = [req EXCEPT ![u] =
        [NoReq EXCEPT !.pc = "cancel", !.op = "delete", !.rule = r]]
  /\ UNCHANGED <<nextRule, pendingVars, connVars, buf, waiters, tracked>>

\* ConnTracker.CancelByRule, which ends both requests above.
CancelByRule(u) ==
  LET r == req[u].rule
  IN  /\ Done(u, "cancel")
      /\ pc' = [c \in Conns |-> IF c \in tracked[r] THEN "cancelled" ELSE pc[c]]
      /\ tracked' = [tracked EXCEPT ![r] = {}]
      /\ UNCHANGED <<ruleVars, pendingVars, dest, auth, buf, waiters, ops>>

\* The expires_at of a temporary rule passes.
Expire(r) ==
  /\ rules[r].st = "live" /\ rules[r].temp
  /\ rules' = [rules EXCEPT ![r].st = "expired"]
  /\ UNCHANGED <<nextRule, pendingVars, connVars, buf, waiters, tracked, req, ops>>
------------------------------------------------------------------------------
Init ==
  /\ rules = [r \in RuleIds |-> [st |-> "unused", pat |-> NoReq.pat,
                                 act |-> "allow", temp |-> FALSE]]
  /\ nextRule = 1
  /\ pending = {}
  /\ nextPending = 1
  /\ pc = [c \in Conns |-> "new"]
  /\ dest = [c \in Conns |-> NoReq.pend.dest]
  /\ auth = [c \in Conns |-> NoRule]
  /\ buf = [c \in Conns |-> <<>>]
  /\ waiters = [d \in Dests |-> 0]
  /\ tracked = [r \in RuleIds |-> {}]
  /\ req = [u \in Users |-> NoReq]
  /\ ops = 0

ConnStep(c) ==
  \/ \E d \in Dests : Check(c, d)
  \/ createPending(c)
  \/ AddWaiter(c)
  \/ Subscribe(c)
  \/ Receive(c)
  \/ GiveUp(c)
  \/ Release(c)
  \/ Register(c)

Asks(u) ==
  \/ \E op \in {"allow", "deny"}, p \in pending, s \in Scopes, t \in Temps :
        Resolve(u, op, p, s, t)
  \/ \E p \in pending : Dismiss(u, p)
  \/ \E pat \in Patterns, act \in Actions : Ingest(u, pat, act)
  \/ \E pat \in Patterns, act \in Actions, t \in Temps : AddRule(u, pat, act, t)
  \/ \E r \in RuleIds, pat \in Patterns, act \in Actions,
        e \in {"keep"} \cup (IF TRUE \in Temps THEN {"never", "date"} ELSE {}) :
        UpdateRule(u, r, pat, act, e)
  \/ \E r \in RuleIds : DeleteRule(u, r)

HandlerStep(u) ==
  \/ FindExisting(u)
  \/ InsertRule(u)
  \/ ClearPending(u)
  \/ PublishResolution(u)
  \/ ListPending(u)
  \/ CleanPending(u)
  \/ DropPending(u)
  \/ CancelByRule(u)

Next ==
  \/ \E c \in Conns : ConnStep(c) \/ Finish(c)
  \/ \E u \in Users : Asks(u) \/ HandlerStep(u)
  \/ \E r \in RuleIds : Expire(r)

Spec == Init /\ [][Next]_vars

(* Goroutines are scheduled and the timer of waitForApproval fires; that   *)
(* clients hang up, or that people do anything, is not assumed.            *)
Fairness ==
  /\ \A c \in Conns : WF_vars(ConnStep(c)) /\ WF_vars(GiveUp(c))
  /\ \A u \in Users : WF_vars(HandlerStep(u))

FairSpec == Spec /\ Fairness
------------------------------------------------------------------------------
(* Properties.                                                             *)

(* The type invariant: identifiers stay within the tables, the counts of   *)
(* WaiterTracker never go below zero, and a buffer holds only events.      *)
TypeOK ==
  /\ rules \in [RuleIds -> RuleRow]
  /\ nextRule \in 1 .. MaxRules + 1
  /\ pending \subseteq PendingRow
  /\ nextPending \in 1 .. MaxPending + 1
  /\ pc \in [Conns -> ConnStates]
  /\ dest \in [Conns -> Dests]
  /\ auth \in [Conns -> RuleIds \cup {NoRule}]
  /\ buf \in [Conns -> Seq(Event)]
  /\ waiters \in [Dests -> Nat]
  /\ tracked \in [RuleIds -> SUBSET Conns]
  /\ req \in [Users -> Request]
  /\ ops \in 0 .. MaxOps

(* WaiterTracker reports, for every destination, exactly the connections   *)
(* that are being held for it, whichever way each hold ends.               *)
Held(d) == {c \in Conns : dest[c] = d /\ pc[c] \in {"subscribe", "wait", "release"}}

WaiterCountExact == \A d \in Dests : waiters[d] = Cardinality(Held(d))

(* Contains admits a connection only under a rule that is in force at that *)
(* moment, covers it, and yields to no deny rule that is as specific.      *)
Lawful(c, r) ==
  /\ rules[r].st = "live" /\ rules[r].act = "allow"
  /\ dest'[c] \in Covers[rules[r].pat]
  /\ \A s \in Matching(dest'[c]) :
       rules[s].act = "deny" => Specificity[rules[s].pat] < Specificity[rules[r].pat]

AdmissionLawful ==
  [][\A c \in Conns : auth'[c] # auth[c] => Lawful(c, auth'[c])]_vars

(* ConnTracker holds exactly the open connections, each under the rule     *)
(* that admitted it: none is missing and none is left behind.              *)
TrackerExact ==
  \A r \in RuleIds, c \in Conns : c \in tracked[r] <=> pc[c] = "open" /\ auth[c] = r

(* A connection that is open under a rule that was deleted or turned into  *)
(* a deny rule, with no CancelByRule for that rule on its way.             *)
Revoked(r) == rules[r].st = "deleted" \/ (InTable(r) /\ rules[r].act = "deny")

Escaped(c) ==
  /\ pc[c] = "open"
  /\ Revoked(auth[c])
  /\ \A u \in Users : ~(req[u].pc = "cancel" /\ req[u].rule = auth[c])

(* Revoking a rule reaches every connection that is registered under it:   *)
(* only a connection that registers after the revocation can escape it     *)
(* (the window between FindMatchingRule and ConnTracker.Register).         *)
RevocationReaches ==
  [][\A c \in Conns : Escaped(c)' /\ ~Escaped(c) => pc[c] = "admit"]_vars

(* "When a rule is deleted or changed to deny, all connections that were   *)
(* allowed by that rule can be cancelled immediately" (conn_tracker.go).   *)
RevocationComplete == \A c \in Conns : ~Escaped(c)

(* A held connection that an allow rule covers, with no event in its       *)
(* buffer or on its way that would make it look at the rules again.        *)
Owed(c) ==
  /\ pc[c] = "wait"
  /\ AllowMatches(dest[c])
  /\ \A i \in DOMAIN buf[c] : buf[c][i].kind # "allowed"
  /\ \A u \in Users : ~(req[u].op = "allow" /\ req[u].pc \in {"clear", "publish"})

\* A rule changes by a request that announces nothing on the event bus.
RuleEdited ==
  /\ rules' # rules
  /\ \A u \in Users : req'[u] # req[u] => req[u].op \notin {"allow", "deny"}
                                       \/ req[u].pc = "idle"

(* An approval passes a held connection by in three cases only: it came    *)
(* before the connection subscribed, the connection's buffer was full, or  *)
(* the rule was made by a request that publishes no event.                 *)
ApprovalDelivered ==
  [][\A c \in Conns : Owed(c)' /\ ~Owed(c) =>
        \/ pc[c] = "subscribe"
        \/ pc[c] = "wait" /\ Len(buf[c]) = BufSize
        \/ RuleEdited]_vars

(* "waits up to gracePeriod for the user to allow the pending request. If  *)
(* a matching allow rule appears, it returns that rule" (waitForApproval). *)
ApprovalNotMissed == \A c \in Conns : ~Owed(c)

(* "The user denied or dismissed the pending request. Stop waiting if      *)
(* there's no rule or if the matching rule is a deny" (waitForApproval):   *)
(* without a deny rule, what ends a hold is the dismissal of the           *)
(* connection's own pending request.                                       *)
DismissalIsOwn ==
  [][\A c \in Conns :
       /\ pc[c] = "wait" /\ pc'[c] = "release" /\ auth'[c] = NoRule
       /\ buf[c] # <<>> /\ Head(buf[c]).kind = "dismissed"
       /\ ~DenyMatches(dest[c])
       => Head(buf[c]).host = HostOf[dest[c]]]_vars

\* A rule row and a connection as AccessControl sees them.
Standing(st) ==
  CASE st = "unused" -> "unmade"
    [] st = "live" -> "inForce"
    [] st \in {"expired", "purged"} -> "lapsed"
    [] st = "deleted" -> "repealed"

LawOf(row) == [is |-> Standing(row.st), pat |-> row.pat, act |-> row.act]

StageAt(p, rule) ==
  CASE p = "new" -> "outside"
    [] p \in {"create", "count", "subscribe", "wait"} -> "held"
    [] p = "admit" \/ (p = "release" /\ rule # NoRule) -> "granted"
    [] p = "open" -> "open"
    [] p = "cancelled" -> "cut"
    [] p = "closed" \/ (p = "release" /\ rule = NoRule) -> "ended"

TheLaw == [r \in RuleIds |-> LawOf(rules[r])]
Stages == [c \in Conns |-> StageAt(pc[c], auth[c])]
CutsOwed == {r \in RuleIds : \E u \in Users : req[u].pc = "cancel" /\ req[u].rule = r}

Access == INSTANCE AccessControl
          WITH law <- TheLaw, stage <- Stages, asks <- dest, under <- auth, owed <- CutsOwed

(* The proxy implements AccessControl: whatever requests and connections   *)
(* do to each other, a connection gets in only under a rule that entitles  *)
(* it to its own destination, is refused at once only by a rule and held   *)
(* only for want of one, and a revocation ends all that is open under the  *)
(* rule in one step (Contains, the handlers of rules, ConnTracker).        *)
ImplementsAccessControl == Access!AccessSpec

(* Every connection that asks is answered: it is never held for ever.      *)
EveryoneAnswered ==
  \A c \in Conns : pc[c] = "create" ~> pc[c] \in {"open", "cancelled", "closed"}
==============================================================================
