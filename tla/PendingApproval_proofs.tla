----------------------- MODULE PendingApproval_proofs -----------------------
(***************************************************************************)
(* Proofs about PendingApproval, for any sets of connections, users,       *)
(* destinations and patterns and any bounds; that it implements            *)
(* AccessControl; and what the patterns of a rule guarantee, for every     *)
(* container, host, port and label set.                                    *)
(***************************************************************************)
EXTENDS PendingApproval, RulePatterns, FiniteSetTheorems, TLAPS

\* The request record of an idle handler.
LEMMA NoReqType == NoReq \in Request /\ NoReq.pc = "idle" /\ NoReq.rule = NoRule
<1>1. (CHOOSE p \in Patterns : TRUE) \in Patterns
  BY ConstantsAssumption
<1>2. (CHOOSE d \in Dests : TRUE) \in Dests
  BY ConstantsAssumption
<1>3. 0 \in 0 .. MaxPending
  BY ConstantsAssumption
<1>4. QED
  BY <1>1, <1>2, <1>3 DEF NoReq, Request, PendingRow, AllOps, Actions, NoRule

\* What CreateRule leaves behind, whichever branch it takes.
LEMMA CreateRuleType ==
  ASSUME TypeOK, NEW pat \in Patterns, NEW act \in Actions, NEW temp \in BOOLEAN,
         NEW r \in RuleIds, CreateRule(pat, act, temp, r)
  PROVE  rules' \in [RuleIds -> RuleRow] /\ nextRule' \in 1 .. MaxRules + 1
<1>1. CASE findExistingRule(pat, act) # {}
  BY <1>1 DEF CreateRule, TypeOK, ruleVars
<1>2. CASE findExistingRule(pat, act) = {}
  <2>1. nextRule' \in 1 .. MaxRules + 1
    BY <1>2, ConstantsAssumption DEF CreateRule, TypeOK
  <2>2. [st |-> "live", pat |-> pat, act |-> act, temp |-> temp] \in RuleRow
    BY DEF RuleRow
  <2>3. \A s \in RuleIds : /\ rules[s] \in RuleRow
                          /\ [rules[s] EXCEPT !.st = "purged"] \in RuleRow
    BY DEF TypeOK, RuleRow
  <2>4. QED
    BY <1>2, <2>1, <2>2, <2>3 DEF CreateRule
<1>3. QED
  BY <1>1, <1>2

\* Publish puts only events into the buffers.
LEMMA PublishType ==
  ASSUME TypeOK, NEW kind \in {"allowed", "dismissed", "other"}, NEW h \in Hosts,
         Publish(kind, h)
  PROVE  buf' \in [Conns -> Seq(Event)]
<1>1. [kind |-> kind, host |-> h] \in Event
  BY DEF Event
<1>2. \A c \in Conns : /\ buf[c] \in Seq(Event)
                      /\ Append(buf[c], [kind |-> kind, host |-> h]) \in Seq(Event)
  BY <1>1 DEF TypeOK
<1>3. QED
  BY <1>2 DEF Publish

(* Every variable keeps its type: in particular the waiter counters never  *)
(* go below zero and rule and pending identifiers stay within the tables.  *)
THEOREM TypeCorrect == Spec => []TypeOK
<1>1. Init => TypeOK
  <2>1. Init => rules \in [RuleIds -> RuleRow]
    BY NoReqType DEF Init, RuleRow, Request, Actions
  <2>2. Init => /\ dest \in [Conns -> Dests]
                /\ buf \in [Conns -> Seq(Event)]
                /\ req \in [Users -> Request]
    BY NoReqType DEF Init, Request, PendingRow
  <2>3. Init => /\ nextRule \in 1 .. MaxRules + 1
                /\ nextPending \in 1 .. MaxPending + 1
                /\ ops \in 0 .. MaxOps
    BY ConstantsAssumption DEF Init
  <2>4. Init => /\ pending \subseteq PendingRow
                /\ pc \in [Conns -> ConnStates]
                /\ auth \in [Conns -> RuleIds \cup {NoRule}]
                /\ waiters \in [Dests -> Nat]
                /\ tracked \in [RuleIds -> SUBSET Conns]
    BY DEF Init, ConnStates
  <2>5. QED
    BY <2>1, <2>2, <2>3, <2>4 DEF TypeOK
<1>2. TypeOK /\ [Next]_vars => TypeOK'
  <2> SUFFICES ASSUME TypeOK, [Next]_vars PROVE TypeOK'
    OBVIOUS
  <2> USE DEF ruleVars, pendingVars, connVars
  <2>1. ASSUME NEW c \in Conns, NEW d \in Dests, Check(c, d) PROVE TypeOK'
    <3>1. pc' \in [Conns -> ConnStates] /\ dest' \in [Conns -> Dests]
      BY <2>1 DEF Check, Goto, TypeOK, ConnStates
    <3>2. FindMatchingRule(d) \subseteq RuleIds
      BY DEF FindMatchingRule, Matching
    <3>3. auth' \in [Conns -> RuleIds \cup {NoRule}]
      BY <2>1, <3>2 DEF Check, TypeOK
    <3>4. QED
      BY <2>1, <3>1, <3>3 DEF Check, TypeOK
  <2>2. ASSUME NEW c \in Conns, createPending(c) PROVE TypeOK'
    <3>1. HostOf[dest[c]] \in Hosts
      BY ConstantsAssumption DEF TypeOK
    <3>2. buf' \in [Conns -> Seq(Event)]
      BY <2>2, <3>1, PublishType DEF createPending
    <3>3. pending' \subseteq PendingRow /\ nextPending' \in 1 .. MaxPending + 1
      BY <2>2, ConstantsAssumption
      DEF createPending, CreateOrUpdatePending, TypeOK, PendingRow
    <3>4. QED
      BY <2>2, <3>2, <3>3 DEF createPending, Goto, TypeOK, ConnStates
  <2>3. ASSUME NEW c \in Conns, AddWaiter(c) PROVE TypeOK'
    <3>1. HostOf[dest[c]] \in Hosts
      BY ConstantsAssumption DEF TypeOK
    <3>2. buf' \in [Conns -> Seq(Event)]
      BY <2>3, <3>1, PublishType DEF AddWaiter
    <3>3. waiters' \in [Dests -> Nat]
      BY <2>3 DEF AddWaiter, TypeOK
    <3>4. pc' \in [Conns -> ConnStates]
      BY <2>3 DEF AddWaiter, Goto, TypeOK, ConnStates
    <3>5. QED
      BY <2>3, <3>2, <3>3, <3>4 DEF AddWaiter, TypeOK
  <2>4. ASSUME NEW c \in Conns, Subscribe(c) PROVE TypeOK'
    BY <2>4 DEF Subscribe, Goto, TypeOK, ConnStates
  <2>5. ASSUME NEW c \in Conns, Receive(c) PROVE TypeOK'
    <3>1. FindMatchingRule(dest[c]) \subseteq RuleIds
      BY DEF FindMatchingRule, Matching
    <3>2. CASE Skip(c)
      <4>1. buf' \in [Conns -> Seq(Event)]
        BY <2>5, <3>2 DEF Receive, Skip, TypeOK
      <4>2. QED
        BY <2>5, <3>2, <4>1 DEF Receive, Skip, TypeOK
    <3>3. ASSUME NEW r \in RuleIds \cup {NoRule}, Return(c, r) PROVE TypeOK'
      BY <2>5, <3>3 DEF Receive, Return, Goto, TypeOK, ConnStates
    <3>4. QED
      BY <2>5, <3>1, <3>2, <3>3 DEF Receive
  <2>6. ASSUME NEW c \in Conns, GiveUp(c) PROVE TypeOK'
    BY <2>6 DEF GiveUp, Return, Goto, TypeOK, ConnStates
  <2>7. ASSUME NEW c \in Conns, Release(c) PROVE TypeOK'
    <3>1. HostOf[dest[c]] \in Hosts
      BY ConstantsAssumption DEF TypeOK
    <3>2. buf' \in [Conns -> Seq(Event)]
      BY <2>7, <3>1, PublishType DEF Release
    <3>3. waiters' \in [Dests -> Nat]
      BY <2>7 DEF Release, TypeOK
    <3>4. pc' \in [Conns -> ConnStates]
      BY <2>7 DEF Release, Goto, TypeOK, ConnStates
    <3>5. QED
      BY <2>7, <3>2, <3>3, <3>4 DEF Release, TypeOK
  <2>8. ASSUME NEW c \in Conns, Register(c) PROVE TypeOK'
    BY <2>8 DEF Register, Goto, TypeOK, ConnStates
  <2>9. ASSUME NEW c \in Conns, Finish(c) PROVE TypeOK'
    BY <2>9 DEF Finish, Goto, TypeOK, ConnStates
  <2>10. ASSUME NEW u \in Users, Asks(u) PROVE TypeOK'
    <3>1. ASSUME NEW op \in {"allow", "deny"}, NEW p \in pending, NEW s \in Scopes,
                 NEW t \in Temps, Resolve(u, op, p, s, t)
          PROVE  TypeOK'
      <4>1. HostOf[p.dest] \in Hosts /\ t \in BOOLEAN /\ p \in PendingRow
        BY ConstantsAssumption DEF TypeOK, PendingRow
      <4>2. PatternFor[HostOf[p.dest]][s] \in Patterns
        BY <4>1, ConstantsAssumption
      <4>3. [NoReq EXCEPT !.pc = "find", !.op = op, !.act = op, !.temp = t, !.pend = p,
               !.pat = PatternFor[HostOf[p.dest]][s]] \in Request
        BY <4>1, <4>2, NoReqType DEF Request, AllOps, Actions
      <4>4. ops' \in 0 .. MaxOps
        BY <3>1, ConstantsAssumption DEF Resolve, Arrive, TypeOK
      <4>5. QED
        BY <3>1, <4>3, <4>4 DEF Resolve, TypeOK
    <3>2. ASSUME NEW p \in pending, Dismiss(u, p) PROVE TypeOK'
      <4>1. p \in PendingRow
        BY DEF TypeOK
      <4>2. [NoReq EXCEPT !.pc = "publish", !.op = "dismiss", !.pend = p] \in Request
        BY <4>1, NoReqType DEF Request, AllOps
      <4>3. ops' \in 0 .. MaxOps
        BY <3>2, ConstantsAssumption DEF Dismiss, Arrive, TypeOK
      <4>4. QED
        BY <3>2, <4>2, <4>3 DEF Dismiss, TypeOK
    <3>3. ASSUME NEW pat \in Patterns, NEW act \in Actions, Ingest(u, pat, act)
          PROVE  TypeOK'
      <4>1. [NoReq EXCEPT !.pc = "find", !.op = "ingest", !.pat = pat, !.act = act]
              \in Request
        BY NoReqType DEF Request, AllOps
      <4>2. ops' \in 0 .. MaxOps
        BY <3>3, ConstantsAssumption DEF Ingest, Arrive, TypeOK
      <4>3. QED
        BY <3>3, <4>1, <4>2 DEF Ingest, TypeOK
    <3>4. ASSUME NEW pat \in Patterns, NEW act \in Actions, NEW t \in Temps,
                 AddRule(u, pat, act, t)
          PROVE  TypeOK'
      <4>1. t \in BOOLEAN
        BY ConstantsAssumption
      <4>2. rules' \in [RuleIds -> RuleRow] /\ nextRule' \in 1 .. MaxRules + 1
        BY <3>4, <4>1, CreateRuleType DEF AddRule
      <4>3. ops' \in 0 .. MaxOps
        BY <3>4, ConstantsAssumption DEF AddRule, Arrive, TypeOK
      <4>4. QED
        BY <3>4, <4>2, <4>3 DEF AddRule, TypeOK
    <3>5. ASSUME NEW r \in RuleIds, NEW pat \in Patterns, NEW act \in Actions, NEW e,
                 UpdateRule(u, r, pat, act, e)
          PROVE  TypeOK'
      <4>1. [NoReq EXCEPT !.pc = "cancel", !.op = "update", !.rule = r] \in Request
        BY NoReqType DEF Request, AllOps
      <4>2. ops' \in 0 .. MaxOps
        BY <3>5, ConstantsAssumption DEF UpdateRule, Arrive, TypeOK
      <4>3. req' \in [Users -> Request]
        BY <3>5, <4>1 DEF UpdateRule, TypeOK
      <4>4. rules' \in [RuleIds -> RuleRow]
        BY <3>5 DEF UpdateRule, TypeOK, RuleRow
      <4>5. QED
        BY <3>5, <4>2, <4>3, <4>4 DEF UpdateRule, TypeOK
    <3>6. ASSUME NEW r \in RuleIds, DeleteRule(u, r) PROVE TypeOK'
      <4>1. [NoReq EXCEPT !.pc = "cancel", !.op = "delete", !.rule = r] \in Request
        BY NoReqType DEF Request, AllOps
      <4>2. ops' \in 0 .. MaxOps
        BY <3>6, ConstantsAssumption DEF DeleteRule, Arrive, TypeOK
      <4>3. rules' \in [RuleIds -> RuleRow]
        BY <3>6 DEF DeleteRule, TypeOK, RuleRow
      <4>4. QED
        BY <3>6, <4>1, <4>2, <4>3 DEF DeleteRule, TypeOK
    <3>7. QED
      BY <2>10, <3>1, <3>2, <3>3, <3>4, <3>5, <3>6 DEF Asks
  <2>11. ASSUME NEW u \in Users, HandlerStep(u) PROVE TypeOK'
    <3> req[u] \in Request /\ NoReq \in Request
      BY NoReqType DEF TypeOK
    <3>1. CASE FindExisting(u)
      <4>1. /\ [req[u] EXCEPT !.pc = "insert"] \in Request
            /\ [req[u] EXCEPT !.pc = "clear"] \in Request
        BY DEF Request
      <4>2. req' \in [Users -> Request]
        BY <3>1, <4>1 DEF FindExisting, Step, Done, TypeOK
      <4>3. QED
        BY <3>1, <4>2 DEF FindExisting, TypeOK
    <3>2. CASE InsertRule(u)
      <4>1. rules' \in [RuleIds -> RuleRow] /\ nextRule' \in 1 .. MaxRules + 1
        BY <3>2, CreateRuleType DEF InsertRule, Request
      <4>2. /\ [req[u] EXCEPT !.pc = "list"] \in Request
            /\ [req[u] EXCEPT !.pc = "clear"] \in Request
        BY DEF Request
      <4>3. req' \in [Users -> Request]
        BY <3>2, <4>2 DEF InsertRule, Step, TypeOK
      <4>4. QED
        BY <3>2, <4>1, <4>3 DEF InsertRule, TypeOK
    <3>3. CASE ClearPending(u)
      <4>1. req' \in [Users -> Request]
        BY <3>3 DEF ClearPending, Step, TypeOK, Request
      <4>2. QED
        BY <3>3, <4>1 DEF ClearPending, deletePendingSiblings, TypeOK
    <3>4. CASE PublishResolution(u)
      <4>1. HostOf[req[u].pend.dest] \in Hosts
        BY ConstantsAssumption DEF Request, PendingRow
      <4>2. buf' \in [Conns -> Seq(Event)]
        BY <3>4, <4>1, PublishType DEF PublishResolution
      <4>3. QED
        BY <3>4, <4>2 DEF PublishResolution, Done, TypeOK
    <3>5. CASE ListPending(u)
      <4>1. [req[u] EXCEPT !.pc = "clean", !.todo = pending] \in Request
        BY DEF Request, TypeOK
      <4>2. QED
        BY <3>5, <4>1 DEF ListPending, TypeOK
    <3>6. CASE CleanPending(u)
      <4>1. ASSUME NEW p \in req[u].todo, NEW to \in {"drop", "clean"}
            PROVE  [req[u] EXCEPT !.todo = @ \ {p}, !.pend = p, !.pc = to] \in Request
        BY DEF Request
      <4>2. req' \in [Users -> Request]
        BY <3>6, <4>1 DEF CleanPending, Done, TypeOK
      <4>3. QED
        BY <3>6, <4>2 DEF CleanPending, TypeOK
    <3>7. CASE DropPending(u)
      <4>1. req' \in [Users -> Request]
        BY <3>7 DEF DropPending, Step, TypeOK, Request
      <4>2. QED
        BY <3>7, <4>1 DEF DropPending, deletePendingSiblings, TypeOK
    <3>8. CASE CancelByRule(u)
      BY <3>8 DEF CancelByRule, Done, TypeOK, ConnStates
    <3>9. QED
      BY <2>11, <3>1, <3>2, <3>3, <3>4, <3>5, <3>6, <3>7, <3>8 DEF HandlerStep
  <2>12. ASSUME NEW r \in RuleIds, Expire(r) PROVE TypeOK'
    BY <2>12 DEF Expire, TypeOK, RuleRow
  <2>13. CASE UNCHANGED vars
    BY <2>13 DEF vars, TypeOK
  <2>14. QED
    BY <2>1, <2>2, <2>3, <2>4, <2>5, <2>6, <2>7, <2>8, <2>9, <2>10, <2>11, <2>12, <2>13
    DEF Next, ConnStep
<1>3. QED
  BY <1>1, <1>2, PTL DEF Spec

------------------------------------------------------------------------------
(* The inductive invariant behind the theorems about rules: identifiers    *)
(* are handed out in order, a connection carries a rule from the moment it *)
(* is admitted and not before, and the tracker is exact.                   *)
IdsInOrder ==
  /\ \A r \in RuleIds : r >= nextRule => rules[r].st = "unused"
  /\ \A c \in Conns : auth[c] < nextRule
  /\ \A u \in Users : req[u].rule < nextRule

Unadmitted == {"new", "create", "count", "subscribe", "wait"}
AuthWhenAdmitted ==
  \A c \in Conns : /\ pc[c] \in Unadmitted => auth[c] = NoRule
                   /\ pc[c] \in {"admit", "open", "cancelled"} => auth[c] # NoRule

CancelNamesRule == \A u \in Users : req[u].pc = "cancel" => req[u].rule \in RuleIds

RuleInv == TypeOK /\ IdsInOrder /\ AuthWhenAdmitted /\ CancelNamesRule /\ TrackerExact

\* FindMatchingRule returns a rule that exists and is in force.
LEMMA MatchingAllocated ==
  ASSUME RuleInv, NEW d, NEW r \in FindMatchingRule(d)
  PROVE  r \in RuleIds /\ r < nextRule /\ r # NoRule /\ rules[r].st = "live"
<1>1. r \in RuleIds /\ rules[r].st = "live"
  BY DEF FindMatchingRule, Matching
<1>2. QED
  BY <1>1, ConstantsAssumption DEF RuleInv, IdsInOrder, RuleIds, TypeOK, NoRule

\* CreateRule takes the next identifier and revokes no rule.
LEMMA CreateRuleOrder ==
  ASSUME RuleInv, NEW pat, NEW act, NEW temp, NEW r \in RuleIds,
         CreateRule(pat, act, temp, r)
  PROVE  /\ \A s \in RuleIds : s >= nextRule' => rules'[s].st = "unused"
         /\ nextRule' \in Int /\ nextRule' >= nextRule
         /\ \A s \in RuleIds : s < nextRule /\ ~Revoked(s) => ~Revoked(s)'
<1>1. CASE findExistingRule(pat, act) # {}
  BY <1>1 DEF CreateRule, RuleInv, IdsInOrder, TypeOK, ruleVars, Revoked, InTable
<1>2. CASE findExistingRule(pat, act) = {}
  <2>1. nextRule' = nextRule + 1 /\ nextRule \in Nat
    BY <1>2 DEF CreateRule, RuleInv, TypeOK
  <2>2. \A s \in RuleIds : s # nextRule =>
           \/ rules'[s] = rules[s]
           \/ /\ rules[s].st = "expired"
              /\ rules'[s] = [rules[s] EXCEPT !.st = "purged"]
    BY <1>2 DEF CreateRule
  <2>3. \A s \in RuleIds : s \in Nat /\ rules[s] \in RuleRow
    BY ConstantsAssumption DEF RuleIds, RuleInv, TypeOK
  <2>4. \A s \in RuleIds : s >= nextRule' => rules'[s].st = "unused"
    <3> SUFFICES ASSUME NEW s \in RuleIds, s >= nextRule' PROVE rules'[s].st = "unused"
      OBVIOUS
    <3>1. s >= nextRule /\ s # nextRule
      BY <2>1, <2>3
    <3>2. rules[s].st = "unused"
      BY <3>1 DEF RuleInv, IdsInOrder
    <3>3. QED
      BY <3>1, <3>2, <2>2
  <2>5. ASSUME NEW s \in RuleIds, s < nextRule, ~Revoked(s) PROVE ~Revoked(s)'
    <3>1. s # nextRule
      BY <2>1, <2>3, <2>5
    <3>2. CASE rules'[s] = rules[s]
      BY <3>2, <2>5 DEF Revoked, InTable
    <3>3. CASE rules'[s] = [rules[s] EXCEPT !.st = "purged"]
      BY <3>3, <2>3 DEF Revoked, InTable, RuleRow
    <3>4. QED
      BY <3>1, <3>2, <3>3, <2>2
  <2>6. QED
    BY <2>1, <2>4, <2>5
<1>3. QED
  BY <1>1, <1>2

\* A step that touches no rule, no request and no connection keeps RuleInv.
LEMMA RuleInvFrame ==
  ASSUME RuleInv, TypeOK', UNCHANGED <<ruleVars, pc, auth, tracked>>,
         \A u \in Users : \/ req'[u] = req[u]
                          \/ req'[u].rule = NoRule /\ req'[u].pc # "cancel"
  PROVE  RuleInv'
<1>0. NoRule < nextRule /\ rules' = rules /\ nextRule' = nextRule /\ auth' = auth
  BY ConstantsAssumption DEF RuleInv, ruleVars, NoRule, TypeOK
<1>1. IdsInOrder'
  BY <1>0 DEF RuleInv, IdsInOrder
<1>2. AuthWhenAdmitted' /\ TrackerExact'
  BY DEF RuleInv, AuthWhenAdmitted, TrackerExact
<1>3. CancelNamesRule'
  BY DEF RuleInv, CancelNamesRule
<1>4. QED
  BY <1>1, <1>2, <1>3 DEF RuleInv

\* A step of connection c that leaves the rules and the requests alone keeps
\* RuleInv if what it does to c's program counter, rule and tracking agrees.
LEMMA RuleInvConn ==
  ASSUME RuleInv, TypeOK', UNCHANGED <<ruleVars, req>>, NEW c \in Conns,
         \A e \in Conns : e # c => pc'[e] = pc[e] /\ auth'[e] = auth[e],
         auth'[c] < nextRule,
         pc'[c] \in Unadmitted => auth'[c] = NoRule,
         pc'[c] \in {"admit", "open", "cancelled"} => auth'[c] # NoRule,
         \A r \in RuleIds : tracked'[r] \ {c} = tracked[r] \ {c},
         \A r \in RuleIds : c \in tracked'[r] <=> pc'[c] = "open" /\ auth'[c] = r
  PROVE  RuleInv'
<1>1. IdsInOrder'
  BY DEF RuleInv, IdsInOrder, ruleVars
<1>2. AuthWhenAdmitted'
  BY DEF RuleInv, AuthWhenAdmitted
<1>3. TrackerExact'
  BY DEF RuleInv, TrackerExact
<1>4. CancelNamesRule'
  BY DEF RuleInv, CancelNamesRule
<1>5. QED
  BY <1>1, <1>2, <1>3, <1>4 DEF RuleInv

(* The invariant holds of every behaviour: no interleaving of connections, *)
(* approvals, edits of rules and cancellations breaks it.                  *)
THEOREM RuleInvariant == Spec => []RuleInv
<1>1. Init /\ TypeOK => RuleInv
  BY NoReqType, ConstantsAssumption
  DEF Init, RuleInv, IdsInOrder, AuthWhenAdmitted, CancelNamesRule, TrackerExact,
      NoRule, RuleIds
<1>2. RuleInv /\ TypeOK' /\ [Next]_vars => RuleInv'
  <2> SUFFICES ASSUME RuleInv, TypeOK', [Next]_vars PROVE RuleInv'
    OBVIOUS
  <2>0. /\ TypeOK
        /\ nextRule \in Nat /\ NoRule < nextRule
        /\ \A c \in Conns : auth[c] < nextRule
    BY ConstantsAssumption DEF RuleInv, TypeOK, IdsInOrder, NoRule
  <2>1. ASSUME NEW c \in Conns, NEW d \in Dests, Check(c, d) PROVE RuleInv'
    <3>1. auth[c] = NoRule /\ pc[c] = "new" /\ \A r \in RuleIds : c \notin tracked[r]
      BY <2>1 DEF Check, Goto, RuleInv, AuthWhenAdmitted, Unadmitted, TrackerExact
    <3>2. \/ \E r \in FindMatchingRule(d) : pc'[c] = "admit" /\ auth'[c] = r
          \/ pc'[c] \in {"closed", "create"} /\ auth'[c] = auth[c]
      BY <2>0, <2>1 DEF Check, Goto, TypeOK
    <3>3. /\ auth'[c] < nextRule
          /\ pc'[c] \in Unadmitted => auth'[c] = NoRule
          /\ pc'[c] \in {"admit", "open", "cancelled"} => auth'[c] # NoRule
          /\ pc'[c] # "open"
      BY <2>0, <3>1, <3>2, MatchingAllocated DEF Unadmitted
    <3>4. \A e \in Conns : e # c => pc'[e] = pc[e] /\ auth'[e] = auth[e]
      BY <2>0, <2>1 DEF Check, Goto, TypeOK
    <3>5. UNCHANGED <<ruleVars, req>> /\ tracked' = tracked
      BY <2>1 DEF Check
    <3>6. QED
      BY <3>1, <3>3, <3>4, <3>5, RuleInvConn
  <2>2. ASSUME NEW c \in Conns, createPending(c) \/ AddWaiter(c) \/ Subscribe(c)
        PROVE  RuleInv'
    <3>1. pc[c] \in Unadmitted /\ pc'[c] \in Unadmitted /\ auth'[c] = auth[c]
      BY <2>0, <2>2 DEF createPending, AddWaiter, Subscribe, Goto, Unadmitted, TypeOK
    <3>2. \A r \in RuleIds : c \notin tracked[r]
      BY <3>1 DEF RuleInv, TrackerExact, Unadmitted
    <3>3. QED
      BY <2>0, <2>2, <3>1, <3>2, RuleInvConn
      DEF createPending, AddWaiter, Subscribe, Goto, TypeOK, RuleInv, AuthWhenAdmitted,
          Unadmitted
  <2>3. ASSUME NEW c \in Conns, Receive(c) \/ GiveUp(c) PROVE RuleInv'
    <3>1. pc[c] = "wait" /\ auth[c] = NoRule /\ \A r \in RuleIds : c \notin tracked[r]
      BY <2>3 DEF Receive, GiveUp, Return, Goto, RuleInv, AuthWhenAdmitted, Unadmitted,
                  TrackerExact
    <3>2. CASE Skip(c) /\ Receive(c)
      BY <3>2, RuleInvFrame DEF Skip, Receive
    <3>3. ASSUME NEW r \in Int, r < nextRule, Return(c, r), Receive(c) \/ GiveUp(c)
          PROVE  RuleInv'
      <4>1. pc'[c] = "release" /\ auth'[c] = r
        BY <2>0, <3>3 DEF Return, Goto, TypeOK
      <4>2. QED
        BY <3>1, <3>3, <4>1, <2>0, RuleInvConn
        DEF Return, Goto, Receive, GiveUp, Unadmitted, TypeOK
    <3>4. \A r \in FindMatchingRule(dest[c]) : r \in Int /\ r < nextRule
      BY MatchingAllocated DEF RuleIds
    <3>5. QED
      BY <2>0, <2>3, <3>2, <3>3, <3>4 DEF Receive, GiveUp, NoRule
  <2>4. ASSUME NEW c \in Conns, Release(c) PROVE RuleInv'
    <3>1. pc[c] = "release" /\ \A r \in RuleIds : c \notin tracked[r]
      BY <2>4 DEF Release, Goto, RuleInv, TrackerExact
    <3>2. auth'[c] = auth[c] /\ pc'[c] = IF auth[c] = NoRule THEN "closed" ELSE "admit"
      BY <2>0, <2>4 DEF Release, Goto, TypeOK
    <3>3. QED
      BY <2>0, <2>4, <3>1, <3>2, RuleInvConn DEF Release, Goto, Unadmitted, TypeOK
  <2>5. ASSUME NEW c \in Conns, Register(c) PROVE RuleInv'
    <3>1. pc[c] = "admit" /\ auth[c] # NoRule /\ \A r \in RuleIds : c \notin tracked[r]
      BY <2>5 DEF Register, Goto, RuleInv, AuthWhenAdmitted, TrackerExact
    <3>2. pc'[c] = "open" /\ auth'[c] = auth[c] /\ auth[c] \in RuleIds
      BY <2>0, <2>5, <3>1 DEF Register, Goto, TypeOK
    <3>3. \A r \in RuleIds : tracked'[r] = IF r = auth[c] THEN tracked[r] \cup {c}
                                          ELSE tracked[r]
      BY <2>0, <2>5 DEF Register, TypeOK
    <3>4. QED
      BY <2>0, <2>5, <3>1, <3>2, <3>3, RuleInvConn DEF Register, Goto, Unadmitted, TypeOK
  <2>6. ASSUME NEW c \in Conns, Finish(c) PROVE RuleInv'
    <3>1. pc'[c] = "closed" /\ auth'[c] = auth[c]
      BY <2>0, <2>6 DEF Finish, Goto, TypeOK
    <3>2. \A r \in RuleIds : tracked'[r] = IF r = auth[c] THEN tracked[r] \ {c}
                                          ELSE tracked[r]
      BY <2>0, <2>6 DEF Finish, TypeOK
    <3>3. \A r \in RuleIds : r # auth[c] => c \notin tracked[r]
      BY DEF RuleInv, TrackerExact
    <3>4. \A r \in RuleIds : tracked'[r] \ {c} = tracked[r] \ {c} /\ c \notin tracked'[r]
      BY <3>2, <3>3
    <3>5. \A e \in Conns : e # c => pc'[e] = pc[e] /\ auth'[e] = auth[e]
      BY <2>0, <2>6 DEF Finish, Goto, TypeOK
    <3>6. UNCHANGED <<ruleVars, req>>
      BY <2>6 DEF Finish
    <3>7. QED
      BY <2>0, <3>1, <3>4, <3>5, <3>6, RuleInvConn DEF Unadmitted
  <2>7. ASSUME NEW u \in Users, CancelByRule(u) PROVE RuleInv'
    <3> DEFINE r == req[u].rule
    <3>1. r \in RuleIds
      BY <2>7 DEF CancelByRule, Done, RuleInv, CancelNamesRule
    <3>2. /\ pc' = [c \in Conns |-> IF c \in tracked[r] THEN "cancelled" ELSE pc[c]]
          /\ \A s \in RuleIds : tracked'[s] = IF s = r THEN {} ELSE tracked[s]
          /\ auth' = auth
      BY <2>0, <2>7, <3>1 DEF CancelByRule, TypeOK
    <3>3. \A v \in Users : req'[v] = req[v] \/ req'[v] = NoReq
      BY <2>0, <2>7 DEF CancelByRule, Done, TypeOK
    <3>4. IdsInOrder'
      BY <2>0, <2>7, <3>2, <3>3, NoReqType
      DEF CancelByRule, RuleInv, IdsInOrder, ruleVars, NoRule
    <3>5. TrackerExact'
      BY <3>1, <3>2 DEF RuleInv, TrackerExact
    <3>6. \A c \in Conns : c \in tracked[r] => pc[c] = "open"
      BY <3>1 DEF RuleInv, TrackerExact
    <3>7. AuthWhenAdmitted'
      BY <3>2, <3>6 DEF RuleInv, AuthWhenAdmitted, Unadmitted
    <3>8. CancelNamesRule'
      BY <3>3, NoReqType DEF RuleInv, CancelNamesRule
    <3>9. QED
      BY <3>4, <3>5, <3>7, <3>8 DEF RuleInv
  <2>8. ASSUME NEW u \in Users,
               \/ FindExisting(u) \/ ClearPending(u) \/ PublishResolution(u)
               \/ ListPending(u) \/ CleanPending(u) \/ DropPending(u)
        PROVE  RuleInv'
    <3>1. /\ \A v \in Users : v # u => req'[v] = req[v]
          /\ \/ req'[u] = NoReq
             \/ req'[u].rule = req[u].rule /\ req'[u].pc # "cancel"
      <4>0. req[u] \in Request /\ req \in [Users -> Request]
        BY <2>0 DEF TypeOK
      <4>1. ASSUME NEW from, NEW to, Step(u, from, to), to # "cancel"
            PROVE  /\ \A v \in Users : v # u => req'[v] = req[v]
                   /\ req'[u].rule = req[u].rule /\ req'[u].pc # "cancel"
        <5>1. req'[u] = [req[u] EXCEPT !.pc = to] /\ \A v \in Users : v # u => req'[v] = req[v]
          BY <4>0, <4>1 DEF Step
        <5>2. QED
          BY <4>0, <4>1, <5>1 DEF Request
      <4>2. ASSUME NEW from, Done(u, from)
            PROVE  req'[u] = NoReq /\ \A v \in Users : v # u => req'[v] = req[v]
        BY <4>0, <4>2 DEF Done
      <4>3. CASE ListPending(u)
        <5>1. /\ req'[u] = [req[u] EXCEPT !.pc = "clean", !.todo = pending]
              /\ \A v \in Users : v # u => req'[v] = req[v]
          BY <4>0, <4>3 DEF ListPending
        <5>2. QED
          BY <4>0, <5>1 DEF Request
      <4>4. CASE CleanPending(u) /\ ~Done(u, "clean")
        <5>1. PICK p \in req[u].todo, to \in {"drop", "clean"} :
                req' = [req EXCEPT ![u] = [req[u] EXCEPT !.todo = req[u].todo \ {p}, !.pend = p, !.pc = to]]
          BY <4>4 DEF CleanPending
        <5>2. /\ req'[u] = [req[u] EXCEPT !.todo = @ \ {p}, !.pend = p, !.pc = to]
              /\ \A v \in Users : v # u => req'[v] = req[v]
          BY <4>0, <5>1
        <5>3. QED
          BY <4>0, <5>1, <5>2 DEF Request
      <4>5. FindExisting(u) => \/ Step(u, "find", "insert") \/ Step(u, "find", "clear")
                               \/ Done(u, "find")
        BY DEF FindExisting
      <4>6. QED
        BY <2>8, <4>1, <4>2, <4>3, <4>4, <4>5
        DEF ClearPending, PublishResolution, DropPending
    <3>2. UNCHANGED <<ruleVars, pc, auth, tracked>>
      BY <2>8
      DEF FindExisting, ClearPending, PublishResolution, ListPending, CleanPending,
          DropPending, connVars
    <3>3. IdsInOrder'
      BY <2>0, <3>1, <3>2, NoReqType DEF RuleInv, IdsInOrder, ruleVars, NoRule
    <3>4. CancelNamesRule'
      BY <3>1, <3>2, NoReqType DEF RuleInv, CancelNamesRule
    <3>5. AuthWhenAdmitted' /\ TrackerExact'
      BY <3>2 DEF RuleInv, AuthWhenAdmitted, TrackerExact
    <3>6. QED
      BY <3>3, <3>4, <3>5 DEF RuleInv
  <2>9. ASSUME NEW u \in Users, InsertRule(u) PROVE RuleInv'
    <3>1. PICK r \in RuleIds : CreateRule(req[u].pat, req[u].act, req[u].temp, r)
      BY <2>9 DEF InsertRule
    <3>2. /\ \A s \in RuleIds : s >= nextRule' => rules'[s].st = "unused"
          /\ nextRule' \in Int /\ nextRule' >= nextRule
      BY <3>1, CreateRuleOrder
    <3>3. /\ \A v \in Users : req'[v].rule = req[v].rule
          /\ \A v \in Users : req'[v] = req[v] \/ req'[v].pc # "cancel"
      BY <2>0, <2>9 DEF InsertRule, Step, TypeOK, Request
    <3>4. \A v \in Users : req[v].rule \in Int
      BY <2>0 DEF TypeOK, Request, RuleIds, NoRule
    <3>5. \A c \in Conns : auth[c] \in Int
      BY <2>0 DEF TypeOK, RuleIds, NoRule
    <3>6. IdsInOrder'
      BY <2>0, <2>9, <3>2, <3>3, <3>4, <3>5 DEF InsertRule, RuleInv, IdsInOrder, connVars
    <3>7. CancelNamesRule'
      BY <3>3 DEF RuleInv, CancelNamesRule
    <3>8. AuthWhenAdmitted' /\ TrackerExact'
      BY <2>9 DEF InsertRule, connVars, RuleInv, AuthWhenAdmitted, TrackerExact
    <3>9. QED
      BY <3>6, <3>7, <3>8 DEF RuleInv
  <2>10. ASSUME NEW u \in Users, Asks(u) PROVE RuleInv'
    <3>1. CASE \/ \E op \in {"allow", "deny"}, p \in pending, s \in Scopes, t \in Temps :
                    Resolve(u, op, p, s, t)
               \/ \E p \in pending : Dismiss(u, p)
               \/ \E pat \in Patterns, act \in Actions : Ingest(u, pat, act)
      <4>1. \A v \in Users : \/ req'[v] = req[v]
                             \/ req'[v].rule = NoRule /\ req'[v].pc # "cancel"
        <5>1. ASSUME NEW x, req' = [req EXCEPT ![u] = x], x.rule = NoRule, x.pc # "cancel"
              PROVE  \A v \in Users : \/ req'[v] = req[v]
                                      \/ req'[v].rule = NoRule /\ req'[v].pc # "cancel"
          BY <2>0, <5>1 DEF TypeOK
        <5>2. ASSUME NEW op, NEW p, NEW s, NEW t, Resolve(u, op, p, s, t)
              PROVE  \A v \in Users : \/ req'[v] = req[v]
                                      \/ req'[v].rule = NoRule /\ req'[v].pc # "cancel"
          <6> DEFINE x == [NoReq EXCEPT
                !.pc = "find", !.op = op, !.act = op, !.temp = t, !.pend = p,
                !.pat = PatternFor[HostOf[p.dest]][s]]
          <6>1. x.rule = NoRule /\ x.pc # "cancel"
            BY NoReqType DEF Request
          <6>2. req' = [req EXCEPT ![u] = x]
            BY <5>2 DEF Resolve
          <6> HIDE DEF x
          <6>3. QED
            BY <5>1, <6>1, <6>2
        <5>3. ASSUME NEW p, Dismiss(u, p)
              PROVE  \A v \in Users : \/ req'[v] = req[v]
                                      \/ req'[v].rule = NoRule /\ req'[v].pc # "cancel"
          <6> DEFINE x == [NoReq EXCEPT !.pc = "publish", !.op = "dismiss", !.pend = p]
          <6>1. x.rule = NoRule /\ x.pc # "cancel"
            BY NoReqType DEF Request
          <6>2. req' = [req EXCEPT ![u] = x]
            BY <5>3 DEF Dismiss
          <6> HIDE DEF x
          <6>3. QED
            BY <5>1, <6>1, <6>2
        <5>4. ASSUME NEW pat, NEW act, Ingest(u, pat, act)
              PROVE  \A v \in Users : \/ req'[v] = req[v]
                                      \/ req'[v].rule = NoRule /\ req'[v].pc # "cancel"
          <6> DEFINE x == [NoReq EXCEPT !.pc = "find", !.op = "ingest", !.pat = pat, !.act = act]
          <6>1. x.rule = NoRule /\ x.pc # "cancel"
            BY NoReqType DEF Request
          <6>2. req' = [req EXCEPT ![u] = x]
            BY <5>4 DEF Ingest
          <6> HIDE DEF x
          <6>3. QED
            BY <5>1, <6>1, <6>2
        <5>5. QED
          BY <3>1, <5>2, <5>3, <5>4
      <4>2. UNCHANGED <<ruleVars, pc, auth, tracked>>
        BY <3>1 DEF Resolve, Dismiss, Ingest, connVars
      <4>3. QED
        BY <4>1, <4>2, RuleInvFrame
    <3>2. ASSUME NEW pat \in Patterns, NEW act \in Actions, NEW t \in Temps,
                 AddRule(u, pat, act, t)
          PROVE  RuleInv'
      <4>1. PICK r \in RuleIds : CreateRule(pat, act, t, r)
        BY <3>2 DEF AddRule
      <4>2. /\ \A s \in RuleIds : s >= nextRule' => rules'[s].st = "unused"
            /\ nextRule' \in Int /\ nextRule' >= nextRule
        BY <4>1, CreateRuleOrder
      <4>3. /\ \A v \in Users : req[v].rule \in Int
            /\ \A c \in Conns : auth[c] \in Int
        BY <2>0 DEF TypeOK, Request, RuleIds, NoRule
      <4>4. IdsInOrder'
        BY <2>0, <3>2, <4>2, <4>3 DEF AddRule, RuleInv, IdsInOrder, connVars
      <4>5. CancelNamesRule' /\ AuthWhenAdmitted' /\ TrackerExact'
        BY <3>2 DEF AddRule, connVars, RuleInv, CancelNamesRule, AuthWhenAdmitted,
                    TrackerExact
      <4>6. QED
        BY <4>4, <4>5 DEF RuleInv
    <3>3. ASSUME NEW r \in RuleIds, NEW pat \in Patterns, NEW act \in Actions, NEW e,
                 UpdateRule(u, r, pat, act, e) \/ DeleteRule(u, r)
          PROVE  RuleInv'
      <4>1. rules[r].st # "unused"
        BY <3>3 DEF UpdateRule, DeleteRule, InTable
      <4>2. r < nextRule
        BY <2>0, <4>1 DEF RuleInv, IdsInOrder, RuleIds
      <4>3. \A s \in RuleIds : s # r => rules'[s] = rules[s]
        BY <2>0, <3>3 DEF UpdateRule, DeleteRule, TypeOK
      <4>4. \A v \in Users : \/ req'[v] = req[v]
                             \/ req'[v].rule = r
        <5>1. [NoReq EXCEPT !.pc = "cancel", !.op = "update", !.rule = r].rule = r
          BY NoReqType DEF Request
        <5>2. [NoReq EXCEPT !.pc = "cancel", !.op = "delete", !.rule = r].rule = r
          BY NoReqType DEF Request
        <5>3. CASE UpdateRule(u, r, pat, act, e)
          BY <2>0, <5>1, <5>3 DEF UpdateRule, TypeOK
        <5>4. CASE DeleteRule(u, r)
          BY <2>0, <5>2, <5>4 DEF DeleteRule, TypeOK
        <5>5. QED
          BY <3>3, <5>3, <5>4
      <4>5. IdsInOrder'
        <5>1. \A s \in RuleIds : s >= nextRule => s # r
          BY <2>0, <4>2 DEF RuleIds
        <5>2. nextRule' = nextRule /\ auth' = auth
          BY <3>3 DEF UpdateRule, DeleteRule, connVars
        <5>3. QED
          BY <4>2, <4>3, <4>4, <5>1, <5>2 DEF RuleInv, IdsInOrder
      <4>6. CancelNamesRule'
        BY <4>4 DEF RuleInv, CancelNamesRule
      <4>7. AuthWhenAdmitted' /\ TrackerExact'
        BY <3>3 DEF UpdateRule, DeleteRule, connVars, RuleInv, AuthWhenAdmitted, TrackerExact
      <4>8. QED
        BY <4>5, <4>6, <4>7 DEF RuleInv
    <3>4. ASSUME NEW r \in RuleIds, DeleteRule(u, r) PROVE RuleInv'
      <4>1. NoReq.pat \in Patterns /\ NoReq.act \in Actions
        BY NoReqType DEF Request
      <4>2. QED
        BY <3>3, <3>4, <4>1
    <3>5. ASSUME NEW r \in RuleIds, NEW pat \in Patterns, NEW act \in Actions, NEW e,
                 UpdateRule(u, r, pat, act, e)
          PROVE  RuleInv'
      BY <3>3, <3>5
    <3>6. QED
      BY <2>10, <3>1, <3>2, <3>4, <3>5 DEF Asks
  <2>11. ASSUME NEW r \in RuleIds, Expire(r) PROVE RuleInv'
    <3>1. \A s \in RuleIds : rules[s].st = "unused" => rules'[s].st = "unused"
      BY <2>0, <2>11 DEF Expire, TypeOK
    <3>2. IdsInOrder'
      BY <2>11, <3>1 DEF Expire, RuleInv, IdsInOrder, connVars
    <3>3. CancelNamesRule' /\ AuthWhenAdmitted' /\ TrackerExact'
      BY <2>11 DEF Expire, connVars, RuleInv, CancelNamesRule, AuthWhenAdmitted, TrackerExact
    <3>4. QED
      BY <3>2, <3>3 DEF RuleInv
  <2>12. CASE UNCHANGED vars
    BY <2>12, RuleInvFrame DEF vars, connVars, ruleVars
  <2>13. QED
    BY <2>1, <2>2, <2>3, <2>4, <2>5, <2>6, <2>7, <2>8, <2>9, <2>10, <2>11, <2>12
    DEF Next, ConnStep, HandlerStep
<1>3. QED
  BY <1>1, <1>2, TypeCorrect, PTL DEF Spec

(* ConnTracker holds exactly the open connections, each under the rule     *)
(* that admitted it (Register, Unregister and CancelByRule agree).         *)
THEOREM TrackerCorrect == Spec => []TrackerExact
BY RuleInvariant, PTL DEF RuleInv

------------------------------------------------------------------------------
(* A rule that FindMatchingRule may return yields to no deny rule that is  *)
(* as specific (the comparison function of its sort).                      *)
LEMMA WinnerBeatsDenies ==
  ASSUME TypeOK, NEW d \in Dests, NEW r \in FindMatchingRule(d), rules[r].act = "allow",
         NEW s \in Matching(d), rules[s].act = "deny"
  PROVE  Specificity[rules[s].pat] < Specificity[rules[r].pat]
<1>1. r \in RuleIds /\ s \in RuleIds /\ ~Outranks(s, r)
  BY DEF FindMatchingRule, Matching
<1>2. Specificity[rules[s].pat] \in Nat /\ Specificity[rules[r].pat] \in Nat
  BY <1>1, ConstantsAssumption DEF TypeOK, RuleRow
<1>3. QED
  BY <1>1, <1>2 DEF Outranks

(* Contains admits a connection only under a rule that is in force at that *)
(* moment, covers it, and yields to no deny rule that is as specific,      *)
(* whatever other requests do to the table meanwhile.                      *)
THEOREM AdmissionIsLawful == Spec => AdmissionLawful
<1>1. RuleInv /\ [Next]_vars
        => [\A c \in Conns : auth'[c] # auth[c] => Lawful(c, auth'[c])]_vars
  <2> SUFFICES ASSUME RuleInv, Next, NEW e \in Conns, auth'[e] # auth[e]
               PROVE  Lawful(e, auth'[e])
    OBVIOUS
  <2>0. TypeOK
    BY DEF RuleInv
  <2>1. ASSUME NEW d \in Dests, NEW r \in FindMatchingRule(d), rules[r].act = "allow",
               dest'[e] = d
        PROVE  Lawful(e, r)
    <3>1. rules[r].st = "live" /\ d \in Covers[rules[r].pat]
      BY DEF FindMatchingRule, Matching
    <3>2. \A s \in Matching(d) : rules[s].act = "deny"
            => Specificity[rules[s].pat] < Specificity[rules[r].pat]
      BY <2>0, <2>1, WinnerBeatsDenies
    <3>3. QED
      BY <2>1, <3>1, <3>2 DEF Lawful
  <2>2. ASSUME NEW c \in Conns, NEW d \in Dests, Check(c, d) PROVE Lawful(e, auth'[e])
    <3>1. PICK r \in FindMatchingRule(d) :
            rules[r].act = "allow" /\ auth' = [auth EXCEPT ![c] = r]
      BY <2>2 DEF Check
    <3>2. c = e /\ auth'[e] = r /\ dest'[e] = d
      BY <2>0, <2>2, <3>1 DEF Check, TypeOK
    <3>3. QED
      BY <2>1, <3>1, <3>2
  <2>3. ASSUME NEW c \in Conns, Receive(c) \/ GiveUp(c) PROVE Lawful(e, auth'[e])
    <3>1. auth[c] = NoRule /\ dest' = dest /\ dest[c] \in Dests
      BY <2>0, <2>3 DEF Receive, GiveUp, Return, Goto, RuleInv, AuthWhenAdmitted,
                        Unadmitted, TypeOK
    <3>2. ~Return(c, NoRule)
      BY <2>0, <3>1 DEF Return, TypeOK
    <3>3. PICK r \in FindMatchingRule(dest[c]) : rules[r].act = "allow" /\ Return(c, r)
      BY <2>3, <3>2 DEF Receive, GiveUp, Skip
    <3>4. c = e /\ auth'[e] = r
      BY <2>0, <3>3 DEF Return, TypeOK
    <3>5. QED
      BY <2>1, <3>1, <3>3, <3>4
  <2>4. ASSUME NEW c \in Conns,
               \/ createPending(c) \/ AddWaiter(c) \/ Subscribe(c) \/ Release(c)
               \/ Register(c) \/ Finish(c)
        PROVE  FALSE
    BY <2>4 DEF createPending, AddWaiter, Subscribe, Release, Register, Finish
  <2>5. ASSUME NEW u \in Users, Asks(u) PROVE FALSE
    BY <2>5 DEF Asks, Resolve, Dismiss, Ingest, AddRule, UpdateRule, DeleteRule, connVars
  <2>6. ASSUME NEW u \in Users, HandlerStep(u) PROVE FALSE
    BY <2>6 DEF HandlerStep, FindExisting, InsertRule, ClearPending, PublishResolution,
                ListPending, CleanPending, DropPending, CancelByRule, connVars
  <2>7. ASSUME NEW r \in RuleIds, Expire(r) PROVE FALSE
    BY <2>7 DEF Expire, connVars
  <2>8. QED
    BY <2>2, <2>3, <2>4, <2>5, <2>6, <2>7 DEF Next, ConnStep
<1>2. QED
  BY <1>1, RuleInvariant, PTL DEF Spec, AdmissionLawful

------------------------------------------------------------------------------
(* Three facts behind RevocationReaches.  The first: a rule is revoked     *)
(* only by a request that goes on to cancel.                               *)
LEMMA RevokedByRequest ==
  ASSUME RuleInv, Next, NEW r \in RuleIds, r < nextRule, ~Revoked(r), Revoked(r)'
  PROVE  \E u \in Users : req'[u].pc = "cancel" /\ req'[u].rule = r
<1>0. TypeOK /\ rules[r] \in RuleRow
  BY DEF RuleInv, TypeOK
<1>1. ASSUME rules' = rules PROVE FALSE
  BY <1>1 DEF Revoked, InTable
<1>2. ASSUME NEW c \in Conns, ConnStep(c) \/ Finish(c) PROVE FALSE
  BY <1>1, <1>2
  DEF ConnStep, Check, createPending, AddWaiter, Subscribe, Receive, GiveUp, Release,
      Register, Finish, ruleVars
<1>3. ASSUME NEW u \in Users,
             \/ FindExisting(u) \/ ClearPending(u) \/ PublishResolution(u)
             \/ ListPending(u) \/ CleanPending(u) \/ DropPending(u) \/ CancelByRule(u)
      PROVE  FALSE
  BY <1>1, <1>3
  DEF FindExisting, ClearPending, PublishResolution, ListPending, CleanPending, DropPending,
      CancelByRule, ruleVars
<1>4. ASSUME NEW pat, NEW act, NEW temp, NEW s \in RuleIds, CreateRule(pat, act, temp, s)
      PROVE  FALSE
  BY <1>4, CreateRuleOrder
<1>5. ASSUME NEW u \in Users, InsertRule(u) PROVE FALSE
  BY <1>4, <1>5 DEF InsertRule
<1>6. ASSUME NEW u \in Users, NEW s \in RuleIds, NEW pat, NEW act, NEW e,
             UpdateRule(u, s, pat, act, e)
      PROVE  req'[u].pc = "cancel" /\ req'[u].rule = r
  <2>1. s = r
    BY <1>0, <1>6 DEF UpdateRule, Revoked, InTable, TypeOK
  <2>2. rules'[r].act = act /\ rules'[r].st # "deleted"
    BY <1>0, <1>6, <2>1 DEF UpdateRule, InTable, TypeOK
  <2>3. act = "deny"
    BY <2>2 DEF Revoked
  <2>4. req' = [req EXCEPT ![u] =
                  [NoReq EXCEPT !.pc = "cancel", !.op = "update", !.rule = r]]
    BY <1>6, <2>1, <2>3 DEF UpdateRule
  <2>5. QED
    BY <1>0, <2>4, NoReqType DEF TypeOK, Request
<1>7. ASSUME NEW u \in Users, NEW s \in RuleIds, DeleteRule(u, s)
      PROVE  req'[u].pc = "cancel" /\ req'[u].rule = r
  <2>1. s = r
    BY <1>0, <1>7 DEF DeleteRule, Revoked, InTable, TypeOK
  <2>2. req' = [req EXCEPT ![u] =
                  [NoReq EXCEPT !.pc = "cancel", !.op = "delete", !.rule = r]]
    BY <1>7, <2>1 DEF DeleteRule
  <2>3. QED
    BY <1>0, <2>2, NoReqType DEF TypeOK, Request
<1>8. ASSUME NEW u \in Users, Asks(u)
      PROVE  \E v \in Users : req'[v].pc = "cancel" /\ req'[v].rule = r
  <2>1. ASSUME \/ \E op, p, sc, t : Resolve(u, op, p, sc, t)
               \/ \E p : Dismiss(u, p)
               \/ \E pat, act : Ingest(u, pat, act)
        PROVE  FALSE
    BY <1>1, <2>1 DEF Resolve, Dismiss, Ingest, ruleVars
  <2>2. ASSUME NEW pat, NEW act, NEW t, AddRule(u, pat, act, t) PROVE FALSE
    BY <1>4, <2>2 DEF AddRule
  <2>3. QED
    BY <1>6, <1>7, <1>8, <2>1, <2>2 DEF Asks
<1>9. ASSUME NEW s \in RuleIds, Expire(s) PROVE FALSE
  <2>1. CASE s # r
    BY <1>0, <1>9, <2>1 DEF Expire, Revoked, InTable, TypeOK
  <2>2. CASE s = r
    <3>1. rules'[r].st = "expired" /\ rules'[r].act = rules[r].act /\ rules[r].st = "live"
      BY <1>0, <1>9, <2>2 DEF Expire, TypeOK, RuleRow
    <3>2. QED
      BY <3>1 DEF Revoked, InTable
  <2>3. QED
    BY <2>1, <2>2
<1>10. QED
  BY <1>2, <1>3, <1>5, <1>8, <1>9 DEF Next, HandlerStep

\* A request that is to cancel connections changes by its CancelByRule only.
LEMMA CancelStays ==
  ASSUME RuleInv, Next, NEW u \in Users, req[u].pc = "cancel", ~CancelByRule(u)
  PROVE  req'[u] = req[u]
<1>0. TypeOK /\ req \in [Users -> Request]
  BY DEF RuleInv, TypeOK
<1>1. ASSUME NEW c \in Conns, ConnStep(c) \/ Finish(c) PROVE req' = req
  BY <1>1
  DEF ConnStep, Check, createPending, AddWaiter, Subscribe, Receive, GiveUp, Release,
      Register, Finish
<1>2. ASSUME NEW v \in Users, Asks(v) PROVE req'[u] = req[u]
  <2>1. v # u
    BY <1>2 DEF Asks, Resolve, Dismiss, Ingest, AddRule, UpdateRule, DeleteRule, Arrive
  <2>2. QED
    BY <1>0, <1>2, <2>1
    DEF Asks, Resolve, Dismiss, Ingest, AddRule, UpdateRule, DeleteRule
<1>3. ASSUME NEW v \in Users, HandlerStep(v) PROVE req'[u] = req[u]
  <2>1. v # u
    BY <1>3
    DEF HandlerStep, FindExisting, InsertRule, ClearPending, PublishResolution,
        ListPending, CleanPending, DropPending, Step, Done
  <2>2. QED
    BY <1>0, <1>3, <2>1
    DEF HandlerStep, FindExisting, InsertRule, ClearPending, PublishResolution,
        ListPending, CleanPending, DropPending, CancelByRule, Step, Done
<1>4. ASSUME NEW s \in RuleIds, Expire(s) PROVE req' = req
  BY <1>4 DEF Expire
<1>5. QED
  BY <1>1, <1>2, <1>3, <1>4 DEF Next

\* A connection becomes open by Register only, and keeps its rule.
LEMMA OpenedByRegister ==
  ASSUME RuleInv, Next, NEW c \in Conns, pc'[c] = "open", pc[c] # "admit"
  PROVE  pc[c] = "open" /\ auth'[c] = auth[c]
<1>0. TypeOK
  BY DEF RuleInv
<1>1. ASSUME NEW e \in Conns, ConnStep(e) \/ Finish(e) PROVE pc[c] = "open" /\ auth'[c] = auth[c]
  <2>1. \/ \E from, to : Goto(e, from, to) /\ (to = "open" => from = "admit")
        \/ pc' = pc /\ auth' = auth
    BY <1>1
    DEF ConnStep, Check, createPending, AddWaiter, Subscribe, Receive, Return, Skip, GiveUp,
        Release, Register, Finish
  <2>2. e # c \/ (pc' = pc /\ auth' = auth)
    BY <1>0, <2>1 DEF Goto, TypeOK
  <2>3. QED
    BY <1>0, <1>1, <2>2
    DEF ConnStep, Check, createPending, AddWaiter, Subscribe, Receive, Return, Skip, GiveUp,
        Release, Register, Finish, Goto, TypeOK
<1>2. ASSUME NEW u \in Users, Asks(u) PROVE pc' = pc /\ auth' = auth
  BY <1>2 DEF Asks, Resolve, Dismiss, Ingest, AddRule, UpdateRule, DeleteRule, connVars
<1>3. ASSUME NEW u \in Users, HandlerStep(u)
      PROVE  auth' = auth /\ pc'[c] \in {pc[c], "cancelled"}
  BY <1>3
  DEF HandlerStep, FindExisting, InsertRule, ClearPending, PublishResolution, ListPending,
      CleanPending, DropPending, CancelByRule, connVars
<1>4. ASSUME NEW s \in RuleIds, Expire(s) PROVE pc' = pc /\ auth' = auth
  BY <1>4 DEF Expire, connVars
<1>5. QED
  BY <1>1, <1>2, <1>3, <1>4 DEF Next

(* Deleting a rule or turning it into a deny rule ends every connection    *)
(* registered under it: only a connection that registers afterwards, on a  *)
(* decision Contains took before, can stay open.                           *)
THEOREM RevocationReachesAll == Spec => RevocationReaches
<1>1. RuleInv /\ [Next]_vars
        => [\A c \in Conns : Escaped(c)' /\ ~Escaped(c) => pc[c] = "admit"]_vars
  <2> SUFFICES ASSUME RuleInv, Next, NEW c \in Conns, Escaped(c)', ~Escaped(c),
                      pc[c] # "admit"
               PROVE  FALSE
    OBVIOUS
  <2>0. PICK r : r = auth[c]
    OBVIOUS
  <2>1. pc'[c] = "open" /\ pc[c] = "open" /\ auth[c] = r /\ auth'[c] = r
    BY <2>0, OpenedByRegister DEF Escaped
  <2>2. r \in RuleIds /\ r < nextRule /\ c \in tracked[r]
    BY <2>1 DEF RuleInv, TypeOK, AuthWhenAdmitted, IdsInOrder, TrackerExact
  <2>3. Revoked(r)'
    BY <2>1 DEF Escaped, Revoked, InTable
  <2>4. \A u \in Users : ~(req'[u].pc = "cancel" /\ req'[u].rule = r)
    BY <2>1 DEF Escaped
  <2>5. Revoked(r)
    BY <2>2, <2>3, <2>4, RevokedByRequest
  <2>6. PICK u \in Users : req[u].pc = "cancel" /\ req[u].rule = r
    BY <2>1, <2>5 DEF Escaped
  <2>7. CancelByRule(u)
    BY <2>4, <2>6, CancelStays
  <2>8. pc'[c] = "cancelled"
    BY <2>2, <2>6, <2>7 DEF CancelByRule
  <2>9. QED
    BY <2>1, <2>8
<1>2. QED
  BY <1>1, RuleInvariant, PTL DEF Spec, RevocationReaches

------------------------------------------------------------------------------
HeldStates == {"subscribe", "wait", "release"}

\* The connections held for a destination can be counted.
LEMMA HeldFinite == \A d : IsFiniteSet(Held(d)) /\ Cardinality(Held(d)) \in Nat
BY ConstantsAssumption, FS_Subset, FS_CardinalityType DEF Held

\* A step that moves no connection in or out of a hold keeps the counts.
LEMMA WaiterFrame ==
  ASSUME WaiterCountExact, waiters' = waiters,
         \A c \in Conns : /\ pc'[c] \in HeldStates <=> pc[c] \in HeldStates
                          /\ pc[c] \in HeldStates => dest'[c] = dest[c]
  PROVE  WaiterCountExact'
<1>1. \A d : Held(d)' = Held(d)
  BY DEF Held, HeldStates
<1>2. QED
  BY <1>1 DEF WaiterCountExact

(* WaiterTracker reports, for every destination, exactly the connections   *)
(* that are held for it, whichever way each hold ends (approval, dismissal,*)
(* timeout or the client going away).                                      *)
THEOREM WaiterCountCorrect == Spec => []WaiterCountExact
<1>1. Init => WaiterCountExact
  <2> SUFFICES ASSUME Init, NEW d \in Dests PROVE waiters[d] = Cardinality(Held(d))
    BY DEF WaiterCountExact
  <2>1. Held(d) = {}
    BY DEF Init, Held
  <2>2. QED
    BY <2>1, FS_EmptySet DEF Init
<1>2. RuleInv /\ WaiterCountExact /\ [Next]_vars => WaiterCountExact'
  <2> SUFFICES ASSUME RuleInv, WaiterCountExact, [Next]_vars PROVE WaiterCountExact'
    OBVIOUS
  <2>0. TypeOK
    BY DEF RuleInv
  <2>1. ASSUME NEW c \in Conns, AddWaiter(c) PROVE WaiterCountExact'
    <3> SUFFICES ASSUME NEW d \in Dests PROVE waiters'[d] = Cardinality(Held(d)')
      BY DEF WaiterCountExact
    <3>1. /\ pc[c] = "count" /\ pc' = [pc EXCEPT ![c] = "subscribe"] /\ dest' = dest
          /\ waiters' = [waiters EXCEPT ![dest[c]] = @ + 1]
      BY <2>1 DEF AddWaiter, Goto
    <3>2. CASE d = dest[c]
      <4>1. Held(d)' = Held(d) \cup {c} /\ c \notin Held(d)
        BY <2>0, <3>1, <3>2 DEF Held, TypeOK
      <4>2. Cardinality(Held(d)') = Cardinality(Held(d)) + 1
        BY <4>1, HeldFinite, FS_AddElement
      <4>3. QED
        BY <2>0, <3>1, <3>2, <4>2 DEF WaiterCountExact, TypeOK
    <3>3. CASE d # dest[c]
      <4>1. Held(d)' = Held(d)
        BY <2>0, <3>1, <3>3 DEF Held, TypeOK
      <4>2. QED
        BY <2>0, <3>1, <3>3, <4>1 DEF WaiterCountExact, TypeOK
    <3>4. QED
      BY <3>2, <3>3
  <2>2. ASSUME NEW c \in Conns, Release(c) PROVE WaiterCountExact'
    <3> SUFFICES ASSUME NEW d \in Dests PROVE waiters'[d] = Cardinality(Held(d)')
      BY DEF WaiterCountExact
    <3>1. /\ pc[c] = "release" /\ dest' = dest
          /\ pc' = [pc EXCEPT ![c] = IF auth[c] = NoRule THEN "closed" ELSE "admit"]
          /\ waiters' = [waiters EXCEPT ![dest[c]] = IF @ <= 1 THEN 0 ELSE @ - 1]
      BY <2>2 DEF Release, Goto
    <3>2. CASE d = dest[c]
      <4>1. Held(d)' = Held(d) \ {c} /\ c \in Held(d)
        BY <2>0, <3>1, <3>2 DEF Held, TypeOK
      <4>2. Cardinality(Held(d)') = Cardinality(Held(d)) - 1
        BY <4>1, HeldFinite, FS_RemoveElement
      <4>3. Cardinality(Held(d)) # 0
        BY <4>1, HeldFinite, FS_EmptySet
      <4>4. waiters'[d] = IF waiters[d] <= 1 THEN 0 ELSE waiters[d] - 1
        BY <2>0, <3>1, <3>2 DEF TypeOK
      <4>5. QED
        BY <4>2, <4>3, <4>4, HeldFinite DEF WaiterCountExact
    <3>3. CASE d # dest[c]
      <4>1. Held(d)' = Held(d)
        BY <2>0, <3>1, <3>3 DEF Held, TypeOK
      <4>2. QED
        BY <2>0, <3>1, <3>3, <4>1 DEF WaiterCountExact, TypeOK
    <3>4. QED
      BY <3>2, <3>3
  <2>3. ASSUME NEW c \in Conns, NEW d \in Dests, Check(c, d) PROVE WaiterCountExact'
    <3>1. /\ pc[c] = "new" /\ pc'[c] \in {"admit", "closed", "create"}
          /\ \A e \in Conns : e # c => pc'[e] = pc[e] /\ dest'[e] = dest[e]
      BY <2>0, <2>3 DEF Check, Goto, TypeOK
    <3>2. waiters' = waiters
      BY <2>3 DEF Check
    <3>3. \A e \in Conns : /\ pc'[e] \in HeldStates <=> pc[e] \in HeldStates
                           /\ pc[e] \in HeldStates => dest'[e] = dest[e]
      BY <3>1 DEF HeldStates
    <3>4. QED
      BY <3>2, <3>3, WaiterFrame
  <2>4. ASSUME NEW c \in Conns,
               \/ createPending(c) \/ Subscribe(c) \/ Receive(c) \/ GiveUp(c)
               \/ Register(c) \/ Finish(c)
        PROVE  WaiterCountExact'
    <3>1. \/ \E from, to : Goto(c, from, to) /\ (from \in HeldStates <=> to \in HeldStates)
          \/ pc' = pc
      BY <2>4
      DEF createPending, Subscribe, Receive, Return, Skip, GiveUp, Register, Finish,
          HeldStates, Goto
    <3>2. \A e \in Conns : pc'[e] \in HeldStates <=> pc[e] \in HeldStates
      BY <2>0, <3>1 DEF Goto, TypeOK
    <3>3. dest' = dest /\ waiters' = waiters
      BY <2>4 DEF createPending, Subscribe, Receive, GiveUp, Register, Finish
    <3>4. QED
      BY <3>2, <3>3, WaiterFrame
  <2>5. ASSUME NEW u \in Users, CancelByRule(u) PROVE WaiterCountExact'
    <3>1. req[u].rule \in RuleIds
      BY <2>5 DEF CancelByRule, Done, RuleInv, CancelNamesRule
    <3>2. \A c \in tracked[req[u].rule] : c \in Conns /\ pc[c] = "open"
      BY <3>1 DEF RuleInv, TrackerExact, TypeOK
    <3>3. \A c \in Conns : pc'[c] \in HeldStates <=> pc[c] \in HeldStates
      BY <2>5, <3>2 DEF CancelByRule, HeldStates
    <3>4. dest' = dest /\ waiters' = waiters
      BY <2>5 DEF CancelByRule
    <3>5. QED
      BY <3>3, <3>4, WaiterFrame
  <2>6. ASSUME pc' = pc, dest' = dest, waiters' = waiters PROVE WaiterCountExact'
    BY <2>6, WaiterFrame
  <2>7. ASSUME NEW u \in Users,
               \/ Asks(u) \/ FindExisting(u) \/ InsertRule(u) \/ ClearPending(u)
               \/ PublishResolution(u) \/ ListPending(u) \/ CleanPending(u) \/ DropPending(u)
        PROVE  WaiterCountExact'
    BY <2>6, <2>7
    DEF Asks, Resolve, Dismiss, Ingest, AddRule, UpdateRule, DeleteRule, FindExisting,
        InsertRule, ClearPending, PublishResolution, ListPending, CleanPending, DropPending,
        connVars
  <2>8. ASSUME NEW r \in RuleIds, Expire(r) PROVE WaiterCountExact'
    BY <2>6, <2>8 DEF Expire, connVars
  <2>9. CASE UNCHANGED vars
    BY <2>6, <2>9 DEF vars, connVars
  <2>10. QED
    BY <2>1, <2>2, <2>3, <2>4, <2>5, <2>7, <2>8, <2>9 DEF Next, ConnStep, HandlerStep
<1>3. QED
  BY <1>1, <1>2, RuleInvariant, PTL DEF Spec

------------------------------------------------------------------------------
(* What ApprovalDelivered rests on: a buffer never holds more than its size *)
(* (Publish drops), and the rule of a request says what the request is.     *)
DeliveryInv ==
  /\ \A c \in Conns : Len(buf[c]) <= BufSize
  /\ \A u \in Users : req[u].pc \in {"find", "insert"} /\ req[u].op \in {"allow", "deny"} => req[u].act = req[u].op

\* A buffer after Publish: as before, or with one event more if there was room.
LEMMA PublishEffect ==
  ASSUME TypeOK, NEW kind, NEW host, Publish(kind, host), NEW c \in Conns
  PROVE  \/ /\ pc[c] = "wait" /\ Len(buf[c]) < BufSize
            /\ buf'[c] = Append(buf[c], [kind |-> kind, host |-> host])
         \/ ~(pc[c] = "wait" /\ Len(buf[c]) < BufSize) /\ buf'[c] = buf[c]
BY DEF Publish, TypeOK

\* An appended event is the last one, and the others stay.
LEMMA AppendEffect ==
  ASSUME NEW q \in Seq(Event), NEW e \in Event
  PROVE  /\ Len(Append(q, e)) = Len(q) + 1 /\ Append(q, e)[Len(q) + 1] = e
         /\ DOMAIN Append(q, e) = 1 .. Len(q) + 1
         /\ \A i \in DOMAIN q : i \in DOMAIN Append(q, e) /\ Append(q, e)[i] = q[i]
OBVIOUS

\* The first event goes, and the others move up.
LEMMA TailEffect ==
  ASSUME NEW q \in Seq(Event), q # <<>>
  PROVE  /\ Tail(q) \in Seq(Event) /\ Len(Tail(q)) = Len(q) - 1 /\ Len(q) \in Nat
         /\ \A i \in DOMAIN q : \/ i = 1 /\ q[i] = Head(q)
                                \/ i - 1 \in DOMAIN Tail(q) /\ Tail(q)[i - 1] = q[i]
OBVIOUS

\* What a step does to one buffer.
LEMMA BufferOf ==
  ASSUME TypeOK, [Next]_vars, NEW c \in Conns
  PROVE  \/ buf'[c] = buf[c]
         \/ buf'[c] = <<>> /\ pc'[c] \in {"wait", "release"} /\ pc[c] # pc'[c]
         \/ Receive(c) /\ Skip(c) /\ buf'[c] = Tail(buf[c]) /\ buf[c] # <<>>
         \/ \E kind \in {"allowed", "dismissed", "other"}, h \in Hosts : Publish(kind, h)
<1>0. buf \in [Conns -> Seq(Event)] /\ pc \in [Conns -> ConnStates]
  BY DEF TypeOK
<1>1. ASSUME NEW d \in Conns, createPending(d) \/ AddWaiter(d) \/ Release(d)
      PROVE  \E h \in Hosts : Publish("other", h)
  <2>1. HostOf[dest[d]] \in Hosts
    BY ConstantsAssumption DEF TypeOK
  <2>2. Publish("other", HostOf[dest[d]])
    BY <1>1 DEF createPending, AddWaiter, Release
  <2>3. QED
    BY <2>1, <2>2
<1>2. ASSUME NEW d \in Conns, Subscribe(d)
      PROVE  buf'[c] = buf[c] \/ (buf'[c] = <<>> /\ pc'[c] = "wait" /\ pc[c] = "subscribe")
  BY <1>0, <1>2 DEF Subscribe, Goto
<1>3. ASSUME NEW d \in Conns, NEW r, Return(d, r)
      PROVE  buf'[c] = buf[c] \/ (buf'[c] = <<>> /\ pc'[c] = "release" /\ pc[c] = "wait")
  BY <1>0, <1>3 DEF Return, Goto
<1>4. ASSUME NEW d \in Conns, Receive(d), Skip(d)
      PROVE  buf'[c] = buf[c] \/ (c = d /\ buf'[c] = Tail(buf[c]) /\ buf[c] # <<>>)
  BY <1>0, <1>4 DEF Receive, Skip
<1>5. ASSUME NEW d \in Conns, Receive(d) PROVE Skip(d) \/ \E r : Return(d, r)
  BY <1>5 DEF Receive
<1>6. ASSUME NEW d \in Conns, GiveUp(d) PROVE \E r : Return(d, r)
  BY <1>6 DEF GiveUp
<1>7. ASSUME NEW u \in Users, PublishResolution(u)
      PROVE  \E kind \in {"allowed", "dismissed", "other"}, h \in Hosts : Publish(kind, h)
  <2>1. req[u] \in Request
    BY DEF TypeOK
  <2>2. HostOf[req[u].pend.dest] \in Hosts
    BY <2>1, ConstantsAssumption DEF Request, PendingRow
  <2>3. Publish(IF req[u].op = "allow" THEN "allowed" ELSE "dismissed", HostOf[req[u].pend.dest])
    BY <1>7 DEF PublishResolution
  <2>4. QED
    BY <2>2, <2>3
<1>8. ASSUME NEW d \in Conns, (\E e \in Dests : Check(d, e)) \/ Register(d) \/ Finish(d) PROVE buf' = buf
  BY <1>8 DEF Check, Register, Finish
<1>9. ASSUME NEW u \in Users, Asks(u) PROVE buf' = buf
  BY <1>9 DEF Asks, Resolve, Dismiss, Ingest, AddRule, UpdateRule, DeleteRule
<1>10. ASSUME NEW u \in Users, HandlerStep(u), ~PublishResolution(u) PROVE buf' = buf
  BY <1>10 DEF HandlerStep, FindExisting, InsertRule, ClearPending, ListPending, CleanPending, DropPending,
               CancelByRule
<1>11. ASSUME NEW r \in RuleIds, Expire(r) PROVE buf' = buf
  BY <1>11 DEF Expire
<1>12. CASE UNCHANGED vars
  BY <1>12 DEF vars
<1>13. CASE Next
  <2>1. ASSUME NEW d \in Conns, ConnStep(d) \/ Finish(d)
        PROVE  \/ buf'[c] = buf[c]
               \/ buf'[c] = <<>> /\ pc'[c] \in {"wait", "release"} /\ pc[c] # pc'[c]
               \/ Receive(c) /\ Skip(c) /\ buf'[c] = Tail(buf[c]) /\ buf[c] # <<>>
               \/ \E kind \in {"allowed", "dismissed", "other"}, h \in Hosts : Publish(kind, h)
    BY <1>1, <1>2, <1>3, <1>4, <1>5, <1>6, <1>8, <2>1 DEF ConnStep
  <2>2. ASSUME NEW u \in Users, Asks(u) \/ HandlerStep(u)
        PROVE  buf' = buf \/ \E kind \in {"allowed", "dismissed", "other"}, h \in Hosts : Publish(kind, h)
    BY <1>7, <1>9, <1>10, <2>2
  <2>3. QED
    BY <1>11, <1>13, <2>1, <2>2 DEF Next
<1>14. QED
  BY <1>12, <1>13

\* What a step may do to the request of handler u: it begins, goes on or is done.
Moved(u) ==
  \/ /\ req[u].pc = "idle" /\ req'[u].pc = "find"
     /\ req'[u].op \in {"allow", "deny"} /\ req'[u].act = req'[u].op
  \/ req[u].pc = "idle" /\ req'[u].op \notin {"allow", "deny"}
  \/ PublishResolution(u)
  \/ req'[u] = NoReq /\ req[u].pc \notin {"clear", "publish"}
  \/ /\ req'[u].op = req[u].op /\ req'[u].act = req[u].act /\ req[u].pc \notin {"clear", "publish"}
     /\ req'[u].pc \in {"find", "insert"} => req[u].pc \in {"find", "insert"}
  \/ req'[u].op = req[u].op /\ req[u].pc = "clear" /\ req'[u].pc = "publish"

\* There is nothing else that a step does to a request.
LEMMA RequestOf ==
  ASSUME TypeOK, [Next]_vars, NEW u \in Users
  PROVE  req'[u] = req[u] \/ Moved(u)
<1>0. req \in [Users -> Request]
  BY DEF TypeOK
<1>1. ASSUME NEW v \in Users, NEW r, req' = [req EXCEPT ![v] = r] PROVE req'[v] = r /\ (u # v => req'[u] = req[u])
  BY <1>0, <1>1
<1>2. ASSUME NEW v \in Users, Asks(v) PROVE req' = req \/ (Moved(v) /\ (u # v => req'[u] = req[u]))
  <2>1. CASE \E op \in {"allow", "deny"}, p \in pending, s \in Scopes, t \in Temps : Resolve(v, op, p, s, t)
    <3>1. PICK op \in {"allow", "deny"}, p \in pending, s \in Scopes, t \in Temps : Resolve(v, op, p, s, t)
      BY <2>1
    <3> DEFINE r == [NoReq EXCEPT !.pc = "find", !.op = op, !.act = op, !.temp = t, !.pend = p,
                                  !.pat = PatternFor[HostOf[p.dest]][s]]
    <3>2. r.pc = "find" /\ r.op = op /\ r.act = op
      BY NoReqType DEF Request
    <3>3. req[v].pc = "idle" /\ req' = [req EXCEPT ![v] = r]
      BY <3>1 DEF Resolve, Arrive
    <3> HIDE DEF r
    <3>4. QED
      BY <1>1, <3>2, <3>3 DEF Moved
  <2>2. CASE \E p \in pending : Dismiss(v, p)
    <3>1. PICK p \in pending : Dismiss(v, p)
      BY <2>2
    <3> DEFINE r == [NoReq EXCEPT !.pc = "publish", !.op = "dismiss", !.pend = p]
    <3>2. r.op = "dismiss"
      BY NoReqType DEF Request
    <3>3. req[v].pc = "idle" /\ req' = [req EXCEPT ![v] = r]
      BY <3>1 DEF Dismiss, Arrive
    <3> HIDE DEF r
    <3>4. QED
      BY <1>1, <3>2, <3>3 DEF Moved
  <2>3. CASE \E pat \in Patterns, act \in Actions : Ingest(v, pat, act)
    <3>1. PICK pat \in Patterns, act \in Actions : Ingest(v, pat, act)
      BY <2>3
    <3> DEFINE r == [NoReq EXCEPT !.pc = "find", !.op = "ingest", !.pat = pat, !.act = act]
    <3>2. r.op = "ingest"
      BY NoReqType DEF Request
    <3>3. req[v].pc = "idle" /\ req' = [req EXCEPT ![v] = r]
      BY <3>1 DEF Ingest, Arrive
    <3> HIDE DEF r
    <3>4. QED
      BY <1>1, <3>2, <3>3 DEF Moved
  <2>4. ASSUME NEW r \in RuleIds, NEW op \in {"update", "delete"}, req[v].pc = "idle",
               req' = [req EXCEPT ![v] = [NoReq EXCEPT !.pc = "cancel", !.op = op, !.rule = r]]
        PROVE  Moved(v) /\ (u # v => req'[u] = req[u])
    <3> DEFINE new == [NoReq EXCEPT !.pc = "cancel", !.op = op, !.rule = r]
    <3>1. new.op = op
      BY NoReqType DEF Request
    <3>2. req' = [req EXCEPT ![v] = new]
      BY <2>4
    <3> HIDE DEF new
    <3>3. QED
      BY <1>1, <2>4, <3>1, <3>2 DEF Moved
  <2>5. CASE \E r \in RuleIds, pat \in Patterns, act \in Actions : \E e : UpdateRule(v, r, pat, act, e)
    BY <2>4, <2>5 DEF UpdateRule, Arrive
  <2>6. CASE \E r \in RuleIds : DeleteRule(v, r)
    BY <2>4, <2>6 DEF DeleteRule, Arrive
  <2>7. CASE \E pat \in Patterns, act \in Actions, t \in Temps : AddRule(v, pat, act, t)
    BY <2>7 DEF AddRule
  <2>8. QED
    BY <1>2, <2>1, <2>2, <2>3, <2>5, <2>6, <2>7 DEF Asks
<1>3. ASSUME NEW v \in Users, HandlerStep(v) PROVE Moved(v) /\ (u # v => req'[u] = req[u])
  <2>0. req[v] \in Request
    BY <1>0
  <2>1. ASSUME NEW to, req' = [req EXCEPT ![v].pc = to]
        PROVE  /\ req'[v].pc = to /\ req'[v].op = req[v].op /\ req'[v].act = req[v].act
               /\ u # v => req'[u] = req[u]
    BY <1>0, <2>0, <2>1 DEF Request
  <2>2. CASE FindExisting(v)
    BY <1>1, <2>1, <2>2 DEF FindExisting, Step, Done, Moved
  <2>3. CASE InsertRule(v)
    <3>1. PICK to \in {"list", "clear"} : req[v].pc = "insert" /\ req' = [req EXCEPT ![v].pc = to]
      BY <2>3 DEF InsertRule, Step
    <3>2. QED
      BY <2>1, <3>1 DEF Moved
  <2>4. CASE ClearPending(v)
    BY <2>1, <2>4 DEF ClearPending, Step, Moved
  <2>5. CASE PublishResolution(v)
    BY <1>1, <2>5 DEF PublishResolution, Done, Moved
  <2>6. CASE ListPending(v)
    <3> DEFINE r == [req[v] EXCEPT !.pc = "clean", !.todo = pending]
    <3>1. r.pc = "clean" /\ r.op = req[v].op /\ r.act = req[v].act
      BY <2>0 DEF Request
    <3>2. req[v].pc = "list" /\ req' = [req EXCEPT ![v] = r]
      BY <2>6 DEF ListPending
    <3> HIDE DEF r
    <3>3. QED
      BY <1>1, <3>1, <3>2 DEF Moved
  <2>7. CASE CleanPending(v)
    <3>1. CASE Done(v, "clean")
      BY <1>1, <3>1 DEF Done, Moved
    <3>2. CASE ~Done(v, "clean")
      <4>1. PICK p \in req[v].todo :
              req' = [req EXCEPT ![v] = [req[v] EXCEPT !.todo = req[v].todo \ {p}, !.pend = p,
                                           !.pc = IF AllowMatches(p.dest) THEN "drop" ELSE "clean"]]
        BY <2>7, <3>2 DEF CleanPending
      <4> DEFINE to == IF AllowMatches(p.dest) THEN "drop" ELSE "clean"
                 r == [req[v] EXCEPT !.todo = req[v].todo \ {p}, !.pend = p, !.pc = to]
      <4>2. to \in {"drop", "clean"} /\ req[v].pc = "clean" /\ req' = [req EXCEPT ![v] = r]
        BY <2>7, <4>1 DEF CleanPending
      <4> HIDE DEF to
      <4>3. r.pc = to /\ r.op = req[v].op /\ r.act = req[v].act
        BY <2>0 DEF Request
      <4> HIDE DEF r
      <4>4. QED
        BY <1>1, <4>2, <4>3 DEF Moved
    <3>3. QED
      BY <3>1, <3>2
  <2>8. CASE DropPending(v)
    BY <2>1, <2>8 DEF DropPending, Step, Moved
  <2>9. CASE CancelByRule(v)
    BY <1>1, <2>9 DEF CancelByRule, Done, Moved
  <2>10. QED
    BY <1>3, <2>2, <2>3, <2>4, <2>5, <2>6, <2>7, <2>8, <2>9 DEF HandlerStep
<1>4. ASSUME NEW d \in Conns, ConnStep(d) \/ Finish(d) PROVE req' = req
  BY <1>4 DEF ConnStep, Check, createPending, AddWaiter, Subscribe, Receive, GiveUp, Release, Register, Finish
<1>5. ASSUME NEW r \in RuleIds, Expire(r) PROVE req' = req
  BY <1>5 DEF Expire
<1>6. CASE UNCHANGED vars
  BY <1>6 DEF vars
<1>7. req'[u] = req[u] \/ Moved(u)
  BY <1>2, <1>3, <1>4, <1>5, <1>6 DEF Next
<1>8. QED
  BY <1>7

\* The invariant holds of every behaviour.
LEMMA DeliveryInvariant == Spec => []DeliveryInv
<1>1. Init => DeliveryInv
  BY NoReqType, ConstantsAssumption DEF Init, DeliveryInv
<1>2. DeliveryInv /\ TypeOK /\ [Next]_vars => DeliveryInv'
  <2> SUFFICES ASSUME DeliveryInv, TypeOK, [Next]_vars PROVE DeliveryInv'
    OBVIOUS
  <2>1. ASSUME NEW c \in Conns PROVE Len(buf'[c]) <= BufSize
    <3>0. Len(buf[c]) <= BufSize /\ buf[c] \in Seq(Event) /\ BufSize \in Nat /\ Len(buf[c]) \in Nat
      BY ConstantsAssumption DEF DeliveryInv, TypeOK
    <3>1. CASE buf'[c] = buf[c] \/ buf'[c] = <<>>
      BY <3>0, <3>1
    <3>2. CASE buf'[c] = Tail(buf[c]) /\ buf[c] # <<>>
      BY <3>0, <3>2, TailEffect
    <3>3. ASSUME NEW kind \in {"allowed", "dismissed", "other"}, NEW h \in Hosts, Publish(kind, h)
          PROVE  Len(buf'[c]) <= BufSize
      <4>1. [kind |-> kind, host |-> h] \in Event
        BY DEF Event
      <4>2. QED
        BY <3>0, <3>3, <4>1, PublishEffect, AppendEffect
    <3>4. QED
      BY <3>1, <3>2, <3>3, BufferOf
  <2>2. ASSUME NEW u \in Users, req'[u].pc \in {"find", "insert"}, req'[u].op \in {"allow", "deny"}
        PROVE  req'[u].act = req'[u].op
    <3>0. req[u].pc \in {"find", "insert"} /\ req[u].op \in {"allow", "deny"} => req[u].act = req[u].op
      BY DEF DeliveryInv
    <3>1. CASE req'[u] = req[u]
      BY <2>2, <3>0, <3>1
    <3>2. CASE Moved(u)
      <4>1. ASSUME PublishResolution(u) PROVE req'[u] = NoReq
        BY <4>1 DEF PublishResolution, Done, TypeOK
      <4>2. req'[u] # NoReq
        BY <2>2, NoReqType
      <4>3. QED
        BY <2>2, <3>0, <3>2, <4>1, <4>2 DEF Moved
    <3>3. QED
      BY <3>1, <3>2, RequestOf
  <2>3. QED
    BY <2>1, <2>2 DEF DeliveryInv
<1>3. QED
  BY <1>1, <1>2, TypeCorrect, PTL DEF Spec

\* A connection waits only if it has subscribed, and for what it asked for.
LEMMA WaitsBySubscribe ==
  ASSUME RuleInv, Next, NEW c \in Conns, pc'[c] = "wait", pc[c] # "subscribe"
  PROVE  pc[c] = "wait" /\ dest'[c] = dest[c]
<1>0. TypeOK /\ pc \in [Conns -> ConnStates]
  BY DEF RuleInv, TypeOK
<1>1. ASSUME NEW d \in Conns, ConnStep(d) \/ Finish(d) PROVE pc[c] = "wait" /\ dest'[c] = dest[c]
  <2>1. ASSUME NEW to, NEW from, Goto(d, from, to), to # "wait" PROVE pc[c] = "wait" /\ c # d
    BY <1>0, <2>1 DEF Goto
  <2>2. CASE \E e \in Dests : Check(d, e)
    BY <1>0, <2>1, <2>2 DEF Check, TypeOK
  <2>3. CASE createPending(d) \/ AddWaiter(d) \/ Release(d) \/ Register(d) \/ Finish(d)
    BY <2>1, <2>3 DEF createPending, AddWaiter, Release, Register, Finish
  <2>4. CASE Subscribe(d)
    BY <1>0, <2>4 DEF Subscribe, Goto
  <2>5. CASE Receive(d) \/ GiveUp(d)
    BY <2>1, <2>5 DEF Receive, GiveUp, Return, Skip
  <2>6. QED
    BY <1>1, <2>2, <2>3, <2>4, <2>5 DEF ConnStep
<1>2. ASSUME NEW u \in Users, Asks(u) PROVE pc[c] = "wait" /\ dest'[c] = dest[c]
  BY <1>2 DEF Asks, Resolve, Dismiss, Ingest, AddRule, UpdateRule, DeleteRule, connVars
<1>3. ASSUME NEW u \in Users, HandlerStep(u) PROVE pc[c] = "wait" /\ dest'[c] = dest[c]
  BY <1>0, <1>3 DEF HandlerStep, FindExisting, InsertRule, ClearPending, PublishResolution, ListPending,
                    CleanPending, DropPending, CancelByRule, connVars
<1>4. ASSUME NEW r \in RuleIds, Expire(r) PROVE pc[c] = "wait" /\ dest'[c] = dest[c]
  BY <1>4 DEF Expire, connVars
<1>5. QED
  BY <1>1, <1>2, <1>3, <1>4 DEF Next

\* The rules change by the insertion of an approval or denial, or unannounced.
LEMMA RulesChange ==
  ASSUME TypeOK, Next, rules' # rules, ~RuleEdited
  PROVE  \E u \in Users : InsertRule(u) /\ req[u].op \in {"allow", "deny"}
<1>1. PICK v \in Users : req'[v] # req[v] /\ req[v].op \in {"allow", "deny"} /\ req[v].pc # "idle"
  BY DEF RuleEdited
<1>2. ASSUME NEW d \in Conns, ConnStep(d) \/ Finish(d) PROVE FALSE
  BY <1>2 DEF ConnStep, Check, createPending, AddWaiter, Subscribe, Receive, GiveUp, Release, Register, Finish,
              ruleVars
<1>3. ASSUME NEW u \in Users, Asks(u) PROVE FALSE
  <2>1. req[u].pc = "idle"
    BY <1>3 DEF Asks, Resolve, Dismiss, Ingest, AddRule, UpdateRule, DeleteRule, Arrive
  <2>2. \A w \in Users : w # u => req'[w] = req[w]
    BY <1>3 DEF Asks, Resolve, Dismiss, Ingest, AddRule, UpdateRule, DeleteRule, TypeOK
  <2>3. QED
    BY <1>1, <2>1, <2>2
<1>4. ASSUME NEW u \in Users, HandlerStep(u) PROVE InsertRule(u) /\ u = v
  <2>1. InsertRule(u)
    BY <1>4 DEF HandlerStep, FindExisting, ClearPending, PublishResolution, ListPending, CleanPending,
                DropPending, CancelByRule, ruleVars
  <2>2. \A w \in Users : w # u => req'[w] = req[w]
    BY <2>1 DEF InsertRule, Step, TypeOK
  <2>3. QED
    BY <1>1, <2>1, <2>2
<1>5. ASSUME NEW r \in RuleIds, Expire(r) PROVE FALSE
  BY <1>1, <1>5 DEF Expire
<1>6. QED
  BY <1>1, <1>2, <1>3, <1>4, <1>5 DEF Next

\* A deny rule that is inserted lets nothing pass that was not let pass before.
LEMMA DenyRuleLetsNothingPass ==
  ASSUME RuleInv, NEW pat, NEW temp, NEW n \in RuleIds, CreateRule(pat, "deny", temp, n), NEW d, AllowMatches(d)'
  PROVE  AllowMatches(d)
<1>0. rules \in [RuleIds -> RuleRow] /\ nextRule \in Nat /\ \A r \in RuleIds : r >= nextRule => rules[r].st = "unused"
  BY DEF RuleInv, TypeOK, IdsInOrder
<1>1. CASE findExistingRule(pat, "deny") # {}
  <2>1. rules' = rules
    BY <1>1 DEF CreateRule, ruleVars
  <2>2. QED
    BY <2>1 DEF AllowMatches, FindMatchingRule, Matching, Outranks
<1>2. CASE findExistingRule(pat, "deny") = {}
  <2>1. n = nextRule /\ rules'[n].act = "deny"
    BY <1>2 DEF CreateRule
  <2>2. rules[n].st = "unused"
    BY <1>0, <2>1
  <2>3. ASSUME NEW s \in RuleIds, s # n
        PROVE  rules'[s] = rules[s] \/ (rules[s].st = "expired" /\ rules'[s].st = "purged")
    <3>1. rules[s] \in RuleRow
      BY <1>0
    <3>2. rules'[s] = rules[s] \/ (rules[s].st = "expired" /\ rules'[s] = [rules[s] EXCEPT !.st = "purged"])
      BY <1>2, <2>1, <2>3 DEF CreateRule
    <3>3. QED
      BY <3>1, <3>2 DEF RuleRow
  <2>4. ASSUME NEW s \in Matching(d) PROVE s \in Matching(d)' /\ rules'[s] = rules[s]
    <3>1. s \in RuleIds /\ rules[s].st = "live" /\ d \in Covers[rules[s].pat]
      BY DEF Matching
    <3>2. rules'[s] = rules[s]
      BY <2>2, <2>3, <3>1
    <3>3. QED
      BY <3>1, <3>2 DEF Matching
  <2>5. PICK r \in RuleIds : /\ r \in Matching(d)' /\ rules'[r].act = "allow"
                             /\ \A s \in Matching(d)' : ~Outranks(s, r)'
    BY DEF AllowMatches, FindMatchingRule, Matching
  <2>6. rules'[r] = rules[r] /\ r \in Matching(d)
    <3>1. r # n /\ rules'[r].st = "live" /\ d \in Covers[rules'[r].pat]
      BY <2>1, <2>5 DEF Matching
    <3>2. QED
      BY <2>3, <3>1 DEF Matching
  <2>7. \A s \in Matching(d) : ~Outranks(s, r)
    BY <2>4, <2>5, <2>6 DEF Outranks
  <2>8. QED
    BY <2>5, <2>6, <2>7 DEF AllowMatches, FindMatchingRule
<1>3. QED
  BY <1>1, <1>2

\* An allow event leaves a buffer only for a look at the rules.
LEMMA AllowedStays ==
  ASSUME RuleInv, DeliveryInv, Next, NEW c \in Conns, pc[c] = "wait", pc'[c] = "wait",
         NEW i \in DOMAIN buf[c], buf[c][i].kind = "allowed"
  PROVE  \/ \E j \in DOMAIN buf'[c] : buf'[c][j].kind = "allowed"
         \/ ~AllowMatches(dest[c]) /\ rules' = rules
<1>0. TypeOK /\ buf[c] \in Seq(Event)
  BY DEF RuleInv, TypeOK
<1>1. CASE buf'[c] = buf[c]
  BY <1>1
<1>2. CASE Receive(c) /\ Skip(c) /\ buf'[c] = Tail(buf[c]) /\ buf[c] # <<>>
  <2>1. CASE i = 1 /\ buf[c][i] = Head(buf[c])
    <3>1. Head(buf[c]).kind = "allowed"
      BY <2>1
    <3>2. ~(\E r : Return(c, r))
      BY <1>0 DEF Return, Goto, TypeOK
    <3>3. ~AllowMatches(dest[c]) /\ rules' = rules
      BY <1>2, <3>1, <3>2 DEF Receive, ruleVars
    <3>4. QED
      BY <3>3
  <2>2. CASE i - 1 \in DOMAIN Tail(buf[c]) /\ Tail(buf[c])[i - 1] = buf[c][i]
    BY <1>2, <2>2
  <2>3. QED
    BY <1>0, <1>2, <2>1, <2>2, TailEffect
<1>3. ASSUME NEW kind \in {"allowed", "dismissed", "other"}, NEW h \in Hosts, Publish(kind, h)
      PROVE  \E j \in DOMAIN buf'[c] : buf'[c][j].kind = "allowed"
  <2>1. [kind |-> kind, host |-> h] \in Event
    BY DEF Event
  <2>2. QED
    BY <1>0, <1>3, <2>1, PublishEffect, AppendEffect
<1>4. QED
  BY <1>0, <1>1, <1>2, <1>3, BufferOf

\* An approval that is announced reaches a connection whose buffer has room.
LEMMA AnnouncementArrives ==
  ASSUME RuleInv, DeliveryInv, NEW u \in Users, PublishResolution(u), req[u].op = "allow",
         NEW c \in Conns, pc[c] = "wait", Len(buf[c]) # BufSize
  PROVE  \E j \in DOMAIN buf'[c] : buf'[c][j].kind = "allowed"
<1>0. TypeOK /\ buf[c] \in Seq(Event) /\ req[u] \in Request /\ Len(buf[c]) < BufSize
  BY ConstantsAssumption DEF RuleInv, TypeOK, DeliveryInv
<1>1. HostOf[req[u].pend.dest] \in Hosts
  BY <1>0, ConstantsAssumption DEF Request, PendingRow
<1> DEFINE e == [kind |-> "allowed", host |-> HostOf[req[u].pend.dest]]
<1>2. e \in Event /\ e.kind = "allowed"
  BY <1>1 DEF Event
<1>3. Publish("allowed", HostOf[req[u].pend.dest])
  BY DEF PublishResolution
<1>4. buf'[c] = Append(buf[c], e)
  BY <1>0, <1>3, PublishEffect
<1> HIDE DEF e
<1>5. Len(buf[c]) + 1 \in DOMAIN Append(buf[c], e) /\ Append(buf[c], e)[Len(buf[c]) + 1] = e
  BY <1>0, <1>2, AppendEffect
<1>6. QED
  BY <1>2, <1>4, <1>5

(* An approval passes a held connection by in three cases only: it came    *)
(* before the connection subscribed, the connection's buffer was full, or  *)
(* the rule was made by a request that publishes no event; whatever the    *)
(* number of connections, approvals, denials and edits under way.          *)
THEOREM ApprovalsDelivered == Spec => ApprovalDelivered
<1>1. RuleInv /\ DeliveryInv /\ [Next]_vars
        => [\A c \in Conns : Owed(c)' /\ ~Owed(c) =>
              \/ pc[c] = "subscribe"
              \/ pc[c] = "wait" /\ Len(buf[c]) = BufSize
              \/ RuleEdited]_vars
  <2> SUFFICES ASSUME RuleInv, DeliveryInv, Next, NEW c \in Conns, Owed(c)', ~Owed(c),
                      pc[c] # "subscribe", ~(pc[c] = "wait" /\ Len(buf[c]) = BufSize), ~RuleEdited
               PROVE  FALSE
    OBVIOUS
  <2>0. TypeOK
    BY DEF RuleInv
  <2>1. pc[c] = "wait" /\ pc'[c] = "wait" /\ dest'[c] = dest[c] /\ Len(buf[c]) # BufSize
    BY WaitsBySubscribe DEF Owed
  <2>2. /\ \A i \in DOMAIN buf'[c] : buf'[c][i].kind # "allowed"
        /\ \A u \in Users : ~(req'[u].op = "allow" /\ req'[u].pc \in {"clear", "publish"})
    BY DEF Owed
  <2>3. AllowMatches(dest[c])'
    BY <2>1 DEF Owed, AllowMatches, FindMatchingRule, Matching, Outranks
  <2>4. ASSUME NEW u \in Users, req[u].op = "allow", req[u].pc \in {"clear", "publish"} PROVE FALSE
    <3>1. ~PublishResolution(u)
      BY <2>1, <2>2, <2>4, AnnouncementArrives
    <3>2. QED
      BY <2>0, <2>2, <2>4, <3>1, RequestOf DEF Moved
  <2>5. AllowMatches(dest[c])
    <3>1. PICK d : d = dest[c]
      OBVIOUS
    <3>2. AllowMatches(d)'
      BY <2>1, <2>3, <3>1 DEF AllowMatches, FindMatchingRule, Matching, Outranks
    <3>3. CASE rules' = rules
      <4>1. AllowMatches(d)
        BY <3>2, <3>3 DEF AllowMatches, FindMatchingRule, Matching, Outranks
      <4>2. QED
        BY <3>1, <4>1
    <3>4. CASE rules' # rules
      <4>1. PICK u \in Users : InsertRule(u) /\ req[u].op \in {"allow", "deny"}
        BY <2>0, <3>4, RulesChange
      <4>2. req[u].pc = "insert" /\ req' = [req EXCEPT ![u].pc = "clear"] /\ req[u] \in Request
        BY <2>0, <4>1 DEF InsertRule, Step, TypeOK
      <4>3. req'[u].pc = "clear" /\ req'[u].op = req[u].op
        BY <2>0, <4>2 DEF TypeOK, Request
      <4>4. req[u].op = "deny"
        BY <2>2, <4>1, <4>3
      <4>5. req[u].act = "deny"
        BY <4>2, <4>4 DEF DeliveryInv
      <4>6. \E n \in RuleIds : CreateRule(req[u].pat, "deny", req[u].temp, n)
        BY <4>1, <4>5 DEF InsertRule
      <4>7. AllowMatches(d)
        BY <3>2, <4>6, DenyRuleLetsNothingPass
      <4>8. QED
        BY <3>1, <4>7
    <3>5. QED
      BY <3>3, <3>4
  <2>6. PICK i \in DOMAIN buf[c] : buf[c][i].kind = "allowed"
    BY <2>1, <2>4, <2>5 DEF Owed
  <2>7. QED
    BY <2>1, <2>2, <2>5, <2>6, AllowedStays
<1>2. QED
  BY <1>1, RuleInvariant, DeliveryInvariant, PTL DEF Spec, ApprovalDelivered
------------------------------------------------------------------------------
(* The refinement of AccessControl, step by step.                          *)

\* What a connection and a rule row are seen as.
LEMMA StageFacts ==
  /\ \A a : StageAt("new", a) = "outside" /\ StageAt("admit", a) = "granted"
            /\ StageAt("open", a) = "open" /\ StageAt("cancelled", a) = "cut" /\ StageAt("closed", a) = "ended"
  /\ \A a : \A p \in {"create", "count", "subscribe", "wait"} : StageAt(p, a) = "held"
  /\ \A a : a # NoRule => StageAt("release", a) = "granted"
  /\ StageAt("release", NoRule) = "ended"
BY DEF StageAt

LEMMA LawFacts ==
  ASSUME NEW row \in RuleRow
  PROVE  /\ LawOf(row).pat = row.pat /\ LawOf(row).act = row.act
         /\ LawOf(row).is = "inForce" <=> row.st = "live"
         /\ LawOf(row).is = "unmade" <=> row.st = "unused"
         /\ LawOf(row).is = "repealed" <=> row.st = "deleted"
         /\ LawOf(row).is = "lapsed" <=> row.st \in {"expired", "purged"}
         /\ LawOf(row) \in Access!Rule
<1>1. row.st \in {"unused", "live", "expired", "deleted", "purged"}
      /\ row.pat \in Patterns /\ row.act \in {"allow", "deny"}
  BY DEF RuleRow, Actions
<1>2. LawOf(row).pat = row.pat /\ LawOf(row).act = row.act /\ LawOf(row).is = Standing(row.st)
  BY DEF LawOf
<1>3. /\ row.st = "unused" => LawOf(row).is = "unmade"
      /\ row.st = "live" => LawOf(row).is = "inForce"
      /\ row.st \in {"expired", "purged"} => LawOf(row).is = "lapsed"
      /\ row.st = "deleted" => LawOf(row).is = "repealed"
  BY <1>2 DEF Standing
<1>4. LawOf(row) = [is |-> LawOf(row).is, pat |-> row.pat, act |-> row.act]
  BY <1>2 DEF LawOf
<1>5. LawOf(row).is \in {"unmade", "inForce", "lapsed", "repealed"}
  BY <1>1, <1>3
<1>6. LawOf(row) \in Access!Rule
  BY <1>1, <1>4, <1>5 DEF Access!Rule
<1>7. QED
  BY <1>1, <1>2, <1>3, <1>6

LEMMA AppliesFacts ==
  ASSUME TypeOK, NEW r \in RuleIds
  PROVE  /\ \A d : Access!Applies(r, d) <=> r \in Matching(d)
         /\ TheLaw[r].act = rules[r].act /\ Access!Weight(r) = Specificity[rules[r].pat]
<1>1. rules[r] \in RuleRow /\ TheLaw[r] = LawOf(rules[r])
  BY DEF TypeOK, TheLaw
<1>2. QED
  BY <1>1, LawFacts DEF Access!Applies, Access!Weight, Matching

\* A rule that FindMatchingRule returns entitles, or keeps out.
LEMMA WinnerEntitles ==
  ASSUME TypeOK, NEW d \in Dests, NEW r \in FindMatchingRule(d), rules[r].act = "allow"
  PROVE  Access!Entitles(r, d)
<1>1. r \in RuleIds /\ r \in Matching(d)
  BY DEF FindMatchingRule, Matching
<1>2. \A s \in Matching(d) : rules[s].act = "deny" => Specificity[rules[s].pat] < Specificity[rules[r].pat]
  BY WinnerBeatsDenies
<1>3. QED
  BY <1>1, <1>2, AppliesFacts DEF Access!Entitles

LEMMA DenyRefuses ==
  ASSUME TypeOK, NEW d \in Dests, DenyMatches(d)
  PROVE  Access!Refused(d)
<1>1. PICK s \in FindMatchingRule(d) : rules[s].act = "deny"
  BY DEF DenyMatches
<1>2. s \in RuleIds /\ s \in Matching(d)
  BY DEF FindMatchingRule, Matching
<1>3. \A r \in RuleIds : Specificity[rules[r].pat] \in Nat
  BY ConstantsAssumption DEF TypeOK, RuleRow
<1>4. \A r \in Matching(d) : r \in RuleIds /\ Specificity[rules[r].pat] <= Specificity[rules[s].pat]
  BY <1>2, <1>3 DEF FindMatchingRule, Outranks, Matching
<1>5. QED
  BY <1>1, <1>2, <1>4, AppliesFacts DEF Access!Refused

\* One connection moves, and the others stay.
LEMMA Moves ==
  ASSUME NEW c \in Conns, NEW to, StageAt(pc'[c], auth'[c]) = to,
         \A e \in Conns : e # c => pc'[e] = pc[e] /\ auth'[e] = auth[e]
  PROVE  Access!Becomes(c, to)
<1>1. Stages' = [e \in Conns |-> StageAt(pc'[e], auth'[e])]
  BY DEF Stages
<1>2. QED
  BY <1>1 DEF Stages, Access!Becomes

LEMMA NobodyMoves ==
  ASSUME \A e \in Conns : StageAt(pc'[e], auth'[e]) = StageAt(pc[e], auth[e])
  PROVE  Stages' = Stages
BY DEF Stages

LEMMA NothingOwed ==
  ASSUME NEW u \in Users, req[u].pc # "cancel", req'[u].pc # "cancel",
         \A v \in Users : v # u => req'[v] = req[v]
  PROVE  CutsOwed' = CutsOwed
BY DEF CutsOwed

LEMMA SameLaw == ASSUME rules' = rules PROVE TheLaw' = TheLaw
BY DEF TheLaw

LEMMA SameCuts == ASSUME req' = req PROVE CutsOwed' = CutsOwed
BY DEF CutsOwed

\* A change of the table is one of the law.
LEMMA LawChanges ==
  ASSUME TypeOK, TypeOK', UNCHANGED connVars, CutsOwed \subseteq CutsOwed',
         \A r \in CutsOwed' : r \in CutsOwed \/ Revoked(r)',
         \A r \in RuleIds : \/ rules'[r] = rules[r] \/ rules[r].st = "unused"
                            \/ rules[r].st # "deleted" /\ r \in CutsOwed'
                            \/ /\ rules[r].st \in {"live", "expired"} /\ rules'[r].st \in {"live", "expired", "purged"}
                               /\ rules'[r].act \in {rules[r].act, "allow"}
  PROVE  Access!Legislate
<1>1. \A r \in RuleIds : /\ rules[r] \in RuleRow /\ rules'[r] \in RuleRow
                         /\ TheLaw[r] = LawOf(rules[r]) /\ TheLaw'[r] = LawOf(rules'[r])
  BY DEF TypeOK, TheLaw
<1>2. TheLaw' \in [RuleIds -> Access!Rule]
  <2>1. TheLaw' = [r \in RuleIds |-> LawOf(rules'[r])]
    BY DEF TheLaw
  <2> QED BY <1>1, <2>1, LawFacts
<1>3. \A r \in RuleIds : TheLaw[r].is = "repealed" => TheLaw'[r] = TheLaw[r]
  <2> TAKE r \in RuleIds
  <2> HAVE TheLaw[r].is = "repealed"
  <2>1. rules[r].st = "deleted"
    BY <1>1, LawFacts
  <2> QED BY <1>1, <2>1
<1>4. \A r \in RuleIds : Access!TakenBack(r) <=>
         rules[r].st = "deleted" \/ (rules[r].act = "deny" /\ rules[r].st \in {"live", "expired", "purged"})
  BY <1>1, LawFacts DEF Access!TakenBack
<1>5. \A r \in RuleIds : Access!TakenBack(r)' <=>
         rules'[r].st = "deleted" \/ (rules'[r].act = "deny" /\ rules'[r].st \in {"live", "expired", "purged"})
  BY <1>1, LawFacts DEF Access!TakenBack
<1>6. \A r \in RuleIds : Access!TakenBack(r)' /\ ~Access!TakenBack(r) => TheLaw[r].is = "unmade" \/ r \in CutsOwed'
  <2> TAKE r \in RuleIds
  <2>1. rules[r].st = "unused" => TheLaw[r].is = "unmade"
    BY <1>1, LawFacts
  <2> QED BY <1>4, <1>5, <2>1
<1>7. CutsOwed' \subseteq {r \in RuleIds : r \in CutsOwed \/ Access!TakenBack(r)'}
  <2>1. CutsOwed' \subseteq RuleIds
    BY DEF CutsOwed
  <2>2. \A r \in RuleIds : Revoked(r)' => Access!TakenBack(r)'
    BY <1>5 DEF Revoked, InTable
  <2> QED BY <2>1, <2>2
<1>8. UNCHANGED Access!theirs
  BY DEF connVars, Access!theirs, Stages
<1>9. QED
  BY <1>2, <1>3, <1>6, <1>7, <1>8 DEF Access!Legislate

LEMMA CreateLegislates ==
  ASSUME RuleInv, RuleInv', UNCHANGED connVars, CutsOwed' = CutsOwed,
         NEW pat, NEW act, NEW temp, NEW r \in RuleIds, CreateRule(pat, act, temp, r)
  PROVE  Access!Legislate
<1>1. TypeOK /\ TypeOK' /\ \A s \in RuleIds : s >= nextRule => rules[s].st = "unused"
  BY DEF RuleInv, IdsInOrder
<1>2. ASSUME NEW s \in RuleIds
      PROVE  \/ rules'[s] = rules[s] \/ rules[s].st = "unused"
             \/ rules[s].st = "expired" /\ rules'[s].st = "purged" /\ rules'[s].act = rules[s].act
  <2>1. CASE rules' = rules
    BY <2>1
  <2>2. CASE rules' # rules
    <3>1. rules' = [q \in RuleIds |->
            IF q = nextRule
            THEN [st |-> "live", pat |-> pat, act |-> act, temp |-> temp]
            ELSE IF rules[q].st = "expired" /\ HasKey(q, pat, act)
                 THEN [rules[q] EXCEPT !.st = "purged"]
                 ELSE rules[q]]
      BY <2>2 DEF CreateRule, ruleVars
    <3>2. rules[s] \in RuleRow /\ nextRule \in Nat
      BY <1>1, ConstantsAssumption DEF TypeOK
    <3>3. CASE s = nextRule
      BY <1>1, <3>2, <3>3
    <3>4. CASE s # nextRule
      BY <3>1, <3>2, <3>4 DEF RuleRow
    <3> QED BY <3>3, <3>4
  <2> QED BY <2>1, <2>2
<1>3. QED
  BY <1>1, <1>2, LawChanges

LEMMA UpdateLegislates ==
  ASSUME RuleInv, RuleInv', NEW u \in Users, NEW r \in RuleIds, NEW pat, NEW act \in Actions, NEW e,
         UpdateRule(u, r, pat, act, e)
  PROVE  Access!Legislate
<1>1. TypeOK /\ TypeOK' /\ rules[r] \in RuleRow /\ req \in [Users -> Request]
  BY DEF RuleInv, TypeOK
<1>2. UNCHANGED connVars /\ InTable(r) /\ req[u].pc = "idle"
  BY DEF UpdateRule, Arrive
<1>3. /\ \A s \in RuleIds : s # r => rules'[s] = rules[s]
      /\ rules'[r].act = act /\ rules'[r].st \in {"live", "expired"}
  BY <1>1, <1>2 DEF UpdateRule, InTable, TypeOK
<1>4. CASE act = "deny"
  <2>1. req' = [req EXCEPT ![u] = [NoReq EXCEPT !.pc = "cancel", !.op = "update", !.rule = r]]
    BY <1>4 DEF UpdateRule
  <2>2. req'[u].pc = "cancel" /\ req'[u].rule = r /\ \A v \in Users : v # u => req'[v] = req[v]
    BY <1>1, <2>1, NoReqType DEF Request
  <2>3. CutsOwed' = CutsOwed \cup {r}
    BY <1>2, <2>2 DEF CutsOwed
  <2>4. Revoked(r)'
    BY <1>3, <1>4 DEF Revoked, InTable
  <2> QED BY <1>1, <1>2, <1>3, <2>3, <2>4, LawChanges DEF InTable
<1>5. CASE act = "allow"
  <2>1. CutsOwed' = CutsOwed
    BY <1>5, SameCuts DEF UpdateRule
  <2> QED BY <1>1, <1>2, <1>3, <1>5, <2>1, LawChanges DEF InTable
<1>6. QED
  BY <1>4, <1>5 DEF Actions

LEMMA DeleteLegislates ==
  ASSUME RuleInv, RuleInv', NEW u \in Users, NEW r \in RuleIds, DeleteRule(u, r)
  PROVE  Access!Legislate
<1>1. TypeOK /\ TypeOK' /\ rules[r] \in RuleRow /\ req \in [Users -> Request]
  BY DEF RuleInv, TypeOK
<1>2. UNCHANGED connVars /\ InTable(r) /\ req[u].pc = "idle"
  BY DEF DeleteRule, Arrive
<1>3. rules'[r].st = "deleted" /\ \A s \in RuleIds : s # r => rules'[s] = rules[s]
  BY <1>1 DEF DeleteRule, TypeOK, RuleRow
<1>4. req' = [req EXCEPT ![u] = [NoReq EXCEPT !.pc = "cancel", !.op = "delete", !.rule = r]]
  BY DEF DeleteRule
<1>5. req'[u].pc = "cancel" /\ req'[u].rule = r /\ \A v \in Users : v # u => req'[v] = req[v]
  BY <1>1, <1>4, NoReqType DEF Request
<1>6. CutsOwed' = CutsOwed \cup {r}
  BY <1>2, <1>5 DEF CutsOwed
<1>7. Revoked(r)'
  BY <1>3 DEF Revoked
<1>8. QED
  BY <1>1, <1>2, <1>3, <1>6, <1>7, LawChanges DEF InTable

LEMMA ExpiryLegislates ==
  ASSUME RuleInv, RuleInv', NEW r \in RuleIds, Expire(r)
  PROVE  Access!Legislate
<1>1. TypeOK /\ TypeOK' /\ rules[r] \in RuleRow /\ UNCHANGED connVars
  BY DEF RuleInv, TypeOK, Expire
<1>2. /\ rules[r].st = "live" /\ rules'[r].st = "expired" /\ rules'[r].act = rules[r].act
      /\ \A s \in RuleIds : s # r => rules'[s] = rules[s]
  BY <1>1 DEF Expire, TypeOK, RuleRow
<1>3. CutsOwed' = CutsOwed
  BY SameCuts DEF Expire
<1>4. QED
  BY <1>1, <1>2, <1>3, LawChanges

\* CancelByRule cuts what is tracked, which is what is open under the rule.
LEMMA CancelCuts ==
  ASSUME RuleInv, NEW u \in Users, CancelByRule(u)
  PROVE  \E r \in RuleIds : Access!Cut(r)
<1> DEFINE r == req[u].rule
<1>1. TypeOK /\ TrackerExact /\ req \in [Users -> Request] /\ req[u].pc = "cancel" /\ r \in RuleIds
  BY DEF RuleInv, TypeOK, CancelByRule, Done, CancelNamesRule
<1>2. /\ rules' = rules /\ dest' = dest /\ auth' = auth
      /\ pc' = [c \in Conns |-> IF c \in tracked[r] THEN "cancelled" ELSE pc[c]]
      /\ req' = [req EXCEPT ![u] = NoReq]
  BY DEF CancelByRule, Done, ruleVars
<1>3. req'[u].pc = "idle" /\ \A v \in Users : v # u => req'[v] = req[v]
  BY <1>1, <1>2, NoReqType
<1> HIDE DEF r
<1>4. r \in CutsOwed
  BY <1>1 DEF CutsOwed, r
<1>5. CutsOwed' \in {CutsOwed, CutsOwed \ {r}}
  <2>1. CutsOwed' \subseteq CutsOwed
    BY <1>3 DEF CutsOwed
  <2>2. \A s \in CutsOwed : s # r => s \in CutsOwed'
    BY <1>3 DEF CutsOwed, r
  <2> QED BY <2>1, <2>2
<1>6. Stages' = [c \in Conns |-> IF Stages[c] = "open" /\ auth[c] = r THEN "cut" ELSE Stages[c]]
  <2>1. \A c \in Conns : Stages[c] = StageAt(pc[c], auth[c]) /\ (Stages[c] = "open" <=> pc[c] = "open")
    <3> TAKE c \in Conns
    <3>1. pc[c] \in ConnStates
      BY <1>1 DEF TypeOK
    <3> QED BY <3>1, StageFacts DEF Stages, ConnStates
  <2>2. \A c \in Conns : c \in tracked[r] <=> Stages[c] = "open" /\ auth[c] = r
    BY <1>1, <2>1 DEF TrackerExact
  <2>3. Stages' = [c \in Conns |-> StageAt(pc'[c], auth'[c])]
    BY DEF Stages
  <2>4. \A c \in Conns : StageAt(pc'[c], auth'[c]) = IF c \in tracked[r] THEN "cut" ELSE Stages[c]
    BY <1>2, <2>1, StageFacts
  <2> QED BY <2>2, <2>3, <2>4
<1>7. Access!Cut(r)
  BY <1>2, <1>4, <1>5, <1>6, SameLaw DEF Access!Cut
<1>8. QED
  BY <1>1, <1>7

\* The first look at the rules.
LEMMA CheckDecides ==
  ASSUME RuleInv, NEW c \in Conns, NEW d \in Dests, Check(c, d)
  PROVE  Access!AccessNext
<1>1. /\ TypeOK /\ pc[c] = "new" /\ auth[c] = NoRule /\ dest' = [dest EXCEPT ![c] = d]
      /\ rules' = rules /\ req' = req
  BY DEF RuleInv, Check, Goto, AuthWhenAdmitted, Unadmitted, ruleVars
<1>2. pc \in [Conns -> ConnStates] /\ auth \in [Conns -> RuleIds \cup {NoRule}]
  BY <1>1 DEF TypeOK
<1>3. TheLaw' = TheLaw /\ CutsOwed' = CutsOwed /\ Access!Asking(c, d) /\ Stages[c] = "outside"
  BY <1>1, SameLaw, SameCuts, StageFacts DEF Access!Asking, Stages
<1>4. ASSUME NEW r \in FindMatchingRule(d), rules[r].act = "allow", Goto(c, "new", "admit"),
             auth' = [auth EXCEPT ![c] = r]
      PROVE  Access!AccessNext
  <2>1. r \in RuleIds /\ Access!Entitles(r, d)
    BY <1>1, <1>4, WinnerEntitles DEF FindMatchingRule, Matching
  <2>2. Access!Becomes(c, "granted")
    <3>1. pc'[c] = "admit" /\ \A e \in Conns : e # c => pc'[e] = pc[e] /\ auth'[e] = auth[e]
      BY <1>2, <1>4 DEF Goto
    <3> QED BY <3>1, StageFacts, Moves
  <2>3. Access!Grant(c, d, r)
    BY <1>3, <1>4, <2>1, <2>2 DEF Access!Grant
  <2> QED BY <2>1, <2>3 DEF Access!AccessNext
<1>5. ASSUME DenyMatches(d), Goto(c, "new", "closed"), UNCHANGED auth PROVE Access!AccessNext
  <2>1. Access!Becomes(c, "ended")
    <3>1. pc'[c] = "closed" /\ \A e \in Conns : e # c => pc'[e] = pc[e] /\ auth'[e] = auth[e]
      BY <1>2, <1>5 DEF Goto
    <3> QED BY <3>1, StageFacts, Moves
  <2>2. Access!Refuse(c, d)
    BY <1>1, <1>3, <1>5, <2>1, DenyRefuses DEF Access!Refuse
  <2> QED BY <2>2 DEF Access!AccessNext
<1>6. ASSUME Matching(d) = {}, Goto(c, "new", "create"), UNCHANGED auth PROVE Access!AccessNext
  <2>1. Access!Becomes(c, "held")
    <3>1. pc'[c] = "create" /\ \A e \in Conns : e # c => pc'[e] = pc[e] /\ auth'[e] = auth[e]
      BY <1>2, <1>6 DEF Goto
    <3> QED BY <3>1, StageFacts, Moves
  <2>2. \A r \in RuleIds : ~Access!Applies(r, d)
    BY <1>1, <1>6, AppliesFacts
  <2>3. Access!Hold(c, d)
    BY <1>3, <1>6, <2>1, <2>2 DEF Access!Hold
  <2> QED BY <2>3 DEF Access!AccessNext
<1>7. QED
  BY <1>4, <1>5, <1>6 DEF Check

\* A hold ends with a rule or without.
LEMMA ReturnDecides ==
  ASSUME RuleInv, NEW c \in Conns, UNCHANGED <<rules, dest, req>>, NEW r, Return(c, r),
         r = NoRule \/ (r \in FindMatchingRule(dest[c]) /\ rules[r].act = "allow")
  PROVE  Access!AccessNext
<1>1. /\ TypeOK /\ pc[c] = "wait" /\ dest[c] \in Dests /\ dest \in [Conns -> Dests]
      /\ pc \in [Conns -> ConnStates] /\ auth \in [Conns -> RuleIds \cup {NoRule}]
  BY DEF RuleInv, TypeOK, Return, Goto
<1>2. auth[c] = NoRule /\ auth' = [auth EXCEPT ![c] = r]
  BY <1>1 DEF RuleInv, AuthWhenAdmitted, Unadmitted, Return
<1>3. pc'[c] = "release" /\ auth'[c] = r /\ \A e \in Conns : e # c => pc'[e] = pc[e] /\ auth'[e] = auth[e]
  BY <1>1, <1>2 DEF Return, Goto
<1>4. TheLaw' = TheLaw /\ CutsOwed' = CutsOwed /\ Stages[c] = "held"
  BY <1>1, SameLaw, SameCuts, StageFacts DEF Stages
<1>5. CASE r = NoRule
  <2>1. Access!Becomes(c, "ended")
    BY <1>3, <1>5, StageFacts, Moves
  <2>2. auth' = auth
    BY <1>1, <1>2, <1>5
  <2>3. Access!TurnAway(c)
    BY <1>4, <2>1, <2>2 DEF Access!TurnAway
  <2> QED BY <2>3 DEF Access!AccessNext
<1>6. CASE r # NoRule
  <2>1. r \in RuleIds /\ Access!Entitles(r, dest[c])
    BY <1>1, <1>6, WinnerEntitles DEF FindMatchingRule, Matching
  <2>2. Access!Becomes(c, "granted")
    BY <1>3, <1>6, StageFacts, Moves
  <2>3. Access!Asking(c, dest[c])
    BY <1>1, <1>4 DEF Access!Asking
  <2>4. Access!Grant(c, dest[c], r)
    BY <1>2, <1>4, <2>1, <2>2, <2>3 DEF Access!Grant
  <2> QED BY <1>1, <2>1, <2>4 DEF Access!AccessNext
<1>7. QED
  BY <1>5, <1>6

LEMMA ConnImplements ==
  ASSUME RuleInv, NEW c \in Conns, ConnStep(c) \/ Finish(c)
  PROVE  Access!AccessNext \/ UNCHANGED Access!accessVars
<1>1. /\ TypeOK /\ pc \in [Conns -> ConnStates] /\ pc[c] \in ConnStates
      /\ Stages[c] = StageAt(pc[c], auth[c])
  BY DEF RuleInv, TypeOK, Stages
<1>2. ASSUME NEW d \in Dests, Check(c, d) PROVE Access!AccessNext
  BY <1>2, CheckDecides
<1>3. ASSUME \/ createPending(c) \/ AddWaiter(c) \/ Subscribe(c) PROVE UNCHANGED Access!accessVars
  <2>1. /\ UNCHANGED <<rules, dest, auth, req>> /\ \A e \in Conns : e # c => pc'[e] = pc[e]
        /\ pc[c] \in {"create", "count", "subscribe"} /\ pc'[c] \in {"count", "subscribe", "wait"}
    BY <1>1, <1>3 DEF createPending, AddWaiter, Subscribe, Goto, ruleVars
  <2>2. Stages' = Stages
    <3>1. \A e \in Conns : StageAt(pc'[e], auth'[e]) = StageAt(pc[e], auth[e])
      BY <2>1, StageFacts
    <3> QED BY <3>1, NobodyMoves
  <2> QED BY <2>1, <2>2, SameLaw, SameCuts DEF Access!accessVars, Access!theirs
<1>4. CASE Release(c)
  <2>1. /\ UNCHANGED <<rules, dest, auth, req>> /\ \A e \in Conns : e # c => pc'[e] = pc[e]
        /\ pc[c] = "release" /\ pc'[c] = IF auth[c] = NoRule THEN "closed" ELSE "admit"
    BY <1>1, <1>4 DEF Release, Goto, ruleVars
  <2>2. Stages' = Stages
    <3>1. \A e \in Conns : StageAt(pc'[e], auth'[e]) = StageAt(pc[e], auth[e])
      BY <2>1, StageFacts
    <3> QED BY <3>1, NobodyMoves
  <2> QED BY <2>1, <2>2, SameLaw, SameCuts DEF Access!accessVars, Access!theirs
<1>5. CASE Receive(c)
  <2>1. UNCHANGED <<rules, dest, req>>
    BY <1>5 DEF Receive, ruleVars
  <2>2. CASE Skip(c)
    BY <2>1, <2>2, NobodyMoves, SameLaw, SameCuts DEF Skip, Access!accessVars, Access!theirs
  <2>3. ASSUME NEW r, Return(c, r), r = NoRule \/ (r \in FindMatchingRule(dest[c]) /\ rules[r].act = "allow")
        PROVE  Access!AccessNext
    BY <2>1, <2>3, ReturnDecides
  <2> QED BY <1>5, <2>2, <2>3 DEF Receive
<1>6. CASE GiveUp(c)
  <2>1. UNCHANGED <<rules, dest, req>> /\ Return(c, NoRule)
    BY <1>6 DEF GiveUp, ruleVars
  <2> QED BY <2>1, ReturnDecides
<1>7. CASE Register(c)
  <2>1. /\ UNCHANGED <<rules, dest, auth, req>> /\ \A e \in Conns : e # c => pc'[e] = pc[e]
        /\ pc[c] = "admit" /\ pc'[c] = "open"
    BY <1>1, <1>7 DEF Register, Goto, ruleVars
  <2>2. Stages[c] = "granted" /\ Access!Becomes(c, "open")
    BY <1>1, <2>1, StageFacts, Moves
  <2>3. Access!Open(c)
    BY <2>1, <2>2, SameLaw, SameCuts DEF Access!Open
  <2> QED BY <2>3 DEF Access!AccessNext
<1>8. CASE Finish(c)
  <2>1. /\ UNCHANGED <<rules, dest, auth, req>> /\ \A e \in Conns : e # c => pc'[e] = pc[e]
        /\ pc[c] \in {"open", "cancelled"} /\ pc'[c] = "closed"
    BY <1>1, <1>8 DEF Finish, Goto, ruleVars
  <2>2. Stages[c] \in {"open", "cut"} /\ Access!Becomes(c, "ended")
    BY <1>1, <2>1, StageFacts, Moves
  <2>3. Access!End(c)
    BY <2>1, <2>2, SameLaw, SameCuts DEF Access!End
  <2> QED BY <2>3 DEF Access!AccessNext
<1>9. QED
  BY <1>2, <1>3, <1>4, <1>5, <1>6, <1>7, <1>8 DEF ConnStep

\* A request that leaves the rules alone.
LEMMA Aside ==
  ASSUME NEW u \in Users, UNCHANGED <<rules, pc, dest, auth>>, req[u].pc # "cancel",
         req'[u].pc # "cancel", \A v \in Users : v # u => req'[v] = req[v]
  PROVE  UNCHANGED Access!accessVars
BY NothingOwed, SameLaw, NobodyMoves DEF Access!accessVars, Access!theirs

LEMMA AskImplements ==
  ASSUME RuleInv, RuleInv', NEW u \in Users, Asks(u)
  PROVE  Access!AccessNext \/ UNCHANGED Access!accessVars
<1>1. req \in [Users -> Request]
  BY DEF RuleInv, TypeOK
<1>2. ASSUME \/ \E op, p, s, t : Resolve(u, op, p, s, t)
             \/ \E p : Dismiss(u, p)
             \/ \E pat, act : Ingest(u, pat, act)
      PROVE  UNCHANGED Access!accessVars
  <2>1. UNCHANGED <<rules, pc, dest, auth>> /\ req[u].pc = "idle"
    BY <1>2 DEF Resolve, Dismiss, Ingest, Arrive, ruleVars, connVars
  <2>2. req'[u].pc \in {"find", "publish"} /\ \A v \in Users : v # u => req'[v] = req[v]
    <3>1. ASSUME NEW op, NEW p, NEW s, NEW t, Resolve(u, op, p, s, t)
          PROVE  req'[u].pc = "find" /\ \A v \in Users : v # u => req'[v] = req[v]
      BY <1>1, <3>1, NoReqType DEF Resolve, Request
    <3>2. ASSUME NEW p, Dismiss(u, p)
          PROVE  req'[u].pc = "publish" /\ \A v \in Users : v # u => req'[v] = req[v]
      BY <1>1, <3>2, NoReqType DEF Dismiss, Request
    <3>3. ASSUME NEW pat, NEW act, Ingest(u, pat, act)
          PROVE  req'[u].pc = "find" /\ \A v \in Users : v # u => req'[v] = req[v]
      BY <1>1, <3>3, NoReqType DEF Ingest, Request
    <3> QED BY <1>2, <3>1, <3>2, <3>3
  <2> QED BY <2>1, <2>2, Aside
<1>3. ASSUME NEW pat, NEW act, NEW t, AddRule(u, pat, act, t) PROVE Access!Legislate
  <2>1. PICK r \in RuleIds : CreateRule(pat, act, t, r)
    BY <1>3 DEF AddRule
  <2>2. UNCHANGED connVars /\ CutsOwed' = CutsOwed
    BY <1>3, SameCuts DEF AddRule
  <2> QED BY <2>1, <2>2, CreateLegislates
<1>4. QED
  BY <1>2, <1>3, UpdateLegislates, DeleteLegislates DEF Asks, Access!AccessNext

LEMMA HandlerImplements ==
  ASSUME RuleInv, RuleInv', NEW u \in Users, HandlerStep(u)
  PROVE  Access!AccessNext \/ UNCHANGED Access!accessVars
<1>1. req \in [Users -> Request]
  BY DEF RuleInv, TypeOK
<1>2. ASSUME \/ FindExisting(u) \/ ClearPending(u) \/ PublishResolution(u)
             \/ ListPending(u) \/ CleanPending(u) \/ DropPending(u)
      PROVE  UNCHANGED Access!accessVars
  <2>1. UNCHANGED <<rules, pc, dest, auth>> /\ req[u].pc # "cancel"
    BY <1>2 DEF FindExisting, ClearPending, PublishResolution, ListPending, CleanPending, DropPending,
                Step, Done, ruleVars, connVars
  <2>2. req'[u].pc # "cancel" /\ \A v \in Users : v # u => req'[v] = req[v]
    <3>1. ASSUME NEW from, NEW to, to # "cancel", Step(u, from, to) \/ Done(u, from)
          PROVE  req'[u].pc # "cancel" /\ \A v \in Users : v # u => req'[v] = req[v]
      BY <1>1, <3>1, NoReqType DEF Step, Done, Request
    <3>2. CASE FindExisting(u) \/ ClearPending(u) \/ PublishResolution(u) \/ DropPending(u)
      BY <3>1, <3>2 DEF FindExisting, ClearPending, PublishResolution, DropPending
    <3>3. CASE ListPending(u)
      BY <1>1, <3>3 DEF ListPending, Request
    <3>4. CASE CleanPending(u)
      <4>1. CASE Done(u, "clean")
        BY <3>1, <4>1
      <4>2. ASSUME NEW p, NEW q, q # "cancel",
                   req' = [req EXCEPT ![u] = [req[u] EXCEPT !.todo = req[u].todo \ {p}, !.pend = p, !.pc = q]]
            PROVE  req'[u].pc # "cancel" /\ \A v \in Users : v # u => req'[v] = req[v]
        BY <1>1, <4>2 DEF Request
      <4> QED BY <3>4, <4>1, <4>2 DEF CleanPending
    <3> QED BY <1>2, <3>2, <3>3, <3>4
  <2> QED BY <2>1, <2>2, Aside
<1>3. CASE InsertRule(u)
  <2>1. PICK r \in RuleIds : CreateRule(req[u].pat, req[u].act, req[u].temp, r)
    BY <1>3 DEF InsertRule
  <2>2. /\ UNCHANGED connVars /\ req[u].pc = "insert" /\ req'[u].pc \in {"list", "clear"}
        /\ \A v \in Users : v # u => req'[v] = req[v]
    BY <1>1, <1>3 DEF InsertRule, Step, Request
  <2>3. CutsOwed' = CutsOwed
    BY <2>2, NothingOwed
  <2>4. Access!Legislate
    BY <2>1, <2>2, <2>3, CreateLegislates
  <2> QED BY <2>4 DEF Access!AccessNext
<1>4. CASE CancelByRule(u)
  BY <1>4, CancelCuts DEF Access!AccessNext
<1>5. QED
  BY <1>2, <1>3, <1>4 DEF HandlerStep

(* PendingApproval implements AccessControl, for any number of             *)
(* connections, requests and rules and any patterns: a decision is that of *)
(* the rules in force at one moment, however many steps Contains takes to  *)
(* reach it, and CancelByRule ends at once all that is open under a rule.  *)
THEOREM AccessIsControlled == Spec => ImplementsAccessControl
<1>1. Init => Access!AccessInit
  <2> SUFFICES ASSUME Init PROVE Access!AccessInit
    OBVIOUS
  <2>1. \A r \in RuleIds : rules[r] \in RuleRow /\ rules[r].st = "unused"
    <3>1. NoReq.pat \in Patterns
      BY NoReqType DEF Request
    <3> QED BY <3>1 DEF Init, RuleRow, Actions
  <2>2. TheLaw \in [RuleIds -> Access!Rule] /\ \A r \in RuleIds : TheLaw[r].is = "unmade"
    BY <2>1, LawFacts DEF TheLaw
  <2>3. Stages = [c \in Conns |-> "outside"]
    BY StageFacts DEF Init, Stages
  <2>4. dest \in [Conns -> Dests] /\ auth = [c \in Conns |-> NoRule]
    <3>1. NoReq.pend.dest \in Dests
      BY NoReqType DEF Request, PendingRow
    <3> QED BY <3>1 DEF Init
  <2>5. CutsOwed = {}
    BY NoReqType DEF Init, CutsOwed
  <2> QED BY <2>2, <2>3, <2>4, <2>5 DEF Access!AccessInit
<1>2. RuleInv /\ RuleInv' /\ [Next]_vars => [Access!AccessNext]_(Access!accessVars)
  <2> SUFFICES ASSUME RuleInv, RuleInv', [Next]_vars
               PROVE  Access!AccessNext \/ UNCHANGED Access!accessVars
    OBVIOUS
  <2>1. ASSUME NEW r \in RuleIds, Expire(r) PROVE Access!AccessNext
    BY <2>1, ExpiryLegislates DEF Access!AccessNext
  <2>2. CASE UNCHANGED vars
    BY <2>2, SameLaw, SameCuts, NobodyMoves
    DEF vars, ruleVars, connVars, Access!accessVars, Access!theirs
  <2> QED BY <2>1, <2>2, ConnImplements, AskImplements, HandlerImplements DEF Next
<1>3. QED
  BY <1>1, <1>2, RuleInvariant, PTL DEF Spec, ImplementsAccessControl, Access!AccessSpec
------------------------------------------------------------------------------
(* The patterns of a rule.                                                 *)

(* The rule that AllowPending or DenyPending builds applies to the request *)
(* it was built from exactly if the scope is not subdomain_wildcard or the *)
(* host has a label below its base domain (buildPatterns, MatchesRule).    *)
THEOREM BuildPatternsCovers ==
  ASSUME NEW L, NEW name, NEW h \in Seq(L), NEW port \in Int, NEW scope
  PROVE  MatchesRule(name, h, port, buildPatterns(name, h, port, scope))
           <=> (scope = "subdomain_wildcard" => Len(h) > 2)
<1> DEFINE rule == buildPatterns(name, h, port, scope)
<1>1. MatchesContainer(name, Wildcard) /\ MatchesContainer(name, Name(name))
  BY DEF MatchesContainer, Wildcard, Name
<1>2. MatchesPort(port, Wildcard) /\ MatchesPort(port, Port(port))
  <2>1. <<port, port>> \in Port(port).base /\ Port(port).kind = "ports"
    BY DEF Port
  <2>2. <<port, port>>[1] <= port /\ port <= <<port, port>>[2]
    OBVIOUS
  <2>3. QED
    BY <2>1, <2>2 DEF MatchesPort, Wildcard
<1>3. MatchesDestination(h, Host(h))
  BY DEF MatchesDestination, Host
<1>4. CASE scope # "subdomain_wildcard"
  <2>1. /\ rule.container \in {Wildcard, Name(name)}
        /\ rule.dest = Host(h)
        /\ rule.port \in {Wildcard, Port(port)}
    BY <1>4 DEF buildPatterns
  <2>2. QED
    BY <1>1, <1>2, <1>3, <1>4, <2>1 DEF MatchesRule
<1>5. CASE scope = "subdomain_wildcard"
  <2>1. rule.container = Name(name) /\ rule.dest = Sub(extractBaseDomain(h)) /\ rule.port = Wildcard
    BY <1>5 DEF buildPatterns
  <2>2. MatchesDestination(h, Sub(extractBaseDomain(h))) <=> IsSubdomain(h, extractBaseDomain(h))
    BY DEF MatchesDestination, Sub
  <2>3. IsSubdomain(h, extractBaseDomain(h)) <=> Len(h) > 2
    <3>1. CASE Len(h) >= 2
      <4>1. extractBaseDomain(h) = SubSeq(h, Len(h) - 1, Len(h))
        BY <3>1 DEF extractBaseDomain
      <4>2. Len(extractBaseDomain(h)) = 2
        BY <3>1, <4>1
      <4>3. Len(h) - Len(extractBaseDomain(h)) + 1 = Len(h) - 1
        BY <4>2
      <4>4. QED
        BY <4>1, <4>2, <4>3 DEF IsSubdomain
    <3>2. CASE Len(h) < 2
      <4>1. extractBaseDomain(h) = h
        BY <3>2 DEF extractBaseDomain
      <4>2. QED
        BY <3>2, <4>1 DEF IsSubdomain
    <3>3. QED
      BY <3>1, <3>2
  <2>4. QED
    BY <1>1, <1>2, <1>5, <2>1, <2>2, <2>3 DEF MatchesRule
<1>6. QED
  BY <1>4, <1>5

(* The score compares containers first, then destinations, then ports: no  *)
(* combination of the later parts outweighs an earlier one                 *)
(* (CalculateSpecificity, which FindMatchingRule sorts by).                *)
THEOREM SpecificityLexicographic ==
  ASSUME NEW r, NEW s
  PROVE  /\ ContainerScore(r.container) > ContainerScore(s.container)
              => CalculateSpecificity(r) > CalculateSpecificity(s)
         /\ /\ ContainerScore(r.container) = ContainerScore(s.container)
            /\ DestScore(r.dest) > DestScore(s.dest)
            => CalculateSpecificity(r) > CalculateSpecificity(s)
<1>1. \A p : ContainerScore(p) \in {0, 100, 200}
  BY DEF ContainerScore
<1>2. \A p : DestScore(p) \in {0, 10, 20}
  BY DEF DestScore
<1>3. \A p : PortScore(p) \in {0, 1}
  BY DEF PortScore
<1>4. QED
  BY <1>1, <1>2, <1>3 DEF CalculateSpecificity
==============================================================================
