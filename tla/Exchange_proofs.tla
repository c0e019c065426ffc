--------------------------- MODULE Exchange_proofs ---------------------------
(***************************************************************************)
(* Proofs about Exchange, for any number of connections, requests, hosts   *)
(* and middlewares, any order of them, any hooks and filters.              *)
(***************************************************************************)
EXTENDS Exchange, TLAPS

Stages == {"closed", "sniff", "idle", "check", "hold", "cascade", "asking", "upstream",
           "write", "store", "storeclose", "tunnel"}
Creds == {"placeholder", "real"}
Bodies == {None, "upstream", "rewritten", "blocked"}

Exchanges ==
  [pc : Stages, k : 0 .. MaxReqs, kind : Kinds \cup {None}, host : Hosts \cup {None},
   phase : {"req", "resp"}, i : Nat, cred : Creds, saved : Creds, reply : Bodies, late : BOOLEAN]

\* The types the other parts of the invariant rest on.
TypesSound ==
  /\ q \in [Procs -> [open : BOOLEAN, c : Clients \cup {None}, resp : BOOLEAN]]
  /\ n \in [Procs -> 0 .. MaxSends]
  /\ said \in [Procs -> Replies \cup {None}]
  /\ answer \in [Procs -> Decisions \cup {None}]
  /\ hooks \in [k : 0 .. Len(Order), req : Seq(Clients), resp : Seq(Clients)]
  /\ rule \in [Hosts -> {"allow", "deny", "none"}]
  /\ tracked \in [Procs -> Hosts \cup {None}] /\ cancelled \subseteq Procs
  /\ x \in [Procs -> Exchanges]

\* What exchanges leave behind shows no real credential.
RowsSound ==
  /\ DOMAIN log = Procs /\ DOMAIN delivered = Rids
  /\ DOMAIN saving = Rids /\ \A rid \in Rids : saving[rid] # None => saving[rid].cred = "placeholder"
  /\ shown \subseteq {"placeholder"}

\* The invariant of one connection, in terms of its exchange r and of what else
\* belongs to it: the host t it is registered for, the decisions l it acted on,
\* its question and answer, what its client got (g); and of the hooks hk.

\* What the stage of an exchange says about its other fields.
StageOK(r, t, started) ==
  /\ r.pc # "closed" \/ r.k > 0 => started
  /\ r.pc # "closed" => r.k > 0 /\ r.host \in Hosts /\ r.kind \in Kinds
  /\ t \in IF r.pc = "closed" THEN {None} ELSE Hosts
  /\ r.pc \in {"sniff", "check", "hold", "upstream"} => r.phase = "req"
  /\ r.pc \in {"sniff", "check", "hold"} => r.i = 1
  /\ r.pc = "check" => r.kind = "plain"
  /\ r.pc = "hold" => r.kind = "mitm"
  /\ r.kind = "raw" => r.pc \in {"closed", "sniff", "tunnel"}
  /\ r.pc = "write" => r.phase = "resp" /\ r.reply = "blocked"
  /\ r.i > 0

\* The real credential is only in a request that is, or was, on its way upstream.
CredentialOK(r) ==
  /\ r.saved = "placeholder"
  /\ r.kind = "plain" => r.cred = "placeholder"
  /\ r.pc \in {"sniff", "check", "hold", "cascade", "asking"} /\ r.phase = "req" => r.cred = "placeholder"

\* The decision that stops an exchange in a phase.
Stops(phase) == IF phase = "req" THEN "deny" ELSE "block"

\* The first m hooks of the list hs that match the request r were asked, and
\* what they decided, as l has it, stops nothing in this phase.
Through(l, hs, r, phase, m) ==
  \A j \in 1 .. Len(hs) : j <= m /\ MatchesFilter(Filters[hs[j]], r) =>
    \E e \in l : /\ e.phase = phase /\ e.i = j
                 /\ e.action # Stops(phase)
                 /\ e.fallback => Policy[hs[j]] = "allow"

Hooks(hk, phase) == IF phase = "req" THEN hk.req ELSE hk.resp

\* A cascade has gone through the hooks before the present one, and what was
\* sent has gone through all of them.
CascadeOK(r, l, hk) ==
  /\ r.pc \in {"cascade", "asking"} => Through(l, Hooks(hk, r.phase), r, r.phase, r.i - 1)
  /\ (r.pc = "upstream" \/ r.phase = "resp") /\ r.pc # "closed" =>
       Through(l, hk.req, r, "req", Len(hk.req))

\* What an answer of client c in a phase may be.
Proper(d, c, phase) ==
  /\ d \in Decisions
  /\ d.fallback => d.action = Default(Policy[c], phase = "resp")

\* The open question is that of the present hook, and so is its answer.
QuestionOK(r, qu, ans, hk) ==
  r.pc = "asking" =>
    /\ r.i \in 1 .. Len(Hooks(hk, r.phase))
    /\ qu.open => qu.c = Hooks(hk, r.phase)[r.i] /\ qu.resp = (r.phase = "resp")
    /\ ~qu.open => Proper(ans, Hooks(hk, r.phase)[r.i], r.phase)

\* Nothing is delivered before its time, and no upstream body without the
\* response hooks.
DeliveryOK(r, l, hk, g) ==
  /\ \A j \in 1 .. MaxReqs : r.k < j => g[j] = None
  /\ r.pc \in {"sniff", "check", "hold", "cascade", "asking", "upstream", "write"} => g[r.k] = None
  /\ r.k > 0 /\ r.phase = "resp" /\ g[r.k] \in {"upstream", "rewritten"} =>
       Through(l, hk.resp, r, "resp", Len(hk.resp))

\* A connection is cancelled exactly if the rule it is registered under was
\* revoked; a request that began after that is stopped.
RevocationOK(r, t, can, ru) ==
  /\ t \in Hosts => (can <=> ru[t] # "allow")
  /\ r.pc # "closed" /\ r.kind # "plain" => t = r.host
  /\ r.pc # "closed" /\ r.late => can
  /\ r.pc = "upstream" /\ r.late => r.kind = "mitm"
  /\ r.pc \in {"cascade", "asking", "upstream"} /\ r.kind = "mitm" /\ r.late => ru[r.host] = "none"

\* What the client of a connection got, by request.
Got(p) == [j \in 1 .. MaxReqs |-> delivered[<<p, j>>]]

ProcOK(p) ==
  /\ StageOK(x[p], tracked[p], Started)
  /\ CredentialOK(x[p])
  /\ CascadeOK(x[p], log[p], hooks)
  /\ QuestionOK(x[p], q[p], answer[p], hooks)
  /\ DeliveryOK(x[p], log[p], hooks, Got(p))
  /\ RevocationOK(x[p], tracked[p], p \in cancelled, rule)

ExchangeInv == TypesSound /\ RowsSound /\ \A p \in Procs : ProcOK(p)
------------------------------------------------------------------------------
\* A filter looks at the host and the kind of a request only.
LEMMA FilterFrame ==
  ASSUME NEW f \in [host : SUBSET Hosts, kind : SUBSET Kinds] \cup {None},
         NEW r, NEW s, r.host = s.host, r.kind = s.kind, MatchesFilter(f, s)
  PROVE  MatchesFilter(f, r)
<1>1. CASE f = None
  BY <1>1 DEF MatchesFilter
<1>2. CASE f \in [host : SUBSET Hosts, kind : SUBSET Kinds]
  <2>1. DOMAIN f = {"host", "kind"}
    BY <1>2
  <2>2. QED
    BY <2>1 DEF MatchesFilter
<1>3. QED
  BY <1>1, <1>2

\* So a request has passed the hooks whatever becomes of its other fields.
LEMMA ThroughFrame ==
  ASSUME NEW l, NEW hs \in Seq(Clients), NEW r, NEW s, r.host = s.host, r.kind = s.kind,
         NEW phase, NEW m, Through(l, hs, r, phase, m)
  PROVE  Through(l, hs, s, phase, m)
<1>1. \A j \in 1 .. Len(hs) : hs[j] \in Clients
  OBVIOUS
<1>2. \A j \in 1 .. Len(hs) : MatchesFilter(Filters[hs[j]], s) => MatchesFilter(Filters[hs[j]], r)
  BY <1>1, FilterFrame, ExchangeAssumption
<1>3. QED
  BY <1>2 DEF Through

\* Nothing is asked of a cascade that has not begun.
LEMMA ThroughNone ==
  ASSUME NEW l, NEW hs \in Seq(Clients), NEW r, NEW phase
  PROVE  Through(l, hs, r, phase, 0)
BY DEF Through

\* A hook whose filter does not match is passed over.
LEMMA ThroughSkip ==
  ASSUME NEW l, NEW hs \in Seq(Clients), NEW r, NEW phase, NEW m \in Nat,
         Through(l, hs, r, phase, m), m + 1 \in 1 .. Len(hs),
         ~MatchesFilter(Filters[hs[m + 1]], r)
  PROVE  Through(l, hs, r, phase, m + 1)
<1>1. \A j \in 1 .. Len(hs) : j <= m + 1 => j <= m \/ j = m + 1
  OBVIOUS
<1>2. QED
  BY <1>1 DEF Through

\* A hook is passed by a decision that does not stop the exchange; by default
\* only if on_disconnect allows.
LEMMA ThroughDecision ==
  ASSUME NEW l, NEW hs \in Seq(Clients), NEW r, NEW phase \in {"req", "resp"}, NEW m \in Nat,
         Through(l, hs, r, phase, m), m + 1 \in 1 .. Len(hs),
         NEW e, e.phase = phase, e.i = m + 1, e.action # Stops(phase),
         e.fallback => e.action = Default(Policy[hs[m + 1]], phase = "resp")
  PROVE  Through(l \cup {e}, hs, r, phase, m + 1)
<1>1. \A j \in 1 .. Len(hs) : j <= m + 1 => j <= m \/ j = m + 1
  OBVIOUS
<1>2. hs[m + 1] \in Clients
  OBVIOUS
<1>3. e.fallback => Policy[hs[m + 1]] = "allow"
  BY <1>2, ExchangeAssumption DEF Default, Stops
<1>4. QED
  BY <1>1, <1>3 DEF Through

\* The end of a cascade.
LEMMA ThroughAll ==
  ASSUME NEW l, NEW hs \in Seq(Clients), NEW r, NEW phase, NEW m \in Nat,
         Through(l, hs, r, phase, m), Len(hs) <= m
  PROVE  Through(l, hs, r, phase, Len(hs))
BY DEF Through


\* More decisions take nothing back.
LEMMA ThroughMore ==
  ASSUME NEW l, NEW more, NEW hs \in Seq(Clients), NEW r, NEW phase, NEW m,
         Through(l, hs, r, phase, m), l \subseteq more
  PROVE  Through(more, hs, r, phase, m)
BY DEF Through

\* A request is named by its connection and its number.
LEMMA RidType ==
  /\ \A rid \in Rids : rid[1] \in Procs /\ rid[2] \in 1 .. MaxReqs /\ rid = <<rid[1], rid[2]>>
  /\ \A p \in Procs, j \in 1 .. MaxReqs : <<p, j>> \in Rids
BY DEF Rids

\* A step of connection p leaves the other connections as they were.
LEMMA OthersKeep ==
  ASSUME ExchangeInv, NEW p \in Procs, ProcOK(p)', UNCHANGED <<hooks, rule>>,
         \A s \in Procs \ {p} :
           /\ x'[s] = x[s] /\ tracked'[s] = tracked[s] /\ log'[s] = log[s] /\ Got(s)' = Got(s)
           /\ q'[s] = q[s] /\ answer'[s] = answer[s] /\ (s \in cancelled' <=> s \in cancelled)
  PROVE  \A s \in Procs : ProcOK(s)'
<1> SUFFICES ASSUME NEW s \in Procs \ {p} PROVE ProcOK(s)'
  OBVIOUS
<1>1. ProcOK(s)
  BY DEF ExchangeInv
<1>2. StageOK(x'[s], tracked'[s], Started') /\ CredentialOK(x'[s])
  BY <1>1 DEF ProcOK, Started
<1>3. CascadeOK(x'[s], log'[s], hooks') /\ QuestionOK(x'[s], q'[s], answer'[s], hooks')
  BY <1>1 DEF ProcOK
<1>4. DeliveryOK(x'[s], log'[s], hooks', Got(s)')
  BY <1>1 DEF ProcOK
<1>5. RevocationOK(x'[s], tracked'[s], s \in cancelled', rule')
  BY <1>1 DEF ProcOK, RevocationOK
<1>6. QED
  BY <1>2, <1>3, <1>4, <1>5 DEF ProcOK

\* What a delivery changes.
LEMMA DeliverEffect ==
  ASSUME RowsSound, NEW p \in Procs, x[p].k \in 1 .. MaxReqs, NEW w,
         delivered' = [delivered EXCEPT ![Rid(p)] = w]
  PROVE  /\ \A s \in Procs \ {p} : Got(s)' = Got(s)
         /\ Got(p)'[x[p].k] = w
         /\ \A j \in 1 .. MaxReqs : j # x[p].k => Got(p)'[j] = Got(p)[j]
         /\ DOMAIN delivered' = Rids
<1>1. \A s \in Procs, j \in 1 .. MaxReqs :
        delivered'[<<s, j>>] = IF s = p /\ j = x[p].k THEN w ELSE delivered[<<s, j>>]
  BY RidType DEF RowsSound, Rid
<1>2. QED
  BY <1>1 DEF Got, RowsSound

\* The exchange of one connection is replaced.
LEMMA StepEffect ==
  ASSUME TypesSound, NEW p \in Procs, NEW r \in Exchanges, x' = [x EXCEPT ![p] = r]
  PROVE  x' \in [Procs -> Exchanges] /\ x'[p] = r /\ \A s \in Procs \ {p} : x'[s] = x[s]
BY DEF TypesSound

\* Only the stage of an exchange changes.
LEMMA PcEffect ==
  ASSUME NEW e \in Exchanges, NEW v \in Stages, NEW r, r = [e EXCEPT !.pc = v]
  PROVE  /\ r \in Exchanges /\ r.pc = v
         /\ r.k = e.k /\ r.kind = e.kind /\ r.host = e.host /\ r.phase = e.phase /\ r.i = e.i
         /\ r.cred = e.cred /\ r.saved = e.saved /\ r.reply = e.reply /\ r.late = e.late
<1>1. r \in Exchanges
  BY DEF Exchanges
<1>2. r.pc = v /\ r.k = e.k /\ r.kind = e.kind /\ r.host = e.host /\ r.phase = e.phase /\ r.i = e.i
  BY DEF Exchanges
<1>3. r.cred = e.cred /\ r.saved = e.saved /\ r.reply = e.reply
  BY DEF Exchanges
<1>4. r.late = e.late
  BY DEF Exchanges
<1>5. QED
  BY <1>1, <1>2, <1>3, <1>4

\* Stages at which a connection waits for its client, for the end of a tunnel or
\* for its row, or is closed.
Resting == {"closed", "idle", "tunnel", "store", "storeclose"}

\* An exchange comes to rest.
LEMMA RestKeeps ==
  ASSUME ExchangeInv, NEW p \in Procs, NEW v \in Resting, x[p].pc # "closed",
         v \in {"closed", "tunnel"} \/ x[p].pc \notin {"sniff", "tunnel"},
         x' = [x EXCEPT ![p].pc = v],
         tracked' = IF v = "closed" THEN [tracked EXCEPT ![p] = None] ELSE tracked,
         log' = log \/ \E e : log' = [log EXCEPT ![p] = @ \cup {e}],
         \/ delivered' = delivered
         \/ \E w : /\ delivered' = [delivered EXCEPT ![Rid(p)] = w]
                   /\ w \in {"upstream", "rewritten"} =>
                        Through(log[p], hooks.resp, x[p], "resp", Len(hooks.resp)),
         UNCHANGED <<serviceVars, hooks, rule, cancelled>>
  PROVE  TypesSound' /\ (\A s \in Procs : ProcOK(s)') /\ DOMAIN delivered' = Rids /\ DOMAIN log' = Procs
<1> DEFINE r == [x[p] EXCEPT !.pc = v]
<1>1. TypesSound /\ RowsSound /\ ProcOK(p)
  BY DEF ExchangeInv
<1>2. /\ x[p] \in Exchanges /\ r \in Exchanges /\ r.pc = v /\ x[p].k \in 1 .. MaxReqs
      /\ r.k = x[p].k /\ r.kind = x[p].kind /\ r.host = x[p].host /\ r.phase = x[p].phase
      /\ r.i = x[p].i /\ r.cred = x[p].cred /\ r.saved = x[p].saved /\ r.late = x[p].late
  <2>1. x[p] \in Exchanges /\ v \in Stages
    BY <1>1 DEF TypesSound, Stages, Resting
  <2>2. x[p].k \in 1 .. MaxReqs
    BY <1>1, <2>1 DEF Exchanges, ProcOK, StageOK
  <2>3. QED
    BY <2>1, <2>2, PcEffect
<1>3. x' \in [Procs -> Exchanges] /\ x'[p] = r /\ \A s \in Procs \ {p} : x'[s] = x[s]
  BY <1>1, <1>2, StepEffect
<1> HIDE DEF r
<1>4. /\ tracked' \in [Procs -> Hosts \cup {None}] /\ \A s \in Procs \ {p} : tracked'[s] = tracked[s]
      /\ tracked'[p] = IF v = "closed" THEN None ELSE tracked[p]
  BY <1>1 DEF TypesSound
<1>5. log[p] \subseteq log'[p] /\ DOMAIN log' = Procs /\ \A s \in Procs \ {p} : log'[s] = log[s]
  BY <1>1 DEF RowsSound
<1>6. /\ DOMAIN delivered' = Rids
      /\ \A s \in Procs \ {p} : Got(s)' = Got(s)
      /\ \A j \in 1 .. MaxReqs : j # x[p].k => Got(p)'[j] = Got(p)[j]
      /\ \/ Got(p)'[x[p].k] = Got(p)[x[p].k]
         \/ Got(p)'[x[p].k] \in {"upstream", "rewritten"} =>
              Through(log[p], hooks.resp, x[p], "resp", Len(hooks.resp))
  <2>1. CASE delivered' = delivered
    BY <1>1, <2>1 DEF Got, RowsSound
  <2>2. CASE delivered' # delivered
    BY <1>1, <1>2, <2>2, DeliverEffect
  <2>3. QED
    BY <2>1, <2>2
<1>7. hooks.req \in Seq(Clients) /\ hooks.resp \in Seq(Clients)
  BY <1>1 DEF TypesSound
<1>8. StageOK(r, tracked'[p], Started') /\ CredentialOK(r)
  BY <1>1, <1>2, <1>4 DEF ProcOK, StageOK, CredentialOK, Resting, Started
<1>9. CascadeOK(r, log'[p], hooks') /\ QuestionOK(r, q'[p], answer'[p], hooks')
  <2>1. Through(log[p], hooks.req, x[p], "req", Len(hooks.req)) =>
          Through(log'[p], hooks.req, r, "req", Len(hooks.req))
    <3>1. Through(log[p], hooks.req, x[p], "req", Len(hooks.req)) =>
            Through(log[p], hooks.req, r, "req", Len(hooks.req))
      BY <1>2, <1>7, ThroughFrame
    <3>2. QED
      BY <3>1, <1>5, <1>7, ThroughMore
  <2>2. r.phase = "resp" => Through(log[p], hooks.req, x[p], "req", Len(hooks.req))
    BY <1>1, <1>2 DEF ProcOK, CascadeOK
  <2>3. QED
    BY <1>2, <2>1, <2>2 DEF CascadeOK, QuestionOK, Resting
<1>10. DeliveryOK(r, log'[p], hooks', Got(p)')
  <2>1. r.phase = "resp" /\ Got(p)'[r.k] \in {"upstream", "rewritten"} =>
          Through(log'[p], hooks.resp, r, "resp", Len(hooks.resp))
    <3>1. x[p].phase = "resp" /\ Got(p)'[x[p].k] \in {"upstream", "rewritten"} =>
            Through(log[p], hooks.resp, x[p], "resp", Len(hooks.resp))
      BY <1>1, <1>2, <1>6 DEF ProcOK, DeliveryOK
    <3>2. QED
      BY <3>1, <1>2, <1>5, <1>7, ThroughFrame, ThroughMore
  <2>2. \A j \in 1 .. MaxReqs : r.k < j => Got(p)'[j] = None
    BY <1>1, <1>2, <1>6 DEF ProcOK, DeliveryOK
  <2>3. QED
    BY <1>2, <2>1, <2>2 DEF DeliveryOK, Resting
<1>11. RevocationOK(r, tracked'[p], p \in cancelled', rule')
  BY <1>1, <1>2, <1>4, ExchangeAssumption DEF ProcOK, StageOK, RevocationOK, Resting
<1>12. ProcOK(p)'
  BY <1>3, <1>8, <1>9, <1>10, <1>11 DEF ProcOK
<1>13. TypesSound'
  BY <1>1, <1>3, <1>4 DEF TypesSound, serviceVars
<1>14. QED
  BY <1>3, <1>4, <1>5, <1>6, <1>12, <1>13, OthersKeep DEF serviceVars

\* A step of connection p alone, which delivers nothing.
LEMMA LocalKeeps ==
  ASSUME ExchangeInv, NEW p \in Procs, NEW r \in Exchanges, x' = [x EXCEPT ![p] = r],
         UNCHANGED <<hooks, rule, delivered>>,
         \A s \in Procs \ {p} :
           /\ tracked'[s] = tracked[s] /\ log'[s] = log[s]
           /\ q'[s] = q[s] /\ answer'[s] = answer[s] /\ (s \in cancelled' <=> s \in cancelled),
         StageOK(r, tracked'[p], Started), CredentialOK(r), CascadeOK(r, log'[p], hooks),
         QuestionOK(r, q'[p], answer'[p], hooks), DeliveryOK(r, log'[p], hooks, Got(p)),
         RevocationOK(r, tracked'[p], p \in cancelled', rule)
  PROVE  x' \in [Procs -> Exchanges] /\ \A s \in Procs : ProcOK(s)'
<1>1. x' \in [Procs -> Exchanges] /\ x'[p] = r /\ \A s \in Procs \ {p} : x'[s] = x[s]
  BY StepEffect DEF ExchangeInv
<1>2. Started' = Started /\ \A s \in Procs : Got(s)' = Got(s)
  BY DEF Started, Got
<1>3. ProcOK(p)'
  BY <1>1, <1>2 DEF ProcOK
<1>4. QED
  BY <1>1, <1>2, <1>3, OthersKeep

\* The same if nothing but the exchange changes.
LEMMA AloneKeeps ==
  ASSUME ExchangeInv, NEW p \in Procs, NEW r \in Exchanges, x' = [x EXCEPT ![p] = r],
         UNCHANGED <<serviceVars, hooks, rule, tracked, cancelled, rowVars, seenVars>>,
         StageOK(r, tracked[p], Started), CredentialOK(r), CascadeOK(r, log[p], hooks),
         r.pc # "asking", DeliveryOK(r, log[p], hooks, Got(p)),
         RevocationOK(r, tracked[p], p \in cancelled, rule)
  PROVE  ExchangeInv'
<1>1. QuestionOK(r, q'[p], answer'[p], hooks)
  BY DEF QuestionOK
<1>2. x' \in [Procs -> Exchanges] /\ \A s \in Procs : ProcOK(s)'
  BY <1>1, LocalKeeps DEF serviceVars, seenVars
<1>3. TypesSound' /\ RowsSound'
  BY <1>2 DEF ExchangeInv, TypesSound, RowsSound, serviceVars, rowVars, seenVars
<1>4. QED
  BY <1>2, <1>3 DEF ExchangeInv

\* Over brings the exchange to rest.
LEMMA OverRests ==
  ASSUME NEW p \in Procs, NEW keep, Over(p, keep)
  PROVE  \E v \in {"closed", "idle"} :
           /\ x' = [x EXCEPT ![p].pc = v]
           /\ tracked' = IF v = "closed" THEN [tracked EXCEPT ![p] = None] ELSE tracked
<1>1. CASE keep \/ x[p].kind = "h2"
  <2>1. x' = [x EXCEPT ![p].pc = "idle"] /\ tracked' = tracked
    BY <1>1 DEF Over
  <2>2. QED
    BY <2>1
<1>2. CASE ~(keep \/ x[p].kind = "h2")
  <2>1. x' = [x EXCEPT ![p].pc = "closed"] /\ tracked' = [tracked EXCEPT ![p] = None]
    BY <1>2 DEF Over
  <2>2. QED
    BY <2>1
<1>3. QED
  BY <1>1, <1>2

\* What is saved of an exchange shows the placeholder.
LEMMA SaveKeeps ==
  ASSUME ExchangeInv, NEW p \in Procs, NEW info, info.cred = RowShows(p), Save(p, info)
  PROVE  DOMAIN saving' = Rids /\ \A rid \in Rids : saving'[rid] # None => saving'[rid].cred = "placeholder"
<1>1. RowShows(p) = "placeholder"
  BY DEF ExchangeInv, ProcOK, CredentialOK, RowShows
<1>2. QED
  BY <1>1 DEF ExchangeInv, RowsSound, Save

\* What holds of the type of an exchange.
LEMMA ExchangeOf ==
  ASSUME ExchangeInv, NEW p \in Procs
  PROVE  /\ x[p] \in Exchanges /\ ProcOK(p) /\ TypesSound /\ RowsSound
         /\ hooks.req \in Seq(Clients) /\ hooks.resp \in Seq(Clients)
         /\ x[p].pc # "closed" => x[p].k \in 1 .. MaxReqs
         /\ HookList(x[p].phase) = Hooks(hooks, x[p].phase)
         /\ Hooks(hooks, x[p].phase) \in Seq(Clients)
<1>1. x[p] \in Exchanges /\ ProcOK(p) /\ TypesSound /\ RowsSound
  BY DEF ExchangeInv, TypesSound
<1>2. hooks.req \in Seq(Clients) /\ hooks.resp \in Seq(Clients)
  BY <1>1 DEF TypesSound
<1>3. x[p].pc # "closed" => x[p].k \in 1 .. MaxReqs
  BY <1>1 DEF ProcOK, StageOK, Exchanges
<1>4. QED
  BY <1>1, <1>2, <1>3 DEF HookList, Hooks
------------------------------------------------------------------------------
(* Connections and requests.                                               *)

\* Until the hooks are read there are no connections.
LEMMA HookSpecsKeeps ==
  ASSUME ExchangeInv, NEW up \in BOOLEAN, HookSpecs(up)
  PROVE  ExchangeInv'
<1>1. ~Started /\ UNCHANGED <<q, n, said, answer, rule, tracked, cancelled, x, log, delivered, saving, shown>>
  BY DEF HookSpecs, serviceVars, connVars, rowVars, seenVars
<1>2. \A p \in Procs : x[p].pc = "closed" /\ x[p].k = 0
  <2>1. \A p \in Procs : x[p].k \in 0 .. MaxReqs
    BY DEF ExchangeInv, TypesSound, Exchanges
  <2>2. QED
    BY <1>1, <2>1, ExchangeAssumption DEF ExchangeInv, ProcOK, StageOK
<1>3. hooks' \in [k : 0 .. Len(Order), req : Seq(Clients), resp : Seq(Clients)]
  <2>1. hooks.k + 1 \in 1 .. Len(Order) /\ Order[hooks.k + 1] \in Clients
    BY <1>1, ExchangeAssumption DEF ExchangeInv, TypesSound, Started
  <2>2. \A list \in Seq(Clients) : Append(list, Order[hooks.k + 1]) \in Seq(Clients)
    BY <2>1
  <2>3. hooks.req \in Seq(Clients) /\ hooks.resp \in Seq(Clients)
    BY DEF ExchangeInv, TypesSound
  <2>4. QED
    BY <2>1, <2>2, <2>3 DEF HookSpecs
<1>4. TypesSound' /\ RowsSound'
  BY <1>1, <1>3 DEF ExchangeInv, TypesSound, RowsSound
<1>5. ASSUME NEW p \in Procs PROVE ProcOK(p)'
  <2>1. ProcOK(p) /\ x[p].pc = "closed" /\ x[p].k = 0 /\ Got(p)' = Got(p)
    BY <1>1, <1>2 DEF ExchangeInv, Got
  <2>2. StageOK(x[p], tracked[p], Started') /\ CredentialOK(x[p])
    BY <2>1 DEF ProcOK, StageOK
  <2>3. CascadeOK(x[p], log[p], hooks') /\ QuestionOK(x[p], q[p], answer[p], hooks')
    BY <2>1 DEF CascadeOK, QuestionOK
  <2>4. DeliveryOK(x[p], log[p], hooks', Got(p)) /\ RevocationOK(x[p], tracked[p], p \in cancelled, rule)
    BY <2>1 DEF ProcOK, DeliveryOK
  <2>5. QED
    BY <1>1, <2>1, <2>2, <2>3, <2>4 DEF ProcOK
<1>6. QED
  BY <1>4, <1>5 DEF ExchangeInv

\* A connection is made, or takes its next request: the exchange r is new.
LEMMA FreshKeeps ==
  ASSUME ExchangeInv, NEW p \in Procs, NEW r \in Exchanges, x' = [x EXCEPT ![p] = r], Started,
         r.pc \in {"sniff", "check", "hold", "cascade"}, r.kind \in Kinds, r.host \in Hosts,
         r.k = x[p].k + 1, r.phase = "req", r.i = 1,
         r.cred = "placeholder", r.saved = "placeholder",
         r.pc = "check" => r.kind = "plain", r.pc = "hold" => r.kind = "mitm",
         r.kind = "raw" => r.pc = "sniff", r.pc = "cascade" /\ r.late => r.kind # "mitm",
         tracked' \in [Procs -> Hosts \cup {None}], cancelled' \subseteq Procs, tracked'[p] \in Hosts,
         r.kind # "plain" => tracked'[p] = r.host, r.late => p \in cancelled',
         p \in cancelled' <=> rule[tracked'[p]] # "allow",
         \A s \in Procs \ {p} : tracked'[s] = tracked[s] /\ (s \in cancelled' <=> s \in cancelled),
         log' = [log EXCEPT ![p] = {}],
         UNCHANGED <<serviceVars, hooks, rule, rowVars, delivered, shown>>
  PROVE  ExchangeInv'
<1>1. TypesSound /\ RowsSound /\ ProcOK(p) /\ x[p].k \in 0 .. MaxReqs /\ r.k \in 0 .. MaxReqs
  BY DEF ExchangeInv, TypesSound, Exchanges
<1>2. hooks.req \in Seq(Clients) /\ log'[p] = {} /\ DOMAIN log' = Procs /\ \A s \in Procs \ {p} : log'[s] = log[s]
  BY <1>1 DEF TypesSound, RowsSound
<1>3. StageOK(r, tracked'[p], Started) /\ CredentialOK(r)
  BY <1>1 DEF StageOK, CredentialOK
<1>4. CascadeOK(r, log'[p], hooks) /\ QuestionOK(r, q'[p], answer'[p], hooks)
  <2>1. Through(log'[p], hooks.req, r, "req", 0)
    BY <1>2, ThroughNone
  <2>2. QED
    BY <2>1 DEF CascadeOK, QuestionOK, Hooks
<1>5. DeliveryOK(r, log'[p], hooks, Got(p))
  <2>1. \A j \in 1 .. MaxReqs : x[p].k < j => Got(p)[j] = None
    BY <1>1 DEF ProcOK, DeliveryOK
  <2>2. r.k \in 1 .. MaxReqs /\ x[p].k < r.k
    BY <1>1, ExchangeAssumption
  <2>3. QED
    BY <1>1, <2>1, <2>2 DEF DeliveryOK
<1>6. RevocationOK(r, tracked'[p], p \in cancelled', rule)
  BY DEF RevocationOK
<1>7. x' \in [Procs -> Exchanges] /\ \A s \in Procs : ProcOK(s)'
  BY <1>2, <1>3, <1>4, <1>5, <1>6, LocalKeeps DEF serviceVars
<1>8. TypesSound' /\ RowsSound'
  BY <1>1, <1>2, <1>7 DEF TypesSound, RowsSound, serviceVars, rowVars
<1>9. QED
  BY <1>7, <1>8 DEF ExchangeInv

\* A connection is accepted.
LEMMA AcceptKeeps ==
  ASSUME ExchangeInv, NEW p \in Procs, NEW kind \in Kinds, NEW h \in Hosts, Accept(p, kind, h)
  PROVE  ExchangeInv'
<1> DEFINE pc == IF kind = "plain" THEN "check" ELSE "sniff"
           r == [NoExchange EXCEPT !.pc = pc, !.k = x[p].k + 1, !.kind = kind, !.host = h]
<1>1. TypesSound /\ x[p].k + 1 \in 0 .. MaxReqs
  BY ExchangeAssumption DEF ExchangeInv, TypesSound, Exchanges, Accept
<1>2. /\ pc \in Stages /\ pc \in {"sniff", "check"}
      /\ (pc = "check" => kind = "plain") /\ (kind = "raw" => pc = "sniff")
  BY DEF Stages
<1>3. x' = [x EXCEPT ![p] = r]
  BY DEF Accept, Step
<1>4. /\ tracked' \in [Procs -> Hosts \cup {None}] /\ tracked'[p] = h /\ rule[h] = "allow"
      /\ cancelled' \subseteq Procs /\ p \notin cancelled'
      /\ \A s \in Procs \ {p} : tracked'[s] = tracked[s] /\ (s \in cancelled' <=> s \in cancelled)
  BY <1>1 DEF Accept, TypesSound
<1>5. /\ Started /\ log' = [log EXCEPT ![p] = {}]
      /\ UNCHANGED <<serviceVars, hooks, rule, rowVars, delivered, shown>>
  BY DEF Accept
<1> HIDE DEF pc
<1>6. /\ r \in Exchanges /\ r.pc = pc /\ r.k = x[p].k + 1 /\ r.kind = kind /\ r.host = h
      /\ r.phase = "req" /\ r.i = 1 /\ r.cred = "placeholder" /\ r.saved = "placeholder" /\ r.late = FALSE
  <2>1. r \in Exchanges
    BY <1>1, <1>2 DEF NoExchange, Exchanges, Creds, Bodies
  <2>2. QED
    BY <2>1 DEF NoExchange
<1> HIDE DEF r
<1>7. QED
  BY <1>2, <1>3, <1>4, <1>5, <1>6, FreshKeeps

\* A kept connection brings its next request.
LEMMA NextRequestKeeps ==
  ASSUME ExchangeInv, NEW p \in Procs, NEW h \in Hosts, NextRequest(p, h)
  PROVE  ExchangeInv'
<1> DEFINE pc == CASE x[p].kind = "plain" -> "check"
                   [] x[p].kind = "mitm" -> "hold"
                   [] x[p].kind = "h2" -> "cascade"
           late == p \in cancelled
           r == [NoExchange EXCEPT !.pc = pc, !.k = x[p].k + 1, !.kind = x[p].kind, !.host = h, !.late = late]
<1>1. TypesSound /\ ProcOK(p) /\ x[p].k + 1 \in 0 .. MaxReqs
  BY ExchangeAssumption DEF ExchangeInv, TypesSound, Exchanges, NextRequest
<1>2. x[p].kind \in {"plain", "mitm", "h2"} /\ x[p].kind \in Kinds
  BY <1>1, ExchangeAssumption DEF ProcOK, StageOK, NextRequest
<1>3. /\ pc \in Stages /\ pc \in {"check", "hold", "cascade"}
      /\ (pc = "check" => x[p].kind = "plain") /\ (pc = "hold" => x[p].kind = "mitm")
      /\ (pc = "cascade" => x[p].kind = "h2")
  BY <1>2 DEF Stages
<1>4. x' = [x EXCEPT ![p] = r]
  BY DEF NextRequest, Step
<1>5. /\ tracked[p] \in Hosts /\ (x[p].kind # "plain" => tracked[p] = h)
      /\ p \in cancelled <=> rule[tracked[p]] # "allow"
  BY <1>1 DEF NextRequest, ProcOK, StageOK, RevocationOK
<1>6. /\ Started /\ log' = [log EXCEPT ![p] = {}]
      /\ UNCHANGED <<serviceVars, hooks, rule, tracked, cancelled, rowVars, delivered, shown>>
  BY <1>1 DEF NextRequest, ProcOK, StageOK
<1> HIDE DEF pc
<1>7. /\ r \in Exchanges /\ r.pc = pc /\ r.k = x[p].k + 1 /\ r.kind = x[p].kind /\ r.host = h
      /\ r.phase = "req" /\ r.i = 1 /\ r.cred = "placeholder" /\ r.saved = "placeholder"
      /\ r.late = (p \in cancelled)
  <2>1. late \in BOOLEAN
    OBVIOUS
  <2> HIDE DEF late
  <2>2. r \in Exchanges
    BY <1>1, <1>2, <1>3, <2>1 DEF NoExchange, Exchanges, Creds, Bodies
  <2>3. r.late = late
    BY <2>1 DEF NoExchange
  <2>4. QED
    BY <2>2, <2>3 DEF NoExchange, late
<1> HIDE DEF r
<1>8. tracked' \in [Procs -> Hosts \cup {None}] /\ cancelled' \subseteq Procs
  BY <1>1, <1>6 DEF TypesSound
<1>9. QED
  BY <1>2, <1>3, <1>4, <1>5, <1>6, <1>7, <1>8, FreshKeeps

\* A stage of the sniffer, the hold hook or the cascade begins.
LEMMA BeginKeeps ==
  ASSUME ExchangeInv, NEW p \in Procs, NEW v \in {"hold", "cascade"},
         x[p].pc \in {"sniff", "check", "hold"}, x[p].kind # "raw",
         v = "hold" => x[p].kind = "mitm",
         v = "cascade" /\ x[p].kind = "mitm" => rule[x[p].host] # "deny",
         x' = [x EXCEPT ![p].pc = v],
         UNCHANGED <<serviceVars, hooks, rule, tracked, cancelled, rowVars, seenVars>>
  PROVE  ExchangeInv'
<1> DEFINE r == [x[p] EXCEPT !.pc = v]
<1>1. TypesSound /\ ProcOK(p) /\ x[p] \in Exchanges /\ v \in Stages
  BY ExchangeOf DEF Stages
<1>2. /\ r \in Exchanges /\ r.pc = v /\ r.k = x[p].k /\ r.kind = x[p].kind /\ r.host = x[p].host
      /\ r.phase = x[p].phase /\ r.i = x[p].i /\ r.cred = x[p].cred /\ r.saved = x[p].saved
      /\ r.late = x[p].late
  BY <1>1, PcEffect
<1>3. x' = [x EXCEPT ![p] = r]
  OBVIOUS
<1> HIDE DEF r
<1>4. StageOK(r, tracked[p], Started) /\ CredentialOK(r) /\ r.phase = "req" /\ r.i = 1
  BY <1>1, <1>2 DEF ProcOK, StageOK, CredentialOK
<1>5. CascadeOK(r, log[p], hooks)
  <2>1. Through(log[p], hooks.req, r, "req", 0)
    BY <1>1, ThroughNone DEF TypesSound
  <2>2. QED
    BY <1>2, <1>4, <2>1 DEF CascadeOK, Hooks
<1>6. DeliveryOK(r, log[p], hooks, Got(p))
  BY <1>1, <1>2, <1>4 DEF ProcOK, DeliveryOK
<1>7. RevocationOK(r, tracked[p], p \in cancelled, rule)
  <2>1. x[p].host \in Hosts /\ tracked[p] \in Hosts /\ rule[x[p].host] \in {"allow", "deny", "none"}
    BY <1>1 DEF ProcOK, StageOK, TypesSound
  <2>2. QED
    BY <1>1, <1>2, <2>1 DEF ProcOK, RevocationOK
<1>8. QED
  BY <1>2, <1>3, <1>4, <1>5, <1>6, <1>7, AloneKeeps

\* The ways out of "sniff".
LEMMA SniffKeeps ==
  ASSUME ExchangeInv, NEW p \in Procs,
         \/ HandleTLS(p) \/ TerminateTLSDeferred(p) \/ NotHTTP(p) \/ ServeH2(p) \/ SniffFails(p) \/ Hangup(p)
  PROVE  ExchangeInv'
<1>1. CASE TerminateTLSDeferred(p)
  <2>1. x[p].pc = "sniff" /\ x[p].kind = "mitm" /\ x' = [x EXCEPT ![p].pc = "hold"]
    BY <1>1 DEF TerminateTLSDeferred, Begin, Step
  <2>2. QED
    BY <1>1, <2>1, BeginKeeps DEF TerminateTLSDeferred, Begin
<1>2. CASE ServeH2(p)
  <2>1. x[p].pc = "sniff" /\ x[p].kind = "h2" /\ x' = [x EXCEPT ![p].pc = "cascade"]
    BY <1>2 DEF ServeH2, Begin, Step
  <2>2. QED
    BY <1>2, <2>1, BeginKeeps DEF ServeH2, Begin
<1>3. CASE HandleTLS(p) \/ NotHTTP(p)
  <2>1. /\ x[p].pc = "sniff" /\ x' = [x EXCEPT ![p].pc = "tunnel"]
        /\ UNCHANGED <<serviceVars, hooks, rule, tracked, cancelled, rowVars, seenVars>>
    BY <1>3 DEF HandleTLS, NotHTTP, Begin, Step
  <2>2. TypesSound' /\ \A s \in Procs : ProcOK(s)'
    BY <2>1, RestKeeps DEF Resting, seenVars
  <2>3. RowsSound'
    BY <2>1 DEF ExchangeInv, RowsSound, rowVars, seenVars
  <2>4. QED
    BY <2>2, <2>3 DEF ExchangeInv
<1>4. CASE SniffFails(p) \/ Hangup(p)
  <2>1. /\ x[p].pc # "closed" /\ x' = [x EXCEPT ![p].pc = "closed"]
        /\ tracked' = [tracked EXCEPT ![p] = None]
        /\ UNCHANGED <<serviceVars, hooks, rule, cancelled, rowVars, seenVars>>
    BY <1>4 DEF SniffFails, Hangup
  <2>2. TypesSound' /\ \A s \in Procs : ProcOK(s)'
    BY <2>1, RestKeeps DEF Resting, seenVars
  <2>3. RowsSound'
    BY <2>1 DEF ExchangeInv, RowsSound, rowVars, seenVars
  <2>4. QED
    BY <2>2, <2>3 DEF ExchangeInv
<1>5. QED
  BY <1>1, <1>2, <1>3, <1>4

\* An exchange that is over without a row.
LEMMA OverKeeps ==
  ASSUME ExchangeInv, NEW p \in Procs, NEW keep, Over(p, keep), x[p].pc \notin {"closed", "sniff", "tunnel"},
         NEW w, w \notin {"upstream", "rewritten"}, Deliver(p, w),
         log' = log \/ \E e : log' = [log EXCEPT ![p] = @ \cup {e}],
         UNCHANGED <<serviceVars, hooks, rule, cancelled, saving, shown>>
  PROVE  ExchangeInv'
<1>1. PICK v \in {"closed", "idle"} :
        /\ x' = [x EXCEPT ![p].pc = v]
        /\ tracked' = IF v = "closed" THEN [tracked EXCEPT ![p] = None] ELSE tracked
  BY OverRests
<1>2. delivered' = [delivered EXCEPT ![Rid(p)] = w]
  BY DEF Deliver
<1>3. v \in Resting
  BY DEF Resting
<1>4. TypesSound' /\ (\A s \in Procs : ProcOK(s)') /\ DOMAIN delivered' = Rids /\ DOMAIN log' = Procs
  BY <1>1, <1>2, <1>3, RestKeeps
<1>5. RowsSound'
  BY <1>4 DEF ExchangeInv, RowsSound
<1>6. QED
  BY <1>4, <1>5 DEF ExchangeInv

\* The rules are looked at again.
LEMMA CheckedKeeps ==
  ASSUME ExchangeInv, NEW p \in Procs, CheckRequest(p) \/ HoldHook(p)
  PROVE  ExchangeInv'
<1>1. ProcOK(p)
  BY ExchangeOf
<1>2. PICK ok \in BOOLEAN :
        /\ Checked(p, ok) /\ x[p].pc \in {"check", "hold"}
        /\ ok /\ x[p].pc = "hold" => rule[x[p].host] # "deny"
  <2>1. CASE CheckRequest(p)
    BY <2>1 DEF CheckRequest
  <2>2. CASE HoldHook(p)
    BY <2>2 DEF HoldHook
  <2>3. QED
    BY <2>1, <2>2
<1>3. x[p].kind # "raw" /\ (x[p].kind = "mitm" => x[p].pc = "hold")
  BY <1>1, <1>2 DEF ProcOK, StageOK
<1>4. CASE ok
  <2>1. /\ x' = [x EXCEPT ![p].pc = "cascade"]
        /\ UNCHANGED <<serviceVars, hooks, rule, tracked, cancelled, rowVars, seenVars>>
    BY <1>2, <1>4 DEF Checked, Step, seenVars
  <2>2. QED
    BY <1>2, <1>3, <1>4, <2>1, BeginKeeps
<1>5. CASE ~ok
  BY <1>2, <1>5, OverKeeps DEF Checked, rowVars
<1>6. QED
  BY <1>4, <1>5
------------------------------------------------------------------------------
(* The cascades.                                                           *)

\* A hook is asked, or passed over.
LEMMA ConsultKeeps ==
  ASSUME ExchangeInv, NEW p \in Procs, Consult(p)
  PROVE  ExchangeInv'
<1> DEFINE hs == Hooks(hooks, x[p].phase)
           c == hs[x[p].i]
<1>1. /\ TypesSound /\ RowsSound /\ ProcOK(p) /\ x[p] \in Exchanges /\ hs \in Seq(Clients)
      /\ HookList(x[p].phase) = hs
  BY ExchangeOf
<1>2. x[p].pc = "cascade" /\ x[p].i \in 1 .. Len(hs) /\ c \in Clients /\ x[p].i - 1 \in Nat
  <2>1. x[p].pc = "cascade" /\ x[p].i <= Len(hs) /\ x[p].i \in Nat /\ x[p].i > 0
    BY <1>1 DEF Consult, Consulting, ProcOK, StageOK, Exchanges
  <2>2. QED
    BY <1>1, <2>1
<1>3. UNCHANGED <<hooks, rule, tracked, cancelled, rowVars, delivered, log>>
  BY DEF Consult
<1>4. Through(log[p], hs, x[p], x[p].phase, x[p].i - 1)
  BY <1>1, <1>2 DEF ProcOK, CascadeOK
<1>5. CASE MatchesFilter(Filters[c], x[p])
  <2> DEFINE r == [x[p] EXCEPT !.pc = "asking"]
  <2>1. x' = [x EXCEPT ![p] = r] /\ Ask(p, c, x[p].phase = "resp") /\ shown' = shown \cup {QuestionShows(p)}
    BY <1>1, <1>5 DEF Consult, Step
  <2>2. /\ r \in Exchanges /\ r.pc = "asking" /\ r.k = x[p].k /\ r.kind = x[p].kind /\ r.host = x[p].host
        /\ r.phase = x[p].phase /\ r.i = x[p].i /\ r.cred = x[p].cred /\ r.saved = x[p].saved
        /\ r.late = x[p].late
    BY <1>1, PcEffect DEF Stages
  <2> HIDE DEF r
  <2>3. /\ q' \in [Procs -> [open : BOOLEAN, c : Clients \cup {None}, resp : BOOLEAN]]
        /\ q'[p].open /\ q'[p].c = c /\ q'[p].resp = (x[p].phase = "resp")
        /\ \A s \in Procs \ {p} : q'[s] = q[s] /\ answer'[s] = answer[s]
    BY <1>1, <1>2, <2>1 DEF Ask, TypesSound
  <2>4. /\ n' \in [Procs -> 0 .. MaxSends] /\ said' \in [Procs -> Replies \cup {None}]
        /\ answer' \in [Procs -> Decisions \cup {None}]
    <3>1. n[p] + 1 \in 0 .. MaxSends
      BY <1>1, <2>1, ExchangeAssumption DEF Ask, TypesSound
    <3>2. QED
      BY <1>1, <2>1, <3>1 DEF Ask, TypesSound
  <2>5. StageOK(r, tracked[p], Started) /\ CredentialOK(r)
    BY <1>1, <1>2, <2>2 DEF ProcOK, StageOK, CredentialOK
  <2>6. CascadeOK(r, log[p], hooks)
    <3>1. Through(log[p], hs, r, r.phase, r.i - 1)
      BY <1>1, <1>4, <2>2, ThroughFrame
    <3>2. r.phase = "resp" => Through(log[p], hooks.req, r, "req", Len(hooks.req))
      BY <1>1, <1>2, <2>2, ThroughFrame DEF ProcOK, CascadeOK, TypesSound
    <3>3. QED
      BY <2>2, <3>1, <3>2 DEF CascadeOK
  <2>7. QuestionOK(r, q'[p], answer'[p], hooks)
    BY <1>2, <2>2, <2>3 DEF QuestionOK
  <2>8. DeliveryOK(r, log[p], hooks, Got(p)) /\ RevocationOK(r, tracked[p], p \in cancelled, rule)
    <3>1. Got(p)[r.k] = None /\ None \notin {"upstream", "rewritten"}
      BY <1>1, <1>2, <2>2, ExchangeAssumption DEF ProcOK, DeliveryOK
    <3>2. QED
      BY <1>1, <1>2, <2>2, <3>1 DEF ProcOK, DeliveryOK, RevocationOK
  <2>9. x' \in [Procs -> Exchanges] /\ \A s \in Procs : ProcOK(s)'
    BY <1>3, <2>1, <2>2, <2>3, <2>5, <2>6, <2>7, <2>8, LocalKeeps
  <2>10. RowsSound'
    <3>1. QuestionShows(p) = "placeholder"
      BY <1>1, <1>2 DEF ProcOK, CredentialOK, QuestionShows, RowShows, Exchanges
    <3>2. QED
      BY <1>1, <1>3, <2>1, <3>1 DEF RowsSound, rowVars
  <2>11. TypesSound'
    BY <1>1, <1>3, <2>3, <2>4, <2>9 DEF TypesSound
  <2>12. QED
    BY <2>9, <2>10, <2>11 DEF ExchangeInv
<1>6. CASE ~MatchesFilter(Filters[c], x[p])
  <2> DEFINE r == [x[p] EXCEPT !.i = @ + 1]
  <2>1. x' = [x EXCEPT ![p] = r] /\ UNCHANGED <<serviceVars, shown>>
    BY <1>1, <1>6 DEF Consult, Step
  <2>2. r \in Exchanges /\ r.late = x[p].late
    BY <1>1 DEF Exchanges
  <2>3. /\ r.pc = x[p].pc /\ r.k = x[p].k /\ r.kind = x[p].kind /\ r.host = x[p].host
        /\ r.phase = x[p].phase /\ r.i = x[p].i + 1 /\ r.cred = x[p].cred /\ r.saved = x[p].saved
    BY <1>1 DEF Exchanges
  <2> HIDE DEF r
  <2>4. StageOK(r, tracked[p], Started) /\ CredentialOK(r)
    BY <1>1, <1>2, <2>2, <2>3 DEF ProcOK, StageOK, CredentialOK
  <2>5. CascadeOK(r, log[p], hooks)
    <3>1. Through(log[p], hs, x[p], x[p].phase, (x[p].i - 1) + 1)
      BY <1>1, <1>2, <1>4, <1>6, ThroughSkip
    <3>2. (x[p].i - 1) + 1 = r.i - 1
      BY <1>2, <2>3
    <3>3. Through(log[p], hs, r, r.phase, r.i - 1)
      BY <1>1, <2>3, <3>1, <3>2, ThroughFrame
    <3>4. r.phase = "resp" => Through(log[p], hooks.req, r, "req", Len(hooks.req))
      BY <1>1, <1>2, <2>3, ThroughFrame DEF ProcOK, CascadeOK, TypesSound
    <3>5. QED
      BY <1>2, <2>3, <3>3, <3>4 DEF CascadeOK
  <2>6. DeliveryOK(r, log[p], hooks, Got(p)) /\ RevocationOK(r, tracked[p], p \in cancelled, rule)
    <3>1. Got(p)[r.k] = None /\ None \notin {"upstream", "rewritten"}
      BY <1>1, <1>2, <2>3, ExchangeAssumption DEF ProcOK, DeliveryOK
    <3>2. QED
      BY <1>1, <1>2, <2>2, <2>3, <3>1 DEF ProcOK, DeliveryOK, RevocationOK
  <2>7. QED
    BY <1>2, <1>3, <2>1, <2>2, <2>3, <2>4, <2>5, <2>6, AloneKeeps DEF seenVars
<1>7. QED
  BY <1>5, <1>6

\* The answer of a hook lets the exchange go on to the next hook.
LEMMA GoOnKeeps ==
  ASSUME ExchangeInv, NEW p \in Procs, NEW r \in Exchanges, x' = [x EXCEPT ![p] = r],
         Acting(p, x[p].phase), answer[p].action # Stops(x[p].phase),
         r.pc = "cascade", r.k = x[p].k, r.kind = x[p].kind, r.host = x[p].host, r.phase = x[p].phase,
         r.i = x[p].i + 1, r.cred = x[p].cred, r.saved = x[p].saved, r.late = x[p].late,
         UNCHANGED <<tracked, delivered>>
  PROVE  ExchangeInv'
<1> DEFINE hs == Hooks(hooks, x[p].phase)
           e == Decided(p, answer[p])
<1>1. /\ TypesSound /\ RowsSound /\ ProcOK(p) /\ x[p] \in Exchanges /\ hs \in Seq(Clients)
      /\ hooks.req \in Seq(Clients)
  BY ExchangeOf
<1>2. /\ x[p].pc = "asking" /\ ~q[p].open /\ log' = [log EXCEPT ![p] = @ \cup {e}]
      /\ UNCHANGED <<serviceVars, hooks, rule, cancelled, saving, rows, swept, shown>>
  BY DEF Acting
<1>3. x[p].i \in 1 .. Len(hs) /\ Proper(answer[p], hs[x[p].i], x[p].phase) /\ x[p].i - 1 \in Nat
  BY <1>1, <1>2 DEF ProcOK, QuestionOK
<1>4. log'[p] = log[p] \cup {e} /\ DOMAIN log' = Procs /\ \A s \in Procs \ {p} : log'[s] = log[s]
  BY <1>1, <1>2 DEF RowsSound
<1>5. e.phase = x[p].phase /\ e.i = x[p].i /\ e.action = answer[p].action /\ e.fallback = answer[p].fallback
  BY DEF Decided
<1>6. StageOK(r, tracked[p], Started) /\ CredentialOK(r)
  BY <1>1, <1>2, <1>3 DEF ProcOK, StageOK, CredentialOK
<1>7. CascadeOK(r, log'[p], hooks)
  <2>1. Through(log[p], hs, x[p], x[p].phase, x[p].i - 1)
    BY <1>1, <1>2 DEF ProcOK, CascadeOK
  <2>2. Through(log'[p], hs, x[p], x[p].phase, (x[p].i - 1) + 1)
    <3>1. (x[p].i - 1) + 1 = x[p].i /\ x[p].phase \in {"req", "resp"}
      BY <1>1, <1>3 DEF Exchanges
    <3>2. e.fallback => e.action = Default(Policy[hs[x[p].i]], x[p].phase = "resp")
      BY <1>3, <1>5 DEF Proper
    <3> HIDE DEF e
    <3>3. Through(log[p] \cup {e}, hs, x[p], x[p].phase, (x[p].i - 1) + 1)
      BY <1>1, <1>3, <1>5, <2>1, <3>1, <3>2, ThroughDecision
    <3>4. QED
      BY <1>4, <3>3
  <2>3. Through(log'[p], hs, r, r.phase, r.i - 1)
    <3>1. (x[p].i - 1) + 1 = r.i - 1
      BY <1>3
    <3>2. QED
      BY <1>1, <2>2, <3>1, ThroughFrame
  <2>4. r.phase = "resp" => Through(log'[p], hooks.req, r, "req", Len(hooks.req))
    <3>1. r.phase = "resp" => Through(log[p], hooks.req, x[p], "req", Len(hooks.req))
      BY <1>1, <1>2 DEF ProcOK, CascadeOK
    <3>2. r.phase = "resp" => Through(log[p], hooks.req, r, "req", Len(hooks.req))
      BY <1>1, <3>1, ThroughFrame
    <3>3. QED
      BY <1>1, <1>4, <3>2, ThroughMore
  <2>5. QED
    BY <2>3, <2>4 DEF CascadeOK
<1>8. DeliveryOK(r, log'[p], hooks, Got(p)) /\ RevocationOK(r, tracked[p], p \in cancelled, rule)
  <2>1. Got(p)[r.k] = None /\ None \notin {"upstream", "rewritten"}
    BY <1>1, <1>2, ExchangeAssumption DEF ProcOK, DeliveryOK
  <2>2. QED
    BY <1>1, <1>2, <2>1 DEF ProcOK, DeliveryOK, RevocationOK
<1>9. QuestionOK(r, q'[p], answer'[p], hooks)
  BY DEF QuestionOK
<1>10. x' \in [Procs -> Exchanges] /\ \A s \in Procs : ProcOK(s)'
  BY <1>2, <1>4, <1>6, <1>7, <1>8, <1>9, LocalKeeps DEF serviceVars
<1>11. TypesSound' /\ RowsSound'
  BY <1>1, <1>2, <1>4, <1>10 DEF TypesSound, RowsSound, serviceVars
<1>12. QED
  BY <1>10, <1>11 DEF ExchangeInv

\* The switch of runRequestCascade.
LEMMA ActOnRequestKeeps ==
  ASSUME ExchangeInv, NEW p \in Procs, ActOnRequest(p)
  PROVE  ExchangeInv'
<1>1. x[p] \in Exchanges /\ Acting(p, "req") /\ x[p].pc = "asking" /\ x[p].phase = "req"
  BY ExchangeOf DEF ActOnRequest, Acting
<1>2. CASE Denies(answer[p])
  <2>1. Over(p, FALSE) /\ Deliver(p, "refused")
    BY <1>2 DEF ActOnRequest
  <2>2. \E e : log' = [log EXCEPT ![p] = @ \cup {e}]
    BY <1>1 DEF Acting
  <2>3. UNCHANGED <<serviceVars, hooks, rule, cancelled, saving, shown>>
    BY <1>1 DEF Acting
  <2>4. QED
    BY <1>1, <2>1, <2>2, <2>3, OverKeeps
<1>3. CASE ~Denies(answer[p])
  <2> DEFINE r == [x[p] EXCEPT !.pc = "cascade", !.i = @ + 1]
  <2>1. x' = [x EXCEPT ![p] = r] /\ UNCHANGED <<tracked, delivered>>
    BY <1>3 DEF ActOnRequest, Step
  <2>2. r \in Exchanges /\ r.late = x[p].late
    <3>1. "cascade" \in Stages /\ x[p].i + 1 \in Nat
      BY <1>1 DEF Exchanges, Stages
    <3>2. r \in Exchanges
      BY <1>1, <3>1 DEF Exchanges
    <3>3. QED
      BY <1>1, <3>2 DEF Exchanges
  <2>3. /\ r.pc = "cascade" /\ r.k = x[p].k /\ r.kind = x[p].kind /\ r.host = x[p].host
        /\ r.phase = x[p].phase /\ r.i = x[p].i + 1 /\ r.cred = x[p].cred /\ r.saved = x[p].saved
    BY <1>1 DEF Exchanges
  <2>4. answer[p].action # Stops(x[p].phase)
    BY <1>1, <1>3 DEF Denies, Stops
  <2> HIDE DEF r
  <2>5. QED
    BY <1>1, <2>1, <2>2, <2>3, <2>4, GoOnKeeps
<1>4. QED
  BY <1>2, <1>3

\* The switch of runResponseCascade.
LEMMA ActOnResponseKeeps ==
  ASSUME ExchangeInv, NEW p \in Procs, ActOnResponse(p)
  PROVE  ExchangeInv'
<1>1. /\ x[p] \in Exchanges /\ Acting(p, "resp") /\ x[p].pc = "asking" /\ x[p].phase = "resp"
      /\ TypesSound /\ RowsSound /\ ProcOK(p) /\ hooks.req \in Seq(Clients)
  BY ExchangeOf DEF ActOnResponse, Acting
<1>2. UNCHANGED <<serviceVars, hooks, rule, cancelled, saving, rows, swept, shown>>
  BY <1>1 DEF Acting
<1>3. CASE Blocks(answer[p]) /\ x[p].kind # "plain"
  <2>1. Over(p, FALSE) /\ Deliver(p, "blocked")
    BY <1>3 DEF ActOnResponse
  <2>2. \E e : log' = [log EXCEPT ![p] = @ \cup {e}]
    BY <1>1 DEF Acting
  <2>3. QED
    BY <1>1, <1>2, <2>1, <2>2, OverKeeps
<1>4. CASE Blocks(answer[p]) /\ x[p].kind = "plain"
  <2> DEFINE r == [x[p] EXCEPT !.pc = "write", !.reply = "blocked"]
  <2>1. x' = [x EXCEPT ![p] = r] /\ UNCHANGED <<tracked, delivered>>
    BY <1>4 DEF ActOnResponse, Step
  <2>2. r \in Exchanges /\ r.late = x[p].late
    BY <1>1 DEF Exchanges, Stages, Bodies
  <2>3. /\ r.pc = "write" /\ r.k = x[p].k /\ r.kind = x[p].kind /\ r.host = x[p].host /\ r.reply = "blocked"
        /\ r.phase = x[p].phase /\ r.i = x[p].i /\ r.cred = x[p].cred /\ r.saved = x[p].saved
    BY <1>1 DEF Exchanges
  <2> HIDE DEF r
  <2>4. log[p] \subseteq log'[p] /\ DOMAIN log' = Procs /\ \A s \in Procs \ {p} : log'[s] = log[s]
    BY <1>1 DEF RowsSound, Acting
  <2>5. StageOK(r, tracked[p], Started) /\ CredentialOK(r)
    BY <1>1, <1>4, <2>2, <2>3 DEF ProcOK, StageOK, CredentialOK
  <2>6. CascadeOK(r, log'[p], hooks) /\ QuestionOK(r, q'[p], answer'[p], hooks)
    <3>1. Through(log[p], hooks.req, x[p], "req", Len(hooks.req))
      BY <1>1 DEF ProcOK, CascadeOK
    <3>2. Through(log'[p], hooks.req, r, "req", Len(hooks.req))
      <4>1. Through(log[p], hooks.req, r, "req", Len(hooks.req))
        BY <1>1, <2>3, <3>1, ThroughFrame
      <4>2. QED
        BY <1>1, <2>4, <4>1, ThroughMore
    <3>3. QED
      BY <2>3, <3>2 DEF CascadeOK, QuestionOK
  <2>7. DeliveryOK(r, log'[p], hooks, Got(p)) /\ RevocationOK(r, tracked[p], p \in cancelled, rule)
    <3>1. Got(p)[r.k] = None /\ None \notin {"upstream", "rewritten"}
      BY <1>1, <2>3, ExchangeAssumption DEF ProcOK, DeliveryOK
    <3>2. QED
      BY <1>1, <2>2, <2>3, <3>1 DEF ProcOK, DeliveryOK, RevocationOK
  <2>8. x' \in [Procs -> Exchanges] /\ \A s \in Procs : ProcOK(s)'
    BY <1>2, <2>1, <2>2, <2>4, <2>5, <2>6, <2>7, LocalKeeps DEF serviceVars
  <2>9. TypesSound' /\ RowsSound'
    BY <1>1, <1>2, <2>1, <2>4, <2>8 DEF TypesSound, RowsSound, serviceVars
  <2>10. QED
    BY <2>8, <2>9 DEF ExchangeInv
<1>5. CASE ~Blocks(answer[p])
  <2> DEFINE reply == IF answer[p].action = "rewrite" THEN "rewritten" ELSE x[p].reply
             r == [x[p] EXCEPT !.pc = "cascade", !.i = @ + 1, !.reply = reply]
  <2>1. x' = [x EXCEPT ![p] = r] /\ UNCHANGED <<tracked, delivered>>
    BY <1>5 DEF ActOnResponse, Step
  <2>2. reply \in Bodies
    BY <1>1 DEF Exchanges, Bodies
  <2> HIDE DEF reply
  <2>3. r \in Exchanges /\ r.late = x[p].late
    <3>1. "cascade" \in Stages /\ x[p].i + 1 \in Nat
      BY <1>1 DEF Exchanges, Stages
    <3>2. r \in Exchanges
      BY <1>1, <2>2, <3>1 DEF Exchanges
    <3>3. QED
      BY <1>1, <3>2 DEF Exchanges
  <2>4. /\ r.pc = "cascade" /\ r.k = x[p].k /\ r.kind = x[p].kind /\ r.host = x[p].host
        /\ r.phase = x[p].phase /\ r.i = x[p].i + 1 /\ r.cred = x[p].cred /\ r.saved = x[p].saved
    BY <1>1 DEF Exchanges
  <2>5. answer[p].action # Stops(x[p].phase)
    BY <1>1, <1>5 DEF Blocks, Stops
  <2> HIDE DEF r
  <2>6. QED
    BY <1>1, <2>1, <2>3, <2>4, <2>5, GoOnKeeps
<1>6. QED
  BY <1>3, <1>4, <1>5
------------------------------------------------------------------------------
(* Upstream, the client and the row.                                       *)

\* A request leaves with the hooks behind it; only if its connection is not
\* cancelled, or on the intercepted path.
LEMMA ForwardKeeps ==
  ASSUME ExchangeInv, NEW p \in Procs, ForwardPlain(p) \/ ForwardMitm(p) \/ ForwardH2(p)
  PROVE  ExchangeInv'
<1>1. PICK cred \in Creds :
        /\ x' = [x EXCEPT ![p] = [x[p] EXCEPT !.cred = cred, !.pc = "upstream"]]
        /\ x[p].kind = "plain" => cred = x[p].cred
        /\ CascadeDone(p, "req") /\ ~Interrupted(p)
        /\ UNCHANGED <<serviceVars, hooks, rule, tracked, cancelled, rowVars, seenVars>>
  <2>1. x[p] \in Exchanges
    BY ExchangeOf
  <2>2. CASE ForwardPlain(p)
    <3>1. x' = [x EXCEPT ![p] = [x[p] EXCEPT !.pc = "upstream"]] /\ x[p].cred \in Creds
      BY <2>1, <2>2 DEF ForwardPlain, Forward, Step, Exchanges
    <3>2. [x[p] EXCEPT !.pc = "upstream"] = [x[p] EXCEPT !.cred = x[p].cred, !.pc = "upstream"]
      BY <2>1 DEF Exchanges
    <3>3. QED
      BY <2>2, <3>1, <3>2 DEF ForwardPlain, Forward
  <2>3. CASE ForwardMitm(p) \/ ForwardH2(p)
    <3>1. x' = [x EXCEPT ![p] = [x[p] EXCEPT !.cred = "real", !.pc = "upstream"]] /\ "real" \in Creds
      BY <2>3 DEF ForwardMitm, ForwardH2, Forward, Step, Substitute, Creds
    <3>2. QED
      BY <2>3, <3>1 DEF ForwardMitm, ForwardH2, Forward
  <2>4. QED
    BY <2>2, <2>3
<1> DEFINE r == [x[p] EXCEPT !.cred = cred, !.pc = "upstream"]
<1>2. /\ TypesSound /\ ProcOK(p) /\ x[p] \in Exchanges /\ hooks.req \in Seq(Clients)
      /\ x[p].pc = "cascade" /\ x[p].phase = "req" /\ x[p].i > Len(hooks.req) /\ x[p].i \in Nat
  BY <1>1, ExchangeOf DEF CascadeDone, HookList, Exchanges
<1>3. r \in Exchanges /\ r.late = x[p].late
  <2>1. "upstream" \in Stages
    BY DEF Stages
  <2>2. QED
    BY <1>2, <2>1 DEF Exchanges
<1>4. /\ r.pc = "upstream" /\ r.k = x[p].k /\ r.kind = x[p].kind /\ r.host = x[p].host
      /\ r.phase = x[p].phase /\ r.i = x[p].i /\ r.saved = x[p].saved /\ r.cred = cred
  BY <1>2 DEF Exchanges
<1>5. x' = [x EXCEPT ![p] = r]
  BY <1>1
<1> HIDE DEF r
<1>6. StageOK(r, tracked[p], Started) /\ CredentialOK(r)
  BY <1>1, <1>2, <1>4 DEF ProcOK, StageOK, CredentialOK
<1>7. CascadeOK(r, log[p], hooks)
  <2>1. Through(log[p], hooks.req, x[p], "req", x[p].i - 1)
    BY <1>2 DEF ProcOK, CascadeOK, Hooks
  <2>2. Len(hooks.req) \in Nat /\ x[p].i - 1 \in Nat /\ Len(hooks.req) <= x[p].i - 1
    BY <1>2
  <2>3. Through(log[p], hooks.req, x[p], "req", Len(hooks.req))
    BY <1>2, <2>1, <2>2, ThroughAll
  <2>4. Through(log[p], hooks.req, r, "req", Len(hooks.req))
    BY <1>2, <1>4, <2>3, ThroughFrame
  <2>5. QED
    BY <1>4, <2>4 DEF CascadeOK
<1>8. DeliveryOK(r, log[p], hooks, Got(p))
  BY <1>2, <1>4 DEF ProcOK, DeliveryOK
<1>9. RevocationOK(r, tracked[p], p \in cancelled, rule)
  <2>1. x[p].late => x[p].kind = "mitm"
    BY <1>1, <1>2 DEF ProcOK, RevocationOK, Interrupted
  <2>2. QED
    BY <1>2, <1>3, <1>4, <2>1 DEF ProcOK, RevocationOK
<1>10. QED
  BY <1>1, <1>3, <1>4, <1>5, <1>6, <1>7, <1>8, <1>9, AloneKeeps

\* The response starts its own cascade.
LEMMA RespondKeeps ==
  ASSUME ExchangeInv, NEW p \in Procs, Respond(p)
  PROVE  ExchangeInv'
<1> DEFINE r == [x[p] EXCEPT !.pc = "cascade", !.phase = "resp", !.i = 1, !.reply = "upstream"]
<1>1. /\ TypesSound /\ ProcOK(p) /\ x[p] \in Exchanges /\ hooks.req \in Seq(Clients)
      /\ hooks.resp \in Seq(Clients) /\ x[p].pc = "upstream"
  BY ExchangeOf DEF Respond
<1>2. r \in Exchanges /\ r.late = x[p].late
  <2>1. "cascade" \in Stages /\ "upstream" \in Bodies
    BY DEF Stages, Bodies
  <2>2. QED
    BY <1>1, <2>1 DEF Exchanges
<1>3. /\ r.pc = "cascade" /\ r.k = x[p].k /\ r.kind = x[p].kind /\ r.host = x[p].host
      /\ r.phase = "resp" /\ r.i = 1 /\ r.saved = x[p].saved /\ r.cred = x[p].cred
  BY <1>1 DEF Exchanges
<1>4. /\ x' = [x EXCEPT ![p] = r]
      /\ UNCHANGED <<serviceVars, hooks, rule, tracked, cancelled, rowVars, seenVars>>
  BY DEF Respond, Step
<1> HIDE DEF r
<1>5. StageOK(r, tracked[p], Started) /\ CredentialOK(r)
  BY <1>1, <1>3 DEF ProcOK, StageOK, CredentialOK
<1>6. CascadeOK(r, log[p], hooks)
  <2>1. Through(log[p], hooks.req, r, "req", Len(hooks.req))
    BY <1>1, <1>3, ThroughFrame DEF ProcOK, CascadeOK
  <2>2. Through(log[p], hooks.resp, r, "resp", 0)
    BY <1>1, ThroughNone
  <2>3. QED
    BY <1>3, <2>1, <2>2 DEF CascadeOK, Hooks
<1>7. DeliveryOK(r, log[p], hooks, Got(p))
  <2>1. Got(p)[r.k] = None /\ None \notin {"upstream", "rewritten"}
    BY <1>1, <1>3, ExchangeAssumption DEF ProcOK, DeliveryOK
  <2>2. QED
    BY <1>1, <1>3, <2>1 DEF ProcOK, DeliveryOK
<1>8. RevocationOK(r, tracked[p], p \in cancelled, rule)
  BY <1>1, <1>2, <1>3 DEF ProcOK, RevocationOK
<1>9. QED
  BY <1>2, <1>3, <1>4, <1>5, <1>6, <1>7, <1>8, AloneKeeps

\* The round trip fails, or a plain upgrade that finds no body left.
LEMMA FailureKeeps ==
  ASSUME ExchangeInv, NEW p \in Procs, RoundTripFails(p) \/ SwitchProtocolsPlain(p)
  PROVE  ExchangeInv'
<1>1. x[p].pc \in {"cascade", "upstream"}
  BY DEF RoundTripFails, SwitchProtocolsPlain, CascadeDone
<1>2. CASE RoundTripFails(p) \/ (SwitchProtocolsPlain(p) /\ hooks.resp # <<>>)
  <2>1. /\ Over(p, FALSE) /\ Deliver(p, "failed") /\ log' = log
        /\ UNCHANGED <<serviceVars, hooks, rule, cancelled, saving, shown>>
    BY <1>2 DEF RoundTripFails, SwitchProtocolsPlain, rowVars
  <2>2. QED
    BY <1>1, <2>1, OverKeeps
<1>3. CASE SwitchProtocolsPlain(p) /\ hooks.resp = <<>>
  <2>1. /\ x' = [x EXCEPT ![p].pc = "tunnel"] /\ delivered' = [delivered EXCEPT ![Rid(p)] = "upgraded"]
        /\ UNCHANGED <<serviceVars, hooks, rule, tracked, cancelled, rowVars, log, shown>>
    BY <1>3 DEF SwitchProtocolsPlain, Upgrade, Step, Deliver
  <2>2. TypesSound' /\ (\A s \in Procs : ProcOK(s)') /\ DOMAIN delivered' = Rids
    <3>1. "tunnel" \in Resting /\ "tunnel" # "closed" /\ x[p].pc # "closed"
      BY <1>1 DEF Resting
    <3>2. \E w : /\ delivered' = [delivered EXCEPT ![Rid(p)] = w]
                 /\ w \in {"upstream", "rewritten"} =>
                      Through(log[p], hooks.resp, x[p], "resp", Len(hooks.resp))
      <4>1. "upgraded" \notin {"upstream", "rewritten"}
        OBVIOUS
      <4> WITNESS "upgraded"
      <4>2. QED
        BY <2>1, <4>1
    <3>3. /\ tracked' = IF "tunnel" = "closed" THEN [tracked EXCEPT ![p] = None] ELSE tracked
          /\ log' = log
      BY <2>1
    <3>4. QED
      BY <1>1, <2>1, <3>1, <3>2, <3>3, RestKeeps
  <2>3. RowsSound'
    BY <2>1, <2>2 DEF ExchangeInv, RowsSound, rowVars
  <2>4. QED
    BY <2>2, <2>3 DEF ExchangeInv
<1>4. QED
  BY <1>2, <1>3

\* An exchange ends with something saved for its row.
LEMMA SavedKeeps ==
  ASSUME ExchangeInv, NEW p \in Procs, NEW v \in Resting,
         x[p].pc \in {"cascade", "write", "upstream"},
         x' = [x EXCEPT ![p].pc = v],
         tracked' = IF v = "closed" THEN [tracked EXCEPT ![p] = None] ELSE tracked,
         \/ delivered' = delivered
         \/ \E w : /\ delivered' = [delivered EXCEPT ![Rid(p)] = w]
                   /\ w \in {"upstream", "rewritten"} =>
                        Through(log[p], hooks.resp, x[p], "resp", Len(hooks.resp)),
         saving' = saving \/ \E info : info.cred = RowShows(p) /\ Save(p, info),
         UNCHANGED <<serviceVars, hooks, rule, cancelled, log, shown>>
  PROVE  ExchangeInv'
<1>1. TypesSound' /\ (\A s \in Procs : ProcOK(s)') /\ DOMAIN delivered' = Rids /\ DOMAIN log' = Procs
  BY RestKeeps
<1>2. DOMAIN saving' = Rids /\ \A rid \in Rids : saving'[rid] # None => saving'[rid].cred = "placeholder"
  <2>1. CASE saving' = saving
    BY <2>1 DEF ExchangeInv, RowsSound
  <2>2. CASE saving' # saving
    BY <2>2, SaveKeeps
  <2>3. QED
    BY <2>1, <2>2
<1>3. RowsSound'
  BY <1>1, <1>2 DEF ExchangeInv, RowsSound
<1>4. QED
  BY <1>1, <1>3 DEF ExchangeInv

\* The reply is ready only after the response hooks, or it is the block page.
LEMMA ReadyThrough ==
  ASSUME ExchangeInv, NEW p \in Procs, Ready(p)
  PROVE  /\ x[p].pc \in {"cascade", "write"}
         /\ x[p].reply \in {"upstream", "rewritten"} =>
              Through(log[p], hooks.resp, x[p], "resp", Len(hooks.resp))
<1>1. ProcOK(p) /\ x[p] \in Exchanges /\ hooks.resp \in Seq(Clients)
  BY ExchangeOf
<1>2. CASE CascadeDone(p, "resp")
  <2>1. x[p].pc = "cascade" /\ x[p].phase = "resp" /\ x[p].i > Len(hooks.resp) /\ x[p].i \in Nat
    BY <1>1, <1>2 DEF CascadeDone, HookList, Exchanges
  <2>2. Through(log[p], hooks.resp, x[p], "resp", x[p].i - 1)
    BY <1>1, <2>1 DEF ProcOK, CascadeOK, Hooks
  <2>3. Len(hooks.resp) \in Nat /\ x[p].i - 1 \in Nat /\ Len(hooks.resp) <= x[p].i - 1
    BY <1>1, <2>1
  <2>4. QED
    BY <1>1, <2>1, <2>2, <2>3, ThroughAll
<1>3. CASE x[p].pc = "write"
  BY <1>1, <1>3 DEF ProcOK, StageOK
<1>4. QED
  BY <1>2, <1>3 DEF Ready

\* The reply is written, the client is gone, or an intercepted exchange switches protocols.
LEMMA WriteKeeps ==
  ASSUME ExchangeInv, NEW p \in Procs, NEW keep \in BOOLEAN,
         WriteReplyPlain(p, keep) \/ WriteReplyTLS(p, keep) \/ WriteFails(p) \/ SwitchProtocolsMitm(p)
  PROVE  ExchangeInv'
<1>1. Info(p).cred = RowShows(p)
  BY DEF Info
<1>2. CASE WriteReplyPlain(p, keep)
  <2>1. PICK v \in {"store", "storeclose"} : x' = [x EXCEPT ![p].pc = v]
    BY <1>2 DEF WriteReplyPlain, Step
  <2>2. /\ delivered' = [delivered EXCEPT ![Rid(p)] = x[p].reply] /\ Save(p, Info(p)) /\ Ready(p)
        /\ UNCHANGED <<serviceVars, hooks, rule, tracked, cancelled, log, shown>>
    BY <1>2 DEF WriteReplyPlain, Deliver
  <2>3. QED
    BY <1>1, <2>1, <2>2, ReadyThrough, SavedKeeps DEF Resting
<1>3. CASE WriteReplyTLS(p, keep)
  <2>1. PICK v \in {"closed", "idle"} :
          /\ x' = [x EXCEPT ![p].pc = v]
          /\ tracked' = IF v = "closed" THEN [tracked EXCEPT ![p] = None] ELSE tracked
    BY <1>3, OverRests DEF WriteReplyTLS
  <2>2. /\ delivered' = [delivered EXCEPT ![Rid(p)] = x[p].reply] /\ Save(p, Info(p)) /\ Ready(p)
        /\ UNCHANGED <<serviceVars, hooks, rule, cancelled, log, shown>>
    BY <1>3 DEF WriteReplyTLS, Deliver
  <2>3. QED
    BY <1>1, <2>1, <2>2, ReadyThrough, SavedKeeps DEF Resting
<1>4. CASE WriteFails(p)
  <2>1. PICK v \in {"closed", "idle", "storeclose"} :
          /\ x' = [x EXCEPT ![p].pc = v]
          /\ tracked' = IF v = "closed" THEN [tracked EXCEPT ![p] = None] ELSE tracked
    <3>1. CASE x[p].kind = "plain"
      BY <1>4, <3>1 DEF WriteFails, Step
    <3>2. CASE x[p].kind # "plain"
      <4>1. Over(p, FALSE)
        BY <1>4, <3>2 DEF WriteFails
      <4>2. QED
        BY <4>1, OverRests
    <3>3. QED
      BY <3>1, <3>2
  <2>2. /\ saving' = saving \/ Save(p, Info(p))
        /\ Ready(p) /\ UNCHANGED <<serviceVars, hooks, rule, cancelled, log, shown, delivered>>
    BY <1>4 DEF WriteFails, seenVars
  <2>3. QED
    BY <1>1, <2>1, <2>2, ReadyThrough, SavedKeeps DEF Resting
<1>5. CASE SwitchProtocolsMitm(p)
  <2> DEFINE info == [Info(p) EXCEPT !.reply = "upgraded"]
  <2>1. /\ x' = [x EXCEPT ![p].pc = "tunnel"] /\ delivered' = [delivered EXCEPT ![Rid(p)] = "upgraded"]
        /\ Save(p, info) /\ x[p].pc = "upstream"
        /\ UNCHANGED <<serviceVars, hooks, rule, tracked, cancelled, log, shown>>
    BY <1>5 DEF SwitchProtocolsMitm, Upgrade, Step, Deliver
  <2>2. info.cred = RowShows(p)
    BY DEF Info
  <2> HIDE DEF info
  <2>3. "tunnel" \in Resting /\ x[p].pc \in {"cascade", "write", "upstream"}
    BY <2>1 DEF Resting
  <2>4. \E w : /\ delivered' = [delivered EXCEPT ![Rid(p)] = w]
               /\ w \in {"upstream", "rewritten"} =>
                    Through(log[p], hooks.resp, x[p], "resp", Len(hooks.resp))
    <3>1. "upgraded" \notin {"upstream", "rewritten"}
      OBVIOUS
    <3> WITNESS "upgraded"
    <3>2. QED
      BY <2>1, <3>1
  <2>5. tracked' = IF "tunnel" = "closed" THEN [tracked EXCEPT ![p] = None] ELSE tracked
    BY <2>1
  <2>6. QED
    BY <2>1, <2>2, <2>3, <2>4, <2>5, SavedKeeps
<1>6. QED
  BY <1>2, <1>3, <1>4, <1>5

\* The row is written or lost; a plain connection goes on or closes.
LEMMA StoreKeeps ==
  ASSUME ExchangeInv, NEW rid \in Rids, Store(rid) \/ StoreFails(rid)
  PROVE  ExchangeInv'
<1> DEFINE p == rid[1]
<1>1. p \in Procs /\ TypesSound /\ RowsSound
  BY RidType DEF ExchangeInv
<1>2. /\ saving[rid] # None /\ saving' = [saving EXCEPT ![rid] = None] /\ AfterStore(rid)
      /\ shown' = shown \/ shown' = shown \cup {saving[rid].cred}
      /\ UNCHANGED <<serviceVars, hooks, rule, cancelled, delivered, log>>
  BY DEF Store, StoreFails, seenVars
<1>3. /\ DOMAIN saving' = Rids /\ \A i \in Rids : saving'[i] # None => saving'[i].cred = "placeholder"
      /\ shown' \subseteq {"placeholder"}
  BY <1>1, <1>2 DEF RowsSound
<1>4. TypesSound' /\ \A s \in Procs : ProcOK(s)'
  <2>1. CASE x[p].k = rid[2] /\ x[p].pc \in {"store", "storeclose"}
    <3>1. Over(p, x[p].pc = "store")
      BY <1>2, <2>1 DEF AfterStore
    <3>2. PICK v \in {"closed", "idle"} :
            /\ x' = [x EXCEPT ![p].pc = v]
            /\ tracked' = IF v = "closed" THEN [tracked EXCEPT ![p] = None] ELSE tracked
      BY <1>1, <3>1, OverRests
    <3> HIDE DEF p
    <3>3. QED
      BY <1>1, <1>2, <2>1, <3>2, RestKeeps DEF Resting
  <2>2. CASE ~(x[p].k = rid[2] /\ x[p].pc \in {"store", "storeclose"})
    <3>1. UNCHANGED <<x, tracked>>
      BY <1>2, <2>2 DEF AfterStore
    <3>2. TypesSound'
      BY <1>1, <1>2, <3>1 DEF TypesSound, serviceVars
    <3>3. ASSUME NEW s \in Procs PROVE ProcOK(s)'
      BY <1>2, <3>1 DEF ExchangeInv, ProcOK, Started, Got, serviceVars
    <3>4. QED
      BY <3>2, <3>3
  <2>3. QED
    BY <2>1, <2>2
<1>5. RowsSound'
  BY <1>1, <1>2, <1>3 DEF RowsSound
<1>6. QED
  BY <1>4, <1>5 DEF ExchangeInv

\* A rule is revoked: the connections registered under it are cancelled.
LEMMA RevokeKeeps ==
  ASSUME ExchangeInv, NEW h \in Hosts, NEW to \in {"none", "deny"}, Revoke(h, to)
  PROVE  ExchangeInv'
<1>1. TypesSound /\ RowsSound
  BY DEF ExchangeInv
<1>2. /\ rule[h] = "allow" /\ rule' = [rule EXCEPT ![h] = to]
      /\ cancelled' = cancelled \cup {p \in Procs : tracked[p] = h}
      /\ UNCHANGED <<serviceVars, hooks, tracked, x, rowVars, seenVars>>
  BY DEF Revoke
<1>3. TypesSound' /\ RowsSound'
  BY <1>1, <1>2 DEF TypesSound, RowsSound, serviceVars, rowVars, seenVars
<1>4. ASSUME NEW s \in Procs PROVE ProcOK(s)'
  <2>1. ProcOK(s) /\ x' = x /\ tracked' = tracked
    BY <1>2 DEF ExchangeInv
  <2>2. \A g \in Hosts : rule'[g] = IF g = h THEN to ELSE rule[g]
    BY <1>1, <1>2 DEF TypesSound
  <2>3. s \in cancelled' <=> s \in cancelled \/ tracked[s] = h
    BY <1>2
  <2>4. RevocationOK(x[s], tracked[s], s \in cancelled', rule')
    <3>1. x[s].pc # "closed" => x[s].host \in Hosts /\ tracked[s] \in Hosts
      BY <2>1 DEF ProcOK, StageOK
    <3>2. QED
      BY <1>2, <2>1, <2>2, <2>3, <3>1 DEF ProcOK, RevocationOK
  <2>5. Started' = Started /\ Got(s)' = Got(s) /\ UNCHANGED <<q, answer, log, hooks>>
    BY <1>2 DEF Started, Got, serviceVars, seenVars
  <2>6. QED
    BY <2>1, <2>4, <2>5 DEF ProcOK
<1>5. QED
  BY <1>3, <1>4 DEF ExchangeInv

\* The middleware says something, or Send returns.
LEMMA ServeKeeps ==
  ASSUME ExchangeInv, Serve
  PROVE  ExchangeInv'
<1>1. /\ TypesSound /\ RowsSound
      /\ UNCHANGED <<hooks, rule, tracked, cancelled, x, saving, delivered, log, shown>>
  BY DEF ExchangeInv, Serve, exchangeVars, connVars, rowVars, seenVars
<1>2. RowsSound'
  BY <1>1 DEF RowsSound
<1>3. CASE \E p \in Procs, a \in Replies : Say(p, a)
  <2>1. TypesSound' /\ UNCHANGED <<q, answer>>
    BY <1>1, <1>3 DEF Say, TypesSound
  <2>2. ASSUME NEW s \in Procs PROVE ProcOK(s)'
    BY <1>1, <2>1 DEF ExchangeInv, ProcOK, Started, Got
  <2>3. QED
    BY <1>2, <2>1, <2>2 DEF ExchangeInv
<1>4. ASSUME NEW p \in Procs, NEW d \in Decisions, Answer(p, d) PROVE ExchangeInv'
  <2>1. /\ q' \in [Procs -> [open : BOOLEAN, c : Clients \cup {None}, resp : BOOLEAN]]
        /\ ~q'[p].open /\ q[p].open
        /\ answer' \in [Procs -> Decisions \cup {None}] /\ answer'[p] = d
        /\ \A s \in Procs \ {p} : q'[s] = q[s] /\ answer'[s] = answer[s]
    BY <1>1, <1>4 DEF Answer, TypesSound, NoQuestion
  <2>2. TypesSound'
    BY <1>1, <1>4, <2>1 DEF Answer, TypesSound
  <2>3. ProcOK(p) /\ Got(p)' = Got(p) /\ Started' = Started
    BY <1>1 DEF ExchangeInv, Got, Started
  <2>4. QuestionOK(x[p], q'[p], answer'[p], hooks)
    <3> SUFFICES ASSUME x[p].pc = "asking"
                 PROVE  /\ x[p].i \in 1 .. Len(Hooks(hooks, x[p].phase))
                        /\ Proper(d, Hooks(hooks, x[p].phase)[x[p].i], x[p].phase)
      BY <2>1 DEF QuestionOK
    <3>1. /\ x[p].i \in 1 .. Len(Hooks(hooks, x[p].phase))
          /\ q[p].c = Hooks(hooks, x[p].phase)[x[p].i] /\ q[p].resp = (x[p].phase = "resp")
      BY <2>1, <2>3 DEF ProcOK, QuestionOK
    <3>2. d.fallback => d.action = Default(Policy[q[p].c], q[p].resp)
      BY <1>4 DEF Answer
    <3>3. QED
      BY <3>1, <3>2 DEF Proper
  <2>5. ProcOK(p)'
    BY <1>1, <2>3, <2>4 DEF ProcOK
  <2>6. \A s \in Procs : Got(s)' = Got(s)
    BY <1>1 DEF Got
  <2>7. \A s \in Procs : ProcOK(s)'
    BY <1>1, <2>1, <2>5, <2>6, OthersKeep
  <2>8. QED
    BY <1>2, <2>2, <2>7 DEF ExchangeInv
<1>5. QED
  BY <1>3, <1>4 DEF Serve

\* The sweep and stuttering touch nothing the invariant is about.
LEMMA IdleKeeps ==
  ASSUME ExchangeInv, (\E rid \in Rids : Sweep(rid)) \/ UNCHANGED vars
  PROVE  ExchangeInv'
<1>1. UNCHANGED <<serviceVars, hooks, rule, tracked, cancelled, x, saving, delivered, log, shown>>
  BY DEF Sweep, vars, exchangeVars, connVars, rowVars, seenVars
<1>2. TypesSound' /\ RowsSound'
  BY <1>1 DEF ExchangeInv, TypesSound, RowsSound, serviceVars
<1>3. ASSUME NEW s \in Procs PROVE ProcOK(s)'
  BY <1>1 DEF ExchangeInv, ProcOK, Started, Got, serviceVars
<1>4. QED
  BY <1>2, <1>3 DEF ExchangeInv

\* The connections are closed, and nothing was asked or delivered.
LEMMA ExchangeInitSound == Init => ExchangeInv
<1> SUFFICES ASSUME Init PROVE ExchangeInv
  OBVIOUS
<1>1. NoExchange \in Exchanges
  BY ExchangeAssumption DEF NoExchange, Exchanges, Stages, Creds, Bodies
<1>2. TypesSound
  <2>1. /\ q \in [Procs -> [open : BOOLEAN, c : Clients \cup {None}, resp : BOOLEAN]]
        /\ n \in [Procs -> 0 .. MaxSends]
        /\ said \in [Procs -> Replies \cup {None}] /\ answer \in [Procs -> Decisions \cup {None}]
    BY ExchangeAssumption DEF Init, ServiceInit, NoQuestion
  <2>2. /\ hooks \in [k : 0 .. Len(Order), req : Seq(Clients), resp : Seq(Clients)]
        /\ rule \in [Hosts -> {"allow", "deny", "none"}]
        /\ tracked \in [Procs -> Hosts \cup {None}] /\ cancelled \subseteq Procs
    BY ExchangeAssumption DEF Init
  <2>3. QED
    BY <1>1, <2>1, <2>2 DEF Init, TypesSound
<1>3. RowsSound
  BY DEF Init, RowsSound
<1>4. ASSUME NEW p \in Procs PROVE ProcOK(p)
  <2>1. /\ x[p] = NoExchange /\ tracked[p] = None
        /\ \A j \in 1 .. MaxReqs : Got(p)[j] = None
    BY RidType DEF Init, Got
  <2>2. /\ NoExchange.pc = "closed" /\ NoExchange.k = 0 /\ NoExchange.kind = None
        /\ NoExchange.phase = "req" /\ NoExchange.i = 1 /\ NoExchange.cred = "placeholder"
        /\ NoExchange.saved = "placeholder"
    BY DEF NoExchange
  <2>3. StageOK(x[p], tracked[p], Started) /\ CredentialOK(x[p])
    BY <2>1, <2>2 DEF StageOK, CredentialOK
  <2>4. CascadeOK(x[p], log[p], hooks) /\ QuestionOK(x[p], q[p], answer[p], hooks)
    BY <2>1, <2>2 DEF CascadeOK, QuestionOK
  <2>5. DeliveryOK(x[p], log[p], hooks, Got(p))
    BY <2>1, <2>2 DEF DeliveryOK
  <2>6. RevocationOK(x[p], tracked[p], p \in cancelled, rule)
    BY <2>1, <2>2, ExchangeAssumption DEF RevocationOK
  <2>7. QED
    BY <2>3, <2>4, <2>5, <2>6 DEF ProcOK
<1>5. QED
  BY <1>2, <1>3, <1>4 DEF ExchangeInv

\* One step per action.
LEMMA ExchangeStepKeeps == ExchangeInv /\ [Next]_vars => ExchangeInv'
<1> SUFFICES ASSUME ExchangeInv, [Next]_vars PROVE ExchangeInv'
  OBVIOUS
<1>1. CASE Serve
  BY <1>1, ServeKeeps
<1>2. CASE \E up \in BOOLEAN : HookSpecs(up)
  BY <1>2, HookSpecsKeeps
<1>3. ASSUME NEW p \in Procs, Work(p) PROVE ExchangeInv'
  <2>1. CASE HandleTLS(p) \/ TerminateTLSDeferred(p) \/ NotHTTP(p) \/ ServeH2(p)
    BY <2>1, SniffKeeps
  <2>2. CASE CheckRequest(p) \/ HoldHook(p)
    BY <2>2, CheckedKeeps
  <2>3. CASE Consult(p)
    BY <2>3, ConsultKeeps
  <2>4. CASE ActOnRequest(p)
    BY <2>4, ActOnRequestKeeps
  <2>5. CASE ActOnResponse(p)
    BY <2>5, ActOnResponseKeeps
  <2>6. CASE ForwardPlain(p) \/ ForwardMitm(p) \/ ForwardH2(p)
    BY <2>6, ForwardKeeps
  <2>7. CASE \E keep \in BOOLEAN : WriteReplyPlain(p, keep) \/ WriteReplyTLS(p, keep)
    BY <2>7, WriteKeeps
  <2>8. QED
    BY <1>3, <2>1, <2>2, <2>3, <2>4, <2>5, <2>6, <2>7 DEF Work
<1>4. ASSUME NEW p \in Procs, World(p) PROVE ExchangeInv'
  <2>1. CASE Respond(p)
    BY <2>1, RespondKeeps
  <2>2. CASE SwitchProtocolsMitm(p) \/ WriteFails(p)
    <3>1. TRUE \in BOOLEAN
      OBVIOUS
    <3>2. QED
      BY <2>2, <3>1, WriteKeeps
  <2>3. CASE SwitchProtocolsPlain(p) \/ RoundTripFails(p)
    BY <2>3, FailureKeeps
  <2>4. CASE Hangup(p) \/ SniffFails(p)
    BY <2>4, SniffKeeps
  <2>5. CASE \E h \in Hosts : NextRequest(p, h)
    BY <2>5, NextRequestKeeps
  <2>6. CASE \E h \in Hosts, kind \in Kinds : Accept(p, kind, h)
    BY <2>6, AcceptKeeps
  <2>7. QED
    BY <1>4, <2>1, <2>2, <2>3, <2>4, <2>5, <2>6 DEF World
<1>5. CASE \E rid \in Rids : Store(rid) \/ StoreFails(rid)
  BY <1>5, StoreKeeps
<1>6. CASE (\E rid \in Rids : Sweep(rid)) \/ UNCHANGED vars
  BY <1>6, IdleKeeps
<1>7. CASE \E h \in Hosts, to \in {"none", "deny"} : Revoke(h, to)
  BY <1>7, RevokeKeeps
<1>8. QED
  BY <1>1, <1>2, <1>3, <1>4, <1>5, <1>6, <1>7 DEF Next
------------------------------------------------------------------------------
(* What the invariant says of the code.                                    *)

\* The inductive invariant holds: connections keep to the stages of the
\* handlers, whatever the middlewares, the upstream servers and the users do.
THEOREM ExchangeSound == Spec => []ExchangeInv
<1>1. QED
  BY ExchangeInitSound, ExchangeStepKeeps, PTL DEF Spec

\* Types, and only open connections are tracked: every way out of handleRequest
\* passes the deferred Unregister.
THEOREM ExchangeTypeCorrect == Spec => []ExchangeTypeOK
<1>1. ExchangeInv => ExchangeTypeOK
  <2> SUFFICES ASSUME ExchangeInv PROVE ExchangeTypeOK
    OBVIOUS
  <2>1. TypesSound
    BY DEF ExchangeInv
  <2>2. ASSUME NEW p \in Procs
        PROVE  /\ x[p].pc \in Stages /\ x[p].reply \in Bodies
               /\ tracked[p] \in IF x[p].pc = "closed" THEN {None} ELSE Hosts
    BY ExchangeOf DEF ProcOK, StageOK, Exchanges
  <2>3. QED
    BY <2>1, <2>2 DEF ExchangeTypeOK, TypesSound, Stages, Bodies
<1>2. QED
  BY <1>1, ExchangeSound, PTL

\* No request leaves for the upstream server before every matching request hook
\* was asked and let it pass, by its own word or by on_disconnect (runRequestCascade).
THEOREM RequestsPassTheHooks == Spec => []ForwardLawful
<1>1. ExchangeInv => ForwardLawful
  <2> SUFFICES ASSUME ExchangeInv, NEW p \in Procs, Sent(p), x[p].pc # "closed", NEW i \in Asked(p, "req")
               PROVE  \E e \in log[p] : /\ e.phase = "req" /\ e.i = i
                                        /\ e.action # "deny"
                                        /\ e.fallback => Policy[hooks.req[i]] = "allow"
    BY DEF ForwardLawful
  <2>1. ProcOK(p) /\ hooks.req \in Seq(Clients)
    BY ExchangeOf
  <2>2. Through(log[p], hooks.req, x[p], "req", Len(hooks.req))
    BY <2>1 DEF ProcOK, CascadeOK, Sent
  <2>3. i \in 1 .. Len(hooks.req) /\ i <= Len(hooks.req) /\ MatchesFilter(Filters[hooks.req[i]], x[p])
    BY <2>1 DEF Asked, HookList
  <2>4. QED
    BY <2>2, <2>3 DEF Through, Stops
<1>2. QED
  BY <1>1, ExchangeSound, PTL

\* No upstream body reaches a client past a response hook that blocks or whose
\* silence blocks (runResponseCascade).
THEOREM ResponsesPassTheHooks == Spec => []DeliveryLawful
<1>1. ExchangeInv => DeliveryLawful
  <2> SUFFICES ASSUME ExchangeInv, NEW p \in Procs, x[p].k > 0, x[p].phase = "resp",
                      delivered[Rid(p)] \in {"upstream", "rewritten"}, NEW i \in Asked(p, "resp")
               PROVE  \E e \in log[p] : /\ e.phase = "resp" /\ e.i = i
                                        /\ e.action # "block"
                                        /\ e.fallback => Policy[hooks.resp[i]] = "allow"
    BY DEF DeliveryLawful
  <2>1. ProcOK(p) /\ hooks.resp \in Seq(Clients) /\ x[p] \in Exchanges
    BY ExchangeOf
  <2>2. x[p].k \in 1 .. MaxReqs
    BY <2>1, ExchangeAssumption DEF Exchanges
  <2>3. Got(p)[x[p].k] = delivered[Rid(p)]
    BY <2>2 DEF Got, Rid
  <2>4. Through(log[p], hooks.resp, x[p], "resp", Len(hooks.resp))
    BY <2>1, <2>3 DEF ProcOK, DeliveryOK
  <2>5. i \in 1 .. Len(hooks.resp) /\ i <= Len(hooks.resp) /\ MatchesFilter(Filters[hooks.resp[i]], x[p])
    BY <2>1 DEF Asked, HookList
  <2>6. QED
    BY <2>4, <2>5 DEF Through, Stops
<1>2. QED
  BY <1>1, ExchangeSound, PTL

\* The real credential is in no question to a middleware and in no stored row:
\* SubstituteRequest runs last, on headers that were copied before.
THEOREM CredentialsStayOut == Spec => []SecretsStayOut
<1>1. ExchangeInv => SecretsStayOut
  BY DEF ExchangeInv, RowsSound, SecretsStayOut
<1>2. QED
  BY <1>1, ExchangeSound, PTL

\* After CancelByRule a connection sends nothing more, except on the intercepted
\* path while no deny rule matches.
THEOREM RevocationIsObeyed == Spec => []RevocationStops
<1>1. ExchangeInv => RevocationStops
  <2> SUFFICES ASSUME ExchangeInv, NEW p \in Procs, x[p].pc = "upstream"
               PROVE  /\ x[p].late => x[p].kind = "mitm" /\ rule[x[p].host] = "none"
                      /\ rule[x[p].host] # "allow" => p \in cancelled \/ tracked[p] # x[p].host
    BY DEF RevocationStops
  <2>1. ProcOK(p) /\ tracked[p] \in Hosts
    BY ExchangeOf DEF ProcOK, StageOK
  <2>2. QED
    BY <2>1 DEF ProcOK, RevocationOK
<1>2. QED
  BY <1>1, ExchangeSound, PTL
------------------------------------------------------------------------------
(* What is recorded.                                                       *)

\* The stages at which an exchange is under way.
Active == {"sniff", "check", "hold", "cascade", "asking", "upstream", "write"}

\* The decisions of l that leave an event on a path.
Left(l, kind) == {e \in l : kind # "h2" /\ Eventful(e.phase, e.action)}

\* What is saved of an exchange agrees with what its client got, d.
Agrees(info, d) == d = None \/ info.reply = d \/ (info.kind # "plain" /\ d = "rewritten")

\* The events ev are those of the decisions l, unless the sweep came.
Carries(ev, l, kind, sw) == ev \subseteq Left(l, kind) /\ (~sw => ev = Left(l, kind))

\* What the record of request j says while its connection is at r: what waits
\* to be stored (sv) and the row (rw) fit the delivery d; the events ev that are
\* stashed for it are those of the decisions so far, or of what waits to be stored.
RecordOK(r, j, l, sv, rw, d, ev, sw) ==
  /\ sv # None => Agrees(sv, d) /\ Carries(ev, sv.log, sv.kind, sw)
  /\ rw # None => Agrees(rw.info, d) /\ Carries(rw.events, rw.info.log, rw.info.kind, sw)
  /\ r.k < j \/ (r.k = j /\ r.pc \in Active) => sv = None /\ rw = None
  /\ r.k < j => ev = {}
  /\ r.k = j /\ r.pc \in Active => Carries(ev, l, r.kind, sw)

RidOK(rid) ==
  RecordOK(x[rid[1]], rid[2], log[rid[1]], saving[rid], rows[rid], delivered[rid], EventsOf(rid), rid \in swept)

\* The reply of an exchange in its response cascade is the upstream's or a
\* rewritten one, and only the plain path writes a block page and records it.
ReplyOK(r) ==
  /\ r.pc \in {"cascade", "asking"} /\ r.phase = "resp" => r.reply \in {"upstream", "rewritten"}
  /\ r.pc = "write" => r.kind = "plain"

RecordInv == DOMAIN rows = Rids /\ (\A p \in Procs : ReplyOK(x[p])) /\ \A rid \in Rids : RidOK(rid)

\* Nothing is asked of the record of a request when its connection goes on
\* without it.
LEMMA RecordCalm ==
  ASSUME NEW r, NEW t, NEW j, NEW l, NEW m, NEW sv, NEW rw, NEW d, NEW ev, NEW sw,
         RecordOK(r, j, l, sv, rw, d, ev, sw),
         t.k < j => r.k < j,
         t.k = j /\ t.pc \in Active => r.k = j /\ r.pc \in Active /\ t.kind = r.kind /\ m = l
  PROVE  RecordOK(t, j, m, sv, rw, d, ev, sw)
BY DEF RecordOK

\* What a step does to requests it is not about.
Untouched(rid) ==
  /\ saving'[rid] = saving[rid] /\ rows'[rid] = rows[rid] /\ delivered'[rid] = delivered[rid]
  /\ EventsOf(rid)' = EventsOf(rid) /\ (rid \in swept' <=> rid \in swept)

\* The same for a request of the system.
LEMMA RidCalm ==
  ASSUME NEW rid \in Rids, RidOK(rid), Untouched(rid),
         x'[rid[1]].k < rid[2] => x[rid[1]].k < rid[2],
         x'[rid[1]].k = rid[2] /\ x'[rid[1]].pc \in Active =>
           /\ x[rid[1]].k = rid[2] /\ x[rid[1]].pc \in Active /\ x'[rid[1]].kind = x[rid[1]].kind
           /\ log'[rid[1]] = log[rid[1]]
  PROVE  RidOK(rid)'
<1>1. (rid \in swept) \in BOOLEAN /\ (rid \in swept') = (rid \in swept)
  BY DEF Untouched
<1>2. RecordOK(x'[rid[1]], rid[2], log'[rid[1]],
               saving[rid], rows[rid], delivered[rid], EventsOf(rid), rid \in swept)
  <2>1. RecordOK(x[rid[1]], rid[2], log[rid[1]],
                 saving[rid], rows[rid], delivered[rid], EventsOf(rid), rid \in swept)
    BY DEF RidOK
  <2>2. QED
    BY <2>1, RecordCalm
<1>3. QED
  BY <1>1, <1>2 DEF RidOK, Untouched

\* A step of connection p that is about its request k leaves the others alone.
LEMMA OtherRids ==
  ASSUME ExchangeInv, RecordInv, NEW p \in Procs, NEW k \in 1 .. MaxReqs, x'[p].k = k, x[p].k <= k,
         \A s \in Procs \ {p} : x'[s] = x[s] /\ log'[s] = log[s],
         \A rid \in Rids : rid # <<p, k>> => Untouched(rid),
         RidOK(<<p, k>>)'
  PROVE  \A rid \in Rids : RidOK(rid)'
<1> SUFFICES ASSUME NEW rid \in Rids, rid # <<p, k>> PROVE RidOK(rid)'
  OBVIOUS
<1>1. rid[1] \in Procs /\ rid[2] \in 1 .. MaxReqs /\ rid = <<rid[1], rid[2]>>
  BY RidType
<1>2. RidOK(rid) /\ Untouched(rid)
  BY DEF RecordInv
<1>3. CASE rid[1] # p
  <2>1. x'[rid[1]] = x[rid[1]] /\ log'[rid[1]] = log[rid[1]]
    BY <1>1, <1>3
  <2>2. QED
    BY <1>2, <2>1, RidCalm
<1>4. CASE rid[1] = p
  <2>1. rid[2] # k
    BY <1>1, <1>4
  <2>2. x[p].k \in 0 .. MaxReqs
    BY ExchangeOf DEF Exchanges
  <2>3. x'[p].k < rid[2] => x[p].k < rid[2]
    BY <1>1, <2>2
  <2>4. QED
    BY <1>2, <1>4, <2>1, <2>3, RidCalm
<1>5. QED
  BY <1>3, <1>4

\* An exchange r in place of that of connection p.
LEMMA ReplyKeeps ==
  ASSUME ExchangeInv, RecordInv, NEW p \in Procs, ReplyOK(x'[p]), \A s \in Procs \ {p} : x'[s] = x[s]
  PROVE  \A s \in Procs : ReplyOK(x'[s])
BY DEF RecordInv

\* A step that records nothing: connection p goes on with its request, or
\* comes to rest.
LEMMA QuietKeeps ==
  ASSUME ExchangeInv, RecordInv, NEW p \in Procs, NEW r \in Exchanges, x' = [x EXCEPT ![p] = r],
         r.k = x[p].k, r.kind = x[p].kind, r.pc \in Active => x[p].pc \in Active, ReplyOK(r),
         UNCHANGED <<stash, saving, rows, swept, delivered, log>>
  PROVE  RecordInv'
<1>1. x'[p] = r /\ \A s \in Procs \ {p} : x'[s] = x[s]
  BY StepEffect DEF ExchangeInv
<1>2. \A s \in Procs : x'[s].k = x[s].k /\ x'[s].kind = x[s].kind /\ (x'[s].pc \in Active => x[s].pc \in Active)
  BY <1>1
<1>3. ASSUME NEW rid \in Rids PROVE RidOK(rid)'
  <2>1. RidOK(rid) /\ Untouched(rid)
    BY DEF RecordInv, Untouched, EventsOf
  <2>2. rid[1] \in Procs
    BY RidType
  <2>3. QED
    BY <1>2, <2>1, <2>2, RidCalm
<1>4. \A s \in Procs : ReplyOK(x'[s])
  BY <1>1, ReplyKeeps
<1>5. QED
  BY <1>3, <1>4 DEF RecordInv

\* A stage that is neither a cascade of the response nor "write".
LEMMA RestReply ==
  ASSUME NEW r, r.pc \notin {"cascade", "asking", "write"} \/ (r.pc # "write" /\ r.phase = "req")
  PROVE  ReplyOK(r)
BY DEF ReplyOK

\* What is stashed for a request.
LEMMA StashEffect ==
  ASSUME NEW rid, NEW one, NEW e, stash' = stash \cup {[rid |-> one, event |-> e]}
  PROVE  EventsOf(rid)' = IF rid = one THEN EventsOf(rid) \cup {e} ELSE EventsOf(rid)
<1> DEFINE new == [rid |-> one, event |-> e]
<1>1. new.rid = one /\ new.event = e
  OBVIOUS
<1> HIDE DEF new
<1>2. stash' = stash \cup {new}
  BY DEF new
<1>3. CASE rid = one
  BY <1>1, <1>2, <1>3 DEF EventsOf
<1>4. CASE rid # one
  <2>1. {s \in stash' : s.rid = rid} = {s \in stash : s.rid = rid}
    BY <1>1, <1>2, <1>4
  <2>2. QED
    BY <1>4, <2>1 DEF EventsOf
<1>5. QED
  BY <1>3, <1>4

\* What is drained or swept for a request.
LEMMA DrainEffect ==
  ASSUME NEW rid, NEW one, stash' = {s \in stash : s.rid # one}
  PROVE  EventsOf(rid)' = IF rid = one THEN {} ELSE EventsOf(rid)
<1>1. CASE rid = one
  BY <1>1 DEF EventsOf
<1>2. CASE rid # one
  <2>1. {s \in stash' : s.rid = rid} = {s \in stash : s.rid = rid}
    BY <1>2
  <2>2. QED
    BY <1>2, <2>1 DEF EventsOf
<1>3. QED
  BY <1>1, <1>2

\* Only the stage of connection p changes.
LEMMA StageQuiet ==
  ASSUME ExchangeInv, RecordInv, NEW p \in Procs, NEW v \in Stages, x' = [x EXCEPT ![p].pc = v],
         v \in Active => x[p].pc \in Active, v # "write",
         v \in {"cascade", "asking"} => x[p].phase = "req" \/ x[p].pc = "cascade",
         UNCHANGED <<stash, saving, rows, swept, delivered, log>>
  PROVE  RecordInv'
<1> DEFINE r == [x[p] EXCEPT !.pc = v]
<1>1. /\ r \in Exchanges /\ r.pc = v /\ r.k = x[p].k /\ r.kind = x[p].kind
      /\ r.phase = x[p].phase /\ r.reply = x[p].reply
  BY ExchangeOf, PcEffect
<1>2. x' = [x EXCEPT ![p] = r]
  OBVIOUS
<1> HIDE DEF r
<1>3. ReplyOK(r)
  BY <1>1 DEF RecordInv, ReplyOK
<1>4. QED
  BY <1>1, <1>2, <1>3, QuietKeeps

\* The exchange of connection p, its request k, ends, with or without something
\* saved for its row.
LEMMA EndKeeps ==
  ASSUME ExchangeInv, RecordInv, NEW p \in Procs, NEW v \in Resting, x[p].pc \in Active,
         NEW k \in 1 .. MaxReqs, x[p].k = k,
         x' = [x EXCEPT ![p].pc = v],
         \A s \in Procs \ {p} : log'[s] = log[s],
         \A rid \in Rids : rid # <<p, k>> => Untouched(rid),
         rows' = rows,
         saving'[<<p, k>>] # None =>
           /\ Agrees(saving'[<<p, k>>], delivered'[<<p, k>>])
           /\ Carries(EventsOf(<<p, k>>)', saving'[<<p, k>>].log, saving'[<<p, k>>].kind, <<p, k>> \in swept')
  PROVE  RecordInv'
<1> DEFINE r == [x[p] EXCEPT !.pc = v]
<1>1. r \in Exchanges /\ r.pc = v /\ r.k = k
  BY ExchangeOf, PcEffect DEF Stages, Resting
<1>2. x' = [x EXCEPT ![p] = r]
  OBVIOUS
<1> HIDE DEF r
<1>3. x'[p] = r /\ \A s \in Procs \ {p} : x'[s] = x[s]
  BY <1>1, <1>2, StepEffect DEF ExchangeInv
<1>4. <<p, k>> \in Rids /\ <<p, k>>[1] = p /\ <<p, k>>[2] = k
  BY RidType
<1>5. RecordOK(x'[p], k, log'[p], saving'[<<p, k>>], rows'[<<p, k>>], delivered'[<<p, k>>],
               EventsOf(<<p, k>>)', <<p, k>> \in swept')
  <2>1. rows'[<<p, k>>] = None
    BY <1>4 DEF RecordInv, RidOK, RecordOK
  <2>2. r.pc \notin Active /\ ~(r.k < k)
    BY <1>1 DEF Resting, Active
  <2>3. QED
    BY <1>3, <2>1, <2>2 DEF RecordOK
<1>6. RidOK(<<p, k>>)'
  BY <1>4, <1>5 DEF RidOK
<1>7. \A rid \in Rids : RidOK(rid)'
  BY <1>1, <1>3, <1>6, OtherRids
<1>8. ReplyOK(x'[p])
  BY <1>1, <1>3 DEF ReplyOK, Resting
<1>9. \A s \in Procs : ReplyOK(x'[s])
  BY <1>3, <1>8, ReplyKeeps
<1>10. QED
  BY <1>7, <1>9 DEF RecordInv

\* A decision leaves its event.
LEMMA LeftMore ==
  ASSUME NEW l, NEW e, NEW kind
  PROVE  /\ Eventful(e.phase, e.action) /\ kind # "h2" => Left(l \cup {e}, kind) = Left(l, kind) \cup {e}
         /\ ~(Eventful(e.phase, e.action) /\ kind # "h2") => Left(l \cup {e}, kind) = Left(l, kind)
BY DEF Left

\* The decision e of request k of connection p is logged and its event stashed.
Noted(p, k, kind, e) ==
  /\ log' = [log EXCEPT ![p] = @ \cup {e}]
  /\ stash' = IF Eventful(e.phase, e.action) /\ kind # "h2"
              THEN stash \cup {[rid |-> <<p, k>>, event |-> e]} ELSE stash

\* So the stash keeps up with the log.
LEMMA NotedEffect ==
  ASSUME RowsSound, NEW p \in Procs, NEW k, NEW kind, NEW e, Noted(p, k, kind, e), NEW sw,
         Carries(EventsOf(<<p, k>>), log[p], kind, sw)
  PROVE  /\ Carries(EventsOf(<<p, k>>)', log'[p], kind, sw)
         /\ \A rid \in Rids : rid # <<p, k>> => EventsOf(rid)' = EventsOf(rid)
         /\ \A s \in Procs \ {p} : log'[s] = log[s]
<1>1. log'[p] = log[p] \cup {e} /\ \A s \in Procs \ {p} : log'[s] = log[s]
  BY DEF Noted, RowsSound
<1>2. CASE Eventful(e.phase, e.action) /\ kind # "h2"
  <2>1. stash' = stash \cup {[rid |-> <<p, k>>, event |-> e]}
    BY <1>2 DEF Noted
  <2>2. /\ EventsOf(<<p, k>>)' = EventsOf(<<p, k>>) \cup {e}
        /\ \A rid \in Rids : rid # <<p, k>> => EventsOf(rid)' = EventsOf(rid)
    BY <2>1, StashEffect
  <2>3. Left(log'[p], kind) = Left(log[p], kind) \cup {e}
    BY <1>1, <1>2, LeftMore
  <2>4. QED
    BY <1>1, <2>2, <2>3 DEF Carries
<1>3. CASE ~(Eventful(e.phase, e.action) /\ kind # "h2")
  <2>1. stash' = stash
    BY <1>3 DEF Noted
  <2>2. \A rid : EventsOf(rid)' = EventsOf(rid)
    BY <2>1 DEF EventsOf
  <2>3. Left(log'[p], kind) = Left(log[p], kind)
    BY <1>1, <1>3, LeftMore
  <2>4. QED
    BY <1>1, <2>2, <2>3 DEF Carries
<1>4. QED
  BY <1>2, <1>3

\* Connection p goes on after a decision.
LEMMA GoneOnKeeps ==
  ASSUME ExchangeInv, RecordInv, NEW p \in Procs, NEW r \in Exchanges, x' = [x EXCEPT ![p] = r],
         NEW k \in 1 .. MaxReqs, x[p].k = k, r.k = k, NEW kind, x[p].kind = kind, r.kind = kind,
         x[p].pc \in Active, r.pc \in Active, ReplyOK(r), NEW e, Noted(p, k, kind, e),
         UNCHANGED <<saving, rows, swept, delivered>>
  PROVE  RecordInv'
<1>1. x'[p] = r /\ \A s \in Procs \ {p} : x'[s] = x[s]
  BY StepEffect DEF ExchangeInv
<1>2. <<p, k>> \in Rids /\ <<p, k>>[1] = p /\ <<p, k>>[2] = k
  BY RidType
<1>3. RecordOK(x[p], k, log[p], saving[<<p, k>>], rows[<<p, k>>], delivered[<<p, k>>],
               EventsOf(<<p, k>>), <<p, k>> \in swept)
  BY <1>2 DEF RecordInv, RidOK
<1>4. /\ saving[<<p, k>>] = None /\ rows[<<p, k>>] = None
      /\ Carries(EventsOf(<<p, k>>), log[p], kind, <<p, k>> \in swept)
  BY <1>3 DEF RecordOK
<1>5. /\ Carries(EventsOf(<<p, k>>)', log'[p], kind, <<p, k>> \in swept)
      /\ \A rid \in Rids : rid # <<p, k>> => EventsOf(rid)' = EventsOf(rid)
      /\ \A s \in Procs \ {p} : log'[s] = log[s]
  BY <1>4, NotedEffect DEF ExchangeInv
<1>6. RecordOK(x'[p], k, log'[p], saving'[<<p, k>>], rows'[<<p, k>>], delivered'[<<p, k>>],
               EventsOf(<<p, k>>)', <<p, k>> \in swept')
  <2>1. ~(r.k < k)
    OBVIOUS
  <2>2. QED
    BY <1>1, <1>4, <1>5, <2>1 DEF RecordOK
<1>7. RidOK(<<p, k>>)'
  BY <1>2, <1>6 DEF RidOK
<1>8. \A rid \in Rids : rid # <<p, k>> => Untouched(rid)
  BY <1>5 DEF Untouched
<1>9. \A rid \in Rids : RidOK(rid)'
  BY <1>1, <1>5, <1>7, <1>8, OtherRids
<1>10. \A s \in Procs : ReplyOK(x'[s])
  BY <1>1, ReplyKeeps
<1>11. QED
  BY <1>9, <1>10 DEF RecordInv

\* Connection p is made, or takes its next request: there is nothing of it yet.
LEMMA FreshRecordKeeps ==
  ASSUME ExchangeInv, RecordInv, NEW p \in Procs, NEW r \in Exchanges, x' = [x EXCEPT ![p] = r],
         NEW k \in 1 .. MaxReqs, r.k = k, k = x[p].k + 1, r.phase = "req", r.pc # "write",
         log' = [log EXCEPT ![p] = {}],
         UNCHANGED <<stash, saving, rows, swept, delivered>>
  PROVE  RecordInv'
<1>1. x'[p] = r /\ \A s \in Procs \ {p} : x'[s] = x[s]
  BY StepEffect DEF ExchangeInv
<1>2. <<p, k>> \in Rids /\ <<p, k>>[1] = p /\ <<p, k>>[2] = k
  BY RidType
<1>3. x[p].k \in 0 .. MaxReqs /\ x[p].k < k /\ x[p].k <= k
  BY ExchangeOf DEF Exchanges
<1>4. RecordOK(x[p], k, log[p], saving[<<p, k>>], rows[<<p, k>>], delivered[<<p, k>>],
               EventsOf(<<p, k>>), <<p, k>> \in swept)
  BY <1>2 DEF RecordInv, RidOK
<1>5. saving[<<p, k>>] = None /\ rows[<<p, k>>] = None /\ EventsOf(<<p, k>>) = {}
  BY <1>3, <1>4 DEF RecordOK
<1>6. log'[p] = {} /\ \A s \in Procs \ {p} : log'[s] = log[s]
  BY DEF ExchangeInv, RowsSound
<1>7. \A rid \in Rids : Untouched(rid)
  BY DEF Untouched, EventsOf
<1>8. RecordOK(x'[p], k, log'[p], saving'[<<p, k>>], rows'[<<p, k>>], delivered'[<<p, k>>],
               EventsOf(<<p, k>>)', <<p, k>> \in swept')
  <2>1. EventsOf(<<p, k>>)' = {}
    BY <1>2, <1>5, <1>7 DEF Untouched
  <2>2. Carries({}, {}, r.kind, <<p, k>> \in swept')
    BY DEF Carries, Left
  <2>3. QED
    BY <1>1, <1>5, <1>6, <2>1, <2>2 DEF RecordOK
<1>9. RidOK(<<p, k>>)'
  BY <1>2, <1>8 DEF RidOK
<1>10. \A rid \in Rids : RidOK(rid)'
  BY <1>1, <1>3, <1>6, <1>7, <1>9, OtherRids
<1>11. \A s \in Procs : ReplyOK(x'[s])
  BY <1>1, RestReply, ReplyKeeps
<1>12. QED
  BY <1>10, <1>11 DEF RecordInv

\* The steps that begin a stage, ask a hook, send or answer record nothing.
LEMMA StagesRecord ==
  ASSUME ExchangeInv, RecordInv, NEW p \in Procs,
         \/ HandleTLS(p) \/ TerminateTLSDeferred(p) \/ NotHTTP(p) \/ ServeH2(p) \/ SniffFails(p) \/ Hangup(p)
  PROVE  RecordInv'
<1>1. ProcOK(p)
  BY ExchangeOf
<1>2. CASE HandleTLS(p) \/ TerminateTLSDeferred(p) \/ NotHTTP(p) \/ ServeH2(p)
  <2>1. PICK v \in {"tunnel", "hold", "cascade"} : x[p].pc = "sniff" /\ Begin(p, v)
    BY <1>2 DEF HandleTLS, TerminateTLSDeferred, NotHTTP, ServeH2
  <2>2. /\ x' = [x EXCEPT ![p].pc = v] /\ v \in Stages /\ x[p].pc \in Active /\ x[p].phase = "req" /\ v # "write"
        /\ UNCHANGED <<stash, saving, rows, swept, delivered, log>>
    BY <1>1, <2>1 DEF Begin, Step, rowVars, seenVars, Stages, Active, ProcOK, StageOK
  <2>3. QED
    BY <2>2, StageQuiet
<1>3. CASE SniffFails(p) \/ Hangup(p)
  <2>1. /\ x' = [x EXCEPT ![p].pc = "closed"] /\ "closed" \in Stages /\ "closed" \notin Active
        /\ UNCHANGED <<stash, saving, rows, swept, delivered, log>>
    BY <1>3 DEF SniffFails, Hangup, rowVars, seenVars, Stages, Active
  <2>2. "closed" # "write" /\ "closed" \notin {"cascade", "asking"}
    OBVIOUS
  <2>3. QED
    BY <2>1, <2>2, StageQuiet
<1>4. QED
  BY <1>2, <1>3

\* An exchange ends with a delivery and no row; the last decision is noted.
LEMMA OverRecord ==
  ASSUME ExchangeInv, RecordInv, NEW p \in Procs, NEW v \in Resting, x[p].pc \in Active,
         NEW k \in 1 .. MaxReqs, x[p].k = k, x' = [x EXCEPT ![p].pc = v],
         delivered' = delivered \/ \E w : delivered' = [delivered EXCEPT ![Rid(p)] = w],
         UNCHANGED <<saving, rows, swept>>,
         UNCHANGED <<log, stash>> \/ \E e : Noted(p, k, x[p].kind, e)
  PROVE  RecordInv'
<1>1. RowsSound /\ <<p, k>> \in Rids /\ <<p, k>>[1] = p /\ <<p, k>>[2] = k /\ Rid(p) = <<p, k>>
  BY RidType DEF ExchangeInv, Rid
<1>2. RecordOK(x[p], k, log[p], saving[<<p, k>>], rows[<<p, k>>], delivered[<<p, k>>],
               EventsOf(<<p, k>>), <<p, k>> \in swept)
  BY <1>1 DEF RecordInv, RidOK
<1>3. saving[<<p, k>>] = None /\ Carries(EventsOf(<<p, k>>), log[p], x[p].kind, <<p, k>> \in swept)
  BY <1>2 DEF RecordOK
<1>4. /\ \A s \in Procs \ {p} : log'[s] = log[s]
      /\ \A rid \in Rids : rid # <<p, k>> => EventsOf(rid)' = EventsOf(rid)
  <2>1. CASE UNCHANGED <<log, stash>>
    BY <2>1 DEF EventsOf
  <2>2. ASSUME NEW e, Noted(p, k, x[p].kind, e)
        PROVE  /\ \A s \in Procs \ {p} : log'[s] = log[s]
               /\ \A rid \in Rids : rid # <<p, k>> => EventsOf(rid)' = EventsOf(rid)
    BY <1>1, <1>3, <2>2, NotedEffect
  <2>3. QED
    BY <2>1, <2>2
<1>5. \A rid \in Rids : rid # <<p, k>> => delivered'[rid] = delivered[rid]
  BY <1>1 DEF RowsSound
<1>6. \A rid \in Rids : rid # <<p, k>> => Untouched(rid)
  BY <1>4, <1>5 DEF Untouched
<1>7. saving'[<<p, k>>] = None
  BY <1>3
<1>8. QED
  BY <1>4, <1>6, <1>7, EndKeeps

\* The verdict on a request.
LEMMA CheckedRecord ==
  ASSUME ExchangeInv, RecordInv, NEW p \in Procs, CheckRequest(p) \/ HoldHook(p)
  PROVE  RecordInv'
<1>1. ProcOK(p)
  BY ExchangeOf
<1>2. PICK ok \in BOOLEAN : Checked(p, ok) /\ x[p].pc \in {"check", "hold"}
  <2>1. CASE CheckRequest(p)
    BY <2>1 DEF CheckRequest
  <2>2. CASE HoldHook(p)
    BY <2>2 DEF HoldHook
  <2>3. QED
    BY <2>1, <2>2
<1>3. x[p].phase = "req" /\ x[p].pc \in Active /\ x[p].pc # "closed"
  BY <1>1, <1>2 DEF ProcOK, StageOK, Active
<1>4. CASE ok
  <2>1. /\ x' = [x EXCEPT ![p].pc = "cascade"] /\ "cascade" \in Stages /\ "cascade" # "write"
        /\ UNCHANGED <<stash, saving, rows, swept, delivered, log>>
    BY <1>2, <1>4 DEF Checked, Step, rowVars, Stages
  <2>2. QED
    BY <1>3, <2>1, StageQuiet
<1>5. CASE ~ok
  <2>1. Over(p, FALSE) /\ Deliver(p, "refused") /\ UNCHANGED <<stash, saving, rows, swept, log>>
    BY <1>2, <1>5 DEF Checked, rowVars
  <2>2. PICK v \in {"closed", "idle"} : x' = [x EXCEPT ![p].pc = v]
    BY <2>1, OverRests
  <2>3. PICK k \in 1 .. MaxReqs : x[p].k = k
    BY <1>3, ExchangeOf
  <2>4. v \in Resting /\ \E w : delivered' = [delivered EXCEPT ![Rid(p)] = w]
    BY <2>1 DEF Deliver, Resting
  <2>5. QED
    BY <1>3, <2>1, <2>2, <2>3, <2>4, OverRecord
<1>6. QED
  BY <1>4, <1>5

\* A hook is asked, or passed over.
LEMMA ConsultRecord ==
  ASSUME ExchangeInv, RecordInv, NEW p \in Procs, Consult(p)
  PROVE  RecordInv'
<1>1. x[p].pc = "cascade" /\ UNCHANGED <<stash, saving, rows, swept, delivered, log>> /\ x[p] \in Exchanges
  BY ExchangeOf DEF Consult, Consulting, rowVars
<1>2. CASE x' = [x EXCEPT ![p].pc = "asking"]
  <2>1. "asking" \in Stages /\ "asking" # "write" /\ x[p].pc \in Active
    BY <1>1 DEF Stages, Active
  <2>2. QED
    BY <1>1, <1>2, <2>1, StageQuiet
<1>3. CASE x' = [x EXCEPT ![p] = [x[p] EXCEPT !.i = @ + 1]]
  <2> DEFINE r == [x[p] EXCEPT !.i = @ + 1]
  <2>1. /\ r \in Exchanges /\ r.pc = x[p].pc /\ r.k = x[p].k /\ r.kind = x[p].kind
        /\ r.phase = x[p].phase /\ r.reply = x[p].reply
    BY <1>1 DEF Exchanges
  <2>2. x' = [x EXCEPT ![p] = r]
    BY <1>3
  <2> HIDE DEF r
  <2>3. ReplyOK(r)
    BY <2>1 DEF RecordInv, ReplyOK
  <2>4. QED
    BY <1>1, <2>1, <2>2, <2>3, QuietKeeps
<1>4. QED
  BY <1>2, <1>3 DEF Consult, Step

\* A request is sent, a response comes.
LEMMA UpstreamRecord ==
  ASSUME ExchangeInv, RecordInv, NEW p \in Procs,
         ForwardPlain(p) \/ ForwardMitm(p) \/ ForwardH2(p) \/ Respond(p)
  PROVE  RecordInv'
<1>1. x[p] \in Exchanges
  BY ExchangeOf
<1>2. CASE ForwardPlain(p)
  <2>1. /\ x' = [x EXCEPT ![p].pc = "upstream"] /\ "upstream" \in Stages /\ x[p].pc \in Active
        /\ UNCHANGED <<stash, saving, rows, swept, delivered, log>>
    BY <1>2 DEF ForwardPlain, Forward, Step, CascadeDone, rowVars, seenVars, Stages, Active
  <2>2. "upstream" # "write" /\ "upstream" \notin {"cascade", "asking"}
    OBVIOUS
  <2>3. QED
    BY <2>1, <2>2, StageQuiet
<1>3. CASE ForwardMitm(p) \/ ForwardH2(p)
  <2> DEFINE r == [x[p] EXCEPT !.cred = "real", !.pc = "upstream"]
  <2>1. x' = [x EXCEPT ![p] = r] /\ x[p].pc \in Active /\ UNCHANGED <<stash, saving, rows, swept, delivered, log>>
    BY <1>3 DEF ForwardMitm, ForwardH2, Forward, Substitute, Step, CascadeDone, rowVars, seenVars, Active
  <2>2. r \in Exchanges /\ r.pc = "upstream" /\ r.k = x[p].k /\ r.kind = x[p].kind
    <3>1. "upstream" \in Stages /\ "real" \in Creds
      BY DEF Stages, Creds
    <3>2. QED
      BY <1>1, <3>1 DEF Exchanges
  <2> HIDE DEF r
  <2>3. ReplyOK(r)
    BY <2>2 DEF ReplyOK
  <2>4. QED
    BY <2>1, <2>2, <2>3, QuietKeeps
<1>4. CASE Respond(p)
  <2> DEFINE r == [x[p] EXCEPT !.pc = "cascade", !.phase = "resp", !.i = 1, !.reply = "upstream"]
  <2>1. x' = [x EXCEPT ![p] = r] /\ x[p].pc \in Active /\ UNCHANGED <<stash, saving, rows, swept, delivered, log>>
    BY <1>4 DEF Respond, Step, rowVars, seenVars, Active
  <2>2. r \in Exchanges /\ r.pc = "cascade" /\ r.k = x[p].k /\ r.kind = x[p].kind /\ r.reply = "upstream"
    <3>1. "cascade" \in Stages /\ "upstream" \in Bodies
      BY DEF Stages, Bodies
    <3>2. QED
      BY <1>1, <3>1 DEF Exchanges
  <2> HIDE DEF r
  <2>3. ReplyOK(r)
    BY <2>2 DEF ReplyOK
  <2>4. QED
    BY <2>1, <2>2, <2>3, QuietKeeps
<1>5. QED
  BY <1>2, <1>3, <1>4

\* What Acting notes.
LEMMA ActingNotes ==
  ASSUME ExchangeInv, NEW p \in Procs, NEW phase, Acting(p, phase), NEW k, x[p].k = k
  PROVE  Noted(p, k, x[p].kind, Decided(p, answer[p])) /\ UNCHANGED <<saving, rows, swept>>
<1>1. Decided(p, answer[p]).phase = x[p].phase /\ Decided(p, answer[p]).action = answer[p].action
  BY DEF Decided
<1>2. Rid(p) = <<p, k>>
  BY DEF Rid
<1>3. QED
  BY <1>1, <1>2 DEF Acting, StashEvent, Noted

\* The cascade of the request acts on a decision.
LEMMA ActOnRequestRecord ==
  ASSUME ExchangeInv, RecordInv, NEW p \in Procs, ActOnRequest(p)
  PROVE  RecordInv'
<1>1. x[p].pc = "asking" /\ x[p].pc \in Active /\ x[p].phase = "req" /\ x[p] \in Exchanges /\ Acting(p, "req")
  BY ExchangeOf DEF ActOnRequest, Acting, Active
<1>2. PICK k \in 1 .. MaxReqs : x[p].k = k
  BY <1>1, ExchangeOf
<1>3. PICK e : Noted(p, k, x[p].kind, e) /\ UNCHANGED <<saving, rows, swept>>
  BY <1>1, <1>2, ActingNotes
<1>4. CASE Denies(answer[p])
  <2>1. Over(p, FALSE) /\ Deliver(p, "refused")
    BY <1>4 DEF ActOnRequest
  <2>2. PICK v \in {"closed", "idle"} : x' = [x EXCEPT ![p].pc = v]
    BY <2>1, OverRests
  <2>3. v \in Resting /\ \E w : delivered' = [delivered EXCEPT ![Rid(p)] = w]
    BY <2>1 DEF Deliver, Resting
  <2>4. QED
    BY <1>1, <1>2, <1>3, <2>2, <2>3, OverRecord
<1>5. CASE ~Denies(answer[p])
  <2> DEFINE r == [x[p] EXCEPT !.pc = "cascade", !.i = @ + 1]
  <2>1. x' = [x EXCEPT ![p] = r] /\ UNCHANGED delivered
    BY <1>5 DEF ActOnRequest, Step
  <2>2. r \in Exchanges /\ r.pc = "cascade" /\ r.k = x[p].k /\ r.kind = x[p].kind /\ r.phase = "req"
    <3>1. "cascade" \in Stages /\ x[p].i + 1 \in Nat
      BY <1>1 DEF Stages, Exchanges
    <3>2. QED
      BY <1>1, <3>1 DEF Exchanges
  <2> HIDE DEF r
  <2>3. r.pc \in Active /\ ReplyOK(r)
    BY <2>2 DEF ReplyOK, Active
  <2>4. QED
    BY <1>1, <1>2, <1>3, <2>1, <2>2, <2>3, GoneOnKeeps
<1>6. QED
  BY <1>4, <1>5

\* The cascade of the response acts on a decision.
LEMMA ActOnResponseRecord ==
  ASSUME ExchangeInv, RecordInv, NEW p \in Procs, ActOnResponse(p)
  PROVE  RecordInv'
<1>1. x[p].pc = "asking" /\ x[p].pc \in Active /\ x[p].phase = "resp" /\ x[p] \in Exchanges /\ Acting(p, "resp")
  BY ExchangeOf DEF ActOnResponse, Acting, Active
<1>2. PICK k \in 1 .. MaxReqs : x[p].k = k
  BY <1>1, ExchangeOf
<1>3. PICK e : Noted(p, k, x[p].kind, e) /\ UNCHANGED <<saving, rows, swept>>
  BY <1>1, <1>2, ActingNotes
<1>4. CASE ~Blocks(answer[p])
  <2> DEFINE reply == IF answer[p].action = "rewrite" THEN "rewritten" ELSE x[p].reply
             r == [x[p] EXCEPT !.pc = "cascade", !.i = @ + 1, !.reply = reply]
  <2>1. x' = [x EXCEPT ![p] = r] /\ UNCHANGED delivered
    BY <1>4 DEF ActOnResponse, Step
  <2>2. reply \in {"upstream", "rewritten"}
    BY <1>1 DEF RecordInv, ReplyOK
  <2> HIDE DEF reply
  <2>3. r \in Exchanges /\ r.pc = "cascade" /\ r.k = x[p].k /\ r.kind = x[p].kind /\ r.reply = reply
    <3>1. "cascade" \in Stages /\ x[p].i + 1 \in Nat /\ reply \in Bodies
      BY <1>1, <2>2 DEF Stages, Exchanges, Bodies
    <3>2. QED
      BY <1>1, <3>1 DEF Exchanges
  <2> HIDE DEF r
  <2>4. r.pc \in Active /\ ReplyOK(r)
    BY <2>2, <2>3 DEF ReplyOK, Active
  <2>5. QED
    BY <1>1, <1>2, <1>3, <2>1, <2>3, <2>4, GoneOnKeeps
<1>5. CASE Blocks(answer[p]) /\ x[p].kind = "plain"
  <2> DEFINE r == [x[p] EXCEPT !.pc = "write", !.reply = "blocked"]
  <2>1. x' = [x EXCEPT ![p] = r] /\ UNCHANGED delivered
    BY <1>5 DEF ActOnResponse, Step
  <2>2. r \in Exchanges /\ r.pc = "write" /\ r.k = x[p].k /\ r.kind = x[p].kind
    <3>1. "write" \in Stages /\ "blocked" \in Bodies
      BY DEF Stages, Bodies
    <3>2. QED
      BY <1>1, <3>1 DEF Exchanges
  <2> HIDE DEF r
  <2>3. r.pc \in Active /\ ReplyOK(r)
    BY <1>5, <2>2 DEF ReplyOK, Active
  <2>4. QED
    BY <1>1, <1>2, <1>3, <2>1, <2>2, <2>3, GoneOnKeeps
<1>6. CASE Blocks(answer[p]) /\ x[p].kind # "plain"
  <2>1. Over(p, FALSE) /\ Deliver(p, "blocked")
    BY <1>6 DEF ActOnResponse
  <2>2. PICK v \in {"closed", "idle"} : x' = [x EXCEPT ![p].pc = v]
    BY <2>1, OverRests
  <2>3. v \in Resting /\ \E w : delivered' = [delivered EXCEPT ![Rid(p)] = w]
    BY <2>1 DEF Deliver, Resting
  <2>4. QED
    BY <1>1, <1>2, <1>3, <2>2, <2>3, OverRecord
<1>7. QED
  BY <1>4, <1>5, <1>6

\* The round trip fails, or a plain request switches protocols: no row.
LEMMA FailureRecord ==
  ASSUME ExchangeInv, RecordInv, NEW p \in Procs, RoundTripFails(p) \/ SwitchProtocolsPlain(p)
  PROVE  RecordInv'
<1>1. /\ x[p].pc \in Active /\ x[p].pc # "closed" /\ UNCHANGED <<stash, saving, rows, swept, log>>
  BY DEF RoundTripFails, SwitchProtocolsPlain, CascadeDone, rowVars, Active
<1>2. PICK k \in 1 .. MaxReqs : x[p].k = k
  BY <1>1, ExchangeOf
<1>3. \E v \in Resting : \E w : x' = [x EXCEPT ![p].pc = v] /\ delivered' = [delivered EXCEPT ![Rid(p)] = w]
  <2>1. CASE RoundTripFails(p) \/ (SwitchProtocolsPlain(p) /\ hooks.resp # <<>>)
    <3>1. Over(p, FALSE) /\ Deliver(p, "failed")
      BY <2>1 DEF RoundTripFails, SwitchProtocolsPlain
    <3>2. PICK v \in {"closed", "idle"} : x' = [x EXCEPT ![p].pc = v]
      BY <3>1, OverRests
    <3>3. QED
      BY <3>1, <3>2 DEF Deliver, Resting
  <2>2. CASE SwitchProtocolsPlain(p) /\ hooks.resp = <<>>
    <3>1. x' = [x EXCEPT ![p].pc = "tunnel"] /\ delivered' = [delivered EXCEPT ![Rid(p)] = "upgraded"]
      BY <2>2 DEF SwitchProtocolsPlain, Upgrade, Step, Deliver
    <3>2. "tunnel" \in Resting
      BY DEF Resting
    <3>3. QED
      BY <3>1, <3>2
  <2>3. QED
    BY <2>1, <2>2
<1>4. PICK v \in Resting : /\ x' = [x EXCEPT ![p].pc = v]
                           /\ \E w : delivered' = [delivered EXCEPT ![Rid(p)] = w]
  BY <1>3
<1>5. QED
  BY <1>1, <1>2, <1>4, OverRecord

\* An exchange ends with info saved for its row.
LEMMA SavedRecord ==
  ASSUME ExchangeInv, RecordInv, NEW p \in Procs, NEW v \in Resting, x[p].pc \in Active,
         x' = [x EXCEPT ![p].pc = v],
         NEW info, info.log = log[p], info.kind = x[p].kind, saving' = [saving EXCEPT ![Rid(p)] = info],
         \/ delivered' = delivered
         \/ \E w : delivered' = [delivered EXCEPT ![Rid(p)] = w] /\ Agrees(info, w),
         UNCHANGED <<stash, rows, swept, log>>
  PROVE  RecordInv'
<1>1. PICK k \in 1 .. MaxReqs : x[p].k = k
  BY ExchangeOf DEF Active
<1>2. RowsSound /\ ProcOK(p) /\ <<p, k>> \in Rids /\ <<p, k>>[1] = p /\ <<p, k>>[2] = k /\ Rid(p) = <<p, k>>
  BY <1>1, RidType, ExchangeOf DEF Rid
<1>3. RecordOK(x[p], k, log[p], saving[<<p, k>>], rows[<<p, k>>], delivered[<<p, k>>],
               EventsOf(<<p, k>>), <<p, k>> \in swept)
  BY <1>2 DEF RecordInv, RidOK
<1>4. Carries(EventsOf(<<p, k>>), log[p], x[p].kind, <<p, k>> \in swept)
  BY <1>1, <1>3 DEF RecordOK
<1>5. saving'[<<p, k>>] = info /\ \A rid \in Rids : rid # <<p, k>> => saving'[rid] = saving[rid]
  BY <1>2 DEF RowsSound
<1>6. Agrees(info, delivered'[<<p, k>>])
  <2>1. CASE delivered' = delivered
    <3>1. Got(p)[k] = None
      BY <1>1, <1>2 DEF ProcOK, DeliveryOK, Active
    <3>2. delivered[<<p, k>>] = None
      BY <3>1 DEF Got
    <3>3. QED
      BY <2>1, <3>2 DEF Agrees
  <2>2. ASSUME NEW w, delivered' = [delivered EXCEPT ![Rid(p)] = w], Agrees(info, w)
        PROVE  Agrees(info, delivered'[<<p, k>>])
    BY <1>2, <2>2 DEF RowsSound
  <2>3. QED
    BY <2>1, <2>2
<1>7. \A rid \in Rids : rid # <<p, k>> => delivered'[rid] = delivered[rid]
  BY <1>2 DEF RowsSound
<1>8. \A rid : EventsOf(rid)' = EventsOf(rid)
  BY DEF EventsOf
<1>9. \A rid \in Rids : rid # <<p, k>> => Untouched(rid)
  BY <1>5, <1>7, <1>8 DEF Untouched
<1>10. Carries(EventsOf(<<p, k>>)', saving'[<<p, k>>].log, saving'[<<p, k>>].kind, <<p, k>> \in swept')
  BY <1>4, <1>5, <1>8
<1>11. QED
  BY <1>1, <1>5, <1>6, <1>9, <1>10, EndKeeps

\* The row of a reply that is ready says what is written, but for a rewritten
\* one behind TLS.
LEMMA ReadyAgrees ==
  ASSUME ExchangeInv, RecordInv, NEW p \in Procs, Ready(p)
  PROVE  /\ Agrees(Info(p), x[p].reply) /\ x[p].pc \in Active
         /\ Info(p).log = log[p] /\ Info(p).kind = x[p].kind
<1>1. Info(p).reply = Recorded(p) /\ Info(p).log = log[p] /\ Info(p).kind = x[p].kind
  BY DEF Info
<1>2. x[p].pc \in Active
  BY DEF Ready, CascadeDone, Active
<1>3. CASE x[p].kind = "plain"
  BY <1>1, <1>2, <1>3 DEF Agrees, Recorded
<1>4. CASE x[p].kind # "plain"
  <2>1. x[p].reply \in {"upstream", "rewritten"}
    BY <1>4 DEF RecordInv, ReplyOK, Ready, CascadeDone
  <2>2. QED
    BY <1>1, <1>2, <1>4, <2>1 DEF Agrees, Recorded
<1>5. QED
  BY <1>3, <1>4

\* The reply is written, the client is gone, or an intercepted exchange switches protocols.
LEMMA WriteRecord ==
  ASSUME ExchangeInv, RecordInv, NEW p \in Procs, NEW keep \in BOOLEAN,
         WriteReplyPlain(p, keep) \/ WriteReplyTLS(p, keep) \/ WriteFails(p) \/ SwitchProtocolsMitm(p)
  PROVE  RecordInv'
<1>1. UNCHANGED <<stash, rows, swept, log>>
  BY DEF WriteReplyPlain, WriteReplyTLS, WriteFails, SwitchProtocolsMitm, seenVars
<1>2. CASE WriteReplyPlain(p, keep) \/ WriteReplyTLS(p, keep)
  <2>1. Ready(p) /\ delivered' = [delivered EXCEPT ![Rid(p)] = x[p].reply]
        /\ saving' = [saving EXCEPT ![Rid(p)] = Info(p)]
    BY <1>2 DEF WriteReplyPlain, WriteReplyTLS, Deliver, Save
  <2>2. PICK v \in Resting : x' = [x EXCEPT ![p].pc = v]
    <3>1. CASE WriteReplyPlain(p, keep)
      BY <3>1 DEF WriteReplyPlain, Step, Resting
    <3>2. CASE WriteReplyTLS(p, keep)
      BY <3>2, OverRests DEF WriteReplyTLS, Resting
    <3>3. QED
      BY <1>2, <3>1, <3>2
  <2>3. /\ Agrees(Info(p), x[p].reply) /\ x[p].pc \in Active
        /\ Info(p).log = log[p] /\ Info(p).kind = x[p].kind
    BY <2>1, ReadyAgrees
  <2>4. QED
    BY <1>1, <2>1, <2>2, <2>3, SavedRecord
<1>3. CASE WriteFails(p)
  <2>1. Ready(p) /\ UNCHANGED delivered
    BY <1>3 DEF WriteFails, seenVars
  <2>2. PICK v \in Resting : x' = [x EXCEPT ![p].pc = v]
    <3>1. CASE x[p].kind = "plain"
      BY <1>3, <3>1 DEF WriteFails, Step, Resting
    <3>2. CASE x[p].kind # "plain"
      <4>1. Over(p, FALSE)
        BY <1>3, <3>2 DEF WriteFails
      <4>2. QED
        BY <4>1, OverRests DEF Resting
    <3>3. QED
      BY <3>1, <3>2
  <2>3. x[p].pc \in Active /\ Info(p).log = log[p] /\ Info(p).kind = x[p].kind
    BY <2>1, ReadyAgrees
  <2>4. CASE x[p].kind = "mitm"
    <3>1. UNCHANGED saving
      BY <1>3, <2>4 DEF WriteFails
    <3>2. PICK k \in 1 .. MaxReqs : x[p].k = k
      BY <2>3, ExchangeOf DEF Active
    <3>3. QED
      BY <1>1, <2>1, <2>2, <2>3, <3>1, <3>2, OverRecord
  <2>5. CASE x[p].kind # "mitm"
    <3>1. saving' = [saving EXCEPT ![Rid(p)] = Info(p)]
      BY <1>3, <2>5 DEF WriteFails, Save
    <3>2. QED
      BY <1>1, <2>1, <2>2, <2>3, <3>1, SavedRecord
  <2>6. QED
    BY <2>4, <2>5
<1>4. CASE SwitchProtocolsMitm(p)
  <2> DEFINE info == [Info(p) EXCEPT !.reply = "upgraded"]
  <2>1. /\ x' = [x EXCEPT ![p].pc = "tunnel"] /\ delivered' = [delivered EXCEPT ![Rid(p)] = "upgraded"]
        /\ saving' = [saving EXCEPT ![Rid(p)] = info] /\ x[p].pc \in Active
    BY <1>4 DEF SwitchProtocolsMitm, Upgrade, Step, Deliver, Save, Active
  <2>2. info.reply = "upgraded" /\ info.log = log[p] /\ info.kind = x[p].kind
    BY DEF Info
  <2> HIDE DEF info
  <2>3. Agrees(info, "upgraded") /\ "tunnel" \in Resting
    BY <2>2 DEF Agrees, Resting
  <2>4. \E w : delivered' = [delivered EXCEPT ![Rid(p)] = w] /\ Agrees(info, w)
    BY <2>1, <2>3
  <2>5. QED
    BY <1>1, <2>1, <2>2, <2>3, <2>4, SavedRecord
<1>5. QED
  BY <1>2, <1>3, <1>4

\* A connection is accepted, or takes its next request.
LEMMA ArrivalRecord ==
  ASSUME ExchangeInv, RecordInv, NEW p \in Procs, NEW h \in Hosts, NEW kind \in Kinds,
         Accept(p, kind, h) \/ NextRequest(p, h)
  PROVE  RecordInv'
<1>1. ProcOK(p) /\ x[p] \in Exchanges
  BY ExchangeOf
<1>2. /\ log' = [log EXCEPT ![p] = {}] /\ UNCHANGED <<stash, saving, rows, swept, delivered>>
      /\ x[p].k < MaxReqs
  BY DEF Accept, NextRequest, rowVars
<1>3. PICK k \in 1 .. MaxReqs : k = x[p].k + 1
  BY <1>1, <1>2, ExchangeAssumption DEF Exchanges
<1>4. x[p].k + 1 \in 0 .. MaxReqs
  BY <1>3
<1>5. PICK r \in Exchanges : x' = [x EXCEPT ![p] = r] /\ r.k = k /\ r.phase = "req" /\ r.pc # "write"
  <2>1. CASE Accept(p, kind, h)
    <3> DEFINE pc == IF kind = "plain" THEN "check" ELSE "sniff"
               r == [NoExchange EXCEPT !.pc = pc, !.k = x[p].k + 1, !.kind = kind, !.host = h]
    <3>1. x' = [x EXCEPT ![p] = r] /\ pc \in Stages /\ pc # "write"
      BY <2>1 DEF Accept, Step, Stages
    <3> HIDE DEF pc
    <3>2. r \in Exchanges
      BY <1>4, <3>1 DEF NoExchange, Exchanges, Creds, Bodies
    <3>3. r.k = k /\ r.phase = "req" /\ r.pc = pc
      BY <1>3, <3>2 DEF NoExchange
    <3>4. QED
      BY <3>1, <3>2, <3>3
  <2>2. CASE NextRequest(p, h)
    <3> DEFINE pc == CASE x[p].kind = "plain" -> "check"
                       [] x[p].kind = "mitm" -> "hold"
                       [] x[p].kind = "h2" -> "cascade"
               late == p \in cancelled
               r == [NoExchange EXCEPT !.pc = pc, !.k = x[p].k + 1, !.kind = x[p].kind,
                                       !.host = h, !.late = late]
    <3>1. x[p].kind \in {"plain", "mitm", "h2"} /\ x[p].kind \in Kinds
      BY <1>1, <2>2, ExchangeAssumption DEF ProcOK, StageOK, NextRequest
    <3>2. pc \in Stages /\ pc # "write" /\ late \in BOOLEAN
      BY <3>1 DEF Stages
    <3>3. x' = [x EXCEPT ![p] = r]
      BY <2>2 DEF NextRequest, Step
    <3> HIDE DEF pc, late
    <3>4. r \in Exchanges
      BY <1>4, <3>1, <3>2 DEF NoExchange, Exchanges, Creds, Bodies
    <3>5. r.k = k /\ r.phase = "req" /\ r.pc = pc
      BY <1>3, <3>4 DEF NoExchange
    <3>6. QED
      BY <3>2, <3>3, <3>4, <3>5
  <2>3. QED
    BY <2>1, <2>2
<1>6. QED
  BY <1>2, <1>3, <1>5, FreshRecordKeeps

\* The row is written, or lost: it takes the events along.
LEMMA StoreRecord ==
  ASSUME ExchangeInv, RecordInv, NEW rid \in Rids, Store(rid) \/ StoreFails(rid)
  PROVE  RecordInv'
<1>1. RowsSound /\ DOMAIN rows = Rids /\ RidOK(rid) /\ rid[1] \in Procs /\ rid[2] \in 1 .. MaxReqs
  BY RidType DEF ExchangeInv, RecordInv
<1>2. /\ saving[rid] # None /\ AfterStore(rid) /\ saving' = [saving EXCEPT ![rid] = None]
      /\ UNCHANGED <<swept, delivered, log>>
  BY DEF Store, StoreFails, seenVars
<1>3. /\ Agrees(saving[rid], delivered[rid])
      /\ Carries(EventsOf(rid), saving[rid].log, saving[rid].kind, rid \in swept)
      /\ ~(x[rid[1]].k < rid[2]) /\ ~(x[rid[1]].k = rid[2] /\ x[rid[1]].pc \in Active)
  BY <1>1, <1>2 DEF RidOK, RecordOK
<1>4. /\ \A s \in Procs : x'[s].k = x[s].k /\ x'[s].kind = x[s].kind /\ (x'[s].pc \in Active => x'[s].pc = x[s].pc)
      /\ \A s \in Procs : ReplyOK(x'[s])
  <2>1. CASE x[rid[1]].k = rid[2] /\ x[rid[1]].pc \in {"store", "storeclose"}
    <3>1. PICK p \in Procs : p = rid[1]
      BY <1>1
    <3>2. Over(p, x[p].pc = "store")
      BY <1>2, <2>1, <3>1 DEF AfterStore
    <3>3. PICK v \in {"closed", "idle"} : x' = [x EXCEPT ![p].pc = v]
      BY <3>2, OverRests
    <3> DEFINE r == [x[p] EXCEPT !.pc = v]
    <3>4. r \in Exchanges /\ r.pc = v /\ r.k = x[p].k /\ r.kind = x[p].kind
      BY ExchangeOf, PcEffect DEF Stages
    <3>5. x' = [x EXCEPT ![p] = r]
      BY <3>3
    <3> HIDE DEF r
    <3>6. x'[p] = r /\ \A s \in Procs \ {p} : x'[s] = x[s]
      BY <3>4, <3>5, StepEffect DEF ExchangeInv
    <3>7. r.pc \notin Active /\ ReplyOK(r)
      BY <3>4 DEF Active, ReplyOK
    <3>8. \A s \in Procs : ReplyOK(x'[s])
      BY <3>6, <3>7, ReplyKeeps
    <3>9. QED
      BY <3>4, <3>6, <3>7, <3>8
  <2>2. CASE ~(x[rid[1]].k = rid[2] /\ x[rid[1]].pc \in {"store", "storeclose"})
    <3>1. x' = x
      BY <1>2, <2>2 DEF AfterStore
    <3>2. QED
      BY <3>1 DEF RecordInv
  <2>3. QED
    BY <2>1, <2>2
<1>5. saving'[rid] = None /\ \A o \in Rids : o # rid => saving'[o] = saving[o]
  BY <1>1, <1>2 DEF RowsSound
<1>6. /\ DOMAIN rows' = Rids
      /\ \A o \in Rids : o # rid => rows'[o] = rows[o] /\ EventsOf(o)' = EventsOf(o)
      /\ \/ rows'[rid] = rows[rid]
         \/ rows'[rid].info = saving[rid] /\ rows'[rid].events = DrainEvents(rid)
  <2>1. CASE Store(rid)
    <3> DEFINE row == [info |-> saving[rid], events |-> DrainEvents(rid)]
    <3>1. rows' = [rows EXCEPT ![rid] = row] /\ stash' = {s \in stash : s.rid # rid}
      BY <2>1 DEF Store
    <3>2. row.info = saving[rid] /\ row.events = DrainEvents(rid)
      OBVIOUS
    <3> HIDE DEF row
    <3>3. rows'[rid] = row /\ DOMAIN rows' = Rids /\ \A o \in Rids : o # rid => rows'[o] = rows[o]
      BY <1>1, <3>1
    <3>4. \A o \in Rids : o # rid => EventsOf(o)' = EventsOf(o)
      BY <3>1, DrainEffect
    <3>5. QED
      BY <3>2, <3>3, <3>4
  <2>2. CASE StoreFails(rid)
    BY <1>1, <2>2 DEF StoreFails, EventsOf
  <2>3. QED
    BY <2>1, <2>2
<1>7. ASSUME NEW o \in Rids, o # rid PROVE RidOK(o)'
  <2>1. RidOK(o) /\ o[1] \in Procs
    BY RidType DEF RecordInv
  <2>2. Untouched(o)
    BY <1>2, <1>5, <1>6, <1>7 DEF Untouched
  <2>3. QED
    BY <1>2, <1>4, <2>1, <2>2, RidCalm
<1>8. RidOK(rid)'
  <2>1. rows'[rid] # None => /\ Agrees(rows'[rid].info, delivered[rid])
                             /\ Carries(rows'[rid].events, rows'[rid].info.log, rows'[rid].info.kind, rid \in swept)
    <3>1. CASE rows'[rid] = rows[rid]
      BY <1>1, <3>1 DEF RidOK, RecordOK
    <3>2. CASE rows'[rid] # rows[rid]
      <4>1. Carries(DrainEvents(rid), saving[rid].log, saving[rid].kind, rid \in swept)
        BY <1>3 DEF DrainEvents, Carries, Left
      <4>2. QED
        BY <1>3, <1>6, <3>2, <4>1
    <3>3. QED
      BY <3>1, <3>2
  <2>2. ~(x'[rid[1]].k < rid[2]) /\ ~(x'[rid[1]].k = rid[2] /\ x'[rid[1]].pc \in Active)
    BY <1>1, <1>3, <1>4
  <2>3. RecordOK(x'[rid[1]], rid[2], log'[rid[1]], saving'[rid], rows'[rid], delivered'[rid],
                 EventsOf(rid)', rid \in swept')
    BY <1>2, <1>5, <2>1, <2>2 DEF RecordOK
  <2>4. QED
    BY <2>3 DEF RidOK
<1>9. QED
  BY <1>4, <1>6, <1>7, <1>8 DEF RecordInv

\* The sweep drops what is stashed for a request.
LEMMA SweepRecord ==
  ASSUME ExchangeInv, RecordInv, NEW rid \in Rids, Sweep(rid)
  PROVE  RecordInv'
<1>1. /\ EventsOf(rid) # {} /\ stash' = {s \in stash : s.rid # rid} /\ swept' = swept \cup {rid}
      /\ UNCHANGED <<x, saving, rows, delivered, log>>
  BY DEF Sweep, connVars, seenVars
<1>2. \A o \in Rids : EventsOf(o)' = IF o = rid THEN {} ELSE EventsOf(o)
  BY <1>1, DrainEffect
<1>3. ASSUME NEW o \in Rids, o # rid PROVE RidOK(o)'
  <2>1. RidOK(o) /\ Untouched(o)
    BY <1>1, <1>2, <1>3 DEF RecordInv, Untouched
  <2>2. QED
    BY <1>1, <2>1, RidCalm
<1>4. RidOK(rid)'
  <2>1. RecordOK(x[rid[1]], rid[2], log[rid[1]], saving[rid], rows[rid], delivered[rid],
                 EventsOf(rid), rid \in swept)
    BY DEF RecordInv, RidOK
  <2>2. \A l, kind : Carries({}, l, kind, TRUE)
    BY DEF Carries
  <2>3. \A ev, l, kind, sw : Carries(ev, l, kind, sw) => Carries(ev, l, kind, TRUE)
    BY DEF Carries
  <2>4. RecordOK(x[rid[1]], rid[2], log[rid[1]], saving[rid], rows[rid], delivered[rid], {}, TRUE)
    BY <2>1, <2>2, <2>3 DEF RecordOK
  <2>5. EventsOf(rid)' = {} /\ rid \in swept'
    BY <1>1, <1>2
  <2>6. (rid \in swept') = TRUE
    BY <2>5
  <2>7. RecordOK(x'[rid[1]], rid[2], log'[rid[1]], saving'[rid], rows'[rid], delivered'[rid],
                 EventsOf(rid)', rid \in swept')
    BY <1>1, <2>4, <2>5, <2>6
  <2>8. QED
    BY <2>7 DEF RidOK
<1>5. QED
  BY <1>1, <1>3, <1>4 DEF RecordInv

\* The service, the start-up, a revocation and stuttering record nothing.
LEMMA OutsideRecord ==
  ASSUME RecordInv,
         \/ Serve \/ (\E up \in BOOLEAN : HookSpecs(up)) \/ UNCHANGED vars
         \/ \E h \in Hosts, to \in {"none", "deny"} : Revoke(h, to)
  PROVE  RecordInv'
<1>1. UNCHANGED <<x, stash, saving, rows, swept, delivered, log>>
  BY DEF Serve, HookSpecs, Revoke, vars, exchangeVars, connVars, rowVars, seenVars
<1>2. \A rid \in Rids : RidOK(rid)'
  BY <1>1 DEF RecordInv, RidOK, EventsOf
<1>3. QED
  BY <1>1, <1>2 DEF RecordInv

\* Nothing is recorded at the start.
LEMMA RecordInitSound == Init => RecordInv
<1> SUFFICES ASSUME Init PROVE RecordInv
  OBVIOUS
<1>1. DOMAIN rows = Rids /\ \A rid \in Rids : saving[rid] = None /\ rows[rid] = None /\ EventsOf(rid) = {}
  BY DEF Init, EventsOf
<1>2. \A p \in Procs : x[p].pc = "closed"
  BY DEF Init, NoExchange
<1>3. \A p \in Procs : ReplyOK(x[p])
  BY <1>2 DEF ReplyOK
<1>4. ASSUME NEW rid \in Rids PROVE RidOK(rid)
  <2>1. x[rid[1]].pc \notin Active
    BY <1>2, RidType DEF Active
  <2>2. QED
    BY <1>1, <2>1 DEF RidOK, RecordOK
<1>5. QED
  BY <1>1, <1>3, <1>4 DEF RecordInv

\* One step per action.
LEMMA RecordStepKeeps == ExchangeInv /\ RecordInv /\ [Next]_vars => RecordInv'
<1> SUFFICES ASSUME ExchangeInv, RecordInv, [Next]_vars PROVE RecordInv'
  OBVIOUS
<1>1. CASE \/ Serve \/ (\E up \in BOOLEAN : HookSpecs(up)) \/ UNCHANGED vars
           \/ \E h \in Hosts, to \in {"none", "deny"} : Revoke(h, to)
  BY <1>1, OutsideRecord
<1>2. ASSUME NEW p \in Procs, Work(p) PROVE RecordInv'
  <2>1. CASE HandleTLS(p) \/ TerminateTLSDeferred(p) \/ NotHTTP(p) \/ ServeH2(p)
    BY <2>1, StagesRecord
  <2>2. CASE CheckRequest(p) \/ HoldHook(p)
    BY <2>2, CheckedRecord
  <2>3. CASE Consult(p)
    BY <2>3, ConsultRecord
  <2>4. CASE ActOnRequest(p)
    BY <2>4, ActOnRequestRecord
  <2>5. CASE ActOnResponse(p)
    BY <2>5, ActOnResponseRecord
  <2>6. CASE ForwardPlain(p) \/ ForwardMitm(p) \/ ForwardH2(p)
    BY <2>6, UpstreamRecord
  <2>7. CASE \E keep \in BOOLEAN : WriteReplyPlain(p, keep) \/ WriteReplyTLS(p, keep)
    BY <2>7, WriteRecord
  <2>8. QED
    BY <1>2, <2>1, <2>2, <2>3, <2>4, <2>5, <2>6, <2>7 DEF Work
<1>3. ASSUME NEW p \in Procs, World(p) PROVE RecordInv'
  <2>1. CASE Respond(p)
    BY <2>1, UpstreamRecord
  <2>2. CASE SwitchProtocolsMitm(p) \/ WriteFails(p)
    <3>1. TRUE \in BOOLEAN
      OBVIOUS
    <3>2. QED
      BY <2>2, <3>1, WriteRecord
  <2>3. CASE SwitchProtocolsPlain(p) \/ RoundTripFails(p)
    BY <2>3, FailureRecord
  <2>4. CASE Hangup(p) \/ SniffFails(p)
    BY <2>4, StagesRecord
  <2>5. ASSUME NEW h \in Hosts, NextRequest(p, h) PROVE RecordInv'
    <3>1. x[p].kind \in Kinds
      BY <2>5, ExchangeOf DEF NextRequest, ProcOK, StageOK
    <3>2. QED
      BY <2>5, <3>1, ArrivalRecord
  <2>6. CASE \E h \in Hosts, kind \in Kinds : Accept(p, kind, h)
    BY <2>6, ArrivalRecord
  <2>7. QED
    BY <1>3, <2>1, <2>2, <2>3, <2>4, <2>5, <2>6 DEF World
<1>4. CASE \E rid \in Rids : Store(rid) \/ StoreFails(rid)
  BY <1>4, StoreRecord
<1>5. CASE \E rid \in Rids : Sweep(rid)
  BY <1>5, SweepRecord
<1>6. QED
  BY <1>1, <1>2, <1>3, <1>4, <1>5 DEF Next

\* The records hold what the exchanges did, on every path and in every order of
\* replies, goroutines that store, failures and sweeps.
THEOREM RecordsSound == Spec => []RecordInv
<1>1. QED
  BY RecordInitSound, RecordStepKeeps, ExchangeSound, PTL DEF Spec

\* A transaction row says what the client was sent (the round-trip hooks and
\* CreateHttpTransaction), except a body rewritten behind TLS.
THEOREM RowsTrue == Spec => []RecordTrue
<1>1. RecordInv => RecordTrue
  BY DEF RecordInv, RidOK, RecordOK, Agrees, RecordTrue
<1>2. QED
  BY <1>1, RecordsSound, PTL

\* A row carries the events of its own exchange, all of them unless the sweep of
\* startPendingSweep came first (StashEvent, DrainEvents).
THEOREM RowsCarryTheirEvents == Spec => []EventsAttached
<1>1. RecordInv => EventsAttached
  <2> SUFFICES ASSUME RecordInv, NEW rid \in Rids, rows[rid] # None
               PROVE  /\ rows[rid].events \subseteq Left(rows[rid].info.log, rows[rid].info.kind)
                      /\ rid \notin swept => rows[rid].events = Left(rows[rid].info.log, rows[rid].info.kind)
    BY DEF EventsAttached, Left
  <2>1. Carries(rows[rid].events, rows[rid].info.log, rows[rid].info.kind, rid \in swept)
    BY DEF RecordInv, RidOK, RecordOK
  <2>2. QED
    BY <2>1 DEF Carries
<1>2. QED
  BY <1>1, RecordsSound, PTL
=============================================================================
