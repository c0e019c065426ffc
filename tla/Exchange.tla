------------------------------ MODULE Exchange ------------------------------
(***************************************************************************)
(* One HTTP exchange through the proxy: the check of the rules, the        *)
(* middlewares' request cascade, credential substitution, the upstream     *)
(* round trip, the response cascade, the write to the client and the       *)
(* transaction row with the middleware events.                             *)
(*                                                                         *)
(* Three paths do this with different steps: "plain" (proxyRoundTrip of    *)
(* the HTTP handler), "mitm" (httpRoundTrip of the sniffer, on intercepted *)
(* TLS and on sniffed tunnels) and "h2" (h2Handler.ServeHTTP); a tunnel    *)
(* that is not intercepted is "raw".  A process is a client connection; it *)
(* serves one request after the other, and all of them ask the             *)
(* middlewares.  What a middleware answers is the abstract DecisionService *)
(* here, which MiddlewareClient implements.                                *)
(***************************************************************************)
EXTENDS DecisionService, Sequences, FiniteSets

CONSTANTS
  Hosts,        \* destinations, each with the rule that decides for it
  Kinds,        \* paths a connection may take
  Order,        \* the middlewares in the order of the configuration
  Declares,     \* the hooks a middleware declares: a subset of {"req", "resp"}
  Filters,      \* the filter of a middleware's hooks, None for no filter
  MaxReqs,      \* bound: requests
  MaxEdits,     \* bound: changes of rules
  MaxFaults     \* bound: failures

ASSUME ExchangeAssumption ==
  /\ Kinds \subseteq {"plain", "mitm", "h2", "raw"}
  /\ Order \in Seq(Clients)
  /\ Declares \in [Clients -> SUBSET {"req", "resp"}]
  /\ Policy \in [Clients -> {"allow", "deny"}]
  /\ Filters \in [Clients -> [host : SUBSET Hosts, kind : SUBSET Kinds] \cup {None}]
  /\ MaxReqs \in Nat /\ MaxSends \in Nat
  /\ None \notin Replies \cup Hosts \cup {"upstream", "rewritten", "allow", "deny", "block", "passthrough"}

VARIABLES
  hooks,        \* reqHooks and respHooks, and how many clients were looked at
  rule,         \* the action FindMatchingRule gives for a host: "allow", "deny", "none"
  tracked,      \* ConnTracker: the host whose rule a connection is registered under
  cancelled,    \* connections whose context is cancelled
  x,            \* the exchange of each connection
  stash,        \* middleware.pending: events that wait for their row
  saving,       \* rows that a hook still has to write
  rows,         \* http_transactions with the events attached
  delivered,    \* what the client was sent
  log,          \* history: the decisions the cascade acted on
  shown,        \* history: what questions and rows showed of the credential
  swept,        \* history: requests whose events the sweep dropped
  bound         \* counters: requests, edits, faults

\* What changes together: the connection, its reply, its rows.
connVars == <<tracked, cancelled, x>>
rowVars == <<stash, saving, rows, swept>>
seenVars == <<delivered, log, shown>>
exchangeVars == <<hooks, rule, connVars, rowVars, seenVars, bound>>
vars == <<serviceVars, exchangeVars>>

\* A request: a process and the how manyth of its requests.
Rids == Procs \X (1 .. MaxReqs)
Rid(p) == <<p, x[p].k>>

NoExchange == [pc |-> "closed", k |-> 0, kind |-> None, host |-> None, phase |-> "req",
               i |-> 1, cred |-> "placeholder", saved |-> "placeholder", reply |-> None,
               late |-> FALSE]

\* MatchesFilter: every dimension the filter names lists the request's value.
MatchesFilter(f, r) ==
  f = None \/ \A dim \in DOMAIN f : f[dim] = {} \/ r[dim] \in f[dim]

HookList(phase) == IF phase = "req" THEN hooks.req ELSE hooks.resp
Started == hooks.k = Len(Order)
Fault == bound.faults < MaxFaults /\ bound' = [bound EXCEPT !.faults = @ + 1]

Step(p, changes) == x' = [x EXCEPT ![p] = changes]

\* The exchange is over: the connection waits for the next request or closes.
\* A closed connection leaves the tracker.  HTTP/2 ends the stream alone.
Over(p, keep) ==
  LET open == keep \/ x[p].kind = "h2"
  IN  /\ x' = [x EXCEPT ![p].pc = IF open THEN "idle" ELSE "closed"]
      /\ tracked' = IF open THEN tracked ELSE [tracked EXCEPT ![p] = None]

Deliver(p, what) == delivered' = [delivered EXCEPT ![Rid(p)] = what]
------------------------------------------------------------------------------
(* Start-up: each client's hooks are read once, after at most five seconds; *)
(* a client that has not said hello by then declares nothing.              *)

HookSpecs(up) ==
  LET c == Order[hooks.k + 1]
      With(list, phase) == IF up /\ phase \in Declares[c] THEN Append(list, c) ELSE list
  IN  /\ ~Started
      /\ hooks' = [k |-> hooks.k + 1, req |-> With(hooks.req, "req"), resp |-> With(hooks.resp, "resp")]
      /\ UNCHANGED <<serviceVars, rule, connVars, rowVars, seenVars, bound>>
------------------------------------------------------------------------------
(* Connections and requests arrive.                                        *)

\* handleRequest: Contains admits the destination of the connection, which
\* registers under the rule.  Contains itself is modelled in PendingApproval.
Accept(p, kind, h) ==
  /\ Started /\ x[p].pc = "closed" /\ x[p].k < MaxReqs
  /\ rule[h] = "allow" /\ bound.reqs < MaxReqs
  /\ bound' = [bound EXCEPT !.reqs = @ + 1]
  /\ tracked' = [tracked EXCEPT ![p] = h]
  /\ cancelled' = cancelled \ {p}
  /\ Step(p, [NoExchange EXCEPT !.pc = IF kind = "plain" THEN "check" ELSE "sniff",
                                !.k = x[p].k + 1, !.kind = kind, !.host = h])
  /\ log' = [log EXCEPT ![p] = {}]
  /\ UNCHANGED <<serviceVars, hooks, rule, rowVars, delivered, shown>>

Begin(p, pc) ==
  /\ Step(p, [x[p] EXCEPT !.pc = pc])
  /\ UNCHANGED <<serviceVars, hooks, rule, tracked, cancelled, rowVars, seenVars, bound>>

\* HandleTLS without interception: it is off, or bypassed, or there is no
\* certificate.
HandleTLS(p) == x[p].pc = "sniff" /\ x[p].kind = "raw" /\ Begin(p, "tunnel")

\* The client's handshake with a forged certificate, and the lazy one upstream.
TerminateTLSDeferred(p) == x[p].pc = "sniff" /\ x[p].kind = "mitm" /\ Begin(p, "hold")

\* What is behind TLS is no HTTP: the two decrypted streams are piped.
NotHTTP(p) == x[p].pc = "sniff" /\ x[p].kind = "mitm" /\ Begin(p, "tunnel")

\* The HTTP/2 preface: no hold hook on this path.
ServeH2(p) == x[p].pc = "sniff" /\ x[p].kind = "h2" /\ Begin(p, "cascade")

\* Mutant: this way out misses the deferred Unregister.
SniffFailsTracked(p) ==
  /\ x[p].pc = "sniff" /\ Fault
  /\ x' = [x EXCEPT ![p].pc = "closed"]
  /\ UNCHANGED <<serviceVars, hooks, rule, tracked, cancelled, rowVars, seenVars>>

\* A handshake or the dial fails.
SniffFails(p) ==
  /\ x[p].pc = "sniff" /\ Fault
  /\ x' = [x EXCEPT ![p].pc = "closed"]
  /\ tracked' = [tracked EXCEPT ![p] = None]
  /\ UNCHANGED <<serviceVars, hooks, rule, cancelled, rowVars, seenVars>>

\* The next request of a connection that is kept.  A proxied one names its own
\* destination, those of a tunnel all go to the same.
NextRequest(p, h) ==
  /\ x[p].pc = "idle" /\ x[p].k < MaxReqs /\ bound.reqs < MaxReqs
  /\ x[p].kind # "plain" => h = x[p].host
  /\ bound' = [bound EXCEPT !.reqs = @ + 1]
  /\ Step(p, [NoExchange EXCEPT !.pc = CASE x[p].kind = "plain" -> "check"
                                         [] x[p].kind = "mitm" -> "hold"
                                         [] x[p].kind = "h2" -> "cascade",
                                !.k = x[p].k + 1, !.kind = x[p].kind, !.host = h,
                                !.late = p \in cancelled])
  /\ log' = [log EXCEPT ![p] = {}]
  /\ UNCHANGED <<serviceVars, hooks, rule, tracked, cancelled, rowVars, delivered, shown>>

\* The client leaves between two requests, or a tunnel ends.
Hangup(p) ==
  /\ x[p].pc \in {"idle", "tunnel"}
  /\ x' = [x EXCEPT ![p].pc = "closed"]
  /\ tracked' = [tracked EXCEPT ![p] = None]
  /\ UNCHANGED <<serviceVars, hooks, rule, cancelled, rowVars, seenVars, bound>>

\* The verdict on the request itself.
Checked(p, ok) ==
  /\ IF ok THEN Step(p, [x[p] EXCEPT !.pc = "cascade"]) /\ UNCHANGED <<tracked, delivered>>
           ELSE Over(p, FALSE) /\ Deliver(p, "refused")
  /\ UNCHANGED <<serviceVars, hooks, rule, cancelled, rowVars, log, shown, bound>>

\* Contains once more for a plain request, without a registration.
CheckRequest(p) == x[p].pc = "check" /\ Checked(p, rule[x[p].host] = "allow")

\* Mutant: the hold hook lets everything pass.
HoldHookOpen(p) == x[p].pc = "hold" /\ Checked(p, TRUE)

\* The hold hook knows only deny.
HoldHook(p) == x[p].pc = "hold" /\ Checked(p, rule[x[p].host] # "deny")
------------------------------------------------------------------------------
(* The cascades.                                                           *)

\* What a row shows of the credential: the plain path shows the request as it
\* was sent, the others the copy of the headers made when it was read.
RowShows(p) == IF x[p].kind = "plain" THEN x[p].cred ELSE x[p].saved
\* A question on a request shows the request itself.
QuestionShows(p) == IF x[p].phase = "req" THEN x[p].cred ELSE RowShows(p)

Consulting(p) == x[p].pc = "cascade" /\ x[p].i <= Len(HookList(x[p].phase))
CascadeDone(p, phase) == x[p].pc = "cascade" /\ x[p].phase = phase /\ x[p].i > Len(HookList(phase))

\* The next hook: passed over if its filter says so, else asked.
Consult(p) ==
  /\ Consulting(p)
  /\ LET c == HookList(x[p].phase)[x[p].i]
     IN  IF MatchesFilter(Filters[c], x[p])
         THEN /\ Ask(p, c, x[p].phase = "resp")
              /\ Step(p, [x[p] EXCEPT !.pc = "asking"])
              /\ shown' = shown \cup {QuestionShows(p)}
         ELSE Step(p, [x[p] EXCEPT !.i = @ + 1]) /\ UNCHANGED <<serviceVars, shown>>
  /\ UNCHANGED <<hooks, rule, tracked, cancelled, rowVars, delivered, log, bound>>

\* Decisions that leave an event: the mutating ones and those with tags.
Eventful(phase, a) == a \in {"rewrite", "tagged", IF phase = "req" THEN "deny" ELSE "block"}

Decided(p, d) == [phase |-> x[p].phase, i |-> x[p].i, action |-> d.action, fallback |-> d.fallback]

\* StashEvent; the HTTP/2 path has no request id, its events are not kept.
StashEvent(p, d) ==
  stash' = IF Eventful(x[p].phase, d.action) /\ x[p].kind # "h2"
           THEN stash \cup {[rid |-> Rid(p), event |-> Decided(p, d)]} ELSE stash

Acting(p, phase) ==
  /\ x[p].pc = "asking" /\ x[p].phase = phase /\ ~q[p].open
  /\ StashEvent(p, answer[p])
  /\ log' = [log EXCEPT ![p] = @ \cup {Decided(p, answer[p])}]
  /\ UNCHANGED <<serviceVars, hooks, rule, cancelled, saving, rows, swept, shown, bound>>

\* Mutant: only a decision of the middleware denies.
DeniesIfSaid(d) == d.action = "deny" /\ ~d.fallback

Denies(d) == d.action = "deny"

\* The switch of runRequestCascade.  "block" is a known action and does nothing.
ActOnRequest(p) ==
  /\ Acting(p, "req")
  /\ IF Denies(answer[p])
     THEN Over(p, FALSE) /\ Deliver(p, "refused")
     ELSE Step(p, [x[p] EXCEPT !.pc = "cascade", !.i = @ + 1]) /\ UNCHANGED <<tracked, delivered>>

\* Mutant: a response is blocked by the action that denies a request.
BlocksOnDeny(d) == d.action = "deny"

Blocks(d) == d.action = "block"

\* The switch of runResponseCascade.  "deny" does nothing.  A block ends an
\* intercepted exchange at once; the plain path writes and records it.
ActOnResponse(p) ==
  /\ Acting(p, "resp")
  /\ IF ~Blocks(answer[p])
     THEN /\ Step(p, [x[p] EXCEPT !.pc = "cascade", !.i = @ + 1,
                        !.reply = IF answer[p].action = "rewrite" THEN "rewritten" ELSE @])
          /\ UNCHANGED <<tracked, delivered>>
     ELSE IF x[p].kind = "plain"
     THEN Step(p, [x[p] EXCEPT !.pc = "write", !.reply = "blocked"]) /\ UNCHANGED <<tracked, delivered>>
     ELSE Over(p, FALSE) /\ Deliver(p, "blocked")
------------------------------------------------------------------------------
(* Upstream.                                                               *)

\* Mutant: the recorded headers are the ones that are substituted.
SubstituteShared(r) == [r EXCEPT !.cred = "real", !.saved = "real"]

\* SubstituteRequest changes the request, not the copy of its headers.
Substitute(r) == [r EXCEPT !.cred = "real"]

\* RoundTrip obeys the context; the sniffer's req.Write does not.
Interrupted(p) == p \in cancelled /\ x[p].kind # "mitm"

Forward(p, r) ==
  /\ CascadeDone(p, "req") /\ ~Interrupted(p)
  /\ Step(p, [r EXCEPT !.pc = "upstream"])
  /\ UNCHANGED <<serviceVars, hooks, rule, tracked, cancelled, rowVars, seenVars, bound>>

ForwardPlain(p) == x[p].kind = "plain" /\ Forward(p, x[p])

\* Behind TLS the placeholders are replaced on the way out.
ForwardMitm(p) == x[p].kind = "mitm" /\ Forward(p, Substitute(x[p]))
ForwardH2(p) == x[p].kind = "h2" /\ Forward(p, Substitute(x[p]))

\* The round trip fails, on a cancelled context for certain: 503 or nothing.
RoundTripFails(p) ==
  /\ CascadeDone(p, "req") \/ x[p].pc = "upstream"
  /\ IF Interrupted(p) THEN UNCHANGED bound ELSE Fault
  /\ Over(p, FALSE) /\ Deliver(p, "failed")
  /\ UNCHANGED <<serviceVars, hooks, rule, cancelled, rowVars, log, shown>>

Respond(p) ==
  /\ x[p].pc = "upstream" /\ ~Interrupted(p)
  /\ Step(p, [x[p] EXCEPT !.pc = "cascade", !.phase = "resp", !.i = 1, !.reply = "upstream"])
  /\ UNCHANGED <<serviceVars, hooks, rule, tracked, cancelled, rowVars, seenVars, bound>>
------------------------------------------------------------------------------
(* The client, the row.                                                    *)

Ready(p) == CascadeDone(p, "resp") \/ x[p].pc = "write"

\* Mutant: the body is captured before the cascade on every path.
RecordedUpstream(p) == "upstream"

\* The body that is recorded: the plain path wraps what it writes, the others
\* wrapped the upstream body before the cascade.
Recorded(p) == IF x[p].kind = "plain" THEN x[p].reply ELSE "upstream"

Info(p) == [reply |-> Recorded(p), cred |-> RowShows(p), kind |-> x[p].kind, log |-> log[p]]
Save(p, info) == saving' = [saving EXCEPT ![Rid(p)] = info]

Upgrade(p) == Step(p, [x[p] EXCEPT !.pc = "tunnel"]) /\ Deliver(p, "upgraded") /\ UNCHANGED tracked

\* 101: the intercepted path records the upgrade and relays, past the response
\* hooks.
SwitchProtocolsMitm(p) ==
  /\ x[p].pc = "upstream" /\ x[p].kind = "mitm"
  /\ Save(p, [Info(p) EXCEPT !.reply = "upgraded"])
  /\ Upgrade(p)
  /\ UNCHANGED <<serviceVars, hooks, rule, cancelled, stash, rows, swept, log, shown, bound>>

\* The plain path needs the body of the response, which the response hook has
\* read to its end, and leaves no row.
SwitchProtocolsPlain(p) ==
  /\ CascadeDone(p, "resp") /\ x[p].kind = "plain"
  /\ IF hooks.resp = <<>> THEN Upgrade(p) ELSE Over(p, FALSE) /\ Deliver(p, "failed")
  /\ UNCHANGED <<serviceVars, hooks, rule, cancelled, rowVars, log, shown, bound>>

\* The reply is written and the round-trip hook called, which stores the row
\* before it returns.
WriteReplyPlain(p, keep) ==
  /\ x[p].kind = "plain" /\ Ready(p)
  /\ Deliver(p, x[p].reply) /\ Save(p, Info(p))
  /\ Step(p, [x[p] EXCEPT !.pc = IF keep THEN "store" ELSE "storeclose"])
  /\ UNCHANGED <<serviceVars, hooks, rule, tracked, cancelled, stash, rows, swept, log, shown, bound>>

\* Behind TLS the hook leaves the row to a goroutine.
WriteReplyTLS(p, keep) ==
  /\ x[p].kind \in {"mitm", "h2"} /\ Ready(p)
  /\ Deliver(p, x[p].reply) /\ Save(p, Info(p))
  /\ Over(p, keep)
  /\ UNCHANGED <<serviceVars, hooks, rule, cancelled, stash, rows, swept, log, shown, bound>>

\* The client is gone: an intercepted exchange leaves no row, the others do.
WriteFails(p) ==
  /\ Ready(p) /\ Fault
  /\ IF x[p].kind = "mitm" THEN UNCHANGED saving ELSE Save(p, Info(p))
  /\ IF x[p].kind = "plain"
     THEN Step(p, [x[p] EXCEPT !.pc = "storeclose"]) /\ UNCHANGED tracked
     ELSE Over(p, FALSE)
  /\ UNCHANGED <<serviceVars, hooks, rule, cancelled, stash, rows, swept, seenVars>>

EventsOf(rid) == {e.event : e \in {s \in stash : s.rid = rid}}

\* What the end of the hook means for a plain connection.
AfterStore(rid) ==
  LET p == rid[1]
  IN  IF x[p].k = rid[2] /\ x[p].pc \in {"store", "storeclose"}
      THEN Over(p, x[p].pc = "store") ELSE UNCHANGED <<x, tracked>>

\* Mutant: all that is stashed goes to the row that is stored.
DrainAll(rid) == {s.event : s \in stash}

\* DrainEvents by the request's id; the HTTP/2 path has none.
DrainEvents(rid) == IF saving[rid].kind = "h2" THEN {} ELSE EventsOf(rid)

\* CreateHttpTransaction, then a row for each event.
Store(rid) ==
  /\ saving[rid] # None
  /\ rows' = [rows EXCEPT ![rid] = [info |-> saving[rid], events |-> DrainEvents(rid)]]
  /\ stash' = {s \in stash : s.rid # rid}
  /\ saving' = [saving EXCEPT ![rid] = None]
  /\ shown' = shown \cup {saving[rid].cred}
  /\ AfterStore(rid)
  /\ UNCHANGED <<serviceVars, hooks, rule, cancelled, swept, delivered, log, bound>>

StoreFails(rid) ==
  /\ saving[rid] # None /\ Fault
  /\ saving' = [saving EXCEPT ![rid] = None]
  /\ AfterStore(rid)
  /\ UNCHANGED <<serviceVars, hooks, rule, cancelled, stash, rows, swept, seenVars>>

\* startPendingSweep: a bucket that is older than its lifetime is dropped.
Sweep(rid) ==
  /\ EventsOf(rid) # {} /\ Fault
  /\ stash' = {s \in stash : s.rid # rid}
  /\ swept' = swept \cup {rid}
  /\ UNCHANGED <<serviceVars, hooks, rule, connVars, saving, rows, seenVars>>

\* A rule is deleted or turned into a deny rule, and CancelByRule called.
Revoke(h, to) ==
  /\ rule[h] = "allow" /\ bound.edits < MaxEdits
  /\ rule' = [rule EXCEPT ![h] = to]
  /\ cancelled' = cancelled \cup {p \in Procs : tracked[p] = h}
  /\ bound' = [bound EXCEPT !.edits = @ + 1]
  /\ UNCHANGED <<serviceVars, hooks, tracked, x, rowVars, seenVars>>
------------------------------------------------------------------------------
Init ==
  /\ ServiceInit
  /\ hooks = [k |-> 0, req |-> <<>>, resp |-> <<>>]
  /\ rule = [h \in Hosts |-> "allow"]
  /\ tracked = [p \in Procs |-> None]
  /\ cancelled = {}
  /\ x = [p \in Procs |-> NoExchange]
  /\ stash = {} /\ swept = {} /\ shown = {}
  /\ saving = [r \in Rids |-> None]
  /\ rows = [r \in Rids |-> None]
  /\ delivered = [r \in Rids |-> None]
  /\ log = [p \in Procs |-> {}]
  /\ bound = [reqs |-> 0, edits |-> 0, faults |-> 0]

\* What a process does by itself.
Work(p) ==
  \/ HandleTLS(p) \/ TerminateTLSDeferred(p) \/ NotHTTP(p) \/ ServeH2(p) \/ CheckRequest(p) \/ HoldHook(p)
  \/ Consult(p) \/ ActOnRequest(p) \/ ActOnResponse(p)
  \/ ForwardPlain(p) \/ ForwardMitm(p) \/ ForwardH2(p)
  \/ \E keep \in BOOLEAN : WriteReplyPlain(p, keep) \/ WriteReplyTLS(p, keep)

\* What the others do to it: the client, the upstream server, failures.
World(p) ==
  \/ Respond(p) \/ SwitchProtocolsMitm(p) \/ SwitchProtocolsPlain(p) \/ Hangup(p)
  \/ SniffFails(p) \/ RoundTripFails(p) \/ WriteFails(p)
  \/ \E h \in Hosts : NextRequest(p, h) \/ \E kind \in Kinds : Accept(p, kind, h)

\* The service by itself: the middleware says something, or Send returns.
Serve ==
  /\ \/ \E p \in Procs, a \in Replies : Say(p, a)
     \/ \E p \in Procs, d \in Decisions : Answer(p, d)
  /\ UNCHANGED exchangeVars

Next ==
  \/ Serve
  \/ \E up \in BOOLEAN : HookSpecs(up)
  \/ \E p \in Procs : Work(p) \/ World(p)
  \/ \E rid \in Rids : Store(rid) \/ StoreFails(rid) \/ Sweep(rid)
  \/ \E h \in Hosts, to \in {"none", "deny"} : Revoke(h, to)

Spec == Init /\ [][Next]_vars

------------------------------------------------------------------------------
(* Properties.                                                             *)

\* The hooks that a request must have passed.
Asked(p, phase) == {i \in 1 .. Len(HookList(phase)) : MatchesFilter(Filters[HookList(phase)[i]], x[p])}

Sent(p) == x[p].pc = "upstream" \/ x[p].phase = "resp"

(* Type correctness of the exchange, and that only open connections are    *)
(* tracked: the deferred Unregister runs on every way out of the handler.  *)
ExchangeTypeOK ==
  /\ q \in [Procs -> [open : BOOLEAN, c : Clients \cup {None}, resp : BOOLEAN]]
  /\ n \in [Procs -> 0 .. MaxSends]
  /\ said \in [Procs -> Replies \cup {None}]
  /\ answer \in [Procs -> Decisions \cup {None}]
  /\ rule \in [Hosts -> {"allow", "deny", "none"}]
  /\ \A p \in Procs :
       /\ x[p].pc \in {"closed", "sniff", "idle", "check", "hold", "cascade", "asking", "upstream",
                       "write", "store", "storeclose", "tunnel"}
       /\ x[p].reply \in {None, "upstream", "rewritten", "blocked"}
       /\ tracked[p] \in IF x[p].pc = "closed" THEN {None} ELSE Hosts

(* What reaches the upstream server went through every request hook that   *)
(* was found at start-up and whose filter matches: each of them was asked, *)
(* none denied, and one that did not answer is configured to allow.        *)
ForwardLawful ==
  \A p \in Procs : Sent(p) /\ x[p].pc # "closed" => \A i \in Asked(p, "req") :
    \E e \in log[p] : /\ e.phase = "req" /\ e.i = i
                      /\ e.action # "deny"
                      /\ e.fallback => Policy[hooks.req[i]] = "allow"

(* What reaches the client of the upstream answer went through every       *)
(* response hook in the same way: no block decision, and no silence of a   *)
(* middleware that is configured to deny, is followed by the upstream body. *)
DeliveryLawful ==
  \A p \in Procs : x[p].k > 0 /\ x[p].phase = "resp"
                   /\ delivered[Rid(p)] \in {"upstream", "rewritten"} =>
    \A i \in Asked(p, "resp") :
      \E e \in log[p] : /\ e.phase = "resp" /\ e.i = i
                        /\ e.action # "block"
                        /\ e.fallback => Policy[hooks.resp[i]] = "allow"

(* The row says what the client was sent, with one exception: behind TLS   *)
(* the recorded body is the upstream's even if a middleware rewrote it.    *)
RecordTrue ==
  \A rid \in Rids : rows[rid] # None /\ delivered[rid] # None =>
    \/ rows[rid].info.reply = delivered[rid]
    \/ rows[rid].info.kind # "plain" /\ delivered[rid] = "rewritten"

(* Real credentials leave only for the upstream server: no question to a   *)
(* middleware and no row shows one.                                        *)
SecretsStayOut == shown \subseteq {"placeholder"}

(* A row carries all the events of its exchange, and only those, unless    *)
(* the sweep came first; the HTTP/2 path has none.                         *)
EventsAttached ==
  \A rid \in Rids : rows[rid] # None =>
    LET left == {e \in rows[rid].info.log : rows[rid].info.kind # "h2" /\ Eventful(e.phase, e.action)}
    IN  /\ rows[rid].events \subseteq left
        /\ rid \notin swept => rows[rid].events = left

(* After a revocation, a connection that is registered under the rule      *)
(* sends no further request, except on the intercepted path, where the     *)
(* cancelled context stops nothing and only a deny rule does; and a        *)
(* request that is on its way is cut off unless it goes to another         *)
(* destination than the one the connection is registered for.              *)
RevocationStops ==
  \A p \in Procs : x[p].pc = "upstream" =>
    /\ x[p].late => x[p].kind = "mitm" /\ rule[x[p].host] = "none"
    /\ rule[x[p].host] # "allow" => p \in cancelled \/ tracked[p] # x[p].host
=============================================================================
