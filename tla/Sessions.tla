------------------------------ MODULE Sessions ------------------------------
(***************************************************************************)
(* Credential sessions: a sandbox registers a session with credential      *)
(* mappings and network rules, keeps it alive with heartbeats, and the     *)
(* proxy substitutes its placeholders in requests.                         *)
(*                                                                         *)
(* Everything is kept twice.  The tables sessions, rules and               *)
(* global_credentials are written under the database lock; the             *)
(* CredentialStore's maps are written under its own lock, by the same      *)
(* request but in a later step.  Request handlers, the cleanup loop and    *)
(* the proxy's substitutions interleave between the two; a crash loses the *)
(* maps, and the next start rebuilds them from the tables.                 *)
(*                                                                         *)
(* A rule row is identified by its UNIQUE key (container, destination,     *)
(* port, action), which says nothing of the session that inserted it.      *)
(***************************************************************************)
EXTENDS Integers, FiniteSets

CONSTANTS
  Sids,         \* session ids, all of one container
  Globals,      \* global credentials, each created at most once
  Keys,         \* UNIQUE keys of the table rules
  Handlers,     \* request handlers of the API
  Vers,         \* contents of a session's mappings: what a client may register
  TTLs,         \* values of ttl_seconds
  MaxTime,      \* bound: the clock
  MaxOps,       \* bound: API requests
  MaxSubst,     \* bound: substitutions
  MaxFaults,    \* bound: crashes and failed writes
  None          \* no row, no entry, no counter

ASSUME SessionsAssumption ==
  /\ Sids \cap Globals = {}
  /\ TTLs \subseteq Nat \ {0}
  /\ MaxTime \in Nat
  /\ MaxOps \in Nat
  /\ MaxSubst \in Nat
  /\ MaxFaults \in Nat

VARIABLES
  now,          \* datetime('now')
  sess,         \* table sessions, None where there is no row
  rules,        \* table rules, by key
  gdb,          \* table global_credentials
  mem,          \* CredentialStore.lookup and sessionMap: the mappings of a session
  gmem,         \* CredentialStore.lookup: the global credentials
  pendingCounts,\* CredentialStore.pendingCounts, None where there is no counter
  req,          \* the API requests under way
  cleaner,      \* the cleanup loop
  performed,    \* history: substitutions made with a session's mappings
  excused,      \* history: sessions some of whose counts may have been dropped
  disturbed,    \* history: owners of credentials whose two copies may differ
  inserted,     \* history: the rules a session's last registration inserted
  torn,         \* history: sessions with a registration a crash cut short
  owed,         \* history: the keys a person created a rule for
  adopted,      \* history: of these, the ones answered with a session's rule
  ops, faults   \* counters for the bounds

dbVars == <<sess, rules, gdb>>
memVars == <<mem, gmem, pendingCounts>>
history == <<performed, excused, disturbed, inserted, torn, owed, adopted>>
vars == <<now, dbVars, memVars, req, cleaner, history, ops, faults>>

Person == "person"
Forever == MaxTime + 100

Owners == Sids \cup Globals
Times == 0 .. MaxTime
\* A row of sessions.  born, the number of the request that inserted it, orders
\* rows as created_at and rowid do; readable says whether the current key
\* decrypts mappings_enc.
SessionRow == [exp : Nat, born : Nat, ttl : TTLs, ver : Vers, count : Nat, readable : BOOLEAN]
RuleRow == [owner : Sids \cup {Person}, exp : Nat]

\* NULL is no value of a column or a map, and a person is no session.
ASSUME NullAssumption ==
  /\ None \notin SessionRow /\ None \notin RuleRow
  /\ None \notin Nat /\ None \notin Vers
  /\ Person \notin Sids

Idle == [pc |-> "idle", op |-> None, who |-> None, ver |-> None, keys |-> {}]
RestingCleaner == [pc |-> "idle", ids |-> {}, batch |-> [s \in Sids |-> 0]]

HasRow(s) == sess[s] # None
\* expires_at > datetime('now'), as every query on active sessions has it.
Active(s) == HasRow(s) /\ sess[s].exp > now
Expired(s) == HasRow(s) /\ sess[s].exp <= now

\* No request holds the database lock between the statements of a registration.
dbFree == \A h \in Handlers : req[h].pc # "rules"

\* Mutant: a session's end takes every rule of the container.
WithoutRulesOfContainer(S) == [k \in Keys |-> IF S # {} THEN None ELSE rules[k]]

\* The rows of a session leave the table rules: DELETE FROM rules WHERE session_id = ?.
WithoutRulesOf(S) == [k \in Keys |-> IF rules[k] # None /\ rules[k].owner \in S
                                     THEN None ELSE rules[k]]

\* Some request or the cleanup loop has yet to apply its change of o to memory.
Unfinished(o) == \/ \E h \in Handlers : req[h].pc # "idle" /\ req[h].who = o
                 \/ cleaner.pc = "mem" /\ o \in cleaner.ids

\* The operation that changes the tables for S now overlaps another one.
Disturb(S) == disturbed' = disturbed \cup {o \in S : Unfinished(o)}

\* The session whose rules count for the container: the newest active one.
Newest == {s \in Sids : Active(s) /\ \A t \in Sids : Active(t) => sess[t].born <= sess[s].born}

\* The rows the query of FindMatchingRule selects.
RulesInForce == {k \in Keys : rules[k] # None /\ rules[k].exp > now
                               /\ rules[k].owner \in {Person} \cup Newest}

Start(h, op, who, pc, ver, keys) ==
  /\ req[h].pc = "idle"
  /\ ops < MaxOps
  /\ ops' = ops + 1
  /\ req' = [req EXCEPT ![h] = [pc |-> pc, op |-> op, who |-> who, ver |-> ver, keys |-> keys]]

Finish(h) == req' = [req EXCEPT ![h] = Idle]
------------------------------------------------------------------------------
(* POST /api/sessions: SessionsCreateHandler.                              *)

\* CreateOrUpdateSession, first statement: the upsert keeps created_at and
\* substitution_count of a row that is there.  The lock stays taken.
CreateUpsert(h, s, ver, ttl, keys) ==
  /\ dbFree
  /\ Start(h, "create", s, "rules", ver, keys)
  /\ sess' = [sess EXCEPT ![s] =
       [exp |-> now + ttl, ttl |-> ttl, ver |-> ver, readable |-> TRUE,
        born |-> IF HasRow(s) THEN sess[s].born ELSE ops + 1,
        count |-> IF HasRow(s) THEN sess[s].count ELSE 0]]
  /\ Disturb({s})
  /\ inserted' = [inserted EXCEPT ![s] = {}]
  /\ UNCHANGED <<now, rules, gdb, memVars, cleaner, performed, excused, torn, owed, adopted, faults>>

\* Mutant: the rules of the last registration are kept.
CreateRulesKeepOld(h) ==
  LET s == req[h].who
      new == {k \in req[h].keys : rules[k] = None}
  IN  /\ req[h].pc = "rules"
      /\ rules' = [k \in Keys |-> IF k \in new THEN [owner |-> s, exp |-> now + sess[s].ttl]
                                  ELSE rules[k]]
      /\ inserted' = [inserted EXCEPT ![s] = req[h].keys]
      /\ torn' = torn \ {s}
      /\ req' = [req EXCEPT ![h].pc = "mem"]
      /\ UNCHANGED <<now, sess, gdb, memVars, cleaner, performed, excused, disturbed,
                     owed, adopted, ops, faults>>

\* The rest of CreateOrUpdateSession: the old rules of the session go, the new
\* ones are inserted OR IGNOREd; the handler goes on to RegisterSession.
CreateRules(h) ==
  LET s == req[h].who
      old == WithoutRulesOf({s})
      new == {k \in req[h].keys : old[k] = None}
  IN  /\ req[h].pc = "rules"
      /\ rules' = [k \in Keys |-> IF k \in new THEN [owner |-> s, exp |-> now + sess[s].ttl]
                                  ELSE old[k]]
      /\ inserted' = [inserted EXCEPT ![s] = new]
      /\ torn' = torn \ {s}
      /\ req' = [req EXCEPT ![h].pc = "mem"]
      /\ UNCHANGED <<now, sess, gdb, memVars, cleaner, performed, excused, disturbed,
                     owed, adopted, ops, faults>>

\* An insert fails: the handler answers 500, what was written stays written.
CreateRulesFail(h) ==
  LET s == req[h].who
  IN  /\ req[h].pc = "rules"
      /\ req[h].keys # {}
      /\ faults < MaxFaults
      /\ faults' = faults + 1
      /\ rules' = WithoutRulesOf({s})
      /\ disturbed' = disturbed \cup {s}
      /\ Finish(h)
      /\ UNCHANGED <<now, sess, gdb, memVars, cleaner, performed, excused, inserted,
                     torn, owed, adopted, ops>>

\* RegisterSession: the old entries of the session go, its counter is replaced.
RegisterSession(h) ==
  LET s == req[h].who
  IN  /\ req[h].pc = "mem" /\ req[h].op = "create"
      /\ mem' = [mem EXCEPT ![s] = req[h].ver]
      /\ excused' = IF pendingCounts[s] \in {None, 0} THEN excused ELSE excused \cup {s}
      /\ pendingCounts' = [pendingCounts EXCEPT ![s] = 0]
      /\ Finish(h)
      /\ UNCHANGED <<now, dbVars, gmem, cleaner, performed, disturbed, inserted, torn, owed,
                     adopted, ops, faults>>
------------------------------------------------------------------------------
(* Heartbeats and deletion.                                                *)

\* Mutant: the rules keep their expires_at.
HeartbeatRulesStay(s) ==
  /\ dbFree /\ Active(s) /\ ops < MaxOps
  /\ ops' = ops + 1
  /\ sess' = [sess EXCEPT ![s].exp = now + sess[s].ttl]
  /\ UNCHANGED <<now, rules, gdb, memVars, req, cleaner, history, faults>>

\* HeartbeatSession: only an active session, and its rules with it.
HeartbeatSession(s) ==
  /\ dbFree /\ Active(s) /\ ops < MaxOps
  /\ ops' = ops + 1
  /\ sess' = [sess EXCEPT ![s].exp = now + sess[s].ttl]
  /\ rules' = [k \in Keys |-> IF rules[k] # None /\ rules[k].owner = s
                              THEN [rules[k] EXCEPT !.exp = now + sess[s].ttl]
                              ELSE rules[k]]
  /\ UNCHANGED <<now, gdb, memVars, req, cleaner, history, faults>>

\* DELETE /api/sessions/:id: DeleteSession, and the memory only if a row went.
DeleteSession(h, s) ==
  /\ dbFree /\ HasRow(s)
  /\ Start(h, "delete", s, "mem", None, {})
  /\ rules' = WithoutRulesOf({s})
  /\ sess' = [sess EXCEPT ![s] = None]
  /\ excused' = excused \cup {t \in {s} : sess[t].count > 0}
  /\ Disturb({s})
  /\ inserted' = [inserted EXCEPT ![s] = {}]
  /\ UNCHANGED <<now, gdb, memVars, cleaner, performed, torn, owed, adopted, faults>>

\* removeSessionLocked.  Counts that were not flushed go with the counter.
Removed(S) ==
  /\ mem' = [s \in Sids |-> IF s \in S THEN None ELSE mem[s]]
  /\ pendingCounts' = [s \in Sids |-> IF s \in S THEN None ELSE pendingCounts[s]]
  /\ excused' = excused \cup {s \in S : pendingCounts[s] \notin {None, 0}}

\* Mutant: only the counter goes.
UnregisterCounterOnly(h) ==
  /\ req[h].pc = "mem" /\ req[h].op = "delete"
  /\ pendingCounts' = [pendingCounts EXCEPT ![req[h].who] = None]
  /\ excused' = excused \cup {req[h].who}
  /\ Finish(h)
  /\ UNCHANGED <<now, dbVars, mem, gmem, cleaner, performed, disturbed, inserted, torn, owed,
                 adopted, ops, faults>>

UnregisterSession(h) ==
  /\ req[h].pc = "mem" /\ req[h].op = "delete"
  /\ Removed({req[h].who})
  /\ Finish(h)
  /\ UNCHANGED <<now, dbVars, gmem, cleaner, performed, disturbed, inserted, torn, owed,
                 adopted, ops, faults>>
------------------------------------------------------------------------------
(* Global credentials: the row first, the memory in a second step.         *)

CreateGlobalCredential(h, g) ==
  /\ dbFree /\ gdb[g] = "new"
  /\ Start(h, "gcreate", g, "mem", None, {})
  /\ gdb' = [gdb EXCEPT ![g] = "live"]
  /\ Disturb({g})
  /\ UNCHANGED <<now, sess, rules, memVars, cleaner, performed, excused, inserted, torn, owed,
                 adopted, faults>>

\* GetGlobalCredential and DeleteGlobalCredential; a deleted id never returns.
DeleteGlobalCredential(h, g) ==
  /\ dbFree /\ gdb[g] \in {"live", "unreadable"}
  /\ Start(h, "gdelete", g, "mem", None, {})
  /\ gdb' = [gdb EXCEPT ![g] = "deleted"]
  /\ Disturb({g})
  /\ UNCHANGED <<now, sess, rules, memVars, cleaner, performed, excused, inserted, torn, owed,
                 adopted, faults>>

RegisterGlobalCredential(h) ==
  /\ req[h].pc = "mem" /\ req[h].op = "gcreate"
  /\ gmem' = gmem \cup {req[h].who}
  /\ Finish(h)
  /\ UNCHANGED <<now, dbVars, mem, pendingCounts, cleaner, history, ops, faults>>

UnregisterGlobalCredential(h) ==
  /\ req[h].pc = "mem" /\ req[h].op = "gdelete"
  /\ gmem' = gmem \ {req[h].who}
  /\ Finish(h)
  /\ UNCHANGED <<now, dbVars, mem, pendingCounts, cleaner, history, ops, faults>>
------------------------------------------------------------------------------
(* The rules of people: CreateRule and DeleteRule on the same table.       *)

\* An expired row of the key is purged; a live one, whoever owns it, is
\* returned as if it had been created.
CreateRule(k) ==
  LET held == rules[k] # None /\ rules[k].exp > now
  IN  /\ dbFree /\ ops < MaxOps
      /\ ops' = ops + 1
      /\ rules' = IF held THEN rules ELSE [rules EXCEPT ![k] = [owner |-> Person, exp |-> Forever]]
      /\ owed' = owed \cup {k}
      /\ adopted' = IF held /\ rules[k].owner # Person THEN adopted \cup {k} ELSE adopted
      /\ inserted' = [s \in Sids |-> IF ~held THEN inserted[s] \ {k} ELSE inserted[s]]
      /\ UNCHANGED <<now, sess, gdb, memVars, req, cleaner, performed, excused, disturbed,
                     torn, faults>>

DeleteRule(k) ==
  /\ dbFree /\ ops < MaxOps /\ rules[k] # None
  /\ ops' = ops + 1
  /\ rules' = [rules EXCEPT ![k] = None]
  /\ owed' = owed \ {k}
  /\ adopted' = adopted \ {k}
  /\ inserted' = [s \in Sids |-> inserted[s] \ {k}]
  /\ UNCHANGED <<now, sess, gdb, memVars, req, cleaner, performed, excused, disturbed,
                 torn, faults>>
------------------------------------------------------------------------------
(* Substitution, and the cleanup loop that also flushes the counts.        *)

\* SubstituteRequest finds a placeholder of s; trackSubstitutions counts it if
\* the session has a counter, which loadFromDB does not make.
SubstituteRequest(s) ==
  /\ mem[s] # None
  /\ performed[s] < MaxSubst
  /\ performed' = [performed EXCEPT ![s] = @ + 1]
  /\ IF pendingCounts[s] = None
     THEN excused' = excused \cup {s} /\ UNCHANGED pendingCounts
     ELSE pendingCounts' = [pendingCounts EXCEPT ![s] = @ + 1] /\ UNCHANGED excused
  /\ UNCHANGED <<now, dbVars, mem, gmem, req, cleaner, disturbed, inserted, torn, owed, adopted,
                 ops, faults>>

\* DeleteExpiredSessions, one cutoff for all its statements.
CleanupDelete ==
  LET ids == {s \in Sids : Expired(s)}
  IN  /\ cleaner.pc = "idle" /\ dbFree
      /\ rules' = WithoutRulesOf(ids)
      /\ sess' = [s \in Sids |-> IF s \in ids THEN None ELSE sess[s]]
      /\ excused' = excused \cup {s \in ids : sess[s].count > 0}
      /\ Disturb(ids)
      /\ cleaner' = [cleaner EXCEPT !.pc = IF ids = {} THEN "swap" ELSE "mem", !.ids = ids]
      /\ inserted' = [s \in Sids |-> IF s \in ids THEN {} ELSE inserted[s]]
      /\ UNCHANGED <<now, gdb, memVars, req, performed, torn, owed, adopted, ops, faults>>

CleanupForget ==
  /\ cleaner.pc = "mem"
  /\ Removed(cleaner.ids)
  /\ cleaner' = [cleaner EXCEPT !.pc = "swap", !.ids = {}]
  /\ UNCHANGED <<now, dbVars, gmem, req, performed, disturbed, inserted, torn, owed, adopted,
                 ops, faults>>

Pending(s) == IF pendingCounts[s] = None THEN 0 ELSE pendingCounts[s]

\* Mutant: the counter is read, not swapped.
FlushLoad ==
  /\ cleaner.pc = "swap"
  /\ cleaner' = [cleaner EXCEPT !.pc = "write", !.batch = [s \in Sids |-> Pending(s)]]
  /\ UNCHANGED <<now, dbVars, memVars, req, history, ops, faults>>

\* flushSubstitutionCounts, under the read lock: every counter is swapped to zero.
FlushSwap ==
  /\ cleaner.pc = "swap"
  /\ cleaner' = [cleaner EXCEPT !.pc = "write", !.batch = [s \in Sids |-> Pending(s)]]
  /\ pendingCounts' = [s \in Sids |-> IF pendingCounts[s] = None THEN None ELSE 0]
  /\ UNCHANGED <<now, dbVars, mem, gmem, req, history, ops, faults>>

\* IncrementSubstitutionCount for one session; no row, no effect.
FlushWrite(s) ==
  /\ cleaner.pc = "write" /\ cleaner.batch[s] > 0 /\ dbFree
  /\ sess' = IF HasRow(s) THEN [sess EXCEPT ![s].count = @ + cleaner.batch[s]] ELSE sess
  /\ excused' = IF HasRow(s) THEN excused ELSE excused \cup {s}
  /\ cleaner' = [cleaner EXCEPT !.batch[s] = 0]
  /\ UNCHANGED <<now, rules, gdb, memVars, req, performed, disturbed, inserted, torn, owed,
                 adopted, ops, faults>>

\* The write fails: the count is logged and dropped.
FlushFail(s) ==
  /\ cleaner.pc = "write" /\ cleaner.batch[s] > 0
  /\ faults < MaxFaults
  /\ faults' = faults + 1
  /\ excused' = excused \cup {s}
  /\ cleaner' = [cleaner EXCEPT !.batch[s] = 0]
  /\ UNCHANGED <<now, dbVars, memVars, req, performed, disturbed, inserted, torn, owed, adopted, ops>>

FlushDone ==
  /\ cleaner.pc = "write" /\ \A s \in Sids : cleaner.batch[s] = 0
  /\ cleaner' = RestingCleaner
  /\ UNCHANGED <<now, dbVars, memVars, req, history, ops, faults>>
------------------------------------------------------------------------------
(* A crash and the next start, and the clock.                              *)

Tick == now < MaxTime /\ now' = now + 1
        /\ UNCHANGED <<dbVars, memVars, req, cleaner, history, ops, faults>>

\* Mutant: what is loaded is the row, its mappings not decrypted.
LoadedRows == [s \in Sids |-> IF HasRow(s) /\ sess[s].readable /\ sess[s].exp >= now
                              THEN sess[s] ELSE None]

\* loadFromDB: the sessions whose ExpiresAt is not before now.
Loaded == [s \in Sids |-> IF HasRow(s) /\ sess[s].readable /\ sess[s].exp >= now
                          THEN sess[s].ver ELSE None]

\* The process dies and starts again with the same key.
Restart ==
  /\ faults < MaxFaults
  /\ faults' = faults + 1
  /\ mem' = Loaded
  /\ gmem' = {g \in Globals : gdb[g] = "live"}
  /\ pendingCounts' = [s \in Sids |-> None]
  /\ req' = [h \in Handlers |-> Idle]
  /\ cleaner' = RestingCleaner
  /\ excused' = Sids
  /\ torn' = torn \cup {req[h].who : h \in {g \in Handlers : req[g].pc = "rules"}}
  /\ disturbed' = {}
  /\ UNCHANGED <<now, dbVars, performed, inserted, owed, adopted, ops>>

\* session.key is gone: a new one is generated and PurgeUnreadableCredentials
\* deletes what it cannot decrypt, oldest session first.  If the process dies
\* before the purge ends, the next start finds the key there and does not purge.
RestartNewKey(purged) ==
  LET rows == {s \in Sids : HasRow(s)}
      all == purged = rows
  IN  /\ faults < MaxFaults
      /\ faults' = faults + 1
      /\ purged \subseteq rows
      /\ \A s \in purged, t \in rows \ purged : sess[s].born < sess[t].born
      /\ sess' = [s \in Sids |-> IF s \in purged \/ ~HasRow(s) THEN None
                                 ELSE [sess[s] EXCEPT !.readable = FALSE]]
      /\ rules' = WithoutRulesOf(purged)
      /\ gdb' = [g \in Globals |-> IF gdb[g] \notin {"live", "unreadable"} THEN gdb[g]
                                   ELSE IF all THEN "deleted" ELSE "unreadable"]
      /\ mem' = [s \in Sids |-> None]
      /\ gmem' = {}
      /\ pendingCounts' = [s \in Sids |-> None]
      /\ req' = [h \in Handlers |-> Idle]
      /\ cleaner' = RestingCleaner
      /\ excused' = Sids
      /\ torn' = torn \cup {req[h].who : h \in {g \in Handlers : req[g].pc = "rules"}}
      /\ disturbed' = {}
      /\ inserted' = [s \in Sids |-> IF s \in purged THEN {} ELSE inserted[s]]
      /\ UNCHANGED <<now, performed, owed, adopted, ops>>
------------------------------------------------------------------------------
Init ==
  /\ now = 0
  /\ sess = [s \in Sids |-> None]
  /\ rules = [k \in Keys |-> None]
  /\ gdb = [g \in Globals |-> "new"]
  /\ mem = [s \in Sids |-> None]
  /\ gmem = {}
  /\ pendingCounts = [s \in Sids |-> None]
  /\ req = [h \in Handlers |-> Idle]
  /\ cleaner = RestingCleaner
  /\ performed = [s \in Sids |-> 0]
  /\ excused = {} /\ disturbed = {}
  /\ inserted = [s \in Sids |-> {}]
  /\ torn = {} /\ owed = {} /\ adopted = {}
  /\ ops = 0 /\ faults = 0

HandlerStep(h) ==
  \/ CreateRules(h) \/ CreateRulesFail(h) \/ RegisterSession(h) \/ UnregisterSession(h)
  \/ RegisterGlobalCredential(h) \/ UnregisterGlobalCredential(h)

Arrival(h) ==
  \/ \E s \in Sids : \/ DeleteSession(h, s)
                     \/ \E v \in Vers, t \in TTLs, K \in SUBSET Keys : CreateUpsert(h, s, v, t, K)
  \/ \E g \in Globals : CreateGlobalCredential(h, g) \/ DeleteGlobalCredential(h, g)

CleanerStep ==
  \/ CleanupDelete \/ CleanupForget \/ FlushSwap \/ FlushDone
  \/ \E s \in Sids : FlushWrite(s) \/ FlushFail(s)

Next ==
  \/ Tick \/ Restart \/ CleanerStep
  \/ \E P \in SUBSET Sids : RestartNewKey(P)
  \/ \E h \in Handlers : Arrival(h) \/ HandlerStep(h)
  \/ \E s \in Sids : HeartbeatSession(s) \/ SubstituteRequest(s)
  \/ \E k \in Keys : CreateRule(k) \/ DeleteRule(k)

Spec == Init /\ [][Next]_vars
------------------------------------------------------------------------------
(* Properties.                                                             *)

(* Type correctness of the tables, the maps and the requests.              *)
SessionsTypeOK ==
  /\ now \in Times
  /\ sess \in [Sids -> SessionRow \cup {None}]
  /\ rules \in [Keys -> RuleRow \cup {None}]
  /\ gdb \in [Globals -> {"new", "live", "unreadable", "deleted"}]
  /\ mem \in [Sids -> Vers \cup {None}]
  /\ gmem \subseteq Globals
  /\ pendingCounts \in [Sids -> Nat \cup {None}]
  /\ req \in [Handlers -> [pc : {"idle", "rules", "mem"},
                           op : {None, "create", "delete", "gcreate", "gdelete"},
                           who : Owners \cup {None}, ver : Vers \cup {None}, keys : SUBSET Keys]]
  /\ cleaner \in [pc : {"idle", "mem", "swap", "write"}, ids : SUBSET Sids, batch : [Sids -> Nat]]

(* The two copies of a credential agree whenever no request on it is half  *)
(* done: a session in memory is a row of the table with the same mappings, *)
(* an active readable row is in memory, and the same for the global        *)
(* credentials.  The exceptions are exactly the owners in disturbed: two   *)
(* requests (or a request and the cleanup) overlapped on it, or a          *)
(* registration failed half way.  A restart always repairs the copies.     *)
MemoryMirrorsTables ==
  /\ \A s \in Sids \ disturbed : Unfinished(s) \/
       /\ mem[s] # None => HasRow(s) /\ mem[s] = sess[s].ver
       /\ Active(s) /\ sess[s].readable => mem[s] = sess[s].ver
  /\ \A g \in Globals \ disturbed : Unfinished(g) \/
       (g \in gmem <=> gdb[g] = "live")

(* The rules of a session live and die with it: a rule row of a session    *)
(* that has ended is gone from the table; while a session is the newest    *)
(* active one of its container, every rule its registration inserted       *)
(* decides, through heartbeats, cleanup, crashes and the registrations of  *)
(* others; and no session rule but those decides.                          *)
SessionRulesHonoured ==
  /\ \A k \in Keys : rules[k] # None /\ rules[k].owner # Person => HasRow(rules[k].owner)
  /\ \A s \in Newest : \A k \in inserted[s] : k \in RulesInForce /\ rules[k].owner = s
  /\ Cardinality(Newest) <= 1

(* After its registration is done, a session owns no rule row its last     *)
(* registration did not ask for, unless a crash came between the upsert of *)
(* the session and the rewriting of its rules: the next start leaves the   *)
(* rules of the registration before.                                       *)
NoLeftoverRules ==
  \A k \in Keys : rules[k] # None /\ rules[k].owner # Person =>
    \/ k \in inserted[rules[k].owner]
    \/ \E h \in Handlers : req[h].pc = "rules" /\ req[h].who = rules[k].owner
    \/ rules[k].owner \in torn

(* A rule a person asked for stays until a person deletes it.  It can only *)
(* vanish if CreateRule had answered with a session's row of the same key, *)
(* which then went with the session.                                       *)
PersonsRuleKept ==
  \A k \in owed \ adopted : rules[k] # None /\ rules[k].exp > now

(* Substitutions are never counted twice, whatever the flush, crashes and  *)
(* re-registrations do; and none is dropped unless a row or a counter with *)
(* counts in it was replaced or removed, the session had no counter after  *)
(* a restart, or the write failed.                                         *)
SubstitutionsCounted ==
  \A s \in Sids :
    LET counted == (IF HasRow(s) THEN sess[s].count ELSE 0) + Pending(s) + cleaner.batch[s]
    IN  /\ counted <= performed[s]
        /\ HasRow(s) /\ s \notin excused => counted = performed[s]
=============================================================================
