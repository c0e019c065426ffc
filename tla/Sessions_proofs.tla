-------------------------- MODULE Sessions_proofs ---------------------------
(***************************************************************************)
(* Proofs about Sessions, for any number of sessions, global credentials,  *)
(* rule keys and handlers, any lifetimes and any bounds.                   *)
(*                                                                         *)
(* The invariant is in five parts, each preserved by every step on the     *)
(* strength of the first: types and the requests under way (RequestsSound),*)
(* the rows of sessions (RowsSound), the rules (RulesSound), the counts *)
(* (CountsSound) and the two copies of a credential (CopiesSound).         *)
(***************************************************************************)
EXTENDS Sessions, TLAPS, FiniteSetTheorems

HistoryTypeOK ==
  /\ performed \in [Sids -> Nat]
  /\ excused \subseteq Sids /\ disturbed \subseteq Owners
  /\ inserted \in [Sids -> SUBSET Keys]
  /\ torn \subseteq Sids /\ owed \subseteq Keys /\ adopted \subseteq Keys
  /\ ops \in Nat /\ faults \in Nat

\* What the stage of a request says of its other fields.
StageOK(r) ==
  /\ r.pc = "rules" => r.op = "create"
  /\ r.pc # "idle" => r.op \in {"create", "delete", "gcreate", "gdelete"}
  /\ r.pc # "idle" /\ r.op = "create" => r.who \in Sids /\ r.ver \in Vers
  /\ r.pc # "idle" /\ r.op = "delete" => r.who \in Sids
  /\ r.pc # "idle" /\ r.op \in {"gcreate", "gdelete"} => r.who \in Globals

\* A registration between its statements has its row, and the lock for itself.
RegistrationOK(h) ==
  req[h].pc = "rules" =>
    /\ HasRow(req[h].who)
    /\ \A g \in Handlers : req[g].pc = "rules" => g = h

RequestsSound ==
  /\ SessionsTypeOK /\ HistoryTypeOK
  /\ \A h \in Handlers : StageOK(req[h]) /\ RegistrationOK(h)

\* No two rows are equally old, none is of a request to come, and none expires
\* later than a refresh now would let it.
RowsSound ==
  /\ \A s \in Sids : HasRow(s) => sess[s].born <= ops
  /\ \A s, t \in Sids : HasRow(s) /\ HasRow(t) /\ sess[s].born = sess[t].born => s = t
  /\ \A s \in Sids : HasRow(s) => sess[s].exp <= now + sess[s].ttl

\* The session is being registered again, or such a registration was cut short.
Unsettled(s) == s \in torn \/ \E h \in Handlers : req[h].pc = "rules" /\ req[h].who = s

\* What a rule row owes to its owner: a person's stays for ever, a session's
\* has its session, and is one its registration inserted unless the session is
\* unsettled.
OwnedOK(k) ==
  rules[k] # None =>
    /\ rules[k].owner = Person => rules[k].exp = Forever
    /\ rules[k].owner # Person =>
         /\ HasRow(rules[k].owner)
         /\ k \in inserted[rules[k].owner] \/ Unsettled(rules[k].owner)

\* A rule that a registration inserted is there and lives as long as its session.
InsertedOK(s) ==
  /\ \A k \in inserted[s] :
       /\ rules[k] # None /\ rules[k].owner = s
       /\ HasRow(s) /\ rules[k].exp >= sess[s].exp
  /\ \A h \in Handlers : req[h].pc = "rules" /\ req[h].who = s => inserted[s] = {}

RulesSound ==
  /\ \A k \in Keys : OwnedOK(k)
  /\ \A s \in Sids : InsertedOK(s)
  /\ \A k \in owed \ adopted : rules[k] # None /\ rules[k].owner = Person

\* Every substitution is in the row, in the counter or in the batch of the flush.
Stored(s) == IF HasRow(s) THEN sess[s].count ELSE 0
Counted(s) == Stored(s) + Pending(s) + cleaner.batch[s]

CountsSound ==
  /\ cleaner.pc # "write" => \A s \in Sids : cleaner.batch[s] = 0
  /\ \A s \in Sids : Counted(s) <= performed[s] /\ (s \notin excused => Counted(s) = performed[s])

\* A request is busy with the credentials of o, or the cleanup loop is.
Busy(h, o) == req[h].pc # "idle" /\ req[h].who = o
Cleaned(o) == cleaner.pc = "mem" /\ o \in cleaner.ids

\* An undisturbed owner has at most one change on its way to memory, and the
\* tables are as that change left them.
AloneOK(o) ==
  /\ \A g, h \in Handlers : Busy(g, o) /\ Busy(h, o) => g = h
  /\ \A h \in Handlers : Busy(h, o) => ~Cleaned(o)

SessionCopyOK(s) ==
  /\ \A h \in Handlers : Busy(h, s) /\ req[h].op = "create" => HasRow(s) /\ sess[s].ver = req[h].ver
  /\ \A h \in Handlers : Busy(h, s) /\ req[h].op = "delete" => ~HasRow(s)
  /\ Cleaned(s) => ~HasRow(s)
  /\ ~Unfinished(s) =>
       /\ mem[s] # None => HasRow(s) /\ mem[s] = sess[s].ver
       /\ Active(s) /\ sess[s].readable => mem[s] = sess[s].ver

GlobalCopyOK(g) ==
  /\ \A h \in Handlers : Busy(h, g) /\ req[h].op = "gcreate" => gdb[g] = "live"
  /\ \A h \in Handlers : Busy(h, g) /\ req[h].op = "gdelete" => gdb[g] = "deleted"
  /\ ~Unfinished(g) => (g \in gmem <=> gdb[g] = "live")

CopyOK(o) ==
  /\ AloneOK(o)
  /\ o \in Sids => SessionCopyOK(o)
  /\ o \in Globals => GlobalCopyOK(o)

CopiesSound == \A o \in Owners \ disturbed : CopyOK(o)

SessionsInv == RequestsSound /\ RowsSound /\ RulesSound /\ CountsSound /\ CopiesSound
------------------------------------------------------------------------------
(* Types, and the requests under way.                                      *)

\* The fields of a row that is there.
LEMMA RowFields ==
  ASSUME SessionsTypeOK, NEW s \in Sids, HasRow(s)
  PROVE  /\ sess[s] \in SessionRow /\ sess[s].exp \in Nat /\ sess[s].born \in Nat
         /\ sess[s].ttl \in TTLs /\ sess[s].ttl \in Nat /\ sess[s].ver \in Vers
         /\ sess[s].count \in Nat /\ sess[s].readable \in BOOLEAN
<1>1. sess[s] \in SessionRow
  BY DEF SessionsTypeOK, HasRow
<1>2. QED
  BY <1>1, SessionsAssumption DEF SessionRow

\* The fields of a rule row that is there.
LEMMA RuleFields ==
  ASSUME SessionsTypeOK, NEW k \in Keys, rules[k] # None
  PROVE  rules[k] \in RuleRow /\ rules[k].owner \in Sids \cup {Person} /\ rules[k].exp \in Nat
<1>1. rules[k] \in RuleRow
  BY DEF SessionsTypeOK
<1>2. QED
  BY <1>1 DEF RuleRow

\* Deleting the rules of sessions leaves a table of rules.
LEMMA WithoutRulesType ==
  ASSUME SessionsTypeOK, NEW S
  PROVE  /\ WithoutRulesOf(S) \in [Keys -> RuleRow \cup {None}]
         /\ \A k \in Keys : WithoutRulesOf(S)[k] = IF rules[k] # None /\ rules[k].owner \in S
                                                   THEN None ELSE rules[k]
BY DEF WithoutRulesOf, SessionsTypeOK

Reqs == [pc : {"idle", "rules", "mem"}, op : {None, "create", "delete", "gcreate", "gdelete"},
         who : Owners \cup {None}, ver : Vers \cup {None}, keys : SUBSET Keys]
Cleaners == [pc : {"idle", "mem", "swap", "write"}, ids : SUBSET Sids, batch : [Sids -> Nat]]

\* The resting values have their types.
LEMMA RestingTypes == Idle \in Reqs /\ StageOK(Idle) /\ RestingCleaner \in Cleaners
BY DEF Idle, Reqs, StageOK, RestingCleaner, Cleaners

\* What a request of the API becomes at its start, and at its end.
LEMMA StartReq ==
  ASSUME RequestsSound, NEW h \in Handlers, NEW op, NEW who, NEW pc, NEW ver, NEW K,
         Start(h, op, who, pc, ver, K)
  PROVE  /\ req'[h] = [pc |-> pc, op |-> op, who |-> who, ver |-> ver, keys |-> K]
         /\ \A g \in Handlers : g # h => req'[g] = req[g]
         /\ ops' = ops + 1 /\ ops' \in Nat /\ req[h].pc = "idle"
BY DEF Start, RequestsSound, SessionsTypeOK, HistoryTypeOK

\* The end of a request.
LEMMA FinishReq ==
  ASSUME RequestsSound, NEW h \in Handlers, Finish(h)
  PROVE  /\ req'[h] = Idle
         /\ \A g \in Handlers : g # h => req'[g] = req[g]
         /\ req' \in [Handlers -> Reqs]
BY RestingTypes DEF Finish, RequestsSound, SessionsTypeOK, Reqs

\* The first step of a request keeps the table of requests sound, the others
\* being what they were.
LEMMA StartSound ==
  ASSUME RequestsSound, NEW h \in Handlers, NEW op \in {"create", "delete", "gcreate", "gdelete"},
         NEW who \in Owners, NEW pc \in {"rules", "mem"}, NEW ver \in Vers \cup {None},
         NEW K \in SUBSET Keys, Start(h, op, who, pc, ver, K), dbFree,
         pc = "rules" => op = "create",
         op = "create" => who \in Sids /\ ver \in Vers,
         op = "delete" => who \in Sids,
         op \in {"gcreate", "gdelete"} => who \in Globals
  PROVE  /\ req' \in [Handlers -> Reqs]
         /\ \A g \in Handlers : StageOK(req'[g])
         /\ \A g \in Handlers : req'[g].pc = "rules" => g = h /\ pc = "rules" /\ req'[g].who = who
<1> DEFINE r == [pc |-> pc, op |-> op, who |-> who, ver |-> ver, keys |-> K]
<1>1. r \in Reqs
  BY DEF Reqs
<1>2. StageOK(r)
  BY DEF StageOK
<1>3. r.pc = pc /\ r.who = who
  OBVIOUS
<1>4. req' = [req EXCEPT ![h] = r]
  BY DEF Start
<1> HIDE DEF r
<1>5. req' \in [Handlers -> Reqs]
  BY <1>1, <1>4 DEF RequestsSound, SessionsTypeOK, Reqs
<1>6. \A g \in Handlers : req'[g] = IF g = h THEN r ELSE req[g]
  BY <1>4 DEF RequestsSound, SessionsTypeOK
<1>7. QED
  BY <1>2, <1>3, <1>5, <1>6 DEF RequestsSound, dbFree

\* The end of a request keeps the table of requests sound.
LEMMA FinishSound ==
  ASSUME RequestsSound, NEW h \in Handlers, Finish(h)
  PROVE  /\ req' \in [Handlers -> Reqs]
         /\ \A g \in Handlers : StageOK(req'[g])
         /\ \A g \in Handlers : req'[g].pc = "rules" => req'[g] = req[g]
<1>1. Idle.pc = "idle"
  BY DEF Idle
<1>2. QED
  BY <1>1, FinishReq, RestingTypes DEF RequestsSound

\* What the proofs about an action may assume of the sessions.
LEMMA Opened ==
  ASSUME RequestsSound
  PROVE  /\ SessionsTypeOK /\ HistoryTypeOK
         /\ req \in [Handlers -> Reqs] /\ cleaner \in Cleaners
         /\ \A h \in Handlers : StageOK(req[h]) /\ RegistrationOK(h)
BY DEF RequestsSound, SessionsTypeOK, Reqs, Cleaners

\* A step that leaves the requests alone and keeps their rows.
LEMMA RequestsFrame ==
  ASSUME RequestsSound, SessionsTypeOK', HistoryTypeOK', req' = req,
         \A s \in Sids : HasRow(s) /\ ~dbFree => HasRow(s)'
  PROVE  RequestsSound'
<1>1. \A h \in Handlers : StageOK(req[h])' /\ RegistrationOK(h)'
  <2> SUFFICES ASSUME NEW h \in Handlers PROVE StageOK(req[h])' /\ RegistrationOK(h)'
    OBVIOUS
  <2>1. StageOK(req[h])'
    BY DEF RequestsSound, StageOK
  <2>2. req[h].pc = "rules" => req[h].who \in Sids /\ ~dbFree
    BY DEF RequestsSound, StageOK, dbFree
  <2>3. RegistrationOK(h)'
    BY <2>2 DEF RequestsSound, RegistrationOK
  <2>4. QED
    BY <2>1, <2>3
<1>2. QED
  BY <1>1 DEF RequestsSound

\* A step that changes the requests, once it is known of each that is between
\* the statements of a registration that it has its row.
LEMMA RequestsChange ==
  ASSUME SessionsTypeOK', HistoryTypeOK',
         \A h \in Handlers : StageOK(req'[h]),
         \A h \in Handlers : req'[h].pc = "rules" => sess'[req'[h].who] # None,
         \A g, h \in Handlers : req'[g].pc = "rules" /\ req'[h].pc = "rules" => g = h
  PROVE  RequestsSound'
<1>1. \A h \in Handlers : StageOK(req[h])'
  BY DEF StageOK
<1>2. \A h \in Handlers : RegistrationOK(h)'
  BY DEF RegistrationOK, HasRow
<1>3. QED
  BY <1>1, <1>2 DEF RequestsSound
------------------------------------------------------------------------------
\* The step of a registration that inserts or refreshes the row of its session.
LEMMA UpsertRequests ==
  ASSUME RequestsSound, NEW h \in Handlers, NEW s \in Sids, NEW ver \in Vers, NEW ttl \in TTLs,
         NEW K \in SUBSET Keys, CreateUpsert(h, s, ver, ttl, K)
  PROVE  /\ RequestsSound'
         /\ sess'[s].exp = now + ttl /\ sess'[s].ttl = ttl /\ sess'[s].ver = ver
         /\ sess'[s].born = IF HasRow(s) THEN sess[s].born ELSE ops + 1
         /\ sess'[s].count = IF HasRow(s) THEN sess[s].count ELSE 0
         /\ HasRow(s)'
         /\ \A t \in Sids : t # s => sess'[t] = sess[t]
<1> DEFINE row == [exp |-> now + ttl, ttl |-> ttl, ver |-> ver, readable |-> TRUE,
                   born |-> IF HasRow(s) THEN sess[s].born ELSE ops + 1,
                   count |-> IF HasRow(s) THEN sess[s].count ELSE 0]
<1>1. now \in Nat /\ ops \in Nat /\ ttl \in Nat
  BY SessionsAssumption DEF RequestsSound, SessionsTypeOK, HistoryTypeOK, Times
<1>2. (IF HasRow(s) THEN sess[s].born ELSE ops + 1) \in Nat /\ (IF HasRow(s) THEN sess[s].count ELSE 0) \in Nat
  BY <1>1, RowFields DEF RequestsSound
<1>3. row \in SessionRow
  BY <1>1, <1>2 DEF SessionRow
<1>4. /\ row.exp = now + ttl /\ row.ttl = ttl /\ row.ver = ver
      /\ row.born = IF HasRow(s) THEN sess[s].born ELSE ops + 1
      /\ row.count = IF HasRow(s) THEN sess[s].count ELSE 0
  OBVIOUS
<1>5. sess' = [sess EXCEPT ![s] = row]
  BY DEF CreateUpsert
<1> HIDE DEF row
<1>6. sess' \in [Sids -> SessionRow \cup {None}] /\ sess'[s] = row /\ \A t \in Sids : t # s => sess'[t] = sess[t]
  BY <1>3, <1>5 DEF RequestsSound, SessionsTypeOK
<1>7. row # None
  BY <1>3, NullAssumption
<1>8. /\ req' \in [Handlers -> Reqs]
      /\ \A g \in Handlers : StageOK(req'[g])
      /\ \A g \in Handlers : req'[g].pc = "rules" => g = h /\ req'[g].who = s
  BY StartSound DEF CreateUpsert, Owners
<1>9. SessionsTypeOK'
  BY <1>6, <1>8 DEF CreateUpsert, RequestsSound, SessionsTypeOK, Reqs, memVars
<1>10. HistoryTypeOK'
  <2>1. disturbed' \subseteq Owners
    BY DEF CreateUpsert, Disturb, RequestsSound, HistoryTypeOK, Owners
  <2>2. ops' \in Nat
    BY <1>1 DEF CreateUpsert, Start
  <2>3. inserted' \in [Sids -> SUBSET Keys]
    BY DEF CreateUpsert, RequestsSound, HistoryTypeOK
  <2>4. QED
    BY <2>1, <2>2, <2>3 DEF CreateUpsert, RequestsSound, HistoryTypeOK
<1>11. RequestsSound'
  BY <1>6, <1>7, <1>8, <1>9, <1>10, RequestsChange
<1>12. QED
  BY <1>4, <1>6, <1>7, <1>11 DEF HasRow

\* The step of a registration that rewrites the rules.
LEMMA RulesRequests ==
  ASSUME RequestsSound, NEW h \in Handlers, CreateRules(h)
  PROVE  /\ RequestsSound'
         /\ req[h].who \in Sids /\ HasRow(req[h].who)
         /\ req'[h].pc = "mem" /\ req'[h].op = req[h].op /\ req'[h].who = req[h].who
         /\ req'[h].ver = req[h].ver
         /\ \A g \in Handlers : g # h => req'[g] = req[g]
<1> DEFINE s == req[h].who
           old == WithoutRulesOf({s})
           new == {k \in req[h].keys : old[k] = None}
           row == [owner |-> s, exp |-> now + sess[s].ttl]
<1>1. s \in Sids /\ HasRow(s) /\ req[h].keys \subseteq Keys /\ req[h] \in Reqs
  BY DEF CreateRules, RequestsSound, StageOK, RegistrationOK, SessionsTypeOK, Reqs
<1>2. now + sess[s].ttl \in Nat
  BY <1>1, RowFields DEF RequestsSound, SessionsTypeOK, Times
<1>3. row \in RuleRow
  BY <1>1, <1>2 DEF RuleRow
<1>4. rules' = [k \in Keys |-> IF k \in new THEN row ELSE old[k]]
  BY DEF CreateRules
<1>5. new \subseteq Keys
  BY <1>1
<1> HIDE DEF row, new, old
<1>6. old \in [Keys -> RuleRow \cup {None}]
  BY WithoutRulesType DEF RequestsSound, old
<1>7. rules' \in [Keys -> RuleRow \cup {None}]
  BY <1>3, <1>4, <1>6
<1>8. inserted' \in [Sids -> SUBSET Keys]
  BY <1>5, <1>1 DEF CreateRules, RequestsSound, HistoryTypeOK, new, old
<1>9. req' = [req EXCEPT ![h].pc = "mem"]
  BY DEF CreateRules
<1>10. /\ req' \in [Handlers -> Reqs]
       /\ req'[h].pc = "mem" /\ req'[h].op = req[h].op /\ req'[h].who = req[h].who
       /\ req'[h].ver = req[h].ver
       /\ \A g \in Handlers : g # h => req'[g] = req[g]
  BY <1>9, Opened DEF Reqs
<1>11. \A g \in Handlers : StageOK(req'[g])
  <2>1. StageOK(req'[h])
    BY <1>1, <1>10 DEF RequestsSound, StageOK, CreateRules
  <2>2. QED
    BY <2>1, <1>10 DEF RequestsSound
<1>12. \A g \in Handlers : req'[g].pc # "rules"
  BY <1>10 DEF RequestsSound, RegistrationOK, CreateRules
<1>13. SessionsTypeOK'
  BY <1>7, <1>10 DEF CreateRules, RequestsSound, SessionsTypeOK, Reqs, memVars
<1>14. HistoryTypeOK'
  BY <1>8 DEF CreateRules, RequestsSound, HistoryTypeOK
<1>15. QED
  BY <1>1, <1>10, <1>11, <1>12, <1>13, <1>14, RequestsChange

\* The registration whose inserts fail.
LEMMA RulesFailRequests ==
  ASSUME RequestsSound, NEW h \in Handlers, CreateRulesFail(h)
  PROVE  RequestsSound' /\ req[h].who \in Sids
<1>1. req[h].who \in Sids
  BY DEF CreateRulesFail, RequestsSound, StageOK
<1>2. rules' \in [Keys -> RuleRow \cup {None}]
  BY WithoutRulesType DEF CreateRulesFail, RequestsSound
<1>3. /\ req' \in [Handlers -> Reqs]
      /\ \A g \in Handlers : StageOK(req'[g])
      /\ \A g \in Handlers : req'[g].pc = "rules" => req'[g] = req[g]
  BY FinishSound DEF CreateRulesFail
<1>4. SessionsTypeOK'
  BY <1>2, <1>3 DEF CreateRulesFail, RequestsSound, SessionsTypeOK, Reqs, memVars
<1>5. HistoryTypeOK'
  BY <1>1 DEF CreateRulesFail, RequestsSound, HistoryTypeOK, Owners
<1>6. QED
  BY <1>1, <1>3, <1>4, <1>5, RequestsChange DEF RequestsSound, RegistrationOK, HasRow, CreateRulesFail

\* The end of a registration or a deletion, in memory.
LEMMA MemRequests ==
  ASSUME RequestsSound, NEW h \in Handlers,
         \/ RegisterSession(h) \/ UnregisterSession(h)
         \/ RegisterGlobalCredential(h) \/ UnregisterGlobalCredential(h)
  PROVE  RequestsSound'
<1>1. Finish(h) /\ sess' = sess /\ rules' = rules /\ gdb' = gdb /\ now' = now /\ cleaner' = cleaner
  BY DEF RegisterSession, UnregisterSession, RegisterGlobalCredential, UnregisterGlobalCredential, dbVars
<1>2. /\ req' \in [Handlers -> Reqs]
      /\ \A g \in Handlers : StageOK(req'[g])
      /\ \A g \in Handlers : req'[g].pc = "rules" => req'[g] = req[g]
  BY <1>1, FinishSound
<1>3. /\ mem' \in [Sids -> Vers \cup {None}]
      /\ gmem' \subseteq Globals
      /\ pendingCounts' \in [Sids -> Nat \cup {None}]
      /\ HistoryTypeOK'
  <2>1. CASE RegisterSession(h)
    <3>1. req[h].who \in Sids /\ req[h].ver \in Vers
      BY <2>1 DEF RegisterSession, RequestsSound, StageOK
    <3>2. QED
      BY <2>1, <3>1 DEF RegisterSession, RequestsSound, SessionsTypeOK, HistoryTypeOK
  <2>2. CASE UnregisterSession(h)
    <3>1. req[h].who \in Sids
      BY <2>2 DEF UnregisterSession, RequestsSound, StageOK
    <3>2. QED
      BY <2>2, <3>1 DEF UnregisterSession, Removed, RequestsSound, SessionsTypeOK, HistoryTypeOK
  <2>3. CASE RegisterGlobalCredential(h)
    <3>1. req[h].who \in Globals
      BY <2>3 DEF RegisterGlobalCredential, RequestsSound, StageOK
    <3>2. QED
      BY <2>3, <3>1 DEF RegisterGlobalCredential, RequestsSound, SessionsTypeOK, HistoryTypeOK, history
  <2>4. CASE UnregisterGlobalCredential(h)
    BY <2>4 DEF UnregisterGlobalCredential, RequestsSound, SessionsTypeOK, HistoryTypeOK, history
  <2>5. QED
    BY <2>1, <2>2, <2>3, <2>4
<1>4. SessionsTypeOK'
  BY <1>1, <1>2, <1>3 DEF RequestsSound, SessionsTypeOK, Reqs
<1>5. QED
  BY <1>1, <1>2, <1>3, <1>4, RequestsChange DEF RequestsSound, RegistrationOK, HasRow
------------------------------------------------------------------------------
\* A heartbeat keeps every row, and what it does not refresh.
LEMMA HeartbeatRequests ==
  ASSUME RequestsSound, NEW s \in Sids, HeartbeatSession(s)
  PROVE  /\ RequestsSound'
         /\ HasRow(s) /\ HasRow(s)' /\ sess'[s].exp = now + sess[s].ttl
         /\ sess'[s].born = sess[s].born /\ sess'[s].ver = sess[s].ver
         /\ sess'[s].ttl = sess[s].ttl
         /\ sess'[s].count = sess[s].count /\ (sess'[s].readable <=> sess[s].readable)
         /\ \A t \in Sids : t # s => sess'[t] = sess[t]
<1>1. HasRow(s) /\ now \in Nat
  BY DEF HeartbeatSession, Active, RequestsSound, SessionsTypeOK, Times
<1> DEFINE row == [sess[s] EXCEPT !.exp = now + sess[s].ttl]
<1>2. sess[s] \in SessionRow /\ now + sess[s].ttl \in Nat
  BY <1>1, RowFields DEF RequestsSound
<1>3. /\ row \in SessionRow
      /\ row.exp = now + sess[s].ttl /\ row.born = sess[s].born /\ row.ver = sess[s].ver
      /\ row.ttl = sess[s].ttl /\ row.count = sess[s].count /\ (row.readable <=> sess[s].readable)
  BY <1>2 DEF SessionRow
<1>4. sess' = [sess EXCEPT ![s] = row]
  BY DEF HeartbeatSession
<1> HIDE DEF row
<1>5. sess' \in [Sids -> SessionRow \cup {None}] /\ sess'[s] = row /\ \A t \in Sids : t # s => sess'[t] = sess[t]
  BY <1>3, <1>4 DEF RequestsSound, SessionsTypeOK
<1>6. row # None
  BY <1>3, NullAssumption
<1>7. rules' \in [Keys -> RuleRow \cup {None}]
  <2>1. \A k \in Keys : rules[k] # None => [rules[k] EXCEPT !.exp = now + sess[s].ttl] \in RuleRow
    BY <1>2, RuleFields DEF RequestsSound, RuleRow
  <2>2. QED
    BY <2>1 DEF HeartbeatSession, RequestsSound, SessionsTypeOK
<1>8. SessionsTypeOK'
  BY <1>5, <1>7 DEF HeartbeatSession, RequestsSound, SessionsTypeOK, memVars
<1>9. HistoryTypeOK'
  BY DEF HeartbeatSession, RequestsSound, HistoryTypeOK, history
<1>10. RequestsSound'
  BY <1>8, <1>9, RequestsFrame DEF HeartbeatSession
<1>11. QED
  BY <1>1, <1>3, <1>5, <1>6, <1>10 DEF HasRow

\* DELETE of a session.
LEMMA DeleteRequests ==
  ASSUME RequestsSound, NEW h \in Handlers, NEW s \in Sids, DeleteSession(h, s)
  PROVE  /\ RequestsSound'
         /\ sess'[s] = None
         /\ \A t \in Sids : t # s => sess'[t] = sess[t]
<1>1. /\ req' \in [Handlers -> Reqs]
      /\ \A g \in Handlers : StageOK(req'[g])
      /\ \A g \in Handlers : req'[g].pc # "rules"
  BY StartSound DEF DeleteSession, Owners
<1>2. rules' \in [Keys -> RuleRow \cup {None}]
  BY WithoutRulesType DEF DeleteSession, RequestsSound
<1>3. /\ sess' \in [Sids -> SessionRow \cup {None}] /\ sess'[s] = None
      /\ \A t \in Sids : t # s => sess'[t] = sess[t]
  BY DEF DeleteSession, RequestsSound, SessionsTypeOK
<1>4. SessionsTypeOK'
  BY <1>1, <1>2, <1>3 DEF DeleteSession, RequestsSound, SessionsTypeOK, Reqs, memVars
<1>5. HistoryTypeOK'
  <2>1. disturbed' \subseteq Owners /\ excused' \subseteq Sids
    BY DEF DeleteSession, Disturb, RequestsSound, HistoryTypeOK, Owners
  <2>2. ops' \in Nat
    BY DEF DeleteSession, Start, RequestsSound, HistoryTypeOK
  <2>3. inserted' \in [Sids -> SUBSET Keys]
    BY DEF DeleteSession, RequestsSound, HistoryTypeOK
  <2>4. QED
    BY <2>1, <2>2, <2>3 DEF DeleteSession, RequestsSound, HistoryTypeOK
<1>6. QED
  BY <1>1, <1>3, <1>4, <1>5, RequestsChange

\* A global credential is created or deleted.
LEMMA GlobalRequests ==
  ASSUME RequestsSound, NEW h \in Handlers, NEW g \in Globals,
         CreateGlobalCredential(h, g) \/ DeleteGlobalCredential(h, g)
  PROVE  RequestsSound'
<1>1. /\ req' \in [Handlers -> Reqs]
      /\ \A i \in Handlers : StageOK(req'[i])
      /\ \A i \in Handlers : req'[i].pc # "rules"
  <2>1. CASE CreateGlobalCredential(h, g)
    BY <2>1, StartSound DEF CreateGlobalCredential, Owners
  <2>2. CASE DeleteGlobalCredential(h, g)
    BY <2>2, StartSound DEF DeleteGlobalCredential, Owners
  <2>3. QED
    BY <2>1, <2>2
<1>2. gdb' \in [Globals -> {"new", "live", "unreadable", "deleted"}]
  BY DEF CreateGlobalCredential, DeleteGlobalCredential, RequestsSound, SessionsTypeOK
<1>3. SessionsTypeOK'
  BY <1>1, <1>2 DEF CreateGlobalCredential, DeleteGlobalCredential, RequestsSound, SessionsTypeOK, Reqs, memVars
<1>4. HistoryTypeOK'
  <2>1. disturbed' \subseteq Owners
    BY DEF CreateGlobalCredential, DeleteGlobalCredential, Disturb, RequestsSound, HistoryTypeOK, Owners
  <2>2. ops' \in Nat
    BY DEF CreateGlobalCredential, DeleteGlobalCredential, Start, RequestsSound, HistoryTypeOK
  <2>3. QED
    BY <2>1, <2>2 DEF CreateGlobalCredential, DeleteGlobalCredential, RequestsSound, HistoryTypeOK
<1>5. QED
  BY <1>1, <1>3, <1>4, RequestsChange

\* The rules of people.
LEMMA PersonRequests ==
  ASSUME RequestsSound, NEW k \in Keys, CreateRule(k) \/ DeleteRule(k)
  PROVE  RequestsSound'
<1>1. [owner |-> Person, exp |-> Forever] \in RuleRow
  BY SessionsAssumption DEF RuleRow, Forever
<1>2. rules' \in [Keys -> RuleRow \cup {None}]
  BY <1>1 DEF CreateRule, DeleteRule, RequestsSound, SessionsTypeOK
<1>3. SessionsTypeOK'
  BY <1>2 DEF CreateRule, DeleteRule, RequestsSound, SessionsTypeOK, memVars
<1>4. inserted' \in [Sids -> SUBSET Keys]
  BY DEF CreateRule, DeleteRule, RequestsSound, HistoryTypeOK
<1>5. owed' \subseteq Keys /\ adopted' \subseteq Keys /\ ops' \in Nat
  BY DEF CreateRule, DeleteRule, RequestsSound, HistoryTypeOK
<1>6. HistoryTypeOK'
  BY <1>4, <1>5 DEF CreateRule, DeleteRule, RequestsSound, HistoryTypeOK
<1>7. QED
  BY <1>3, <1>6, RequestsFrame DEF CreateRule, DeleteRule, HasRow

\* A substitution, and the clock.
LEMMA SubstituteRequests ==
  ASSUME RequestsSound, NEW s \in Sids, SubstituteRequest(s)
  PROVE  RequestsSound'
<1>1. pendingCounts' \in [Sids -> Nat \cup {None}] /\ excused' \subseteq Sids
  BY DEF SubstituteRequest, RequestsSound, SessionsTypeOK, HistoryTypeOK
<1>2. performed' \in [Sids -> Nat]
  BY DEF SubstituteRequest, RequestsSound, HistoryTypeOK
<1>3. SessionsTypeOK'
  BY <1>1 DEF SubstituteRequest, RequestsSound, SessionsTypeOK, dbVars
<1>4. HistoryTypeOK'
  BY <1>1, <1>2 DEF SubstituteRequest, RequestsSound, HistoryTypeOK
<1>5. QED
  BY <1>3, <1>4, RequestsFrame DEF SubstituteRequest, HasRow, dbVars

\* The clock.
LEMMA TickRequests == ASSUME RequestsSound, Tick PROVE RequestsSound'
<1>1. now' \in Times
  BY SessionsAssumption DEF Tick, RequestsSound, SessionsTypeOK, Times
<1>2. SessionsTypeOK' /\ HistoryTypeOK'
  BY <1>1 DEF Tick, RequestsSound, SessionsTypeOK, HistoryTypeOK, dbVars, memVars, history
<1>3. QED
  BY <1>2, RequestsFrame DEF Tick, HasRow, dbVars
------------------------------------------------------------------------------
\* The deletion of the expired sessions.
LEMMA CleanupRequests ==
  ASSUME RequestsSound, CleanupDelete
  PROVE  /\ RequestsSound'
         /\ \A s \in Sids : sess'[s] = IF Expired(s) THEN None ELSE sess[s]
<1> DEFINE ids == {s \in Sids : Expired(s)}
<1>1. rules' \in [Keys -> RuleRow \cup {None}]
  BY WithoutRulesType DEF CleanupDelete, RequestsSound
<1>2. /\ sess' \in [Sids -> SessionRow \cup {None}]
      /\ \A s \in Sids : sess'[s] = IF Expired(s) THEN None ELSE sess[s]
  BY DEF CleanupDelete, RequestsSound, SessionsTypeOK
<1>3. ids \subseteq Sids /\ cleaner' = [cleaner EXCEPT !.pc = IF ids = {} THEN "swap" ELSE "mem", !.ids = ids]
  BY DEF CleanupDelete
<1> HIDE DEF ids
<1>4. cleaner' \in Cleaners
  BY <1>3, Opened DEF Cleaners
<1>5. SessionsTypeOK'
  BY <1>1, <1>2, <1>4 DEF CleanupDelete, RequestsSound, SessionsTypeOK, Cleaners, memVars
<1>6. disturbed' \subseteq Owners /\ excused' \subseteq Sids /\ inserted' \in [Sids -> SUBSET Keys]
  <2>1. disturbed' = disturbed \cup {o \in ids : Unfinished(o)}
    BY DEF CleanupDelete, Disturb, ids
  <2>2. excused' = excused \cup {s \in ids : sess[s].count > 0}
    BY DEF CleanupDelete, ids
  <2>3. QED
    BY <2>1, <2>2, <1>3 DEF CleanupDelete, RequestsSound, HistoryTypeOK, Owners
<1>7. HistoryTypeOK'
  BY <1>6 DEF CleanupDelete, RequestsSound, HistoryTypeOK
<1>8. QED
  BY <1>2, <1>5, <1>7, RequestsFrame DEF CleanupDelete

\* The other steps of the cleanup loop.
LEMMA CleanerRequests ==
  ASSUME RequestsSound, CleanupForget \/ FlushSwap \/ FlushDone
  PROVE  RequestsSound'
<1>1. cleaner' \in Cleaners
  <2>1. CASE CleanupForget
    BY <2>1, Opened DEF CleanupForget, Cleaners
  <2>2. CASE FlushSwap
    <3>1. [s \in Sids |-> Pending(s)] \in [Sids -> Nat]
      BY DEF Pending, RequestsSound, SessionsTypeOK
    <3>2. QED
      BY <2>2, <3>1, Opened DEF FlushSwap, Cleaners
  <2>3. CASE FlushDone
    BY <2>3, RestingTypes DEF FlushDone
  <2>4. QED
    BY <2>1, <2>2, <2>3
<1>2. /\ mem' \in [Sids -> Vers \cup {None}]
      /\ pendingCounts' \in [Sids -> Nat \cup {None}]
      /\ HistoryTypeOK'
  <2>1. CASE CleanupForget
    <3>1. cleaner.ids \subseteq Sids
      BY DEF RequestsSound, SessionsTypeOK
    <3>2. QED
      BY <2>1, <3>1 DEF CleanupForget, Removed, RequestsSound, SessionsTypeOK, HistoryTypeOK
  <2>2. CASE FlushSwap
    BY <2>2 DEF FlushSwap, RequestsSound, SessionsTypeOK, HistoryTypeOK, history
  <2>3. CASE FlushDone
    BY <2>3 DEF FlushDone, RequestsSound, SessionsTypeOK, HistoryTypeOK, history, memVars
  <2>4. QED
    BY <2>1, <2>2, <2>3
<1>3. SessionsTypeOK'
  BY <1>1, <1>2 DEF CleanupForget, FlushSwap, FlushDone, RequestsSound, SessionsTypeOK, Cleaners,
                    dbVars, memVars
<1>4. QED
  BY <1>2, <1>3, RequestsFrame DEF CleanupForget, FlushSwap, FlushDone, HasRow, dbVars

\* A count of the batch is written.
LEMMA FlushRequests ==
  ASSUME RequestsSound, NEW s \in Sids, FlushWrite(s)
  PROVE  /\ RequestsSound'
         /\ cleaner'.batch = [cleaner.batch EXCEPT ![s] = 0] /\ cleaner'.pc = cleaner.pc
         /\ cleaner'.ids = cleaner.ids
         /\ HasRow(s) =>
              /\ sess'[s] # None
              /\ sess'[s].count = sess[s].count + cleaner.batch[s]
              /\ sess'[s].exp = sess[s].exp /\ sess'[s].born = sess[s].born /\ sess'[s].ttl = sess[s].ttl
              /\ sess'[s].ver = sess[s].ver /\ (sess'[s].readable <=> sess[s].readable)
         /\ ~HasRow(s) => sess' = sess
         /\ \A t \in Sids : t # s => sess'[t] = sess[t]
<1>1. cleaner' \in Cleaners /\ cleaner'.batch = [cleaner.batch EXCEPT ![s] = 0]
      /\ cleaner'.pc = cleaner.pc /\ cleaner'.ids = cleaner.ids
  BY Opened DEF FlushWrite, Cleaners
<1>2. cleaner.batch[s] \in Nat
  BY DEF RequestsSound, SessionsTypeOK
<1> DEFINE row == [sess[s] EXCEPT !.count = @ + cleaner.batch[s]]
<1>3. HasRow(s) => /\ row \in SessionRow /\ row.count = sess[s].count + cleaner.batch[s]
                   /\ row.exp = sess[s].exp /\ row.born = sess[s].born /\ row.ttl = sess[s].ttl
                   /\ row.ver = sess[s].ver /\ (row.readable <=> sess[s].readable)
  BY <1>2, RowFields DEF RequestsSound, SessionRow
<1>4. sess' = IF HasRow(s) THEN [sess EXCEPT ![s] = row] ELSE sess
  BY DEF FlushWrite
<1> HIDE DEF row
<1>5. /\ sess' \in [Sids -> SessionRow \cup {None}]
      /\ HasRow(s) => sess'[s] = row /\ row # None
      /\ \A t \in Sids : t # s => sess'[t] = sess[t]
  BY <1>3, <1>4, NullAssumption DEF RequestsSound, SessionsTypeOK
<1>6. SessionsTypeOK'
  BY <1>1, <1>5 DEF FlushWrite, RequestsSound, SessionsTypeOK, Cleaners, memVars
<1>7. HistoryTypeOK'
  BY DEF FlushWrite, RequestsSound, HistoryTypeOK
<1>8. RequestsSound'
  BY <1>6, <1>7, RequestsFrame DEF FlushWrite
<1>9. QED
  BY <1>1, <1>3, <1>4, <1>5, <1>8

\* A count of the batch is lost.
LEMMA FlushFailRequests ==
  ASSUME RequestsSound, NEW s \in Sids, FlushFail(s)
  PROVE  /\ RequestsSound'
         /\ cleaner'.batch = [cleaner.batch EXCEPT ![s] = 0] /\ cleaner'.pc = cleaner.pc
         /\ cleaner'.ids = cleaner.ids
<1>1. cleaner' \in Cleaners /\ cleaner'.batch = [cleaner.batch EXCEPT ![s] = 0]
      /\ cleaner'.pc = cleaner.pc /\ cleaner'.ids = cleaner.ids
  BY Opened DEF FlushFail, Cleaners
<1>2. SessionsTypeOK'
  BY <1>1 DEF FlushFail, RequestsSound, SessionsTypeOK, Cleaners, memVars, dbVars
<1>3. HistoryTypeOK'
  BY DEF FlushFail, RequestsSound, HistoryTypeOK
<1>4. QED
  BY <1>1, <1>2, <1>3, RequestsFrame DEF FlushFail, HasRow, dbVars
------------------------------------------------------------------------------
\* The process starts again: no request is under way.
LEMMA RestartRequests ==
  ASSUME RequestsSound, Restart \/ \E P \in SUBSET Sids : RestartNewKey(P)
  PROVE  /\ req' = [h \in Handlers |-> Idle] /\ cleaner' = RestingCleaner
         /\ \A h \in Handlers : req'[h].pc = "idle" /\ StageOK(req'[h])
         /\ cleaner'.pc = "idle" /\ cleaner'.ids = {} /\ cleaner'.batch = [s \in Sids |-> 0]
         /\ disturbed' = {} /\ excused' = Sids /\ pendingCounts' = [s \in Sids |-> None]
         /\ performed' = performed /\ ops' = ops /\ faults' \in Nat /\ now' = now
         /\ owed' = owed /\ adopted' = adopted
         /\ torn' = torn \cup {req[h].who : h \in {g \in Handlers : req[g].pc = "rules"}}
         /\ torn' \subseteq Sids
<1>1. /\ req' = [h \in Handlers |-> Idle] /\ cleaner' = RestingCleaner
      /\ disturbed' = {} /\ excused' = Sids /\ pendingCounts' = [s \in Sids |-> None]
      /\ performed' = performed /\ ops' = ops /\ faults' = faults + 1 /\ now' = now
      /\ owed' = owed /\ adopted' = adopted
      /\ torn' = torn \cup {req[h].who : h \in {g \in Handlers : req[g].pc = "rules"}}
  BY DEF Restart, RestartNewKey
<1>2. torn' \subseteq Sids
  BY <1>1 DEF RequestsSound, HistoryTypeOK, StageOK
<1>3. Idle.pc = "idle"
  BY DEF Idle
<1>4. RestingCleaner.pc = "idle" /\ RestingCleaner.ids = {} /\ RestingCleaner.batch = [s \in Sids |-> 0]
  BY DEF RestingCleaner
<1>5. faults' \in Nat
  BY <1>1 DEF RequestsSound, HistoryTypeOK
<1>6. QED
  BY <1>1, <1>2, <1>3, <1>4, <1>5, RestingTypes

\* With the same key the tables are as they were and the maps are loaded from them.
LEMMA SameKeyRequests ==
  ASSUME RequestsSound, Restart
  PROVE  RequestsSound'
<1>1. mem' \in [Sids -> Vers \cup {None}]
  BY RowFields DEF Restart, Loaded, RequestsSound
<1>2. gmem' \subseteq Globals /\ sess' = sess /\ rules' = rules /\ gdb' = gdb /\ inserted' = inserted
  BY DEF Restart, dbVars
<1>3. pendingCounts' \in [Sids -> Nat \cup {None}] /\ cleaner' \in Cleaners /\ req' \in [Handlers -> Reqs]
  BY RestartRequests, RestingTypes
<1>4. SessionsTypeOK'
  BY <1>1, <1>2, <1>3, RestartRequests DEF RequestsSound, SessionsTypeOK, Reqs, Cleaners
<1>5. HistoryTypeOK'
  BY <1>2, RestartRequests DEF RequestsSound, HistoryTypeOK
<1>6. QED
  BY <1>4, <1>5, RestartRequests, RequestsChange

\* With a new key the rows of purged are gone and the others are unreadable.
LEMMA NewKeyRequests ==
  ASSUME RequestsSound, NEW P \in SUBSET Sids, RestartNewKey(P)
  PROVE  /\ RequestsSound'
         /\ \A s \in Sids : HasRow(s)' <=> HasRow(s) /\ s \notin P
         /\ \A s \in Sids : HasRow(s)' => /\ sess'[s].exp = sess[s].exp /\ sess'[s].born = sess[s].born
                                          /\ sess'[s].ttl = sess[s].ttl /\ sess'[s].readable = FALSE
<1>1. \A s \in Sids : HasRow(s) =>
        /\ [sess[s] EXCEPT !.readable = FALSE] \in SessionRow
        /\ [sess[s] EXCEPT !.readable = FALSE].exp = sess[s].exp
        /\ [sess[s] EXCEPT !.readable = FALSE].born = sess[s].born
        /\ [sess[s] EXCEPT !.readable = FALSE].ttl = sess[s].ttl
        /\ [sess[s] EXCEPT !.readable = FALSE].readable = FALSE
  BY RowFields DEF RequestsSound, SessionRow
<1>2. \A s \in Sids : sess'[s] = IF s \in P \/ ~HasRow(s) THEN None ELSE [sess[s] EXCEPT !.readable = FALSE]
  BY DEF RestartNewKey
<1>3. sess' \in [Sids -> SessionRow \cup {None}]
  BY <1>1 DEF RestartNewKey
<1>4. rules' \in [Keys -> RuleRow \cup {None}]
  BY WithoutRulesType DEF RestartNewKey, RequestsSound
<1>5. gdb' \in [Globals -> {"new", "live", "unreadable", "deleted"}]
  BY DEF RestartNewKey, RequestsSound, SessionsTypeOK
<1>6. mem' \in [Sids -> Vers \cup {None}] /\ gmem' \subseteq Globals /\ inserted' \in [Sids -> SUBSET Keys]
  BY DEF RestartNewKey, RequestsSound, HistoryTypeOK
<1>7. pendingCounts' \in [Sids -> Nat \cup {None}] /\ cleaner' \in Cleaners /\ req' \in [Handlers -> Reqs]
  BY RestartRequests, RestingTypes
<1>8. SessionsTypeOK'
  BY <1>3, <1>4, <1>5, <1>6, <1>7, RestartRequests DEF RequestsSound, SessionsTypeOK, Reqs, Cleaners
<1>9. HistoryTypeOK'
  BY <1>6, RestartRequests DEF RequestsSound, HistoryTypeOK
<1>10. RequestsSound'
  BY <1>8, <1>9, RestartRequests, RequestsChange
<1>11. QED
  BY <1>1, <1>2, <1>10, NullAssumption DEF HasRow

\* Every step keeps the types and the requests sound.
LEMMA RequestsInductive ==
  ASSUME RequestsSound, [Next]_vars
  PROVE  RequestsSound'
<1>1. CASE Tick
  BY <1>1, TickRequests
<1>2. CASE Restart
  BY <1>2, SameKeyRequests
<1>3. CASE CleanerStep
  BY <1>3, CleanupRequests, CleanerRequests, FlushRequests, FlushFailRequests DEF CleanerStep
<1>4. CASE \E P \in SUBSET Sids : RestartNewKey(P)
  BY <1>4, NewKeyRequests
<1>5. ASSUME NEW h \in Handlers, Arrival(h) PROVE RequestsSound'
  BY <1>5, DeleteRequests, UpsertRequests, GlobalRequests DEF Arrival
<1>6. ASSUME NEW h \in Handlers, HandlerStep(h) PROVE RequestsSound'
  BY <1>6, RulesRequests, RulesFailRequests, MemRequests DEF HandlerStep
<1>7. ASSUME NEW s \in Sids, HeartbeatSession(s) \/ SubstituteRequest(s) PROVE RequestsSound'
  BY <1>7, HeartbeatRequests, SubstituteRequests
<1>8. ASSUME NEW k \in Keys, CreateRule(k) \/ DeleteRule(k) PROVE RequestsSound'
  BY <1>8, PersonRequests
<1>9. CASE UNCHANGED vars
  <2>1. SessionsTypeOK' /\ HistoryTypeOK' /\ req' = req /\ sess' = sess
    BY <1>9 DEF vars, dbVars, memVars, history, RequestsSound, SessionsTypeOK, HistoryTypeOK
  <2>2. QED
    BY <2>1, RequestsFrame DEF HasRow
<1>10. QED
  BY <1>1, <1>2, <1>3, <1>4, <1>5, <1>6, <1>7, <1>8, <1>9 DEF Next

\* The tables and the maps are empty at first.
LEMMA RequestsInit == Init => RequestsSound
<1> SUFFICES ASSUME Init PROVE RequestsSound
  OBVIOUS
<1>1. SessionsTypeOK
  BY RestingTypes, SessionsAssumption DEF Init, SessionsTypeOK, Times, Reqs, Cleaners
<1>2. HistoryTypeOK
  BY DEF Init, HistoryTypeOK
<1>3. \A h \in Handlers : req[h] = Idle
  BY DEF Init
<1>4. Idle.pc = "idle"
  BY DEF Idle
<1>5. QED
  BY <1>1, <1>2, <1>3, <1>4, RestingTypes DEF RequestsSound, RegistrationOK
------------------------------------------------------------------------------
(* The rows of sessions.                                                   *)

\* Rows that stay keep their place, and expire when they did or are refreshed.
LEMMA RowsFrame ==
  ASSUME RequestsSound, RowsSound, ops' \in Nat, ops' >= ops, now' \in Nat, now' >= now,
         \A s \in Sids : HasRow(s)' =>
           /\ HasRow(s) /\ sess'[s].born = sess[s].born /\ sess'[s].ttl = sess[s].ttl
           /\ sess'[s].exp \in {sess[s].exp, now + sess[s].ttl}
  PROVE  RowsSound'
<1>1. \A s \in Sids : HasRow(s) => sess[s].born \in Nat /\ sess[s].exp \in Nat /\ sess[s].ttl \in Nat
  BY RowFields DEF RequestsSound
<1>2. ops \in Nat /\ now \in Nat
  BY DEF RequestsSound, HistoryTypeOK, SessionsTypeOK, Times
<1>3. QED
  BY <1>1, <1>2 DEF RowsSound

\* A new row is the newest.
LEMMA RowsUpsert ==
  ASSUME RequestsSound, RowsSound, NEW h \in Handlers, NEW s \in Sids, NEW ver \in Vers,
         NEW ttl \in TTLs, NEW K \in SUBSET Keys, CreateUpsert(h, s, ver, ttl, K)
  PROVE  RowsSound'
<1>1. \A t \in Sids : HasRow(t) => sess[t].born \in Nat /\ sess[t].born <= ops
  BY RowFields DEF RequestsSound, RowsSound
<1>2. ops \in Nat /\ ops' = ops + 1
  BY DEF RequestsSound, HistoryTypeOK, CreateUpsert, Start
<1>3. \A t \in Sids : HasRow(t)' => IF t = s /\ ~HasRow(s) THEN sess'[t].born = ops + 1
                                    ELSE HasRow(t) /\ sess'[t].born = sess[t].born
  BY UpsertRequests DEF HasRow
<1>4. \A t \in Sids : HasRow(t)' => sess'[t].exp <= now' + sess'[t].ttl
  <2>1. now \in Nat /\ now' = now /\ ttl \in Nat
    BY SessionsAssumption DEF RequestsSound, SessionsTypeOK, Times, CreateUpsert
  <2>2. QED
    BY <2>1, UpsertRequests DEF RowsSound, HasRow
<1>5. QED
  BY <1>1, <1>2, <1>3, <1>4 DEF RowsSound

\* Every step keeps the rows sound.
LEMMA RowsInductive ==
  ASSUME RequestsSound, RowsSound, [Next]_vars
  PROVE  RowsSound'
<1>1. ops \in Nat /\ now \in Nat
  BY DEF RequestsSound, HistoryTypeOK, SessionsTypeOK, Times
<1>2. CASE UNCHANGED sess /\ ops' \in {ops, ops + 1} /\ now' \in {now, now + 1}
  BY <1>1, <1>2, RowsFrame DEF HasRow
<1>3. CASE Tick \/ Restart
  BY <1>2, <1>3 DEF Tick, Restart, dbVars
<1>4. CASE CleanerStep
  <2>1. CASE CleanupDelete
    <3>1. ops' = ops /\ now' = now
      BY <2>1 DEF CleanupDelete
    <3>2. QED
      BY <1>1, <2>1, <3>1, CleanupRequests, RowsFrame DEF HasRow
  <2>2. CASE CleanupForget \/ FlushSwap \/ FlushDone
    BY <1>2, <2>2 DEF CleanupForget, FlushSwap, FlushDone, dbVars
  <2>3. ASSUME NEW s \in Sids, FlushWrite(s) PROVE RowsSound'
    <3>1. ops' = ops /\ now' = now
      BY <2>3 DEF FlushWrite
    <3>2. \A t \in Sids : sess'[t] # None => /\ sess[t] # None /\ sess'[t].born = sess[t].born
                                             /\ sess'[t].ttl = sess[t].ttl /\ sess'[t].exp = sess[t].exp
      BY <2>3, FlushRequests DEF HasRow
    <3>3. QED
      BY <1>1, <3>1, <3>2, RowsFrame DEF HasRow
  <2>4. ASSUME NEW s \in Sids, FlushFail(s) PROVE RowsSound'
    BY <1>2, <2>4 DEF FlushFail, dbVars
  <2>5. QED
    BY <1>4, <2>1, <2>2, <2>3, <2>4 DEF CleanerStep
<1>5. ASSUME NEW P \in SUBSET Sids, RestartNewKey(P) PROVE RowsSound'
  <2>1. ops' = ops /\ now' = now
    BY <1>5 DEF RestartNewKey
  <2>2. \A s \in Sids : HasRow(s)' => /\ HasRow(s) /\ sess'[s].born = sess[s].born
                                         /\ sess'[s].ttl = sess[s].ttl /\ sess'[s].exp = sess[s].exp
    BY <1>5, NewKeyRequests
  <2>3. QED
    BY <1>1, <2>1, <2>2, RowsFrame
<1>6. ASSUME NEW h \in Handlers, Arrival(h) PROVE RowsSound'
  <2>1. ASSUME NEW s \in Sids, DeleteSession(h, s) PROVE RowsSound'
    <3>1. ops' = ops + 1 /\ now' = now
      BY <2>1 DEF DeleteSession, Start
    <3>2. QED
      BY <1>1, <2>1, <3>1, DeleteRequests, RowsFrame DEF HasRow
  <2>2. ASSUME NEW g \in Globals, CreateGlobalCredential(h, g) \/ DeleteGlobalCredential(h, g)
        PROVE  RowsSound'
    BY <1>2, <2>2 DEF CreateGlobalCredential, DeleteGlobalCredential, Start
  <2>3. QED
    BY <1>6, <2>1, <2>2, RowsUpsert DEF Arrival
<1>7. ASSUME NEW h \in Handlers, HandlerStep(h) PROVE RowsSound'
  <2>1. UNCHANGED sess /\ ops' = ops /\ now' = now
    BY <1>7 DEF HandlerStep, CreateRules, CreateRulesFail, RegisterSession, UnregisterSession,
       RegisterGlobalCredential, UnregisterGlobalCredential, dbVars
  <2>2. QED
    BY <1>2, <2>1
<1>8. ASSUME NEW s \in Sids, HeartbeatSession(s) \/ SubstituteRequest(s) PROVE RowsSound'
  <2>1. CASE HeartbeatSession(s)
    <3>1. ops' = ops + 1 /\ now' = now
      BY <2>1 DEF HeartbeatSession
    <3>2. QED
      BY <1>1, <2>1, <3>1, HeartbeatRequests, RowsFrame DEF HasRow
  <2>2. CASE SubstituteRequest(s)
    BY <1>2, <2>2 DEF SubstituteRequest, dbVars
  <2>3. QED
    BY <1>8, <2>1, <2>2
<1>9. ASSUME NEW k \in Keys, CreateRule(k) \/ DeleteRule(k) PROVE RowsSound'
  BY <1>2, <1>9 DEF CreateRule, DeleteRule
<1>10. CASE UNCHANGED vars
  BY <1>2, <1>10 DEF vars, dbVars
<1>11. QED
  BY <1>3, <1>4, <1>5, <1>6, <1>7, <1>8, <1>9, <1>10 DEF Next

\* No two sessions are the newest.
LEMMA NewestAlone ==
  ASSUME RequestsSound, RowsSound
  PROVE  Cardinality(Newest) <= 1
<1>1. \A s, t \in Newest : s = t
  <2> SUFFICES ASSUME NEW s \in Newest, NEW t \in Newest PROVE s = t
    OBVIOUS
  <2>1. s \in Sids /\ t \in Sids /\ HasRow(s) /\ HasRow(t)
        /\ sess[s].born <= sess[t].born /\ sess[t].born <= sess[s].born
    BY DEF Newest, Active
  <2>2. sess[s].born \in Nat /\ sess[t].born \in Nat
    BY <2>1, RowFields DEF RequestsSound
  <2>3. QED
    BY <2>1, <2>2 DEF RowsSound
<1>2. CASE Newest = {}
  BY <1>2, FS_EmptySet
<1>3. CASE Newest # {}
  <2>1. PICK s \in Newest : TRUE
    BY <1>3
  <2>2. Newest = {s}
    BY <1>1, <2>1
  <2>3. Cardinality({s}) = 1
    BY FS_Singleton
  <2>4. QED
    BY <2>2, <2>3
<1>4. QED
  BY <1>2, <1>3
------------------------------------------------------------------------------
(* The rules.                                                              *)

\* The rules of the sessions in S go and no other; the other sessions keep their
\* rows; a registration between its statements stays there, ends with its rules
\* gone, or is cut short.
LEMMA RulesPurged ==
  ASSUME RequestsSound, RulesSound, NEW S \in SUBSET Sids,
         \A k \in Keys : rules'[k] = IF rules[k] # None /\ rules[k].owner \in S THEN None ELSE rules[k],
         \A s \in Sids : inserted'[s] = IF s \in S THEN {} ELSE inserted[s],
         owed' = owed, adopted' = adopted,
         \A h \in Handlers : req'[h].pc = "rules" => req[h].pc = "rules" /\ req'[h].who = req[h].who,
         \A s \in Sids \ S : Unsettled(s) => Unsettled(s)',
         \A s \in Sids \ S : HasRow(s) => HasRow(s)' /\ sess'[s].exp = sess[s].exp
  PROVE  RulesSound'
<1>1. ASSUME NEW k \in Keys PROVE OwnedOK(k)'
  <2>1. CASE rules'[k] = None
    BY <2>1 DEF OwnedOK
  <2>2. CASE rules'[k] # None
    <3>1. rules'[k] = rules[k] /\ rules[k] # None /\ rules[k].owner \notin S
      BY <2>2
    <3>2. rules[k].owner \in Sids \cup {Person} /\ OwnedOK(k)
      BY <3>1, RuleFields DEF RequestsSound, RulesSound
    <3>3. CASE rules[k].owner = Person
      BY <3>1, <3>2, <3>3 DEF OwnedOK
    <3>4. CASE rules[k].owner # Person
      <4>1. HasRow(rules[k].owner)'
        BY <3>1, <3>2, <3>4 DEF OwnedOK
      <4>2. k \in inserted'[rules[k].owner] \/ Unsettled(rules[k].owner)'
        BY <3>1, <3>2, <3>4 DEF OwnedOK
      <4>3. QED
        BY <3>1, <3>4, <4>1, <4>2 DEF OwnedOK
    <3>5. QED
      BY <3>3, <3>4
  <2>3. QED
    BY <2>1, <2>2
<1>2. ASSUME NEW s \in Sids PROVE InsertedOK(s)'
  <2>1. InsertedOK(s) /\ inserted[s] \subseteq Keys
    BY DEF RulesSound, RequestsSound, HistoryTypeOK
  <2>2. CASE s \in S
    BY <2>2 DEF InsertedOK
  <2>3. CASE s \notin S
    BY <2>1, <2>3 DEF InsertedOK
  <2>4. QED
    BY <2>2, <2>3
<1>3. \A k \in owed' \ adopted' : rules'[k] # None /\ rules'[k].owner = Person
  BY NullAssumption DEF RulesSound, RequestsSound, HistoryTypeOK
<1>4. QED
  BY <1>1, <1>2, <1>3 DEF RulesSound

\* The rules are as they were and so are the registrations under way.
LEMMA RulesFrame ==
  ASSUME RequestsSound, RulesSound, rules' = rules, inserted' = inserted, torn' = torn,
         owed' = owed, adopted' = adopted,
         \A h \in Handlers : req'[h] = req[h] \/ (req[h].pc # "rules" /\ req'[h].pc # "rules"),
         \A s \in Sids : HasRow(s) => HasRow(s)' /\ sess'[s].exp = sess[s].exp
  PROVE  RulesSound'
<1>1. /\ \A h \in Handlers : req'[h].pc = "rules" => req[h].pc = "rules" /\ req'[h].who = req[h].who
      /\ \A s \in Sids : Unsettled(s) => Unsettled(s)'
  BY DEF Unsettled
<1>2. {} \in SUBSET Sids
  OBVIOUS
<1>3. \A k \in Keys : rules'[k] = IF rules[k] # None /\ rules[k].owner \in {} THEN None ELSE rules[k]
  OBVIOUS
<1>4. \A s \in Sids : inserted'[s] = IF s \in {} THEN {} ELSE inserted[s]
  OBVIOUS
<1>5. QED
  BY <1>1, <1>2, <1>3, <1>4, RulesPurged

\* A session is registered again: until its rules are rewritten it has inserted none.
LEMMA RulesUpsert ==
  ASSUME RequestsSound, RulesSound, NEW h \in Handlers, NEW s \in Sids, NEW ver \in Vers,
         NEW ttl \in TTLs, NEW K \in SUBSET Keys, CreateUpsert(h, s, ver, ttl, K)
  PROVE  RulesSound'
<1>1. /\ rules' = rules /\ torn' = torn /\ owed' = owed /\ adopted' = adopted
      /\ inserted'[s] = {} /\ \A t \in Sids : t # s => inserted'[t] = inserted[t]
  BY DEF CreateUpsert, RequestsSound, HistoryTypeOK
<1>2. req'[h].pc = "rules" /\ req'[h].who = s /\ \A g \in Handlers : req[g].pc # "rules"
  <2>1. req'[h] = [pc |-> "rules", op |-> "create", who |-> s, ver |-> ver, keys |-> K]
    BY StartReq DEF CreateUpsert
  <2>2. QED
    BY <2>1 DEF CreateUpsert, dbFree
<1>3. \A g \in Handlers : g # h => req'[g] = req[g]
  BY StartReq DEF CreateUpsert
<1>4. ASSUME NEW k \in Keys PROVE OwnedOK(k)'
  <2>1. CASE rules[k] = None
    BY <1>1, <2>1 DEF OwnedOK, Unsettled
  <2>2. CASE rules[k] # None
    <3>1. rules[k].owner \in Sids \cup {Person} /\ OwnedOK(k)
      BY <2>2, RuleFields DEF RequestsSound, RulesSound
    <3>2. \A t \in Sids : HasRow(t) => HasRow(t)'
      BY UpsertRequests DEF HasRow
    <3>3. CASE rules[k].owner = s
      BY <1>1, <1>2, <3>1, <3>2, <3>3 DEF OwnedOK, Unsettled
    <3>4. CASE rules[k].owner # s
      BY <1>1, <1>2, <3>1, <3>2, <3>4 DEF OwnedOK, Unsettled
    <3>5. QED
      BY <3>3, <3>4
  <2>3. QED
    BY <2>1, <2>2
<1>5. ASSUME NEW t \in Sids PROVE InsertedOK(t)'
  <2>1. CASE t = s
    BY <1>1, <2>1 DEF InsertedOK
  <2>2. CASE t # s
    <3>1. InsertedOK(t) /\ sess'[t] = sess[t] /\ inserted'[t] = inserted[t]
      BY <1>1, <2>2, UpsertRequests DEF RulesSound
    <3>2. \A g \in Handlers : req'[g].pc = "rules" => req'[g].who = s
      BY <1>2, <1>3
    <3>3. QED
      BY <1>1, <2>2, <3>1, <3>2 DEF InsertedOK, HasRow
  <2>3. QED
    BY <2>1, <2>2
<1>6. QED
  BY <1>1, <1>4, <1>5 DEF RulesSound

\* The rules of a session are rewritten.
LEMMA RulesRewritten ==
  ASSUME RequestsSound, RowsSound, RulesSound, NEW h \in Handlers, CreateRules(h)
  PROVE  RulesSound'
<1> DEFINE s == req[h].who
           new == {k \in req[h].keys : WithoutRulesOf({s})[k] = None}
           row == [owner |-> s, exp |-> now + sess[s].ttl]
<1>1. s \in Sids /\ HasRow(s) /\ req[h].keys \subseteq Keys /\ req[h].pc = "rules"
  BY RulesRequests DEF RequestsSound, SessionsTypeOK, CreateRules
<1>2. new \subseteq Keys /\ \A k \in new : rules[k] = None \/ rules[k].owner = s
  BY <1>1, WithoutRulesType DEF RequestsSound
<1>3. \A k \in Keys : rules'[k] = IF k \in new THEN row
                                  ELSE IF rules[k] # None /\ rules[k].owner = s THEN None ELSE rules[k]
  <2>1. rules' = [k \in Keys |-> IF k \in new THEN row ELSE WithoutRulesOf({s})[k]]
    BY DEF CreateRules
  <2>2. \A k \in Keys : WithoutRulesOf({s})[k] = IF rules[k] # None /\ rules[k].owner \in {s}
                                                 THEN None ELSE rules[k]
    BY WithoutRulesType DEF RequestsSound
  <2> HIDE DEF new, row
  <2>3. QED
    BY <2>1, <2>2
<1>4. /\ inserted' = [inserted EXCEPT ![s] = new] /\ torn' = torn \ {s}
      /\ sess' = sess /\ owed' = owed /\ adopted' = adopted
  BY DEF CreateRules
<1>5. row.owner = s /\ row.exp = now + sess[s].ttl
  OBVIOUS
<1>6. row # None
  <2>1. now + sess[s].ttl \in Nat
    BY <1>1, RowFields DEF RequestsSound, SessionsTypeOK, Times
  <2>2. row \in RuleRow
    BY <1>1, <2>1 DEF RuleRow
  <2>3. QED
    BY <2>2, NullAssumption
<1> HIDE DEF new, row
<1>7. \A g \in Handlers : req'[g].pc # "rules"
  BY <1>1, RulesRequests DEF RequestsSound, RegistrationOK
<1>8. inserted'[s] = new /\ \A t \in Sids : t # s => inserted'[t] = inserted[t]
  BY <1>1, <1>4 DEF RequestsSound, HistoryTypeOK
<1>9. s # Person
  BY <1>1, NullAssumption
<1>10. \A k \in Keys : rules[k] # None => OwnedOK(k) /\ rules[k].owner \in Sids \cup {Person}
  BY RuleFields DEF RequestsSound, RulesSound
<1>11. \A g \in Handlers : req[g].pc = "rules" => req[g].who = s
  BY <1>1 DEF RequestsSound, RegistrationOK
<1>12. ASSUME NEW k \in Keys PROVE OwnedOK(k)'
  <2>1. CASE k \in new
    BY <1>1, <1>3, <1>4, <1>5, <1>8, <1>9, <2>1 DEF OwnedOK, Unsettled, HasRow
  <2>2. CASE k \notin new /\ rules[k] # None /\ rules[k].owner = s
    BY <1>3, <2>2 DEF OwnedOK, Unsettled
  <2>3. CASE k \notin new /\ rules[k] # None /\ rules[k].owner # s
    BY <1>3, <1>4, <1>8, <1>10, <1>11, <2>3 DEF OwnedOK, Unsettled, HasRow
  <2>4. CASE k \notin new /\ rules[k] = None
    BY <1>3, <2>4 DEF OwnedOK, Unsettled
  <2>5. QED
    BY <2>1, <2>2, <2>3, <2>4
<1>13. ASSUME NEW t \in Sids PROVE InsertedOK(t)'
  <2>1. CASE t = s
    <3>1. sess[s].exp <= now + sess[s].ttl
      BY <1>1 DEF RowsSound
    <3>2. QED
      BY <1>1, <1>2, <1>3, <1>4, <1>5, <1>6, <1>7, <1>8, <2>1, <3>1 DEF InsertedOK, HasRow
  <2>2. CASE t # s
    <3>1. InsertedOK(t) /\ inserted[t] \subseteq Keys
      BY DEF RulesSound, RequestsSound, HistoryTypeOK
    <3>2. QED
      BY <1>2, <1>3, <1>4, <1>7, <1>8, <2>2, <3>1 DEF InsertedOK, HasRow
  <2>3. QED
    BY <2>1, <2>2
<1>14. \A k \in owed' \ adopted' : rules'[k] # None /\ rules'[k].owner = Person
  <2>1. \A k \in owed \ adopted : k \in Keys /\ rules[k] # None /\ rules[k].owner = Person
    BY DEF RulesSound, RequestsSound, HistoryTypeOK
  <2>2. QED
    BY <1>2, <1>3, <1>4, <1>9, <2>1
<1>15. QED
  BY <1>12, <1>13, <1>14 DEF RulesSound

\* The registration whose inserts fail has no rules left.
LEMMA RulesFailed ==
  ASSUME RequestsSound, RulesSound, NEW h \in Handlers, CreateRulesFail(h)
  PROVE  RulesSound'
<1> DEFINE s == req[h].who
<1>1. s \in Sids /\ req[h].pc = "rules" /\ inserted[s] = {}
  BY RulesFailRequests DEF CreateRulesFail, RulesSound, InsertedOK
<1>2. /\ \A k \in Keys : rules'[k] = IF rules[k] # None /\ rules[k].owner \in {s} THEN None ELSE rules[k]
      /\ inserted' = inserted /\ torn' = torn /\ owed' = owed /\ adopted' = adopted /\ sess' = sess
  BY WithoutRulesType DEF CreateRulesFail, RequestsSound
<1>3. \A g \in Handlers : req'[g].pc = "rules" => req[g].pc = "rules" /\ req'[g].who = req[g].who
  BY FinishSound DEF CreateRulesFail
<1>4. \A t \in Sids \ {s} : Unsettled(t) => Unsettled(t)'
  BY <1>1, <1>2 DEF RequestsSound, RegistrationOK, Unsettled
<1>5. \A t \in Sids : inserted'[t] = IF t \in {s} THEN {} ELSE inserted[t]
  BY <1>1, <1>2
<1>6. {s} \in SUBSET Sids
  BY <1>1
<1> HIDE DEF s
<1>7. \A t \in Sids \ {s} : HasRow(t) => HasRow(t)' /\ sess'[t].exp = sess[t].exp
  BY <1>2 DEF HasRow
<1>8. QED
  BY <1>2, <1>3, <1>4, <1>5, <1>6, <1>7, RulesPurged

\* A session is deleted with its rules.
LEMMA RulesDeleted ==
  ASSUME RequestsSound, RulesSound, NEW h \in Handlers, NEW s \in Sids, DeleteSession(h, s)
  PROVE  RulesSound'
<1>1. /\ \A k \in Keys : rules'[k] = IF rules[k] # None /\ rules[k].owner \in {s} THEN None ELSE rules[k]
      /\ torn' = torn /\ owed' = owed /\ adopted' = adopted
  BY WithoutRulesType DEF DeleteSession, RequestsSound
<1>2. \A t \in Sids : inserted'[t] = IF t \in {s} THEN {} ELSE inserted[t]
  BY DEF DeleteSession, RequestsSound, HistoryTypeOK
<1>3. \A g \in Handlers : req[g].pc # "rules"
  BY DEF DeleteSession, dbFree
<1>4. \A g \in Handlers : req'[g].pc # "rules"
  <2> Start(h, "delete", s, "mem", None, {})
    BY DEF DeleteSession
  <2>1. req'[h] = [pc |-> "mem", op |-> "delete", who |-> s, ver |-> None, keys |-> {}]
    BY DEF Start, RequestsSound, SessionsTypeOK
  <2>2. \A g \in Handlers : g # h => req'[g] = req[g]
    BY StartReq
  <2>3. QED
    BY <1>3, <2>1, <2>2
<1>5. \A t \in Sids \ {s} : HasRow(t) => HasRow(t)' /\ sess'[t].exp = sess[t].exp
  BY DeleteRequests DEF HasRow
<1>6. \A t \in Sids \ {s} : Unsettled(t) => Unsettled(t)'
  BY <1>1, <1>3 DEF Unsettled
<1>7. QED
  BY <1>1, <1>2, <1>3, <1>4, <1>5, <1>6, RulesPurged

\* The expired sessions are deleted with their rules.
LEMMA RulesExpired ==
  ASSUME RequestsSound, RulesSound, CleanupDelete
  PROVE  RulesSound'
<1> DEFINE ids == {s \in Sids : Expired(s)}
<1>1. rules' = WithoutRulesOf(ids) /\ inserted' = [s \in Sids |-> IF s \in ids THEN {} ELSE inserted[s]]
  BY DEF CleanupDelete
<1>2. ids \in SUBSET Sids /\ \A s \in Sids \ ids : ~Expired(s)
  OBVIOUS
<1> HIDE DEF ids
<1>3. \A k \in Keys : rules'[k] = IF rules[k] # None /\ rules[k].owner \in ids THEN None ELSE rules[k]
  BY <1>1, WithoutRulesType DEF RequestsSound
<1>4. \A s \in Sids : inserted'[s] = IF s \in ids THEN {} ELSE inserted[s]
  BY <1>1
<1>5. torn' = torn /\ owed' = owed /\ adopted' = adopted /\ req' = req
  BY DEF CleanupDelete
<1>6. \A s \in Sids \ ids : HasRow(s) => HasRow(s)' /\ sess'[s].exp = sess[s].exp
  BY <1>2, CleanupRequests DEF HasRow
<1>7. \A s \in Sids \ ids : Unsettled(s) => Unsettled(s)'
  BY <1>5 DEF Unsettled
<1>8. QED
  BY <1>2, <1>3, <1>4, <1>5, <1>6, <1>7, RulesPurged

\* A restart cuts the registrations short; one with a new key purges sessions
\* with their rules.
LEMMA RulesRestarted ==
  ASSUME RequestsSound, RulesSound, Restart \/ \E P \in SUBSET Sids : RestartNewKey(P)
  PROVE  RulesSound'
<1>1. /\ \A h \in Handlers : req'[h].pc = "rules" => req[h].pc = "rules" /\ req'[h].who = req[h].who
      /\ \A s \in Sids : Unsettled(s) => Unsettled(s)'
      /\ owed' = owed /\ adopted' = adopted
  <2>1. "idle" # "rules"
    OBVIOUS
  <2>2. QED
    BY <2>1, RestartRequests DEF Unsettled
<1>2. PICK P \in SUBSET Sids : \/ P = {} /\ Restart
                               \/ RestartNewKey(P)
  OBVIOUS
<1>3. CASE P = {} /\ Restart
  <2>1. rules' = rules /\ sess' = sess /\ inserted' = inserted
    BY <1>3 DEF Restart, dbVars
  <2>2. /\ \A k \in Keys : rules'[k] = IF rules[k] # None /\ rules[k].owner \in P THEN None ELSE rules[k]
        /\ \A s \in Sids : inserted'[s] = IF s \in P THEN {} ELSE inserted[s]
    BY <1>3, <2>1
  <2>3. \A s \in Sids \ P : HasRow(s) => HasRow(s)' /\ sess'[s].exp = sess[s].exp
    BY <2>1 DEF HasRow
  <2>4. QED
    BY <1>1, <2>2, <2>3, RulesPurged
<1>4. CASE RestartNewKey(P)
  <2>1. \A k \in Keys : rules'[k] = IF rules[k] # None /\ rules[k].owner \in P THEN None ELSE rules[k]
    BY <1>4, WithoutRulesType DEF RestartNewKey, RequestsSound
  <2>2. \A s \in Sids : inserted'[s] = IF s \in P THEN {} ELSE inserted[s]
    BY <1>4 DEF RestartNewKey
  <2>3. \A s \in Sids \ P : HasRow(s) => HasRow(s)' /\ sess'[s].exp = sess[s].exp
    BY <1>4, NewKeyRequests
  <2>4. QED
    BY <1>1, <2>1, <2>2, <2>3, RulesPurged
<1>5. QED
  BY <1>2, <1>3, <1>4

\* The rules of a session are refreshed with it.
LEMMA RulesRefreshed ==
  ASSUME RequestsSound, RulesSound, NEW s \in Sids, HeartbeatSession(s)
  PROVE  RulesSound'
<1> DEFINE fresh(k) == [rules[k] EXCEPT !.exp = now + sess[s].ttl]
<1>1. \A k \in Keys : rules'[k] = IF rules[k] # None /\ rules[k].owner = s THEN fresh(k) ELSE rules[k]
  BY DEF HeartbeatSession
<1>2. \A k \in Keys : rules[k] # None =>
        /\ rules[k].owner \in Sids \cup {Person}
        /\ fresh(k) # None /\ fresh(k).owner = rules[k].owner /\ fresh(k).exp = now + sess[s].ttl
  <2> SUFFICES ASSUME NEW k \in Keys, rules[k] # None
               PROVE  /\ rules[k].owner \in Sids \cup {Person}
                      /\ fresh(k) # None /\ fresh(k).owner = rules[k].owner
                      /\ fresh(k).exp = now + sess[s].ttl
    OBVIOUS
  <2>1. rules[k] \in RuleRow /\ rules[k].owner \in Sids \cup {Person}
    BY RuleFields DEF RequestsSound
  <2>2. now + sess[s].ttl \in Nat
    BY HeartbeatRequests, RowFields DEF RequestsSound, SessionsTypeOK, Times
  <2>3. fresh(k) \in RuleRow /\ fresh(k).owner = rules[k].owner /\ fresh(k).exp = now + sess[s].ttl
    BY <2>1, <2>2 DEF RuleRow
  <2> HIDE DEF fresh
  <2>4. QED
    BY <2>1, <2>3, NullAssumption
<1> HIDE DEF fresh
<1>3. /\ inserted' = inserted /\ torn' = torn /\ owed' = owed /\ adopted' = adopted /\ req' = req
  BY DEF HeartbeatSession, history
<1>4. \A k \in Keys : /\ rules'[k] = None <=> rules[k] = None
                      /\ rules[k] # None => /\ rules'[k].owner = rules[k].owner
                                            /\ rules[k].owner = s => rules'[k].exp = now + sess[s].ttl
                                            /\ rules[k].owner # s => rules'[k].exp = rules[k].exp
  BY <1>1, <1>2
<1>5. \A t \in Sids : HasRow(t) => HasRow(t)'
  BY HeartbeatRequests DEF HasRow
<1>6. s # Person
  BY NullAssumption
<1>7. ASSUME NEW k \in Keys PROVE OwnedOK(k)'
  <2>1. CASE rules'[k] = None
    BY <2>1 DEF OwnedOK, Unsettled
  <2>2. CASE rules'[k] # None
    <3>1. rules[k] # None /\ rules'[k].owner = rules[k].owner /\ OwnedOK(k)
          /\ rules[k].owner \in Sids \cup {Person}
      BY <1>2, <1>4, <2>2 DEF RulesSound
    <3>2. QED
      BY <1>3, <1>4, <1>5, <1>6, <3>1 DEF OwnedOK, Unsettled
  <2>3. QED
    BY <2>1, <2>2
<1>8. ASSUME NEW t \in Sids PROVE InsertedOK(t)'
  <2>1. InsertedOK(t) /\ inserted[t] \subseteq Keys
    BY DEF RulesSound, RequestsSound, HistoryTypeOK
  <2>2. now + sess[s].ttl \in Nat
    BY HeartbeatRequests, RowFields DEF RequestsSound, SessionsTypeOK, Times
  <2>3. CASE t = s
    BY <1>3, <1>4, <1>5, <2>1, <2>2, <2>3, HeartbeatRequests DEF InsertedOK
  <2>4. CASE t # s
    BY <1>3, <1>4, <1>5, <2>1, <2>4, HeartbeatRequests DEF InsertedOK
  <2>5. QED
    BY <2>3, <2>4
<1>9. \A k \in owed' \ adopted' : rules'[k] # None /\ rules'[k].owner = Person
  BY <1>3, <1>4 DEF RulesSound, RequestsSound, HistoryTypeOK
<1>10. QED
  BY <1>7, <1>8, <1>9 DEF RulesSound

\* A person creates a rule.
LEMMA RulesCreated ==
  ASSUME RequestsSound, RulesSound, NEW k \in Keys, CreateRule(k)
  PROVE  RulesSound'
<1> DEFINE row == [owner |-> Person, exp |-> Forever]
           held == rules[k] # None /\ rules[k].exp > now
<1>1. row \in RuleRow /\ row.owner = Person /\ row.exp = Forever
  BY SessionsAssumption DEF RuleRow, Forever
<1>2. row # None
  BY <1>1, NullAssumption
<1>3. rules' = IF held THEN rules ELSE [rules EXCEPT ![k] = row]
  BY DEF CreateRule
<1> HIDE DEF row
<1>4. /\ held => rules' = rules
      /\ ~held => rules'[k] = row /\ \A j \in Keys : j # k => rules'[j] = rules[j]
  BY <1>3 DEF RequestsSound, SessionsTypeOK
<1>5. /\ req' = req /\ sess' = sess /\ torn' = torn /\ owed' = owed \cup {k}
      /\ adopted' = IF held /\ rules[k].owner # Person THEN adopted \cup {k} ELSE adopted
      /\ \A s \in Sids : inserted'[s] = IF ~held THEN inserted[s] \ {k} ELSE inserted[s]
  BY DEF CreateRule
<1> HIDE DEF held
<1>6. ASSUME NEW j \in Keys PROVE OwnedOK(j)'
  <2>1. CASE ~held /\ j = k
    BY <1>1, <1>4, <2>1 DEF OwnedOK, Unsettled
  <2>2. CASE held \/ j # k
    <3>1. rules'[j] = rules[j] /\ OwnedOK(j) /\ (rules[j] # None => rules[j].owner \in Sids \cup {Person})
      BY <1>4, <2>2, RuleFields DEF RequestsSound, RulesSound
    <3>2. rules[j] # None /\ rules[j].owner # Person =>
             (j \in inserted[rules[j].owner] => j \in inserted'[rules[j].owner])
      BY <1>5, <2>2, <3>1
    <3>3. QED
      BY <1>5, <3>1, <3>2 DEF OwnedOK, Unsettled, HasRow
  <2>3. QED
    BY <2>1, <2>2
<1>7. ASSUME NEW s \in Sids PROVE InsertedOK(s)'
  <2>1. InsertedOK(s) /\ inserted[s] \subseteq Keys
    BY DEF RulesSound, RequestsSound, HistoryTypeOK
  <2>2. \A j \in inserted'[s] : j \in inserted[s] /\ rules'[j] = rules[j]
    BY <1>4, <1>5, <2>1
  <2>3. inserted[s] = {} => inserted'[s] = {}
    BY <1>5
  <2>4. QED
    BY <1>5, <2>1, <2>2, <2>3 DEF InsertedOK, HasRow
<1>8. \A j \in owed' \ adopted' : rules'[j] # None /\ rules'[j].owner = Person
  <2>1. \A j \in owed \ adopted : j \in Keys /\ rules[j] # None /\ rules[j].owner = Person
    BY DEF RulesSound, RequestsSound, HistoryTypeOK
  <2>2. held => rules[k] # None
    BY DEF held
  <2>3. QED
    BY <1>1, <1>2, <1>4, <1>5, <2>1, <2>2
<1>9. QED
  BY <1>6, <1>7, <1>8 DEF RulesSound

\* A person deletes a rule.
LEMMA RulesRemoved ==
  ASSUME RequestsSound, RulesSound, NEW k \in Keys, DeleteRule(k)
  PROVE  RulesSound'
<1>1. /\ rules'[k] = None /\ \A j \in Keys : j # k => rules'[j] = rules[j]
      /\ req' = req /\ sess' = sess /\ torn' = torn /\ owed' = owed \ {k} /\ adopted' = adopted \ {k}
      /\ \A s \in Sids : inserted'[s] = inserted[s] \ {k}
  BY DEF DeleteRule, RequestsSound, SessionsTypeOK
<1>2. ASSUME NEW j \in Keys PROVE OwnedOK(j)'
  <2>1. CASE j = k
    BY <1>1, <2>1 DEF OwnedOK, Unsettled
  <2>2. CASE j # k
    <3>1. rules'[j] = rules[j] /\ OwnedOK(j) /\ (rules[j] # None => rules[j].owner \in Sids \cup {Person})
      BY <1>1, <2>2, RuleFields DEF RequestsSound, RulesSound
    <3>2. rules[j] # None /\ rules[j].owner # Person =>
             (j \in inserted[rules[j].owner] => j \in inserted'[rules[j].owner])
      BY <1>1, <2>2, <3>1
    <3>3. QED
      BY <1>1, <3>1, <3>2 DEF OwnedOK, Unsettled, HasRow
  <2>3. QED
    BY <2>1, <2>2
<1>3. ASSUME NEW s \in Sids PROVE InsertedOK(s)'
  <2>1. InsertedOK(s) /\ inserted[s] \subseteq Keys
    BY DEF RulesSound, RequestsSound, HistoryTypeOK
  <2>2. \A j \in inserted'[s] : j \in inserted[s] /\ rules'[j] = rules[j]
    BY <1>1, <2>1
  <2>3. inserted[s] = {} => inserted'[s] = {}
    BY <1>1
  <2>4. QED
    BY <1>1, <2>1, <2>2, <2>3 DEF InsertedOK, HasRow
<1>4. \A j \in owed' \ adopted' : rules'[j] # None /\ rules'[j].owner = Person
  BY <1>1 DEF RulesSound, RequestsSound, HistoryTypeOK
<1>5. QED
  BY <1>2, <1>3, <1>4 DEF RulesSound

\* Every step keeps the rules sound.
LEMMA RulesInductive ==
  ASSUME RequestsSound, RowsSound, RulesSound, [Next]_vars
  PROVE  RulesSound'
<1>1. CASE rules' = rules /\ inserted' = inserted /\ torn' = torn /\ owed' = owed /\ adopted' = adopted
           /\ req' = req /\ sess' = sess
  BY <1>1, RulesFrame DEF HasRow
<1>2. CASE Tick
  BY <1>1, <1>2 DEF Tick, dbVars, history
<1>3. CASE Restart \/ \E P \in SUBSET Sids : RestartNewKey(P)
  BY <1>3, RulesRestarted
<1>4. CASE CleanerStep
  <2>1. CASE CleanupForget \/ FlushSwap \/ FlushDone \/ \E s \in Sids : FlushFail(s)
    BY <1>1, <2>1 DEF CleanupForget, FlushSwap, FlushDone, FlushFail, dbVars, history
  <2>2. ASSUME NEW s \in Sids, FlushWrite(s) PROVE RulesSound'
    <3>1. rules' = rules /\ inserted' = inserted /\ torn' = torn /\ owed' = owed /\ adopted' = adopted
          /\ req' = req
      BY <2>2 DEF FlushWrite
    <3>2. \A t \in Sids : HasRow(t) => HasRow(t)' /\ sess'[t].exp = sess[t].exp
      BY <2>2, FlushRequests DEF HasRow
    <3>3. QED
      BY <3>1, <3>2, RulesFrame
  <2>3. QED
    BY <1>4, <2>1, <2>2, RulesExpired DEF CleanerStep
<1>5. ASSUME NEW h \in Handlers, Arrival(h) PROVE RulesSound'
  <2>1. ASSUME NEW g \in Globals, CreateGlobalCredential(h, g) \/ DeleteGlobalCredential(h, g)
        PROVE  RulesSound'
    <3>1. rules' = rules /\ inserted' = inserted /\ torn' = torn /\ owed' = owed /\ adopted' = adopted
          /\ sess' = sess
      BY <2>1 DEF CreateGlobalCredential, DeleteGlobalCredential
    <3>2. PICK op \in {"gcreate", "gdelete"} : Start(h, op, g, "mem", None, {})
      BY <2>1 DEF CreateGlobalCredential, DeleteGlobalCredential
    <3>3. /\ req'[h] = [pc |-> "mem", op |-> op, who |-> g, ver |-> None, keys |-> {}]
          /\ \A i \in Handlers : i # h => req'[i] = req[i]
          /\ req[h].pc = "idle"
      BY <3>2 DEF Start, RequestsSound, SessionsTypeOK
    <3>4. \A i \in Handlers : req'[i] = req[i] \/ (req[i].pc # "rules" /\ req'[i].pc # "rules")
      BY <3>3
    <3>5. \A t \in Sids : HasRow(t) => HasRow(t)' /\ sess'[t].exp = sess[t].exp
      BY <3>1 DEF HasRow
    <3>6. QED
      BY <3>1, <3>4, <3>5, RulesFrame
  <2>2. QED
    BY <1>5, <2>1, RulesDeleted, RulesUpsert DEF Arrival
<1>6. ASSUME NEW h \in Handlers, HandlerStep(h) PROVE RulesSound'
  <2>1. CASE \/ RegisterSession(h) \/ UnregisterSession(h)
             \/ RegisterGlobalCredential(h) \/ UnregisterGlobalCredential(h)
    <3>1. /\ rules' = rules /\ inserted' = inserted /\ torn' = torn /\ owed' = owed
          /\ adopted' = adopted /\ sess' = sess /\ Finish(h) /\ req[h].pc = "mem"
      BY <2>1 DEF RegisterSession, UnregisterSession, RegisterGlobalCredential,
         UnregisterGlobalCredential, dbVars, history
    <3>2. \A i \in Handlers : req'[i] = req[i] \/ (req[i].pc # "rules" /\ req'[i].pc # "rules")
      BY <3>1, FinishReq DEF Idle
    <3>3. \A t \in Sids : HasRow(t) => HasRow(t)' /\ sess'[t].exp = sess[t].exp
      BY <3>1 DEF HasRow
    <3>4. QED
      BY <3>1, <3>2, <3>3, RulesFrame
  <2>2. QED
    BY <1>6, <2>1, RulesRewritten, RulesFailed DEF HandlerStep
<1>7. ASSUME NEW s \in Sids, HeartbeatSession(s) \/ SubstituteRequest(s) PROVE RulesSound'
  <2>1. CASE SubstituteRequest(s)
    BY <1>1, <2>1 DEF SubstituteRequest, dbVars
  <2>2. QED
    BY <1>7, <2>1, RulesRefreshed
<1>8. ASSUME NEW k \in Keys, CreateRule(k) \/ DeleteRule(k) PROVE RulesSound'
  BY <1>8, RulesCreated, RulesRemoved
<1>9. CASE UNCHANGED vars
  BY <1>1, <1>9 DEF vars, dbVars, history
<1>10. QED
  BY <1>2, <1>3, <1>4, <1>5, <1>6, <1>7, <1>8, <1>9 DEF Next
------------------------------------------------------------------------------
(* The counts.                                                             *)

\* The three places of a count hold numbers.
CountsTyped ==
  \A s \in Sids : Stored(s) \in Nat /\ Pending(s) \in Nat /\ cleaner.batch[s] \in Nat

\* Types make the counts numbers, ...
LEMMA CountTypes == SessionsTypeOK => CountsTyped
<1> SUFFICES ASSUME SessionsTypeOK, NEW s \in Sids
             PROVE  Stored(s) \in Nat /\ Pending(s) \in Nat /\ cleaner.batch[s] \in Nat
  BY DEF CountsTyped
<1>1. Stored(s) \in Nat
  BY RowFields DEF Stored
<1>2. Pending(s) \in Nat /\ cleaner.batch[s] \in Nat
  BY DEF Pending, SessionsTypeOK
<1>3. QED
  BY <1>1, <1>2

\* ... before a step and after it.
LEMMA CountTypesNext == SessionsTypeOK' => CountsTyped'
BY CountTypes, PTL

\* No count grows without a substitution, and one that shrinks is excused.
LEMMA CountsFrame ==
  ASSUME RequestsSound, RequestsSound', CountsSound, performed' = performed, excused \subseteq excused',
         cleaner'.pc # "write" => \A s \in Sids : cleaner'.batch[s] = 0,
         \A s \in Sids : Counted(s)' = Counted(s) \/ (s \in excused' /\ Counted(s)' <= Counted(s))
  PROVE  CountsSound'
<1>1. ASSUME NEW s \in Sids
      PROVE  Counted(s)' <= performed'[s] /\ (s \notin excused' => Counted(s)' = performed'[s])
  <2>1. Counted(s) \in Nat /\ Counted(s)' \in Nat
    BY CountTypes, CountTypesNext DEF RequestsSound, Counted, CountsTyped
  <2>2. performed[s] \in Nat
    BY DEF RequestsSound, HistoryTypeOK
  <2>3. QED
    BY <2>1, <2>2 DEF CountsSound
<1>2. QED
  BY <1>1 DEF CountsSound

\* The rows' counts, the counters and the batch are as they were.
LEMMA CountsSame ==
  ASSUME RequestsSound, RequestsSound', CountsSound, performed' = performed, excused \subseteq excused',
         pendingCounts' = pendingCounts, cleaner'.batch = cleaner.batch,
         cleaner'.pc # "write" => cleaner.pc # "write" \/ \A s \in Sids : cleaner.batch[s] = 0,
         \A s \in Sids : Stored(s)' = Stored(s) \/ (s \in excused' /\ Stored(s)' <= Stored(s))
  PROVE  CountsSound'
<1>1. ASSUME NEW s \in Sids
      PROVE  Counted(s)' = Counted(s) \/ (s \in excused' /\ Counted(s)' <= Counted(s))
  <2>1. Stored(s) \in Nat /\ Stored(s)' \in Nat /\ Pending(s) \in Nat /\ cleaner.batch[s] \in Nat
    BY CountTypes, CountTypesNext DEF RequestsSound, CountsTyped
  <2>2. Pending(s)' = Pending(s)
    BY DEF Pending
  <2>3. QED
    BY <2>1, <2>2 DEF Counted
<1>2. QED
  BY <1>1, CountsFrame DEF CountsSound

\* Counters are replaced or removed, the rows and the batch are as they were.
LEMMA CountsDropped ==
  ASSUME RequestsSound, RequestsSound', CountsSound, performed' = performed, excused \subseteq excused',
         sess' = sess, cleaner'.batch = cleaner.batch, cleaner'.pc # "write" => cleaner.pc # "write",
         \A s \in Sids : \/ pendingCounts'[s] = pendingCounts[s]
                         \/ /\ pendingCounts'[s] \in {None, 0}
                            /\ pendingCounts[s] \in {None, 0} \/ s \in excused'
  PROVE  CountsSound'
<1>1. ASSUME NEW s \in Sids
      PROVE  Counted(s)' = Counted(s) \/ (s \in excused' /\ Counted(s)' <= Counted(s))
  <2>1. Stored(s) \in Nat /\ Pending(s) \in Nat /\ cleaner.batch[s] \in Nat
    BY CountTypes DEF RequestsSound, CountsTyped
  <2>2. Stored(s)' = Stored(s)
    BY DEF Stored, HasRow
  <2>3. Pending(s)' = Pending(s) \/ (s \in excused' /\ Pending(s)' = 0)
    BY DEF Pending
  <2>4. QED
    BY <2>1, <2>2, <2>3 DEF Counted
<1>2. QED
  BY <1>1, CountsFrame DEF CountsSound

\* A substitution is counted if there is a counter.
LEMMA CountsSubstitute ==
  ASSUME RequestsSound, RequestsSound', CountsSound, NEW s \in Sids, SubstituteRequest(s)
  PROVE  CountsSound'
<1>1. /\ cleaner' = cleaner /\ sess' = sess /\ performed[s] \in Nat
      /\ performed'[s] = performed[s] + 1
      /\ \A t \in Sids : t # s => performed'[t] = performed[t]
  BY DEF SubstituteRequest, dbVars, RequestsSound, HistoryTypeOK
<1>2. /\ \A t \in Sids : Stored(t) \in Nat /\ Pending(t) \in Nat /\ cleaner.batch[t] \in Nat
      /\ \A t \in Sids : Stored(t)' = Stored(t)
  BY <1>1, CountTypes DEF RequestsSound, CountsTyped, Stored, HasRow
<1>3. excused \subseteq excused' /\ (pendingCounts[s] = None => s \in excused')
  BY DEF SubstituteRequest
<1>4. /\ Pending(s)' = IF pendingCounts[s] = None THEN Pending(s) ELSE Pending(s) + 1
      /\ \A t \in Sids : t # s => Pending(t)' = Pending(t)
  <2>1. CASE pendingCounts[s] = None
    BY <2>1 DEF SubstituteRequest, Pending
  <2>2. CASE pendingCounts[s] # None
    <3>1. pendingCounts[s] \in Nat /\ pendingCounts'[s] = pendingCounts[s] + 1
          /\ \A t \in Sids : t # s => pendingCounts'[t] = pendingCounts[t]
      BY <2>2 DEF SubstituteRequest, RequestsSound, SessionsTypeOK
    <3>2. pendingCounts'[s] # None
      BY <3>1, NullAssumption
    <3>3. QED
      BY <2>2, <3>1, <3>2 DEF Pending
  <2>3. QED
    BY <2>1, <2>2
<1>5. ASSUME NEW t \in Sids
      PROVE  Counted(t)' <= performed'[t] /\ (t \notin excused' => Counted(t)' = performed'[t])
  <2>1. Counted(t) <= performed[t] /\ (t \notin excused => Counted(t) = performed[t]) /\ performed[t] \in Nat
    BY DEF CountsSound, RequestsSound, HistoryTypeOK
  <2>2. CASE t = s
    BY <1>1, <1>2, <1>3, <1>4, <2>1, <2>2 DEF Counted
  <2>3. CASE t # s
    BY <1>1, <1>2, <1>3, <1>4, <2>1, <2>3 DEF Counted
  <2>4. QED
    BY <2>2, <2>3
<1>6. QED
  BY <1>1, <1>5 DEF CountsSound

\* The cleanup loop moves counts from the counters to the batch and on to the rows.
LEMMA CountsCleaner ==
  ASSUME RequestsSound, RequestsSound', CountsSound, CleanerStep
  PROVE  CountsSound'
<1>1. \A t \in Sids : Stored(t) \in Nat /\ Pending(t) \in Nat /\ cleaner.batch[t] \in Nat
  BY CountTypes DEF RequestsSound, CountsTyped
<1>2. CASE CleanupDelete
  <2>1. pendingCounts' = pendingCounts /\ performed' = performed /\ excused \subseteq excused'
    BY <1>2 DEF CleanupDelete, memVars
  <2>2. cleaner'.batch = cleaner.batch /\ cleaner.pc # "write"
    BY <1>2, Opened DEF CleanupDelete, Cleaners
  <2>3. ASSUME NEW s \in Sids
        PROVE  Stored(s)' = Stored(s) \/ (s \in excused' /\ Stored(s)' <= Stored(s))
    <3>1. CASE ~Expired(s)
      BY <1>2, <3>1, CleanupRequests DEF Stored, HasRow
    <3>2. CASE Expired(s)
      <4>1. Stored(s)' = 0 /\ Stored(s) = sess[s].count
        BY <1>2, <3>2, CleanupRequests DEF Stored, HasRow, Expired
      <4>2. sess[s].count > 0 => s \in excused'
        BY <1>2, <3>2 DEF CleanupDelete
      <4>3. QED
        BY <1>1, <4>1, <4>2
    <3>3. QED
      BY <3>1, <3>2
  <2>4. QED
    BY <2>1, <2>2, <2>3, CountsSame
<1>3. CASE CleanupForget
  <2>1. sess' = sess /\ performed' = performed /\ excused \subseteq excused'
    BY <1>3 DEF CleanupForget, Removed, dbVars
  <2>2. cleaner'.batch = cleaner.batch /\ cleaner.pc # "write"
    BY <1>3, Opened DEF CleanupForget, Cleaners
  <2>3. \A s \in Sids : \/ pendingCounts'[s] = pendingCounts[s]
                        \/ /\ pendingCounts'[s] \in {None, 0}
                           /\ pendingCounts[s] \in {None, 0} \/ s \in excused'
    BY <1>3 DEF CleanupForget, Removed
  <2>4. QED
    BY <2>1, <2>2, <2>3, CountsDropped
<1>4. CASE FlushSwap
  <2>1. /\ performed' = performed /\ excused' = excused /\ sess' = sess
        /\ \A s \in Sids : cleaner.batch[s] = 0
    BY <1>4 DEF FlushSwap, history, dbVars, CountsSound
  <2>2. cleaner'.pc = "write" /\ \A s \in Sids : cleaner'.batch[s] = Pending(s)
    BY <1>4, Opened DEF FlushSwap, Cleaners
  <2>3. \A s \in Sids : Pending(s)' = 0 /\ Stored(s)' = Stored(s)
    BY <1>4, <2>1 DEF FlushSwap, Pending, Stored, HasRow
  <2>4. \A s \in Sids : Counted(s)' = Counted(s)
    BY <1>1, <2>1, <2>2, <2>3 DEF Counted
  <2>5. QED
    BY <2>1, <2>2, <2>4, CountsFrame
<1>5. CASE FlushDone
  <2>1. /\ performed' = performed /\ excused' = excused /\ sess' = sess /\ pendingCounts' = pendingCounts
        /\ \A s \in Sids : cleaner.batch[s] = 0
    BY <1>5 DEF FlushDone, history, dbVars, memVars
  <2>2. \A s \in Sids : cleaner'.batch[s] = 0
    BY <1>5 DEF FlushDone, RestingCleaner
  <2>3. \A s \in Sids : Pending(s)' = Pending(s) /\ Stored(s)' = Stored(s)
    BY <2>1 DEF Pending, Stored, HasRow
  <2>4. \A s \in Sids : Counted(s)' = Counted(s)
    BY <2>1, <2>2, <2>3 DEF Counted
  <2>5. QED
    BY <2>1, <2>2, <2>4, CountsFrame
<1>6. ASSUME NEW s \in Sids, FlushWrite(s) \/ FlushFail(s) PROVE CountsSound'
  <2>1. /\ performed' = performed /\ excused \subseteq excused' /\ pendingCounts' = pendingCounts
        /\ cleaner.pc = "write"
    BY <1>6 DEF FlushWrite, FlushFail, memVars
  <2>2. /\ cleaner'.pc = "write" /\ cleaner'.batch[s] = 0
        /\ \A t \in Sids : t # s => cleaner'.batch[t] = cleaner.batch[t]
    <3>1. cleaner'.batch = [cleaner.batch EXCEPT ![s] = 0] /\ cleaner'.pc = "write"
      BY <1>6, <2>1, FlushRequests, FlushFailRequests
    <3>2. QED
      BY <3>1 DEF RequestsSound, SessionsTypeOK
  <2>3. \A t \in Sids : t # s => Stored(t)' = Stored(t)
    BY <1>6, FlushRequests DEF FlushFail, dbVars, Stored, HasRow
  <2>4. Stored(s)' = Stored(s) + cleaner.batch[s] \/ (s \in excused' /\ Stored(s)' = Stored(s))
    <3>1. CASE FlushFail(s)
      BY <3>1 DEF FlushFail, dbVars, Stored, HasRow
    <3>2. CASE FlushWrite(s)
      BY <3>2, FlushRequests DEF FlushWrite, Stored, HasRow
    <3>3. QED
      BY <1>6, <3>1, <3>2
  <2>5. \A t \in Sids : Pending(t)' = Pending(t)
    BY <2>1 DEF Pending
  <2>6. ASSUME NEW t \in Sids
        PROVE  Counted(t)' = Counted(t) \/ (t \in excused' /\ Counted(t)' <= Counted(t))
    <3>1. CASE t = s
      BY <1>1, <2>2, <2>4, <2>5, <3>1 DEF Counted
    <3>2. CASE t # s
      BY <1>1, <2>2, <2>3, <2>5, <3>2 DEF Counted
    <3>3. QED
      BY <3>1, <3>2
  <2>7. QED
    BY <2>1, <2>2, <2>6, CountsFrame
<1>7. QED
  BY <1>2, <1>3, <1>4, <1>5, <1>6 DEF CleanerStep

\* Every step keeps the counts sound.
LEMMA CountsInductive ==
  ASSUME RequestsSound, CountsSound, [Next]_vars
  PROVE  CountsSound'
<1> USE RequestsInductive
<1>1. CASE sess' = sess /\ pendingCounts' = pendingCounts /\ cleaner' = cleaner /\ performed' = performed
           /\ excused' = excused
  <2>1. \A s \in Sids : Stored(s)' = Stored(s)
    BY <1>1 DEF Stored, HasRow
  <2>2. QED
    BY <1>1, <2>1, CountsSame
<1>2. CASE Tick
  BY <1>1, <1>2 DEF Tick, dbVars, memVars, history
<1>3. CASE Restart \/ \E P \in SUBSET Sids : RestartNewKey(P)
  <2>1. ASSUME NEW s \in Sids PROVE s \in excused' /\ Counted(s)' <= Counted(s)
    <3>1. Stored(s)' \in {0, Stored(s)}
      <4>1. CASE Restart
        BY <4>1 DEF Restart, dbVars, Stored, HasRow
      <4>2. ASSUME NEW P \in SUBSET Sids, RestartNewKey(P) PROVE Stored(s)' \in {0, Stored(s)}
        <5>1. HasRow(s) => [sess[s] EXCEPT !.readable = FALSE].count = sess[s].count
          BY RowFields DEF RequestsSound, SessionRow
        <5>2. sess'[s] = IF s \in P \/ ~HasRow(s) THEN None ELSE [sess[s] EXCEPT !.readable = FALSE]
          BY <4>2 DEF RestartNewKey
        <5>3. QED
          BY <5>1, <5>2 DEF Stored, HasRow
      <4>3. QED
        BY <1>3, <4>1, <4>2
    <3>2. Pending(s)' = 0 /\ cleaner'.batch[s] = 0
      BY <1>3, RestartRequests DEF Pending
    <3>3. s \in excused'
      BY <1>3, RestartRequests
    <3>4. Stored(s) \in Nat /\ Pending(s) \in Nat /\ cleaner.batch[s] \in Nat
      BY CountTypes DEF RequestsSound, CountsTyped
    <3>5. QED
      BY <3>1, <3>2, <3>3, <3>4 DEF Counted
  <2>2. /\ performed' = performed /\ excused \subseteq excused'
        /\ \A s \in Sids : cleaner'.batch[s] = 0
    BY <1>3, RestartRequests DEF RequestsSound, HistoryTypeOK
  <2>3. QED
    BY <2>1, <2>2, CountsFrame
<1>4. ASSUME NEW h \in Handlers, Arrival(h) PROVE CountsSound'
  <2>1. pendingCounts' = pendingCounts /\ cleaner' = cleaner /\ performed' = performed
    BY <1>4 DEF Arrival, DeleteSession, CreateUpsert, CreateGlobalCredential, DeleteGlobalCredential, memVars
  <2>2. excused \subseteq excused'
    BY <1>4 DEF Arrival, DeleteSession, CreateUpsert, CreateGlobalCredential, DeleteGlobalCredential
  <2>3. \A t \in Sids : Stored(t)' = Stored(t) \/ (t \in excused' /\ Stored(t)' <= Stored(t))
    <3>1. ASSUME NEW s \in Sids, DeleteSession(h, s)
          PROVE  \A t \in Sids : Stored(t)' = Stored(t) \/ (t \in excused' /\ Stored(t)' <= Stored(t))
      <4>1. Stored(s) \in Nat /\ Stored(s)' = 0 /\ (sess[s].count > 0 => s \in excused') /\ HasRow(s)
        BY <3>1, CountTypes, DeleteRequests DEF DeleteSession, RequestsSound, CountsTyped, Stored, HasRow
      <4>2. Stored(s) = sess[s].count
        BY <4>1 DEF Stored
      <4>3. \A t \in Sids : t # s => Stored(t)' = Stored(t)
        BY <3>1, DeleteRequests DEF Stored, HasRow
      <4>4. QED
        BY <4>1, <4>2, <4>3
    <3>2. ASSUME NEW s \in Sids, NEW v \in Vers, NEW t \in TTLs, NEW K \in SUBSET Keys,
                 CreateUpsert(h, s, v, t, K)
          PROVE  \A u \in Sids : Stored(u)' = Stored(u)
      BY <3>2, UpsertRequests DEF Stored, HasRow
    <3>3. ASSUME NEW g \in Globals, CreateGlobalCredential(h, g) \/ DeleteGlobalCredential(h, g)
          PROVE  \A u \in Sids : Stored(u)' = Stored(u)
      BY <3>3 DEF CreateGlobalCredential, DeleteGlobalCredential, Stored, HasRow
    <3>4. QED
      BY <1>4, <3>1, <3>2, <3>3 DEF Arrival
  <2>4. QED
    BY <2>1, <2>2, <2>3, CountsSame DEF CountsSound
<1>5. ASSUME NEW h \in Handlers, HandlerStep(h) PROVE CountsSound'
  <2>1. CASE RegisterSession(h) \/ UnregisterSession(h)
    <3>1. performed' = performed /\ cleaner' = cleaner /\ sess' = sess /\ req[h].who \in Sids
          /\ excused \subseteq excused'
      BY <2>1 DEF RegisterSession, UnregisterSession, Removed, dbVars, RequestsSound, StageOK
    <3>2. \A s \in Sids : \/ pendingCounts'[s] = pendingCounts[s]
                          \/ /\ pendingCounts'[s] \in {None, 0}
                             /\ pendingCounts[s] \in {None, 0} \/ s \in excused'
      BY <2>1, <3>1 DEF RegisterSession, UnregisterSession, Removed, RequestsSound, SessionsTypeOK
    <3>3. QED
      BY <3>1, <3>2, CountsDropped
  <2>2. QED
    BY <1>1, <1>5, <2>1 DEF HandlerStep, CreateRules, CreateRulesFail, RegisterGlobalCredential,
       UnregisterGlobalCredential, dbVars, memVars, history
<1>6. ASSUME NEW s \in Sids, HeartbeatSession(s) PROVE CountsSound'
  <2>1. pendingCounts' = pendingCounts /\ cleaner' = cleaner /\ performed' = performed
        /\ excused' = excused
    BY <1>6 DEF HeartbeatSession, memVars, history
  <2>2. \A t \in Sids : Stored(t)' = Stored(t)
    BY <1>6, HeartbeatRequests DEF Stored, HasRow
  <2>3. QED
    BY <2>1, <2>2, CountsSame
<1>7. ASSUME NEW k \in Keys, CreateRule(k) \/ DeleteRule(k) PROVE CountsSound'
  BY <1>1, <1>7 DEF CreateRule, DeleteRule, memVars
<1>8. CASE UNCHANGED vars
  BY <1>1, <1>8 DEF vars, dbVars, memVars, history
<1>9. QED
  BY <1>2, <1>3, <1>4, <1>5, <1>6, <1>7, <1>8, CountsSubstitute, CountsCleaner DEF Next
------------------------------------------------------------------------------
(* The two copies of a credential.                                         *)

\* Something is under way for an owner if a request or the cleanup is busy with it.
LEMMA UnfinishedBusy ==
  /\ \A o : Unfinished(o) <=> Cleaned(o) \/ \E h \in Handlers : Busy(h, o)
  /\ \A o : Unfinished(o)' <=> Cleaned(o)' \/ \E h \in Handlers : Busy(h, o)'
BY DEF Unfinished, Busy, Cleaned

\* A step that does not concern the owner o.
Same(o) ==
  /\ \A h \in Handlers : /\ Busy(h, o)' <=> Busy(h, o)
                         /\ Busy(h, o) => req'[h].op = req[h].op /\ req'[h].ver = req[h].ver
  /\ Cleaned(o)' <=> Cleaned(o)
  /\ o \in Sids => /\ HasRow(o)' <=> HasRow(o)
                   /\ HasRow(o) => sess'[o].ver = sess[o].ver /\ (sess'[o].readable <=> sess[o].readable)
                   /\ Active(o)' => Active(o)
                   /\ mem'[o] = mem[o]
  /\ o \in Globals => gdb'[o] = gdb[o] /\ (o \in gmem' <=> o \in gmem)

\* Such a step keeps the copies of o as they were.
LEMMA CopyFrame ==
  ASSUME NEW o \in Owners, CopyOK(o), Same(o)
  PROVE  CopyOK(o)'
<1>1. \A h \in Handlers : Busy(h, o)' <=> Busy(h, o)
  BY DEF Same
<1>2. \A h \in Handlers : Busy(h, o) => req'[h].op = req[h].op /\ req'[h].ver = req[h].ver
  BY DEF Same
<1>3. Cleaned(o)' <=> Cleaned(o)
  BY DEF Same
<1>4. Unfinished(o)' <=> Unfinished(o)
  BY <1>1, <1>3, UnfinishedBusy
<1>5. AloneOK(o)'
  BY <1>1, <1>3 DEF CopyOK, AloneOK
<1>6. ASSUME o \in Sids PROVE SessionCopyOK(o)'
  <2>1. SessionCopyOK(o) /\ (HasRow(o)' <=> HasRow(o)) /\ (Active(o)' => Active(o)) /\ mem'[o] = mem[o]
    BY <1>6 DEF CopyOK, Same
  <2>2. HasRow(o) => sess'[o].ver = sess[o].ver /\ (sess'[o].readable <=> sess[o].readable)
    BY <1>6 DEF Same
  <2>3. Active(o) => HasRow(o)
    BY DEF Active
  <2>4. QED
    BY <1>1, <1>2, <1>3, <1>4, <2>1, <2>2, <2>3 DEF SessionCopyOK
<1>7. ASSUME o \in Globals PROVE GlobalCopyOK(o)'
  <2>1. GlobalCopyOK(o) /\ gdb'[o] = gdb[o] /\ (o \in gmem' <=> o \in gmem)
    BY <1>7 DEF CopyOK, Same
  <2>2. QED
    BY <1>1, <1>2, <1>4, <2>1 DEF GlobalCopyOK
<1>8. QED
  BY <1>5, <1>6, <1>7 DEF CopyOK

\* A step concerns the owners in S only, and is seen through for those.
LEMMA CopiesBut ==
  ASSUME CopiesSound, disturbed \subseteq disturbed', NEW S,
         \A o \in Owners \ S : Same(o),
         \A o \in Owners : o \in S /\ o \notin disturbed' => CopyOK(o)'
  PROVE  CopiesSound'
<1> SUFFICES ASSUME NEW o \in Owners, o \notin disturbed' PROVE CopyOK(o)'
  BY DEF CopiesSound, Owners
<1>1. CASE o \in S
  BY <1>1
<1>2. CASE o \notin S
  BY <1>2, CopyFrame DEF CopiesSound
<1>3. QED
  BY <1>1, <1>2

\* The requests of a step that starts one: it is busy with its owner only.
LEMMA StartBusy ==
  ASSUME RequestsSound, NEW h \in Handlers, NEW op, NEW who, NEW pc, NEW ver, NEW K,
         pc # "idle", Start(h, op, who, pc, ver, K)
  PROVE  /\ Busy(h, who)' /\ req'[h].op = op /\ req'[h].ver = ver
         /\ \A g \in Handlers : g # h => req'[g] = req[g]
         /\ \A g \in Handlers, o \in Owners : o # who =>
              /\ Busy(g, o)' <=> Busy(g, o)
              /\ Busy(g, o) => req'[g] = req[g]
         /\ \A g \in Handlers : Busy(g, who)' <=> Busy(g, who) \/ g = h
<1> DEFINE r == [pc |-> pc, op |-> op, who |-> who, ver |-> ver, keys |-> K]
<1>1. r.pc = pc /\ r.op = op /\ r.who = who /\ r.ver = ver
  OBVIOUS
<1>2. req' = [req EXCEPT ![h] = r] /\ req[h].pc = "idle"
  BY DEF Start
<1> HIDE DEF r
<1>3. req'[h] = r /\ \A g \in Handlers : g # h => req'[g] = req[g]
  BY <1>2 DEF RequestsSound, SessionsTypeOK
<1>4. QED
  BY <1>1, <1>2, <1>3 DEF Busy

\* The requests of a step that ends one: its owner is let go, and only it.
LEMMA FinishBusy ==
  ASSUME RequestsSound, NEW h \in Handlers, Finish(h)
  PROVE  /\ \A g \in Handlers : g # h => req'[g] = req[g]
         /\ \A g \in Handlers, o \in Owners : o # req[h].who =>
              /\ Busy(g, o)' <=> Busy(g, o)
              /\ Busy(g, o) => req'[g] = req[g]
         /\ \A g \in Handlers, o \in Owners : Busy(g, o)' <=> Busy(g, o) /\ g # h
<1>1. Idle.pc = "idle"
  BY DEF Idle
<1>2. req'[h] = Idle /\ \A g \in Handlers : g # h => req'[g] = req[g]
  BY FinishReq
<1>3. QED
  BY <1>1, <1>2 DEF Busy

\* Nothing a step does to the rows, the maps and the cleanup concerns o.
LEMMA SameStill ==
  ASSUME NEW o \in Owners,
         \A h \in Handlers : (Busy(h, o)' <=> Busy(h, o)) /\ (Busy(h, o) => req'[h] = req[h]),
         cleaner' = cleaner, now' = now,
         o \in Sids => sess'[o] = sess[o] /\ mem'[o] = mem[o],
         o \in Globals => gdb'[o] = gdb[o] /\ (o \in gmem' <=> o \in gmem)
  PROVE  Same(o)
<1>1. Cleaned(o)' <=> Cleaned(o)
  BY DEF Cleaned
<1>2. o \in Sids => /\ HasRow(o)' <=> HasRow(o)
                    /\ Active(o)' => Active(o)
  BY DEF HasRow, Active
<1>3. QED
  BY <1>1, <1>2 DEF Same

\* A session is registered.
LEMMA CopiesUpsert ==
  ASSUME RequestsSound, CopiesSound, NEW h \in Handlers, NEW s \in Sids, NEW ver \in Vers,
         NEW ttl \in TTLs, NEW K \in SUBSET Keys, CreateUpsert(h, s, ver, ttl, K)
  PROVE  CopiesSound'
<1>1. /\ cleaner' = cleaner /\ mem' = mem /\ gmem' = gmem /\ gdb' = gdb /\ now' = now
      /\ disturbed' = disturbed \cup {o \in {s} : Unfinished(o)}
      /\ Start(h, "create", s, "rules", ver, K)
  BY DEF CreateUpsert, memVars, Disturb
<1>2. "rules" # "idle"
  OBVIOUS
<1>3. /\ Busy(h, s)' /\ req'[h].op = "create" /\ req'[h].ver = ver
      /\ \A g \in Handlers, o \in Owners : o # s => /\ Busy(g, o)' <=> Busy(g, o)
                                                    /\ Busy(g, o) => req'[g] = req[g]
      /\ \A g \in Handlers : Busy(g, s)' <=> Busy(g, s) \/ g = h
  BY <1>1, <1>2, StartBusy
<1>4. HasRow(s)' /\ sess'[s].ver = ver /\ \A t \in Sids : t # s => sess'[t] = sess[t]
  BY UpsertRequests
<1>5. \A o \in Owners \ {s} : Same(o)
  BY <1>1, <1>3, <1>4, SameStill
<1>6. ASSUME s \notin disturbed' PROVE CopyOK(s)'
  <2>1. ~Unfinished(s)
    BY <1>1, <1>6
  <2>2. ~Cleaned(s) /\ \A g \in Handlers : ~Busy(g, s)
    BY <2>1, UnfinishedBusy
  <2>3. ~Cleaned(s)' /\ \A g \in Handlers : Busy(g, s)' <=> g = h
    BY <1>1, <1>3, <2>2 DEF Cleaned
  <2>4. AloneOK(s)'
    BY <2>3 DEF AloneOK
  <2>5. Unfinished(s)'
    BY <1>3, UnfinishedBusy
  <2>6. SessionCopyOK(s)'
    BY <1>3, <1>4, <2>3, <2>5 DEF SessionCopyOK
  <2>7. s \notin Globals
    BY SessionsAssumption
  <2>8. QED
    BY <2>4, <2>6, <2>7 DEF CopyOK
<1>7. QED
  BY <1>1, <1>5, <1>6, CopiesBut

\* A session is deleted.
LEMMA CopiesDelete ==
  ASSUME RequestsSound, CopiesSound, NEW h \in Handlers, NEW s \in Sids, DeleteSession(h, s)
  PROVE  CopiesSound'
<1>1. /\ cleaner' = cleaner /\ mem' = mem /\ gmem' = gmem /\ gdb' = gdb /\ now' = now
      /\ disturbed' = disturbed \cup {o \in {s} : Unfinished(o)}
      /\ Start(h, "delete", s, "mem", None, {})
  BY DEF DeleteSession, memVars, Disturb
<1>2. "mem" # "idle"
  OBVIOUS
<1>3. /\ Busy(h, s)' /\ req'[h].op = "delete"
      /\ \A g \in Handlers, o \in Owners : o # s => /\ Busy(g, o)' <=> Busy(g, o)
                                                    /\ Busy(g, o) => req'[g] = req[g]
      /\ \A g \in Handlers : Busy(g, s)' <=> Busy(g, s) \/ g = h
  BY <1>1, <1>2, StartBusy, Zenon
<1>4. ~HasRow(s)' /\ \A t \in Sids : t # s => sess'[t] = sess[t]
  BY DeleteRequests DEF HasRow
<1>5. \A o \in Owners \ {s} : Same(o)
  BY <1>1, <1>3, <1>4, SameStill
<1>6. ASSUME s \notin disturbed' PROVE CopyOK(s)'
  <2>1. ~Unfinished(s)
    BY <1>1, <1>6
  <2>2. ~Cleaned(s) /\ \A g \in Handlers : ~Busy(g, s)
    BY <2>1, UnfinishedBusy
  <2>3. ~Cleaned(s)' /\ \A g \in Handlers : Busy(g, s)' <=> g = h
    BY <1>1, <1>3, <2>2 DEF Cleaned
  <2>4. AloneOK(s)'
    BY <2>3 DEF AloneOK
  <2>5. Unfinished(s)'
    BY <1>3, UnfinishedBusy
  <2>6. SessionCopyOK(s)'
    BY <1>3, <1>4, <2>3, <2>5 DEF SessionCopyOK
  <2>7. s \notin Globals
    BY SessionsAssumption
  <2>8. QED
    BY <2>4, <2>6, <2>7 DEF CopyOK
<1>7. QED
  BY <1>1, <1>5, <1>6, CopiesBut

\* A global credential is created or deleted in its table.
LEMMA CopiesGlobal ==
  ASSUME RequestsSound, CopiesSound, NEW h \in Handlers, NEW g \in Globals,
         CreateGlobalCredential(h, g) \/ DeleteGlobalCredential(h, g)
  PROVE  CopiesSound'
<1> DEFINE op == IF gdb[g] = "new" THEN "gcreate" ELSE "gdelete"
<1>1. /\ cleaner' = cleaner /\ mem' = mem /\ gmem' = gmem /\ sess' = sess /\ now' = now
      /\ disturbed' = disturbed \cup {o \in {g} : Unfinished(o)}
      /\ \A f \in Globals : f # g => gdb'[f] = gdb[f]
  BY DEF CreateGlobalCredential, DeleteGlobalCredential, memVars, Disturb, RequestsSound, SessionsTypeOK
<1>2. /\ Start(h, op, g, "mem", None, {})
      /\ op = "gcreate" => gdb'[g] = "live"
      /\ op = "gdelete" => gdb'[g] = "deleted"
  BY DEF CreateGlobalCredential, DeleteGlobalCredential, RequestsSound, SessionsTypeOK
<1> HIDE DEF op
<1>3. "mem" # "idle"
  OBVIOUS
<1>4. /\ Busy(h, g)' /\ req'[h].op = op
      /\ \A i \in Handlers, o \in Owners : o # g => /\ Busy(i, o)' <=> Busy(i, o)
                                                    /\ Busy(i, o) => req'[i] = req[i]
      /\ \A i \in Handlers : Busy(i, g)' <=> Busy(i, g) \/ i = h
  BY <1>2, <1>3, StartBusy, Zenon
<1>5. \A o \in Owners \ {g} : Same(o)
  BY <1>1, <1>4, SameStill
<1>6. ASSUME g \notin disturbed' PROVE CopyOK(g)'
  <2>1. ~Unfinished(g)
    BY <1>1, <1>6
  <2>2. ~Cleaned(g) /\ \A i \in Handlers : ~Busy(i, g)
    BY <2>1, UnfinishedBusy
  <2>3. ~Cleaned(g)' /\ \A i \in Handlers : Busy(i, g)' <=> i = h
    BY <1>1, <1>4, <2>2 DEF Cleaned
  <2>4. AloneOK(g)'
    BY <2>3 DEF AloneOK
  <2>5. Unfinished(g)'
    BY <1>4, UnfinishedBusy
  <2>6. GlobalCopyOK(g)'
    BY <1>2, <1>4, <2>3, <2>5 DEF GlobalCopyOK
  <2>7. g \notin Sids
    BY SessionsAssumption
  <2>8. QED
    BY <2>4, <2>6, <2>7 DEF CopyOK
<1>7. QED
  BY <1>1, <1>5, <1>6, CopiesBut

\* A session's request ends in memory.
LEMMA CopiesSessionDone ==
  ASSUME RequestsSound, CopiesSound, NEW h \in Handlers, RegisterSession(h) \/ UnregisterSession(h)
  PROVE  CopiesSound'
<1>0. PICK s \in Sids : s = req[h].who
  BY DEF RegisterSession, UnregisterSession, RequestsSound, StageOK
<1>1. /\ cleaner' = cleaner /\ gmem' = gmem /\ sess' = sess /\ gdb' = gdb /\ now' = now
      /\ disturbed' = disturbed /\ Finish(h)
      /\ \A t \in Sids : t # s => mem'[t] = mem[t]
  BY <1>0 DEF RegisterSession, UnregisterSession, Removed, dbVars, RequestsSound, SessionsTypeOK
<1>2. mem'[s] = IF RegisterSession(h) THEN req[h].ver ELSE None
  BY <1>0 DEF RegisterSession, UnregisterSession, Removed, RequestsSound, SessionsTypeOK
<1>3. Busy(h, s) /\ (RegisterSession(h) => req[h].op = "create") /\ (~RegisterSession(h) => req[h].op = "delete")
  BY <1>0 DEF RegisterSession, UnregisterSession, Busy
<1>4. /\ \A g \in Handlers, o \in Owners : o # s => /\ Busy(g, o)' <=> Busy(g, o)
                                                    /\ Busy(g, o) => req'[g] = req[g]
      /\ \A g \in Handlers : Busy(g, s)' <=> Busy(g, s) /\ g # h
  BY <1>0, <1>1, FinishBusy DEF Owners
<1>5. \A o \in Owners \ {s} : Same(o)
  BY <1>1, <1>4, SameStill
<1>6. ASSUME s \notin disturbed' PROVE CopyOK(s)'
  <2>1. AloneOK(s) /\ SessionCopyOK(s)
    BY <1>1, <1>6 DEF CopiesSound, CopyOK, Owners
  <2>2. ~Cleaned(s) /\ \A g \in Handlers : Busy(g, s) => g = h
    BY <1>3, <2>1 DEF AloneOK
  <2>3. ~Cleaned(s)' /\ \A g \in Handlers : ~Busy(g, s)'
    BY <1>1, <1>4, <2>2 DEF Cleaned
  <2>4. AloneOK(s)'
    BY <2>3 DEF AloneOK
  <2>5. /\ RegisterSession(h) => HasRow(s) /\ mem'[s] = sess[s].ver
        /\ ~RegisterSession(h) => ~HasRow(s) /\ mem'[s] = None
    BY <1>0, <1>2, <1>3, <2>1 DEF SessionCopyOK
  <2>6. /\ mem'[s] # None => HasRow(s)' /\ mem'[s] = sess'[s].ver
        /\ Active(s)' => mem'[s] = sess'[s].ver
    BY <1>1, <2>5 DEF HasRow, Active
  <2>7. SessionCopyOK(s)'
    BY <2>3, <2>6 DEF SessionCopyOK
  <2>8. s \notin Globals
    BY <1>1, SessionsAssumption
  <2>9. QED
    BY <2>4, <2>7, <2>8 DEF CopyOK
<1>7. QED
  BY <1>1, <1>5, <1>6, CopiesBut

\* A global credential's request ends in memory.
LEMMA CopiesGlobalDone ==
  ASSUME RequestsSound, CopiesSound, NEW h \in Handlers,
         RegisterGlobalCredential(h) \/ UnregisterGlobalCredential(h)
  PROVE  CopiesSound'
<1>0. PICK g \in Globals : g = req[h].who
  BY DEF RegisterGlobalCredential, UnregisterGlobalCredential, RequestsSound, StageOK
<1>1. /\ cleaner' = cleaner /\ mem' = mem /\ sess' = sess /\ gdb' = gdb /\ now' = now
      /\ disturbed' = disturbed /\ Finish(h)
      /\ \A f \in Globals : f # g => (f \in gmem' <=> f \in gmem)
  BY <1>0 DEF RegisterGlobalCredential, UnregisterGlobalCredential, dbVars, history
<1>2. /\ g \in gmem' <=> RegisterGlobalCredential(h)
      /\ Busy(h, g)
      /\ RegisterGlobalCredential(h) => req[h].op = "gcreate"
      /\ ~RegisterGlobalCredential(h) => req[h].op = "gdelete"
  BY <1>0 DEF RegisterGlobalCredential, UnregisterGlobalCredential, Busy
<1>3. /\ \A i \in Handlers, o \in Owners : o # g => /\ Busy(i, o)' <=> Busy(i, o)
                                                    /\ Busy(i, o) => req'[i] = req[i]
      /\ \A i \in Handlers : Busy(i, g)' <=> Busy(i, g) /\ i # h
  BY <1>0, <1>1, FinishBusy DEF Owners
<1>4. \A o \in Owners \ {g} : Same(o)
  BY <1>1, <1>3, SameStill
<1>5. ASSUME g \notin disturbed' PROVE CopyOK(g)'
  <2>1. AloneOK(g) /\ GlobalCopyOK(g)
    BY <1>1, <1>5 DEF CopiesSound, CopyOK, Owners
  <2>2. ~Cleaned(g) /\ \A i \in Handlers : Busy(i, g) => i = h
    BY <1>2, <2>1 DEF AloneOK
  <2>3. ~Cleaned(g)' /\ \A i \in Handlers : ~Busy(i, g)'
    BY <1>1, <1>3, <2>2 DEF Cleaned
  <2>4. AloneOK(g)'
    BY <2>3 DEF AloneOK
  <2>5. gdb[g] = IF RegisterGlobalCredential(h) THEN "live" ELSE "deleted"
    BY <1>2, <2>1 DEF GlobalCopyOK
  <2>6. g \in gmem' <=> gdb'[g] = "live"
    BY <1>1, <1>2, <2>5
  <2>7. GlobalCopyOK(g)'
    BY <2>3, <2>6 DEF GlobalCopyOK
  <2>8. g \notin Sids
    BY <1>1, SessionsAssumption
  <2>9. QED
    BY <2>4, <2>7, <2>8 DEF CopyOK
<1>6. QED
  BY <1>1, <1>4, <1>5, CopiesBut

\* A registration fails: its session is disturbed.
LEMMA CopiesFailed ==
  ASSUME RequestsSound, CopiesSound, NEW h \in Handlers, CreateRulesFail(h)
  PROVE  CopiesSound'
<1>1. PICK s \in Sids : s = req[h].who
  BY RulesFailRequests
<1>2. /\ cleaner' = cleaner /\ gmem' = gmem /\ sess' = sess /\ mem' = mem /\ gdb' = gdb /\ now' = now
      /\ disturbed' = disturbed \cup {s} /\ Finish(h)
  BY <1>1 DEF CreateRulesFail, memVars
<1>3. \A g \in Handlers, o \in Owners : o # s => /\ Busy(g, o)' <=> Busy(g, o)
                                                 /\ Busy(g, o) => req'[g] = req[g]
  BY <1>1, <1>2, FinishBusy
<1>4. \A o \in Owners \ {s} : Same(o)
  BY <1>2, <1>3, SameStill
<1>5. QED
  BY <1>2, <1>4, CopiesBut

\* The rows of the expired sessions go.
LEMMA CopiesExpired ==
  ASSUME RequestsSound, CopiesSound, CleanupDelete
  PROVE  CopiesSound'
<1>1. /\ req' = req /\ mem' = mem /\ gmem' = gmem /\ gdb' = gdb /\ now' = now
      /\ cleaner.pc = "idle"
  BY DEF CleanupDelete, memVars
<1>2. PICK ids \in SUBSET Sids : ids = {s \in Sids : Expired(s)}
  OBVIOUS
<1>3. /\ \A s \in Sids : s \in ids <=> Expired(s)
      /\ disturbed' = disturbed \cup {o \in ids : Unfinished(o)}
      /\ cleaner' = [cleaner EXCEPT !.pc = IF ids = {} THEN "swap" ELSE "mem", !.ids = ids]
  BY <1>2 DEF CleanupDelete, Disturb
<1>4. \A o : Cleaned(o)' <=> o \in ids
  BY <1>3, Opened DEF Cleaned, Cleaners
<1>5. \A o : ~Cleaned(o)
  BY <1>1 DEF Cleaned
<1>6. \A h \in Handlers, o \in Owners : Busy(h, o)' <=> Busy(h, o)
  BY <1>1 DEF Busy
<1>7. \A s \in Sids : sess'[s] = IF s \in ids THEN None ELSE sess[s]
  BY <1>3, CleanupRequests
<1>8. ASSUME NEW o \in Owners, o \notin ids PROVE Same(o)
  <2>1. o \in Sids => /\ HasRow(o)' <=> HasRow(o)
                      /\ HasRow(o) => sess'[o] = sess[o]
                      /\ Active(o)' => Active(o)
    BY <1>1, <1>7, <1>8 DEF HasRow, Active
  <2>2. QED
    BY <1>1, <1>4, <1>5, <1>6, <1>8, <2>1 DEF Same
<1>9. ASSUME NEW s \in Owners, s \in ids, s \notin disturbed' PROVE CopyOK(s)'
  <2>1. ~Unfinished(s) /\ s \in Sids
    BY <1>3, <1>9
  <2>2. \A h \in Handlers : ~Busy(h, s)'
    BY <1>6, <2>1, UnfinishedBusy
  <2>3. ~HasRow(s)' /\ Cleaned(s)'
    BY <1>4, <1>7, <1>9, <2>1 DEF HasRow
  <2>4. Unfinished(s)'
    BY <2>3, UnfinishedBusy
  <2>5. AloneOK(s)'
    BY <2>2 DEF AloneOK
  <2>6. SessionCopyOK(s)'
    BY <2>2, <2>3, <2>4 DEF SessionCopyOK
  <2>7. s \notin Globals
    BY <2>1, SessionsAssumption
  <2>8. QED
    BY <2>5, <2>6, <2>7 DEF CopyOK
<1>10. disturbed \subseteq disturbed'
  BY <1>3
<1>11. QED
  BY <1>8, <1>9, <1>10, CopiesBut

\* The expired sessions leave memory.
LEMMA CopiesForgotten ==
  ASSUME RequestsSound, CopiesSound, CleanupForget
  PROVE  CopiesSound'
<1>1. /\ req' = req /\ sess' = sess /\ gmem' = gmem /\ gdb' = gdb /\ now' = now /\ disturbed' = disturbed
      /\ cleaner.pc = "mem"
  BY DEF CleanupForget, dbVars
<1>2. PICK ids \in SUBSET Sids : ids = cleaner.ids
  BY DEF RequestsSound, SessionsTypeOK
<1>3. \A s \in Sids : mem'[s] = IF s \in ids THEN None ELSE mem[s]
  BY <1>2 DEF CleanupForget, Removed
<1>4. \A o : (Cleaned(o) <=> o \in ids) /\ ~Cleaned(o)'
  BY <1>1, <1>2, Opened DEF Cleaned, CleanupForget, Cleaners
<1>5. \A h \in Handlers, o \in Owners : Busy(h, o)' <=> Busy(h, o)
  BY <1>1 DEF Busy
<1>6. ASSUME NEW o \in Owners, o \notin ids PROVE Same(o)
  <2>1. o \in Sids => (HasRow(o)' <=> HasRow(o)) /\ (Active(o)' => Active(o))
    BY <1>1 DEF HasRow, Active
  <2>2. QED
    BY <1>1, <1>3, <1>4, <1>5, <1>6, <2>1 DEF Same
<1>7. ASSUME NEW s \in Owners, s \in ids, s \notin disturbed' PROVE CopyOK(s)'
  <2>1. AloneOK(s) /\ SessionCopyOK(s) /\ Cleaned(s) /\ s \in Sids
    BY <1>1, <1>4, <1>7 DEF CopiesSound, CopyOK
  <2>2. \A h \in Handlers : ~Busy(h, s)'
    BY <1>5, <2>1 DEF AloneOK
  <2>3. ~HasRow(s)' /\ mem'[s] = None
    BY <1>1, <1>3, <1>7, <2>1 DEF SessionCopyOK, HasRow
  <2>4. AloneOK(s)'
    BY <2>2 DEF AloneOK
  <2>5. SessionCopyOK(s)'
    BY <1>4, <2>2, <2>3 DEF SessionCopyOK, Active
  <2>6. s \notin Globals
    BY <2>1, SessionsAssumption
  <2>7. QED
    BY <2>4, <2>5, <2>6 DEF CopyOK
<1>8. QED
  BY <1>1, <1>6, <1>7, CopiesBut

\* A restart repairs the copies.
LEMMA CopiesRestarted ==
  ASSUME RequestsSound, RequestsSound', Restart \/ \E P \in SUBSET Sids : RestartNewKey(P)
  PROVE  CopiesSound'
<1>1. now' = now /\ \A o : ~Cleaned(o)' /\ \A h \in Handlers : ~Busy(h, o)'
  BY RestartRequests DEF Cleaned, Busy
<1>2. ASSUME NEW s \in Sids
      PROVE  /\ mem'[s] # None => HasRow(s)' /\ mem'[s] = sess'[s].ver
             /\ Active(s)' /\ sess'[s].readable => mem'[s] = sess'[s].ver
  <2>1. CASE Restart
    <3>1. sess' = sess /\ mem'[s] = Loaded[s]
      BY <2>1 DEF Restart, dbVars
    <3>2. HasRow(s) => sess[s].exp \in Nat /\ now \in Nat
      BY RowFields DEF RequestsSound, SessionsTypeOK, Times
    <3>3. QED
      BY <1>1, <3>1, <3>2 DEF Loaded, HasRow, Active
  <2>2. ASSUME NEW P \in SUBSET Sids, RestartNewKey(P)
        PROVE  mem'[s] = None /\ (HasRow(s)' => ~sess'[s].readable)
    BY <2>2, NewKeyRequests DEF RestartNewKey
  <2>3. QED
    BY <2>1, <2>2 DEF Active
<1>3. ASSUME NEW g \in Globals PROVE g \in gmem' <=> gdb'[g] = "live"
  <2>1. CASE Restart
    BY <2>1 DEF Restart, dbVars
  <2>2. ASSUME NEW P \in SUBSET Sids, RestartNewKey(P) PROVE g \in gmem' <=> gdb'[g] = "live"
    BY <2>2 DEF RestartNewKey, RequestsSound, SessionsTypeOK
  <2>3. QED
    BY <2>1, <2>2
<1>4. ASSUME NEW o \in Owners PROVE CopyOK(o)'
  <2>1. AloneOK(o)'
    BY <1>1 DEF AloneOK
  <2>2. o \in Sids => SessionCopyOK(o)'
    BY <1>1, <1>2 DEF SessionCopyOK
  <2>3. o \in Globals => GlobalCopyOK(o)'
    BY <1>1, <1>3 DEF GlobalCopyOK
  <2>4. QED
    BY <2>1, <2>2, <2>3 DEF CopyOK
<1>5. QED
  BY <1>4 DEF CopiesSound, Owners

\* A step that only refreshes or counts concerns no owner's copies.
LEMMA CopiesFrame ==
  ASSUME RequestsSound, CopiesSound, disturbed' = disturbed, mem' = mem, gmem' = gmem, gdb' = gdb,
         \A h \in Handlers : /\ req'[h].pc = "idle" <=> req[h].pc = "idle"
                             /\ req'[h].who = req[h].who /\ req'[h].op = req[h].op
                             /\ req'[h].ver = req[h].ver,
         cleaner' = cleaner \/ (cleaner'.pc # "mem" /\ cleaner.pc # "mem"),
         \A s \in Sids : /\ HasRow(s)' <=> HasRow(s)
                         /\ HasRow(s) => sess'[s].ver = sess[s].ver
                         /\ HasRow(s) => (sess'[s].readable <=> sess[s].readable)
                         /\ Active(s)' => Active(s)
  PROVE  CopiesSound'
<1>1. ASSUME NEW o \in Owners PROVE Same(o)
  <2>1. \A h \in Handlers : /\ Busy(h, o)' <=> Busy(h, o)
                            /\ Busy(h, o) => req'[h].op = req[h].op /\ req'[h].ver = req[h].ver
    BY DEF Busy
  <2>2. Cleaned(o)' <=> Cleaned(o)
    BY DEF Cleaned
  <2>3. QED
    BY <2>1, <2>2 DEF Same
<1>2. QED
  BY <1>1, CopyFrame DEF CopiesSound, Owners

\* Every step keeps the copies sound.
LEMMA CopiesInductive ==
  ASSUME RequestsSound, CopiesSound, [Next]_vars
  PROVE  CopiesSound'
<1>1. CASE disturbed' = disturbed /\ mem' = mem /\ gmem' = gmem /\ gdb' = gdb /\ req' = req
           /\ sess' = sess /\ now' = now
           /\ (cleaner' = cleaner \/ (cleaner'.pc # "mem" /\ cleaner.pc # "mem"))
  <2>1. \A s \in Sids : (HasRow(s)' <=> HasRow(s)) /\ (Active(s)' => Active(s))
    BY <1>1 DEF HasRow, Active
  <2>2. QED
    BY <1>1, <2>1, CopiesFrame
<1>2. CASE Tick
  <2>1. disturbed' = disturbed /\ mem' = mem /\ gmem' = gmem /\ gdb' = gdb /\ req' = req
        /\ sess' = sess /\ cleaner' = cleaner
    BY <1>2 DEF Tick, dbVars, memVars, history
  <2>2. ASSUME NEW s \in Sids PROVE (HasRow(s)' <=> HasRow(s)) /\ (Active(s)' => Active(s))
    <3>1. HasRow(s) => sess[s].exp \in Nat /\ now \in Nat /\ now' = now + 1
      BY <1>2, RowFields DEF RequestsSound, SessionsTypeOK, Times, Tick
    <3>2. QED
      BY <2>1, <3>1 DEF HasRow, Active
  <2>3. QED
    BY <2>1, <2>2, CopiesFrame
<1>3. CASE Restart \/ \E P \in SUBSET Sids : RestartNewKey(P)
  BY <1>3, RequestsInductive, CopiesRestarted
<1>4. CASE CleanerStep
  <2>1. CASE FlushSwap \/ FlushDone \/ \E s \in Sids : FlushFail(s)
    <3>1. disturbed' = disturbed /\ mem' = mem /\ gmem' = gmem /\ gdb' = gdb /\ req' = req
          /\ sess' = sess /\ now' = now /\ cleaner.pc # "mem"
      BY <2>1 DEF FlushSwap, FlushDone, FlushFail, dbVars, memVars, history
    <3>2. cleaner'.pc # "mem"
      <4>1. CASE FlushSwap
        BY <4>1, Opened DEF FlushSwap, Cleaners
      <4>2. CASE FlushDone
        BY <4>2 DEF FlushDone, RestingCleaner
      <4>3. ASSUME NEW s \in Sids, FlushFail(s) PROVE cleaner'.pc # "mem"
        BY <3>1, <4>3, FlushFailRequests
      <4>4. QED
        BY <2>1, <4>1, <4>2, <4>3
    <3>3. QED
      BY <1>1, <3>1, <3>2
  <2>2. ASSUME NEW s \in Sids, FlushWrite(s) PROVE CopiesSound'
    <3>1. disturbed' = disturbed /\ mem' = mem /\ gmem' = gmem /\ gdb' = gdb /\ req' = req
          /\ now' = now /\ cleaner.pc = "write" /\ cleaner'.pc = cleaner.pc
      BY <2>2, FlushRequests DEF FlushWrite, memVars
    <3>2. \A t \in Sids : /\ HasRow(t)' <=> HasRow(t)
                          /\ HasRow(t) => sess'[t].ver = sess[t].ver /\ sess'[t].exp = sess[t].exp
                          /\ HasRow(t) => (sess'[t].readable <=> sess[t].readable)
      BY <2>2, FlushRequests DEF HasRow
    <3>3. \A t \in Sids : Active(t)' => Active(t)
      BY <3>1, <3>2 DEF Active
    <3>4. QED
      BY <3>1, <3>2, <3>3, CopiesFrame
  <2>3. QED
    BY <1>4, <2>1, <2>2, CopiesExpired, CopiesForgotten DEF CleanerStep
<1>5. ASSUME NEW h \in Handlers, Arrival(h) PROVE CopiesSound'
  BY <1>5, CopiesDelete, CopiesUpsert, CopiesGlobal DEF Arrival
<1>6. ASSUME NEW h \in Handlers, HandlerStep(h) PROVE CopiesSound'
  <2>1. CASE CreateRules(h)
    <3>1. disturbed' = disturbed /\ mem' = mem /\ gmem' = gmem /\ gdb' = gdb /\ cleaner' = cleaner
          /\ sess' = sess /\ now' = now /\ req[h].pc = "rules"
      BY <2>1 DEF CreateRules, memVars
    <3>2. \A g \in Handlers : /\ req'[g].pc = "idle" <=> req[g].pc = "idle"
                              /\ req'[g].who = req[g].who /\ req'[g].op = req[g].op
                              /\ req'[g].ver = req[g].ver
      BY <2>1, <3>1, RulesRequests
    <3>3. \A s \in Sids : (HasRow(s)' <=> HasRow(s)) /\ (Active(s)' => Active(s))
      BY <3>1 DEF HasRow, Active
    <3>4. QED
      BY <3>1, <3>2, <3>3, CopiesFrame
  <2>2. QED
    BY <1>6, <2>1, CopiesFailed, CopiesSessionDone, CopiesGlobalDone DEF HandlerStep
<1>7. ASSUME NEW s \in Sids, HeartbeatSession(s) PROVE CopiesSound'
  <2>1. disturbed' = disturbed /\ mem' = mem /\ gmem' = gmem /\ gdb' = gdb /\ req' = req
        /\ cleaner' = cleaner /\ now' = now /\ Active(s)
    BY <1>7 DEF HeartbeatSession, memVars, history
  <2>2. \A t \in Sids : /\ HasRow(t)' <=> HasRow(t)
                        /\ HasRow(t) => sess'[t].ver = sess[t].ver
                        /\ HasRow(t) => (sess'[t].readable <=> sess[t].readable)
                        /\ t # s => sess'[t] = sess[t]
    BY <1>7, HeartbeatRequests DEF HasRow
  <2>3. \A t \in Sids : Active(t)' => Active(t)
    BY <2>1, <2>2 DEF Active
  <2>4. QED
    BY <2>1, <2>2, <2>3, CopiesFrame
<1>8. ASSUME NEW s \in Sids, SubstituteRequest(s) PROVE CopiesSound'
  BY <1>1, <1>8 DEF SubstituteRequest, dbVars
<1>9. ASSUME NEW k \in Keys, CreateRule(k) \/ DeleteRule(k) PROVE CopiesSound'
  BY <1>1, <1>9 DEF CreateRule, DeleteRule, memVars
<1>10. CASE UNCHANGED vars
  BY <1>1, <1>10 DEF vars, dbVars, memVars, history
<1>11. QED
  BY <1>2, <1>3, <1>4, <1>5, <1>6, <1>7, <1>8, <1>9, <1>10 DEF Next
------------------------------------------------------------------------------
(* The theorems.                                                           *)

\* The invariant holds at first.
LEMMA InvInit == Init => SessionsInv
<1> SUFFICES ASSUME Init PROVE SessionsInv
  OBVIOUS
<1>1. RequestsSound
  BY RequestsInit
<1>2. \A s \in Sids : ~HasRow(s) /\ mem[s] = None /\ performed[s] = 0 /\ inserted[s] = {} /\ Pending(s) = 0
  BY DEF Init, HasRow, Pending
<1>3. \A k \in Keys : rules[k] = None
  BY DEF Init
<1>4. cleaner.pc = "idle" /\ \A s \in Sids : cleaner.batch[s] = 0
  BY DEF Init, RestingCleaner
<1>5. \A h \in Handlers : req[h].pc = "idle"
  BY DEF Init, Idle
<1>6. owed = {} /\ disturbed = {} /\ gmem = {} /\ \A g \in Globals : gdb[g] # "live"
  BY DEF Init
<1>7. RowsSound
  BY <1>2 DEF RowsSound
<1>8. RulesSound
  BY <1>2, <1>3, <1>6 DEF RulesSound, OwnedOK, InsertedOK
<1>9. CountsSound
  BY <1>2, <1>4 DEF CountsSound, Counted, Stored
<1>10. \A o : ~Cleaned(o) /\ \A h \in Handlers : ~Busy(h, o)
  BY <1>4, <1>5 DEF Cleaned, Busy
<1>11. ASSUME NEW o \in Owners PROVE CopyOK(o)
  <2>1. AloneOK(o)
    BY <1>10 DEF AloneOK
  <2>2. o \in Sids => SessionCopyOK(o)
    BY <1>2, <1>10 DEF SessionCopyOK, Active
  <2>3. o \in Globals => GlobalCopyOK(o)
    BY <1>6, <1>10 DEF GlobalCopyOK
  <2>4. QED
    BY <2>1, <2>2, <2>3 DEF CopyOK
<1>12. QED
  BY <1>1, <1>7, <1>8, <1>9, <1>11 DEF SessionsInv, CopiesSound

\* The inductive invariant, for every number of sessions, handlers, keys and
\* faults: types and requests, rows, rules, counts and copies.
THEOREM SessionsInvariant == Spec => []SessionsInv
<1>1. SessionsInv /\ [Next]_vars => SessionsInv'
  BY RequestsInductive, RowsInductive, RulesInductive, CountsInductive, CopiesInductive DEF SessionsInv
<1>2. QED
  BY InvInit, <1>1, PTL DEF Spec

\* The tables, the maps and the requests keep their types.
THEOREM SessionsTypesCorrect == Spec => []SessionsTypeOK
<1>1. SessionsInv => SessionsTypeOK
  BY DEF SessionsInv, RequestsSound
<1>2. QED
  BY <1>1, SessionsInvariant, PTL

\* The CredentialStore agrees with the tables for every owner whose requests did
\* not overlap, and after every restart.
THEOREM CopiesAgree == Spec => []MemoryMirrorsTables
<1>1. SessionsInv => MemoryMirrorsTables
  <2> SUFFICES ASSUME SessionsInv PROVE MemoryMirrorsTables
    OBVIOUS
  <2>1. \A s \in Sids \ disturbed : SessionCopyOK(s)
    BY DEF SessionsInv, CopiesSound, CopyOK, Owners
  <2>2. \A g \in Globals \ disturbed : GlobalCopyOK(g)
    BY DEF SessionsInv, CopiesSound, CopyOK, Owners
  <2>3. QED
    BY <2>1, <2>2 DEF MemoryMirrorsTables, SessionCopyOK, GlobalCopyOK
<1>2. QED
  BY <1>1, SessionsInvariant, PTL

\* The rules of a session live and die with it, and one session at most decides.
THEOREM RulesHonoured == Spec => []SessionRulesHonoured
<1>1. SessionsInv => SessionRulesHonoured
  <2> SUFFICES ASSUME SessionsInv PROVE SessionRulesHonoured
    OBVIOUS
  <2>1. \A k \in Keys : rules[k] # None /\ rules[k].owner # Person => HasRow(rules[k].owner)
    BY DEF SessionsInv, RulesSound, OwnedOK
  <2>2. ASSUME NEW s \in Newest, NEW k \in inserted[s] PROVE k \in RulesInForce /\ rules[k].owner = s
    <3>1. s \in Sids /\ sess[s].exp > now /\ HasRow(s)
      BY DEF Newest, Active
    <3>2. k \in Keys
      BY <3>1 DEF SessionsInv, RequestsSound, HistoryTypeOK
    <3>3. rules[k] # None /\ rules[k].owner = s /\ rules[k].exp >= sess[s].exp
      BY <3>1 DEF SessionsInv, RulesSound, InsertedOK
    <3>4. rules[k].exp \in Nat /\ sess[s].exp \in Nat /\ now \in Nat
      BY <3>1, <3>2, <3>3, RowFields, RuleFields DEF SessionsInv, RequestsSound, SessionsTypeOK, Times
    <3>5. QED
      BY <3>1, <3>2, <3>3, <3>4 DEF RulesInForce
  <2>3. Cardinality(Newest) <= 1
    BY NewestAlone DEF SessionsInv
  <2>4. QED
    BY <2>1, <2>2, <2>3 DEF SessionRulesHonoured
<1>2. QED
  BY <1>1, SessionsInvariant, PTL

\* A registration leaves no rule of the one before, unless a crash cut it short.
THEOREM LeftoversGone == Spec => []NoLeftoverRules
<1>1. SessionsInv => NoLeftoverRules
  BY DEF SessionsInv, RulesSound, OwnedOK, Unsettled, NoLeftoverRules
<1>2. QED
  BY <1>1, SessionsInvariant, PTL

\* A person's rule is kept until a person deletes it.
THEOREM PersonsRulesKept == Spec => []PersonsRuleKept
<1>1. SessionsInv => PersonsRuleKept
  <2> SUFFICES ASSUME SessionsInv, NEW k \in owed \ adopted PROVE rules[k] # None /\ rules[k].exp > now
    BY DEF PersonsRuleKept
  <2>1. k \in Keys /\ rules[k] # None /\ rules[k].owner = Person
    BY DEF SessionsInv, RequestsSound, HistoryTypeOK, RulesSound
  <2>2. rules[k].exp = Forever
    BY <2>1 DEF SessionsInv, RulesSound, OwnedOK
  <2>3. now \in 0 .. MaxTime
    BY DEF SessionsInv, RequestsSound, SessionsTypeOK, Times
  <2>4. QED
    BY <2>1, <2>2, <2>3, SessionsAssumption DEF Forever
<1>2. QED
  BY <1>1, SessionsInvariant, PTL

\* No substitution is counted twice, and none is lost unless excused.
THEOREM CountsExact == Spec => []SubstitutionsCounted
<1>1. SessionsInv => SubstitutionsCounted
  BY DEF SessionsInv, CountsSound, Counted, Stored, SubstitutionsCounted
<1>2. QED
  BY <1>1, SessionsInvariant, PTL

=============================================================================
