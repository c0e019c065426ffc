--------------------------- MODULE Conversations ---------------------------
(***************************************************************************)
(* The conversation assembler: transactions are committed by the proxy and *)
(* announced on the bus; the assembler's loop debounces the announcements  *)
(* and turns the transactions behind its cursor into conversations.        *)
(*                                                                         *)
(* One pass reads the new rows, reads all rows of the sessions they belong *)
(* to, and replaces those conversations, each with its turns and links in  *)
(* several statements; the cursor moves last.  The proxy commits more rows *)
(* meanwhile.  The mutex lets one pass or rebuild run at a time.  A crash  *)
(* keeps the tables.                                                       *)
(***************************************************************************)
EXTENDS Dissectors

CONSTANTS
  Rows,           \* transactions the proxy may record, as Dissectors has them
  MaxTxns,        \* bound: transactions
  QueueCap,       \* capacity of the subscription, 128
  MaxRequests,    \* bound: requests of a person (rebuild, toggle, rules)
  MaxCrashes      \* bound: crashes and failures of the database

\* A row has the fields the dissectors read; no client names its session the way
\* the assembler names the ones it infers.
RowFields(f) == {r[f] : r \in Rows}
ASSUME RowsAssumption ==
  /\ Rows \subseteq [api : RowFields("api"), client : RowFields("client"), key : RowFields("key"),
                     body : RowFields("body"), items : RowFields("items"), reply : RowFields("reply"),
                     refs : RowFields("refs"), sys : RowFields("sys"), tools : RowFields("tools"),
                     form : RowFields("form"), asked : RowFields("asked"), at : Nat]
  /\ RowFields("key") \cap InferredSessions = {}
  /\ RowFields("sys") \subseteq {"none", "short", "mid", "long"}
  /\ NoSid \notin RowFields("key") \X {"main", "none", "short", "mid", "long"} \X Nat

VARIABLES
  txns,           \* http_transactions in the order of their ids
  convs,          \* conversations by id
  turnRows,       \* turns by conversation
  link,           \* http_transactions.conversation_id
  cursor,         \* last_processed_id
  version,        \* assembler_version: "old" or "current"
  tracking,       \* ConversationAssembler.enabled
  endpointRule,   \* the rule for custom endpoints: NoSid, "on", "off"
  loop,           \* Start: "rebuild", "backfill", "subscribe", "run"
  events,         \* announcements in the subscription
  timer,          \* the debounce timer runs
  trigger,        \* the channel trigger
  job,            \* the pass that holds the mutex
  missed,         \* history: nothing will make the loop look at the last rows
  lost,           \* history: transactions whose conversation failed to be stored
  torn,           \* history: transactions whose conversation a crash kept from it
  unstored,       \* history: the conversations of both
  wiped,          \* history: conversations were deleted and the cursor kept
  cvBound         \* counters: requests, crashes

tableVars == <<txns, convs, turnRows, link, cursor, version>>
loopVars == <<loop, events, timer, trigger>>
failedVars == <<lost, torn, unstored>>
cvHistory == <<missed, failedVars, wiped>>
conversationVars == <<tableVars, tracking, endpointRule, loopVars, job, cvHistory, cvBound>>

TxnIds == 1 .. Len(txns)
EmptyFcn == [id \in {} |-> NoSid]
NoJob == [pc |-> "none", loop |-> FALSE, rebuild |-> FALSE, max |-> 0, new |-> {},
          todo |-> <<EmptyFcn, EmptyFcn>>, cur |-> NoSid]

Requested == cvBound.requests < MaxRequests /\ cvBound' = [cvBound EXCEPT !.requests = @ + 1]
Failure == cvBound.crashes < MaxCrashes /\ cvBound' = [cvBound EXCEPT !.crashes = @ + 1]
------------------------------------------------------------------------------
(* The proxy records a transaction and announces it; a full subscription   *)
(* drops the announcement, and before Subscribe there is none.             *)

Commit(row) ==
  LET last == IF txns = <<>> THEN 0 ELSE txns[Len(txns)].at
      heard == loop = "run" /\ events < QueueCap
  IN  /\ Len(txns) < MaxTxns
      /\ txns' = Append(txns, [row EXCEPT !.at = last + row.at])
      /\ link' = Append(link, NoSid)
      /\ events' = IF heard THEN events + 1 ELSE events
      /\ missed' = ~heard
      /\ UNCHANGED <<convs, turnRows, cursor, version, tracking, endpointRule, loop, timer, trigger,
                     job, failedVars, wiped, cvBound>>
------------------------------------------------------------------------------
(* The loop of Start.                                                      *)

LoopIdle == loop = "run" /\ ~job.loop

Event ==
  /\ LoopIdle /\ events > 0
  /\ events' = events - 1 /\ timer' = TRUE
  /\ UNCHANGED <<tableVars, tracking, endpointRule, loop, trigger, job, cvHistory, cvBound>>

\* Mutant: the timer is not heard while a pass runs.
FireUnheard ==
  /\ timer /\ timer' = FALSE
  /\ trigger' = (trigger \/ job.pc = "none")
  /\ UNCHANGED <<tableVars, tracking, endpointRule, loop, events, job, cvHistory, cvBound>>

\* time.AfterFunc: the trigger holds one signal.
Fire ==
  /\ timer /\ timer' = FALSE
  /\ trigger' = TRUE
  /\ UNCHANGED <<tableVars, tracking, endpointRule, loop, events, job, cvHistory, cvBound>>

StartJob(byLoop, pc) ==
  /\ job.pc = "none"
  /\ job' = [NoJob EXCEPT !.pc = pc, !.loop = byLoop, !.rebuild = pc = "delete"]

Trigger ==
  /\ LoopIdle /\ trigger
  /\ trigger' = FALSE
  /\ StartJob(TRUE, "scan")
  /\ UNCHANGED <<tableVars, tracking, endpointRule, loop, events, timer, cvHistory, cvBound>>

\* Start: a rebuild if the version differs, the backfill, the subscription.
Start ==
  /\ ~job.loop
  /\ CASE loop = "rebuild" /\ version # "current" -> StartJob(TRUE, "delete") /\ loop' = "backfill"
       [] loop = "rebuild" /\ version = "current" -> loop' = "backfill" /\ UNCHANGED job
       [] loop = "backfill" -> StartJob(TRUE, "scan") /\ loop' = "subscribe"
       [] loop = "subscribe" -> loop' = "run" /\ UNCHANGED job
       [] OTHER -> FALSE
  /\ UNCHANGED <<tableVars, tracking, endpointRule, events, timer, trigger, cvHistory, cvBound>>
------------------------------------------------------------------------------
(* One pass.                                                               *)

\* The pass is over; a rebuild notes its version at last.
Finish ==
  job' = IF job.rebuild THEN [job EXCEPT !.pc = "version"] ELSE NoJob

Decoder(i, scanned) ==
  LET shaped == {j \in scanned : j <= i /\ txns[j].api = "custom" /\ ChatShaped(txns[j])}
  IN  CASE txns[i].api \in BuiltinApis -> txns[i].api
        [] txns[i].api = "custom" /\ (endpointRule = "on" \/ (endpointRule = NoSid /\ shaped # {})) -> "chat"
        [] OTHER -> "none"

Entries(ids) ==
  LET all == [i \in ids |-> [row |-> txns[i], res |-> Extract(Decoder(i, ids), txns[i])]]
  IN  [i \in {j \in ids : all[j].res # NoSid} |-> all[i]]

\* The first chat-shaped request of an unknown endpoint makes a rule for it.
AutoDetect(ids) ==
  endpointRule' = IF endpointRule = NoSid /\ \E i \in ids : txns[i].api = "custom" /\ ChatShaped(txns[i])
                  THEN "on" ELSE endpointRule

Behind == {i \in TxnIds : i > cursor}

\* loadNewTransactions.  Tracking may be off.
LoadNewTransactions ==
  /\ job.pc = "scan"
  /\ IF ~tracking
     THEN Finish /\ missed' = (missed \/ Behind # {}) /\ UNCHANGED <<cursor, endpointRule>>
     ELSE /\ AutoDetect(Behind)
          /\ missed' = FALSE
          /\ IF DOMAIN Entries(Behind) = {}
             THEN cursor' = Len(txns) /\ Finish
             ELSE job' = [job EXCEPT !.pc = "reload", !.new = Behind, !.max = Len(txns)] /\ UNCHANGED cursor
  /\ UNCHANGED <<txns, convs, turnRows, link, version, tracking, loopVars, failedVars, wiped, cvBound>>

\* The rows or the cursor cannot be read: nothing is done.
LoadFails ==
  /\ job.pc \in {"scan", "reload"} /\ Failure
  /\ Finish /\ missed' = TRUE
  /\ UNCHANGED <<tableVars, tracking, endpointRule, loopVars, failedVars, wiped>>

NewSessions == AssignWSResponseSessions(Entries(job.new), DOMAIN Entries(job.new))

\* Mutant: only the new rows of the sessions.
LoadNewRowsOfSessions(sids) == {i \in DOMAIN Entries(TxnIds) : Entries(TxnIds)[i].res.session \in sids /\ i \in job.new}

\* All rows of the sessions, the frames that name none excepted.
LoadTransactionsForSessions(sids) == {i \in DOMAIN Entries(TxnIds) : Entries(TxnIds)[i].res.session \in sids}

\* The entries to group, each with its session: on a full rebuild the ones
\* already read, else those of the sessions and of the subagents they name.
SessionEntries(skipRefs) ==
  LET known == {NewSessions[i] : i \in DOMAIN NewSessions} \ {NoSid}
      mine == LoadTransactionsForSessions(known)
      refs == IF skipRefs THEN {} ELSE ExtractReferenced(Entries(TxnIds), mine, known)
  IN  CASE known = {} -> EmptyFcn
        [] known # {} /\ cursor = 0 -> NewSessions
        [] OTHER -> [i \in mine \cup LoadTransactionsForSessions(refs) |-> Entries(TxnIds)[i].res.session]

Sessionless == [i \in {j \in DOMAIN NewSessions : NewSessions[j] = NoSid} |-> NoSid]

\* The conversations of the pass, those with sessions first.
Assembled(skipRefs, pref) ==
  LET E == Entries(TxnIds)
      named == GroupBySession(E, SessionEntries(skipRefs), pref)
      others == GroupBySession(E, Sessionless, pref)
      ids == DOMAIN named \cup DOMAIN others
      made(groups) == [id \in DOMAIN groups |->
                         [c |-> AssembleConversation(E, id, groups[id]), linked |-> LinkSubagents(id, ids)]]
  IN  <<made(named), made(others)>>

Reload(skipRefs, pref) ==
  /\ job.pc = "reload"
  /\ IF skipRefs THEN Failure ELSE UNCHANGED cvBound
  /\ job' = [job EXCEPT !.pc = "upsert", !.new = {}, !.todo = Assembled(skipRefs, pref)]
  /\ UNCHANGED <<tableVars, tracking, endpointRule, loopVars, cvHistory>>

Front1 == IF DOMAIN job.todo[1] # {} THEN 1 ELSE 2
Upserting == job.pc = "upsert" /\ DOMAIN job.todo[Front1] # {}
Without(k, id) == [job.todo EXCEPT ![k] = [o \in DOMAIN @ \ {id} |-> @[o]]]

\* The row, INSERT OR REPLACE.
UpsertConversation(id) ==
  /\ Upserting /\ id \in DOMAIN job.todo[Front1]
  /\ LET made == job.todo[Front1][id]
     IN  convs' = [o \in DOMAIN convs \cup {id} |->
                     IF o = id THEN [txns |-> made.c.txns, count |-> made.c.count, parent |-> made.c.parent,
                                     linked |-> made.linked]
                     ELSE convs[o]]
  /\ job' = [job EXCEPT !.pc = "turns", !.cur = id]
  /\ UNCHANGED <<txns, turnRows, link, cursor, version, tracking, endpointRule, loopVars, cvHistory, cvBound>>

\* The turns are deleted and inserted, then the transactions linked.
UpsertTurns ==
  /\ job.pc = "turns"
  /\ LET made == job.todo[Front1][job.cur]
     IN  /\ turnRows' = [o \in DOMAIN turnRows \cup {job.cur} |->
                           IF o = job.cur THEN made.c.turns ELSE turnRows[o]]
         /\ link' = [i \in DOMAIN link |-> IF i \in made.c.txns THEN job.cur ELSE link[i]]
         /\ lost' = lost \ made.c.txns /\ torn' = torn \ made.c.txns
  /\ job' = [job EXCEPT !.pc = "upsert", !.cur = NoSid, !.todo = Without(Front1, job.cur)]
  /\ UNCHANGED <<txns, convs, cursor, version, tracking, endpointRule, loopVars, missed, unstored, wiped, cvBound>>

\* A statement fails: the rest of the conversation is left, the pass goes on.
UpsertFails ==
  /\ job.pc \in {"upsert", "turns"} /\ Failure
  /\ \E id \in DOMAIN job.todo[Front1] :
       /\ job.pc = "turns" => id = job.cur
       /\ lost' = lost \cup job.todo[Front1][id].c.txns
       /\ unstored' = unstored \cup {id}
       /\ job' = [job EXCEPT !.pc = "upsert", !.cur = NoSid, !.todo = Without(Front1, id)]
  /\ UNCHANGED <<tableVars, tracking, endpointRule, loopVars, missed, torn, wiped>>

\* The cursor moves, whatever failed.
Advance ==
  /\ job.pc = "upsert" /\ ~Upserting
  /\ cursor' = job.max /\ Finish
  /\ UNCHANGED <<txns, convs, turnRows, link, version, tracking, endpointRule, loopVars, cvHistory, cvBound>>
------------------------------------------------------------------------------
(* A rebuild: all is deleted, the cursor reset, one pass made, the version *)
(* noted, even if the pass did nothing.                                    *)

Rebuild ==
  /\ loop # "rebuild" /\ Requested /\ StartJob(FALSE, "delete")
  /\ UNCHANGED <<tableVars, tracking, endpointRule, loopVars, cvHistory>>

DeleteAllConversations ==
  /\ job.pc = "delete"
  /\ convs' = EmptyFcn /\ turnRows' = EmptyFcn /\ link' = [i \in DOMAIN link |-> NoSid]
  /\ job' = [job EXCEPT !.pc = "reset"]
  /\ UNCHANGED <<txns, cursor, version, tracking, endpointRule, loopVars, cvHistory, cvBound>>

ResetCursor(fails) ==
  /\ job.pc = "reset"
  /\ IF fails THEN Failure /\ wiped' = TRUE /\ UNCHANGED <<cursor, failedVars>>
              ELSE /\ cursor' = 0 /\ wiped' = FALSE /\ UNCHANGED cvBound
                   /\ lost' = {} /\ torn' = {} /\ unstored' = {}
  /\ job' = [job EXCEPT !.pc = "scan"]
  /\ UNCHANGED <<txns, convs, turnRows, link, version, tracking, endpointRule, loopVars, missed>>

NoteVersion ==
  /\ job.pc = "version"
  /\ version' = "current" /\ job' = NoJob
  /\ UNCHANGED <<txns, convs, turnRows, link, cursor, tracking, endpointRule, loopVars, cvHistory, cvBound>>
------------------------------------------------------------------------------
(* The settings and the endpoint rules.                                    *)

SetEnabled(on) ==
  /\ tracking # on /\ Requested /\ tracking' = on
  /\ UNCHANGED <<tableVars, endpointRule, loopVars, job, cvHistory>>

ChangeEndpointRule(to) ==
  /\ Requested /\ endpointRule' = to
  /\ UNCHANGED <<tableVars, tracking, loopVars, job, cvHistory>>

\* A user-defined rule; the UNIQUE key refuses a second.
CreateEndpointRule == endpointRule = NoSid /\ ChangeEndpointRule("on")
UpdateEndpointRule(to) == endpointRule \notin {NoSid, to} /\ ChangeEndpointRule(to)
DeleteEndpointRule == endpointRule # NoSid /\ ChangeEndpointRule(NoSid)

\* The transactions of the conversations a pass has still to store.
Undone(k) == UNION {job.todo[k][id].c.txns : id \in DOMAIN job.todo[k]}

\* The process ends and starts again; the tables stay.
Crash ==
  /\ Failure
  /\ loop' = "rebuild" /\ events' = 0 /\ timer' = FALSE /\ trigger' = FALSE /\ job' = NoJob
  /\ wiped' = (wiped \/ (job.pc = "reset" /\ version = "current"))
  /\ torn' = torn \cup Undone(1) \cup Undone(2)
  /\ unstored' = unstored \cup DOMAIN job.todo[1] \cup DOMAIN job.todo[2]
  /\ UNCHANGED <<tableVars, tracking, endpointRule, missed, lost>>
------------------------------------------------------------------------------
ConversationsInit ==
  /\ txns = <<>> /\ convs = EmptyFcn /\ turnRows = EmptyFcn /\ link = <<>> /\ cursor = 0
  /\ version \in {"old", "current"}
  /\ tracking = TRUE /\ endpointRule = NoSid
  /\ loop = "rebuild" /\ events = 0 /\ timer = FALSE /\ trigger = FALSE /\ job = NoJob
  /\ missed = FALSE /\ lost = {} /\ torn = {} /\ unstored = {} /\ wiped = FALSE
  /\ cvBound = [requests |-> 0, crashes |-> 0]

JobStep ==
  \/ LoadNewTransactions \/ \E pref \in {r.key : r \in Rows} : Reload(FALSE, pref)
  \/ \E id \in DOMAIN job.todo[Front1] : UpsertConversation(id)
  \/ UpsertTurns \/ Advance
  \/ DeleteAllConversations \/ ResetCursor(FALSE) \/ NoteVersion

LoopStep == Event \/ Fire \/ Trigger \/ Start

ConversationsNext ==
  \/ JobStep \/ LoopStep
  \/ \E row \in Rows : Commit(row)
  \/ LoadFails \/ Reload(TRUE, NoSid) \/ UpsertFails \/ ResetCursor(TRUE) \/ Crash
  \/ Rebuild \/ \E on \in BOOLEAN : SetEnabled(on)
  \/ CreateEndpointRule \/ DeleteEndpointRule \/ \E to \in {"on", "off"} : UpdateEndpointRule(to)

ConversationsSpec == ConversationsInit /\ [][ConversationsNext]_conversationVars

\* The goroutines run and the timer fires.  A pass is finite: that its steps are
\* taken is that it ends.
ConversationsFairness ==
  /\ []<>(job.pc = "none")
  /\ WF_conversationVars(LoopStep)
------------------------------------------------------------------------------
(* Properties.                                                             *)

\* The session that a row of a built-in endpoint names by itself, and its entry.
Named(i) ==
  LET r == Extract(txns[i].api, txns[i])
  IN  IF txns[i].api \in BuiltinApis /\ r # NoSid THEN r.session ELSE NoSid
Entry(i) == [row |-> txns[i], res |-> Extract(txns[i].api, txns[i])]

\* The threads a request may be taken for: the adapter is that of some request of
\* its session, or of one that names no session and is counted to it.
Threads(i) ==
  {ClassifyThread(txns[j].client, Entry(i)) : j \in {k \in TxnIds : Named(k) \in {Named(i), NoSid}}}

\* A request of a session that is no task of another, in a thread that is kept.
Regular(i) ==
  /\ Named(i) # NoSid /\ "utility" \notin Threads(i)
  /\ \A j \in TxnIds : Named(i) \notin Range(txns[j].refs)

(* Between passes, every transaction behind the cursor that names a        *)
(* session is in the conversation it is linked to, one of that session,    *)
(* whose stored turns are the ones its row counts; the main requests of a  *)
(* session are all in its main conversation; and the subagents a           *)
(* conversation lists are stored.  This survives crashes at any statement, *)
(* rows that arrive during a pass, changed endpoint rules and rebuilds.    *)
(* What it excepts is a conversation whose own statement failed, which the *)
(* cursor passes over until a pass has a new request of the session; a     *)
(* rebuild cut off before its cursor is reset; and a conversation that a   *)
(* crash cut off in a pass, of which only the main one is sure to hold the *)
(* transactions linked to it.  A session that another one names as its     *)
(* task is excepted too: it is numbered among the ones that happen to be   *)
(* in the same pass, and a later pass may give the number to another.      *)
SessionsComplete ==
  job.pc = "none" /\ loop = "run" /\ ~wiped =>
    /\ \A i \in 1 .. cursor : Regular(i) /\ i \notin lost =>
         /\ Threads(i) = {"main"} => link[i] = MainId(Named(i))
         /\ i \notin torn \/ Threads(i) = {"main"} =>
              link[i] \in DOMAIN convs /\ i \in convs[link[i]].txns
         /\ i \notin torn => /\ link[i][1] = Named(i) /\ link[i] \in DOMAIN turnRows
                             /\ DOMAIN turnRows[link[i]] = 1 .. convs[link[i]].count
    /\ \A id \in DOMAIN convs : convs[id].linked \subseteq DOMAIN convs \cup unstored

(* A transaction is assembled in the end, or at least passed over: after   *)
(* its commit the cursor gets there, unless nothing will make the loop     *)
(* look again (the announcement was dropped or came before Subscribe, or   *)
(* the pass it caused found tracking off or could not read).               *)
TransactionsAssembled ==
  \A k \in 1 .. MaxTxns : []<>(Len(txns) >= k => cursor >= k \/ missed \/ ~tracking \/ wiped)
=============================================================================
