----------------------------- MODULE Dissectors -----------------------------
(***************************************************************************)
(* How recorded transactions become conversations: the dissectors of the   *)
(* wire formats, the client adapters, the grouping into sessions, threads  *)
(* and subagents, and the assembly into turns.                             *)
(*                                                                         *)
(* A row of http_transactions is reduced to what the assembly tells apart: *)
(*   api      the endpoint: "anthropic", "openai", "chat", "google",       *)
(*            "wsreq", "wsresp" (built-in rules), "custom", "other"        *)
(*   client   the adapter that detects it with the highest confidence      *)
(*   key      the session id in the body        body  "full", "broken"     *)
(*   items    the wire items: "user", "noise" (scaffolding), "system",     *)
(*            "call", "output", or the text of an assistant                *)
(*   reply    the text of the answer            refs  task_ids mentioned   *)
(*   form     the answer: "events" or "data" (streams, with and without    *)
(*            names of events), "json"          asked whether as a stream  *)
(*   sys      length of the system prompt: "none", "short", "mid", "long"  *)
(*   tools    "none", "few", "manage" (the tools only a main thread has)   *)
(*   at       the time, in units longer than the five minutes' gap         *)
(* Rows are numbered by id and their times grow with it.                   *)
(***************************************************************************)
EXTENDS Naturals, Sequences, SequencesExt, FiniteSets, FiniteSetsExt

CONSTANTS NoSid   \* no session id, no text, no result

BuiltinApis == {"anthropic", "openai", "chat", "google", "wsreq", "wsresp"}
WebSocketApis == {"wsreq", "wsresp"}

------------------------------------------------------------------------------
(* The dissectors.                                                         *)

\* Items that become messages; the developer's go to the system prompt.  That
\* appendToAssistant joins calls to one message matters to no turn.
Messages(items) == SelectSeq(items, LAMBDA m : m # "system")

NoMessages == [session |-> NoSid, msgs |-> <<>>, reply |-> NoSid]

IsStream(row) == row.form \in {"events", "data"}

\* ParseSSE and the two readers of its events: those without a name say nothing.
ParseSSE(row) == IF row.form = "events" THEN row.reply ELSE NoSid
ExtractResponseFromSSE(row) == IF IsStream(row) THEN ParseSSE(row) ELSE NoSid
ExtractOpenAIResponseFromSSE(row) == IF IsStream(row) THEN ParseSSE(row) ELSE NoSid

\* ParseSSEDataOnly and its two readers, and the documents that are no stream.
ParseSSEDataOnly(row) == IF IsStream(row) THEN row.reply ELSE NoSid
Document(row) == IF row.form = "json" THEN row.reply ELSE NoSid

\* Chat completions: a stream that was asked for and came, a document if none was
\* asked for; a document in answer to a stream is not read.
ExtractChatResponse(row) ==
  CASE row.asked /\ IsStream(row) -> ParseSSEDataOnly(row)
    [] ~row.asked -> Document(row)
    [] OTHER -> NoSid

\* Google: what was asked for as a stream is read as one, even a document.
ExtractGoogleStreamingResponse(row) == ParseSSEDataOnly(row)
ExtractGoogleNonStreamingResponse(row) == Document(row)
ExtractGoogleResponse(row) ==
  IF row.asked \/ IsStream(row) THEN ExtractGoogleStreamingResponse(row)
                               ELSE ExtractGoogleNonStreamingResponse(row)

Parsed(row, reply) == [session |-> row.key, msgs |-> Messages(row.items), reply |-> reply]

\* A body that cannot be parsed is searched for the session id.
ExtractAnthropic(row) ==
  IF row.body = "full" THEN Parsed(row, ExtractResponseFromSSE(row))
                       ELSE [NoMessages EXCEPT !.session = row.key]

ExtractOpenAI(row) ==
  IF row.body = "full" THEN Parsed(row, ExtractOpenAIResponseFromSSE(row)) ELSE NoMessages

ExtractChat(row) == IF row.body = "full" THEN Parsed(row, ExtractChatResponse(row)) ELSE NoMessages

ExtractGoogle(row) ==
  IF row.body = "full" THEN [Parsed(row, ExtractGoogleResponse(row)) EXCEPT !.session = NoSid]
                       ELSE NoMessages

ExtractWSRequest(row) ==
  IF row.body = "full" THEN Parsed(row, NoSid) ELSE NoSid

\* Only response.completed with an output counts; it names no session.
ExtractWSResponse(row) ==
  IF row.body = "full" /\ row.reply # NoSid THEN [NoMessages EXCEPT !.reply = row.reply] ELSE NoSid

Extract(decoder, row) ==
  CASE decoder = "anthropic" -> ExtractAnthropic(row)
    [] decoder = "openai" -> ExtractOpenAI(row)
    [] decoder = "chat" -> ExtractChat(row)
    [] decoder = "google" -> ExtractGoogle(row)
    [] decoder = "wsreq" -> ExtractWSRequest(row)
    [] decoder = "wsresp" -> ExtractWSResponse(row)
    [] OTHER -> NoSid

\* The shape AutoDetectAndCreate looks for: a model and messages.
ChatShaped(row) == row.body = "full" /\ Messages(row.items) # <<>>
------------------------------------------------------------------------------
(* The client adapters.  An entry is [row, res]; E maps ids to entries.    *)

\* Frames are recorded without headers; an entry with headers decides first.
DetectClientFromEntries(E, ids) ==
  LET headed == {i \in ids : E[i].row.api \notin WebSocketApis}
      first == Min(IF headed # {} THEN headed ELSE ids)
  IN  E[first].row.client

ClassifyByPrompt(e) ==
  CASE e.row.sys = "long" -> "main"
    [] e.row.sys = "mid" -> "subagent"
    [] OTHER -> "utility"

ClassifyByTools(e) ==
  CASE e.row.tools = "none" -> "utility"
    [] e.row.tools = "manage" -> "main"
    [] OTHER -> "subagent"

ClassifyCodex(e) == IF e.res.reply # NoSid THEN "main" ELSE ClassifyByTools(e)

ClassifyGeneric(e) ==
  CASE e.row.tools # "none" -> IF e.row.sys = "long" THEN "main" ELSE "subagent"
    [] OTHER -> IF e.res.msgs # <<>> THEN "main" ELSE "utility"

\* "utility" stands for all the threads that are left out.
ClassifyThread(client, e) ==
  CASE client = "claude-code" -> ClassifyByPrompt(e)
    [] client = "opencode" -> ClassifyByTools(e)
    [] client = "codex" -> ClassifyCodex(e)
    [] client = "generic" -> ClassifyGeneric(e)
    [] OTHER -> "main"

\* ids up to i in their order, the one before i, and whether i drops: fewer
\* messages than before, but for one.
UpTo(ids, i) == {j \in ids : j <= i}
Count(E, i) == Len(E[i].res.msgs)
Drops(E, ids, i) ==
  LET before == {j \in ids : j < i} IN before # {} /\ Count(E, i) + 1 < Count(E, Max(before))

\* TimingStrategy: the group is named after its first entry.
InferByTiming(E, ids) ==
  [i \in ids |-> <<"timing", Min({j \in ids : E[j].row.at = E[i].row.at})>>]

\* MessageGrowthStrategy: numbered from 0 within one system prompt.
InferByGrowth(E, ids) ==
  [i \in ids |->
     LET alike == {j \in ids : E[j].row.sys = E[i].row.sys}
     IN  <<"growth", E[i].row.sys, Cardinality({j \in UpTo(alike, i) : Drops(E, alike, j)})>>]

\* What the strategies and the heuristic below call a session.
InferredSessions ==
  ({"timing"} \X Nat) \cup ({"growth"} \X {"none", "short", "mid", "long"} \X Nat) \cup ({"heuristic"} \X Nat \X Nat)

\* The strategies of Claude Code and Codex infer nothing.
InferSession(client, E, ids) ==
  CASE client = "opencode" -> InferByGrowth(E, ids)
    [] client \in {"claude-code", "codex"} -> [i \in {} |-> NoSid]
    [] OTHER -> InferByTiming(E, ids)

\* Claude Code's subagents share the session: a drop starts the next one.
SplitInvocations(client, E, ids) ==
  [i \in ids |-> IF client = "claude-code"
                 THEN 1 + Cardinality({j \in UpTo(ids, i) : Drops(E, ids, j)}) ELSE 1]
------------------------------------------------------------------------------
(* Sessions.                                                               *)

\* assignWSResponseSessions, on the entries of one scan alone.
AssignWSResponseSessions(E, ids) ==
  [i \in ids |->
     LET named == {j \in ids : j < i /\ E[j].row.api \in WebSocketApis /\ E[j].res.session # NoSid}
     IN  IF E[i].res.session # NoSid \/ E[i].row.api \notin WebSocketApis \/ named = {}
         THEN E[i].res.session ELSE E[Max(named)].res.session]

\* The sessions whose time a group overlaps; all overlap it by the same gap.
Overlapping(E, sess, at) ==
  LET of(s) == {i \in DOMAIN sess : sess[i] = s}
  IN  {s \in Range(sess) \ {NoSid} :
         E[Min(of(s))].row.at <= at /\ at <= E[Max(of(s))].row.at}

\* What is left without a session goes to one that overlaps, if any: the map's
\* order decides which, here the preference pref.  Else the group is its own.
OverlapHeuristic(E, sess, pref) ==
  LET left == {i \in DOMAIN sess : sess[i] = NoSid}
      group(i) == {j \in left : E[j].row.at = E[i].row.at}
  IN  [i \in DOMAIN sess |->
         LET fits == Overlapping(E, sess, E[i].row.at)
         IN  CASE i \notin left -> sess[i]
               [] i \in left /\ fits # {} -> IF pref \in fits THEN pref ELSE CHOOSE s \in fits : TRUE
               [] OTHER -> <<"heuristic", Min(group(i)), Max(group(i))>>]

\* The raw session of every entry.
RawSessions(E, sess, pref) ==
  LET unassigned == {i \in DOMAIN sess : sess[i] = NoSid}
      inferred == IF unassigned = {} THEN [i \in {} |-> NoSid]
                  ELSE InferSession(DetectClientFromEntries(E, unassigned), E, unassigned)
  IN  OverlapHeuristic(E, [i \in DOMAIN sess |->
                             IF i \in DOMAIN inferred THEN inferred[i] ELSE sess[i]], pref)

\* A conversation's id: the session, and the subagent's thread and number.
MainId(s) == <<s, "main", 0>>
IsSubagent(id) == id[2] # "main"

\* splitSessionIntoThreads: the conversation of an entry, NoSid for those left out.
ThreadOf(E, raw, i) ==
  LET mates == {j \in DOMAIN raw : raw[j] = raw[i]}
      client == DetectClientFromEntries(E, mates)
      alike == {j \in mates : ClassifyThread(client, E[j]) = "subagent" /\ E[j].row.sys = E[i].row.sys}
  IN  CASE ClassifyThread(client, E[i]) = "main" -> MainId(raw[i])
        [] ClassifyThread(client, E[i]) = "subagent" ->
             <<raw[i], E[i].row.sys, SplitInvocations(client, E, alike)[i]>>
        [] OTHER -> NoSid

\* remapOpenAISubagents: the sessions that an OpenAI main session names in
\* task results become its numbered subagents.
TaskSids(E, ids) == FlattenSeq([k \in 1 .. Cardinality(ids) |-> E[SetToSortSeq(ids, <)[k]].row.refs])
IsOpenAI(E, ids) == \E i \in ids : E[i].row.api \in {"openai", "wsreq", "wsresp", "chat"}

\* The main sessions that name the session of id.
ParentsOf(E, groups, id) ==
  {m \in DOMAIN groups : /\ m # id /\ ~IsSubagent(m) /\ IsOpenAI(E, groups[m])
                         /\ \E i \in groups[m] : id[1] \in Range(E[i].row.refs)}

\* The place of id among the subagents of m that are there.
SubagentNumber(E, groups, m, id) ==
  LET tasks == TaskSids(E, groups[m])
      at(s) == Min({k \in DOMAIN tasks : tasks[k] = s})
      ranked == SetToSortSeq({o \in DOMAIN groups : o # m /\ o[1] \in Range(tasks)},
                             LAMBDA a, b : at(a[1]) < at(b[1]))
  IN  Min({k \in DOMAIN ranked : ranked[k] = id})

Renamed(E, groups, id) ==
  LET m == CHOOSE m \in ParentsOf(E, groups, id) : TRUE
  IN  IF ParentsOf(E, groups, id) = {} THEN id ELSE <<m[1], "subagent", SubagentNumber(E, groups, m, id)>>

RemapOpenAISubagents(E, groups) ==
  [new \in {Renamed(E, groups, id) : id \in DOMAIN groups} |->
     UNION {groups[id] : id \in {o \in DOMAIN groups : Renamed(E, groups, o) = new}}]

GroupBySession(E, sess, pref) ==
  LET raw == RawSessions(E, sess, pref)
      thread == [i \in DOMAIN raw |-> ThreadOf(E, raw, i)]
  IN  RemapOpenAISubagents(E, [id \in Range(thread) \ {NoSid} |-> {i \in DOMAIN raw : thread[i] = id}])

\* extractReferencedSubagentSessions: only OpenCode's strategy finds any.
ExtractReferenced(E, ids, known) ==
  IF ids # {} /\ DetectClientFromEntries(E, ids) = "opencode"
  THEN UNION {Range(E[i].row.refs) : i \in ids} \ known ELSE {}
------------------------------------------------------------------------------
(* Turns.                                                                  *)

\* Prompts that a person wrote: neither scaffolding nor tool results.
IsRealUserMessage(m) == m = "user"
Prompts(msgs) == {k \in DOMAIN msgs : IsRealUserMessage(msgs[k])}
Texts(msgs) == {m \in Range(msgs) : m \notin {"user", "noise", "call", "output", "system"}}

InOrder(ids) == SetToSortSeq(ids, <)

\* Frames carry only what is new: the conversation is all of them in a row.
AggregateWSMessages(E, ids) ==
  FlattenSeq([k \in 1 .. Cardinality(ids) |->
    LET e == E[InOrder(ids)[k]]
    IN  e.res.msgs \o IF e.res.reply # NoSid THEN <<e.res.reply>> ELSE <<>>])

IsIncrementalWS(E, ids) == \E i \in ids : E[i].row.api \in WebSocketApis

Parseable(E, ids) == {i \in ids : Count(E, i) > 0}

\* What the turns are read from: the last request that could be parsed.
MessagesOf(E, ids) ==
  IF IsIncrementalWS(E, ids) THEN AggregateWSMessages(E, ids)
                             ELSE E[Max(Parseable(E, ids))].res.msgs

\* buildRoundsFromMessages: from a prompt to the next; the assistant's texts.
BuildRounds(msgs) ==
  LET starts == InOrder(Prompts(msgs))
      end(r) == IF r < Len(starts) THEN starts[r + 1] - 1 ELSE Len(msgs)
  IN  [r \in DOMAIN starts |-> Texts(SubSeq(msgs, starts[r] + 1, end(r)))]

\* A request belongs to the turn it has prompts for; one without messages to
\* the turn before or after it, whichever is later.
MapRequestsToTurns(E, ids, turns) ==
  LET known == Parseable(E, ids)
      own(i) == Cardinality(Prompts(E[i].res.msgs))
      prev(i) == IF {j \in known : j < i} = {} THEN 0 ELSE own(Max({j \in known : j < i}))
      next(i) == IF {j \in known : j > i} = {} THEN turns ELSE own(Min({j \in known : j > i}))
      turn(i) == IF i \in known THEN own(i) ELSE IF prev(i) > next(i) THEN prev(i) ELSE next(i)
  IN  [r \in 1 .. turns |-> {i \in ids : turn(i) = r}]

\* The last answer, which no request repeats yet, is added to the last turn:
\* the latest one whose text is not there.
RecoverLastResponse(E, ids, rounds) ==
  LET last == Len(rounds)
      fresh == {i \in ids : E[i].res.reply # NoSid /\ E[i].res.reply \notin rounds[last]}
  IN  IF last = 0 \/ IsIncrementalWS(E, ids) \/ fresh = {} THEN rounds
      ELSE [rounds EXCEPT ![last] = @ \cup {E[Max(fresh)].res.reply}]

\* assembleConversation: the row and its turns.
AssembleConversation(E, id, ids) ==
  LET rounds == IF Parseable(E, ids) = {} THEN <<>>
                ELSE RecoverLastResponse(E, ids, BuildRounds(MessagesOf(E, ids)))
      reqs == MapRequestsToTurns(E, ids, Len(rounds))
  IN  [txns |-> ids, count |-> Len(rounds), incomplete |-> Parseable(E, ids) = {},
       parent |-> IF IsSubagent(id) THEN MainId(id[1]) ELSE NoSid,
       turns |-> [r \in 1 .. Len(rounds) |-> [reqs |-> reqs[r], texts |-> rounds[r]]]]

\* linkSubagentConversations: those assembled in the same pass.
LinkSubagents(id, ids) == IF IsSubagent(id) THEN {} ELSE {s \in ids : IsSubagent(s) /\ s[1] = id[1]}
=============================================================================
