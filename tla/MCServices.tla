------------------------------ MODULE MCServices ------------------------------
(***************************************************************************)
(* The instance of the parts that run by themselves beside the exchanges:  *)
(* the middleware client, the conversation assembler, the proxy engine and *)
(* the SOCKS5 handler.  They share no state with each other, so one run    *)
(* checks them side by side: "part" says which of them a behaviour is      *)
(* about.  The others stay as they are before their first step, or         *)
(* switched off where their first step needs nobody.                       *)
(***************************************************************************)
EXTENDS MiddlewareClient, Conversations, Engine, Socks

CONSTANTS s1, s2, s3, r1

VARIABLE part

\* The middleware denies when it cannot be asked.
MCPolicy == [c \in Clients |-> "deny"]

\* Transactions of the built-in endpoints and of one nobody knows, of a main
\* thread, a subagent and a utility call, one of them with a body cut off.
Row == [api |-> "anthropic", client |-> "claude-code", key |-> s1, body |-> "full", items |-> <<"user">>,
        reply |-> NoSid, refs |-> <<>>, sys |-> "long", tools |-> "manage", at |-> 0,
        form |-> "events", asked |-> TRUE]

MCRows == {
  [Row EXCEPT !.items = <<"user", r1, "user">>, !.reply = r1],
  [Row EXCEPT !.sys = "mid"],
  [Row EXCEPT !.key = NoSid, !.body = "broken", !.sys = "none", !.tools = "none", !.at = 1],
  [Row EXCEPT !.api = "wsreq", !.client = "codex", !.key = s3],
  [Row EXCEPT !.api = "wsresp", !.client = "generic", !.key = NoSid, !.items = <<>>, !.reply = r1,
              !.tools = "none", !.sys = "none"],
  [Row EXCEPT !.api = "openai", !.client = "opencode", !.refs = <<s2>>],
  [Row EXCEPT !.api = "openai", !.client = "opencode", !.key = s2, !.tools = "few"],
  [Row EXCEPT !.api = "custom", !.client = "opencode", !.key = NoSid, !.form = "data", !.reply = r1],
  [Row EXCEPT !.api = "google", !.client = "generic", !.form = "json", !.asked = FALSE, !.reply = r1]}

MCServiceOrder == <<"http">>
MCPluginOrder == <<"admission", "bypass">>

\* With and without credentials, TLS, BIND and UDP; a client that does not wait
\* for the reply; a user name longer than its length byte can say.
Plain == [auther |-> TRUE, noTLS |-> TRUE, bind |-> TRUE, udp |-> TRUE, muxOk |-> TRUE, user |-> 1,
          wantTLS |-> FALSE, eager |-> FALSE]

MCSocksConfs == {
  Plain,
  [Plain EXCEPT !.eager = TRUE, !.auther = FALSE],
  [Plain EXCEPT !.noTLS = FALSE, !.wantTLS = TRUE, !.muxOk = FALSE],
  [Plain EXCEPT !.user = 256],
  [Plain EXCEPT !.bind = FALSE, !.udp = FALSE],
  [Plain EXCEPT !.auther = FALSE, !.noTLS = FALSE, !.wantTLS = TRUE, !.user = 0]}
------------------------------------------------------------------------------
\* The engine and the assembler start by themselves; here they do not.
EngineOff ==
  /\ up = "stopped"
  /\ plugins = {} /\ inst = <<>> /\ services = [s \in ServiceNames |-> 0]
  /\ task = [t \in Tasks |-> IdleTask]
  /\ hup = FALSE /\ saw = {} /\ debounce = FALSE /\ mtime = 0
  /\ file = [f \in {"cert", "key"} |-> [gen |-> 0, whole |-> TRUE]]
  /\ visit = [v \in Visitors |-> "none"]
  /\ trouble = [why |-> {}, reloads |-> 0]

AssemblerOff ==
  /\ txns = <<>> /\ convs = EmptyFcn /\ turnRows = EmptyFcn /\ link = <<>> /\ cursor = 0
  /\ version = "current" /\ tracking = FALSE /\ endpointRule = NoSid
  /\ loop = "run" /\ events = 0 /\ timer = FALSE /\ trigger = FALSE /\ job = NoJob
  /\ missed = FALSE /\ lost = {} /\ torn = {} /\ unstored = {} /\ wiped = FALSE
  /\ cvBound = [requests |-> 0, crashes |-> 0]

ServicesInit ==
  /\ part \in {"client", "conversations", "engine", "socks"}
  /\ ClientInit /\ SocksInit
  /\ part # "socks" => conf = Plain
  /\ IF part = "engine" THEN EngineInit ELSE EngineOff
  /\ IF part = "conversations" THEN ConversationsInit ELSE AssemblerOff

allVars == <<part, clientVars, conversationVars, engineVars, socksVars>>

\* A step of one part.
Only(p) ==
  /\ part = p /\ UNCHANGED part
  /\ p # "client" => UNCHANGED clientVars
  /\ p # "conversations" => UNCHANGED conversationVars
  /\ p # "engine" => UNCHANGED engineVars
  /\ p # "socks" => UNCHANGED socksVars

ServicesStep ==
  \/ Only("client") /\ ClientNext
  \/ Only("conversations") /\ ConversationsNext
  \/ Only("engine") /\ EngineNext
  \/ Only("socks") /\ SocksNext

\* The fairness of the part that runs.
ServicesFairness ==
  /\ \A p \in Procs : WF_clientVars(part = "client" /\ SendGoesOn(p))
  /\ \A c \in Clients : WF_clientVars(part = "client" /\ StartGoesOn(c))
  /\ []<>(job.pc = "none")
  /\ WF_conversationVars(part = "conversations" /\ LoopStep)
  /\ \A t \in Tasks : WF_engineVars(part = "engine" /\ LoadStep(t))
  /\ WF_engineVars(part = "engine" /\ TimerFires)
  /\ WF_engineVars(part = "engine" /\ WriterGoesOn)
  /\ WF_socksVars(part = "socks" /\ HandlerStep)

ServicesSpec == ServicesInit /\ [][ServicesStep]_allVars /\ ServicesFairness
=============================================================================
