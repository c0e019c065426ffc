-------------------------- MODULE MiddlewareClient --------------------------
(***************************************************************************)
(* The client of an external middleware: Client.Start keeps one connection *)
(* alive and hands the decisions it reads to the Sends that wait for them. *)
(*                                                                         *)
(* Three kinds of actors meet at the map pending and its lock: the Sends,  *)
(* one per asking process; the read loop, which takes an entry under the   *)
(* lock and fills the entry's channel (of capacity one) without it; and    *)
(* drainPending, which fills the channels of all entries while it holds    *)
(* the lock.  The middleware answers late, twice, out of order or never,   *)
(* stops reading, and dies at any time.                                    *)
(***************************************************************************)
EXTENDS Naturals

CONSTANTS
  Clients,      \* configured middlewares
  Procs,        \* processes that call Send
  MaxSends,     \* bound: Sends of a process
  MaxDials,     \* bound: successful dials of a client
  MaxFaults,    \* bound: failures of connections and writes
  Replies,      \* actions a middleware may answer with
  Policy,       \* on_disconnect of each client
  None

ASSUME ClientAssumption ==
  /\ MaxSends \in Nat /\ MaxDials \in Nat /\ MaxFaults \in Nat
  /\ Policy \in [Clients -> {"allow", "deny"}]
  /\ None \notin Replies

VARIABLES
  conn,         \* Start's connection: its stage and the number of dials so far
  stalled,      \* the middleware does not read: a write blocks
  ready,        \* some hello exchange has completed
  toMw,         \* the questions written on the connection
  pending,      \* Client.pending
  reader,       \* the entry and decision the read loop holds, if any
  ch,           \* the channels of the Sends
  ask,          \* the Send of each process
  n,            \* NewID: the number of Sends of each process
  said,         \* what the middleware said to a process's latest question
  answer,       \* what Send returned for it
  faults        \* counter for the bound

clientVars == <<conn, stalled, ready, toMw, pending, reader, ch, ask, n, said, answer, faults>>
Ids == Procs \X (1 .. MaxSends)
IdOf(p) == <<p, n[p]>>

Decision == [action : Replies \cup {"allow", "deny", "block", "passthrough"}, fallback : BOOLEAN]
Stages == {"down", "dialed", "greeting", "up", "closing", "draining"}
\* nil is neither a decision nor an entry.
ASSUME NoneAssumption == None \notin Decision \cup [id : Ids, d : Decision]

Sending == [st : {"idle", "registered", "waiting"}, c : Clients \cup {None}, via : Nat, resp : BOOLEAN]
NoSend == [st |-> "idle", c |-> None, via |-> 0, resp |-> FALSE]

\* c.transport # nil: from the dial, before the hello, until after Close.
Attached(c) == conn[c].st \in {"dialed", "greeting", "up", "closing"}
\* The transport itself takes writes.
Open(c, gen) == conn[c].gen = gen /\ conn[c].st \in {"dialed", "greeting", "up"}

\* drainPending sends on full channels while it holds the lock: nobody gets it.
Locked(c) == conn[c].st = "draining" /\ \E id \in pending[c] : ch[id] # None

\* Mutant: a response is defaulted like a request.
fallbackAsRequest(c, resp) ==
  [fallback |-> TRUE, action |-> IF Policy[c] = "allow" THEN "allow" ELSE "deny"]

fallback(c, resp) ==
  [fallback |-> TRUE,
   action |-> IF Policy[c] = "allow" THEN IF resp THEN "passthrough" ELSE "allow"
                                     ELSE IF resp THEN "block" ELSE "deny"]

Stage(c, st) == conn' = [conn EXCEPT ![c].st = st]
Fault == faults < MaxFaults /\ faults' = faults + 1
------------------------------------------------------------------------------
(* Send.                                                                   *)

\* One critical section: the transport is looked up and the entry made.
Register(p, c, resp) ==
  /\ ask[p].st = "idle" /\ n[p] < MaxSends /\ ~Locked(c)
  /\ n' = [n EXCEPT ![p] = @ + 1]
  /\ pending' = [pending EXCEPT ![c] = @ \cup {<<p, n[p] + 1>>}]
  /\ ask' = [ask EXCEPT ![p] = [st |-> "registered", c |-> c, resp |-> resp,
                                via |-> IF Attached(c) THEN conn[c].gen ELSE 0]]
  /\ said' = [said EXCEPT ![p] = None]
  /\ answer' = [answer EXCEPT ![p] = None]
  /\ UNCHANGED <<conn, stalled, ready, toMw, reader, ch, faults>>

Return(p, d) ==
  /\ answer' = [answer EXCEPT ![p] = d]
  /\ ask' = [ask EXCEPT ![p] = NoSend]

\* Mutant: the entry stays.
ReturnDefaultUncleaned(p) ==
  /\ ~Locked(ask[p].c)
  /\ Return(p, fallback(ask[p].c, ask[p].resp))
  /\ UNCHANGED pending

\* cleanup, and the default decision.
ReturnDefault(p) ==
  /\ ~Locked(ask[p].c)
  /\ pending' = [pending EXCEPT ![ask[p].c] = @ \ {IdOf(p)}]
  /\ Return(p, fallback(ask[p].c, ask[p].resp))

WriteMessage(p) ==
  /\ ask[p].st = "registered"
  /\ Open(ask[p].c, ask[p].via) /\ ~stalled[ask[p].c]
  /\ toMw' = [toMw EXCEPT ![ask[p].c] = @ \cup {IdOf(p)}]
  /\ ask' = [ask EXCEPT ![p].st = "waiting"]
  /\ UNCHANGED <<conn, stalled, ready, pending, reader, ch, n, said, answer, faults>>

\* No transport, a transport that was closed since, or a failed write.
SendFails(p) ==
  /\ ask[p].st = "registered"
  /\ \/ ~Open(ask[p].c, ask[p].via) /\ UNCHANGED faults
     \/ Open(ask[p].c, ask[p].via) /\ Fault
  /\ ReturnDefault(p)
  /\ UNCHANGED <<conn, stalled, ready, toMw, reader, ch, n, said>>

Receive(p) ==
  /\ ask[p].st = "waiting"
  /\ ch[IdOf(p)] # None
  /\ Return(p, ch[IdOf(p)])
  /\ ch' = [ch EXCEPT ![IdOf(p)] = None]
  /\ UNCHANGED <<conn, stalled, ready, toMw, pending, reader, n, said, faults>>

\* Mutant: the select has no timer.
GiveUpNever(p) == FALSE /\ UNCHANGED clientVars

\* The timer, or the end of the request's context.
GiveUp(p) ==
  /\ ask[p].st = "waiting"
  /\ ReturnDefault(p)
  /\ UNCHANGED <<conn, stalled, ready, toMw, reader, ch, n, said, faults>>
------------------------------------------------------------------------------
(* Start and connectAndRun: one connection after the other.                *)

Dial(c) ==
  /\ conn[c].st = "down" /\ conn[c].gen < MaxDials
  /\ conn' = [conn EXCEPT ![c] = [st |-> "dialed", gen |-> @.gen + 1]]
  /\ toMw' = [toMw EXCEPT ![c] = {}]
  /\ stalled' = [stalled EXCEPT ![c] = FALSE]
  /\ UNCHANGED <<ready, pending, reader, ch, ask, n, said, answer, faults>>

\* The loop drains after every attempt, a failed dial too.
DialFails(c) ==
  /\ conn[c].st = "down"
  /\ Stage(c, "draining")
  /\ UNCHANGED <<stalled, ready, toMw, pending, reader, ch, ask, n, said, answer, faults>>

SayHello(c) ==
  /\ conn[c].st = "dialed" /\ ~stalled[c]
  /\ Stage(c, "greeting")
  /\ UNCHANGED <<stalled, ready, toMw, pending, reader, ch, ask, n, said, answer, faults>>

\* The first frame is a hello with a version both sides speak.
Greet(c) ==
  /\ conn[c].st = "greeting"
  /\ Stage(c, "up")
  /\ ready' = [ready EXCEPT ![c] = TRUE]
  /\ UNCHANGED <<stalled, toMw, pending, reader, ch, ask, n, said, answer, faults>>

\* It is not: the middleware answers a Send that wrote in between.
DecisionBeforeHello(c) ==
  /\ conn[c].st = "greeting" /\ toMw[c] # {}
  /\ Stage(c, "closing")
  /\ UNCHANGED <<stalled, ready, toMw, pending, reader, ch, ask, n, said, answer, faults>>

\* The hello fails or times out, or the read loop meets an error.
Lost(c) ==
  /\ conn[c].st \in {"dialed", "greeting", "up"} /\ reader[c] = None
  /\ Fault
  /\ Stage(c, "closing")
  /\ UNCHANGED <<stalled, ready, toMw, pending, reader, ch, ask, n, said, answer>>

\* Mutant: the loop goes back to dialling without drainPending.
DetachUndrained(c) ==
  /\ conn[c].st = "closing"
  /\ Stage(c, "down")
  /\ UNCHANGED <<stalled, ready, toMw, pending, reader, ch, ask, n, said, answer, faults>>

Detach(c) ==
  /\ conn[c].st = "closing"
  /\ Stage(c, "draining")
  /\ UNCHANGED <<stalled, ready, toMw, pending, reader, ch, ask, n, said, answer, faults>>

\* drainPending: every entry gets its default and goes; then the loop waits.
Drain(c) ==
  /\ conn[c].st = "draining" /\ ~Locked(c)
  /\ ch' = [id \in Ids |-> IF id \in pending[c] THEN fallback(c, ask[id[1]].resp) ELSE ch[id]]
  /\ pending' = [pending EXCEPT ![c] = {}]
  /\ Stage(c, "down")
  /\ UNCHANGED <<stalled, ready, toMw, reader, ask, n, said, answer, faults>>

\* The middleware's own word.
Word(a) == [action |-> a, fallback |-> FALSE]

Hold(c, id, a) ==
  /\ conn[c].st = "up" /\ reader[c] = None
  /\ id \in toMw[c] \cap pending[c]
  /\ said[id[1]] \in {None, a}
  /\ said' = [said EXCEPT ![id[1]] = a]
  /\ reader' = [reader EXCEPT ![c] = [id |-> id, d |-> Word(a)]]
  /\ UNCHANGED <<conn, stalled, ready, toMw, ch, ask, n, answer, faults>>

\* Mutant: the entry is looked up and left in the map.
TakeAndLeave(c, id, a) == Hold(c, id, a) /\ UNCHANGED pending

\* A decision is read and its entry taken under the lock.  A decision without
\* an entry, late or repeated, is dropped and changes nothing.
Take(c, id, a) ==
  /\ Hold(c, id, a)
  /\ pending' = [pending EXCEPT ![c] = @ \ {id}]

\* entry.ch <- d, which blocks the read loop if the channel is full.
Deliver(c) ==
  /\ reader[c] # None
  /\ ch[reader[c].id] = None
  /\ ch' = [ch EXCEPT ![reader[c].id] = reader[c].d]
  /\ reader' = [reader EXCEPT ![c] = None]
  /\ UNCHANGED <<conn, stalled, ready, toMw, pending, ask, n, said, answer, faults>>

\* The middleware stops reading and keeps the connection.
Stall(c) ==
  /\ ~stalled[c] /\ conn[c].st \in {"dialed", "greeting", "up"}
  /\ Fault
  /\ stalled' = [stalled EXCEPT ![c] = TRUE]
  /\ UNCHANGED <<conn, ready, toMw, pending, reader, ch, ask, n, said, answer>>
------------------------------------------------------------------------------
ClientInit ==
  /\ conn = [c \in Clients |-> [st |-> "down", gen |-> 0]]
  /\ stalled = [c \in Clients |-> FALSE]
  /\ ready = [c \in Clients |-> FALSE]
  /\ toMw = [c \in Clients |-> {}]
  /\ pending = [c \in Clients |-> {}]
  /\ reader = [c \in Clients |-> None]
  /\ ch = [id \in Ids |-> None]
  /\ ask = [p \in Procs |-> NoSend]
  /\ n = [p \in Procs |-> 0]
  /\ said = [p \in Procs |-> None]
  /\ answer = [p \in Procs |-> None]
  /\ faults = 0

SendStep(p) == WriteMessage(p) \/ SendFails(p) \/ Receive(p) \/ GiveUp(p)

ReadStep(c) == Deliver(c) \/ \E id \in Ids, a \in Replies : Take(c, id, a)

ConnStep(c) ==
  \/ Dial(c) \/ DialFails(c) \/ SayHello(c) \/ Greet(c) \/ DecisionBeforeHello(c)
  \/ Lost(c) \/ Detach(c) \/ Drain(c) \/ Stall(c)

ClientStep ==
  \/ \E p \in Procs : SendStep(p)
  \/ \E c \in Clients : ConnStep(c) \/ ReadStep(c)

\* The client by itself, with processes that call Send at any time.
ClientNext ==
  \/ ClientStep
  \/ \E p \in Procs, c \in Clients, resp \in BOOLEAN : Register(p, c, resp)

ClientSpec == ClientInit /\ [][ClientNext]_clientVars

\* Goroutines run, a timer fires, and the loop of Start goes on after an error.
\* Nothing is assumed of the middleware, or of a connection coming up.
SendGoesOn(p) == WriteMessage(p) \/ (SendFails(p) /\ UNCHANGED faults) \/ Receive(p) \/ GiveUp(p)

StartGoesOn(c) == Detach(c) \/ Drain(c)

ClientFairness ==
  /\ \A p \in Procs : WF_clientVars(SendGoesOn(p))
  /\ \A c \in Clients : WF_clientVars(StartGoesOn(c))
------------------------------------------------------------------------------
(* Properties.                                                             *)

(* Type correctness of the client.                                         *)
ClientTypeOK ==
  /\ conn \in [Clients -> [st : Stages, gen : Nat]]
  /\ stalled \in [Clients -> BOOLEAN] /\ ready \in [Clients -> BOOLEAN]
  /\ toMw \in [Clients -> SUBSET Ids] /\ pending \in [Clients -> SUBSET Ids]
  /\ reader \in [Clients -> [id : Ids, d : Decision] \cup {None}]
  /\ ch \in [Ids -> Decision \cup {None}]
  /\ ask \in [Procs -> Sending]
  /\ n \in [Procs -> 0 .. MaxSends]
  /\ said \in [Procs -> Replies \cup {None}]
  /\ answer \in [Procs -> Decision \cup {None}]
  /\ faults \in Nat

(* No send on a channel ever blocks: neither the read loop nor drainPending *)
(* (which would keep the lock) meets a full channel, whatever is answered  *)
(* late, twice or during a reconnect.                                      *)
NeverBlocks ==
  \A c \in Clients :
    /\ \A id \in pending[c] : ch[id] = None
    /\ reader[c] # None => ch[reader[c].id] = None

(* Nothing leaks: an entry of pending, and one the read loop has taken,    *)
(* belongs to a Send that still waits, or was given up between the take and *)
(* the delivery.                                                           *)
NoLeak ==
  \A c \in Clients :
    /\ \A id \in pending[c] : ask[id[1]].st # "idle" /\ ask[id[1]].c = c /\ id = IdOf(id[1])
    /\ reader[c] # None => reader[c].id \notin pending[c]

(* A Send whose connection is gone does not sit out its timer: its answer  *)
(* is in its channel, or its entry is there for the drain that is coming.  *)
DrainReaches ==
  \A p \in Procs : ask[p].st = "waiting" =>
    LET c == ask[p].c
    IN  \/ Open(c, ask[p].via)
        \/ ch[IdOf(p)] # None
        \/ IdOf(p) \in pending[c] /\ conn[c].gen = ask[p].via
           /\ conn[c].st \in {"closing", "draining"}

(* Every Send returns, whatever the connection does, unless the middleware *)
(* keeps the connection and stops reading: the timer only starts after the *)
(* write, and the write has no deadline.                                   *)
SendReturns ==
  \A p \in Procs : []<>(ask[p].st = "idle" \/ stalled[ask[p].c])

\* The question a process has open, as DecisionService sees it.
OpenQuestion == [p \in Procs |-> [open |-> ask[p].st # "idle", c |-> ask[p].c, resp |-> ask[p].resp]]

Service == INSTANCE DecisionService WITH q <- OpenQuestion

(* The client implements DecisionService: whatever the connection does,    *)
(* each Send returns once, with the middleware's word on that very message *)
(* or the default of on_disconnect for its kind.                           *)
ImplementsService == Service!ServiceSpec
=============================================================================
