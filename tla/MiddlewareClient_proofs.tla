----------------------- MODULE MiddlewareClient_proofs -----------------------
(***************************************************************************)
(* Proofs about MiddlewareClient, for any number of middlewares, processes *)
(* and Sends.                                                              *)
(***************************************************************************)
EXTENDS MiddlewareClient, TLAPS

\* A Send that has not returned names a client and has its number, and nothing
\* was returned for it.
SendsSound ==
  \A p \in Procs : ask[p].st # "idle" =>
    /\ ask[p].c \in Clients /\ n[p] \in 1 .. MaxSends
    /\ answer[p] = None
    /\ ask[p].via <= conn[ask[p].c].gen

\* An entry is that of a Send that has not returned and was not answered.
EntriesSound ==
  \A c \in Clients : \A id \in pending[c] :
    /\ ask[id[1]].st # "idle" /\ ask[id[1]].c = c /\ id = IdOf(id[1])
    /\ said[id[1]] = None /\ ch[id] = None

\* What the read loop holds is in no map and in no other read loop, and while
\* its Send waits it is the middleware's word on that Send's message.
ReaderSound ==
  \A c \in Clients : reader[c] # None =>
    /\ reader[c].id[2] <= n[reader[c].id[1]]
    /\ conn[c].st = "up"
    /\ ch[reader[c].id] = None
    /\ \A x \in Clients : reader[c].id \notin pending[x]
    /\ \A x \in Clients \ {c} : reader[x] # None => reader[x].id # reader[c].id
    /\ reader[c].id = IdOf(reader[c].id[1]) /\ ask[reader[c].id[1]].st # "idle" =>
         /\ ask[reader[c].id[1]].c = c
         /\ said[reader[c].id[1]] \in Replies
         /\ reader[c].d = Word(said[reader[c].id[1]])

\* A full channel belongs to a Send that was made, and holds the middleware's
\* word on it or its default.
ChannelsSound ==
  \A id \in Ids : ch[id] # None =>
    /\ id[2] <= n[id[1]]
    /\ id = IdOf(id[1]) /\ ask[id[1]].st # "idle" =>
         \/ /\ said[id[1]] \in Replies
            /\ ch[id] = Word(said[id[1]])
         \/ ch[id] = fallback(ask[id[1]].c, ask[id[1]].resp)

\* Only questions that were asked are on the wire.
WireSound ==
  \A c \in Clients : \A id \in toMw[c] :
    /\ id[2] <= n[id[1]]
    /\ id = IdOf(id[1]) => ask[id[1]].st # "registered"

\* Until its connection is detached a Send that has yet to write has its entry.
RegisteredSound ==
  \A p \in Procs : ask[p].st = "registered" =>
    (conn[ask[p].c].gen = ask[p].via /\ Attached(ask[p].c) => IdOf(p) \in pending[ask[p].c])

\* A Send that waits has its answer, or the read loop has it, or its entry is
\* there and the connection it was written on has not been drained.
WaitingSound ==
  \A p \in Procs : ask[p].st = "waiting" =>
    \/ ch[IdOf(p)] # None
    \/ /\ conn[ask[p].c].gen = ask[p].via
       /\ \/ /\ IdOf(p) \in pending[ask[p].c]
             /\ conn[ask[p].c].st # "down"
          \/ /\ reader[ask[p].c] # None
             /\ reader[ask[p].c].id = IdOf(p)

\* A connection that was dialed has a number above zero.
DialsSound == \A c \in Clients : Attached(c) => conn[c].gen > 0

ClientInv ==
  /\ ClientTypeOK
  /\ SendsSound /\ EntriesSound /\ ReaderSound /\ ChannelsSound
  /\ WireSound /\ RegisteredSound /\ WaitingSound /\ DialsSound
------------------------------------------------------------------------------
\* An id is a process and a number, IdOf gives back both.
LEMMA IdsPairs ==
  /\ \A id \in Ids : id[1] \in Procs /\ id[2] \in 1 .. MaxSends /\ id = <<id[1], id[2]>>
  /\ \A p \in Procs : IdOf(p) = <<p, n[p]>> /\ IdOf(p)[1] = p /\ IdOf(p)[2] = n[p]
BY DEF Ids, IdOf

\* What the read loop holds is an entry and a decision.
LEMMA ReaderType ==
  ASSUME ClientTypeOK, NEW c \in Clients, reader[c] # None
  PROVE  reader[c].id \in Ids /\ reader[c].d \in Decision
BY DEF ClientTypeOK

\* A default is a decision.
LEMMA FallbackType ==
  ASSUME NEW c \in Clients, NEW resp \in BOOLEAN
  PROVE  fallback(c, resp) \in Decision /\ fallback(c, resp) # None
<1>1. fallback(c, resp) \in Decision
  BY DEF fallback, Decision
<1>2. QED
  BY <1>1, NoneAssumption

\* Send registers under a new number, which no channel and no reader has seen.
LEMMA RegisterKeeps ==
  ASSUME ClientInv, NEW p \in Procs, NEW c \in Clients, NEW resp \in BOOLEAN, Register(p, c, resp)
  PROVE  ClientInv'
<1>1. ClientTypeOK'
  <2>1. <<p, n[p] + 1>> \in Ids /\ n[p] + 1 \in 0 .. MaxSends
    BY ClientAssumption DEF ClientInv, ClientTypeOK, Register, Ids
  <2>2. ask'[p] \in Sending /\ ask' \in [Procs -> Sending]
    BY DEF ClientInv, ClientTypeOK, Register, Sending
  <2>3. pending' \in [Clients -> SUBSET Ids] /\ n' \in [Procs -> 0 .. MaxSends]
    BY <2>1 DEF ClientInv, ClientTypeOK, Register
  <2>4. said' \in [Procs -> Replies \cup {None}] /\ answer' \in [Procs -> Decision \cup {None}]
    BY DEF ClientInv, ClientTypeOK, Register
  <2>5. QED
    BY <2>2, <2>3, <2>4 DEF ClientInv, ClientTypeOK, Register
<1>2. SendsSound'
  BY IdsPairs, NoneAssumption, ClientAssumption DEF ClientInv, SendsSound, ClientTypeOK,
     Register, EntriesSound, IdOf
<1>3. EntriesSound'
  <2> SUFFICES ASSUME NEW x \in Clients, NEW i \in pending'[x]
               PROVE  /\ ask'[i[1]].st # "idle" /\ ask'[i[1]].c = x /\ i = IdOf(i[1])'
                      /\ said'[i[1]] = None /\ ch'[i] = None
    BY DEF EntriesSound
  <2>1. <<p, n[p] + 1>> \in Ids /\ n[p] \in Nat
    BY ClientAssumption DEF ClientInv, ClientTypeOK, Register, Ids
  <2>2. CASE i \in pending[x]
    <3>1. i \in Ids /\ i[1] \in Procs \ {p}
      BY <2>2, IdsPairs DEF ClientInv, ClientTypeOK, EntriesSound, Register
    <3>2. ask'[i[1]] = ask[i[1]] /\ said'[i[1]] = said[i[1]] /\ n'[i[1]] = n[i[1]] /\ ch' = ch
      BY <3>1 DEF ClientInv, ClientTypeOK, Register
    <3>3. QED
      BY <2>2, <3>1, <3>2 DEF ClientInv, EntriesSound, IdOf
  <2>3. CASE i \notin pending[x]
    <3>1. x = c /\ i = <<p, n[p] + 1>>
      BY <2>3 DEF ClientInv, ClientTypeOK, Register
    <3>2. i \in Ids /\ ~(i[2] <= n[i[1]])
      BY <2>1, <3>1
    <3>3. ch[i] = None
      BY <3>2 DEF ClientInv, ChannelsSound
    <3>4. QED
      BY <3>1, <3>3 DEF ClientInv, ClientTypeOK, Register, IdOf
  <2>4. QED
    BY <2>2, <2>3
<1>4. ReaderSound'
  <2> SUFFICES ASSUME NEW x \in Clients, reader[x] # None
               PROVE  LET i == reader[x].id
                      IN  /\ i[2] <= n'[i[1]]
                          /\ \A y \in Clients : i \notin pending'[y]
                          /\ i = IdOf(i[1])' /\ ask'[i[1]].st # "idle" =>
                               /\ ask'[i[1]].c = x
                               /\ said'[i[1]] \in Replies
                               /\ reader[x].d = Word(said'[i[1]])
    BY DEF ClientInv, ReaderSound, Register, IdOf
  <2> DEFINE i == reader[x].id
  <2>1. i \in Ids /\ i[1] \in Procs /\ i[2] \in Nat /\ i[2] <= n[i[1]] /\ n[p] \in Nat
    <3>1. ClientTypeOK /\ ReaderSound
      BY DEF ClientInv
    <3>2. i \in Ids
      BY <3>1, ReaderType
    <3>3. i[1] \in Procs /\ i[2] \in Nat /\ n[p] \in Nat
      BY <3>1, <3>2, IdsPairs DEF ClientTypeOK
    <3>4. i[2] <= n[i[1]]
      BY <3>1 DEF ReaderSound
    <3>5. QED
      BY <3>2, <3>3, <3>4
  <2>2. i # <<p, n[p] + 1>> /\ i[2] <= n'[i[1]]
    BY <2>1 DEF ClientInv, ClientTypeOK, Register
  <2>3. \A y \in Clients : i \notin pending'[y]
    BY <2>2 DEF ClientInv, ClientTypeOK, ReaderSound, Register
  <2>4. CASE i[1] = p
    <3>1. i # IdOf(i[1])'
      BY <2>1, <2>4 DEF ClientInv, ClientTypeOK, Register, IdOf
    <3>2. QED
      BY <2>2, <2>3, <3>1
  <2>5. CASE i[1] # p
    <3>1. ask'[i[1]] = ask[i[1]] /\ said'[i[1]] = said[i[1]] /\ n'[i[1]] = n[i[1]]
      BY <2>1, <2>5 DEF ClientInv, ClientTypeOK, Register
    <3>2. QED
      BY <2>2, <2>3, <3>1 DEF ClientInv, ReaderSound, IdOf
  <2>6. QED
    BY <2>4, <2>5
<1>5. ChannelsSound'
  BY IdsPairs DEF ClientInv, ChannelsSound, ClientTypeOK, IdOf, fallback, Register
<1>6. WireSound'
  BY IdsPairs DEF ClientInv, WireSound, ClientTypeOK, IdOf, Register
<1>7. RegisteredSound'
  BY DEF ClientInv, RegisteredSound, ClientTypeOK, IdOf, Attached, Register
<1>8. WaitingSound'
  BY DEF ClientInv, WaitingSound, IdOf, Register
<1>9. (DialsSound)'
  BY DEF ClientInv, DialsSound, Attached, Register
<1>10. QED
  BY <1>1, <1>2, <1>3, <1>4, <1>5, <1>6, <1>7, <1>8, <1>9 DEF ClientInv

\* The question is written: its entry is there, since its connection was not drained.
LEMMA WriteMessageKeeps ==
  ASSUME ClientInv, NEW p \in Procs, WriteMessage(p)
  PROVE  ClientInv'
<1>1. ClientTypeOK'
  <2>1. IdOf(p) \in Ids /\ ask[p].c \in Clients
    BY DEF ClientInv, SendsSound, WriteMessage, Ids, IdOf
  <2>2. toMw' \in [Clients -> SUBSET Ids]
    BY <2>1 DEF ClientInv, ClientTypeOK, WriteMessage
  <2>3. ask' \in [Procs -> Sending]
    BY DEF ClientInv, ClientTypeOK, WriteMessage, Sending
  <2>4. QED
    BY <2>2, <2>3 DEF ClientInv, ClientTypeOK, WriteMessage
<1>2. SendsSound'
  BY DEF ClientInv, SendsSound, WriteMessage
<1>3. EntriesSound'
  BY DEF ClientInv, EntriesSound, IdOf, WriteMessage
<1>4. ReaderSound'
  BY DEF ClientInv, ReaderSound, IdOf, WriteMessage
<1>5. ChannelsSound'
  BY DEF ClientInv, ChannelsSound, IdOf, fallback, WriteMessage
<1>6. WireSound'
  BY DEF ClientInv, WireSound, ClientTypeOK, IdOf, WriteMessage
<1>7. RegisteredSound'
  BY DEF ClientInv, RegisteredSound, IdOf, Attached, WriteMessage
<1>8. WaitingSound'
  <2> SUFFICES ASSUME NEW r \in Procs, ask'[r].st = "waiting"
               PROVE  \/ ch[IdOf(r)] # None
                      \/ /\ conn[ask'[r].c].gen = ask'[r].via
                         /\ \/ IdOf(r) \in pending[ask'[r].c] /\ conn[ask'[r].c].st # "down"
                            \/ reader[ask'[r].c] # None /\ reader[ask'[r].c].id = IdOf(r)
    BY DEF WaitingSound, WriteMessage, IdOf
  <2>1. CASE r = p
    <3>1. ask'[p].c = ask[p].c /\ ask'[p].via = ask[p].via
      BY DEF ClientInv, ClientTypeOK, WriteMessage, Sending
    <3>2. IdOf(p) \in pending[ask[p].c] /\ conn[ask[p].c].gen = ask[p].via /\ conn[ask[p].c].st # "down"
      BY DEF ClientInv, RegisteredSound, WriteMessage, Open, Attached
    <3>3. QED
      BY <2>1, <3>1, <3>2
  <2>2. CASE r # p
    <3>1. ask'[r] = ask[r]
      BY <2>2 DEF ClientInv, ClientTypeOK, WriteMessage
    <3>2. QED
      BY <3>1 DEF ClientInv, WaitingSound
  <2>3. QED
    BY <2>1, <2>2
<1>9. (DialsSound)'
  BY DEF ClientInv, DialsSound, Attached, WriteMessage
<1>10. QED
  BY <1>1, <1>2, <1>3, <1>4, <1>5, <1>6, <1>7, <1>8, <1>9 DEF ClientInv

\* The write fails: the entry goes with the Send.
LEMMA SendFailsKeeps ==
  ASSUME ClientInv, NEW p \in Procs, SendFails(p)
  PROVE  ClientInv'
<1>1. ClientTypeOK'
  <2>1. ask[p].c \in Clients /\ ask[p].resp \in BOOLEAN
    BY DEF ClientInv, ClientTypeOK, SendsSound, Sending, SendFails
  <2>2. answer' \in [Procs -> Decision \cup {None}]
    BY <2>1, FallbackType DEF ClientInv, ClientTypeOK, SendFails, ReturnDefault, Return
  <2>3. ask' \in [Procs -> Sending]
    BY DEF ClientInv, ClientTypeOK, SendFails, ReturnDefault, Return, NoSend, Sending
  <2>4. pending' \in [Clients -> SUBSET Ids]
    BY <2>1 DEF ClientInv, ClientTypeOK, SendFails, ReturnDefault
  <2>5. QED
    BY <2>2, <2>3, <2>4 DEF ClientInv, ClientTypeOK, SendFails, Fault
<1>2. SendsSound'
  BY DEF ClientInv, SendsSound, ClientTypeOK, SendFails, ReturnDefault, Return, Fault, NoSend
<1>3. EntriesSound'
  BY DEF ClientInv, EntriesSound, ClientTypeOK, IdOf, SendFails, ReturnDefault, Return, Fault,
     NoSend
<1>4. ReaderSound'
  BY DEF ClientInv, ReaderSound, IdOf, SendFails, ReturnDefault, Return, Fault, NoSend
<1>5. ChannelsSound'
  BY DEF ClientInv, ChannelsSound, ClientTypeOK, IdOf, fallback, SendFails, ReturnDefault,
     Return, Fault, NoSend
<1>6. WireSound'
  BY DEF ClientInv, WireSound, IdOf, SendFails, ReturnDefault, Return, Fault, NoSend
<1>7. RegisteredSound'
  BY DEF ClientInv, RegisteredSound, ClientTypeOK, IdOf, Attached, SendFails, ReturnDefault,
     Return, Fault, NoSend
<1>8. WaitingSound'
  BY DEF ClientInv, WaitingSound, IdOf, SendFails, ReturnDefault, Return, Fault, NoSend
<1>9. (DialsSound)'
  BY DEF ClientInv, DialsSound, Attached, Fault, SendFails
<1>10. QED
  BY <1>1, <1>2, <1>3, <1>4, <1>5, <1>6, <1>7, <1>8, <1>9 DEF ClientInv

\* The answer is received, and the channel is empty again.
LEMMA ReceiveKeeps ==
  ASSUME ClientInv, NEW p \in Procs, Receive(p)
  PROVE  ClientInv'
<1>1. ClientTypeOK'
  <2>1. IdOf(p) \in Ids
    BY DEF ClientInv, SendsSound, Receive, Ids, IdOf
  <2>2. ch' \in [Ids -> Decision \cup {None}] /\ answer' \in [Procs -> Decision \cup {None}]
    BY <2>1 DEF ClientInv, ClientTypeOK, Receive, Return
  <2>3. ask' \in [Procs -> Sending]
    BY DEF ClientInv, ClientTypeOK, Receive, Return, NoSend, Sending
  <2>4. QED
    BY <2>2, <2>3 DEF ClientInv, ClientTypeOK, Receive
<1>2. SendsSound'
  BY DEF ClientInv, SendsSound, ClientTypeOK, Receive, Return, NoSend
<1>3. EntriesSound'
  BY DEF ClientInv, EntriesSound, IdOf, Receive, Return, NoSend
<1>4. ReaderSound'
  BY DEF ClientInv, ReaderSound, IdOf, Receive, Return, NoSend
<1>5. ChannelsSound'
  BY IdsPairs DEF ClientInv, ChannelsSound, ClientTypeOK, IdOf, fallback, Receive, Return, NoSend
<1>6. WireSound'
  BY DEF ClientInv, WireSound, IdOf, Receive, Return, NoSend
<1>7. RegisteredSound'
  BY DEF ClientInv, RegisteredSound, IdOf, Attached, Receive, Return, NoSend
<1>8. WaitingSound'
  BY IdsPairs, NoneAssumption, ClientAssumption DEF ClientInv, WaitingSound, ClientTypeOK, IdOf,
     Receive, Return, NoSend, EntriesSound, SendsSound
<1>9. (DialsSound)'
  BY DEF ClientInv, DialsSound, Attached, Receive
<1>10. QED
  BY <1>1, <1>2, <1>3, <1>4, <1>5, <1>6, <1>7, <1>8, <1>9 DEF ClientInv

\* The timer fires: the entry goes with the Send, a late decision finds none.
LEMMA GiveUpKeeps ==
  ASSUME ClientInv, NEW p \in Procs, GiveUp(p)
  PROVE  ClientInv'
<1>1. ClientTypeOK'
  <2>1. ask[p].c \in Clients /\ ask[p].resp \in BOOLEAN
    BY DEF ClientInv, ClientTypeOK, SendsSound, Sending, GiveUp
  <2>2. answer' \in [Procs -> Decision \cup {None}]
    BY <2>1, FallbackType DEF ClientInv, ClientTypeOK, GiveUp, ReturnDefault, Return
  <2>3. ask' \in [Procs -> Sending]
    BY DEF ClientInv, ClientTypeOK, GiveUp, ReturnDefault, Return, NoSend, Sending
  <2>4. pending' \in [Clients -> SUBSET Ids]
    BY <2>1 DEF ClientInv, ClientTypeOK, GiveUp, ReturnDefault
  <2>5. QED
    BY <2>2, <2>3, <2>4 DEF ClientInv, ClientTypeOK, GiveUp
<1>2. SendsSound'
  BY DEF ClientInv, SendsSound, ClientTypeOK, GiveUp, ReturnDefault, Return, NoSend
<1>3. EntriesSound'
  BY DEF ClientInv, EntriesSound, ClientTypeOK, IdOf, GiveUp, ReturnDefault, Return, NoSend
<1>4. ReaderSound'
  BY DEF ClientInv, ReaderSound, IdOf, GiveUp, ReturnDefault, Return, NoSend
<1>5. ChannelsSound'
  BY DEF ClientInv, ChannelsSound, ClientTypeOK, IdOf, fallback, GiveUp, ReturnDefault, Return,
     NoSend
<1>6. WireSound'
  BY DEF ClientInv, WireSound, IdOf, GiveUp, ReturnDefault, Return, NoSend
<1>7. RegisteredSound'
  BY DEF ClientInv, RegisteredSound, IdOf, Attached, GiveUp, ReturnDefault, Return, NoSend
<1>8. WaitingSound'
  BY IdsPairs, NoneAssumption, ClientAssumption DEF ClientInv, WaitingSound, ClientTypeOK, IdOf,
     GiveUp, ReturnDefault, Return, NoSend, EntriesSound, SendsSound
<1>9. (DialsSound)'
  BY DEF ClientInv, DialsSound, Attached, GiveUp
<1>10. QED
  BY <1>1, <1>2, <1>3, <1>4, <1>5, <1>6, <1>7, <1>8, <1>9 DEF ClientInv

\* A new connection has a number that no Send has written on.
LEMMA DialKeeps ==
  ASSUME ClientInv, NEW c \in Clients, Dial(c)
  PROVE  ClientInv'
<1>1. ClientTypeOK'
  BY IdsPairs DEF ClientInv, ClientTypeOK, Dial, Stages, Decision, Sending
<1>2. SendsSound'
  <2>1. \A x \in Clients : conn[x].gen \in Nat /\ conn'[x].gen \in Nat /\ conn[x].gen <= conn'[x].gen
    BY DEF ClientInv, ClientTypeOK, Dial
  <2>2. \A r \in Procs : ask[r].via \in Nat
    BY DEF ClientInv, ClientTypeOK, Sending
  <2>3. QED
    BY <2>1, <2>2 DEF ClientInv, SendsSound, Dial
<1>3. ReaderSound'
  BY DEF ClientInv, ReaderSound, IdOf, Dial
<1>4. WireSound'
  BY DEF ClientInv, WireSound, IdOf, Dial
<1>5. RegisteredSound'
  <2> SUFFICES ASSUME NEW r \in Procs, ask[r].st = "registered",
                      conn'[ask[r].c].gen = ask[r].via, Attached(ask[r].c)'
               PROVE  IdOf(r) \in pending[ask[r].c]
    BY DEF RegisteredSound, Dial, IdOf
  <2>1. ask[r].c \in Clients /\ ask[r].via <= conn[ask[r].c].gen /\ ask[r].via \in Nat
    BY DEF ClientInv, ClientTypeOK, SendsSound, Sending
  <2>2. ask[r].c # c
    BY <2>1 DEF ClientInv, ClientTypeOK, Dial
  <2>3. conn'[ask[r].c] = conn[ask[r].c]
    BY <2>1, <2>2 DEF ClientInv, ClientTypeOK, Dial
  <2>4. QED
    <3>1. Attached(ask[r].c) /\ conn[ask[r].c].gen = ask[r].via
      BY <2>3 DEF Attached, Dial
    <3>2. QED
      BY <3>1 DEF ClientInv, RegisteredSound
<1>6. WaitingSound'
  <2> SUFFICES ASSUME NEW r \in Procs, ask[r].st = "waiting", ch[IdOf(r)] = None
               PROVE  /\ conn'[ask[r].c].gen = ask[r].via
                      /\ \/ IdOf(r) \in pending[ask[r].c] /\ conn'[ask[r].c].st # "down"
                         \/ reader[ask[r].c] # None /\ reader[ask[r].c].id = IdOf(r)
    BY DEF WaitingSound, Dial, IdOf
  <2>1. ask[r].c \in Clients /\ (reader[ask[r].c] # None => conn[ask[r].c].st = "up")
    BY DEF ClientInv, SendsSound, ReaderSound
  <2>2. ask[r].c # c
    BY <2>1 DEF ClientInv, WaitingSound, Dial
  <2>3. conn'[ask[r].c] = conn[ask[r].c]
    BY <2>1, <2>2 DEF ClientInv, ClientTypeOK, Dial
  <2>4. QED
    BY <2>3 DEF ClientInv, WaitingSound
<1>7. DialsSound'
  BY DEF ClientInv, DialsSound, ClientTypeOK, Attached, Dial
<1>8. (EntriesSound /\ ChannelsSound)'
  BY DEF ClientInv, EntriesSound, ChannelsSound, IdOf, fallback, Dial
<1>9. QED
  BY <1>1, <1>2, <1>3, <1>4, <1>5, <1>6, <1>7, <1>8 DEF ClientInv

\* A failed dial is drained like a lost connection.
LEMMA DialFailsKeeps ==
  ASSUME ClientInv, NEW c \in Clients, DialFails(c)
  PROVE  ClientInv'
<1>1. ClientTypeOK'
  BY IdsPairs DEF ClientInv, ClientTypeOK, DialFails, Stage, Stages, Decision, Sending
<1>2. SendsSound'
  BY DEF ClientInv, SendsSound, DialFails, Stage
<1>3. ReaderSound'
  BY DEF ClientInv, ReaderSound, IdOf, DialFails, Stage
<1>4. RegisteredSound'
  BY DEF ClientInv, RegisteredSound, IdOf, Attached, DialFails, Stage
<1>5. WaitingSound'
  BY DEF ClientInv, WaitingSound, IdOf, DialFails, Stage
<1>6. DialsSound'
  BY DEF ClientInv, DialsSound, Attached, DialFails, Stage
<1>7. (EntriesSound /\ ChannelsSound /\ WireSound)'
  BY DEF ClientInv, EntriesSound, ChannelsSound, WireSound, IdOf, fallback, DialFails
<1>8. QED
  BY <1>1, <1>2, <1>3, <1>4, <1>5, <1>6, <1>7 DEF ClientInv

\* The hello is sent.
LEMMA SayHelloKeeps ==
  ASSUME ClientInv, NEW c \in Clients, SayHello(c)
  PROVE  ClientInv'
<1>1. ClientTypeOK'
  BY IdsPairs DEF ClientInv, ClientTypeOK, SayHello, Stage, Stages, Decision, Sending
<1>2. SendsSound'
  BY DEF ClientInv, SendsSound, SayHello, Stage
<1>3. ReaderSound'
  BY DEF ClientInv, ReaderSound, IdOf, SayHello, Stage
<1>4. RegisteredSound'
  BY DEF ClientInv, RegisteredSound, IdOf, Attached, SayHello, Stage
<1>5. WaitingSound'
  BY DEF ClientInv, WaitingSound, IdOf, SayHello, Stage
<1>6. DialsSound'
  BY DEF ClientInv, DialsSound, Attached, SayHello, Stage
<1>7. (EntriesSound /\ ChannelsSound /\ WireSound)'
  BY DEF ClientInv, EntriesSound, ChannelsSound, WireSound, IdOf, fallback, SayHello
<1>8. QED
  BY <1>1, <1>2, <1>3, <1>4, <1>5, <1>6, <1>7 DEF ClientInv

\* The hello is answered.
LEMMA GreetKeeps ==
  ASSUME ClientInv, NEW c \in Clients, Greet(c)
  PROVE  ClientInv'
<1>1. ClientTypeOK'
  BY DEF ClientInv, ClientTypeOK, Greet, Stage, Stages, Decision, Sending
<1>2. SendsSound'
  BY DEF ClientInv, SendsSound, Greet, Stage
<1>3. ReaderSound'
  BY DEF ClientInv, ReaderSound, IdOf, Greet, Stage
<1>4. RegisteredSound'
  BY DEF ClientInv, RegisteredSound, IdOf, Attached, Greet, Stage
<1>5. WaitingSound'
  BY DEF ClientInv, WaitingSound, IdOf, Greet, Stage
<1>6. DialsSound'
  BY DEF ClientInv, DialsSound, Attached, Greet, Stage
<1>7. (EntriesSound /\ ChannelsSound /\ WireSound)'
  BY DEF ClientInv, EntriesSound, ChannelsSound, WireSound, IdOf, fallback, Greet
<1>8. QED
  BY <1>1, <1>2, <1>3, <1>4, <1>5, <1>6, <1>7 DEF ClientInv

\* The first frame is no hello.
LEMMA DecisionBeforeHelloKeeps ==
  ASSUME ClientInv, NEW c \in Clients, DecisionBeforeHello(c)
  PROVE  ClientInv'
<1>1. ClientTypeOK'
  BY IdsPairs DEF ClientInv, ClientTypeOK, DecisionBeforeHello, Stage, Stages, Decision, Sending
<1>2. SendsSound'
  BY DEF ClientInv, SendsSound, DecisionBeforeHello, Stage
<1>3. ReaderSound'
  BY DEF ClientInv, ReaderSound, IdOf, DecisionBeforeHello, Stage
<1>4. RegisteredSound'
  BY DEF ClientInv, RegisteredSound, IdOf, Attached, DecisionBeforeHello, Stage
<1>5. WaitingSound'
  BY DEF ClientInv, WaitingSound, IdOf, DecisionBeforeHello, Stage
<1>6. DialsSound'
  BY DEF ClientInv, DialsSound, Attached, DecisionBeforeHello, Stage
<1>7. (EntriesSound /\ ChannelsSound /\ WireSound)'
  BY DEF ClientInv, EntriesSound, ChannelsSound, WireSound, IdOf, fallback, DecisionBeforeHello
<1>8. QED
  BY <1>1, <1>2, <1>3, <1>4, <1>5, <1>6, <1>7 DEF ClientInv

\* The connection is lost while the read loop holds nothing.
LEMMA LostKeeps ==
  ASSUME ClientInv, NEW c \in Clients, Lost(c)
  PROVE  ClientInv'
<1>1. ClientTypeOK'
  BY IdsPairs DEF ClientInv, ClientTypeOK, Lost, Stage, Fault, Stages, Decision, Sending
<1>2. SendsSound'
  BY DEF ClientInv, SendsSound, Lost, Stage, Fault
<1>3. ReaderSound'
  BY DEF ClientInv, ReaderSound, IdOf, Lost, Stage, Fault
<1>4. RegisteredSound'
  BY DEF ClientInv, RegisteredSound, IdOf, Attached, Lost, Stage, Fault
<1>5. WaitingSound'
  BY DEF ClientInv, WaitingSound, IdOf, Lost, Stage, Fault
<1>6. DialsSound'
  BY DEF ClientInv, DialsSound, Attached, Lost, Stage, Fault
<1>7. (EntriesSound /\ ChannelsSound /\ WireSound)'
  BY DEF ClientInv, EntriesSound, ChannelsSound, WireSound, Fault, IdOf, fallback, Lost
<1>8. QED
  BY <1>1, <1>2, <1>3, <1>4, <1>5, <1>6, <1>7 DEF ClientInv

\* The connection is detached and will be drained.
LEMMA DetachKeeps ==
  ASSUME ClientInv, NEW c \in Clients, Detach(c)
  PROVE  ClientInv'
<1>1. ClientTypeOK'
  BY IdsPairs DEF ClientInv, ClientTypeOK, Detach, Stage, Stages, Decision, Sending
<1>2. SendsSound'
  BY DEF ClientInv, SendsSound, Detach, Stage
<1>3. ReaderSound'
  BY DEF ClientInv, ReaderSound, IdOf, Detach, Stage
<1>4. RegisteredSound'
  BY DEF ClientInv, RegisteredSound, IdOf, Attached, Detach, Stage
<1>5. WaitingSound'
  BY DEF ClientInv, WaitingSound, IdOf, Detach, Stage
<1>6. DialsSound'
  BY DEF ClientInv, DialsSound, Attached, Detach, Stage
<1>7. (EntriesSound /\ ChannelsSound /\ WireSound)'
  BY DEF ClientInv, EntriesSound, ChannelsSound, WireSound, IdOf, fallback, Detach
<1>8. QED
  BY <1>1, <1>2, <1>3, <1>4, <1>5, <1>6, <1>7 DEF ClientInv

\* drainPending: each waiting Send of the client finds its default in its channel.
LEMMA DrainKeeps ==
  ASSUME ClientInv, NEW c \in Clients, Drain(c)
  PROVE  ClientInv'
<1>1. ClientTypeOK'
  <2>1. \A i \in pending[c] : i[1] \in Procs /\ fallback(c, ask[i[1]].resp) \in Decision
    BY IdsPairs DEF ClientInv, ClientTypeOK, fallback, Decision
  <2>2. ch' \in [Ids -> Decision \cup {None}]
    BY <2>1 DEF ClientInv, ClientTypeOK, Drain
  <2>3. conn' \in [Clients -> [st : Stages, gen : Nat]]
    BY DEF ClientInv, ClientTypeOK, Drain, Stage, Stages
  <2>4. pending' \in [Clients -> SUBSET Ids]
    BY DEF ClientInv, ClientTypeOK, Drain
  <2>5. QED
    BY <2>2, <2>3, <2>4 DEF ClientInv, ClientTypeOK, Drain
<1>2. SendsSound'
  BY DEF ClientInv, SendsSound, Drain, Stage
<1>3. EntriesSound'
  BY DEF ClientInv, EntriesSound, ClientTypeOK, IdOf, Drain, Stage
<1>4. ReaderSound'
  <2>1. \A x \in Clients : reader[x] # None => reader[x].id \in Ids /\ reader[x].id \notin pending[c] /\ x # c
    BY ReaderType DEF ClientInv, ReaderSound, Drain
  <2>2. \A x \in Clients : reader[x] # None => ch'[reader[x].id] = ch[reader[x].id] /\ conn'[x] = conn[x]
    BY <2>1 DEF ClientInv, ClientTypeOK, Drain, Stage
  <2>3. \A x \in Clients : pending'[x] \subseteq pending[x]
    BY DEF ClientInv, ClientTypeOK, Drain
  <2>4. QED
    BY <2>2, <2>3 DEF ClientInv, ReaderSound, Drain, IdOf, Word
<1>5. ChannelsSound'
  <2> SUFFICES ASSUME NEW i \in Ids, ch'[i] # None
               PROVE  /\ i[2] <= n[i[1]]
                      /\ i = IdOf(i[1]) /\ ask[i[1]].st # "idle" =>
                           \/ /\ said[i[1]] \in Replies
                              /\ ch'[i] = Word(said[i[1]])
                           \/ ch'[i] = fallback(ask[i[1]].c, ask[i[1]].resp)
    BY DEF ChannelsSound, Drain, IdOf, fallback
  <2>1. CASE i \in pending[c]
    <3>1. ch'[i] = fallback(c, ask[i[1]].resp) /\ ask[i[1]].c = c
      BY <2>1 DEF ClientInv, EntriesSound, Drain
    <3>2. i[2] <= n[i[1]]
      BY <2>1, IdsPairs DEF ClientInv, ClientTypeOK, EntriesSound, IdOf
    <3>3. QED
      BY <3>1, <3>2
  <2>2. CASE i \notin pending[c]
    <3>1. ch'[i] = ch[i]
      BY <2>2 DEF Drain
    <3>2. QED
      BY <3>1 DEF ClientInv, ChannelsSound
  <2>3. QED
    BY <2>1, <2>2
<1>6. RegisteredSound'
  BY DEF ClientInv, RegisteredSound, IdOf, Attached, Drain, Stage
<1>7. WaitingSound'
  <2> SUFFICES ASSUME NEW r \in Procs, ask[r].st = "waiting", ch'[IdOf(r)] = None
               PROVE  /\ conn'[ask[r].c].gen = ask[r].via
                      /\ \/ IdOf(r) \in pending'[ask[r].c] /\ conn'[ask[r].c].st # "down"
                         \/ reader[ask[r].c] # None /\ reader[ask[r].c].id = IdOf(r)
    BY DEF WaitingSound, Drain, IdOf
  <2>1. IdOf(r) \in Ids /\ ask[r].c \in Clients
    BY DEF ClientInv, SendsSound, Ids, IdOf
  <2>2. \A i \in pending[c] : i[1] \in Procs /\ fallback(c, ask[i[1]].resp) # None
    <3>1. \A i \in pending[c] : i[1] \in Procs /\ ask[i[1]].resp \in BOOLEAN
      BY IdsPairs DEF ClientInv, ClientTypeOK, Sending
    <3>2. QED
      BY <3>1, FallbackType
  <2>3. IdOf(r) \notin pending[c] /\ ch[IdOf(r)] = None
    BY <2>1, <2>2 DEF Drain
  <2>4. ask[r].c # c
    BY <2>3 DEF ClientInv, WaitingSound, ReaderSound, Drain
  <2>5. conn'[ask[r].c] = conn[ask[r].c] /\ pending'[ask[r].c] = pending[ask[r].c]
    BY <2>1, <2>4 DEF ClientInv, ClientTypeOK, Drain, Stage
  <2>6. QED
    BY <2>3, <2>5 DEF ClientInv, WaitingSound
<1>8. DialsSound'
  BY DEF ClientInv, DialsSound, Attached, Drain, Stage
<1>9. (WireSound)'
  BY DEF ClientInv, WireSound, IdOf, Drain
<1>10. QED
  BY <1>1, <1>2, <1>3, <1>4, <1>5, <1>6, <1>7, <1>8, <1>9 DEF ClientInv

\* The read loop fills the channel of the Send whose entry it took.
LEMMA DeliverKeeps ==
  ASSUME ClientInv, NEW c \in Clients, Deliver(c)
  PROVE  ClientInv'
<1>1. ClientTypeOK'
  BY DEF ClientInv, ClientTypeOK, Deliver
<1>2. EntriesSound'
  <2>1. \A x \in Clients : \A i \in pending[x] : i \in Ids /\ i # reader[c].id
    <3>1. \A x \in Clients : reader[c].id \notin pending[x]
      BY DEF ClientInv, ReaderSound, Deliver
    <3>2. QED
      BY <3>1 DEF ClientInv, ClientTypeOK
  <2>2. \A x \in Clients : \A i \in pending[x] : ch'[i] = ch[i]
    BY <2>1 DEF ClientInv, ClientTypeOK, Deliver
  <2>3. QED
    BY <2>2 DEF ClientInv, EntriesSound, Deliver, IdOf
<1>3. ReaderSound'
  BY DEF ClientInv, ReaderSound, ClientTypeOK, IdOf, Deliver
<1>4. ChannelsSound'
  <2> SUFFICES ASSUME NEW i \in Ids, ch'[i] # None
               PROVE  /\ i[2] <= n[i[1]]
                      /\ i = IdOf(i[1]) /\ ask[i[1]].st # "idle" =>
                           \/ /\ said[i[1]] \in Replies
                              /\ ch'[i] = Word(said[i[1]])
                           \/ ch'[i] = fallback(ask[i[1]].c, ask[i[1]].resp)
    BY DEF ChannelsSound, Deliver, IdOf, fallback
  <2>1. CASE i = reader[c].id
    <3>1. ch'[i] = reader[c].d
      BY <2>1 DEF ClientInv, ClientTypeOK, Deliver
    <3>2. QED
      BY <2>1, <3>1 DEF ClientInv, ReaderSound, Deliver
  <2>2. CASE i # reader[c].id
    <3>1. ch'[i] = ch[i]
      BY <2>2 DEF ClientInv, ClientTypeOK, Deliver
    <3>2. QED
      BY <3>1 DEF ClientInv, ChannelsSound
  <2>3. QED
    BY <2>1, <2>2
<1>5. WaitingSound'
  <2> SUFFICES ASSUME NEW r \in Procs, ask[r].st = "waiting", ch'[IdOf(r)] = None
               PROVE  /\ conn[ask[r].c].gen = ask[r].via
                      /\ \/ IdOf(r) \in pending[ask[r].c] /\ conn[ask[r].c].st # "down"
                         \/ reader'[ask[r].c] # None /\ reader'[ask[r].c].id = IdOf(r)
    BY DEF WaitingSound, Deliver, IdOf
  <2>1. IdOf(r) \in Ids /\ ask[r].c \in Clients
    BY DEF ClientInv, SendsSound, Ids, IdOf
  <2>2. reader[c].id \in Ids /\ reader[c].d \in Decision /\ reader[c].d # None
    BY NoneAssumption DEF ClientInv, ClientTypeOK, Deliver
  <2>3. IdOf(r) # reader[c].id /\ ch[IdOf(r)] = None
    BY <2>1, <2>2 DEF ClientInv, ClientTypeOK, Deliver
  <2>4. \A x \in Clients \ {c} : reader'[x] = reader[x]
    BY DEF ClientInv, ClientTypeOK, Deliver
  <2>5. QED
    BY <2>1, <2>3, <2>4 DEF ClientInv, WaitingSound
<1>6. (SendsSound /\ WireSound /\ RegisteredSound /\ DialsSound)'
  BY DEF ClientInv, SendsSound, WireSound, RegisteredSound, DialsSound, Attached, IdOf, Deliver
<1>7. QED
  BY <1>1, <1>2, <1>3, <1>4, <1>5, <1>6 DEF ClientInv

\* The middleware stops reading.
LEMMA StallKeeps ==
  ASSUME ClientInv, NEW c \in Clients, Stall(c)
  PROVE  ClientInv'
<1>1. ClientTypeOK'
  BY DEF ClientInv, ClientTypeOK, Stall, Fault
<1>2. (SendsSound /\ EntriesSound /\ ReaderSound)'
  BY DEF ClientInv, SendsSound, EntriesSound, ReaderSound, Fault, IdOf, Stall
<1>3. (ChannelsSound /\ WireSound /\ RegisteredSound)'
  BY DEF ClientInv, ChannelsSound, WireSound, RegisteredSound, Attached, Fault, IdOf, fallback,
     Stall
<1>4. (WaitingSound /\ DialsSound)'
  BY DEF ClientInv, WaitingSound, DialsSound, Attached, Fault, IdOf, Stall
<1>5. QED
  BY <1>1, <1>2, <1>3, <1>4 DEF ClientInv

\* The read loop takes an entry: from now on it is the only one that has it.
LEMMA TakeKeeps ==
  ASSUME ClientInv, NEW c \in Clients, NEW id \in Ids, NEW a \in Replies, Take(c, id, a)
  PROVE  ClientInv'
<1>1. ClientTypeOK'
  <2>1. id[1] \in Procs /\ [id |-> id, d |-> Word(a)] \in [id : Ids, d : Decision]
    BY IdsPairs DEF Word, Decision
  <2>2. reader' \in [Clients -> [id : Ids, d : Decision] \cup {None}]
    BY <2>1 DEF ClientInv, ClientTypeOK, Take, Hold
  <2>3. said' \in [Procs -> Replies \cup {None}] /\ pending' \in [Clients -> SUBSET Ids]
    BY <2>1 DEF ClientInv, ClientTypeOK, Take, Hold
  <2>4. QED
    BY <2>2, <2>3 DEF ClientInv, ClientTypeOK, Take, Hold
<1>2. EntriesSound'
  <2> SUFFICES ASSUME NEW x \in Clients, NEW i \in pending'[x]
               PROVE  /\ ask[i[1]].st # "idle" /\ ask[i[1]].c = x /\ i = IdOf(i[1])
                      /\ said'[i[1]] = None /\ ch[i] = None
    BY DEF EntriesSound, Take, Hold, IdOf
  <2>1. id \in pending[c] /\ i \in pending[x] /\ i \in Ids /\ i[1] \in Procs /\ id[1] \in Procs
    BY IdsPairs DEF ClientInv, ClientTypeOK, Take, Hold
  <2>2. i # id
    BY <2>1 DEF ClientInv, ClientTypeOK, EntriesSound, Take
  <2>3. i[1] # id[1]
    BY <2>1, <2>2 DEF ClientInv, EntriesSound
  <2>4. said'[i[1]] = said[i[1]]
    BY <2>1, <2>3 DEF ClientInv, ClientTypeOK, Take, Hold
  <2>5. QED
    BY <2>1, <2>4 DEF ClientInv, EntriesSound
<1>3. ReaderSound'
  <2>1. id = IdOf(id[1]) /\ id[1] \in Procs /\ ask[id[1]].st # "idle" /\ ask[id[1]].c = c /\ ch[id] = None
    BY IdsPairs DEF ClientInv, EntriesSound, Take, Hold
  <2>2. id[2] <= n[id[1]] /\ \A x \in Clients : id \notin pending'[x]
    BY <2>1, IdsPairs DEF ClientInv, ClientTypeOK, EntriesSound, Take, Hold
  <2>3. reader'[c] = [id |-> id, d |-> Word(a)]
    BY DEF ClientInv, ClientTypeOK, Take, Hold
  <2>4. \A x \in Clients \ {c} : reader'[x] = reader[x] /\ (reader[x] # None => reader[x].id # id)
    <3>1. \A x \in Clients \ {c} : reader'[x] = reader[x]
      BY DEF ClientInv, ClientTypeOK, Take, Hold
    <3>2. id \in pending[c]
      BY DEF Take, Hold
    <3>3. \A x \in Clients : reader[x] # None => reader[x].id \notin pending[c]
      BY DEF ClientInv, ReaderSound
    <3>4. QED
      BY <3>1, <3>2, <3>3
  <2>5. said'[id[1]] = a /\ \A r \in Procs \ {id[1]} : said'[r] = said[r]
    BY <2>1 DEF ClientInv, ClientTypeOK, Take, Hold
  <2> SUFFICES ASSUME NEW x \in Clients, reader'[x] # None
               PROVE  /\ reader'[x].id[2] <= n[reader'[x].id[1]]
                      /\ conn[x].st = "up"
                      /\ ch[reader'[x].id] = None
                      /\ \A y \in Clients : reader'[x].id \notin pending'[y]
                      /\ \A y \in Clients \ {x} : reader'[y] # None => reader'[y].id # reader'[x].id
                      /\ reader'[x].id = IdOf(reader'[x].id[1]) /\ ask[reader'[x].id[1]].st # "idle" =>
                           /\ ask[reader'[x].id[1]].c = x
                           /\ said'[reader'[x].id[1]] \in Replies
                           /\ reader'[x].d = Word(said'[reader'[x].id[1]])
    BY DEF ReaderSound, Take, Hold, IdOf
  <2>6. CASE x = c
    <3>1. reader'[x].id = id /\ reader'[x].d = Word(a)
      BY <2>3, <2>6
    <3>2. conn[x].st = "up"
      BY <2>6 DEF Take, Hold
    <3>3. \A y \in Clients \ {x} : reader'[y] # None => reader'[y].id # id
      BY <2>4, <2>6
    <3>4. QED
      BY <2>1, <2>2, <2>5, <2>6, <3>1, <3>2, <3>3
  <2>7. CASE x # c
    <3>1. reader'[x] = reader[x] /\ reader[x].id \in Ids /\ reader[x].id[1] \in Procs /\ reader[x].id # id
      BY <2>4, <2>7, IdsPairs DEF ClientInv, ClientTypeOK
    <3>2. \A y \in Clients : pending'[y] \subseteq pending[y]
      BY DEF ClientInv, ClientTypeOK, Take
    <3>3. \A y \in Clients \ {x} : reader'[y] # None => reader'[y].id # reader[x].id
      <4>1. reader'[c].id # reader[x].id
        BY <2>3, <3>1
      <4>2. \A y \in Clients \ {x, c} : reader'[y] # None => reader'[y].id # reader[x].id
        <5>1. \A y \in Clients \ {x} : reader[y] # None => reader[y].id # reader[x].id
          BY <3>1 DEF ClientInv, ReaderSound
        <5>2. QED
          BY <2>4, <5>1
      <4>3. QED
        BY <4>1, <4>2
    <3>4. reader[x].id = IdOf(reader[x].id[1]) => reader[x].id[1] # id[1]
      BY <2>1, <3>1 DEF IdOf
    <3>5. QED
      <4>1. /\ reader[x].id[2] <= n[reader[x].id[1]] /\ conn[x].st = "up"
            /\ ch[reader[x].id] = None /\ \A y \in Clients : reader[x].id \notin pending'[y]
        BY <3>1, <3>2 DEF ClientInv, ReaderSound
      <4>2. reader[x].id = IdOf(reader[x].id[1]) => said'[reader[x].id[1]] = said[reader[x].id[1]]
        BY <2>5, <3>1, <3>4
      <4>3. reader[x].id = IdOf(reader[x].id[1]) /\ ask[reader[x].id[1]].st # "idle" =>
              /\ ask[reader[x].id[1]].c = x
              /\ said[reader[x].id[1]] \in Replies
              /\ reader[x].d = Word(said[reader[x].id[1]])
        BY <3>1 DEF ClientInv, ReaderSound
      <4>4. QED
        BY <3>1, <3>3, <4>1, <4>2, <4>3
  <2>8. QED
    BY <2>6, <2>7
<1>4. ChannelsSound'
  BY IdsPairs, NoneAssumption, ClientAssumption DEF ClientInv, ChannelsSound, ClientTypeOK,
     IdOf, fallback, Take, Hold, EntriesSound, SendsSound
<1>5. RegisteredSound'
  <2>1. id \in toMw[c] /\ id = IdOf(id[1]) /\ ask[id[1]].st # "registered"
    BY DEF ClientInv, EntriesSound, WireSound, Take, Hold
  <2>2. \A r \in Procs : ask[r].st = "registered" => IdOf(r) # id
    BY <2>1, IdsPairs
  <2>3. \A x \in Clients, r \in Procs :
          ask[r].st = "registered" /\ IdOf(r) \in pending[x] => IdOf(r) \in pending'[x]
    BY <2>2 DEF ClientInv, ClientTypeOK, Take
  <2>4. \A r \in Procs : ask[r].st = "registered" => ask[r].c \in Clients
    BY DEF ClientInv, SendsSound
  <2>5. QED
    BY <2>3, <2>4 DEF ClientInv, RegisteredSound, Take, Hold, IdOf, Attached
<1>6. WaitingSound'
  <2> SUFFICES ASSUME NEW r \in Procs, ask[r].st = "waiting", ch[IdOf(r)] = None
               PROVE  /\ conn[ask[r].c].gen = ask[r].via
                      /\ \/ IdOf(r) \in pending'[ask[r].c] /\ conn[ask[r].c].st # "down"
                         \/ reader'[ask[r].c] # None /\ reader'[ask[r].c].id = IdOf(r)
    BY DEF WaitingSound, Take, Hold, IdOf
  <2>1. ask[r].c \in Clients /\ ask[id[1]].c = c
    BY DEF ClientInv, SendsSound, EntriesSound, Take, Hold
  <2>2. reader'[c] = [id |-> id, d |-> Word(a)]
    BY DEF ClientInv, ClientTypeOK, Take, Hold
  <2>3. [id |-> id, d |-> Word(a)] # None
    <3>1. Word(a) \in Decision
      BY DEF Decision, Word
    <3>2. QED
      BY <3>1, NoneAssumption
  <2>4. CASE IdOf(r) = id
    <3>1. ask[r].c = c
      BY <2>1, <2>4, IdsPairs
    <3>2. QED
      BY <2>2, <2>3, <2>4, <3>1 DEF ClientInv, WaitingSound, Take, Hold
  <2>5. CASE IdOf(r) # id
    <3>1. IdOf(r) \in pending[ask[r].c] => IdOf(r) \in pending'[ask[r].c]
      BY <2>1, <2>5 DEF ClientInv, ClientTypeOK, Take
    <3>2. reader[ask[r].c] # None => reader'[ask[r].c] = reader[ask[r].c]
      BY <2>1 DEF ClientInv, ClientTypeOK, Take, Hold
    <3>3. QED
      BY <3>1, <3>2 DEF ClientInv, WaitingSound
  <2>6. QED
    BY <2>4, <2>5
<1>7. (SendsSound /\ WireSound /\ DialsSound)'
  BY DEF ClientInv, SendsSound, WireSound, DialsSound, Attached, Hold, IdOf, Take
<1>8. QED
  BY <1>1, <1>2, <1>3, <1>4, <1>5, <1>6, <1>7 DEF ClientInv


(* Every step of the client, and every new Send, keeps the invariant.      *)
LEMMA ClientStepKeeps == ClientInv /\ [ClientNext]_clientVars => ClientInv'
<1> SUFFICES ASSUME ClientInv, [ClientNext]_clientVars PROVE ClientInv'
  OBVIOUS
<1>1. ASSUME NEW p \in Procs, SendStep(p) PROVE ClientInv'
  BY <1>1, WriteMessageKeeps, SendFailsKeeps, ReceiveKeeps, GiveUpKeeps DEF SendStep
<1>2. ASSUME NEW c \in Clients, ConnStep(c) PROVE ClientInv'
  BY <1>2, DialKeeps, DialFailsKeeps, SayHelloKeeps, GreetKeeps, DecisionBeforeHelloKeeps,
     LostKeeps, DetachKeeps, DrainKeeps, StallKeeps DEF ConnStep
<1>3. ASSUME NEW c \in Clients, ReadStep(c) PROVE ClientInv'
  BY <1>3, DeliverKeeps, TakeKeeps DEF ReadStep
<1>4. ASSUME NEW p \in Procs, NEW c \in Clients, NEW resp \in BOOLEAN, Register(p, c, resp)
      PROVE  ClientInv'
  BY <1>4, RegisterKeeps
<1>5. CASE UNCHANGED clientVars
  <2>1. (ClientTypeOK /\ SendsSound /\ EntriesSound)'
    BY <1>5 DEF clientVars, ClientInv, ClientTypeOK, SendsSound, EntriesSound, IdOf
  <2>2. (ReaderSound /\ ChannelsSound /\ WireSound)'
    BY <1>5 DEF clientVars, ClientInv, ReaderSound, ChannelsSound, WireSound, IdOf, fallback, Word
  <2>3. (RegisteredSound /\ WaitingSound /\ DialsSound)'
    BY <1>5 DEF clientVars, ClientInv, RegisteredSound, WaitingSound, DialsSound, IdOf, Attached
  <2>4. QED
    BY <2>1, <2>2, <2>3 DEF ClientInv
<1>6. QED
  BY <1>1, <1>2, <1>3, <1>4, <1>5 DEF ClientNext, ClientStep

\* The invariant holds initially.
LEMMA ClientInitSound == ClientInit => ClientInv
<1> SUFFICES ASSUME ClientInit PROVE ClientInv
  OBVIOUS
<1>1. ClientTypeOK
  BY ClientAssumption DEF ClientInit, ClientTypeOK, NoSend, Sending, Stages
<1>2. SendsSound /\ EntriesSound /\ WireSound /\ RegisteredSound /\ WaitingSound
  BY DEF ClientInit, SendsSound, EntriesSound, WireSound, RegisteredSound, WaitingSound, NoSend
<1>3. ReaderSound /\ ChannelsSound /\ DialsSound
  BY DEF ClientInit, ReaderSound, ChannelsSound, DialsSound, Attached
<1>4. QED
  BY <1>1, <1>2, <1>3 DEF ClientInv

(* The inductive invariant holds in every reachable state.                 *)
THEOREM ClientSound == ClientSpec => []ClientInv
<1>1. ClientInit => ClientInv
  BY ClientInitSound
<1>2. ClientInv /\ [ClientNext]_clientVars => ClientInv'
  BY ClientStepKeeps
<1>3. QED
  BY <1>1, <1>2, PTL DEF ClientSpec

(* Every variable of the client keeps its type.                            *)
THEOREM ClientTypeCorrect == ClientSpec => []ClientTypeOK
<1>1. ClientInv => ClientTypeOK
  BY DEF ClientInv
<1>2. QED
  BY <1>1, ClientSound, PTL

(* Neither the read loop nor drainPending ever meets a full channel.       *)
THEOREM ChannelsNeverBlock == ClientSpec => []NeverBlocks
<1>1. ClientInv => NeverBlocks
  BY DEF ClientInv, EntriesSound, ReaderSound, NeverBlocks
<1>2. QED
  BY <1>1, ClientSound, PTL

(* Every entry of pending belongs to a Send that has not returned.         *)
THEOREM NothingLeaks == ClientSpec => []NoLeak
<1>1. ClientInv => NoLeak
  BY DEF ClientInv, EntriesSound, ReaderSound, NoLeak
<1>2. QED
  BY <1>1, ClientSound, PTL

(* A Send whose connection is gone has its answer, or the drain that comes *)
(* for its connection finds it.                                            *)
THEOREM DrainReachesAll == ClientSpec => []DrainReaches
<1>1. ClientInv => DrainReaches
  <2> SUFFICES ASSUME ClientInv, NEW p \in Procs, ask[p].st = "waiting",
                      ~Open(ask[p].c, ask[p].via), ch[IdOf(p)] = None
               PROVE  /\ IdOf(p) \in pending[ask[p].c] /\ conn[ask[p].c].gen = ask[p].via
                      /\ conn[ask[p].c].st \in {"closing", "draining"}
    BY DEF DrainReaches
  <2>1. ask[p].c \in Clients /\ conn[ask[p].c].gen = ask[p].via
    BY DEF ClientInv, SendsSound, WaitingSound
  <2>2. conn[ask[p].c].st \in Stages \ {"dialed", "greeting", "up"}
    BY <2>1 DEF ClientInv, ClientTypeOK, Open
  <2>3. reader[ask[p].c] = None
    BY <2>1, <2>2 DEF ClientInv, ReaderSound
  <2>4. IdOf(p) \in pending[ask[p].c] /\ conn[ask[p].c].st # "down"
    BY <2>3 DEF ClientInv, WaitingSound
  <2>5. QED
    BY <2>1, <2>2, <2>4 DEF Stages
<1>2. QED
  BY <1>1, ClientSound, PTL
------------------------------------------------------------------------------
(* The refinement: Register asks, Take says, and the three ways out of     *)
(* Send answer.  All other steps are stutters of DecisionService.          *)

\* A Send that returns answers its question.
LEMMA ReturnAnswers ==
  ASSUME ClientInv, NEW p \in Procs, NEW d \in Decision, Return(p, d), ask[p].st # "idle",
         UNCHANGED <<n, said>>,
         \/ said[p] # None /\ d = Word(said[p])
         \/ d = fallback(ask[p].c, ask[p].resp)
  PROVE  Service!ServiceNext
<1>1. OpenQuestion' = [OpenQuestion EXCEPT ![p] = Service!NoQuestion]
  BY DEF ClientInv, ClientTypeOK, Return, NoSend, OpenQuestion, Service!NoQuestion
<1>2. OpenQuestion[p].open /\ OpenQuestion[p].c = ask[p].c /\ OpenQuestion[p].resp = ask[p].resp
  BY DEF OpenQuestion
<1>3. \/ said[p] # None /\ d = [action |-> said[p], fallback |-> FALSE]
      \/ d = [action |-> Service!Default(Policy[OpenQuestion[p].c], OpenQuestion[p].resp), fallback |-> TRUE]
  <2>1. CASE said[p] # None /\ d = Word(said[p])
    BY <2>1 DEF Word
  <2>2. CASE d = fallback(ask[p].c, ask[p].resp)
    BY <1>2, <2>2 DEF fallback, Service!Default
  <2>3. QED
    BY <2>1, <2>2
<1>4. answer[p] = None /\ answer' = [answer EXCEPT ![p] = d]
  BY DEF ClientInv, SendsSound, Return
<1>5. Service!Answer(p, d)
  BY <1>1, <1>2, <1>3, <1>4 DEF Service!Answer
<1>6. d \in Service!Decisions
  BY DEF Decision, Service!Decisions
<1>7. QED
  BY <1>5, <1>6 DEF Service!ServiceNext

\* The middleware's word is read once.
LEMMA TakeSays ==
  ASSUME ClientInv, NEW c \in Clients, NEW id \in Ids, NEW a \in Replies, Take(c, id, a)
  PROVE  Service!ServiceNext
<1>1. id[1] \in Procs /\ ask[id[1]].st # "idle" /\ said[id[1]] = None
  BY IdsPairs DEF ClientInv, EntriesSound, Take, Hold
<1>2. OpenQuestion[id[1]].open /\ OpenQuestion' = OpenQuestion
  BY <1>1 DEF OpenQuestion, Take, Hold
<1>3. Service!Say(id[1], a)
  BY <1>1, <1>2 DEF Service!Say, Take, Hold
<1>4. QED
  BY <1>1, <1>3 DEF Service!ServiceNext

\* A new Send asks.
LEMMA RegisterAsks ==
  ASSUME ClientInv, NEW p \in Procs, NEW c \in Clients, NEW resp \in BOOLEAN, Register(p, c, resp)
  PROVE  Service!ServiceNext
<1>1. OpenQuestion' = [OpenQuestion EXCEPT ![p] = [open |-> TRUE, c |-> c, resp |-> resp]]
  BY DEF ClientInv, ClientTypeOK, Register, OpenQuestion
<1>2. ~OpenQuestion[p].open
  BY DEF Register, OpenQuestion
<1>3. Service!Ask(p, c, resp)
  BY <1>1, <1>2 DEF Service!Ask, Register
<1>4. QED
  BY <1>3 DEF Service!ServiceNext

(* The client implements DecisionService: whatever the connection does,    *)
(* each Send returns once, with the middleware's word on that very message *)
(* or the default of on_disconnect for its kind.                           *)
THEOREM ClientImplementsService == ClientSpec => ImplementsService
<1>1. ClientInit => Service!ServiceInit
  <2> SUFFICES ASSUME ClientInit PROVE Service!ServiceInit
    OBVIOUS
  <2>1. \A p \in Procs : (ask[p].st # "idle") = FALSE /\ ask[p].c = None /\ ask[p].resp = FALSE
    BY DEF ClientInit, NoSend
  <2>2. OpenQuestion = [p \in Procs |-> Service!NoQuestion]
    BY <2>1 DEF OpenQuestion, Service!NoQuestion
  <2>3. QED
    BY <2>2 DEF ClientInit, Service!ServiceInit
<1>2. ClientInv /\ [ClientNext]_clientVars => [Service!ServiceNext]_(Service!serviceVars)
  <2> SUFFICES ASSUME ClientInv, [ClientNext]_clientVars
               PROVE  Service!ServiceNext \/ UNCHANGED <<OpenQuestion, n, said, answer>>
    BY DEF Service!serviceVars
  <2>1. ASSUME NEW p \in Procs, WriteMessage(p) PROVE UNCHANGED <<OpenQuestion, n, said, answer>>
    <3>1. \A r \in Procs : /\ (ask'[r].st = "idle") = (ask[r].st = "idle")
                           /\ ask'[r].c = ask[r].c /\ ask'[r].resp = ask[r].resp
      BY <2>1 DEF ClientInv, ClientTypeOK, Sending, WriteMessage
    <3>2. QED
      BY <2>1, <3>1 DEF OpenQuestion, WriteMessage
  <2>2. ASSUME NEW p \in Procs, SendFails(p) \/ GiveUp(p) PROVE Service!ServiceNext
    <3>1. ask[p].c \in Clients /\ ask[p].resp \in BOOLEAN /\ ask[p].st # "idle"
      BY <2>2 DEF ClientInv, ClientTypeOK, SendsSound, Sending, SendFails, GiveUp
    <3>2. fallback(ask[p].c, ask[p].resp) \in Decision
      BY <3>1, FallbackType
    <3>3. Return(p, fallback(ask[p].c, ask[p].resp)) /\ UNCHANGED <<n, said>>
      BY <2>2 DEF SendFails, GiveUp, ReturnDefault
    <3>4. QED
      BY <3>1, <3>2, <3>3, ReturnAnswers
  <2>3. ASSUME NEW p \in Procs, Receive(p) PROVE Service!ServiceNext
    <3>1. IdOf(p) \in Ids /\ ask[p].st # "idle" /\ ch[IdOf(p)] # None
      BY <2>3 DEF ClientInv, SendsSound, Receive, Ids, IdOf
    <3>2. ch[IdOf(p)] \in Decision
      BY <3>1 DEF ClientInv, ClientTypeOK
    <3>3. \/ said[p] # None /\ ch[IdOf(p)] = Word(said[p])
          \/ ch[IdOf(p)] = fallback(ask[p].c, ask[p].resp)
      BY <3>1, IdsPairs, ClientAssumption DEF ClientInv, ChannelsSound
    <3>4. Return(p, ch[IdOf(p)]) /\ UNCHANGED <<n, said>>
      BY <2>3 DEF Receive
    <3>5. QED
      BY <3>1, <3>2, <3>3, <3>4, ReturnAnswers
  <2>4. ASSUME NEW c \in Clients, ConnStep(c) \/ Deliver(c)
        PROVE  UNCHANGED <<OpenQuestion, n, said, answer>>
    BY <2>4 DEF ConnStep, Dial, DialFails, SayHello, Greet, DecisionBeforeHello, Lost, Detach,
                Drain, Stall, Deliver, OpenQuestion
  <2>5. CASE UNCHANGED clientVars
    BY <2>5 DEF clientVars, OpenQuestion
  <2>6. QED
    BY <2>1, <2>2, <2>3, <2>4, <2>5, TakeSays, RegisterAsks
       DEF ClientNext, ClientStep, SendStep, ReadStep
<1>3. QED
  BY <1>1, <1>2, ClientSound, PTL DEF ClientSpec, ImplementsService, Service!ServiceSpec
=============================================================================
