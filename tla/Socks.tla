------------------------------- MODULE Socks --------------------------------
(***************************************************************************)
(* One SOCKS5 connection: the connector of a chain, or another client, at   *)
(* one end and the handler of the proxy at the other, from the choice of a  *)
(* method to the tunnel, the bound port or the UDP relay that follows.  The *)
(* two streams are sequences of messages; a read that may take more than    *)
(* the message it wants takes what has been written behind it too.          *)
(***************************************************************************)
EXTENDS Integers, Sequences, FiniteSets

CONSTANTS
  SocksConfs,  \* configurations of both ends, elements of Metadata
  NameLens,    \* lengths of the names that the client asks for
  Sizes,       \* sizes of a piece of data or of a datagram
  Sources,     \* addresses that a datagram of an association may come from
  OwnSources,  \* those of them with the IP of the client
  MaxPieces    \* bound: pieces of data that each side sends

\* metadata of the handler, whether a session can be multiplexed over this
\* connection, and the client: user is the length of its name or 0, it is eager
\* if it does not wait for the reply.
Metadata == [auther : BOOLEAN, noTLS : BOOLEAN, bind : BOOLEAN, udp : BOOLEAN, muxOk : BOOLEAN,
             user : Nat, wantTLS : BOOLEAN, eager : BOOLEAN]

ASSUME SocksAssumption ==
  /\ SocksConfs \subseteq Metadata /\ NameLens \subseteq Nat /\ Sizes \subseteq Nat
  /\ OwnSources \subseteq Sources /\ MaxPieces \in Nat

VARIABLES
  conf,    \* the configuration
  srv,     \* the handler: pc, method, command, verdict, monitor
  cli,     \* the client: pc, whether it has gone, pieces sent, pieces eaten
  wire,    \* what is written and not read, each way
  got,     \* what the target, and the client, have received
  target,  \* how many pieces the target has sent
  port,    \* BIND: the listener, accept's result, the peer, pipe's result
  assoc    \* UDP: the last source, both directions of the relay, addresses
           \*   that replies went to

socksVars == <<conf, srv, cli, wire, got, target, port, assoc>>

Msg(t) == [t |-> t, what |-> "none", n |-> 0, len |-> 0]
NoPort == [ln |-> "none", acc |-> "none", peer |-> "none", pipe |-> "none"]
NoAssoc == [raddr |-> "none", uplink |-> "none", downlink |-> "none", sentTo |-> {}]

Arrived(way, t) == wire[way] # <<>> /\ Head(wire[way]).t = t
Took(way, m) == [wire EXCEPT ![way] = Tail(@), ![IF way = "up" THEN "down" ELSE "up"] = @ \o m]
Reply(rep) == [wire EXCEPT !.down = Append(@, [Msg("reply") EXCEPT !.what = rep])]
Secure == srv.method \in {"tls", "tlsauth"}
------------------------------------------------------------------------------
(* Codec.                                                                  *)

\* Addr.Encode: the length of a name is one byte, and the buffer ends behind it.
EncodeAddr(n) == IF n > 255 THEN "panic" ELSE "ok"

\* UserPassRequest.Write and ReadUserPassRequest: what is read of a name.
ReadUser(n) == n % 256

\* ReadRequest and ReadReply: what a read of at least five bytes takes behind the
\* message; a TLS record is read alone.
Behind5(way) == IF Secure THEN {0} ELSE 0 .. Len(wire[way]) - 1
TookMore(way, k) == [wire EXCEPT ![way] = SubSeq(@, 2 + k, Len(@))]
------------------------------------------------------------------------------
(* Handshake.                                                              *)

\* clientHandshake.
ClientHello ==
  /\ cli.pc = "start"
  /\ wire' = [wire EXCEPT !.up = Append(@, [Msg("methods") EXCEPT !.what = IF conf.wantTLS THEN "tls" ELSE "plain"])]
  /\ cli' = [cli EXCEPT !.pc = "method"]
  /\ UNCHANGED <<conf, srv, got, target, port, assoc>>

\* serverSelector.Select.
Select(offer) ==
  LET tls == offer = "tls" /\ ~conf.noTLS
  IN  IF conf.auther THEN (IF tls THEN "tlsauth" ELSE "userpass") ELSE (IF tls THEN "tls" ELSE "noauth")

\* serverHandshake.
ServerHandshake ==
  /\ srv.pc = "methods" /\ Arrived("up", "methods")
  /\ LET m == Select(Head(wire.up).what)
     IN  /\ wire' = Took("up", <<[Msg("method") EXCEPT !.what = m]>>)
         /\ srv' = [srv EXCEPT !.method = m, !.pc = IF m \in {"userpass", "tlsauth"} THEN "auth" ELSE "request"]
  /\ UNCHANGED <<conf, cli, got, target, port, assoc>>

\* clientSelector.OnSelected: a client without a user sends empty ones.
ClientOnSelected ==
  /\ cli.pc = "method" /\ Arrived("down", "method")
  /\ LET asked == Head(wire.down).what \in {"userpass", "tlsauth"}
     IN  /\ wire' = Took("down", IF asked THEN <<[Msg("auth") EXCEPT !.len = conf.user]>> ELSE <<>>)
         /\ cli' = [cli EXCEPT !.pc = IF asked THEN "authReply" ELSE "request"]
  /\ UNCHANGED <<conf, srv, got, target, port, assoc>>

\* OnSelected of the server; ok is what the authenticator says (the one of the
\* proxy itself always agrees).  Behind a name that is read shorter than it was
\* written, the rest of it is no request.
ServerAuth(ok) ==
  /\ srv.pc = "auth" /\ Arrived("up", "auth")
  /\ LET n == Head(wire.up).len
     IN  /\ wire' = Took("up", <<[Msg("authResult") EXCEPT !.what = IF ok THEN "ok" ELSE "fail"]>>)
         /\ srv' = [srv EXCEPT !.pc = IF ok /\ ReadUser(n) = n THEN "request" ELSE "done"]
  /\ UNCHANGED <<conf, cli, got, target, port, assoc>>

ClientAuthResult ==
  /\ cli.pc = "authReply" /\ Arrived("down", "authResult")
  /\ cli' = [cli EXCEPT !.pc = IF Head(wire.down).what = "ok" THEN "request" ELSE "closed",
                        !.gone = Head(wire.down).what # "ok"]
  /\ wire' = Took("down", <<>>)
  /\ UNCHANGED <<conf, srv, got, target, port, assoc>>

\* Request.Write.
SendRequest(cmd, n) ==
  /\ cli.pc = "request"
  /\ IF EncodeAddr(n) = "panic"
     THEN cli' = [cli EXCEPT !.pc = "closed", !.gone = TRUE] /\ UNCHANGED wire
     ELSE /\ wire' = [wire EXCEPT !.up = Append(@, [Msg("request") EXCEPT !.what = cmd, !.len = n])]
          /\ cli' = [cli EXCEPT !.pc = "reply"]
  /\ UNCHANGED <<conf, srv, got, target, port, assoc>>

\* Connect, connectUDP (relayUDP if the relay is configured so) and bind of the
\* connector, and a client with a command that nobody knows.
Connect(n) == SendRequest("connect", n)
ConnectUDP == \E cmd \in {"udp", "udptun"} : SendRequest(cmd, 0)
Bind(n) == \E cmd \in {"bind", "mbind", "udpbind"} : SendRequest(cmd, n)
OtherRequest == SendRequest("other", 0)

\* ReadRequest, and the switch on the command; "udptun" and "udpbind" are one
\* command, without and with a port.
ServerRequest(k) ==
  /\ srv.pc = "request" /\ Arrived("up", "request") /\ k \in Behind5("up")
  /\ LET cmd == Head(wire.up).what
         rest == TookMore("up", k)
     IN  /\ srv' = [srv EXCEPT !.cmd = cmd,
                      !.monitor = IF cmd = "connect" THEN "reading" ELSE "off",
                      !.pc = CASE cmd = "connect" -> "check" [] cmd = "other" -> "done"
                               [] OTHER -> "handle"]
         /\ wire' = IF cmd # "other" THEN rest
                    ELSE [rest EXCEPT !.down = Append(@, [Msg("reply") EXCEPT !.what = "refused"])]
  /\ cli' = [cli EXCEPT !.eaten.up = @ + k]
  /\ UNCHANGED <<conf, got, target, port, assoc>>

\* readTimeout, or the end of the stream.
HandshakeEnds ==
  /\ srv.pc \in {"methods", "auth", "request"}
  /\ srv' = [srv EXCEPT !.pc = "done"]
  /\ UNCHANGED <<conf, cli, wire, got, target, port, assoc>>
------------------------------------------------------------------------------
(* CONNECT.                                                                *)

\* The monitor reads the client while the rules are asked: what it gets is lost.
MonitorReads ==
  /\ srv.monitor \in {"reading", "stopping"} /\ wire.up # <<>>
  /\ wire' = Took("up", <<>>)
  /\ cli' = [cli EXCEPT !.eaten.up = @ + 1]
  /\ UNCHANGED <<conf, srv, got, target, port, assoc>>

\* Contains returns: allowed or not, at the latest when the client has gone.
CheckReturns(allowed) ==
  /\ srv.pc = "check"
  /\ srv' = [srv EXCEPT !.pc = "join", !.verdict = IF allowed THEN "allowed" ELSE "blocked",
                        !.monitor = IF @ = "off" THEN "off" ELSE "stopping"]
  /\ UNCHANGED <<conf, cli, wire, got, target, port, assoc>>

\* The monitor's read times out after two seconds, or fails.
MonitorEnds ==
  /\ srv.monitor = "stopping" \/ (srv.monitor = "reading" /\ cli.gone /\ wire.up = <<>>)
  /\ srv' = [srv EXCEPT !.monitor = "off"]
  /\ UNCHANGED <<conf, cli, wire, got, target, port, assoc>>

\* Mutant: the handler goes on without waiting for the monitor.
JoinMonitorNot(dials) ==
  /\ srv.pc = "join"
  /\ IF srv.verdict = "blocked" \/ ~dials
     THEN srv' = [srv EXCEPT !.pc = "done"] /\ wire' = Reply("refused")
     ELSE srv' = [srv EXCEPT !.pc = "tunnel"] /\ wire' = Reply("ok")
  /\ UNCHANGED <<conf, cli, got, target, port, assoc>>

\* <-monitorDone, the verdict, the dial and the reply.
JoinMonitor(dials) ==
  /\ srv.pc = "join" /\ srv.monitor = "off"
  /\ IF srv.verdict = "blocked" \/ ~dials
     THEN srv' = [srv EXCEPT !.pc = "done"] /\ wire' = Reply("refused")
     ELSE srv' = [srv EXCEPT !.pc = "tunnel"] /\ wire' = Reply("ok")
  /\ UNCHANGED <<conf, cli, got, target, port, assoc>>
------------------------------------------------------------------------------
(* The tunnel: CONNECT, an accepted peer of BIND, and UDP over TCP, where   *)
(* each piece is a datagram behind its length.                             *)

OverTCP == srv.cmd \in {"udptun", "udpbind"}
Tunnelling == srv.pc = "tunnel" \/ (srv.pc = "relay" /\ OverTCP)

\* udpTunConn.WriteTo: the length is the reserved field.
Piece(n, size) == [t |-> "data", what |-> "none", n |-> n, len |-> size]

ClientSends(size) ==
  /\ cli.pc = "open" \/ (cli.pc = "reply" /\ conf.eager)
  /\ ~cli.gone /\ cli.sent < MaxPieces
  /\ srv.cmd # "udp"
  /\ wire' = [wire EXCEPT !.up = Append(@, Piece(cli.sent + 1, size))]
  /\ cli' = [cli EXCEPT !.sent = @ + 1]
  /\ UNCHANGED <<conf, srv, got, target, port, assoc>>

TargetSends(size) ==
  /\ Tunnelling /\ target < MaxPieces
  /\ target' = target + 1
  /\ wire' = [wire EXCEPT !.down = Append(@, Piece(target + 1, size))]
  /\ UNCHANGED <<conf, srv, cli, got, port, assoc>>

\* UDPDatagram.ReadFrom on a stream: a length of zero stands for a datagram that
\* ends with the stream, so everything behind it is waited for.
Readable5(way) == wire[way] # <<>> /\ Head(wire[way]).t = "data"
                  /\ ~(OverTCP /\ Head(wire[way]).len = 0)

\* pipeBuffer towards the target; with datagrams, Relay.Run behind the rules.
PipeUp ==
  /\ Tunnelling /\ Readable5("up")
  /\ got' = [got EXCEPT !.up = Append(@, Head(wire.up).n)]
  /\ wire' = Took("up", <<>>)
  /\ UNCHANGED <<conf, srv, cli, target, port, assoc>>

ClientReads ==
  /\ cli.pc = "open" /\ Readable5("down")
  /\ got' = [got EXCEPT !.down = Append(@, Head(wire.down).n)]
  /\ wire' = Took("down", <<>>)
  /\ UNCHANGED <<conf, srv, cli, target, port, assoc>>

\* How many of the first n messages are data.
PiecesIn(w, n) == Cardinality({i \in 1 .. n : w[i].t = "data"})

\* ReadReply; Accept of a bound port waits for a second one, even if the read of
\* the first has taken it, and then data is no reply.
ClientReply(k) ==
  /\ cli.pc \in {"reply", "peer"} /\ wire.down # <<>> /\ k \in Behind5("down")
  /\ LET ok == Arrived("down", "reply") /\ Head(wire.down).what = "ok"
     IN  cli' = [cli EXCEPT !.gone = ~ok, !.eaten.down = @ + PiecesIn(wire.down, k + 1),
                            !.pc = IF ~ok THEN "closed"
                                   ELSE IF srv.cmd = "bind" /\ cli.pc = "reply" THEN "peer" ELSE "open"]
  /\ wire' = TookMore("down", k)
  /\ UNCHANGED <<conf, srv, got, target, port, assoc>>

\* The client closes, whenever it likes, or as the handler has ended.
ClientCloses ==
  /\ ~cli.gone
  /\ cli' = [cli EXCEPT !.gone = TRUE, !.pc = "closed"]
  /\ UNCHANGED <<conf, srv, wire, got, target, port, assoc>>

\* Pipe: one direction ends and is half closed, ...
PipeEnds ==
  /\ srv.pc = "tunnel" /\ cli.gone /\ wire.up = <<>>
  /\ srv' = [srv EXCEPT !.pc = "halfClosed"]
  /\ UNCHANGED <<conf, cli, wire, got, target, port, assoc>>

\* ... the other one at its end of stream, or at the deadline of the half close;
\* the handler's deferred calls close both.
HalfCloseEnds ==
  /\ srv.pc = "halfClosed"
  /\ srv' = [srv EXCEPT !.pc = "done"]
  /\ port' = [port EXCEPT !.peer = IF @ = "open" THEN "closed" ELSE @]
  /\ UNCHANGED <<conf, cli, wire, got, target, assoc>>

\* The target closes the tunnel, and the client reads the end of its stream.
TargetCloses ==
  /\ srv.pc = "tunnel" /\ ~cli.gone /\ wire.up = <<>>
  /\ srv' = [srv EXCEPT !.pc = "halfClosed"]
  /\ UNCHANGED <<conf, cli, wire, got, target, port, assoc>>
------------------------------------------------------------------------------
(* BIND.                                                                   *)

\* What a handler does before it serves: it refuses what is not allowed, reports
\* what failed, or replies; to a client that has gone the reply may fail.
Refuse == srv' = [srv EXCEPT !.pc = "done"] /\ wire' = Reply("refused") /\ UNCHANGED port
CutOff == srv' = [srv EXCEPT !.pc = "done"] /\ port' = [port EXCEPT !.ln = "closed"] /\ UNCHANGED wire

\* handleBind and bindLocal.
HandleBind(ok) ==
  /\ srv.pc = "handle" /\ srv.cmd = "bind"
  /\ IF ~conf.bind \/ ~ok THEN Refuse
     ELSE \/ cli.gone /\ CutOff
          \/ /\ wire' = Reply("ok") /\ srv' = [srv EXCEPT !.pc = "serveBind"]
             /\ port' = [NoPort EXCEPT !.ln = "open", !.acc = "waiting", !.pipe = "running"]
  /\ UNCHANGED <<conf, cli, got, target, assoc>>

\* handleMuxBind and muxBindLocal; without a session serveMuxBind returns, and the
\* listener stays.
HandleMuxBind(ok) ==
  /\ srv.pc = "handle" /\ srv.cmd = "mbind"
  /\ IF ~conf.bind \/ ~ok THEN Refuse
     ELSE \/ cli.gone /\ CutOff
          \/ /\ wire' = Reply("ok") /\ srv' = [srv EXCEPT !.pc = IF conf.muxOk THEN "serveMux" ELSE "done"]
             /\ port' = [NoPort EXCEPT !.ln = "open"]
  /\ UNCHANGED <<conf, cli, got, target, assoc>>

\* The goroutine of accept: the peer, or an error; then the listener is closed.
PeerArrives(ok) ==
  /\ srv.cmd = "bind" /\ port.acc = "waiting" /\ port.ln = "open"
  /\ port' = [port EXCEPT !.acc = IF ok THEN "peer" ELSE "error", !.ln = "closed", !.peer = IF ok THEN "open" ELSE "none"]
  /\ UNCHANGED <<conf, srv, cli, wire, got, target, assoc>>

\* The goroutine of pipe ends with the client.
PipeGone ==
  /\ srv.pc = "serveBind" /\ port.pipe = "running" /\ cli.gone
  /\ port' = [port EXCEPT !.pipe = "ended"]
  /\ UNCHANGED <<conf, srv, cli, wire, got, target, assoc>>

\* The select, the case of accept.
SelectAccept ==
  /\ srv.pc = "serveBind" /\ port.acc \in {"peer", "error"}
  /\ srv' = [srv EXCEPT !.pc = IF port.acc = "peer" THEN "tunnel" ELSE "done"]
  /\ wire' = Reply(IF port.acc = "peer" THEN "ok" ELSE "refused")
  /\ UNCHANGED <<conf, cli, got, target, port, assoc>>

\* Mutant: the listener is left to accept.
SelectPipeOnly ==
  /\ srv.pc = "serveBind" /\ port.pipe = "ended"
  /\ srv' = [srv EXCEPT !.pc = "done"]
  /\ UNCHANGED <<conf, cli, wire, got, target, port, assoc>>

\* The case of pipe.  A peer that was accepted by then is not closed.
SelectPipe ==
  /\ srv.pc = "serveBind" /\ port.pipe = "ended"
  /\ srv' = [srv EXCEPT !.pc = "done"]
  /\ port' = [port EXCEPT !.ln = "closed"]
  /\ UNCHANGED <<conf, cli, wire, got, target, assoc>>

\* serveMuxBind: a peer is accepted and piped over a stream of its own, or its
\* pipe ends, ...
ServeMuxPeer ==
  /\ srv.pc = "serveMux" /\ port.ln = "open"
  /\ port' = [port EXCEPT !.peer = IF @ = "open" THEN "closed" ELSE "open"]
  /\ UNCHANGED <<conf, srv, cli, wire, got, target, assoc>>

\* ... and the end of the session closes the listener, the streams and the loop.
ServeMuxEnds ==
  /\ srv.pc = "serveMux" /\ cli.gone
  /\ srv' = [srv EXCEPT !.pc = "done"]
  /\ port' = [port EXCEPT !.ln = "closed", !.peer = IF @ = "open" THEN "closed" ELSE @]
  /\ UNCHANGED <<conf, cli, wire, got, target, assoc>>
------------------------------------------------------------------------------
(* UDP.                                                                    *)

Relaying ==
  /\ srv' = [srv EXCEPT !.pc = "relay"]
  /\ assoc' = [NoAssoc EXCEPT !.uplink = "running", !.downlink = "running"]

Leaves == srv' = [srv EXCEPT !.pc = "done"] /\ UNCHANGED assoc

\* handleUDP: it replies before it dials.
HandleUDP(listens, dials) ==
  /\ srv.pc = "handle" /\ srv.cmd = "udp"
  /\ wire' = Reply(IF conf.udp /\ listens THEN "ok" ELSE "refused")
  /\ IF conf.udp /\ listens /\ dials THEN Relaying ELSE Leaves
  /\ UNCHANGED <<conf, cli, got, target, port>>

\* handleUDPTun: without a port it dials, and replies only if it can; with one it
\* listens, and says when it cannot.
HandleUDPTun(ok) ==
  /\ srv.pc = "handle" /\ OverTCP
  /\ LET allowed == IF srv.cmd = "udptun" THEN conf.udp ELSE conf.bind
     IN  /\ wire' = CASE allowed /\ ok -> Reply("ok")
                      [] allowed /\ ~ok /\ srv.cmd = "udptun" -> wire
                      [] OTHER -> Reply("refused")
         /\ IF allowed /\ ok THEN Relaying ELSE Leaves
  /\ UNCHANGED <<conf, cli, got, target, port>>

\* A datagram for the association: filteredPacketConn, then udpConn.ReadFrom,
\* which notes the source before it reads the header; a header that cannot be
\* read or a write that fails ends the direction.
AssocUp(src, ok) ==
  /\ srv.pc = "relay" /\ srv.cmd = "udp" /\ assoc.uplink = "running" /\ src \in OwnSources
  /\ assoc' = [assoc EXCEPT !.raddr = src, !.uplink = IF ok THEN @ ELSE "ended"]
  /\ UNCHANGED <<conf, srv, cli, wire, got, target, port>>

\* A datagram from outside goes to the last source, or ends the direction when
\* there has been none.
AssocDown ==
  /\ srv.pc = "relay" /\ srv.cmd = "udp" /\ assoc.downlink = "running"
  /\ assoc' = IF assoc.raddr = "none" THEN [assoc EXCEPT !.downlink = "ended"]
              ELSE [assoc EXCEPT !.sentTo = @ \cup {assoc.raddr}]
  /\ UNCHANGED <<conf, srv, cli, wire, got, target, port>>

\* Over TCP, a write that fails ends the relay and the handler.
RelayFails ==
  /\ srv.pc = "relay" /\ OverTCP
  /\ srv' = [srv EXCEPT !.pc = "done"]
  /\ UNCHANGED <<conf, cli, wire, got, target, port, assoc>>

\* The end of the TCP connection ends both directions.
RelayEnds ==
  /\ srv.pc = "relay" /\ cli.gone
  /\ srv' = [srv EXCEPT !.pc = "done"]
  /\ assoc' = [assoc EXCEPT !.uplink = "ended", !.downlink = "ended"]
  /\ UNCHANGED <<conf, cli, wire, got, target, port>>
------------------------------------------------------------------------------
SocksInit ==
  /\ conf \in SocksConfs
  /\ srv = [pc |-> "methods", method |-> "none", cmd |-> "none", verdict |-> "none", monitor |-> "off"]
  /\ cli = [pc |-> "start", gone |-> FALSE, sent |-> 0, eaten |-> [up |-> 0, down |-> 0]]
  /\ wire = [up |-> <<>>, down |-> <<>>] /\ got = [up |-> <<>>, down |-> <<>>]
  /\ target = 0 /\ port = NoPort /\ assoc = NoAssoc

\* What the handler's goroutines do by themselves.
HandlerStep ==
  \/ ServerHandshake \/ HandshakeEnds
  \/ \E ok \in BOOLEAN : ServerAuth(ok) \/ CheckReturns(ok) \/ JoinMonitor(ok)
  \/ \E ok \in BOOLEAN : HandleBind(ok) \/ HandleMuxBind(ok) \/ HandleUDPTun(ok)
  \/ \E k \in 0 .. MaxPieces : ServerRequest(k)
  \/ MonitorReads \/ MonitorEnds \/ PipeUp \/ PipeEnds \/ HalfCloseEnds
  \/ PipeGone \/ SelectAccept \/ SelectPipe \/ ServeMuxEnds
  \/ \E l, d \in BOOLEAN : HandleUDP(l, d)
  \/ RelayEnds

OutsideStep ==
  \/ ClientHello \/ ClientOnSelected \/ ClientAuthResult \/ ClientReads \/ ClientCloses
  \/ ConnectUDP \/ OtherRequest \/ ServeMuxPeer
  \/ \E n \in NameLens : Connect(n) \/ Bind(n)
  \/ \E k \in 0 .. MaxPieces : ClientReply(k)
  \/ \E size \in Sizes : ClientSends(size) \/ TargetSends(size)
  \/ \E ok \in BOOLEAN : PeerArrives(ok) \/ \E src \in Sources : AssocUp(src, ok)
  \/ AssocDown \/ TargetCloses \/ RelayFails

SocksNext == HandlerStep \/ OutsideStep

SocksSpec == SocksInit /\ [][SocksNext]_socksVars

\* The handler's goroutines are scheduled, its deadlines pass, Contains and the
\* dial return.
SocksFairness == WF_socksVars(HandlerStep)
------------------------------------------------------------------------------
\* The pieces numbered from "from" to "to", in their order, are the received ones
\* and then those of w, where the first c messages are the protocol's and the
\* rest is data.
Flows(received, w, c, from, to) ==
  /\ c \in 0 .. Len(w)
  /\ \A i \in 1 .. c : w[i].t # "data"
  /\ \A i \in c + 1 .. Len(w) : w[i].t = "data" /\ w[i].n = from + Len(received) + i - c - 1
  /\ \A i \in DOMAIN received : received[i] = from + i - 1
  /\ from + Len(received) + Len(w) - c = to + 1

Intact(received, w, from, to) == \E c \in 0 .. Len(w) : Flows(received, w, c, from, to)

(* The tunnel keeps what is sent into it.  Of what a client sends that      *)
(* waits for the reply the target gets a beginning, in order, and nothing   *)
(* is lost while the tunnel is open; so does the client of what the target  *)
(* sends, behind the pieces that its read of a reply may have taken, which  *)
(* TLS prevents.  A reply of a UDP association goes to an address of the    *)
(* client.  The monitor that reads the client during the rule check must    *)
(* have ended by then (connect.go), and the codecs agree on every length.   *)
TunnelIntact ==
  /\ ~conf.eager => /\ cli.eaten.up = 0
                    /\ Intact(got.up, wire.up, 1, cli.sent)
  /\ Intact(got.down, wire.down, cli.eaten.down + 1, target)
  /\ Secure => cli.eaten.down = 0
  /\ assoc.sentTo \subseteq OwnSources

(* Whatever the client asked for, the handler ends some time after the      *)
(* client has gone, and a port that it listened on is closed; except if the *)
(* multiplexing session of a bound port could not be made.                  *)
SocksReleased ==
  []<>(cli.gone => srv.pc = "done" /\ srv.monitor = "off" /\ (port.ln # "open" \/ ~conf.muxOk))
=============================================================================
