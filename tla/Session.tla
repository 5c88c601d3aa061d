------------------------------ MODULE Session ------------------------------
(***************************************************************************)
(* One amqpprox session: the Session class with its two sockets, its       *)
(* Connector and its SessionState, driven by the io thread (completion     *)
(* handlers) and by the control thread (SESSION and VHOST commands), and   *)
(* the client and the broker at the other ends of the sockets.             *)
(*                                                                         *)
(* The state of the session is the record s, and each method of Session is *)
(* an operator from a value of s to the next one, so that a handler is the *)
(* composition of the methods it calls.  Every completion handler and      *)
(* every control command is one atomic step.                               *)
(*                                                                         *)
(* A pending asynchronous operation is counted, per flow, in               *)
(*   rd       reads waiting for data on the flow's read socket,            *)
(*   wd       writes whose data is sent and whose handler is queued,       *)
(*   ab, bad  handlers queued with operation_aborted, with another error,  *)
(* and a write that does not fit into the socket waits in blocked.         *)
(***************************************************************************)
EXTENDS Connector, FiniteSets

CONSTANTS
    Tls,           \* the sets of sides that may be secured
    ProxyProtocol, \* whether the backends may want a proxy protocol header
    NBackends,     \* getConnection(retry) is a backend iff retry < NBackends
    MaxEndpoints,  \* bound on the endpoints a name resolves to
    Cap,           \* a write is sent at once while fewer frames are in flight
    Statuses,      \* what acquireConnection may return
    Commands,      \* the control commands that may be issued
    MaxCommands,   \* bound on the number of commands issued
    MaxData,       \* bound on the content frames each peer sends
    MaxHeartbeats, \* bound on the heartbeats the client sends
    Misbehave      \* what the peers and the network may do wrong

ConnectionStatus == {"SUCCESS", "LIMIT", "NO_FARM", "ERROR_FARM", "NO_BACKEND"}
Command == {"pause", "vhost_pause", "unpause", "graceful", "force", "backend"}
Fault == {"old_header", "client_drop", "broker_drop", "refuse", "close", "deny", "tls"}

ASSUME ConstantsAssumption ==
    /\ Tls \subseteq SUBSET FlowType /\ ProxyProtocol \subseteq BOOLEAN
    /\ NBackends \in Nat \ {0} /\ MaxEndpoints \in Nat \ {0}
    /\ Cap \in Nat \ {0} /\ Statuses \subseteq ConnectionStatus
    /\ Commands \subseteq Command /\ Misbehave \subseteq Fault
    /\ MaxCommands \in Nat /\ MaxData \in Nat /\ MaxHeartbeats \in Nat

VARIABLES s, client, broker, cmds
vars == <<s, client, broker, cmds>>

DisconnectType ==
    {"NOT_DISCONNECTED", "DISCONNECTED_CLEANLY", "DISCONNECTED_CLIENT",
     "DISCONNECTED_SERVER", "DISCONNECTED_PROXY"}

\* Where the egress connection is: the asynchronous operation that is pending.
Pipeline == {"none", "limit", "auth", "resolve", "connect", "proxy", "tls"}

\* A write that waits: the flow it continues and the frames it sends.
PendingWrite == [flow : FlowType, msgs : Seq(Frame)]

SessionType ==
    [tls : SUBSET FlowType, proxy : BOOLEAN,
     conn : State, disc : DisconnectType, paused : BOOLEAN, ready : BOOLEAN,
     vhost : BOOLEAN, vpaused : BOOLEAN, allowed : BOOLEAN, shake : BOOLEAN,
     sock : [FlowType -> {"closed", "connecting", "open", "shut"}],
     rd : [FlowType -> Nat], wd : [FlowType -> Nat],
     ab : [FlowType -> Nat], bad : [FlowType -> Nat],
     blocked : [FlowType -> Seq(PendingWrite)],
     buf : [FlowType -> Seq(Frame)],
     eg : Pipeline, ep : Nat, retry : Nat, posted : SUBSET {"both", "backend"},
     in : [FlowType -> Seq(Frame)], out : [FlowType -> Seq(Frame)],
     fin : [FlowType -> BOOLEAN]]

-----------------------------------------------------------------------------
(* The methods of Session.                                                 *)

Finished(t) == t.disc # "NOT_DISCONNECTED"

\* readData: on a closed socket the read fails with bad_descriptor.
ReadData(t, d) ==
    IF t.sock[d] = "closed" THEN [t EXCEPT !.bad[d] = @ + 1]
                            ELSE [t EXCEPT !.rd[d] = @ + 1]

\* handleWriteData(direction, writeSocket, data): sent at once when it fits.
HandleWriteData(t, d, side, data) ==
    CASE t.sock[side] \in {"closed", "shut"} -> [t EXCEPT !.bad[d] = @ + 1]
      [] /\ t.sock[side] = "open"
         /\ t.blocked[side] = <<>>
         /\ Len(t.out[side]) < Cap ->
            [t EXCEPT !.wd[d] = @ + 1, !.out[side] = @ \o data]
      [] OTHER ->
            [t EXCEPT !.blocked[side] = Append(@, [flow |-> d, msgs |-> data])]

\* close() on a socket: what is pending on it completes as aborted.
BlockedOf(q, d) == Cardinality({i \in DOMAIN q : q[i].flow = d})

Close(t, side) ==
    IF t.sock[side] = "closed"
    THEN t
    ELSE [t EXCEPT
            !.sock[side] = "closed",
            !.ab = [d \in FlowType |->
                        @[d] + BlockedOf(t.blocked[side], d)
                             + (IF d = side THEN t.rd[d] ELSE 0)],
            !.rd[side] = 0, !.blocked[side] = <<>>, !.in[side] = <<>>]

\* async_shutdown followed by close: a secured socket first exchanges the TLS
\* shutdown and is closed by a later handler (ShutdownDone).
Shutdown(t, side) ==
    IF side \in t.tls /\ t.sock[side] \in {"open", "shut"}
    THEN [t EXCEPT !.sock[side] = "shut"]
    ELSE Close(t, side)

PerformDisconnectBoth(t) == Shutdown(Shutdown(t, "EGRESS"), "INGRESS")

\* disconnect(true).  dispatch runs the closure at once on the io thread and
\* posts it from the control thread.
Disconnect(t, onIo) ==
    LET u == [t EXCEPT !.disc = "DISCONNECTED_PROXY"]
    IN  IF onIo THEN PerformDisconnectBoth(u)
                ELSE [u EXCEPT !.posted = @ \cup {"both"}]

\* sendSyntheticData of one frame to a side.
SendSyntheticData(t, side, f, onIo) ==
    LET u == HandleWriteData(t, side, side, <<Frm(f)>>)
    IN  IF u.conn = "ERROR" THEN Disconnect(u, onIo) ELSE u

\* Mutants of HandleSessionError: the last error decides who is blamed; the
\* broker's socket is left open.
ErrorBlamesLast(t, d, aborted) ==
    LET u == [t EXCEPT !.disc = IF d = "INGRESS" THEN "DISCONNECTED_CLIENT"
                                                 ELSE "DISCONNECTED_SERVER"]
    IN  IF aborted THEN u ELSE Close(Close(u, "EGRESS"), "INGRESS")

ErrorKeepsEgress(t, d, aborted) ==
    LET u == [t EXCEPT !.disc = IF Finished(t) THEN @ ELSE "DISCONNECTED_CLIENT"]
    IN  IF aborted THEN u ELSE Close(u, "INGRESS")

HandleSessionError(t, d, aborted) ==
    IF t.conn # "CLOSED" /\ d = "INGRESS" /\ t.conn = "CLIENT_CLOSE_SENT"
    THEN LET u == [t EXCEPT !.conn = "SERVER_CLOSE_SENT"]
         IN  SendSyntheticData(
                 SendSyntheticData(u, "EGRESS", "Close", TRUE),
                 "INGRESS", "Close", TRUE)
    ELSE LET u == [t EXCEPT !.disc =
                      CASE t.conn = "CLOSED" -> "DISCONNECTED_CLEANLY"
                        [] t.conn # "CLOSED" /\ Finished(t) -> @
                        [] OTHER -> IF d = "INGRESS" THEN "DISCONNECTED_CLIENT"
                                                 ELSE "DISCONNECTED_SERVER"]
         IN  IF aborted THEN u ELSE Close(Close(u, "EGRESS"), "INGRESS")

-----------------------------------------------------------------------------
(* Establishing the egress connection.                                     *)

\* Mutant of AttemptConnection: nothing is done when the backends run out.
AttemptConnectionGivesUp(t, onIo) ==
    [t EXCEPT !.eg = IF t.paused \/ Finished(t) \/ t.retry >= NBackends
                     THEN "none" ELSE "resolve"]

\* attemptConnection: getConnection is null once the retries run out.
AttemptConnection(t, onIo) ==
    CASE t.paused \/ Finished(t) -> [t EXCEPT !.eg = "none"]
      [] ~t.paused /\ ~Finished(t) /\ t.retry >= NBackends ->
            Disconnect([t EXCEPT !.eg = "none"], onIo)
      [] OTHER -> [t EXCEPT !.eg = "resolve"]

\* attemptResolvedConnection and the async_connect it starts, which opens the
\* client socket again if it was closed.
AttemptResolvedConnection(t) ==
    IF t.ep = 0
    THEN AttemptConnection([t EXCEPT !.retry = @ + 1], TRUE)
    ELSE [t EXCEPT !.ep = @ - 1, !.eg = "connect",
                   !.sock["EGRESS"] = "connecting"]

\* Mutants of EstablishConnection: the client is not authenticated; it is told
\* OpenOk before there is a broker.
EstablishUnauthenticated(t, rc, onIo) ==
    IF t.paused THEN [t EXCEPT !.ready = TRUE] ELSE [t EXCEPT !.eg = "resolve"]

EstablishTellsClient(t, rc, onIo) ==
    SendSyntheticData([t EXCEPT !.eg = "auth"], "INGRESS", "OpenOk", onIo)

\* establishConnection, given the answer rc of acquireConnection.
EstablishConnection(t, rc, onIo) ==
    CASE t.paused -> [t EXCEPT !.ready = TRUE]
      [] ~t.paused /\ rc = "LIMIT" -> [t EXCEPT !.eg = "limit"]
      [] ~t.paused /\ rc = "SUCCESS" -> [t EXCEPT !.eg = "auth"]
      [] OTHER -> Disconnect(SendSyntheticData(t, "INGRESS", "Close", onIo),
                             onIo)

\* The handshake callback of the egress socket.
EgressHandshook(t) ==
    HandleWriteData([t EXCEPT !.eg = "none"], "EGRESS", "EGRESS",
                    <<Frm("Header")>>)

\* async_handshake on the egress socket: synchronous unless secured.
EgressHandshake(t) ==
    IF "EGRESS" \in t.tls THEN [t EXCEPT !.eg = "tls"] ELSE EgressHandshook(t)

\* connectionVhostEstablished, with the pauser subscribed to it, and the
\* connection creation handler.
VhostEstablished(t, rc) ==
    EstablishConnection(
        [t EXCEPT !.vhost = TRUE, !.paused = @ \/ t.vpaused], rc, TRUE)

\* handleData on the frames of the read buffer.
HandleData(t, d, rc) ==
    LET p  == Process(t.conn, t.buf[d], d)
        t1 == [t EXCEPT !.conn = p.st]
        t2 == IF p.create THEN VhostEstablished(t1, rc) ELSE t1
        t3 == [t2 EXCEPT !.buf[d] = <<>>]
        isOpen == p.st = "OPEN"
        t4 == CASE p.iw # <<>> ->
                     HandleWriteData(t3, IF isOpen THEN "EGRESS" ELSE "INGRESS",
                                     "INGRESS", p.iw)
                [] p.iw = <<>> /\ p.ew # <<>> ->
                     HandleWriteData(t3, IF isOpen THEN "INGRESS" ELSE "EGRESS",
                                     "EGRESS", p.ew)
                [] OTHER -> ReadData(t3, d)
    IN  CASE p.exc = "CloseError" ->
               Disconnect(SendSyntheticData(t2, "INGRESS", "Close", TRUE), TRUE)
          [] p.exc = "runtime_error" -> Disconnect(t2, TRUE)
          [] p.exc = "none" /\ p.st = "CLOSED" -> PerformDisconnectBoth(t4)
          [] p.exc = "none" /\ p.st = "ERROR" -> Disconnect(t4, TRUE)
          [] OTHER -> t4

-----------------------------------------------------------------------------
(* The steps of the io thread: one action per completion handler.          *)

Peers == <<client, broker, cmds>>

\* Mutant of ReadSome: the pause is not looked at.
ReadSomeUnpaused(d) ==
    /\ s.rd[d] > 0 /\ s.sock[d] \in {"open", "shut"} /\ s.in[d] # <<>>
    /\ \E rc \in Statuses :
          s' = HandleData([s EXCEPT !.rd[d] = @ - 1,
                                    !.buf[d] = @ \o <<Head(s.in[d])>>,
                                    !.in[d] = Tail(@)], d, rc)
    /\ UNCHANGED Peers

\* The handler of a read that finds data: read_some takes what is available,
\* and a paused session neither handles ingress data nor reads again.
ReadSome(d) ==
    /\ s.rd[d] > 0 /\ s.sock[d] \in {"open", "shut"} /\ s.in[d] # <<>>
    /\ \E k \in 1..Len(s.in[d]), rc \in Statuses :
        /\ k + Len(s.buf[d]) <= BufferFrames
        /\ LET t == [s EXCEPT !.rd[d] = @ - 1,
                              !.buf[d] = @ \o SubSeq(s.in[d], 1, k),
                              !.in[d] = SubSeq(@, k + 1, Len(@))]
           IN  s' = IF d = "EGRESS" \/ ~s.paused THEN HandleData(t, d, rc)
                                                 ELSE t
    /\ UNCHANGED Peers

\* Mutant of ReadEof: the end of the stream is taken for would_block.
ReadEofAgain(d) ==
    /\ s.rd[d] > 0 /\ s.in[d] = <<>> /\ s.sock[d] = "open" /\ s.fin[d]
    /\ s' = ReadData([s EXCEPT !.rd[d] = @ - 1], d)
    /\ UNCHANGED Peers

\* The handler of a read that finds the end of the stream.
ReadEof(d) ==
    /\ s.rd[d] > 0 /\ s.in[d] = <<>>
    /\ s.sock[d] = "shut" \/ (s.sock[d] = "open" /\ s.fin[d])
    /\ s' = HandleSessionError([s EXCEPT !.rd[d] = @ - 1], d, FALSE)
    /\ UNCHANGED Peers

\* A read or write handler called with operation_aborted or another error.
OperationAborted(d) ==
    /\ s.ab[d] > 0
    /\ s' = HandleSessionError([s EXCEPT !.ab[d] = @ - 1], d, TRUE)
    /\ UNCHANGED Peers

OperationFailed(d) ==
    /\ s.bad[d] > 0
    /\ s' = HandleSessionError([s EXCEPT !.bad[d] = @ - 1], d, FALSE)
    /\ UNCHANGED Peers

\* Mutant of WriteDone: the flow is not read again.
WriteDoneStops(d) ==
    /\ s.wd[d] > 0
    /\ s' = [s EXCEPT !.wd[d] = @ - 1]
    /\ UNCHANGED Peers

\* The write handler of handleWriteData goes on with a read.
WriteDone(d) ==
    /\ s.wd[d] > 0
    /\ s' = ReadData([s EXCEPT !.wd[d] = @ - 1], d)
    /\ UNCHANGED Peers

\* The reactor sends the data of a blocked write once there is space, or fails
\* it when the peer is gone.
Unblock(side) ==
    /\ s.blocked[side] # <<>> /\ s.sock[side] = "open"
    /\ LET w == Head(s.blocked[side])
           t == [s EXCEPT !.blocked[side] = Tail(@)]
       IN  \/ /\ Len(s.out[side]) < Cap
              /\ s' = [t EXCEPT !.out[side] = @ \o w.msgs,
                                !.wd[w.flow] = @ + 1]
           \/ /\ s.fin[side] /\ Len(s.out[side]) >= Cap
              /\ s' = [t EXCEPT !.bad[w.flow] = @ + 1]
    /\ UNCHANGED Peers

\* The handler of async_shutdown on a secured socket.
ShutdownDone(side) ==
    /\ s.sock[side] = "shut"
    /\ s' = Close(s, side)
    /\ UNCHANGED Peers

\* The handshake callback of start(): the TLS handshake with the client.
IngressHandshake ==
    /\ s.shake
    /\ LET t == [s EXCEPT !.shake = FALSE]
       IN  IF s.sock["INGRESS"] = "open" /\ ~s.fin["INGRESS"]
           THEN \/ s' = ReadData(t, "INGRESS")
                \/ /\ "tls" \in Misbehave
                   /\ s' = HandleSessionError(t, "INGRESS", FALSE)
           ELSE s' = HandleSessionError(t, "INGRESS",
                                        s.sock["INGRESS"] = "closed")
    /\ UNCHANGED Peers

\* The timer of a rate limited connection, which nothing cancels.
LimitTimer ==
    /\ s.eg = "limit"
    /\ s' = Disconnect(SendSyntheticData([s EXCEPT !.eg = "none"],
                                         "INGRESS", "Close", TRUE), TRUE)
    /\ UNCHANGED Peers

\* The callback of authenticate.  A denied client that has the capability
\* authentication_failure_close is told so with a Close.
AuthResponse ==
    /\ s.eg = "auth"
    /\ \/ s' = AttemptConnection([s EXCEPT !.allowed = TRUE], TRUE)
       \/ /\ "deny" \in Misbehave
          /\ LET t == [s EXCEPT !.eg = "none"]
             IN  \/ s' = Disconnect(t, TRUE)
                 \/ s' = Disconnect(
                            SendSyntheticData(t, "INGRESS", "Close", TRUE), TRUE)
    /\ UNCHANGED Peers

\* The callback of resolve, with n endpoints or none.
Resolved ==
    /\ s.eg = "resolve"
    /\ \E n \in 1..MaxEndpoints :
          s' = AttemptResolvedConnection([s EXCEPT !.ep = n])
    /\ UNCHANGED Peers

ResolveFailed ==
    /\ s.eg = "resolve" /\ "refuse" \in Misbehave
    /\ s' = AttemptConnection([s EXCEPT !.retry = @ + 1], TRUE)
    /\ UNCHANGED Peers

\* Mutant of Connected: a new connection makes the session a live one again.
ConnectedRevives ==
    /\ s.eg = "connect" /\ s.sock["EGRESS"] = "connecting"
    /\ s' = EgressHandshake([s EXCEPT !.sock["EGRESS"] = "open",
                                      !.disc = "NOT_DISCONNECTED"])
    /\ broker' = [broker EXCEPT !.st = "accepted"]
    /\ UNCHANGED <<client, cmds>>

\* synthesizeProxyProtocolHeader, and the write of the header.
SynthesizeProxyProtocolHeader(t) ==
    [t EXCEPT !.eg = "proxy", !.out["EGRESS"] = <<Frm("ProxyHeader")>>]

\* The callback of async_connect.  The wires of the new connection are empty
\* and the broker behind it waits for a protocol header.
Connected ==
    /\ s.eg = "connect" /\ s.sock["EGRESS"] = "connecting"
    /\ LET t == [s EXCEPT !.sock["EGRESS"] = "open", !.fin["EGRESS"] = FALSE,
                          !.in["EGRESS"] = <<>>, !.out["EGRESS"] = <<>>]
       IN  s' = IF s.proxy THEN SynthesizeProxyProtocolHeader(t)
                ELSE EgressHandshake(t)
    /\ broker' = [broker EXCEPT !.st = "accepted"]
    /\ UNCHANGED <<client, cmds>>

\* async_connect fails, or was aborted by a close: handleConnectionError.
\* What was started on the socket meanwhile fails with it.
ConnectFailed ==
    /\ s.eg = "connect"
    /\ s.sock["EGRESS"] = "closed" \/ "refuse" \in Misbehave
    /\ LET t == [s EXCEPT
                   !.bad = [d \in FlowType |->
                       @[d] + BlockedOf(s.blocked["EGRESS"], d)
                            + (IF d = "EGRESS" THEN s.rd[d] ELSE 0)],
                   !.rd["EGRESS"] = 0, !.blocked["EGRESS"] = <<>>]
       IN  s' = AttemptResolvedConnection(t)
    /\ UNCHANGED Peers

\* The handler of the proxy protocol header's write.
ProxyHeaderWritten ==
    /\ s.eg = "proxy"
    /\ \/ s' = EgressHandshake(s)
       \/ /\ s.fin["EGRESS"]
          /\ s' = HandleSessionError([s EXCEPT !.eg = "none"], "INGRESS", FALSE)
    /\ UNCHANGED Peers

\* The callback of the TLS handshake with the broker.
EgressTls ==
    /\ s.eg = "tls"
    /\ LET t == [s EXCEPT !.eg = "none"]
       IN  IF s.sock["EGRESS"] = "open" /\ ~s.fin["EGRESS"]
           THEN \/ s' = EgressHandshook(t)
                \/ /\ "tls" \in Misbehave
                   /\ s' = HandleSessionError(t, "INGRESS", FALSE)
           ELSE \E aborted \in BOOLEAN :
                    /\ aborted => s.sock["EGRESS"] = "closed"
                    /\ s' = HandleSessionError(t, "INGRESS", aborted)
    /\ UNCHANGED Peers

\* The closures that disconnect and backendDisconnect dispatched from the
\* control thread.
RunPosted ==
    /\ \/ /\ "both" \in s.posted
          /\ s' = PerformDisconnectBoth([s EXCEPT !.posted = @ \ {"both"}])
       \/ /\ "backend" \in s.posted
          /\ s' = Shutdown([s EXCEPT !.posted = @ \ {"backend"}], "EGRESS")
    /\ UNCHANGED Peers

-----------------------------------------------------------------------------
(* The control thread.  The VHOST commands visit the sessions whose virtual *)
(* host is known to be the one named.                                      *)

Issue(c) ==
    /\ c \in Commands /\ cmds < MaxCommands
    /\ cmds' = cmds + 1
    /\ UNCHANGED <<client, broker>>

SessionPause == Issue("pause") /\ s' = [s EXCEPT !.paused = TRUE]

VhostPause ==
    Issue("vhost_pause")
    /\ s' = [s EXCEPT !.vpaused = TRUE, !.paused = @ \/ s.vhost]

\* unpause() on the sessions of the vhost.
Unpause(t, rc) ==
    CASE t.paused /\ t.ready ->
            EstablishConnection([t EXCEPT !.ready = FALSE, !.paused = FALSE],
                                rc, FALSE)
      [] t.paused /\ ~t.ready -> Disconnect(t, FALSE)
      [] OTHER -> t

VhostUnpause ==
    /\ Issue("unpause")
    /\ LET t == [s EXCEPT !.vpaused = FALSE]
       IN  \E rc \in Statuses : s' = IF s.vhost THEN Unpause(t, rc) ELSE t

\* disconnect(false), called on the control thread.
DisconnectGraceful ==
    /\ Issue("graceful")
    /\ s' = SendSyntheticData([s EXCEPT !.conn = "CLIENT_CLOSE_SENT"],
                              "INGRESS", "Close", FALSE)

ForceDisconnect == Issue("force") /\ s' = Disconnect(s, FALSE)

BackendDisconnect ==
    /\ Issue("backend") /\ s.vhost
    /\ s' = [s EXCEPT !.posted = @ \cup {"backend"}]

-----------------------------------------------------------------------------
(* The peers: an AMQP client and a broker.  They follow the protocol, may   *)
(* close at any time, and stop without a word when Misbehave allows it.     *)

PeerState ==
    {"none", "accepted", "header", "startok", "tuned", "opening", "open",
     "closing", "gone"}
\* A peer counts what it sent and took, and remembers whether it was opened.
PeerType == [st : PeerState, sent : Nat, got : Nat, hb : Nat, opened : BOOLEAN]
NewPeer(st) == [st |-> st, sent |-> 0, got |-> 0, hb |-> 0, opened |-> FALSE]

\* What a peer puts on the wire is lost when the proxy closed the socket.
FromPeer(t, side, frames) ==
    IF t.sock[side] = "open" THEN [t EXCEPT !.in[side] = @ \o frames] ELSE t

Took(t, side) == [t EXCEPT !.out[side] = Tail(@)]
Hangup(t, side) == [t EXCEPT !.fin[side] = TRUE, !.out[side] = <<>>]

ClientStart ==
    /\ client.st = "none" /\ ~s.shake
    /\ \E h \in {"Header"} \cup (IF "old_header" \in Misbehave
                                 THEN {"OldHeader"} ELSE {}) :
          s' = FromPeer(s, "INGRESS", <<Frm(h)>>)
    /\ client' = [client EXCEPT !.st = "header"]
    /\ UNCHANGED <<broker, cmds>>

\* The client takes the next frame and answers it.
ClientReply(f, t) ==
    CASE f.type = "Start" /\ client.st = "header" ->
            /\ s' = FromPeer(t, "INGRESS", <<Frm("StartOk")>>)
            /\ client' = [client EXCEPT !.st = "startok"]
      [] f.type = "Tune" /\ client.st = "startok" ->
            /\ s' = FromPeer(t, "INGRESS", <<Frm("TuneOk"), Frm("Open")>>)
            /\ client' = [client EXCEPT !.st = "opening"]
      [] f.type = "OpenOk" /\ client.st = "opening" ->
            /\ s' = t
            /\ client' = [client EXCEPT !.st = "open", !.opened = TRUE]
      [] f.type = "Content" ->
            /\ s' = t
            /\ client' = [client EXCEPT !.got = f.n]
      [] f.type = "Close" ->
            /\ s' = FromPeer(t, "INGRESS", <<Frm("CloseOk")>>)
            /\ client' = [client EXCEPT !.st = "closing"]
      [] f.type \in {"CloseOk", "Header"} ->
            /\ s' = Hangup(t, "INGRESS")
            /\ client' = [client EXCEPT !.st = "gone"]
      [] OTHER -> s' = t /\ UNCHANGED client

ClientReceive ==
    /\ client.st # "gone" /\ s.out["INGRESS"] # <<>>
    /\ ClientReply(Head(s.out["INGRESS"]), Took(s, "INGRESS"))
    /\ UNCHANGED <<broker, cmds>>

ClientSend ==
    /\ \/ /\ client.st = "open" /\ client.sent < MaxData
          /\ s' = FromPeer(s, "INGRESS",
                           <<[type |-> "Content", n |-> client.sent + 1]>>)
          /\ client' = [client EXCEPT !.sent = @ + 1]
       \/ /\ client.st \in {"opening", "open"} /\ client.hb < MaxHeartbeats
          /\ s' = FromPeer(s, "INGRESS", <<Frm("Heartbeat")>>)
          /\ client' = [client EXCEPT !.hb = @ + 1]
       \/ /\ client.st = "open" /\ "close" \in Misbehave
          /\ s' = FromPeer(s, "INGRESS", <<Frm("Close")>>)
          /\ client' = [client EXCEPT !.st = "closing"]
    /\ UNCHANGED <<broker, cmds>>

\* The client goes away: by itself, or because the proxy closed the socket.
ClientGone ==
    /\ client.st # "gone"
    /\ \/ "client_drop" \in Misbehave
       \/ s.sock["INGRESS"] = "closed" /\ s.out["INGRESS"] = <<>>
    /\ s' = Hangup(s, "INGRESS")
    /\ client' = [client EXCEPT !.st = "gone"]
    /\ UNCHANGED <<broker, cmds>>

BrokerAnswer(t, frames, st) ==
    /\ s' = FromPeer(t, "EGRESS", frames)
    /\ broker' = [broker EXCEPT !.st = st, !.opened = @ \/ st = "open"]

\* The broker refuses the handshake with a Close when Misbehave allows it.
BrokerReply(f, t) ==
    LET Or(frames, st) ==
            \/ BrokerAnswer(t, frames, st)
            \/ /\ "refuse" \in Misbehave
               /\ BrokerAnswer(t, <<Frm("Close")>>, "closing")
    IN
    CASE f.type = "Header" -> BrokerAnswer(t, <<Frm("Start")>>, "header")
      [] f.type = "StartOk" -> Or(<<Frm("Tune")>>, "startok")
      [] f.type = "TuneOk" /\ broker.st = "startok" ->
            BrokerAnswer(t, <<>>, "tuned")
      [] f.type = "Open" /\ broker.st = "tuned" ->
            Or(<<Frm("OpenOk")>>, "open")
      [] f.type = "Content" ->
            /\ s' = t
            /\ broker' = [broker EXCEPT !.got = f.n]
      [] f.type = "Close" -> BrokerAnswer(t, <<Frm("CloseOk")>>, "closing")
      [] f.type = "CloseOk" ->
            /\ s' = Hangup(t, "EGRESS")
            /\ broker' = [broker EXCEPT !.st = "gone"]
      [] OTHER -> s' = t /\ UNCHANGED broker

BrokerReceive ==
    /\ broker.st \notin {"none", "gone"} /\ s.out["EGRESS"] # <<>>
    /\ BrokerReply(Head(s.out["EGRESS"]), Took(s, "EGRESS"))
    /\ UNCHANGED <<client, cmds>>

BrokerSend ==
    /\ broker.st = "open"
    /\ \/ /\ broker.sent < MaxData
          /\ s' = FromPeer(s, "EGRESS",
                           <<[type |-> "Content", n |-> broker.sent + 1]>>)
          /\ broker' = [broker EXCEPT !.sent = @ + 1]
       \/ /\ "close" \in Misbehave
          /\ s' = FromPeer(s, "EGRESS", <<Frm("Close")>>)
          /\ broker' = [broker EXCEPT !.st = "closing"]
    /\ UNCHANGED <<client, cmds>>

BrokerGone ==
    /\ broker.st \notin {"none", "gone"} /\ s.sock["EGRESS"] # "connecting"
    /\ \/ "broker_drop" \in Misbehave
       \/ s.sock["EGRESS"] = "closed" /\ s.out["EGRESS"] = <<>>
    /\ s' = Hangup(s, "EGRESS")
    /\ broker' = [broker EXCEPT !.st = "gone"]
    /\ UNCHANGED <<client, cmds>>

-----------------------------------------------------------------------------
\* The session after Session::start().
NewSession(tls, proxy) ==
    [tls |-> tls, proxy |-> proxy,
     conn |-> "AWAITING_PROTOCOL_HEADER", disc |-> "NOT_DISCONNECTED",
     paused |-> FALSE, ready |-> FALSE, vhost |-> FALSE,
     vpaused |-> FALSE, allowed |-> FALSE,
     shake |-> "INGRESS" \in tls,
     sock |-> [d \in FlowType |->
                  IF d = "INGRESS" THEN "open" ELSE "closed"],
     rd |-> [d \in FlowType |->
                IF d = "INGRESS" /\ "INGRESS" \notin tls THEN 1 ELSE 0],
     wd |-> [d \in FlowType |-> 0], ab |-> [d \in FlowType |-> 0],
     bad |-> [d \in FlowType |-> 0],
     blocked |-> [d \in FlowType |-> <<>>],
     buf |-> [d \in FlowType |-> <<>>],
     eg |-> "none", ep |-> 0, retry |-> 0, posted |-> {},
     in |-> [d \in FlowType |-> <<>>],
     out |-> [d \in FlowType |-> <<>>],
     fin |-> [d \in FlowType |-> FALSE]]

Init ==
    /\ \E tls \in Tls, proxy \in ProxyProtocol : s = NewSession(tls, proxy)
    /\ client = NewPeer("none") /\ broker = NewPeer("none") /\ cmds = 0

IoStep ==
    \/ \E d \in FlowType :
          \/ ReadSome(d) \/ ReadEof(d) \/ OperationAborted(d)
          \/ OperationFailed(d) \/ WriteDone(d) \/ Unblock(d)
          \/ ShutdownDone(d)
    \/ IngressHandshake \/ LimitTimer \/ AuthResponse \/ Resolved
    \/ ResolveFailed \/ Connected \/ ConnectFailed \/ ProxyHeaderWritten
    \/ EgressTls \/ RunPosted

ControlStep ==
    \/ SessionPause \/ VhostPause \/ VhostUnpause
    \/ DisconnectGraceful \/ ForceDisconnect \/ BackendDisconnect

PeerStep ==
    \/ ClientStart \/ ClientReceive \/ ClientSend \/ ClientGone
    \/ BrokerReceive \/ BrokerSend \/ BrokerGone

Next == IoStep \/ ControlStep \/ PeerStep

Spec == Init /\ [][Next]_vars

=============================================================================
