------------------------- MODULE SessionProperties -------------------------
(***************************************************************************)
(* What a session promises: the invariants, action properties and liveness *)
(* properties of Session.tla, and the fairness they are checked under.     *)
(***************************************************************************)
EXTENDS Session

\* The state of the session, its peers and the command count keep their types.
TypeOK ==
    /\ s \in SessionType /\ client \in PeerType /\ broker \in PeerType
    /\ cmds \in Nat

-----------------------------------------------------------------------------
\* The operations pending for a flow, wherever they wait.
Pending(d) ==
    s.rd[d] + s.wd[d] + s.ab[d] + s.bad[d]
    + BlockedOf(s.blocked["INGRESS"], d) + BlockedOf(s.blocked["EGRESS"], d)

\* readData and handleWriteData hand over to each other: until a session is
\* finished exactly one ingress operation is pending (the TLS handshake of
\* start() included), so that the two never work on one buffer, and neither is
\* the client forgotten.
IngressChain ==
    ~Finished(s) => Pending("INGRESS") + (IF s.shake THEN 1 ELSE 0) = 1

\* The same for the egress flow from the moment the vhost is known: the session
\* is waiting for exactly one of the steps of establishConnection or for one
\* egress operation.
EgressChain ==
    ~Finished(s) /\ s.vhost =>
        Pending("EGRESS") + (IF s.eg # "none" THEN 1 ELSE 0) = 1

\* The numbers of the content frames of a sequence of frames.
Numbers(q) ==
    LET c == SelectSeq(q, LAMBDA f : f.type = "Content")
    IN  [i \in DOMAIN c |-> c[i].n]

BlockedFrames(side) ==
    IF s.blocked[side] = <<>> THEN <<>> ELSE Head(s.blocked[side]).msgs

\* While the session is open, what the one peer sent and the other has not yet
\* taken is on its way: nothing lost, duplicated or reordered between the read
\* socket, the read buffer, a blocked write and the write socket.
InOrder(from, to, sent, got) ==
    LET q == Numbers(s.out[to] \o BlockedFrames(to) \o s.buf[from] \o s.in[from])
    IN  q = [i \in 1..(sent - got) |-> got + i]

PassThroughInOrder ==
    /\ s.conn = "OPEN" /\ ~Finished(s)
    /\ \A d \in FlowType : s.sock[d] = "open" /\ ~s.fin[d]
    => /\ InOrder("INGRESS", "EGRESS", client.sent, broker.got)
       /\ InOrder("EGRESS", "INGRESS", broker.sent, client.got)

\* The client is told OpenOk only after a broker accepted its Open.
OpenedByBroker == client.opened => broker.opened

\* No broker is contacted for a client whose authentication was not allowed,
\* whatever retries, pauses and disconnects came before.
AuthorisedEgress ==
    (broker.st # "none" \/ s.sock["EGRESS"] # "closed") => s.allowed

\* handleSessionError: the first error decides which peer is blamed.  It closes
\* both sockets, and the handlers that this aborts on the other side do not
\* pass the blame on; only the proxy's own verdicts replace it.
BlameStands ==
    [][s.disc \in {"DISCONNECTED_CLIENT", "DISCONNECTED_SERVER"} =>
         s'.disc \in {s.disc, "DISCONNECTED_PROXY", "DISCONNECTED_CLEANLY"}]_vars

\* finished(): a session is never taken back from the sessions that
\* SessionCleanup may remove.
FinishedIsStable == [][Finished(s) => Finished(s')]_vars

\* The last content frame of the client that left the read buffer.
Forwarded ==
    LET q == Numbers(s.out["EGRESS"] \o BlockedFrames("EGRESS"))
    IN  IF q = <<>> THEN broker.got ELSE q[Len(q)]

\* A paused session forwards no further data of the client (VHOST PAUSE).
PausedForwardsNothing ==
    [][s.paused /\ s'.paused /\ s.conn = "OPEN" /\ s.sock["EGRESS"] = "open"
        /\ s'.sock["EGRESS"] = "open" /\ ~s'.fin["EGRESS"]
        => Forwarded' = Forwarded]_vars

-----------------------------------------------------------------------------
(* Liveness.  The io thread does not stop while a handler is ready: some    *)
(* handler is run, not any one in particular.  A peer takes what it is sent *)
(* and notices a closed socket; a broker that sent a Close hangs up in the   *)
(* end when it is not answered (its own timeout).  Nothing is assumed of    *)
(* what a peer or an operator starts.                                       *)
Fairness ==
    /\ WF_vars(IoStep)
    /\ WF_vars(ClientReceive) /\ WF_vars(BrokerReceive)
    /\ WF_vars(ClientGone /\ s.sock["INGRESS"] = "closed")
    /\ WF_vars(BrokerGone /\ s.sock["EGRESS"] = "closed")
    /\ WF_vars(BrokerGone /\ broker.st = "closing")

FairSpec == Spec /\ Fairness

\* A client that goes away is noticed: the session is finished, whatever the
\* egress connection is doing.
ClientLossNoticed == (client.st = "gone") ~> Finished(s)

\* No handler, timer or closure holds a reference to the session: once it is
\* finished SessionCleanup drops the last one, and its destructor closes the
\* sockets that are still open.
Released ==
    /\ \A d \in FlowType : Pending(d) = 0 /\ s.sock[d] # "shut"
    /\ s.eg = "none" /\ ~s.shake /\ s.posted = {}

\* The read of a client that stays connected and sends nothing.
KeptByClient ==
    /\ s.sock["INGRESS"] = "open" /\ ~s.fin["INGRESS"]
    /\ s.in["INGRESS"] = <<>> /\ s.rd["INGRESS"] > 0
    /\ s.sock["EGRESS"] = "closed"

\* A finished session gives up its handlers, also when it was finished in the
\* middle of connecting to a backend.  One thing may keep it: backendDisconnect
\* leaves the client's socket open, and its read waits until the client sends
\* something or leaves.
FinishedIsReleased == Finished(s) ~> (Released \/ KeptByClient)

-----------------------------------------------------------------------------
(* What documentation, comments and tests say and the code does not do.     *)

\* A session that was paused during the handshake is resumed by VHOST UNPAUSE:
\* once it is open again it reads what its client sends.
ResumedSessionReads ==
    s.conn = "OPEN" /\ ~s.paused /\ ~Finished(s) => Pending("INGRESS") > 0

=============================================================================
