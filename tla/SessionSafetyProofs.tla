------------------------ MODULE SessionSafetyProofs -------------------------
(***************************************************************************)
(* Proofs that a session keeps its promises about authorisation, the       *)
(* opening of the client and its chains of operations, for every value of  *)
(* the constants.                                                          *)
(***************************************************************************)
EXTENDS SessionProofs

\* What a handler keeps: the frames and the egress connection of an allowed client,
\* and the chains of operations.
Fine(t, u, o) == Good(t, u, o) /\ (Chain(t, 0, 0) => Chain(u, 0, 0))

\* A step that starts and ends no operation keeps all of it.
LEMMA CalmFine ==
    ASSUME NEW t \in SessionType, NEW u, NEW o, Calm(t, u, o)
    PROVE  Fine(t, u, o)
BY QuietGood, ChainCalm, Zenon DEF Fine, Calm

\* Two steps in a row that keep all of it.
LEMMA FineTrans ==
    ASSUME NEW t, NEW u, NEW v, NEW o, Fine(t, u, o), Fine(u, v, o)
    PROVE  Fine(t, v, o)
BY GoodTrans, Zenon DEF Fine

\* Completion handlers take their operation off the pending ones.
LEMMA Taken ==
    ASSUME NEW t \in SessionType, NEW u \in SessionType, NEW d \in FlowType,
           Same(t, u), u.disc = t.disc, Started(u, t, d), Chain(t, 0, 0)
    PROVE  Owes(u, d)
<1>1. \A e \in FlowType : Ops(t, e) = Ops(u, e) + One(d, e)
  BY OpsStarted, Zenon
<1>. QED  BY <1>1, ChainTaken, Zenon DEF Owes

\* A count that goes down by one was one higher.
LEMMA CountDown ==
    ASSUME NEW f \in [FlowType -> Nat], NEW d \in FlowType, f[d] > 0
    PROVE  LET g == [f EXCEPT ![d] = @ - 1]
           IN  g \in [FlowType -> Nat] /\ f = [g EXCEPT ![d] = g[d] + 1]
<1>. DEFINE g == [f EXCEPT ![d] = @ - 1]
            h == [g EXCEPT ![d] = g[d] + 1]
<1>1. g \in [FlowType -> Nat] /\ h \in [FlowType -> Nat]
  OBVIOUS
<1>2. ASSUME NEW e \in FlowType PROVE f[e] = h[e]
  OBVIOUS
<1>. HIDE DEF h
<1>3. f = h
  BY <1>1, <1>2
<1>. QED  BY <1>1, <1>3, Zenon DEF h

\* A handler that is called with an error.
LEMMA FailedFine ==
    ASSUME NEW t \in SessionType, NEW u, NEW d \in FlowType, NEW aborted \in BOOLEAN,
           NEW o, Good(t, u, o), Base(t) => Base(u)
    PROVE  Fine(t, HandleSessionError(u, d, aborted), o)
<1>. DEFINE v == HandleSessionError(u, d, aborted)
<1>1. /\ Good(u, v, o)
      /\ u.conn # "CLIENT_CLOSE_SENT" => Ends(u, v, o)
  BY ErrorEffect, Zenon DEF Good
<1>. HIDE DEF v
<1>2. Chain(t, 0, 0) => Ends(u, v, o) /\ Base(u)
  BY <1>1, Zenon DEF Chain, Base
<1>3. Fine(t, v, o)
  BY <1>1, <1>2, GoodTrans, ChainEnds, Zenon DEF Fine
<1>. QED  BY <1>3, Zenon DEF v

\* ReadEof, OperationAborted, OperationFailed and WriteDone.
LEMMA HandlersFine ==
    ASSUME s \in SessionType, NEW d \in FlowType, NEW o,
           \/ ReadEof(d) \/ OperationAborted(d) \/ OperationFailed(d)
           \/ WriteDone(d)
    PROVE  Fine(s, s', o)
<1>. DEFINE r == [s EXCEPT !.rd[d] = @ - 1]
            a == [s EXCEPT !.ab[d] = @ - 1]
            b == [s EXCEPT !.bad[d] = @ - 1]
            w == [s EXCEPT !.wd[d] = @ - 1]
            Left(t) == /\ t \in SessionType /\ Same(s, t) /\ t.disc = s.disc
                       /\ t.sock = s.sock /\ t.in = s.in /\ t.buf = s.buf
                       /\ t.out = s.out /\ t.blocked = s.blocked
<1>1. /\ s.rd[d] > 0 => r \in SessionType
      /\ s.ab[d] > 0 => a \in SessionType
      /\ s.bad[d] > 0 => b \in SessionType
      /\ s.wd[d] > 0 => w \in SessionType
  BY TakeKeeps, Zenon DEF Keeps
<1>2. ASSUME s.rd[d] > 0 PROVE Left(r)
  BY <1>1, <1>2, Zenon DEF SessionType, Same
<1>3. ASSUME s.ab[d] > 0 PROVE Left(a)
  BY <1>1, <1>3, Zenon DEF SessionType, Same
<1>4. ASSUME s.bad[d] > 0 PROVE Left(b)
  BY <1>1, <1>4, Zenon DEF SessionType, Same
<1>5. ASSUME s.wd[d] > 0 PROVE Left(w)
  BY <1>1, <1>5, Zenon DEF SessionType, Same
<1>6. /\ w.wd = [s.wd EXCEPT ![d] = @ - 1] /\ w.rd = s.rd /\ w.ab = s.ab
      /\ w.bad = s.bad
  BY Zenon DEF SessionType
<1>. HIDE DEF r, a, b, w
<1>7. ASSUME NEW t, Left(t)
      PROVE  Good(s, t, o) /\ (Base(s) => Base(t))
  BY <1>7, Zenon DEF Same, Good, Flows, EgAuth, Base
<1>8. CASE ReadEof(d)
  <2>1. s' = HandleSessionError(r, d, FALSE) /\ s.rd[d] > 0
    BY <1>8, Zenon DEF ReadEof, r
  <2>2. Good(s, r, o) /\ (Base(s) => Base(r))
    BY <1>2, <1>7, <2>1, Zenon
  <2>. QED  BY <2>1, <2>2, FailedFine, Zenon
<1>9. CASE OperationAborted(d)
  <2>1. s' = HandleSessionError(a, d, TRUE) /\ s.ab[d] > 0
    BY <1>9, Zenon DEF OperationAborted, a
  <2>2. Good(s, a, o) /\ (Base(s) => Base(a))
    BY <1>3, <1>7, <2>1, Zenon
  <2>. QED  BY <2>1, <2>2, FailedFine, Zenon
<1>10. CASE OperationFailed(d)
  <2>1. s' = HandleSessionError(b, d, FALSE) /\ s.bad[d] > 0
    BY <1>10, Zenon DEF OperationFailed, b
  <2>2. Good(s, b, o) /\ (Base(s) => Base(b))
    BY <1>4, <1>7, <2>1, Zenon
  <2>. QED  BY <2>1, <2>2, FailedFine, Zenon
<1>11. CASE WriteDone(d)
  <2>1. s' = ReadData(w, d) /\ s.wd[d] > 0
    BY <1>11, Zenon DEF WriteDone, w
  <2>2. Left(w) /\ Good(s, w, o)
    BY <1>5, <1>7, <2>1, Zenon
  <2>3. s.wd \in [FlowType -> Nat]
    BY FieldTypes, Zenon
  <2>4. s.wd = [w.wd EXCEPT ![d] = w.wd[d] + 1]
    BY <1>6, <2>1, <2>3, CountDown, Zenon
  <2>5. Started(w, s, d)
    BY <1>6, <2>2, <2>4, Zenon DEF Started
  <2>6. Chain(s, 0, 0) => Owes(w, d)
    BY <2>2, <2>5, Taken, Zenon
  <2>. DEFINE u == ReadData(w, d)
  <2>7. /\ Quiet(w, u, o) /\ u.disc = w.disc
        /\ \A e \in FlowType : Ops(u, e) = Ops(w, e) + One(d, e)
    BY <2>2, ReadDataEffect, Zenon
  <2>. HIDE DEF u
  <2>8. Owes(w, d) => Chain(u, 0, 0)
    BY <2>2, <2>7, ChainStarted, Zenon DEF Owes, Quiet
  <2>9. Good(s, u, o)
    BY <2>2, <2>7, QuietGood, GoodTrans, Zenon
  <2>. QED  BY <2>1, <2>6, <2>8, <2>9, Zenon DEF Fine, u
<1>. QED  BY <1>8, <1>9, <1>10, <1>11, Zenon

\* ReadSome: the frames go from the socket to the buffer, and a paused session
\* does not go on reading.
LEMMA ReadSomeFine ==
    ASSUME s \in SessionType, NEW d \in FlowType, NEW o, Flows(s, o), ReadSome(d)
    PROVE  Fine(s, s', o)
<1>1. PICK k \in 1..Len(s.in[d]), rc \in Statuses :
         LET t == [s EXCEPT !.rd[d] = @ - 1,
                            !.buf[d] = @ \o SubSeq(s.in[d], 1, k),
                            !.in[d] = SubSeq(@, k + 1, Len(@))]
         IN  s' = IF d = "EGRESS" \/ ~s.paused THEN HandleData(t, d, rc) ELSE t
  BY Zenon DEF ReadSome
<1>. DEFINE a == SubSeq(s.in[d], 1, k)
            b == SubSeq(s.in[d], k + 1, Len(s.in[d]))
            rd == [s.rd EXCEPT ![d] = @ - 1]
            buf == [s.buf EXCEPT ![d] = s.buf[d] \o a]
            in == [s.in EXCEPT ![d] = b]
            t == [s EXCEPT !.rd[d] = @ - 1,
                           !.buf[d] = @ \o SubSeq(s.in[d], 1, k),
                           !.in[d] = SubSeq(@, k + 1, Len(@))]
<1>2. /\ s.rd \in [FlowType -> Nat] /\ s.in \in [FlowType -> Seq(Frame)]
      /\ s.buf \in [FlowType -> Seq(Frame)]
  BY FieldTypes, Zenon
<1>3. /\ rd \in [FlowType -> Nat] /\ s.rd = [rd EXCEPT ![d] = rd[d] + 1]
  <2>1. s.rd[d] > 0
    BY Zenon DEF ReadSome
  <2>. QED  BY <1>2, <2>1, CountDown, Zenon
<1>4. ASSUME NEW S, s.in[d] \in Seq(S), s.buf[d] \in Seq(S)
      PROVE  s.buf[d] \o a \in Seq(S) /\ b \in Seq(S)
  <2>1. k \in 1..Len(s.in[d])
    OBVIOUS
  <2>2. a \in Seq(S) /\ b \in Seq(S)
    BY <1>4, <2>1
  <2>. QED  BY <1>4, <2>2
<1>5. s.in[d] \in Seq(Frame) /\ s.buf[d] \in Seq(Frame)
  BY <1>2, Zenon
<1>6. s.buf[d] \o a \in Seq(Frame) /\ b \in Seq(Frame)
  BY <1>4, <1>5, Zenon
<1>7. buf \in [FlowType -> Seq(Frame)] /\ in \in [FlowType -> Seq(Frame)]
  BY <1>2, <1>6, FlowUpdate, Zenon
<1>8. s' = IF d = "EGRESS" \/ ~s.paused THEN HandleData(t, d, rc) ELSE t
  BY <1>1, Zenon
<1>9. \A x \in FlowType : /\ buf[x] = IF x = d THEN s.buf[d] \o a ELSE s.buf[x]
                          /\ in[x] = IF x = d THEN b ELSE s.in[x]
  BY <1>2, FlowLookup, Zenon
<1>10. /\ t \in SessionType /\ Same(s, t) /\ t.disc = s.disc /\ t.sock = s.sock
       /\ t.in = in /\ t.buf = buf /\ t.out = s.out /\ t.blocked = s.blocked
       /\ t.rd = rd /\ t.wd = s.wd /\ t.ab = s.ab /\ t.bad = s.bad
  BY <1>3, <1>7, Zenon DEF SessionType, Same
<1>. HIDE DEF t, rd, buf, in, a, b
<1>11. Flows(t, o)
  <2>1. CASE d = "INGRESS"
    <3>1. s.buf[d] \o a \in Seq(ClientFrame) /\ b \in Seq(ClientFrame)
      BY <1>4, <2>1, Zenon DEF Flows
    <3>2. "EGRESS" # d
      BY <2>1
    <3>. QED  BY <1>9, <1>10, <2>1, <3>1, <3>2, Sides, Zenon DEF Flows
  <2>2. CASE d = "EGRESS"
    <3>1. s.buf[d] \o a \in Seq(BrokerFrame(o)) /\ b \in Seq(BrokerFrame(o))
      BY <1>4, <2>2, Zenon DEF Flows
    <3>2. "INGRESS" # d
      BY <2>2
    <3>. QED  BY <1>9, <1>10, <2>2, <3>1, <3>2, Sides, Zenon DEF Flows
  <2>. QED  BY <2>1, <2>2, Zenon DEF FlowType
<1>12. Good(s, t, o)
  BY <1>10, <1>11, Zenon DEF Same, Good, EgAuth
<1>13. Chain(s, 0, 0) => Owes(t, d)
  <2>1. Started(t, s, d)
    BY <1>3, <1>10, Zenon DEF Started
  <2>. QED  BY <1>10, <2>1, Taken, Zenon
<1>14. CASE d = "EGRESS" \/ ~s.paused
  <2>1. Good(t, s', o) /\ (Owes(t, d) => Chain(s', 0, 0))
    BY <1>8, <1>10, <1>11, <1>14, HandleDataEffect, Zenon
  <2>. QED  BY <1>12, <1>13, <2>1, GoodTrans, Zenon DEF Fine
<1>15. CASE ~(d = "EGRESS" \/ ~s.paused)
  <2>1. s' = t /\ d = "INGRESS" /\ t.paused
    BY <1>8, <1>10, <1>15, Zenon DEF FlowType, Same
  <2>2. One(d, "INGRESS") = 1 /\ One(d, "EGRESS") = 0
    BY <2>1 DEF One
  <2>3. Ingress(t) \in Nat
    BY <1>10, PendingTypes, Zenon
  <2>4. ASSUME Owes(t, d) PROVE Chain(t, 0, 0)
    <3>1. Chain(t, 1, 0) /\ ~NoPause
      BY <2>1, <2>2, <2>4, Zenon DEF Owes, Chain, Base
    <3>2. AtMostOne(Ingress(t) + 1) => AtMostOne(Ingress(t) + 0)
      BY <2>3, <3>1, SMT DEF AtMostOne
    <3>. QED  BY <3>1, <3>2, Zenon DEF Chain
  <2>. QED  BY <1>12, <1>13, <2>1, <2>4, Zenon DEF Fine
<1>. QED  BY <1>14, <1>15, Zenon

\* Unblock: the first write that waits is sent, or fails.
LEMMA UnblockFine ==
    ASSUME s \in SessionType, NEW side \in FlowType, NEW o, Unblock(side)
    PROVE  Fine(s, s', o)
<1>. DEFINE w == Head(s.blocked[side])
            q == Tail(s.blocked[side])
            blocked == [s.blocked EXCEPT ![side] = q]
            t == [s EXCEPT !.blocked = blocked]
            out == [s.out EXCEPT ![side] = s.out[side] \o w.msgs]
<1>1. s.blocked[side] \in Seq(PendingWrite) /\ s.blocked[side] # <<>>
  BY FieldTypes, Zenon DEF Unblock
<1>2. w \in PendingWrite /\ q \in Seq(PendingWrite)
  BY <1>1
<1>3. w.flow \in FlowType /\ w.msgs \in Seq(Frame)
  BY <1>2, Zenon DEF PendingWrite
<1>4. /\ s.blocked \in [FlowType -> Seq(PendingWrite)]
      /\ s.out \in [FlowType -> Seq(Frame)]
      /\ s.wd \in [FlowType -> Nat] /\ s.bad \in [FlowType -> Nat]
  BY FieldTypes, Zenon
<1>5. \/ s' = [s EXCEPT !.blocked = blocked, !.out = out,
                        !.wd = [s.wd EXCEPT ![w.flow] = @ + 1]]
      \/ s' = [s EXCEPT !.blocked = blocked, !.bad = [s.bad EXCEPT ![w.flow] = @ + 1]]
  <2>1. \/ s' = [t EXCEPT !.out[side] = @ \o w.msgs, !.wd[w.flow] = @ + 1]
        \/ s' = [t EXCEPT !.bad[w.flow] = @ + 1]
    BY Zenon DEF Unblock
  <2>2. t.out = s.out /\ t.wd = s.wd /\ t.bad = s.bad
    BY Zenon DEF SessionType
  <2>. QED  BY <2>1, <2>2, Zenon
<1>6. s' \in SessionType
  BY UnblockKeeps, Zenon DEF Keeps
<1>7. s.blocked["INGRESS"] \in Seq(WriteToClient(o)) =>
         /\ side = "INGRESS" => w.msgs \in Seq(ToClient(o))
         /\ blocked["INGRESS"] \in Seq(WriteToClient(o))
  <2>1. \A x \in FlowType : blocked[x] = IF x = side THEN q ELSE s.blocked[x]
    BY <1>4, FlowLookup, Zenon
  <2>. HIDE DEF blocked
  <2>2. ASSUME side = "INGRESS", s.blocked[side] \in Seq(WriteToClient(o))
        PROVE  w \in WriteToClient(o) /\ q \in Seq(WriteToClient(o))
    BY <1>1, <2>2
  <2>3. w \in WriteToClient(o) => w.msgs \in Seq(ToClient(o))
    BY Zenon DEF WriteToClient
  <2>. QED  BY <2>1, <2>2, <2>3, Sides, Zenon
<1>8. Flows(s, o) => out["INGRESS"] \in Seq(ToClient(o))
  <2>1. \A x \in FlowType : out[x] = IF x = side THEN s.out[side] \o w.msgs
                                                 ELSE s.out[x]
    BY <1>4, FlowLookup, Zenon
  <2>. HIDE DEF out, w, blocked
  <2>2. CASE side = "INGRESS"
    <3>1. ASSUME Flows(s, o)
          PROVE  s.out[side] \in Seq(ToClient(o)) /\ w.msgs \in Seq(ToClient(o))
      BY <1>7, <2>2, <3>1, Zenon DEF Flows
    <3>2. Flows(s, o) => s.out[side] \o w.msgs \in Seq(ToClient(o))
      BY <3>1
    <3>. QED  BY <2>1, <2>2, <3>2, Sides, Zenon
  <2>3. CASE side # "INGRESS"
    BY <2>1, <2>3, Sides, Zenon DEF Flows
  <2>. QED  BY <2>2, <2>3, Zenon
<1>. DEFINE sent == [s EXCEPT !.blocked = blocked, !.out = out,
                              !.wd = [s.wd EXCEPT ![w.flow] = @ + 1]]
            failed == [s EXCEPT !.blocked = blocked,
                                !.bad = [s.bad EXCEPT ![w.flow] = @ + 1]]
<1>9. /\ t \in SessionType
      /\ SameCounts(s, t) /\ t.blocked = blocked
  <2>1. blocked \in [FlowType -> Seq(PendingWrite)]
    BY <1>2, <1>4, FlowUpdate, Zenon
  <2>. HIDE DEF blocked
  <2>. QED  BY <2>1, Zenon DEF SessionType, SameCounts
<1>10. /\ Same(s, sent) /\ sent.disc = s.disc /\ sent.sock = s.sock
       /\ sent.in = s.in /\ sent.buf = s.buf /\ sent.out = out
       /\ sent.blocked = blocked /\ sent.rd = s.rd /\ sent.ab = s.ab
       /\ sent.bad = s.bad /\ sent.wd = [s.wd EXCEPT ![w.flow] = s.wd[w.flow] + 1]
  <2>. HIDE DEF blocked, out, w
  <2>. QED  BY Zenon DEF SessionType, Same
<1>11. /\ Same(s, failed) /\ failed.disc = s.disc /\ failed.sock = s.sock
       /\ failed.in = s.in /\ failed.buf = s.buf /\ failed.out = s.out
       /\ failed.blocked = blocked /\ failed.rd = s.rd /\ failed.ab = s.ab
       /\ failed.wd = s.wd /\ failed.bad = [s.bad EXCEPT ![w.flow] = s.bad[w.flow] + 1]
  <2>. HIDE DEF blocked, out, w
  <2>. QED  BY Zenon DEF SessionType, Same
<1>12. s' = sent \/ s' = failed
  BY <1>5, Zenon
<1>. HIDE DEF sent, failed, out, t
<1>13. Quiet(s, s', o) /\ s'.disc = s.disc
  <2>. HIDE DEF blocked, w
  <2>. QED  BY <1>6, <1>7, <1>8, <1>10, <1>11, <1>12, Zenon DEF Quiet, Flows
<1>14. ASSUME NEW e \in FlowType PROVE Ops(s', e) = Ops(s, e)
  <2>1. Queued(s, t, side, q)
    BY <1>9, Zenon DEF Queued
  <2>. HIDE DEF w, q, blocked
  <2>2. Started(t, s', w.flow)
    BY <1>9, <1>10, <1>11, <1>12, Zenon DEF Started, SameCounts
  <2>3. Ops(t, e) = (Ops(s, e) - BlockedOf(s.blocked[side], e)) + BlockedOf(q, e)
    BY <1>2, <2>1, OpsQueued, Zenon
  <2>4. Ops(s', e) = Ops(t, e) + One(w.flow, e)
    BY <1>3, <1>9, <2>2, OpsStarted, Zenon
  <2>5. BlockedOf(s.blocked[side], e) = BlockedOf(q, e) + One(w.flow, e)
    BY <1>1, BlockedOfTail, Zenon DEF q, w
  <2>6. /\ BlockedOf(q, e) \in Nat /\ One(w.flow, e) \in Nat /\ Ops(s, e) \in Nat
    <3>1. One(w.flow, e) \in Nat
      BY DEF One
    <3>. QED  BY <1>2, <3>1, BlockedOfType, CountTypes, Zenon
  <2>. QED  BY <2>3, <2>4, <2>5, <2>6, SMT
<1>15. Calm(s, s', o)
  BY <1>13, <1>14, Zenon DEF Calm
<1>. QED  BY <1>15, CalmFine, Zenon

\* IngressHandshake: the read takes the place of the handshake.
LEMMA IngressHandshakeFine ==
    ASSUME s \in SessionType, NEW o, IngressHandshake
    PROVE  Fine(s, s', o)
<1>. DEFINE t == [s EXCEPT !.shake = FALSE]
            u == ReadData(t, "INGRESS")
<1>1. \/ s' = u
      \/ \E aborted \in BOOLEAN : s' = HandleSessionError(t, "INGRESS", aborted)
  BY DEF IngressHandshake
<1>2. /\ t \in SessionType /\ t.conn = s.conn /\ t.paused = s.paused
      /\ t.ready = s.ready /\ t.vhost = s.vhost /\ t.vpaused = s.vpaused
      /\ t.allowed = s.allowed /\ t.shake = FALSE /\ t.eg = s.eg
      /\ t.disc = s.disc /\ t.sock = s.sock /\ t.in = s.in /\ t.buf = s.buf
      /\ t.out = s.out /\ t.blocked = s.blocked /\ t.rd = s.rd /\ t.wd = s.wd
      /\ t.ab = s.ab /\ t.bad = s.bad
  BY Zenon DEF SessionType
<1>3. s.shake = TRUE
  BY DEF SessionType, IngressHandshake
<1>. HIDE DEF t
<1>4. Good(s, t, o) /\ (Base(s) => Base(t))
  BY <1>2, Zenon DEF Good, Flows, EgAuth, Base
<1>5. ASSUME NEW aborted \in BOOLEAN
      PROVE  Fine(s, HandleSessionError(t, "INGRESS", aborted), o)
  BY <1>4, FailedFine, Sides, Zenon
<1>6. Fine(s, u, o)
  <2>1. /\ Quiet(t, u, o) /\ u.disc = t.disc
        /\ \A e \in FlowType : Ops(u, e) = Ops(t, e) + One("INGRESS", e)
    BY <1>2, ReadDataEffect, Sides, Zenon
  <2>. HIDE DEF u
  <2>2. Good(s, u, o)
    BY <1>4, <2>1, QuietGood, GoodTrans, Zenon
  <2>3. One("INGRESS", "INGRESS") = 1 /\ One("INGRESS", "EGRESS") = 0
    BY DEF One
  <2>4. ASSUME Chain(s, 0, 0) PROVE Chain(t, 1, 0)
    <3>1. \A e : Ops(t, e) = Ops(s, e)
      BY <1>2, Zenon DEF Ops
    <3>2. One(FALSE, TRUE) = 0 /\ One(TRUE, TRUE) = 1
      BY DEF One
    <3>3. Ingress(t) = Ops(s, "INGRESS") + 0 /\ Ingress(s) = Ops(s, "INGRESS") + 1
      BY <1>2, <1>3, <3>1, <3>2, Zenon DEF Ingress
    <3>4. Ops(s, "INGRESS") \in Nat
      BY CountTypes, Sides, Zenon
    <3>5. Ingress(t) + 1 = Ingress(s) + 0
      BY <3>3, <3>4, SMT
    <3>6. Egress(t) = Egress(s)
      BY <1>2, <3>1, Zenon DEF Egress
    <3>. QED  BY <1>2, <1>4, <2>4, <3>5, <3>6, Zenon DEF Chain, Finished
  <2>5. Chain(t, 1, 0) => Chain(u, 0, 0)
    BY <1>2, <2>1, <2>3, ChainStarted, Sides, Zenon DEF Quiet
  <2>. QED  BY <2>2, <2>4, <2>5, Zenon DEF Fine
<1>. QED  BY <1>1, <1>5, <1>6, Zenon

\* What ends the session in the middle of connecting to a backend.
LEMMA EgEndsFine ==
    ASSUME NEW t \in SessionType, NEW u, NEW o,
           Ends([t EXCEPT !.eg = "none"], u, o)
    PROVE  Fine(t, u, o)
<1>. DEFINE n == [t EXCEPT !.eg = "none"]
<1>1. Good(t, n, o) /\ (Base(t) => Base(n))
  BY EgOver, Zenon
<1>. HIDE DEF n
<1>2. Ends(n, u, o)
  BY Zenon DEF n
<1>3. Good(t, u, o)
  BY <1>1, <1>2, QuietGood, GoodTrans, Zenon DEF Ends
<1>4. Chain(t, 0, 0) => Chain(u, 0, 0)
  BY <1>1, <1>2, ChainEnds, Zenon DEF Chain
<1>. QED  BY <1>3, <1>4, Zenon DEF Fine

\* LimitTimer: the delayed connection is refused and the session ends.
LEMMA LimitTimerFine ==
    ASSUME s \in SessionType, NEW o, LimitTimer
    PROVE  Fine(s, s', o)
<1>. DEFINE n == [s EXCEPT !.eg = "none"]
<1>1. s' = Disconnect(SendSyntheticData(n, "INGRESS", "Close", TRUE), TRUE)
  BY Zenon DEF LimitTimer
<1>2. n \in SessionType
  BY EgOver, Zenon DEF Good
<1>. HIDE DEF n
<1>3. Ends(n, s', o)
  BY <1>1, <1>2, RefusedEffect, Zenon
<1>. QED  BY <1>3, EgEndsFine, Zenon DEF n

\* AuthResponse: a client that is allowed is connected, one that is not is
\* told so and disconnected.
LEMMA AuthResponseFine ==
    ASSUME s \in SessionType, NEW o, AuthResponse
    PROVE  Fine(s, s', o)
<1>. DEFINE n == [s EXCEPT !.eg = "none"]
            a == [s EXCEPT !.allowed = TRUE]
<1>0. s.eg = "auth" /\ "auth" # "none"
  BY DEF AuthResponse
<1>1. \/ s' = AttemptConnection(a, TRUE)
      \/ s' = Disconnect(n, TRUE)
      \/ s' = Disconnect(SendSyntheticData(n, "INGRESS", "Close", TRUE), TRUE)
  BY Zenon DEF AuthResponse
<1>2. n \in SessionType
  BY EgOver, Zenon DEF Good
<1>. HIDE DEF n
<1>3. ASSUME Ends(n, s', o) PROVE Fine(s, s', o)
  BY <1>3, EgEndsFine, Zenon DEF n
<1>4. \/ s' = AttemptConnection(a, TRUE)
      \/ Ends(n, s', o)
  BY <1>1, <1>2, DisconnectEffect, RefusedEffect, Zenon
<1>5. ASSUME s' = AttemptConnection(a, TRUE) PROVE Fine(s, s', o)
  <2>1. /\ a \in SessionType /\ a.conn = s.conn /\ a.paused = s.paused
        /\ a.ready = s.ready /\ a.vhost = s.vhost /\ a.vpaused = s.vpaused
        /\ a.allowed = TRUE /\ a.shake = s.shake /\ a.eg = s.eg
        /\ a.disc = s.disc /\ a.sock = s.sock /\ a.in = s.in /\ a.buf = s.buf
        /\ a.out = s.out /\ a.blocked = s.blocked /\ a.rd = s.rd /\ a.wd = s.wd
        /\ a.ab = s.ab /\ a.bad = s.bad
    BY Zenon DEF SessionType
  <2>. HIDE DEF a
  <2>2. Good(s, a, o)
    BY <2>1, Zenon DEF Good, Flows, EgAuth
  <2>3. \A e : Ops(a, e) = Ops(s, e)
    BY <2>1, Zenon DEF Ops
  <2>4. Ingress(a) = Ingress(s) /\ Egress(a) = Egress(s)
    BY <2>1, <2>3, Zenon DEF Ingress, Egress
  <2>5. Chain(s, 0, 0) => Chain(a, 0, 0)
    BY <2>1, <2>4, Zenon DEF Chain, Base, Finished
  <2>6. Good(a, s', o) /\ (Chain(a, 0, 0) => Chain(s', 0, 0))
    BY <1>0, <1>5, <2>1, AttemptConnectionEffect, Zenon
  <2>. QED  BY <2>2, <2>5, <2>6, GoodTrans, Zenon DEF Fine
<1>. QED  BY <1>3, <1>4, <1>5, Zenon

\* A value that none of the promises is about is changed.
LEMMA EpCalm ==
    ASSUME NEW t \in SessionType, NEW n \in Nat, NEW o
    PROVE  Calm(t, [t EXCEPT !.ep = n], o)
<1>. DEFINE u == [t EXCEPT !.ep = n]
<1>1. /\ u \in SessionType
      /\ Same(t, u) /\ u.disc = t.disc /\ u.sock = t.sock /\ u.in = t.in
      /\ u.buf = t.buf /\ u.out = t.out /\ u.blocked = t.blocked
      /\ u.rd = t.rd /\ u.wd = t.wd /\ u.ab = t.ab /\ u.bad = t.bad
  BY Zenon DEF SessionType, Same
<1>. HIDE DEF u
<1>2. Flows(t, o) => Flows(u, o)
  BY <1>1, Zenon DEF Flows
<1>3. \A e \in FlowType : Ops(u, e) = Ops(t, e)
  BY <1>1, Zenon DEF Ops
<1>. QED  BY <1>1, <1>2, <1>3, Zenon DEF Calm, Quiet, u

\* The same for a disconnect that is posted to the io thread.
LEMMA PostedCalm ==
    ASSUME NEW t \in SessionType, NEW p \in SUBSET {"both", "backend"}, NEW o
    PROVE  Calm(t, [t EXCEPT !.posted = p], o)
<1>. DEFINE u == [t EXCEPT !.posted = p]
<1>1. /\ u \in SessionType
      /\ Same(t, u) /\ u.disc = t.disc /\ u.sock = t.sock /\ u.in = t.in
      /\ u.buf = t.buf /\ u.out = t.out /\ u.blocked = t.blocked
      /\ u.rd = t.rd /\ u.wd = t.wd /\ u.ab = t.ab /\ u.bad = t.bad
  BY Zenon DEF SessionType, Same
<1>. HIDE DEF u
<1>2. Flows(t, o) => Flows(u, o)
  BY <1>1, Zenon DEF Flows
<1>3. \A e \in FlowType : Ops(u, e) = Ops(t, e)
  BY <1>1, Zenon DEF Ops
<1>. QED  BY <1>1, <1>2, <1>3, Zenon DEF Calm, Quiet, u

\* The next endpoint or backend, after what left the pending operations alone.
LEMMA NextAttempt ==
    ASSUME NEW t \in SessionType, NEW c, NEW o, Calm(t, c, o),
           t.allowed, t.eg # "none"
    PROVE  /\ Fine(t, AttemptResolvedConnection(c), o)
           /\ Fine(t, AttemptConnection(c, TRUE), o)
<1>1. c \in SessionType /\ c.allowed /\ c.eg # "none"
  BY Zenon DEF Calm, Quiet, Same
<1>2. Fine(t, c, o)
  BY CalmFine, Zenon
<1>3. Fine(c, AttemptResolvedConnection(c), o)
  BY <1>1, AttemptResolvedEffect, Zenon DEF Fine
<1>4. Fine(c, AttemptConnection(c, TRUE), o)
  BY <1>1, AttemptConnectionEffect, Zenon DEF Fine
<1>. QED  BY <1>2, <1>3, <1>4, FineTrans, Zenon

\* Resolved and ResolveFailed: the first endpoint is tried, or the next
\* backend.
LEMMA ResolvedFine ==
    ASSUME s \in SessionType, EgAuth(s), NEW o, Resolved \/ ResolveFailed
    PROVE  Fine(s, s', o)
<1>1. s.eg = "resolve"
  BY DEF Resolved, ResolveFailed
<1>2. s.allowed /\ s.eg # "none"
  BY <1>1 DEF EgAuth
<1>3. CASE Resolved
  <2>1. PICK n \in 1..MaxEndpoints :
           s' = AttemptResolvedConnection([s EXCEPT !.ep = n])
    BY <1>3, Zenon DEF Resolved
  <2>2. n \in Nat
    BY ConstantsAssumption
  <2>3. Calm(s, [s EXCEPT !.ep = n], o)
    BY <2>2, EpCalm, Zenon
  <2>. QED  BY <1>2, <2>1, <2>3, NextAttempt, Zenon
<1>4. CASE ResolveFailed
  <2>1. s' = AttemptConnection([s EXCEPT !.retry = @ + 1], TRUE)
    BY <1>4, Zenon DEF ResolveFailed
  <2>2. Calm(s, [s EXCEPT !.retry = @ + 1], o)
    BY RetryCalm, Zenon
  <2>. QED  BY <1>2, <2>1, <2>2, NextAttempt, Zenon
<1>. QED  BY <1>3, <1>4, Zenon

\* ConnectFailed: the operations on the socket fail with the connection, and
\* the next endpoint or backend is tried.
LEMMA ConnectFailedFine ==
    ASSUME s \in SessionType, EgAuth(s), NEW o, ConnectFailed
    PROVE  Fine(s, s', o)
<1>. DEFINE bad == [d \in FlowType |->
                       s.bad[d] + BlockedOf(s.blocked["EGRESS"], d)
                                + (IF d = "EGRESS" THEN s.rd[d] ELSE 0)]
            t == [s EXCEPT !.bad = bad, !.rd["EGRESS"] = 0,
                           !.blocked["EGRESS"] = <<>>]
<1>0. s.allowed /\ s.eg # "none"
  BY DEF EgAuth, ConnectFailed
<1>1. s' = AttemptResolvedConnection(t)
  BY Zenon DEF ConnectFailed
<1>2. /\ s.rd \in [FlowType -> Nat]
      /\ s.blocked \in [FlowType -> Seq(PendingWrite)]
  BY FieldTypes, Zenon
<1>3. bad \in [FlowType -> Nat]
  <2>1. ASSUME NEW d \in FlowType
        PROVE  s.bad[d] + BlockedOf(s.blocked["EGRESS"], d)
                        + (IF d = "EGRESS" THEN s.rd[d] ELSE 0) \in Nat
    <3>1. /\ s.bad[d] \in Nat /\ BlockedOf(s.blocked["EGRESS"], d) \in Nat
          /\ s.rd[d] \in Nat
      BY CountTypes, Zenon
    <3>. QED  BY <3>1, SMT
  <2>. QED  BY <2>1, Zenon
<1>4. /\ [s.rd EXCEPT !["EGRESS"] = 0] \in [FlowType -> Nat]
      /\ [s.blocked EXCEPT !["EGRESS"] = <<>>] \in [FlowType -> Seq(PendingWrite)]
  <2>1. <<>> \in Seq(PendingWrite) /\ 0 \in Nat
    OBVIOUS
  <2>. QED  BY <1>2, <2>1, FlowUpdate, Sides, Zenon
<1>. HIDE DEF bad
<1>5. /\ t \in SessionType
      /\ Same(s, t) /\ t.disc = s.disc /\ t.sock = s.sock /\ t.in = s.in
      /\ t.buf = s.buf /\ t.out = s.out /\ t.wd = s.wd /\ t.ab = s.ab
      /\ t.bad = bad /\ t.rd = [s.rd EXCEPT !["EGRESS"] = 0]
      /\ t.blocked = [s.blocked EXCEPT !["EGRESS"] = <<>>]
  BY <1>3, <1>4, Zenon DEF SessionType, Same
<1>. HIDE DEF t
<1>6. \A x \in FlowType : /\ t.blocked[x] = IF x = "EGRESS" THEN <<>> ELSE s.blocked[x]
                          /\ t.rd[x] = IF x = "EGRESS" THEN 0 ELSE s.rd[x]
  BY <1>2, <1>5, FlowLookup, Sides, Zenon
<1>7. "INGRESS" # "EGRESS"
  OBVIOUS
<1>8. Quiet(s, t, o)
  BY <1>5, <1>6, <1>7, Sides, Zenon DEF Quiet, Flows
<1>9. ASSUME NEW e \in FlowType PROVE Ops(t, e) = Ops(s, e)
  <2>. DEFINE c == BlockedOf(s.blocked["INGRESS"], e)
              d == BlockedOf(s.blocked["EGRESS"], e)
  <2>1. /\ BlockedOf(t.blocked["INGRESS"], e) = c
        /\ BlockedOf(t.blocked["EGRESS"], e) = 0
    BY <1>6, <1>7, BlockedOfEmpty, Sides, Zenon
  <2>2. /\ c \in Nat /\ d \in Nat /\ s.rd[e] \in Nat /\ s.wd[e] \in Nat
        /\ s.ab[e] \in Nat /\ s.bad[e] \in Nat
    BY CountTypes, Zenon
  <2>3. /\ t.wd[e] = s.wd[e] /\ t.ab[e] = s.ab[e] /\ t.bad[e] = bad[e]
        /\ t.rd[e] = IF e = "EGRESS" THEN 0 ELSE s.rd[e]
    BY <1>5, <1>6, Zenon
  <2>4. bad[e] = s.bad[e] + d + (IF e = "EGRESS" THEN s.rd[e] ELSE 0)
    BY Zenon DEF bad
  <2>5. /\ Ops(t, e) = t.rd[e] + t.wd[e] + t.ab[e] + t.bad[e] + c + 0
        /\ Ops(s, e) = s.rd[e] + s.wd[e] + s.ab[e] + s.bad[e] + c + d
    BY <2>1, Zenon DEF Ops
  <2>. HIDE DEF c, d
  <2>. QED  BY <2>2, <2>3, <2>4, <2>5, SMT
<1>10. Calm(s, t, o)
  BY <1>5, <1>8, <1>9, Zenon DEF Calm
<1>. QED  BY <1>0, <1>1, <1>10, NextAttempt, Zenon

\* Connected: the proxy protocol header or the handshake takes the place of
\* async_connect, for a client that was allowed.
LEMMA ConnectedFine ==
    ASSUME s \in SessionType, EgAuth(s), NEW o, Connected
    PROVE  Fine(s, s', o)
<1>. DEFINE t == [s EXCEPT !.sock["EGRESS"] = "open", !.fin["EGRESS"] = FALSE,
                           !.in["EGRESS"] = <<>>, !.out["EGRESS"] = <<>>]
            x == [t EXCEPT !.eg = "proxy",
                           !.out["EGRESS"] = <<Frm("ProxyHeader")>>]
<1>0. s.allowed /\ s.eg # "none"
  BY DEF EgAuth, Connected
<1>1. s' = x \/ s' = EgressHandshake(t)
  BY Zenon DEF Connected, SynthesizeProxyProtocolHeader
<1>2. /\ s.in \in [FlowType -> Seq(Frame)] /\ s.out \in [FlowType -> Seq(Frame)]
      /\ s.sock \in [FlowType -> {"closed", "connecting", "open", "shut"}]
      /\ s.fin \in [FlowType -> BOOLEAN]
  BY FieldTypes, Zenon
<1>3. /\ [s.sock EXCEPT !["EGRESS"] = "open"]
            \in [FlowType -> {"closed", "connecting", "open", "shut"}]
      /\ [s.fin EXCEPT !["EGRESS"] = FALSE] \in [FlowType -> BOOLEAN]
      /\ [s.in EXCEPT !["EGRESS"] = <<>>] \in [FlowType -> Seq(Frame)]
      /\ [s.out EXCEPT !["EGRESS"] = <<>>] \in [FlowType -> Seq(Frame)]
  BY <1>2, Answers, FlowUpdate, Sides, Zenon
<1>4. /\ t \in SessionType /\ Same(s, t) /\ t.disc = s.disc
      /\ t.in = [s.in EXCEPT !["EGRESS"] = <<>>]
      /\ t.out = [s.out EXCEPT !["EGRESS"] = <<>>]
      /\ t.buf = s.buf /\ t.blocked = s.blocked /\ t.rd = s.rd /\ t.wd = s.wd
      /\ t.ab = s.ab /\ t.bad = s.bad
  BY <1>3, Zenon DEF SessionType, Same
<1>. HIDE DEF t
<1>5. "INGRESS" # "EGRESS" /\ <<>> \in Seq(BrokerFrame(o))
  OBVIOUS
<1>6. /\ t.in["INGRESS"] = s.in["INGRESS"] /\ t.in["EGRESS"] = <<>>
      /\ t.out["INGRESS"] = s.out["INGRESS"]
  BY <1>2, <1>4, <1>5, FlowLookup, Sides, Zenon
<1>7. Good(s, t, o)
  BY <1>0, <1>4, <1>5, <1>6, Zenon DEF Good, Flows, EgAuth, Same
<1>8. Ingress(t) = Ingress(s) /\ Egress(t) = Egress(s)
  BY <1>4, Zenon DEF Ingress, Egress, Ops, Same
<1>9. Chain(s, 0, 0) => Chain(t, 0, 0)
  BY <1>4, <1>8, Zenon DEF Chain, Base, Finished, Same
<1>10. t.allowed /\ t.eg # "none"
  BY <1>0, <1>4, Zenon DEF Same
<1>11. Fine(t, EgressHandshake(t), o)
  BY <1>4, <1>10, HandshakeEffect, Zenon DEF Fine
<1>12. Fine(t, x, o)
  <2>0. "proxy" \in Pipeline /\ "proxy" # "none"
    BY DEF Pipeline
  <2>1. t.out \in [FlowType -> Seq(Frame)]
    BY <1>4, FieldTypes, Zenon
  <2>2. <<Frm("ProxyHeader")>> \in Seq(Frame)
    BY FrmType DEF FrameType
  <2>3. [t.out EXCEPT !["EGRESS"] = <<Frm("ProxyHeader")>>] \in [FlowType -> Seq(Frame)]
    BY <2>1, <2>2, FlowUpdate, Sides, Zenon
  <2>4. /\ x \in SessionType /\ x.disc = t.disc /\ x.conn = t.conn
        /\ x.paused = t.paused /\ x.ready = t.ready /\ x.vhost = t.vhost
        /\ x.vpaused = t.vpaused /\ x.allowed = t.allowed /\ x.shake = t.shake
        /\ x.eg = "proxy" /\ x.sock = t.sock /\ x.in = t.in /\ x.buf = t.buf
        /\ x.out = [t.out EXCEPT !["EGRESS"] = <<Frm("ProxyHeader")>>]
        /\ x.blocked = t.blocked /\ x.rd = t.rd /\ x.wd = t.wd /\ x.ab = t.ab
        /\ x.bad = t.bad
    BY <1>4, <2>0, <2>3, Zenon DEF SessionType
  <2>. HIDE DEF x
  <2>5. x.out["INGRESS"] = t.out["INGRESS"]
    BY <1>5, <2>1, <2>4, FlowLookup, Sides, Zenon
  <2>6. Good(t, x, o)
    BY <1>10, <2>4, <2>5, Zenon DEF Good, Flows, EgAuth
  <2>7. Ingress(x) = Ingress(t) /\ Egress(x) = Egress(t)
    BY <1>10, <2>0, <2>4, Zenon DEF Ingress, Egress, Ops
  <2>8. Chain(t, 0, 0) => Chain(x, 0, 0)
    BY <2>4, <2>7, Zenon DEF Chain, Base, Finished
  <2>. QED  BY <2>6, <2>8, Zenon DEF Fine
<1>13. Fine(s, t, o)
  BY <1>7, <1>9, Zenon DEF Fine
<1>. QED  BY <1>1, <1>11, <1>12, <1>13, FineTrans, Zenon

\* ProxyHeaderWritten and EgressTls: the next step takes the place of the one
\* that is over, or the session ends.
LEMMA HandshakesFine ==
    ASSUME s \in SessionType, EgAuth(s), NEW o, ProxyHeaderWritten \/ EgressTls
    PROVE  Fine(s, s', o)
<1>. DEFINE n == [s EXCEPT !.eg = "none"]
<1>0. s.allowed /\ s.eg # "none"
  BY DEF EgAuth, ProxyHeaderWritten, EgressTls
<1>1. \/ s' = EgressHandshake(s)
      \/ s' = EgressHandshook(n)
      \/ \E aborted \in BOOLEAN : s' = HandleSessionError(n, "INGRESS", aborted)
  BY Zenon DEF ProxyHeaderWritten, EgressTls
<1>2. /\ Good(s, n, o) /\ (Base(s) => Base(n))
      /\ Chain(s, 0, 0) => Chain(n, 0, 1)
  BY <1>0, EgOver, Zenon
<1>3. n \in SessionType /\ n.eg = "none"
  BY <1>2, Zenon DEF Good, SessionType
<1>. HIDE DEF n
<1>4. Fine(s, EgressHandshake(s), o)
  BY <1>0, HandshakeEffect, Zenon DEF Fine
<1>5. Fine(s, EgressHandshook(n), o)
  <2>1. /\ Good(n, EgressHandshook(n), o)
        /\ Chain(n, 0, 1) => Chain(EgressHandshook(n), 0, 0)
    BY <1>3, HandshookEffect, Zenon
  <2>. QED  BY <1>2, <2>1, GoodTrans, Zenon DEF Fine
<1>6. ASSUME NEW aborted \in BOOLEAN
      PROVE  Fine(s, HandleSessionError(n, "INGRESS", aborted), o)
  BY <1>2, FailedFine, Sides, Zenon
<1>. QED  BY <1>1, <1>4, <1>5, <1>6, Zenon

\* RunPosted: the sockets are closed and the operations on them fail.
LEMMA RunPostedFine ==
    ASSUME s \in SessionType, NEW o, RunPosted
    PROVE  Fine(s, s', o)
<1>. DEFINE t(c) == [s EXCEPT !.posted = @ \ {c}]
<1>1. \/ s' = PerformDisconnectBoth(t("both"))
      \/ s' = Shutdown(t("backend"), "EGRESS")
  BY Zenon DEF RunPosted
<1>2. ASSUME NEW c PROVE Calm(s, t(c), o)
  <2>1. s.posted \ {c} \in SUBSET {"both", "backend"}
    BY FieldTypes
  <2>. QED  BY <2>1, PostedCalm, Zenon
<1>. HIDE DEF t
<1>3. ASSUME NEW c
      PROVE  /\ Calm(t(c), PerformDisconnectBoth(t(c)), o)
             /\ Calm(t(c), Shutdown(t(c), "EGRESS"), o)
  <2>1. t(c) \in SessionType
    BY <1>2, Zenon DEF Calm, Quiet
  <2>. QED  BY <2>1, BothEffect, ShutdownEffect, Sides, Zenon
<1>4. Calm(s, s', o)
  BY <1>1, <1>2, <1>3, CalmTrans, ZenonT(40)
<1>. QED  BY <1>4, CalmFine, Zenon

\* Every completion handler.
LEMMA IoStepFine ==
    ASSUME s \in SessionType, EgAuth(s), NEW o, Flows(s, o), IoStep
    PROVE  Fine(s, s', o)
<1>1. ASSUME NEW d \in FlowType, ShutdownDone(d) PROVE Fine(s, s', o)
  <2>1. Calm(s, s', o)
    BY <1>1, CloseEffect, Zenon DEF ShutdownDone
  <2>. QED  BY <2>1, CalmFine, Zenon
<1>. QED  BY <1>1, ReadSomeFine, HandlersFine, UnblockFine, IngressHandshakeFine,
             LimitTimerFine, AuthResponseFine, ResolvedFine, ConnectFailedFine,
             ConnectedFine, HandshakesFine, RunPostedFine, Zenon
          DEF IoStep

-----------------------------------------------------------------------------
(* The commands.                                                           *)

\* SessionPause and VhostPause start and end no operation.
LEMMA PauseFine ==
    ASSUME s \in SessionType, NEW o, SessionPause \/ VhostPause
    PROVE  Fine(s, s', o)
<1>1. PICK p \in BOOLEAN, v \in BOOLEAN : s' = [s EXCEPT !.paused = p, !.vpaused = v]
  <2>1. s.vpaused \in BOOLEAN /\ s.paused \in BOOLEAN /\ s.vhost \in BOOLEAN
    BY Zenon DEF SessionType
  <2>2. CASE SessionPause
    <3>1. s' = [s EXCEPT !.paused = TRUE, !.vpaused = s.vpaused]
      BY <2>2, Zenon DEF SessionPause, SessionType
    <3>. QED  BY <2>1, <3>1, Zenon
  <2>3. CASE VhostPause
    <3>1. s' = [s EXCEPT !.paused = s.paused \/ s.vhost, !.vpaused = TRUE]
      BY <2>3, Zenon DEF VhostPause, SessionType
    <3>. QED  BY <2>1, <3>1, Zenon
  <2>. QED  BY <2>2, <2>3, Zenon
<1>2. ~NoPause
  BY DEF SessionPause, VhostPause, Issue, NoPause
<1>. DEFINE u == [s EXCEPT !.paused = p, !.vpaused = v]
<1>3. /\ u \in SessionType /\ u.conn = s.conn /\ u.ready = s.ready
      /\ u.vhost = s.vhost /\ u.allowed = s.allowed /\ u.shake = s.shake
      /\ u.eg = s.eg /\ u.disc = s.disc /\ u.sock = s.sock /\ u.in = s.in
      /\ u.buf = s.buf /\ u.out = s.out /\ u.blocked = s.blocked
      /\ u.rd = s.rd /\ u.wd = s.wd /\ u.ab = s.ab /\ u.bad = s.bad
  BY Zenon DEF SessionType
<1>. HIDE DEF u
<1>4. Good(s, u, o)
  BY <1>3, Zenon DEF Good, Flows, EgAuth
<1>5. Ingress(u) = Ingress(s) /\ Egress(u) = Egress(s)
  BY <1>3, Zenon DEF Ingress, Egress, Ops
<1>6. Chain(s, 0, 0) => Chain(u, 0, 0)
  BY <1>2, <1>3, <1>5, Zenon DEF Chain, Base, Finished
<1>. QED  BY <1>1, <1>4, <1>6, Zenon DEF Fine, u

\* VhostUnpause: a session that waits for the end of a pause connects to a
\* backend, one that is paused elsewhere is disconnected.
LEMMA UnpauseFine ==
    ASSUME s \in SessionType, NEW o, VhostUnpause
    PROVE  Fine(s, s', o)
<1>. DEFINE t == [s EXCEPT !.vpaused = FALSE]
            v == [t EXCEPT !.ready = FALSE, !.paused = FALSE]
<1>1. PICK rc \in Statuses : s' = IF s.vhost THEN Unpause(t, rc) ELSE t
  BY Zenon DEF VhostUnpause
<1>2. /\ t \in SessionType /\ t.conn = s.conn /\ t.ready = s.ready
      /\ t.vhost = s.vhost /\ t.allowed = s.allowed /\ t.shake = s.shake
      /\ t.eg = s.eg /\ t.disc = s.disc /\ t.sock = s.sock /\ t.in = s.in
      /\ t.buf = s.buf /\ t.out = s.out /\ t.blocked = s.blocked
      /\ t.rd = s.rd /\ t.wd = s.wd /\ t.ab = s.ab /\ t.bad = s.bad
      /\ t.paused = s.paused /\ t.vpaused = FALSE
  BY Zenon DEF SessionType
<1>3. \/ s' = EstablishConnection(v, rc, FALSE) /\ t.vhost /\ t.ready
      \/ s' = Disconnect(t, FALSE)
      \/ s' = t
  BY <1>1, <1>2, Zenon DEF Unpause
<1>. HIDE DEF t
<1>4. Good(s, t, o)
  BY <1>2, Zenon DEF Good, Flows, EgAuth
<1>5. Ingress(t) = Ingress(s) /\ Egress(t) = Egress(s)
  BY <1>2, Zenon DEF Ingress, Egress, Ops
<1>6. Chain(s, 0, 0) => Chain(t, 0, 0)
  BY <1>2, <1>5, Zenon DEF Chain, Base, Finished
<1>7. Fine(s, t, o)
  BY <1>4, <1>6, Zenon DEF Fine
<1>8. CASE s' = Disconnect(t, FALSE)
  <2>1. Ends(t, s', o)
    BY <1>2, <1>8, DisconnectEffect, Zenon
  <2>2. Fine(t, s', o)
    BY <2>1, QuietGood, ChainEnds, Zenon DEF Fine, Ends, Chain
  <2>. QED  BY <1>7, <2>2, FineTrans, Zenon
<1>9. CASE s' = EstablishConnection(v, rc, FALSE) /\ t.vhost /\ t.ready
  <2>1. /\ v \in SessionType /\ v.conn = t.conn /\ v.ready = FALSE
        /\ v.vhost = t.vhost /\ v.allowed = t.allowed /\ v.shake = t.shake
        /\ v.eg = t.eg /\ v.disc = t.disc /\ v.sock = t.sock /\ v.in = t.in
        /\ v.buf = t.buf /\ v.out = t.out /\ v.blocked = t.blocked
        /\ v.rd = t.rd /\ v.wd = t.wd /\ v.ab = t.ab /\ v.bad = t.bad
        /\ v.paused = FALSE /\ v.vpaused = t.vpaused
    BY <1>2, Zenon DEF SessionType
  <2>. HIDE DEF v
  <2>2. Good(t, v, o)
    BY <2>1, Zenon DEF Good, Flows, EgAuth
  <2>3. Ingress(v) = Ingress(t) /\ Egress(v) = Egress(t)
    BY <2>1, Zenon DEF Ingress, Egress, Ops
  <2>4. Egress(t) \in Nat
    BY <1>2, PendingTypes, Zenon
  <2>5. ASSUME Chain(t, 0, 0) PROVE Chain(v, 0, 1)
    <3>1. ~Finished(t) => Egress(t) + 0 = 0
      BY <1>9, <2>5, Zenon DEF Chain
    <3>2. ~Finished(t) => AtMostOne(Egress(t) + 1)
      BY <2>4, <3>1, SMT DEF AtMostOne
    <3>3. Base(v) /\ (Finished(v) <=> Finished(t))
      BY <1>2, <2>1, <2>5, Zenon DEF Chain, Base, Finished
    <3>. QED  BY <1>9, <2>1, <2>3, <2>5, <3>2, <3>3, Zenon DEF Chain
  <2>6. Good(v, s', o) /\ (Chain(v, 0, 1) => Chain(s', 0, 0))
    BY <1>9, <2>1, EstablishEffect, Zenon
  <2>7. Fine(t, s', o)
    BY <2>2, <2>5, <2>6, GoodTrans, Zenon DEF Fine
  <2>. QED  BY <1>7, <2>7, FineTrans, Zenon
<1>. QED  BY <1>3, <1>7, <1>8, <1>9, Zenon

\* DisconnectGraceful adds a Close to what is on its way to the client, and no
\* OpenOk.
LEMMA GracefulGood ==
    ASSUME s \in SessionType, NEW o, DisconnectGraceful
    PROVE  Good(s, s', o)
<1>. DEFINE t == [s EXCEPT !.conn = "CLIENT_CLOSE_SENT"]
<1>0. "CLIENT_CLOSE_SENT" \in State /\ "Close" \in FrameType /\ "Close" # "OpenOk"
  BY DEF State, FrameType, MethodType
<1>1. Good(s, t, o)
  BY <1>0, ConnMoved, Zenon
<1>2. s' = SendSyntheticData(t, "INGRESS", "Close", FALSE)
  BY Zenon DEF DisconnectGraceful
<1>. HIDE DEF t
<1>3. Quiet(t, s', o)
  BY <1>0, <1>1, <1>2, SyntheticEffect, Sides, Zenon DEF Good
<1>. QED  BY <1>1, <1>3, QuietGood, GoodTrans, Zenon

\* Every command keeps what the client is sent and who is let through; every
\* command but the graceful disconnect keeps the chains of operations.
LEMMA ControlStepFine ==
    ASSUME s \in SessionType, NEW o, ControlStep
    PROVE  Good(s, s', o) /\ ("graceful" \notin Commands => Fine(s, s', o))
<1>1. ASSUME Fine(s, s', o)
      PROVE  Good(s, s', o) /\ ("graceful" \notin Commands => Fine(s, s', o))
  BY <1>1, Zenon DEF Fine
<1>2. CASE DisconnectGraceful
  BY <1>2, GracefulGood, Zenon DEF DisconnectGraceful, Issue
<1>3. CASE ForceDisconnect
  <2>1. Ends(s, s', o)
    BY <1>3, DisconnectEffect, Zenon DEF ForceDisconnect
  <2>2. Fine(s, s', o)
    BY <2>1, QuietGood, ChainEnds, Zenon DEF Fine, Ends, Chain
  <2>. QED  BY <1>1, <2>2, Zenon
<1>4. CASE BackendDisconnect
  <2>1. s.posted \cup {"backend"} \in SUBSET {"both", "backend"}
    BY FieldTypes
  <2>2. s' = [s EXCEPT !.posted = s.posted \cup {"backend"}]
    BY <1>4, Zenon DEF BackendDisconnect
  <2>3. Calm(s, s', o)
    BY <2>1, <2>2, PostedCalm, Zenon
  <2>. QED  BY <1>1, <2>3, CalmFine, Zenon
<1>. QED  BY <1>1, <1>2, <1>3, <1>4, PauseFine, UnpauseFine, Zenon DEF ControlStep

-----------------------------------------------------------------------------
(* The peers.                                                               *)

\* What is fit for the client before the broker accepted the Open is so after.
LEMMA FlowsMonotone ==
    ASSUME NEW t, NEW o \in BOOLEAN, NEW p \in BOOLEAN, o => p, Flows(t, o)
    PROVE  Flows(t, p)
<1>1. BrokerFrame(o) \subseteq BrokerFrame(p) /\ ToClient(o) \subseteq ToClient(p)
  BY DEF BrokerFrame, ToClient
<1>. DEFINE A == Seq(BrokerFrame(o))
            B == Seq(BrokerFrame(p))
            C == Seq(ToClient(o))
            D == Seq(ToClient(p))
<1>2. A \subseteq B /\ C \subseteq D
  BY <1>1
<1>3. WriteToClient(o) \subseteq WriteToClient(p)
  <2>. HIDE DEF C, D
  <2>1. [flow : FlowType, msgs : C] \subseteq [flow : FlowType, msgs : D]
    BY <1>2
  <2>. QED  BY <2>1, Zenon DEF WriteToClient, C, D
<1>4. Seq(WriteToClient(o)) \subseteq Seq(WriteToClient(p))
  BY <1>3
<1>. QED  BY <1>2, <1>4, Zenon DEF Flows

\* The frames of a peer, put on the wire.
LEMMA FromPeerCalm ==
    ASSUME NEW t \in SessionType, NEW side \in FlowType, NEW o,
           NEW frames \in Seq(FromSide(side, o))
    PROVE  Calm(t, FromPeer(t, side, frames), o)
<1>. DEFINE u == [t EXCEPT !.in[side] = @ \o frames]
<1>1. FromPeer(t, side, frames) \in {t, u}
  BY Zenon DEF FromPeer
<1>2. t.in \in [FlowType -> Seq(Frame)]
  BY FieldTypes, Zenon
<1>3. frames \in Seq(Frame)
  <2>1. FromSide(side, o) \subseteq Frame
    BY FrameOfSide, Zenon
  <2>. QED  BY <2>1
<1>4. t.in[side] \o frames \in Seq(Frame)
  <2>1. t.in[side] \in Seq(Frame)
    BY <1>2, Zenon
  <2>. QED  BY <1>3, <2>1
<1>5. [t.in EXCEPT ![side] = @ \o frames] \in [FlowType -> Seq(Frame)]
  BY <1>2, <1>4, FlowUpdate, Zenon
<1>6. /\ u \in SessionType
      /\ Same(t, u) /\ u.disc = t.disc /\ u.sock = t.sock
      /\ u.in = [t.in EXCEPT ![side] = t.in[side] \o frames]
      /\ u.buf = t.buf /\ u.out = t.out /\ u.blocked = t.blocked
      /\ u.rd = t.rd /\ u.wd = t.wd /\ u.ab = t.ab /\ u.bad = t.bad
  BY <1>5, Zenon DEF SessionType, Same
<1>. HIDE DEF u
<1>7. \A x \in FlowType : u.in[x] = IF x = side THEN t.in[side] \o frames ELSE t.in[x]
  BY <1>2, <1>6, FlowLookup, Zenon
<1>8. ASSUME Flows(t, o) PROVE Flows(u, o)
  <2>0. ASSUME NEW S, t.in[side] \in Seq(S), frames \in Seq(S)
        PROVE  t.in[side] \o frames \in Seq(S)
    BY <2>0
  <2>1. CASE side = "INGRESS"
    <3>1. t.in[side] \o frames \in Seq(ClientFrame)
      BY <1>8, <2>0, <2>1, Zenon DEF Flows, FromSide
    <3>2. "EGRESS" # side
      BY <2>1
    <3>. QED  BY <1>6, <1>7, <1>8, <2>1, <3>1, <3>2, Sides, Zenon DEF Flows
  <2>2. CASE side = "EGRESS"
    <3>0. FromSide(side, o) = BrokerFrame(o)
      BY <2>2 DEF FromSide
    <3>1. t.in[side] \o frames \in Seq(BrokerFrame(o))
      BY <1>8, <2>0, <2>2, <3>0, Zenon DEF Flows
    <3>2. "INGRESS" # side
      BY <2>2
    <3>. QED  BY <1>6, <1>7, <1>8, <2>2, <3>1, <3>2, Sides, Zenon DEF Flows
  <2>. QED  BY <2>1, <2>2, Zenon DEF FlowType
<1>9. \A e \in FlowType : Ops(u, e) = Ops(t, e)
  BY <1>6, Zenon DEF Ops
<1>10. Calm(t, u, o)
  BY <1>6, <1>8, <1>9, Zenon DEF Calm, Quiet
<1>. QED  BY <1>1, <1>10, QuietSelf, Zenon

\* A frame that a peer took off the wire, and the frames that are lost with
\* it.
LEMMA OutCalm ==
    ASSUME NEW t \in SessionType, NEW side \in FlowType, NEW o, NEW u,
           \/ t.out[side] # <<>> /\ u = Took(t, side)
           \/ u = Hangup(t, side)
    PROVE  Calm(t, u, o)
<1>. DEFINE a == [t EXCEPT !.out[side] = Tail(@)]
            b == [t EXCEPT !.fin[side] = TRUE, !.out[side] = <<>>]
<1>1. t.out \in [FlowType -> Seq(Frame)]
  BY FieldTypes, Zenon
<1>2. u \in SessionType
  BY TookKeeps, HangupKeeps, Zenon DEF Keeps
<1>3. /\ Same(t, a) /\ a.disc = t.disc /\ a.sock = t.sock /\ a.in = t.in
      /\ a.buf = t.buf /\ a.out = [t.out EXCEPT ![side] = Tail(t.out[side])]
      /\ a.blocked = t.blocked
      /\ a.rd = t.rd /\ a.wd = t.wd /\ a.ab = t.ab /\ a.bad = t.bad
  BY Zenon DEF SessionType, Same
<1>4. /\ Same(t, b) /\ b.disc = t.disc /\ b.sock = t.sock /\ b.in = t.in
      /\ b.buf = t.buf /\ b.out = [t.out EXCEPT ![side] = <<>>]
      /\ b.blocked = t.blocked
      /\ b.rd = t.rd /\ b.wd = t.wd /\ b.ab = t.ab /\ b.bad = t.bad
  BY Zenon DEF SessionType, Same
<1>5. u = b \/ (u = a /\ t.out[side] # <<>>)
  BY Zenon DEF Took, Hangup
<1>. HIDE DEF a, b
<1>6. \E q : /\ u.out = [t.out EXCEPT ![side] = q]
             /\ t.out[side] \in Seq(ToClient(o)) => q \in Seq(ToClient(o))
  <2>1. <<>> \in Seq(ToClient(o))
    OBVIOUS
  <2>2. t.out[side] # <<>> /\ t.out[side] \in Seq(ToClient(o))
          => Tail(t.out[side]) \in Seq(ToClient(o))
    OBVIOUS
  <2>. QED  BY <1>3, <1>4, <1>5, <2>1, <2>2, Zenon
<1>7. t.out["INGRESS"] \in Seq(ToClient(o)) => u.out["INGRESS"] \in Seq(ToClient(o))
  <2>1. PICK q : /\ u.out = [t.out EXCEPT ![side] = q]
                 /\ t.out[side] \in Seq(ToClient(o)) => q \in Seq(ToClient(o))
    BY <1>6, Zenon
  <2>2. u.out["INGRESS"] = IF "INGRESS" = side THEN q ELSE t.out["INGRESS"]
    BY <1>1, <2>1, FlowLookup, Sides, Zenon
  <2>. QED  BY <2>1, <2>2, Zenon
<1>8. /\ Same(t, u) /\ u.disc = t.disc /\ u.sock = t.sock /\ u.in = t.in
      /\ u.buf = t.buf /\ u.blocked = t.blocked
      /\ u.rd = t.rd /\ u.wd = t.wd /\ u.ab = t.ab /\ u.bad = t.bad
  BY <1>3, <1>4, <1>5, Zenon
<1>9. \A e \in FlowType : Ops(u, e) = Ops(t, e)
  BY <1>8, Zenon DEF Ops
<1>. QED  BY <1>2, <1>7, <1>8, <1>9, Zenon DEF Calm, Quiet, Flows

\* What the peers send.
LEMMA PeerFrames ==
    ASSUME NEW o, NEW n \in Nat
    PROVE  /\ {<<Frm("Header")>>, <<Frm("OldHeader")>>, <<Frm("StartOk")>>,
               <<Frm("TuneOk"), Frm("Open")>>, <<Frm("CloseOk")>>, <<Frm("Close")>>,
               <<Frm("Heartbeat")>>, <<[type |-> "Content", n |-> n]>>}
                 \subseteq Seq(FromSide("INGRESS", o))
           /\ {<<>>, <<Frm("Start")>>, <<Frm("Tune")>>, <<Frm("CloseOk")>>,
               <<Frm("Close")>>, <<[type |-> "Content", n |-> n]>>}
                 \subseteq Seq(FromSide("EGRESS", o))
           /\ o => <<Frm("OpenOk")>> \in Seq(FromSide("EGRESS", o))
<1>1. {"Header", "OldHeader", "StartOk", "TuneOk", "Open", "CloseOk", "Close",
       "Heartbeat"} \subseteq FrameType \ {"Start", "Tune", "OpenOk"}
  BY DEF FrameType, MethodType
<1>2. ASSUME NEW f \in FrameType \ {"Start", "Tune", "OpenOk"}
      PROVE  Frm(f) \in ClientFrame
  BY DEF Frm, Frame, ClientFrame
<1>3. ASSUME NEW f \in {"Start", "Tune", "CloseOk", "Close"}
      PROVE  Frm(f) \in BrokerFrame(o)
  BY DEF Frm, Frame, BrokerFrame, FrameType, MethodType
<1>4. o => Frm("OpenOk") \in BrokerFrame(o)
  BY DEF Frm, Frame, BrokerFrame, FrameType, MethodType
<1>5. /\ [type |-> "Content", n |-> n] \in ClientFrame
      /\ [type |-> "Content", n |-> n] \in BrokerFrame(o)
  BY DEF Frame, ClientFrame, BrokerFrame, FrameType
<1>6. FromSide("INGRESS", o) = ClientFrame /\ FromSide("EGRESS", o) = BrokerFrame(o)
  BY DEF FromSide
<1>7. /\ Frm("Header") \in ClientFrame /\ Frm("OldHeader") \in ClientFrame
      /\ Frm("StartOk") \in ClientFrame /\ Frm("TuneOk") \in ClientFrame
      /\ Frm("Open") \in ClientFrame /\ Frm("CloseOk") \in ClientFrame
      /\ Frm("Close") \in ClientFrame /\ Frm("Heartbeat") \in ClientFrame
  BY <1>1, <1>2
<1>8. \A S : \A x, y \in S : <<x>> \in Seq(S) /\ <<x, y>> \in Seq(S) /\ <<>> \in Seq(S)
  OBVIOUS
<1>9. /\ <<Frm("Header")>> \in Seq(ClientFrame) /\ <<Frm("OldHeader")>> \in Seq(ClientFrame)
      /\ <<Frm("StartOk")>> \in Seq(ClientFrame)
      /\ <<Frm("TuneOk"), Frm("Open")>> \in Seq(ClientFrame)
      /\ <<Frm("CloseOk")>> \in Seq(ClientFrame) /\ <<Frm("Close")>> \in Seq(ClientFrame)
      /\ <<Frm("Heartbeat")>> \in Seq(ClientFrame)
      /\ <<[type |-> "Content", n |-> n]>> \in Seq(ClientFrame)
  BY <1>5, <1>7, <1>8, Zenon
<1>10. /\ <<>> \in Seq(BrokerFrame(o)) /\ <<Frm("Start")>> \in Seq(BrokerFrame(o))
       /\ <<Frm("Tune")>> \in Seq(BrokerFrame(o))
       /\ <<Frm("CloseOk")>> \in Seq(BrokerFrame(o))
       /\ <<Frm("Close")>> \in Seq(BrokerFrame(o))
       /\ <<[type |-> "Content", n |-> n]>> \in Seq(BrokerFrame(o))
       /\ o => <<Frm("OpenOk")>> \in Seq(BrokerFrame(o))
  BY <1>3, <1>4, <1>5, <1>8, Zenon
<1>. QED  BY <1>6, <1>9, <1>10, Zenon

\* What the peers remember: the client was told OpenOk only if the broker said
\* so, and a broker was reached only with an allowed client.
Peered(c, b, t) ==
    /\ c.opened => b.opened
    /\ b.st # "none" => t.allowed

\* What a step of a peer may do.
PeerMoves ==
    /\ Calm(s, s', broker'.opened)
    /\ broker.opened => broker'.opened
    /\ client'.opened => client.opened \/ broker'.opened
    /\ broker.st = "none" => broker'.st = "none"

\* What a peer remembers is left alone by its steps, but for the Open.
Remembers(p, q) ==
    \/ \E x : q = [p EXCEPT !.st = x]
    \/ \E x : q = [p EXCEPT !.got = x]
    \/ q = [p EXCEPT !.sent = @ + 1]
    \/ q = [p EXCEPT !.hb = @ + 1]
    \/ q = p

\* Only the answer to an Open changes whether a peer was opened.
LEMMA PeerFields ==
    ASSUME NEW p \in PeerType, NEW q, Remembers(p, q)
    PROVE  q.opened = p.opened
<1>1. ASSUME NEW x, q = [p EXCEPT !.st = x] \/ q = [p EXCEPT !.got = x]
      PROVE  q.opened = p.opened
  BY <1>1, Zenon DEF PeerType
<1>2. ASSUME q = [p EXCEPT !.sent = @ + 1] \/ q = [p EXCEPT !.hb = @ + 1]
      PROVE  q.opened = p.opened
  BY <1>2, Zenon DEF PeerType
<1>. QED  BY <1>1, <1>2, Zenon DEF Remembers

\* The answer to an Open does.
LEMMA PeerOpened ==
    ASSUME NEW p \in PeerType, NEW x, NEW y
    PROVE  [p EXCEPT !.st = x, !.opened = y].opened = y
BY Zenon DEF PeerType

\* The answers of the client: it is opened only by an OpenOk.
LEMMA ClientReplyCalm ==
    ASSUME NEW t \in SessionType, client \in PeerType, NEW f \in Frame, NEW o \in BOOLEAN,
           f \in ToClient(o), ClientReply(f, t)
    PROVE  Calm(t, s', o) /\ (client'.opened => client.opened \/ o)
<1>1. \/ \E q \in {<<Frm("StartOk")>>, <<Frm("TuneOk"), Frm("Open")>>,
                   <<Frm("CloseOk")>>} : s' = FromPeer(t, "INGRESS", q)
      \/ s' = t \/ s' = Hangup(t, "INGRESS")
  BY DEF ClientReply
<1>2. \/ client' = [client EXCEPT !.st = "open", !.opened = TRUE] /\ f.type = "OpenOk"
      \/ Remembers(client, client')
  BY DEF ClientReply, Remembers
<1>3. f.type = "OpenOk" => o
  BY DEF ToClient
<1>4. client'.opened => client.opened \/ o
  BY <1>2, <1>3, PeerFields, Zenon
<1>5. \A q \in Seq(FromSide("INGRESS", o)) : Calm(t, FromPeer(t, "INGRESS", q), o)
  BY FromPeerCalm, Sides, Zenon
<1>6. {<<Frm("StartOk")>>, <<Frm("TuneOk"), Frm("Open")>>, <<Frm("CloseOk")>>}
         \subseteq Seq(FromSide("INGRESS", o))
  <2>1. 0 \in Nat
    OBVIOUS
  <2>. QED  BY <2>1, PeerFrames, Zenon
<1>7. Calm(t, t, o) /\ Calm(t, Hangup(t, "INGRESS"), o)
  BY OutCalm, QuietSelf, Sides, Zenon
<1>8. Calm(t, s', o)
  BY <1>1, <1>5, <1>6, <1>7, Zenon
<1>. QED  BY <1>4, <1>8, Zenon

\* The answers of the broker: it sends an OpenOk only when it is opened.
LEMMA BrokerReplyCalm ==
    ASSUME NEW t \in SessionType, broker \in PeerType, NEW f \in Frame,
           broker.st # "none", BrokerReply(f, t)
    PROVE  Calm(t, s', broker'.opened) /\ (broker.opened => broker'.opened)
<1>1. ASSUME NEW q, NEW st, BrokerAnswer(t, q, st),
             \A o : (st = "open" => o) => q \in Seq(FromSide("EGRESS", o))
      PROVE  Calm(t, s', broker'.opened) /\ (broker.opened => broker'.opened)
  <2>1. broker' = [broker EXCEPT !.st = st,
                                 !.opened = broker.opened \/ st = "open"]
    BY <1>1, Zenon DEF BrokerAnswer, PeerType
  <2>2. broker'.opened = (broker.opened \/ st = "open")
    BY <2>1, PeerOpened, Zenon
  <2>3. q \in Seq(FromSide("EGRESS", broker'.opened))
    BY <1>1, <2>2, Zenon
  <2>4. Calm(t, s', broker'.opened)
    BY <1>1, <2>3, FromPeerCalm, Sides, Zenon DEF BrokerAnswer
  <2>. QED  BY <2>2, <2>4, Zenon
<1>2. \/ \E q \in {<<>>, <<Frm("Start")>>, <<Frm("Tune")>>, <<Frm("Close")>>,
                   <<Frm("CloseOk")>>},
            st \in {"header", "startok", "tuned", "open", "closing"} :
            BrokerAnswer(t, q, st)
      \/ BrokerAnswer(t, <<Frm("OpenOk")>>, "open")
      \/ s' = t /\ broker' = [broker EXCEPT !.got = f.n]
      \/ s' = Hangup(t, "EGRESS") /\ broker' = [broker EXCEPT !.st = "gone"]
      \/ s' = t /\ broker' = broker
  BY DEF BrokerReply
<1>3. \A o : /\ {<<>>, <<Frm("Start")>>, <<Frm("Tune")>>, <<Frm("Close")>>,
                 <<Frm("CloseOk")>>} \subseteq Seq(FromSide("EGRESS", o))
             /\ o => <<Frm("OpenOk")>> \in Seq(FromSide("EGRESS", o))
  <2>1. 0 \in Nat
    OBVIOUS
  <2>. QED  BY <2>1, PeerFrames, Zenon
<1>4. CASE \E q \in {<<>>, <<Frm("Start")>>, <<Frm("Tune")>>, <<Frm("Close")>>,
                     <<Frm("CloseOk")>>},
              st \in {"header", "startok", "tuned", "open", "closing"} :
              BrokerAnswer(t, q, st)
  <2>1. PICK q \in {<<>>, <<Frm("Start")>>, <<Frm("Tune")>>, <<Frm("Close")>>,
                    <<Frm("CloseOk")>>},
             st \in {"header", "startok", "tuned", "open", "closing"} :
             BrokerAnswer(t, q, st)
    BY <1>4
  <2>2. \A o : q \in Seq(FromSide("EGRESS", o))
    BY <1>3, Zenon
  <2>. QED  BY <1>1, <2>1, <2>2, Zenon
<1>5. CASE BrokerAnswer(t, <<Frm("OpenOk")>>, "open")
  <2>1. \A o : ("open" = "open" => o) => <<Frm("OpenOk")>> \in Seq(FromSide("EGRESS", o))
    BY <1>3, Zenon
  <2>. QED  BY <1>1, <1>5, <2>1, Zenon
<1>6. \A o : Calm(t, t, o) /\ Calm(t, Hangup(t, "EGRESS"), o)
  BY OutCalm, QuietSelf, Sides, Zenon
<1>7. CASE \/ s' = t /\ broker' = [broker EXCEPT !.got = f.n]
           \/ s' = Hangup(t, "EGRESS") /\ broker' = [broker EXCEPT !.st = "gone"]
           \/ s' = t /\ broker' = broker
  <2>1. Remembers(broker, broker')
    BY <1>7, Zenon DEF Remembers
  <2>2. broker'.opened = broker.opened
    BY <2>1, PeerFields, Zenon
  <2>. QED  BY <1>6, <1>7, <2>2, Zenon
<1>. QED  BY <1>2, <1>4, <1>5, <1>7, Zenon

\* Every step of a peer.
LEMMA PeerStepCalm ==
    ASSUME TypeOK, Flows(s, broker.opened), PeerStep
    PROVE  PeerMoves
<1>0. /\ s \in SessionType /\ client \in PeerType /\ broker \in PeerType
      /\ broker.opened \in BOOLEAN
  BY PeerUpdates, Zenon DEF TypeOK
<1>. DEFINE o == broker.opened
<1>1. \A q \in Seq(FromSide("INGRESS", o)) : Calm(s, FromPeer(s, "INGRESS", q), o)
  BY <1>0, FromPeerCalm, Sides, Zenon
<1>2. \A q \in Seq(FromSide("EGRESS", o)) : Calm(s, FromPeer(s, "EGRESS", q), o)
  BY <1>0, FromPeerCalm, Sides, Zenon
<1>3. Calm(s, Hangup(s, "INGRESS"), o) /\ Calm(s, Hangup(s, "EGRESS"), o)
  BY <1>0, OutCalm, Sides, Zenon
<1>4. client.sent + 1 \in Nat /\ broker.sent + 1 \in Nat
  BY <1>0, PeerUpdates, Zenon
<1>5. CASE ClientStart
  <2>1. PICK h \in {"Header", "OldHeader"} :
           s' = FromPeer(s, "INGRESS", <<Frm(h)>>)
    BY <1>5 DEF ClientStart
  <2>2. Calm(s, s', o)
    BY <1>1, <1>4, <2>1, PeerFrames, Zenon
  <2>3. client'.opened = client.opened /\ broker' = broker
    <3>1. Remembers(client, client') /\ broker' = broker
      BY <1>5 DEF ClientStart, Remembers
    <3>. QED  BY <1>0, <3>1, PeerFields, Zenon
  <2>. QED  BY <2>2, <2>3, Zenon DEF PeerMoves
<1>6. CASE ClientReceive
  <2>. DEFINE t == Took(s, "INGRESS")
              f == Head(s.out["INGRESS"])
  <2>1. s.out["INGRESS"] # <<>> /\ ClientReply(f, t) /\ broker' = broker
    BY <1>6, Zenon DEF ClientReceive
  <2>2. f \in ToClient(o) /\ f \in Frame
    <3>1. s.out["INGRESS"] \in Seq(ToClient(o))
      BY Zenon DEF Flows
    <3>2. f \in ToClient(o)
      BY <2>1, <3>1
    <3>. QED  BY <3>2 DEF ToClient
  <2>3. Calm(s, t, o) /\ t \in SessionType
    <3>1. Calm(s, t, o)
      BY <1>0, <2>1, OutCalm, Sides, Zenon
    <3>. QED  BY <3>1, Zenon DEF Calm, Quiet
  <2>. HIDE DEF t, f
  <2>4. Calm(t, s', o) /\ (client'.opened => client.opened \/ o)
    BY <1>0, <2>1, <2>2, <2>3, ClientReplyCalm, Zenon
  <2>5. Calm(s, s', o)
    BY <2>3, <2>4, CalmTrans, Zenon
  <2>. QED  BY <2>1, <2>4, <2>5, Zenon DEF PeerMoves
<1>7. CASE ClientSend
  <2>1. Calm(s, s', o)
    BY <1>1, <1>4, <1>7, PeerFrames, ZenonT(30) DEF ClientSend
  <2>2. client'.opened = client.opened /\ broker' = broker
    <3>1. Remembers(client, client') /\ broker' = broker
      BY <1>7 DEF ClientSend, Remembers
    <3>. QED  BY <1>0, <3>1, PeerFields, Zenon
  <2>. QED  BY <2>1, <2>2, Zenon DEF PeerMoves
<1>8. CASE ClientGone
  <2>1. client'.opened = client.opened /\ broker' = broker
    <3>1. Remembers(client, client') /\ broker' = broker
      BY <1>8 DEF ClientGone, Remembers
    <3>. QED  BY <1>0, <3>1, PeerFields, Zenon
  <2>. QED  BY <1>3, <1>8, <2>1, Zenon DEF PeerMoves, ClientGone
<1>9. CASE BrokerReceive
  <2>. DEFINE t == Took(s, "EGRESS")
              f == Head(s.out["EGRESS"])
  <2>1. /\ s.out["EGRESS"] # <<>> /\ BrokerReply(f, t) /\ client' = client
        /\ broker.st # "none"
    BY <1>9, Zenon DEF BrokerReceive
  <2>2. f \in Frame
    BY <1>0, <2>1, TookKeeps, Sides, Zenon
  <2>3. \A p : Calm(s, t, p)
    BY <1>0, <2>1, OutCalm, Sides, Zenon
  <2>4. t \in SessionType
    BY <2>3, Zenon DEF Calm, Quiet
  <2>. HIDE DEF t, f
  <2>5. Calm(t, s', broker'.opened) /\ (broker.opened => broker'.opened)
    BY <1>0, <2>1, <2>2, <2>4, BrokerReplyCalm, Zenon
  <2>6. Calm(s, s', broker'.opened)
    BY <2>3, <2>5, CalmTrans, Zenon
  <2>. QED  BY <2>1, <2>5, <2>6, Zenon DEF PeerMoves
<1>10. CASE BrokerSend
  <2>1. Calm(s, s', o)
    BY <1>2, <1>4, <1>10, PeerFrames, ZenonT(30) DEF BrokerSend
  <2>2. broker'.opened = broker.opened /\ client' = client /\ broker.st # "none"
    <3>1. Remembers(broker, broker') /\ client' = client /\ broker.st # "none"
      BY <1>10 DEF BrokerSend, Remembers
    <3>. QED  BY <1>0, <3>1, PeerFields, Zenon
  <2>. QED  BY <2>1, <2>2, Zenon DEF PeerMoves
<1>11. CASE BrokerGone
  <2>1. broker'.opened = broker.opened /\ client' = client /\ broker.st # "none"
    <3>1. Remembers(broker, broker') /\ client' = client /\ broker.st # "none"
      BY <1>11 DEF BrokerGone, Remembers
    <3>. QED  BY <1>0, <3>1, PeerFields, Zenon
  <2>. QED  BY <1>3, <1>11, <2>1, Zenon DEF PeerMoves, BrokerGone
<1>. QED  BY <1>5, <1>6, <1>7, <1>8, <1>9, <1>10, <1>11, Zenon DEF PeerStep

-----------------------------------------------------------------------------
(* The inductive invariants.                                                *)

\* What is on its way to the client and who was let through, for every command.
Guarded ==
    /\ TypeOK /\ Flows(s, broker.opened) /\ EgAuth(s)
    /\ Peered(client, broker, s)

\* One operation per flow, while no graceful disconnect is issued.
Chained == Guarded /\ Chain(s, 0, 0)

\* The peers during a step of the io thread or a command.
LEMMA PeersDuring ==
    ASSUME TypeOK, EgAuth(s), IoStep \/ ControlStep
    PROVE  /\ client'.opened = client.opened /\ broker'.opened = broker.opened
           /\ broker'.st = broker.st \/ s.allowed
<1>0. client \in PeerType /\ broker \in PeerType
  BY Zenon DEF TypeOK
<1>1. CASE ControlStep
  <2>1. client' = client /\ broker' = broker
    BY <1>1, Zenon DEF ControlStep, SessionPause, VhostPause, VhostUnpause,
       DisconnectGraceful, ForceDisconnect, BackendDisconnect, Issue
  <2>. QED  BY <2>1, Zenon
<1>2. CASE IoStep
  <2>1. CASE Connected
    <3>1. s.allowed
      BY <2>1 DEF EgAuth, Connected
    <3>2. Remembers(broker, broker') /\ client' = client
      BY <2>1, Zenon DEF Connected, Remembers
    <3>. QED  BY <1>0, <3>1, <3>2, PeerFields, Zenon
  <2>2. CASE \E d \in FlowType :
                \/ ReadSome(d) \/ ReadEof(d) \/ OperationAborted(d)
                \/ OperationFailed(d) \/ WriteDone(d) \/ Unblock(d)
                \/ ShutdownDone(d)
    BY <2>2, Zenon DEF ReadSome, ReadEof, OperationAborted,
       OperationFailed, WriteDone, Unblock, ShutdownDone, Peers
  <2>3. CASE \/ IngressHandshake \/ LimitTimer \/ AuthResponse \/ Resolved
             \/ ResolveFailed \/ ProxyHeaderWritten \/ EgressTls \/ RunPosted
             \/ ConnectFailed
    BY <2>3, Zenon DEF IngressHandshake, LimitTimer, AuthResponse, ConnectFailed,
       Resolved, ResolveFailed, ProxyHeaderWritten, EgressTls, RunPosted, Peers
  <2>. QED  BY <1>2, <2>1, <2>2, <2>3, Zenon DEF IoStep
<1>. QED  BY <1>1, <1>2, Zenon

\* A new session holds no frames and has no egress connection.
LEMMA InitGuarded == Init => Guarded
<1>. SUFFICES ASSUME Init PROVE Guarded
  OBVIOUS
<1>. PICK tls \in Tls, proxy \in ProxyProtocol : s = NewSession(tls, proxy)
  BY DEF Init
<1>1. TypeOK
  BY InitTypeOK
<1>2. Peered(client, broker, s)
  BY DEF Init, NewPeer, Peered
<1>3. s.eg = "none" /\ s.sock["EGRESS"] = "closed"
  BY DEF NewSession, FlowType
<1>4. \A d \in FlowType : s.in[d] = <<>> /\ s.buf[d] = <<>> /\ s.out[d] = <<>>
                          /\ s.blocked[d] = <<>>
  BY DEF NewSession
<1>5. \A S : <<>> \in Seq(S)
  OBVIOUS
<1>6. Flows(s, broker.opened)
  BY <1>4, <1>5, Sides, Zenon DEF Flows
<1>7. EgAuth(s)
  BY <1>3 DEF EgAuth
<1>. QED  BY <1>1, <1>2, <1>6, <1>7, Zenon DEF Guarded

\* A new session reads from its client, or waits for the client's TLS
\* handshake.
LEMMA InitChained == Init => Chained
<1>. SUFFICES ASSUME Init PROVE Chained
  OBVIOUS
<1>. PICK tls \in Tls, proxy \in ProxyProtocol : s = NewSession(tls, proxy)
  BY DEF Init
<1>1. /\ s.conn = "AWAITING_PROTOCOL_HEADER" /\ s.disc = "NOT_DISCONNECTED"
      /\ ~s.paused /\ ~s.ready /\ ~s.vhost /\ ~s.vpaused /\ s.eg = "none"
      /\ s.shake = ("INGRESS" \in tls)
  BY DEF NewSession
<1>2. \A d \in FlowType :
         /\ s.rd[d] = IF d = "INGRESS" /\ "INGRESS" \notin tls THEN 1 ELSE 0
         /\ s.wd[d] = 0 /\ s.ab[d] = 0 /\ s.bad[d] = 0 /\ s.blocked[d] = <<>>
  BY DEF NewSession
<1>3. \A d \in FlowType : BlockedOf(<<>>, d) = 0
  BY BlockedOfEmpty, Zenon
<1>4. Ops(s, "EGRESS") = 0 /\ Ops(s, "INGRESS") = IF "INGRESS" \in tls THEN 0 ELSE 1
  BY <1>2, <1>3, Sides, SMTT(30) DEF Ops
<1>5. Ingress(s) = 1 /\ Egress(s) = 0
  <2>1. One(s.shake, TRUE) = IF "INGRESS" \in tls THEN 1 ELSE 0
    BY <1>1, Zenon DEF One
  <2>2. Egress(s) = 0 + 0
    BY <1>1, <1>4, Zenon DEF Egress
  <2>3. Ingress(s) = (IF "INGRESS" \in tls THEN 0 ELSE 1)
                       + (IF "INGRESS" \in tls THEN 1 ELSE 0)
    BY <1>4, <2>1, Zenon DEF Ingress
  <2>. QED  BY <2>2, <2>3, SMT
<1>6. Chain(s, 0, 0)
  BY <1>1, <1>5, SMT DEF Chain, Base, AtMostOne, Early
<1>. QED  BY <1>6, InitGuarded, Zenon DEF Chained

\* Every step of the io thread, an operator or a peer keeps what the client is
\* sent and who is let through.
LEMMA NextGuarded ==
    ASSUME Guarded, [Next]_vars
    PROVE  Guarded'
<1>0. /\ TypeOK /\ TypeOK' /\ s \in SessionType /\ broker.opened \in BOOLEAN
      /\ broker'.opened \in BOOLEAN
  <2>1. TypeOK /\ TypeOK'
    BY NextKeeps, Zenon DEF Guarded
  <2>. QED  BY <2>1, PeerUpdates, Zenon DEF TypeOK
<1>1. /\ Flows(s, broker.opened) /\ EgAuth(s) /\ Peered(client, broker, s)
  BY Zenon DEF Guarded
<1>2. CASE IoStep \/ ControlStep
  <2>1. Good(s, s', broker.opened)
    BY <1>0, <1>1, <1>2, IoStepFine, ControlStepFine, Zenon DEF Fine
  <2>2. Flows(s', broker.opened) /\ EgAuth(s') /\ (s.allowed => s'.allowed)
    BY <1>1, <2>1, Zenon DEF Good
  <2>3. /\ client'.opened = client.opened /\ broker'.opened = broker.opened
        /\ broker'.st = broker.st \/ s.allowed
    BY <1>0, <1>1, <1>2, PeersDuring, Zenon
  <2>4. Peered(client', broker', s')
    BY <1>1, <2>2, <2>3, Zenon DEF Peered
  <2>. QED  BY <1>0, <2>2, <2>3, <2>4, Zenon DEF Guarded
<1>3. CASE PeerStep
  <2>1. PeerMoves
    BY <1>0, <1>1, <1>3, PeerStepCalm, Zenon
  <2>2. Flows(s, broker'.opened)
    BY <1>0, <1>1, <2>1, FlowsMonotone, Zenon DEF PeerMoves
  <2>3. Good(s, s', broker'.opened)
    BY <2>1, QuietGood, Zenon DEF PeerMoves, Calm
  <2>4. Peered(client', broker', s')
    BY <1>1, <2>1, <2>3, Zenon DEF Peered, PeerMoves, Good
  <2>. QED  BY <1>0, <1>1, <2>2, <2>3, <2>4, Zenon DEF Guarded, Good
<1>4. CASE UNCHANGED vars
  BY <1>0, <1>1, <1>4, Zenon DEF vars, Guarded, Flows, EgAuth, Peered
<1>. QED  BY <1>2, <1>3, <1>4, Zenon DEF Next

\* Every step keeps the chains of operations, while no graceful disconnect is
\* issued.
LEMMA NextChained ==
    ASSUME Chained, [Next]_vars, "graceful" \notin Commands
    PROVE  Chained'
<1>0. Guarded /\ Guarded' /\ Chain(s, 0, 0) /\ s \in SessionType
  BY NextGuarded, Zenon DEF Chained, Guarded, TypeOK
<1>1. CASE IoStep \/ ControlStep
  <2>1. Fine(s, s', broker.opened)
    BY <1>0, <1>1, IoStepFine, ControlStepFine, Zenon DEF Guarded
  <2>. QED  BY <1>0, <2>1, Zenon DEF Fine, Chained
<1>2. CASE PeerStep
  <2>1. Calm(s, s', broker'.opened)
    BY <1>0, <1>2, PeerStepCalm, Zenon DEF PeerMoves, Guarded
  <2>2. Chain(s', 0, 0)
    BY <1>0, <2>1, ChainCalm, Zenon
  <2>. QED  BY <1>0, <2>2, Zenon DEF Chained
<1>3. CASE UNCHANGED vars
  <2>1. Chain(s', 0, 0)
    BY <1>0, <1>3, Zenon DEF vars
  <2>. QED  BY <1>0, <2>1, Zenon DEF Chained
<1>. QED  BY <1>1, <1>2, <1>3, Zenon DEF Next

\* Whatever retries, pauses, disconnects and graceful disconnects come before,
\* for any number of backends, endpoints, frames and commands: no broker is
\* contacted for a client that authenticate did not allow.
THEOREM OnlyAuthorised == Spec => []AuthorisedEgress
<1>1. Guarded => AuthorisedEgress
  BY DEF Guarded, EgAuth, Peered, AuthorisedEgress
<1>. QED  BY <1>1, InitGuarded, NextGuarded, PTL DEF Spec

\* The client is told OpenOk only after a broker accepted its Open: neither
\* the Connector nor a frame that the session makes up opens it before.
THEOREM OpenedInTurn == Spec => []OpenedByBroker
<1>1. Guarded => OpenedByBroker
  BY DEF Guarded, Peered, OpenedByBroker
<1>. QED  BY <1>1, InitGuarded, NextGuarded, PTL DEF Spec

\* What the chains of the properties count is what the invariant counts.
LEMMA PendingSum ==
    ASSUME s \in SessionType
    PROVE  /\ Ingress(s) = Pending("INGRESS") + (IF s.shake THEN 1 ELSE 0)
           /\ Egress(s) = Pending("EGRESS") + (IF s.eg # "none" THEN 1 ELSE 0)
<1>1. s.shake \in BOOLEAN
  BY Zenon DEF SessionType
<1>2. \A d : Pending(d) = Ops(s, d)
  BY Zenon DEF Pending, Ops
<1>3. One(s.shake, TRUE) = IF s.shake THEN 1 ELSE 0
  BY <1>1, Zenon DEF One
<1>4. (IF s.eg # "none" THEN 1 ELSE 0) = IF s.eg = "none" THEN 0 ELSE 1
  BY Zenon
<1>. QED  BY <1>2, <1>3, <1>4, Zenon DEF Ingress, Egress

\* The invariant, for every property that it implies.
LEMMA AlwaysChained ==
    ASSUME "graceful" \notin Commands
    PROVE  Spec => []Chained
<1>1. Chained /\ [Next]_vars => Chained'
  BY NextChained
<1>. QED  BY <1>1, InitChained, PTL DEF Spec

\* readData and handleWriteData hand over to each other, and the steps of
\* establishConnection do: pauses included, a flow of a session that is not
\* finished never waits for two things at once, so that no two operations work
\* on one buffer.  A graceful disconnect is excluded: its write to the client
\* comes on top of the read.
THEOREM AtMostOneOperation ==
    ASSUME "graceful" \notin Commands
    PROVE  Spec => [](~Finished(s) =>
                        /\ Pending("INGRESS") + (IF s.shake THEN 1 ELSE 0) <= 1
                        /\ Pending("EGRESS") + (IF s.eg # "none" THEN 1 ELSE 0) <= 1)
<1>1. Chained => (~Finished(s) =>
                    /\ Pending("INGRESS") + (IF s.shake THEN 1 ELSE 0) <= 1
                    /\ Pending("EGRESS") + (IF s.eg # "none" THEN 1 ELSE 0) <= 1)
  <2>. SUFFICES ASSUME Chained, ~Finished(s)
                PROVE  /\ Pending("INGRESS") + (IF s.shake THEN 1 ELSE 0) <= 1
                       /\ Pending("EGRESS") + (IF s.eg # "none" THEN 1 ELSE 0) <= 1
    OBVIOUS
  <2>1. s \in SessionType /\ s.shake \in BOOLEAN
    BY Zenon DEF Chained, Guarded, TypeOK, SessionType
  <2>2. /\ Ingress(s) = Pending("INGRESS") + (IF s.shake THEN 1 ELSE 0)
        /\ Egress(s) = Pending("EGRESS") + (IF s.eg # "none" THEN 1 ELSE 0)
    BY <2>1, PendingSum, Zenon
  <2>3. Ingress(s) \in Nat /\ Egress(s) \in Nat
    BY <2>1, PendingTypes, Zenon
  <2>4. /\ AtMostOne(Ingress(s) + 0)
        /\ s.vhost => AtMostOne(Egress(s) + 0)
        /\ ~s.vhost => Egress(s) + 0 = 0
    BY Zenon DEF Chained, Chain
  <2>5. Ingress(s) <= 1 /\ Egress(s) <= 1
    BY <2>3, <2>4, SMT DEF AtMostOne
  <2>. QED  BY <2>2, <2>5, Zenon
<1>. QED  BY <1>1, AlwaysChained, PTL

\* Without pauses the client is never forgotten either: exactly one ingress
\* operation is pending.  (With a pause during the handshake it is: the run
\* Session_pause_resume.)
THEOREM OneIngressOperation ==
    ASSUME Commands \cap {"graceful", "pause", "vhost_pause"} = {}
    PROVE  Spec => []IngressChain
<1>0. "graceful" \notin Commands /\ NoPause
  BY DEF NoPause
<1>1. Chained => IngressChain
  <2>. SUFFICES ASSUME Chained, ~Finished(s)
                PROVE  Pending("INGRESS") + (IF s.shake THEN 1 ELSE 0) = 1
    BY DEF IngressChain
  <2>1. s \in SessionType
    BY Zenon DEF Chained, Guarded, TypeOK
  <2>2. Ingress(s) \in Nat /\ Ingress(s) + 0 = 1
    BY <1>0, <2>1, PendingTypes, Zenon DEF Chained, Chain, AtMostOne
  <2>3. Ingress(s) = 1
    BY <2>2, SMT
  <2>. QED  BY <2>1, <2>3, PendingSum, Zenon
<1>. QED  BY <1>0, <1>1, AlwaysChained, PTL

\* The same for the egress flow from the moment the vhost is known.
THEOREM OneEgressOperation ==
    ASSUME Commands \cap {"graceful", "pause", "vhost_pause"} = {}
    PROVE  Spec => []EgressChain
<1>0. "graceful" \notin Commands /\ NoPause
  BY DEF NoPause
<1>1. Chained => EgressChain
  <2>. SUFFICES ASSUME Chained, ~Finished(s), s.vhost
                PROVE  Pending("EGRESS") + (IF s.eg # "none" THEN 1 ELSE 0) = 1
    BY DEF EgressChain
  <2>1. s \in SessionType
    BY Zenon DEF Chained, Guarded, TypeOK
  <2>2. Egress(s) \in Nat /\ Egress(s) + 0 = 1
    BY <1>0, <2>1, PendingTypes, Zenon DEF Chained, Chain, AtMostOne
  <2>3. Egress(s) = 1
    BY <2>2, SMT
  <2>. QED  BY <2>1, <2>3, PendingSum, Zenon
<1>. QED  BY <1>0, <1>1, AlwaysChained, PTL

=============================================================================
